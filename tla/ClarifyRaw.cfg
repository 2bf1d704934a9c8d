\* One turn.
CONSTANTS
  Entity = {"Acme Corp", "Mike", "Jane", "Sue"}
  Regex <- MCRegex
  Radix = 3
  Config <- MCConfig
  Text <- MCText
  Padding = 2
  MinSpeech = 2
  MaxFrames = 4
  MaxTurns = 1
SPECIFICATION Spec
INVARIANTS RawStaysHome
CHECK_DEADLOCK FALSE
