\* Two turns of one or two processes; numbers have two digits from the third on.
CONSTANTS
  Entity = {"Acme Corp", "Mike", "Jane", "Sue"}
  Regex <- MCRegex
  Radix = 3
  Config <- MCConfig
  Text <- MCText
  Padding = 2
  MinSpeech = 2
  MaxFrames = 4
  MaxTurns = 2
SPECIFICATION Spec
INVARIANTS TypeOK ShieldHolds ToldTheTruth VoicedKept
PROPERTIES NamesRestored
CHECK_DEADLOCK FALSE
