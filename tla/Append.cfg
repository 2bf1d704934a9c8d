\* Three calls, one after another or together, with crashes and short writes.
CONSTANTS
  Appender = {a1, a2, a3}
  Seed = {g}
  Genesis = Genesis
  Malformed = Malformed
  Original = Original
  NoFile = NoFile
SPECIFICATION Spec
SYMMETRY Symmetry
INVARIANTS TypeOK ReportsTruth RefusalsJustified
PROPERTIES ImplementsChainFile
CHECK_DEADLOCK FALSE
