\* Two calls for one document; Markdown of up to four lines, texts of one page and of two.
CONSTANTS
  File <- MCFile
  MaxCalls = 2
  MaxLines = 4
  TextLengths = {1, 44, 45, 46}
SPECIFICATION UploadSpec
INVARIANTS UploadIsDocument LeavesInOrder
CHECK_DEADLOCK FALSE
