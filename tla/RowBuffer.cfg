SPECIFICATION Spec
CONSTANTS
    Bits <- MCBits
    Schemas <- MCSchemas
    Rows <- MCRows
    Params <- MCTypes
    FirstIndex = 15
    CutSchemas <- MCCutSchemas
    MaxCuts = 1
    MaxRows = 3
    ArchiveSize <- MCArchiveSize
    Guesses = {0, 8, 40, 1000}
INVARIANTS
  AcceptedRowsFlush
  StoredRowsReadBack
  ConversionsAgree
  ExportKeepsRows
CHECK_DEADLOCK FALSE
