SPECIFICATION Spec
CONSTANTS
  NoSym = NoSym
  NoFile = NoFile
  Decl <- ModulesDecl
  MenuOrder <- ModulesOrder
  Symbols = {"M", "D", "W1", "W2", "T", "X", "U", "S"}
  ModulesSym = "M"
  InitialFiles <- ModFiles
  MaxEdits = 2
  MaxSaves = 1
  RenameMayFail = FALSE
  LoadMissing = TRUE
PROPERTIES WrittenReadsBack AcceptedValueSticks
