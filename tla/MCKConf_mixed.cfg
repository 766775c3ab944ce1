SPECIFICATION AskSpec
CHECK_DEADLOCK FALSE
CONSTANTS
  NoSym = NoSym
  NoFile = NoFile
  Decl <- MixedDecl
  MenuOrder <- MixedOrder
  Symbols = {"M", "A", "C", "V1", "V2", "L", "P", "K"}
  ModulesSym = "M"
  InitialFiles <- AnyFile
  AskFiles <- AskedFiles
  MaxPasses = 4
INVARIANTS WrittenIsConsistent BatchSettles NothingLeftToAsk
PROPERTIES MinimalIsEnough
