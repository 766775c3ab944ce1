SPECIFICATION Spec
CONSTANTS
  NoSym = NoSym
  NoFile = NoFile
  Decl <- ToolchainDecl
  MenuOrder <- ToolchainOrder
  Symbols = {"A", "C", "V1", "V2", "B", "L", "H"}
  ModulesSym = NoSym
  InitialFiles <- FewFiles
  MaxEdits = 2
  MaxSaves = 1
  RenameMayFail = TRUE
  LoadMissing = FALSE
INVARIANTS TableIsSound 
PROPERTIES WrittenIsSound 
