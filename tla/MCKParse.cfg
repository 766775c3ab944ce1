SPECIFICATION Spec
CONSTANTS
  Type <- MCType
  ModulesName = "A"
  NoSym = NoSym
  NoTree = NoTree
  Exprs <- MCExprs
  Partners <- MCPartners
  Trees <- MCTrees
CHECK_DEADLOCK FALSE
INVARIANTS ResultsAreExact TreeIsAsWritten
PROPERTIES RewritingKeepsMeaning
