SPECIFICATION Spec
CONSTANTS
  Letters = {"A", "B", "F", "G", "p", "q", "x", "y", "z", "t", "__FILE__", "__LINE__"}
  Lines <- MCLines
  FileAt <- MCFileAt
  Unreadable <- MCUnreadable
  Guarded <- MCGuarded
  IncludeDirs <- MCIncludeDirs
  MainPath <- MCMainPath
  Alphabet <- MCAlphabet
  MaxIncludeDepth = 3
  MaxExpandDepth = 8
  MaxLines = 5
  MaxScan = 5
INVARIANTS BranchesExact IncludedOnce  CommentsStripped ArgumentsExact
CHECK_DEADLOCK FALSE
