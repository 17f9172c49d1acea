SPECIFICATION Spec
CONSTANTS
  Keys <- MCKeys
  Program <- MCProgram
  Statements = {"show", "break", "continue", "if", "case", "decl", "handle", "bit", "setbit", "net", "nba", "nbabit", "delay", "local", "push", "wait", "waitq", "none", "join", "any", "empty", "late", "latejoin", "lateany", "call", "call2", "cond", "merge", "each"}
  Followers = {"show", "continue", "break", "if", "delay", "net", "nba", "none", "case", "call", "each", "setbit", "wait", "join", "waitq", "late", "latejoin", "lateany", "local"}
  Horizon = 5
  Fuel = 12
INVARIANT RunsAsWritten
PROPERTY Ends
CHECK_DEADLOCK FALSE
