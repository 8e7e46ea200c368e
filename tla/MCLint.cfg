SPECIFICATION Spec
CONSTANTS
  Worlds <- MCWorlds
  Headers <- MCHeaders
  Required <- MCRequired
  NamespaceLines = 2
  NormalTrigger = 1
  TestTrigger = 2
  LineLength = 6
  HookLineLength = 7
INVARIANTS
  JudgedAlone
  ShownAsAsked
  AcceptedIsClean
  NestingOfKeptText
  IncludeOrderExact
  LongFunctionsReported
  BracketsAgree
  ElidedIsCode
