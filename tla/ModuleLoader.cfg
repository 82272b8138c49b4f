SPECIFICATION FairSpec
CONSTANTS
  main = main
  dotmain = dotmain
  a = a
  b = b
  f = f
  g = g
  NULL = NULL
  Path <- MCPath
  FileOf <- MCFileOf
  Entry = main
  Symbol <- MCSymbol
  Statements <- MCStatements
  MaxBody <- MCMaxBody
INVARIANTS LoadedOnce EmissionExact ImportsFirst Resolved
PROPERTIES LoadingEnds
\* A loaded program, or an import error, is the end.
CHECK_DEADLOCK FALSE
