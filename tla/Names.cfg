SPECIFICATION Spec
CONSTANTS
  main = main
  v = v
  x = x
  y = y
  u = u
  f = f
  g = g
  run = run
  NULL = NULL
  Module = {main, v}
  Name <- MCName
  Private = {u}
  Programs <- MCPrograms
INVARIANTS GlobalMeaning CallMeaning CapturesPassed
\* A checked program, or a refusal, is the end.
CHECK_DEADLOCK FALSE
