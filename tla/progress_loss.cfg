\* Two ops commands at a time, over two lanterns with a hint each.
CONSTANTS
  Procs = {p1, p2}
  N = 2
  HintsPerStep = 1
  DefaultHints = 1
SPECIFICATION Spec
PROPERTIES VerifyAllPreserves
