\* Two ops commands at a time, two lanterns with a hint each, and fewer
\* hints in all than the lanterns have.
CONSTANTS
  Procs = {p1, p2}
  N = 2
  HintsPerStep = 1
  DefaultHints = 1
SPECIFICATION Spec
SYMMETRY Symmetry
INVARIANTS TypeOK NothingUnearned HintsAgree
PROPERTIES LostOnlyToOverlap LoneGraderReportsFile
