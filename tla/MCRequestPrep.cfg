\* Two overlapping calls, one of them blocking, around one Multipart.
SPECIFICATION Spec
CONSTANTS
  c1 = c1  c2 = c2  p1 = p1  p2 = p2
  Calls = {c1, c2}
  Blocking = {c2}
  Parts = {p1, p2}
  Named <- MCNamed
  Given <- MCGiven
INVARIANTS PartsInOnePlace FormSurvivesBadArguments WireIsWhatWasAsked NothingSubmittedLate
SYMMETRY PartSymmetry
CHECK_DEADLOCK FALSE
