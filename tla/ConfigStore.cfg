CONSTANTS
  Nets = {plant, office, guest}
  Open = {guest}
  Absent = Absent
  Faults <- AllFaults
SPECIFICATION Spec
INVARIANTS PairIsWhole DoneIsDurable BootFollowsFlash
