\* CoreConfig around the limits of two packages.
CONSTANTS
  IntMax = 100
  Absent = Absent
  Models <- MCModels
  Inputs <- MCInputs
SPECIFICATION Spec
INVARIANTS
  AcceptedConfigFits
  AcceptsWhatIsDocumented
