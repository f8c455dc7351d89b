\* A scorer from two characters on, so that inputs of one bypass it; five characters
\* are too many bytes as soon as one of them is wide.
CONSTANTS
  LowerAscii = TRUE
  VToU = TRUE
  MaxChars = 5
  MinScored = 2
  InputBound = 5
  Words <- MCWords
  Separators <- MCSeparators
  Inputs <- MCInputs
  Logits <- MCLogits
SPECIFICATION Spec
INVARIANTS
  InputTypeOK
  PathsAreBest
  TextIsAccountedFor
  RangesPointAtInput
  StrictAcceptsExactlyLegal
  RepairIsNearest
