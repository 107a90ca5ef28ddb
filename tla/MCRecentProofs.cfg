SPECIFICATION Spec
CONSTANTS
  Tabs = {t1, t2}
  Proofs = {p1, p2, p3}
  MaxEntries = 2
  None = none
INVARIANTS
  StoreIsNewest
  ViewIsCurrent
  SubmittingIsAwaited
  OneRowPerProof
  ButtonHasARun
SYMMETRY Symmetry
PROPERTIES
  OutcomesAreFinal
