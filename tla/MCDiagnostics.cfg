CONSTANTS
  Paths = {f1, f2}
  Texts <- MCTexts
  EmptyText <- MCEmptyText
  NoText = NoText
  NoReport = NoReport
  NoPull = NoPull
  Names = {"T"}
  Columns = {"b", "c"}
  Places = {1, 2}
  MaxChanges = 3

SPECIFICATION Spec
SYMMETRY Interchangeable

INVARIANTS
  TypeOK
  UnchangedMeansSame

PROPERTY
  PulledIsCurrent
