SPECIFICATION Spec
CONSTANTS
  HalfBase = 16
  MaxCalls = 2
  Bodies <- TranslatedFunctions
INVARIANTS
  TypeOK
  PlaceholdersRecorded
  BranchesAwaited
  BranchesResolved
  LabelsFresh
  BlocksBranchForward
  BranchesLandInCode
  I32SlotsDisjoint
  NoFieldOverflows
  FetchedAsEmitted
PROPERTIES
  FixUpTouchesOnlyPlaceholders
  TranslationEnds
CHECK_DEADLOCK FALSE
