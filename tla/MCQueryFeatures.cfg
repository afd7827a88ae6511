CONSTANTS
  Names <- MCNames
  Fold <- MCFold
  Paths <- MCPaths
  Roots <- MCRoots
  Workspaces <- MCWorkspaces
  MaxRenames = 1

SPECIFICATION Spec

INVARIANTS
  TypeOK
  RenameAgreesWithReferences
  DefinitionInvertsReferences
  MembersAgree
  TypesFollowDefinitions
  LensesCountReferences
  OutlineNestsCTEs

PROPERTIES
  FreshRenameKeepsBindings
  AliasRenameCapturesNothing

CHECK_DEADLOCK FALSE
