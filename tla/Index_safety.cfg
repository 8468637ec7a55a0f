SPECIFICATION Spec
CONSTANTS
  Source <- MCSource
  Files <- MCFiles
  UnnamedIds <- Ids
  NoRange = NoRange
  None = None
INVARIANTS ITypeOK ReferencesAgree BindsInScope PathsResolve RenameFindsItself
CHECK_DEADLOCK FALSE
