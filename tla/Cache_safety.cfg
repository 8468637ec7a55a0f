SPECIFICATION MCSpec
CONSTANTS
  Files = {f1, f2}
  Modules = {"a", "b"}
  Contents <- FileContents
  Uris = {"alias"}
  Gone = Gone
  Unread = Unread
  MaxEdits = 2
SYMMETRY InterchangeableFiles
INVARIANTS TypeOK NoDangling NoLeak LookupsSucceed ProjectSound FilesAgree SkipIsCurrent
PROPERTY KeepsProject
