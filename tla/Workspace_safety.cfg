SPECIFICATION MCSpec
CONSTANTS
  Files = {"f", "g"}
  Modules = {"a", "b", "c"}
  Contents <- FileContents
  Uris <- NoUris
  Deps <- LoopDeps
  Tops = {"a"}
  Excludable = {"g"}
  Gone = Gone
  Unread = Unread
  MaxEdits = 1
INVARIANTS ScanComplete WalkComplete SearchExact
PROPERTY HandlersEnd
