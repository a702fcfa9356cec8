\* Two settings, of which any may be bridged, deleted and, once, edited or added to.
CONSTANTS
  Configs = {1, 2}
  Ports = {1, 10}
  Addresses = {"a", "b"}
  BadAddress = "bad"
  Files <- SavedFiles
  Statuses = {"Stopped", "Processing"}
  MaxRows = 2
  MaxEdits = 1
SPECIFICATION Spec
INVARIANT TypeOK
INVARIANT NoDuplicates
INVARIANT SavedIsRead
INVARIANT RowTellsThread
INVARIANT ListShowsStatus
INVARIANT UsesOpenHandles
INVARIANT AllReleased
INVARIANT ExclusivePort
INVARIANT WildOnlyIfDisturbed
PROPERTY GuiComesBack
