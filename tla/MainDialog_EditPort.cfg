\* The Edit dialog is opened for a port whose name begins another port's name.
CONSTANTS
  Configs = {1, 2}
  Ports = {1, 10}
  Addresses = {"a", "b"}
  BadAddress = "bad"
  Files <- SavedFiles
  Statuses = {"Stopped"}
  MaxRows = 2
  MaxEdits = 1
SPECIFICATION Spec
INVARIANT EditShowsPort
