SPECIFICATION SSpec
CONSTANTS
  StdoutFails = FALSE
  MaxEntries = 3
  BuffSize = 150
  Lens <- MCLens
  Inputs <- PrivateInputs
  MaxDecodes = 1
INVARIANT HashOfInfo
CHECK_DEADLOCK FALSE
