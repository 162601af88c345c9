SPECIFICATION SFairSpec
CONSTANTS
  StdoutFails = TRUE
  MaxEntries = 3
  BuffSize = 150
  Lens <- MCLens
  Inputs <- MCInputs
  MaxDecodes = 2
INVARIANTS STypeOK DecodedFaithfully OnlyTheseFail AsksForTheTorrent HashIffKnown ResponseFaithful
PROPERTIES DecodeEnds
CHECK_DEADLOCK FALSE
