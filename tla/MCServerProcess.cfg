CONSTANTS
  volt = volt
  cap = cap
  NoLeaf = NoLeaf
  Sensor = {volt, cap}
  Nominal <- MCNominal
  StepOf <- MCStepOf
  Lo <- MCLo
  Hi <- MCHi
  MaxClock = 2
  Line <- MCLine
SPECIFICATION FairServerSpec
INVARIANTS ServerTypeOK OneTick NoCommitAfterFree NoColdStart NoExitUnderThread CredentialsAsGiven
PROPERTIES NoJumps ServesOrEnds
