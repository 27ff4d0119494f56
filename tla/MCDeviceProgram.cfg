\* One device and the controller, the generator run twice, its file cut
\* anywhere.
SPECIFICATION FairSpec
CONSTANTS
  Device = {"d1"}
  Base = 2
  Secrets <- MCSecrets
  KeyLen <- MCKeyLen
INVARIANTS
  TypeOK
  LoadedWasMade
  PairedAlike
PROPERTIES
  SignalEnds
CHECK_DEADLOCK FALSE
