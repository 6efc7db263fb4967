SPECIFICATION Spec
CONSTANTS
  Schemes <- MCSchemes
  Secrets <- MCSecrets
  Randoms <- MCRandoms
  Contexts <- MCContexts
  Harms <- MCHarms
  MaxSplits = 2
  MaxHarmed = 1
  MaxPresented = 3
INVARIANTS
  QuorumOpens
  OpenedIsSealed
  FewerSharesHide
CHECK_DEADLOCK FALSE
