CONSTANTS
  state = state
  weld = weld
  Programs = {state, weld}
  Tags = {3, 4}
  Ports = {11002, 11003}
  Uninit = Uninit
  DefTag = 3
  DefPort = 11002
  DconnFirst = {weld}
  UserCfgs <- MCUserCfgs
  Pub = state
  SloopDiv = 2
  MaxChanges = 2
SPECIFICATION MCSpec
INVARIANTS PubTypeOK Undisturbed Owned StatusOnTime BlockedIsReported
PROPERTIES ListensAgain
CHECK_DEADLOCK FALSE
