SPECIFICATION Spec
CONSTANTS
  k1 = k1
  k2 = k2
  NoKey = NoKey
  Keys = {k1, k2}
  Names = {"go"}
  Lower <- MCLower
  Plugins = {"TShock"}
  VotingHooks = {"NetSendData"}
  PlainHooks = {}
  MaxDepth = 3
  LatePlugins = FALSE
  ScriptsManage = FALSE
  DisposeMayThrow = FALSE
  PacketsMayThrow = FALSE
SYMMETRY KeySymmetry
INVARIANTS LiveWhileRunning ReleasedOwnsNothing CommandOwnedOnce OwnedIsRegistered CallbacksAreOwned
