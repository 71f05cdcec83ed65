SPECIFICATION FairSpec
CONSTANTS
  k1 = k1
  NoKey = NoKey
  Keys = {k1}
  Names = {"go", "Go", "stop"}
  Lower <- MCLower
  Plugins = {"TShock"}
  VotingHooks = {}
  PlainHooks = {"ServerLeave"}
  MaxDepth = 2
  LatePlugins = TRUE
  ScriptsManage = TRUE
  DisposeMayThrow = TRUE
  PacketsMayThrow = TRUE
INVARIANTS TypeOK QuiescentAddonsAreSettled
PROPERTIES AutoReloadHappens ImplementsRegistry
