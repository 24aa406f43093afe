SPECIFICATION SyncSpec
CONSTANTS
  Initiator = {i1, i2}
  Ctio = {c1}
  Key = {k1, k2}
  Types <- OneOfEach
  MaxUnitAttentions = 1
  GenMod = 2
  Mirrored = TRUE
SYMMETRY Symmetry
INVARIANTS
  HolderIsRegistered
  UnregisteredMayNotWrite
  LossIsReported
  NoStaleRegistration
  PersistentAtStandby
  OwedAtStandby
PROPERTIES
  PersistentIsKept
  GenerationTellsChanges
