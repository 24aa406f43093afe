SPECIFICATION Spec
CONSTANTS
  Initiator = {i1, i2}
  Ctio = {c1}
  Key = {k1, k2}
  Types <- WEAR
  MaxUnitAttentions = 1
  GenMod = 2
  Mirrored = FALSE
SYMMETRY Symmetry
INVARIANT OnlyRegistrantsWrite
