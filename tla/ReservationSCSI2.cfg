SPECIFICATION Spec
CONSTANTS
  Initiator = {i1, i2}
  Ctio = {c1, c2}
  Key = {k1, k2}
  Types <- WE
  MaxUnitAttentions = 1
  GenMod = 2
  Mirrored = FALSE
SYMMETRY Symmetry
PROPERTY ReserveIsKept
