\* A delayed charge drop requested on an aura that is already removed but
\* not yet freed: the ChargeDropEvent outlives the aura.
CONSTANTS
  SpellInfos <- MC_SpellInfos
  ProcCooldown = 1
  DropOnRemoved = TRUE
  ChargeDelta <- MC_ChargeDelta
  StackDelta <- MC_StackDelta
  MaxProcDepth = 2
  MaxEvents = 1

SPECIFICATION Spec

INVARIANTS
  DropEventBaseValid
