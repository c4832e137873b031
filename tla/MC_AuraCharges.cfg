\* Charge, stack and charge-drop accounting of one aura; callers request
\* delayed charge drops only on auras that are not removed.
CONSTANTS
  SpellInfos <- MC_SpellInfos
  ProcCooldown = 1
  DropOnRemoved = FALSE
  ChargeDelta <- MC_ChargeDelta
  StackDelta <- MC_StackDelta
  MaxProcDepth = 2
  MaxEvents = 1

SPECIFICATION Spec

INVARIANTS
  ChargesExhaustedRemoves
  StackInRange
  DropEventTracked
  DropEventBaseValid

PROPERTIES
  LifecycleRefined
