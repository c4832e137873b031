\* A permanent draining aura never drains: the drain sits inside the
\* duration countdown.
CONSTANTS
  SpellInfos <- MC_PermanentInfos
  Second = 4
  TargetMapInterval = 2
  Diffs <- MC_Diffs
  MaxPower = 3
  MaxClock = 8

SPECIFICATION Spec

INVARIANTS
  DrainOnTimer
