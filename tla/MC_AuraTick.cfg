\* While world ticks stay within a second, a drain follows every start of
\* the drain timer within a second.
CONSTANTS
  SpellInfos <- MC_SpellInfos
  Second = 4
  TargetMapInterval = 2
  Diffs <- MC_Diffs
  MaxPower = 3
  MaxClock = 14

SPECIFICATION Spec

INVARIANTS
  DrainOnTimer
