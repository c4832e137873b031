\* A world tick of 1250 ms that lands m_timeCla exactly on zero stops the
\* drain for the rest of the aura.
CONSTANTS
  SpellInfos <- MC_LongInfos
  Second = 4
  TargetMapInterval = 2
  Diffs <- MC_LateDiffs
  MaxPower = 3
  MaxClock = 16

SPECIFICATION Spec

INVARIANTS
  DrainOnTimer
