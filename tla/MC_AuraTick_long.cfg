\* World ticks of up to 2250 ms drive m_timeCla below zero, and the drains
\* that catch up on the following ticks never get ahead of the time.
CONSTANTS
  SpellInfos <- MC_LongInfos
  Second = 4
  TargetMapInterval = 2
  Diffs <- MC_LongDiffs
  MaxPower = 3
  MaxClock = 20

SPECIFICATION Spec

INVARIANTS
  DrainsNotAhead
