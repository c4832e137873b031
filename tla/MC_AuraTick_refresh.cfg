\* Stack refreshes less than a second apart restart m_timeCla each time, so
\* the aura is never drained while they go on.
CONSTANTS
  SpellInfos <- MC_SpellInfos
  Second = 4
  TargetMapInterval = 2
  Diffs <- MC_Diffs
  MaxPower = 3
  MaxClock = 14

SPECIFICATION Spec

INVARIANTS
  DrainOnSchedule
