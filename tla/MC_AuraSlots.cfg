CONSTANTS
  Unit = {u1, u2}
  Spell <- MC_Spell
  MaxAuras = 1
  MaxAuraObjects = 3
  AreaSpell <- MC_AreaSpell
  MultiSlotSpell <- MC_MultiSlotSpell
  MultiCasterSpell <- MC_MultiCasterSpell
  HiddenSpell <- MC_HiddenSpell
SPECIFICATION Spec
INVARIANTS
  VisibleSlotHeldByApplied
  AppliedSlotShown
  AppliedAurasStack
PROPERTIES
  SlotNotDisplaced
