---------------------------- MODULE MC_AuraSlots ----------------------------
(* Small instance of AuraSlots: two units, an area spell that stacks for  *)
(* different casters and a multi-slot spell, one visible slot so that a   *)
(* unit carrying two identities runs out of slots, three aura objects.    *)
EXTENDS AuraSlots

MC_Spell == {"area", "multi"}
MC_AreaSpell == {"area"}
MC_MultiSlotSpell == {"multi"}
MC_MultiCasterSpell == {"area"}
MC_HiddenSpell == {}
=============================================================================
