--------------------------- MODULE MC_AuraCharges ---------------------------
(***************************************************************************)
(* Model of AuraCharges for TLC.  Three kinds of spell: one using two      *)
(* proc charges, one whose two stacks stand for charges, and a             *)
(* non-stackable one that is not refreshed on recast; a proc cooldown of   *)
(* one tick; callers add or take one charge or stack at a time; two proc   *)
(* events may be nested.                                                   *)
(***************************************************************************)
EXTENDS AuraCharges

MC_SpellInfos ==
  { [charges |-> 2, stackAmount |-> 3, useStacks |-> FALSE, dontRefresh |-> FALSE],
    [charges |-> 0, stackAmount |-> 2, useStacks |-> TRUE, dontRefresh |-> FALSE],
    [charges |-> 1, stackAmount |-> 0, useStacks |-> FALSE, dontRefresh |-> TRUE] }

MC_ChargeDelta == {-1, 1}
MC_StackDelta == {-1, 1}

=============================================================================
