---------------------------- MODULE AuraLifecycle ----------------------------
(***************************************************************************)
(* What an aura promises about its life and its delayed charge drop, as    *)
(* the design states it (sections 3, 4.1 and 9 of the specification): an   *)
(* aura is active until it is removed, removal is terminal, the object is  *)
(* freed only at a safe point after removal, at most one delayed charge   *)
(* drop is pending, removal cancels it, and no pending drop outlives the   *)
(* object it refers to.  A drop that runs takes one charge, which may      *)
(* remove the aura.                                                        *)
(***************************************************************************)

VARIABLES
  life,         \* "active", "removed" or "freed"
  dropPending   \* a delayed charge drop of this aura is scheduled and will run

lvars == <<life, dropPending>>

Init ==
  /\ life = "active"
  /\ dropPending = FALSE

\* A delayed charge drop is scheduled on an active aura that has none.
ScheduleDrop ==
  /\ life = "active"
  /\ ~dropPending
  /\ dropPending' = TRUE
  /\ UNCHANGED life

\* The drop runs: it may use up the last charge and remove the aura.
RunDrop ==
  /\ life = "active"
  /\ dropPending
  /\ dropPending' = FALSE
  /\ life' \in {"active", "removed"}

\* The aura is removed; a pending drop is cancelled with it.
Remove ==
  /\ life = "active"
  /\ life' = "removed"
  /\ dropPending' = FALSE

\* The owner frees a removed aura that no drop refers to.
Free ==
  /\ life = "removed"
  /\ ~dropPending
  /\ life' = "freed"
  /\ UNCHANGED dropPending

Next == ScheduleDrop \/ RunDrop \/ Remove \/ Free

Spec == Init /\ [][Next]_lvars

=============================================================================
