------------------------------ MODULE AuraSlots ------------------------------
(***************************************************************************)
(* Aura lifecycle and application binding of SpellAuras.cpp.               *)
(*                                                                         *)
(* An Aura (UnitAura) is owned by one unit and bound to a set of target    *)
(* units through AuraApplications.  Each application may hold one of the   *)
(* MAX_AURAS "visible slots" of its target; the target keeps the map       *)
(* slot -> application (Unit::m_visibleAuras).  Two applications of the    *)
(* same identity (spell id, caster) on one target share the slot; when one *)
(* of them is unapplied the slot is handed over to the other instead of    *)
(* being freed (AuraApplication::_Remove).                                 *)
(*                                                                         *)
(* Data abstraction: an aura is a small id (its address; ids are reused    *)
(* once the aura is gone), a spell and a caster; the cast item of the      *)
(* identity, effect masks, positions and scripts are left out.  Which      *)
(* units an area aura reaches is a nondeterministic subset of the units.   *)
(***************************************************************************)
EXTENDS Naturals, FiniteSets

CONSTANTS
  Unit,              \* units: owners, casters and targets of auras
  Spell,             \* spell ids
  MaxAuras,          \* MAX_AURAS: number of visible slots of a unit
  MaxAuraObjects,    \* bound on the number of simultaneously allocated auras
  AreaSpell,         \* spells with an area aura effect (IsArea)
  MultiSlotSpell,    \* SpellInfo::IsMultiSlotAura: never refreshed, may stack with itself
  MultiCasterSpell,  \* stack for different casters (channeled, ATTR3_STACK_FOR_DIFF_CASTERS, DoT/HoT)
  HiddenSpell        \* auras for which CanBeSentToClient() is false (passive, no area effect)

ASSUME ConstantsAssumption ==
  /\ MaxAuras \in Nat
  /\ MaxAuraObjects \in Nat \ {0}
  /\ Unit # {}
  /\ Spell # {}
  /\ AreaSpell \subseteq Spell
  /\ MultiSlotSpell \subseteq Spell
  /\ MultiCasterSpell \subseteq Spell
  /\ HiddenSpell \subseteq Spell \ AreaSpell

AuraId == 1 .. MaxAuraObjects
NoAura == 0                  \* a null AuraApplication* in the visible map
Slot == 0 .. (MaxAuras - 1)
NoSlot == MaxAuras           \* _slot == MAX_AURAS: the application is not shown
AuraState == {"free", "live", "removed"}

VARIABLES
  auraState,    \* free, live, or removed (m_isRemoved set, object not yet reused)
  auraOwner,    \* m_owner
  auraSpell,    \* m_spellInfo->Id
  auraCaster,   \* m_casterGuid
  applied,      \* keys of Aura::m_applications (= targets with this aura in m_appliedAuras)
  slot,         \* AuraApplication::_slot, per aura and target
  visible       \* Unit::m_visibleAuras: slot -> aura whose application is shown there

vars == <<auraState, auraOwner, auraSpell, auraCaster, applied, slot, visible>>

-----------------------------------------------------------------------------
(* Helpers *)

\* The identity under which Unit::GetAuraApplication finds an application.
Id(a) == <<auraSpell[a], auraCaster[a]>>

\* Auras applied on target t under the application map app.
AppsOn(app, t) == {b \in AuraId : t \in app[b]}

\* Applications on t with identity id (Unit::GetAuraApplication(spell, caster)).
SameIdOn(app, t, id) == {b \in AppsOn(app, t) : Id(b) = id}

\* Aura::CanStackWith(existing) for a new aura of identity nw and an existing
\* one of identity old, both distinct unit auras: different spells stack
\* (exclusivity groups are not modelled), different casters stack when the
\* spell allows it, and the same spell rank stacks only for multi-slot,
\* non-area auras.
CanStackWith(nw, old) ==
  \/ nw[1] # old[1]
  \/ nw[2] # old[2] /\ nw[1] \in MultiCasterSpell
  \/ nw[1] \in MultiSlotSpell /\ nw[1] \notin AreaSpell

\* Mutant of IsLowestFree: the slot search takes the first slot without
\* looking whether it is occupied.
IsLowestFreeFirst(row, s) == s = 0

\* s is the lowest free visible slot of row, or NoSlot when all are taken.
IsLowestFree(row, s) ==
  LET free == {i \in Slot : row[i] = NoAura} IN
  IF free = {} THEN s = NoSlot
  ELSE s \in free /\ \A i \in free : s <= i

\* The slot chosen by the AuraApplication constructor for a new application
\* of identity id on t: none when the aura is not sent to the client, the
\* slot of an application of the same identity when there is one, else the
\* lowest free slot.
AssignedSlot(app, vis, t, id, s) ==
  IF id[1] \in HiddenSpell THEN s = NoSlot
  ELSE IF SameIdOn(app, t, id) # {}
       THEN s = slot[CHOOSE b \in SameIdOn(app, t, id) : TRUE][t]
       ELSE IsLowestFree(vis[t], s)

\* SetVisibleAura(slot, this) when a slot was found.
ShowAt(row, s, a) == IF s < MaxAuras THEN [row EXCEPT ![s] = a] ELSE row

\* Mutants of RowAfterUnapply (checked to break the slot properties): the
\* slot is kept even when nobody takes it over (RemoveVisibleAura dropped),
\* and the slot is freed even when an application of the same identity
\* still shares it (the handover of _Remove dropped).
RowAfterUnapplyKeepsSlot(row, t, R, app1) ==
  [i \in Slot |-> row[i]]
RowAfterUnapplyNoHandover(row, t, R, app1) ==
  [i \in Slot |-> IF \E x \in R : slot[x][t] = i THEN NoAura ELSE row[i]]

\* AuraApplication::_Remove for the applications of the auras in R that
\* leave t; app1 is the application map once they are gone.  A slot used by
\* a leaving application is handed over to the application of the same
\* identity that GetAuraApplication finds, if that one has the same slot
\* (and only when the leaving one is shown there), and freed otherwise.
RowAfterUnapply(row, t, R, app1) ==
  [i \in Slot |->
     LET gone == {x \in R : slot[x][t] = i} IN
     IF gone = {} THEN row[i]
     ELSE LET x == IF row[i] \in gone THEN row[i] ELSE CHOOSE y \in gone : TRUE
              found == SameIdOn(app1, t, Id(x))
          IN IF found # {} /\ slot[CHOOSE b \in found : TRUE][t] = i
             THEN IF row[i] = x THEN CHOOSE b \in found : TRUE ELSE row[i]
             ELSE NoAura]

\* Auras whose application on t disappears between app0 and app1.
Leaving(app0, app1, t) == {b \in AuraId : t \in app0[b] /\ t \notin app1[b]}

\* Slots of the applications that remain once those leaving between app0
\* and app1 are deleted (Aura::_DeleteRemovedApplications).
SlotsAfter(app0, app1) ==
  [b \in AuraId |-> [t \in Unit |-> IF b \in Leaving(app0, app1, t) THEN NoSlot ELSE slot[b][t]]]

\* Visible map once every application that leaves between app0 and app1 is
\* unapplied.
UnapplyAll(app0, app1) ==
  [t \in Unit |-> IF Leaving(app0, app1, t) = {} THEN visible[t]
                  ELSE RowAfterUnapply(visible[t], t, Leaving(app0, app1, t), app1)]

\* The candidate targets FillTargetMap may return: the owner, and for an
\* area aura any set of other units in range.
Candidates(sp, o) ==
  IF sp \in AreaSpell THEN {{o} \cup S : S \in SUBSET (Unit \ {o})} ELSE {{o}}

-----------------------------------------------------------------------------
Init ==
  /\ auraState = [a \in AuraId |-> "free"]
  /\ auraOwner = [a \in AuraId |-> CHOOSE u \in Unit : TRUE]
  /\ auraSpell = [a \in AuraId |-> CHOOSE sp \in Spell : TRUE]
  /\ auraCaster = [a \in AuraId |-> CHOOSE u \in Unit : TRUE]
  /\ applied = [a \in AuraId |-> {}]
  /\ slot = [a \in AuraId |-> [t \in Unit |-> NoSlot]]
  /\ visible = [t \in Unit |-> [i \in Slot |-> NoAura]]

\* Mutant of RemoveNoStackAuras: only the owner's own auras are removed,
\* other owners' applications on the owner are left in place.
RemoveNoStackOwnedOnly(o, id) ==
  [b \in AuraId |->
     IF auraState[b] = "live" /\ auraOwner[b] = o /\ ~CanStackWith(id, Id(b)) THEN {}
     ELSE applied[b]]

(***************************************************************************)
(* Unit::_AddAura / _RemoveNoStackAurasDueToAura for a new aura of         *)
(* identity id on owner o: the owner's auras that do not stack with it are *)
(* removed (all their applications), and the applications on o of other   *)
(* owners' auras that do not stack with it are unapplied.                  *)
(***************************************************************************)
RemoveNoStackAuras(o, id) ==
  [b \in AuraId |->
     IF auraState[b] = "live" /\ auraOwner[b] = o /\ ~CanStackWith(id, Id(b)) THEN {}
     ELSE IF o \in applied[b] /\ ~CanStackWith(id, Id(b)) THEN applied[b] \ {o}
     ELSE applied[b]]

(***************************************************************************)
(* Aura::TryRefreshStackOrCreate, create branch: no refreshable aura of    *)
(* the same identity is owned by o; Aura::Create allocates a UnitAura,     *)
(* whose constructor registers it on the owner (_AddAura), then the caller *)
(* applies it (ApplyForTargets -> UpdateTargetMap): targets already        *)
(* carrying a non-stacking aura are skipped, except the owner.             *)
(***************************************************************************)
Create(a, sp, c, o, cand) ==
  LET id == <<sp, c>>
      app1 == RemoveNoStackAuras(o, id)
      vis1 == UnapplyAll(applied, app1)
      gone == {b \in AuraId : auraState[b] = "live" /\ auraOwner[b] = o /\ ~CanStackWith(id, Id(b))}
      targets == {t \in cand : t = o \/ \A b \in AppsOn(app1, t) : CanStackWith(id, Id(b))}
  IN
  /\ auraState[a] # "live"
  /\ \A b \in AuraId : b < a => auraState[b] = "live"
  /\ sp \in MultiSlotSpell
     \/ ~\E b \in AuraId : auraState[b] = "live" /\ auraOwner[b] = o /\ Id(b) = id
  /\ \E ns \in [targets -> 0 .. MaxAuras] :
       /\ \A t \in targets : AssignedSlot(app1, vis1, t, id, ns[t])
       /\ slot' = [SlotsAfter(applied, app1) EXCEPT
                     ![a] = [t \in Unit |-> IF t \in targets THEN ns[t] ELSE NoSlot]]
       /\ visible' = [t \in Unit |-> IF t \in targets THEN ShowAt(vis1[t], ns[t], a) ELSE vis1[t]]
  /\ applied' = [app1 EXCEPT ![a] = targets]
  /\ auraState' = [b \in AuraId |-> IF b = a THEN "live"
                                    ELSE IF b \in gone THEN "removed" ELSE auraState[b]]
  /\ auraOwner' = [auraOwner EXCEPT ![a] = o]
  /\ auraSpell' = [auraSpell EXCEPT ![a] = sp]
  /\ auraCaster' = [auraCaster EXCEPT ![a] = c]

(***************************************************************************)
(* Aura::UpdateTargetMap: targets no longer in range are unapplied, new    *)
(* targets are registered unless they carry an aura this one does not     *)
(* stack with (the owner is exempt).                                       *)
(***************************************************************************)
UpdateTargetMap(a, cand) ==
  LET id == Id(a)
      drop == applied[a] \ cand
      add == {t \in cand \ applied[a] :
                 t = auraOwner[a] \/ \A b \in AppsOn(applied, t) : CanStackWith(id, Id(b))}
      app1 == [applied EXCEPT ![a] = (@ \ drop) \cup add]
  IN
  /\ auraState[a] = "live"
  /\ \E ns \in [add -> 0 .. MaxAuras] :
       /\ \A t \in add : AssignedSlot(applied, visible, t, id, ns[t])
       /\ slot' = [slot EXCEPT ![a] = [t \in Unit |-> IF t \in add THEN ns[t]
                                                   ELSE IF t \in drop THEN NoSlot ELSE @[t]]]
       /\ visible' = [t \in Unit |->
                        IF t \in add THEN ShowAt(visible[t], ns[t], a)
                        ELSE IF t \in drop THEN RowAfterUnapply(visible[t], t, {a}, app1)
                        ELSE visible[t]]
  /\ applied' = app1
  /\ UNCHANGED <<auraState, auraOwner, auraSpell, auraCaster>>

(***************************************************************************)
(* UnitAura::Remove -> Unit::RemoveOwnedAura -> Aura::_Remove: the aura is *)
(* marked removed and unapplied from every target.                         *)
(***************************************************************************)
Remove(a) ==
  LET app1 == [applied EXCEPT ![a] = {}] IN
  /\ auraState[a] = "live"
  /\ auraState' = [auraState EXCEPT ![a] = "removed"]
  /\ applied' = app1
  /\ visible' = UnapplyAll(applied, app1)
  /\ slot' = SlotsAfter(applied, app1)
  /\ UNCHANGED <<auraOwner, auraSpell, auraCaster>>

Next ==
  \/ \E a \in AuraId, sp \in Spell, c \in Unit, o \in Unit :
        \E cand \in Candidates(sp, o) : Create(a, sp, c, o, cand)
  \/ \E a \in AuraId : \E cand \in Candidates(auraSpell[a], auraOwner[a]) : UpdateTargetMap(a, cand)
  \/ \E a \in AuraId : Remove(a)

Spec == Init /\ [][Next]_vars

-----------------------------------------------------------------------------
(* Properties *)

TypeOK ==
  /\ auraState \in [AuraId -> AuraState]
  /\ auraOwner \in [AuraId -> Unit]
  /\ auraSpell \in [AuraId -> Spell]
  /\ auraCaster \in [AuraId -> Unit]
  /\ applied \in [AuraId -> SUBSET Unit]
  /\ slot \in [AuraId -> [Unit -> 0 .. MaxAuras]]
  /\ visible \in [Unit -> [Slot -> AuraId \cup {NoAura}]]

\* No dead pointer in a visible map (the "prevent storing dead pointers"
\* comment of AuraApplication::_Remove): whatever a unit shows in a slot is
\* an application still applied on that unit and holding that slot.
VisibleSlotHeldByApplied ==
  \A t \in Unit, i \in Slot :
     visible[t][i] # NoAura =>
        /\ t \in applied[visible[t][i]]
        /\ slot[visible[t][i]][t] = i

\* No lost slot: an applied application that holds a visible slot is shown
\* there, by itself or by an application of the same identity (slot
\* sharing of the AuraApplication constructor and handover of _Remove).
AppliedSlotShown ==
  \A a \in AuraId, t \in Unit :
     t \in applied[a] /\ slot[a][t] < MaxAuras =>
        /\ visible[t][slot[a][t]] # NoAura
        /\ Id(visible[t][slot[a][t]]) = Id(a)

\* Two auras applied on the same unit always stack with each other: the
\* stacking filter of UpdateTargetMap and the no-stack removal on the
\* owner at creation leave no non-stacking pair bound to one target.
AppliedAurasStack ==
  \A t \in Unit, a, b \in AuraId :
     a # b /\ t \in applied[a] /\ t \in applied[b] => CanStackWith(Id(a), Id(b))

\* The identity of an aura after a step.
IdNext(x) == <<auraSpell'[x], auraCaster'[x]>>

\* One step displaces no shown aura: a slot whose aura stays applied on
\* the unit shows that aura's identity after the step.
NotDisplacedStep ==
  \A t \in Unit, i \in Slot :
     visible[t][i] # NoAura /\ t \in applied'[visible[t][i]] =>
        /\ visible'[t][i] # NoAura
        /\ IdNext(visible'[t][i]) = Id(visible[t][i])

\* No shown aura is displaced (the client keeps the icon of an aura it
\* still has): while the aura shown in a slot of a unit stays applied on
\* that unit, every step leaves the slot showing its identity; neither the
\* slot search of the AuraApplication constructor nor the handover of
\* _Remove hands an occupied slot to another identity.
SlotNotDisplaced == [][NotDisplacedStep]_vars

=============================================================================
