--------------------------- MODULE AuraSlots_proofs ---------------------------
(***************************************************************************)
(* Proofs about AuraSlots: type correctness of every action.               *)
(***************************************************************************)
EXTENDS AuraSlots, TLAPS

Row == [Slot -> AuraId \cup {NoAura}]

\* The visible row left by AuraApplication::_Remove holds applications or null.
LEMMA RowAfterUnapplyType ==
  ASSUME TypeOK,
         NEW row \in Row, NEW t \in Unit, NEW R \in SUBSET AuraId,
         NEW app1 \in [AuraId -> SUBSET Unit]
  PROVE  RowAfterUnapply(row, t, R, app1) \in Row
<1> SUFFICES ASSUME NEW i \in Slot
             PROVE  RowAfterUnapply(row, t, R, app1)[i] \in AuraId \cup {NoAura}
  BY DEF RowAfterUnapply, Row
<1> DEFINE gone == {x \in R : slot[x][t] = i}
<1>1. CASE gone = {}
  BY <1>1 DEF RowAfterUnapply, Row
<1>2. CASE gone # {}
  <2> DEFINE x == IF row[i] \in gone THEN row[i] ELSE CHOOSE y \in gone : TRUE
             found == SameIdOn(app1, t, Id(x))
  <2>1. found \subseteq AuraId
    BY DEF SameIdOn, AppsOn
  <2>2. found # {} => (CHOOSE b \in found : TRUE) \in AuraId
    BY <2>1
  <2>3. RowAfterUnapply(row, t, R, app1)[i]
          = IF found # {} /\ slot[CHOOSE b \in found : TRUE][t] = i
            THEN IF row[i] = x THEN CHOOSE b \in found : TRUE ELSE row[i]
            ELSE NoAura
    BY <1>2 DEF RowAfterUnapply
  <2>4. QED
    BY <2>2, <2>3 DEF Row
<1>3. QED
  BY <1>1, <1>2

\* The visible map after unapplying is a visible map.
LEMMA UnapplyAllType ==
  ASSUME TypeOK, NEW app0 \in [AuraId -> SUBSET Unit], NEW app1 \in [AuraId -> SUBSET Unit]
  PROVE  UnapplyAll(app0, app1) \in [Unit -> Row]
<1> SUFFICES ASSUME NEW t \in Unit
             PROVE  UnapplyAll(app0, app1)[t] \in Row
  BY DEF UnapplyAll
<1>1. visible[t] \in Row
  BY DEF TypeOK, Row
<1>2. Leaving(app0, app1, t) \in SUBSET AuraId
  BY DEF Leaving
<1>3. QED
  BY <1>1, <1>2, RowAfterUnapplyType DEF UnapplyAll

\* Deleting applications resets their slot to NoSlot.
LEMMA SlotsAfterType ==
  ASSUME TypeOK, NEW app0, NEW app1
  PROVE  SlotsAfter(app0, app1) \in [AuraId -> [Unit -> 0 .. MaxAuras]]
BY ConstantsAssumption DEF SlotsAfter, TypeOK, NoSlot

\* SetVisibleAura keeps a row a row.
LEMMA ShowAtType ==
  ASSUME NEW row \in Row, NEW s \in 0 .. MaxAuras, NEW a \in AuraId
  PROVE  ShowAt(row, s, a) \in Row
BY ConstantsAssumption DEF ShowAt, Row, Slot

\* Every candidate target set is a set of units.
LEMMA CandidatesType ==
  ASSUME NEW sp \in Spell, NEW o \in Unit, NEW cand \in Candidates(sp, o)
  PROVE  cand \subseteq Unit
BY DEF Candidates

\* The no-stack removal keeps an application map.
LEMMA RemoveNoStackType ==
  ASSUME TypeOK, NEW o \in Unit, NEW id
  PROVE  RemoveNoStackAuras(o, id) \in [AuraId -> SUBSET Unit]
BY DEF RemoveNoStackAuras, TypeOK

LEMMA InitTypeOK == Init => TypeOK
BY ConstantsAssumption DEF Init, TypeOK, AuraState, NoSlot, NoAura

LEMMA CreateTypeOK ==
  ASSUME TypeOK, NEW a \in AuraId, NEW sp \in Spell, NEW c \in Unit, NEW o \in Unit,
         NEW cand \in Candidates(sp, o), Create(a, sp, c, o, cand)
  PROVE  TypeOK'
<1> DEFINE id == <<sp, c>>
           app1 == RemoveNoStackAuras(o, id)
           vis1 == UnapplyAll(applied, app1)
           targets == {t \in cand : t = o \/ \A b \in AppsOn(app1, t) : CanStackWith(id, Id(b))}
<1>1. app1 \in [AuraId -> SUBSET Unit]
  BY RemoveNoStackType
<1>2. vis1 \in [Unit -> Row]
  BY <1>1, UnapplyAllType DEF TypeOK
<1>3. targets \subseteq Unit
  BY CandidatesType
<1>4. PICK ns \in [targets -> 0 .. MaxAuras] :
        /\ slot' = [SlotsAfter(applied, app1) EXCEPT
                      ![a] = [t \in Unit |-> IF t \in targets THEN ns[t] ELSE NoSlot]]
        /\ visible' = [t \in Unit |-> IF t \in targets THEN ShowAt(vis1[t], ns[t], a) ELSE vis1[t]]
  BY DEF Create
<1>5. slot' \in [AuraId -> [Unit -> 0 .. MaxAuras]]
  <2>1. SlotsAfter(applied, app1) \in [AuraId -> [Unit -> 0 .. MaxAuras]]
    BY SlotsAfterType
  <2>2. [t \in Unit |-> IF t \in targets THEN ns[t] ELSE NoSlot] \in [Unit -> 0 .. MaxAuras]
    BY ConstantsAssumption DEF NoSlot
  <2>3. QED
    BY <1>4, <2>1, <2>2
<1>6. visible' \in [Unit -> Row]
  BY <1>2, <1>4, ShowAtType
<1>7. applied' \in [AuraId -> SUBSET Unit]
  BY <1>1, <1>3 DEF Create
<1>8. /\ auraState' \in [AuraId -> AuraState]
      /\ auraOwner' \in [AuraId -> Unit]
      /\ auraSpell' \in [AuraId -> Spell]
      /\ auraCaster' \in [AuraId -> Unit]
  BY DEF Create, TypeOK, AuraState
<1>9. QED
  BY <1>5, <1>6, <1>7, <1>8 DEF TypeOK, Row

LEMMA UpdateTargetMapTypeOK ==
  ASSUME TypeOK, NEW a \in AuraId,
         NEW cand \in Candidates(auraSpell[a], auraOwner[a]), UpdateTargetMap(a, cand)
  PROVE  TypeOK'
<1> DEFINE id == Id(a)
           drop == applied[a] \ cand
           add == {t \in cand \ applied[a] :
                     t = auraOwner[a] \/ \A b \in AppsOn(applied, t) : CanStackWith(id, Id(b))}
           app1 == [applied EXCEPT ![a] = (@ \ drop) \cup add]
<1>1. cand \subseteq Unit
  BY CandidatesType DEF TypeOK
<1>2. app1 \in [AuraId -> SUBSET Unit]
  BY <1>1 DEF TypeOK
<1>3. PICK ns \in [add -> 0 .. MaxAuras] :
        /\ slot' = [slot EXCEPT ![a] = [t \in Unit |-> IF t \in add THEN ns[t]
                                                   ELSE IF t \in drop THEN NoSlot ELSE @[t]]]
        /\ visible' = [t \in Unit |->
                         IF t \in add THEN ShowAt(visible[t], ns[t], a)
                         ELSE IF t \in drop THEN RowAfterUnapply(visible[t], t, {a}, app1)
                         ELSE visible[t]]
  BY DEF UpdateTargetMap
<1>4. slot' \in [AuraId -> [Unit -> 0 .. MaxAuras]]
  BY <1>3, ConstantsAssumption DEF TypeOK, NoSlot
<1>5. visible' \in [Unit -> Row]
  <2> SUFFICES ASSUME NEW t \in Unit PROVE visible'[t] \in Row
    BY <1>3
  <2>1. visible[t] \in Row
    BY DEF TypeOK, Row
  <2>2. RowAfterUnapply(visible[t], t, {a}, app1) \in Row
    BY <1>2, <2>1, RowAfterUnapplyType
  <2>3. t \in add => ShowAt(visible[t], ns[t], a) \in Row
    BY <2>1, ShowAtType
  <2>4. QED
    BY <1>3, <2>1, <2>2, <2>3
<1>6. applied' \in [AuraId -> SUBSET Unit]
  BY <1>2 DEF UpdateTargetMap
<1>7. QED
  BY <1>4, <1>5, <1>6 DEF UpdateTargetMap, TypeOK, Row

LEMMA RemoveTypeOK ==
  ASSUME TypeOK, NEW a \in AuraId, Remove(a)
  PROVE  TypeOK'
<1>1. [applied EXCEPT ![a] = {}] \in [AuraId -> SUBSET Unit]
  BY DEF TypeOK
<1>2. QED
  BY <1>1, UnapplyAllType, SlotsAfterType DEF Remove, TypeOK, Row, AuraState

LEMMA NextTypeOK == TypeOK /\ [Next]_vars => TypeOK'
<1> SUFFICES ASSUME TypeOK, [Next]_vars PROVE TypeOK'
  OBVIOUS
<1>1. CASE \E a \in AuraId, sp \in Spell, c \in Unit, o \in Unit :
             \E cand \in Candidates(sp, o) : Create(a, sp, c, o, cand)
  BY <1>1, CreateTypeOK
<1>2. CASE \E a \in AuraId : \E cand \in Candidates(auraSpell[a], auraOwner[a]) :
             UpdateTargetMap(a, cand)
  BY <1>2, UpdateTargetMapTypeOK
<1>3. CASE \E a \in AuraId : Remove(a)
  BY <1>3, RemoveTypeOK
<1>5. CASE UNCHANGED vars
  BY <1>5 DEF vars, TypeOK
<1>6. QED
  BY <1>1, <1>2, <1>3, <1>5 DEF Next

\* Type correctness: every reachable state gives each variable its type.
THEOREM TypeCorrect == Spec => []TypeOK
BY InitTypeOK, NextTypeOK, PTL DEF Spec

-----------------------------------------------------------------------------
(***************************************************************************)
(* No two non-stacking auras on one unit.  AppliedAurasStack is not        *)
(* inductive by itself: a new aura is let onto its owner without the       *)
(* stacking filter of the other targets, which is sound only because the   *)
(* no-stack removal has cleared the owner, and an aura whose id is reused  *)
(* must carry no stale applications.  The strengthening says that an aura *)
(* that is not live has no applications and that a live aura is applied   *)
(* on its owner (FillTargetMap always returns the owner).                  *)
(***************************************************************************)

LiveApplied == \A b \in AuraId : auraState[b] # "live" => applied[b] = {}
OwnerApplied == \A b \in AuraId : auraState[b] = "live" => auraOwner[b] \in applied[b]
StackInv == TypeOK /\ LiveApplied /\ OwnerApplied /\ AppliedAurasStack

\* Aura::CanStackWith as modelled is symmetric.
LEMMA CanStackSym ==
  ASSUME NEW s1, NEW c1, NEW s2, NEW c2
  PROVE  CanStackWith(<<s1, c1>>, <<s2, c2>>) <=> CanStackWith(<<s2, c2>>, <<s1, c1>>)
BY DEF CanStackWith

\* FillTargetMap always returns the owner.
LEMMA CandidatesOwner ==
  ASSUME NEW sp \in Spell, NEW o \in Unit, NEW cand \in Candidates(sp, o)
  PROVE  o \in cand
BY DEF Candidates

\* What the no-stack removal does to each aura's applications.
LEMMA RemoveNoStackFacts ==
  ASSUME TypeOK, NEW o \in Unit, NEW id, NEW b \in AuraId
  PROVE  LET app1 == RemoveNoStackAuras(o, id) IN
         /\ app1[b] \subseteq applied[b]
         /\ o \in app1[b] => CanStackWith(id, Id(b))
         /\ auraState[b] = "live" /\ auraOwner[b] = o /\ ~CanStackWith(id, Id(b))
              => app1[b] = {}
         /\ ~(auraState[b] = "live" /\ auraOwner[b] = o) => applied[b] \ {o} \subseteq app1[b]
         /\ CanStackWith(id, Id(b)) => app1[b] = applied[b]
BY DEF RemoveNoStackAuras

LEMMA InitStackInv == Init => StackInv
BY InitTypeOK DEF Init, StackInv, LiveApplied, OwnerApplied, AppliedAurasStack

LEMMA CreateStackInv ==
  ASSUME StackInv, NEW a \in AuraId, NEW sp \in Spell, NEW c \in Unit, NEW o \in Unit,
         NEW cand \in Candidates(sp, o), Create(a, sp, c, o, cand)
  PROVE  StackInv'
<1> DEFINE id == <<sp, c>>
           app1 == RemoveNoStackAuras(o, id)
           gone == {b \in AuraId : auraState[b] = "live" /\ auraOwner[b] = o /\ ~CanStackWith(id, Id(b))}
           targets == {t \in cand : t = o \/ \A b \in AppsOn(app1, t) : CanStackWith(id, Id(b))}
<1>0. TypeOK /\ TypeOK'
  BY CreateTypeOK DEF StackInv
<1>1. /\ applied' = [app1 EXCEPT ![a] = targets]
      /\ auraState' = [b \in AuraId |-> IF b = a THEN "live"
                                        ELSE IF b \in gone THEN "removed" ELSE auraState[b]]
      /\ auraOwner' = [auraOwner EXCEPT ![a] = o]
      /\ auraSpell' = [auraSpell EXCEPT ![a] = sp]
      /\ auraCaster' = [auraCaster EXCEPT ![a] = c]
      /\ auraState[a] # "live"
  BY DEF Create
<1>2. app1 \in [AuraId -> SUBSET Unit]
  BY RemoveNoStackType DEF StackInv
<1>3. \A b \in AuraId \ {a} : Id(b)' = Id(b)
  BY <1>0, <1>1 DEF Id, TypeOK
<1>4. Id(a)' = id
  BY <1>0, <1>1 DEF Id, TypeOK
<1>5. o \in targets /\ targets \subseteq Unit
  BY CandidatesOwner, CandidatesType
<1>6. app1[a] = {}
  BY <1>1, RemoveNoStackFacts DEF StackInv, LiveApplied
<1>7. LiveApplied'
  <2> SUFFICES ASSUME NEW b \in AuraId, auraState'[b] # "live" PROVE applied'[b] = {}
    BY DEF LiveApplied
  <2>1. b # a
    BY <1>1
  <2>2. CASE b \in gone
    BY <1>1, <2>1, <2>2, RemoveNoStackFacts DEF StackInv
  <2>3. CASE b \notin gone
    <3>1. auraState[b] # "live"
      BY <1>1, <2>1, <2>3
    <3>2. applied[b] = {}
      BY <3>1 DEF StackInv, LiveApplied
    <3>3. QED
      BY <1>1, <2>1, <3>2, RemoveNoStackFacts DEF StackInv
  <2>4. QED
    BY <2>2, <2>3
<1>8. OwnerApplied'
  <2> SUFFICES ASSUME NEW b \in AuraId, auraState'[b] = "live" PROVE auraOwner'[b] \in applied'[b]
    BY DEF OwnerApplied
  <2>1. CASE b = a
    <3>1. auraOwner'[a] = o
      BY <1>0, <1>1 DEF TypeOK
    <3>2. applied'[a] = targets
      BY <1>1, <1>2
    <3>3. QED
      BY <1>5, <2>1, <3>1, <3>2
  <2>2. CASE b # a
    <3>1. auraState[b] = "live" /\ b \notin gone
      BY <1>1, <2>2
    <3>2. auraOwner[b] \in applied[b] /\ auraOwner'[b] = auraOwner[b]
      BY <1>1, <2>2, <3>1 DEF StackInv, OwnerApplied, TypeOK
    <3>3. auraOwner[b] \in app1[b]
      <4>1. CASE auraOwner[b] = o
        BY <3>1, <3>2, <4>1, RemoveNoStackFacts DEF StackInv
      <4>2. CASE auraOwner[b] # o
        BY <3>2, <4>2, RemoveNoStackFacts DEF StackInv
      <4>3. QED
        BY <4>1, <4>2
    <3>4. QED
      BY <1>1, <1>2, <2>2, <3>2, <3>3
  <2>3. QED
    BY <2>1, <2>2
<1>9. AppliedAurasStack'
  <2> SUFFICES ASSUME NEW t \in Unit, NEW x \in AuraId, NEW y \in AuraId, x # y,
                      t \in applied'[x], t \in applied'[y]
               PROVE  CanStackWith(Id(x)', Id(y)')
    BY DEF AppliedAurasStack, Id
  \* A new application of a next to an older one stacks with it.
  <2>1. ASSUME NEW z \in AuraId \ {a}, t \in targets, t \in app1[z]
        PROVE  CanStackWith(id, Id(z))
    <3>1. CASE t = o
      BY <2>1, <3>1, RemoveNoStackFacts DEF StackInv
    <3>2. CASE t # o
      <4>1. z \in AppsOn(app1, t)
        BY <2>1 DEF AppsOn
      <4>2. QED
        BY <2>1, <3>2, <4>1
    <3>3. QED
      BY <3>1, <3>2
  <2>2. CASE x # a /\ y # a
    <3>1. t \in applied[x] /\ t \in applied[y]
      BY <1>1, <1>2, <2>2, RemoveNoStackFacts DEF StackInv
    <3>2. CanStackWith(Id(x), Id(y))
      BY <3>1 DEF StackInv, AppliedAurasStack
    <3>3. QED
      BY <1>3, <2>2, <3>2
  <2>3. CASE x = a
    <3>1. t \in targets /\ t \in app1[y]
      BY <1>1, <1>2, <2>3
    <3>2. CanStackWith(id, Id(y))
      BY <2>1, <2>3, <3>1
    <3>3. QED
      BY <1>3, <1>4, <2>3, <3>2
  <2>4. CASE y = a
    <3>1. t \in targets /\ t \in app1[x]
      BY <1>1, <1>2, <2>4
    <3>2. CanStackWith(id, Id(x))
      BY <2>1, <2>4, <3>1
    <3>3. CanStackWith(Id(x), id)
      BY <3>2, CanStackSym DEF Id
    <3>4. QED
      BY <1>3, <1>4, <2>4, <3>3
  <2>5. QED
    BY <2>2, <2>3, <2>4
<1>10. QED
  BY <1>0, <1>7, <1>8, <1>9 DEF StackInv

LEMMA UpdateTargetMapStackInv ==
  ASSUME StackInv, NEW a \in AuraId,
         NEW cand \in Candidates(auraSpell[a], auraOwner[a]), UpdateTargetMap(a, cand)
  PROVE  StackInv'
<1> DEFINE id == Id(a)
           drop == applied[a] \ cand
           add == {t \in cand \ applied[a] :
                     t = auraOwner[a] \/ \A b \in AppsOn(applied, t) : CanStackWith(id, Id(b))}
<1>0. TypeOK /\ TypeOK'
  BY UpdateTargetMapTypeOK DEF StackInv
<1>1. /\ applied' = [applied EXCEPT ![a] = (@ \ drop) \cup add]
      /\ UNCHANGED <<auraState, auraOwner, auraSpell, auraCaster>>
      /\ auraState[a] = "live"
  BY DEF UpdateTargetMap
<1>2. \A b \in AuraId : Id(b)' = Id(b)
  BY <1>1 DEF Id
<1>3. auraOwner[a] \in applied[a] /\ auraOwner[a] \in cand
  BY <1>1, CandidatesOwner DEF StackInv, OwnerApplied, TypeOK
<1>4. LiveApplied' /\ OwnerApplied'
  BY <1>0, <1>1, <1>3 DEF StackInv, LiveApplied, OwnerApplied, TypeOK
<1>5. AppliedAurasStack'
  <2> SUFFICES ASSUME NEW t \in Unit, NEW x \in AuraId, NEW y \in AuraId, x # y,
                      t \in applied'[x], t \in applied'[y]
               PROVE  CanStackWith(Id(x), Id(y))
    BY <1>2 DEF AppliedAurasStack
  \* A target added to a stacks with every aura already applied there.
  <2>1. ASSUME NEW z \in AuraId \ {a}, t \in add, t \in applied[z]
        PROVE  CanStackWith(id, Id(z))
    <3>1. t # auraOwner[a]
      BY <1>3, <2>1
    <3>2. z \in AppsOn(applied, t)
      BY <2>1 DEF AppsOn
    <3>3. QED
      BY <2>1, <3>1, <3>2
  <2>2. CASE x # a /\ y # a
    BY <1>0, <1>1, <2>2 DEF StackInv, AppliedAurasStack, TypeOK
  <2>3. CASE x = a
    <3>1. t \in applied[y]
      BY <1>0, <1>1, <2>3 DEF TypeOK
    <3>2. CASE t \in applied[a]
      BY <2>3, <3>1, <3>2 DEF StackInv, AppliedAurasStack
    <3>3. CASE t \notin applied[a]
      BY <1>0, <1>1, <2>1, <2>3, <3>1, <3>3 DEF TypeOK
    <3>4. QED
      BY <3>2, <3>3
  <2>4. CASE y = a
    <3>1. t \in applied[x]
      BY <1>0, <1>1, <2>4 DEF TypeOK
    <3>2. CASE t \in applied[a]
      BY <2>4, <3>1, <3>2 DEF StackInv, AppliedAurasStack
    <3>3. CASE t \notin applied[a]
      <4>1. CanStackWith(id, Id(x))
        BY <1>0, <1>1, <2>1, <2>4, <3>1, <3>3 DEF TypeOK
      <4>2. QED
        BY <2>4, <4>1, CanStackSym DEF Id
    <3>4. QED
      BY <3>2, <3>3
  <2>5. QED
    BY <2>2, <2>3, <2>4
<1>6. QED
  BY <1>0, <1>4, <1>5 DEF StackInv

LEMMA RemoveStackInv ==
  ASSUME StackInv, NEW a \in AuraId, Remove(a)
  PROVE  StackInv'
<1>0. TypeOK'
  BY RemoveTypeOK DEF StackInv
<1>1. /\ applied' = [applied EXCEPT ![a] = {}]
      /\ auraState' = [auraState EXCEPT ![a] = "removed"]
      /\ UNCHANGED <<auraOwner, auraSpell, auraCaster>>
  BY DEF Remove
<1>2. \A b \in AuraId : Id(b)' = Id(b)
  BY <1>1 DEF Id
<1>3. LiveApplied' /\ OwnerApplied'
  BY <1>1 DEF StackInv, LiveApplied, OwnerApplied, TypeOK
<1>4. AppliedAurasStack'
  BY <1>1, <1>2 DEF StackInv, AppliedAurasStack, TypeOK
<1>5. QED
  BY <1>0, <1>3, <1>4 DEF StackInv

LEMMA NextStackInv == StackInv /\ [Next]_vars => StackInv'
<1> SUFFICES ASSUME StackInv, [Next]_vars PROVE StackInv'
  OBVIOUS
<1>1. CASE \E a \in AuraId, sp \in Spell, c \in Unit, o \in Unit :
             \E cand \in Candidates(sp, o) : Create(a, sp, c, o, cand)
  BY <1>1, CreateStackInv
<1>2. CASE \E a \in AuraId : \E cand \in Candidates(auraSpell[a], auraOwner[a]) :
             UpdateTargetMap(a, cand)
  BY <1>2, UpdateTargetMapStackInv
<1>3. CASE \E a \in AuraId : Remove(a)
  BY <1>3, RemoveStackInv
<1>4. CASE UNCHANGED vars
  BY <1>4 DEF vars, StackInv, TypeOK, LiveApplied, OwnerApplied, AppliedAurasStack, Id
<1>5. QED
  BY <1>1, <1>2, <1>3, <1>4 DEF Next

\* AppliedAurasStackHolds: for all units, spells, slot counts and aura
\* bounds, no two auras that do not stack (Aura::CanStackWith) are ever
\* applied on one unit, however creations (with the no-stack removal of
\* _AddAura), target-map updates and removals interleave.
THEOREM AppliedAurasStackHolds == Spec => []AppliedAurasStack
<1>1. Init => StackInv
  BY InitStackInv
<1>2. StackInv /\ [Next]_vars => StackInv'
  BY NextStackInv
<1>3. StackInv => AppliedAurasStack
  BY DEF StackInv
<1>4. QED
  BY <1>1, <1>2, <1>3, PTL DEF Spec

-----------------------------------------------------------------------------
(***************************************************************************)
(* No dead pointer in a visible map.  VisibleSlotHeldByApplied is kept by *)
(* AuraApplication::_Remove because an entry of a row is either left      *)
(* alone (its application does not leave), handed to an application that  *)
(* stays and holds the same slot, or cleared.  A new aura id is shown only *)
(* where it is applied, and LiveApplied ensures no row still names a      *)
(* reused id.                                                              *)
(***************************************************************************)

\* Every non-null entry of a row left by _Remove is an application that
\* stays on t, holds that slot and is not among the leaving ones.
LEMMA RowAfterUnapplyHeld ==
  ASSUME TypeOK, NEW t \in Unit, NEW R \in SUBSET AuraId,
         NEW app1 \in [AuraId -> SUBSET Unit], NEW row \in Row,
         \A i \in Slot : row[i] # NoAura =>
            /\ slot[row[i]][t] = i
            /\ row[i] \notin R => t \in app1[row[i]],
         \A b \in AuraId : t \in app1[b] => b \notin R,
         NEW i \in Slot,
         RowAfterUnapply(row, t, R, app1)[i] # NoAura
  PROVE  LET v == RowAfterUnapply(row, t, R, app1)[i] IN
         /\ v \in AuraId
         /\ t \in app1[v]
         /\ slot[v][t] = i
         /\ v \notin R
<1> DEFINE gone == {x \in R : slot[x][t] = i}
           v == RowAfterUnapply(row, t, R, app1)[i]
<1>0. row[i] \in AuraId \cup {NoAura}
  BY DEF Row
<1>1. CASE gone = {}
  <2>1. v = row[i]
    BY <1>1 DEF RowAfterUnapply
  <2>2. row[i] # NoAura /\ row[i] \in AuraId
    BY <1>0, <2>1
  <2>3. row[i] \notin R
    BY <1>1, <2>2
  <2>4. QED
    BY <2>1, <2>2, <2>3
<1>2. CASE gone # {}
  <2> DEFINE x == IF row[i] \in gone THEN row[i] ELSE CHOOSE y \in gone : TRUE
             found == SameIdOn(app1, t, Id(x))
             pick == CHOOSE b \in found : TRUE
  <2>1. v = IF found # {} /\ slot[pick][t] = i
              THEN IF row[i] = x THEN pick ELSE row[i]
              ELSE NoAura
    BY <1>2 DEF RowAfterUnapply
  <2>2. found # {} /\ slot[pick][t] = i
    BY <2>1
  <2>3. CASE row[i] = x
    <3>1. pick \in found
      BY <2>2
    <3>2. pick \in AuraId /\ t \in app1[pick]
      BY <3>1 DEF SameIdOn, AppsOn
    <3>3. QED
      BY <2>1, <2>2, <2>3, <3>2
  <2>4. CASE row[i] # x
    <3>1. row[i] \notin gone
      BY <2>4
    <3>2. row[i] # NoAura
      BY <2>1, <2>2, <2>4
    <3>3. slot[row[i]][t] = i
      BY <3>2
    <3>4. row[i] \notin R
      BY <3>1, <3>3
    <3>5. QED
      BY <1>0, <2>1, <2>2, <2>4, <3>2, <3>3, <3>4
  <2>5. QED
    BY <2>3, <2>4
<1>3. QED
  BY <1>1, <1>2

\* Unapplying every application that leaves between applied and app1 keeps
\* every shown application applied and holding its slot.
LEMMA UnapplyAllHeld ==
  ASSUME TypeOK, VisibleSlotHeldByApplied,
         NEW app1 \in [AuraId -> SUBSET Unit],
         NEW t \in Unit, NEW i \in Slot,
         UnapplyAll(applied, app1)[t][i] # NoAura
  PROVE  LET v == UnapplyAll(applied, app1)[t][i] IN
         /\ v \in AuraId
         /\ t \in app1[v]
         /\ SlotsAfter(applied, app1)[v][t] = i
<1> DEFINE L == Leaving(applied, app1, t)
           v == UnapplyAll(applied, app1)[t][i]
<1>0. visible[t] \in Row
  BY DEF TypeOK, Row
<1>1. CASE L = {}
  <2>1. v = visible[t][i]
    BY <1>1 DEF UnapplyAll
  <2>2. v \in AuraId /\ t \in applied[v] /\ slot[v][t] = i
    BY <1>0, <2>1 DEF VisibleSlotHeldByApplied, Row
  <2>3. v \notin L
    BY <1>1
  <2>4. t \in app1[v]
    BY <2>2, <2>3 DEF Leaving
  <2>5. QED
    BY <2>2, <2>3, <2>4 DEF SlotsAfter
<1>2. CASE L # {}
  <2>1. v = RowAfterUnapply(visible[t], t, L, app1)[i]
    BY <1>2 DEF UnapplyAll
  <2>2. L \in SUBSET AuraId
    BY DEF Leaving
  <2>3. \A j \in Slot : visible[t][j] # NoAura =>
            /\ slot[visible[t][j]][t] = j
            /\ visible[t][j] \notin L => t \in app1[visible[t][j]]
    BY <1>0 DEF VisibleSlotHeldByApplied, Leaving, Row
  <2>4. \A b \in AuraId : t \in app1[b] => b \notin L
    BY DEF Leaving
  <2>5. /\ v \in AuraId
        /\ t \in app1[v]
        /\ slot[v][t] = i
        /\ v \notin L
    BY <1>0, <2>1, <2>2, <2>3, <2>4, RowAfterUnapplyHeld
  <2>6. QED
    BY <2>5 DEF SlotsAfter
<1>3. QED
  BY <1>1, <1>2

\* _AddAura and ApplyForTargets keep every shown application applied: the
\* rows left by the no-stack removal hold staying applications, and the new
\* aura is shown only on its targets, in the slot it was given.
LEMMA CreateVisible ==
  ASSUME StackInv, VisibleSlotHeldByApplied,
         NEW a \in AuraId, NEW sp \in Spell, NEW c \in Unit, NEW o \in Unit,
         NEW cand \in Candidates(sp, o), Create(a, sp, c, o, cand)
  PROVE  VisibleSlotHeldByApplied'
<1> DEFINE id == <<sp, c>>
           app1 == RemoveNoStackAuras(o, id)
           vis1 == UnapplyAll(applied, app1)
           targets == {t \in cand : t = o \/ \A b \in AppsOn(app1, t) : CanStackWith(id, Id(b))}
<1>0. TypeOK
  BY DEF StackInv
<1>1. app1 \in [AuraId -> SUBSET Unit]
  BY <1>0, RemoveNoStackType
<1>2. app1[a] = {}
  <2>1. auraState[a] # "live"
    BY DEF Create
  <2>2. QED
    BY <1>0, <2>1, RemoveNoStackFacts DEF StackInv, LiveApplied
<1>3. applied' = [app1 EXCEPT ![a] = targets]
  BY DEF Create
<1>4. PICK ns \in [targets -> 0 .. MaxAuras] :
        /\ slot' = [SlotsAfter(applied, app1) EXCEPT
                      ![a] = [t \in Unit |-> IF t \in targets THEN ns[t] ELSE NoSlot]]
        /\ visible' = [t \in Unit |-> IF t \in targets THEN ShowAt(vis1[t], ns[t], a) ELSE vis1[t]]
  BY Zenon DEF Create
<1>5. vis1 \in [Unit -> Row] /\ SlotsAfter(applied, app1) \in [AuraId -> [Unit -> 0 .. MaxAuras]]
  <2>0. applied \in [AuraId -> SUBSET Unit]
    BY <1>0 DEF TypeOK
  <2>1. vis1 \in [Unit -> Row]
    BY <1>0, <1>1, <2>0, UnapplyAllType
  <2>2. SlotsAfter(applied, app1) \in [AuraId -> [Unit -> 0 .. MaxAuras]]
    BY <1>0, SlotsAfterType
  <2>3. QED
    BY <2>1, <2>2
\* An entry left by the removal is an older aura that keeps its application.
<1>6. ASSUME NEW t \in Unit, NEW i \in Slot, vis1[t][i] # NoAura
      PROVE  /\ t \in applied'[vis1[t][i]]
             /\ slot'[vis1[t][i]][t] = i
  <2> DEFINE w == vis1[t][i]
  <2>1. w \in AuraId /\ t \in app1[w] /\ SlotsAfter(applied, app1)[w][t] = i
    BY <1>0, <1>1, <1>6, UnapplyAllHeld
  <2>2. w # a
    BY <1>2, <2>1
  <2>3. QED
    BY <1>1, <1>3, <1>4, <1>5, <2>1, <2>2
<1> HIDE DEF vis1, targets
<1> SUFFICES ASSUME NEW t \in Unit, NEW i \in Slot, visible'[t][i] # NoAura
             PROVE  /\ t \in applied'[visible'[t][i]]
                    /\ slot'[visible'[t][i]][t] = i
  BY DEF VisibleSlotHeldByApplied
<1>7. CASE t \in targets /\ ns[t] < MaxAuras /\ i = ns[t]
  <2>0. ns[t] \in Slot /\ vis1[t] \in Row
    BY <1>5, <1>7, ConstantsAssumption DEF Slot
  <2>1. visible'[t][i] = a
    BY <1>4, <1>7, <2>0 DEF ShowAt, Row
  <2>2. t \in applied'[a]
    BY <1>1, <1>3, <1>7
  <2>3. slot'[a][t] = i
    BY <1>4, <1>5, <1>7 DEF StackInv
  <2>4. QED
    BY <2>1, <2>2, <2>3
<1>8. CASE ~(t \in targets /\ ns[t] < MaxAuras /\ i = ns[t])
  <2>0. vis1[t] \in Row
    BY <1>5
  <2>1. ASSUME t \in targets PROVE visible'[t][i] = vis1[t][i]
    <3>1. ns[t] \in 0 .. MaxAuras
      BY <2>1
    <3>2. visible'[t] = ShowAt(vis1[t], ns[t], a)
      BY <1>4, <2>1
    <3>3. QED
      BY <1>8, <2>0, <2>1, <3>1, <3>2 DEF ShowAt, Row
  <2>2. ASSUME t \notin targets PROVE visible'[t][i] = vis1[t][i]
    BY <1>4, <2>2
  <2>3. visible'[t][i] = vis1[t][i]
    BY <2>1, <2>2
  <2>4. QED
    BY <1>6, <2>3
<1>9. QED
  BY <1>7, <1>8

\* UpdateTargetMap keeps every shown application applied: a new target
\* shows the aura in its own slot, and a dropped target's row is left by
\* _Remove with staying applications only.
LEMMA UpdateTargetMapVisible ==
  ASSUME StackInv, VisibleSlotHeldByApplied, NEW a \in AuraId,
         NEW cand \in Candidates(auraSpell[a], auraOwner[a]), UpdateTargetMap(a, cand)
  PROVE  VisibleSlotHeldByApplied'
<1> DEFINE id == Id(a)
           drop == applied[a] \ cand
           add == {t \in cand \ applied[a] :
                     t = auraOwner[a] \/ \A b \in AppsOn(applied, t) : CanStackWith(id, Id(b))}
           app1 == [applied EXCEPT ![a] = (@ \ drop) \cup add]
<1>0. TypeOK
  BY DEF StackInv
<1>1. cand \subseteq Unit
  BY <1>0, CandidatesType DEF TypeOK
<1>2. /\ app1 \in [AuraId -> SUBSET Unit]
      /\ \A b \in AuraId \ {a} : app1[b] = applied[b]
      /\ app1[a] = (applied[a] \ drop) \cup add
  BY <1>0, <1>1 DEF TypeOK
<1>3. applied' = app1
  BY DEF UpdateTargetMap
<1>4. PICK ns \in [add -> 0 .. MaxAuras] :
        /\ slot' = [slot EXCEPT ![a] = [t \in Unit |-> IF t \in add THEN ns[t]
                                                    ELSE IF t \in drop THEN NoSlot ELSE @[t]]]
        /\ visible' = [t \in Unit |->
                         IF t \in add THEN ShowAt(visible[t], ns[t], a)
                         ELSE IF t \in drop THEN RowAfterUnapply(visible[t], t, {a}, app1)
                         ELSE visible[t]]
  BY Zenon DEF UpdateTargetMap
<1>5. /\ \A b \in AuraId \ {a} : slot'[b] = slot[b]
      /\ \A t \in Unit : t \notin add /\ t \notin drop => slot'[a][t] = slot[a][t]
  BY <1>0, <1>4 DEF TypeOK
<1> HIDE DEF add, drop, app1
<1> SUFFICES ASSUME NEW t \in Unit, NEW i \in Slot, visible'[t][i] # NoAura
             PROVE  /\ t \in applied'[visible'[t][i]]
                    /\ slot'[visible'[t][i]][t] = i
  BY DEF VisibleSlotHeldByApplied
<1>6. visible[t] \in Row
  BY <1>0 DEF TypeOK, Row
\* An entry of the old row other than a is unaffected.
<1>7. ASSUME NEW v \in AuraId \ {a}, t \in applied[v], slot[v][t] = i
      PROVE  t \in applied'[v] /\ slot'[v][t] = i
  BY <1>2, <1>3, <1>5, <1>7
<1>8. CASE t \in add
  <2>1. t \notin applied[a] /\ t \in app1[a]
    BY <1>2, <1>8 DEF add
  <2>2. visible'[t] = ShowAt(visible[t], ns[t], a)
    BY <1>4, <1>8
  <2>3. CASE ns[t] < MaxAuras /\ i = ns[t]
    <3>1. ns[t] \in Slot
      BY <1>8, <2>3, ConstantsAssumption DEF Slot
    <3>2. visible'[t][i] = a
      BY <1>6, <2>2, <2>3, <3>1 DEF ShowAt, Row
    <3>3. slot'[a][t] = i
      BY <1>0, <1>4, <1>8, <2>3 DEF TypeOK
    <3>4. QED
      BY <1>3, <2>1, <3>2, <3>3
  <2>4. CASE ~(ns[t] < MaxAuras /\ i = ns[t])
    <3>1. visible'[t][i] = visible[t][i]
      BY <1>6, <1>8, <2>2, <2>4 DEF ShowAt, Row
    <3>2. visible[t][i] \in AuraId /\ t \in applied[visible[t][i]] /\ slot[visible[t][i]][t] = i
      BY <1>6, <2>4, <3>1 DEF VisibleSlotHeldByApplied, Row
    <3>3. visible[t][i] # a
      BY <2>1, <3>2
    <3>4. QED
      BY <1>7, <3>1, <3>2, <3>3
  <2>5. QED
    BY <2>3, <2>4
<1>9. CASE t \notin add /\ t \in drop
  <2>1. visible'[t][i] = RowAfterUnapply(visible[t], t, {a}, app1)[i]
    BY <1>4, <1>9
  <2>2. \A j \in Slot : visible[t][j] # NoAura =>
            /\ slot[visible[t][j]][t] = j
            /\ visible[t][j] \notin {a} => t \in app1[visible[t][j]]
    BY <1>2, <1>6 DEF VisibleSlotHeldByApplied, Row
  <2>3. \A b \in AuraId : t \in app1[b] => b \notin {a}
    BY <1>2, <1>9 DEF drop
  <2>4. LET v == visible'[t][i] IN
        /\ v \in AuraId
        /\ t \in app1[v]
        /\ slot[v][t] = i
        /\ v \notin {a}
    BY <1>0, <1>2, <1>6, <2>1, <2>2, <2>3, RowAfterUnapplyHeld
  <2>5. QED
    BY <1>2, <1>3, <1>5, <2>4
<1>10. CASE t \notin add /\ t \notin drop
  <2>1. visible'[t][i] = visible[t][i]
    BY <1>4, <1>10
  <2>2. visible[t][i] \in AuraId /\ t \in applied[visible[t][i]] /\ slot[visible[t][i]][t] = i
    BY <1>6, <2>1 DEF VisibleSlotHeldByApplied, Row
  <2>3. CASE visible[t][i] = a
    <3>1. t \in app1[a]
      BY <1>2, <1>10, <2>2, <2>3
    <3>2. QED
      BY <1>3, <1>5, <1>10, <2>1, <2>2, <2>3, <3>1
  <2>4. CASE visible[t][i] # a
    BY <1>7, <2>1, <2>2, <2>4
  <2>5. QED
    BY <2>3, <2>4
<1>11. QED
  BY <1>8, <1>9, <1>10

\* Aura::_Remove keeps every shown application applied.
LEMMA RemoveVisible ==
  ASSUME StackInv, VisibleSlotHeldByApplied, NEW a \in AuraId, Remove(a)
  PROVE  VisibleSlotHeldByApplied'
<1> DEFINE app1 == [applied EXCEPT ![a] = {}]
<1>0. TypeOK
  BY DEF StackInv
<1>1. app1 \in [AuraId -> SUBSET Unit]
  BY <1>0 DEF TypeOK
<1>2. /\ applied' = app1
      /\ visible' = UnapplyAll(applied, app1)
      /\ slot' = SlotsAfter(applied, app1)
  BY DEF Remove
<1> HIDE DEF app1
<1> SUFFICES ASSUME NEW t \in Unit, NEW i \in Slot, visible'[t][i] # NoAura
             PROVE  /\ t \in applied'[visible'[t][i]]
                    /\ slot'[visible'[t][i]][t] = i
  BY DEF VisibleSlotHeldByApplied
<1>3. UnapplyAll(applied, app1)[t][i] # NoAura
  BY <1>2
<1>4. /\ UnapplyAll(applied, app1)[t][i] \in AuraId
      /\ t \in app1[UnapplyAll(applied, app1)[t][i]]
      /\ SlotsAfter(applied, app1)[UnapplyAll(applied, app1)[t][i]][t] = i
  BY <1>0, <1>1, <1>3, UnapplyAllHeld
<1>5. QED
  BY <1>2, <1>4

\* The inductive invariant for the visible maps: the stacking invariant
\* (whose LiveApplied conjunct keeps a reused aura id off every row) and
\* the property itself.
SlotInv == StackInv /\ VisibleSlotHeldByApplied

LEMMA InitSlotInv == Init => SlotInv
<1> SUFFICES ASSUME Init PROVE SlotInv
  OBVIOUS
<1>1. StackInv
  BY InitStackInv
<1>2. VisibleSlotHeldByApplied
  BY DEF Init, VisibleSlotHeldByApplied, NoAura
<1>3. QED
  BY <1>1, <1>2 DEF SlotInv

LEMMA NextSlotInv == SlotInv /\ [Next]_vars => SlotInv'
<1> SUFFICES ASSUME SlotInv, [Next]_vars PROVE SlotInv'
  OBVIOUS
<1>1. StackInv /\ VisibleSlotHeldByApplied
  BY DEF SlotInv
<1>2. StackInv'
  BY <1>1, NextStackInv
<1>3. CASE \E a \in AuraId, sp \in Spell, c \in Unit, o \in Unit :
             \E cand \in Candidates(sp, o) : Create(a, sp, c, o, cand)
  BY <1>1, <1>2, <1>3, CreateVisible DEF SlotInv
<1>4. CASE \E a \in AuraId : \E cand \in Candidates(auraSpell[a], auraOwner[a]) :
             UpdateTargetMap(a, cand)
  BY <1>1, <1>2, <1>4, UpdateTargetMapVisible DEF SlotInv
<1>5. CASE \E a \in AuraId : Remove(a)
  BY <1>1, <1>2, <1>5, RemoveVisible DEF SlotInv
<1>6. CASE UNCHANGED vars
  BY <1>1, <1>2, <1>6 DEF vars, SlotInv, VisibleSlotHeldByApplied
<1>7. QED
  BY <1>3, <1>4, <1>5, <1>6 DEF Next

\* VisibleSlotHeldByAppliedHolds: for all units, spells, slot counts and
\* aura bounds, no visible map ever names an application that has been
\* unapplied or that holds another slot: the handover and the slot reset
\* of AuraApplication::_Remove, the slot sharing of the AuraApplication
\* constructor and the slot reset of _DeleteRemovedApplications agree.
THEOREM VisibleSlotHeldByAppliedHolds == Spec => []VisibleSlotHeldByApplied
<1>1. Init => SlotInv
  BY InitSlotInv
<1>2. SlotInv /\ [Next]_vars => SlotInv'
  BY NextSlotInv
<1>3. SlotInv => VisibleSlotHeldByApplied
  BY DEF SlotInv
<1>4. QED
  BY <1>1, <1>2, <1>3, PTL DEF Spec

-----------------------------------------------------------------------------
(***************************************************************************)
(* No lost slot.  The handover of AuraApplication::_Remove gives a slot to *)
(* the application of the same identity that GetAuraApplication finds, and *)
(* keeps it only if that one holds the same slot.  It is sound because all *)
(* the applications of one identity on a unit share one slot (the          *)
(* AuraApplication constructor copies the slot of the one it finds) and a  *)
(* hidden aura holds none.                                                 *)
(***************************************************************************)

\* Applications of one identity on one unit hold the same slot.
SameIdSameSlot ==
  \A t \in Unit, a, b \in AuraId :
     t \in applied[a] /\ t \in applied[b] /\ Id(a) = Id(b) => slot[a][t] = slot[b][t]

\* An aura that is never sent to the client holds no visible slot.
HiddenNoSlot ==
  \A t \in Unit, a \in AuraId :
     t \in applied[a] /\ auraSpell[a] \in HiddenSpell => slot[a][t] = NoSlot

\* The slot a row left by _Remove shows for an application b that stays: if
\* the leaving applications of that slot and the staying ones of b's
\* identity agree with the row, the slot still shows b's identity.
LEMMA RowAfterUnapplyShown ==
  ASSUME TypeOK, NEW t \in Unit, NEW R \in SUBSET AuraId,
         NEW app1 \in [AuraId -> SUBSET Unit], NEW row \in Row,
         NEW b \in AuraId, NEW i \in Slot,
         t \in app1[b], slot[b][t] = i,
         row[i] # NoAura, Id(row[i]) = Id(b),
         \A x \in R : slot[x][t] = i => Id(x) = Id(b),
         \A c \in AuraId : t \in app1[c] /\ Id(c) = Id(b) => slot[c][t] = i
  PROVE  /\ RowAfterUnapply(row, t, R, app1)[i] # NoAura
         /\ Id(RowAfterUnapply(row, t, R, app1)[i]) = Id(b)
<1> DEFINE gone == {x \in R : slot[x][t] = i}
<1>1. CASE gone = {}
  BY <1>1 DEF RowAfterUnapply
<1>2. CASE gone # {}
  <2> DEFINE x == IF row[i] \in gone THEN row[i] ELSE CHOOSE y \in gone : TRUE
             found == SameIdOn(app1, t, Id(x))
             pick == CHOOSE c \in found : TRUE
  <2>1. x \in gone
    BY <1>2
  <2>2. Id(x) = Id(b)
    BY <2>1
  <2>3. b \in found
    BY <2>2 DEF SameIdOn, AppsOn
  <2> HIDE DEF x
  <2>4. pick \in AuraId /\ t \in app1[pick] /\ Id(pick) = Id(b)
    <3>1. pick \in found
      BY <2>3, Zenon
    <3>2. QED
      BY <2>2, <3>1 DEF SameIdOn, AppsOn
  <2>5. slot[pick][t] = i
    BY <2>4
  <2>6. RowAfterUnapply(row, t, R, app1)[i] = IF row[i] = x THEN pick ELSE row[i]
    <3>1. found # {} /\ slot[pick][t] = i
      BY <2>3, <2>5
    <3>2. QED
      BY <1>2, <3>1 DEF RowAfterUnapply, x
  <2>7. pick # NoAura
    <3>1. \A y \in AuraId : y # NoAura
      BY DEF AuraId, NoAura
    <3>2. QED
      BY <2>4, <3>1, Zenon
  <2>8. QED
    BY <2>4, <2>6, <2>7
<1>3. QED
  BY <1>1, <1>2

\* After unapplying the applications that leave between applied and app1,
\* an application that stays and holds a visible slot is still shown there.
LEMMA UnapplyAllShown ==
  ASSUME TypeOK, AppliedSlotShown, SameIdSameSlot,
         NEW app1 \in [AuraId -> SUBSET Unit],
         \A c \in AuraId : app1[c] \subseteq applied[c],
         NEW b \in AuraId, NEW t \in Unit, t \in app1[b], slot[b][t] < MaxAuras
  PROVE  /\ UnapplyAll(applied, app1)[t][slot[b][t]] # NoAura
         /\ Id(UnapplyAll(applied, app1)[t][slot[b][t]]) = Id(b)
<1> DEFINE L == Leaving(applied, app1, t)
           i == slot[b][t]
<1>1. i \in Slot /\ visible[t] \in Row
  <2>1. i \in 0 .. MaxAuras
    BY DEF TypeOK
  <2>2. i \in Slot
    BY <2>1, ConstantsAssumption DEF Slot
  <2>3. QED
    BY <2>2 DEF TypeOK, Row
<1>2. t \in applied[b]
  OBVIOUS
<1>3. visible[t][i] # NoAura /\ Id(visible[t][i]) = Id(b)
  BY <1>2 DEF AppliedSlotShown
<1>4. CASE L = {}
  BY <1>3, <1>4 DEF UnapplyAll
<1>5. CASE L # {}
  <2>1. L \in SUBSET AuraId
    BY DEF Leaving
  <2>2. \A x \in L : slot[x][t] = i => Id(x) = Id(b)
    <3> SUFFICES ASSUME NEW x \in L, slot[x][t] = i PROVE Id(x) = Id(b)
      OBVIOUS
    <3>1. x \in AuraId /\ t \in applied[x]
      BY DEF Leaving
    <3>2. Id(visible[t][i]) = Id(x)
      BY <3>1 DEF AppliedSlotShown, TypeOK
    <3>3. QED
      BY <1>3, <3>2
  <2>3. \A c \in AuraId : t \in app1[c] /\ Id(c) = Id(b) => slot[c][t] = i
    BY <1>2 DEF SameIdSameSlot
  <2>4. QED
    BY <1>1, <1>3, <1>5, <2>1, <2>2, <2>3, RowAfterUnapplyShown DEF UnapplyAll
<1>6. QED
  BY <1>4, <1>5

\* What the slot chosen by the AuraApplication constructor is: none for a
\* hidden aura, the shared slot when an application of the same identity
\* is found, else a free slot of the row or none.
LEMMA AssignedSlotFacts ==
  ASSUME NEW app, NEW vis, NEW t, NEW id, NEW s,
         AssignedSlot(app, vis, t, id, s),
         \A b, c \in SameIdOn(app, t, id) : slot[b][t] = slot[c][t]
  PROVE  /\ id[1] \in HiddenSpell => s = NoSlot
         /\ \A b \in SameIdOn(app, t, id) : id[1] \notin HiddenSpell => s = slot[b][t]
         /\ SameIdOn(app, t, id) = {} /\ s # NoSlot => s \in Slot /\ vis[t][s] = NoAura
BY DEF AssignedSlot, IsLowestFree

\* The invariant for the slot properties.
ShownInv == SlotInv /\ AppliedSlotShown /\ SameIdSameSlot /\ HiddenNoSlot

\* _AddAura and ApplyForTargets keep the slot sharing: the new aura takes
\* the slot of the applications of its identity it finds, a free slot,
\* or none, and an older application keeps its slot and stays shown.
LEMMA CreateShown ==
  ASSUME ShownInv,
         NEW a \in AuraId, NEW sp \in Spell, NEW c \in Unit, NEW o \in Unit,
         NEW cand \in Candidates(sp, o), Create(a, sp, c, o, cand)
  PROVE  AppliedSlotShown' /\ SameIdSameSlot' /\ HiddenNoSlot'
<1> DEFINE id == <<sp, c>>
           app1 == RemoveNoStackAuras(o, id)
           vis1 == UnapplyAll(applied, app1)
           targets == {t \in cand : t = o \/ \A b \in AppsOn(app1, t) : CanStackWith(id, Id(b))}
           IdN(x) == <<auraSpell'[x], auraCaster'[x]>>
<1>0. TypeOK /\ TypeOK' /\ VisibleSlotHeldByApplied /\ AppliedSlotShown
      /\ SameIdSameSlot /\ HiddenNoSlot
  BY CreateTypeOK DEF ShownInv, SlotInv, StackInv
<1>1. app1 \in [AuraId -> SUBSET Unit] /\ \A b \in AuraId : app1[b] \subseteq applied[b]
  BY <1>0, RemoveNoStackType, RemoveNoStackFacts
<1>2. app1[a] = {}
  <2>1. auraState[a] # "live"
    BY DEF Create
  <2>2. QED
    BY <1>0, <2>1, RemoveNoStackFacts DEF ShownInv, SlotInv, StackInv, LiveApplied
<1>3. /\ applied' = [app1 EXCEPT ![a] = targets]
      /\ auraSpell' = [auraSpell EXCEPT ![a] = sp]
      /\ auraCaster' = [auraCaster EXCEPT ![a] = c]
  BY DEF Create
<1>4. PICK ns \in [targets -> 0 .. MaxAuras] :
        /\ \A t \in targets : AssignedSlot(app1, vis1, t, id, ns[t])
        /\ slot' = [SlotsAfter(applied, app1) EXCEPT
                      ![a] = [t \in Unit |-> IF t \in targets THEN ns[t] ELSE NoSlot]]
        /\ visible' = [t \in Unit |-> IF t \in targets THEN ShowAt(vis1[t], ns[t], a) ELSE vis1[t]]
  BY Zenon DEF Create
<1>5. vis1 \in [Unit -> Row] /\ targets \subseteq Unit
  <2>1. applied \in [AuraId -> SUBSET Unit]
    BY <1>0 DEF TypeOK
  <2>2. vis1 \in [Unit -> Row]
    BY <1>0, <1>1, <2>1, UnapplyAllType
  <2>3. cand \subseteq Unit
    BY CandidatesType
  <2>4. QED
    BY <2>2, <2>3
<1>6. /\ \A b \in AuraId \ {a} : IdN(b) = Id(b) /\ auraSpell'[b] = auraSpell[b]
      /\ IdN(a) = id /\ auraSpell'[a] = sp
  BY <1>0, <1>3 DEF Id, IdN, TypeOK
<1>7. /\ \A b \in AuraId \ {a} : \A t \in app1[b] : slot'[b][t] = slot[b][t]
      /\ \A t \in targets : slot'[a][t] = ns[t]
  <2>1. SlotsAfter(applied, app1) \in [AuraId -> [Unit -> 0 .. MaxAuras]]
    BY <1>0, SlotsAfterType
  <2>2. \A b \in AuraId \ {a} : \A t \in app1[b] : slot'[b][t] = SlotsAfter(applied, app1)[b][t]
    BY <1>4, <2>1
  <2>3. \A b \in AuraId : \A t \in app1[b] : SlotsAfter(applied, app1)[b][t] = slot[b][t]
    BY <1>1 DEF SlotsAfter, Leaving
  <2>4. \A t \in targets : slot'[a][t] = ns[t]
    BY <1>4, <1>5, <2>1
  <2>5. QED
    BY <2>2, <2>3, <2>4
<1>8. \A b \in AuraId \ {a} : \A t \in Unit : t \in applied'[b] <=> t \in app1[b]
  BY <1>1, <1>3
<1>9. \A t \in targets : t \in applied'[a]
  BY <1>1, <1>3
\* What the slot of the new application on a target is.
<1>10. ASSUME NEW t \in targets
       PROVE  /\ sp \in HiddenSpell => ns[t] = NoSlot
              /\ \A b \in SameIdOn(app1, t, id) : sp \notin HiddenSpell => ns[t] = slot[b][t]
              /\ SameIdOn(app1, t, id) = {} /\ ns[t] # NoSlot
                   => ns[t] \in Slot /\ vis1[t][ns[t]] = NoAura
  <2>1. \A b, d \in SameIdOn(app1, t, id) : slot[b][t] = slot[d][t]
    BY <1>0, <1>1 DEF SameIdSameSlot, SameIdOn, AppsOn
  <2>2. AssignedSlot(app1, vis1, t, id, ns[t])
    BY SMTT(15), <1>4
  <2>3. /\ id[1] \in HiddenSpell => ns[t] = NoSlot
        /\ \A b \in SameIdOn(app1, t, id) : id[1] \notin HiddenSpell => ns[t] = slot[b][t]
        /\ SameIdOn(app1, t, id) = {} /\ ns[t] # NoSlot
             => ns[t] \in Slot /\ vis1[t][ns[t]] = NoAura
    BY <2>1, <2>2, AssignedSlotFacts
  <2>4. id[1] = sp
    OBVIOUS
  <2>5. QED
    BY <2>3, <2>4
\* An older application that stays and holds a slot is shown there in vis1.
<1>11. ASSUME NEW b \in AuraId, NEW t \in Unit, t \in app1[b], slot[b][t] < MaxAuras
       PROVE  /\ vis1[t][slot[b][t]] # NoAura
              /\ Id(vis1[t][slot[b][t]]) = Id(b)
              /\ vis1[t][slot[b][t]] \in AuraId \ {a}
  <2>1. vis1[t][slot[b][t]] # NoAura /\ Id(vis1[t][slot[b][t]]) = Id(b)
    BY <1>0, <1>1, <1>11, UnapplyAllShown
  <2>2. slot[b][t] \in Slot
    <3>1. slot[b][t] \in 0 .. MaxAuras
      BY SMTT(15), <1>0 DEF TypeOK
    <3>2. QED
      BY <1>11, <3>1, ConstantsAssumption DEF Slot
  <2>3. vis1[t][slot[b][t]] \in AuraId /\ t \in app1[vis1[t][slot[b][t]]]
    BY SMTT(15), <1>0, <1>1, <2>1, <2>2, UnapplyAllHeld
  <2>4. QED
    BY <1>2, <2>1, <2>3
<1> HIDE DEF vis1, targets, app1
<1>12. AppliedSlotShown'
  <2> SUFFICES ASSUME NEW b \in AuraId, NEW t \in Unit, t \in applied'[b], slot'[b][t] < MaxAuras
               PROVE  /\ visible'[t][slot'[b][t]] # NoAura
                      /\ IdN(visible'[t][slot'[b][t]]) = IdN(b)
    BY DEF AppliedSlotShown, Id, IdN
  <2>1. CASE b = a
    <3>1. t \in targets
      BY <1>1, <1>3, <2>1
    <3>2. ns[t] \in Slot /\ vis1[t] \in Row /\ slot'[b][t] = ns[t]
      <4>1. slot'[b][t] = ns[t] /\ ns[t] \in 0 .. MaxAuras
        <5>1. slot'[a][t] = ns[t]
          BY <1>7, <3>1
        <5>2. ns[t] \in 0 .. MaxAuras
          BY <1>4, <3>1
        <5>3. QED
          BY <2>1, <5>1, <5>2
      <4>2. QED
        BY <1>5, <4>1, ConstantsAssumption DEF Slot
    <3>3. visible'[t][slot'[b][t]] = a
      <4>1. visible'[t] = ShowAt(vis1[t], ns[t], a)
        BY <1>4, <3>1
      <4>2. QED
        BY <3>2, <4>1 DEF ShowAt, Row
    <3>4. QED
      BY <2>1, <3>3 DEF AuraId, NoAura
  <2>2. CASE b # a
    <3> DEFINE s == slot[b][t]
               w == vis1[t][s]
    <3>1. t \in app1[b] /\ slot'[b][t] = s
      BY <1>7, <1>8, <2>2
    <3>2. w # NoAura /\ Id(w) = Id(b) /\ w \in AuraId \ {a}
      BY <1>11, <3>1
    <3>3. s \in Slot /\ vis1[t] \in Row
      <4>1. s \in 0 .. MaxAuras
        BY <1>0 DEF TypeOK
      <4>2. QED
        BY <1>5, <3>1, <4>1, ConstantsAssumption DEF Slot
    <3>4. CASE t \in targets /\ ns[t] = s
      <4>1. visible'[t][s] = a
        <5>1. visible'[t] = ShowAt(vis1[t], ns[t], a)
          BY <1>4, <3>4
        <5>2. ns[t] < MaxAuras /\ ns[t] \in Slot
          BY <3>3, <3>4, ConstantsAssumption DEF Slot
        <5>3. ShowAt(vis1[t], ns[t], a) = [vis1[t] EXCEPT ![ns[t]] = a]
          BY <5>2 DEF ShowAt
        <5>4. QED
          BY <3>3, <3>4, <5>1, <5>2, <5>3 DEF Row
      <4>2. sp \notin HiddenSpell /\ ns[t] # NoSlot
        BY <1>10, <3>1, <3>4 DEF NoSlot
      <4>3. SameIdOn(app1, t, id) # {}
        BY <1>10, <3>2, <3>4, <4>2
      <4>4. PICK q \in SameIdOn(app1, t, id) : TRUE
        BY <4>3
      <4>5. q \in AuraId /\ t \in app1[q] /\ Id(q) = id /\ slot[q][t] = s
        BY <1>10, <3>4, <4>2 DEF SameIdOn, AppsOn
      <4>6. Id(w) = id
        BY <1>11, <3>1, <4>5
      <4>7. IdN(a) = IdN(b)
        <5>1. IdN(b) = Id(b)
          BY <1>6, <2>2
        <5>2. IdN(a) = id
          BY <1>6
        <5>3. QED
          BY <3>2, <4>6, <5>1, <5>2
      <4>8. a # NoAura
        BY DEF AuraId, NoAura
      <4>9. QED
        BY <3>1, <4>1, <4>7, <4>8
    <3>5. CASE ~(t \in targets /\ ns[t] = s)
      <4>1. visible'[t][s] = w
        <5>1. CASE t \in targets
          BY <1>4, <3>3, <3>5, <5>1 DEF ShowAt, Row
        <5>2. CASE t \notin targets
          BY <1>4, <5>2
        <5>3. QED
          BY <5>1, <5>2
      <4>2. QED
        BY <1>6, <2>2, <3>1, <3>2, <4>1
    <3>6. QED
      BY <3>4, <3>5
  <2>3. QED
    BY <2>1, <2>2
<1>13. SameIdSameSlot'
  <2> SUFFICES ASSUME NEW t \in Unit, NEW x \in AuraId, NEW y \in AuraId,
                      t \in applied'[x], t \in applied'[y], IdN(x) = IdN(y)
               PROVE  slot'[x][t] = slot'[y][t]
    BY DEF SameIdSameSlot, Id, IdN
  \* The new application of a and an older one y of the same identity.
  <2>1. ASSUME NEW z \in AuraId \ {a}, t \in targets, t \in app1[z], Id(z) = id
        PROVE  ns[t] = slot[z][t]
    <3>1. z \in SameIdOn(app1, t, id)
      BY <2>1 DEF SameIdOn, AppsOn
    <3>2. CASE sp \in HiddenSpell
      <4>1. auraSpell[z] \in HiddenSpell
        BY <2>1, <3>2 DEF Id
      <4>2. slot[z][t] = NoSlot
        BY <1>0, <1>1, <2>1, <4>1 DEF HiddenNoSlot
      <4>3. QED
        BY <1>10, <2>1, <3>2, <4>2
    <3>3. CASE sp \notin HiddenSpell
      BY <1>10, <2>1, <3>1, <3>3
    <3>4. QED
      BY <3>2, <3>3
  <2>2. CASE x # a /\ y # a
    BY <1>0, <1>1, <1>6, <1>7, <1>8, <2>2 DEF SameIdSameSlot
  <2>3. CASE x = a /\ y # a
    BY <1>1, <1>3, <1>6, <1>7, <1>8, <2>1, <2>3
  <2>4. CASE y = a /\ x # a
    BY <1>1, <1>3, <1>6, <1>7, <1>8, <2>1, <2>4
  <2>5. CASE x = a /\ y = a
    BY <2>5
  <2>6. QED
    BY <2>2, <2>3, <2>4, <2>5
<1>14. HiddenNoSlot'
  <2> SUFFICES ASSUME NEW t \in Unit, NEW b \in AuraId, t \in applied'[b],
                      auraSpell'[b] \in HiddenSpell
               PROVE  slot'[b][t] = NoSlot
    BY DEF HiddenNoSlot
  <2>1. CASE b = a
    BY <1>1, <1>3, <1>6, <1>7, <1>10, <2>1
  <2>2. CASE b # a
    BY <1>0, <1>1, <1>6, <1>7, <1>8, <2>2 DEF HiddenNoSlot
  <2>3. QED
    BY <2>1, <2>2
<1>15. QED
  BY <1>12, <1>13, <1>14

\* UpdateTargetMap keeps the slot sharing: a new target takes the slot of
\* the applications of the aura's identity it finds, a free slot or none,
\* and a dropped target's slot is handed over within its identity.
LEMMA UpdateTargetMapShown ==
  ASSUME ShownInv, NEW a \in AuraId,
         NEW cand \in Candidates(auraSpell[a], auraOwner[a]), UpdateTargetMap(a, cand)
  PROVE  AppliedSlotShown' /\ SameIdSameSlot' /\ HiddenNoSlot'
<1> DEFINE id == Id(a)
           drop == applied[a] \ cand
           add == {t \in cand \ applied[a] :
                     t = auraOwner[a] \/ \A b \in AppsOn(applied, t) : CanStackWith(id, Id(b))}
           app1 == [applied EXCEPT ![a] = (@ \ drop) \cup add]
<1>0. TypeOK /\ VisibleSlotHeldByApplied /\ AppliedSlotShown /\ SameIdSameSlot /\ HiddenNoSlot
  BY DEF ShownInv, SlotInv, StackInv
<1>1. cand \subseteq Unit
  BY <1>0, CandidatesType DEF TypeOK
<1>2. /\ app1 \in [AuraId -> SUBSET Unit]
      /\ \A b \in AuraId \ {a} : app1[b] = applied[b]
      /\ \A t \in Unit : t \in app1[a] <=> (t \in applied[a] /\ t \notin drop) \/ t \in add
      /\ \A t \in add : t \notin applied[a] /\ t \notin drop
      /\ \A t \in drop : t \in applied[a] /\ t \notin add
  BY <1>0, <1>1 DEF TypeOK
<1>3. applied' = app1 /\ auraSpell' = auraSpell /\ auraCaster' = auraCaster
  BY DEF UpdateTargetMap
<1>4. PICK ns \in [add -> 0 .. MaxAuras] :
        /\ \A t \in add : AssignedSlot(applied, visible, t, id, ns[t])
        /\ slot' = [slot EXCEPT ![a] = [t \in Unit |-> IF t \in add THEN ns[t]
                                                    ELSE IF t \in drop THEN NoSlot ELSE @[t]]]
        /\ visible' = [t \in Unit |->
                         IF t \in add THEN ShowAt(visible[t], ns[t], a)
                         ELSE IF t \in drop THEN RowAfterUnapply(visible[t], t, {a}, app1)
                         ELSE visible[t]]
  BY Zenon DEF UpdateTargetMap
<1>5. /\ \A b \in AuraId \ {a} : slot'[b] = slot[b]
      /\ \A t \in add : slot'[a][t] = ns[t]
      /\ \A t \in Unit : t \notin add /\ t \notin drop => slot'[a][t] = slot[a][t]
  <2>1. \A b \in AuraId \ {a} : slot'[b] = slot[b]
    BY <1>0, <1>4 DEF TypeOK
  <2>2. slot'[a] = [t \in Unit |-> IF t \in add THEN ns[t]
                                  ELSE IF t \in drop THEN NoSlot ELSE slot[a][t]]
    BY <1>0, <1>4 DEF TypeOK
  <2>3. QED
    BY <1>1, <2>1, <2>2
\* What the slot of a's new application on an added target is.
<1>6. ASSUME NEW t \in add
      PROVE  /\ id[1] \in HiddenSpell => ns[t] = NoSlot
             /\ \A b \in SameIdOn(applied, t, id) : id[1] \notin HiddenSpell => ns[t] = slot[b][t]
             /\ SameIdOn(applied, t, id) = {} /\ ns[t] # NoSlot
                  => ns[t] \in Slot /\ visible[t][ns[t]] = NoAura
  <2>0. t \in Unit
    BY <1>1
  <2>1. \A b, d \in SameIdOn(applied, t, id) : slot[b][t] = slot[d][t]
    BY SMTT(15), <1>0, <2>0 DEF SameIdSameSlot, SameIdOn, AppsOn
  <2>2. AssignedSlot(applied, visible, t, id, ns[t])
    BY <1>4
  <2> HIDE DEF id, add, drop, app1
  <2>3. QED
    BY <2>1, <2>2, AssignedSlotFacts
<1>7. \A b \in AuraId, t \in Unit : slot[b][t] < MaxAuras => slot[b][t] \in Slot
  BY <1>0, ConstantsAssumption DEF TypeOK, Slot
<1> HIDE DEF add, drop, app1
<1>8. AppliedSlotShown'
  <2> SUFFICES ASSUME NEW b \in AuraId, NEW t \in Unit, t \in app1[b], slot'[b][t] < MaxAuras
               PROVE  /\ visible'[t][slot'[b][t]] # NoAura
                      /\ Id(visible'[t][slot'[b][t]]) = Id(b)
    BY <1>3 DEF AppliedSlotShown, Id
  <2>0. visible[t] \in Row
    BY <1>0 DEF TypeOK, Row
  <2>1. CASE t \in add
    <3>1. visible'[t] = ShowAt(visible[t], ns[t], a)
      BY <1>4, <2>1
    <3>2. CASE b = a
      <4>1. slot'[b][t] = ns[t] /\ ns[t] \in Slot /\ ns[t] < MaxAuras
        <5>1. slot'[b][t] = ns[t] /\ ns[t] \in 0 .. MaxAuras
          <6>1. slot'[a][t] = ns[t]
            BY <1>5, <2>1
          <6>2. ns[t] \in 0 .. MaxAuras
            BY <1>4, <2>1
          <6>3. QED
            BY <3>2, <6>1, <6>2
        <5>2. QED
          BY <5>1, ConstantsAssumption DEF Slot
      <4>2. visible'[t][ns[t]] = a
        BY <2>0, <3>1, <4>1 DEF ShowAt, Row
      <4>3. QED
        BY <3>2, <4>1, <4>2 DEF AuraId, NoAura
    <3>3. CASE b # a
      <4> DEFINE s == slot[b][t]
      <4>1. t \in applied[b] /\ slot'[b][t] = s /\ s \in Slot
        BY <1>2, <1>5, <1>7, <3>3
      <4>2. visible[t][s] # NoAura /\ Id(visible[t][s]) = Id(b)
        BY <1>0, <4>1 DEF AppliedSlotShown
      <4>3. CASE ns[t] = s
        <5>1. visible'[t][s] = a
          BY <2>0, <3>1, <4>1, <4>3, ConstantsAssumption DEF ShowAt, Row, Slot
        <5>2. id[1] \notin HiddenSpell /\ ns[t] # NoSlot
          BY <1>6, <2>1, <4>1, <4>3, ConstantsAssumption DEF NoSlot, Slot
        <5>3. SameIdOn(applied, t, id) # {}
          BY <1>6, <2>1, <4>2, <4>3, <5>2
        <5>4. PICK q \in SameIdOn(applied, t, id) : TRUE
          BY <5>3
        <5>5. q \in AuraId /\ t \in applied[q] /\ Id(q) = id /\ slot[q][t] = s
          BY <1>6, <2>1, <4>3, <5>2 DEF SameIdOn, AppsOn
        <5>6. Id(visible[t][s]) = id
          BY <1>0, <4>1, <5>5 DEF AppliedSlotShown
        <5>7. QED
          BY <4>1, <4>2, <5>1, <5>6 DEF AuraId, NoAura
      <4>4. CASE ns[t] # s
        <5>1. visible'[t][s] = visible[t][s]
          BY <2>0, <3>1, <4>1, <4>4 DEF ShowAt, Row
        <5>2. QED
          BY <4>1, <4>2, <5>1
      <4>5. QED
        BY <4>3, <4>4
    <3>4. QED
      BY <3>2, <3>3
  <2>2. CASE t \notin add /\ t \in drop
    <3>1. visible'[t] = RowAfterUnapply(visible[t], t, {a}, app1)
      BY <1>4, <2>2
    <3>2. b # a /\ t \in applied[b]
      BY <1>2, <2>2
    <3> DEFINE s == slot[b][t]
    <3>3. slot'[b][t] = s /\ s \in Slot
      BY <1>5, <1>7, <3>2
    <3>4. visible[t][s] # NoAura /\ Id(visible[t][s]) = Id(b)
      BY <1>0, <3>2, <3>3 DEF AppliedSlotShown
    <3>5. \A x \in {a} : slot[x][t] = s => Id(x) = Id(b)
      <4>1. t \in applied[a]
        BY <1>2, <2>2
      <4>2. slot[a][t] = s => Id(visible[t][s]) = Id(a)
        BY <1>0, <1>7, <3>3, <4>1 DEF AppliedSlotShown
      <4>3. QED
        BY <3>4, <4>2
    <3>6. \A d \in AuraId : t \in app1[d] /\ Id(d) = Id(b) => slot[d][t] = s
      BY SMTT(15), <1>0, <1>2, <2>2, <3>2 DEF SameIdSameSlot
    <3>7. /\ RowAfterUnapply(visible[t], t, {a}, app1)[s] # NoAura
          /\ Id(RowAfterUnapply(visible[t], t, {a}, app1)[s]) = Id(b)
      <4>1. {a} \in SUBSET AuraId /\ app1 \in [AuraId -> SUBSET Unit] /\ s \in Slot
        BY <1>2, <3>3
      <4>2. TypeOK
        BY <1>0
      <4>3. QED
        BY SMTT(15), <2>0, <3>3, <3>4, <3>5, <3>6, <4>1, <4>2, RowAfterUnapplyShown
    <3>8. QED
      BY <3>1, <3>3, <3>7
  <2>3. CASE t \notin add /\ t \notin drop
    <3>1. visible'[t] = visible[t]
      BY <1>4, <2>3
    <3>2. t \in applied[b] /\ slot'[b][t] = slot[b][t]
      BY <1>2, <1>5, <2>3
    <3>3. QED
      BY <1>0, <3>1, <3>2 DEF AppliedSlotShown
  <2>4. QED
    BY <2>1, <2>2, <2>3
<1>9. SameIdSameSlot'
  <2> SUFFICES ASSUME NEW t \in Unit, NEW x \in AuraId, NEW y \in AuraId,
                      t \in app1[x], t \in app1[y], Id(x) = Id(y)
               PROVE  slot'[x][t] = slot'[y][t]
    BY <1>3 DEF SameIdSameSlot, Id
  \* a's application on t and another application z of its identity.
  <2>1. ASSUME NEW z \in AuraId \ {a}, t \in app1[a], t \in app1[z], Id(z) = id
        PROVE  slot'[a][t] = slot'[z][t]
    <3>1. t \in applied[z] /\ slot'[z][t] = slot[z][t]
      BY <1>2, <1>5, <2>1
    <3>2. CASE t \in add
      <4>1. z \in SameIdOn(applied, t, id)
        BY <2>1, <3>1 DEF SameIdOn, AppsOn
      <4>2. CASE id[1] \in HiddenSpell
        <5>1. auraSpell[z] \in HiddenSpell
          BY <2>1, <4>2 DEF Id
        <5>2. QED
          BY SMTT(15), <1>0, <1>5, <1>6, <3>1, <3>2, <4>2, <5>1 DEF HiddenNoSlot
      <4>3. CASE id[1] \notin HiddenSpell
        BY <1>5, <1>6, <3>1, <3>2, <4>1, <4>3
      <4>4. QED
        BY <4>2, <4>3
    <3>3. CASE t \notin add
      <4>1. t \in applied[a] /\ t \notin drop
        BY <1>2, <2>1, <3>3
      <4>2. QED
        BY <1>0, <1>5, <2>1, <3>1, <3>3, <4>1 DEF SameIdSameSlot
    <3>4. QED
      BY <3>2, <3>3
  <2>2. CASE x # a /\ y # a
    BY <1>0, <1>2, <1>5, <2>2 DEF SameIdSameSlot
  <2>3. CASE x = a /\ y # a
    BY <2>1, <2>3
  <2>4. CASE y = a /\ x # a
    BY <2>1, <2>4
  <2>5. QED
    BY <2>2, <2>3, <2>4
<1>10. HiddenNoSlot'
  <2> SUFFICES ASSUME NEW t \in Unit, NEW b \in AuraId, t \in app1[b],
                      auraSpell[b] \in HiddenSpell
               PROVE  slot'[b][t] = NoSlot
    BY <1>3 DEF HiddenNoSlot
  <2>1. CASE b = a /\ t \in add
    BY <1>5, <1>6, <2>1 DEF Id
  <2>2. CASE b = a /\ t \notin add
    BY <1>0, <1>2, <1>5, <2>2 DEF HiddenNoSlot
  <2>3. CASE b # a
    BY <1>0, <1>2, <1>5, <2>3 DEF HiddenNoSlot
  <2>4. QED
    BY <2>1, <2>2, <2>3
<1>11. QED
  BY <1>8, <1>9, <1>10

\* Aura::_Remove keeps the slot sharing: the applications that stay keep
\* their slots, and the rows hand a slot over within its identity.
LEMMA RemoveShown ==
  ASSUME ShownInv, NEW a \in AuraId, Remove(a)
  PROVE  AppliedSlotShown' /\ SameIdSameSlot' /\ HiddenNoSlot'
<1> DEFINE app1 == [applied EXCEPT ![a] = {}]
<1>0. TypeOK /\ AppliedSlotShown /\ SameIdSameSlot /\ HiddenNoSlot
  BY DEF ShownInv, SlotInv, StackInv
<1>1. app1 \in [AuraId -> SUBSET Unit] /\ \A c \in AuraId : app1[c] \subseteq applied[c]
  BY <1>0 DEF TypeOK
<1>2. /\ applied' = app1
      /\ visible' = UnapplyAll(applied, app1)
      /\ slot' = SlotsAfter(applied, app1)
      /\ auraSpell' = auraSpell /\ auraCaster' = auraCaster
  BY DEF Remove
<1>3. \A b \in AuraId, t \in Unit : t \in app1[b] => slot'[b][t] = slot[b][t]
  BY <1>2 DEF SlotsAfter, Leaving
<1> HIDE DEF app1
<1>4. AppliedSlotShown'
  <2> SUFFICES ASSUME NEW b \in AuraId, NEW t \in Unit, t \in app1[b], slot'[b][t] < MaxAuras
               PROVE  /\ UnapplyAll(applied, app1)[t][slot[b][t]] # NoAura
                      /\ Id(UnapplyAll(applied, app1)[t][slot[b][t]]) = Id(b)
    BY <1>2, <1>3 DEF AppliedSlotShown, Id
  <2>1. slot[b][t] < MaxAuras
    BY <1>3
  <2>2. QED
    BY <1>0, <1>1, <2>1, UnapplyAllShown
<1>5. SameIdSameSlot' /\ HiddenNoSlot'
  BY <1>0, <1>1, <1>2, <1>3 DEF SameIdSameSlot, HiddenNoSlot, Id
<1>6. QED
  BY <1>4, <1>5

LEMMA InitShownInv == Init => ShownInv
<1> SUFFICES ASSUME Init PROVE ShownInv
  OBVIOUS
<1>1. SlotInv
  BY InitSlotInv
<1>2. AppliedSlotShown /\ SameIdSameSlot /\ HiddenNoSlot
  BY DEF Init, AppliedSlotShown, SameIdSameSlot, HiddenNoSlot
<1>3. QED
  BY <1>1, <1>2 DEF ShownInv

LEMMA NextShownInv == ShownInv /\ [Next]_vars => ShownInv'
<1> SUFFICES ASSUME ShownInv, [Next]_vars PROVE ShownInv'
  OBVIOUS
<1>1. SlotInv'
  BY NextSlotInv DEF ShownInv
<1>2. CASE \E a \in AuraId, sp \in Spell, c \in Unit, o \in Unit :
             \E cand \in Candidates(sp, o) : Create(a, sp, c, o, cand)
  BY <1>1, <1>2, CreateShown DEF ShownInv
<1>3. CASE \E a \in AuraId : \E cand \in Candidates(auraSpell[a], auraOwner[a]) :
             UpdateTargetMap(a, cand)
  BY <1>1, <1>3, UpdateTargetMapShown DEF ShownInv
<1>4. CASE \E a \in AuraId : Remove(a)
  BY <1>1, <1>4, RemoveShown DEF ShownInv
<1>5. CASE UNCHANGED vars
  BY <1>1, <1>5 DEF vars, ShownInv, AppliedSlotShown, SameIdSameSlot, HiddenNoSlot, Id
<1>6. QED
  BY <1>2, <1>3, <1>4, <1>5 DEF Next

\* AppliedSlotShownHolds: for all units, spells, slot counts and aura
\* bounds, an applied application that holds a visible slot is shown there
\* by an application of its identity: _Remove's handover never frees a slot
\* that an application of the same identity still holds, and the
\* AuraApplication constructor never takes a slot shown by another identity.
THEOREM AppliedSlotShownHolds == Spec => []AppliedSlotShown
<1>1. Init => ShownInv
  BY InitShownInv
<1>2. ShownInv /\ [Next]_vars => ShownInv'
  BY NextShownInv
<1>3. ShownInv => AppliedSlotShown
  BY SMTT(15) DEF ShownInv
<1>4. QED
  BY <1>1, <1>2, <1>3, PTL DEF Spec

-----------------------------------------------------------------------------
(***************************************************************************)
(* No shown aura is displaced.  AuraApplication::_slot is written by the   *)
(* constructor only, so an application that stays applied across a step   *)
(* keeps its slot, and its aura keeps its identity; AppliedSlotShown in    *)
(* the next state then shows that identity in the same slot.               *)
(***************************************************************************)

\* Creation moves no older application to another slot.
LEMMA CreateSlotStable ==
  ASSUME StackInv, NEW a \in AuraId, NEW sp \in Spell, NEW c \in Unit, NEW o \in Unit,
         NEW cand \in Candidates(sp, o), Create(a, sp, c, o, cand),
         NEW b \in AuraId, NEW t \in Unit, t \in applied[b], t \in applied'[b]
  PROVE  slot'[b][t] = slot[b][t] /\ IdNext(b) = Id(b)
<1> DEFINE id == <<sp, c>>
           app1 == RemoveNoStackAuras(o, id)
           targets == {t1 \in cand : t1 = o \/ \A d \in AppsOn(app1, t1) : CanStackWith(id, Id(d))}
<1>0. TypeOK
  BY DEF StackInv
<1>1. b # a
  <2>1. auraState[a] # "live"
    BY DEF Create
  <2>2. applied[a] = {}
    BY <2>1 DEF StackInv, LiveApplied
  <2>3. QED
    BY SMTT(15), <2>2
<1>2. app1 \in [AuraId -> SUBSET Unit]
  BY <1>0, RemoveNoStackType
<1>3. t \in app1[b]
  <2>1. applied' = [app1 EXCEPT ![a] = targets]
    BY DEF Create
  <2>2. QED
    BY SMTT(15), <1>1, <1>2, <2>1
<1>4. PICK ns \in [targets -> 0 .. MaxAuras] :
        slot' = [SlotsAfter(applied, app1) EXCEPT
                   ![a] = [t1 \in Unit |-> IF t1 \in targets THEN ns[t1] ELSE NoSlot]]
  BY Zenon DEF Create
<1>5. slot'[b][t] = slot[b][t]
  <2>1. SlotsAfter(applied, app1) \in [AuraId -> [Unit -> 0 .. MaxAuras]]
    BY <1>0, SlotsAfterType
  <2>2. slot'[b] = SlotsAfter(applied, app1)[b]
    BY <1>1, <1>4, <2>1
  <2>3. QED
    BY <1>3, <2>2 DEF SlotsAfter, Leaving
<1>6. IdNext(b) = Id(b)
  <2>1. auraSpell' = [auraSpell EXCEPT ![a] = sp] /\ auraCaster' = [auraCaster EXCEPT ![a] = c]
    BY DEF Create
  <2>2. QED
    BY <1>0, <1>1, <2>1 DEF IdNext, Id, TypeOK
<1>7. QED
  BY <1>5, <1>6

\* A target-map update moves no application that stays to another slot.
LEMMA UpdateTargetMapSlotStable ==
  ASSUME TypeOK, NEW a \in AuraId,
         NEW cand \in Candidates(auraSpell[a], auraOwner[a]), UpdateTargetMap(a, cand),
         NEW b \in AuraId, NEW t \in Unit, t \in applied[b], t \in applied'[b]
  PROVE  slot'[b][t] = slot[b][t] /\ IdNext(b) = Id(b)
<1> DEFINE id == Id(a)
           drop == applied[a] \ cand
           add == {t1 \in cand \ applied[a] :
                     t1 = auraOwner[a] \/ \A d \in AppsOn(applied, t1) : CanStackWith(id, Id(d))}
<1>1. applied' = [applied EXCEPT ![a] = (@ \ drop) \cup add]
      /\ auraSpell' = auraSpell /\ auraCaster' = auraCaster
  BY DEF UpdateTargetMap
<1>2. PICK ns \in [add -> 0 .. MaxAuras] :
        slot' = [slot EXCEPT ![a] = [t1 \in Unit |-> IF t1 \in add THEN ns[t1]
                                                 ELSE IF t1 \in drop THEN NoSlot ELSE @[t1]]]
  BY Zenon DEF UpdateTargetMap
<1>3. CASE b # a
  BY <1>1, <1>2, <1>3 DEF TypeOK, IdNext, Id
<1>4. CASE b = a
  <2>1. t \notin add /\ t \notin drop
    BY SMTT(15), <1>1, <1>4 DEF TypeOK
  <2>2. QED
    BY <1>1, <1>2, <1>4, <2>1 DEF TypeOK, IdNext, Id
<1>5. QED
  BY <1>3, <1>4

\* After every step, the aura shown in a slot whose application stays is
\* shown with its identity in that slot.
LEMMA NextNotDisplaced == ShownInv /\ ShownInv' /\ [Next]_vars => NotDisplacedStep
<1> SUFFICES ASSUME ShownInv, ShownInv', [Next]_vars,
                    NEW t \in Unit, NEW i \in Slot,
                    visible[t][i] # NoAura, t \in applied'[visible[t][i]]
             PROVE  /\ visible'[t][i] # NoAura
                    /\ IdNext(visible'[t][i]) = Id(visible[t][i])
  BY DEF NotDisplacedStep
<1> DEFINE v == visible[t][i]
<1>0. TypeOK /\ StackInv
  BY DEF ShownInv, SlotInv, StackInv
<1>1. v \in AuraId /\ t \in applied[v] /\ slot[v][t] = i
  BY <1>0 DEF ShownInv, SlotInv, VisibleSlotHeldByApplied, TypeOK
<1>2. slot'[v][t] = slot[v][t] /\ IdNext(v) = Id(v)
  <2>1. CASE \E a \in AuraId, sp \in Spell, c \in Unit, o \in Unit :
               \E cand \in Candidates(sp, o) : Create(a, sp, c, o, cand)
    BY <1>0, <1>1, <2>1, CreateSlotStable
  <2>2. CASE \E a \in AuraId : \E cand \in Candidates(auraSpell[a], auraOwner[a]) :
               UpdateTargetMap(a, cand)
    BY <1>0, <1>1, <2>2, UpdateTargetMapSlotStable
  <2>3. CASE \E a \in AuraId : Remove(a)
    <3>1. PICK a \in AuraId : Remove(a)
      BY <2>3
    <3>2. /\ applied' = [applied EXCEPT ![a] = {}]
          /\ slot' = SlotsAfter(applied, [applied EXCEPT ![a] = {}])
          /\ auraSpell' = auraSpell /\ auraCaster' = auraCaster
      BY <3>1 DEF Remove
    <3>3. QED
      BY <1>1, <3>2 DEF SlotsAfter, Leaving, IdNext, Id
  <2>4. CASE UNCHANGED vars
    BY <2>4 DEF vars, IdNext, Id
  <2>5. QED
    BY SMTT(15), <2>1, <2>2, <2>3, <2>4 DEF Next
<1>3. slot'[v][t] \in Slot
  BY <1>1, <1>2
<1>4. AppliedSlotShown'
  BY DEF ShownInv
<1>5. /\ visible'[t][slot'[v][t]] # NoAura
      /\ IdNext(visible'[t][slot'[v][t]]) = IdNext(v)
  <2>1. slot'[v][t] < MaxAuras
    BY <1>3, ConstantsAssumption DEF Slot
  <2>2. \A x \in AuraId, u \in Unit :
          u \in applied'[x] /\ slot'[x][u] < MaxAuras =>
             /\ visible'[u][slot'[x][u]] # NoAura
             /\ IdNext(visible'[u][slot'[x][u]]) = IdNext(x)
    BY <1>4 DEF AppliedSlotShown, IdNext, Id
  <2>3. t \in applied'[v]
    OBVIOUS
  <2>4. QED
    BY <1>1, <2>1, <2>2, <2>3, Zenon
<1>6. QED
  BY <1>1, <1>2, <1>5

\* SlotNotDisplacedHolds: for all units, spells, slot counts and aura
\* bounds, no step of creation, target-map update or removal takes the
\* slot of an aura that stays applied and shows another identity there.
THEOREM SlotNotDisplacedHolds == Spec => SlotNotDisplaced
<1>1. Init => ShownInv
  BY InitShownInv
<1>2. ShownInv /\ [Next]_vars => ShownInv'
  BY NextShownInv
<1>3. ShownInv /\ ShownInv' /\ [Next]_vars => [NotDisplacedStep]_vars
  BY NextNotDisplaced
<1>4. QED
  BY <1>1, <1>2, <1>3, PTL DEF Spec, SlotNotDisplaced

=============================================================================
