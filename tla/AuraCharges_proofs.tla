-------------------------- MODULE AuraCharges_proofs --------------------------
(***************************************************************************)
(* Proofs about AuraCharges.  The charge invariant is not inductive alone: *)
(* a prepared proc may leave a charge-using aura at zero charges until its *)
(* trigger step removes it, so ChargeInv says that this only happens while *)
(* a proc is pending, and only for auras whose charges are not stacks.     *)
(* The type invariant needs DropEventTracked, since _Remove decrements the *)
(* queue exactly when m_dropEvent is set.                                  *)
(***************************************************************************)
EXTENDS AuraCharges, TLAPS

\* A charge-using aura at zero charges that is not removed has a proc
\* pending whose trigger step will remove it.
ChargeInv ==
  usingCharges /\ ~removed /\ charges = 0 => procPending > 0 /\ ~UseStacksForCharges

Inv == TypeOK /\ DropEventTracked /\ ChargeInv

LEMMA ConstFacts ==
  ProcCooldown \in Nat /\ MaxEvents \in Nat /\ MaxProcDepth \in Nat /\ DropOnRemoved \in BOOLEAN
BY AuraChargesAssumption

LEMMA InfoFacts ==
  ASSUME TypeOK
  PROVE  /\ CalcMaxCharges \in Byte
         /\ StackAmount \in Nat
         /\ UseStacksForCharges \in BOOLEAN
         /\ DontRefreshOnRecast \in BOOLEAN
<1>1. info \in [charges : Nat, stackAmount : Nat, useStacks : BOOLEAN, dontRefresh : BOOLEAN]
  BY AuraChargesAssumption DEF TypeOK
<1>2. info.charges \in Nat
  BY <1>1
<1>3. QED
  BY <1>1, <1>2 DEF CalcMaxCharges, Byte, StackAmount, UseStacksForCharges, DontRefreshOnRecast

LEMMA InitInv == Init => Inv
<1> SUFFICES ASSUME Init PROVE Inv
  OBVIOUS
<1>1. info.charges \in Nat
  BY AuraChargesAssumption DEF Init
<1>2. CalcMaxCharges \in Byte
  BY <1>1 DEF CalcMaxCharges, Byte
<1>3. TypeOK
  <2>1. /\ charges \in Byte /\ stack \in Byte /\ cdLeft \in 0 .. ProcCooldown
        /\ armed \in 0 .. MaxEvents /\ procPending \in 0 .. MaxProcDepth
    BY <1>2, ConstFacts DEF Init, Byte
  <2>2. /\ info \in SpellInfos /\ removed \in BOOLEAN /\ deleted \in BOOLEAN
        /\ usingCharges \in BOOLEAN /\ dropEvent \in BOOLEAN
    BY Zenon DEF Init
  <2>3. QED
    BY <2>1, <2>2, Zenon DEF TypeOK
<1>4. DropEventTracked
  BY DEF Init, DropEventTracked
<1>5. ChargeInv
  BY Zenon DEF Init, ChargeInv
<1>6. QED
  BY <1>3, <1>4, <1>5 DEF Inv

\* A step creates no new "using charges with zero charges" state.
NoNewZero == usingCharges' /\ charges' = 0 => usingCharges /\ charges = 0

\* The removal state and the queue after a step, with m_dropEvent tracked.
RemovalOK ==
  /\ removed' \in BOOLEAN /\ dropEvent' \in BOOLEAN /\ armed' \in 0 .. MaxEvents
  /\ armed' = IF dropEvent' THEN 1 ELSE 0

\* The invariant of the next state, from facts about each of its parts.
LEMMA Close ==
  ASSUME Inv,
         charges' \in Byte, stack' \in Byte, cdLeft' \in 0 .. ProcCooldown,
         procPending' \in 0 .. MaxProcDepth,
         info' = info, deleted' \in BOOLEAN, usingCharges' \in BOOLEAN, RemovalOK,
         usingCharges' /\ ~removed' /\ charges' = 0 => procPending' > 0 /\ ~UseStacksForCharges
  PROVE  Inv'
BY Zenon DEF Inv, TypeOK, DropEventTracked, ChargeInv, UseStacksForCharges, RemovalOK

\* Aura::SetCharges stores c; it starts using charges only when c # 0.
LEMMA SetChargesEffect ==
  ASSUME TypeOK, NEW c \in Byte, SetCharges(c)
  PROVE  charges' = c /\ usingCharges' \in BOOLEAN /\ NoNewZero
<1>1. CASE charges = c
  BY <1>1, Zenon DEF SetCharges, TypeOK, NoNewZero
<1>2. CASE charges # c
  <2>1. charges' = c /\ usingCharges' = (c # 0)
    BY <1>2, Zenon DEF SetCharges
  <2>2. QED
    BY <2>1, Zenon DEF NoNewZero
<1>3. QED
  BY <1>1, <1>2

\* Aura::_Remove aborts the pending charge drop together with its event.
LEMMA RemoveFromEffect ==
  ASSUME TypeOK, NEW de \in BOOLEAN, NEW ar \in 0 .. MaxEvents,
         ar = IF de THEN 1 ELSE 0, RemoveFrom(de, ar)
  PROVE  removed' = TRUE /\ RemovalOK
<1>1. removed' = TRUE /\ dropEvent' = FALSE /\ armed' = (IF de THEN ar - 1 ELSE ar)
  BY Zenon DEF RemoveFrom
<1>2. armed' = 0 /\ 0 \in 0 .. MaxEvents
  BY <1>1, ConstFacts
<1>3. QED
  BY <1>1, <1>2, Zenon DEF RemovalOK

\* UnitAura::Remove ends with the aura removed and the queue tracked.
LEMMA RemoveEffect ==
  ASSUME TypeOK, NEW de \in BOOLEAN, NEW ar \in 0 .. MaxEvents,
         ar = IF de THEN 1 ELSE 0, Remove(de, ar)
  PROVE  removed' = TRUE /\ RemovalOK
<1>1. CASE removed
  BY <1>1, Zenon DEF Remove, RemovalOK, TypeOK
<1>2. CASE ~removed
  BY <1>2, RemoveFromEffect, Zenon DEF Remove
<1>3. QED
  BY <1>1, <1>2

\* KeepRemoval passes the caller's m_dropEvent and queue on.
LEMMA KeepEffect ==
  ASSUME TypeOK, NEW de \in BOOLEAN, NEW ar \in 0 .. MaxEvents,
         ar = IF de THEN 1 ELSE 0, KeepRemoval(de, ar)
  PROVE  removed' = removed /\ RemovalOK
BY Zenon DEF KeepRemoval, RemovalOK, TypeOK

\* Aura::ModCharges keeps the charges a byte and either removes the aura or
\* creates no new zero-charge state.
LEMMA ModChargesEffect ==
  ASSUME TypeOK, NEW num \in Int, NEW de \in BOOLEAN, NEW ar \in 0 .. MaxEvents,
         ar = IF de THEN 1 ELSE 0, ModCharges(num, de, ar)
  PROVE  /\ charges' \in Byte /\ usingCharges' \in BOOLEAN /\ RemovalOK
         /\ removed' = TRUE \/ (removed' = removed /\ NoNewZero)
<1> DEFINE c == charges + num
<1>0. CalcMaxCharges \in Byte /\ charges \in Byte /\ usingCharges \in BOOLEAN
  BY InfoFacts DEF TypeOK
<1>1. CASE ~usingCharges
  <2>1. KeepRemoval(de, ar) /\ UNCHANGED <<charges, usingCharges>>
    BY <1>1 DEF ModCharges
  <2>2. QED
    BY <1>0, <2>1, KeepEffect, Zenon DEF NoNewZero
<1>2. CASE usingCharges /\ num > 0 /\ c > CalcMaxCharges
  <2>1. SetCharges(CalcMaxCharges) /\ KeepRemoval(de, ar)
    BY <1>2 DEF ModCharges
  <2>2. QED
    BY <1>0, <2>1, KeepEffect, SetChargesEffect, Zenon
<1>3. CASE usingCharges /\ ~(num > 0 /\ c > CalcMaxCharges) /\ c <= 0
  <2>1. Remove(de, ar) /\ UNCHANGED <<charges, usingCharges>>
    BY <1>3 DEF ModCharges
  <2>2. QED
    BY <1>0, <2>1, RemoveEffect, Zenon
<1>4. CASE usingCharges /\ ~(num > 0 /\ c > CalcMaxCharges) /\ c > 0
  <2>0. ~(c <= 0)
    BY <1>0, <1>4 DEF Byte
  <2>1. SetCharges(c) /\ KeepRemoval(de, ar)
    BY <1>4, <2>0, Zenon DEF ModCharges
  <2>2. c \in Byte
    BY <1>0, <1>4 DEF Byte
  <2>3. QED
    BY <2>1, <2>2, KeepEffect, SetChargesEffect, Zenon
<1>5. c <= 0 \/ c > 0
  BY <1>0 DEF Byte
<1>6. QED
  BY <1>1, <1>2, <1>3, <1>4, <1>5, Zenon

\* Aura::ModStackAmount keeps the stack count and the charges bytes and
\* either removes the aura or creates no new zero-charge state.
LEMMA ModStackAmountEffect ==
  ASSUME TypeOK, DropEventTracked, NEW num \in Int, NEW keepTimers \in BOOLEAN,
         ModStackAmount(num, keepTimers)
  PROVE  /\ charges' \in Byte /\ usingCharges' \in BOOLEAN /\ stack' \in Byte /\ RemovalOK
         /\ removed' = TRUE \/ (removed' = removed /\ NoNewZero)
<1> DEFINE s == stack + num
           new == IF num > 0 /\ s > StackAmount THEN (IF StackAmount = 0 THEN 1 ELSE StackAmount) ELSE s
           refresh == new >= stack /\ (StackAmount # 0 \/ ~DontRefreshOnRecast)
<1>0. /\ CalcMaxCharges \in Byte /\ StackAmount \in Nat
      /\ charges \in Byte /\ stack \in Byte /\ usingCharges \in BOOLEAN
      /\ dropEvent \in BOOLEAN /\ armed \in 0 .. MaxEvents
      /\ armed = IF dropEvent THEN 1 ELSE 0
  BY InfoFacts DEF TypeOK, DropEventTracked
<1>1. CASE ~(num > 0 /\ s > StackAmount) /\ s <= 0
  <2>1. Remove(dropEvent, armed) /\ UNCHANGED <<stack, charges, usingCharges>>
    BY <1>1, Zenon DEF ModStackAmount
  <2>2. QED
    BY <1>0, <2>1, RemoveEffect, Zenon
<1>2. CASE ~(~(num > 0 /\ s > StackAmount) /\ s <= 0)
  <2>1. /\ stack' = new % 256
        /\ IF refresh /\ ~keepTimers THEN SetCharges(CalcMaxCharges)
           ELSE UNCHANGED <<charges, usingCharges>>
        /\ KeepRemoval(dropEvent, armed)
    BY <1>2, Zenon DEF ModStackAmount
  <2>2. stack' \in Byte
    BY <1>0, <2>1 DEF Byte
  <2>3. removed' = removed /\ RemovalOK
    BY <1>0, <2>1, KeepEffect
  <2>4. CASE refresh /\ ~keepTimers
    <3>1. SetCharges(CalcMaxCharges)
      BY <2>1, <2>4, Zenon
    <3>2. QED
      BY <1>0, <2>2, <2>3, <3>1, SetChargesEffect, Zenon
  <2>5. CASE ~(refresh /\ ~keepTimers)
    <3>1. UNCHANGED <<charges, usingCharges>>
      BY <2>1, <2>5, Zenon
    <3>2. QED
      BY <1>0, <2>2, <2>3, <3>1, Zenon DEF NoNewZero
  <2>6. QED
    BY <2>4, <2>5
<1>3. QED
  BY <1>1, <1>2

\* Counting down stays in range.
LEMMA DecInRange ==
  ASSUME NEW m \in Nat, NEW n \in 0 .. m, n > 0
  PROVE  n - 1 \in 0 .. m
OBVIOUS

\* Facts every action lemma starts from.
LEMMA InvFacts ==
  ASSUME Inv
  PROVE  /\ CalcMaxCharges \in Byte /\ UseStacksForCharges \in BOOLEAN
         /\ charges \in Byte /\ stack \in Byte /\ cdLeft \in 0 .. ProcCooldown
         /\ procPending \in 0 .. MaxProcDepth /\ armed \in 0 .. MaxEvents
         /\ removed \in BOOLEAN /\ deleted \in BOOLEAN /\ usingCharges \in BOOLEAN
         /\ dropEvent \in BOOLEAN /\ armed = IF dropEvent THEN 1 ELSE 0
         /\ TypeOK /\ DropEventTracked /\ ChargeInv
BY InfoFacts, Zenon DEF Inv, TypeOK, DropEventTracked

\* PrepareProcToTrigger: a charge is taken only from an aura that has one,
\* and the proc stays pending until its trigger step.
LEMMA ProcPrepareInv ==
  ASSUME Inv, ProcPrepare
  PROVE  Inv'
<1>0. /\ CalcMaxCharges \in Byte /\ UseStacksForCharges \in BOOLEAN
      /\ charges \in Byte /\ stack \in Byte /\ cdLeft \in 0 .. ProcCooldown
      /\ procPending \in 0 .. MaxProcDepth /\ Inv
  BY InvFacts
<1>1. procPending' \in 0 .. MaxProcDepth /\ procPending' > 0
  BY <1>0, ConstFacts DEF ProcPrepare
<1>2. PICK veto, dontConsume \in BOOLEAN :
        IF veto THEN UNCHANGED <<charges, cdLeft>>
        ELSE /\ charges' = IF ~UseStacksForCharges /\ usingCharges /\ ~dontConsume
                           THEN (charges - 1) % 256 ELSE charges
             /\ cdLeft' = ProcCooldown
  BY Zenon DEF ProcPrepare
<1>3. charges' \in Byte /\ cdLeft' \in 0 .. ProcCooldown
  BY <1>0, <1>2, ConstFacts DEF Byte
<1>4. UseStacksForCharges => charges' = charges
  BY <1>0, <1>2, Zenon
<1>5. usingCharges => charges # 0
  BY Zenon DEF ProcPrepare
<1>6. usingCharges' = usingCharges /\ info' = info
  BY Zenon DEF ProcPrepare
<1>7. usingCharges' /\ ~removed' /\ charges' = 0 => procPending' > 0 /\ ~UseStacksForCharges
  BY <1>1, <1>4, <1>5, <1>6, Zenon
<1>8. UNCHANGED <<deleted, stack, removed, dropEvent, armed>>
  BY Zenon DEF ProcPrepare
<1>9. QED
  BY <1>0, <1>1, <1>3, <1>6, <1>7, <1>8, InvFacts, Close, Zenon DEF RemovalOK

\* TriggerProcOnEvent: the step that ends the proc either removes the aura
\* whose charges ran out or leaves it with charges (or stacks) left.
LEMMA ProcTriggerInv ==
  ASSUME Inv, ProcTrigger
  PROVE  Inv'
<1>0. /\ CalcMaxCharges \in Byte /\ UseStacksForCharges \in BOOLEAN
      /\ charges \in Byte /\ stack \in Byte /\ cdLeft \in 0 .. ProcCooldown
      /\ procPending \in 0 .. MaxProcDepth /\ Inv /\ TypeOK /\ DropEventTracked /\ ChargeInv
      /\ dropEvent \in BOOLEAN /\ armed \in 0 .. MaxEvents /\ armed = IF dropEvent THEN 1 ELSE 0
  BY InvFacts
<1>1. procPending' \in 0 .. MaxProcDepth
  <2>1. procPending > 0 /\ procPending' = procPending - 1
    BY Zenon DEF ProcTrigger
  <2>2. procPending \in 0 .. MaxProcDepth
    BY <1>0, Zenon
  <2>3. QED
    BY <2>1, <2>2, ConstFacts, DecInRange, Zenon
<1>2. UNCHANGED <<info, deleted, cdLeft>>
  BY Zenon DEF ProcTrigger
<1>3. CASE removed
  <2>1. UNCHANGED <<removed, charges, usingCharges, stack, dropEvent, armed>>
    BY <1>3, Zenon DEF ProcTrigger
  <2>2. QED
    BY <1>0, <1>1, <1>2, <1>3, <2>1, InvFacts, Close, Zenon DEF RemovalOK
<1>4. CASE ~removed /\ UseStacksForCharges
  <2>1. ModStackAmount(-1, FALSE)
    BY <1>4, Zenon DEF ProcTrigger, TriggerProc
  <2>2. /\ charges' \in Byte /\ usingCharges' \in BOOLEAN /\ stack' \in Byte /\ RemovalOK
        /\ removed' = TRUE \/ (removed' = removed /\ NoNewZero)
    <3>1. -1 \in Int /\ FALSE \in BOOLEAN
      OBVIOUS
    <3>2. QED
      BY <1>0, <2>1, <3>1, ModStackAmountEffect
  <2>3. usingCharges' /\ ~removed' /\ charges' = 0 => procPending' > 0 /\ ~UseStacksForCharges
    BY <1>0, <1>4, <2>2, Zenon DEF NoNewZero, ChargeInv
  <2>4. QED
    BY <1>0, <1>1, <1>2, <2>2, <2>3, InvFacts, Close, Zenon DEF RemovalOK
<1>5. CASE ~removed /\ ~UseStacksForCharges /\ usingCharges /\ charges = 0
  <2>1. Remove(dropEvent, armed) /\ UNCHANGED <<charges, usingCharges, stack>>
    BY <1>5, Zenon DEF ProcTrigger, TriggerProc
  <2>2. removed' = TRUE /\ RemovalOK
    BY <1>0, <2>1, RemoveEffect
  <2>3. QED
    BY <1>0, <1>1, <1>2, <2>1, <2>2, InvFacts, Close, Zenon DEF TypeOK, RemovalOK
<1>6. CASE ~removed /\ ~UseStacksForCharges /\ ~(usingCharges /\ charges = 0)
  <2>1. KeepRemoval(dropEvent, armed) /\ UNCHANGED <<charges, usingCharges, stack>>
    BY <1>6, Zenon DEF ProcTrigger, TriggerProc
  <2>2. removed' = removed /\ RemovalOK
    BY <1>0, <2>1, KeepEffect
  <2>3. QED
    BY <1>0, <1>1, <1>2, <1>6, <2>1, <2>2, InvFacts, Close, Zenon DEF TypeOK, RemovalOK
<1>7. QED
  BY <1>0, <1>3, <1>4, <1>5, <1>6

\* A caller's ModCharges keeps the invariant.
LEMMA ModChargesCallInv ==
  ASSUME Inv, ModChargesCall
  PROVE  Inv'
<1>0. /\ TypeOK /\ ChargeInv /\ stack \in Byte /\ cdLeft \in 0 .. ProcCooldown
      /\ procPending \in 0 .. MaxProcDepth /\ deleted \in BOOLEAN
      /\ dropEvent \in BOOLEAN /\ armed \in 0 .. MaxEvents /\ armed = IF dropEvent THEN 1 ELSE 0
  BY InvFacts
<1>1. PICK num \in ChargeDelta : ModCharges(num, dropEvent, armed)
  BY Zenon DEF ModChargesCall
<1>2. num \in Int
  BY AuraChargesAssumption
<1>3. /\ charges' \in Byte /\ usingCharges' \in BOOLEAN /\ RemovalOK
      /\ removed' = TRUE \/ (removed' = removed /\ NoNewZero)
  BY <1>0, <1>1, <1>2, ModChargesEffect
<1>4. /\ info' = info /\ deleted' = deleted /\ stack' = stack /\ cdLeft' = cdLeft
      /\ procPending' = procPending
  BY DEF ModChargesCall
<1>5. usingCharges' /\ ~removed' /\ charges' = 0 => procPending' > 0 /\ ~UseStacksForCharges
  <2>1. CASE removed' = TRUE
    BY <2>1
  <2>2. CASE removed' = removed /\ NoNewZero
    <3>1. usingCharges' /\ ~removed' /\ charges' = 0 => usingCharges /\ ~removed /\ charges = 0
      BY <2>2, Zenon DEF NoNewZero
    <3>2. usingCharges /\ ~removed /\ charges = 0 => procPending > 0 /\ ~UseStacksForCharges
      BY <1>0, Zenon DEF ChargeInv
    <3>3. QED
      BY <1>4, <3>1, <3>2, Zenon
  <2>6. QED
    BY <1>3, <2>1, <2>2
<1>6. QED
  BY <1>0, <1>3, <1>4, <1>5, Close

\* A caller's ModStackAmount keeps the invariant.
LEMMA ModStackAmountCallInv ==
  ASSUME Inv, ModStackAmountCall
  PROVE  Inv'
<1>0. /\ TypeOK /\ DropEventTracked /\ ChargeInv /\ cdLeft \in 0 .. ProcCooldown
      /\ procPending \in 0 .. MaxProcDepth /\ deleted \in BOOLEAN
  BY InvFacts
<1>1. PICK num \in StackDelta, keepTimers \in BOOLEAN : ModStackAmount(num, keepTimers)
  BY Zenon DEF ModStackAmountCall
<1>2. num \in Int
  BY AuraChargesAssumption
<1>3. /\ charges' \in Byte /\ usingCharges' \in BOOLEAN /\ stack' \in Byte /\ RemovalOK
      /\ removed' = TRUE \/ (removed' = removed /\ NoNewZero)
  BY <1>0, <1>1, <1>2, ModStackAmountEffect
<1>4. info' = info /\ deleted' = deleted /\ cdLeft' = cdLeft /\ procPending' = procPending
  BY DEF ModStackAmountCall
<1>5. usingCharges' /\ ~removed' /\ charges' = 0 => procPending' > 0 /\ ~UseStacksForCharges
  <2>1. CASE removed' = TRUE
    BY <2>1
  <2>2. CASE removed' = removed /\ NoNewZero
    <3>1. usingCharges' /\ ~removed' /\ charges' = 0 => usingCharges /\ ~removed /\ charges = 0
      BY <2>2, Zenon DEF NoNewZero
    <3>2. usingCharges /\ ~removed /\ charges = 0 => procPending > 0 /\ ~UseStacksForCharges
      BY <1>0, Zenon DEF ChargeInv
    <3>3. QED
      BY <1>4, <3>1, <3>2, Zenon
  <2>6. QED
    BY <1>3, <2>1, <2>2
<1>6. QED
  BY <1>0, <1>3, <1>4, <1>5, Close

\* A script's SetCharges keeps the invariant.
LEMMA SetChargesCallInv ==
  ASSUME Inv, SetChargesCall
  PROVE  Inv'
<1>0. /\ TypeOK /\ ChargeInv /\ CalcMaxCharges \in Byte /\ stack \in Byte
      /\ cdLeft \in 0 .. ProcCooldown /\ procPending \in 0 .. MaxProcDepth /\ deleted \in BOOLEAN
      /\ removed \in BOOLEAN /\ dropEvent \in BOOLEAN /\ armed \in 0 .. MaxEvents
      /\ armed = IF dropEvent THEN 1 ELSE 0
  BY InvFacts
<1>1. PICK c \in 0 .. CalcMaxCharges : SetCharges(c)
  BY Zenon DEF SetChargesCall
<1>2. c \in Byte
  BY <1>0 DEF Byte
<1>3. charges' = c /\ usingCharges' \in BOOLEAN /\ NoNewZero
  BY <1>0, <1>1, <1>2, SetChargesEffect
<1>4. UNCHANGED <<info, removed, deleted, stack, cdLeft, dropEvent, armed, procPending>>
  BY Zenon DEF SetChargesCall
<1>5. QED
  BY <1>0, <1>2, <1>3, <1>4, Close, Zenon DEF NoNewZero, ChargeInv, RemovalOK

\* ResetProcCooldown keeps the invariant.
LEMMA ResetProcCooldownInv ==
  ASSUME Inv, ResetProcCooldown
  PROVE  Inv'
<1>1. 0 \in 0 .. ProcCooldown
  BY ConstFacts
<1>2. QED
  BY <1>1, InvFacts, Zenon DEF ResetProcCooldown, Inv, TypeOK, DropEventTracked, ChargeInv, UseStacksForCharges

\* The owner's deletion and the passage of time keep the invariant.
LEMMA DeleteInv ==
  ASSUME Inv, Delete
  PROVE  Inv'
BY InvFacts, Zenon DEF Delete, Inv, TypeOK, DropEventTracked, ChargeInv, UseStacksForCharges

LEMMA TickInv ==
  ASSUME Inv, Tick
  PROVE  Inv'
<1>1. cdLeft \in 0 .. ProcCooldown
  BY InvFacts
<1>2. cdLeft' \in 0 .. ProcCooldown
  BY <1>1, ConstFacts DEF Tick
<1>3. QED
  BY <1>2, InvFacts, Zenon DEF Tick, Inv, TypeOK, DropEventTracked, ChargeInv, UseStacksForCharges

\* DropChargeDelayed queues an event only when m_dropEvent is clear, so
\* the queue holds the one event m_dropEvent points to.
LEMMA DropChargeDelayedInv ==
  ASSUME Inv, DropChargeDelayed
  PROVE  Inv'
<1>0. /\ dropEvent \in BOOLEAN /\ armed \in 0 .. MaxEvents /\ armed = IF dropEvent THEN 1 ELSE 0
  BY InvFacts
<1>1. ~dropEvent /\ dropEvent' = TRUE /\ armed' = armed + 1 /\ armed < MaxEvents
  BY Zenon DEF DropChargeDelayed
<1>2. armed = 0
  BY <1>0, <1>1, Zenon
<1>3. armed' = 1 /\ armed' \in 0 .. MaxEvents
  BY <1>1, <1>2, ConstFacts
<1>4. RemovalOK
  BY <1>1, <1>3, InvFacts, Zenon DEF RemovalOK, DropChargeDelayed
<1>5. QED
  BY <1>4, InvFacts, Zenon
     DEF DropChargeDelayed, Inv, TypeOK, DropEventTracked, ChargeInv, UseStacksForCharges, RemovalOK

\* ChargeDropEvent::Execute clears m_dropEvent together with its event and
\* drops a charge with ModCharges.
LEMMA ChargeDropExecuteInv ==
  ASSUME Inv, ChargeDropExecute
  PROVE  Inv'
<1>0. /\ TypeOK /\ ChargeInv /\ stack \in Byte /\ cdLeft \in 0 .. ProcCooldown
      /\ procPending \in 0 .. MaxProcDepth /\ deleted \in BOOLEAN
      /\ dropEvent \in BOOLEAN /\ armed \in 0 .. MaxEvents /\ armed = IF dropEvent THEN 1 ELSE 0
  BY InvFacts
<1>1. armed > 0 /\ ModCharges(-1, FALSE, armed - 1)
  BY Zenon DEF ChargeDropExecute, ModChargesDelayed
<1>2. dropEvent
  BY <1>0, <1>1
<1>3. armed - 1 = 0 /\ 0 \in 0 .. MaxEvents /\ -1 \in Int
  BY <1>0, <1>2, ConstFacts
<1>4. ModCharges(-1, FALSE, 0)
  BY <1>1, <1>3, Zenon
<1>5. /\ charges' \in Byte /\ usingCharges' \in BOOLEAN /\ RemovalOK
      /\ removed' = TRUE \/ (removed' = removed /\ NoNewZero)
  BY <1>0, <1>3, <1>4, ModChargesEffect
<1>6. /\ info' = info /\ deleted' = deleted /\ stack' = stack /\ cdLeft' = cdLeft
      /\ procPending' = procPending
  BY DEF ChargeDropExecute
<1>7. usingCharges' /\ ~removed' /\ charges' = 0 => procPending' > 0 /\ ~UseStacksForCharges
  <2>1. CASE removed' = TRUE
    BY <2>1
  <2>2. CASE removed' = removed /\ NoNewZero
    <3>1. usingCharges' /\ ~removed' /\ charges' = 0 => usingCharges /\ ~removed /\ charges = 0
      BY <2>2, Zenon DEF NoNewZero
    <3>2. usingCharges /\ ~removed /\ charges = 0 => procPending > 0 /\ ~UseStacksForCharges
      BY <1>0, Zenon DEF ChargeInv
    <3>3. QED
      BY <1>6, <3>1, <3>2, Zenon
  <2>3. QED
    BY <1>5, <2>1, <2>2
<1>8. QED
  BY <1>0, <1>5, <1>6, <1>7, Close

\* UnitAura::Remove from elsewhere keeps the invariant.
LEMMA RemoveCallInv ==
  ASSUME Inv, RemoveCall
  PROVE  Inv'
<1>0. /\ TypeOK /\ charges \in Byte /\ stack \in Byte /\ cdLeft \in 0 .. ProcCooldown
      /\ procPending \in 0 .. MaxProcDepth /\ deleted \in BOOLEAN /\ usingCharges \in BOOLEAN
      /\ dropEvent \in BOOLEAN /\ armed \in 0 .. MaxEvents /\ armed = IF dropEvent THEN 1 ELSE 0
  BY InvFacts
<1>1. removed' = TRUE /\ RemovalOK
  BY <1>0, RemoveFromEffect, Zenon DEF RemoveCall
<1>2. /\ info' = info /\ deleted' = deleted /\ charges' = charges /\ usingCharges' = usingCharges
      /\ stack' = stack /\ cdLeft' = cdLeft /\ procPending' = procPending
  BY DEF RemoveCall
<1>3. QED
  BY <1>0, <1>1, <1>2, Close, Zenon

LEMMA NextInv == Inv /\ [Next]_vars => Inv'
<1> SUFFICES ASSUME Inv, [Next]_vars PROVE Inv'
  OBVIOUS
<1>1. CASE UNCHANGED vars
  BY <1>1, Zenon DEF vars, Inv, TypeOK, DropEventTracked, ChargeInv, UseStacksForCharges
<1>2. QED
  BY <1>1, ProcPrepareInv, ProcTriggerInv, ModChargesCallInv, ModStackAmountCallInv,
     SetChargesCallInv, ResetProcCooldownInv, DropChargeDelayedInv, ChargeDropExecuteInv,
     RemoveCallInv, DeleteInv, TickInv DEF Next

\* The strengthened invariant holds in every reachable state.
THEOREM InvHolds == Spec => []Inv
BY InitInv, NextInv, PTL DEF Spec

LEMMA InvImpliesExhausted == Inv => ChargesExhaustedRemoves
<1> SUFFICES ASSUME Inv, procPending = 0, ~removed, usingCharges PROVE charges > 0
  BY DEF ChargesExhaustedRemoves
<1>1. charges \in Byte /\ procPending \in 0 .. MaxProcDepth /\ ChargeInv
  BY InvFacts
<1>2. ~(procPending > 0)
  BY <1>1
<1>3. charges # 0
  BY <1>1, <1>2, Zenon DEF ChargeInv
<1>4. QED
  BY <1>1, <1>3 DEF Byte

\* Outside a proc event, a charge-using aura that is not removed has a charge
\* left: ModCharges, and PrepareProcToTrigger followed by TriggerProcOnEvent,
\* remove the aura on the step that exhausts it.
THEOREM ChargesExhaustedRemovesHolds == Spec => []ChargesExhaustedRemoves
BY InvHolds, InvImpliesExhausted, PTL

\* m_dropEvent is set exactly when one live ChargeDropEvent of the aura is
\* queued, whatever the interleaving of DropChargeDelayed, its execution and
\* removal.
THEOREM DropEventTrackedHolds == Spec => []DropEventTracked
<1>1. Inv => DropEventTracked
  BY DEF Inv
<1>2. QED
  BY InvHolds, <1>1, PTL

-----------------------------------------------------------------------------
(* Stack range.  Aura::SetStackAmount stores a uint8, so the clamp of       *)
(* ModStackAmount to SpellInfo::StackAmount keeps the count in range only   *)
(* for spells whose StackAmount fits in a byte.                             *)

StackBound == \A i \in SpellInfos : i.stackAmount <= 255

\* A step that leaves the stack and the spell alone and never un-removes.
StackFrame == stack' = stack /\ info' = info /\ (removed' = TRUE \/ removed' = removed)

LEMMA StackFrameRange ==
  ASSUME StackInRange, StackFrame
  PROVE  StackInRange'
BY Zenon DEF StackInRange, StackFrame, StackAmount

\* Aura::ModStackAmount clamps an increase and removes at zero, so the new
\* count stays within [1, StackAmount] (or is 1 for a non-stackable aura).
LEMMA ModStackAmountRange ==
  ASSUME StackBound, TypeOK, DropEventTracked, StackInRange,
         NEW num \in Int, NEW keepTimers \in BOOLEAN, ModStackAmount(num, keepTimers),
         info' = info
  PROVE  StackInRange'
<1> DEFINE s == stack + num
           new == IF num > 0 /\ s > StackAmount THEN (IF StackAmount = 0 THEN 1 ELSE StackAmount) ELSE s
<1>0. /\ StackAmount \in Nat /\ StackAmount <= 255 /\ stack \in Byte /\ removed \in BOOLEAN
      /\ dropEvent \in BOOLEAN /\ armed \in 0 .. MaxEvents /\ armed = IF dropEvent THEN 1 ELSE 0
  BY InfoFacts, Zenon DEF StackBound, StackAmount, TypeOK, DropEventTracked
<1>1. StackAmount' = StackAmount
  BY DEF StackAmount
<1>2. CASE ~(num > 0 /\ s > StackAmount) /\ s <= 0
  <2>1. Remove(dropEvent, armed)
    BY <1>2, Zenon DEF ModStackAmount
  <2>2. removed' = TRUE
    BY <1>0, <2>1, RemoveEffect
  <2>3. QED
    BY <2>2 DEF StackInRange
<1>3. CASE ~(~(num > 0 /\ s > StackAmount) /\ s <= 0)
  <2>1. stack' = new % 256 /\ KeepRemoval(dropEvent, armed)
    BY <1>3, Zenon DEF ModStackAmount
  <2>2. removed' = removed
    BY <2>1, Zenon DEF KeepRemoval
  <2>3. CASE removed
    BY <2>2, <2>3 DEF StackInRange
  <2>4. CASE ~removed
    <3>1. 1 <= stack /\ (stack <= StackAmount \/ stack = 1)
      BY <2>4 DEF StackInRange
    <3>2. stack' = new /\ 1 <= new /\ (new <= StackAmount \/ new = 1)
      BY <1>0, <1>3, <2>1, <3>1 DEF Byte
    <3>3. 1 <= stack' /\ (stack' <= StackAmount' \/ stack' = 1)
      BY <1>1, <3>2
    <3>4. QED
      BY <3>3, Zenon DEF StackInRange
  <2>5. QED
    BY <1>0, <2>3, <2>4
<1>4. QED
  BY <1>2, <1>3

LEMMA InitStackInRange == Init => StackInRange
BY DEF Init, StackInRange

LEMMA NextStackInRange ==
  ASSUME StackBound, Inv, StackInRange, [Next]_vars
  PROVE  StackInRange'
<1>0. /\ TypeOK /\ DropEventTracked /\ removed \in BOOLEAN
      /\ dropEvent \in BOOLEAN /\ armed \in 0 .. MaxEvents
      /\ armed = IF dropEvent THEN 1 ELSE 0
  BY InvFacts
<1>1. CASE ProcTrigger
  <2>1. info' = info
    BY <1>1 DEF ProcTrigger
  <2>2. CASE ~removed /\ UseStacksForCharges
    <3>1. ModStackAmount(-1, FALSE)
      BY <1>1, <2>2, Zenon DEF ProcTrigger, TriggerProc
    <3>2. -1 \in Int /\ FALSE \in BOOLEAN
      OBVIOUS
    <3>3. QED
      BY <1>0, <2>1, <3>1, <3>2, ModStackAmountRange
  <2>3. CASE ~removed /\ ~UseStacksForCharges /\ usingCharges /\ charges = 0
    <3>1. Remove(dropEvent, armed) /\ stack' = stack
      BY <1>1, <2>3, Zenon DEF ProcTrigger, TriggerProc
    <3>2. removed' = TRUE
      BY <1>0, <3>1, RemoveEffect
    <3>3. QED
      BY <2>1, <3>1, <3>2, StackFrameRange DEF StackFrame
  <2>4. CASE ~removed /\ ~UseStacksForCharges /\ ~(usingCharges /\ charges = 0)
    <3>1. removed' = removed /\ stack' = stack
      BY <1>1, <2>4, Zenon DEF ProcTrigger, TriggerProc, KeepRemoval
    <3>2. QED
      BY <2>1, <3>1, StackFrameRange DEF StackFrame
  <2>5. CASE removed
    <3>1. removed' = removed /\ stack' = stack
      BY <1>1, <2>5, Zenon DEF ProcTrigger
    <3>2. QED
      BY <2>1, <3>1, StackFrameRange DEF StackFrame
  <2>6. QED
    BY <1>0, <2>2, <2>3, <2>4, <2>5, InvFacts
<1>2. CASE ModStackAmountCall
  <2>1. PICK num \in StackDelta, keepTimers \in BOOLEAN : ModStackAmount(num, keepTimers)
    BY <1>2, Zenon DEF ModStackAmountCall
  <2>2. num \in Int /\ info' = info
    BY <1>2, AuraChargesAssumption DEF ModStackAmountCall
  <2>3. QED
    BY <1>0, <2>1, <2>2, ModStackAmountRange
<1>3. CASE ModChargesCall
  <2>1. PICK num \in ChargeDelta : ModCharges(num, dropEvent, armed)
    BY <1>3, Zenon DEF ModChargesCall
  <2>2. num \in Int /\ info' = info /\ stack' = stack
    BY <1>3, AuraChargesAssumption DEF ModChargesCall
  <2>3. removed' = TRUE \/ (removed' = removed /\ NoNewZero)
    BY <1>0, <2>1, <2>2, ModChargesEffect
  <2>4. QED
    BY <2>2, <2>3, StackFrameRange, Zenon DEF StackFrame
<1>4. CASE ChargeDropExecute
  <2>1. armed > 0 /\ ModCharges(-1, FALSE, armed - 1) /\ info' = info /\ stack' = stack
    BY <1>4, Zenon DEF ChargeDropExecute, ModChargesDelayed
  <2>2. dropEvent
    BY <1>0, <2>1
  <2>3. armed - 1 = 0 /\ 0 \in 0 .. MaxEvents /\ -1 \in Int
    BY <1>0, <2>2, ConstFacts
  <2>4. ModCharges(-1, FALSE, 0)
    BY <2>1, <2>3, Zenon
  <2>5. removed' = TRUE \/ (removed' = removed /\ NoNewZero)
    BY <1>0, <2>3, <2>4, ModChargesEffect
  <2>6. QED
    BY <2>1, <2>5, StackFrameRange, Zenon DEF StackFrame
<1>5. CASE RemoveCall
  <2>1. removed' = TRUE /\ stack' = stack /\ info' = info
    BY <1>5, Zenon DEF RemoveCall, RemoveFrom
  <2>2. QED
    BY <2>1, StackFrameRange DEF StackFrame
<1>6. CASE \/ ProcPrepare \/ SetChargesCall \/ ResetProcCooldown \/ DropChargeDelayed
           \/ Delete \/ Tick \/ UNCHANGED vars
  <2>1. StackFrame
    BY <1>6 DEF ProcPrepare, SetChargesCall, ResetProcCooldown, DropChargeDelayed,
               Delete, Tick, vars, StackFrame
  <2>2. QED
    BY <2>1, StackFrameRange
<1>7. QED
  BY <1>1, <1>2, <1>3, <1>4, <1>5, <1>6 DEF Next

\* For spells whose StackAmount fits the uint8 of Aura::SetStackAmount, the
\* stack count of an aura that is not removed stays within [1, StackAmount]
\* (1 for a non-stackable aura) through every ModStackAmount of a caller or
\* of TriggerProcOnEvent.
THEOREM StackInRangeHolds ==
  ASSUME StackBound
  PROVE  Spec => []StackInRange
<1>1. Init => Inv /\ StackInRange
  BY InitInv, InitStackInRange
<1>2. Inv /\ StackInRange /\ [Next]_vars => (Inv /\ StackInRange)'
  BY NextInv, NextStackInRange
<1>3. QED
  BY <1>1, <1>2, PTL DEF Spec

-----------------------------------------------------------------------------
(* Drop events and deletion.  When no caller asks for a delayed charge drop *)
(* on a removed aura, m_dropEvent is only ever set on a live aura, and the  *)
(* owner deletes an aura only after removing it, so no queued event can     *)
(* outlive its aura.                                                        *)

BaseInv == (dropEvent => ~removed) /\ (deleted => removed)

\* BaseInv of the next state, given what a step does to the three flags.
LEMMA BaseInvStep ==
  ASSUME BaseInv,
         dropEvent' => dropEvent /\ removed' = removed,
         removed => removed',
         deleted' = deleted
  PROVE  BaseInv'
<1>1. dropEvent' => ~removed'
  BY Zenon DEF BaseInv
<1>2. deleted' => removed'
  BY Zenon DEF BaseInv
<1>3. QED
  BY <1>1, <1>2 DEF BaseInv

\* Every charge or stack change ends by keeping the removal state or removing.
KeepOrRemove(de, ar) == KeepRemoval(de, ar) \/ Remove(de, ar)

LEMMA KeepOrRemoveDrop ==
  ASSUME NEW de, NEW ar, KeepOrRemove(de, ar)
  PROVE  (dropEvent' => de /\ removed' = removed) /\ (removed => removed')
BY Zenon DEF KeepOrRemove, KeepRemoval, Remove, RemoveFrom

LEMMA ModChargesKeepOrRemove ==
  ASSUME NEW num, NEW de, NEW ar, ModCharges(num, de, ar)
  PROVE  KeepOrRemove(de, ar)
BY Zenon DEF ModCharges, KeepOrRemove

LEMMA ModStackAmountKeepOrRemove ==
  ASSUME NEW num, NEW keepTimers, ModStackAmount(num, keepTimers)
  PROVE  KeepOrRemove(dropEvent, armed)
BY Zenon DEF ModStackAmount, KeepOrRemove

LEMMA NextBaseInv ==
  ASSUME ~DropOnRemoved, BaseInv, [Next]_vars
  PROVE  BaseInv'
<1>1. CASE \/ ProcPrepare \/ SetChargesCall \/ ResetProcCooldown \/ Tick \/ UNCHANGED vars
  <2>1. UNCHANGED <<removed, deleted, dropEvent>>
    BY <1>1 DEF ProcPrepare, SetChargesCall, ResetProcCooldown, Tick, vars
  <2>2. QED
    BY <2>1, Zenon DEF BaseInv
<1>2. CASE ProcTrigger
  <2>1. CASE removed
    BY <1>2, <2>1, Zenon DEF ProcTrigger, BaseInv
  <2>2. CASE ~removed
    <3>1. KeepOrRemove(dropEvent, armed) /\ deleted' = deleted
      BY <1>2, <2>2, ModStackAmountKeepOrRemove, Zenon DEF ProcTrigger, TriggerProc, KeepOrRemove
    <3>2. (dropEvent' => dropEvent /\ removed' = removed) /\ (removed => removed')
      BY <3>1, KeepOrRemoveDrop
    <3>3. QED
      BY <3>1, <3>2, BaseInvStep
  <2>3. QED
    BY <2>1, <2>2
<1>3. CASE ModChargesCall
  <2>1. KeepOrRemove(dropEvent, armed) /\ deleted' = deleted
    BY <1>3, ModChargesKeepOrRemove, Zenon DEF ModChargesCall
  <2>2. (dropEvent' => dropEvent /\ removed' = removed) /\ (removed => removed')
    BY <2>1, KeepOrRemoveDrop
  <2>3. QED
    BY <2>1, <2>2, BaseInvStep
<1>4. CASE ModStackAmountCall
  <2>1. KeepOrRemove(dropEvent, armed) /\ deleted' = deleted
    BY <1>4, ModStackAmountKeepOrRemove, Zenon DEF ModStackAmountCall
  <2>2. (dropEvent' => dropEvent /\ removed' = removed) /\ (removed => removed')
    BY <2>1, KeepOrRemoveDrop
  <2>3. QED
    BY <2>1, <2>2, BaseInvStep
<1>5. CASE ChargeDropExecute
  <2>1. KeepOrRemove(FALSE, armed - 1) /\ deleted' = deleted
    BY <1>5, ModChargesKeepOrRemove, Zenon DEF ChargeDropExecute, ModChargesDelayed
  <2>2. ~dropEvent' /\ (removed => removed')
    BY <2>1, KeepOrRemoveDrop
  <2>3. QED
    BY <2>1, <2>2, BaseInvStep
<1>6. CASE DropChargeDelayed
  BY <1>6, Zenon DEF DropChargeDelayed, BaseInv
<1>7. CASE RemoveCall
  BY <1>7, Zenon DEF RemoveCall, RemoveFrom, BaseInv
<1>8. CASE Delete
  BY <1>8, Zenon DEF Delete, BaseInv
<1>9. QED
  BY <1>1, <1>2, <1>3, <1>4, <1>5, <1>6, <1>7, <1>8 DEF Next

LEMMA InvImpliesBaseValid == Inv /\ BaseInv => DropEventBaseValid
<1> SUFFICES ASSUME Inv, BaseInv, armed > 0 PROVE ~deleted
  BY DEF DropEventBaseValid
<1>1. dropEvent \in BOOLEAN /\ armed = IF dropEvent THEN 1 ELSE 0
  BY InvFacts
<1>2. dropEvent
  BY <1>1
<1>3. QED
  BY <1>2, Zenon DEF BaseInv

\* "_base is always valid" in ChargeDropEvent::Execute holds when no caller
\* requests a delayed charge drop on a removed aura: every queued event that
\* will still run refers to an aura the owner has not deleted.
THEOREM DropEventBaseValidHolds ==
  ASSUME ~DropOnRemoved
  PROVE  Spec => []DropEventBaseValid
<1>1. Init => Inv /\ BaseInv
  BY InitInv, Zenon DEF Init, BaseInv
<1>2. Inv /\ BaseInv /\ [Next]_vars => (Inv /\ BaseInv)'
  BY NextInv, NextBaseInv
<1>3. Inv /\ BaseInv => DropEventBaseValid
  BY InvImpliesBaseValid
<1>4. QED
  BY <1>1, <1>2, <1>3, PTL DEF Spec

-----------------------------------------------------------------------------
(* Refinement of AuraLifecycle.  The abstract life is read off removed and *)
(* deleted, and the abstract pending drop is a live ChargeDropEvent in the *)
(* queue.  Each step of the aura is a lifecycle step or a stutter; the     *)
(* facts it needs are Inv (m_dropEvent tracks the queue) and BaseInv (a    *)
(* set m_dropEvent means a live aura, a freed aura was removed first).     *)

\* A step that leaves removal, deletion and the queue alone is a stutter of
\* the lifecycle.
LEMMA LifeStutter ==
  ASSUME removed' = removed, deleted' = deleted, armed' = armed
  PROVE  [Life!Next]_Life!lvars
BY Zenon DEF Life!lvars

\* Removing a live aura whose queue ends empty is the abstract Remove.
LEMMA LifeRemove ==
  ASSUME BaseInv, ~removed, removed' = TRUE, deleted' = deleted, armed' = 0
  PROVE  Life!Remove
<1>1. ~deleted /\ ~deleted'
  BY Zenon DEF BaseInv
<1>2. ~(armed' > 0)
  OBVIOUS
<1>3. QED
  BY <1>1, <1>2 DEF Life!Remove

\* A charge or stack change that keeps or removes the aura, passing the
\* caller's m_dropEvent and queue on, is a stutter or the abstract Remove.
LEMMA KeepOrRemoveLife ==
  ASSUME Inv, BaseInv, KeepOrRemove(dropEvent, armed), deleted' = deleted
  PROVE  [Life!Next]_Life!lvars
<1>1. dropEvent \in BOOLEAN /\ armed = IF dropEvent THEN 1 ELSE 0
  BY InvFacts
<1>2. CASE KeepRemoval(dropEvent, armed)
  BY <1>2, LifeStutter, Zenon DEF KeepRemoval
<1>3. CASE Remove(dropEvent, armed) /\ removed
  BY <1>3, LifeStutter, Zenon DEF Remove
<1>4. CASE Remove(dropEvent, armed) /\ ~removed
  <2>1. removed' = TRUE /\ armed' = IF dropEvent THEN armed - 1 ELSE armed
    BY <1>4, Zenon DEF Remove, RemoveFrom
  <2>2. armed' = 0
    BY <1>1, <2>1
  <2>3. Life!Remove
    BY <1>4, <2>1, <2>2, LifeRemove
  <2>4. QED
    BY <2>3 DEF Life!Next
<1>5. QED
  BY <1>2, <1>3, <1>4 DEF KeepOrRemove

\* ChargeDropEvent::Execute is the abstract RunDrop: the event was pending
\* on a live aura, and ModChargesDelayed empties the queue and may remove.
LEMMA ChargeDropExecuteLife ==
  ASSUME Inv, BaseInv, ChargeDropExecute
  PROVE  Life!RunDrop
<1>1. dropEvent \in BOOLEAN /\ armed = IF dropEvent THEN 1 ELSE 0
  BY InvFacts
<1>0. armed > 0
  BY Zenon DEF ChargeDropExecute
<1>2. armed = 1 /\ dropEvent
  <2>1. ~(0 > 0)
    OBVIOUS
  <2>2. QED
    BY <1>0, <1>1, <2>1, Zenon
<1>3. ~removed /\ ~deleted
  BY <1>2, Zenon DEF BaseInv
<1>4. KeepOrRemove(FALSE, armed - 1) /\ deleted' = deleted
  BY ModChargesKeepOrRemove, Zenon DEF ChargeDropExecute, ModChargesDelayed
<1>5. armed' = 0 /\ (removed' = TRUE \/ removed' = FALSE)
  <2>1. armed' = armed - 1 /\ (removed' = TRUE \/ removed' = removed)
    BY <1>3, <1>4, Zenon DEF KeepOrRemove, KeepRemoval, Remove, RemoveFrom
  <2>2. QED
    BY <1>2, <1>3, <2>1
<1>6. QED
  BY <1>2, <1>3, <1>4, <1>5 DEF Life!RunDrop

\* Every step of the aura is a step or a stutter of its abstract life.
LEMMA NextLife ==
  ASSUME ~DropOnRemoved, Inv, BaseInv, [Next]_vars
  PROVE  [Life!Next]_Life!lvars
<1>1. CASE \/ ProcPrepare \/ SetChargesCall \/ ResetProcCooldown \/ Tick \/ UNCHANGED vars
  <2>1. removed' = removed /\ deleted' = deleted /\ armed' = armed
    BY <1>1 DEF ProcPrepare, SetChargesCall, ResetProcCooldown, Tick, vars
  <2>2. QED
    BY <2>1, LifeStutter
<1>2. CASE ProcTrigger
  <2>1. CASE removed
    <3>1. removed' = removed /\ deleted' = deleted /\ armed' = armed
      BY <1>2, <2>1 DEF ProcTrigger
    <3>2. QED
      BY <3>1, LifeStutter
  <2>2. CASE ~removed
    <3>1. KeepOrRemove(dropEvent, armed) /\ deleted' = deleted
      BY <1>2, <2>2, ModStackAmountKeepOrRemove, Zenon DEF ProcTrigger, TriggerProc, KeepOrRemove
    <3>2. QED
      BY <3>1, KeepOrRemoveLife
  <2>3. QED
    BY <2>1, <2>2
<1>3. CASE ModChargesCall
  <2>1. KeepOrRemove(dropEvent, armed) /\ deleted' = deleted
    BY <1>3, ModChargesKeepOrRemove, Zenon DEF ModChargesCall
  <2>2. QED
    BY <2>1, KeepOrRemoveLife
<1>4. CASE ModStackAmountCall
  <2>1. KeepOrRemove(dropEvent, armed) /\ deleted' = deleted
    BY <1>4, ModStackAmountKeepOrRemove, Zenon DEF ModStackAmountCall
  <2>2. QED
    BY <2>1, KeepOrRemoveLife
<1>5. CASE ChargeDropExecute
  BY <1>5, ChargeDropExecuteLife DEF Life!Next
<1>6. CASE DropChargeDelayed
  <2>1. ~removed /\ ~dropEvent /\ armed' = armed + 1 /\ removed' = removed /\ deleted' = deleted
    BY <1>6, Zenon DEF DropChargeDelayed
  <2>2. armed = 0 /\ ~deleted
    BY <2>1, InvFacts, Zenon DEF BaseInv
  <2>3. Life!ScheduleDrop
    BY <2>1, <2>2 DEF Life!ScheduleDrop
  <2>4. QED
    BY <2>3 DEF Life!Next
<1>7. CASE RemoveCall
  <2>1. ~removed /\ RemoveFrom(dropEvent, armed) /\ deleted' = deleted
    BY <1>7 DEF RemoveCall
  <2>2. Remove(dropEvent, armed)
    BY <2>1, Zenon DEF Remove
  <2>3. QED
    BY <2>1, <2>2, KeepOrRemoveLife DEF KeepOrRemove
<1>8. CASE Delete
  <2>1. removed /\ ~deleted /\ deleted' = TRUE /\ removed' = removed /\ armed' = armed
    BY <1>8 DEF Delete
  <2>2. ~dropEvent
    BY <2>1, Zenon DEF BaseInv
  <2>3. armed = 0
    BY <2>2, InvFacts
  <2>4. Life!Free
    BY <2>1, <2>3 DEF Life!Free
  <2>5. QED
    BY <2>4 DEF Life!Next
<1>9. QED
  BY <1>1, <1>2, <1>3, <1>4, <1>5, <1>6, <1>7, <1>8 DEF Next

\* The aura implements its abstract life when no caller requests a delayed
\* charge drop on a removed aura: removal is terminal and cancels the drop
\* (Aura::_Remove), and the owner frees only removed auras no
\* ChargeDropEvent still refers to.
THEOREM LifecycleRefinedHolds ==
  ASSUME ~DropOnRemoved
  PROVE  Spec => LifecycleRefined
<1>1. Init => Life!Init
  BY DEF Init, Life!Init
<1>2. Init => Inv /\ BaseInv
  BY InitInv, Zenon DEF Init, BaseInv
<1>3. Inv /\ BaseInv /\ [Next]_vars => (Inv /\ BaseInv)'
  BY NextInv, NextBaseInv
<1>4. Inv /\ BaseInv /\ [Next]_vars => [Life!Next]_Life!lvars
  BY NextLife
<1>5. QED
  BY <1>1, <1>2, <1>3, <1>4, PTL DEF Spec, LifecycleRefined, Life!Spec

=============================================================================
