----------------------------- MODULE AuraCharges -----------------------------
(***************************************************************************)
(* Charge, stack and proc accounting of one Aura (SpellAuras.cpp).         *)
(*                                                                         *)
(* The aura carries m_procCharges / m_isUsingCharges, m_stackAmount, a     *)
(* proc cooldown and at most one pending ChargeDropEvent (m_dropEvent) in  *)
(* its owner's event queue.  A proc event is two steps, as in the caller   *)
(* (Unit::ProcSkillsAndAuras): GetProcEffectMask + PrepareProcToTrigger    *)
(* when the event is collected, TriggerProcOnEvent later; proc handlers    *)
(* that run in between may modify charges and stacks, and a handler may    *)
(* start a nested proc event.  The owner's event queue runs in the owner's *)
(* update, never in the middle of a proc event.  Once removed, the aura    *)
(* object stays reachable until the owner deletes it at a safe point.      *)
(*                                                                         *)
(* Time is abstracted to the proc cooldown still to run; the gates of      *)
(* GetProcEffectMask other than charges and cooldown (spell, stealth, DB,  *)
(* conditions, scripts, effect mask, equipment, chance roll) are an        *)
(* arbitrary refusal, which is the same as no proc step at all.            *)
(***************************************************************************)
EXTENDS Integers

CONSTANTS
  SpellInfos,           \* the spell data an aura may be created from, records of
                        \*   charges: SpellProcEntry::Charges after SPELLMOD_CHARGES (uint32)
                        \*   stackAmount: SpellInfo::StackAmount (0: not stackable)
                        \*   useStacks: PROC_ATTR_USE_STACKS_FOR_CHARGES
                        \*   dontRefresh: SPELL_ATTR1_DONT_REFRESH_DURATION_ON_RECAST
  ProcCooldown,         \* SpellProcEntry::Cooldown, in ticks
  DropOnRemoved,        \* whether callers may request a delayed charge drop on a removed aura
  ChargeDelta,          \* the num arguments callers pass to ModCharges
  StackDelta,           \* the num arguments callers pass to ModStackAmount
  MaxProcDepth,         \* bound on nested proc events in flight
  MaxEvents             \* bound on ChargeDropEvents in the owner's queue

ASSUME AuraChargesAssumption ==
  /\ SpellInfos # {}
  /\ SpellInfos \subseteq [charges : Nat, stackAmount : Nat, useStacks : BOOLEAN, dontRefresh : BOOLEAN]
  /\ ProcCooldown \in Nat
  /\ DropOnRemoved \in BOOLEAN
  /\ ChargeDelta \subseteq Int
  /\ StackDelta \subseteq Int
  /\ MaxProcDepth \in Nat
  /\ MaxEvents \in Nat

Byte == 0 .. 255

VARIABLES
  info,          \* m_spellInfo and its proc entry (never changes)
  removed,       \* m_isRemoved
  deleted,       \* the object has been freed by its owner
  charges,       \* m_procCharges (uint8)
  usingCharges,  \* m_isUsingCharges
  stack,         \* m_stackAmount (uint8)
  cdLeft,        \* time left until m_procCooldown
  dropEvent,     \* m_dropEvent # nullptr
  armed,         \* ChargeDropEvents of this aura in the queue, not aborted
  procPending    \* proc events prepared on this aura and not yet triggered

vars == <<info, removed, deleted, charges, usingCharges, stack, cdLeft, dropEvent, armed, procPending>>

StackAmount == info.stackAmount
UseStacksForCharges == info.useStacks
DontRefreshOnRecast == info.dontRefresh

\* Aura::CalcMaxCharges: the uint32 charge count truncated to uint8.
CalcMaxCharges == info.charges % 256

-----------------------------------------------------------------------------
(* Helpers: pieces of an action.  de and ar are m_dropEvent and the queue  *)
(* as the enclosing code sees them when it gets there.                     *)

\* Mutant of RemoveFrom: the pending charge drop is left alone.
RemoveFromKeepsDropEvent(de, ar) ==
  /\ removed' = TRUE
  /\ dropEvent' = de
  /\ armed' = ar

\* Aura::_Remove: mark removed, abort the pending charge drop.
RemoveFrom(de, ar) ==
  /\ removed' = TRUE
  /\ dropEvent' = FALSE
  /\ armed' = IF de THEN ar - 1 ELSE ar

\* UnitAura::Remove: nothing to do for an aura already removed.
Remove(de, ar) ==
  IF removed THEN dropEvent' = de /\ armed' = ar /\ UNCHANGED removed
  ELSE RemoveFrom(de, ar)

KeepRemoval(de, ar) == dropEvent' = de /\ armed' = ar /\ UNCHANGED removed

\* Aura::SetCharges.
SetCharges(c) ==
  IF charges = c THEN UNCHANGED <<charges, usingCharges>>
  ELSE charges' = c /\ usingCharges' = (c # 0)

\* Aura::ModCharges: clamp an increase to the maximum, remove at zero.
ModCharges(num, de, ar) ==
  IF ~usingCharges THEN KeepRemoval(de, ar) /\ UNCHANGED <<charges, usingCharges>>
  ELSE LET c == charges + num IN
       IF num > 0 /\ c > CalcMaxCharges
       THEN SetCharges(CalcMaxCharges) /\ KeepRemoval(de, ar)
       ELSE IF c <= 0
       THEN Remove(de, ar) /\ UNCHANGED <<charges, usingCharges>>
       ELSE SetCharges(c) /\ KeepRemoval(de, ar)

\* Mutant of ModStackAmount: a non-stackable aura is not pinned to one stack.
ModStackAmountUnpinned(num, keepTimers) ==
  LET s == stack + num
      new == IF num > 0 /\ s > StackAmount THEN StackAmount ELSE s
      refresh == new >= stack /\ (StackAmount # 0 \/ ~DontRefreshOnRecast)
  IN
  IF ~(num > 0 /\ s > StackAmount) /\ s <= 0
  THEN Remove(dropEvent, armed) /\ UNCHANGED <<stack, charges, usingCharges>>
  ELSE /\ stack' = new % 256
       /\ IF refresh /\ ~keepTimers THEN SetCharges(CalcMaxCharges)
          ELSE UNCHANGED <<charges, usingCharges>>
       /\ KeepRemoval(dropEvent, armed)

\* Aura::ModStackAmount (with SetStackAmount): clamp an increase, remove at
\* zero; an increase (or a non-stackable recast) refreshes the timers and
\* resets the charges unless the caller passes DontResetPeriodicTimer.
ModStackAmount(num, keepTimers) ==
  LET s == stack + num
      new == IF num > 0 /\ s > StackAmount THEN (IF StackAmount = 0 THEN 1 ELSE StackAmount) ELSE s
      refresh == new >= stack /\ (StackAmount # 0 \/ ~DontRefreshOnRecast)
  IN
  IF ~(num > 0 /\ s > StackAmount) /\ s <= 0
  THEN Remove(dropEvent, armed) /\ UNCHANGED <<stack, charges, usingCharges>>
  ELSE /\ stack' = new % 256
       /\ IF refresh /\ ~keepTimers THEN SetCharges(CalcMaxCharges)
          ELSE UNCHANGED <<charges, usingCharges>>
       /\ KeepRemoval(dropEvent, armed)

-----------------------------------------------------------------------------
\* The Aura constructor.
Init ==
  /\ info \in SpellInfos
  /\ removed = FALSE
  /\ deleted = FALSE
  /\ charges = CalcMaxCharges
  /\ usingCharges = (CalcMaxCharges # 0)
  /\ stack = 1
  /\ cdLeft = 0
  /\ dropEvent = FALSE
  /\ armed = 0
  /\ procPending = 0

(***************************************************************************)
(* A proc event reaches the aura: GetProcEffectMask lets it through (it    *)
(* has charges if it uses them, it is off cooldown) and                    *)
(* PrepareProcToTrigger runs.  A prepare script may veto; otherwise one    *)
(* charge is taken, unless stacks stand for charges or the event's spell   *)
(* does not consume charges, and the cooldown is stamped.                  *)
(***************************************************************************)
ProcPrepare ==
  /\ ~removed
  /\ procPending < MaxProcDepth
  /\ usingCharges => charges # 0
  /\ cdLeft = 0
  /\ procPending' = procPending + 1
  /\ \E veto, dontConsume \in BOOLEAN :
       IF veto THEN UNCHANGED <<charges, cdLeft>>
       ELSE /\ charges' = IF ~UseStacksForCharges /\ usingCharges /\ ~dontConsume
                          THEN (charges - 1) % 256 ELSE charges
            /\ cdLeft' = ProcCooldown
  /\ UNCHANGED <<info, removed, deleted, usingCharges, stack, dropEvent, armed>>

\* Mutant of TriggerProcOnEvent: the aura is not removed on its last charge.
TriggerProcNoRemoval ==
  IF UseStacksForCharges THEN ModStackAmount(-1, FALSE)
  ELSE KeepRemoval(dropEvent, armed) /\ UNCHANGED <<charges, usingCharges, stack>>

(***************************************************************************)
(* Aura::TriggerProcOnEvent, after the handlers: one stack is dropped if   *)
(* stacks stand for charges, else the aura is removed once its charges    *)
(* are used up.  The caller skips an application already being removed.   *)
(***************************************************************************)
TriggerProc ==
  IF UseStacksForCharges THEN ModStackAmount(-1, FALSE)
  ELSE IF usingCharges /\ charges = 0
       THEN Remove(dropEvent, armed) /\ UNCHANGED <<charges, usingCharges, stack>>
       ELSE KeepRemoval(dropEvent, armed) /\ UNCHANGED <<charges, usingCharges, stack>>

ProcTrigger ==
  /\ procPending > 0
  /\ procPending' = procPending - 1
  /\ IF removed THEN UNCHANGED <<removed, charges, usingCharges, stack, dropEvent, armed>>
     ELSE TriggerProc
  /\ UNCHANGED <<info, deleted, cdLeft>>

\* A caller (a proc handler, Unit::DropCharge, a script) calls ModCharges.
ModChargesCall ==
  /\ ~deleted
  /\ \E num \in ChargeDelta : ModCharges(num, dropEvent, armed)
  /\ UNCHANGED <<info, deleted, stack, cdLeft, procPending>>

\* A caller (the refresh path of Unit::_TryStackingOrRefreshingExistingAura,
\* a proc handler) calls ModStackAmount.
ModStackAmountCall ==
  /\ ~deleted
  /\ \E num \in StackDelta, keepTimers \in BOOLEAN : ModStackAmount(num, keepTimers)
  /\ UNCHANGED <<info, deleted, cdLeft, procPending>>

\* A script sets the charges to a value within the maximum.
SetChargesCall ==
  /\ ~deleted
  /\ \E c \in 0 .. CalcMaxCharges : SetCharges(c)
  /\ UNCHANGED <<info, removed, deleted, stack, cdLeft, dropEvent, armed, procPending>>

\* Aura::ResetProcCooldown.
ResetProcCooldown ==
  /\ ~deleted
  /\ cdLeft' = 0
  /\ UNCHANGED <<info, removed, deleted, charges, usingCharges, stack, dropEvent, armed, procPending>>

\* Aura::DropChargeDelayed: schedule a ChargeDropEvent unless one is pending.
DropChargeDelayed ==
  /\ ~deleted
  /\ DropOnRemoved \/ ~removed
  /\ ~dropEvent
  /\ armed < MaxEvents
  /\ dropEvent' = TRUE
  /\ armed' = armed + 1
  /\ UNCHANGED <<info, removed, deleted, charges, usingCharges, stack, cdLeft, procPending>>

\* Mutant of ModChargesDelayed: m_dropEvent is not cleared first.
ModChargesDelayedKeepsEvent == ModCharges(-1, dropEvent, armed - 1)

\* Aura::ModChargesDelayed: forget the event, then drop one charge.
ModChargesDelayed == ModCharges(-1, FALSE, armed - 1)

\* ChargeDropEvent::Execute, run from the owner's event queue.
ChargeDropExecute ==
  /\ armed > 0
  /\ ~deleted
  /\ procPending = 0
  /\ ModChargesDelayed
  /\ UNCHANGED <<info, deleted, stack, cdLeft, procPending>>

\* UnitAura::Remove from anywhere else: expiry, dispel, cancel, drain.
RemoveCall ==
  /\ ~removed
  /\ RemoveFrom(dropEvent, armed)
  /\ UNCHANGED <<info, deleted, charges, usingCharges, stack, cdLeft, procPending>>

\* The owner frees the removed aura at the end of its update.
Delete ==
  /\ removed
  /\ ~deleted
  /\ procPending = 0
  /\ deleted' = TRUE
  /\ UNCHANGED <<info, removed, charges, usingCharges, stack, cdLeft, dropEvent, armed, procPending>>

\* Time passes between proc events.
Tick ==
  /\ procPending = 0
  /\ cdLeft' = IF cdLeft > 0 THEN cdLeft - 1 ELSE 0
  /\ UNCHANGED <<info, removed, deleted, charges, usingCharges, stack, dropEvent, armed, procPending>>

Next ==
  \/ ProcPrepare
  \/ ProcTrigger
  \/ ModChargesCall
  \/ ModStackAmountCall
  \/ SetChargesCall
  \/ ResetProcCooldown
  \/ DropChargeDelayed
  \/ ChargeDropExecute
  \/ RemoveCall
  \/ Delete
  \/ Tick

Spec == Init /\ [][Next]_vars

-----------------------------------------------------------------------------
(* Properties *)

TypeOK ==
  /\ info \in SpellInfos
  /\ removed \in BOOLEAN
  /\ deleted \in BOOLEAN
  /\ charges \in Byte
  /\ usingCharges \in BOOLEAN
  /\ stack \in Byte
  /\ cdLeft \in 0 .. ProcCooldown
  /\ dropEvent \in BOOLEAN
  /\ armed \in 0 .. MaxEvents
  /\ procPending \in 0 .. MaxProcDepth

\* Exhausting the charges removes the aura on the step that reaches zero:
\* outside a proc event, an aura that is not removed and uses charges has
\* at least one left (ModCharges, PrepareProcToTrigger + TriggerProcOnEvent).
ChargesExhaustedRemoves ==
  procPending = 0 /\ ~removed /\ usingCharges => charges > 0

\* The stack count of an aura that is not removed stays within
\* [1, StackAmount], or is 1 for a non-stackable aura (ModStackAmount).
StackInRange ==
  ~removed => 1 <= stack /\ (stack <= StackAmount \/ stack = 1)

\* m_dropEvent tracks the queue: it is set exactly when one live
\* ChargeDropEvent of this aura is queued (DropChargeDelayed,
\* ModChargesDelayed, and the abort in Aura::_Remove).
DropEventTracked ==
  armed = IF dropEvent THEN 1 ELSE 0

\* "_base is always valid" (ChargeDropEvent::Execute): no ChargeDropEvent
\* that will still run refers to an aura that has been freed.
DropEventBaseValid ==
  armed > 0 => ~deleted

\* The aura implements its abstract life (AuraLifecycle): removal is
\* terminal and cancels the pending drop, and the object is freed only
\* once removed and with no ChargeDropEvent left to run on it.
Life == INSTANCE AuraLifecycle WITH
          life <- IF deleted THEN "freed" ELSE IF removed THEN "removed" ELSE "active",
          dropPending <- armed > 0

LifecycleRefined == Life!Spec

=============================================================================
