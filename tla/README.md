# Verification of the aura subsystem (SpellAuras.cpp) and two scripts

This directory holds TLA+ models of the aura code of the server,
`src/src/server/game/Spells/Auras/SpellAuras.cpp`, and of two scripts of the
repository: the GM title commands (`cs_titles.cpp`) and the Majordomo Executus
boss (`boss_majordomo_executus.cpp`). It has three kinds of artefact:

- TLC configurations that model-check the models on small instances;
- TLAPS proofs of their main invariants for every value of the constants;
- `PROJECT.json`, which records:
  - the components and their status;
  - the runs;
  - the mutants that show each checked property can be broken by a plausible bug;
  - the map from every modelled definition to the source lines it translates;
  - the findings;
  - the hazards;
  - the theorems.

## The system and how its parts interact

An `Aura` is created by a caster on an owner unit. It is bound to a set of
target units through `AuraApplication`s. Three concerns meet in one aura object:

1. **Binding and visible slots.** `TryRefreshStackOrCreate` either refreshes a
   matching aura or creates a new one.
   - On creation, the owner first loses the auras the new one does not stack
     with (`_RemoveNoStackAurasDueToAura`).
   - `UpdateTargetMap` then binds the aura to the targets that `FillTargetMap`
     finds, except a target that carries an aura it does not stack with
     (`CanStackWith`).
   - Each application may take one of the `MAX_AURAS` visible slots of its target.
     Applications of the same identity (spell, caster) share a slot.
   - `AuraApplication::_Remove` hands the slot over to a remaining application
     of that identity, or frees it.
   - `UnitAura::Remove` / `_Remove` unapplies every application and marks the
     aura removed. The object is freed later.
2. **Charges, stacks and procs.**
   - A proc event takes a charge in `PrepareProcToTrigger` and removes the aura
     in `TriggerProcOnEvent` when the charges reach zero.
   - Handlers run in between may change charges and stacks
     (`ModCharges`, `ModStackAmount`, `SetCharges`) and may start nested proc
     events.
   - `DropChargeDelayed` queues a `ChargeDropEvent` in the owner's event queue.
     `_Remove` aborts it.
3. **The per-tick update.** `UpdateOwner` runs `Update`:
   - the duration counts down;
   - `m_timeCla` drains `ManaPerSecond` of the caster's health or power once a
     second, and removes the aura if the caster cannot pay;
   - `UpdateTargetMap` is re-run every `UPDATE_TARGET_MAP_INTERVAL`;
   - `RefreshDuration` (a stack refresh) restarts both timers.

The concerns share the aura's removal. Slots and charges both end in `_Remove`,
and the drain removes through `Remove`. They are modelled as three modules, each
with its own removal step. The interaction each keeps is the one its properties
need:

- the unapplying of `_Remove` in AuraSlots;
- the drop-event abort of `_Remove` in AuraCharges;
- the early return of `UpdateTargetMap` on a removed aura in AuraTick.

## Modules

| Module | Models | Proofs |
|---|---|---|
| `AuraSlots` | auras of several units, their applications, slots and visible maps | `AuraSlots_proofs` |
| `AuraCharges` | one aura's charges, stack, proc cooldown, nested proc events, ChargeDropEvent queue, removal and freeing | `AuraCharges_proofs` |
| `AuraLifecycle` | what an aura promises about its life (active, removed, freed) and its pending charge drop; the abstract specification that `AuraCharges` implements | refinement in `AuraCharges_proofs` |
| `AuraTick` | one aura's duration, drain timer, target-map interval and caster resource across world ticks | `AuraTick_proofs` |
| `TitleCommands` | the known and chosen titles of the players a GM may select, under the four `.titles` commands | `TitleCommands_proofs` |
| `MajordomoEncounter` | the Majordomo fight, his surrender and the outro that summons Ragnaros | `MajordomoEncounter_proofs` |
| `MC_AuraSlots`, `MC_AuraCharges`, `MC_AuraTick`, `MC_TitleCommands`, `MC_MajordomoEncounter` | TLC instances (constant definitions only) | |

### AuraSlots

The state is a set of aura ids (`1..MaxAuraObjects`; an id is the object's
address and is reused once the aura is freed). For each id it holds:

- a state (`free`, `live`, `removed`);
- the owner, spell and caster;
- `applied`, the keys of `m_applications`;
- `slot[a][t]`, the `_slot` of the application on target `t` (`NoSlot == MAX_AURAS` when it is not shown).

Each unit also has `visible[t]`, its `m_visibleAuras`.

The actions are:

- `Create`: the create branch of `TryRefreshStackOrCreate` together with `Create`, the no-stack removal on the owner, and the first `UpdateTargetMap`.
- `UpdateTargetMap`: adds the targets of a new candidate set that stack, and unapplies the targets that are gone.
- `Remove`: `UnitAura::Remove` → `_Remove`. The application is unapplied and its slot handed over or freed.

The helpers translate the code they stand for:

- `AssignedSlot` / `IsLowestFree`: the slot choice of the `AuraApplication` constructor;
- `RowAfterUnapply`: the handover in `AuraApplication::_Remove`;
- `CanStackWith`: the rules of `Aura::CanStackWith` that decide for two distinct unit auras told apart by spell and caster;
- `Candidates`: `FillTargetMap`, abstracted to the owner for a non-area aura and the owner plus any subset of the other units for an area aura.

`UnitAura::RemoveFromTarget` is not an action of its own. It is the same unapply
as `UpdateTargetMap` dropping a target other than the owner, which the model
already covers.

### AuraCharges

The state of one aura:

- `charges`, `usingCharges`, `stack`;
- `cdLeft`, the proc cooldown still to run;
- `procPending`, the proc events prepared and not yet triggered, up to `MaxProcDepth` nested;
- `dropEvent` (`m_dropEvent` is set);
- `armed`, the live `ChargeDropEvent`s in the owner's queue;
- `removed`, `deleted`.

The actions are:

- `ProcPrepare` (`PrepareProcToTrigger`) and `ProcTrigger` (`TriggerProcOnEvent`), which are the two halves of a proc event;
- the handler calls `ModChargesCall`, `ModStackAmountCall` and `SetChargesCall`;
- `ResetProcCooldown`;
- `DropChargeDelayed` and `ChargeDropExecute` (`ChargeDropEvent::Execute` → `ModChargesDelayed`);
- `RemoveCall` (`Remove` → `_Remove`, which aborts the drop event);
- `Delete` (the owner frees the removed aura at a safe point);
- `Tick` (the cooldown runs down).

Charges are a `uint8`: `CalcMaxCharges` is taken `% 256`. `StackAmount` is the
spell's value, and `SetStackAmount` stores a `uint8`.

The constant `DropOnRemoved` says whether a caller may call `DropChargeDelayed`
on an aura it still holds after removal. No caller under `src/` is modelled, so
both answers are explored.

#### Refinement of AuraLifecycle

`AuraLifecycle` states the aura's promise from the design: an aura is
active until removed, removal is final, the object is freed only after
removal, at most one delayed charge drop is pending, removal cancels it, and
a drop that runs takes one charge, which may remove the aura. Its actions are
`ScheduleDrop`, `RunDrop`, `Remove` and `Free`.

`AuraCharges` instantiates it as `Life` with the refinement mapping:

- `life` is `"freed"` when `deleted`, `"removed"` when `removed`, and `"active"` otherwise;
- `dropPending` is `armed > 0`, a live `ChargeDropEvent` queued.

`LifecycleRefined == Life!Spec` is a property of `charges_safety`. Proc events,
handler calls, charge and stack changes and cooldown ticks map to stutters.
`DropChargeDelayed` maps to `ScheduleDrop` or to a stutter.
`ChargeDropExecute` maps to `RunDrop`, `RemoveCall` to `Remove`, and `Delete`
to `Free`.

### AuraTick

The state of one aura:

- `duration`, `timeCla`, `interval`, `removed`;
- `casterIn`: `GetCaster()` returns a unit;
- `power`: the caster's health or power of the drained type;
- the observers, which no code reads:
  - `sinceDrain`: the caster-present time since the last drain;
  - `sinceTimer`: the caster-present time since the drain timer was last
    started (by the constructor, a drain, or `RefreshDuration`);
  - `drains`: the drains paid so far;
  - `clock`: the total time, which bounds the behaviour.

Time is counted in units of 250 ms in the instances.

- `UpdateOwner(diff)` is the whole of `Aura::UpdateOwner` with `Aura::Update`:
  - the duration is clamped at 0;
  - the drain either counts down or carries the overshoot (`m_timeCla += 1000 - diff`);
  - the caster pays, or the aura is removed;
  - the interval counts down, or `UpdateTargetMap` runs unless the aura was just removed.

  The owner's removal of an expired aura (`Unit::_UpdateSpells`, not under
  `src/`) is folded into the same step. The `m_dropEvent` condition of
  `IsExpired` is ignored here, since no drop event exists in this module.
  `UPDATE_TARGET_MAP_INTERVAL` is defined outside `src/` and is the constant
  `TargetMapInterval`.
- `RefreshDuration` restarts the duration and the drain timer
  (`m_timeCla = 1 * IN_MILLISECONDS`, lines 816–817). It restarts
  `sinceTimer`, but not `sinceDrain`.
- The environment:
  - `CasterMoves` (the caster leaves or re-enters the map);
  - `PowerChanges` (regeneration or other spells);
  - `RemoveCall` (dispel, cancel, death).

### TitleCommands

The state is `knownTitles[p]`, the bits set in player `p`'s
`PLAYER__FIELD_KNOWN_TITLES` (four 64-bit words), and `chosenTitle[p]`, the
`PLAYER_CHOSEN_TITLE` field. A title store entry has a DBC id and a `Mask_ID`
(`MaskOf`). The actions are the handlers:

- `CurrentCmd` (`.titles current`);
- `AddCmd` (`.titles add`);
- `RemoveCmd` (`.titles remove`, then the chosen-title reset);
- `SetMaskCmd` (`.titles set mask`).

Each takes the selected player and its argument from a small set that holds
invalid ids as well as valid ones. A command that fails (no link, `id <= 0`,
no player selected, lower security, unknown id) returns before it changes
anything, so it is a stutter.

`uint64(1) << tEntry->Mask_ID` is undefined for `Mask_ID >= 64`. It is
modelled as a choice per entry between the x86 result (bit `Mask_ID % 64`) and
no bit. `SetUInt64Value` writes only the first word of the field, so set mask
leaves the titles with `Mask_ID >= 64` as they were. `Player::SetTitle` and
`HasTitle` live outside `src/`. They are modelled as setting, clearing and
testing one bit.

### MajordomoEncounter

The state:

- `bossState` (the instance's boss state);
- `inCombat`, `evading`;
- `adds`, the Flamewakers alive;
- `combatEvents`;
- `outro`, the scheduled outro events with their seconds left;
- `friendly`, `gossip` (`UNIT_NPC_FLAG_GOSSIP`);
- `played`, the outro events run so far.

The actions are:

- `JustEngagedWith`;
- `KillAdd` (the raid);
- `EnterEvadeMode`;
- `Reset` (on reaching home);
- `UpdateAIFight`, with the surrender when no add is left;
- `UpdateAIOutro`, which advances the timers and runs every due outro event in due-time order, as `EventMap::ExecuteEvent` returns them. The EventMap keeps its events in a multimap sorted by due time, so `ByDueTime` lists the due events as the sequence without repeats whose times do not decrease, and `DueOrder` takes their ids;
- `GossipSelect`, with `DoAction(ACTION_START_RAGNAROS)`.

There are two initial states: a fresh instance, where `Reset` summons the
eight adds, and an instance saved with Majordomo DONE. In the saved case
`Reset` returns at once, and the instance script's
`DoAction(ACTION_START_RAGNAROS_ALT)` offers the gossip.

The four combat events only cast spells and reschedule themselves, so they
are kept as scheduled or not. `DamageTaken` (he never drops below 1 hp), the
Aegis cast and the talk lines are left out. Gossip is offered only while the
flag is set; that check is in the opcode handler, outside `src/`.

## Runs

| Run | Expect | Checks | Shows |
|---|---|---|---|
| `slots_safety` | pass | `VisibleSlotHeldByApplied`, `AppliedSlotShown`, `AppliedAurasStack`, `SlotNotDisplaced` | No visible slot ever points at an application that is gone or at a different slot ("prevent storing dead pointers"). No applied application holding a slot is missing from it, across slot sharing and handover. No two non-stacking auras are ever bound to one unit. The action property `SlotNotDisplaced`: no step gives the slot of an aura that stays applied to another identity, so the client never loses the icon of an aura it still has. |
| `charges_safety` | pass | `ChargesExhaustedRemoves`, `StackInRange`, `DropEventTracked`, `DropEventBaseValid`, `LifecycleRefined` | Outside a proc event, a live charge-using aura has a charge left. The stack stays in range. `m_dropEvent` is set exactly when one live drop event is queued. No drop event that will run refers to a freed aura, when drops are requested on live auras only. Every step is a step or a stutter of `AuraLifecycle` under the refinement mapping. |
| `drop_after_remove` | violation | `DropEventBaseValid` | With `DropOnRemoved = TRUE` the queued event outlives the aura: `_Remove` has already cleared `m_dropEvent`, and `DropChargeDelayed` does not look at `m_isRemoved`. |
| `titles_safety` | pass | `ChosenTitleKnown` | Any sequence of title commands on two players, with valid and invalid ids and masks, leaves each chosen title 0 or known to its player. |
| `titles_mask_wrap` | violation | `KnownTitlesExist` | With a title whose `Mask_ID` is 64, `.titles set mask 1` keeps bit 0, which no entry has, because the wrapped shift put bit 0 in `allValidTitleMask`. The comment says the line removes non-existing titles. |
| `majordomo_outro` | pass | `OutroInOrder`, `OutroProgresses` | The outro plays at most once and in order (OUTRO_1, OUTRO_2, OUTRO_3, or OUTRO_2, OUTRO_3 after a saved instance), including when a 30-second tick makes two events due together. Under fairness of `UpdateAI`, a surrender always leads to the gossip or to Ragnaros coming, and a scheduled arrival line is always said. |
| `tick_drain` | pass | `DrainOnTimer` | With ticks of 250 ms to 1 s, in any interleaving with refreshes, caster moves, resource changes and removals, a live draining aura is drained less than a second of caster-present time after its drain timer was last started: by the constructor, the previous drain, or a refresh. This is what the code guarantees. The spec's stronger claim fails, as `tick_refresh` shows. |
| `tick_refresh` | violation | `DrainOnSchedule` | The spec's "independent of duration, once per second" fails. A refresh sets `m_timeCla` back to a full second, so a second of caster-present time passes without a drain. Refreshes less than a second apart postpone the drain for as long as they go on. |
| `tick_catch_up` | pass | `DrainsNotAhead` | Ticks of 250 ms, 1250 ms and 2250 ms drive `m_timeCla` to zero or below it. The drains that catch up on the following ticks never charge the caster more drains than whole seconds have passed, with refreshes, caster moves and removals in any order. |
| `tick_late_diff` | violation | `DrainOnTimer` | On a tick of 1250 ms with 250 ms left, `m_timeCla` becomes exactly 0 and `if (m_timeCla)` stops the drain for good. |
| `tick_permanent` | violation | `DrainOnTimer` | A permanent aura (duration −1) never drains, because the drain runs inside `if (m_duration > 0)`. |

The five violations are recorded as findings in `PROJECT.json`. The spec says:

- the drain timer fires once per second, independent of duration;
- a stale drop entry is checked against the removed flag.

The code keeps neither promise in these cases:

- `tick_late_diff` needs a tick longer than a second, which a loaded server
  does produce. Even the weaker `DrainOnTimer` fails there.
- `tick_permanent` depends on data: a permanent aura that drains.
- `tick_refresh` needs stack refreshes less than a second apart.
- `drop_after_remove` depends on a caller outside `src/`.

The fifth violation, `titles_mask_wrap`, contradicts the code's own comment.

Each property of a passing run has a mutant in `PROJECT.json`. Each mutant is a
plausible bug that makes TLC find the property violated:

- a slot kept, or not handed over, on unapply;
- no-stack removal restricted to auras the owner cast;
- no removal when the last charge goes;
- a non-stackable aura not pinned to 1;
- `m_dropEvent` not cleared when the event runs;
- `_Remove` not aborting the event;
- the drain timer forgetting its overshoot (which breaks `DrainOnTimer`);
- the drain timer not reloaded with a second, so that it drains on every
  update once it is due (which breaks `DrainsNotAhead`);
- `_Remove` keeping the drop event (which breaks the refinement);
- the chosen title never reset;
- the two outro delays swapped;
- `_JustDied`'s EventMap reset placed after `OUTRO_1` is scheduled.

### Bounds and why they are enough

- **`MC_AuraSlots`.** The instance has:
  - two units;
  - an area spell that stacks for different casters, and a multi-slot spell;
  - one visible slot;
  - three aura objects.

  One slot is the smallest row in which "slot full" and "slot shared" both
  happen. Three objects allow two applications of one identity on a unit plus
  a third aura, which is what handover and no-stack removal need. Two units
  make an area aura reach a non-owner target and let different casters exist.
- **`MC_AuraCharges`.** The instance has:
  - three spells: two charges; stacks as charges; non-stackable and not refreshed;
  - a cooldown of one tick;
  - caller deltas of ±1;
  - two nested proc events;
  - one queued drop event.

  Each reaches its zero and its limit within a few steps. The nesting depth 2 is
  what lets a handler drain the last charge between prepare and trigger.
- **`MC_AuraTick`.** The instance has:
  - a second of 4 units;
  - ticks of 1–4 units;
  - a target-map interval of 2;
  - power up to 3;
  - drains of 2 mana and of 1 health, and a non-draining spell;
  - durations of 12 units;
  - a clock bound of 14.

  Every residue of `m_timeCla` modulo the tick is reached. Both the countdown and
  the carry branch fire, with and without the caster, and the aura can expire,
  run out of power and be refreshed. The `late` and `permanent` configurations
  use a 16-unit duration, so that the drain timer can first be run down to one
  unit. The `long` configuration (`tick_catch_up`) adds ticks of 9 units
  (2250 ms) and a clock bound of 20. A 9-unit tick takes the timer below
  zero from any value, and the 1-unit ticks after it show the catch-up
  drains. `refresh` uses the instance of `tick_drain`.

- **`MC_TitleCommands`.** The instance has:
  - two players;
  - three titles with `Mask_ID`s 1, 2 and 64;
  - ids −1, 0, 1–3 and 4 (no entry);
  - masks {}, {0}, {1, 3} and {0, 1, 2, 3}.

  Mask_ID 64 is the smallest that wraps, and 3 is a bit no title has. Two
  players show that commands on one player leave the other alone. That gives
  1600 states.
- **`MC_MajordomoEncounter`.** The instance has:
  - the eight adds of the code;
  - ticks of 1, 4, 10 and 30 s;
  - menu ids 4108 and 4109.

  A 30-second tick makes `OUTRO_2` (8 s) and `OUTRO_3` (24 s) due in one
  update. The short ticks make each outro event fire alone.

No symmetry is used. Spells differ in their data. In AuraSlots the aura ids are
interchangeable in principle, but the lowest-free-slot choice and the CHOOSE in
the handover make symmetry unsound.

### Fairness

One run checks liveness.

- **`majordomo_outro`** uses `FairSpec == Spec /\ WF_vars(\E diff \in Diffs : UpdateAIOutro(diff))`.
  The map calls `UpdateAI` of every spawned creature on every update. No
  fairness is assumed of the raid: kills, pulls and gossip selections may
  never happen.

No liveness is claimed for the delayed charge drop. When a queued
`ChargeDropEvent` runs is decided by the owner's event queue
(`EventProcessor`, `Unit::Update`), outside `src/`. A fairness condition on
`ChargeDropExecute` would assume the answer, so nothing would be checked.

## Proofs (TLAPS)

| Module | Theorem | Statement |
|---|---|---|
| `AuraSlots_proofs` | `TypeCorrect` | `Spec => []TypeOK` for all units, spells and bounds |
| | `AppliedAurasStackHolds` | `Spec => []AppliedAurasStack` |
| | `VisibleSlotHeldByAppliedHolds` | `Spec => []VisibleSlotHeldByApplied` |
| | `AppliedSlotShownHolds` | `Spec => []AppliedSlotShown` |
| | `SlotNotDisplacedHolds` | `Spec => SlotNotDisplaced`, the action property `[][NotDisplacedStep]_vars` |
| `AuraCharges_proofs` | `ChargesExhaustedRemovesHolds` | `Spec => []ChargesExhaustedRemoves` |
| | `DropEventTrackedHolds` | `Spec => []DropEventTracked` |
| | `StackInRangeHolds` | `StackBound => (Spec => []StackInRange)` |
| | `DropEventBaseValidHolds` | `~DropOnRemoved => (Spec => []DropEventBaseValid)` |
| | `LifecycleRefinedHolds` | `~DropOnRemoved => (Spec => LifecycleRefined)` |
| `TitleCommands_proofs` | `ChosenTitleKnownHolds` | `Spec => []ChosenTitleKnown` for all players, title stores and inputs |
| `AuraTick_proofs` | `DrainOnTimerHolds` | `TickBound => (Spec => []DrainOnTimer)` |
| | `DrainsNotAheadHolds` | `Spec => []DrainsNotAhead` for every tick length and every spell |
| `MajordomoEncounter_proofs` | `OutroInOrderHolds` | `Spec => []OutroInOrder` for every add count, set of tick lengths and gossip inputs |

All of them hold for every value of the constants that satisfies the module's
`ASSUME`, together with each theorem's own hypothesis. The hypotheses are the
conditions the violation runs show to be necessary:

- `StackBound`: every `StackAmount` ≤ 255, since `SetStackAmount` stores a `uint8`.
- `~DropOnRemoved`: callers do not request drops on removed auras, since `drop_after_remove` shows what happens otherwise.
- `TickBound`: every tick is at most a second and every draining aura has a positive duration, since `tick_late_diff` and `tick_permanent` show what happens otherwise.

The proofs run along these lines:

- **AuraCharges.** `ChargesExhaustedRemoves` is not inductive. A handler can
  take charges while a proc event is pending, and an aura that uses stacks as
  charges reaches zero by another path. The strengthening `ChargeInv` states
  that a live charge-using aura with no charges left has a proc event pending
  and does not use stacks for charges. The inductive invariant is
  `Inv == TypeOK /\ DropEventTracked /\ ChargeInv`, and one lemma per action
  proves that the action preserves it.
  - `DropEventBaseValid` rests on `BaseInv`: a set `m_dropEvent` implies not
    removed, and deleted implies removed. Together with `DropEventTracked`,
    `BaseInv` shows that a freed aura has no armed event.
  - The stack range is proved with `StackFrame` and the range lemma of
    `ModStackAmount`.
  - The helpers (`SetCharges`, `RemoveFrom`, `ModCharges`, `ModStackAmount`)
    each have an effect lemma. The action lemmas cite these.
  - The refinement reuses `Inv` and `BaseInv`. `LifeStutter` shows that
    steps leaving `removed`, `deleted` and `armed > 0` alone are stutters.
    `KeepOrRemoveLife` covers the charge change that may remove the aura, and
    `ChargeDropExecuteLife` shows that a running event is `RunDrop`: by
    `DropEventTracked`, `armed = 1` and `m_dropEvent` is set, and by `BaseInv`
    the aura is live. `NextLife` has one case per action.
- **AuraTick.** The type invariant is proved once, for every tick length, by
  one lemma per action. Both theorems build on it.
  - `DrainOnTimer` is not inductive: `sinceTimer < Second` says nothing about
    how soon the next drain comes. The strengthening `DrainInv` states that a
    live aura has positive duration and, if it drains, that
    `1 <= timeCla <= Second` and `sinceTimer + timeCla <= Second`. In words,
    the time since the timer was started plus the time left on it never
    exceeds a second. `UpdateOwner` is proved in three cases:
    - the timer counts down;
    - the drain is due and the caster is present (the carry lands in `1..Second` because `diff <= Second`);
    - the caster is absent (the timer and `sinceTimer` both stand still).

    A refresh sets both to their start values. The theorem therefore says
    nothing about `sinceDrain`, and `tick_refresh` shows that no such theorem
    holds.
  - `DrainsNotAhead` (`drains * Second <= clock`) needs `AheadInv`: the timer
    never holds more than a second, and
    `drains * Second + Second <= clock + timeCla`. A countdown moves the diff
    from the timer to the clock. A drain reloads the timer with
    `Second - diff` while the clock gains `diff`, so both sides gain a
    second. A refresh, a stopped timer, an absent caster or a duration that
    is not positive only make the right side larger. No tick bound is
    needed. `MulSucc` supplies `(a + 1) * b = a * b + b` for the step.

  The arithmetic is stated in context-free lemmas (`PayInRange`,
  `TimerLeavesRoom`, `MulSucc`).

- **TitleCommands.** `ChosenTitleKnown` is inductive together with the type.
  `KeepChosenFacts` shows the reset yields 0 or a known bit. The set-mask
  case picks the wrap choice of the undefined shift and shows that the new
  field stays within its 256 bits.
- **AuraSlots.** Each action preserves the type. The lemmas cover the row after
  an unapply, the slot map after deletion, and `ShowAt`. The three slot
  properties are proved with three nested strengthenings, each with one
  lemma per action:
  - `StackInv` adds to `AppliedAurasStack` that an aura that is not live
    has no applications (`LiveApplied`) and that a live aura is applied to
    its owner (`OwnerApplied`). `OwnerApplied` is needed because
    `UpdateTargetMap` lets the owner in without the stacking filter. Creation
    stays sound because the no-stack removal of `_AddAura` has already
    taken every non-stacking aura off the owner. `CanStackSym` states that
    `CanStackWith` is symmetric.
  - `SlotInv == StackInv /\ VisibleSlotHeldByApplied`. `LiveApplied` keeps
    a reused aura id off every row. `RowAfterUnapplyHeld` shows that every
    entry of a row left by `_Remove` is an application that stays, holds
    that slot and is not leaving. `UnapplyAllHeld` lifts this to the whole
    visible map.
  - `ShownInv == SlotInv /\ AppliedSlotShown /\ SameIdSameSlot /\ HiddenNoSlot`.
    `AppliedSlotShown` alone is not inductive. `_Remove` hands a slot to
    the application that `GetAuraApplication` finds, and that is right only
    if every application of the identity holds that same slot
    (`SameIdSameSlot`: the constructor copies the slot of the one it finds).
    A hidden aura holds no slot (`HiddenNoSlot`), so a hidden application
    and an older one of its identity agree on `NoSlot`.
    `RowAfterUnapplyShown` and `UnapplyAllShown` show that the handover
    keeps each staying application's slot shown with its identity.
    `AssignedSlotFacts` says what the constructor's slot is: none when
    hidden, the shared slot when one is found, else a free slot or none.
  - `SlotNotDisplaced` follows from `ShownInv` in both states of a step.
    `CreateSlotStable` and `UpdateTargetMapSlotStable` say that an
    application that stays keeps its `_slot` and
    its identity, and `AppliedSlotShown` in the next state then shows that
    identity in the same slot.

TLC checked every strengthened invariant (`Inv`, `BaseInv`, `DrainInv`, `AheadInv`,
`StackInv`, `SlotInv`, `ShownInv`) as an invariant before it was proved. The
AuraSlots ones were checked on the instance of `slots_safety` plus a hidden
multi-slot spell, with `MaxAuras` 1 and 2 (60 469 and 135 725 states).

#### MajordomoEncounter_proofs

`OutroInOrder` is not inductive. A state that has played nothing but
holds `OUTRO_3` due before `OUTRO_2` satisfies it, and the next long tick
breaks it. The inductive invariant `OutroInv` adds the following:

- `played` is one of the six prefixes of the two scripts (`Prefixes`).
- The scheduled events have one of four shapes (`ShapeOf`):
  - nothing is scheduled;
  - `OUTRO_1` alone is scheduled, with nothing played and no gossip;
  - `OUTRO_2` at `t` and `OUTRO_3` at `t + 16` are scheduled, after at
    most `OUTRO_1` was played;
  - `OUTRO_3` alone is scheduled, after `OUTRO_2` was played.
- The gossip is offered only with nothing scheduled, and after at most
  `OUTRO_1`.
- Before the surrender, nothing is scheduled, played or offered.
- A DONE boss is friendly and out of combat, so no fight step runs after
  the surrender.

The 16-second offset is what makes `OUTRO_2` run first whenever both
become due in one tick. The two `DueOrder` lemmas that the step proof needs
are `DueOrderOne` (one event) and `DueOrderTwo` (two events with different
due times). Both are proved from the `CHOOSE` of `ByDueTime`, so no
induction is needed. `UpdateAIOutroShape` follows a tick through every
shape and every choice of which events become due. `PrefixesInOrder` shows
that each prefix is a prefix of a script. TLC checked `OutroInv` as an
invariant of `Spec` before it was proved, on the instance with tick
lengths 1, 4, 10, 16 and 30 seconds, two adds and both menu options
(91 states).

### Only model-checked

- The liveness property `OutroProgresses`. TLAPS does not handle liveness
  under fairness or `ENABLED`.

## Not modelled

- **DynObjAura.** It uses the same `_Remove` but targets the units under its
  dynamic object. It is planned for a later sitting.
- **Effect handling and spell-specific modifiers** (`HandleAllEffects`,
  `HandleAuraSpecificMods`, `_HandleEffect`). These are per-spell mechanics over
  unit stats, and no property tells them apart.
- **Script hooks** (`CallScript*Handlers`). Their effect on aura state is
  covered by the arbitrary caller steps of AuraCharges (charge and stack
  changes, vetoes).
- **Persistence and packets** (`SetLoadedState`, `BuildUpdatePacket`,
  `SaveCasterInfo`). These are pure I/O.
- **Refresh of an existing aura in `TryRefreshStackOrCreate`.** Its stack change
  is `ModStackAmountCall` of AuraCharges, and its timer restart is
  `RefreshDuration` of AuraTick. The binding side (AuraSlots) only creates.
- **Geometric target search in `FillTargetMap`.** It is abstracted to
  nondeterministic subsets.
- **Majordomo's `DamageTaken`, Aegis and talk lines**, and the timers of his
  four combat events. They change no state that a property tells apart.
- The other files listed in `PROJECT.json`: a chat channel header, a movement
  base, a dungeon constants header, compiler macros and the packet helper.
  They hold declarations or pure I/O.

## Plan

Planned next steps:

- a composed module in which a charge-exhausting proc, a drain and an expiry
  race for the same `_Remove`, and AuraSlots' removal carries the drop-event
  abort;
- liveness of freeing: a removed aura is eventually deleted;
- an abstract "aura set of a unit" specification refined by AuraSlots;
- `DynObjAura`.
