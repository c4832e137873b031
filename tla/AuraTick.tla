------------------------------- MODULE AuraTick -------------------------------
(***************************************************************************)
(* The per-tick update of one Aura (SpellAuras.cpp): Aura::UpdateOwner     *)
(* runs Aura::Update (duration countdown and the once-a-second resource    *)
(* drain of m_timeCla), then re-resolves targets when m_updateTargetMap-   *)
(* Interval has run out; the owner removes the aura when it has expired.   *)
(* Between updates the caster may leave the map (GetCaster returns null),  *)
(* its resource may change, a stack refresh may call RefreshDuration, and  *)
(* anything may remove the aura.                                           *)
(*                                                                         *)
(* Time is counted in units of Second / IN_MILLISECONDS; an update brings  *)
(* the diff of one world tick.  The observers sinceDrain (caster-present  *)
(* time since the last drain), sinceTimer (caster-present time since the   *)
(* drain timer was last started), drains (the drains paid) and clock (the  *)
(* total time) serve only the properties and the bound.                    *)
(***************************************************************************)
EXTENDS Integers

CONSTANTS
  SpellInfos,          \* records [mps: ManaPerSecond, onHealth: PowerType = POWER_HEALTH,
                       \*          maxDuration: > 0, or -1 for a permanent aura]
  Second,              \* IN_MILLISECONDS, in time units
  TargetMapInterval,   \* UPDATE_TARGET_MAP_INTERVAL, in time units
  Diffs,               \* the diffs a world tick may bring
  MaxPower,            \* bound on the caster's health or power
  MaxClock             \* bound on the total time of a behaviour

ASSUME AuraTickAssumption ==
  /\ SpellInfos # {}
  /\ SpellInfos \subseteq [mps : Nat, onHealth : BOOLEAN, maxDuration : Int]
  /\ \A i \in SpellInfos : i.maxDuration > 0 \/ i.maxDuration = -1
  /\ Second \in Nat \ {0}
  /\ TargetMapInterval \in Nat
  /\ Diffs \subseteq Nat \ {0}
  /\ MaxPower \in Nat
  /\ MaxClock \in Nat

VARIABLES
  info,        \* m_spellInfo (never changes)
  duration,    \* m_duration
  timeCla,     \* m_timeCla
  interval,    \* m_updateTargetMapInterval
  removed,     \* m_isRemoved
  casterIn,    \* GetCaster() # nullptr
  power,       \* the caster's health or power of the drained type
  sinceDrain,  \* caster-present time since the last drain
  sinceTimer,  \* caster-present time since the last drain or refresh
  drains,      \* drains paid so far
  clock        \* total time

vars == <<info, duration, timeCla, interval, removed, casterIn, power,
          sinceDrain, sinceTimer, drains, clock>>

MPS == info.mps
OnHealth == info.onHealth

\* The Aura constructor: the drain timer starts at one second if the spell
\* drains; the target map is resolved on the first update.
Init ==
  /\ info \in SpellInfos
  /\ duration = info.maxDuration
  /\ timeCla = IF MPS # 0 THEN Second ELSE 0
  /\ interval = 0
  /\ removed = FALSE
  /\ casterIn = TRUE
  /\ power \in 0 .. MaxPower
  /\ sinceDrain = 0
  /\ sinceTimer = 0
  /\ drains = 0
  /\ clock = 0

\* Mutant of NextTimeCla: the drain does not reload the timer, which goes
\* on counting down below zero.
NextTimeClaNoReload(diff) == timeCla - diff

\* Mutant of NextTimeCla: the drain restarts the timer from one second and
\* forgets how far the update overshot.
NextTimeClaNoCarry(diff) ==
  IF timeCla > diff THEN timeCla - diff ELSE Second - diff

\* m_timeCla after a running timer is updated by diff: count down, or carry
\* the overshoot into the next second when the drain is due.
NextTimeCla(diff) ==
  IF timeCla > diff THEN timeCla - diff ELSE timeCla + Second - diff

\* Aura::Update finds a drain due: the duration is running, the timer is
\* running and has run out, the caster is there and the spell drains.
DrainDue(diff) == duration > 0 /\ timeCla # 0 /\ ~(timeCla > diff) /\ casterIn /\ MPS # 0

\* The caster can pay: a health drain must leave the caster alive.
CanPay == IF OnHealth THEN power > MPS ELSE power >= MPS

(***************************************************************************)
(* Aura::UpdateOwner(diff) with Aura::Update, and the owner's removal of   *)
(* the aura once its duration has run out.  A drain the caster cannot pay  *)
(* removes the aura; UpdateTargetMap then returns early and leaves the     *)
(* interval alone.                                                         *)
(***************************************************************************)
UpdateOwner(diff) ==
  LET due == DrainDue(diff)
      drainRemoved == due /\ ~CanPay
      dur == IF duration > 0 THEN IF duration - diff < 0 THEN 0 ELSE duration - diff
             ELSE duration
  IN
  /\ ~removed
  /\ clock + diff <= MaxClock
  /\ duration' = dur
  /\ timeCla' = IF duration > 0 /\ timeCla # 0 /\ (timeCla > diff \/ due)
                THEN NextTimeCla(diff) ELSE timeCla
  /\ power' = IF due /\ CanPay THEN power - MPS ELSE power
  /\ interval' = IF interval > diff THEN interval - diff
                 ELSE IF drainRemoved THEN interval ELSE TargetMapInterval
  /\ removed' = (drainRemoved \/ dur = 0)
  /\ sinceDrain' = IF due /\ CanPay THEN 0 ELSE IF casterIn THEN sinceDrain + diff ELSE sinceDrain
  /\ sinceTimer' = IF due THEN 0 ELSE IF casterIn THEN sinceTimer + diff ELSE sinceTimer
  /\ drains' = IF due /\ CanPay THEN drains + 1 ELSE drains
  /\ clock' = clock + diff
  /\ UNCHANGED <<info, casterIn>>

\* Aura::RefreshDuration(false), from RefreshTimers on a stack refresh.
RefreshDuration ==
  /\ ~removed
  /\ duration' = info.maxDuration
  /\ timeCla' = IF MPS # 0 THEN Second ELSE timeCla
  /\ sinceTimer' = IF MPS # 0 THEN 0 ELSE sinceTimer
  /\ UNCHANGED <<info, interval, removed, casterIn, power, sinceDrain, drains, clock>>

\* The caster leaves or re-enters the owner's map.
CasterMoves ==
  /\ casterIn' = ~casterIn
  /\ UNCHANGED <<info, duration, timeCla, interval, removed, power, sinceDrain,
                 sinceTimer, drains, clock>>

\* The caster's resource changes for other reasons (regeneration, spells).
PowerChanges ==
  /\ \E p \in 0 .. MaxPower : power' = p
  /\ UNCHANGED <<info, duration, timeCla, interval, removed, casterIn, sinceDrain,
                 sinceTimer, drains, clock>>

\* UnitAura::Remove from elsewhere (dispel, cancel, owner death).
RemoveCall ==
  /\ ~removed
  /\ removed' = TRUE
  /\ UNCHANGED <<info, duration, timeCla, interval, casterIn, power, sinceDrain,
                 sinceTimer, drains, clock>>

Next ==
  \/ \E diff \in Diffs : UpdateOwner(diff)
  \/ RefreshDuration
  \/ CasterMoves
  \/ PowerChanges
  \/ RemoveCall

Spec == Init /\ [][Next]_vars

-----------------------------------------------------------------------------
(* Properties *)

TypeOK ==
  /\ info \in SpellInfos
  /\ duration \in Int
  /\ timeCla \in Int
  /\ interval \in Int
  /\ removed \in BOOLEAN
  /\ casterIn \in BOOLEAN
  /\ power \in 0 .. MaxPower
  /\ sinceDrain \in Nat
  /\ sinceTimer \in Nat
  /\ drains \in Nat
  /\ clock \in 0 .. MaxClock

\* The spec: "a secondary resource-drain timer (independent of duration)
\* fires once per second" (Aura::Update): while a draining aura lives, less
\* than a second of caster-present time passes without a drain, whatever
\* the world ticks and the refreshes of RefreshDuration.
DrainOnSchedule ==
  ~removed /\ MPS # 0 => sinceDrain < Second

\* What the drain timer of Aura::Update promises: a live draining aura is
\* drained, or removed for want of the resource, less than a second of
\* caster-present time after its timer was last started, by the
\* constructor, the previous drain or RefreshDuration.
DrainOnTimer ==
  ~removed /\ MPS # 0 => sinceTimer < Second

\* The carry m_timeCla += 1000 - diff never makes the caster pay ahead of
\* time: after any world ticks, long ones and the catch-up drains that
\* follow them included, and any refreshes, the drains paid are at most
\* the whole seconds the aura has been updated.
DrainsNotAhead ==
  drains * Second <= clock

=============================================================================
