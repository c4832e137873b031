---------------------------- MODULE AuraTick_proofs ----------------------------
(***************************************************************************)
(* Proofs about the drain timer of Aura::Update.                           *)
(*                                                                         *)
(* DrainOnTimer, when every world tick is at most a second and the aura's  *)
(* duration is finite.  The inductive invariant DrainInv says that a live  *)
(* aura's duration runs, and that a draining aura's timer is between one   *)
(* unit and a second and the time since the timer was started plus the    *)
(* time left on it is at most a second: the carry m_timeCla += 1000 - diff *)
(* keeps that sum.                                                         *)
(*                                                                         *)
(* DrainsNotAhead, for every tick length.  The inductive invariant         *)
(* AheadInv says that the timer never holds more than a second and that    *)
(* one second more than the drains paid is at most the time so far plus   *)
(* what is left on the timer: a countdown moves time from the timer to the *)
(* clock, a drain adds a second to both sides, and a refresh or a stopped  *)
(* timer only makes the right side larger.                                 *)
(***************************************************************************)
EXTENDS AuraTick, TLAPS

\* Ticks of at most a second, and no permanent aura.
TickBound ==
  /\ \A d \in Diffs : d <= Second
  /\ \A i \in SpellInfos : i.maxDuration > 0

DrainInv ==
  ~removed => /\ duration > 0
              /\ MPS # 0 => /\ 1 <= timeCla /\ timeCla <= Second
                            /\ sinceTimer + timeCla <= Second

IInv == TypeOK /\ DrainInv

AheadInv ==
  /\ MPS # 0 => timeCla <= Second /\ drains * Second + Second <= clock + timeCla
  /\ MPS = 0 => drains = 0

AInv == TypeOK /\ AheadInv

\* The type invariant split into its arithmetic and its Boolean part.
TypeNum ==
  /\ duration \in Int /\ timeCla \in Int /\ interval \in Int
  /\ power \in 0 .. MaxPower /\ sinceDrain \in Nat /\ sinceTimer \in Nat
  /\ drains \in Nat /\ clock \in 0 .. MaxClock
TypeBool == info \in SpellInfos /\ removed \in BOOLEAN /\ casterIn \in BOOLEAN

LEMMA TypeSplit == TypeOK <=> TypeNum /\ TypeBool
BY Zenon DEF TypeOK, TypeNum, TypeBool

LEMMA TypeJoin ==
  ASSUME TypeNum', TypeBool'
  PROVE  TypeOK'
BY Zenon DEF TypeOK, TypeNum, TypeBool

LEMMA InfoFacts ==
  ASSUME info \in SpellInfos
  PROVE  MPS \in Nat /\ OnHealth \in BOOLEAN /\ info.maxDuration \in Int
<1>1. info \in [mps : Nat, onHealth : BOOLEAN, maxDuration : Int]
  BY AuraTickAssumption
<1>2. QED
  BY <1>1 DEF MPS, OnHealth

\* A caster that can pay has at least the drained amount.
LEMMA CanPayCovers ==
  ASSUME NEW p \in Int, NEW m \in Int, NEW h \in BOOLEAN,
         IF h THEN p > m ELSE p >= m
  PROVE  p >= m
<1>1. CASE h
  <2>1. p > m
    BY <1>1, Zenon
  <2>2. QED
    BY <2>1
<1>2. CASE ~h
  BY <1>2, Zenon
<1>3. QED
  BY <1>1, <1>2

\* Paying from what one has leaves a balance within range.
LEMMA PayInRange ==
  ASSUME NEW M \in Nat, NEW p \in 0 .. M, NEW m \in Nat, p >= m
  PROVE  p - m \in 0 .. M
OBVIOUS

\* What is left on the timer bounds the time already used.
LEMMA TimerLeavesRoom ==
  ASSUME NEW a \in Nat, NEW b \in Int, NEW c \in Nat, 1 <= b, a + b <= c
  PROVE  a < c
OBVIOUS

\* One drain more is one second more.
LEMMA MulSucc ==
  ASSUME NEW a \in Nat, NEW b \in Nat
  PROVE  (a + 1) * b = a * b + b /\ a * b \in Nat
OBVIOUS

-----------------------------------------------------------------------------
(* The type invariant, for every tick length. *)

LEMMA InitType == Init => TypeOK
<1> SUFFICES ASSUME Init PROVE TypeOK
  OBVIOUS
<1>1. info \in SpellInfos /\ duration = info.maxDuration /\ removed = FALSE /\ casterIn = TRUE
      /\ timeCla = (IF MPS # 0 THEN Second ELSE 0) /\ interval = 0 /\ power \in 0 .. MaxPower
      /\ sinceDrain = 0 /\ sinceTimer = 0 /\ drains = 0 /\ clock = 0
  BY DEF Init
<1>2. MPS \in Nat /\ info.maxDuration \in Int /\ Second \in Nat \ {0} /\ MaxClock \in Nat
  BY <1>1, InfoFacts, AuraTickAssumption
<1>3. TypeNum
  BY <1>1, <1>2 DEF TypeNum
<1>4. TypeBool
  BY <1>1, Zenon DEF TypeBool
<1>5. QED
  BY <1>3, <1>4, TypeSplit, Zenon

\* The assignments of Aura::UpdateOwner, named for the proofs below.
LEMMA UpdateOwnerFacts ==
  ASSUME NEW diff \in Diffs, UpdateOwner(diff)
  PROVE  LET due == DrainDue(diff)
             dur == IF duration > 0 THEN IF duration - diff < 0 THEN 0 ELSE duration - diff
                    ELSE duration
         IN  /\ ~removed /\ clock + diff <= MaxClock /\ duration' = dur
             /\ timeCla' = (IF duration > 0 /\ timeCla # 0 /\ (timeCla > diff \/ due)
                            THEN NextTimeCla(diff) ELSE timeCla)
             /\ power' = (IF due /\ CanPay THEN power - MPS ELSE power)
             /\ interval' = (IF interval > diff THEN interval - diff
                             ELSE IF due /\ ~CanPay THEN interval ELSE TargetMapInterval)
             /\ removed' = ((due /\ ~CanPay) \/ dur = 0)
             /\ sinceDrain' = (IF due /\ CanPay THEN 0
                               ELSE IF casterIn THEN sinceDrain + diff ELSE sinceDrain)
             /\ sinceTimer' = (IF due THEN 0
                               ELSE IF casterIn THEN sinceTimer + diff ELSE sinceTimer)
             /\ drains' = (IF due /\ CanPay THEN drains + 1 ELSE drains)
             /\ clock' = clock + diff
             /\ info' = info /\ casterIn' = casterIn
BY Zenon DEF UpdateOwner

LEMMA UpdateOwnerType ==
  ASSUME TypeOK, NEW diff \in Diffs, UpdateOwner(diff)
  PROVE  TypeOK'
<1> DEFINE due == DrainDue(diff)
           dur == IF duration > 0 THEN IF duration - diff < 0 THEN 0 ELSE duration - diff
                  ELSE duration
<1>1. /\ ~removed /\ clock + diff <= MaxClock /\ duration' = dur
      /\ timeCla' = (IF duration > 0 /\ timeCla # 0 /\ (timeCla > diff \/ due)
                     THEN NextTimeCla(diff) ELSE timeCla)
      /\ power' = (IF due /\ CanPay THEN power - MPS ELSE power)
      /\ interval' = (IF interval > diff THEN interval - diff
                      ELSE IF due /\ ~CanPay THEN interval ELSE TargetMapInterval)
      /\ removed' = ((due /\ ~CanPay) \/ dur = 0)
      /\ sinceDrain' = (IF due /\ CanPay THEN 0
                        ELSE IF casterIn THEN sinceDrain + diff ELSE sinceDrain)
      /\ sinceTimer' = (IF due THEN 0
                        ELSE IF casterIn THEN sinceTimer + diff ELSE sinceTimer)
      /\ drains' = (IF due /\ CanPay THEN drains + 1 ELSE drains)
      /\ clock' = clock + diff
      /\ info' = info /\ casterIn' = casterIn
  BY UpdateOwnerFacts
<1>2. /\ TypeNum /\ TypeBool
      /\ MPS \in Nat /\ OnHealth \in BOOLEAN
      /\ diff \in Nat /\ Second \in Nat /\ TargetMapInterval \in Nat
  <2>1. TypeNum /\ TypeBool
    BY TypeSplit, Zenon
  <2>2. MPS \in Nat /\ OnHealth \in BOOLEAN
    BY <2>1, InfoFacts DEF TypeBool
  <2>3. diff \in Nat /\ Second \in Nat /\ TargetMapInterval \in Nat
    BY AuraTickAssumption
  <2>4. QED
    BY <2>1, <2>2, <2>3
<1>3. CanPay => power >= MPS
  BY <1>2, CanPayCovers DEF CanPay, TypeNum
<1>4. TypeNum'
  <2>1. power' \in 0 .. MaxPower
    <3>1. power \in 0 .. MaxPower /\ MPS \in Nat
      BY <1>2, Zenon DEF TypeNum
    <3>2. CASE DrainDue(diff) /\ CanPay
      <4>0. power' = (IF DrainDue(diff) /\ CanPay THEN power - MPS ELSE power)
        BY <1>1, Zenon
      <4>1. power' = power - MPS
        BY <3>2, <4>0, Zenon
      <4>2. power >= MPS
        BY <1>3, <3>2, Zenon
      <4>3. QED
        BY <3>1, <4>1, <4>2, AuraTickAssumption, PayInRange, Zenon
    <3>3. CASE ~(DrainDue(diff) /\ CanPay)
      <4>1. power' = power
        BY <1>1, <3>3, Zenon
      <4>2. QED
        BY <3>1, <4>1
    <3>4. QED
      BY <3>2, <3>3
  <2>2. dur \in Int /\ timeCla' \in Int /\ interval' \in Int
    BY <1>1, <1>2 DEF TypeNum, NextTimeCla
  <2>3. /\ sinceDrain' \in Nat /\ sinceTimer' \in Nat /\ drains' \in Nat
        /\ clock' \in 0 .. MaxClock
    BY <1>1, <1>2, AuraTickAssumption DEF TypeNum
  <2>4. QED
    BY <1>1, <2>1, <2>2, <2>3 DEF TypeNum
<1>5. TypeBool'
  BY <1>1, <1>2, Zenon DEF TypeBool
<1>6. QED
  BY <1>4, <1>5, TypeJoin

\* RefreshDuration restarts the duration and the timer.
LEMMA RefreshDurationFacts ==
  ASSUME RefreshDuration
  PROVE  /\ ~removed /\ duration' = info.maxDuration
         /\ timeCla' = (IF MPS # 0 THEN Second ELSE timeCla)
         /\ sinceTimer' = (IF MPS # 0 THEN 0 ELSE sinceTimer)
         /\ UNCHANGED <<info, interval, removed, casterIn, power, sinceDrain, drains, clock>>
BY Zenon DEF RefreshDuration

LEMMA RefreshDurationType ==
  ASSUME TypeOK, RefreshDuration
  PROVE  TypeOK'
<1>1. /\ ~removed /\ duration' = info.maxDuration
      /\ timeCla' = (IF MPS # 0 THEN Second ELSE timeCla)
      /\ sinceTimer' = (IF MPS # 0 THEN 0 ELSE sinceTimer)
      /\ UNCHANGED <<info, interval, removed, casterIn, power, sinceDrain, drains, clock>>
  BY RefreshDurationFacts
<1>2. TypeNum /\ TypeBool /\ MPS \in Nat /\ Second \in Nat \ {0}
  BY TypeSplit, InfoFacts, AuraTickAssumption, Zenon DEF TypeBool
<1>3. info.maxDuration \in Int
  BY <1>2, InfoFacts DEF TypeBool
<1>4. TypeNum'
  BY <1>1, <1>2, <1>3 DEF TypeNum
<1>5. TypeBool'
  BY <1>1, <1>2, Zenon DEF TypeBool
<1>6. QED
  BY <1>4, <1>5, TypeJoin

\* The caster moving, its resource changing and a removal from elsewhere
\* leave the timer and the observers alone.
LEMMA EnvironmentFacts ==
  ASSUME TypeOK, CasterMoves \/ PowerChanges \/ RemoveCall \/ UNCHANGED vars
  PROVE  /\ UNCHANGED <<info, duration, timeCla, interval, sinceDrain, sinceTimer, drains, clock>>
         /\ (removed' = removed \/ removed' = TRUE) /\ casterIn' \in BOOLEAN
         /\ power' \in 0 .. MaxPower
<1>1. UNCHANGED <<info, duration, timeCla, interval, sinceDrain, sinceTimer, drains, clock>>
  BY DEF CasterMoves, PowerChanges, RemoveCall, vars
<1>2. (removed' = removed \/ removed' = TRUE) /\ casterIn' \in BOOLEAN /\ power' \in 0 .. MaxPower
  BY Zenon DEF CasterMoves, PowerChanges, RemoveCall, vars, TypeOK
<1>3. QED
  BY <1>1, <1>2

LEMMA EnvironmentType ==
  ASSUME TypeOK, CasterMoves \/ PowerChanges \/ RemoveCall \/ UNCHANGED vars
  PROVE  TypeOK'
<1>1. /\ UNCHANGED <<info, duration, timeCla, interval, sinceDrain, sinceTimer, drains, clock>>
      /\ (removed' = removed \/ removed' = TRUE) /\ casterIn' \in BOOLEAN
      /\ power' \in 0 .. MaxPower
  BY EnvironmentFacts
<1>2. TypeNum /\ TypeBool
  BY TypeSplit, Zenon
<1>3. TypeNum'
  BY <1>1, <1>2, Zenon DEF TypeNum
<1>4. TypeBool'
  BY <1>1, <1>2, Zenon DEF TypeBool
<1>5. QED
  BY <1>3, <1>4, TypeJoin

LEMMA NextType ==
  ASSUME TypeOK, [Next]_vars
  PROVE  TypeOK'
<1>1. CASE \E diff \in Diffs : UpdateOwner(diff)
  BY <1>1, UpdateOwnerType
<1>2. CASE RefreshDuration
  BY <1>2, RefreshDurationType
<1>3. CASE CasterMoves \/ PowerChanges \/ RemoveCall \/ UNCHANGED vars
  BY <1>3, EnvironmentType
<1>4. QED
  BY <1>1, <1>2, <1>3 DEF Next

-----------------------------------------------------------------------------
(* The drain follows the start of its timer within a second. *)

LEMMA InitIInv ==
  ASSUME TickBound
  PROVE  Init => IInv
<1> SUFFICES ASSUME Init PROVE IInv
  OBVIOUS
<1>1. info \in SpellInfos /\ duration = info.maxDuration /\ removed = FALSE
      /\ timeCla = (IF MPS # 0 THEN Second ELSE 0) /\ sinceTimer = 0
  BY DEF Init
<1>2. MPS \in Nat /\ info.maxDuration \in Int /\ info.maxDuration > 0 /\ Second \in Nat \ {0}
  BY <1>1, InfoFacts, AuraTickAssumption DEF TickBound
<1>3. DrainInv
  BY <1>1, <1>2 DEF DrainInv
<1>4. QED
  BY <1>3, InitType DEF IInv

\* Aura::UpdateOwner keeps the invariant: the countdown and the carry keep
\* the timer within a second and the time since it was started within
\* what it has used up.
LEMMA UpdateOwnerIInv ==
  ASSUME TickBound, IInv, NEW diff \in Diffs, UpdateOwner(diff)
  PROVE  IInv'
<1> DEFINE due == DrainDue(diff)
           drainRemoved == due /\ ~CanPay
           dur == IF duration > 0 THEN IF duration - diff < 0 THEN 0 ELSE duration - diff
                  ELSE duration
<1>1. /\ ~removed /\ duration' = dur
      /\ timeCla' = (IF duration > 0 /\ timeCla # 0 /\ (timeCla > diff \/ due)
                     THEN NextTimeCla(diff) ELSE timeCla)
      /\ removed' = (drainRemoved \/ dur = 0)
      /\ sinceTimer' = (IF due THEN 0
                        ELSE IF casterIn THEN sinceTimer + diff ELSE sinceTimer)
      /\ info' = info
  BY UpdateOwnerFacts
<1>2. /\ TypeNum /\ TypeBool /\ DrainInv /\ MPS \in Nat
      /\ diff \in Nat /\ 1 <= diff /\ diff <= Second /\ Second \in Nat
  <2>1. TypeNum /\ TypeBool /\ DrainInv
    BY TypeSplit, Zenon DEF IInv
  <2>2. MPS \in Nat
    BY <2>1, InfoFacts DEF TypeBool
  <2>3. diff \in Nat /\ 1 <= diff /\ diff <= Second /\ Second \in Nat
    BY AuraTickAssumption DEF TickBound
  <2>4. QED
    BY <2>1, <2>2, <2>3
<1>3. duration > 0
  BY <1>1, <1>2, Zenon DEF DrainInv
<1>4. TypeOK'
  BY UpdateOwnerType DEF IInv
<1>5. DrainInv'
  <2> SUFFICES ASSUME ~removed'
               PROVE  /\ duration' > 0
                      /\ MPS' # 0 => /\ 1 <= timeCla' /\ timeCla' <= Second
                                     /\ sinceTimer' + timeCla' <= Second
    BY Zenon DEF DrainInv
  <2>1. ~(dur = 0) /\ ~drainRemoved
    BY <1>1, Zenon
  <2>2. duration' > 0
    BY <1>1, <1>2, <1>3, <2>1 DEF TypeNum
  <2>3. MPS' = MPS
    BY <1>1 DEF MPS
  <2>4. ASSUME MPS # 0
        PROVE  1 <= timeCla' /\ timeCla' <= Second /\ sinceTimer' + timeCla' <= Second
    <3>1. 1 <= timeCla /\ timeCla <= Second /\ sinceTimer + timeCla <= Second
      BY <1>1, <1>2, <2>4, Zenon DEF DrainInv
    <3>2. timeCla # 0
      BY <1>2, <3>1 DEF TypeNum
    <3>3. CASE timeCla > diff
      <4>1. ~due
        BY <3>3, Zenon DEF DrainDue
      <4>2. timeCla' = timeCla - diff
        BY <1>1, <1>3, <3>2, <3>3, Zenon DEF NextTimeCla
      <4>3. sinceTimer' = sinceTimer + diff \/ sinceTimer' = sinceTimer
        BY <1>1, <4>1, Zenon
      <4>4. QED
        BY <1>2, <3>1, <3>3, <4>2, <4>3 DEF TypeNum
    <3>4. CASE ~(timeCla > diff) /\ casterIn
      <4>1. due
        BY <1>3, <2>4, <3>2, <3>4, Zenon DEF DrainDue
      <4>2. timeCla' = timeCla + Second - diff
        BY <1>1, <1>3, <3>2, <3>4, <4>1, Zenon DEF NextTimeCla
      <4>3. sinceTimer' = 0
        BY <1>1, <4>1, Zenon
      <4>4. QED
        BY <1>2, <3>1, <3>4, <4>2, <4>3 DEF TypeNum
    <3>5. CASE ~(timeCla > diff) /\ ~casterIn
      <4>1. ~due
        BY <3>5, Zenon DEF DrainDue
      <4>2. timeCla' = timeCla
        BY <1>1, <3>5, <4>1, Zenon
      <4>3. sinceTimer' = sinceTimer
        BY <1>1, <3>5, <4>1, Zenon
      <4>4. QED
        BY <3>1, <4>2, <4>3
    <3>6. QED
      BY <3>3, <3>4, <3>5
  <2>5. QED
    BY <2>2, <2>3, <2>4
<1>6. QED
  BY <1>4, <1>5 DEF IInv

\* RefreshDuration restarts the duration and the timer together.
LEMMA RefreshDurationIInv ==
  ASSUME TickBound, IInv, RefreshDuration
  PROVE  IInv'
<1>1. /\ duration' = info.maxDuration
      /\ timeCla' = (IF MPS # 0 THEN Second ELSE timeCla)
      /\ sinceTimer' = (IF MPS # 0 THEN 0 ELSE sinceTimer)
      /\ info' = info
  BY RefreshDurationFacts
<1>2. TypeBool /\ MPS \in Nat /\ Second \in Nat \ {0}
  BY TypeSplit, InfoFacts, AuraTickAssumption, Zenon DEF IInv, TypeBool
<1>3. info.maxDuration \in Int /\ info.maxDuration > 0
  BY <1>2, InfoFacts DEF TickBound, TypeBool
<1>4. MPS' = MPS
  BY <1>1 DEF MPS
<1>5. DrainInv'
  <2>1. duration' > 0
    BY <1>1, <1>3
  <2>2. MPS # 0 => 1 <= timeCla' /\ timeCla' <= Second /\ sinceTimer' + timeCla' <= Second
    BY <1>1, <1>2
  <2>3. QED
    BY <1>4, <2>1, <2>2, Zenon DEF DrainInv
<1>6. QED
  BY <1>5, RefreshDurationType DEF IInv

LEMMA EnvironmentIInv ==
  ASSUME IInv, CasterMoves \/ PowerChanges \/ RemoveCall \/ UNCHANGED vars
  PROVE  IInv'
<1>1. /\ UNCHANGED <<info, duration, timeCla, interval, sinceDrain, sinceTimer, drains, clock>>
      /\ (removed' = removed \/ removed' = TRUE)
  BY EnvironmentFacts DEF IInv
<1>2. DrainInv'
  BY <1>1, Zenon DEF IInv, DrainInv, MPS
<1>3. QED
  BY <1>2, EnvironmentType DEF IInv

LEMMA NextIInv ==
  ASSUME TickBound, IInv, [Next]_vars
  PROVE  IInv'
<1>1. CASE \E diff \in Diffs : UpdateOwner(diff)
  BY <1>1, UpdateOwnerIInv
<1>2. CASE RefreshDuration
  BY <1>2, RefreshDurationIInv
<1>3. CASE CasterMoves \/ PowerChanges \/ RemoveCall \/ UNCHANGED vars
  BY <1>3, EnvironmentIInv
<1>4. QED
  BY <1>1, <1>2, <1>3 DEF Next

LEMMA IInvImpliesOnTimer == IInv => DrainOnTimer
<1> SUFFICES ASSUME IInv, ~removed, MPS # 0 PROVE sinceTimer < Second
  BY DEF DrainOnTimer
<1>1. 1 <= timeCla /\ sinceTimer + timeCla <= Second
  BY Zenon DEF IInv, DrainInv
<1>2. sinceTimer \in Nat /\ timeCla \in Int /\ Second \in Nat
  BY AuraTickAssumption DEF IInv, TypeOK
<1>3. QED
  BY <1>1, <1>2, TimerLeavesRoom

\* The drain timer of Aura::Update holds its second as long as no world
\* tick is longer than a second and the aura is not permanent: whatever
\* the order of ticks, refreshes and caster moves, a live draining aura is
\* drained less than a second of caster-present time after its timer was
\* last started.  A refresh restarts that second (run tick_refresh); a
\* longer tick can stop the timer (tick_late_diff).
THEOREM DrainOnTimerHolds ==
  ASSUME TickBound
  PROVE  Spec => []DrainOnTimer
<1>1. Init => IInv
  BY InitIInv
<1>2. IInv /\ [Next]_vars => IInv'
  BY NextIInv
<1>3. QED
  BY <1>1, <1>2, IInvImpliesOnTimer, PTL DEF Spec

-----------------------------------------------------------------------------
(* The drains never get ahead of the time, for every tick length. *)

LEMMA InitAInv == Init => AInv
<1> SUFFICES ASSUME Init PROVE AInv
  OBVIOUS
<1>1. info \in SpellInfos /\ timeCla = (IF MPS # 0 THEN Second ELSE 0)
      /\ drains = 0 /\ clock = 0
  BY DEF Init
<1>2. MPS \in Nat /\ Second \in Nat \ {0}
  BY <1>1, InfoFacts, AuraTickAssumption
<1>3. AheadInv
  BY <1>1, <1>2 DEF AheadInv
<1>4. QED
  BY <1>3, InitType DEF AInv

\* Aura::UpdateOwner: a countdown moves the diff from the timer to the
\* clock; a drain reloads the timer with a second less the diff, so both
\* sides gain a second; otherwise the timer stands and the clock runs on.
LEMMA UpdateOwnerAInv ==
  ASSUME AInv, NEW diff \in Diffs, UpdateOwner(diff)
  PROVE  AInv'
<1> DEFINE due == DrainDue(diff)
<1> SUFFICES AheadInv'
  BY UpdateOwnerType DEF AInv
<1>1. /\ timeCla' = (IF duration > 0 /\ timeCla # 0 /\ (timeCla > diff \/ due)
                     THEN NextTimeCla(diff) ELSE timeCla)
      /\ drains' = (IF due /\ CanPay THEN drains + 1 ELSE drains)
      /\ clock' = clock + diff
      /\ info' = info
  BY UpdateOwnerFacts
<1>2. /\ TypeNum /\ TypeBool /\ AheadInv /\ MPS \in Nat
      /\ diff \in Nat /\ Second \in Nat
  <2>1. TypeNum /\ TypeBool /\ AheadInv
    BY TypeSplit, Zenon DEF AInv
  <2>2. MPS \in Nat
    BY <2>1, InfoFacts DEF TypeBool
  <2>3. diff \in Nat /\ Second \in Nat
    BY AuraTickAssumption
  <2>4. QED
    BY <2>1, <2>2, <2>3
<1>3. drains \in Nat /\ clock \in Nat /\ timeCla \in Int
  BY <1>2 DEF TypeNum
<1>4. MPS' = MPS
  BY <1>1 DEF MPS
<1>5. CASE MPS = 0
  <2>1. ~due
    BY <1>5 DEF DrainDue
  <2>2. drains' = drains /\ drains = 0
    BY <1>1, <1>2, <1>5, <2>1 DEF AheadInv
  <2>3. QED
    BY <1>4, <1>5, <2>2 DEF AheadInv
<1>6. CASE MPS # 0
  <2>1. timeCla <= Second /\ drains * Second + Second <= clock + timeCla
    BY <1>2, <1>6 DEF AheadInv
  <2>2. drains * Second \in Nat /\ (drains + 1) * Second = drains * Second + Second
    BY <1>2, <1>3, MulSucc
  <2>3. CASE due
    <3>1. duration > 0 /\ timeCla # 0 /\ ~(timeCla > diff)
      BY <2>3 DEF DrainDue
    <3>2. timeCla' = timeCla + Second - diff
      BY <1>1, <2>3, <3>1 DEF NextTimeCla
    <3>3. drains' = drains + 1 \/ drains' = drains
      BY <1>1
    <3>4. timeCla' <= Second
      BY <1>2, <1>3, <3>1, <3>2
    <3>5. drains' * Second + Second <= clock' + timeCla'
      <4>1. CASE drains' = drains + 1
        BY <1>1, <1>2, <1>3, <2>1, <2>2, <3>2, <4>1
      <4>2. CASE drains' = drains
        BY <1>1, <1>2, <1>3, <2>1, <2>2, <3>2, <4>2
      <4>3. QED
        BY <3>3, <4>1, <4>2
    <3>6. QED
      BY <1>4, <1>6, <3>4, <3>5 DEF AheadInv
  <2>4. CASE ~due
    <3>1. drains' = drains
      BY <1>1, <2>4
    <3>2. timeCla' = timeCla - diff \/ timeCla' = timeCla
      BY <1>1, <2>4 DEF NextTimeCla
    <3>3. timeCla' <= Second /\ drains' * Second + Second <= clock' + timeCla'
      BY <1>1, <1>2, <1>3, <2>1, <2>2, <3>1, <3>2
    <3>4. QED
      BY <1>4, <1>6, <3>3 DEF AheadInv
  <2>5. QED
    BY <2>3, <2>4
<1>7. QED
  BY <1>5, <1>6

\* RefreshDuration puts a full second back on the timer, which never held
\* more.
LEMMA RefreshDurationAInv ==
  ASSUME AInv, RefreshDuration
  PROVE  AInv'
<1>1. /\ timeCla' = (IF MPS # 0 THEN Second ELSE timeCla)
      /\ UNCHANGED <<info, drains, clock>>
  BY RefreshDurationFacts
<1>2. AheadInv /\ drains \in Nat /\ clock \in Nat /\ timeCla \in Int /\ Second \in Nat
  BY AuraTickAssumption DEF AInv, TypeOK
<1>3. MPS' = MPS
  BY <1>1 DEF MPS
<1>4. AheadInv'
  BY <1>1, <1>2, <1>3 DEF AheadInv
<1>5. QED
  BY <1>4, RefreshDurationType DEF AInv

LEMMA EnvironmentAInv ==
  ASSUME AInv, CasterMoves \/ PowerChanges \/ RemoveCall \/ UNCHANGED vars
  PROVE  AInv'
<1>1. UNCHANGED <<info, timeCla, drains, clock>>
  BY EnvironmentFacts DEF AInv
<1>2. AheadInv'
  BY <1>1, Zenon DEF AInv, AheadInv, MPS
<1>3. QED
  BY <1>2, EnvironmentType DEF AInv

LEMMA NextAInv ==
  ASSUME AInv, [Next]_vars
  PROVE  AInv'
<1>1. CASE \E diff \in Diffs : UpdateOwner(diff)
  BY <1>1, UpdateOwnerAInv
<1>2. CASE RefreshDuration
  BY <1>2, RefreshDurationAInv
<1>3. CASE CasterMoves \/ PowerChanges \/ RemoveCall \/ UNCHANGED vars
  BY <1>3, EnvironmentAInv
<1>4. QED
  BY <1>1, <1>2, <1>3 DEF Next

LEMMA AInvImpliesNotAhead == AInv => DrainsNotAhead
<1> SUFFICES ASSUME AInv PROVE drains * Second <= clock
  BY DEF DrainsNotAhead
<1>1. drains \in Nat /\ clock \in Nat /\ timeCla \in Int /\ Second \in Nat
  BY AuraTickAssumption DEF AInv, TypeOK
<1>2. drains * Second \in Nat
  BY <1>1, MulSucc
<1>3. CASE MPS # 0
  BY <1>1, <1>2, <1>3 DEF AInv, AheadInv
<1>4. CASE MPS = 0
  BY <1>1, <1>4 DEF AInv, AheadInv
<1>5. QED
  BY <1>3, <1>4

\* The carry of Aura::Update never charges the caster ahead of time, for
\* every tick length and every spell, permanent ones included: however
\* long the world ticks, however many drains catch up after a long one,
\* and however the refreshes fall, the drains paid are at most the whole
\* seconds the aura has been updated.
THEOREM DrainsNotAheadHolds == Spec => []DrainsNotAhead
<1>1. Init => AInv
  BY InitAInv
<1>2. AInv /\ [Next]_vars => AInv'
  BY NextAInv
<1>3. QED
  BY <1>1, <1>2, AInvImpliesNotAhead, PTL DEF Spec

=============================================================================
