--------------------- MODULE MajordomoEncounter_proofs ---------------------
(***************************************************************************)
(* Proofs about the Majordomo Executus script: the outro events run at     *)
(* most once and in their written order (OutroInOrder), for every add      *)
(* count, every set of tick lengths and every gossip menu input.           *)
(*                                                                         *)
(* OutroInOrder alone is not inductive: what the next UpdateAI plays       *)
(* depends on which outro events are scheduled and on their timers.  The   *)
(* invariant OutroInv says which outro events can be scheduled at each     *)
(* point of the script: OUTRO_1 alone before anything is played, OUTRO_2   *)
(* together with OUTRO_3 exactly 16 s later (DoAction schedules them at 8  *)
(* and 24 s and both timers advance together), or OUTRO_3 alone once       *)
(* OUTRO_2 has played; and that the gossip is offered only with nothing    *)
(* scheduled.  Scheduled timers are positive, since UpdateAI runs every    *)
(* due event.                                                              *)
(***************************************************************************)
EXTENDS MajordomoEncounter, FiniteSetTheorems, SequenceTheorems, TLAPS

\* The outro prefixes OutroInOrder allows.
Prefixes == {<<>>, <<OUTRO_1>>, <<OUTRO_1, OUTRO_2>>, <<OUTRO_1, OUTRO_2, OUTRO_3>>,
             <<OUTRO_2>>, <<OUTRO_2, OUTRO_3>>}

\* The timers of a set of scheduled outro events.
TimersOf(evs) == {e[2] : e \in evs}

\* The outro events that can be scheduled (evs), with what has been played
\* then (p) and whether the gossip is offered (g).
ShapeOf(evs, p, g) ==
  \/ evs = {}
  \/ \E t \in TimersOf(evs) :
       /\ t \in Nat \ {0}
       /\ evs = {<<OUTRO_1, t>>}
       /\ p = <<>> /\ ~g
  \/ \E t \in TimersOf(evs) :
       /\ t \in Nat \ {0}
       /\ evs = {<<OUTRO_2, t>>, <<OUTRO_3, t + 16>>}
       /\ p \in {<<>>, <<OUTRO_1>>} /\ ~g
  \/ \E t \in TimersOf(evs) :
       /\ t \in Nat \ {0}
       /\ evs = {<<OUTRO_3, t>>}
       /\ p \in {<<OUTRO_2>>, <<OUTRO_1, OUTRO_2>>} /\ ~g

OutroShape == ShapeOf(outro, played, gossip)

\* The inductive invariant behind OutroInOrder.
OutroInv ==
  /\ TypeOK
  /\ played \in Prefixes
  /\ OutroShape
  /\ gossip => outro = {} /\ played \in {<<>>, <<OUTRO_1>>}
  /\ bossState # "DONE" => outro = {} /\ played = <<>> /\ ~gossip
  /\ bossState = "DONE" => friendly /\ ~inCombat /\ ~evading
  /\ inCombat => ~evading

-----------------------------------------------------------------------------
(***************************************************************************)
(* What ExecuteEvent returns for the due sets the outro can have: nothing, *)
(* one event, or two events with different due times.                     *)
(***************************************************************************)

\* With nothing due, the loop of UpdateAI runs no event.
LEMMA DueOrderEmpty == DueOrder({}) = <<>>
<1>1. Cardinality({}) = 0
  BY FS_EmptySet
<1>2. QED
  BY <1>1 DEF DueOrder

\* With one event due, the loop runs that event.
LEMMA DueOrderOne ==
  ASSUME NEW id, NEW t
  PROVE  DueOrder({<<id, t>>}) = <<id>>
<1> DEFINE e == <<id, t>>
<1>1. Cardinality({e}) = 1
  BY FS_Singleton
<1> DEFINE P(f) == /\ \A i, j \in 1 .. 1 : i # j => f[i] # f[j]
                   /\ \A i, j \in 1 .. 1 : i < j => f[i][2] <= f[j][2]
<1>2. ByDueTime({e}) = CHOOSE f \in [1 .. 1 -> {e}] : P(f)
  BY <1>1 DEF ByDueTime
<1>3. <<e>> \in [1 .. 1 -> {e}] /\ P(<<e>>)
  OBVIOUS
<1>4. ByDueTime({e}) \in [1 .. 1 -> {e}]
  BY <1>2, <1>3
<1>5. QED
  BY <1>1, <1>4 DEF DueOrder

\* With two events due at different times, the loop runs the earlier one
\* first.
LEMMA DueOrderSorted ==
  ASSUME NEW e, NEW f, e[2] \in Int, f[2] \in Int, e[2] < f[2]
  PROVE  DueOrder({e, f}) = <<e[1], f[1]>>
<1>0. e # f
  OBVIOUS
<1>1. Cardinality({e, f}) = 2
  <2>1. IsFiniteSet({e}) /\ Cardinality({e}) = 1
    BY FS_Singleton
  <2>2. {e, f} = {e} \cup {f} /\ f \notin {e}
    BY <1>0
  <2>3. QED
    BY <2>1, <2>2, FS_AddElement
<1> DEFINE P(g) == /\ \A i, j \in 1 .. 2 : i # j => g[i] # g[j]
                   /\ \A i, j \in 1 .. 2 : i < j => g[i][2] <= g[j][2]
<1>2. ByDueTime({e, f}) = CHOOSE g \in [1 .. 2 -> {e, f}] : P(g)
  BY <1>1 DEF ByDueTime
<1>3. <<e, f>> \in [1 .. 2 -> {e, f}] /\ P(<<e, f>>)
  BY <1>0
<1> DEFINE g == ByDueTime({e, f})
<1>4. g \in [1 .. 2 -> {e, f}] /\ P(g)
  BY <1>2, <1>3
<1>5. g[1] = e /\ g[2] = f
  BY <1>0, <1>4
<1>6. QED
  BY <1>1, <1>5 DEF DueOrder

\* The same for two scheduled events <<id, timer>>.
LEMMA DueOrderTwo ==
  ASSUME NEW id1, NEW id2, NEW t1 \in Int, NEW t2 \in Int, t1 < t2
  PROVE  DueOrder({<<id1, t1>>, <<id2, t2>>}) = <<id1, id2>>
<1>1. DueOrder({<<id1, t1>>, <<id2, t2>>}) = << <<id1, t1>>[1], <<id2, t2>>[1] >>
  BY DueOrderSorted
<1>2. QED
  BY <1>1

\* The outro events played by one UpdateAI extend what was played before.
LEMMA ConcatLiterals ==
  ASSUME NEW a \in Int, NEW b \in Int, NEW c \in Int
  PROVE  /\ <<a>> \o <<b>> = <<a, b>>
         /\ <<a>> \o <<b, c>> = <<a, b, c>>
         /\ <<a, b>> \o <<c>> = <<a, b, c>>
<1>1. <<a>> \o <<b>> = <<a, b>>
  <2> DEFINE s == <<a>> \o <<b>>
             u == <<a, b>>
  <2>1. s \in Seq(Int) /\ Len(s) = 2 /\ s[1] = a /\ s[2] = b
    BY ConcatProperties
  <2>2. u \in Seq(Int) /\ Len(u) = 2 /\ u[1] = a /\ u[2] = b
    OBVIOUS
  <2> HIDE DEF s, u
  <2>3. \A i \in 1 .. Len(s) : s[i] = u[i]
    BY <2>1, <2>2
  <2>4. s = u
    BY Zenon, <2>1, <2>2, <2>3, SeqEqual
  <2>5. QED
    BY <2>4 DEF s, u
<1>2. <<a>> \o <<b, c>> = <<a, b, c>>
  <2> DEFINE s == <<a>> \o <<b, c>>
             u == <<a, b, c>>
  <2>1. s \in Seq(Int) /\ Len(s) = 3 /\ s[1] = a /\ s[2] = b /\ s[3] = c
    BY ConcatProperties
  <2>2. u \in Seq(Int) /\ Len(u) = 3 /\ u[1] = a /\ u[2] = b /\ u[3] = c
    OBVIOUS
  <2> HIDE DEF s, u
  <2>3. \A i \in 1 .. Len(s) : s[i] = u[i]
    BY <2>1, <2>2
  <2>4. s = u
    BY Zenon, <2>1, <2>2, <2>3, SeqEqual
  <2>5. QED
    BY <2>4 DEF s, u
<1>3. <<a, b>> \o <<c>> = <<a, b, c>>
  <2> DEFINE s == <<a, b>> \o <<c>>
             u == <<a, b, c>>
  <2>1. s \in Seq(Int) /\ Len(s) = 3 /\ s[1] = a /\ s[2] = b /\ s[3] = c
    BY ConcatProperties
  <2>2. u \in Seq(Int) /\ Len(u) = 3 /\ u[1] = a /\ u[2] = b /\ u[3] = c
    OBVIOUS
  <2> HIDE DEF s, u
  <2>3. \A i \in 1 .. Len(s) : s[i] = u[i]
    BY <2>1, <2>2
  <2>4. s = u
    BY Zenon, <2>1, <2>2, <2>3, SeqEqual
  <2>5. QED
    BY <2>4 DEF s, u
<1>4. QED
  BY <1>1, <1>2, <1>3

\* The same for the outro event ids.
LEMMA OutroConcat ==
  /\ <<OUTRO_1>> \o <<OUTRO_2>> = <<OUTRO_1, OUTRO_2>>
  /\ <<OUTRO_1>> \o <<OUTRO_2, OUTRO_3>> = <<OUTRO_1, OUTRO_2, OUTRO_3>>
  /\ <<OUTRO_1, OUTRO_2>> \o <<OUTRO_3>> = <<OUTRO_1, OUTRO_2, OUTRO_3>>
  /\ <<OUTRO_2>> \o <<OUTRO_3>> = <<OUTRO_2, OUTRO_3>>
<1>1. OUTRO_1 \in Int /\ OUTRO_2 \in Int /\ OUTRO_3 \in Int
  BY DEF OUTRO_1, OUTRO_2, OUTRO_3
<1> HIDE DEF OUTRO_1, OUTRO_2, OUTRO_3
<1>2. QED
  BY Zenon, <1>1, ConcatLiterals

\* A sequence that agrees with the first k events of a script is that
\* script's prefix of length k.
LEMMA PrefixOfScript ==
  ASSUME NEW sc \in Seq(Int), NEW k \in 0 .. Len(sc), NEW p \in Seq(Int),
         Len(p) = k, \A i \in 1 .. k : p[i] = sc[i]
  PROVE  p = SubSeq(sc, 1, k)
<1> DEFINE q == SubSeq(sc, 1, k)
<1>1. \A i \in 1 .. k : sc[i] \in Int
  BY ElementOfSeq
<1>2. q \in Seq(Int) /\ Len(q) = k /\ \A i \in 1 .. k : q[i] = sc[i]
  BY <1>1, SubSeqProperties
<1> HIDE DEF q
<1>3. QED
  BY <1>2, SeqEqual

\* Every prefix is a prefix of one of the two scripts of OutroInOrder.
LEMMA PrefixesInOrder ==
  ASSUME NEW p \in Prefixes
  PROVE  \E script \in {<<OUTRO_1, OUTRO_2, OUTRO_3>>, <<OUTRO_2, OUTRO_3>>} :
           \E k \in 0 .. Len(script) : p = SubSeq(script, 1, k)
<1>0. OUTRO_1 \in Int /\ OUTRO_2 \in Int /\ OUTRO_3 \in Int
  BY DEF OUTRO_1, OUTRO_2, OUTRO_3
<1>1. CASE p = <<>>
  <2> DEFINE sc == <<OUTRO_1, OUTRO_2, OUTRO_3>>
             q == <<>>
  <2>1. /\ sc \in Seq(Int) /\ Len(sc) = 3
        /\ q \in Seq(Int) /\ Len(q) = 0 /\ TRUE
        /\ 0 \in 0 .. Len(sc)
    BY <1>0
  <2>2. \A i \in 1 .. 0 : q[i] = sc[i]
    BY <2>1
  <2> HIDE DEF sc, q
  <2>3. q = SubSeq(sc, 1, 0)
    BY Zenon, <2>1, <2>2, PrefixOfScript
  <2>4. QED
    BY <1>1, <2>1, <2>3 DEF sc, q
<1>2. CASE p = <<OUTRO_1>>
  <2> DEFINE sc == <<OUTRO_1, OUTRO_2, OUTRO_3>>
             q == <<OUTRO_1>>
  <2>1. /\ sc \in Seq(Int) /\ Len(sc) = 3
        /\ q \in Seq(Int) /\ Len(q) = 1 /\ q[1] = sc[1]
        /\ 1 \in 0 .. Len(sc)
    BY <1>0
  <2>2. \A i \in 1 .. 1 : q[i] = sc[i]
    BY <2>1
  <2> HIDE DEF sc, q
  <2>3. q = SubSeq(sc, 1, 1)
    BY Zenon, <2>1, <2>2, PrefixOfScript
  <2>4. QED
    BY <1>2, <2>1, <2>3 DEF sc, q
<1>3. CASE p = <<OUTRO_1, OUTRO_2>>
  <2> DEFINE sc == <<OUTRO_1, OUTRO_2, OUTRO_3>>
             q == <<OUTRO_1, OUTRO_2>>
  <2>1. /\ sc \in Seq(Int) /\ Len(sc) = 3
        /\ q \in Seq(Int) /\ Len(q) = 2 /\ q[1] = sc[1] /\ q[2] = sc[2]
        /\ 2 \in 0 .. Len(sc)
    BY <1>0
  <2>2. \A i \in 1 .. 2 : q[i] = sc[i]
    BY <2>1
  <2> HIDE DEF sc, q
  <2>3. q = SubSeq(sc, 1, 2)
    BY Zenon, <2>1, <2>2, PrefixOfScript
  <2>4. QED
    BY <1>3, <2>1, <2>3 DEF sc, q
<1>4. CASE p = <<OUTRO_1, OUTRO_2, OUTRO_3>>
  <2> DEFINE sc == <<OUTRO_1, OUTRO_2, OUTRO_3>>
             q == <<OUTRO_1, OUTRO_2, OUTRO_3>>
  <2>1. /\ sc \in Seq(Int) /\ Len(sc) = 3
        /\ q \in Seq(Int) /\ Len(q) = 3 /\ q[1] = sc[1] /\ q[2] = sc[2] /\ q[3] = sc[3]
        /\ 3 \in 0 .. Len(sc)
    BY <1>0
  <2>2. \A i \in 1 .. 3 : q[i] = sc[i]
    BY <2>1
  <2> HIDE DEF sc, q
  <2>3. q = SubSeq(sc, 1, 3)
    BY Zenon, <2>1, <2>2, PrefixOfScript
  <2>4. QED
    BY <1>4, <2>1, <2>3 DEF sc, q
<1>5. CASE p = <<OUTRO_2>>
  <2> DEFINE sc == <<OUTRO_2, OUTRO_3>>
             q == <<OUTRO_2>>
  <2>1. /\ sc \in Seq(Int) /\ Len(sc) = 2
        /\ q \in Seq(Int) /\ Len(q) = 1 /\ q[1] = sc[1]
        /\ 1 \in 0 .. Len(sc)
    BY <1>0
  <2>2. \A i \in 1 .. 1 : q[i] = sc[i]
    BY <2>1
  <2> HIDE DEF sc, q
  <2>3. q = SubSeq(sc, 1, 1)
    BY Zenon, <2>1, <2>2, PrefixOfScript
  <2>4. QED
    BY <1>5, <2>1, <2>3 DEF sc, q
<1>6. CASE p = <<OUTRO_2, OUTRO_3>>
  <2> DEFINE sc == <<OUTRO_2, OUTRO_3>>
             q == <<OUTRO_2, OUTRO_3>>
  <2>1. /\ sc \in Seq(Int) /\ Len(sc) = 2
        /\ q \in Seq(Int) /\ Len(q) = 2 /\ q[1] = sc[1] /\ q[2] = sc[2]
        /\ 2 \in 0 .. Len(sc)
    BY <1>0
  <2>2. \A i \in 1 .. 2 : q[i] = sc[i]
    BY <2>1
  <2> HIDE DEF sc, q
  <2>3. q = SubSeq(sc, 1, 2)
    BY Zenon, <2>1, <2>2, PrefixOfScript
  <2>4. QED
    BY <1>6, <2>1, <2>3 DEF sc, q
<1>7. QED
  BY <1>1, <1>2, <1>3, <1>4, <1>5, <1>6 DEF Prefixes

-----------------------------------------------------------------------------
(***************************************************************************)
(* The invariant holds initially and is kept by every step.               *)
(***************************************************************************)

\* Each shape schedules outro events with integer timers, and each prefix
\* is a sequence of outro events.
LEMMA ShapeType ==
  ASSUME NEW evs, NEW p, NEW g, ShapeOf(evs, p, g), p \in Prefixes
  PROVE  /\ evs \subseteq {OUTRO_1, OUTRO_2, OUTRO_3} \X Int
         /\ p \in Seq({OUTRO_1, OUTRO_2, OUTRO_3})
<1>1. evs \subseteq {OUTRO_1, OUTRO_2, OUTRO_3} \X Int
  BY DEF ShapeOf, TimersOf
<1>2. p \in Seq({OUTRO_1, OUTRO_2, OUTRO_3})
  <2> DEFINE Ids == {OUTRO_1, OUTRO_2, OUTRO_3}
  <2>1. <<>> \in Seq(Ids) /\ <<OUTRO_1>> \in Seq(Ids) /\ <<OUTRO_2>> \in Seq(Ids)
    OBVIOUS
  <2>2. <<OUTRO_1, OUTRO_2>> \in Seq(Ids) /\ <<OUTRO_2, OUTRO_3>> \in Seq(Ids)
    OBVIOUS
  <2>3. <<OUTRO_1, OUTRO_2, OUTRO_3>> \in Seq(Ids)
    OBVIOUS
  <2>4. QED
    BY <2>1, <2>2, <2>3 DEF Prefixes
<1>3. QED
  BY <1>1, <1>2

LEMMA InitOutroInv == Init => OutroInv
<1> SUFFICES ASSUME Init PROVE OutroInv
  OBVIOUS
<1>1. outro = {} /\ played = <<>>
  BY DEF Init
<1>2. OutroShape /\ played \in Prefixes
  BY <1>1 DEF OutroShape, ShapeOf, Prefixes
<1>3. TypeOK
  <2>1. outro \subseteq {OUTRO_1, OUTRO_2, OUTRO_3} \X Int
        /\ played \in Seq({OUTRO_1, OUTRO_2, OUTRO_3})
    BY <1>2, ShapeType DEF OutroShape
  <2>2. adds \in 0 .. AddCount
    BY MajordomoAssumption DEF Init
  <2>3. QED
    BY <2>1, <2>2 DEF Init, TypeOK
<1>4. QED
  BY <1>1, <1>2, <1>3 DEF Init, OutroInv

\* UpdateAI once DONE runs the due outro events in due-time order and keeps
\* the shape: an OUTRO_1 that falls due is played and offers the gossip;
\* OUTRO_2 falls due before or with OUTRO_3, since it is 16 s earlier; a
\* due OUTRO_3 ends the outro.
LEMMA UpdateAIOutroShape ==
  ASSUME OutroInv, NEW diff \in Diffs, UpdateAIOutro(diff)
  PROVE  /\ ShapeOf(outro', played', gossip')
         /\ played' \in Prefixes
         /\ gossip' => outro' = {} /\ played' \in {<<>>, <<OUTRO_1>>}
         /\ gossip' \in BOOLEAN
<1> DEFINE d == diff
           evs == Advance(outro, d)
           run == DueOrder(Due(evs))
<1>0. d \in Nat \ {0}
  BY MajordomoAssumption
<1>1. /\ outro' = evs \ Due(evs)
      /\ played' = played \o run
      /\ gossip' = (gossip \/ \E i \in DOMAIN run : run[i] = OUTRO_1)
  BY DEF UpdateAIOutro
<1>2. /\ OutroShape /\ played \in Prefixes /\ gossip \in BOOLEAN
      /\ played \in Seq({OUTRO_1, OUTRO_2, OUTRO_3})
      /\ gossip => outro = {} /\ played \in {<<>>, <<OUTRO_1>>}
  BY DEF OutroInv, TypeOK
<1> USE <1>0, <1>2
<1> HIDE DEF evs, run
<1>3. CASE outro = {}
  <2>1. evs = {} /\ Due(evs) = {}
    BY <1>3 DEF evs, Advance, Due
  <2>2. run = <<>>
    BY <2>1, DueOrderEmpty DEF run
  <2>3. outro' = {} /\ played' = played /\ gossip' = gossip
    BY <1>1, <2>1, <2>2
  <2>4. QED
    BY <1>2, <2>3 DEF ShapeOf
<1>4. CASE \E t \in TimersOf(outro) :
             /\ t \in Nat \ {0}
             /\ outro = {<<OUTRO_1, t>>}
             /\ played = <<>> /\ ~gossip
  <2>1. PICK t \in Nat \ {0} : outro = {<<OUTRO_1, t>>} /\ played = <<>> /\ ~gossip
    BY <1>4 DEF TimersOf
  <2>2. evs = {<<OUTRO_1, t - d>>}
    BY <1>0, <2>1 DEF evs, Advance
  <2>3. CASE t - d <= 0
    <3>1. Due(evs) = evs
      BY <2>2, <2>3 DEF Due
    <3>2. run = <<OUTRO_1>>
      BY <2>2, <3>1, DueOrderOne DEF run
    <3>3. /\ outro' = {}
          /\ played' = <<OUTRO_1>>
          /\ gossip' = TRUE
      <4>1. outro' = {}
        BY <1>1, <2>1, <3>1, <3>2
      <4>2. played' = <<OUTRO_1>>
        BY <1>1, <2>1, <3>1, <3>2
      <4>3. gossip' = TRUE
        <5>1. 1 \in DOMAIN run /\ run[1] = OUTRO_1
          BY <3>2
        <5>2. QED
          BY <1>1, <5>1
      <4>4. QED
        BY <4>1, <4>2, <4>3
    <3>4. QED
      BY <3>3 DEF ShapeOf, Prefixes
  <2>4. CASE t - d > 0
    <3>1. Due(evs) = {}
      BY <2>2, <2>4 DEF Due
    <3>2. run = <<>>
      BY <3>1, DueOrderEmpty DEF run
    <3>3. /\ outro' = {<<OUTRO_1, t - d>>}
          /\ played' = <<>>
          /\ gossip' = FALSE
      <4>1. outro' = {<<OUTRO_1, t - d>>}
        BY <1>1, <2>1, <2>2, <3>1, <3>2
      <4>2. played' = <<>>
        BY <1>1, <2>1, <2>2, <3>1, <3>2
      <4>3. gossip' = FALSE
        BY <1>1, <2>1, <2>2, <3>1, <3>2
      <4>4. QED
        BY <4>1, <4>2, <4>3
    <3>4. t - d \in TimersOf(outro') /\ t - d \in Nat \ {0}
      BY <1>0, <2>4, <3>3 DEF TimersOf
    <3>5. QED
      BY <3>3, <3>4 DEF ShapeOf, Prefixes
  <2>5. QED
    BY <1>0, <2>1, <2>3, <2>4
<1>5. CASE \E t \in TimersOf(outro) :
             /\ t \in Nat \ {0}
             /\ outro = {<<OUTRO_2, t>>, <<OUTRO_3, t + 16>>}
             /\ played \in {<<>>, <<OUTRO_1>>} /\ ~gossip
  <2>1. PICK t \in Nat \ {0} : /\ outro = {<<OUTRO_2, t>>, <<OUTRO_3, t + 16>>}
                               /\ played \in {<<>>, <<OUTRO_1>>} /\ ~gossip
    BY <1>5 DEF TimersOf
  <2>2. evs = {<<OUTRO_2, t - d>>, <<OUTRO_3, t + 16 - d>>}
    BY <1>0, <2>1 DEF evs, Advance
  <2>3. CASE t - d > 0
    <3>1. Due(evs) = {}
      BY <2>2, <2>3 DEF Due
    <3>2. run = <<>>
      BY <3>1, DueOrderEmpty DEF run
    <3>3. /\ outro' = {<<OUTRO_2, t - d>>, <<OUTRO_3, (t - d) + 16>>}
          /\ played' = played
          /\ gossip' = FALSE
      <4>1. outro' = {<<OUTRO_2, t - d>>, <<OUTRO_3, (t - d) + 16>>}
        <5>1. outro' = evs
          BY <1>1, <3>1
        <5>2. QED
          BY <2>2, <5>1
      <4>2. played' = played
        BY <1>0, <1>1, <2>1, <2>2, <3>1, <3>2
      <4>3. gossip' = FALSE
        BY <1>0, <1>1, <2>1, <2>2, <3>1, <3>2
      <4>4. QED
        BY <4>1, <4>2, <4>3
    <3>4. t - d \in TimersOf(outro') /\ t - d \in Nat \ {0}
      BY <1>0, <2>3, <3>3 DEF TimersOf
    <3>5. QED
      BY <2>1, <3>3, <3>4 DEF ShapeOf, Prefixes
  <2>4. CASE t - d <= 0 /\ t + 16 - d > 0
    <3>1. Due(evs) = {<<OUTRO_2, t - d>>}
      BY <2>2, <2>4 DEF Due
    <3>2. run = <<OUTRO_2>>
      BY <3>1, DueOrderOne DEF run
    <3>3. /\ outro' = {<<OUTRO_3, t + 16 - d>>}
          /\ played' \in {<<OUTRO_2>>, <<OUTRO_1, OUTRO_2>>}
          /\ gossip' = FALSE
      <4>1. outro' = {<<OUTRO_3, t + 16 - d>>}
        <5>1. <<OUTRO_3, t + 16 - d>> # <<OUTRO_2, t - d>>
          BY DEF OUTRO_2, OUTRO_3
        <5>2. QED
          BY <1>1, <2>2, <3>1, <5>1
      <4>2. played' \in {<<OUTRO_2>>, <<OUTRO_1, OUTRO_2>>}
        <5>1. played' = played \o run
          BY <1>1
        <5>2. CASE played = <<>>
          BY <3>2, <5>1, <5>2, OutroConcat
        <5>3. CASE played = <<OUTRO_1>>
          BY <3>2, <5>1, <5>3, OutroConcat
        <5>4. QED
          BY <2>1, <5>2, <5>3
      <4>3. gossip' = FALSE
        BY <1>1, <2>1, <2>2, <3>1, <3>2 DEF OUTRO_1, OUTRO_2, OUTRO_3
      <4>4. QED
        BY <4>1, <4>2, <4>3
    <3>4. t + 16 - d \in TimersOf(outro') /\ t + 16 - d \in Nat \ {0}
      BY <1>0, <2>4, <3>3 DEF TimersOf
    <3>5. QED
      BY <3>3, <3>4 DEF ShapeOf, Prefixes
  <2>5. CASE t + 16 - d <= 0
    <3>1. Due(evs) = evs
      BY <2>2, <2>5 DEF Due
    <3>2. run = <<OUTRO_2, OUTRO_3>>
      <4>1. t - d \in Int /\ t + 16 - d \in Int /\ t - d < t + 16 - d
        OBVIOUS
      <4>2. DueOrder({<<OUTRO_2, t - d>>, <<OUTRO_3, t + 16 - d>>}) = <<OUTRO_2, OUTRO_3>>
        BY <4>1, DueOrderTwo
      <4>3. QED
        BY <2>2, <3>1, <4>2 DEF run
    <3>3. /\ outro' = {}
          /\ played' \in {<<OUTRO_2, OUTRO_3>>, <<OUTRO_1, OUTRO_2, OUTRO_3>>}
          /\ gossip' = FALSE
      <4>1. outro' = {}
        BY <1>1, <2>1, <3>1, <3>2 DEF OUTRO_1, OUTRO_2, OUTRO_3
      <4>2. played' \in {<<OUTRO_2, OUTRO_3>>, <<OUTRO_1, OUTRO_2, OUTRO_3>>}
        <5>1. played' = played \o run
          BY <1>1
        <5>2. CASE played = <<>>
          BY <3>2, <5>1, <5>2, OutroConcat
        <5>3. CASE played = <<OUTRO_1>>
          BY <3>2, <5>1, <5>3, OutroConcat
        <5>4. QED
          BY <2>1, <5>2, <5>3
      <4>3. gossip' = FALSE
        BY <1>1, <2>1, <3>1, <3>2 DEF OUTRO_1, OUTRO_2, OUTRO_3
      <4>4. QED
        BY <4>1, <4>2, <4>3
    <3>4. QED
      BY <3>3 DEF ShapeOf, Prefixes
  <2>6. QED
    BY <1>0, <2>1, <2>3, <2>4, <2>5
<1>6. CASE \E t \in TimersOf(outro) :
             /\ t \in Nat \ {0}
             /\ outro = {<<OUTRO_3, t>>}
             /\ played \in {<<OUTRO_2>>, <<OUTRO_1, OUTRO_2>>} /\ ~gossip
  <2>1. PICK t \in Nat \ {0} : /\ outro = {<<OUTRO_3, t>>}
                               /\ played \in {<<OUTRO_2>>, <<OUTRO_1, OUTRO_2>>}
                               /\ ~gossip
    BY <1>6 DEF TimersOf
  <2>2. evs = {<<OUTRO_3, t - d>>}
    BY <1>0, <2>1 DEF evs, Advance
  <2>3. CASE t - d <= 0
    <3>1. Due(evs) = evs
      BY <2>2, <2>3 DEF Due
    <3>2. run = <<OUTRO_3>>
      BY <2>2, <3>1, DueOrderOne DEF run
    <3>3. /\ outro' = {}
          /\ played' \in {<<OUTRO_2, OUTRO_3>>, <<OUTRO_1, OUTRO_2, OUTRO_3>>}
          /\ gossip' = FALSE
      <4>1. outro' = {}
        BY <1>1, <2>1, <3>1, <3>2 DEF OUTRO_1, OUTRO_2, OUTRO_3
      <4>2. played' \in {<<OUTRO_2, OUTRO_3>>, <<OUTRO_1, OUTRO_2, OUTRO_3>>}
        <5>1. played' = played \o run
          BY <1>1
        <5>2. CASE played = <<OUTRO_2>>
          BY <3>2, <5>1, <5>2, OutroConcat
        <5>3. CASE played = <<OUTRO_1, OUTRO_2>>
          BY <3>2, <5>1, <5>3, OutroConcat
        <5>4. QED
          BY <2>1, <5>2, <5>3
      <4>3. gossip' = FALSE
        BY <1>1, <2>1, <3>1, <3>2 DEF OUTRO_1, OUTRO_2, OUTRO_3
      <4>4. QED
        BY <4>1, <4>2, <4>3
    <3>4. QED
      BY <3>3 DEF ShapeOf, Prefixes
  <2>4. CASE t - d > 0
    <3>1. Due(evs) = {}
      BY <2>2, <2>4 DEF Due
    <3>2. run = <<>>
      BY <3>1, DueOrderEmpty DEF run
    <3>3. /\ outro' = {<<OUTRO_3, t - d>>}
          /\ played' = played
          /\ gossip' = FALSE
      <4>1. outro' = {<<OUTRO_3, t - d>>}
        BY <1>1, <2>1, <2>2, <3>1, <3>2
      <4>2. played' = played
        BY <1>1, <2>1, <2>2, <3>1, <3>2
      <4>3. gossip' = FALSE
        BY <1>1, <2>1, <2>2, <3>1, <3>2
      <4>4. QED
        BY <4>1, <4>2, <4>3
    <3>4. t - d \in TimersOf(outro') /\ t - d \in Nat \ {0}
      BY <1>0, <2>4, <3>3 DEF TimersOf
    <3>5. QED
      BY <2>1, <3>3, <3>4 DEF ShapeOf, Prefixes
  <2>5. QED
    BY <1>0, <2>1, <2>3, <2>4
<1>7. QED
  BY <1>2, <1>3, <1>4, <1>5, <1>6 DEF OutroShape, ShapeOf

\* The type invariant holds in the next state when each variable has its
\* type there.
LEMMA TypeOKStep ==
  ASSUME bossState' \in {"NOT_STARTED", "IN_PROGRESS", "DONE"},
         inCombat' \in BOOLEAN, evading' \in BOOLEAN,
         adds' \in 0 .. AddCount,
         combatEvents' \in BOOLEAN, friendly' \in BOOLEAN, gossip' \in BOOLEAN,
         outro' \subseteq {OUTRO_1, OUTRO_2, OUTRO_3} \X Int,
         played' \in Seq({OUTRO_1, OUTRO_2, OUTRO_3})
  PROVE  TypeOK'
BY DEF TypeOK

\* Every step keeps the invariant.  Before the surrender nothing of the
\* outro is scheduled, played or offered, and the fight steps (the pull,
\* an add's death, evade and Reset) keep it so: a DONE boss is friendly
\* and out of combat, so none of them runs after the surrender.  The
\* surrender schedules OUTRO_1 alone; the gossip, offered only with
\* nothing scheduled, schedules OUTRO_2 and OUTRO_3 16 s apart.
LEMMA NextOutroInv == OutroInv /\ [Next]_vars => OutroInv'
<1> SUFFICES ASSUME OutroInv, [Next]_vars PROVE OutroInv'
  OBVIOUS
<1>0. /\ TypeOK /\ played \in Prefixes /\ OutroShape
      /\ gossip => outro = {} /\ played \in {<<>>, <<OUTRO_1>>}
      /\ bossState # "DONE" => outro = {} /\ played = <<>> /\ ~gossip
      /\ bossState = "DONE" => friendly /\ ~inCombat /\ ~evading
      /\ inCombat => ~evading
  BY DEF OutroInv
<1>a. AddCount \in Nat
  BY MajordomoAssumption
<1>t. TypeOK
  BY <1>0
\* The fight steps leave the outro alone, before the surrender.
<1>1. ASSUME bossState # "DONE", bossState' # "DONE",
             outro' = {}, played' = played, gossip' = gossip,
             bossState' \in {"NOT_STARTED", "IN_PROGRESS", "DONE"},
             inCombat' \in BOOLEAN, evading' \in BOOLEAN, adds' \in 0 .. AddCount,
             combatEvents' \in BOOLEAN, friendly' \in BOOLEAN,
             inCombat' => ~evading'
      PROVE  OutroInv'
  <2>1. outro = {} /\ played = <<>> /\ ~gossip
    BY <1>0, <1>1
  <2>2. ShapeOf(outro', played', gossip') /\ played' \in Prefixes
    BY <1>1, <2>1 DEF ShapeOf, Prefixes
  <2>3. outro' \subseteq {OUTRO_1, OUTRO_2, OUTRO_3} \X Int
        /\ played' \in Seq({OUTRO_1, OUTRO_2, OUTRO_3})
    BY <2>2, ShapeType
  <2>4. QED
    BY <1>1, <2>1, <2>2, <2>3 DEF OutroInv, TypeOK, OutroShape
<1>2. CASE JustEngagedWith
  <2>1. bossState # "DONE"
    BY <1>0, <1>2 DEF JustEngagedWith
  <2>2. outro = {}
    BY <1>0, <2>1
  <2>3. QED
    BY <1>1, <1>0, <1>2, <2>1, <2>2 DEF JustEngagedWith, TypeOK
<1>3. CASE KillAdd
  <2>1. bossState' = bossState /\ outro' = outro /\ played' = played /\ gossip' = gossip
        /\ adds' \in 0 .. AddCount
    BY <1>0, <1>a, <1>3 DEF KillAdd, TypeOK
  <2>2. TypeOK'
    BY <1>0, <1>3, <2>1 DEF KillAdd, TypeOK
  <2>3. QED
    BY <1>0, <1>3, <2>1, <2>2 DEF KillAdd, OutroInv, OutroShape
<1>4. CASE EnterEvadeMode
  <2>1. bossState # "DONE"
    BY <1>0, <1>4 DEF EnterEvadeMode
  <2>2. /\ bossState' # "DONE" /\ outro' = {} /\ played' = played
        /\ gossip' = gossip
    BY <1>4, <2>1 DEF EnterEvadeMode
  <2>3. /\ bossState' \in {"NOT_STARTED", "IN_PROGRESS", "DONE"}
        /\ inCombat' \in BOOLEAN /\ evading' \in BOOLEAN
        /\ adds' \in 0 .. AddCount
        /\ combatEvents' \in BOOLEAN /\ friendly' \in BOOLEAN
        /\ inCombat' => ~evading'
    <3>1. bossState' \in {"NOT_STARTED", "IN_PROGRESS", "DONE"}
      BY <1>t, <1>4 DEF EnterEvadeMode, TypeOK
    <3>2. inCombat' \in BOOLEAN /\ evading' \in BOOLEAN /\ combatEvents' \in BOOLEAN
      BY <1>4 DEF EnterEvadeMode
    <3>3. adds' \in 0 .. AddCount
      BY <1>4, <1>a DEF EnterEvadeMode
    <3>4. friendly' \in BOOLEAN
      BY <1>t, <1>4 DEF EnterEvadeMode, TypeOK
    <3>5. inCombat' => ~evading'
      BY <1>4 DEF EnterEvadeMode
    <3>6. QED
      BY <3>1, <3>2, <3>3, <3>4, <3>5
  <2>4. QED
    BY <1>1, <2>1, <2>2, <2>3
<1>5. CASE Reset
  <2>1. bossState # "DONE"
    BY <1>0, <1>5 DEF Reset
  <2>2. bossState' = "NOT_STARTED" /\ adds' = AddCount
    BY <1>5, <2>1 DEF Reset
  <2>3. /\ bossState' # "DONE" /\ outro' = {} /\ played' = played
        /\ gossip' = gossip
    BY <1>5, <2>2 DEF Reset
  <2>4. /\ bossState' \in {"NOT_STARTED", "IN_PROGRESS", "DONE"}
        /\ inCombat' \in BOOLEAN /\ evading' \in BOOLEAN
        /\ adds' \in 0 .. AddCount
        /\ combatEvents' \in BOOLEAN /\ friendly' \in BOOLEAN
        /\ inCombat' => ~evading'
    <3>1. bossState' \in {"NOT_STARTED", "IN_PROGRESS", "DONE"} /\ adds' \in 0 .. AddCount
      BY <1>a, <2>2
    <3>2. evading' = FALSE /\ combatEvents' = FALSE
      BY <1>5 DEF Reset
    <3>3. inCombat' \in BOOLEAN /\ friendly' \in BOOLEAN
      BY <1>t, <1>5 DEF Reset, TypeOK
    <3>4. QED
      BY <3>1, <3>2, <3>3
  <2>5. QED
    BY <1>1, <2>1, <2>3, <2>4
<1>6. CASE \E diff \in Diffs : UpdateAIFight(diff)
  <2>1. PICK diff \in Diffs : UpdateAIFight(diff)
    BY <1>6
  <2>2. bossState # "DONE" /\ inCombat
    BY <2>1 DEF UpdateAIFight
  <2>3. outro = {} /\ played = <<>> /\ ~gossip /\ ~evading
    BY <1>0, <2>2
  <2>4. CASE adds = 0
    <3>1. /\ bossState' = "DONE" /\ friendly' /\ ~inCombat' /\ ~evading'
          /\ outro' = {<<OUTRO_1, 32>>} /\ played' = <<>> /\ ~gossip'
          /\ UNCHANGED <<adds>> /\ combatEvents' = FALSE
      BY <2>1, <2>3, <2>4 DEF UpdateAIFight, Surrender
    <3>2. ShapeOf(outro', played', gossip') /\ played' \in Prefixes
      <4>1. 32 \in TimersOf(outro') /\ 32 \in Nat \ {0}
        BY <3>1 DEF TimersOf
      <4>2. QED
        BY <3>1, <4>1 DEF ShapeOf, Prefixes
    <3>3. outro' \subseteq {OUTRO_1, OUTRO_2, OUTRO_3} \X Int
          /\ played' \in Seq({OUTRO_1, OUTRO_2, OUTRO_3})
      BY <3>2, ShapeType
    <3>4. TypeOK'
      <4>1. /\ bossState' = "DONE" /\ friendly' = TRUE /\ inCombat' = FALSE
            /\ combatEvents' = FALSE
            /\ UNCHANGED <<evading, adds, gossip>>
        BY <2>1, <2>4 DEF UpdateAIFight, Surrender
      <4>2. evading' \in BOOLEAN /\ gossip' \in BOOLEAN /\ adds' \in 0 .. AddCount
        BY <1>t, <4>1 DEF TypeOK
      <4>3. QED
        BY <3>3, <4>1, <4>2, TypeOKStep
    <3>5. QED
      BY <3>1, <3>2, <3>4 DEF OutroInv, OutroShape
  <2>5. CASE adds # 0
    <3>1. outro' = Advance(outro, diff)
          /\ UNCHANGED <<bossState, inCombat, evading, adds, combatEvents,
                         friendly, gossip, played>>
      BY <2>1, <2>5 DEF UpdateAIFight
    <3>2. outro' = {}
      BY <2>3, <3>1 DEF Advance
    <3>3. QED
      BY <1>1, <1>0, <2>2, <3>1, <3>2 DEF TypeOK
  <2>6. QED
    BY <2>4, <2>5
<1>7. CASE \E diff \in Diffs : UpdateAIOutro(diff)
  <2>1. PICK diff \in Diffs : UpdateAIOutro(diff)
    BY <1>7
  <2>2. /\ ShapeOf(outro', played', gossip')
        /\ played' \in Prefixes
        /\ gossip' => outro' = {} /\ played' \in {<<>>, <<OUTRO_1>>}
        /\ gossip' \in BOOLEAN
    BY <2>1, UpdateAIOutroShape
  <2>3. outro' \subseteq {OUTRO_1, OUTRO_2, OUTRO_3} \X Int
        /\ played' \in Seq({OUTRO_1, OUTRO_2, OUTRO_3})
    BY <2>2, ShapeType
  <2>4. bossState = "DONE"
        /\ UNCHANGED <<bossState, inCombat, evading, adds, combatEvents, friendly>>
    BY <2>1 DEF UpdateAIOutro
  <2>5. QED
    BY <1>0, <2>2, <2>3, <2>4 DEF OutroInv, TypeOK, OutroShape
<1>8. CASE \E menuId \in MenuInputs : GossipSelect(menuId)
  <2>1. PICK menuId \in MenuInputs : GossipSelect(menuId)
    BY <1>8
  <2>2. gossip /\ bossState = "DONE" /\ outro = {} /\ played \in {<<>>, <<OUTRO_1>>}
    BY <1>0, <2>1 DEF GossipSelect
  <2>3. /\ outro' = {<<OUTRO_2, 8>>, <<OUTRO_3, 24>>} /\ ~gossip'
        /\ UNCHANGED <<bossState, inCombat, evading, adds, combatEvents, friendly,
                       played>>
    BY <2>1, <2>2 DEF GossipSelect, StartRagnaros
  <2>4. ShapeOf(outro', played', gossip') /\ played' \in Prefixes
    <3>1. 8 \in TimersOf(outro') /\ 8 \in Nat \ {0} /\ 24 = 8 + 16
      BY <2>3 DEF TimersOf
    <3>2. QED
      BY <2>2, <2>3, <3>1 DEF ShapeOf, Prefixes
  <2>5. outro' \subseteq {OUTRO_1, OUTRO_2, OUTRO_3} \X Int
        /\ played' \in Seq({OUTRO_1, OUTRO_2, OUTRO_3})
    BY <2>4, ShapeType
  <2>6. TypeOK'
    <3>1. gossip' = FALSE
      BY <2>1 DEF GossipSelect, StartRagnaros
    <3>2. /\ bossState' \in {"NOT_STARTED", "IN_PROGRESS", "DONE"}
          /\ inCombat' \in BOOLEAN /\ evading' \in BOOLEAN
      BY <1>t, <2>3 DEF TypeOK
    <3>3. adds' \in 0 .. AddCount /\ combatEvents' \in BOOLEAN /\ friendly' \in BOOLEAN
      BY <1>t, <2>3 DEF TypeOK
    <3>4. QED
      BY <2>5, <3>1, <3>2, <3>3, TypeOKStep
  <2>7. QED
    BY <2>2, <2>3, <2>4, <2>6 DEF OutroInv, OutroShape
<1>9. CASE UNCHANGED vars
  BY <1>0, <1>9 DEF vars, OutroInv, TypeOK, OutroShape
<1>10. QED
  BY <1>2, <1>3, <1>4, <1>5, <1>6, <1>7, <1>8, <1>9 DEF Next

\* The outro plays at most once and in its written order (OUTRO_1, then
\* OUTRO_2, then OUTRO_3, OUTRO_1 left out when the instance was saved
\* after the surrender), whatever the tick lengths, the gossip selections
\* and the fights: the loop of UpdateAI runs the due events earliest first.
THEOREM OutroInOrderHolds == Spec => []OutroInOrder
<1>1. Init => OutroInv
  BY InitOutroInv
<1>2. OutroInv /\ [Next]_vars => OutroInv'
  BY NextOutroInv
<1>3. OutroInv => OutroInOrder
  <2> SUFFICES ASSUME OutroInv PROVE OutroInOrder
    OBVIOUS
  <2>1. played \in Prefixes
    BY DEF OutroInv
  <2>2. QED
    BY <2>1, PrefixesInOrder DEF OutroInOrder
<1>4. QED
  BY <1>1, <1>2, <1>3, PTL DEF Spec

=============================================================================
