------------------------- MODULE MajordomoEncounter -------------------------
(***************************************************************************)
(* The Majordomo Executus boss script (boss_majordomo_executus.cpp): the   *)
(* fight against him and his Flamewaker adds, his surrender when the adds  *)
(* are dead, and the outro that brings Ragnaros: OUTRO_1 (32 s after the   *)
(* surrender) teleports him and offers the gossip, the gossip option 4108  *)
(* schedules OUTRO_2 (8 s, summon Ragnaros) and OUTRO_3 (24 s, his         *)
(* arrival line).                                                          *)
(*                                                                         *)
(* The EventMap is split in two.  The outro events keep their timers, in   *)
(* seconds, because their order and their firing are what the properties   *)
(* are about.  The four combat events only cast spells and reschedule      *)
(* themselves, so they are kept as "scheduled or not".  The raid, the      *)
(* creature's evade and home movement and the instance's saved state are   *)
(* the environment of the script.                                          *)
(***************************************************************************)
EXTENDS Integers, Sequences, FiniteSets

CONSTANTS
  AddCount,    \* adds summoned by Reset (4 healers and 4 elites)
  Diffs,       \* world-tick lengths, in seconds, passed to UpdateAI
  MenuInputs   \* gossip menu ids a player may select

ASSUME MajordomoAssumption ==
  /\ AddCount \in Nat
  /\ Diffs \subseteq Nat \ {0}
  /\ IsFiniteSet(Diffs) /\ Diffs # {}

\* Event ids, and the gossip menu option that starts Ragnaros.
OUTRO_1 == 5
OUTRO_2 == 6
OUTRO_3 == 7
MENU_OPTION_YOU_CHALLENGED_US == 4108

VARIABLES
  bossState,    \* instance->GetBossState(BOSS_MAJORDOMO_EXECUTUS)
  inCombat,     \* the boss has a victim (UpdateVictim())
  evading,      \* evading and walking home; Reset runs on arrival
  adds,         \* Flamewaker adds alive within 100 yards
  combatEvents, \* the four combat events are scheduled
  outro,        \* scheduled outro events: set of <<eventId, seconds left>>
  friendly,     \* faction FACTION_FRIENDLY
  gossip,       \* UNIT_NPC_FLAG_GOSSIP set
  played        \* outro events executed so far, in order

vars == <<bossState, inCombat, evading, adds, combatEvents, outro, friendly,
          gossip, played>>

\* The creature spawns and Reset runs: a fresh instance summons the adds; an
\* instance saved with Majordomo DONE makes Reset return at once, and the
\* instance script then calls DoAction(ACTION_START_RAGNAROS_ALT), which
\* makes him friendly and offers the gossip.
Init ==
  /\ inCombat = FALSE
  /\ evading = FALSE
  /\ combatEvents = FALSE
  /\ outro = {}
  /\ played = <<>>
  /\ \/ /\ bossState = "NOT_STARTED"
        /\ adds = AddCount
        /\ friendly = FALSE
        /\ gossip = FALSE
     \/ /\ bossState = "DONE"
        /\ adds = 0
        /\ friendly = TRUE
        /\ gossip = TRUE

\* The raid pulls him: BossAI::JustEngagedWith sets the encounter in
\* progress, and the four combat events are scheduled.
JustEngagedWith ==
  /\ ~inCombat /\ ~evading /\ ~friendly
  /\ inCombat' = TRUE
  /\ bossState' = "IN_PROGRESS"
  /\ combatEvents' = TRUE
  /\ UNCHANGED <<evading, adds, outro, friendly, gossip, played>>

\* The raid kills one add.
KillAdd ==
  /\ adds > 0
  /\ adds' = adds - 1
  /\ UNCHANGED <<bossState, inCombat, evading, combatEvents, outro, friendly,
                 gossip, played>>

\* EnterEvadeMode (the raid wiped or left): combat stops, the EventMap is
\* reset, the adds despawn and he walks home.
EnterEvadeMode ==
  /\ inCombat
  /\ inCombat' = FALSE
  /\ evading' = TRUE
  /\ combatEvents' = FALSE
  /\ outro' = {}
  /\ adds' = 0
  /\ UNCHANGED <<bossState, friendly, gossip, played>>

\* Back home, Reset: BossAI::_Reset resets the EventMap, despawns the
\* summons and sets a boss that is not DONE to NOT_STARTED; if he is not
\* DONE the eight adds are summoned again.
Reset ==
  /\ evading
  /\ evading' = FALSE
  /\ combatEvents' = FALSE
  /\ outro' = {}
  /\ IF bossState = "DONE"
       THEN UNCHANGED <<bossState, adds>>
       ELSE /\ bossState' = "NOT_STARTED"
            /\ adds' = AddCount
  /\ UNCHANGED <<inCombat, friendly, gossip, played>>

\* EventMap::Update(diff) on the outro timers.
Advance(evs, diff) == {<<e[1], e[2] - diff>> : e \in evs}

\* The events that are due: ExecuteEvent returns them earliest first.
Due(evs) == {e \in evs : e[2] <= 0}

\* The events of evs listed earliest first, each once: the EventMap keeps
\* its events in a multimap ordered by due time.
ByDueTime(evs) ==
  CHOOSE f \in [1 .. Cardinality(evs) -> evs] :
    /\ \A i, j \in 1 .. Cardinality(evs) : i # j => f[i] # f[j]
    /\ \A i, j \in 1 .. Cardinality(evs) : i < j => f[i][2] <= f[j][2]

\* The ids of the due events in the order ExecuteEvent returns them.
DueOrder(evs) == [i \in 1 .. Cardinality(evs) |-> ByDueTime(evs)[i][1]]

\* Mutant: the EventMap reset of _JustDied after OUTRO_1 is scheduled.
SurrenderResetLast ==
  /\ bossState' = "DONE"
  /\ friendly' = TRUE
  /\ inCombat' = FALSE
  /\ combatEvents' = FALSE
  /\ outro' = {}
  /\ UNCHANGED <<evading, adds, gossip, played>>

\* The surrender: the adds are gone, so the encounter is DONE, he turns
\* friendly, _JustDied resets the EventMap, combat stops, and OUTRO_1 is
\* scheduled 32 seconds later.
Surrender ==
  /\ bossState' = "DONE"
  /\ friendly' = TRUE
  /\ inCombat' = FALSE
  /\ combatEvents' = FALSE
  /\ outro' = {<<OUTRO_1, 32>>}
  /\ UNCHANGED <<evading, adds, gossip, played>>

\* UpdateAI while the encounter is not DONE: with no victim it returns; the
\* EventMap advances; with no add left he surrenders; otherwise the combat
\* events run and reschedule themselves (no modelled change).
UpdateAIFight(diff) ==
  /\ bossState # "DONE"
  /\ inCombat
  /\ IF adds = 0
       THEN Surrender
       ELSE /\ outro' = Advance(outro, diff)
            /\ UNCHANGED <<bossState, inCombat, evading, adds, combatEvents,
                           friendly, gossip, played>>

\* UpdateAI once DONE: the EventMap advances and every due outro event runs,
\* earliest first.  OUTRO_1 teleports him and sets the gossip flag, OUTRO_2
\* summons Ragnaros, OUTRO_3 says the arrival line.
UpdateAIOutro(diff) ==
  /\ bossState = "DONE"
  /\ LET evs == Advance(outro, diff)
         run == DueOrder(Due(evs))
     IN  /\ outro' = evs \ Due(evs)
         /\ played' = played \o run
         /\ gossip' = (gossip \/ \E i \in DOMAIN run : run[i] = OUTRO_1)
  /\ UNCHANGED <<bossState, inCombat, evading, adds, combatEvents, friendly>>

\* Mutant: the two delays swapped.
StartRagnarosSwapped ==
  /\ gossip' = FALSE
  /\ outro' = outro \cup {<<OUTRO_2, 24>>, <<OUTRO_3, 8>>}

\* DoAction(ACTION_START_RAGNAROS): the gossip flag is removed, OUTRO_2 is
\* scheduled in 8 seconds and OUTRO_3 in 24.
StartRagnaros ==
  /\ gossip' = FALSE
  /\ outro' = outro \cup {<<OUTRO_2, 8>>, <<OUTRO_3, 24>>}

\* GossipSelect: a player with the gossip window of the boss (offered only
\* while the gossip flag is set) picks a menu option; only 4108 starts
\* Ragnaros.
GossipSelect(menuId) ==
  /\ gossip
  /\ menuId = MENU_OPTION_YOU_CHALLENGED_US
  /\ StartRagnaros
  /\ UNCHANGED <<bossState, inCombat, evading, adds, combatEvents, friendly,
                 played>>

Next ==
  \/ JustEngagedWith
  \/ KillAdd
  \/ EnterEvadeMode
  \/ Reset
  \/ \E diff \in Diffs : UpdateAIFight(diff) \/ UpdateAIOutro(diff)
  \/ \E menuId \in MenuInputs : GossipSelect(menuId)

Spec == Init /\ [][Next]_vars

\* The world thread calls UpdateAI of a spawned creature on every map update.
FairSpec == Spec /\ WF_vars(\E diff \in Diffs : UpdateAIOutro(diff))

-----------------------------------------------------------------------------

TypeOK ==
  /\ bossState \in {"NOT_STARTED", "IN_PROGRESS", "DONE"}
  /\ inCombat \in BOOLEAN /\ evading \in BOOLEAN
  /\ adds \in 0..AddCount
  /\ combatEvents \in BOOLEAN /\ friendly \in BOOLEAN /\ gossip \in BOOLEAN
  /\ outro \subseteq {OUTRO_1, OUTRO_2, OUTRO_3} \X Int
  /\ played \in Seq({OUTRO_1, OUTRO_2, OUTRO_3})

\* The outro plays at most once and in its written order: the teleport and
\* gossip (OUTRO_1, absent when the instance was saved after the surrender),
\* then Ragnaros' summoning (OUTRO_2), then the arrival line (OUTRO_3), for
\* any tick lengths and any gossip selections, fights and evades.
OutroInOrder ==
  \E script \in {<<OUTRO_1, OUTRO_2, OUTRO_3>>, <<OUTRO_2, OUTRO_3>>} :
    \E k \in 0..Len(script) : played = SubSeq(script, 1, k)

\* An outro event is scheduled, or has been played.
Scheduled(id) == \E e \in outro : e[1] = id
Played(id) == \E i \in DOMAIN played : played[i] = id

\* Once he has surrendered, the raid is eventually offered the gossip or
\* Ragnaros is already coming, and once Ragnaros' arrival line is scheduled
\* it is eventually said: the surrender and DoAction keep their outro events
\* through the EventMap resets around them.
OutroProgresses ==
  /\ (bossState = "DONE") ~> (gossip \/ Scheduled(OUTRO_2) \/ Played(OUTRO_2))
  /\ Scheduled(OUTRO_3) ~> Played(OUTRO_3)

=============================================================================
