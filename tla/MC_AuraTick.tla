----------------------------- MODULE MC_AuraTick -----------------------------
(***************************************************************************)
(* Model of AuraTick for TLC, with a time unit of 250 ms: a second is four *)
(* units and the target map is re-resolved every two.  Two draining        *)
(* spells of three seconds, one on mana and one on health, and a spell     *)
(* that does not drain.                                                    *)
(***************************************************************************)
EXTENDS AuraTick

MC_SpellInfos ==
  { [mps |-> 2, onHealth |-> FALSE, maxDuration |-> 12],
    [mps |-> 1, onHealth |-> TRUE, maxDuration |-> 12],
    [mps |-> 0, onHealth |-> FALSE, maxDuration |-> 6] }

\* A permanent draining aura.
MC_PermanentInfos ==
  { [mps |-> 1, onHealth |-> FALSE, maxDuration |-> -1] }

\* A draining aura of four seconds.
MC_LongInfos ==
  { [mps |-> 1, onHealth |-> FALSE, maxDuration |-> 16] }

\* World ticks of 250 ms to one second.
MC_Diffs == 1 .. 4

\* World ticks of up to 1250 ms: a server running late.
MC_LateDiffs == {1, 5}

\* World ticks of 250 ms, 1250 ms and 2250 ms: a server badly behind.
MC_LongDiffs == {1, 5, 9}

=============================================================================
