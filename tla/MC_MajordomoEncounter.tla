----------------------- MODULE MC_MajordomoEncounter -----------------------
(***************************************************************************)
(* The eight adds of Reset, world ticks of 1, 4, 10 and 30 seconds (a   *)
(* 30 s tick makes OUTRO_2 and OUTRO_3 due in one UpdateAI), and the      *)
(* gossip option 4108 beside another menu id.                             *)
(***************************************************************************)
EXTENDS MajordomoEncounter

MCDiffs == {1, 4, 10, 30}
MCMenuInputs == {4108, 4109}

=============================================================================
