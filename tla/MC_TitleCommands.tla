-------------------------- MODULE MC_TitleCommands --------------------------
(***************************************************************************)
(* Two players, three title store entries, one of them with a Mask_ID    *)
(* past the first 64-bit word of the known-titles field; ids typed after  *)
(* the commands include 0, a negative id and an id with no entry; the     *)
(* masks typed after ".titles set mask" include a bit no entry has (3)    *)
(* and the bit that the entry with Mask_ID 64 wraps to (0).               *)
(***************************************************************************)
EXTENDS TitleCommands

MCPlayers == {"p1", "p2"}
MCTitleIds == {1, 2, 3}
MCMaskOf == [id \in MCTitleIds |-> IF id = 3 THEN 64 ELSE id]
MCIdInputs == {-1, 0, 1, 2, 3, 4}
MCMaskInputs == {{}, {0}, {1, 3}, {0, 1, 2, 3}}

=============================================================================
