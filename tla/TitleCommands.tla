--------------------------- MODULE TitleCommands ---------------------------
(***************************************************************************)
(* The GM title commands of cs_titles.cpp acting on the selected player:   *)
(* ".titles current", ".titles add", ".titles remove" and ".titles set     *)
(* mask".  A player's known titles are the set of bit indices set in       *)
(* PLAYER__FIELD_KNOWN_TITLES (KNOWN_TITLES_SIZE = 4 words of 64 bits);   *)
(* the chosen title is the Mask_ID stored in PLAYER_CHOSEN_TITLE, 0 for    *)
(* none.  A title store entry is known by its DBC id and carries a         *)
(* Mask_ID.  The command handlers run one at a time on the world thread.   *)
(* A command that fails (no link, id <= 0, no selected player, lower       *)
(* security, unknown id) returns before changing anything: it is a         *)
(* stuttering step and is left out of Next.                                *)
(***************************************************************************)
EXTENDS Integers, FiniteSets

CONSTANTS
  Players,    \* players a GM may select (handler->getSelectedPlayer())
  TitleIds,   \* DBC ids of the entries of sCharTitlesStore
  MaskOf,     \* MaskOf[id]: the entry's Mask_ID
  IdInputs,   \* ids typed after a command, valid or not
  MaskInputs  \* bit sets typed after ".titles set mask" (a uint64)

\* Bits of the known-titles field: KNOWN_TITLES_SIZE * 64.
KnownBits == 0..255

\* The uint64 argument of ".titles set mask".
WordBits == 0..63

ASSUME TitleAssumption ==
  /\ IsFiniteSet(TitleIds)
  /\ TitleIds \subseteq Nat \ {0}
  /\ MaskOf \in [TitleIds -> KnownBits]
  /\ IdInputs \subseteq Int
  /\ MaskInputs \subseteq SUBSET WordBits

VARIABLES
  knownTitles,  \* knownTitles[p]: bits set in p's PLAYER__FIELD_KNOWN_TITLES
  chosenTitle   \* chosenTitle[p]: p's PLAYER_CHOSEN_TITLE

vars == <<knownTitles, chosenTitle>>

Init ==
  /\ knownTitles = [p \in Players |-> {}]
  /\ chosenTitle = [p \in Players |-> 0]

\* Player::HasTitle(bitIndex): the bit is set (indices past the field are
\* never set).
HasTitle(known, bit) == bit \in known

\* Player::SetTitle(title, lost): set or clear the title's bit.
SetTitle(known, id, lost) ==
  IF lost THEN known \ {MaskOf[id]} ELSE known \cup {MaskOf[id]}

\* The shared guards: id > 0 (atoi of the link) and LookupEntry(id) found.
ValidId(id) == id > 0 /\ id \in TitleIds

\* HandleTitlesCurrentCommand: learn the title and make it the chosen one.
CurrentCmd(p, id) ==
  /\ ValidId(id)
  /\ knownTitles' = [knownTitles EXCEPT ![p] = SetTitle(@, id, FALSE)]
  /\ chosenTitle' = [chosenTitle EXCEPT ![p] = MaskOf[id]]

\* HandleTitlesAddCommand: learn the title.
AddCmd(p, id) ==
  /\ ValidId(id)
  /\ knownTitles' = [knownTitles EXCEPT ![p] = SetTitle(@, id, FALSE)]
  /\ UNCHANGED chosenTitle

\* Mutant: the chosen title is never reset.
KeepChosenAlways(p, known) == chosenTitle[p]

\* Reset PLAYER_CHOSEN_TITLE to 0 when its title is no longer known.
KeepChosen(p, known) ==
  IF HasTitle(known, chosenTitle[p]) THEN chosenTitle[p] ELSE 0

\* HandleTitlesRemoveCommand: forget the title, then reset the chosen title
\* if it is no longer known.
RemoveCmd(p, id) ==
  /\ ValidId(id)
  /\ knownTitles' = [knownTitles EXCEPT ![p] = SetTitle(@, id, TRUE)]
  /\ chosenTitle' = [chosenTitle EXCEPT ![p] = KeepChosen(p, knownTitles'[p])]

\* The bit that 'uint64(1) << tEntry->Mask_ID' sets.  A shift by 64 or more
\* is undefined; the x86 SHL instruction takes the count modulo 64 and other
\* targets give 0, so an entry with Mask_ID >= 64 sets bit Mask_ID % 64
\* (wrap) or nothing.
ShiftBit(id, wrap) ==
  IF MaskOf[id] < 64 \/ wrap THEN {MaskOf[id] % 64} ELSE {}

\* HandleTitlesSetMaskCommand: keep the argument's bits that some store
\* entry sets in allValidTitleMask, write them to the first 64-bit word of
\* the known-titles field (the higher words keep their bits), then reset the
\* chosen title if it is no longer known.
SetMaskCmd(p, titles) ==
  \E wrap \in [TitleIds -> BOOLEAN] :
    LET allValidTitleMask == UNION {ShiftBit(id, wrap[id]) : id \in TitleIds}
        known == (titles \cap allValidTitleMask)
                   \cup {b \in knownTitles[p] : b \notin WordBits}
    IN  /\ knownTitles' = [knownTitles EXCEPT ![p] = known]
        /\ chosenTitle' = [chosenTitle EXCEPT ![p] = KeepChosen(p, known)]

Next ==
  \E p \in Players :
    \/ \E id \in IdInputs : CurrentCmd(p, id) \/ AddCmd(p, id) \/ RemoveCmd(p, id)
    \/ \E titles \in MaskInputs : SetMaskCmd(p, titles)

Spec == Init /\ [][Next]_vars

-----------------------------------------------------------------------------

TypeOK ==
  /\ knownTitles \in [Players -> SUBSET KnownBits]
  /\ chosenTitle \in [Players -> KnownBits]

\* Whenever a command has finished, the chosen title is one the player knows
\* or none: .titles remove and .titles set mask reset PLAYER_CHOSEN_TITLE
\* after taking away its bit, and .titles current learns the title it
\* selects.
ChosenTitleKnown ==
  \A p \in Players : chosenTitle[p] # 0 => HasTitle(knownTitles[p], chosenTitle[p])

\* ".titles set mask" removes non-existing titles (the comment on
\* 'titles &= allValidTitleMask'): every known title bit is the Mask_ID of
\* some title store entry.
KnownTitlesExist ==
  \A p \in Players : \A b \in knownTitles[p] : \E id \in TitleIds : MaskOf[id] = b

=============================================================================
