------------------------ MODULE TitleCommands_proofs ------------------------
(***************************************************************************)
(* Proofs about the title commands, for every set of players, every title *)
(* store and every input the commands accept.                             *)
(***************************************************************************)
EXTENDS TitleCommands, TLAPS

\* The invariant proved: the type, and the chosen title known.
IInv == TypeOK /\ ChosenTitleKnown

\* KeepChosen yields a bit of the field, and one the player knows when it
\* is not 0.
LEMMA KeepChosenFacts ==
  ASSUME TypeOK, NEW p \in Players, NEW known \in SUBSET KnownBits
  PROVE  /\ KeepChosen(p, known) \in KnownBits
         /\ KeepChosen(p, known) # 0 => HasTitle(known, KeepChosen(p, known))
BY DEF TypeOK, KeepChosen, HasTitle, KnownBits

LEMMA InitIInv == Init => IInv
BY DEF Init, IInv, TypeOK, ChosenTitleKnown, KnownBits

LEMMA NextIInv == IInv /\ [Next]_vars => IInv'
<1> SUFFICES ASSUME IInv, [Next]_vars PROVE IInv'
  OBVIOUS
<1>1. ASSUME NEW p \in Players, NEW id \in IdInputs, CurrentCmd(p, id)
      PROVE  IInv'
  <2>1. MaskOf[id] \in KnownBits
    BY <1>1, TitleAssumption DEF CurrentCmd, ValidId
  <2>2. QED
    BY <1>1, <2>1 DEF IInv, TypeOK, ChosenTitleKnown, CurrentCmd, SetTitle, HasTitle
<1>2. ASSUME NEW p \in Players, NEW id \in IdInputs, AddCmd(p, id)
      PROVE  IInv'
  <2>1. MaskOf[id] \in KnownBits
    BY <1>2, TitleAssumption DEF AddCmd, ValidId
  <2>2. QED
    BY <1>2, <2>1 DEF IInv, TypeOK, ChosenTitleKnown, AddCmd, SetTitle, HasTitle
<1>3. ASSUME NEW p \in Players, NEW id \in IdInputs, RemoveCmd(p, id)
      PROVE  IInv'
  <2>1. knownTitles'[p] \in SUBSET KnownBits
    BY <1>3 DEF IInv, TypeOK, RemoveCmd, SetTitle
  <2>2. QED
    BY <1>3, <2>1, KeepChosenFacts DEF IInv, TypeOK, ChosenTitleKnown, RemoveCmd
<1>4. ASSUME NEW p \in Players, NEW titles \in MaskInputs, SetMaskCmd(p, titles)
      PROVE  IInv'
  <2>1. PICK wrap \in [TitleIds -> BOOLEAN] :
          LET allValidTitleMask == UNION {ShiftBit(id, wrap[id]) : id \in TitleIds}
              known == (titles \cap allValidTitleMask)
                         \cup {b \in knownTitles[p] : b \notin WordBits}
          IN  /\ knownTitles' = [knownTitles EXCEPT ![p] = known]
              /\ chosenTitle' = [chosenTitle EXCEPT ![p] = KeepChosen(p, known)]
    BY <1>4 DEF SetMaskCmd
  <2> DEFINE known == (titles \cap UNION {ShiftBit(id, wrap[id]) : id \in TitleIds})
                        \cup {b \in knownTitles[p] : b \notin WordBits}
  <2>2. known \in SUBSET KnownBits
    <3>1. titles \in SUBSET KnownBits
      BY TitleAssumption DEF KnownBits, WordBits
    <3>2. knownTitles[p] \in SUBSET KnownBits
      BY DEF IInv, TypeOK
    <3>3. QED
      BY <3>1, <3>2 DEF known
  <2>3. QED
    BY <2>1, <2>2, KeepChosenFacts DEF IInv, TypeOK, ChosenTitleKnown
<1>5. CASE UNCHANGED vars
  BY <1>5 DEF IInv, TypeOK, ChosenTitleKnown, vars
<1>6. QED
  BY <1>1, <1>2, <1>3, <1>4, <1>5 DEF Next

\* ChosenTitleKnownHolds: after every sequence of title commands on any
\* players, PLAYER_CHOSEN_TITLE is 0 or a title the player knows, because
\* .titles remove and .titles set mask reset it after clearing its bit.
THEOREM ChosenTitleKnownHolds == Spec => []ChosenTitleKnown
<1>1. Init => IInv
  BY InitIInv
<1>2. IInv /\ [Next]_vars => IInv'
  BY NextIInv
<1>3. IInv => ChosenTitleKnown
  BY DEF IInv
<1>4. QED
  BY <1>1, <1>2, <1>3, PTL DEF Spec

=============================================================================
