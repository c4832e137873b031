CONSTANTS
  Players <- MCPlayers
  TitleIds <- MCTitleIds
  MaskOf <- MCMaskOf
  IdInputs <- MCIdInputs
  MaskInputs <- MCMaskInputs
SPECIFICATION Spec
INVARIANTS
  ChosenTitleKnown
