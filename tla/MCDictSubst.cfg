CONSTANTS
  Upper = {"A"}
  Digits = {"0"}
  NL <- MCNL
  Dico <- MCDico
  Files <- MCFiles
SPECIFICATION Spec
INVARIANT RenderMatchesReference
