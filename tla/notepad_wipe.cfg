CONSTANTS
  default = default
  other = other
  thePad = thePad
  node = node
  lacking = lacking
  note = note
  plan = plan
  odd = odd
  local = local
  clone = clone
  bad = bad
  worse = worse
  piece1 = piece1
  NoGraph = NoGraph
  NoTitle = NoTitle
  Default = default
  PadMember = thePad
  FirstTitle = note
  Graph <- TwoGraphs
  Member <- Members
  Installed <- WithFrontends
  Malformed <- ABadOne
  Unhostable <- AWorseOne
  Call <- TwoCalls
  Title <- Titles
  Stem <- Stems
  Root <- TwoFolders
  Piece <- OnePiece
  MaxInbox = 1
  Session <- CallsOrTexts
  Earlier <- EarlierDisks
  MaxActs = 2
  Faults <- AllFaults
  MaxFaults = 1
SPECIFICATION Spec
INVARIANT EveryTextIsKept
CHECK_DEADLOCK FALSE
