CONSTANTS
  question1 = question1
  request1 = request1
  prompt1 = prompt1
  NoAsk = NoAsk
  NoSession = NoSession
  NoPrompt = NoPrompt
  Ask <- OneQuestion
  Heard <- OneQuestion
  Request <- OneRequest
  Prompt <- OnePrompt
  Faults <- AllFaults
  MaxFaults = 1
  MaxSentences = 1
  MaxAgents = 2
  MaxAnswers = 2
  MaxPresses = 2
  MaxCalls = 1
SPECIFICATION FairSpec
INVARIANTS TypeOK RewriteSpokenOnce
PROPERTIES QuestionsEnd PanelClosedLetsGo
CHECK_DEADLOCK FALSE
