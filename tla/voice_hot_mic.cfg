CONSTANTS
  question1 = question1
  request1 = request1
  prompt1 = prompt1
  NoAsk = NoAsk
  NoSession = NoSession
  NoPrompt = NoPrompt
  Ask <- OneQuestion
  Heard <- OneQuestion
  Request <- OneRequest
  Prompt <- OnePrompt
  Faults <- None
  MaxFaults = 0
  MaxSentences = 1
  MaxAgents = 2
  MaxAnswers = 2
  MaxPresses = 3
  MaxCalls = 1
SPECIFICATION Spec
INVARIANT NoHotMicrophone
CHECK_DEADLOCK FALSE
