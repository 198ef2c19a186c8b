CONSTANTS
  Calls = {c1, c2, c3}
  cfa = cfa
  vfa = vfa
  dla = dla
  NoRequest = NoRequest
  Policies <- MCPolicies
  Requests <- MCRequests
  ApiRequestSet <- MCApiRequests
  Epochs = {0, 1}
SPECIFICATION FairApiSpec
CHECK_DEADLOCK FALSE
INVARIANTS
  SeqIncreases
  EntriesKeptOnce
  RejectedOnlyByRace
  AnswerReadable
  ReplaySound
  AnswersAudited
PROPERTIES
  CallsAnswered
  ImplementsLog
