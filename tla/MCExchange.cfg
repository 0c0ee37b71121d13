SPECIFICATION Spec
CONSTANTS
  MaxFrames = 3
  LiveKinds = {"text", "item", "completed", "incomplete", "failed", "error", "junk"}
  Requests <- MCRequests
  Providers <- MCProviders
  Outages <- MCOutages
  Findings <- MCFindings
  Replies <- MCReplies
  Scripts <- MCScripts
INVARIANTS TypeOK LiveIsWhole WellFormed SentAsAsked AnsweredAsReplied
CHECK_DEADLOCK FALSE
