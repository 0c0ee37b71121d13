SPECIFICATION Spec
CONSTANTS
  MaxFrames = 1
  LiveKinds = {"text", "item", "completed", "incomplete", "failed", "error", "junk"}
  Requests <- MCRequests
  Providers <- MCProviders
  Outages <- MCOutages
  Findings <- MCFindings
  Replies <- MCReplies
  Scripts <- MCScripts
INVARIANT CustomIsHeard
CHECK_DEADLOCK FALSE
