\* Two submissions of one order overlap.
SPECIFICATION Spec
CONSTANTS
  Orders = {o1}
  Nonces = {n1}
  Requests = {r1, r2}
  None = None
  Pool = {n1}
  MaxMessages = 1
  Processed = FALSE
  MaxForks = 0
  MaxFaults = 0
  CreateLimit = 1
  SubmitLimit = 2
  CliRuns = FALSE
  MaxAge = 0
  BlockhashTtl = 1
  AbandonAge = 0
  AllowBroadcast = TRUE
PROPERTIES
  CosignedOnce
CHECK_DEADLOCK FALSE
