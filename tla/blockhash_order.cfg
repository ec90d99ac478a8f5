\* An order created while the pool is empty.
SPECIFICATION Spec
CONSTANTS
  Orders = {o1}
  Nonces = {n1}
  Requests = {r1}
  None = None
  Pool = {}
  MaxMessages = 1
  Processed = FALSE
  MaxForks = 0
  MaxFaults = 0
  CreateLimit = 1
  SubmitLimit = 1
  CliRuns = FALSE
  MaxAge = 1
  BlockhashTtl = 1
  AbandonAge = 1
  AllowBroadcast = TRUE
INVARIANTS
  YoungBlockhashOrderIsSent
CHECK_DEADLOCK FALSE
