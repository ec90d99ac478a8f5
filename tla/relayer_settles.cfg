\* One order, of one message or two, submitted twice at once and read
\* meanwhile, with the command, one fault, processed answers and one fork.
SPECIFICATION FairSpec
CONSTANTS
  Orders = {o1}
  Nonces = {n1}
  Requests = {r1, r2}
  None = None
  Pool = {n1}
  MaxMessages = 2
  Processed = TRUE
  MaxForks = 1
  MaxFaults = 1
  CreateLimit = 1
  SubmitLimit = 2
  CliRuns = TRUE
  MaxAge = 1
  BlockhashTtl = 1
  AbandonAge = 1
  AllowBroadcast = TRUE
INVARIANTS
  FullInv
  ConfirmedMeansLanded
  ConfirmedHoldsNothing
  NothingLeavesUnsigned
  FirstHalfFirst
  NothingSentIsForgotten
PROPERTIES
  ImplementsLifecycle
  BroadcastSettles
CHECK_DEADLOCK FALSE
