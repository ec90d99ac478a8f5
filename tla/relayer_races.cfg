\* Two orders, of which each has one submission at a time: creates, handlers and
\* the command overlap, one fault, processed answers, one fork.
SPECIFICATION Spec
CONSTANTS
  Orders = {o1, o2}
  Nonces = {n1}
  Requests = {r1, r2}
  None = None
  Pool = {}
  MaxMessages = 1
  Processed = TRUE
  MaxForks = 1
  MaxFaults = 1
  CreateLimit = 2
  SubmitLimit = 1
  CliRuns = TRUE
  MaxAge = 0
  BlockhashTtl = 1
  AbandonAge = 0
  AllowBroadcast = TRUE
SYMMETRY Symmetry
INVARIANTS
  TypeOK
  NonceSharedByRaceOnly
  OrderKeepsNonce
  RejectedMeansError
CHECK_DEADLOCK FALSE
