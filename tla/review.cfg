\* Orders as the relayer builds them, and orders changed on the way.
SPECIFICATION Spec
CONSTANTS
  a1 = a1  a2 = a2  d1 = d1  d2 = d2  s1 = s1  s2 = s2
  vault2 = vault2  order1 = order1  order2 = order2  mall = mall
  Asset = {a1, a2}
  Usdc = Usdc
  Vault = Vault
  SystemProgram = SystemProgram
  ComputeBudget = ComputeBudget
  TokenProgram = TokenProgram
  Token2022 = Token2022
  AssociatedToken = AssociatedToken
  Jupiter = Jupiter
  Unnamed = Unnamed
  Nobody = Nobody
  MaxSlippageBps = 300
  MinMultiplier = 10
  MaxMultiplier = 1000
  Relayer = Relayer
  NonceAccount = NonceAccount
  Sysvar = Sysvar
  Pool = Pool
  LookupTables = {Pool}
  Signers <- MCSigners
  Requests <- MCRequests
  FactTables <- MCFactTables
  Prices <- MCPrices
  Times <- MCTimes
  MaxAgeSeconds = 4
  MaxAttestationAge = 3
  MaxDeviation = 10
  WarnDeviation = 5
  MaxExact = 1000000
  Deliveries <- MCDeliveries
  Stored = {Nobody, Corrupt, 5, 50}
  Choices = {5, 10}
  Corrupt = Corrupt
  MaxClock = 10
INVARIANTS TypeOK TicketIsTheMessage SignedAsChecked DelegateIsDisclosed RelayedOrderHasTime
PROPERTIES AgeRefusalIsFinal
CHECK_DEADLOCK FALSE
