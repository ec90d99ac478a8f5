\* An amount that does not divide, one that rounds to nothing and none; two
\* pricings, orders and readings at a time.
SPECIFICATION Spec
CONSTANTS
  apple = apple
  spy = spy
  tesla = tesla
  Assets = {apple, spy, tesla}
  Amounts = {0, 7}
  NoAmount = NoAmount
  Percents = {0, 60}
  TradeAsset = apple
  Presets <- MCPresets
  FirstPreset <- MCFirstPreset
  FirstAmount = 7
  MaxLegs = 2
  Addresses = {v1, v2}
  None = None
  MaxRuns = 2
  MaxOrders = 1
  MaxReads = 2
  MaxPrompts = 1
INVARIANTS Inv ScreenSettles
