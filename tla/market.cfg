\* Two routers of which one is sound, three feeds of which two are granted;
\* two requests, changes announced three ticks ahead, clocks a tick apart.
SPECIFICATION Spec
CONSTANTS
  apple = apple
  spy = spy
  appleFeed = appleFeed
  appleExt = appleExt
  spyFeed = spyFeed
  Assets = {apple, spy}
  FeedOf <- MCFeedOf
  ExtFeedOf <- MCExtFeedOf
  NoFeed = NoFeed
  NoPrice = NoPrice
  Entitled = {appleFeed, appleExt}
  Routers = 2
  Sound = {1}
  Lag = 1
  MaxAge = 1
  MaxDelay = 4
  Readers = {r1, r2}
  Multipliers = {m1, m2}
  None = None
  TTL = 1
  Latency = 1
  Notice = 3
  Skew = 1
  Askers = {r1, r2}
  Keys = {k1}
  NoQuote = NoQuote
  CacheTTL = 1
  QuoteLatency = 1
INVARIANTS Inv FactsTrueOrEarly
PROPERTIES PriceComesBack
