------------------------------ MODULE MCMarket ------------------------------
(* Two assets, one with an extended session; a grant that covers all but    *)
(* one feed; two routers, the second one sound; two requests at a time.     *)
EXTENDS Market

CONSTANTS apple, spy, appleFeed, appleExt, spyFeed

MCFeedOf    == [a \in Assets |-> IF a = apple THEN appleFeed ELSE spyFeed]
MCExtFeedOf == [a \in Assets |-> IF a = apple THEN appleExt ELSE NoFeed]
=============================================================================
