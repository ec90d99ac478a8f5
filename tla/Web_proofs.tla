------------------------------ MODULE Web_proofs ------------------------------
(***************************************************************************)
(* Proofs about Web, for any assets, amounts, presets and addresses, and    *)
(* any number of legs, pricings, orders and readings at a time.             *)
(***************************************************************************)
EXTENDS Web, FiniteSetTheorems, WellFoundedInduction, TLAPS

-----------------------------------------------------------------------------
(* Sums over a set.  What a sum is for every finite set is shown by a least *)
(* counterexample: a smallest set for which it is not.                      *)

Less == {pair \in Nat \X Nat : pair[1] < pair[2]}

LEMMA LessIsWellFounded == IsWellFoundedOn(Less, Nat)
BY NatLessThanWellFounded, Zenon DEF OpToRel, Less

LEMMA LeastNumber ==
  ASSUME NEW T, T \subseteq Nat, T # {}
  PROVE  \E n \in T : \A m \in T : n <= m
<1>1. PICK n \in T : \A m \in T : <<m, n>> \notin Less
  BY LessIsWellFounded, WFMin
<1>2. \A m \in T : ~(m < n)
  BY <1>1 DEF Less
<1> QED
  BY <1>2

LEMMA SmallestSet ==
  ASSUME NEW S, IsFiniteSet(S), NEW Bad, Bad \subseteq SUBSET S, Bad # {}
  PROVE  \E s \in Bad : /\ IsFiniteSet(s)
                        /\ \A x \in s : s \ {x} \notin Bad
<1> DEFINE sizes == {Cardinality(s) : s \in Bad}
<1>1. \A s \in Bad : IsFiniteSet(s) /\ Cardinality(s) \in Nat
  BY FS_Subset, FS_CardinalityType
<1>2. sizes \subseteq Nat /\ sizes # {}
  BY <1>1
<1>3. PICK n \in sizes : \A m \in sizes : n <= m
  BY <1>2, LeastNumber
<1>4. PICK s \in Bad : n = Cardinality(s)
  BY <1>3
<1>5. ASSUME NEW x \in s, s \ {x} \in Bad PROVE FALSE
  <2>1. Cardinality(s \ {x}) = Cardinality(s) - 1
    BY <1>1, <1>5, FS_RemoveElement
  <2>2. Cardinality(s) <= Cardinality(s \ {x})
    BY <1>3, <1>4, <1>5
  <2> QED
    BY <1>1, <2>1, <2>2
<1> QED
  BY <1>1, <1>5

Total(g, S) == MapThenSumSet(LAMBDA a : g[a], S)

Pick(s) == CHOOSE x \in s : TRUE

(* f is the function that the sum over S is defined by. *)
IsIter(g, f, S) ==
  f = [s \in SUBSET S |-> IF s = {} THEN 0 ELSE g[Pick(s)] + f[s \ {Pick(s)}]]

LEMMA TotalIs ==
  ASSUME NEW g, NEW S
  PROVE  Total(g, S) = (CHOOSE f : IsIter(g, f, S))[S]
BY Zenon DEF Total, MapThenSumSet, MapThenFoldSet, IsIter, Pick

LEMMA Picked ==
  ASSUME NEW s, s # {}
  PROVE  Pick(s) \in s
BY DEF Pick

LEMMA IterAt ==
  ASSUME NEW g, NEW f, NEW S, IsIter(g, f, S), NEW s \in SUBSET S
  PROVE  f[s] = IF s = {} THEN 0 ELSE g[Pick(s)] + f[s \ {Pick(s)}]
BY DEF IsIter

LEMMA ItersAgree ==
  ASSUME NEW S, IsFiniteSet(S), NEW T, NEW g, NEW f, NEW h,
         IsIter(g, f, S), IsIter(g, h, T), NEW s \in SUBSET S, s \in SUBSET T
  PROVE  f[s] = h[s]
<1> DEFINE Bad == {t \in SUBSET S : t \in SUBSET T /\ f[t] # h[t]}
<1>1. SUFFICES ASSUME Bad # {} PROVE FALSE
  OBVIOUS
<1>2. Bad \subseteq SUBSET S
  OBVIOUS
<1>3. PICK t \in Bad : \A x \in t : t \ {x} \notin Bad
  BY <1>1, <1>2, SmallestSet
<1>4. t \in SUBSET S /\ t \in SUBSET T /\ f[t] # h[t]
  OBVIOUS
<1>5. /\ f[t] = IF t = {} THEN 0 ELSE g[Pick(t)] + f[t \ {Pick(t)}]
      /\ h[t] = IF t = {} THEN 0 ELSE g[Pick(t)] + h[t \ {Pick(t)}]
  BY <1>4, IterAt
<1>6. t # {}
  BY <1>4, <1>5
<1>7. f[t \ {Pick(t)}] = h[t \ {Pick(t)}]
  BY <1>3, <1>4, <1>6, Picked
<1> QED
  BY <1>4, <1>5, <1>7

LEMMA IterExists ==
  ASSUME NEW S, IsFiniteSet(S), NEW g
  PROVE  \E f : IsIter(g, f, S)
<1> DEFINE Bad == {s \in SUBSET S : ~ \E f : IsIter(g, f, s)}
<1>1. SUFFICES ASSUME Bad # {} PROVE FALSE
  OBVIOUS
<1>2. Bad \subseteq SUBSET S
  OBVIOUS
<1>3. PICK s \in Bad : IsFiniteSet(s) /\ \A x \in s : s \ {x} \notin Bad
  BY <1>1, <1>2, SmallestSet
<1> DEFINE It(t) == CHOOSE f : IsIter(g, f, t)
           Rest(t) == t \ {Pick(t)}
           F == [t \in SUBSET s |-> IF t = {} THEN 0 ELSE g[Pick(t)] + It(Rest(t))[Rest(t)]]
<1>4. ASSUME NEW t \in SUBSET s, t # s PROVE IsFiniteSet(t) /\ IsIter(g, It(t), t)
  <2>1. PICK x \in s : x \notin t
    BY <1>4
  <2>2. PICK f : IsIter(g, f, s \ {x})
    BY <1>3, <2>1
  <2>3. IsIter(g, [u \in SUBSET t |-> f[u]], t)
    <3>1. \A u \in SUBSET t : u \in SUBSET (s \ {x})
      BY <1>4, <2>1
    <3>2. \A u \in SUBSET t : f[u] = IF u = {} THEN 0 ELSE g[Pick(u)] + f[u \ {Pick(u)}]
      BY <2>2, <3>1, IterAt
    <3>3. \A u \in SUBSET t : u \ {Pick(u)} \in SUBSET t
      OBVIOUS
    <3> QED
      BY <3>2, <3>3 DEF IsIter
  <2>4. \E f1 : IsIter(g, f1, t)
    BY <2>3
  <2> QED
    BY <1>3, <1>4, <2>4, FS_Subset
<1>5. ASSUME NEW t \in SUBSET s, t # {} PROVE F[Rest(t)] = It(Rest(t))[Rest(t)]
  <2>1. Rest(t) \in SUBSET s /\ Rest(t) # s
    BY <1>5, Picked
  <2>2. PICK u : u = Rest(t)
    OBVIOUS
  <2>3. IsIter(g, It(u), u) /\ u \in SUBSET s /\ IsFiniteSet(u)
    BY <1>4, <2>1, <2>2
  <2> HIDE DEF It
  <2>4. It(u)[u] = IF u = {} THEN 0 ELSE g[Pick(u)] + It(u)[Rest(u)]
    BY <2>3, IterAt
  <2>5. F[u] = IF u = {} THEN 0 ELSE g[Pick(u)] + It(Rest(u))[Rest(u)]
    BY <2>3
  <2>6. ASSUME u # {} PROVE It(u)[Rest(u)] = It(Rest(u))[Rest(u)]
    <3>1. Rest(u) \in SUBSET s /\ Rest(u) # s
      BY <2>3, <2>6, Picked
    <3>2. IsIter(g, It(Rest(u)), Rest(u))
      BY <1>4, <3>1
    <3>3. Rest(u) \in SUBSET u /\ Rest(u) \in SUBSET Rest(u)
      OBVIOUS
    <3> HIDE DEF Rest
    <3> QED
      BY <2>3, <3>2, <3>3, ItersAgree
  <2> QED
    BY <2>2, <2>4, <2>5, <2>6
<1>6. IsIter(g, F, s)
  <2> HIDE DEF It
  <2>1. F = [t \in SUBSET s |-> IF t = {} THEN 0 ELSE g[Pick(t)] + F[Rest(t)]]
    BY <1>5
  <2> QED
    BY <2>1, Zenon DEF IsIter
<1> QED
  BY <1>6

LEMMA TotalIsIter ==
  ASSUME NEW S, IsFiniteSet(S), NEW g
  PROVE  \E f : IsIter(g, f, S) /\ Total(g, S) = f[S]
BY IterExists, TotalIs

LEMMA TotalOfNone ==
  ASSUME NEW g
  PROVE  Total(g, {}) = 0
<1>1. PICK f : IsIter(g, f, {}) /\ Total(g, {}) = f[{}]
  BY FS_EmptySet, TotalIsIter
<1>2. {} \in SUBSET {}
  OBVIOUS
<1> QED
  BY <1>1, <1>2, IterAt

LEMMA TotalStep ==
  ASSUME NEW S, IsFiniteSet(S), S # {}, NEW g
  PROVE  Total(g, S) = g[Pick(S)] + Total(g, S \ {Pick(S)})
<1>1. PICK f : IsIter(g, f, S) /\ Total(g, S) = f[S]
  BY TotalIsIter
<1>2. PICK R : R = S \ {Pick(S)}
  OBVIOUS
<1>3. IsFiniteSet(R) /\ R \in SUBSET S /\ R \in SUBSET R /\ S \in SUBSET S
  BY <1>2, FS_Subset
<1>4. PICK h : IsIter(g, h, R) /\ Total(g, R) = h[R]
  BY <1>3, TotalIsIter
<1>5. f[R] = h[R]
  BY <1>1, <1>3, <1>4, ItersAgree
<1>6. f[S] = g[Pick(S)] + f[R]
  BY <1>1, <1>2, <1>3, IterAt
<1> QED
  BY <1>1, <1>2, <1>4, <1>5, <1>6

LEMMA TotalIsNat ==
  ASSUME NEW S, IsFiniteSet(S), NEW g, \A x \in S : g[x] \in Nat
  PROVE  Total(g, S) \in Nat
<1> DEFINE Bad == {s \in SUBSET S : Total(g, s) \notin Nat}
<1>1. SUFFICES ASSUME Bad # {} PROVE FALSE
  OBVIOUS
<1>2. Bad \subseteq SUBSET S
  OBVIOUS
<1>3. PICK s \in Bad : IsFiniteSet(s) /\ \A x \in s : s \ {x} \notin Bad
  BY <1>1, <1>2, SmallestSet
<1>4. s # {}
  BY TotalOfNone
<1>5. Pick(s) \in s /\ g[Pick(s)] \in Nat
  BY <1>4, Picked
<1>6. Total(g, s \ {Pick(s)}) \in Nat
  BY <1>3, <1>5
<1>7. Total(g, s) = g[Pick(s)] + Total(g, s \ {Pick(s)})
  BY <1>3, <1>4, TotalStep
<1> QED
  BY <1>5, <1>6, <1>7

(* A sum is the same whichever element is taken out first. *)
LEMMA TotalWithout ==
  ASSUME NEW S, IsFiniteSet(S), NEW g, \A x \in S : g[x] \in Nat, NEW a \in S
  PROVE  Total(g, S) = g[a] + Total(g, S \ {a})
<1> DEFINE Bad == {s \in SUBSET S : \E x \in s : Total(g, s) # g[x] + Total(g, s \ {x})}
<1>1. SUFFICES ASSUME Bad # {} PROVE FALSE
  OBVIOUS
<1>2. Bad \subseteq SUBSET S
  OBVIOUS
<1>3. PICK s \in Bad : IsFiniteSet(s) /\ \A x \in s : s \ {x} \notin Bad
  BY <1>1, <1>2, SmallestSet
<1>4. PICK x \in s : Total(g, s) # g[x] + Total(g, s \ {x})
  OBVIOUS
<1>5. PICK y \in s : y = Pick(s)
  BY <1>4, Picked
<1>6. Total(g, s) = g[y] + Total(g, s \ {y})
  BY <1>3, <1>4, <1>5, TotalStep
<1>7. x # y
  BY <1>4, <1>6
<1>8. Total(g, s \ {y}) = g[x] + Total(g, (s \ {y}) \ {x})
  BY <1>3, <1>7
<1>9. Total(g, s \ {x}) = g[y] + Total(g, (s \ {x}) \ {y})
  BY <1>3, <1>7
<1>10. PICK R : R = (s \ {y}) \ {x} /\ R = (s \ {x}) \ {y}
  OBVIOUS
<1>11. IsFiniteSet(R) /\ \A z \in R : g[z] \in Nat
  BY <1>3, <1>10, FS_Subset
<1>12. Total(g, R) \in Nat
  BY <1>11, TotalIsNat
<1>13. g[x] \in Nat /\ g[y] \in Nat
  OBVIOUS
<1> QED
  BY <1>4, <1>6, <1>8, <1>9, <1>10, <1>12, <1>13

(* What is nothing adds nothing. *)
LEMMA TotalOfPositive ==
  ASSUME NEW S, IsFiniteSet(S), NEW g, \A x \in S : g[x] \in Nat
  PROVE  Total(g, {x \in S : g[x] > 0}) = Total(g, S)
<1> DEFINE Some(s) == {x \in s : g[x] > 0}
           Bad == {s \in SUBSET S : Total(g, Some(s)) # Total(g, s)}
<1>1. SUFFICES ASSUME Bad # {} PROVE FALSE
  OBVIOUS
<1>2. Bad \subseteq SUBSET S
  OBVIOUS
<1>3. PICK s \in Bad : IsFiniteSet(s) /\ \A x \in s : s \ {x} \notin Bad
  BY <1>1, <1>2, SmallestSet
<1>4. s \in SUBSET S /\ Total(g, Some(s)) # Total(g, s)
  OBVIOUS
<1>5. s # {}
  <2>1. Some({}) = {}
    OBVIOUS
  <2> QED
    BY <1>4, <2>1
<1>6. PICK x \in s : TRUE
  BY <1>5
<1>7. Total(g, s) = g[x] + Total(g, s \ {x})
  BY <1>3, <1>4, TotalWithout
<1>8. Total(g, Some(s \ {x})) = Total(g, s \ {x})
  BY <1>3, <1>4
<1>9. g[x] \in Nat /\ IsFiniteSet(Some(s)) /\ IsFiniteSet(s \ {x})
      /\ (\A y \in Some(s) : g[y] \in Nat) /\ (\A y \in s \ {x} : g[y] \in Nat)
  BY <1>3, <1>4, FS_Subset
<1>10. Total(g, s \ {x}) \in Nat
  BY <1>9, TotalIsNat
<1>11. CASE g[x] > 0
  <2>1. x \in Some(s) /\ Some(s) \ {x} = Some(s \ {x})
    BY <1>11
  <2> HIDE DEF Some
  <2>2. Total(g, Some(s)) = g[x] + Total(g, Some(s) \ {x})
    BY <1>9, <2>1, TotalWithout
  <2> QED
    BY <1>4, <1>7, <1>8, <2>1, <2>2
<1>12. CASE g[x] = 0
  <2>1. Some(s) = Some(s \ {x})
    BY <1>12
  <2> HIDE DEF Some
  <2> QED
    BY <1>4, <1>7, <1>8, <1>10, <1>12, <2>1
<1> QED
  BY <1>9, <1>11, <1>12

(* A share of an amount is rounded down, by less than one unit. *)
LEMMA RoundedDown ==
  ASSUME NEW n \in Nat, NEW p \in Nat
  PROVE  LET r == (n * p) \div 100
         IN  r \in Nat /\ 100 * r <= n * p /\ n * p <= 100 * r + 99
<1>1. PICK m \in Nat : m = n * p
  OBVIOUS
<1>2. LET r == m \div 100 IN r \in Nat /\ 100 * r <= m /\ m <= 100 * r + 99
  OBVIOUS
<1> QED
  BY <1>1, <1>2

LEMMA Spread ==
  ASSUME NEW n \in Nat, NEW p \in Nat, NEW q \in Nat
  PROVE  n * (p + q) = n * p + n * q /\ n * p \in Nat /\ n * q \in Nat
OBVIOUS

LEMMA TotalOfShares ==
  ASSUME NEW S, IsFiniteSet(S), NEW n \in Nat, NEW g, \A x \in S : g[x] \in Nat,
         NEW h, \A x \in S : h[x] = (n * g[x]) \div 100
  PROVE  /\ 100 * Total(h, S) <= n * Total(g, S)
         /\ n * Total(g, S) <= 100 * Total(h, S) + 99 * Cardinality(S)
<1> DEFINE Good(s) == /\ 100 * Total(h, s) <= n * Total(g, s)
                      /\ n * Total(g, s) <= 100 * Total(h, s) + 99 * Cardinality(s)
           Bad == {s \in SUBSET S : ~Good(s)}
<1>1. SUFFICES ASSUME Bad # {} PROVE FALSE
  OBVIOUS
<1>2. Bad \subseteq SUBSET S
  OBVIOUS
<1>3. PICK s \in Bad : IsFiniteSet(s) /\ \A x \in s : s \ {x} \notin Bad
  BY <1>1, <1>2, SmallestSet
<1>4. s \in SUBSET S /\ ~Good(s)
  OBVIOUS
<1>5. s # {}
  <2>1. Total(g, {}) = 0 /\ Total(h, {}) = 0 /\ Cardinality({}) = 0
    BY TotalOfNone, FS_EmptySet
  <2>2. Good({})
    BY <2>1
  <2> QED
    BY <1>4, <2>2
<1>6. PICK x \in s : TRUE
  BY <1>5
<1>7. \A y \in s : g[y] \in Nat /\ h[y] \in Nat
  BY <1>4, RoundedDown
<1>8. PICK R : R = s \ {x}
  OBVIOUS
<1>9. IsFiniteSet(R) /\ (\A y \in R : g[y] \in Nat) /\ (\A y \in R : h[y] \in Nat)
  BY <1>3, <1>7, <1>8, FS_Subset
<1>10. Total(g, R) \in Nat /\ Total(h, R) \in Nat /\ Cardinality(R) \in Nat
  BY <1>9, TotalIsNat, FS_CardinalityType
<1>11. Good(R)
  BY <1>3, <1>4, <1>8
<1>12. Cardinality(s) = Cardinality(R) + 1
  <2>1. Cardinality(R) = Cardinality(s) - 1 /\ Cardinality(s) \in Nat
    BY <1>3, <1>6, <1>8, FS_RemoveElement, FS_CardinalityType
  <2> QED
    BY <2>1
<1>13. Total(g, s) = g[x] + Total(g, R) /\ Total(h, s) = h[x] + Total(h, R)
  BY <1>3, <1>7, <1>8, TotalWithout
<1>14. g[x] \in Nat /\ h[x] \in Nat /\ 100 * h[x] <= n * g[x] /\ n * g[x] <= 100 * h[x] + 99
  BY <1>4, <1>7, RoundedDown
<1>15. n * Total(g, s) = n * g[x] + n * Total(g, R) /\ n * g[x] \in Nat /\ n * Total(g, R) \in Nat
  BY <1>10, <1>13, <1>14, Spread
<1>16. PICK p, q : p = n * g[x] /\ q = n * Total(g, R)
  OBVIOUS
<1>17. /\ p \in Nat /\ q \in Nat /\ n * Total(g, s) = p + q
       /\ 100 * h[x] <= p /\ p <= 100 * h[x] + 99
       /\ 100 * Total(h, R) <= q /\ q <= 100 * Total(h, R) + 99 * Cardinality(R)
  BY <1>11, <1>14, <1>15, <1>16
<1>18. Good(s)
  BY <1>10, <1>12, <1>13, <1>14, <1>17
<1> QED
  BY <1>4, <1>18

-----------------------------------------------------------------------------
(* A form and its pricings *)

USE WebAssumption DEF WebAssumption

Pages == {"trade", "basket", "vault", "sign"}

IsLines(shares) ==
  /\ DOMAIN shares \subseteq Assets /\ \A a \in DOMAIN shares : shares[a] \in 0..100
  /\ IsFiniteSet(DOMAIN shares) /\ Cardinality(DOMAIN shares) <= MaxLegs

LinesOK == IsLines(lines)

IsRun(run) ==
  /\ run = [legs |-> run.legs, live |-> run.live]
  /\ run.live \in BOOLEAN
  /\ DOMAIN run.legs \subseteq Assets

(* A pricing that will be shown is of what is on the form. *)
RunOK(run) ==
  /\ IsRun(run)
  /\ run.live => OnForm /\ ~debounce /\ run.legs = Legs /\ Legs # Nothing /\ Balanced

FormInv ==
  /\ page \in Pages /\ LinesOK
  /\ amount \in Amounts \cup {NoAmount}
  /\ quoting \in BOOLEAN /\ debounce \in BOOLEAN /\ error \in BOOLEAN
  /\ debounce => OnForm
  /\ \A run \in runs : RunOK(run)
  /\ QuotesSettle

LEMMA FormTypes ==
  ASSUME FormInv, sending \in BOOLEAN
  PROVE  FormTypeOK
BY DEF FormInv, FormTypeOK, Pages, LinesOK, IsLines, RunOK, IsRun

LEMMA AtMostOne ==
  ASSUME NEW S, S = {} \/ \E x : S = {x}
  PROVE  Cardinality(S) <= 1
<1>1. CASE S = {}
  <2>1. Cardinality(S) = 0
    BY <1>1, FS_EmptySet
  <2> QED
    BY <2>1
<1>2. ASSUME NEW x, S = {x} PROVE Cardinality(S) <= 1
  <2>1. Cardinality({x}) = 1
    BY FS_Singleton
  <2> QED
    BY <1>2, <2>1
<1> QED
  BY <1>1, <1>2

LEMMA OneIsLive ==
  ASSUME FormInv
  PROVE  OnePricing
<1> DEFINE live == {run \in runs : run.live}
<1>1. live \subseteq {[legs |-> Legs, live |-> TRUE]}
  BY DEF FormInv, RunOK, IsRun
<1>2. live = {} \/ \E run : live = {run}
  BY <1>1
<1>3. Cardinality(live) <= 1
  BY <1>2, AtMostOne
<1>4. debounce => live = {}
  BY DEF FormInv, RunOK
<1> QED
  BY <1>3, <1>4 DEF OnePricing

LEMMA LegsOfAssets ==
  ASSUME LinesOK
  PROVE  DOMAIN Legs \subseteq Assets
BY DEF LinesOK, IsLines, Legs, Nothing

LEMMA WholeLineOK ==
  ASSUME NEW a \in Assets
  PROVE  IsLines(WholeLine(a))
<1>1. DOMAIN WholeLine(a) = {a} /\ WholeLine(a)[a] = 100
  BY DEF WholeLine
<1>2. IsFiniteSet({a}) /\ Cardinality({a}) = 1
  BY FS_Singleton
<1> QED
  BY <1>1, <1>2, OrderFormAssumption DEF OrderFormAssumption, IsLines

LEMMA PresetOK ==
  ASSUME NEW p \in Presets
  PROVE  IsLines(p)
BY OrderFormAssumption DEF OrderFormAssumption, IsLines

(* A form that was just drawn. *)
LEMMA FirstLinesOK ==
  ASSUME NEW p
  PROVE  IsLines(InitialLines(p))
BY WholeLineOK, PresetOK, OrderFormAssumption DEF OrderFormAssumption, InitialLines

LEMMA FreshInv ==
  ASSUME NEW p \in Pages, page' = p, Fresh(p)
  PROVE  FormInv'
<1>1. LinesOK'
  BY FirstLinesOK DEF Fresh, LinesOK
<1>2. amount' \in Amounts \cup {NoAmount}
  BY OrderFormAssumption DEF OrderFormAssumption, Fresh
<1>3. quoting' = FALSE /\ error' = FALSE /\ runs' = {}
  BY DEF Fresh
<1>4. debounce' = (p \in {"trade", "basket"})
  BY DEF Fresh
<1>5. QuotesSettle'
  BY <1>4 DEF QuotesSettle, OnForm
<1>6. quoting' \in BOOLEAN /\ error' \in BOOLEAN
  BY <1>3
<1>7. debounce' \in BOOLEAN
  BY <1>4
<1>8. debounce' => OnForm'
  BY <1>4 DEF OnForm
<1> QED
  BY <1>1, <1>2, <1>3, <1>5, <1>6, <1>7, <1>8 DEF FormInv

(* Every edit. *)
LEMMA EditInv ==
  ASSUME FormInv, NEW newLines, NEW newAmount \in Amounts \cup {NoAmount},
         IsLines(newLines),
         Edit(newLines, newAmount)
  PROVE  FormInv'
<1>1. LinesOK' /\ amount' \in Amounts \cup {NoAmount} /\ debounce' = TRUE
      /\ UNCHANGED <<page, quotes, quoting, error>>
      /\ runs' = {[run EXCEPT !.live = FALSE] : run \in runs}
  BY DEF Edit, LinesOK
<1>2. ASSUME NEW run \in runs' PROVE RunOK(run)'
  <2>1. PICK old \in runs : run = [old EXCEPT !.live = FALSE]
    BY <1>1
  <2>2. old = [legs |-> old.legs, live |-> old.live] /\ DOMAIN old.legs \subseteq Assets
    BY DEF FormInv, RunOK, IsRun
  <2>3. run = [legs |-> old.legs, live |-> FALSE]
    BY <2>1, <2>2
  <2> QED
    BY <2>2, <2>3 DEF RunOK, IsRun
<1>3. QuotesSettle'
  BY <1>1 DEF QuotesSettle
<1>4. debounce' \in BOOLEAN
  BY <1>1
<1>5. OnForm'
  BY <1>1 DEF Edit, OnForm
<1> QED
  BY <1>1, <1>2, <1>3, <1>4, <1>5 DEF FormInv

LEMMA FormEditInv ==
  ASSUME FormInv, FormEdit
  PROVE  FormInv'
<1> USE OrderFormAssumption DEF OrderFormAssumption
<1>0. LinesOK /\ amount \in Amounts \cup {NoAmount}
  BY DEF FormInv
<1>1. ASSUME NEW n \in Amounts \cup {NoAmount}, TypeAmount(n) PROVE FormInv'
  BY <1>0, <1>1, EditInv DEF TypeAmount, LinesOK
<1>2. ASSUME NEW a \in Assets, ChooseAsset(a) PROVE FormInv'
  BY <1>0, <1>2, WholeLineOK, EditInv DEF ChooseAsset
<1>3. ASSUME NEW a \in Assets, NEW p \in Percents, SetPercent(a, p) PROVE FormInv'
  <2> DEFINE changed == [lines EXCEPT ![a] = p]
  <2>1. DOMAIN changed = DOMAIN lines
    OBVIOUS
  <2>2. \A b \in DOMAIN lines : changed[b] \in 0..100
    BY <1>0 DEF LinesOK, IsLines
  <2>3. IsLines(changed)
    <3> HIDE DEF changed
    <3> QED
      BY <1>0, <2>1, <2>2 DEF LinesOK, IsLines
  <2> QED
    BY <1>0, <1>3, <2>3, EditInv DEF SetPercent
<1>4. ASSUME NEW p \in Presets, ChoosePreset(p) PROVE FormInv'
  BY <1>0, <1>4, PresetOK, EditInv DEF ChoosePreset
<1>5. ASSUME AddLine PROVE FormInv'
  <2> DEFINE more(a) == [b \in DOMAIN lines \cup {a} |-> IF b = a THEN 0 ELSE lines[b]]
  <2>1. PICK a \in Assets \ DOMAIN lines : Edit(more(a), amount)
    BY <1>5 DEF AddLine
  <2>2. DOMAIN more(a) = DOMAIN lines \cup {a}
    OBVIOUS
  <2>3. \A b \in DOMAIN more(a) : more(a)[b] \in 0..100
    BY <1>0 DEF LinesOK, IsLines
  <2>4. /\ IsFiniteSet(DOMAIN lines \cup {a})
        /\ Cardinality(DOMAIN lines \cup {a}) = Cardinality(DOMAIN lines) + 1
    BY <1>0, <2>1, FS_AddElement DEF LinesOK, IsLines
  <2>5. Cardinality(DOMAIN lines) \in Nat /\ Cardinality(DOMAIN lines) < MaxLegs
    BY <1>0, <1>5, FS_CardinalityType DEF LinesOK, IsLines, AddLine
  <2> HIDE DEF more
  <2>6. IsLines(more(a))
    BY <1>0, <2>1, <2>2, <2>3, <2>4, <2>5 DEF LinesOK, IsLines
  <2> QED
    BY <1>0, <2>1, <2>6, EditInv
<1> QED
  BY <1>1, <1>2, <1>3, <1>4, <1>5 DEF FormEdit

-----------------------------------------------------------------------------
(* Pricing and sending *)

LEMMA RepriceInv ==
  ASSUME FormInv, Reprice
  PROVE  FormInv'
<1>1. UNCHANGED <<page, lines, amount, error>> /\ debounce' = FALSE
  BY DEF Reprice
<1>2. Legs' = Legs /\ Balanced' = Balanced /\ OnForm' = OnForm
  BY <1>1 DEF Legs, Balanced, OnForm, Nothing
<1>3. LinesOK' /\ debounce' \in BOOLEAN
  BY <1>1 DEF FormInv, LinesOK
<1>4. \A run \in runs : IsRun(run) /\ ~run.live
  BY DEF FormInv, RunOK, Reprice
<1>5. CASE NothingToPrice
  <2>1. quotes' = Nothing /\ UNCHANGED <<quoting, runs>>
    BY <1>5 DEF Reprice
  <2>2. NothingToPrice'
    BY <1>2, <1>5 DEF NothingToPrice, Nothing
  <2>3. QuotesSettle'
    BY <2>1, <2>2 DEF QuotesSettle, Nothing
  <2> QED
    BY <1>1, <1>3, <1>4, <2>1, <2>3 DEF FormInv, RunOK, IsRun
<1>6. CASE ~NothingToPrice
  <2>1. PICK new : new = [legs |-> Legs, live |-> TRUE]
    OBVIOUS
  <2>2. quoting' = TRUE /\ runs' = runs \cup {new} /\ UNCHANGED quotes
    BY <1>6, <2>1 DEF Reprice
  <2>3. IsRun(new) /\ new.live /\ new.legs = Legs
    BY <2>1, LegsOfAssets DEF IsRun, FormInv
  <2>4. OnForm /\ Balanced /\ Legs # Nothing
    BY <1>6 DEF FormInv, Reprice, NothingToPrice
  <2>5. ASSUME NEW run \in runs' PROVE RunOK(run)'
    <3>1. CASE run \in runs
      BY <1>4, <3>1 DEF RunOK, IsRun
    <3>2. CASE run = new
      BY <1>1, <1>2, <2>3, <2>4, <3>2 DEF RunOK, IsRun, Nothing
    <3> QED
      BY <2>2, <3>1, <3>2
  <2>6. QuotesSettle'
    BY <2>2, <2>3 DEF QuotesSettle
  <2>7. quoting' \in BOOLEAN
    BY <2>2
  <2> QED
    BY <1>1, <1>3, <2>5, <2>6, <2>7 DEF FormInv
<1> QED
  BY <1>5, <1>6

(* What leaves the form and its quotes alone. *)
LEMMA RunEnds ==
  ASSUME FormInv, NEW run \in runs, ~run.live, Drops(run)
  PROVE  FormInv'
<1>1. UNCHANGED <<page, lines, amount, quotes, quoting, debounce, error>> /\ runs' = runs \ {run}
  BY DEF Drops
<1>2. Legs' = Legs /\ Balanced' = Balanced /\ OnForm' = OnForm
  BY <1>1 DEF Legs, Balanced, OnForm, Nothing
<1>3. \A other \in runs' : RunOK(other)'
  BY <1>1, <1>2 DEF FormInv, RunOK, IsRun, Nothing
<1>4. (\A other \in runs' : ~other.live) => \A other \in runs : ~other.live
  BY <1>1
<1>5. QuotesSettle'
  BY <1>1, <1>2, <1>4 DEF FormInv, QuotesSettle, NothingToPrice, Nothing
<1> QED
  BY <1>1, <1>2, <1>3, <1>5 DEF FormInv, LinesOK

LEMMA RunShown ==
  ASSUME FormInv, NEW run \in runs, run.live, NEW legs, NEW failed1 \in BOOLEAN,
         Shows(run, legs, failed1), failed1 => legs = Nothing, ~failed1 => legs = run.legs
  PROVE  FormInv'
<1>1. /\ UNCHANGED <<page, lines, amount, debounce>> /\ runs' = runs \ {run}
      /\ quotes' = legs /\ quoting' = FALSE /\ error' = failed1
  BY DEF Shows
<1>2. Legs' = Legs /\ Balanced' = Balanced /\ OnForm' = OnForm
  BY <1>1 DEF Legs, Balanced, OnForm, Nothing
<1>3. \A other \in runs' : RunOK(other)'
  BY <1>1, <1>2 DEF FormInv, RunOK, IsRun, Nothing
<1>4. run.legs = Legs /\ Legs # Nothing /\ Balanced
  BY DEF FormInv, RunOK
<1>5. QuotesSettle'
  BY <1>1, <1>2, <1>4 DEF QuotesSettle, NothingToPrice, Nothing
<1>6. quoting' \in BOOLEAN /\ error' \in BOOLEAN
  BY <1>1
<1> QED
  BY <1>1, <1>2, <1>3, <1>5, <1>6 DEF FormInv, LinesOK

LEMMA PricingInv ==
  ASSUME FormInv, Pricing
  PROVE  FormInv'
<1>1. CASE Reprice
  BY <1>1, RepriceInv
<1>2. ASSUME NEW run \in runs, Priced(run) \/ NotPriced(run) PROVE FormInv'
  <2>1. CASE run.live
    BY <1>2, <2>1, RunShown DEF Priced, NotPriced
  <2>2. CASE ~run.live
    BY <1>2, <2>2, RunEnds DEF Priced, NotPriced
  <2> QED
    BY <2>1, <2>2
<1> QED
  BY <1>1, <1>2 DEF Pricing

(* Sending leaves the form as it is. *)
LEMMA ErrorOnlyInv ==
  ASSUME FormInv, UNCHANGED <<page, lines, amount, quotes, quoting, debounce, runs>>,
         error' \in BOOLEAN, error => error' \/ quotes # Nothing
  PROVE  FormInv'
<1>1. Legs' = Legs /\ Balanced' = Balanced /\ OnForm' = OnForm
  BY DEF Legs, Balanced, OnForm, Nothing
<1>2. \A run \in runs' : RunOK(run)'
  BY <1>1 DEF FormInv, RunOK, IsRun, Nothing
<1>3. QuotesSettle'
  BY <1>1 DEF FormInv, QuotesSettle, NothingToPrice, Nothing
<1> QED
  BY <1>1, <1>2, <1>3 DEF FormInv, LinesOK

LEMMA FormKept ==
  ASSUME FormInv, UNCHANGED <<page, form>>
  PROVE  FormInv'
<1>1. error' \in BOOLEAN /\ (error => error')
  BY DEF FormInv, form
<1> QED
  BY <1>1, ErrorOnlyInv DEF form

(* The orders asked for, of which the page that is shown waits for one at   *)
(* most.                                                                    *)
NearTotal(legs, total) ==
  /\ Total(legs, DOMAIN legs) <= total
  /\ total - Total(legs, DOMAIN legs) < Cardinality(DOMAIN legs)
  /\ Cardinality(DOMAIN legs) <= MaxLegs

IsOrder(order) ==
  /\ order = [legs |-> order.legs, total |-> order.total, here |-> order.here]
  /\ order.here \in BOOLEAN
  /\ NearTotal(order.legs, order.total)

OrdersInv ==
  /\ sending \in BOOLEAN
  /\ \A order \in orders : IsOrder(order)
  /\ sending <=> \E order \in orders : order.here
  /\ \A order, other \in orders : order.here /\ other.here => order = other

LEMMA OneIsHere ==
  ASSUME OrdersInv
  PROVE  OneOrderAForm
<1> DEFINE here == {order \in orders : order.here}
<1>1. here = {} \/ \E order : here = {order}
  BY DEF OrdersInv
<1>2. Cardinality(here) <= 1
  BY <1>1, AtMostOne
<1>3. sending <=> here # {}
  BY DEF OrdersInv
<1> QED
  BY <1>2, <1>3 DEF OneOrderAForm

LEMMA OrdersNearTotal ==
  ASSUME OrdersInv
  PROVE  SpendsNearTheTotal
<1>1. \A order \in orders : NearTotal(order.legs, order.total)
  BY DEF OrdersInv, IsOrder
<1>2. \A order : Spent(order) = Total(order.legs, DOMAIN order.legs)
  BY Zenon DEF Spent, Total
<1> QED
  BY <1>1, <1>2 DEF SpendsNearTheTotal, NearTotal

(* What the form asks for when its shares make a whole: the assets with no   *)
(* share are left out, and every other share is rounded down.               *)
LEMMA LegsNearTotal ==
  ASSUME FormInv, Balanced, Legs # Nothing
  PROVE  NearTotal(Legs, amount)
<1> DEFINE D == DOMAIN lines
           P == {b \in D : lines[b] > 0}
<1>1. Total(lines, D) = 100
  BY Zenon DEF Balanced, IsWhole, Total
<1>2. IsFiniteSet(D) /\ Cardinality(D) <= MaxLegs /\ \A a \in D : lines[a] \in Nat
  BY DEF FormInv, LinesOK, IsLines
<1>3. /\ IsFiniteSet(P) /\ Cardinality(P) <= Cardinality(D)
      /\ Cardinality(P) \in Nat /\ Cardinality(D) \in Nat
  BY <1>2, FS_Subset, FS_CardinalityType
<1>4. Total(lines, P) = 100
  BY <1>1, <1>2, TotalOfPositive
<1>5. amount \in Nat /\ Legs = [a \in P |-> (amount * lines[a]) \div 100]
  BY OrderFormAssumption DEF OrderFormAssumption, FormInv, Legs
<1>6. DOMAIN Legs = P /\ \A a \in P : Legs[a] = (amount * lines[a]) \div 100
  BY <1>5
<1>7. \A a \in P : lines[a] \in Nat /\ Legs[a] \in Nat
  BY <1>2, <1>5, <1>6, RoundedDown
<1> HIDE DEF P
<1>8. Total(Legs, P) \in Nat
  BY <1>3, <1>7, TotalIsNat
<1>9. /\ 100 * Total(Legs, P) <= amount * Total(lines, P)
      /\ amount * Total(lines, P) <= 100 * Total(Legs, P) + 99 * Cardinality(P)
  BY <1>3, <1>5, <1>6, <1>7, TotalOfShares
<1>10. P # {}
  BY <1>4, TotalOfNone
<1>11. Cardinality(P) > 0
  BY <1>3, <1>10, FS_EmptySet
<1>12. /\ 100 * Total(Legs, P) <= 100 * amount
       /\ 100 * amount <= 100 * Total(Legs, P) + 99 * Cardinality(P)
  BY <1>4, <1>5, <1>9
<1>13. Total(Legs, P) <= amount /\ amount - Total(Legs, P) < Cardinality(P)
  BY <1>3, <1>5, <1>8, <1>11, <1>12
<1>14. Cardinality(P) <= MaxLegs
  BY <1>2, <1>3, OrderFormAssumption DEF OrderFormAssumption
<1> QED
  BY <1>6, <1>13, <1>14 DEF NearTotal

LEMMA OrdersKept ==
  ASSUME OrdersInv, UNCHANGED <<sending, orders>>
  PROVE  OrdersInv'
BY DEF OrdersInv, IsOrder

LEMMA SendInv ==
  ASSUME FormInv, OrdersInv, Send
  PROVE  FormInv' /\ OrdersInv'
<1>1. PICK new : new = [legs |-> Legs, total |-> amount, here |-> TRUE]
  OBVIOUS
<1>2. /\ sending' = TRUE /\ error' = FALSE /\ orders' = orders \cup {new}
      /\ quotes # Nothing /\ ~sending
      /\ UNCHANGED <<page, lines, amount, quotes, quoting, debounce, runs>>
  BY <1>1 DEF Send
<1>3. error' \in BOOLEAN /\ sending' \in BOOLEAN
  BY <1>2
<1>4. FormInv'
  BY <1>2, <1>3, ErrorOnlyInv
<1>5. IsOrder(new) /\ new.here
  <2>1. NearTotal(Legs, amount)
    BY LegsNearTotal DEF Send
  <2>2. new.legs = Legs /\ new.total = amount /\ new.here = TRUE
    BY <1>1
  <2> QED
    BY <1>1, <2>1, <2>2 DEF IsOrder
<1>6. \A order \in orders : IsOrder(order) /\ ~order.here
  BY <1>2 DEF OrdersInv
<1>7. OrdersInv'
  BY <1>2, <1>3, <1>5, <1>6 DEF OrdersInv, IsOrder
<1> QED
  BY <1>4, <1>7

LEMMA OrderRefusedInv ==
  ASSUME FormInv, OrdersInv, NEW order \in orders, OrderRefused(order)
  PROVE  FormInv' /\ OrdersInv'
<1>1. /\ orders' = orders \ {order}
      /\ UNCHANGED <<page, lines, amount, quotes, quoting, debounce, runs>>
  BY DEF OrderRefused
<1>2. CASE order.here
  <2>1. sending' = FALSE /\ error' = TRUE
    BY <1>2 DEF OrderRefused
  <2>2. error' \in BOOLEAN /\ sending' \in BOOLEAN
    BY <2>1
  <2>3. FormInv'
    BY <1>1, <2>1, <2>2, ErrorOnlyInv
  <2>4. \A other \in orders' : ~other.here
    BY <1>1, <1>2 DEF OrdersInv
  <2> QED
    BY <1>1, <2>1, <2>2, <2>3, <2>4 DEF OrdersInv, IsOrder
<1>3. CASE ~order.here
  <2>1. UNCHANGED <<sending, error>>
    BY <1>3 DEF OrderRefused
  <2>2. FormInv'
    BY <1>1, <2>1, FormKept DEF form
  <2>3. OrdersInv'
    BY <1>1, <1>3, <2>1 DEF OrdersInv, IsOrder
  <2> QED
    BY <2>2, <2>3
<1> QED
  BY <1>2, <1>3

LEMMA LeftInv ==
  ASSUME OrdersInv, NEW some, some \subseteq orders, orders' = LeftBehind(some), sending' = FALSE
  PROVE  OrdersInv'
<1>1. ASSUME NEW order \in orders' PROVE IsOrder(order) /\ ~order.here
  <2>1. PICK old \in orders : order = [old EXCEPT !.here = FALSE]
    BY DEF LeftBehind
  <2>2. /\ old = [legs |-> old.legs, total |-> old.total, here |-> old.here]
        /\ NearTotal(old.legs, old.total)
    BY <2>1 DEF OrdersInv, IsOrder
  <2>3. order = [legs |-> old.legs, total |-> old.total, here |-> FALSE]
    BY <2>1, <2>2
  <2> QED
    BY <2>2, <2>3 DEF IsOrder
<1>2. sending' \in BOOLEAN
  OBVIOUS
<1> QED
  BY <1>1, <1>2 DEF OrdersInv, IsOrder

-----------------------------------------------------------------------------
(* The address and what is read of it *)

(* A reading that will be shown is of the address there is. *)
IsRead(r) ==
  /\ r = [vault |-> r.vault, live |-> r.live]
  /\ r.vault \in Addresses /\ r.live \in BOOLEAN
  /\ r.live => r.vault = vault

Holding == [vault : Addresses, of : Addresses]

HoldingsSettle ==
  page = "vault" /\ IsValid /\ (\A r \in reads : ~r.live) =>
    failed \/ (holdings # None /\ holdings.of = vault)

WalletInv ==
  /\ vault \in Addresses \cup {None}
  /\ \A r \in reads : IsRead(r)
  /\ holdings # None => holdings \in Holding /\ holdings.of = holdings.vault
  /\ failed \in BOOLEAN
  /\ HoldingsSettle

LEMMA WalletKept ==
  ASSUME WalletInv, UNCHANGED <<page, vault, wallet>>
  PROVE  WalletInv'
BY DEF WalletInv, wallet, IsRead, HoldingsSettle, IsValid

LEMMA ReadingIs ==
  ASSUME NEW p, NEW address, NEW r \in Reading(p, address)
  PROVE  r = [vault |-> address, live |-> TRUE] /\ address \in Addresses
BY DEF Reading

LEMMA ReadAnswersInv ==
  ASSUME WalletInv, NEW r \in reads, ReadAnswers(r)
  PROVE  WalletInv'
<1>1. UNCHANGED <<page, vault>> /\ reads' = reads \ {r} /\ IsRead(r)
  BY DEF ReadAnswers, WalletInv
<1>2. \A other \in reads' : IsRead(other)'
  BY <1>1 DEF WalletInv, IsRead
<1>3. CASE r.live
  <2>1. holdings' = [vault |-> r.vault, of |-> r.vault] /\ failed' = FALSE
    BY <1>3 DEF ReadAnswers
  <2>2. failed' \in BOOLEAN
    BY <2>1
  <2>3. holdings' \in Holding /\ holdings'.of = vault /\ holdings'.vault = vault
    BY <1>1, <1>3, <2>1 DEF IsRead, Holding
  <2>4. holdings' # None
    BY <2>3 DEF Holding
  <2>5. HoldingsSettle'
    BY <1>1, <2>3, <2>4 DEF HoldingsSettle
  <2> QED
    BY <1>1, <1>2, <2>2, <2>3, <2>5 DEF WalletInv
<1>4. CASE ~r.live
  <2>1. UNCHANGED <<holdings, failed>>
    BY <1>4 DEF ReadAnswers
  <2>2. HoldingsSettle'
    BY <1>1, <1>4, <2>1 DEF WalletInv, HoldingsSettle, IsValid
  <2> QED
    BY <1>1, <1>2, <2>1, <2>2 DEF WalletInv
<1> QED
  BY <1>3, <1>4

LEMMA ReadFailsInv ==
  ASSUME WalletInv, NEW r \in reads, ReadFails(r)
  PROVE  WalletInv'
<1>1. /\ UNCHANGED <<page, vault, holdings>> /\ reads' = reads \ {r} /\ IsRead(r)
      /\ failed' = (failed \/ (r.live /\ page = "vault"))
  BY DEF ReadFails, WalletInv
<1>2. \A other \in reads' : IsRead(other)'
  BY <1>1 DEF WalletInv, IsRead
<1>3. failed' \in BOOLEAN
  BY <1>1
<1>4. HoldingsSettle'
  <2>1. CASE r.live /\ page = "vault"
    BY <1>1, <2>1 DEF HoldingsSettle
  <2>2. CASE page # "vault"
    BY <1>1, <2>2 DEF HoldingsSettle
  <2>3. CASE ~r.live
    BY <1>1, <2>3 DEF WalletInv, HoldingsSettle, IsValid
  <2> QED
    BY <2>1, <2>2, <2>3
<1> QED
  BY <1>1, <1>2, <1>3, <1>4 DEF WalletInv

(* A change of address cancels every reading and starts one of the new. *)
LEMMA SetVaultInv ==
  ASSUME WalletInv, NEW address \in Addresses \cup {None}, SetVault(address)
  PROVE  WalletInv'
<1>1. vault' = address /\ UNCHANGED <<page, holdings, failed>>
  BY DEF SetVault
<1>2. CASE address = vault
  <2>1. UNCHANGED <<page, vault, wallet>>
    BY <1>1, <1>2 DEF SetVault, wallet
  <2> QED
    BY <2>1, WalletKept
<1>3. CASE address # vault
  <2>1. reads' = Cancelled \cup Reading(page, address)
    BY <1>3 DEF SetVault
  <2>2. ASSUME NEW r \in reads' PROVE IsRead(r)'
    <3>1. CASE r \in Cancelled
      <4>1. PICK old \in reads : r = [old EXCEPT !.live = FALSE]
        BY <3>1 DEF Cancelled
      <4>2. r = [vault |-> old.vault, live |-> FALSE] /\ old.vault \in Addresses
        <5>1. old = [vault |-> old.vault, live |-> old.live] /\ old.vault \in Addresses
          BY <4>1 DEF WalletInv, IsRead
        <5> QED
          BY <4>1, <5>1
      <4> QED
        BY <4>2 DEF IsRead
    <3>2. CASE r \in Reading(page, address)
      <4>1. r = [vault |-> address, live |-> TRUE] /\ address \in Addresses
        BY <3>2, ReadingIs
      <4> QED
        BY <1>1, <4>1 DEF IsRead
    <3> QED
      BY <2>1, <3>1, <3>2
  <2>3. HoldingsSettle'
    <3>1. SUFFICES ASSUME page = "vault", address \in Addresses
                   PROVE  \E r \in reads' : r.live
      BY <1>1 DEF HoldingsSettle, IsValid
    <3>2. [vault |-> address, live |-> TRUE] \in reads'
      BY <2>1, <3>1 DEF Reading
    <3> QED
      BY <3>2
  <2> QED
    BY <1>1, <2>2, <2>3 DEF WalletInv
<1> QED
  BY <1>2, <1>3

-----------------------------------------------------------------------------
(* The pages *)

CameraInv ==
  /\ scanner \in [status : {"idle", "scanning", "paired", "read", "error"},
                  prompts : 0..MaxPrompts, running : BOOLEAN]
  /\ stray \in BOOLEAN

IInv == FormInv /\ OrdersInv /\ WalletInv /\ CameraInv

LEMMA InitIInv ==
  ASSUME WebInit
  PROVE  IInv
<1>1. /\ page \in {"trade", "basket", "vault"}
      /\ lines = InitialLines(page) /\ quotes = Nothing /\ runs = {} /\ orders = {}
      /\ vault \in Addresses \cup {None} /\ reads = Reading(page, vault) /\ holdings = None
      /\ scanner = NoScanner
  BY DEF WebInit
<1>2. quoting = FALSE /\ sending = FALSE /\ error = FALSE /\ failed = FALSE /\ stray = FALSE
      /\ debounce = (page # "vault")
  BY DEF WebInit
<1>3. /\ quoting \in BOOLEAN /\ sending \in BOOLEAN /\ error \in BOOLEAN /\ failed \in BOOLEAN
      /\ stray \in BOOLEAN
  BY <1>2
<1>4. debounce \in BOOLEAN /\ (debounce <=> OnForm)
  BY <1>1, <1>2 DEF OnForm
<1>5. LinesOK /\ amount \in Amounts \cup {NoAmount}
  BY <1>1, FirstLinesOK, OrderFormAssumption DEF OrderFormAssumption, WebInit, LinesOK
<1>6. FormInv
  BY <1>1, <1>3, <1>4, <1>5 DEF FormInv, QuotesSettle, Pages
<1>7. OrdersInv
  BY <1>1, <1>2, <1>3 DEF OrdersInv
<1>8. ASSUME NEW r \in reads PROVE IsRead(r)
  <2>1. r = [vault |-> vault, live |-> TRUE] /\ vault \in Addresses
    BY <1>1, ReadingIs
  <2> QED
    BY <2>1 DEF IsRead
<1>9. HoldingsSettle
  BY <1>1 DEF HoldingsSettle, IsValid, Reading
<1>10. WalletInv
  BY <1>1, <1>3, <1>8, <1>9 DEF WalletInv
<1>11. CameraInv
  BY <1>1, <1>3 DEF CameraInv, NoScanner
<1> QED
  BY <1>6, <1>7, <1>10, <1>11 DEF IInv

(* A page that is shown starts anew; the address stays. *)
LEMMA MountInv ==
  ASSUME IInv, NEW p \in Pages, Mount(p),
         NEW some, some \subseteq orders, orders' = LeftBehind(some)
  PROVE  IInv'
<1>1. page' = p /\ Fresh(p) /\ reads' = Reading(p, vault) /\ holdings' = None
      /\ scanner' = NoScanner /\ UNCHANGED vault
  BY DEF Mount
<1>2. failed' = FALSE /\ stray' = (stray \/ scanner.running)
  BY DEF Mount
<1>3. failed' \in BOOLEAN /\ stray' \in BOOLEAN
  BY <1>2
<1>4. FormInv'
  BY <1>1, FreshInv
<1>5. OrdersInv'
  BY <1>1, LeftInv DEF IInv, Fresh
<1>6. ASSUME NEW r \in reads' PROVE IsRead(r)'
  <2>1. r = [vault |-> vault, live |-> TRUE] /\ vault \in Addresses
    BY <1>1, ReadingIs
  <2> QED
    BY <1>1, <2>1 DEF IsRead
<1>7. HoldingsSettle'
  BY <1>1 DEF HoldingsSettle, IsValid, Reading
<1>8. WalletInv'
  BY <1>1, <1>3, <1>6, <1>7 DEF IInv, WalletInv
<1>9. CameraInv'
  BY <1>1, <1>3 DEF CameraInv, NoScanner
<1> QED
  BY <1>4, <1>5, <1>8, <1>9 DEF IInv

(* The camera's own steps. *)
LEMMA UnpairedInv ==
  ASSUME CameraInv, Unpaired, scanner'.prompts <= MaxPrompts
  PROVE  CameraInv'
<1> DEFINE Status == {"idle", "scanning", "paired", "read", "error"}
<1>1. scanner \in [status : Status, prompts : 0..MaxPrompts, running : BOOLEAN]
  BY DEF CameraInv
<1>2. stray' = stray
  BY DEF Unpaired, Start, Granted, Denied, Stop, Named, Consumed
<1>3. ASSUME Start PROVE CameraInv'
  <2>1. scanner' = [scanner EXCEPT !.status = "scanning", !.prompts = scanner.prompts + 1]
    BY <1>3 DEF Start
  <2>2. scanner'.prompts = scanner.prompts + 1
    BY <1>1, <2>1
  <2>3. scanner.prompts + 1 \in 0..MaxPrompts
    BY <1>1, <2>2
  <2> QED
    BY <1>1, <1>2, <2>1, <2>3 DEF CameraInv
<1>4. ASSUME Granted PROVE CameraInv'
  <2>1. scanner' = [scanner EXCEPT !.prompts = scanner.prompts - 1, !.running = TRUE]
        /\ scanner.prompts > 0
    BY <1>4 DEF Granted
  <2>2. scanner.prompts - 1 \in 0..MaxPrompts
    BY <1>1, <2>1
  <2> QED
    BY <1>1, <1>2, <2>1, <2>2 DEF CameraInv
<1>5. ASSUME Denied PROVE CameraInv'
  <2>1. scanner' = [scanner EXCEPT !.prompts = scanner.prompts - 1, !.status = "error"]
        /\ scanner.prompts > 0
    BY <1>5 DEF Denied
  <2>2. scanner.prompts - 1 \in 0..MaxPrompts
    BY <1>1, <2>1
  <2> QED
    BY <1>1, <1>2, <2>1, <2>2 DEF CameraInv
<1>6. ASSUME NEW status \in Status,
             scanner' = [scanner EXCEPT !.status = status, !.running = FALSE]
      PROVE  CameraInv'
  BY <1>1, <1>2, <1>6 DEF CameraInv
<1> QED
  BY <1>3, <1>4, <1>5, <1>6 DEF Unpaired, Stop, Named, Consumed

LEMMA CameraKept ==
  ASSUME CameraInv, UNCHANGED camera
  PROVE  CameraInv'
BY DEF CameraInv, camera

(* A new address, typed, from another tab or scanned. *)
LEMMA AddressInv ==
  ASSUME IInv, NEW address \in Addresses \cup {None},
         Type(address) \/ OtherTab(address) \/ Paired(address) \/ PairedAfterwards(address)
  PROVE  IInv'
<1>1. SetVault(address)
  BY DEF Type, OtherTab, Paired, PairedAfterwards
<1>2. WalletInv'
  BY <1>1, SetVaultInv DEF IInv
<1>3. FormInv' /\ OrdersInv'
  BY <1>1, FormKept, OrdersKept DEF IInv, SetVault, form
<1>4. CameraInv'
  <2>1. CASE UNCHANGED camera
    BY <2>1, CameraKept DEF IInv
  <2>2. CASE Paired(address)
    <3>1. scanner' = [scanner EXCEPT !.status = "paired", !.running = FALSE] /\ UNCHANGED stray
      BY <2>2 DEF Paired, Consumed
    <3> QED
      BY <3>1 DEF IInv, CameraInv
  <2>3. CASE PairedAfterwards(address)
    <3>1. stray' = FALSE /\ UNCHANGED scanner
      BY <2>3 DEF PairedAfterwards
    <3>2. stray' \in BOOLEAN
      BY <3>1
    <3> QED
      BY <3>1, <3>2 DEF IInv, CameraInv
  <2> QED
    BY <2>1, <2>2, <2>3 DEF Type, OtherTab
<1> QED
  BY <1>2, <1>3, <1>4 DEF IInv

LEMMA NextIInv ==
  ASSUME IInv, [Next]_vars
  PROVE  IInv'
<1>1. CASE UNCHANGED vars
  <2>1. UNCHANGED <<page, form>> /\ UNCHANGED <<sending, orders>>
        /\ UNCHANGED <<page, vault, wallet>> /\ UNCHANGED camera
    BY <1>1 DEF vars, form
  <2> QED
    BY <2>1, FormKept, OrdersKept, WalletKept, CameraKept DEF IInv
<1>2. ASSUME FormEdit \/ Pricing \/ Send \/ (\E order \in orders : OrderRefused(order)),
             UNCHANGED <<vault, wallet, camera>>
      PROVE  IInv'
  <2>1. page' = page
    BY <1>2 DEF FormEdit, TypeAmount, ChooseAsset, SetPercent, ChoosePreset, AddLine, Edit,
       Pricing, Reprice, Priced, NotPriced, Shows, Drops, Send, OrderRefused
  <2>2. WalletInv' /\ CameraInv'
    BY <1>2, <2>1, WalletKept, CameraKept DEF IInv
  <2>3. CASE FormEdit
    <3>1. UNCHANGED <<sending, orders>>
      BY <2>3 DEF FormEdit, TypeAmount, ChooseAsset, SetPercent, ChoosePreset, AddLine, Edit
    <3> QED
      BY <2>2, <2>3, <3>1, FormEditInv, OrdersKept DEF IInv
  <2>4. CASE Pricing
    <3>1. UNCHANGED <<sending, orders>>
      BY <2>4 DEF Pricing, Reprice, Priced, NotPriced, Shows, Drops
    <3> QED
      BY <2>2, <2>4, <3>1, PricingInv, OrdersKept DEF IInv
  <2>5. CASE Send
    BY <2>2, <2>5, SendInv DEF IInv
  <2>6. CASE \E order \in orders : OrderRefused(order)
    BY <2>2, <2>6, OrderRefusedInv DEF IInv
  <2> QED
    BY <1>2, <2>3, <2>4, <2>5, <2>6
<1>3. ASSUME NEW order \in orders, OrderMade(order) PROVE IInv'
  <2>1. Mount("sign") /\ orders' = LeftBehind(orders \ {order})
    BY <1>3 DEF OrderMade
  <2> QED
    BY <2>1, MountInv DEF Pages
<1>4. ASSUME NEW p \in {"trade", "basket", "vault"}, Visit(p) PROVE IInv'
  <2>1. Mount(p) /\ orders' = LeftBehind(orders)
    BY <1>4 DEF Visit
  <2> QED
    BY <2>1, MountInv DEF Pages
<1>5. ASSUME NEW r \in reads, ReadAnswers(r) \/ ReadFails(r) PROVE IInv'
  <2>1. UNCHANGED <<page, form, orders, camera>>
    BY <1>5 DEF ReadAnswers, ReadFails
  <2>2. FormInv' /\ OrdersInv' /\ CameraInv'
    BY <2>1, FormKept, OrdersKept, CameraKept DEF IInv, form
  <2> QED
    BY <1>5, <2>2, ReadAnswersInv, ReadFailsInv DEF IInv
<1>6. ASSUME NEW address \in Addresses \cup {None},
             \/ Type(address) \/ OtherTab(address)
             \/ Paired(address) \/ PairedAfterwards(address)
      PROVE  IInv'
  BY <1>6, AddressInv
<1>7. ASSUME Unpaired, scanner'.prompts <= MaxPrompts,
             UNCHANGED <<page, form, orders, vault, wallet>>
      PROVE  IInv'
  <2>1. UNCHANGED <<page, form>> /\ UNCHANGED <<sending, orders>>
        /\ UNCHANGED <<page, vault, wallet>>
    BY <1>7 DEF form
  <2> QED
    BY <1>7, <2>1, FormKept, OrdersKept, WalletKept, UnpairedInv DEF IInv
<1> QED
  BY <1>1, <1>2, <1>3, <1>4, <1>5, <1>6, <1>7 DEF Next

LEMMA AlwaysIInv == Spec => []IInv
<1>1. WebInit => IInv
  BY InitIInv
<1>2. IInv /\ [Next]_vars => IInv'
  BY NextIInv
<1> QED
  BY <1>1, <1>2, PTL DEF Spec

(* Once the answers are in, the quotes are of what is on the form and the   *)
(* holdings of the address there is, for any number of edits, pricings,     *)
(* readings and changes of address on the way.                              *)
THEOREM Settles == Spec => []ScreenSettles
<1>1. IInv => ScreenSettles
  <2>1. ASSUME WalletInv, page = "vault", IsValid, \A r \in reads : ~r.live
        PROVE  failed \/ (Listed # None /\ Listed = vault)
    BY <2>1 DEF WalletInv, HoldingsSettle, Listed, IsValid
  <2> QED
    BY <2>1 DEF IInv, FormInv, ScreenSettles
<1> QED
  BY <1>1, AlwaysIInv, PTL

(* Every variable keeps its type; one pricing and one order a form; an order *)
(* spends its total but for less than a unit a leg, however many legs there  *)
(* are and whatever their shares; and the balance that "All of it" types is  *)
(* the paired vault's.                                                      *)
THEOREM OneOfEach == Spec => []Inv
<1>1. IInv => WebTypeOK
  BY FormTypes DEF IInv, OrdersInv, WalletInv, CameraInv, WebTypeOK, Holding
<1>2. IInv => OnePricing /\ OneOrderAForm /\ SpendsNearTheTotal
  BY OneIsLive, OneIsHere, OrdersNearTotal DEF IInv
<1>3. IInv => SpendableIsThisVaults
  BY DEF IInv, WalletInv, SpendableIsThisVaults, Spendable
<1>4. IInv => Inv
  BY <1>1, <1>2, <1>3 DEF Inv
<1> QED
  BY <1>4, AlwaysIInv, PTL
=============================================================================
