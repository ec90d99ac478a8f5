---------------------------- MODULE Review_proofs ----------------------------
(***************************************************************************)
(* Proofs about Review, for any orders delivered, any settings stored and   *)
(* any signers.                                                             *)
(***************************************************************************)
EXTENDS OrderReview, FiniteSetTheorems, SequenceTheorems, WellFoundedInduction, TLAPS

-----------------------------------------------------------------------------
(* Finite sets.  What holds of every one is shown by a least counterexample: *)
(* a smallest set for which it does not.                                    *)

Less == {pair \in Nat \X Nat : pair[1] < pair[2]}

LEMMA LessIsWellFounded == IsWellFoundedOn(Less, Nat)
BY NatLessThanWellFounded, Zenon DEF OpToRel, Less

LEMMA LeastNumber ==
  ASSUME NEW T, T \subseteq Nat, T # {}
  PROVE  \E n \in T : \A m \in T : n <= m
<1>1. PICK n \in T : \A m \in T : <<m, n>> \notin Less
  BY LessIsWellFounded, WFMin
<1>2. \A m \in T : ~(m < n)
  BY <1>1 DEF Less
<1> QED
  BY <1>2

LEMMA SmallestSet ==
  ASSUME NEW S, IsFiniteSet(S), NEW Bad, Bad \subseteq SUBSET S, Bad # {}
  PROVE  \E s \in Bad : /\ IsFiniteSet(s)
                        /\ \A x \in s : s \ {x} \notin Bad
<1> DEFINE sizes == {Cardinality(s) : s \in Bad}
<1>1. \A s \in Bad : IsFiniteSet(s) /\ Cardinality(s) \in Nat
  BY FS_Subset, FS_CardinalityType
<1>2. sizes \subseteq Nat /\ sizes # {}
  BY <1>1
<1>3. PICK n \in sizes : \A m \in sizes : n <= m
  BY <1>2, LeastNumber
<1>4. PICK s \in Bad : n = Cardinality(s)
  BY <1>3
<1>5. ASSUME NEW x \in s, s \ {x} \in Bad PROVE FALSE
  <2>1. Cardinality(s \ {x}) = Cardinality(s) - 1
    BY <1>1, <1>5, FS_RemoveElement
  <2>2. Cardinality(s) <= Cardinality(s \ {x})
    BY <1>3, <1>4, <1>5
  <2> QED
    BY <1>1, <2>1, <2>2
<1> QED
  BY <1>1, <1>5

(* A finite set of numbers has a largest. *)
LEMMA LargestNumber ==
  ASSUME NEW S, IsFiniteSet(S), S \subseteq Nat, S # {}
  PROVE  \E n \in S : \A m \in S : m <= n
<1> DEFINE Bad == {s \in SUBSET S : s # {} /\ ~ \E n \in s : \A m \in s : m <= n}
<1>1. SUFFICES ASSUME Bad # {} PROVE FALSE
  OBVIOUS
<1>2. Bad \subseteq SUBSET S
  OBVIOUS
<1>3. PICK s \in Bad : \A x \in s : s \ {x} \notin Bad
  <2> HIDE DEF Bad
  <2> QED
    BY <1>1, <1>2, SmallestSet
<1>4. PICK x \in s : TRUE
  OBVIOUS
<1>5. CASE s \ {x} = {}
  BY <1>4, <1>5
<1>6. CASE s \ {x} # {}
  <2>1. PICK n \in s \ {x} : \A m \in s \ {x} : m <= n
    BY <1>3, <1>6
  <2>2. x \in Nat /\ n \in Nat /\ s \subseteq Nat
    OBVIOUS
  <2>3. CASE x <= n
    BY <2>1, <2>2, <2>3
  <2>4. CASE n <= x
    <3>1. \A m \in s : m <= x
      BY <2>1, <2>2, <2>4
    <3> QED
      BY <3>1
  <2> QED
    BY <2>2, <2>3, <2>4
<1> QED
  BY <1>5, <1>6

UpTo(S, n) == {m \in S : m <= n}

(* A set of k numbers has a first, a second, ... and a k-th. *)
LEMMA NthExists ==
  ASSUME NEW S, IsFiniteSet(S), S \subseteq Nat, NEW n \in 1..Cardinality(S)
  PROVE  \E i \in S : Cardinality(UpTo(S, i)) = n
<1> DEFINE Good(s) == \A k \in 1..Cardinality(s) : \E i \in s : Cardinality(UpTo(s, i)) = k
           Bad == {s \in SUBSET S : ~Good(s)}
<1>1. SUFFICES ASSUME Bad # {} PROVE FALSE
  <2>1. Good(S)
    BY <1>1
  <2> QED
    BY <2>1
<1>2. Bad \subseteq SUBSET S
  OBVIOUS
<1>3. PICK s \in Bad : IsFiniteSet(s) /\ \A x \in s : s \ {x} \notin Bad
  BY <1>1, <1>2, SmallestSet
<1>4. s \in SUBSET S /\ ~Good(s)
  OBVIOUS
<1>5. PICK k \in 1..Cardinality(s) : ~ \E i \in s : Cardinality(UpTo(s, i)) = k
  BY <1>4
<1>6. s # {}
  BY <1>5, FS_EmptySet
<1>7. PICK x \in s : \A m \in s : m <= x
  BY <1>3, <1>4, <1>6, LargestNumber
<1>8. Cardinality(s \ {x}) = Cardinality(s) - 1 /\ Cardinality(s) \in Nat
  BY <1>3, FS_RemoveElement, FS_CardinalityType
<1>9. UpTo(s, x) = s
  BY <1>7 DEF UpTo
<1>10. k \in 1..Cardinality(s \ {x})
  BY <1>5, <1>8, <1>9
<1>11. PICK i \in s \ {x} : Cardinality(UpTo(s \ {x}, i)) = k
  BY <1>3, <1>4, <1>10
<1>12. UpTo(s, i) = UpTo(s \ {x}, i)
  BY <1>4, <1>7 DEF UpTo
<1> QED
  BY <1>5, <1>11, <1>12

-----------------------------------------------------------------------------
(* Lists *)

LEMMA ListIs ==
  ASSUME NEW n \in Nat, NEW f, f = [i \in 1..n |-> f[i]]
  PROVE  IsSequence(f) /\ Len(f) = n /\ DOMAIN f = 1..n
<1>1. f \in [1..n -> {f[i] : i \in DOMAIN f}]
  OBVIOUS
<1> QED
  BY <1>1, SeqDef DEF IsSequence

LEMMA ConcatIs ==
  ASSUME NEW s, NEW t, IsSequence(s), IsSequence(t)
  PROVE  /\ IsSequence(s \o t)
         /\ Len(s) \in Nat /\ Len(t) \in Nat /\ Len(s \o t) = Len(s) + Len(t)
         /\ DOMAIN s = 1..Len(s) /\ DOMAIN t = 1..Len(t)
         /\ DOMAIN (s \o t) = 1..(Len(s) + Len(t))
         /\ \A i \in 1..Len(s) : (s \o t)[i] = s[i]
         /\ \A i \in 1..Len(t) : (s \o t)[Len(s) + i] = t[i]
<1>1. PICK T : T = {s[i] : i \in DOMAIN s} \cup {t[i] : i \in DOMAIN t}
  OBVIOUS
<1>2. s \in Seq(T) /\ t \in Seq(T)
  BY <1>1 DEF IsSequence
<1>3. Len(s) \in Nat /\ Len(t) \in Nat /\ DOMAIN s = 1..Len(s) /\ DOMAIN t = 1..Len(t)
  BY <1>2
<1>4. PICK u : u = s \o t
  OBVIOUS
<1>5. /\ u \in Seq(T) /\ Len(u) = Len(s) + Len(t) /\ DOMAIN u = 1..Len(u)
      /\ \A i \in 1..Len(s) : u[i] = s[i]
      /\ \A i \in 1..Len(t) : u[Len(s) + i] = t[i]
  BY <1>2, <1>3, <1>4
<1>6. u = [i \in 1..Len(u) |-> u[i]]
  BY <1>5
<1>7. IsSequence(u)
  BY <1>3, <1>5, <1>6, ListIs
<1> QED
  BY <1>3, <1>4, <1>5, <1>7

(* The k-th entry is at the k-th position. *)
IsEntry(list, S, k, i) == EntriesAt(list, S)[k] = list[i] /\ Cardinality(UpTo(S, i)) = k

LEMMA EntryIs ==
  ASSUME NEW list, NEW S, IsFiniteSet(S), S \subseteq Nat, NEW k \in 1..Cardinality(S)
  PROVE  \E i \in S : IsEntry(list, S, k, i)
<1>1. \E i \in S : Cardinality({j \in S : j <= i}) = k
  BY NthExists DEF UpTo
<1>2. PICK i : i = CHOOSE c \in S : Cardinality({j \in S : j <= c}) = k
  OBVIOUS
<1>3. i \in S /\ Cardinality({j \in S : j <= i}) = k
  BY <1>1, <1>2
<1>4. EntriesAt(list, S)[k] = list[i]
  BY <1>2 DEF EntriesAt
<1> QED
  BY <1>3, <1>4 DEF IsEntry, UpTo

(* As many entries as positions. *)
LEMMA EntriesAre ==
  ASSUME NEW list, NEW S, IsFiniteSet(S), S \subseteq Nat
  PROVE  /\ Cardinality(S) \in Nat
         /\ IsSequence(EntriesAt(list, S)) /\ Len(EntriesAt(list, S)) = Cardinality(S)
         /\ DOMAIN EntriesAt(list, S) = 1..Cardinality(S)
<1>1. PICK f : f = EntriesAt(list, S)
  OBVIOUS
<1>2. PICK N : N = Cardinality(S)
  OBVIOUS
<1>3. N \in Nat
  BY <1>2, FS_CardinalityType
<1>4. f = [k \in 1..N |-> list[CHOOSE i \in S : Cardinality({j \in S : j <= i}) = k]]
  BY <1>1, <1>2 DEF EntriesAt
<1>5. f = [k \in 1..N |-> f[k]]
  BY <1>4
<1>6. IsSequence(f) /\ Len(f) = N /\ DOMAIN f = 1..N
  BY <1>3, <1>5, ListIs
<1> QED
  BY <1>1, <1>2, <1>3, <1>6

(* The entries of a stretch are the list's, one after the other. *)
IsStretch(S, b, n) ==
  /\ IsFiniteSet(S) /\ S \subseteq Nat /\ Cardinality(S) = n
  /\ \A i \in S : Cardinality(UpTo(S, i)) = i - b

LEMMA StretchIs ==
  ASSUME NEW b \in Nat, NEW n \in Nat
  PROVE  IsStretch((b + 1)..(b + n), b, n)
<1>1. PICK S : S = (b + 1)..(b + n)
  OBVIOUS
<1>2. IsFiniteSet(S) /\ S \subseteq Nat /\ Cardinality(S) = n
  BY <1>1, FS_Interval
<1>3. ASSUME NEW i \in S PROVE Cardinality(UpTo(S, i)) = i - b
  <2>1. UpTo(S, i) = (b + 1)..i /\ i \in Int /\ i - (b + 1) + 1 = i - b /\ b + 1 <= i
    BY <1>1 DEF UpTo
  <2> QED
    BY <2>1, FS_Interval
<1> QED
  BY <1>1, <1>2, <1>3 DEF IsStretch

IsPart(part, list, b, n) ==
  Len(part) = n /\ DOMAIN part = 1..n /\ \A k \in 1..n : part[k] = list[b + k]

LEMMA EntriesOfStretch ==
  ASSUME NEW list, NEW b \in Nat, NEW n \in Nat, NEW S, IsStretch(S, b, n)
  PROVE  IsPart(EntriesAt(list, S), list, b, n)
<1>1. IsFiniteSet(S) /\ S \subseteq Nat /\ Cardinality(S) = n
  BY DEF IsStretch
<1>2. ASSUME NEW k \in 1..n PROVE EntriesAt(list, S)[k] = list[b + k]
  <2>1. k \in 1..Cardinality(S)
    BY <1>1
  <2>2. PICK i \in S : IsEntry(list, S, k, i)
    BY <1>1, <2>1, EntryIs, Zenon
  <2>3. EntriesAt(list, S)[k] = list[i] /\ Cardinality(UpTo(S, i)) = k
    BY <2>2 DEF IsEntry
  <2>4. i \in Int /\ i - b = k
    BY <1>1, <2>3 DEF IsStretch
  <2>5. i = b + k
    BY <2>4
  <2> QED
    BY <2>3, <2>5
<1>3. Len(EntriesAt(list, S)) = n /\ DOMAIN EntriesAt(list, S) = 1..n
  BY <1>1, EntriesAre
<1> QED
  BY <1>2, <1>3 DEF IsPart

-----------------------------------------------------------------------------
(* A finite set as a list (Enumerate) *)

Pick(s) == CHOOSE x \in s : TRUE

(* f is the function that the list of S is defined by. *)
IsIter(f, S) ==
  f = [s \in SUBSET S |-> IF s = {} THEN << >> ELSE Append(f[s \ {Pick(s)}], Pick(s))]

LEMMA EnumerateIs ==
  ASSUME NEW S
  PROVE  Enumerate(S) = (CHOOSE f : IsIter(f, S))[S]
BY Zenon DEF Enumerate, MapThenFoldSet, IsIter, Pick

LEMMA Picked ==
  ASSUME NEW s, s # {}
  PROVE  Pick(s) \in s
BY DEF Pick

LEMMA IterAt ==
  ASSUME NEW f, NEW S, IsIter(f, S), NEW s \in SUBSET S
  PROVE  f[s] = IF s = {} THEN << >> ELSE Append(f[s \ {Pick(s)}], Pick(s))
BY DEF IsIter

LEMMA ItersAgree ==
  ASSUME NEW S, IsFiniteSet(S), NEW T, NEW f, NEW h,
         IsIter(f, S), IsIter(h, T), NEW s \in SUBSET S, s \in SUBSET T
  PROVE  f[s] = h[s]
<1> DEFINE Bad == {t \in SUBSET S : t \in SUBSET T /\ f[t] # h[t]}
<1>1. SUFFICES ASSUME Bad # {} PROVE FALSE
  OBVIOUS
<1>2. Bad \subseteq SUBSET S
  OBVIOUS
<1>3. PICK t \in Bad : \A x \in t : t \ {x} \notin Bad
  BY <1>1, <1>2, SmallestSet
<1>4. t \in SUBSET S /\ t \in SUBSET T /\ f[t] # h[t]
  OBVIOUS
<1>5. /\ f[t] = IF t = {} THEN << >> ELSE Append(f[t \ {Pick(t)}], Pick(t))
      /\ h[t] = IF t = {} THEN << >> ELSE Append(h[t \ {Pick(t)}], Pick(t))
  BY <1>4, IterAt
<1>6. t # {}
  BY <1>4, <1>5
<1>7. f[t \ {Pick(t)}] = h[t \ {Pick(t)}]
  BY <1>3, <1>4, <1>6, Picked
<1> QED
  BY <1>4, <1>5, <1>6, <1>7, Zenon

LEMMA IterExists ==
  ASSUME NEW S, IsFiniteSet(S)
  PROVE  \E f : IsIter(f, S)
<1> DEFINE Bad == {s \in SUBSET S : ~ \E f : IsIter(f, s)}
<1>1. SUFFICES ASSUME Bad # {} PROVE FALSE
  OBVIOUS
<1>2. Bad \subseteq SUBSET S
  OBVIOUS
<1>3. PICK s \in Bad : IsFiniteSet(s) /\ \A x \in s : s \ {x} \notin Bad
  BY <1>1, <1>2, SmallestSet
<1> DEFINE It(t) == CHOOSE f : IsIter(f, t)
           Rest(t) == t \ {Pick(t)}
           F == [t \in SUBSET s |->
                   IF t = {} THEN << >> ELSE Append(It(Rest(t))[Rest(t)], Pick(t))]
<1>4. ASSUME NEW t \in SUBSET s, t # s PROVE IsFiniteSet(t) /\ IsIter(It(t), t)
  <2>1. PICK x \in s : x \notin t
    BY <1>4
  <2>2. PICK f : IsIter(f, s \ {x})
    BY <1>3, <2>1
  <2>3. IsIter([u \in SUBSET t |-> f[u]], t)
    <3>1. \A u \in SUBSET t : u \in SUBSET (s \ {x})
      BY <1>4, <2>1
    <3>2. \A u \in SUBSET t : f[u] = IF u = {} THEN << >> ELSE Append(f[u \ {Pick(u)}], Pick(u))
      BY <2>2, <3>1, IterAt
    <3>3. \A u \in SUBSET t : u \ {Pick(u)} \in SUBSET t
      OBVIOUS
    <3> QED
      BY <3>2, <3>3, Zenon DEF IsIter
  <2>4. \E f1 : IsIter(f1, t)
    BY <2>3
  <2> QED
    BY <1>3, <1>4, <2>4, FS_Subset
<1>5. ASSUME NEW t \in SUBSET s, t # {} PROVE F[Rest(t)] = It(Rest(t))[Rest(t)]
  <2>1. Rest(t) \in SUBSET s /\ Rest(t) # s
    BY <1>5, Picked
  <2>2. PICK u : u = Rest(t)
    OBVIOUS
  <2>3. IsIter(It(u), u) /\ u \in SUBSET s /\ IsFiniteSet(u)
    BY <1>4, <2>1, <2>2
  <2> HIDE DEF It
  <2>4. It(u)[u] = IF u = {} THEN << >> ELSE Append(It(u)[Rest(u)], Pick(u))
    BY <2>3, IterAt
  <2>5. F[u] = IF u = {} THEN << >> ELSE Append(It(Rest(u))[Rest(u)], Pick(u))
    BY <2>3
  <2>6. ASSUME u # {} PROVE It(u)[Rest(u)] = It(Rest(u))[Rest(u)]
    <3>1. Rest(u) \in SUBSET s /\ Rest(u) # s
      BY <2>3, <2>6, Picked
    <3>2. IsIter(It(Rest(u)), Rest(u))
      BY <1>4, <3>1
    <3>3. Rest(u) \in SUBSET u /\ Rest(u) \in SUBSET Rest(u)
      OBVIOUS
    <3> HIDE DEF Rest
    <3> QED
      BY <2>3, <3>2, <3>3, ItersAgree
  <2>7. F[u] = It(u)[u]
    <3> HIDE DEF F, Rest
    <3> QED
      BY <2>4, <2>5, <2>6, Zenon
  <2> QED
    BY <2>2, <2>7
<1>6. IsIter(F, s)
  <2> HIDE DEF It
  <2>1. F = [t \in SUBSET s |-> IF t = {} THEN << >> ELSE Append(F[Rest(t)], Pick(t))]
    <3>1. \A t \in SUBSET s : t # {} => F[Rest(t)] = It(Rest(t))[Rest(t)]
      BY <1>5
    <3>2. ASSUME NEW t \in SUBSET s
          PROVE  F[t] = IF t = {} THEN << >> ELSE Append(F[Rest(t)], Pick(t))
      <4>1. F[t] = IF t = {} THEN << >> ELSE Append(It(Rest(t))[Rest(t)], Pick(t))
        OBVIOUS
      <4> HIDE DEF F, Rest
      <4> QED
        BY <3>1, <4>1, Zenon
    <3>3. F = [t \in SUBSET s |-> F[t]]
      OBVIOUS
    <3> HIDE DEF F
    <3> QED
      BY <3>2, <3>3, Zenon
  <2> QED
    BY <2>1, Zenon DEF IsIter
<1> QED
  BY <1>6

LEMMA EnumerateStep ==
  ASSUME NEW S, IsFiniteSet(S)
  PROVE  /\ S = {} => Enumerate(S) = << >>
         /\ S # {} => Enumerate(S) = Append(Enumerate(S \ {Pick(S)}), Pick(S))
<1>1. PICK f : IsIter(f, S) /\ Enumerate(S) = f[S]
  BY IterExists, EnumerateIs
<1>2. PICK R : R = S \ {Pick(S)}
  OBVIOUS
<1>3. IsFiniteSet(R) /\ R \in SUBSET S /\ R \in SUBSET R /\ S \in SUBSET S
  BY <1>2, FS_Subset
<1>4. PICK h : IsIter(h, R) /\ Enumerate(R) = h[R]
  BY <1>3, IterExists, EnumerateIs
<1>5. f[R] = h[R]
  BY <1>1, <1>3, <1>4, ItersAgree
<1>6. f[S] = IF S = {} THEN << >> ELSE Append(f[R], Pick(S))
  BY <1>1, <1>2, <1>3, IterAt
<1> QED
  BY <1>1, <1>2, <1>4, <1>5, <1>6, Zenon

(* The list has every member of the set, and nothing else. *)
LEMMA EnumerateAll ==
  ASSUME NEW S, IsFiniteSet(S)
  PROVE  /\ Enumerate(S) \in Seq(S)
         /\ \A x \in S : \E k \in DOMAIN Enumerate(S) : Enumerate(S)[k] = x
<1> DEFINE Good(s) == /\ Enumerate(s) \in Seq(s)
                      /\ \A x \in s : \E k \in DOMAIN Enumerate(s) : Enumerate(s)[k] = x
           Bad == {s \in SUBSET S : ~Good(s)}
<1>1. SUFFICES ASSUME Bad # {} PROVE FALSE
  <2>1. Good(S)
    BY <1>1
  <2> QED
    BY <2>1
<1>2. Bad \subseteq SUBSET S
  OBVIOUS
<1>3. PICK s \in Bad : IsFiniteSet(s) /\ \A x \in s : s \ {x} \notin Bad
  BY <1>1, <1>2, SmallestSet
<1>4. s \in SUBSET S /\ ~Good(s)
  OBVIOUS
<1>5. CASE s = {}
  <2>1. PICK list : list = Enumerate(s) /\ list = << >>
    BY <1>3, <1>5, EnumerateStep
  <2>2. list \in Seq(s)
    BY <2>1
  <2>3. \A x \in s : \E k \in DOMAIN list : list[k] = x
    BY <1>5
  <2>4. Good(s)
    BY <2>1, <2>2, <2>3
  <2> QED
    BY <1>4, <2>4
<1>6. CASE s # {}
  <2>1. PICK p : p = Pick(s) /\ p \in s
    BY <1>6, Picked
  <2>2. PICK rest : rest = Enumerate(s \ {p})
    OBVIOUS
  <2>3. /\ rest \in Seq(s \ {p})
        /\ \A x \in s \ {p} : \E k \in DOMAIN rest : rest[k] = x
    BY <1>3, <1>4, <2>1, <2>2
  <2>4. PICK list : list = Enumerate(s)
    OBVIOUS
  <2>5. list = Append(rest, p)
    BY <1>3, <1>6, <2>1, <2>2, <2>4, EnumerateStep
  <2>6. rest \in Seq(s)
    BY <2>3
  <2>7. /\ list \in Seq(s) /\ DOMAIN list = 1..(Len(rest) + 1) /\ DOMAIN rest = 1..Len(rest)
        /\ Len(rest) \in Nat /\ list[Len(rest) + 1] = p
        /\ \A k \in 1..Len(rest) : list[k] = rest[k]
    BY <2>1, <2>5, <2>6
  <2>8. ASSUME NEW x \in s PROVE \E k \in DOMAIN list : list[k] = x
    <3>1. CASE x = p
      BY <2>7, <3>1
    <3>2. CASE x # p
      BY <2>3, <2>7, <3>2
    <3> QED
      BY <3>1, <3>2
  <2>9. Good(s)
    BY <2>4, <2>7, <2>8
  <2> QED
    BY <1>4, <2>9
<1> QED
  BY <1>5, <1>6

-----------------------------------------------------------------------------
(* The swaps of a message *)

(* As many as there are route instructions, each of them one. *)
LEMMA SwapsAre ==
  ASSUME NEW decoded, NEW n \in Nat, DOMAIN decoded = 1..n
  PROVE  /\ Len(Swaps(decoded)) \in Nat
         /\ DOMAIN Swaps(decoded) = 1..Len(Swaps(decoded))
         /\ \A k \in DOMAIN Swaps(decoded) :
              \E i \in RoutesOf(decoded) : Swaps(decoded)[k] = decoded[i]
<1>1. RoutesOf(decoded) \subseteq 1..n
  BY DEF RoutesOf
<1>2. IsFiniteSet(RoutesOf(decoded)) /\ RoutesOf(decoded) \subseteq Nat
  <2>1. IsFiniteSet(1..n)
    BY FS_Interval
  <2> QED
    BY <1>1, <2>1, FS_Subset
<1>3. PICK R : R = RoutesOf(decoded) /\ Swaps(decoded) = EntriesAt(decoded, R)
  BY DEF Swaps
<1>4. /\ Cardinality(R) \in Nat /\ Len(Swaps(decoded)) = Cardinality(R)
      /\ DOMAIN Swaps(decoded) = 1..Cardinality(R)
  BY <1>2, <1>3, EntriesAre
<1>5. ASSUME NEW k \in 1..Cardinality(R)
      PROVE  \E i \in R : EntriesAt(decoded, R)[k] = decoded[i]
  <2>1. IsFiniteSet(R) /\ R \subseteq Nat
    BY <1>2, <1>3
  <2>2. PICK i \in R : IsEntry(decoded, R, k, i)
    BY <2>1, EntryIs, Zenon
  <2> QED
    BY <2>2 DEF IsEntry
<1> QED
  BY <1>3, <1>4, <1>5

-----------------------------------------------------------------------------
(* The message that the relayer compiles *)

LEMMA ProgramsDiffer ==
  /\ SystemProgram \notin {ComputeBudget, TokenProgram, Token2022, AssociatedToken, Jupiter}
  /\ ComputeBudget \notin {TokenProgram, Token2022, AssociatedToken, Jupiter}
  /\ TokenProgram \notin {Token2022, AssociatedToken, Jupiter}
  /\ Token2022 \notin {AssociatedToken, Jupiter}
  /\ AssociatedToken # Jupiter
<1>1. PICK programs : programs = <<SystemProgram, ComputeBudget, TokenProgram, Token2022,
                                   AssociatedToken, Jupiter>>
  OBVIOUS
<1>2. \A i, j \in 1..6 : programs[i] = programs[j] => i = j
  <2>1. DOMAIN programs = 1..6
    BY <1>1
  <2> QED
    BY <1>1, <2>1, TxPolicyAssumption DEF TxPolicyAssumption
<1>3. /\ programs[1] = SystemProgram /\ programs[2] = ComputeBudget
      /\ programs[3] = TokenProgram /\ programs[4] = Token2022
      /\ programs[5] = AssociatedToken /\ programs[6] = Jupiter
  BY <1>1
<1> QED
  BY <1>2, <1>3

Prelude(instruction, vault) ==
  \/ instruction = UnitLimit
  \/ \E mint : instruction = CreateAta(vault, mint)

(* An advance of the nonce or none, what is sent once, and a swap a leg.     *)
LEMMA InstructionsAre ==
  ASSUME NEW request, IsSequence(request.legs), request.nonce \in BOOLEAN,
         NEW list, list = Instructions(request, request.legs)
  PROVE  \E b, n \in Nat :
           /\ DOMAIN request.legs = 1..n /\ DOMAIN list = 1..(b + n)
           /\ \A i \in 1..b : (i = 1 /\ list[i] = NonceAdvance) \/ Prelude(list[i], request.vault)
           /\ \A k \in 1..n :
                list[b + k] = SwapInstruction(request.vault, request.legs[k], request.slippageBps)
<1>1. PICK n \in Nat : n = Len(request.legs) /\ DOMAIN request.legs = 1..n
  BY DEF IsSequence
<1>2. PICK mints : mints = SetupMints(request.legs)
  OBVIOUS
<1>3. PICK S : S = {k \in DOMAIN mints : \A j \in 1..(k - 1) : mints[j] # mints[k]}
  OBVIOUS
<1>4. IsFiniteSet(S) /\ S \subseteq Nat
  <2>1. DOMAIN mints = 1..(2 * n)
    BY <1>1, <1>2 DEF SetupMints
  <2>2. IsFiniteSet(1..(2 * n))
    BY FS_Interval
  <2>3. S \subseteq 1..(2 * n)
    BY <1>3, <2>1
  <2>4. IsFiniteSet(S)
    BY <2>2, <2>3, FS_Subset
  <2> QED
    BY <2>3, <2>4
<1>5. PICK setup : setup = FirstSeen(mints)
  OBVIOUS
<1>6. PICK c \in Nat : DOMAIN setup = 1..c
  BY <1>3, <1>4, <1>5, EntriesAre DEF FirstSeen
<1>7. PICK A : A = IF request.nonce THEN <<NonceAdvance>> ELSE << >>
  OBVIOUS
<1>8. PICK B : B = <<UnitLimit>>
  OBVIOUS
<1>9. PICK C : C = [i \in DOMAIN setup |-> CreateAta(request.vault, setup[i])]
  OBVIOUS
<1>10. PICK D : D = [i \in DOMAIN request.legs |->
                      SwapInstruction(request.vault, request.legs[i], request.slippageBps)]
  OBVIOUS
<1>11. list = A \o B \o C \o D
  BY <1>2, <1>5, <1>7, <1>8, <1>9, <1>10, Zenon DEF Instructions
<1>12. PICK a \in {0, 1} : /\ IsSequence(A) /\ Len(A) = a
                           /\ \A i \in 1..a : i = 1 /\ A[i] = NonceAdvance
  <2>1. CASE request.nonce
    BY <1>7, <2>1 DEF IsSequence
  <2>2. CASE ~request.nonce
    BY <1>7, <2>2 DEF IsSequence
  <2> QED
    BY <2>1, <2>2
<1>13. IsSequence(B) /\ Len(B) = 1 /\ B[1] = UnitLimit
  BY <1>8 DEF IsSequence
<1>14. /\ IsSequence(C) /\ Len(C) = c
       /\ \A i \in 1..c : C[i] = CreateAta(request.vault, setup[i])
  <2>1. C = [i \in 1..c |-> C[i]]
    BY <1>6, <1>9
  <2> QED
    BY <1>6, <1>9, <2>1, ListIs
<1>15. /\ IsSequence(D) /\ Len(D) = n
       /\ \A i \in 1..n :
            D[i] = SwapInstruction(request.vault, request.legs[i], request.slippageBps)
  <2>1. D = [i \in 1..n |-> D[i]]
    BY <1>1, <1>10
  <2> QED
    BY <1>1, <1>10, <2>1, ListIs
<1>16. PICK AB : AB = A \o B
  OBVIOUS
<1>17. /\ IsSequence(AB) /\ Len(AB) = a + 1
       /\ \A i \in 1..a : AB[i] = A[i]
       /\ AB[a + 1] = UnitLimit
  <2>0. IsSequence(A) /\ IsSequence(B)
    BY <1>12, <1>13
  <2>1. /\ IsSequence(AB) /\ Len(AB) = Len(A) + Len(B)
        /\ \A i \in 1..Len(A) : AB[i] = A[i]
        /\ \A i \in 1..Len(B) : AB[Len(A) + i] = B[i]
    BY <2>0, <1>16, ConcatIs
  <2> QED
    BY <1>12, <1>13, <2>1
<1>18. PICK E : E = AB \o C
  OBVIOUS
<1>19. PICK b \in Nat : b = a + 1 + c
  BY <1>6, <1>12
<1>20. /\ IsSequence(E) /\ Len(E) = b
       /\ \A i \in 1..(a + 1) : E[i] = AB[i]
       /\ \A i \in 1..c : E[a + 1 + i] = C[i]
  <2>1. /\ IsSequence(E) /\ Len(E) = Len(AB) + Len(C)
        /\ \A i \in 1..Len(AB) : E[i] = AB[i]
        /\ \A i \in 1..Len(C) : E[Len(AB) + i] = C[i]
    BY <1>14, <1>17, <1>18, ConcatIs
  <2> QED
    BY <1>14, <1>17, <1>19, <2>1
<1>22. list = E \o D
  BY <1>11, <1>16, <1>18
<1>23. /\ DOMAIN list = 1..(b + n)
       /\ \A i \in 1..b : list[i] = E[i]
       /\ \A i \in 1..n : list[b + i] = D[i]
  <2>1. /\ DOMAIN list = 1..(Len(E) + Len(D))
        /\ \A i \in 1..Len(E) : list[i] = E[i]
        /\ \A i \in 1..Len(D) : list[Len(E) + i] = D[i]
    BY <1>15, <1>20, <1>22, ConcatIs
  <2> QED
    BY <1>15, <1>20, <2>1
<1>21. ASSUME NEW i \in 1..b
       PROVE  (i = 1 /\ list[i] = NonceAdvance) \/ Prelude(list[i], request.vault)
  <2>1. CASE i \in 1..a
    <3>1. list[i] = A[i]
      BY <1>12, <1>17, <1>20, <1>23, <2>1
    <3> QED
      BY <1>12, <2>1, <3>1
  <2>2. CASE i = a + 1
    <3>1. list[i] = UnitLimit
      BY <1>12, <1>17, <1>20, <1>23, <2>2
    <3> QED
      BY <3>1 DEF Prelude
  <2>3. CASE i - (a + 1) \in 1..c
    <3>1. PICK j \in 1..c : i = a + 1 + j
      BY <1>12, <2>3
    <3>2. list[i] = C[j]
      BY <1>20, <1>23, <3>1
    <3> QED
      BY <1>14, <3>2 DEF Prelude
  <2> QED
    BY <1>6, <1>12, <1>19, <2>1, <2>2, <2>3
<1> QED
  BY <1>1, <1>15, <1>21, <1>23

(* What an instruction of the relayer's is made of. *)
IsInstruction(x) ==
  /\ x = [program |-> x.program, op |-> x.op, accounts |-> x.accounts, args |-> x.args]
  /\ \E n \in Nat : DOMAIN x.accounts = 1..n

LEMMA RouteAccounts ==
  ASSUME NEW vault, NEW leg, NEW slippageBps, leg.route \in {"route", "sharedAccountsRoute"},
         NEW x, x = SwapInstruction(vault, leg, slippageBps)
  PROVE  /\ IsInstruction(x)
         /\ x.program = Jupiter /\ x.op = leg.route
         /\ x.args = [first |-> leg.inAmount, second |-> leg.quoted, slippageBps |-> slippageBps]
         /\ AuthorityIndex[x.op] \in DOMAIN x.accounts /\ x.accounts[AuthorityIndex[x.op]] = vault
         /\ \E a \in DOMAIN x.accounts : x.accounts[a] = DeriveAta(vault, leg.outMint)
<1>1. PICK ends : ends = <<DeriveAta(vault, leg.inMint), DeriveAta(vault, leg.outMint), Pool>>
  OBVIOUS
<1>2. IsSequence(ends) /\ Len(ends) = 3 /\ ends[2] = DeriveAta(vault, leg.outMint)
  BY <1>1 DEF IsSequence
<1>3. PICK accounts : accounts = IF leg.route = "route" THEN <<TokenProgram, vault>> \o ends
                                 ELSE <<TokenProgram, Pool, vault>> \o ends
  OBVIOUS
<1>4. x = [program |-> Jupiter, op |-> leg.route, accounts |-> accounts,
           args |-> [first |-> leg.inAmount, second |-> leg.quoted, slippageBps |-> slippageBps]]
  <2>1. leg.route \in {"route", "routeWithTokenLedger", "exactOutRoute"} <=> leg.route = "route"
    OBVIOUS
  <2> QED
    BY <1>1, <1>3, <2>1, Zenon DEF SwapInstruction
<1>5. CASE leg.route = "route"
  <2>1. PICK two : two = <<TokenProgram, vault>>
    OBVIOUS
  <2>2. IsSequence(two) /\ Len(two) = 2 /\ two[2] = vault
    BY <2>1 DEF IsSequence
  <2>3. accounts = two \o ends
    BY <1>3, <1>5, <2>1
  <2>7. IsSequence(two) /\ IsSequence(ends)
    BY <1>2, <2>2
  <2>4. /\ DOMAIN accounts = 1..(Len(two) + Len(ends))
        /\ \A i \in 1..Len(two) : accounts[i] = two[i]
        /\ \A i \in 1..Len(ends) : accounts[Len(two) + i] = ends[i]
    BY <2>3, <2>7, ConcatIs
  <2>5. DOMAIN accounts = 1..5 /\ accounts[2] = vault /\ accounts[4] = DeriveAta(vault, leg.outMint)
    BY <1>2, <2>2, <2>4
  <2>6. AuthorityIndex[leg.route] = 2
    BY <1>5 DEF AuthorityIndex
  <2> QED
    BY <1>4, <2>5, <2>6 DEF IsInstruction
<1>6. CASE leg.route = "sharedAccountsRoute"
  <2>1. PICK three : three = <<TokenProgram, Pool, vault>>
    OBVIOUS
  <2>2. IsSequence(three) /\ Len(three) = 3 /\ three[3] = vault
    BY <2>1 DEF IsSequence
  <2>3. accounts = three \o ends
    BY <1>3, <1>6, <2>1
  <2>7. IsSequence(three) /\ IsSequence(ends)
    BY <1>2, <2>2
  <2>4. /\ DOMAIN accounts = 1..(Len(three) + Len(ends))
        /\ \A i \in 1..Len(three) : accounts[i] = three[i]
        /\ \A i \in 1..Len(ends) : accounts[Len(three) + i] = ends[i]
    BY <2>3, <2>7, ConcatIs
  <2>5. DOMAIN accounts = 1..6 /\ accounts[3] = vault /\ accounts[5] = DeriveAta(vault, leg.outMint)
    BY <1>2, <2>2, <2>4
  <2>6. AuthorityIndex[leg.route] = 3
    BY <1>6 DEF AuthorityIndex
  <2> QED
    BY <1>4, <2>5, <2>6 DEF IsInstruction
<1> QED
  BY <1>5, <1>6

LEMMA PreludeIs ==
  ASSUME NEW vault, NEW x, Prelude(x, vault)
  PROVE  IsInstruction(x) /\ x.program \in {ComputeBudget, AssociatedToken}
<1>1. CASE x = UnitLimit
  BY <1>1 DEF UnitLimit, IsInstruction
<1>2. ASSUME NEW mint, x = CreateAta(vault, mint)
      PROVE  IsInstruction(x) /\ x.program \in {ComputeBudget, AssociatedToken}
  <2>1. PICK accounts : accounts = <<Relayer, DeriveAta(vault, mint), vault, mint>>
    OBVIOUS
  <2>2. DOMAIN accounts = 1..4
    BY <2>1
  <2>3. x = [program |-> AssociatedToken, op |-> "createIdempotent", accounts |-> accounts,
             args |-> << >>]
    BY <1>2, <2>1, Zenon DEF CreateAta
  <2> QED
    BY <2>2, <2>3 DEF IsInstruction
<1> QED
  BY <1>1, <1>2 DEF Prelude

LEMMA AdvanceIs ==
  /\ IsInstruction(NonceAdvance)
  /\ NonceAdvance.program = SystemProgram /\ NonceAdvance.op = "AdvanceNonce"
  /\ DOMAIN NonceAdvance.accounts = 1..3 /\ NonceAdvance.accounts[3] = Relayer
BY DEF NonceAdvance, IsInstruction

(* The payer and the vault come first, and every address is among the keys   *)
(* that no lookup table has, or that is a program's.                        *)
LEMMA KeysAre ==
  ASSUME NEW vault, NEW list, NEW n \in Nat, DOMAIN list = 1..n,
         \A i \in 1..n : IsInstruction(list[i]),
         NEW keys, keys = StaticKeys(vault, list)
  PROVE  /\ 1 \in DOMAIN keys /\ keys[1] = Relayer
         /\ keys # << >> /\ Len(keys) \in Nat /\ DOMAIN keys = 1..Len(keys)
         /\ \A x \in Named(list) \cup {Relayer, vault} :
              x \in {Relayer, vault} \cup Called(list) \/ x \notin LookupTables
                => \E k \in DOMAIN keys : keys[k] = x
<1> DEFINE Accounts(i) == {list[i].accounts[a] : a \in DOMAIN list[i].accounts}
           Of(i) == {list[i].program} \cup Accounts(i)
<1>1. ASSUME NEW i \in 1..n PROVE IsFiniteSet(Of(i))
  <2>1. PICK m \in Nat : DOMAIN list[i].accounts = 1..m
    BY DEF IsInstruction
  <2>2. IsFiniteSet(1..m)
    BY FS_Interval
  <2>3. IsFiniteSet(Accounts(i))
    <3>1. PICK f : f = [a \in 1..m |-> list[i].accounts[a]]
      OBVIOUS
    <3>2. f \in Surjection(1..m, Accounts(i))
      BY <2>1, <3>1 DEF Surjection
    <3> QED
      BY <2>2, <3>2, FS_Surjection
  <2> QED
    BY <2>3, FS_AddElement
<1>2. PICK Sets : Sets = {Of(i) : i \in 1..n}
  OBVIOUS
<1>3. IsFiniteSet(Sets)
  <2> HIDE DEF Of
  <2>1. PICK f : f = [i \in 1..n |-> Of(i)]
    OBVIOUS
  <2>2. f \in [1..n -> Sets] /\ \A T \in Sets : \E i \in 1..n : f[i] = T
    BY <1>2, <2>1
  <2>3. f \in Surjection(1..n, Sets)
    BY <2>2 DEF Surjection
  <2>4. IsFiniteSet(1..n)
    BY FS_Interval
  <2> QED
    BY <2>3, <2>4, FS_Surjection
<1>4. Named(list) = UNION Sets
  BY <1>2 DEF Named
<1>5. IsFiniteSet(Named(list))
  <2>1. \A T \in Sets : IsFiniteSet(T)
    BY <1>1, <1>2
  <2> QED
    BY <1>3, <1>4, <2>1, FS_UNION
<1>6. PICK S : S = Named(list) \ ({Relayer, vault} \cup (LookupTables \ Called(list)))
  OBVIOUS
<1>7. IsFiniteSet(S)
  BY <1>5, <1>6, FS_Subset
<1>8. PICK rest : rest = Enumerate(S)
  OBVIOUS
<1>9. rest \in Seq(S) /\ \A x \in S : \E k \in DOMAIN rest : rest[k] = x
  BY <1>7, <1>8, EnumerateAll
<1>10. keys = <<Relayer, vault>> \o rest
  BY <1>6, <1>8, Zenon DEF StaticKeys
<1>11. IsSequence(<<Relayer, vault>>) /\ IsSequence(rest)
  BY <1>9 DEF IsSequence
<1>12. /\ Len(rest) \in Nat /\ DOMAIN rest = 1..Len(rest) /\ Len(keys) = Len(rest) + 2
       /\ DOMAIN keys = 1..(Len(rest) + 2) /\ keys[1] = Relayer /\ keys[2] = vault
       /\ \A k \in 1..Len(rest) : keys[2 + k] = rest[k]
  <2>1. PICK two : two = <<Relayer, vault>>
    OBVIOUS
  <2>2. Len(two) = 2 /\ two[1] = Relayer /\ two[2] = vault
    BY <2>1
  <2>3. keys = two \o rest /\ IsSequence(two)
    BY <1>10, <1>11, <2>1
  <2>4. /\ Len(rest) \in Nat /\ DOMAIN rest = 1..Len(rest) /\ Len(keys) = Len(two) + Len(rest)
        /\ DOMAIN keys = 1..(Len(two) + Len(rest))
        /\ \A i \in 1..Len(two) : keys[i] = two[i]
        /\ \A i \in 1..Len(rest) : keys[Len(two) + i] = rest[i]
    BY <1>11, <2>3, ConcatIs
  <2> QED
    BY <2>2, <2>4
<1>13. ASSUME NEW x \in Named(list) \cup {Relayer, vault},
              x \in {Relayer, vault} \cup Called(list) \/ x \notin LookupTables
       PROVE  \E k \in DOMAIN keys : keys[k] = x
  <2>1. CASE x \in {Relayer, vault}
    <3>1. 1 \in DOMAIN keys /\ 2 \in DOMAIN keys
      BY <1>12
    <3> QED
      BY <1>12, <2>1, <3>1
  <2>2. CASE x \notin {Relayer, vault}
    <3>1. x \in S
      BY <1>6, <1>13, <2>2
    <3>2. PICK k \in 1..Len(rest) : rest[k] = x
      BY <1>9, <1>12, <3>1
    <3> QED
      BY <1>12, <3>2
  <2> QED
    BY <2>1, <2>2
<1>14. keys # << >>
  BY <1>12
<1> QED
  BY <1>12, <1>13, <1>14

(* An index leads back to its address, or to no name at all. *)
LEMMA Resolved ==
  ASSUME NEW message, Len(message.keys) \in Nat, DOMAIN message.keys = 1..Len(message.keys), NEW x
  PROVE  Resolve(message, Index(message.keys, x)) =
           IF \E k \in DOMAIN message.keys : message.keys[k] = x THEN x ELSE Unnamed
<1>1. CASE \E k \in DOMAIN message.keys : message.keys[k] = x
  <2>1. PICK k : k = CHOOSE j \in DOMAIN message.keys : message.keys[j] = x
    OBVIOUS
  <2>2. k \in DOMAIN message.keys /\ message.keys[k] = x
    BY <1>1, <2>1
  <2>3. Index(message.keys, x) = k
    BY <1>1, <2>1 DEF Index
  <2> QED
    BY <1>1, <2>2, <2>3 DEF Resolve
<1>2. CASE ~ \E k \in DOMAIN message.keys : message.keys[k] = x
  <2>1. Index(message.keys, x) = Len(message.keys) + 1
    BY <1>2 DEF Index
  <2>2. Len(message.keys) + 1 \notin DOMAIN message.keys
    OBVIOUS
  <2> QED
    BY <1>2, <2>1, <2>2 DEF Resolve
<1> QED
  BY <1>1, <1>2

(* An address as the vault reads it: itself, when the keys spell it out.     *)
Shown(keys, x) == IF \E k \in DOMAIN keys : keys[k] = x THEN x ELSE Unnamed

Indexed(x, p, f) == [x EXCEPT !.program = p, !.accounts = f]

LEMMA IndexedIs ==
  ASSUME NEW x, IsInstruction(x), NEW p, NEW f, NEW y, y = Indexed(x, p, f)
  PROVE  y.program = p /\ y.accounts = f /\ y.op = x.op /\ y.args = x.args
<1>1. PICK program, op, accounts, args :
        x = [program |-> program, op |-> op, accounts |-> accounts, args |-> args]
  BY DEF IsInstruction
<1>2. y = [x EXCEPT !.program = p, !.accounts = f]
  BY DEF Indexed
<1>3. y = [program |-> p, op |-> op, accounts |-> f, args |-> args]
  BY <1>1, <1>2
<1> QED
  BY <1>1, <1>3

LEMMA DecodedIs ==
  ASSUME NEW x, NEW message, Len(message.keys) \in Nat, DOMAIN message.keys = 1..Len(message.keys),
         NEW y, y.program = Index(message.keys, x.program), y.op = x.op, y.args = x.args,
         NEW f, y.accounts = f, f = [a \in DOMAIN x.accounts |-> Index(message.keys, x.accounts[a])],
         NEW z, z = DecodeInstruction(message, y)
  PROVE  /\ z.program = Shown(message.keys, x.program) /\ z.kind = KindOf(z.program, x.op)
         /\ z.op = x.op /\ z.args = x.args
         /\ DOMAIN z.accounts = DOMAIN x.accounts
         /\ \A a \in DOMAIN x.accounts : z.accounts[a] = Shown(message.keys, x.accounts[a])
<1>1. PICK keys, accounts : keys = message.keys /\ accounts = x.accounts
  OBVIOUS
<1>4. \A address : Resolve(message, Index(keys, address)) = Shown(keys, address)
  <2>1. \A address : Resolve(message, Index(message.keys, address)) = Shown(message.keys, address)
    BY Resolved, Zenon DEF Shown
  <2> QED
    BY <1>1, <2>1
<1>5. /\ z.program = Resolve(message, y.program) /\ z.kind = KindOf(z.program, y.op)
      /\ z.op = y.op /\ z.args = y.args
  BY DEF DecodeInstruction
<1>6. PICK g : g = z.accounts /\ g = [a \in DOMAIN f |-> Resolve(message, f[a])]
  BY DEF DecodeInstruction
<1>8. DOMAIN f = DOMAIN accounts /\ \A a \in DOMAIN accounts : f[a] = Index(keys, accounts[a])
  BY <1>1
<1>9. DOMAIN g = DOMAIN accounts /\ \A a \in DOMAIN accounts : g[a] = Resolve(message, f[a])
  BY <1>6, <1>8
<1>10. \A a \in DOMAIN accounts : g[a] = Shown(keys, accounts[a])
  BY <1>4, <1>8, <1>9
<1>11. z.program = Shown(keys, x.program)
  BY <1>1, <1>4, <1>5
<1> QED
  BY <1>1, <1>5, <1>6, <1>9, <1>10, <1>11

(* What the vault decodes of an instruction of a message, from what the      *)
(* relayer put there.                                                       *)
IsReadAs(keys, x, z) ==
  /\ z.program = Shown(keys, x.program) /\ z.kind = KindOf(z.program, x.op)
  /\ z.op = x.op /\ z.args = x.args
  /\ DOMAIN z.accounts = DOMAIN x.accounts
  /\ \A a \in DOMAIN x.accounts : z.accounts[a] = Shown(keys, x.accounts[a])

IsCompiled(message, decoded, list, vault) ==
  /\ Readable(message) /\ FeePayerOf(message) = Relayer
  /\ DOMAIN decoded = DOMAIN list
  /\ \A i \in DOMAIN list : IsReadAs(message.keys, list[i], decoded[i])
  /\ \A x \in Named(list) \cup {Relayer, vault} :
       x \in {Relayer, vault} \cup Called(list) \/ x \notin LookupTables
         => Shown(message.keys, x) = x /\ \E k \in DOMAIN message.keys : message.keys[k] = x

LEMMA CompiledIs ==
  ASSUME NEW request, NEW legs, NEW list, list = Instructions(request, legs),
         NEW n \in Nat, DOMAIN list = 1..n, \A i \in 1..n : IsInstruction(list[i]),
         NEW message, message = CompileAll(request, legs),
         NEW decoded, decoded = Decompile(message)
  PROVE  IsCompiled(message, decoded, list, request.vault)
<1>1. PICK keys : keys = StaticKeys(request.vault, list)
  OBVIOUS
<1>2. PICK compiled : compiled = [i \in DOMAIN list |->
         [list[i] EXCEPT !.program  = Index(keys, @),
                         !.accounts = [a \in DOMAIN @ |-> Index(keys, @[a])]]]
  OBVIOUS
<1>3. message = [version |-> "v0", whole |-> TRUE, keys |-> keys, instructions |-> compiled]
  BY <1>1, <1>2, Zenon DEF CompileAll
<1>4. /\ message.version = "v0" /\ message.whole = TRUE /\ message.keys = keys
      /\ message.instructions = compiled
  BY <1>3
<1>5. /\ 1 \in DOMAIN keys /\ keys[1] = Relayer
      /\ keys # << >> /\ Len(keys) \in Nat /\ DOMAIN keys = 1..Len(keys)
      /\ \A x \in Named(list) \cup {Relayer, request.vault} :
           x \in {Relayer, request.vault} \cup Called(list) \/ x \notin LookupTables
             => \E k \in DOMAIN keys : keys[k] = x
  BY <1>1, KeysAre
<1>6. DOMAIN decoded = 1..n
  BY <1>2, <1>4 DEF Decompile
<1>7. ASSUME NEW i \in 1..n PROVE IsReadAs(keys, list[i], decoded[i])
  <2>1. PICK x : x = list[i]
    OBVIOUS
  <2>2. PICK f : f = [a \in DOMAIN x.accounts |-> Index(keys, x.accounts[a])]
    OBVIOUS
  <2>3. PICK p : p = Index(keys, x.program)
    OBVIOUS
  <2>4. IsInstruction(x)
    BY <2>1
  <2>5. PICK y : y = Indexed(x, p, f)
    OBVIOUS
  <2>6. compiled[i] = y
    BY <1>2, <2>1, <2>2, <2>3, <2>5 DEF Indexed
  <2>7. y.program = p /\ y.accounts = f /\ y.op = x.op /\ y.args = x.args
    BY <2>4, <2>5, IndexedIs
  <2>8. PICK z : z = DecodeInstruction(message, y)
    OBVIOUS
  <2>9. decoded[i] = z
    BY <1>2, <1>4, <2>6, <2>8 DEF Decompile
  <2>10. y.program = Index(message.keys, x.program)
         /\ f = [a \in DOMAIN x.accounts |-> Index(message.keys, x.accounts[a])]
         /\ Len(message.keys) \in Nat /\ DOMAIN message.keys = 1..Len(message.keys)
    BY <1>4, <1>5, <2>2, <2>3, <2>7
  <2>11. IsReadAs(message.keys, x, z)
    BY <2>7, <2>8, <2>10, DecodedIs DEF IsReadAs
  <2> QED
    BY <1>4, <2>1, <2>9, <2>11
<1>8. FeePayerOf(message) = Relayer /\ Readable(message)
  BY <1>4, <1>5 DEF FeePayerOf, Readable
<1>9. ASSUME NEW x \in Named(list) \cup {Relayer, request.vault},
             x \in {Relayer, request.vault} \cup Called(list) \/ x \notin LookupTables
      PROVE  Shown(keys, x) = x /\ \E k \in DOMAIN keys : keys[k] = x
  <2>1. \E k \in DOMAIN keys : keys[k] = x
    BY <1>5, <1>9
  <2> QED
    BY <2>1 DEF Shown
<1> QED
  BY <1>1, <1>4, <1>6, <1>7, <1>8, <1>9 DEF IsCompiled

-----------------------------------------------------------------------------
(* What the vault reads of a purchase *)

(* What comes in front of the swaps, and a swap.                             *)
IsSetup(z, i) ==
  \/ /\ i = 1 /\ z.program = SystemProgram /\ z.kind = "advance-nonce"
     /\ 3 \in DOMAIN z.accounts /\ z.accounts[3] = Relayer
  \/ z.program \in {ComputeBudget, AssociatedToken} /\ z.kind \in {"compute-budget", "create-ata"}

IsSwapOf(z, leg, slippageBps) ==
  /\ z.program = Jupiter /\ z.kind = "jupiter-route" /\ z.op = leg.route
  /\ z.args = [first |-> leg.inAmount, second |-> leg.quoted, slippageBps |-> slippageBps]
  /\ AuthorityIndex[z.op] \in DOMAIN z.accounts /\ z.accounts[AuthorityIndex[z.op]] = Vault

LEMMA PurchaseReads ==
  ASSUME NEW request, request.vault = Vault, IsPurchase(request),
         \A mint \in Asset : DeriveAta(Vault, mint) \notin LookupTables,
         NEW message, message = CompileAll(request, request.legs),
         NEW decoded, decoded = Decompile(message)
  PROVE  /\ Readable(message) /\ FeePayerOf(message) = Relayer
         /\ \E b, n \in Nat :
              /\ DOMAIN request.legs = 1..n /\ DOMAIN decoded = 1..(b + n)
              /\ \A i \in 1..b : IsSetup(decoded[i], i)
              /\ \A k \in 1..n : IsSwapOf(decoded[b + k], request.legs[k], request.slippageBps)
         /\ \A k \in DOMAIN request.legs : \E j \in DOMAIN message.keys :
              message.keys[j] = DeriveAta(Vault, request.legs[k].outMint)
<1>1. PICK legs, slippageBps : legs = request.legs /\ slippageBps = request.slippageBps
  OBVIOUS
<1>2. PICK list : list = Instructions(request, legs)
  OBVIOUS
<1>3. IsSequence(legs) /\ request.nonce \in BOOLEAN /\ request.vault # Relayer
  BY <1>1 DEF IsPurchase, Builds
<1>4. PICK b, n \in Nat :
        /\ DOMAIN legs = 1..n /\ DOMAIN list = 1..(b + n)
        /\ \A i \in 1..b : (i = 1 /\ list[i] = NonceAdvance) \/ Prelude(list[i], Vault)
        /\ \A k \in 1..n : list[b + k] = SwapInstruction(Vault, legs[k], slippageBps)
  BY <1>1, <1>2, <1>3, InstructionsAre
<1>5. ASSUME NEW k \in 1..n
      PROVE  /\ legs[k].outMint \in Asset /\ legs[k].route \in {"route", "sharedAccountsRoute"}
             /\ b + k \in 1..(b + n)
  BY <1>1, <1>4 DEF IsPurchase
<1>6. ASSUME NEW k \in 1..n, NEW x, x = list[b + k]
      PROVE  /\ IsInstruction(x)
             /\ x.program = Jupiter /\ x.op = legs[k].route
             /\ x.args = [first |-> legs[k].inAmount, second |-> legs[k].quoted,
                          slippageBps |-> slippageBps]
             /\ AuthorityIndex[x.op] \in DOMAIN x.accounts
             /\ x.accounts[AuthorityIndex[x.op]] = Vault
             /\ \E a \in DOMAIN x.accounts : x.accounts[a] = DeriveAta(Vault, legs[k].outMint)
  <2>1. PICK leg : leg = legs[k]
    OBVIOUS
  <2>2. leg.route \in {"route", "sharedAccountsRoute"} /\ x = SwapInstruction(Vault, leg, slippageBps)
    BY <1>4, <1>5, <1>6, <2>1
  <2> QED
    BY <2>1, <2>2, RouteAccounts
<1>7. ASSUME NEW i \in 1..b PROVE IsInstruction(list[i])
  BY <1>4, AdvanceIs, PreludeIs
<1>8. ASSUME NEW i \in 1..(b + n) PROVE IsInstruction(list[i])
  <2>1. i \in 1..b \/ \E k \in 1..n : i = b + k
    <3>1. CASE i > b
      <4>1. i - b \in 1..n /\ i = b + (i - b)
        BY <3>1
      <4> QED
        BY <4>1
    <3> QED
      BY <3>1
  <2> QED
    BY <1>6, <1>7, <2>1
<1>9. PICK keys : keys = message.keys
  OBVIOUS
<1>10. PICK m \in Nat : m = b + n
  OBVIOUS
<1>11. /\ Readable(message) /\ FeePayerOf(message) = Relayer
       /\ DOMAIN decoded = 1..(b + n)
       /\ \A i \in 1..(b + n) : IsReadAs(keys, list[i], decoded[i])
       /\ \A x \in Named(list) \cup {Relayer, Vault} :
            x \in {Relayer, Vault} \cup Called(list) \/ x \notin LookupTables
              => Shown(keys, x) = x /\ \E k \in DOMAIN keys : keys[k] = x
  <2>1. message = CompileAll(request, legs)
    BY <1>1
  <2>2. DOMAIN list = 1..m
    BY <1>4, <1>10
  <2>3. \A i \in 1..m : IsInstruction(list[i])
    BY <1>8, <1>10
  <2>4. IsCompiled(message, decoded, list, request.vault)
    BY <1>2, <2>1, <2>2, <2>3, CompiledIs
  <2> QED
    BY <1>9, <1>10, <2>2, <2>4 DEF IsCompiled
<1>12. ASSUME NEW i \in 1..(b + n)
       PROVE  Shown(keys, list[i].program) = list[i].program
  <2>1. i \in DOMAIN list
    BY <1>4
  <2>2. list[i].program \in Called(list)
    BY <2>1 DEF Called
  <2>3. list[i].program \in Named(list)
    BY <2>1 DEF Named
  <2> QED
    BY <1>11, <2>2, <2>3
<1>13. ASSUME NEW i \in 1..b PROVE IsSetup(decoded[i], i)
  <2>0. i \in 1..(b + n)
    OBVIOUS
  <2>1. PICK x, z : x = list[i] /\ z = decoded[i]
    OBVIOUS
  <2>2. /\ z.program = x.program /\ z.kind = KindOf(x.program, x.op)
        /\ DOMAIN z.accounts = DOMAIN x.accounts
        /\ \A a \in DOMAIN x.accounts : z.accounts[a] = Shown(keys, x.accounts[a])
    BY <1>11, <1>12, <2>0, <2>1 DEF IsReadAs
  <2>3. CASE i = 1 /\ x = NonceAdvance
    <3>1. /\ x.program = SystemProgram /\ x.op = "AdvanceNonce"
          /\ DOMAIN x.accounts = 1..3 /\ x.accounts[3] = Relayer
      BY <2>3, AdvanceIs
    <3>2. KindOf(SystemProgram, "AdvanceNonce") = "advance-nonce"
      BY ProgramsDiffer DEF KindOf, Lookup, SystemKind
    <3>3. Shown(keys, Relayer) = Relayer
      BY <1>11
    <3> QED
      BY <2>1, <2>2, <2>3, <3>1, <3>2, <3>3 DEF IsSetup
  <2>4. CASE Prelude(x, Vault)
    <3>1. x.program \in {ComputeBudget, AssociatedToken}
      BY <2>4, PreludeIs
    <3>2. KindOf(x.program, x.op) \in {"compute-budget", "create-ata"}
      BY <3>1, ProgramsDiffer DEF KindOf
    <3> QED
      BY <2>1, <2>2, <3>1, <3>2 DEF IsSetup
  <2> QED
    BY <1>4, <2>1, <2>3, <2>4
<1>14. ASSUME NEW k \in 1..n PROVE IsSwapOf(decoded[b + k], legs[k], slippageBps)
  <2>1. PICK x, z : x = list[b + k] /\ z = decoded[b + k]
    OBVIOUS
  <2>2. /\ x.program = Jupiter /\ x.op = legs[k].route
        /\ x.args = [first |-> legs[k].inAmount, second |-> legs[k].quoted,
                     slippageBps |-> slippageBps]
        /\ AuthorityIndex[x.op] \in DOMAIN x.accounts
        /\ x.accounts[AuthorityIndex[x.op]] = Vault
    BY <1>6, <2>1
  <2>3. /\ z.program = x.program /\ z.kind = KindOf(x.program, x.op)
        /\ z.op = x.op /\ z.args = x.args
        /\ DOMAIN z.accounts = DOMAIN x.accounts
        /\ \A a \in DOMAIN x.accounts : z.accounts[a] = Shown(keys, x.accounts[a])
    BY <1>5, <1>11, <1>12, <2>1 DEF IsReadAs
  <2>4. x.op \in Routes
    BY <1>5, <2>2 DEF Routes
  <2>5. KindOf(Jupiter, x.op) = "jupiter-route"
    BY <2>4, ProgramsDiffer DEF KindOf
  <2>6. Shown(keys, Vault) = Vault
    BY <1>11
  <2> QED
    BY <2>1, <2>2, <2>3, <2>5, <2>6 DEF IsSwapOf
<1>15. ASSUME NEW k \in 1..n
       PROVE  \E j \in DOMAIN keys : keys[j] = DeriveAta(Vault, legs[k].outMint)
  <2>1. PICK x, account : x = list[b + k] /\ account = DeriveAta(Vault, legs[k].outMint)
    OBVIOUS
  <2>2. \E a \in DOMAIN x.accounts : x.accounts[a] = account
    BY <1>6, <2>1
  <2>5. b + k \in DOMAIN list
    BY <1>4, <1>5
  <2>3. account \in Named(list)
    BY <2>1, <2>2, <2>5 DEF Named
  <2>4. account \notin LookupTables
    BY <1>5, <2>1
  <2> QED
    BY <1>11, <2>1, <2>3, <2>4
<1> QED
  BY <1>1, <1>4, <1>9, <1>11, <1>13, <1>14, <1>15

(* What the vault needs of the manifest. *)
Describes(manifest, request) ==
  /\ manifest.legs = [i \in DOMAIN request.legs |->
                        [inMint            |-> request.legs[i].inMint,
                         outMint           |-> request.legs[i].outMint,
                         inAmount          |-> request.legs[i].inAmount,
                         expectedOutAmount |-> request.legs[i].quoted]]
  /\ manifest.slippageBps = request.slippageBps
  /\ DOMAIN manifest.mints = {m \in Asset : \E i \in DOMAIN request.legs :
                                m \in {request.legs[i].inMint, request.legs[i].outMint}}
  /\ \A mint \in DOMAIN manifest.mints :
       /\ manifest.mints[mint].multiplier \in MinMultiplier..MaxMultiplier
       /\ manifest.mints[mint].nextMultiplier \in {Nobody} \cup MinMultiplier..MaxMultiplier
       /\ manifest.mints[mint].nextMultiplier # Nobody
            => manifest.mints[mint].nextMultiplierAt # Nobody

LEMMA PurchaseBreaksNothing ==
  ASSUME NEW request, request.vault = Vault, IsPurchase(request),
         \A mint \in Asset : DeriveAta(Vault, mint) \notin LookupTables,
         NEW message, message = CompileAll(request, request.legs),
         NEW manifest, Describes(manifest, request)
  PROVE  Readable(message) /\ Violations(message, manifest) = {}
<1>1. PICK legs, slippageBps : legs = request.legs /\ slippageBps = request.slippageBps
  OBVIOUS
<1>2. PICK decoded : decoded = Decompile(message)
  OBVIOUS
<1>3. /\ Readable(message) /\ FeePayerOf(message) = Relayer
      /\ \A k \in DOMAIN legs : \E j \in DOMAIN message.keys :
           message.keys[j] = DeriveAta(Vault, legs[k].outMint)
  BY <1>1, <1>2, PurchaseReads
<1>4. PICK b, n \in Nat :
        /\ DOMAIN legs = 1..n /\ DOMAIN decoded = 1..(b + n)
        /\ \A i \in 1..b : IsSetup(decoded[i], i)
        /\ \A k \in 1..n : IsSwapOf(decoded[b + k], legs[k], slippageBps)
  BY <1>1, <1>2, PurchaseReads
<1>5. /\ request.vault # Relayer
      /\ slippageBps \in 1..MaxSlippageBps
      /\ \A i \in 1..n : /\ legs[i].outMint \in Asset
                         /\ legs[i].route \in {"route", "sharedAccountsRoute"}
                         /\ {legs[i].inMint, legs[i].outMint} \subseteq Asset \cup {Usdc}
  BY <1>1, <1>4 DEF IsPurchase, Builds, KnownMints
<1>6. ASSUME NEW i \in 1..(b + n) PROVE i \in 1..b \/ \E k \in 1..n : i = b + k
  <2>1. CASE i > b
    <3>1. i - b \in 1..n /\ i = b + (i - b)
      BY <2>1
    <3> QED
      BY <3>1
  <2> QED
    BY <2>1
<1>7. ASSUME NEW i \in 1..b
      PROVE  /\ i \in 1..(b + n) /\ decoded[i].program \in AllowedPrograms
             /\ decoded[i].kind \in {"advance-nonce", "compute-budget", "create-ata"}
             /\ decoded[i].kind = "advance-nonce" =>
                  i = 1 /\ 3 \in DOMAIN decoded[i].accounts /\ decoded[i].accounts[3] = Relayer
  <2>1. IsSetup(decoded[i], i)
    BY <1>4
  <2> QED
    BY <2>1 DEF IsSetup, AllowedPrograms
<1>8. ASSUME NEW k \in 1..n
      PROVE  /\ b + k \in 1..(b + n) /\ decoded[b + k].program \in AllowedPrograms
             /\ decoded[b + k].kind = "jupiter-route"
  <2>1. IsSwapOf(decoded[b + k], legs[k], slippageBps)
    BY <1>4
  <2> QED
    BY <2>1 DEF IsSwapOf, AllowedPrograms
<1>9. ASSUME NEW i \in 1..(b + n)
      PROVE  /\ decoded[i].program \in AllowedPrograms
             /\ decoded[i].kind \in {"advance-nonce", "compute-budget", "create-ata",
                                     "jupiter-route"}
  BY <1>6, <1>7, <1>8
<1>10. RoutesOf(decoded) = (b + 1)..(b + n)
  <2>1. ASSUME NEW i \in RoutesOf(decoded) PROVE i \in (b + 1)..(b + n)
    <3>1. i \in 1..(b + n) /\ decoded[i].kind = "jupiter-route"
      BY <1>4 DEF RoutesOf
    <3>2. i \notin 1..b
      BY <1>7, <3>1
    <3> QED
      BY <3>1, <3>2
  <2>2. ASSUME NEW i \in (b + 1)..(b + n) PROVE i \in RoutesOf(decoded)
    <3>1. i - b \in 1..n /\ i = b + (i - b)
      OBVIOUS
    <3>2. decoded[i].kind = "jupiter-route" /\ i \in 1..(b + n)
      BY <1>8, <3>1
    <3> QED
      BY <1>4, <3>2 DEF RoutesOf
  <2> QED
    BY <2>1, <2>2
<1>11. PICK swaps : swaps = Swaps(decoded)
  OBVIOUS
<1>12. Len(swaps) = n /\ DOMAIN swaps = 1..n /\ \A k \in 1..n : swaps[k] = decoded[b + k]
  <2>1. PICK S : S = RoutesOf(decoded)
    OBVIOUS
  <2>2. S = (b + 1)..(b + n)
    BY <1>10, <2>1
  <2>3. swaps = EntriesAt(decoded, S)
    BY <1>11, <2>1 DEF Swaps
  <2>5. IsStretch(S, b, n)
    BY <2>2, StretchIs
  <2>6. IsPart(EntriesAt(decoded, S), decoded, b, n)
    BY <2>5, EntriesOfStretch, Zenon
  <2> QED
    BY <2>3, <2>6 DEF IsPart
<1>13. PICK mlegs : mlegs = manifest.legs
  OBVIOUS
<1>14. /\ DOMAIN mlegs = 1..n
       /\ \A i \in 1..n : /\ mlegs[i].inMint = legs[i].inMint /\ mlegs[i].outMint = legs[i].outMint
                          /\ mlegs[i].inAmount = legs[i].inAmount
                          /\ mlegs[i].expectedOutAmount = legs[i].quoted
  BY <1>1, <1>4, <1>13 DEF Describes
<1>15. Len(mlegs) = n
  <2>1. mlegs = [i \in 1..n |-> mlegs[i]]
    BY <1>1, <1>4, <1>13 DEF Describes
  <2> QED
    BY <2>1, ListIs
<1>16. ~ProgramNotAllowed(decoded)
  BY <1>4, <1>9 DEF ProgramNotAllowed
<1>17. /\ ~HasKind(decoded, {"token-approve", "token-authority"})
       /\ ~HasKind(decoded, {"token-close", "token-burn"})
       /\ ~LamportsLeave(decoded)
  BY <1>4, <1>9 DEF HasKind, LamportsLeave
<1>18. ~VaultPaysFees(message)
  BY <1>3, <1>5 DEF VaultPaysFees
<1>19. ASSUME NEW i \in 1..n PROVE ~LandsElsewhere(message, decoded, mlegs[i])
  <2>1. mlegs[i].outMint = legs[i].outMint /\ legs[i].outMint \in Asset
    BY <1>5, <1>14
  <2>2. \E j \in DOMAIN message.keys : message.keys[j] = DeriveAta(Vault, legs[i].outMint)
    BY <1>3, <1>4
  <2> QED
    BY <2>1, <2>2 DEF LandsElsewhere
<1>20. ASSUME NEW i \in 1..n
       PROVE  /\ ~AmountsDiffer(swaps[i], mlegs[i]) /\ ~SlipsTooFar(swaps[i], manifest)
              /\ ~AnotherAuthorises(swaps[i])
  <2>1. PICK z, leg : z = swaps[i] /\ leg = legs[i]
    OBVIOUS
  <2>2. IsSwapOf(z, leg, slippageBps) /\ leg.route \in {"route", "sharedAccountsRoute"}
    BY <1>4, <1>5, <1>12, <2>1
  <2>3. /\ z.op \in {"route", "sharedAccountsRoute"}
        /\ z.args.first = leg.inAmount /\ z.args.second = leg.quoted
        /\ z.args.slippageBps = slippageBps
        /\ AuthorityIndex[z.op] \in DOMAIN z.accounts /\ z.accounts[AuthorityIndex[z.op]] = Vault
    BY <2>2 DEF IsSwapOf
  <2>4. ~ExactOut(z.op)
    BY <2>3 DEF ExactOut
  <2>5. ~AmountsDiffer(z, mlegs[i])
    BY <1>14, <2>1, <2>3, <2>4 DEF AmountsDiffer, PaysIn, ReceivesOut
  <2>6. ~SlipsTooFar(z, manifest)
    BY <1>1, <1>5, <2>3, TxPolicyAssumption DEF SlipsTooFar, Describes, TxPolicyAssumption
  <2>7. z.op \in DOMAIN AuthorityIndex
    BY <2>3 DEF AuthorityIndex
  <2>8. ~AnotherAuthorises(z)
    BY <2>3, <2>7 DEF AnotherAuthorises
  <2> QED
    BY <2>1, <2>5, <2>6, <2>8
<1>21. ~AdvanceMisplaced(decoded)
  <2>1. PICK advances : advances = {i \in DOMAIN decoded : decoded[i].kind = "advance-nonce"}
    OBVIOUS
  <2>2. ASSUME NEW i \in advances
        PROVE  i = 1 /\ 3 \in DOMAIN decoded[i].accounts /\ decoded[i].accounts[3] = Relayer
    <3>1. i \in 1..(b + n) /\ decoded[i].kind = "advance-nonce"
      BY <1>4, <2>1
    <3>2. i \in 1..b
      BY <1>6, <1>8, <3>1
    <3> QED
      BY <1>7, <3>1, <3>2
  <2>3. advances \subseteq {1}
    BY <2>2
  <2>4. Cardinality(advances) \in Nat /\ Cardinality(advances) <= 1
    <3>1. IsFiniteSet({1}) /\ Cardinality({1}) = 1
      BY FS_Singleton
    <3> QED
      BY <2>3, <3>1, FS_Subset, FS_CardinalityType
  <2>5. Relayer \notin {Unnamed, Vault}
    BY <1>5, OrderReviewAssumption DEF OrderReviewAssumption
  <2> QED
    BY <2>1, <2>2, <2>4, <2>5 DEF AdvanceMisplaced
<1>22. LegMints(manifest) = UNION {{legs[i].inMint, legs[i].outMint} : i \in 1..n}
  BY <1>13, <1>14 DEF LegMints
<1>23. DOMAIN manifest.mints = LegMints(manifest) \cap Asset
  <2>1. PICK D : D = DOMAIN manifest.mints
    OBVIOUS
  <2>2. D = {m \in Asset : \E i \in DOMAIN legs : m \in {legs[i].inMint, legs[i].outMint}}
    BY <1>1, <2>1 DEF Describes
  <2>3. ASSUME NEW m PROVE m \in D <=> m \in LegMints(manifest) \cap Asset
    BY <1>4, <1>22, <2>2
  <2> QED
    BY <2>1, <2>3
<1>24. ASSUME NEW mint \in LegMints(manifest) PROVE ~MultiplierRefused(manifest, mint)
  <2>1. CASE mint \in Asset
    <3>1. mint \in DOMAIN manifest.mints
      BY <1>23, <2>1
    <3>2. PICK multiplier, next : multiplier = manifest.mints[mint].multiplier
                                  /\ next = manifest.mints[mint].nextMultiplier
      OBVIOUS
    <3>3. multiplier \in MinMultiplier..MaxMultiplier
          /\ next \in {Nobody} \cup MinMultiplier..MaxMultiplier
      BY <3>1, <3>2 DEF Describes
    <3>4. ~MultiplierProblem(multiplier) /\ (next # Nobody => ~MultiplierProblem(next))
      BY <3>3, TxPolicyAssumption DEF MultiplierProblem, TxPolicyAssumption
    <3> QED
      BY <2>1, <3>1, <3>2, <3>4 DEF MultiplierRefused, IsScaledMint, Declares
  <2>2. CASE mint \notin Asset
    BY <1>23, <2>2 DEF MultiplierRefused, IsScaledMint, Declares
  <2> QED
    BY <2>1, <2>2
<1>25. ASSUME NEW rule \in RuleNames PROVE ~Breaks(rule, message, manifest)
  <2>1. rule \in {"P1", "P2", "P3", "P4", "P8", "P10"} => ~Breaks(rule, message, manifest)
    BY <1>2, <1>16, <1>17, <1>18, <1>21 DEF Breaks
  <2>2. rule = "P5" => ~Breaks(rule, message, manifest)
    BY <1>2, <1>13, <1>14, <1>19 DEF Breaks
  <2>3. rule \in {"P6", "P7"} => ~Breaks(rule, message, manifest)
    BY <1>2, <1>11, <1>12, <1>13, <1>14, <1>20 DEF Breaks
  <2>4. rule = "P9" => ~Breaks(rule, message, manifest)
    BY <1>2, <1>11, <1>12, <1>13, <1>15 DEF Breaks
  <2>5. rule = "P11" => ~Breaks(rule, message, manifest)
    BY <1>23, <1>24 DEF Breaks
  <2>6. rule = "P12" => ~Breaks(rule, message, manifest)
    BY <1>2, <1>11, <1>12, <1>20 DEF Breaks
  <2> QED
    BY <2>1, <2>2, <2>3, <2>4, <2>5, <2>6 DEF RuleNames
<1>26. Violations(message, manifest) = {}
  BY <1>25 DEF Violations
<1> QED
  BY <1>3, <1>26

-----------------------------------------------------------------------------
(* The manifest that travels with it *)

(* On the wire a multiplier to come keeps its date, or is left out.          *)
LEMMA FactsTravel ==
  ASSUME NEW facts,
         {"multiplier", "nextMultiplier", "nextMultiplierAt"} \subseteq DOMAIN facts,
         NEW sent, sent = EncodeMintFacts(facts)
  PROVE  /\ sent.multiplier = facts.multiplier
         /\ sent.nextMultiplier \in {Nobody, facts.nextMultiplier}
         /\ sent.nextMultiplier # Nobody => sent.nextMultiplierAt # Nobody
<1>1. PICK next, date :
        /\ next = IF /\ facts.nextMultiplier # Nobody
                     /\ facts.nextMultiplierAt # Nobody
                     /\ facts.nextMultiplier # facts.multiplier
                  THEN facts.nextMultiplier ELSE Nobody
        /\ date = IF /\ facts.nextMultiplier # Nobody
                     /\ facts.nextMultiplierAt # Nobody
                     /\ facts.nextMultiplier # facts.multiplier
                  THEN facts.nextMultiplierAt ELSE Nobody
  OBVIOUS
<1>2. sent = [facts EXCEPT !.nextMultiplier = next, !.nextMultiplierAt = date]
  BY <1>1 DEF EncodeMintFacts
<1>3. sent.multiplier = facts.multiplier /\ sent.nextMultiplier = next /\ sent.nextMultiplierAt = date
  BY <1>2
<1>4. next \in {Nobody, facts.nextMultiplier}
  BY <1>1
<1>5. next # Nobody => date # Nobody
  BY <1>1
<1> QED
  BY <1>3, <1>4, <1>5

LEMMA ManifestDescribes ==
  ASSUME NEW request, IsPurchase(request), NEW factsOf, AreFacts(factsOf), NEW at,
         NEW manifest, manifest = EncodeManifest(ManifestOf(request, factsOf, at))
  PROVE  Describes(manifest, request) /\ WellFormedManifest(manifest)
<1>1. PICK legs, D :
        /\ legs = [i \in DOMAIN request.legs |->
                     [inMint            |-> request.legs[i].inMint,
                      outMint           |-> request.legs[i].outMint,
                      inAmount          |-> request.legs[i].inAmount,
                      expectedOutAmount |-> request.legs[i].quoted]]
        /\ D = {m \in Asset : \E i \in DOMAIN request.legs :
                  m \in {request.legs[i].inMint, request.legs[i].outMint}}
  OBVIOUS
<1>2. PICK mints : mints = [mint \in D |-> factsOf[mint]]
  OBVIOUS
<1>3. PICK kind : kind = IF Len(request.legs) > 1 THEN "BASKET" ELSE "BUY"
  OBVIOUS
<1>4. PICK plain : plain = [kind |-> kind, legs |-> legs, slippageBps |-> request.slippageBps,
                            feePayer |-> Relayer, quotedAt |-> at, mints |-> mints]
  OBVIOUS
<1>5. ManifestOf(request, factsOf, at) = plain
  BY <1>1, <1>2, <1>3, <1>4, Zenon DEF ManifestOf
<1>6. PICK sent : sent = [mint \in DOMAIN plain.mints |-> EncodeMintFacts(plain.mints[mint])]
  OBVIOUS
<1>7. manifest = [plain EXCEPT !.mints = sent]
  BY <1>5, <1>6 DEF EncodeManifest
<1>8. /\ manifest.kind = kind /\ manifest.legs = legs
      /\ manifest.slippageBps = request.slippageBps /\ manifest.mints = sent
  BY <1>4, <1>7
<1>9. plain.mints = mints
  BY <1>4
<1>10. DOMAIN sent = D
  BY <1>2, <1>6, <1>9
<1>11. ASSUME NEW mint \in D
       PROVE  /\ sent[mint].multiplier \in MinMultiplier..MaxMultiplier
              /\ sent[mint].nextMultiplier \in {Nobody} \cup MinMultiplier..MaxMultiplier
              /\ sent[mint].nextMultiplier # Nobody => sent[mint].nextMultiplierAt # Nobody
  <2>1. PICK facts : facts = factsOf[mint]
    OBVIOUS
  <2>2. sent[mint] = EncodeMintFacts(facts)
    BY <1>2, <1>6, <1>9, <2>1
  <2>3. /\ {"multiplier", "nextMultiplier", "nextMultiplierAt"} \subseteq DOMAIN facts
        /\ facts.multiplier \in MinMultiplier..MaxMultiplier
        /\ facts.nextMultiplier \in {Nobody} \cup MinMultiplier..MaxMultiplier
    BY <1>1, <2>1 DEF AreFacts
  <2>4. /\ sent[mint].multiplier = facts.multiplier
        /\ sent[mint].nextMultiplier \in {Nobody, facts.nextMultiplier}
        /\ sent[mint].nextMultiplier # Nobody => sent[mint].nextMultiplierAt # Nobody
    BY <2>2, <2>3, FactsTravel
  <2> QED
    BY <2>3, <2>4
<1>12. Describes(manifest, request)
  BY <1>1, <1>8, <1>10, <1>11 DEF Describes
<1>13. legs # << >>
  <2>1. PICK asked : asked = request.legs
    OBVIOUS
  <2>2. IsSequence(asked) /\ asked # << >>
    BY <2>1 DEF IsPurchase, Builds
  <2>3. DOMAIN asked # {}
    <3>1. PICK T : asked \in Seq(T)
      BY <2>2 DEF IsSequence
    <3>2. DOMAIN asked = 1..Len(asked) /\ Len(asked) \in Nat
      BY <3>1
    <3>3. Len(asked) # 0
      BY <2>2, <3>1, EmptySeq
    <3> QED
      BY <3>2, <3>3
  <2> QED
    BY <1>1, <2>1, <2>3
<1>14. ASSUME NEW mint \in DOMAIN manifest.mints
       PROVE  /\ manifest.mints[mint].multiplier > 0
              /\ Positive(manifest.mints[mint].nextMultiplier)
              /\ manifest.mints[mint].nextMultiplier # Nobody =>
                   manifest.mints[mint].nextMultiplierAt # Nobody
  BY <1>8, <1>10, <1>11, TxPolicyAssumption DEF Positive, TxPolicyAssumption
<1>15. manifest.kind \in {"BUY", "BASKET"}
  BY <1>3, <1>8
<1> QED
  BY <1>8, <1>12, <1>13, <1>14, <1>15 DEF WellFormedManifest

LEMMA OneMessage ==
  ASSUME NEW request, Len(Messages(request)) = 1
  PROVE  Messages(request) # << >> /\ Messages(request)[1] = CompileAll(request, request.legs)
<1>1. PICK message : message = CompileAll(request, request.legs)
  OBVIOUS
<1>2. Messages(request) # << >>
  <2>1. Len(<< >>) = 0
    OBVIOUS
  <2> QED
    BY <2>1
<1>3. CASE Fits(request, Len(request.legs))
  <2>1. Messages(request) = <<message>>
    BY <1>1, <1>3 DEF Messages
  <2> QED
    BY <1>1, <1>2, <2>1
<1>4. CASE ~Fits(request, Len(request.legs))
  <2>1. CASE Len(request.legs) > 1 /\ Fits(request, Half(request))
    <3>1. PICK one, two : Messages(request) = <<one, two>>
      BY <1>4, <2>1 DEF Messages
    <3>2. Len(<<one, two>>) = 2
      OBVIOUS
    <3> QED
      BY <3>1, <3>2
  <2>2. CASE ~(Len(request.legs) > 1 /\ Fits(request, Half(request)))
    BY <1>2, <1>4, <2>2 DEF Messages
  <2> QED
    BY <2>1, <2>2
<1> QED
  BY <1>3, <1>4

-----------------------------------------------------------------------------
USE ReviewAssumption DEF ReviewAssumption

(* The screen was drawn no later than now, with the tolerance stored, and   *)
(* what is on the signing screen is what the button of that drawing allowed.*)
DrawnBefore == drawnAt <= now

DrawnAsStored == stage \in {"review", "sign", "signed"} => drawnWith = LoadSettings

ButtonAllowed == stage \in {"sign", "signed"} => ApproveEnabled(drawnAt, drawnWith)

RInv == TypeOK /\ (stage # "carried" => DrawnBefore) /\ DrawnAsStored /\ ButtonAllowed

-----------------------------------------------------------------------------
(* The tolerance in use is never above the built-in one.                    *)
LEMMA ToleranceIsCapped ==
  ASSUME TypeOK
  PROVE  LoadSettings \in 0..MaxDeviation
<1>1. CASE stored \in {Nobody, Corrupt, 0} \/ stored > MaxDeviation
  BY <1>1 DEF LoadSettings
<1>2. CASE ~(stored \in {Nobody, Corrupt, 0} \/ stored > MaxDeviation)
  <2>1. stored \in Nat
    BY <1>2 DEF TypeOK
  <2> QED
    BY <1>2, <2>1 DEF LoadSettings
<1> QED
  BY <1>1, <1>2

LEMMA InitRInv ==
  ASSUME Init
  PROVE  RInv
<1>1. delivered \in Deliveries /\ now \in Nat
  BY DEF Init
<1>2. drawnWith \in 0..MaxDeviation /\ drawnAt \in Nat
  BY DEF Init
<1>3. acknowledged \in BOOLEAN
  BY DEF Init
<1>4. stored \in Stored \cup Choices /\ stage \in Stages
  BY DEF Init, Stages
<1>5. TypeOK
  BY <1>1, <1>2, <1>3, <1>4 DEF TypeOK
<1> QED
  BY <1>5 DEF Init, RInv, DrawnAsStored, ButtonAllowed

LEMMA NextTypes ==
  ASSUME RInv, [Next]_vars
  PROVE  TypeOK'
<1>1. TypeOK /\ LoadSettings \in 0..MaxDeviation
  BY ToleranceIsCapped DEF RInv
<1>2. CASE Tick
  BY <1>1, <1>2 DEF Tick, TypeOK
<1>3. CASE Open \/ Acknowledge \/ Redraw
  BY <1>1, <1>3 DEF Open, Acknowledge, Redraw, Draw, TypeOK, Stages
<1>4. CASE Approve \/ Reject \/ Confirm \/ Leave
  BY <1>1, <1>4 DEF Approve, Reject, Confirm, Leave, TypeOK, Stages
<1>5. CASE ChooseTolerance
  <2>1. PICK choice \in Choices : stored' = SaveSettings(choice)
    BY <1>5 DEF ChooseTolerance
  <2>2. choice \in Nat /\ choice <= MaxDeviation /\ MaxDeviation \in Nat
    OBVIOUS
  <2>3. stored' = choice
    BY <2>1, <2>2 DEF SaveSettings
  <2> QED
    BY <1>1, <1>5, <2>3 DEF ChooseTolerance, TypeOK
<1>6. CASE UNCHANGED vars
  BY <1>1, <1>6 DEF vars, TypeOK
<1> QED
  BY <1>2, <1>3, <1>4, <1>5, <1>6 DEF Next

(* What is computed of the order delivered does not change.                  *)
LEMMA OrderStays ==
  ASSUME [Next]_vars
  PROVE  /\ delivered' = delivered /\ VerdictState' = VerdictState /\ Clean' = Clean
         /\ PricedLegs' = PricedLegs
<1>1. delivered' = delivered
  BY DEF Next, Tick, Open, Acknowledge, Redraw, Approve, Reject, Confirm, Leave,
         ChooseTolerance, vars
<1>2. VerdictState' = VerdictState
  BY <1>1 DEF VerdictState, Payload_, Message, Manifest
<1>3. Clean' = Clean
  BY <1>1, <1>2 DEF Clean, Payload_, Message, Manifest
<1> QED
  BY <1>1, <1>2, <1>3 DEF PricedLegs, Payload_, Message, Manifest

LEMMA NextRInv ==
  ASSUME RInv, [Next]_vars
  PROVE  RInv'
<1>1. TypeOK'
  BY NextTypes
<1>2. (stage # "carried" => DrawnBefore)'
  BY DEF RInv, TypeOK, DrawnBefore, Next, Tick, Open, Acknowledge, Redraw, Draw, Approve, Reject,
         Confirm, Leave, ChooseTolerance, vars
<1>3. DrawnAsStored'
  BY DEF RInv, DrawnAsStored, LoadSettings, Next, Tick, Open, Acknowledge, Redraw, Draw,
         Approve, Reject, Confirm, Leave, ChooseTolerance, vars
<1>4. ButtonAllowed'
  <2>1. SUFFICES ASSUME stage' \in {"sign", "signed"} PROVE ApproveEnabled(drawnAt, drawnWith)'
    BY DEF ButtonAllowed
  <2>2. ApproveEnabled(drawnAt, drawnWith)
    BY <2>1 DEF RInv, ButtonAllowed, Next, Tick, Open, Acknowledge, Redraw, Approve, Reject,
       Confirm, Leave, ChooseTolerance, vars
  <2>3. UNCHANGED <<drawnAt, drawnWith, acknowledged>>
    BY <2>1 DEF Next, Tick, Open, Acknowledge, Redraw, Approve, Reject, Confirm, Leave,
       ChooseTolerance, vars
  <2> QED
    BY <2>2, <2>3, OrderStays DEF ApproveEnabled, Refused, PriceRefuses, PriceVerified, PriceState,
       Payload_
<1> QED
  BY <1>1, <1>2, <1>3, <1>4 DEF RInv

THEOREM TypeCorrect == Spec => []TypeOK
<1>1. Init => RInv
  BY InitRInv
<1>2. RInv /\ [Next]_vars => RInv'
  BY NextRInv
<1>3. RInv => TypeOK
  BY DEF RInv
<1> QED
  BY <1>1, <1>2, <1>3, PTL DEF Spec

(* What is signed, or about to be, is what the button of the last drawing   *)
(* allowed, under the tolerance that is stored: ticking, waiting, leaving   *)
(* and changing the settings open no other way to the signing screen.       *)
THEOREM ByTheButtonAlone ==
  Spec => [](stage \in {"sign", "signed"} => ApproveEnabled(drawnAt, LoadSettings))
<1>1. Init => RInv
  BY InitRInv
<1>2. RInv /\ [Next]_vars => RInv'
  BY NextRInv
<1>3. RInv => (stage \in {"sign", "signed"} => ApproveEnabled(drawnAt, LoadSettings))
  BY DEF RInv, ButtonAllowed, DrawnAsStored
<1> QED
  BY <1>1, <1>2, <1>3, PTL DEF Spec

-----------------------------------------------------------------------------
(* A price is too old, or its signer's time is over, at some time. *)
Late(at) == Verify(Payload_.price, at) \in {"stale", "signer-expired"}

LateAlready == stage = "review" /\ PriceFailure \in {"stale", "signer-expired"}

Doomed ==
  /\ VerdictState = "checked" /\ Payload_.price # Nobody
  /\ Late(now)
  /\ stage \in {"carried", "review", "rejected"}
  /\ stage = "review" => Late(drawnAt)

(* Time does not make a price younger, nor an expired signer trusted.       *)
LEMMA LateStays ==
  ASSUME NEW price, NEW early \in Int, NEW late \in Int, early <= late,
         price.signedAt \in Int,
         Verify(price, early) \in {"stale", "signer-expired"}
  PROVE  Verify(price, late) \in {"stale", "signer-expired"}
<1>1. Parses(price) /\ price.genuine /\ FindSigner(price)
  BY DEF Verify
<1>2. Signers[price.signer] \in Int
  BY <1>1 DEF FindSigner
<1>3. Signers[price.signer] <= early \/ early - price.signedAt > MaxAgeSeconds
  BY <1>1, <1>2 DEF Verify, Age
<1>4. Signers[price.signer] <= late \/ late - price.signedAt > MaxAgeSeconds
  BY <1>2, <1>3
<1> QED
  BY <1>1, <1>2, <1>4 DEF Verify, Age

(* A price that is late is rejected, and a rejected one has no button.       *)
LEMMA LateHasNoButton ==
  ASSUME Payload_.price # Nobody, NEW at, NEW tolerance, Late(at)
  PROVE  ~ApproveEnabled(at, tolerance)
<1>1. PriceState(at) = "rejected"
  BY DEF PriceState, AttestationState, Late
<1>2. ~PriceVerified(at, tolerance)
  BY <1>1 DEF PriceVerified, PermitsSigning, PriceState
<1>3. ~CanAcknowledge(PriceState(at))
  BY <1>1 DEF CanAcknowledge
<1> QED
  BY <1>2, <1>3 DEF ApproveEnabled

LEMMA PriceIsDated ==
  ASSUME TypeOK, VerdictState = "checked", Payload_.price # Nobody
  PROVE  Payload_.price.signedAt \in Int
<1>1. Payload_.kind = "SIGN"
  BY DEF VerdictState
<1> QED
  BY <1>1 DEF TypeOK, Payload_, IsRequest, IsPrice

LEMMA LateIsDoomed ==
  ASSUME RInv, LateAlready
  PROVE  Doomed
<1>1. VerdictState = "checked" /\ Payload_.price # Nobody /\ Late(drawnAt)
  BY DEF LateAlready, PriceFailure, Late
<1>2. drawnAt \in Int /\ now \in Int /\ drawnAt <= now
  BY DEF RInv, TypeOK, DrawnBefore, LateAlready
<1>3. Payload_.price.signedAt \in Int
  BY <1>1, PriceIsDated DEF RInv
<1>4. Late(now)
  BY <1>1, <1>2, <1>3, LateStays DEF Late
<1> QED
  BY <1>1, <1>4 DEF Doomed, LateAlready

LEMMA DoomedStays ==
  ASSUME RInv, Doomed, [Next]_vars
  PROVE  Doomed'
<1>1. delivered' = delivered /\ VerdictState' = "checked" /\ Payload_' = Payload_
  BY OrderStays DEF Doomed, Payload_
<1>2. Payload_.price.signedAt \in Int
  BY PriceIsDated DEF RInv, Doomed
<1>3. now \in Int /\ now' \in Int /\ now <= now'
  BY DEF RInv, TypeOK, Next, Tick, Open, Acknowledge, Redraw, Approve, Reject, Confirm, Leave,
         ChooseTolerance, vars
<1>4. Verify(Payload_.price, now') \in {"stale", "signer-expired"}
  BY <1>2, <1>3, LateStays DEF Doomed, Late
<1>5. ~Approve /\ ~Confirm
  BY LateHasNoButton DEF Doomed, Approve, Confirm
<1>6. stage' \in {"carried", "review", "rejected"}
  BY <1>5 DEF Doomed, Next, Tick, Open, Acknowledge, Redraw, Reject, Leave, ChooseTolerance, vars
<1>7. stage' = "review" => drawnAt' = now \/ (stage = "review" /\ drawnAt' = drawnAt)
  BY <1>5 DEF Next, Tick, Open, Acknowledge, Redraw, Draw, Reject, Leave, ChooseTolerance, vars
<1>8. stage' = "review" => Verify(Payload_.price, drawnAt') \in {"stale", "signer-expired"}
  BY <1>7 DEF Doomed, Late
<1> QED
  BY <1>1, <1>4, <1>6, <1>8 DEF Doomed, Late

(* An order once drawn with a price too old, or a signer retired, is never  *)
(* signed: the price is looked at anew at each drawing, and time only makes *)
(* it worse.                                                                *)
THEOREM LateForGood == Spec => AgeRefusalIsFinal
<1>1. Init => RInv
  BY InitRInv
<1>2. RInv /\ [Next]_vars => RInv'
  BY NextRInv
<1>3. RInv /\ (stage = "review" /\ PriceFailure \in {"stale", "signer-expired"}) => Doomed
  BY LateIsDoomed DEF LateAlready
<1>4. RInv /\ Doomed /\ [Next]_vars => Doomed'
  BY DoomedStays
<1>5. Doomed => stage # "signed"
  BY DEF Doomed
<1> QED
  BY <1>1, <1>2, <1>3, <1>4, <1>5, PTL DEF Spec, AgeRefusalIsFinal

-----------------------------------------------------------------------------
(* The ticket of an order that breaks no rule names, once for each asset of *)
(* it, who can take that asset back, for any message and any manifest: P11  *)
(* makes every asset declared, and disclose groups by what is declared.     *)
LEMMA WarnedOfEachAsset ==
  ASSUME NEW message, NEW manifest, Violations(message, manifest) = {},
         NEW mint \in LegMints(manifest) \cap Asset
  PROVE  \E warning \in DelegateWarnings(manifest) :
           /\ mint \in warning.about
           /\ warning.delegate = manifest.mints[mint].permanentDelegate
           /\ \A other \in DelegateWarnings(manifest) :
                mint \in other.about => other = warning
<1>1. ~Breaks("P11", message, manifest)
  BY DEF Violations, RuleNames
<1>2. Declares(manifest, mint)
  BY <1>1 DEF Breaks, MultiplierRefused, IsScaledMint
<1>3. Delegate(manifest, mint) = manifest.mints[mint].permanentDelegate
  BY <1>2 DEF Delegate
<1>4. mint \in Delegated(manifest)
  BY DEF Delegated, HasPermanentDelegate
<1> DEFINE Group(m) == {n \in Delegated(manifest) :
                          /\ Delegate(manifest, n) = Delegate(manifest, m)
                          /\ n \in Asset <=> m \in Asset}
           Warning(m) == [about |-> Group(m), delegate |-> Delegate(manifest, m)]
<1>5. DelegateWarnings(manifest) = {Warning(m) : m \in Delegated(manifest)}
  BY DEF DelegateWarnings
<1>6. Warning(mint) \in DelegateWarnings(manifest)
  BY <1>4, <1>5
<1>7. mint \in Warning(mint).about /\ Warning(mint).delegate = Delegate(manifest, mint)
  BY <1>4
<1>8. ASSUME NEW m \in Delegated(manifest), mint \in Group(m)
      PROVE  Warning(m) = Warning(mint)
  <2>1. Delegate(manifest, mint) = Delegate(manifest, m) /\ (mint \in Asset <=> m \in Asset)
    BY <1>8
  <2>2. Group(m) = Group(mint)
    BY <2>1
  <2> QED
    BY <2>1, <2>2
<1>9. \A other \in DelegateWarnings(manifest) : mint \in other.about => other = Warning(mint)
  BY <1>5, <1>8
<1> QED
  BY <1>3, <1>6, <1>7, <1>9

THEOREM Disclosed == Spec => []DelegateIsDisclosed
<1>1. DelegateIsDisclosed
  BY WarnedOfEachAsset DEF DelegateIsDisclosed, Clean, Ticket
<1> QED
  BY <1>1, PTL

-----------------------------------------------------------------------------
(* The ticket *)

(* What breaks no rule. *)
LEMMA NothingBroken ==
  ASSUME NEW message, NEW manifest, Violations(message, manifest) = {}
  PROVE  LET swaps  == Swaps(Decompile(message))
             paired == DOMAIN swaps \cap DOMAIN manifest.legs
         IN  /\ ~VaultPaysFees(message)
             /\ \A i \in paired : ~AmountsDiffer(swaps[i], manifest.legs[i])
             /\ \A i \in paired : ~SlipsTooFar(swaps[i], manifest)
             /\ Len(swaps) = Len(manifest.legs)
             /\ \A mint \in LegMints(manifest) : ~MultiplierRefused(manifest, mint)
             /\ \A i \in DOMAIN swaps : ~AnotherAuthorises(swaps[i])
<1>1. \A rule \in RuleNames : ~Breaks(rule, message, manifest)
  BY DEF Violations
<1>2. /\ ~Breaks("P1", message, manifest) /\ ~Breaks("P6", message, manifest)
      /\ ~Breaks("P7", message, manifest) /\ ~Breaks("P9", message, manifest)
      /\ ~Breaks("P11", message, manifest) /\ ~Breaks("P12", message, manifest)
  BY <1>1 DEF RuleNames
<1> QED
  BY <1>2 DEF Breaks

(* The swaps of a decoded message are its route instructions, which say how  *)
(* far they may slip.                                                       *)
LEMMA SwapsOfMessage ==
  ASSUME NEW message, IsMessage(message)
  PROVE  LET swaps == Swaps(Decompile(message))
         IN  /\ Len(swaps) \in Nat /\ DOMAIN swaps = 1..Len(swaps)
             /\ \A i \in DOMAIN swaps : swaps[i].args.slippageBps \in Nat
<1> DEFINE decoded == Decompile(message)
           swaps == Swaps(decoded)
           n == Len(message.instructions)
<1>1. n \in Nat /\ DOMAIN message.instructions = 1..n
  BY DEF IsMessage, IsSequence
<1>2. DOMAIN decoded = 1..n
  BY <1>1 DEF Decompile
<1>3. /\ Len(swaps) \in Nat /\ DOMAIN swaps = 1..Len(swaps)
      /\ \A k \in DOMAIN swaps : \E i \in RoutesOf(decoded) : swaps[k] = decoded[i]
  <2> HIDE DEF decoded, n
  <2> QED
    BY <1>1, <1>2, SwapsAre
<1>4. ASSUME NEW i \in RoutesOf(decoded) PROVE decoded[i].args.slippageBps \in Nat
  <2>1. i \in DOMAIN message.instructions /\ decoded[i].kind = "jupiter-route"
    BY <1>1, <1>2 DEF RoutesOf
  <2>2. PICK instruction : instruction = message.instructions[i]
    OBVIOUS
  <2>3. decoded[i] = DecodeInstruction(message, instruction)
    BY <2>1, <2>2 DEF Decompile
  <2>4. KindOf(decoded[i].program, instruction.op) = "jupiter-route"
        /\ decoded[i].args = instruction.args
    BY <2>1, <2>3 DEF DecodeInstruction
  <2>5. instruction.op \in Routes
    BY <2>4 DEF KindOf, Lookup, TokenKind, SystemKind
  <2> QED
    BY <2>1, <2>2, <2>4, <2>5 DEF IsMessage
<1> QED
  BY <1>3, <1>4

(* P9 pairs the swaps with the legs, P6 and P7 compare them, P12 says who    *)
(* authorises them and P1 who pays: no more is needed for the ticket.       *)
LEMMA TicketOfMessage ==
  ASSUME NEW message, NEW manifest, IsMessage(message), IsManifest(manifest),
         Violations(message, manifest) = {}
  PROVE  LET swaps  == Swaps(Decompile(message))
             ticket == Ticket(message, manifest)
         IN  /\ DOMAIN swaps = DOMAIN manifest.legs
             /\ \A i \in DOMAIN swaps :
                  /\ PaysIn(swaps[i]) = manifest.legs[i].inAmount
                  /\ ReceivesOut(swaps[i]) = manifest.legs[i].expectedOutAmount
             /\ Len(ticket.legs) = Len(swaps)
             /\ ticket.paidBy = "relayer"
             /\ \A i \in DOMAIN swaps :
                  /\ ticket.legs[i].pay.raw = PaysIn(swaps[i])
                  /\ ticket.legs[i].receive.raw = ReceivesOut(swaps[i])
                  /\ swaps[i].args.slippageBps <= ticket.slippageBps
                  /\ \E a \in DOMAIN swaps[i].accounts : swaps[i].accounts[a] = Vault
<1> DEFINE ticket == Ticket(message, manifest)
<1>1. PICK swaps : swaps = Swaps(Decompile(message))
  OBVIOUS
<1>2. PICK legs : legs = manifest.legs
  OBVIOUS
<1>3. /\ Len(legs) \in Nat /\ DOMAIN legs = 1..Len(legs) /\ manifest.slippageBps \in Nat
      /\ \A i \in DOMAIN legs : legs[i].inAmount \in Nat /\ legs[i].expectedOutAmount \in Nat
  BY <1>2 DEF IsManifest, IsSequence
<1>4. /\ Len(swaps) \in Nat /\ DOMAIN swaps = 1..Len(swaps)
      /\ \A i \in DOMAIN swaps : swaps[i].args.slippageBps \in Nat
  BY <1>1, SwapsOfMessage
<1>5. Len(swaps) = Len(legs) /\ ~VaultPaysFees(message)
  BY <1>1, <1>2, NothingBroken
<1>6. DOMAIN swaps = DOMAIN legs
  BY <1>3, <1>4, <1>5
<1>7. ASSUME NEW i \in DOMAIN swaps
      PROVE  ~AmountsDiffer(swaps[i], legs[i]) /\ ~SlipsTooFar(swaps[i], manifest)
             /\ ~AnotherAuthorises(swaps[i])
  BY <1>1, <1>2, <1>6, NothingBroken
<1>8. ASSUME NEW i \in DOMAIN swaps
      PROVE  PaysIn(swaps[i]) = legs[i].inAmount /\ ReceivesOut(swaps[i]) = legs[i].expectedOutAmount
  BY <1>7 DEF AmountsDiffer
<1>9. ticket.legs = [i \in DOMAIN legs |-> [pay     |-> PayLine(manifest, legs[i], swaps[i]),
                                            receive |-> ReceiveLine(manifest, legs[i], swaps[i])]]
  BY <1>1, <1>2 DEF Ticket, TicketLegs
<1>10. Len(ticket.legs) = Len(swaps)
  <2>1. PICK lines : lines = ticket.legs
    OBVIOUS
  <2>2. lines \in [1..Len(legs) -> {lines[i] : i \in 1..Len(legs)}]
    BY <1>3, <1>9, <2>1
  <2>3. Len(lines) = Len(legs)
    BY <1>3, <2>2, SeqDef
  <2> QED
    BY <1>5, <2>1, <2>3
<1>11. ticket.paidBy = "relayer" /\ ticket.slippageBps = manifest.slippageBps
  BY <1>5 DEF Ticket, VaultPaysFees
<1>12. ASSUME NEW i \in DOMAIN swaps
       PROVE  /\ ticket.legs[i].pay.raw = PaysIn(swaps[i])
              /\ ticket.legs[i].receive.raw = ReceivesOut(swaps[i])
  <2>1. /\ ticket.legs[i].pay = PayLine(manifest, legs[i], swaps[i])
        /\ ticket.legs[i].receive = ReceiveLine(manifest, legs[i], swaps[i])
    BY <1>6, <1>9
  <2>2. PayLine(manifest, legs[i], swaps[i]).raw = PaysIn(swaps[i])
    BY <1>8 DEF PayLine, TicketLine, PaysIn
  <2>3. ReceiveLine(manifest, legs[i], swaps[i]).raw = ReceivesOut(swaps[i])
    BY DEF ReceiveLine, TicketLine, ReceivesOut
  <2> QED
    BY <2>1, <2>2, <2>3
<1>13. ASSUME NEW i \in DOMAIN swaps
       PROVE  swaps[i].args.slippageBps <= manifest.slippageBps
  BY <1>3, <1>4, <1>7 DEF SlipsTooFar
<1>14. ASSUME NEW i \in DOMAIN swaps
       PROVE  \E a \in DOMAIN swaps[i].accounts : swaps[i].accounts[a] = Vault
  BY <1>7 DEF AnotherAuthorises
<1> HIDE DEF ticket
<1>15. /\ Len(ticket.legs) = Len(swaps) /\ ticket.paidBy = "relayer"
       /\ \A i \in DOMAIN swaps :
             /\ ticket.legs[i].pay.raw = PaysIn(swaps[i])
             /\ ticket.legs[i].receive.raw = ReceivesOut(swaps[i])
             /\ swaps[i].args.slippageBps <= ticket.slippageBps
             /\ \E a \in DOMAIN swaps[i].accounts : swaps[i].accounts[a] = Vault
  BY <1>10, <1>11, <1>12, <1>13, <1>14
<1> QED
  BY <1>1, <1>2, <1>6, <1>8, <1>15, Zenon DEF ticket

LEMMA CheckedIsRequest ==
  ASSUME TypeOK, VerdictState = "checked"
  PROVE  IsMessage(Message) /\ IsManifest(Manifest) /\ (Payload_.price # Nobody => IsPrice(Payload_.price))
<1>1. Payload_.kind = "SIGN" /\ Len(Payload_.txs) = 1
  BY DEF VerdictState
<1>2. IsRequest(Payload_)
  BY <1>1 DEF TypeOK, Payload_
<1>3. 1 \in DOMAIN Payload_.txs
  BY <1>1, <1>2 DEF IsRequest, IsSequence
<1> QED
  BY <1>2, <1>3 DEF IsRequest, Message, Manifest

(* The holder reads the transaction: the ticket of an order that breaks no   *)
(* rule has the amounts its swaps pay and quote, a slippage none goes past,  *)
(* and is authorised by the vault and paid for by another, for any message,  *)
(* of any number of swaps, beside any manifest.                             *)
THEOREM TicketTellsTheMessage == Spec => []TicketIsTheMessage
<1>1. Init => RInv
  BY InitRInv
<1>2. RInv /\ [Next]_vars => RInv'
  BY NextRInv
<1>3. RInv => TicketIsTheMessage
  <2>1. SUFFICES ASSUME RInv, Clean PROVE TicketIsTheMessage
    BY DEF TicketIsTheMessage
  <2>2. IsMessage(Message) /\ IsManifest(Manifest) /\ Violations(Message, Manifest) = {}
    BY <2>1, CheckedIsRequest DEF RInv, Clean
  <2>3. PICK message, manifest : message = Message /\ manifest = Manifest
    OBVIOUS
  <2>4. PICK swaps, ticket : swaps = Swaps(Decompile(message)) /\ ticket = Ticket(message, manifest)
    OBVIOUS
  <2>5. /\ Len(ticket.legs) = Len(swaps) /\ ticket.paidBy = "relayer"
        /\ \A i \in DOMAIN swaps :
              /\ ticket.legs[i].pay.raw = PaysIn(swaps[i])
              /\ ticket.legs[i].receive.raw = ReceivesOut(swaps[i])
              /\ swaps[i].args.slippageBps <= ticket.slippageBps
              /\ \E a \in DOMAIN swaps[i].accounts : swaps[i].accounts[a] = Vault
    BY <2>2, <2>3, <2>4, TicketOfMessage
  <2> QED
    BY <2>3, <2>4, <2>5 DEF TicketIsTheMessage
<1> QED
  BY <1>1, <1>2, <1>3, PTL DEF Spec

-----------------------------------------------------------------------------
(* Deviations *)

LEMMA Grow ==
  ASSUME NEW a \in Nat, NEW b \in Nat, NEW c \in Nat, a <= b
  PROVE  a * c <= b * c
<1>1. PICK d \in Nat : b = a + d
  <2>1. b - a \in Nat /\ b = a + (b - a)
    OBVIOUS
  <2> QED
    BY <2>1
<1>2. b * c = a * c + d * c
  BY <1>1
<1>3. d * c \in Nat /\ a * c \in Nat
  OBVIOUS
<1> QED
  BY <1>2, <1>3
LEMMA Cancel ==
  ASSUME NEW a \in Nat, NEW b \in Nat, NEW c \in Nat \ {0}, a * c <= b * c
  PROVE  a <= b
<1>1. SUFFICES ASSUME b + 1 <= a PROVE FALSE
  OBVIOUS
<1>2. (b + 1) * c <= a * c
  BY <1>1, Grow
<1>3. (b + 1) * c = b * c + c /\ b * c \in Nat /\ a * c \in Nat
  OBVIOUS
<1> QED
  BY <1>2, <1>3
(* a/x is no more than b/y, which is no more than c/z. *)
LEMMA FractionsCompare ==
  ASSUME NEW a \in Nat, NEW b \in Nat, NEW c \in Nat,
         NEW x \in Nat \ {0}, NEW y \in Nat \ {0}, NEW z \in Nat \ {0},
         a * y <= b * x, b * z <= c * y
  PROVE  a * z <= c * x
<1>1. (a * y) * z <= (b * x) * z
  <2>1. a * y \in Nat /\ b * x \in Nat
    OBVIOUS
  <2> QED
    BY <2>1, Grow
<1>2. (b * z) * x <= (c * y) * x
  <2>1. b * z \in Nat /\ c * y \in Nat
    OBVIOUS
  <2> QED
    BY <2>1, Grow
<1>3. /\ (a * y) * z = (a * z) * y /\ (b * x) * z = (b * z) * x /\ (c * y) * x = (c * x) * y
      /\ a * z \in Nat /\ c * x \in Nat
  OBVIOUS
<1>4. /\ (a * z) * y \in Nat /\ (b * z) * x \in Nat /\ (c * x) * y \in Nat
  OBVIOUS
<1>5. (a * z) * y <= (c * x) * y
  BY <1>1, <1>2, <1>3, <1>4
<1> QED
  BY <1>3, <1>5, Cancel

IsDeviation(d) == d.num \in Int /\ d.den \in Nat \ {0}

LEMMA AbsIsNat ==
  ASSUME NEW n \in Int
  PROVE  Abs(n) \in Nat
BY DEF Abs

LEMMA FartherFacts ==
  ASSUME NEW a, NEW b, NEW c, IsDeviation(a), IsDeviation(b), IsDeviation(c)
  PROVE  /\ ~Farther(a, a)
         /\ Farther(a, b) => ~Farther(b, a)
         /\ ~Farther(a, b) /\ ~Farther(b, c) => ~Farther(a, c)
         /\ \A limit \in Nat : ~Farther(a, b) /\ Within(b, limit) => Within(a, limit)
<1>1. PICK u, v, w : u = Abs(a.num) /\ v = Abs(b.num) /\ w = Abs(c.num)
  OBVIOUS
<1>2. PICK x, y, z : x = a.den /\ y = b.den /\ z = c.den
  OBVIOUS
<1>3. u \in Nat /\ v \in Nat /\ w \in Nat
  BY <1>1, AbsIsNat DEF IsDeviation
<1>4. x \in Nat \ {0} /\ y \in Nat \ {0} /\ z \in Nat \ {0}
  BY <1>2 DEF IsDeviation
<1>5. /\ u * x \in Nat /\ u * y \in Nat /\ v * x \in Nat /\ v * z \in Nat
      /\ w * y \in Nat /\ u * z \in Nat /\ w * x \in Nat
  BY <1>3, <1>4
<1>6. /\ Farther(a, a) <=> u * x > u * x
      /\ Farther(a, b) <=> u * y > v * x
      /\ Farther(b, a) <=> v * x > u * y
      /\ Farther(b, c) <=> v * z > w * y
      /\ Farther(a, c) <=> u * z > w * x
  BY <1>1, <1>2 DEF Farther
<1>7. ~Farther(a, a) /\ (Farther(a, b) => ~Farther(b, a))
  BY <1>5, <1>6
<1>8. ASSUME ~Farther(a, b), ~Farther(b, c) PROVE ~Farther(a, c)
  <2>1. u * y <= v * x /\ v * z <= w * y
    BY <1>5, <1>6, <1>8
  <2>2. u * z <= w * x
    BY <1>3, <1>4, <2>1, FractionsCompare
  <2> QED
    BY <1>5, <1>6, <2>2
<1>9. ASSUME NEW limit \in Nat, ~Farther(a, b), Within(b, limit) PROVE Within(a, limit)
  <2>1. u * y <= v * x
    BY <1>5, <1>6, <1>9
  <2>2. v * 1000 <= limit * y
    BY <1>1, <1>2, <1>9 DEF Within
  <2>3. 1000 \in Nat \ {0}
    OBVIOUS
  <2>4. u * 1000 <= limit * x
    BY <1>3, <1>4, <2>1, <2>2, <2>3, FractionsCompare
  <2> QED
    BY <1>1, <1>2, <2>4 DEF Within
<1> QED
  BY <1>7, <1>8, <1>9

(* One of finitely many deviations is farthest off. *)
LEMMA FarthestExists ==
  ASSUME NEW S, IsFiniteSet(S), S # {}, NEW f, \A i \in S : IsDeviation(f[i])
  PROVE  \E i \in S : \A j \in S : ~Farther(f[j], f[i])
<1> DEFINE Farthest(i, s) == \A j \in s : ~Farther(f[j], f[i])
           Bad == {s \in SUBSET S : s # {} /\ ~ \E i \in s : Farthest(i, s)}
<1>1. SUFFICES ASSUME Bad # {} PROVE FALSE
  <2>1. S \in SUBSET S /\ S \notin Bad
    BY <1>1
  <2> QED
    BY <2>1
<1>2. Bad \subseteq SUBSET S
  OBVIOUS
<1>3. PICK s \in Bad : \A x \in s : s \ {x} \notin Bad
  <2> HIDE DEF Bad
  <2> QED
    BY <1>1, <1>2, SmallestSet
<1>4. s \in SUBSET S /\ s # {} /\ ~ \E i \in s : Farthest(i, s)
  OBVIOUS
<1>5. PICK x \in s : TRUE
  BY <1>4
<1>6. PICK R : R = s \ {x}
  OBVIOUS
<1>7. \A i \in s : IsDeviation(f[i])
  BY <1>4
<1>8. CASE R = {}
  <2>1. ~Farther(f[x], f[x])
    BY <1>7, FartherFacts
  <2>2. Farthest(x, s)
    BY <1>6, <1>8, <2>1
  <2> QED
    BY <1>4, <2>2
<1>9. CASE R # {}
  <2>1. PICK i \in R : Farthest(i, R)
    BY <1>3, <1>4, <1>6, <1>9
  <2>2. CASE ~Farther(f[x], f[i])
    <3>1. Farthest(i, s)
      BY <1>6, <2>1, <2>2
    <3> QED
      BY <1>4, <1>6, <3>1
  <2>3. CASE Farther(f[x], f[i])
    <3>1. ~Farther(f[i], f[x]) /\ ~Farther(f[x], f[x])
      BY <1>6, <1>7, <2>3, FartherFacts
    <3>2. ASSUME NEW j \in R PROVE ~Farther(f[j], f[x])
      <4>1. ~Farther(f[j], f[i])
        BY <2>1
      <4>2. IsDeviation(f[j]) /\ IsDeviation(f[i]) /\ IsDeviation(f[x])
        BY <1>6, <1>7
      <4> QED
        BY <3>1, <4>1, <4>2, FartherFacts
    <3>3. Farthest(x, s)
      BY <1>6, <3>1, <3>2
    <3> QED
      BY <1>4, <3>3
  <2> QED
    BY <2>2, <2>3
<1> QED
  BY <1>8, <1>9

(* WorstDeviation speaks for every leg that was compared. *)
LEMMA WorstDecides ==
  ASSUME NEW price, NEW legs, NEW n \in Nat, DOMAIN legs = 1..n,
         \A i \in Compared(price, legs) : IsDeviation(LegDeviation(price, legs[i])),
         NEW limit \in Nat, Within(WorstDeviation(price, legs), limit),
         NEW i \in Compared(price, legs)
  PROVE  Within(LegDeviation(price, legs[i]), limit)
<1>1. PICK C, f : C = Compared(price, legs) /\ f = [j \in C |-> LegDeviation(price, legs[j])]
  OBVIOUS
<1>2. C \subseteq 1..n
  BY <1>1 DEF Compared
<1>3. IsFiniteSet(C)
  <2>1. IsFiniteSet(1..n)
    BY FS_Interval
  <2> QED
    BY <1>2, <2>1, FS_Subset
<1>4. \A j \in C : f[j] = LegDeviation(price, legs[j]) /\ IsDeviation(f[j])
  BY <1>1
<1>5. i \in C
  BY <1>1
<1>6. PICK k \in C : \A j \in C : ~Farther(f[j], f[k])
  BY <1>3, <1>4, <1>5, FarthestExists
<1>7. PICK D : D = {LegDeviation(price, legs[j]) : j \in Compared(price, legs)}
  OBVIOUS
<1>8. f[k] \in D /\ \A e \in D : ~Farther(e, f[k])
  BY <1>1, <1>4, <1>6, <1>7
<1>9. PICK worst : worst = WorstDeviation(price, legs)
  OBVIOUS
<1>10. worst \in D /\ \A e \in D : ~Farther(e, worst)
  BY <1>7, <1>8, <1>9 DEF WorstDeviation
<1>11. IsDeviation(worst) /\ IsDeviation(f[i]) /\ f[i] \in D
  BY <1>1, <1>4, <1>5, <1>7, <1>10
<1>12. ~Farther(f[i], worst)
  BY <1>10, <1>11
<1>13. Within(f[i], limit)
  BY <1>9, <1>11, <1>12, FartherFacts
<1> QED
  BY <1>4, <1>5, <1>13

(* A verified price is one that Pyth signed lately, of legs that can be      *)
(* priced.                                                                  *)
LEMMA VerifiedIs ==
  ASSUME NEW price, NEW legs, NEW at, AttestationState(price, legs, at) = "verified"
  PROVE  /\ price # Nobody /\ Verify(price, at) = "ok" /\ Compared(price, legs) # {}
         /\ \A i \in Compared(price, legs) : ~CannotBePriced(legs[i])
BY DEF AttestationState

LEMMA OkIs ==
  ASSUME NEW price, price.signedAt \in Int, NEW at \in Nat, Verify(price, at) = "ok"
  PROVE  price.genuine /\ Abs(at - price.signedAt) <= MaxAgeSeconds
<1>1. /\ price.genuine
      /\ ~(Age(price, at) > MaxAgeSeconds) /\ ~(Age(price, at) < -MaxAgeSeconds)
  BY DEF Verify
<1> QED
  BY <1>1 DEF Age, Abs

(* There is a box to tick when there is no price, or none of this order.     *)
LEMMA BoxIs ==
  ASSUME NEW price, NEW legs, NEW at, CanAcknowledge(AttestationState(price, legs, at))
  PROVE  price = Nobody \/ Compared(price, legs) = {}
BY DEF CanAcknowledge, AttestationState

-----------------------------------------------------------------------------
(* What is signed *)

(* Every asset of an order that breaks no rule has a multiplier above zero.  *)
LEMMA MultiplierIs ==
  ASSUME NEW message, NEW manifest, IsManifest(manifest), Violations(message, manifest) = {},
         NEW mint \in LegMints(manifest) \cap Asset
  PROVE  MultiplierOf(manifest, mint) \in Nat \ {0}
<1>1. ~MultiplierRefused(manifest, mint)
  BY NothingBroken
<1>2. Declares(manifest, mint) /\ ~MultiplierProblem(manifest.mints[mint].multiplier)
  BY <1>1 DEF MultiplierRefused, IsScaledMint
<1>3. manifest.mints[mint].multiplier \in Nat
  BY <1>2 DEF IsManifest, Declares
<1>4. manifest.mints[mint].multiplier # 0
  BY <1>2, <1>3, TxPolicyAssumption DEF TxPolicyAssumption, MultiplierProblem
<1> QED
  BY <1>2, <1>3, <1>4 DEF MultiplierOf, IsScaledMint

LEMMA Product ==
  ASSUME NEW a \in Nat \ {0}, NEW b \in Nat \ {0}, NEW c \in Nat \ {0}
  PROVE  a * b * c \in Nat \ {0}
<1>1. PICK d \in Nat \ {0} : d = a * b
  BY a * b \in Nat, a * b # 0
<1>2. d * c \in Nat /\ d * c # 0
  OBVIOUS
<1> QED
  BY <1>1, <1>2

LEMMA DeviationIs ==
  ASSUME NEW asset, NEW quote, NEW oracle \in Nat \ {0},
         asset.raw \in Nat \ {0}, asset.multiplier \in Nat \ {0}, quote.raw \in Nat
  PROVE  IsDeviation(Deviation(asset, quote, oracle))
<1>1. PICK worth \in Nat \ {0} : worth = oracle * asset.raw * asset.multiplier
  BY Product
<1>2. Deviation(asset, quote, oracle) = [num |-> quote.raw * 100 - worth, den |-> worth]
  BY <1>1 DEF Deviation, Hundred
<1>3. quote.raw * 100 - worth \in Int
  BY <1>1
<1> QED
  BY <1>1, <1>2, <1>3 DEF IsDeviation

(* What the price check compares is the message's own swap: the same legs,   *)
(* the same amounts, the multiplier that travelled.                         *)
LEMMA ComparedIsTheSwap ==
  ASSUME TypeOK, Clean, Payload_.price # Nobody, NEW i \in DOMAIN Manifest.legs
  PROVE  /\ i \in Compared(Payload_.price, PricedLegs) <=> OraclePrices(Manifest.legs[i])
         /\ OraclePrices(Manifest.legs[i]) =>
              /\ LegDeviation(Payload_.price, PricedLegs[i]) = SwapOff(i)
              /\ ~CannotBePriced(PricedLegs[i]) =>
                   IsDeviation(LegDeviation(Payload_.price, PricedLegs[i]))
<1>1. PICK message, manifest, price, legs :
        message = Message /\ manifest = Manifest /\ price = Payload_.price /\ legs = PricedLegs
  OBVIOUS
<1>2. /\ IsMessage(message) /\ IsManifest(manifest) /\ IsPrice(price)
      /\ Violations(message, manifest) = {}
  BY <1>1, CheckedIsRequest DEF Clean
<1>3. PICK swap, leg, line : /\ swap = Swaps(Decompile(message))[i] /\ leg = manifest.legs[i]
                             /\ line = legs[i]
  OBVIOUS
<1>4. legs = Ticket(message, manifest).legs /\ legs = TicketLegs(message, manifest)
  BY <1>1 DEF PricedLegs, Ticket
<1>5. i \in DOMAIN legs /\ i \in DOMAIN Swaps(Decompile(message))
  BY <1>1, <1>2, <1>4, TicketOfMessage DEF TicketLegs
<1>6. line.pay.raw = PaysIn(swap) /\ line.receive.raw = ReceivesOut(swap)
  <2>1. PICK swaps, ticket : swaps = Swaps(Decompile(message)) /\ ticket = Ticket(message, manifest)
    OBVIOUS
  <2>2. \A k \in DOMAIN swaps : /\ ticket.legs[k].pay.raw = PaysIn(swaps[k])
                                /\ ticket.legs[k].receive.raw = ReceivesOut(swaps[k])
    BY <1>2, <2>1, TicketOfMessage
  <2>3. line = ticket.legs[i] /\ swap = swaps[i] /\ i \in DOMAIN swaps
    BY <1>3, <1>4, <1>5, <2>1
  <2> QED
    BY <2>2, <2>3
<1>7. line.pay.raw \in Nat /\ line.receive.raw \in Nat
  <2>1. PaysIn(swap) = leg.inAmount /\ ReceivesOut(swap) = leg.expectedOutAmount
    BY <1>2, <1>3, <1>5, TicketOfMessage
  <2>2. leg.inAmount \in Nat /\ leg.expectedOutAmount \in Nat
    BY <1>1, <1>2, <1>3 DEF IsManifest
  <2> QED
    BY <1>6, <2>1, <2>2
<1>8. line.pay = PayLine(manifest, leg, swap) /\ line.receive = ReceiveLine(manifest, leg, swap)
  BY <1>1, <1>3, <1>4 DEF TicketLegs
<1>9. /\ line.pay.mint = leg.inMint /\ line.receive.mint = leg.outMint
      /\ line.pay.multiplier = MultiplierOf(manifest, leg.inMint)
      /\ line.receive.multiplier = MultiplierOf(manifest, leg.outMint)
  BY <1>8 DEF PayLine, ReceiveLine, TicketLine
<1>10. i \in Compared(price, legs) <=>
         /\ (leg.inMint \in Asset) # (leg.outMint \in Asset)
         /\ (IF leg.inMint \in Asset THEN leg.inMint ELSE leg.outMint) \in DOMAIN price.feeds
  BY <1>3, <1>5, <1>9 DEF Compared, PairHasPrice, AssetLine
<1>11. i \in Compared(price, legs) <=> OraclePrices(leg)
  BY <1>1, <1>10 DEF OraclePrices
<1>12. ASSUME OraclePrices(leg)
       PROVE  /\ LegDeviation(price, line) = SwapOff(i)
              /\ ~CannotBePriced(line) => IsDeviation(LegDeviation(price, line))
  <2>1. PICK mint : mint = IF leg.outMint \in Asset THEN leg.outMint ELSE leg.inMint
    OBVIOUS
  <2>2. (leg.inMint \in Asset) # (leg.outMint \in Asset)
    BY <1>12 DEF OraclePrices
  <2>3. mint \in Asset /\ mint \in {leg.inMint, leg.outMint} /\ mint \in DOMAIN price.feeds
    BY <1>1, <1>12, <2>1, <2>2 DEF OraclePrices
  <2>4. price.feeds[mint] \in Nat \ {0}
    BY <1>2, <2>3 DEF IsPrice
  <2>5. mint \in LegMints(manifest)
    BY <1>1, <1>3, <2>3 DEF LegMints
  <2>6. MultiplierOf(manifest, mint) \in Nat \ {0}
    BY <1>2, <2>3, <2>5, MultiplierIs
  <2>7. PICK asset, quote : asset = AssetLine(line) /\ quote = QuoteLine(line)
    OBVIOUS
  <2>8. /\ asset.mint = mint /\ asset.multiplier = MultiplierOf(manifest, mint)
        /\ asset.raw = IF leg.outMint \in Asset THEN ReceivesOut(swap) ELSE PaysIn(swap)
        /\ quote.raw = IF leg.outMint \in Asset THEN PaysIn(swap) ELSE ReceivesOut(swap)
    <3>1. CASE leg.outMint \in Asset
      <4>1. asset = line.receive /\ quote = line.pay /\ mint = leg.outMint
        BY <1>9, <2>1, <2>2, <2>7, <3>1 DEF AssetLine, QuoteLine
      <4> QED
        BY <1>6, <1>9, <3>1, <4>1
    <3>2. CASE leg.outMint \notin Asset
      <4>1. asset = line.pay /\ quote = line.receive /\ mint = leg.inMint
        BY <1>9, <2>1, <2>2, <2>7, <3>2 DEF AssetLine, QuoteLine
      <4> QED
        BY <1>6, <1>9, <3>2, <4>1
    <3> QED
      BY <3>1, <3>2
  <2>9. LegDeviation(price, line) = Deviation(asset, quote, price.feeds[mint])
    BY <2>7, <2>8 DEF LegDeviation
  <2>10. SwapOff(i) = Deviation(asset, quote, price.feeds[mint])
    <3>1. PICK own, other :
            /\ own = [raw |-> IF leg.outMint \in Asset THEN ReceivesOut(swap) ELSE PaysIn(swap),
                      multiplier |-> MultiplierOf(manifest, mint)]
            /\ other = [raw |-> IF leg.outMint \in Asset THEN PaysIn(swap) ELSE ReceivesOut(swap)]
      OBVIOUS
    <3>2. own.raw = asset.raw /\ own.multiplier = asset.multiplier /\ other.raw = quote.raw
      BY <2>8, <3>1
    <3>3. SwapOff(i) = Deviation(own, other, price.feeds[mint])
      BY <1>1, <1>3, <2>1, <3>1 DEF SwapOff
    <3> QED
      BY <3>2, <3>3 DEF Deviation
  <2>11. ASSUME ~CannotBePriced(line) PROVE IsDeviation(LegDeviation(price, line))
    <3>1. asset.raw # 0
      BY <2>7, <2>11 DEF CannotBePriced
    <3>2. asset.raw \in Nat /\ quote.raw \in Nat
      BY <1>6, <1>7, <2>8
    <3> QED
      BY <2>4, <2>6, <2>8, <2>9, <3>1, <3>2, DeviationIs
  <2> QED
    BY <2>9, <2>10, <2>11
<1> QED
  BY <1>1, <1>3, <1>11, <1>12

LEMMA ButtonChecks ==
  ASSUME RInv, stage \in {"sign", "signed"}
  PROVE  SignedAsChecked
<1>1. ApproveEnabled(drawnAt, drawnWith) /\ drawnWith = LoadSettings /\ TypeOK
  BY DEF RInv, ButtonAllowed, DrawnAsStored
<1>2. Clean
  BY <1>1 DEF ApproveEnabled, Refused
<1>3. PICK price, legs : price = Payload_.price /\ legs = PricedLegs
  OBVIOUS
<1>4. DOMAIN legs = DOMAIN Manifest.legs
  BY <1>2, <1>3 DEF PricedLegs, TicketLegs
<1>5. CASE CanAcknowledge(PriceState(drawnAt)) /\ acknowledged
  <2>1. price = Nobody \/ Compared(price, legs) = {}
    BY <1>3, <1>5, BoxIs DEF PriceState
  <2>2. ASSUME price # Nobody, NEW i \in DOMAIN Manifest.legs PROVE ~OraclePrices(Manifest.legs[i])
    BY <1>1, <1>2, <1>3, <2>1, <2>2, ComparedIsTheSwap
  <2> QED
    BY <1>2, <1>3, <1>5, <2>1, <2>2 DEF SignedAsChecked
<1>6. CASE PriceVerified(drawnAt, drawnWith)
  <2>1. AttestationState(price, legs, drawnAt) = "verified"
        /\ Within(WorstDeviation(price, legs), MaxDeviation)
        /\ Within(WorstDeviation(price, legs), drawnWith)
    BY <1>3, <1>6 DEF PriceVerified, PermitsSigning
  <2>2. price # Nobody /\ Verify(price, drawnAt) = "ok"
        /\ \A i \in Compared(price, legs) : ~CannotBePriced(legs[i])
    BY <2>1, VerifiedIs
  <2>3. IsManifest(Manifest) /\ IsPrice(price)
    BY <1>1, <1>2, <1>3, <2>2, CheckedIsRequest DEF Clean
  <2>4. price.genuine /\ Abs(drawnAt - price.signedAt) <= MaxAgeSeconds
    BY <1>1, <2>2, <2>3, OkIs DEF IsPrice, TypeOK
  <2>5. PICK n \in Nat : DOMAIN legs = 1..n
    BY <1>4, <2>3 DEF IsManifest, IsSequence
  <2>6. \A i \in Compared(price, legs) : i \in DOMAIN Manifest.legs
    BY <1>4 DEF Compared
  <2>7. \A i \in Compared(price, legs) : IsDeviation(LegDeviation(price, legs[i]))
    BY <1>1, <1>2, <1>3, <2>2, <2>6, ComparedIsTheSwap
  <2>8. ASSUME stored \in Choices PROVE drawnWith = stored
    <3>1. stored \in 1..MaxDeviation /\ MaxDeviation \in Nat
      BY <2>8
    <3>2. stored \notin {Nobody, Corrupt, 0} /\ ~(stored > MaxDeviation)
      BY <3>1
    <3> QED
      BY <1>1, <3>2 DEF LoadSettings
  <2>9. ASSUME NEW i \in DOMAIN Manifest.legs, OraclePrices(Manifest.legs[i])
        PROVE  Within(SwapOff(i), MaxDeviation) /\ Within(SwapOff(i), drawnWith)
    <3>1. i \in Compared(price, legs) /\ LegDeviation(price, legs[i]) = SwapOff(i)
      BY <1>1, <1>2, <1>3, <2>2, <2>9, ComparedIsTheSwap
    <3>2. MaxDeviation \in Nat /\ drawnWith \in Nat
      BY <1>1 DEF TypeOK
    <3>3. \A limit \in {MaxDeviation, drawnWith} : Within(LegDeviation(price, legs[i]), limit)
      BY <2>1, <2>5, <2>7, <3>1, <3>2, WorstDecides
    <3> QED
      BY <3>1, <3>3
  <2> QED
    BY <1>2, <1>3, <2>2, <2>4, <2>8, <2>9 DEF SignedAsChecked
<1> QED
  BY <1>1, <1>5, <1>6 DEF ApproveEnabled

(* What is signed, or about to be, was checked: no rule is broken, and every *)
(* swap of a priced asset is within the holder's own tolerance of a price    *)
(* Pyth signed lately, whatever the number of swaps, the amounts and the     *)
(* prices; or there was nothing to compare and the holder ticked the box.    *)
THEOREM OnlyCheckedIsSigned == Spec => []SignedAsChecked
<1>1. Init => RInv
  BY InitRInv
<1>2. RInv /\ [Next]_vars => RInv'
  BY NextRInv
<1>3. RInv => SignedAsChecked
  BY ButtonChecks DEF SignedAsChecked
<1> QED
  BY <1>1, <1>2, <1>3, PTL DEF Spec

-----------------------------------------------------------------------------
(* An order from the builder to the review *)

(* What is delivered of an order nobody changed, as the relayer built it.    *)
LEMMA RelayedIs ==
  ASSUME TypeOK, delivered.edit = "none"
  PROVE  \E request \in Requests, factsOf \in FactTables, price \in Prices, at \in Times :
           /\ IsPurchase(request) /\ AreFacts(factsOf)
           /\ price # Nobody => IsStreamed(price, at)
           /\ at \in Nat /\ delivered.carriedAt = at /\ delivered.sid = request.order
           /\ Payload_.v = PayloadVersion /\ Payload_.kind = "SIGN" /\ Payload_.sid = request.order
           /\ Payload_.vault = request.vault
           /\ Payload_.txs = Messages(request)
           /\ Manifest = EncodeManifest(ManifestOf(request, factsOf, at))
           /\ Payload_.price = Attach(price, at, MaxAttestationAge)
<1>1. delivered \in Deliveries /\ delivered.carriedAt \in Nat
  BY DEF TypeOK
<1>2. delivered \in Relayed
  BY <1>1, OrderReviewAssumption DEF OrderReviewAssumption
<1>3. PICK request \in Requests, factsOf \in FactTables, price \in Prices, at \in Times :
        delivered = Delivered(request, factsOf, price, at)
  BY <1>2 DEF Relayed
<1>4. PICK payload : payload = Encoded(request, factsOf, price, at)
  OBVIOUS
<1>5. delivered = [payload |-> payload, sid |-> request.order, carriedAt |-> at, edit |-> "none"]
  BY <1>3, <1>4 DEF Delivered
<1>6. Payload_ = payload /\ delivered.sid = request.order /\ delivered.carriedAt = at
  BY <1>5 DEF Payload_
<1>7. PICK txs, manifest, attached : /\ txs = Messages(request)
                                     /\ manifest = ManifestOf(request, factsOf, at)
                                     /\ attached = Attach(price, at, MaxAttestationAge)
  OBVIOUS
<1>8. payload = EncodeSignRequest([sid |-> request.order, vault |-> request.vault, txs |-> txs,
                                   manifest |-> manifest, price |-> attached])
  BY <1>4, <1>7 DEF Encoded
<1>9. /\ payload.v = PayloadVersion /\ payload.kind = "SIGN" /\ payload.sid = request.order
      /\ payload.vault = request.vault /\ payload.txs = txs
      /\ payload.manifest = EncodeManifest(manifest) /\ payload.price = attached
  BY <1>8 DEF EncodeSignRequest
<1>10. /\ IsPurchase(request) /\ AreFacts(factsOf) /\ (price # Nobody => IsStreamed(price, at))
  BY OrderReviewAssumption DEF OrderReviewAssumption
<1> QED
  BY <1>1, <1>6, <1>7, <1>9, <1>10 DEF Manifest

(* The order is read, and no rule is broken. *)
LEMMA RelayedIsClean ==
  ASSUME TypeOK, delivered.edit = "none", Payload_.vault = Vault, Len(Payload_.txs) = 1
  PROVE  VerdictState = "checked" /\ Violations(Message, Manifest) = {}
<1>1. PICK request, factsOf, at :
        /\ IsPurchase(request) /\ AreFacts(factsOf)
        /\ delivered.sid = request.order
        /\ Payload_.v = PayloadVersion /\ Payload_.kind = "SIGN" /\ Payload_.sid = request.order
        /\ Payload_.vault = request.vault
        /\ Payload_.txs = Messages(request)
        /\ Manifest = EncodeManifest(ManifestOf(request, factsOf, at))
  BY RelayedIs
<1>2. PICK manifest : manifest = Manifest
  OBVIOUS
<1>3. manifest = EncodeManifest(ManifestOf(request, factsOf, at))
  BY <1>1, <1>2
<1>4. Describes(manifest, request) /\ WellFormedManifest(manifest)
  BY <1>1, <1>3, ManifestDescribes
<1>5. Len(Messages(request)) = 1
  BY <1>1
<1>6. Messages(request) # << >> /\ Messages(request)[1] = CompileAll(request, request.legs)
  BY <1>5, OneMessage
<1>7. PICK message : message = CompileAll(request, request.legs)
  OBVIOUS
<1>8. Message = message /\ Payload_.txs # << >>
  BY <1>1, <1>6, <1>7 DEF Message
<1>9. \A mint \in Asset : DeriveAta(Vault, mint) \notin LookupTables
  BY OrderReviewAssumption DEF OrderReviewAssumption
<1>10. request.vault = Vault
  BY <1>1
<1>11. Readable(message) /\ Violations(message, manifest) = {}
  BY <1>1, <1>4, <1>7, <1>9, <1>10, PurchaseBreaksNothing
<1>12. WellFormedRequest(Payload_)
  BY <1>2, <1>4, <1>8 DEF WellFormedRequest, Manifest
<1>13. Decodes(Payload_, delivered.sid)
  BY <1>1, <1>12 DEF Decodes
<1>14. VerdictState = "checked"
  BY <1>1, <1>8, <1>11, <1>13 DEF VerdictState
<1> QED
  BY <1>2, <1>8, <1>11, <1>14

(* A price attached is believed until the second limit has passed too.       *)
LEMMA AttachedLasts ==
  ASSUME NEW price, NEW at \in Nat, price # Nobody => IsStreamed(price, at),
         NEW attached, attached = Attach(price, at, MaxAttestationAge),
         attached # Nobody, attached.signedAt \in Int,
         NEW drawn \in Nat, drawn >= at, drawn <= at + (MaxAgeSeconds - MaxAttestationAge)
  PROVE  Verify(attached, drawn) = "ok"
<1>1. price # Nobody /\ at - price.signedAt <= MaxAttestationAge /\ attached = price
  BY DEF Attach
<1>2. MaxAttestationAge \in Nat /\ MaxAgeSeconds \in Nat
  BY OrderReviewAssumption, ReviewAssumption DEF OrderReviewAssumption, ReviewAssumption
<1>3. PICK signedAt, expires : signedAt = price.signedAt /\ expires = Signers[price.signer]
  OBVIOUS
<1>8. signedAt \in Int
  BY <1>1, <1>3
<1>4. /\ Parses(price) /\ price.genuine /\ FindSigner(price)
      /\ expires > at + (MaxAgeSeconds - MaxAttestationAge) /\ signedAt <= at + MaxAgeSeconds
  BY <1>1, <1>3 DEF IsStreamed
<1>5. expires \in Int
  BY <1>3, <1>4, ReviewAssumption DEF ReviewAssumption, FindSigner
<1>6. ~(expires <= drawn)
  BY <1>2, <1>4, <1>5
<1>7. ~(drawn - signedAt > MaxAgeSeconds) /\ ~(drawn - signedAt < -MaxAgeSeconds)
  BY <1>1, <1>2, <1>3, <1>4, <1>8
<1> QED
  BY <1>1, <1>3, <1>4, <1>6, <1>7 DEF Verify, Age

(* The screen is drawn no earlier than the order was carried over.           *)
NotBefore == now >= delivered.carriedAt /\ (stage # "carried" => drawnAt >= delivered.carriedAt)

LEMMA NextNotBefore ==
  ASSUME RInv, NotBefore, [Next]_vars
  PROVE  NotBefore'
<1>1. delivered' = delivered
  BY OrderStays
<1>2. now \in Nat /\ drawnAt \in Nat /\ delivered.carriedAt \in Nat
  BY ReviewAssumption DEF RInv, TypeOK, ReviewAssumption
<1>3. now' >= delivered.carriedAt
  BY <1>2 DEF NotBefore, Next, Tick, Open, Acknowledge, Redraw, Draw, Approve, Reject, Confirm,
                Leave, ChooseTolerance, vars
<1>4. stage' # "carried" => drawnAt' >= delivered.carriedAt
  BY <1>2 DEF NotBefore, Next, Tick, Open, Acknowledge, Redraw, Draw, Approve, Reject, Confirm,
                Leave, ChooseTolerance, vars
<1> QED
  BY <1>1, <1>3, <1>4 DEF NotBefore

(* An order has amounts that can be priced. *)
LEMMA RelayedIsPriced ==
  ASSUME TypeOK, delivered.edit = "none", Payload_.vault = Vault, Len(Payload_.txs) = 1,
         NEW price, NEW i \in Compared(price, PricedLegs)
  PROVE  ~CannotBePriced(PricedLegs[i])
<1>1. VerdictState = "checked" /\ Violations(Message, Manifest) = {}
  BY RelayedIsClean
<1>2. PICK message, manifest, swaps, ticket :
        /\ message = Message /\ manifest = Manifest
        /\ swaps = Swaps(Decompile(message)) /\ ticket = Ticket(message, manifest)
  OBVIOUS
<1>3. IsMessage(message) /\ IsManifest(manifest) /\ Violations(message, manifest) = {}
  BY <1>1, <1>2, CheckedIsRequest
<1>4. /\ DOMAIN swaps = DOMAIN manifest.legs
      /\ \A k \in DOMAIN swaps :
           /\ PaysIn(swaps[k]) = manifest.legs[k].inAmount
           /\ ReceivesOut(swaps[k]) = manifest.legs[k].expectedOutAmount
           /\ ticket.legs[k].pay.raw = PaysIn(swaps[k])
           /\ ticket.legs[k].receive.raw = ReceivesOut(swaps[k])
  BY <1>2, <1>3, TicketOfMessage
<1>5. ticket.legs = PricedLegs
  BY <1>1, <1>2 DEF Ticket, PricedLegs, Clean
<1>6. i \in DOMAIN PricedLegs
  BY DEF Compared
<1>7. i \in DOMAIN manifest.legs
  BY <1>1, <1>2, <1>6 DEF PricedLegs, Clean, TicketLegs
<1>8. PICK request, factsOf, at :
        /\ IsPurchase(request) /\ AreFacts(factsOf)
        /\ Manifest = EncodeManifest(ManifestOf(request, factsOf, at))
  BY RelayedIs
<1>9. Describes(manifest, request)
  BY <1>2, <1>8, ManifestDescribes
<1>10. PICK leg : leg = request.legs[i]
  OBVIOUS
<1>11. /\ i \in DOMAIN request.legs
       /\ manifest.legs[i].inAmount = leg.inAmount /\ manifest.legs[i].expectedOutAmount = leg.quoted
  BY <1>7, <1>9, <1>10 DEF Describes
<1>12. {leg.inAmount, leg.quoted} \subseteq 1..MaxExact /\ MaxExact \in Nat
  BY <1>8, <1>10, <1>11, OrderReviewAssumption DEF IsPurchase, OrderReviewAssumption
<1>13. PricedLegs[i].pay.raw \in 1..MaxExact /\ PricedLegs[i].receive.raw \in 1..MaxExact
  BY <1>4, <1>5, <1>7, <1>11, <1>12
<1>14. AssetLine(PricedLegs[i]).raw \in 1..MaxExact /\ QuoteLine(PricedLegs[i]).raw \in 1..MaxExact
  BY <1>13 DEF AssetLine, QuoteLine
<1> QED
  BY <1>12, <1>14 DEF CannotBePriced

(* Whatever the relayer is asked for and whatever it builds, an order for    *)
(* this vault that fits one message is read, breaks no rule, and is not      *)
(* refused for its price in the time between the two limits: the two ends,   *)
(* which share no code, agree.                                              *)
THEOREM RelayedIsConsidered == Spec => []RelayedOrderHasTime
<1>1. Init => RInv /\ NotBefore
  <2>1. ASSUME Init PROVE NotBefore
    BY <2>1 DEF Init, NotBefore
  <2> QED
    BY <2>1, InitRInv
<1>2. RInv /\ NotBefore /\ [Next]_vars => (RInv /\ NotBefore)'
  BY NextRInv, NextNotBefore
<1>3. RInv /\ NotBefore => RelayedOrderHasTime
  <2>1. SUFFICES ASSUME RInv, NotBefore, delivered.edit = "none", Payload_.vault = Vault,
                        Len(Payload_.txs) = 1, stage = "review"
                 PROVE  /\ VerdictState = "checked"
                        /\ Violations(Message, Manifest) = {}
                        /\ drawnAt <= delivered.carriedAt + (MaxAgeSeconds - MaxAttestationAge)
                             => PriceState(drawnAt) # "rejected"
    BY DEF RelayedOrderHasTime
  <2>2. TypeOK /\ drawnAt \in Nat
    BY <2>1 DEF RInv, TypeOK
  <2>3. VerdictState = "checked" /\ Violations(Message, Manifest) = {}
    BY <2>1, <2>2, RelayedIsClean
  <2>4. ASSUME drawnAt <= delivered.carriedAt + (MaxAgeSeconds - MaxAttestationAge)
        PROVE  PriceState(drawnAt) # "rejected"
    <3>1. PICK price, legs : price = Payload_.price /\ legs = PricedLegs
      OBVIOUS
    <3>2. \A i \in Compared(price, legs) : ~CannotBePriced(legs[i])
      BY <2>1, <2>2, <3>1, RelayedIsPriced
    <3>3. ASSUME price # Nobody PROVE Verify(price, drawnAt) = "ok"
      <4>1. price.signedAt \in Int
        BY <2>2, <2>3, <3>1, <3>3, CheckedIsRequest DEF IsPrice
      <4>0. TypeOK /\ delivered.edit = "none"
        BY <2>1, <2>2
      <4>2. PICK had \in Prices, at \in Times :
              /\ had # Nobody => IsStreamed(had, at)
              /\ at \in Nat /\ delivered.carriedAt = at
              /\ Payload_.price = Attach(had, at, MaxAttestationAge)
        BY <4>0, RelayedIs
      <4>3. drawnAt >= at /\ drawnAt <= at + (MaxAgeSeconds - MaxAttestationAge)
        BY <2>1, <2>4, <4>2 DEF NotBefore
      <4> QED
        BY <2>2, <3>1, <3>3, <4>1, <4>2, <4>3, AttachedLasts
    <3>4. AttestationState(price, legs, drawnAt) # "rejected"
      BY <3>2, <3>3 DEF AttestationState
    <3> QED
      BY <3>1, <3>4 DEF PriceState
  <2> QED
    BY <2>3, <2>4
<1> QED
  BY <1>1, <1>2, <1>3, PTL DEF Spec

=============================================================================
