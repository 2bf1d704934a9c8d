------------------------- MODULE WidgetChain_proofs -------------------------
(***************************************************************************)
(* Theorems about WidgetChain, for every number of requests, sessions and  *)
(* addresses, every value of the caps, and KV faults and crashes included. *)
(***************************************************************************)
EXTENDS WidgetChain, SequenceTheorems, FiniteSetTheorems, FunctionTheorems,
        WellFoundedInduction, TLAPS

-----------------------------------------------------------------------------
(***************************************************************************)
(* The pure rules of ChainRules, for every value of the caps.              *)
(***************************************************************************)

\* Every non-empty set of naturals has a least element: what the search for an
\* address's oldest entry relies on.
LEMMA LeastNatural ==
  ASSUME NEW S \in SUBSET Nat, S # {}
  PROVE  \E m \in S : \A n \in S : m <= n
<1> DEFINE R == OpToRel(<, Nat)
<1>1. IsWellFoundedOn(R, Nat)
  BY NatLessThanWellFounded
<1>2. R = {p \in Nat \X Nat : p[1] < p[2]}
  BY DEF OpToRel
<1> HIDE DEF R
<1>3. PICK m \in S : \A n \in S : ~ (<<n, m>> \in R)
  BY <1>1, WFMin
<1>4. ASSUME NEW n \in S PROVE m <= n
  <2>1. m \in Nat /\ n \in Nat
    OBVIOUS
  <2>2. <<n, m>> \in R <=> n < m
    BY <1>2, <2>1
  <2>. QED  BY <1>3, <2>1, <2>2
<1>. QED  BY <1>4

\* Min picks that element.
LEMMA MinIsLeast ==
  ASSUME NEW S \in SUBSET Nat, S # {}
  PROVE  Min(S) \in S /\ \A n \in S : Min(S) <= n
BY LeastNatural DEF Min

\* Evicting an address's oldest entry leaves a chain, at most as long.
LEMMA DropOldestType ==
  ASSUME NEW c \in Seq(Entry), NEW i
  PROVE  /\ DropOldestOf(c, i) \in Seq(Entry)
         /\ Len(DropOldestOf(c, i)) <= Len(c)
<1> DEFINE P == PositionsOf(c, i)
           k == Min(P)
<1>1. P \in SUBSET (1 .. Len(c)) /\ Len(c) \in Nat
  BY LenProperties DEF PositionsOf
<1>2. CASE ~ (i # NoIp /\ Cardinality(P) >= MaxPerIpInChain)
  BY <1>1, <1>2 DEF DropOldestOf
<1>3. CASE i # NoIp /\ Cardinality(P) >= MaxPerIpInChain
  <2>1. P # {}
    <3>1. Cardinality({}) = 0
      BY FS_EmptySet
    <3>2. ~ (0 >= MaxPerIpInChain)
      BY CapsArePositive
    <3> HIDE DEF P
    <3>. QED  BY <1>3, <3>1, <3>2
  <2>2. k \in 1 .. Len(c)
    <3>1. P \in SUBSET Nat
      BY <1>1
    <3>. QED  BY <3>1, <2>1, <1>1, MinIsLeast
  <2> DEFINE a == SubSeq(c, 1, k - 1)
             b == SubSeq(c, k + 1, Len(c))
  <2>3. a \in Seq(Entry) /\ Len(a) = k - 1
    BY <1>1, <2>2, ElementOfSeq, SubSeqProperties
  <2>4. b \in Seq(Entry) /\ Len(b) = Len(c) - k
    BY <1>1, <2>2, ElementOfSeq, SubSeqProperties
  <2>5. DropOldestOf(c, i) = a \o b
    BY <1>3 DEF DropOldestOf, RemoveAt
  <2> HIDE DEF a, b, k
  <2>6. a \o b \in Seq(Entry) /\ Len(a \o b) = Len(a) + Len(b)
    BY <2>3, <2>4, ConcatProperties
  <2>. QED  BY <1>1, <2>2, <2>3, <2>4, <2>5, <2>6
<1>. QED  BY <1>2, <1>3

\* The shift loop leaves a chain with room for one more entry.
LEMMA ShiftToFitType ==
  ASSUME NEW c \in Seq(Entry)
  PROVE  /\ ShiftToFit(c) \in Seq(Entry)
         /\ Len(ShiftToFit(c)) < MaxChainLen
<1>1. Len(c) \in Nat /\ MaxChainLen \in Nat /\ MaxChainLen >= 1
  BY LenProperties, CapsArePositive
<1>2. CASE Len(c) < MaxChainLen
  BY <1>1, <1>2 DEF ShiftToFit
<1>3. CASE Len(c) >= MaxChainLen
  <2> DEFINE m == Len(c) - MaxChainLen + 2
             d == SubSeq(c, m, Len(c))
  <2>1. ShiftToFit(c) = d
    BY <1>3 DEF ShiftToFit
  <2>2. m \in Int /\ m >= 2
    BY <1>1, <1>3
  <2>3. \A k \in m .. Len(c) : c[k] \in Entry
    <3>1. m .. Len(c) \subseteq 1 .. Len(c)
      BY <1>1, <2>2
    <3>. QED  BY <3>1, ElementOfSeq
  <2> HIDE DEF m
  <2>4. d \in Seq(Entry) /\ Len(d) = IF m <= Len(c) THEN Len(c) - m + 1 ELSE 0
    BY <1>1, <2>2, <2>3, SubSeqProperties
  <2>. QED  BY <1>1, <2>1, <2>2, <2>4 DEF m
<1>. QED  BY <1>1, <1>2, <1>3

\* A push always yields a chain within the global cap whose tip is the entry
\* pushed, whatever it evicts.
LEMMA PushOntoType ==
  ASSUME NEW c \in Seq(Entry), NEW e \in Entry
  PROVE  /\ PushOnto(c, e) \in Seq(Entry)
         /\ Len(PushOnto(c, e)) <= MaxChainLen
         /\ PushOnto(c, e) # << >>
         /\ TipHash(PushOnto(c, e)) = e.hash
<1> DEFINE d == ShiftToFit(DropOldestOf(c, e.ip))
<1>1. d \in Seq(Entry) /\ Len(d) < MaxChainLen
  BY DropOldestType, ShiftToFitType
<1>2. PushOnto(c, e) = Append(d, e)
  BY DEF PushOnto
<1> HIDE DEF d
<1>3. /\ Append(d, e) \in Seq(Entry)
      /\ Append(d, e) # << >>
      /\ Len(Append(d, e)) = Len(d) + 1
      /\ Append(d, e)[Len(d) + 1] = e
  BY <1>1, AppendProperties
<1>4. Len(d) \in Nat /\ MaxChainLen \in Nat
  BY <1>1, LenProperties, CapsArePositive
<1>. QED  BY <1>1, <1>2, <1>3, <1>4 DEF TipHash

\* The tip of a chain is an entry's hash, or GENESIS.
LEMMA TipHashType ==
  ASSUME NEW c \in Seq(Entry)
  PROVE  TipHash(c) \in Hash
<1>1. CASE c = << >>
  BY <1>1 DEF TipHash, Hash
<1>2. CASE c # << >>
  <2>1. Len(c) \in 1 .. Len(c)
    BY <1>2, EmptySeq, LenProperties
  <2>2. c[Len(c)] \in Entry
    BY <2>1, ElementOfSeq
  <2>. QED  BY <1>2, <2>2 DEF TipHash, Hash, Entry
<1>. QED  BY <1>1, <1>2

\* What a request signs is an entry.
LEMMA SignedOnType ==
  ASSUME NEW c \in Seq(Entry), NEW r \in Request, NEW i \in Address
  PROVE  SignedOn(c, r, i) \in Entry
BY TipHashType DEF SignedOn, Entry

\* Why a log does not fork: no stored entry names the current tip, and every
\* name is taken from a stored entry, so a fresh hash has never been named.
History(c, W) ==
  /\ Unforked(W)
  /\ \A e \in W : e.prev = TipHash(c) => e.prev = Genesis
  /\ \A e \in W : e.prev = Genesis \/ \E f \in W : f.hash = e.prev
  /\ TipHash(c) = Genesis \/ \E f \in W : f.hash = TipHash(c)

\* Extending the log, or starting it afresh, keeps its history unforked.
LEMMA ExtendKeepsHistory ==
  ASSUME NEW c \in Seq(Entry), NEW W \in SUBSET Entry, History(c, W),
         NEW base \in {c, << >>}, NEW r \in Request, NEW i \in Address,
         \A f \in W : f.hash # r
  PROVE  LET e == SignedOn(base, r, i)
         IN  History(PushOnto(base, e), W \cup {e})
<1> DEFINE e == SignedOn(base, r, i)
           d == PushOnto(base, e)
<1>1. base \in Seq(Entry)
  BY EmptySeq
<1>2. e \in Entry /\ e.hash = r /\ e.prev = TipHash(base)
  BY <1>1, SignedOnType DEF SignedOn
<1> HIDE DEF e
<1>3. TipHash(d) = r
  BY <1>1, <1>2, PushOntoType
<1> HIDE DEF d
<1>4. e.prev = Genesis \/ e.prev = TipHash(c)
  BY <1>2 DEF TipHash
<1>5. r # Genesis
  BY GenesisIsNoHash
<1>6. Unforked(W \cup {e})
  BY <1>4 DEF History, Unforked
<1>7. \A f \in W \cup {e} : f.prev # r
  <2>1. \A f \in W : f.prev # r
    BY <1>5 DEF History
  <2>2. e.prev # r
    BY <1>4, <1>5 DEF History
  <2>. QED  BY <2>1, <2>2
<1>8. \A f \in W \cup {e} : f.prev = Genesis \/ \E g \in W \cup {e} : g.hash = f.prev
  BY <1>4 DEF History
<1>9. History(d, W \cup {e})
  BY <1>2, <1>3, <1>6, <1>7, <1>8 DEF History
<1>. QED  BY <1>9 DEF d, e

-----------------------------------------------------------------------------
(***************************************************************************)
(* What evictions leave of a chain, entry by entry.                        *)
(***************************************************************************)

\* d is what is left of chain c: f gives the place each entry of d had in c.
LeftOf(d, c, f) ==
  /\ f \in Injection(1 .. Len(d), 1 .. Len(c))
  /\ \A k \in 1 .. Len(d) : d[k] = c[f[k]]

\* Leaving the chain alone is the simplest case.
LEMMA AllLeft ==
  ASSUME NEW c \in Seq(Entry)
  PROVE  /\ LeftOf(c, c, [k \in 1 .. Len(c) |-> k])
         /\ \A j \in 1 .. Len(c) : [k \in 1 .. Len(c) |-> k][j] = j
<1> DEFINE f == [k \in 1 .. Len(c) |-> k]
<1>1. f \in [1 .. Len(c) -> 1 .. Len(c)]
  OBVIOUS
<1>2. \A a, b \in 1 .. Len(c) : f[a] = f[b] => a = b
  OBVIOUS
<1>3. f \in Injection(1 .. Len(c), 1 .. Len(c))
  BY <1>1, <1>2, Fun_IsInj
<1>. QED  BY <1>3 DEF LeftOf

\* RemoveAt leaves every entry but the one at the given place.
LEMMA RemoveAtLeaves ==
  ASSUME NEW c \in Seq(Entry), NEW m \in 1 .. Len(c)
  PROVE  /\ RemoveAt(c, m) \in Seq(Entry)
         /\ Len(RemoveAt(c, m)) = Len(c) - 1
         /\ \E f : /\ LeftOf(RemoveAt(c, m), c, f)
                   /\ \A k \in 1 .. Len(c) :
                        k # m <=> \E j \in 1 .. Len(c) - 1 : f[j] = k
<1> DEFINE a == SubSeq(c, 1, m - 1)
           b == SubSeq(c, m + 1, Len(c))
           n == Len(c)
           d == RemoveAt(c, m)
           f == [j \in 1 .. n - 1 |-> IF j < m THEN j ELSE j + 1]
<1>1. n \in Nat /\ m \in Nat /\ 1 <= m /\ m <= n
  BY LenProperties
<1>2. \A k \in 1 .. n : c[k] \in Entry
  BY ElementOfSeq
<1>3. /\ a \in Seq(Entry) /\ Len(a) = m - 1
      /\ \A j \in 1 .. m - 1 : a[j] = c[j]
  <2>1. \A k \in 1 .. m - 1 : c[k] \in Entry
    BY <1>1, <1>2
  <2>2. /\ a \in Seq(Entry)
        /\ Len(a) = IF 1 <= m - 1 THEN (m - 1) - 1 + 1 ELSE 0
        /\ \A j \in 1 .. (m - 1) - 1 + 1 : a[j] = c[1 + j - 1]
    BY <1>1, <2>1, SubSeqProperties
  <2>. QED  BY <1>1, <2>2
<1>4. /\ b \in Seq(Entry) /\ Len(b) = n - m
      /\ \A j \in 1 .. n - m : b[j] = c[m + j]
  <2>1. \A k \in m + 1 .. n : c[k] \in Entry
    BY <1>1, <1>2
  <2>2. /\ b \in Seq(Entry)
        /\ Len(b) = IF m + 1 <= n THEN n - (m + 1) + 1 ELSE 0
        /\ \A j \in 1 .. n - (m + 1) + 1 : b[j] = c[(m + 1) + j - 1]
    BY <1>1, <2>1, SubSeqProperties
  <2>. QED  BY <1>1, <2>2
<1>5. d = a \o b
  BY DEF RemoveAt
<1> HIDE DEF a, b, d
<1>6. /\ d \in Seq(Entry) /\ Len(d) = n - 1
      /\ \A j \in 1 .. n - 1 : d[j] = IF j <= m - 1 THEN a[j] ELSE b[j - (m - 1)]
  <2>1. /\ a \o b \in Seq(Entry) /\ Len(a \o b) = Len(a) + Len(b)
        /\ \A j \in 1 .. Len(a) + Len(b) :
             (a \o b)[j] = IF j <= Len(a) THEN a[j] ELSE b[j - Len(a)]
    BY <1>3, <1>4, ConcatProperties
  <2>. QED  BY <1>1, <1>3, <1>4, <1>5, <2>1
<1> HIDE DEF n
<1>7. \A j \in 1 .. n - 1 : d[j] = c[f[j]]
  <2> SUFFICES ASSUME NEW j \in 1 .. n - 1 PROVE d[j] = c[f[j]]
    OBVIOUS
  <2>1. CASE j < m
    BY <1>1, <1>3, <1>6, <2>1
  <2>2. CASE j >= m
    <3>1. j - (m - 1) \in 1 .. n - m /\ m + (j - (m - 1)) = j + 1
      BY <1>1, <2>2
    <3>. QED  BY <1>1, <1>4, <1>6, <2>2, <3>1
  <2>. QED  BY <1>1, <2>1, <2>2
<1>8. f \in [1 .. n - 1 -> 1 .. n]
  BY <1>1
<1>9. \A x, y \in 1 .. n - 1 : f[x] = f[y] => x = y
  BY <1>1
<1>10. f \in Injection(1 .. n - 1, 1 .. n)
  BY <1>8, <1>9, Fun_IsInj
<1>11. \A k \in 1 .. n : k # m <=> \E j \in 1 .. n - 1 : f[j] = k
  <2> SUFFICES ASSUME NEW k \in 1 .. n
               PROVE  k # m <=> \E j \in 1 .. n - 1 : f[j] = k
    OBVIOUS
  <2>1. CASE k < m
    <3>1. k \in 1 .. n - 1 /\ f[k] = k
      BY <1>1, <2>1
    <3>. QED  BY <1>1, <2>1, <3>1
  <2>2. CASE k > m
    <3>1. k - 1 \in 1 .. n - 1 /\ f[k - 1] = k
      BY <1>1, <2>2
    <3>. QED  BY <1>1, <2>2, <3>1
  <2>3. CASE k = m
    BY <1>1, <2>3
  <2>. QED  BY <1>1, <2>1, <2>2, <2>3
<1>12. LeftOf(d, c, f)
  BY <1>6, <1>7, <1>10 DEF LeftOf, n
<1>. QED  BY <1>6, <1>11, <1>12 DEF d, n

\* The shift loop leaves a chain's newest entries, and all of them when there is
\* room.
LEMMA ShiftToFitLeaves ==
  ASSUME NEW c \in Seq(Entry)
  PROVE  /\ \E f : LeftOf(ShiftToFit(c), c, f)
         /\ Len(c) < MaxChainLen => ShiftToFit(c) = c
         /\ Len(c) = MaxChainLen =>
              \A k \in 2 .. Len(c) : \E j \in 1 .. Len(ShiftToFit(c)) :
                ShiftToFit(c)[j] = c[k]
<1> DEFINE n == Len(c)
           m == n - MaxChainLen + 2
           d == SubSeq(c, m, n)
<1>1. n \in Nat /\ MaxChainLen \in Nat /\ MaxChainLen >= 1
  BY LenProperties, CapsArePositive
<1>2. CASE n < MaxChainLen
  <2>1. ShiftToFit(c) = c
    BY <1>1, <1>2 DEF ShiftToFit
  <2>2. LeftOf(c, c, [k \in 1 .. Len(c) |-> k])
    BY AllLeft
  <2>. QED  BY <1>1, <1>2, <2>1, <2>2
<1>3. CASE n >= MaxChainLen
  <2>1. ShiftToFit(c) = d
    BY <1>3 DEF ShiftToFit
  <2>2. m \in Int /\ m >= 2
    BY <1>1, <1>3
  <2>3. \A k \in m .. n : c[k] \in Entry
    <3>1. m .. n \subseteq 1 .. n
      BY <1>1, <2>2
    <3>. QED  BY <3>1, ElementOfSeq
  <2> HIDE DEF m, n
  <2>4. /\ Len(d) = IF m <= n THEN n - m + 1 ELSE 0
        /\ \A j \in 1 .. n - m + 1 : d[j] = c[m + j - 1]
    BY <1>1, <2>2, <2>3, SubSeqProperties
  <2> HIDE DEF d
  <2> DEFINE f == [j \in 1 .. Len(d) |-> m + j - 1]
  <2>5. f \in [1 .. Len(d) -> 1 .. n]
    BY <1>1, <2>2, <2>4
  <2>6. \A x, y \in 1 .. Len(d) : f[x] = f[y] => x = y
    BY <1>1, <2>2, <2>4
  <2>7. f \in Injection(1 .. Len(d), 1 .. n)
    BY <2>5, <2>6, Fun_IsInj
  <2>8. \A j \in 1 .. Len(d) : d[j] = c[f[j]]
    BY <1>1, <2>2, <2>4
  <2>9. LeftOf(d, c, f)
    BY <2>7, <2>8 DEF LeftOf, n
  <2>10. ASSUME n = MaxChainLen, NEW k \in 2 .. n
         PROVE  \E j \in 1 .. Len(d) : d[j] = c[k]
    <3>1. m = 2
      BY <1>1, <2>10 DEF m
    <3>2. k - 1 \in 1 .. Len(d) /\ d[k - 1] = c[k]
      BY <1>1, <2>4, <3>1
    <3>. QED  BY <3>2
  <2>. QED  BY <1>1, <1>3, <2>1, <2>9, <2>10 DEF n
<1>. QED  BY <1>1, <1>2, <1>3

\* The entries of an address can only get fewer, and do when one of them is not
\* left.
LEMMA FewerPositions ==
  ASSUME NEW c \in Seq(Entry), NEW d \in Seq(Entry), NEW f, LeftOf(d, c, f), NEW i
  PROVE  /\ Cardinality(PositionsOf(d, i)) \in Nat
         /\ Cardinality(PositionsOf(c, i)) \in Nat
         /\ Cardinality(PositionsOf(d, i)) <= Cardinality(PositionsOf(c, i))
         /\ \A p \in PositionsOf(c, i) :
              (\A j \in 1 .. Len(d) : f[j] # p)
                => Cardinality(PositionsOf(d, i)) < Cardinality(PositionsOf(c, i))
<1> DEFINE P == PositionsOf(c, i)
           Q == PositionsOf(d, i)
           g == [k \in Q |-> f[k]]
<1>1. IsFiniteSet(P) /\ IsFiniteSet(Q)
  <2>1. P \in SUBSET (1 .. Len(c)) /\ Q \in SUBSET (1 .. Len(d))
    BY DEF PositionsOf
  <2>2. Len(c) \in Int /\ Len(d) \in Int
    BY LenProperties
  <2>3. IsFiniteSet(1 .. Len(c)) /\ IsFiniteSet(1 .. Len(d))
    BY <2>2, FS_Interval
  <2> HIDE DEF P, Q
  <2>. QED  BY <2>1, <2>3, FS_Subset
<1>2. Cardinality(P) \in Nat /\ Cardinality(Q) \in Nat
  BY <1>1, FS_CardinalityType
<1>3. /\ f \in [1 .. Len(d) -> 1 .. Len(c)]
      /\ \A x, y \in 1 .. Len(d) : f[x] = f[y] => x = y
  BY DEF LeftOf, Injection, IsInjective
<1>4. Q \subseteq 1 .. Len(d) /\ \A k \in Q : f[k] \in P
  BY <1>3 DEF LeftOf, PositionsOf
<1> HIDE DEF P, Q
<1>5. \A x, y \in Q : g[x] = g[y] => x = y
  BY <1>3, <1>4
<1>6. Cardinality(Q) <= Cardinality(P)
  <2>1. g \in [Q -> P]
    BY <1>4
  <2> HIDE DEF g
  <2>2. g \in Injection(Q, P)
    BY <1>5, <2>1, Fun_IsInj
  <2>. QED  BY <1>1, <2>2, FS_Injection
<1>7. ASSUME NEW p \in P, \A j \in 1 .. Len(d) : f[j] # p
      PROVE  Cardinality(Q) < Cardinality(P)
  <2>1. g \in [Q -> P \ {p}]
    BY <1>4, <1>7
  <2> HIDE DEF g
  <2>2. g \in Injection(Q, P \ {p})
    BY <1>5, <2>1, Fun_IsInj
  <2>3. IsFiniteSet(P \ {p}) /\ Cardinality(P \ {p}) = Cardinality(P) - 1
    BY <1>1, FS_RemoveElement
  <2>4. Cardinality(Q) <= Cardinality(P \ {p})
    BY <2>2, <2>3, FS_Injection
  <2>. QED  BY <1>2, <2>3, <2>4
<1>. QED  BY <1>2, <1>6, <1>7 DEF P, Q

\* Evicting an address's oldest entry touches nothing else, and leaves the
\* address room for one entry.
LEMMA DropOldestLeaves ==
  ASSUME NEW c \in Seq(Entry), NEW i
  PROVE  LET d == DropOldestOf(c, i)
             P == PositionsOf(c, i)
             bites == i # NoIp /\ Cardinality(P) >= MaxPerIpInChain
         IN  /\ \E f : LeftOf(d, c, f)
             /\ i # NoIp /\ Cardinality(P) <= MaxPerIpInChain =>
                  Cardinality(PositionsOf(d, i)) < MaxPerIpInChain
             /\ ~ bites => d = c
             /\ bites => /\ Len(d) = Len(c) - 1
                         /\ \A k \in 1 .. Len(c) :
                              k # Min(P) => \E j \in 1 .. Len(d) : d[j] = c[k]
<1> DEFINE d == DropOldestOf(c, i)
           P == PositionsOf(c, i)
           bites == i # NoIp /\ Cardinality(P) >= MaxPerIpInChain
<1>1. MaxPerIpInChain \in Nat /\ MaxPerIpInChain >= 1
  BY CapsArePositive
<1>2. /\ LeftOf(c, c, [k \in 1 .. Len(c) |-> k])
      /\ Cardinality(P) \in Nat
  BY AllLeft, FewerPositions
<1>3. CASE ~ bites
  <2>1. d = c
    BY <1>3 DEF DropOldestOf
  <2>2. i # NoIp => Cardinality(P) < MaxPerIpInChain
    BY <1>1, <1>2, <1>3
  <2>. QED  BY <1>2, <1>3, <2>1, <2>2
<1>4. CASE bites
  <2>1. P \in SUBSET (1 .. Len(c)) /\ Len(c) \in Nat
    BY LenProperties DEF PositionsOf
  <2>2. P # {}
    <3>1. Cardinality({}) = 0
      BY FS_EmptySet
    <3>2. ~ (0 >= MaxPerIpInChain)
      BY <1>1
    <3>3. Cardinality(P) >= MaxPerIpInChain
      BY <1>4
    <3> HIDE DEF P
    <3>. QED  BY <3>1, <3>2, <3>3
  <2> DEFINE m == Min(P)
  <2>3. m \in P /\ m \in 1 .. Len(c)
    <3>1. P \in SUBSET Nat
      BY <2>1
    <3>. QED  BY <3>1, <2>1, <2>2, MinIsLeast
  <2>4. d = RemoveAt(c, m)
    BY <1>4 DEF DropOldestOf
  <2> HIDE DEF m, P, d
  <2>5. d \in Seq(Entry) /\ Len(d) = Len(c) - 1
    <3>1. RemoveAt(c, m) \in Seq(Entry) /\ Len(RemoveAt(c, m)) = Len(c) - 1
      BY <2>3, RemoveAtLeaves
    <3>. QED  BY <2>4, <3>1
  <2>6. PICK f : /\ LeftOf(d, c, f)
                 /\ \A k \in 1 .. Len(c) :
                      k # m <=> \E j \in 1 .. Len(c) - 1 : f[j] = k
    <3>1. \E f : /\ LeftOf(RemoveAt(c, m), c, f)
                /\ \A k \in 1 .. Len(c) :
                     k # m <=> \E j \in 1 .. Len(c) - 1 : f[j] = k
      BY <2>3, RemoveAtLeaves, Zenon
    <3>. QED  BY <2>4, <3>1, Zenon
  <2>7. Cardinality(PositionsOf(d, i)) \in Nat
    BY <2>5, <2>6, FewerPositions
  <2>8. Cardinality(PositionsOf(d, i)) < Cardinality(P)
    <3>1. \A j \in 1 .. Len(d) : f[j] # m
      BY <2>3, <2>5, <2>6
    <3>. QED  BY <2>3, <2>5, <2>6, <3>1, FewerPositions DEF P
  <2>9. \A k \in 1 .. Len(c) : k # m => \E j \in 1 .. Len(d) : d[j] = c[k]
    BY <2>5, <2>6 DEF LeftOf
  <2>10. Cardinality(P) <= MaxPerIpInChain =>
           Cardinality(PositionsOf(d, i)) < MaxPerIpInChain
    BY <1>1, <1>2, <2>7, <2>8
  <2>11. \E g : LeftOf(d, c, g)
    BY <2>6
  <2>. QED  BY <1>4, <2>5, <2>9, <2>10, <2>11 DEF m, P, d
<1>. QED  BY <1>3, <1>4

\* What is left of what is left of a chain is left of the chain.
LEMMA LeftOfLeft ==
  ASSUME NEW c \in Seq(Entry), NEW d \in Seq(Entry), NEW e \in Seq(Entry),
         NEW f, LeftOf(d, c, f), NEW g, LeftOf(e, d, g)
  PROVE  \E h : LeftOf(e, c, h)
<1> DEFINE h == [k \in 1 .. Len(e) |-> f[g[k]]]
<1>1. /\ f \in [1 .. Len(d) -> 1 .. Len(c)]
      /\ \A x, y \in 1 .. Len(d) : f[x] = f[y] => x = y
      /\ \A k \in 1 .. Len(d) : d[k] = c[f[k]]
  BY DEF LeftOf, Injection, IsInjective
<1>2. /\ g \in [1 .. Len(e) -> 1 .. Len(d)]
      /\ \A x, y \in 1 .. Len(e) : g[x] = g[y] => x = y
      /\ \A k \in 1 .. Len(e) : e[k] = d[g[k]]
  BY DEF LeftOf, Injection, IsInjective
<1>3. h \in [1 .. Len(e) -> 1 .. Len(c)]
  BY <1>1, <1>2
<1>4. \A x, y \in 1 .. Len(e) : h[x] = h[y] => x = y
  BY <1>1, <1>2
<1>5. \A k \in 1 .. Len(e) : e[k] = c[h[k]]
  BY <1>1, <1>2
<1> HIDE DEF h
<1>6. h \in Injection(1 .. Len(e), 1 .. Len(c))
  BY <1>3, <1>4, Fun_IsInj
<1>. QED  BY <1>5, <1>6 DEF LeftOf

\* A push appends its entry to what the two caps leave of the chain.
LEMMA PushOntoAppends ==
  ASSUME NEW c \in Seq(Entry), NEW e \in Entry
  PROVE  LET b == ShiftToFit(DropOldestOf(c, e.ip))
             d == PushOnto(c, e)
         IN  /\ b \in Seq(Entry) /\ Len(b) \in Nat
             /\ \E f : LeftOf(b, c, f)
             /\ d \in Seq(Entry) /\ Len(d) = Len(b) + 1
             /\ d[Len(b) + 1] = e
             /\ \A k \in 1 .. Len(b) : d[k] = b[k]
<1> DEFINE a == DropOldestOf(c, e.ip)
           b == ShiftToFit(a)
           d == PushOnto(c, e)
<1>1. a \in Seq(Entry) /\ \E f : LeftOf(a, c, f)
  BY DropOldestType, DropOldestLeaves
<1>2. d = Append(b, e)
  BY DEF PushOnto
<1> HIDE DEF a
<1>3. b \in Seq(Entry) /\ \E g : LeftOf(b, a, g)
  BY <1>1, ShiftToFitType, ShiftToFitLeaves
<1> HIDE DEF b, d
<1>4. \E h : LeftOf(b, c, h)
  BY <1>1, <1>3, LeftOfLeft
<1>5. Len(b) \in Nat
  BY <1>3, LenProperties
<1>6. /\ d \in Seq(Entry) /\ Len(d) = Len(b) + 1 /\ d[Len(b) + 1] = e
      /\ \A k \in 1 .. Len(b) : d[k] = b[k]
  BY <1>2, <1>3, AppendProperties
<1>. QED  BY <1>3, <1>4, <1>5, <1>6 DEF a, b, d

\* No address fills more than its share of a chain.
Capped(c) == \A i \in Ip : Cardinality(PositionsOf(c, i)) <= MaxPerIpInChain

\* A push to a chain where every address is within its share leaves it so.
LEMMA PushKeepsCapped ==
  ASSUME NEW c \in Seq(Entry), NEW e \in Entry, Capped(c)
  PROVE  Capped(PushOnto(c, e))
<1> DEFINE a == DropOldestOf(c, e.ip)
           b == ShiftToFit(a)
           d == PushOnto(c, e)
<1>1. a \in Seq(Entry) /\ b \in Seq(Entry)
  BY DropOldestType, ShiftToFitType
<1>2. /\ Len(b) \in Nat /\ d \in Seq(Entry) /\ Len(d) = Len(b) + 1
      /\ d[Len(b) + 1] = e /\ \A k \in 1 .. Len(b) : d[k] = b[k]
  BY PushOntoAppends
<1>3. MaxPerIpInChain \in Nat
  BY CapsArePositive
<1> SUFFICES ASSUME NEW i \in Ip
             PROVE  Cardinality(PositionsOf(d, i)) <= MaxPerIpInChain
  BY DEF Capped
<1>4. i # NoIp /\ Cardinality(PositionsOf(c, i)) <= MaxPerIpInChain
  BY NoIpIsNoAddress DEF Capped
<1>5. PICK f : LeftOf(a, c, f)
  BY DropOldestLeaves
<1>6. i = e.ip => Cardinality(PositionsOf(a, i)) < MaxPerIpInChain
  BY <1>4, DropOldestLeaves
<1> HIDE DEF a
<1>7. PICK g : LeftOf(b, a, g)
  BY <1>1, ShiftToFitLeaves
<1> HIDE DEF b, d
<1>8. /\ Cardinality(PositionsOf(a, i)) \in Nat
      /\ Cardinality(PositionsOf(c, i)) \in Nat
      /\ Cardinality(PositionsOf(a, i)) <= Cardinality(PositionsOf(c, i))
  BY <1>1, <1>5, FewerPositions
<1>9. /\ Cardinality(PositionsOf(b, i)) \in Nat
      /\ Cardinality(PositionsOf(b, i)) <= Cardinality(PositionsOf(a, i))
  BY <1>1, <1>7, FewerPositions
<1>10. CASE i # e.ip
  <2>1. PositionsOf(d, i) = PositionsOf(b, i)
    BY <1>2, <1>10 DEF PositionsOf
  <2>. QED  BY <1>3, <1>4, <1>8, <1>9, <2>1
<1>11. CASE i = e.ip
  <2>1. PositionsOf(d, i) = PositionsOf(b, i) \cup {Len(b) + 1}
    BY <1>2, <1>11 DEF PositionsOf
  <2>2. PositionsOf(b, i) \in SUBSET (1 .. Len(b))
    BY DEF PositionsOf
  <2>3. IsFiniteSet(PositionsOf(b, i))
    <3>1. IsFiniteSet(1 .. Len(b))
      BY <1>2, FS_Interval
    <3>. QED  BY <2>2, <3>1, FS_Subset
  <2>4. Len(b) + 1 \notin PositionsOf(b, i)
    BY <1>2 DEF PositionsOf
  <2>5. Cardinality(PositionsOf(d, i)) = Cardinality(PositionsOf(b, i)) + 1
    BY <2>1, <2>3, <2>4, FS_AddElement
  <2>. QED  BY <1>3, <1>6, <1>8, <1>9, <1>11, <2>5
<1>. QED  BY <1>10, <1>11

\* What a push to a chain within the global cap does not keep, an eviction rule
\* dropped.
LEMMA PushDropsOnlyEvicted ==
  ASSUME NEW c \in Seq(Entry), Len(c) <= MaxChainLen, NEW e \in Entry,
         NEW k \in 1 .. Len(c)
  PROVE  \/ \E j \in 1 .. Len(PushOnto(c, e)) : PushOnto(c, e)[j] = c[k]
         \/ k = 1 /\ Len(c) >= MaxChainLen
         \/ /\ e.ip # NoIp
            /\ Cardinality(PositionsOf(c, e.ip)) >= MaxPerIpInChain
            /\ k = Min(PositionsOf(c, e.ip))
<1> DEFINE a == DropOldestOf(c, e.ip)
           b == ShiftToFit(a)
           d == PushOnto(c, e)
           P == PositionsOf(c, e.ip)
           bites == e.ip # NoIp /\ Cardinality(P) >= MaxPerIpInChain
<1>1. MaxChainLen \in Nat /\ Len(c) \in Nat
  BY CapsArePositive, LenProperties
<1>2. a \in Seq(Entry)
  BY DropOldestType
<1>3. /\ Len(b) \in Nat /\ Len(d) = Len(b) + 1
      /\ \A j \in 1 .. Len(b) : d[j] = b[j]
  BY PushOntoAppends
<1>4. /\ ~ bites => a = c
      /\ bites => /\ Len(a) = Len(c) - 1
                  /\ k # Min(P) => \E j \in 1 .. Len(a) : a[j] = c[k]
  BY DropOldestLeaves
<1> HIDE DEF a
<1>5. /\ Len(a) < MaxChainLen => b = a
      /\ Len(a) = MaxChainLen =>
           \A m \in 2 .. Len(a) : \E j \in 1 .. Len(b) : b[j] = a[m]
  BY <1>2, ShiftToFitLeaves
<1> HIDE DEF b, d, P
<1>6. CASE bites
  <2>1. b = a
    BY <1>1, <1>4, <1>5, <1>6
  <2>2. CASE k = Min(P)
    BY <1>6, <2>2 DEF P
  <2>3. CASE k # Min(P)
    <3>1. PICK j \in 1 .. Len(a) : a[j] = c[k]
      BY <1>4, <1>6, <2>3
    <3>2. j \in 1 .. Len(d) /\ d[j] = c[k]
      BY <1>3, <2>1, <3>1
    <3>. QED  BY <3>2 DEF d
  <2>. QED  BY <2>2, <2>3
<1>7. CASE ~ bites
  <2>1. a = c
    BY <1>4, <1>7
  <2>2. CASE Len(c) < MaxChainLen
    <3>1. k \in 1 .. Len(d) /\ d[k] = c[k]
      BY <1>1, <1>3, <1>5, <2>1, <2>2
    <3>. QED  BY <3>1 DEF d
  <2>3. CASE Len(c) = MaxChainLen /\ k # 1
    <3>1. PICK j \in 1 .. Len(b) : b[j] = c[k]
      BY <1>1, <1>5, <2>1, <2>3
    <3>2. j \in 1 .. Len(d) /\ d[j] = c[k]
      BY <1>3, <3>1
    <3>. QED  BY <3>2 DEF d
  <2>. QED  BY <1>1, <2>2, <2>3
<1>. QED  BY <1>6, <1>7

-----------------------------------------------------------------------------
(***************************************************************************)
(* Chains drawn from a set of entries that is within both caps.            *)
(***************************************************************************)

\* Neither cap can have bitten a log with just these entries.
Uncapped(W) ==
  /\ Cardinality(W) <= MaxChainLen
  /\ \A i \in Ip : Cardinality({e \in W : e.ip = i}) <= MaxPerIpInChain

\* c's entries are distinct members of W, and link up when no cap can have
\* bitten.
Drawn(c, W) ==
  /\ \A k \in 1 .. Len(c) : c[k] \in W
  /\ \A j, k \in 1 .. Len(c) : c[j].hash = c[k].hash => j = k
  /\ Uncapped(W) => SessionVerifies(c)

\* A chain drawn from W is no longer than W, for each address too.
LEMMA DrawnFits ==
  ASSUME NEW c \in Seq(Entry), NEW W \in SUBSET Entry, IsFiniteSet(W), Drawn(c, W),
         NEW i
  PROVE  /\ Len(c) \in Nat /\ Len(c) <= Cardinality(W)
         /\ Cardinality(PositionsOf(c, i)) <= Cardinality({e \in W : e.ip = i})
<1> DEFINE g == [k \in 1 .. Len(c) |-> c[k]]
           P == PositionsOf(c, i)
           V == {e \in W : e.ip = i}
           h == [k \in P |-> c[k]]
<1>1. Len(c) \in Nat
  BY LenProperties
<1>2. \A j, k \in 1 .. Len(c) : c[j] = c[k] => j = k
  BY DEF Drawn
<1>3. Len(c) <= Cardinality(W)
  <2>1. g \in [1 .. Len(c) -> W]
    BY DEF Drawn
  <2>2. \A j, k \in 1 .. Len(c) : g[j] = g[k] => j = k
    BY <1>2
  <2> HIDE DEF g
  <2>3. g \in Injection(1 .. Len(c), W)
    BY <2>1, <2>2, Fun_IsInj
  <2>4. Cardinality(1 .. Len(c)) <= Cardinality(W)
    BY <2>3, FS_Injection
  <2>5. Cardinality(1 .. Len(c)) = Len(c)
    <3>1. Cardinality(1 .. Len(c)) = IF 1 > Len(c) THEN 0 ELSE Len(c) - 1 + 1
      BY <1>1, FS_Interval
    <3>. QED  BY <1>1, <3>1
  <2>. QED  BY <2>4, <2>5
<1>4. Cardinality(P) <= Cardinality(V)
  <2>1. h \in [P -> V]
    BY DEF Drawn, PositionsOf
  <2>2. \A j, k \in P : h[j] = h[k] => j = k
    BY <1>2 DEF PositionsOf
  <2>3. V \in SUBSET W
    OBVIOUS
  <2> HIDE DEF h, P, V
  <2>4. h \in Injection(P, V)
    BY <2>1, <2>2, Fun_IsInj
  <2>5. IsFiniteSet(V)
    BY <2>3, FS_Subset
  <2>. QED  BY <2>4, <2>5, FS_Injection
<1>. QED  BY <1>1, <1>3, <1>4

\* One entry more uses up room under each cap that counts it.
LEMMA OneMoreEntry ==
  ASSUME NEW W \in SUBSET Entry, IsFiniteSet(W), NEW e \in Entry, e \notin W,
         Uncapped(W \cup {e})
  PROVE  /\ Uncapped(W)
         /\ Cardinality(W) < MaxChainLen
         /\ e.ip # NoIp =>
              Cardinality({f \in W : f.ip = e.ip}) < MaxPerIpInChain
<1>1. MaxChainLen \in Nat /\ MaxPerIpInChain \in Nat
  BY CapsArePositive
<1>2. /\ Cardinality(W) \in Nat
      /\ Cardinality(W \cup {e}) = Cardinality(W) + 1
  BY FS_CardinalityType, FS_AddElement
<1>3. Cardinality(W) < MaxChainLen
  BY <1>1, <1>2 DEF Uncapped
<1>4. ASSUME NEW i \in Ip
      PROVE  /\ Cardinality({f \in W : f.ip = i}) <= MaxPerIpInChain
             /\ i = e.ip => Cardinality({f \in W : f.ip = i}) < MaxPerIpInChain
  <2> DEFINE V == {f \in W : f.ip = i}
             U == {f \in W \cup {e} : f.ip = i}
  <2>1. V \in SUBSET W /\ Cardinality(U) <= MaxPerIpInChain
    BY DEF Uncapped
  <2>2. IF e.ip = i THEN U = V \cup {e} ELSE U = V
    OBVIOUS
  <2>3. e \notin V
    OBVIOUS
  <2> HIDE DEF U, V
  <2>4. IsFiniteSet(V)
    BY <2>1, FS_Subset
  <2>5. Cardinality(V) \in Nat /\ Cardinality(V \cup {e}) = Cardinality(V) + 1
    BY <2>3, <2>4, FS_CardinalityType, FS_AddElement
  <2>6. /\ Cardinality(V) <= MaxPerIpInChain
        /\ i = e.ip => Cardinality(V) < MaxPerIpInChain
    BY <1>1, <2>1, <2>2, <2>5
  <2>. QED  BY <2>6 DEF V
<1>5. e.ip \in Ip \cup {NoIp}
  BY DEF Entry, Address
<1>. QED  BY <1>1, <1>2, <1>3, <1>4, <1>5 DEF Uncapped

\* A chain stays drawn from a set that grows,
LEMMA MoreWritten ==
  ASSUME NEW c \in Seq(Entry), NEW W \in SUBSET Entry, IsFiniteSet(W), Drawn(c, W),
         NEW e \in Entry, e \notin W
  PROVE  Drawn(c, W \cup {e})
BY OneMoreEntry DEF Drawn

\* and so does the chain that a fresh entry is pushed to.
LEMMA PushKeepsDrawn ==
  ASSUME NEW c \in Seq(Entry), NEW W \in SUBSET Entry, IsFiniteSet(W), Drawn(c, W),
         NEW r \in Request, NEW i \in Address, \A f \in W : f.hash # r
  PROVE  LET e == SignedOn(c, r, i) IN Drawn(PushOnto(c, e), W \cup {e})
<1> DEFINE e == SignedOn(c, r, i)
           a == DropOldestOf(c, e.ip)
           b == ShiftToFit(a)
           d == PushOnto(c, e)
<1>1. e \in Entry /\ e.hash = r /\ e.prev = TipHash(c) /\ e.ip = i
  BY SignedOnType DEF SignedOn
<1>2. e \notin W
  BY <1>1
<1> HIDE DEF e
<1>3. /\ b \in Seq(Entry) /\ Len(b) \in Nat
      /\ d \in Seq(Entry) /\ Len(d) = Len(b) + 1 /\ d[Len(b) + 1] = e
      /\ \A k \in 1 .. Len(b) : d[k] = b[k]
  BY <1>1, PushOntoAppends
<1>4. PICK f : LeftOf(b, c, f)
  BY <1>1, PushOntoAppends
<1>5. /\ \A k \in 1 .. Len(b) : f[k] \in 1 .. Len(c) /\ b[k] = c[f[k]]
      /\ \A j, k \in 1 .. Len(b) : f[j] = f[k] => j = k
  BY <1>4 DEF LeftOf, Injection, IsInjective
<1>6. ASSUME Uncapped(W \cup {e}) PROVE b = c /\ SessionVerifies(c)
  <2>1. /\ Uncapped(W) /\ Cardinality(W) < MaxChainLen
        /\ i # NoIp => Cardinality({g \in W : g.ip = i}) < MaxPerIpInChain
    BY <1>1, <1>2, <1>6, OneMoreEntry
  <2>2. /\ Len(c) \in Nat /\ Len(c) <= Cardinality(W)
        /\ Cardinality(PositionsOf(c, i)) <= Cardinality({g \in W : g.ip = i})
    BY DrawnFits
  <2>3. {g \in W : g.ip = i} \in SUBSET W
    OBVIOUS
  <2>4. /\ Cardinality(W) \in Nat /\ Cardinality({g \in W : g.ip = i}) \in Nat
        /\ Cardinality(PositionsOf(c, i)) \in Nat
        /\ MaxChainLen \in Nat /\ MaxPerIpInChain \in Nat
    <3>1. IsFiniteSet({g \in W : g.ip = i})
      BY <2>3, FS_Subset
    <3>2. LeftOf(c, c, [k \in 1 .. Len(c) |-> k])
      BY AllLeft
    <3>. QED  BY <3>1, <3>2, FewerPositions, FS_CardinalityType, CapsArePositive
  <2>5. a = c
    <3>1. i # NoIp => ~ (Cardinality(PositionsOf(c, i)) >= MaxPerIpInChain)
      BY <2>1, <2>2, <2>4
    <3>. QED  BY <1>1, <3>1, DropOldestLeaves
  <2> HIDE DEF a
  <2>6. b = c
    BY <2>1, <2>2, <2>4, <2>5, ShiftToFitLeaves
  <2>. QED  BY <2>1, <2>6 DEF Drawn
<1> HIDE DEF a, b, d
<1>6b. \A k \in 1 .. Len(b) : b[k] \in W
  <2>1. \A k \in 1 .. Len(c) : c[k] \in W
    BY DEF Drawn
  <2>. QED  BY <1>5, <2>1
<1>7. ASSUME NEW k \in 1 .. Len(d) PROVE d[k] \in W \cup {e}
  <2>1. CASE k = Len(b) + 1
    BY <1>3, <2>1
  <2>2. CASE k # Len(b) + 1
    <3>1. k \in 1 .. Len(b)
      BY <1>3, <2>2
    <3>2. d[k] = b[k] /\ b[k] \in W
      BY <1>3, <1>6b, <3>1
    <3>. QED  BY <3>2
  <2>. QED  BY <2>1, <2>2
<1>8. \A j, k \in 1 .. Len(d) : d[j].hash = d[k].hash => j = k
  <2>1. \A k \in 1 .. Len(b) : b[k] \in W /\ d[k].hash # r
    <3>1. \A k \in 1 .. Len(b) : d[k] = b[k]
      BY <1>3
    <3>. QED  BY <1>6b, <3>1
  <2>2. \A j, k \in 1 .. Len(b) : d[j].hash = d[k].hash => j = k
    <3> SUFFICES ASSUME NEW j \in 1 .. Len(b), NEW k \in 1 .. Len(b),
                        d[j].hash = d[k].hash
                 PROVE  j = k
      OBVIOUS
    <3>1. d[j] = c[f[j]] /\ d[k] = c[f[k]]
      BY <1>3, <1>5
    <3>2. f[j] \in 1 .. Len(c) /\ f[k] \in 1 .. Len(c)
      BY <1>5
    <3>3. f[j] = f[k]
      BY <3>1, <3>2 DEF Drawn
    <3>. QED  BY <1>5, <3>3
  <2>3. d[Len(b) + 1].hash = r
    BY <1>1, <1>3
  <2>4. \A k \in 1 .. Len(d) : k \in 1 .. Len(b) \/ k = Len(b) + 1
    BY <1>3
  <2>. QED  BY <2>1, <2>2, <2>3, <2>4
<1>9. ASSUME Uncapped(W \cup {e}) PROVE SessionVerifies(d)
  <2>1. b = c /\ SessionVerifies(c)
    BY <1>6, <1>9
  <2> SUFFICES ASSUME NEW k \in 1 .. Len(d)
               PROVE  d[k].prev = IF k = 1 THEN Genesis ELSE d[k - 1].hash
    BY DEF SessionVerifies, LinksUp
  <2>2. CASE k \in 1 .. Len(b)
    <3>1. d[k] = c[k] /\ (k # 1 => k - 1 \in 1 .. Len(b) /\ d[k - 1] = c[k - 1])
      BY <1>3, <2>1, <2>2
    <3>. QED  BY <2>1, <2>2, <3>1 DEF SessionVerifies, LinksUp
  <2>3. CASE k = Len(b) + 1
    <3>1. d[k].prev = TipHash(c)
      BY <1>1, <1>3, <2>3
    <3>2. CASE c = << >>
      <4>1. Len(b) = 0
        BY <2>1, <3>2, EmptySeq
      <4>. QED  BY <2>3, <3>1, <3>2, <4>1 DEF TipHash
    <3>3. CASE c # << >>
      <4>1. Len(b) # 0
        BY <2>1, <3>3, EmptySeq
      <4>2. k # 1 /\ k - 1 = Len(b) /\ d[k - 1] = c[Len(c)]
        BY <1>3, <2>1, <2>3, <4>1
      <4>. QED  BY <3>1, <3>3, <4>2 DEF TipHash
    <3>. QED  BY <3>2, <3>3
  <2>. QED  BY <1>3, <2>2, <2>3
<1>10. Drawn(d, W \cup {e})
  BY <1>7, <1>8, <1>9 DEF Drawn
<1>. QED  BY <1>10 DEF d, e

-----------------------------------------------------------------------------
(***************************************************************************)
(* Breaks in the links.  A push is an append, after which at most one entry*)
(* is taken out: the address's oldest, or the first.                       *)
(***************************************************************************)

\* Every break in c is accounted for by an entry of W that a cap evicted.
Accounted(c, W) == \A k \in 1 .. Len(c) : Explained(c, W, k)

\* d is c with the entry at place p taken out.
Without(d, c, p) ==
  /\ Len(d) = Len(c) - 1
  /\ \A k \in 1 .. Len(d) : d[k] = IF k < p THEN c[k] ELSE c[k + 1]

\* RemoveAt takes one entry out.
LEMMA RemoveAtIsWithout ==
  ASSUME NEW c \in Seq(Entry), NEW p \in 1 .. Len(c)
  PROVE  Without(RemoveAt(c, p), c, p)
<1> DEFINE a == SubSeq(c, 1, p - 1)
           b == SubSeq(c, p + 1, Len(c))
           n == Len(c)
           d == RemoveAt(c, p)
<1>1. n \in Nat /\ p \in Nat /\ 1 <= p /\ p <= n
  BY LenProperties
<1>2. \A k \in 1 .. n : c[k] \in Entry
  BY ElementOfSeq
<1>3. /\ a \in Seq(Entry) /\ Len(a) = p - 1
      /\ \A j \in 1 .. p - 1 : a[j] = c[j]
  <2>1. \A k \in 1 .. p - 1 : c[k] \in Entry
    BY <1>1, <1>2
  <2>2. /\ a \in Seq(Entry)
        /\ Len(a) = IF 1 <= p - 1 THEN (p - 1) - 1 + 1 ELSE 0
        /\ \A j \in 1 .. (p - 1) - 1 + 1 : a[j] = c[1 + j - 1]
    BY <1>1, <2>1, SubSeqProperties
  <2>. QED  BY <1>1, <2>2
<1>4. /\ b \in Seq(Entry) /\ Len(b) = n - p
      /\ \A j \in 1 .. n - p : b[j] = c[p + j]
  <2>1. \A k \in p + 1 .. n : c[k] \in Entry
    BY <1>1, <1>2
  <2>2. /\ b \in Seq(Entry)
        /\ Len(b) = IF p + 1 <= n THEN n - (p + 1) + 1 ELSE 0
        /\ \A j \in 1 .. n - (p + 1) + 1 : b[j] = c[(p + 1) + j - 1]
    BY <1>1, <2>1, SubSeqProperties
  <2>. QED  BY <1>1, <2>2
<1>5. d = a \o b
  BY DEF RemoveAt
<1> HIDE DEF a, b, d, n
<1>6. /\ Len(d) = n - 1
      /\ \A j \in 1 .. n - 1 : d[j] = IF j <= p - 1 THEN a[j] ELSE b[j - (p - 1)]
  <2>1. /\ Len(a \o b) = Len(a) + Len(b)
        /\ \A j \in 1 .. Len(a) + Len(b) :
             (a \o b)[j] = IF j <= Len(a) THEN a[j] ELSE b[j - Len(a)]
    BY <1>3, <1>4, ConcatProperties
  <2>. QED  BY <1>1, <1>3, <1>4, <1>5, <2>1
<1>7. ASSUME NEW j \in 1 .. n - 1 PROVE d[j] = IF j < p THEN c[j] ELSE c[j + 1]
  <2>1. CASE j < p
    BY <1>1, <1>3, <1>6, <2>1
  <2>2. CASE j >= p
    <3>1. j - (p - 1) \in 1 .. n - p /\ p + (j - (p - 1)) = j + 1
      BY <1>1, <2>2
    <3>. QED  BY <1>1, <1>4, <1>6, <2>2, <3>1
  <2>. QED  BY <1>1, <2>1, <2>2
<1>. QED  BY <1>6, <1>7 DEF Without, n, d

\* What the caps leave of a chain: all of it, all but the address's oldest
\* entry, or all but the first.
LEMMA OneEviction ==
  ASSUME NEW c \in Seq(Entry), Len(c) <= MaxChainLen, NEW i
  PROVE  LET b == ShiftToFit(DropOldestOf(c, i))
         IN  \/ b = c
             \/ \E p \in 1 .. Len(c) :
                  /\ Without(b, c, p)
                  /\ \/ p = 1 /\ Len(c) = MaxChainLen
                     \/ /\ i # NoIp /\ c[p].ip = i
                        /\ Cardinality(PositionsOf(c, i)) >= MaxPerIpInChain
<1> DEFINE P == PositionsOf(c, i)
           bites == i # NoIp /\ Cardinality(P) >= MaxPerIpInChain
           n == Len(c)
<1>1. n \in Nat /\ MaxChainLen \in Nat /\ MaxChainLen >= 1
  BY LenProperties, CapsArePositive
<1>2. CASE bites
  <2> DEFINE p == Min(P)
  <2>1. P \in SUBSET (1 .. Len(c)) /\ P \in SUBSET Nat
    BY <1>1 DEF PositionsOf
  <2>2. P # {}
    <3>1. Cardinality({}) = 0 /\ ~ (0 >= MaxPerIpInChain)
      BY FS_EmptySet, CapsArePositive
    <3>2. Cardinality(P) >= MaxPerIpInChain
      BY <1>2
    <3> HIDE DEF P
    <3>. QED  BY <3>1, <3>2
  <2>3. p \in P
    BY <2>1, <2>2, MinIsLeast
  <2>4. DropOldestOf(c, i) = RemoveAt(c, p)
    BY <1>2 DEF DropOldestOf
  <2> HIDE DEF p
  <2>5. p \in 1 .. Len(c) /\ c[p].ip = i
    BY <2>3 DEF PositionsOf
  <2>6. Without(RemoveAt(c, p), c, p) /\ RemoveAt(c, p) \in Seq(Entry)
    BY <2>5, RemoveAtIsWithout, RemoveAtLeaves
  <2>7. Len(RemoveAt(c, p)) < MaxChainLen
    BY <1>1, <2>6 DEF Without
  <2>8. ShiftToFit(RemoveAt(c, p)) = RemoveAt(c, p)
    BY <2>6, <2>7, ShiftToFitLeaves
  <2>. QED  BY <1>2, <2>4, <2>5, <2>6, <2>8
<1>3. CASE ~ bites
  <2>1. DropOldestOf(c, i) = c
    BY <1>3 DEF DropOldestOf
  <2>2. CASE n < MaxChainLen
    BY <2>1, <2>2, ShiftToFitLeaves
  <2>3. CASE ~ (n < MaxChainLen)
    <3> DEFINE b == SubSeq(c, 2, n)
    <3>1. n = MaxChainLen
      BY <1>1, <2>3
    <3>2. ShiftToFit(c) = b
      BY <1>1, <3>1 DEF ShiftToFit
    <3>3. \A k \in 2 .. n : c[k] \in Entry
      BY <1>1, ElementOfSeq
    <3> HIDE DEF n
    <3>4. /\ Len(b) = IF 2 <= n THEN n - 2 + 1 ELSE 0
          /\ \A j \in 1 .. n - 2 + 1 : b[j] = c[2 + j - 1]
      BY <1>1, <3>3, SubSeqProperties
    <3> HIDE DEF b
    <3>5. Len(b) = n - 1 /\ \A j \in 1 .. n - 1 : b[j] = c[j + 1]
      BY <1>1, <3>1, <3>4
    <3>6. Without(b, c, 1)
      BY <1>1, <3>5 DEF Without, n
    <3>7. 1 \in 1 .. Len(c) /\ Len(c) = MaxChainLen
      BY <1>1, <3>1 DEF n
    <3>. QED  BY <2>1, <3>2, <3>6, <3>7
  <2>. QED  BY <2>2, <2>3
<1>. QED  BY <1>2, <1>3

\* Taking out an entry that a cap may evict leaves a chain whose breaks are
\* accounted for.
LEMMA EvictionAccounted ==
  ASSUME NEW c \in Seq(Entry), NEW d \in Seq(Entry), NEW W \in SUBSET Entry,
         \A k \in 1 .. Len(c) : c[k] \in W,
         \A j, k \in 1 .. Len(c) : c[j].hash = c[k].hash => j = k,
         Accounted(c, W),
         NEW p \in 1 .. Len(c), Without(d, c, p),
         \/ p = 1 /\ Cardinality(W) > MaxChainLen
         \/ /\ c[p].ip \in Ip
            /\ Cardinality({e \in W : e.ip = c[p].ip}) > MaxPerIpInChain
  PROVE  Accounted(d, W)
<1>1. Len(c) \in Nat /\ Len(d) = Len(c) - 1 /\ Len(d) \in Nat
  BY LenProperties DEF Without
<1>2. \A k \in 1 .. Len(d) : d[k] = IF k < p THEN c[k] ELSE c[k + 1]
  BY DEF Without
<1>3. Hashes(d) \subseteq Hashes(c) /\ c[p].hash \notin Hashes(d)
  <2>1. \A k \in 1 .. Len(d) : \E j \in 1 .. Len(c) : j # p /\ d[k] = c[j]
    <3> SUFFICES ASSUME NEW k \in 1 .. Len(d)
                 PROVE  \E j \in 1 .. Len(c) : j # p /\ d[k] = c[j]
      OBVIOUS
    <3>1. CASE k < p
      <4>1. k \in 1 .. Len(c) /\ k # p /\ d[k] = c[k]
        BY <1>1, <1>2, <3>1
      <4>. QED  BY <4>1
    <3>2. CASE ~ (k < p)
      <4>1. k + 1 \in 1 .. Len(c) /\ k + 1 # p /\ d[k] = c[k + 1]
        BY <1>1, <1>2, <3>2
      <4>. QED  BY <4>1
    <3>. QED  BY <3>1, <3>2
  <2>2. ASSUME NEW h \in Hashes(d) PROVE h \in Hashes(c) /\ h # c[p].hash
    <3>1. PICK k \in 1 .. Len(d) : h = d[k].hash
      BY DEF Hashes
    <3>2. PICK j \in 1 .. Len(c) : j # p /\ d[k] = c[j]
      BY <2>1
    <3>. QED  BY <3>1, <3>2 DEF Hashes
  <2>. QED  BY <2>2
<1> SUFFICES ASSUME NEW k \in 1 .. Len(d) PROVE Explained(d, W, k)
  BY DEF Accounted
<1> DEFINE j == IF k < p THEN k ELSE k + 1
<1>4. j \in 1 .. Len(c) /\ d[k] = c[j] /\ (j = 1 => k = 1)
  BY <1>1, <1>2
<1>5. Explained(c, W, j)
  BY <1>4 DEF Accounted
<1>6. CASE \E m \in W : m.hash = c[j].prev /\ m.hash \notin Hashes(c)
                        /\ GoneByACap(m, j, W)
  BY <1>3, <1>4, <1>6 DEF Explained, GoneByACap
<1>7. CASE LinksUp(c, j)
  <2>1. CASE k = p
    <3>1. j = p + 1 /\ j # 1 /\ j - 1 = p
      BY <2>1
    <3>2. c[p] \in W /\ c[p].hash = d[k].prev
      BY <1>4, <1>7, <3>1 DEF LinksUp
    <3>3. GoneByACap(c[p], k, W)
      BY <2>1 DEF GoneByACap
    <3>. QED  BY <1>3, <3>2, <3>3 DEF Explained
  <2>2. CASE k # p
    <3>1. k = 1 => j = 1
      BY <1>1, <2>2
    <3>2. k # 1 => /\ j # 1 /\ k - 1 \in 1 .. Len(d)
                   /\ d[k - 1] = c[j - 1]
      BY <1>1, <1>2, <2>2
    <3>3. d[k].prev = IF k = 1 THEN Genesis ELSE d[k - 1].hash
      BY <1>4, <1>7, <3>1, <3>2 DEF LinksUp
    <3>. QED  BY <3>3 DEF LinksUp, Explained
  <2>. QED  BY <2>1, <2>2
<1>. QED  BY <1>5, <1>6, <1>7 DEF Explained

\* More entries only make the caps' counts grow.
LEMMA MoreGone ==
  ASSUME NEW W \in SUBSET Entry, IsFiniteSet(W), NEW e \in Entry,
         NEW m, NEW k, GoneByACap(m, k, W)
  PROVE  GoneByACap(m, k, W \cup {e})
<1> DEFINE V == {f \in W : f.ip = m.ip}
           U == {f \in W \cup {e} : f.ip = m.ip}
<1>1. W \subseteq W \cup {e} /\ IsFiniteSet(W \cup {e})
  BY FS_AddElement
<1>2. V \subseteq U /\ U \subseteq W \cup {e}
  OBVIOUS
<1>3. /\ Cardinality(W) <= Cardinality(W \cup {e})
      /\ Cardinality(W) \in Nat /\ Cardinality(W \cup {e}) \in Nat
  BY <1>1, FS_Subset, FS_CardinalityType
<1> HIDE DEF U, V
<1>4. IsFiniteSet(U) /\ IsFiniteSet(V)
  BY <1>1, <1>2, FS_Subset
<1>5. Cardinality(V) <= Cardinality(U) /\ Cardinality(V) \in Nat /\ Cardinality(U) \in Nat
  BY <1>2, <1>4, FS_Subset, FS_CardinalityType
<1>6. MaxChainLen \in Nat /\ MaxPerIpInChain \in Nat
  BY CapsArePositive
<1>7. CASE k = 1 /\ Cardinality(W) > MaxChainLen
  BY <1>3, <1>6, <1>7 DEF GoneByACap
<1>8. CASE m.ip \in Ip /\ Cardinality(V) > MaxPerIpInChain
  <2>1. Cardinality(U) > MaxPerIpInChain
    BY <1>5, <1>6, <1>8
  <2>. QED  BY <1>8, <2>1 DEF GoneByACap, U
<1>. QED  BY <1>7, <1>8 DEF GoneByACap, V

\* So what was accounted for stays so.
LEMMA MoreAccounted ==
  ASSUME NEW c \in Seq(Entry), NEW W \in SUBSET Entry, IsFiniteSet(W), Accounted(c, W),
         NEW e \in Entry
  PROVE  Accounted(c, W \cup {e})
BY MoreGone DEF Accounted, Explained

\* The entry appended last links to the tip it was signed on.
LEMMA AppendAccounted ==
  ASSUME NEW c \in Seq(Entry), NEW W \in SUBSET Entry, IsFiniteSet(W), Accounted(c, W),
         NEW r \in Request, NEW i \in Address, \A f \in W : f.hash # r
  PROVE  LET e == SignedOn(c, r, i) IN Accounted(Append(c, e), W \cup {e})
<1> DEFINE e == SignedOn(c, r, i)
           d == Append(c, e)
<1>1. e \in Entry /\ e.hash = r /\ e.prev = TipHash(c)
  BY SignedOnType DEF SignedOn
<1> HIDE DEF e
<1>2. /\ Len(c) \in Nat /\ Len(d) = Len(c) + 1 /\ d[Len(c) + 1] = e
      /\ \A k \in 1 .. Len(c) : d[k] = c[k]
  BY <1>1, LenProperties, AppendProperties
<1> HIDE DEF d
<1>3. Hashes(d) \subseteq Hashes(c) \cup {r}
  <2>1. ASSUME NEW k \in 1 .. Len(d) PROVE d[k].hash \in Hashes(c) \cup {r}
    BY <1>1, <1>2 DEF Hashes
  <2>. QED  BY <2>1 DEF Hashes
<1>4. ASSUME NEW k \in 1 .. Len(d) PROVE Explained(d, W \cup {e}, k)
  <2>1. CASE k = Len(c) + 1
    <3>1. CASE c = << >>
      <4>1. k = 1
        BY <2>1, <3>1, EmptySeq
      <4>. QED  BY <1>1, <1>2, <2>1, <3>1, <4>1 DEF TipHash, LinksUp, Explained
    <3>2. CASE c # << >>
      <4>1. Len(c) # 0
        BY <3>2, EmptySeq
      <4>2. k # 1 /\ k - 1 = Len(c) /\ d[k - 1] = c[Len(c)]
        BY <1>2, <2>1, <4>1
      <4>. QED  BY <1>1, <1>2, <2>1, <3>2, <4>2 DEF TipHash, LinksUp, Explained
    <3>. QED  BY <3>1, <3>2
  <2>2. CASE k # Len(c) + 1
    <3>1. k \in 1 .. Len(c) /\ d[k] = c[k]
      BY <1>2, <2>2
    <3>2. CASE LinksUp(c, k)
      <4>1. k # 1 => d[k - 1] = c[k - 1]
        BY <1>2, <3>1
      <4>. QED  BY <3>1, <3>2, <4>1 DEF LinksUp, Explained
    <3>3. CASE ~ LinksUp(c, k)
      <4>1. PICK m \in W : /\ m.hash = c[k].prev /\ m.hash \notin Hashes(c)
                           /\ GoneByACap(m, k, W)
        BY <3>1, <3>3 DEF Accounted, Explained
      <4>2. m.hash \notin Hashes(d)
        BY <1>3, <4>1
      <4>3. GoneByACap(m, k, W \cup {e})
        BY <1>1, <4>1, MoreGone
      <4>. QED  BY <3>1, <4>1, <4>2, <4>3 DEF Explained
    <3>. QED  BY <3>2, <3>3
  <2>. QED  BY <2>1, <2>2
<1>. QED  BY <1>4 DEF Accounted, d, e

\* A push leaves every break accounted for.
LEMMA PushAccounted ==
  ASSUME NEW c \in Seq(Entry), Len(c) <= MaxChainLen,
         NEW W \in SUBSET Entry, IsFiniteSet(W), Drawn(c, W), Accounted(c, W),
         NEW r \in Request, NEW i \in Address, \A f \in W : f.hash # r
  PROVE  LET e == SignedOn(c, r, i) IN Accounted(PushOnto(c, e), W \cup {e})
<1> DEFINE e == SignedOn(c, r, i)
           x == Append(c, e)
           b == ShiftToFit(DropOldestOf(c, i))
           d == PushOnto(c, e)
           U == W \cup {e}
<1>1. e \in Entry /\ e.hash = r /\ e.ip = i /\ e \notin W
  BY SignedOnType DEF SignedOn
<1>2. Accounted(x, U)
  BY AppendAccounted
<1>3. b = c \/ \E p \in 1 .. Len(c) :
                 /\ Without(b, c, p)
                 /\ \/ p = 1 /\ Len(c) = MaxChainLen
                    \/ /\ i # NoIp /\ c[p].ip = i
                       /\ Cardinality(PositionsOf(c, i)) >= MaxPerIpInChain
  BY OneEviction
<1>4. b \in Seq(Entry) /\ d = Append(b, e) /\ d \in Seq(Entry)
  BY <1>1, DropOldestType, ShiftToFitType, PushOntoType DEF PushOnto
<1> HIDE DEF b, e
<1>5. /\ Len(c) \in Nat /\ Len(b) \in Nat
      /\ x \in Seq(Entry) /\ Len(x) = Len(c) + 1 /\ x[Len(c) + 1] = e
      /\ \A k \in 1 .. Len(c) : x[k] = c[k]
      /\ Len(d) = Len(b) + 1 /\ d[Len(b) + 1] = e
      /\ \A k \in 1 .. Len(b) : d[k] = b[k]
  BY <1>1, <1>4, LenProperties, AppendProperties
<1>6. ASSUME b = c PROVE Accounted(d, U)
  <2>1. d = x
    BY <1>4, <1>6
  <2>. QED  BY <1>2, <2>1
<1>7. ASSUME NEW p \in 1 .. Len(c), Without(b, c, p),
             \/ p = 1 /\ Len(c) = MaxChainLen
             \/ /\ i # NoIp /\ c[p].ip = i
                /\ Cardinality(PositionsOf(c, i)) >= MaxPerIpInChain
      PROVE  Accounted(d, U)
  <2> HIDE DEF x, d
  <2>1. Without(d, x, p) /\ p \in 1 .. Len(x)
    <3>1. Len(b) = Len(c) - 1 /\ Len(d) = Len(x) - 1
      BY <1>5, <1>7 DEF Without
    <3>2. ASSUME NEW k \in 1 .. Len(d) PROVE d[k] = IF k < p THEN x[k] ELSE x[k + 1]
      <4>1. CASE k = Len(c)
        <5>1. ~ (k < p) /\ d[k] = e /\ x[k + 1] = e
          BY <1>5, <3>1, <4>1
        <5>. QED  BY <5>1
      <4>2. CASE k # Len(c)
        <5>1. k \in 1 .. Len(b) /\ k \in 1 .. Len(c) /\ k + 1 \in 1 .. Len(c)
          BY <1>5, <3>1, <4>2
        <5>. QED  BY <1>5, <1>7, <5>1 DEF Without
      <4>. QED  BY <4>1, <4>2
    <3>. QED  BY <1>5, <3>1, <3>2 DEF Without
  <2>2. /\ \A k \in 1 .. Len(x) : x[k] \in U
        /\ \A j, k \in 1 .. Len(x) : x[j].hash = x[k].hash => j = k
    <3>1. /\ \A k \in 1 .. Len(c) : c[k] \in W /\ c[k].hash # r
          /\ \A j, k \in 1 .. Len(c) : c[j].hash = c[k].hash => j = k
      BY DEF Drawn
    <3>2. \A k \in 1 .. Len(x) : k \in 1 .. Len(c) \/ k = Len(c) + 1
      BY <1>5
    <3>. QED  BY <1>1, <1>5, <3>1, <3>2
  <2>3. x[p] = c[p]
    BY <1>5
  <2>4. /\ Len(c) <= Cardinality(W)
        /\ Cardinality(PositionsOf(c, i)) <= Cardinality({f \in W : f.ip = i})
    BY DrawnFits
  <2>5. MaxChainLen \in Nat /\ MaxPerIpInChain \in Nat
    BY CapsArePositive
  <2>6. CASE p = 1 /\ Len(c) = MaxChainLen
    <3>1. Cardinality(W) \in Nat /\ Cardinality(U) = Cardinality(W) + 1
      BY <1>1, FS_CardinalityType, FS_AddElement
    <3>2. Cardinality(U) > MaxChainLen
      BY <2>4, <2>5, <2>6, <3>1
    <3> HIDE DEF U
    <3>3. U \in SUBSET Entry
      BY <1>1 DEF U
    <3>. QED  BY <1>2, <1>4, <1>5, <2>1, <2>2, <2>6, <3>2, <3>3, EvictionAccounted DEF d
  <2>7. CASE /\ i # NoIp /\ c[p].ip = i
             /\ Cardinality(PositionsOf(c, i)) >= MaxPerIpInChain
    <3> DEFINE V == {f \in W : f.ip = i}
               Z == {f \in U : f.ip = i}
    <3>1. V \subseteq W /\ Z = V \cup {e} /\ e \notin V
      BY <1>1
    <3>2. Cardinality(PositionsOf(c, i)) \in Nat
      BY AllLeft, FewerPositions
    <3>3. Cardinality(PositionsOf(c, i)) <= Cardinality(V)
      BY <2>4
    <3> HIDE DEF V, Z
    <3>4. IsFiniteSet(V)
      BY <3>1, FS_Subset
    <3>5. Cardinality(V) \in Nat /\ Cardinality(Z) = Cardinality(V) + 1
      BY <3>1, <3>4, FS_CardinalityType, FS_AddElement
    <3>6. Cardinality(Z) > MaxPerIpInChain
      BY <2>5, <2>7, <3>2, <3>3, <3>5
    <3>7. Cardinality({f \in U : f.ip = x[p].ip}) > MaxPerIpInChain /\ x[p].ip \in Ip
      BY <2>3, <2>7, <3>6 DEF Z, Address
    <3> HIDE DEF U
    <3>8. U \in SUBSET Entry
      BY <1>1 DEF U
    <3>. QED  BY <1>2, <1>4, <1>5, <2>1, <2>2, <3>7, <3>8, EvictionAccounted DEF d
  <2>. QED  BY <1>7, <2>6, <2>7
<1>8. Accounted(d, U)
  BY <1>3, <1>6, <1>7
<1>. QED  BY <1>8 DEF d, e, U

-----------------------------------------------------------------------------
(***************************************************************************)
(* Type correctness, with transactions of any length.                      *)
(***************************************************************************)

\* The empty chain and whatever a push produces are chains.
LEMMA ChainFacts ==
  /\ << >> \in Chain
  /\ Chain \subseteq Seq(Entry)
  /\ \A c \in Chain, r \in Request, i \in Address :
       /\ SignedOn(c, r, i) \in Entry
       /\ PushOnto(c, SignedOn(c, r, i)) \in Chain
<1>1. << >> \in Chain
  BY EmptySeq, CapsArePositive DEF Chain
<1>2. Chain \subseteq Seq(Entry)
  BY DEF Chain
<1>3. ASSUME NEW c \in Chain, NEW r \in Request, NEW i \in Address
      PROVE  /\ SignedOn(c, r, i) \in Entry
             /\ PushOnto(c, SignedOn(c, r, i)) \in Chain
  <2>1. SignedOn(c, r, i) \in Entry
    BY <1>2, SignedOnType
  <2>. QED  BY <1>2, <2>1, PushOntoType DEF Chain
<1>. QED  BY <1>1, <1>2, <1>3

LEMMA InitTypeOK == Init => TypeOK
BY ChainFacts DEF Init, TypeOK, PcValue, Outcome

\* Storing r's chain keeps the three variables of the store well typed.
LEMMA StoreChainType ==
  ASSUME TypeOK, NEW r \in Request, StoreChain(r)
  PROVE  /\ stored' \in [Session -> Chain]
         /\ live' \in [Session -> BOOLEAN]
         /\ written' \in [Session -> SUBSET Entry]
<1>1. buf[r] \in Chain /\ addr[r] \in Address /\ sess[r] \in Session
  BY DEF TypeOK
<1>2. NewEntry(r) \in Entry /\ PushOnto(buf[r], NewEntry(r)) \in Chain
  BY <1>1, ChainFacts DEF NewEntry
<1>. QED  BY <1>1, <1>2 DEF StoreChain, TypeOK

LEMMA StepTypeOK == TypeOK /\ [Next]_vars => TypeOK'
<1> SUFFICES ASSUME TypeOK, [Next]_vars PROVE TypeOK'
  OBVIOUS
<1> USE DEF PcValue, Critical, Ended, Outcome
<1>a. << >> \in Chain
  BY ChainFacts
<1>1. ASSUME NEW r \in Request, Begin(r) PROVE TypeOK'
  BY <1>1 DEF Begin, TypeOK
<1>2. ASSUME NEW r \in Request, AcquireLock(r) PROVE TypeOK'
  BY <1>2 DEF AcquireLock, TypeOK
<1>3. ASSUME NEW r \in Request, SpinOnLock(r) PROVE TypeOK'
  BY <1>3 DEF SpinOnLock, TypeOK
<1>4. ASSUME NEW r \in Request, LockTimeout(r) PROVE TypeOK'
  BY <1>4 DEF LockTimeout, TypeOK
<1>5. ASSUME NEW r \in Request, ReadChain(r) PROVE TypeOK'
  <2>1. Visible(sess[r]) \in Chain
    BY <1>a DEF Visible, TypeOK
  <2>. QED  BY <1>5, <2>1 DEF ReadChain, TypeOK
<1>6. ASSUME NEW r \in Request, BuildFails(r) PROVE TypeOK'
  BY <1>6, <1>a DEF BuildFails, Forget, TypeOK
<1>7. ASSUME NEW r \in Request, WriteChain(r) PROVE TypeOK'
  <2>1. StoreChain(r)
    BY <1>7 DEF WriteChain
  <2>. QED  BY <1>7, <1>a, <2>1, StoreChainType DEF WriteChain, Forget, TypeOK
<1>8. ASSUME NEW r \in Request, ReleaseLock(r) PROVE TypeOK'
  BY <1>8 DEF ReleaseLock, TypeOK
<1>9. ASSUME NEW r \in Request, AcquireErrors(r) PROVE TypeOK'
  BY <1>9 DEF AcquireErrors, TypeOK
<1>10. ASSUME NEW r \in Request, ReadErrors(r) PROVE TypeOK'
  BY <1>10 DEF ReadErrors, TypeOK
<1>11. ASSUME NEW r \in Request, WriteErrors(r) PROVE TypeOK'
  <2>1. CASE StoreChain(r)
    BY <1>11, <1>a, <2>1, StoreChainType DEF WriteErrors, Forget, TypeOK
  <2>2. CASE UNCHANGED chainVars
    BY <1>11, <1>a, <2>2 DEF WriteErrors, Forget, chainVars, TypeOK
  <2>. QED  BY <1>11, <2>1, <2>2 DEF WriteErrors
<1>12. ASSUME NEW r \in Request, ReleaseErrors(r) PROVE TypeOK'
  BY <1>12 DEF ReleaseErrors, TypeOK
<1>13. ASSUME NEW r \in Request, Crash(r) PROVE TypeOK'
  BY <1>13, <1>a DEF Crash, Forget, TypeOK
<1>14. ASSUME NEW s \in Session, LockExpires(s) PROVE TypeOK'
  BY <1>14 DEF LockExpires, TypeOK
<1>15. ASSUME NEW s \in Session, ChainExpires(s) PROVE TypeOK'
  BY <1>15 DEF ChainExpires, TypeOK
<1>16. CASE UNCHANGED vars
  BY <1>16 DEF vars, TypeOK
<1>. QED
  BY <1>1, <1>2, <1>3, <1>4, <1>5, <1>6, <1>7, <1>8, <1>9, <1>10, <1>11,
     <1>12, <1>13, <1>14, <1>15, <1>16 DEF Next, Handle, Fault

\* No step of any handler, fault or expiry breaks the types, and no chain ever
\* exceeds MAX_CHAIN_LEN, even when transactions outlive their locks.
THEOREM TypeCorrect == Spec => []TypeOK
BY InitTypeOK, StepTypeOK, PTL DEF Spec

-----------------------------------------------------------------------------
(***************************************************************************)
(* Mutual exclusion and the implementation of the atomic log, when every   *)
(* transaction fits in its lock's lifetime.                                *)
(***************************************************************************)

\* A handler in its critical section is the one that set the lock.
LockHeld == \A r \in Request : InCritical(r) => lock[sess[r]] = r

\* A request that has not stored its entry appears in no session's history.
NotYetStored ==
  \A r \in Request :
    pc[r] \in {"idle", "locking", "spinning", "reading", "building"}
      => \A s \in Session : \A e \in written[s] : e.hash # r

\* The chain a handler is about to extend is still the session's log.
BufferCurrent ==
  \A r \in Request : pc[r] = "building" => buf[r] \in Log!Extends(sess[r])

SerialInv == TypeOK /\ LockHeld /\ NotYetStored /\ BufferCurrent

\* The lock's holder is unique, so LockHeld excludes a second critical handler.
LEMMA LockHeldExcludes == LockHeld => MutualExclusion
BY DEF LockHeld, MutualExclusion

LEMMA InitSerialInv == Init => SerialInv
BY InitTypeOK
   DEF Init, SerialInv, LockHeld, NotYetStored, BufferCurrent, InCritical, Critical

LEMMA StepLockHeld ==
  ASSUME SlowHolder = FALSE, TypeOK, LockHeld, [Next]_vars
  PROVE  LockHeld'
<1> USE DEF LockHeld, InCritical, Critical
<1>1. ASSUME NEW r \in Request, Begin(r) PROVE LockHeld'
  BY <1>1 DEF Begin, TypeOK
<1>2. ASSUME NEW r \in Request, AcquireLock(r) PROVE LockHeld'
  BY <1>2, NoRequestIsNoRequest DEF AcquireLock, TypeOK
<1>3. ASSUME NEW r \in Request, SpinOnLock(r) PROVE LockHeld'
  BY <1>3 DEF SpinOnLock, TypeOK
<1>4. ASSUME NEW r \in Request, LockTimeout(r) PROVE LockHeld'
  BY <1>4 DEF LockTimeout, TypeOK
<1>5. ASSUME NEW r \in Request, ReadChain(r) PROVE LockHeld'
  BY <1>5 DEF ReadChain, TypeOK
<1>6. ASSUME NEW r \in Request, BuildFails(r) PROVE LockHeld'
  BY <1>6 DEF BuildFails, TypeOK
<1>7. ASSUME NEW r \in Request, WriteChain(r) PROVE LockHeld'
  BY <1>7 DEF WriteChain, TypeOK
<1>8. ASSUME NEW r \in Request, ReleaseLock(r) PROVE LockHeld'
  BY <1>8 DEF ReleaseLock, TypeOK
<1>9. ASSUME NEW r \in Request, AcquireErrors(r) PROVE LockHeld'
  BY <1>9, NoRequestIsNoRequest DEF AcquireErrors, TypeOK
<1>10. ASSUME NEW r \in Request, ReadErrors(r) PROVE LockHeld'
  BY <1>10 DEF ReadErrors, TypeOK
<1>11. ASSUME NEW r \in Request, WriteErrors(r) PROVE LockHeld'
  BY <1>11 DEF WriteErrors, TypeOK
<1>12. ASSUME NEW r \in Request, ReleaseErrors(r) PROVE LockHeld'
  BY <1>12 DEF ReleaseErrors, TypeOK
<1>13. ASSUME NEW r \in Request, Crash(r) PROVE LockHeld'
  BY <1>13 DEF Crash, TypeOK
<1>14. ASSUME NEW s \in Session, LockExpires(s) PROVE LockHeld'
  BY <1>14 DEF LockExpires, TypeOK
<1>15. ASSUME NEW s \in Session, ChainExpires(s) PROVE LockHeld'
  BY <1>15 DEF ChainExpires, TypeOK
<1>16. CASE UNCHANGED vars
  BY <1>16 DEF vars
<1>. QED
  BY <1>1, <1>2, <1>3, <1>4, <1>5, <1>6, <1>7, <1>8, <1>9, <1>10, <1>11,
     <1>12, <1>13, <1>14, <1>15, <1>16 DEF Next, Handle, Fault

\* The log applies the same rules to chains as the handlers do.
LEMMA SameRules ==
  /\ Log!Address = Address
  /\ \A c, r, i : Log!SignedOn(c, r, i) = SignedOn(c, r, i)
  /\ \A c, e : Log!PushOnto(c, e) = PushOnto(c, e)
<1>1. Log!Address = Address
  BY DEF Address, Log!Address
<1>2. \A c, r, i : Log!SignedOn(c, r, i) = SignedOn(c, r, i)
  BY DEF SignedOn, Log!SignedOn, TipHash, Log!TipHash
<1>3. \A c, i : Log!PositionsOf(c, i) = PositionsOf(c, i)
  BY DEF PositionsOf, Log!PositionsOf
<1>4. \A c, i : Log!DropOldestOf(c, i) = DropOldestOf(c, i)
  <2>1. \A S : Log!Cardinality(S) = Cardinality(S)
    BY DEF Cardinality, Log!Cardinality
  <2>2. \A S : Log!Min(S) = Min(S)
    BY DEF Min, Log!Min
  <2>3. \A c, k : Log!RemoveAt(c, k) = RemoveAt(c, k)
    BY DEF RemoveAt, Log!RemoveAt
  <2>. QED  BY <1>3, <2>1, <2>2, <2>3 DEF DropOldestOf, Log!DropOldestOf
<1>5. \A c : Log!ShiftToFit(c) = ShiftToFit(c)
  BY DEF ShiftToFit, Log!ShiftToFit
<1>6. \A c, e : Log!PushOnto(c, e) = PushOnto(c, e)
  BY <1>4, <1>5 DEF PushOnto, Log!PushOnto
<1>. QED  BY <1>1, <1>2, <1>6

\* Storing r's chain is an atomic append of the session log.
LEMMA StoreChainAppends ==
  ASSUME SerialInv, NEW r \in Request, pc[r] = "building", StoreChain(r)
  PROVE  Log!AppendEntry(sess[r], r, addr[r])
<1>1. buf[r] \in Log!Extends(sess[r])
  BY DEF SerialInv, BufferCurrent
<1>2. \A t \in Session : \A f \in written[t] : f.hash # r
  BY DEF SerialInv, NotYetStored
<1>. QED
  BY <1>1, <1>2, SameRules DEF StoreChain, NewEntry, Log!AppendEntry

\* Every step that leaves the store alone stutters, the others append or expire.
LEMMA StepImplements ==
  ASSUME SerialInv, [Next]_vars
  PROVE  [Log!Next]_(Log!vars)
<1>1. ASSUME NEW r \in Request, StoreChain(r), pc[r] = "building"
      PROVE  Log!Next
  <2>1. sess[r] \in Session /\ addr[r] \in Address
    BY DEF SerialInv, TypeOK
  <2>. QED  BY <1>1, <2>1, SameRules, StoreChainAppends DEF Log!Next
<1>2. ASSUME UNCHANGED chainVars PROVE UNCHANGED Log!vars
  BY <1>2 DEF chainVars, Log!vars
<1>3. ASSUME NEW r \in Request, Begin(r) PROVE UNCHANGED chainVars
  BY <1>3 DEF Begin, chainVars
<1>4. ASSUME NEW r \in Request, Handle(r), ~ WriteChain(r) PROVE UNCHANGED chainVars
  BY <1>4 DEF Handle, AcquireLock, SpinOnLock, LockTimeout, ReadChain, BuildFails,
              ReleaseLock, chainVars
<1>5. ASSUME NEW r \in Request, WriteChain(r) PROVE Log!Next
  BY <1>1, <1>5 DEF WriteChain
<1>6. ASSUME NEW r \in Request, Fault(r), ~ WriteErrors(r) PROVE UNCHANGED chainVars
  BY <1>6 DEF Fault, AcquireErrors, ReadErrors, ReleaseErrors, Crash, chainVars
<1>7. ASSUME NEW r \in Request, WriteErrors(r) PROVE Log!Next \/ UNCHANGED chainVars
  BY <1>1, <1>7 DEF WriteErrors
<1>8. ASSUME NEW s \in Session, LockExpires(s) PROVE UNCHANGED chainVars
  BY <1>8 DEF LockExpires, chainVars
<1>9. ASSUME NEW s \in Session, ChainExpires(s) PROVE Log!Next
  BY <1>9 DEF ChainExpires, Log!Expire, Log!Next
<1>10. CASE UNCHANGED vars
  BY <1>10 DEF vars, Log!vars
<1>. QED
  BY <1>2, <1>3, <1>4, <1>5, <1>6, <1>7, <1>8, <1>9, <1>10 DEF Next

LEMMA StepNotYetStored ==
  ASSUME TypeOK, NotYetStored, [Next]_vars
  PROVE  NotYetStored'
<1> USE DEF NotYetStored
<1>1. ASSUME UNCHANGED written,
             \A q \in Request :
               pc'[q] \in {"idle", "locking", "spinning", "reading", "building"}
                 => pc[q] \in {"idle", "locking", "spinning", "reading", "building"}
      PROVE  NotYetStored'
  BY <1>1
<1>2. ASSUME NEW r \in Request, StoreChain(r), pc' = [pc EXCEPT ![r] = "releasing"]
      PROVE  NotYetStored'
  <2> SUFFICES ASSUME NEW q \in Request,
                      pc'[q] \in {"idle", "locking", "spinning", "reading", "building"},
                      NEW s \in Session, NEW e \in written'[s]
               PROVE  e.hash # q
    OBVIOUS
  <2>1. q # r /\ pc[q] = pc'[q]
    BY <1>2 DEF TypeOK
  <2>2. e \in written[s] \/ e.hash = r
    BY <1>2 DEF StoreChain, NewEntry, SignedOn, TypeOK
  <2>. QED  BY <2>1, <2>2
<1>3. ASSUME NEW r \in Request, Begin(r) \/ Handle(r) \/ Fault(r)
      PROVE  NotYetStored'
  <2>1. CASE Begin(r) \/ (Handle(r) /\ ~ WriteChain(r))
    BY <1>1, <2>1 DEF Begin, Handle, AcquireLock, SpinOnLock, LockTimeout, ReadChain,
                      BuildFails, ReleaseLock, TypeOK
  <2>2. CASE WriteChain(r)
    BY <1>2, <2>2 DEF WriteChain
  <2>3. CASE Fault(r) /\ ~ WriteErrors(r)
    BY <1>1, <2>3 DEF Fault, AcquireErrors, ReadErrors, ReleaseErrors, Crash, TypeOK
  <2>4. CASE WriteErrors(r)
    BY <1>1, <1>2, <2>4 DEF WriteErrors, chainVars, TypeOK
  <2>. QED  BY <1>3, <2>1, <2>2, <2>3, <2>4
<1>4. ASSUME NEW s \in Session, LockExpires(s) \/ ChainExpires(s)
      PROVE  NotYetStored'
  BY <1>1, <1>4 DEF LockExpires, ChainExpires
<1>5. CASE UNCHANGED vars
  BY <1>1, <1>5 DEF vars
<1>. QED  BY <1>3, <1>4, <1>5 DEF Next

LEMMA StepBufferCurrent ==
  ASSUME SerialInv, [Next]_vars
  PROVE  BufferCurrent'
<1> USE DEF SerialInv, BufferCurrent, Log!Extends
<1>1. ASSUME UNCHANGED <<sess, buf, stored, live>>,
             \A q \in Request : pc'[q] = "building" => pc[q] = "building"
      PROVE  BufferCurrent'
  BY <1>1
<1>2. ASSUME NEW r \in Request, Forget(r), UNCHANGED <<sess, stored, live>>,
             \A q \in Request : pc'[q] = "building" => pc[q] = "building" /\ q # r
      PROVE  BufferCurrent'
  BY <1>2 DEF Forget, TypeOK
<1>3. ASSUME NEW r \in Request, StoreChain(r), Forget(r), UNCHANGED sess,
             pc[r] = "building", pc' = [pc EXCEPT ![r] = "releasing"]
      PROVE  BufferCurrent'
  <2> SUFFICES ASSUME NEW q \in Request, pc'[q] = "building"
               PROVE  (buf[q] \in Log!Extends(sess[q]))'
    OBVIOUS
  <2>1. q # r /\ pc[q] = "building" /\ buf'[q] = buf[q] /\ sess'[q] = sess[q]
    BY <1>3 DEF Forget, TypeOK
  <2>2. sess[q] # sess[r]
    BY <1>3, <2>1 DEF LockHeld, InCritical, Critical
  <2>3. stored'[sess[q]] = stored[sess[q]] /\ live'[sess[q]] = live[sess[q]]
    BY <1>3, <2>2 DEF StoreChain, TypeOK
  <2>. QED  BY <2>1, <2>3
<1>4. ASSUME NEW r \in Request, ReadChain(r) PROVE BufferCurrent'
  <2> SUFFICES ASSUME NEW q \in Request, pc'[q] = "building"
               PROVE  (buf[q] \in Log!Extends(sess[q]))'
    OBVIOUS
  <2>1. CASE q = r
    BY <1>4, <2>1 DEF ReadChain, Visible, TypeOK
  <2>2. CASE q # r
    BY <1>4, <2>2 DEF ReadChain, TypeOK
  <2>. QED  BY <2>1, <2>2
<1>5. ASSUME NEW r \in Request, Begin(r) \/ Handle(r) \/ Fault(r)
      PROVE  BufferCurrent'
  <2>1. CASE \/ Begin(r) \/ AcquireLock(r) \/ SpinOnLock(r) \/ LockTimeout(r)
             \/ ReleaseLock(r)
    BY <1>1, <2>1 DEF Begin, AcquireLock, SpinOnLock, LockTimeout, ReleaseLock, TypeOK
  <2>2. CASE BuildFails(r)
    BY <1>2, <2>2 DEF BuildFails, TypeOK
  <2>3. CASE WriteChain(r)
    BY <1>3, <2>3 DEF WriteChain
  <2>4. CASE AcquireErrors(r) \/ ReadErrors(r) \/ ReleaseErrors(r)
    BY <1>1, <2>4 DEF AcquireErrors, ReadErrors, ReleaseErrors, TypeOK
  <2>5. CASE Crash(r)
    BY <1>2, <2>5 DEF Crash, TypeOK
  <2>6. CASE WriteErrors(r)
    <3>1. CASE StoreChain(r)
      BY <1>3, <2>6, <3>1 DEF WriteErrors
    <3>2. CASE UNCHANGED chainVars
      BY <1>2, <2>6, <3>2 DEF WriteErrors, chainVars, TypeOK
    <3>. QED  BY <2>6, <3>1, <3>2 DEF WriteErrors
  <2>. QED
    BY <1>4, <1>5, <2>1, <2>2, <2>3, <2>4, <2>5, <2>6 DEF Handle, Fault
<1>6. ASSUME NEW s \in Session, LockExpires(s) PROVE BufferCurrent'
  BY <1>1, <1>6 DEF LockExpires
<1>7. ASSUME NEW s \in Session, ChainExpires(s) PROVE BufferCurrent'
  BY <1>7 DEF ChainExpires, TypeOK
<1>8. CASE UNCHANGED vars
  BY <1>1, <1>8 DEF vars
<1>. QED  BY <1>5, <1>6, <1>7, <1>8 DEF Next

\* When every transaction fits in its lock's lifetime, the lock, the history
\* and the handlers' copies stay consistent.
THEOREM SerialInvariant ==
  ASSUME SlowHolder = FALSE
  PROVE  Spec => []SerialInv
<1>1. SerialInv /\ [Next]_vars => SerialInv'
  BY StepTypeOK, StepLockHeld, StepNotYetStored, StepBufferCurrent DEF SerialInv
<1>. QED  BY InitSerialInv, <1>1, PTL DEF Spec

\* acquireChainLock really excludes: one handler per session at a time is
\* between its GET and its DEL, whatever fails or crashes around it.
THEOREM LockExcludes ==
  ASSUME SlowHolder = FALSE
  PROVE  Spec => []MutualExclusion
<1>1. SerialInv => MutualExclusion
  BY LockHeldExcludes DEF SerialInv
<1>. QED  BY SerialInvariant, <1>1, PTL

\* The whole interleaved read-modify-write implements the atomic session log.
THEOREM RefinesSessionLog ==
  ASSUME SlowHolder = FALSE
  PROVE  Spec => ImplementsSessionLog
<1>1. Init => Log!Init
  BY DEF Init, Log!Init
<1>2. SerialInv /\ [Next]_vars => [Log!Next]_(Log!vars)
  BY StepImplements
<1>. QED
  BY <1>1, <1>2, SerialInvariant, PTL DEF Spec, Log!Spec, ImplementsSessionLog

-----------------------------------------------------------------------------
(***************************************************************************)
(* No forks.                                                               *)
(***************************************************************************)

\* Each session's stored chain is the tip of an unforked history.
HistoryInv == \A s \in Session : History(stored[s], written[s])

LEMMA InitHistoryInv == Init => HistoryInv
BY DEF Init, HistoryInv, History, Unforked, TipHash

LEMMA StoreChainHistory ==
  ASSUME SerialInv, HistoryInv, NEW r \in Request, pc[r] = "building", StoreChain(r)
  PROVE  HistoryInv'
<1> DEFINE s == sess[r]
           e == NewEntry(r)
           d == PushOnto(buf[r], e)
<1>1. /\ s \in Session /\ addr[r] \in Address
      /\ stored[s] \in Seq(Entry) /\ written[s] \in SUBSET Entry
  BY ChainFacts DEF SerialInv, TypeOK
<1>2. buf[r] \in {stored[s], << >>}
  BY DEF SerialInv, BufferCurrent, Log!Extends
<1>3. \A f \in written[s] : f.hash # r
  BY <1>1 DEF SerialInv, NotYetStored
<1>4. History(d, written[s] \cup {e})
  BY <1>1, <1>2, <1>3, ExtendKeepsHistory DEF HistoryInv, NewEntry
<1>5. /\ stored' = [stored EXCEPT ![s] = d]
      /\ written' = [written EXCEPT ![s] = written[s] \cup {e}]
  BY DEF StoreChain
<1> HIDE DEF d, e
<1>6. stored'[s] = d /\ written'[s] = written[s] \cup {e}
  BY <1>1, <1>5 DEF SerialInv, TypeOK
<1>7. \A t \in Session \ {s} : stored'[t] = stored[t] /\ written'[t] = written[t]
  BY <1>5 DEF SerialInv, TypeOK
<1>. QED  BY <1>4, <1>6, <1>7 DEF HistoryInv

LEMMA StepHistoryInv ==
  ASSUME SerialInv, HistoryInv, [Next]_vars
  PROVE  HistoryInv'
<1>1. ASSUME UNCHANGED <<stored, written>> PROVE HistoryInv'
  BY <1>1 DEF HistoryInv
<1>2. ASSUME NEW r \in Request, Begin(r) \/ Handle(r) \/ Fault(r)
      PROVE  HistoryInv'
  <2>1. CASE WriteChain(r)
    BY <2>1, StoreChainHistory DEF WriteChain
  <2>2. CASE WriteErrors(r)
    BY <1>1, <2>2, StoreChainHistory DEF WriteErrors, chainVars
  <2>3. CASE ~ WriteChain(r) /\ ~ WriteErrors(r)
    BY <1>1, <1>2, <2>3
       DEF Begin, Handle, AcquireLock, SpinOnLock, LockTimeout, ReadChain, BuildFails,
           ReleaseLock, Fault, AcquireErrors, ReadErrors, ReleaseErrors, Crash
  <2>. QED  BY <2>1, <2>2, <2>3
<1>3. ASSUME NEW s \in Session, LockExpires(s) \/ ChainExpires(s)
      PROVE  HistoryInv'
  BY <1>1, <1>3 DEF LockExpires, ChainExpires
<1>4. CASE UNCHANGED vars
  BY <1>1, <1>4 DEF vars
<1>. QED  BY <1>2, <1>3, <1>4 DEF Next

\* The stored entries of a session never fork: a fork needs a transaction that
\* outlives its lock.
THEOREM ChainNeverForks ==
  ASSUME SlowHolder = FALSE
  PROVE  Spec => []NoFork
<1>1. SerialInv /\ HistoryInv /\ [Next]_vars => HistoryInv'
  BY StepHistoryInv
<1>2. HistoryInv => NoFork
  BY DEF HistoryInv, History, NoFork
<1>. QED  BY InitHistoryInv, SerialInvariant, <1>1, <1>2, PTL DEF Spec

-----------------------------------------------------------------------------
(***************************************************************************)
(* The caps and the links, with transactions of any length: what is true   *)
(* of a stored chain is also true of every copy a handler still holds, so  *)
(* a late write of a stale copy cannot break it.                           *)
(***************************************************************************)

\* A chain that respects the per-address cap, is drawn from the entries ever
\* stored for its session and breaks only where a cap evicted one of them.
HoldsUp(c, W) == Capped(c) /\ Drawn(c, W) /\ Accounted(c, W)

CopiesInv ==
  /\ TypeOK
  /\ NotYetStored
  /\ \A s \in Session : IsFiniteSet(written[s]) /\ HoldsUp(stored[s], written[s])
  /\ \A r \in Request : HoldsUp(buf[r], written[sess[r]])

\* The empty chain respects everything.
LEMMA EmptyHoldsUp == \A W : HoldsUp(<< >>, W)
<1>1. Len(<< >>) = 0
  BY EmptySeq
<1>2. \A i : PositionsOf(<< >>, i) = {}
  BY <1>1 DEF PositionsOf
<1>3. Capped(<< >>)
  <2>1. 0 <= MaxPerIpInChain
    BY CapsArePositive
  <2>. QED  BY <1>2, <2>1, FS_EmptySet DEF Capped
<1>4. \A W : Drawn(<< >>, W)
  BY <1>1 DEF Drawn, SessionVerifies
<1>5. \A W : Accounted(<< >>, W)
  BY <1>1 DEF Accounted
<1>. QED  BY <1>3, <1>4, <1>5 DEF HoldsUp

LEMMA InitCopiesInv == Init => CopiesInv
<1> SUFFICES ASSUME Init PROVE CopiesInv
  OBVIOUS
<1>1. TypeOK
  BY InitTypeOK
<1>2. NotYetStored
  BY DEF Init, NotYetStored
<1>3. \A s \in Session : written[s] = {} /\ stored[s] = << >>
  BY DEF Init
<1>4. \A r \in Request : buf[r] = << >>
  BY DEF Init
<1>. QED  BY <1>1, <1>2, <1>3, <1>4, EmptyHoldsUp, FS_EmptySet DEF CopiesInv

\* What storing r's chain does to the session's entries and to every chain
\* already drawn from them.
LEMMA StoreChainHoldsUp ==
  ASSUME CopiesInv, NEW r \in Request, pc[r] = "building", StoreChain(r)
  PROVE  /\ \A s \in Session :
              /\ IsFiniteSet(written'[s])
              /\ HoldsUp(stored'[s], written'[s])
              /\ \A c \in Chain : HoldsUp(c, written[s]) => HoldsUp(c, written'[s])
<1> DEFINE s == sess[r]
           e == NewEntry(r)
           d == PushOnto(buf[r], e)
           W == written[s]
<1>1. /\ s \in Session /\ addr[r] \in Address
      /\ buf[r] \in Seq(Entry) /\ Len(buf[r]) <= MaxChainLen /\ W \in SUBSET Entry
  BY ChainFacts DEF CopiesInv, TypeOK, Chain
<1>2. \A f \in W : f.hash # r
  BY <1>1 DEF CopiesInv, NotYetStored
<1>3. e \in Entry /\ e.hash = r
  BY <1>1, SignedOnType DEF NewEntry, SignedOn
<1>4. e \notin W
  BY <1>2, <1>3
<1>5. IsFiniteSet(W) /\ IsFiniteSet(W \cup {e})
  <2>1. IsFiniteSet(W)
    BY <1>1 DEF CopiesInv
  <2>. QED  BY <2>1, FS_AddElement
<1>6. Capped(buf[r]) /\ Drawn(buf[r], W) /\ Accounted(buf[r], W)
  BY DEF CopiesInv, HoldsUp
<1>7. HoldsUp(d, W \cup {e})
  <2>1. Capped(d)
    BY <1>1, <1>3, <1>6, PushKeepsCapped
  <2>2. Drawn(d, W \cup {e})
    BY <1>1, <1>2, <1>5, <1>6, PushKeepsDrawn DEF NewEntry
  <2>3. Accounted(d, W \cup {e})
    BY <1>1, <1>2, <1>5, <1>6, PushAccounted DEF NewEntry
  <2>. QED  BY <2>1, <2>2, <2>3 DEF HoldsUp
<1>8. \A c \in Chain : HoldsUp(c, W) => HoldsUp(c, W \cup {e})
  BY <1>1, <1>3, <1>4, <1>5, MoreWritten, MoreAccounted, ChainFacts DEF HoldsUp
<1>9. /\ stored' = [stored EXCEPT ![s] = d]
      /\ written' = [written EXCEPT ![s] = W \cup {e}]
  BY DEF StoreChain
<1>10. /\ stored \in [Session -> Chain]
       /\ written \in [Session -> SUBSET Entry]
       /\ \A t \in Session : IsFiniteSet(written[t]) /\ HoldsUp(stored[t], written[t])
  BY DEF CopiesInv, TypeOK
<1> HIDE DEF d, e
<1>11. /\ stored'[s] = d /\ written'[s] = W \cup {e}
       /\ \A t \in Session \ {s} : stored'[t] = stored[t] /\ written'[t] = written[t]
  BY <1>1, <1>9, <1>10
<1> HIDE DEF s, W
<1>12. ASSUME NEW t \in Session
       PROVE  /\ IsFiniteSet(written'[t])
              /\ HoldsUp(stored'[t], written'[t])
              /\ \A c \in Chain : HoldsUp(c, written[t]) => HoldsUp(c, written'[t])
  <2>1. CASE t = s
    BY <1>5, <1>7, <1>8, <1>11, <2>1 DEF W
  <2>2. CASE t # s
    BY <1>10, <1>11, <2>2
  <2>. QED  BY <2>1, <2>2
<1>. QED  BY <1>12

LEMMA StepCopiesInv == CopiesInv /\ [Next]_vars => CopiesInv'
<1> SUFFICES ASSUME CopiesInv, [Next]_vars PROVE CopiesInv'
  OBVIOUS
<1>1. TypeOK /\ TypeOK' /\ NotYetStored'
  BY StepTypeOK, StepNotYetStored DEF CopiesInv
<1>2. /\ \A s \in Session : IsFiniteSet(written[s]) /\ HoldsUp(stored[s], written[s])
      /\ \A r \in Request : HoldsUp(buf[r], written[sess[r]])
  BY DEF CopiesInv
<1>3. ASSUME UNCHANGED <<stored, written, sess, buf>> PROVE CopiesInv'
  BY <1>1, <1>2, <1>3 DEF CopiesInv
<1>4. ASSUME NEW r \in Request, Forget(r), UNCHANGED <<stored, written, sess>>
      PROVE  CopiesInv'
  <2>1. \A q \in Request : buf'[q] = buf[q] \/ buf'[q] = << >>
    BY <1>1, <1>4 DEF Forget, TypeOK
  <2>. QED  BY <1>1, <1>2, <1>4, <2>1, EmptyHoldsUp DEF CopiesInv
<1>5. ASSUME NEW r \in Request, pc[r] = "building", StoreChain(r), Forget(r),
             UNCHANGED sess
      PROVE  CopiesInv'
  <2>1. \A q \in Request : buf'[q] = buf[q] \/ buf'[q] = << >>
    BY <1>1, <1>5 DEF Forget, TypeOK
  <2>2. \A s \in Session :
          /\ IsFiniteSet(written'[s])
          /\ HoldsUp(stored'[s], written'[s])
          /\ \A c \in Chain : HoldsUp(c, written[s]) => HoldsUp(c, written'[s])
    BY <1>5, StoreChainHoldsUp
  <2>3. \A q \in Request : sess[q] \in Session /\ buf[q] \in Chain
    BY <1>1 DEF TypeOK
  <2>4. \A q \in Request : HoldsUp(buf'[q], written'[sess'[q]])
    BY <1>2, <1>5, <2>1, <2>2, <2>3, EmptyHoldsUp
  <2>. QED  BY <1>1, <2>2, <2>4 DEF CopiesInv
<1>6. ASSUME NEW r \in Request, ReadChain(r) PROVE CopiesInv'
  <2>1. sess[r] \in Session
    BY <1>1 DEF TypeOK
  <2>2. HoldsUp(Visible(sess[r]), written[sess[r]])
    BY <1>2, <2>1, EmptyHoldsUp DEF Visible
  <2>3. \A q \in Request : buf'[q] = IF q = r THEN Visible(sess[r]) ELSE buf[q]
    BY <1>1, <1>6 DEF ReadChain, TypeOK
  <2>4. UNCHANGED <<stored, written, sess>>
    BY <1>6 DEF ReadChain
  <2>. QED  BY <1>1, <1>2, <2>2, <2>3, <2>4 DEF CopiesInv
<1>7. ASSUME NEW r \in Request, Begin(r) \/ Handle(r) \/ Fault(r)
      PROVE  CopiesInv'
  <2>1. CASE \/ Begin(r) \/ AcquireLock(r) \/ SpinOnLock(r) \/ LockTimeout(r)
             \/ ReleaseLock(r) \/ AcquireErrors(r) \/ ReadErrors(r) \/ ReleaseErrors(r)
    BY <1>3, <2>1 DEF Begin, AcquireLock, SpinOnLock, LockTimeout, ReleaseLock,
                      AcquireErrors, ReadErrors, ReleaseErrors
  <2>2. CASE BuildFails(r) \/ Crash(r)
    BY <1>4, <2>2 DEF BuildFails, Crash
  <2>3. CASE WriteChain(r)
    BY <1>5, <2>3 DEF WriteChain
  <2>4. CASE WriteErrors(r)
    BY <1>4, <1>5, <2>4 DEF WriteErrors, chainVars
  <2>. QED  BY <1>6, <1>7, <2>1, <2>2, <2>3, <2>4 DEF Handle, Fault
<1>8. ASSUME NEW s \in Session, LockExpires(s) \/ ChainExpires(s)
      PROVE  CopiesInv'
  BY <1>3, <1>8 DEF LockExpires, ChainExpires
<1>9. CASE UNCHANGED vars
  BY <1>3, <1>9 DEF vars
<1>. QED  BY <1>7, <1>8, <1>9 DEF Next

\* No address ever has more than its share of a stored chain, even when
\* transactions outlive their locks and overwrite one another.
THEOREM CapHolds == Spec => []PerIpCap
<1>1. CopiesInv => PerIpCap
  BY DEF CopiesInv, HoldsUp, Capped, PerIpCap
<1>. QED  BY InitCopiesInv, StepCopiesInv, <1>1, PTL DEF Spec

\* A session whose entries never reached a cap has a chain that widget-verify
\* accepts, even when transactions outlive their locks: a lost update drops
\* entries from the end, it never leaves a link to an entry that is not there.
THEOREM UncappedVerifies == Spec => []UncappedChainVerifies
<1>1. CopiesInv => UncappedChainVerifies
  <2> SUFFICES ASSUME CopiesInv, NEW s \in Session, CapsUntouched(s)
               PROVE  SessionVerifies(Visible(s))
    BY DEF UncappedChainVerifies
  <2>1. HoldsUp(Visible(s), written[s])
    BY EmptyHoldsUp DEF CopiesInv, Visible
  <2>. QED  BY <2>1 DEF HoldsUp, Drawn, Uncapped, CapsUntouched
<1>. QED  BY InitCopiesInv, StepCopiesInv, <1>1, PTL DEF Spec

\* Wherever a stored chain's links break, a cap evicted the entry that is missing
\* there, even when transactions outlive their locks and overwrite one another.
THEOREM OnlyCapsBreakLinks == Spec => []BreaksAreEvictions
<1>1. CopiesInv => BreaksAreEvictions
  BY DEF CopiesInv, HoldsUp, Accounted, BreaksAreEvictions
<1>. QED  BY InitCopiesInv, StepCopiesInv, <1>1, PTL DEF Spec

-----------------------------------------------------------------------------
(***************************************************************************)
(* Nothing but an eviction rule drops an entry.                            *)
(***************************************************************************)

LEMMA PushKeepsAllButEvicted ==
  ASSUME NEW c \in Chain, NEW e \in Entry
  PROVE  KeepsAllButEvicted(c, PushOnto(c, e))
<1> DEFINE d == PushOnto(c, e)
           E == {c[k].hash : k \in Evictable(c, e.ip)}
<1>1. c \in Seq(Entry) /\ Len(c) <= MaxChainLen
  BY DEF Chain
<1>2. d[Len(d)] = e
  <2> DEFINE b == ShiftToFit(DropOldestOf(c, e.ip))
  <2>1. Len(d) = Len(b) + 1 /\ d[Len(b) + 1] = e
    BY <1>1, PushOntoAppends
  <2> HIDE DEF b, d
  <2>. QED  BY <2>1
<1>3. ASSUME NEW k \in 1 .. Len(c), c[k].hash \notin Hashes(d)
      PROVE  k \in Evictable(c, e.ip)
  <2>1. ~ \E j \in 1 .. Len(d) : d[j] = c[k]
    BY <1>3 DEF Hashes
  <2>. QED  BY <1>1, <2>1, PushDropsOnlyEvicted DEF Evictable
<1>4. Hashes(c) \ Hashes(d) \subseteq E
  BY <1>3 DEF Hashes
<1>. QED  BY <1>2, <1>4 DEF KeepsAllButEvicted

\* As long as every transaction fits in its lock's lifetime, a visible chain
\* loses its oldest entry or the writing address's oldest, and nothing else.
THEOREM OnlyEvictions ==
  ASSUME SlowHolder = FALSE
  PROVE  Spec => OnlyEvictionDrops
<1> DEFINE Drops(s) ==
             live[s] /\ stored'[s] # stored[s]
               => KeepsAllButEvicted(stored[s], stored'[s])
<1>1. ASSUME SerialInv, [Next]_vars, NEW s \in Session
      PROVE  Drops(s)
  <2> SUFFICES ASSUME live[s], stored'[s] # stored[s]
               PROVE  KeepsAllButEvicted(stored[s], stored'[s])
    OBVIOUS
  <2>1. ~ UNCHANGED stored
    OBVIOUS
  <2>2. PICK r \in Request : StoreChain(r) /\ pc[r] = "building"
    <3>1. PICK r \in Request : Begin(r) \/ Handle(r) \/ Fault(r)
      BY <1>1, <2>1 DEF Next, LockExpires, ChainExpires, vars
    <3>2. StoreChain(r) /\ pc[r] = "building"
      BY <2>1, <3>1
         DEF Begin, Handle, AcquireLock, SpinOnLock, LockTimeout, ReadChain, BuildFails,
             WriteChain, ReleaseLock, Fault, AcquireErrors, ReadErrors, WriteErrors,
             ReleaseErrors, Crash, chainVars
    <3>. QED  BY <3>2
  <2>3. /\ sess[r] \in Session /\ addr[r] \in Address /\ buf[r] \in Chain
        /\ stored \in [Session -> Chain]
    BY <1>1 DEF SerialInv, TypeOK
  <2>4. s = sess[r] /\ stored'[s] = PushOnto(buf[r], NewEntry(r))
    BY <2>2, <2>3 DEF StoreChain
  <2>5. buf[r] = stored[s]
    BY <1>1, <2>2, <2>4 DEF SerialInv, BufferCurrent, Log!Extends
  <2>6. NewEntry(r) \in Entry
    BY <2>3, ChainFacts DEF NewEntry
  <2>. QED  BY <2>3, <2>4, <2>5, <2>6, PushKeepsAllButEvicted
<1>2. SerialInv /\ [Next]_vars => [\A s \in Session : Drops(s)]_vars
  BY <1>1
<1>. QED  BY SerialInvariant, <1>2, PTL DEF Spec, OnlyEvictionDrops

=============================================================================
