-------------------------- MODULE Governance_proofs --------------------------
(***************************************************************************)
(* Theorems about Governance, for any processes, dictionaries, contents    *)
(* and bounds: types, what verify tells of a workflow, how the records of  *)
(* the ledger hang together, and what the servers decide.                  *)
(***************************************************************************)
EXTENDS Governance, SequenceTheorems, WellFoundedInduction, TLAPS

-----------------------------------------------------------------------------
(* Types. *)

ChainTyped == chain \in [Server -> Seq(Record)] /\ given \in [Server -> Seq(Given)] /\ heap \in [Dict -> Content]
LedgerTyped ==
  /\ ledger \in Seq([pred : Nat, depth : Nat])
  /\ pc \in [Process -> {"idle", "reading", "linking"}] /\ link \in [Process -> [pred : Nat, depth : Nat]]
  /\ overlapped \in BOOLEAN

LEMMA ChainFacts ==
  ASSUME NEW c \in Seq(Record)
  PROVE  /\ Len(c) \in Nat /\ DOMAIN c = 1 .. Len(c)
         /\ \A i \in 1 .. Len(c) : c[i] \in Record /\ c[i].hash \in Seq(Covered) /\ c[i].prev \in Seq(Covered)
<1>1. Len(c) \in Nat /\ DOMAIN c = 1 .. Len(c)
  BY LenProperties
<1>2. \A i \in 1 .. Len(c) : c[i] \in Record
  BY ElementOfSeq
<1>. QED  BY <1>1, <1>2 DEF Record

LEMMA GivenFacts ==
  ASSUME NEW g \in Seq(Given)
  PROVE  /\ Len(g) \in Nat /\ DOMAIN g = 1 .. Len(g)
         /\ \A i \in 1 .. Len(g) : g[i] \in Given
  BY LenProperties, ElementOfSeq

\* What a hand-off appends to the chain and to what was given.
NewLink(c) == IF c = << >> THEN Genesis ELSE Last(c).hash
NewRecord(c, b, d) ==
  [seq |-> Len(c), by |-> b, idr |-> d, prev |-> NewLink(c),
   hash |-> Append(NewLink(c), [seq |-> Len(c), by |-> b, content |-> heap[d]])]
NewGiven(c, b, d) ==
  [seq |-> Len(c), by |-> b, content |-> heap[d], prev |-> NewLink(c),
   hash |-> Append(NewLink(c), [seq |-> Len(c), by |-> b, content |-> heap[d]])]

LEMMA NewTypes ==
  ASSUME heap \in [Dict -> Content], NEW c \in Seq(Record), NEW b \in Parties, NEW d \in Dict
  PROVE  NewRecord(c, b, d) \in Record /\ NewGiven(c, b, d) \in Given
<1>1. Len(c) \in Nat /\ heap[d] \in Content
  BY LenProperties
<1>2. NewLink(c) \in Seq(Covered)
  <2>1. CASE c = << >>
    BY <2>1, EmptySeq DEF NewLink, Genesis
  <2>2. CASE c # << >>
    <3>1. Len(c) \in 1 .. Len(c)
      BY <2>2, EmptySeq
    <3>. QED  BY <2>2, <3>1, ChainFacts DEF NewLink, Last
  <2>. QED  BY <2>1, <2>2
<1>3. [seq |-> Len(c), by |-> b, content |-> heap[d]] \in Covered
  BY <1>1 DEF Covered
<1>4. Append(NewLink(c), [seq |-> Len(c), by |-> b, content |-> heap[d]]) \in Seq(Covered)
  BY <1>2, <1>3, AppendProperties
<1>. QED  BY <1>1, <1>2, <1>4 DEF NewRecord, NewGiven, Record, Given

LEMMA HandoffIs ==
  ASSUME ChainTyped, NEW p \in Server, Handoff(p)
  PROVE  \E b \in Parties, d \in Dict :
           /\ chain' = [chain EXCEPT ![p] = Append(@, NewRecord(chain[p], b, d))]
           /\ given' = [given EXCEPT ![p] = Append(SubSeq(@, 1, Len(chain[p])), NewGiven(chain[p], b, d))]
<1>1. chain[p] = << >> <=> Len(chain[p]) = 0
  BY EmptySeq DEF ChainTyped
<1>2. NewLink(chain[p]) = IF Len(chain[p]) = 0 THEN Genesis ELSE Last(chain[p]).hash
  BY <1>1 DEF NewLink
<1> DEFINE n == Len(chain[p])
           R(b) == [seq |-> n, by |-> b, prev |-> IF n = 0 THEN Genesis ELSE Last(chain[p]).hash]
           H(b, d) == Canonical(R(b), heap[d])
<1>3. PICK b \in Parties, d \in Dict :
        /\ chain' = [chain EXCEPT ![p] = Append(@, [seq |-> n, by |-> b, idr |-> d, prev |-> R(b).prev, hash |-> H(b, d)])]
        /\ given' = [given EXCEPT ![p] =
             Append(SubSeq(@, 1, n), [seq |-> n, by |-> b, content |-> heap[d], prev |-> R(b).prev, hash |-> H(b, d)])]
  BY Zenon DEF Handoff
<1>4. R(b).prev = NewLink(chain[p]) /\ R(b).seq = n /\ R(b).by = b
  BY <1>2
<1>5. H(b, d) = Append(NewLink(chain[p]), [seq |-> n, by |-> b, content |-> heap[d]])
  BY <1>4, Zenon DEF Canonical
<1>. QED  BY <1>3, <1>4, <1>5, Zenon DEF NewRecord, NewGiven

LEMMA RemoveFacts ==
  ASSUME NEW S, NEW s \in Seq(S), NEW i \in 1 .. Len(s)
  PROVE  /\ RemoveAt(s, i) \in Seq(S) /\ Len(RemoveAt(s, i)) = Len(s) - 1
         /\ \A j \in 1 .. Len(s) - 1 : RemoveAt(s, i)[j] = IF j < i THEN s[j] ELSE s[j + 1]
<1> DEFINE u == SubSeq(s, 1, i - 1)
           v == SubSeq(s, i + 1, Len(s))
<1>1. Len(s) \in Nat /\ \A j \in 1 .. Len(s) : s[j] \in S
  BY LenProperties, ElementOfSeq
<1>2. /\ u \in Seq(S) /\ Len(u) = i - 1
      /\ \A j \in 1 .. i - 1 : u[j] = s[j]
  <2>1. \A j \in 1 .. i - 1 : s[j] \in S
    BY <1>1
  <2>2. /\ u \in Seq(S) /\ Len(u) = IF 1 <= i - 1 THEN i - 1 - 1 + 1 ELSE 0
        /\ \A j \in 1 .. i - 1 - 1 + 1 : u[j] = s[1 + j - 1]
    BY <1>1, <2>1, SubSeqProperties
  <2>. QED  BY <1>1, <2>2
<1>3. /\ v \in Seq(S) /\ Len(v) = Len(s) - i
      /\ \A j \in 1 .. Len(s) - i : v[j] = s[i + j]
  <2>1. \A j \in i + 1 .. Len(s) : s[j] \in S
    BY <1>1
  <2>2. /\ v \in Seq(S) /\ Len(v) = IF i + 1 <= Len(s) THEN Len(s) - (i + 1) + 1 ELSE 0
        /\ \A j \in 1 .. Len(s) - (i + 1) + 1 : v[j] = s[(i + 1) + j - 1]
    BY <1>1, <2>1, SubSeqProperties
  <2>. QED  BY <1>1, <2>2
<1>4. RemoveAt(s, i) = u \o v
  BY DEF RemoveAt
<1>. HIDE DEF u, v
<1>5. /\ u \o v \in Seq(S) /\ Len(u \o v) = Len(u) + Len(v)
      /\ \A j \in 1 .. Len(u) + Len(v) : (u \o v)[j] = IF j <= Len(u) THEN u[j] ELSE v[j - Len(u)]
  BY <1>2, <1>3, ConcatProperties
<1>6. ASSUME NEW j \in 1 .. Len(s) - 1 PROVE (u \o v)[j] = IF j < i THEN s[j] ELSE s[j + 1]
  <2>1. CASE j < i
    BY <1>1, <1>2, <1>3, <1>5, <2>1
  <2>2. CASE ~(j < i)
    <3>1. j - (i - 1) \in 1 .. Len(s) - i /\ i + (j - (i - 1)) = j + 1
      BY <1>1, <2>2
    <3>2. (u \o v)[j] = v[j - (i - 1)]
      BY <1>1, <1>2, <1>3, <1>5, <2>2
    <3>. QED  BY <1>3, <2>2, <3>1, <3>2
  <2>. QED  BY <2>1, <2>2
<1>. QED  BY <1>1, <1>2, <1>3, <1>4, <1>5, <1>6

LEMMA FrontFacts ==
  ASSUME NEW S, NEW s \in Seq(S), Len(s) > 0
  PROVE  /\ Front(s) \in Seq(S) /\ Len(Front(s)) = Len(s) - 1
         /\ \A j \in 1 .. Len(s) - 1 : Front(s)[j] = s[j]
<1>1. Len(s) \in Nat /\ \A j \in 1 .. Len(s) : s[j] \in S
  BY LenProperties, ElementOfSeq
<1>2. \A j \in 1 .. Len(s) - 1 : s[j] \in S
  BY <1>1
<1>3. /\ SubSeq(s, 1, Len(s) - 1) \in Seq(S)
      /\ Len(SubSeq(s, 1, Len(s) - 1)) = IF 1 <= Len(s) - 1 THEN Len(s) - 1 - 1 + 1 ELSE 0
      /\ \A j \in 1 .. Len(s) - 1 - 1 + 1 : SubSeq(s, 1, Len(s) - 1)[j] = s[1 + j - 1]
  BY <1>1, <1>2, SubSeqProperties
<1> DEFINE f == Front(s)
           n == Len(s) - 1
<1>4. f \in Seq(S) /\ Len(f) = IF 1 <= n THEN n - 1 + 1 ELSE 0
  BY <1>3 DEF Front
<1>5. \A j \in 1 .. Len(s) - 1 - 1 + 1 : f[j] = s[1 + j - 1]
  BY <1>3 DEF Front
<1>n. n \in Nat
  BY <1>1
<1>. HIDE DEF f
<1>6. Len(f) = n
  <2>. HIDE DEF n
  <2>. QED  BY <1>4, <1>n
<1>7. \A j \in 1 .. Len(s) - 1 : j \in 1 .. Len(s) - 1 - 1 + 1 /\ 1 + j - 1 = j
  BY <1>1
<1>8. \A j \in 1 .. Len(s) - 1 : f[j] = s[j]
  BY <1>5, <1>7
<1>. QED  BY <1>4, <1>6, <1>8 DEF f

LEMMA PrefixFacts ==
  ASSUME NEW S, NEW s \in Seq(S), NEW n \in Nat, n <= Len(s)
  PROVE  /\ SubSeq(s, 1, n) \in Seq(S) /\ Len(SubSeq(s, 1, n)) = n
         /\ \A j \in 1 .. n : SubSeq(s, 1, n)[j] = s[j]
<1>1. Len(s) \in Nat /\ \A j \in 1 .. Len(s) : s[j] \in S
  BY LenProperties, ElementOfSeq
<1>2. \A j \in 1 .. n : s[j] \in S
  BY <1>1
<1>3. /\ SubSeq(s, 1, n) \in Seq(S)
      /\ Len(SubSeq(s, 1, n)) = IF 1 <= n THEN n - 1 + 1 ELSE 0
      /\ \A j \in 1 .. n - 1 + 1 : SubSeq(s, 1, n)[j] = s[1 + j - 1]
  BY <1>1, <1>2, SubSeqProperties
<1> DEFINE f == SubSeq(s, 1, n)
<1>. HIDE DEF f
<1>4. f \in Seq(S) /\ Len(f) = n
  BY <1>3 DEF f
<1>5. \A j \in 1 .. n - 1 + 1 : f[j] = s[1 + j - 1]
  BY <1>3 DEF f
<1>6. \A j \in 1 .. n : f[j] = s[j]
  BY <1>5
<1>. QED  BY <1>4, <1>6 DEF f

-----------------------------------------------------------------------------
(* A chain and what was given, as sequences. *)

Hashed(g) == Append(g.prev, [seq |-> g.seq, by |-> g.by, content |-> g.content])

\* The first m hashes are those of what was given, each over the one before.
Sound(c, g, m) ==
  \A i \in 1 .. m :
    /\ c[i].hash = g[i].hash /\ g[i].hash = Hashed(g[i]) /\ Len(g[i].prev) = i - 1
    /\ g[i].prev = IF i = 1 THEN Genesis ELSE g[i - 1].hash

\* The one after them is another, and has not grown by one.
Broken(c, g, m) == c[m + 1].hash # g[m + 1].hash /\ Len(c[m + 1].hash) # m + 1

\* A chain is sound, or up to where it is broken.
Told(c, g) ==
  /\ Len(c) <= Len(g) /\ \A i \in 1 .. Len(g) : g[i].hash # Genesis
  /\ \E m \in 0 .. Len(c) : Sound(c, g, m) /\ (m < Len(c) => Broken(c, g, m))

LEMMA ToldEmpty == Told(<< >>, << >>)
<1>1. Len(<< >>) = 0
  BY EmptySeq
<1>2. Sound(<< >>, << >>, 0)
  BY DEF Sound
<1>. QED  BY <1>1, <1>2 DEF Told

\* Replacing other fields than the hash changes nothing.
LEMMA ToldSame ==
  ASSUME NEW c \in Seq(Record), NEW e \in Seq(Record), NEW g \in Seq(Given), Told(c, g),
         Len(e) = Len(c), \A i \in 1 .. Len(c) : e[i].hash = c[i].hash
  PROVE  Told(e, g)
<1>0. Len(c) \in Nat
  BY ChainFacts
<1>1. PICK m \in 0 .. Len(c) : Sound(c, g, m) /\ (m < Len(c) => Broken(c, g, m))
  BY DEF Told
<1>2. Sound(e, g, m)
  <2>1. \A i \in 1 .. m : i \in 1 .. Len(c)
    BY <1>0
  <2>. QED  BY <1>1, <2>1 DEF Sound
<1>3. m < Len(c) => Broken(e, g, m)
  <2>1. m < Len(c) => m + 1 \in 1 .. Len(c)
    BY <1>0
  <2>. QED  BY <1>1, <2>1 DEF Broken
<1>. QED  BY <1>2, <1>3 DEF Told

LEMMA SoundLengths ==
  ASSUME NEW c \in Seq(Record), NEW g \in Seq(Given), NEW m \in 0 .. Len(c), Len(c) <= Len(g), Sound(c, g, m)
  PROVE  \A i \in 1 .. m : Len(c[i].hash) = i /\ Len(g[i].hash) = i
<1>1. Len(c) \in Nat /\ Len(g) \in Nat
  BY ChainFacts, GivenFacts
<1>2. ASSUME NEW i \in 1 .. m PROVE Len(c[i].hash) = i /\ Len(g[i].hash) = i
  <2>1. g[i] \in Given
    BY <1>1, GivenFacts
  <2>2. g[i].prev \in Seq(Covered) /\ [seq |-> g[i].seq, by |-> g[i].by, content |-> g[i].content] \in Covered
    BY <2>1 DEF Given, Covered
  <2>3. Len(Hashed(g[i])) = Len(g[i].prev) + 1
    BY <2>2, AppendProperties DEF Hashed
  <2>. QED  BY <1>1, <2>3 DEF Sound
<1>. QED  BY <1>2

\* A chain in which one hash is another one now, in a place up to which it was sound,
\* and has not grown by one there.
LEMMA ToldBroken ==
  ASSUME NEW c \in Seq(Record), NEW g \in Seq(Given), Told(c, g),
         NEW m \in 0 .. Len(c), Sound(c, g, m),
         NEW i \in 1 .. m, NEW e \in Seq(Record), Len(e) <= Len(c), i \in 1 .. Len(e),
         \A j \in 1 .. i - 1 : e[j].hash = c[j].hash,
         e[i].hash # g[i].hash, Len(e[i].hash) # i
  PROVE  Told(e, g)
<1>1. Len(c) \in Nat /\ Len(g) \in Nat /\ Len(e) \in Nat
  BY ChainFacts, GivenFacts
<1>2. \A j \in 1 .. i - 1 : j \in 1 .. m
  BY <1>1
<1>3. Sound(e, g, i - 1)
  BY <1>2 DEF Sound
<1>4. i - 1 \in 0 .. Len(e) /\ (i - 1) + 1 = i
  BY <1>1
<1>5. Broken(e, g, i - 1)
  BY <1>4 DEF Broken
<1>. QED  BY <1>1, <1>3, <1>4, <1>5 DEF Told

\* A hash replaced breaks the chain there, unless it was broken before.
LEMMA ToldHash ==
  ASSUME NEW c \in Seq(Record), NEW e \in Seq(Record), NEW g \in Seq(Given), Told(c, g),
         Len(e) = Len(c), NEW i \in 1 .. Len(c), e[i].hash = Genesis,
         \A j \in 1 .. Len(c) : j # i => e[j].hash = c[j].hash
  PROVE  Told(e, g)
<1>1. Len(c) \in Nat /\ Len(g) \in Nat /\ i \in 1 .. Len(e) /\ i \in 1 .. Len(g)
  BY ChainFacts, GivenFacts DEF Told
<1>2. e[i].hash # g[i].hash /\ Len(e[i].hash) = 0
  BY <1>1, EmptySeq DEF Told, Genesis
<1>3. PICK m \in 0 .. Len(c) : Sound(c, g, m) /\ (m < Len(c) => Broken(c, g, m))
  BY DEF Told
<1>4. CASE i \in 1 .. m
  <2>1. \A j \in 1 .. i - 1 : j \in 1 .. Len(c) /\ j # i
    BY <1>1
  <2>. QED  BY <1>1, <1>2, <1>3, <1>4, <2>1, ToldBroken
<1>5. CASE i \notin 1 .. m
  <2>1. \A j \in 1 .. m : j \in 1 .. Len(c) /\ j # i
    BY <1>1, <1>5
  <2>2. Sound(e, g, m)
    BY <1>3, <2>1 DEF Sound
  <2>3. CASE i = m + 1
    <3>1. Broken(e, g, m)
      BY <1>1, <1>2, <2>3 DEF Broken
    <3>. QED  BY <2>2, <3>1 DEF Told
  <2>4. CASE i # m + 1
    <3>1. m < Len(c) => m + 1 \in 1 .. Len(c) /\ m + 1 # i
      BY <1>1, <2>4
    <3>2. m < Len(c) => Broken(e, g, m)
      BY <1>3, <3>1 DEF Broken
    <3>. QED  BY <2>2, <3>2 DEF Told
  <2>. QED  BY <2>3, <2>4
<1>. QED  BY <1>4, <1>5

\* A hand-off.
LEMMA ToldAppend ==
  ASSUME NEW c \in Seq(Record), NEW g \in Seq(Given), Told(c, g),
         NEW r \in Record, NEW n \in Given,
         n.prev = NewLink(c), r.hash = Hashed(n), n.hash = Hashed(n)
  PROVE  Told(Append(c, r), Append(SubSeq(g, 1, Len(c)), n)) /\ Append(SubSeq(g, 1, Len(c)), n) \in Seq(Given)
<1> DEFINE e == Append(c, r)
           f == SubSeq(g, 1, Len(c))
           h == Append(f, n)
<1>1. /\ Len(c) \in Nat /\ Len(e) = Len(c) + 1 /\ e[Len(c) + 1] = r
      /\ \A i \in 1 .. Len(c) : e[i] = c[i]
  BY ChainFacts, AppendProperties
<1>2. Len(g) \in Nat /\ Len(c) <= Len(g) /\ \A i \in 1 .. Len(g) : g[i].hash # Genesis
  BY GivenFacts DEF Told
<1>f. f \in Seq(Given) /\ Len(f) = Len(c) /\ \A i \in 1 .. Len(c) : f[i] = g[i]
  BY <1>1, <1>2, PrefixFacts
<1>. HIDE DEF f
<1>3. /\ h \in Seq(Given) /\ Len(h) = Len(c) + 1 /\ h[Len(c) + 1] = n
      /\ \A i \in 1 .. Len(c) : h[i] = g[i]
  BY <1>1, <1>f, AppendProperties
<1>. HIDE DEF e, h
<1>n. n.hash # Genesis
  <2>1. n.prev \in Seq(Covered) /\ [seq |-> n.seq, by |-> n.by, content |-> n.content] \in Covered
    BY DEF Given, Covered
  <2>2. Len(Hashed(n)) = Len(n.prev) + 1 /\ Len(n.prev) \in Nat
    BY <2>1, AppendProperties, LenProperties DEF Hashed
  <2>3. Len(Genesis) = 0
    BY EmptySeq DEF Genesis
  <2>. QED  BY <2>2, <2>3
<1>4. Len(e) <= Len(h) /\ \A i \in 1 .. Len(h) : h[i].hash # Genesis
  <2>1. ASSUME NEW i \in 1 .. Len(h) PROVE h[i].hash # Genesis
    <3>1. i \in 1 .. Len(c) \/ i = Len(c) + 1
      BY <1>1, <1>3
    <3>2. i \in 1 .. Len(c) => i \in 1 .. Len(g)
      BY <1>1, <1>2
    <3>. QED  BY <1>2, <1>3, <1>n, <3>1, <3>2
  <2>. QED  BY <1>1, <1>3, <2>1
<1>5. PICK m \in 0 .. Len(c) : Sound(c, g, m) /\ (m < Len(c) => Broken(c, g, m))
  BY DEF Told
<1>6. Sound(e, h, m)
  <2>1. ASSUME NEW i \in 1 .. m
        PROVE  /\ e[i].hash = h[i].hash /\ h[i].hash = Hashed(h[i]) /\ Len(h[i].prev) = i - 1
               /\ h[i].prev = IF i = 1 THEN Genesis ELSE h[i - 1].hash
    <3>1. i \in 1 .. Len(c) /\ (i # 1 => i - 1 \in 1 .. Len(c))
      BY <1>1
    <3>2. e[i] = c[i] /\ h[i] = g[i] /\ (i # 1 => h[i - 1] = g[i - 1])
      BY <1>1, <1>3, <3>1
    <3>. QED  BY <1>5, <3>2 DEF Sound
  <2>. QED  BY <2>1 DEF Sound
<1>7. CASE m = Len(c)
  <2>1. \A i \in 1 .. Len(c) : Len(c[i].hash) = i
    BY <1>2, <1>5, <1>7, SoundLengths
  <2>2. \A i \in 1 .. Len(c) + 1 : i \in 1 .. m \/ i = Len(c) + 1
    BY <1>1, <1>7
  <2>3. ASSUME NEW i, i = Len(c) + 1
        PROVE  /\ e[i].hash = h[i].hash /\ h[i].hash = Hashed(h[i]) /\ Len(h[i].prev) = i - 1
               /\ h[i].prev = IF i = 1 THEN Genesis ELSE h[i - 1].hash
    <3>1. e[i] = r /\ h[i] = n
      BY <1>1, <1>3, <2>3
    <3>2. CASE c = << >>
      <4>1. Len(c) = 0
        BY <3>2, EmptySeq
      <4>2. n.prev = Genesis /\ Len(n.prev) = 0
        BY <3>2, EmptySeq DEF NewLink, Genesis
      <4>. QED  BY <2>3, <3>1, <4>1, <4>2
    <3>3. CASE c # << >>
      <4>1. Len(c) \in 1 .. Len(c) /\ Len(c) \in 1 .. m
        BY <1>1, <1>7, <3>3, EmptySeq
      <4>2. n.prev = c[Len(c)].hash /\ Len(n.prev) = Len(c) /\ h[Len(c)] = g[Len(c)]
        BY <1>3, <2>1, <3>3, <4>1 DEF NewLink, Last
      <4>3. c[Len(c)].hash = g[Len(c)].hash
        BY <1>5, <4>1 DEF Sound
      <4>4. i - 1 = Len(c) /\ i # 1
        BY <1>1, <2>3, <4>1
      <4>. QED  BY <3>1, <4>2, <4>3, <4>4
    <3>. QED  BY <3>2, <3>3
  <2>4. Sound(e, h, Len(c) + 1)
    BY <1>6, <2>2, <2>3 DEF Sound
  <2>5. Len(c) + 1 \in 0 .. Len(e) /\ ~ (Len(c) + 1 < Len(e))
    BY <1>1
  <2>. QED  BY <1>3, <1>4, <2>4, <2>5 DEF Told, e, h, f
<1>8. CASE m # Len(c)
  <2>1. m < Len(c) /\ m + 1 \in 1 .. Len(c) /\ m \in 0 .. Len(e)
    BY <1>1, <1>8
  <2>2. Broken(e, h, m)
    BY <1>1, <1>3, <1>5, <2>1 DEF Broken
  <2>. QED  BY <1>3, <1>4, <1>6, <2>1, <2>2 DEF Told, e, h, f
<1>. QED  BY <1>7, <1>8

\* A chain in which the record after the i-th has taken its place, all in place before.
LEMMA ToldMoved ==
  ASSUME NEW c \in Seq(Record), NEW g \in Seq(Given), Told(c, g), \A j \in 1 .. Len(c) : c[j].hash = g[j].hash,
         NEW i \in 1 .. Len(c), i < Len(c),
         NEW e \in Seq(Record), Len(e) <= Len(c), i \in 1 .. Len(e), e[i] = c[i + 1],
         \A j \in 1 .. i - 1 : e[j] = c[j]
  PROVE  Told(e, g)
<1>1. PICK m \in 0 .. Len(c) : Sound(c, g, m) /\ (m < Len(c) => Broken(c, g, m))
  BY DEF Told
<1>2. Len(c) \in Nat /\ Len(g) \in Nat /\ Len(c) <= Len(g)
  BY ChainFacts, GivenFacts DEF Told
<1>3. m = Len(c)
  <2>1. m < Len(c) => m + 1 \in 1 .. Len(c)
    BY <1>2
  <2>2. ~ (m < Len(c))
    BY <1>1, <2>1 DEF Broken
  <2>. QED  BY <1>2, <2>2
<1>4. \A j \in 1 .. Len(c) : Len(c[j].hash) = j /\ Len(g[j].hash) = j
  BY <1>1, <1>2, <1>3, SoundLengths
<1>5. i + 1 \in 1 .. Len(c)
  BY <1>2
<1>6. Len(e[i].hash) = i + 1 /\ Len(g[i].hash) = i
  BY <1>4, <1>5
<1>7. Len(e[i].hash) # i /\ Len(e[i].hash) # Len(g[i].hash)
  BY <1>6
<1>. QED  BY <1>1, <1>3, <1>7, ToldBroken

\* A record other than the last one removed.
LEMMA ToldRemove ==
  ASSUME NEW c \in Seq(Record), NEW g \in Seq(Given), Told(c, g), \A j \in 1 .. Len(c) : c[j].hash = g[j].hash,
         NEW i \in 1 .. Len(c), i < Len(c)
  PROVE  Told(RemoveAt(c, i), g)
<1> DEFINE e == RemoveAt(c, i)
<1>1. Len(c) \in Nat
  BY ChainFacts
<1>2. e \in Seq(Record) /\ Len(e) = Len(c) - 1 /\ \A j \in 1 .. Len(c) - 1 : e[j] = IF j < i THEN c[j] ELSE c[j + 1]
  BY RemoveFacts
<1>. HIDE DEF e
<1>3. Len(e) <= Len(c) /\ i \in 1 .. Len(e) /\ e[i] = c[i + 1]
  BY <1>1, <1>2
<1>4. \A j \in 1 .. i - 1 : e[j] = c[j]
  BY <1>1, <1>2
<1>5. Told(e, g)
  BY <1>2, <1>3, <1>4, ToldMoved
<1>. QED  BY <1>5 DEF e

\* The end cut off, before or after where the chain is broken.
LEMMA ToldFront ==
  ASSUME NEW c \in Seq(Record), NEW g \in Seq(Given), Told(c, g), Len(c) > 0
  PROVE  Told(Front(c), g)
<1> DEFINE e == Front(c)
<1>1. Len(c) \in Nat /\ Len(g) \in Nat /\ Len(c) <= Len(g)
  BY ChainFacts, GivenFacts DEF Told
<1>2. Len(e) = Len(c) - 1 /\ \A j \in 1 .. Len(c) - 1 : e[j] = c[j]
  BY FrontFacts
<1>. HIDE DEF e
<1>3. PICK m \in 0 .. Len(c) : Sound(c, g, m) /\ (m < Len(c) => Broken(c, g, m))
  BY DEF Told
<1>4. CASE m = Len(c)
  <2>1. \A j \in 1 .. Len(c) - 1 : j \in 1 .. m
    BY <1>1, <1>4
  <2>2. Sound(e, g, Len(c) - 1)
    BY <1>2, <1>3, <2>1 DEF Sound
  <2>3. Len(c) - 1 \in 0 .. Len(e) /\ ~ (Len(c) - 1 < Len(e)) /\ Len(e) <= Len(g)
    BY <1>1, <1>2
  <2>4. Told(e, g)
    BY <2>2, <2>3 DEF Told
  <2>. QED  BY <2>4 DEF e
<1>5. CASE m # Len(c)
  <2>1. m \in 0 .. Len(e) /\ Len(e) <= Len(g) /\ \A j \in 1 .. m : j \in 1 .. Len(c) - 1
    BY <1>1, <1>2, <1>5
  <2>2. Sound(e, g, m)
    BY <1>2, <1>3, <2>1 DEF Sound
  <2>3. m < Len(e) => m < Len(c) /\ m + 1 \in 1 .. Len(c) - 1
    BY <1>1, <1>2, <2>1
  <2>4. m < Len(e) => Broken(e, g, m)
    BY <1>2, <1>3, <2>3 DEF Broken
  <2>5. Told(e, g)
    BY <2>1, <2>2, <2>4 DEF Told
  <2>. QED  BY <2>5 DEF e
<1>. QED  BY <1>4, <1>5

-----------------------------------------------------------------------------
(* The workflows. *)

AllTold == \A p \in Server : Told(chain[p], given[p])

LEMMA OthersTold ==
  ASSUME ChainTyped, AllTold, heap' \in [Dict -> Content], NEW p \in Server,
         NEW e \in Seq(Record), NEW h \in Seq(Given), Told(e, h),
         chain' = [chain EXCEPT ![p] = e], given' = [given EXCEPT ![p] = h]
  PROVE  ChainTyped' /\ AllTold'
<1>1. chain' \in [Server -> Seq(Record)] /\ given' \in [Server -> Seq(Given)]
  BY DEF ChainTyped
<1>2. \A q \in Server : /\ chain'[q] = IF q = p THEN e ELSE chain[q]
                        /\ given'[q] = IF q = p THEN h ELSE given[q]
  BY DEF ChainTyped
<1>3. ASSUME NEW q \in Server PROVE Told(chain'[q], given'[q])
  <2>1. CASE q = p
    BY <1>2, <2>1
  <2>2. CASE q # p
    BY <1>2, <2>2 DEF AllTold
  <2>. QED  BY <2>1, <2>2
<1>. QED  BY <1>1, <1>3 DEF ChainTyped, AllTold

\* A record replaced by one that differs in other fields than the hash, or whose hash is
\* another one.
LEMMA ToldReplaced ==
  ASSUME ChainTyped, AllTold, NEW p \in Server, NEW i \in 1 .. Len(chain[p]),
         NEW x \in Record, x.hash = chain[p][i].hash \/ x.hash = Genesis,
         chain' = [chain EXCEPT ![p] = [chain[p] EXCEPT ![i] = x]], UNCHANGED <<given, heap>>
  PROVE  ChainTyped' /\ AllTold'
<1> DEFINE c == chain[p]
           e == [c EXCEPT ![i] = x]
<1>1. c \in Seq(Record) /\ given[p] \in Seq(Given) /\ given' = [given EXCEPT ![p] = given[p]]
  BY DEF ChainTyped
<1>2. /\ e \in Seq(Record) /\ Len(e) = Len(c)
      /\ \A j \in 1 .. Len(c) : e[j] = IF j = i THEN x ELSE c[j]
  BY <1>1, ExceptSeq
<1>. HIDE DEF e
<1>3. Told(c, given[p])
  BY DEF AllTold
<1>4. Told(e, given[p])
  <2>1. CASE x.hash = c[i].hash
    <3>1. \A j \in 1 .. Len(c) : e[j].hash = c[j].hash
      BY <1>2, <2>1
    <3>. QED  BY <1>1, <1>2, <1>3, <3>1, ToldSame
  <2>2. CASE x.hash = Genesis
    <3>1. e[i].hash = Genesis /\ \A j \in 1 .. Len(c) : j # i => e[j].hash = c[j].hash
      BY <1>2, <2>2
    <3>. QED  BY <1>1, <1>2, <1>3, <3>1, ToldHash
  <2>. QED  BY <2>1, <2>2
<1>. QED  BY <1>1, <1>2, <1>4, OthersTold DEF ChainTyped, e

LEMMA HandoffTold ==
  ASSUME ChainTyped, AllTold, NEW p \in Server, Handoff(p)
  PROVE  ChainTyped' /\ AllTold'
<1> DEFINE c == chain[p]
<1>1. PICK b \in Parties, d \in Dict :
           /\ chain' = [chain EXCEPT ![p] = Append(@, NewRecord(c, b, d))]
           /\ given' = [given EXCEPT ![p] = Append(SubSeq(@, 1, Len(c)), NewGiven(c, b, d))]
  BY HandoffIs
<1>2. c \in Seq(Record) /\ given[p] \in Seq(Given) /\ heap' = heap
  BY DEF ChainTyped, Handoff
<1>3. NewRecord(c, b, d) \in Record /\ NewGiven(c, b, d) \in Given
  BY <1>2, NewTypes DEF ChainTyped
<1>4. /\ NewGiven(c, b, d).prev = NewLink(c) /\ NewGiven(c, b, d).hash = Hashed(NewGiven(c, b, d))
      /\ NewRecord(c, b, d).hash = Hashed(NewGiven(c, b, d))
  BY DEF NewRecord, NewGiven, Hashed
<1>5. /\ Told(Append(c, NewRecord(c, b, d)), Append(SubSeq(given[p], 1, Len(c)), NewGiven(c, b, d)))
      /\ Append(SubSeq(given[p], 1, Len(c)), NewGiven(c, b, d)) \in Seq(Given)
  BY <1>2, <1>3, <1>4, ToldAppend DEF AllTold
<1>6. Append(c, NewRecord(c, b, d)) \in Seq(Record)
  BY <1>2, <1>3, AppendProperties
<1>. QED  BY <1>1, <1>2, <1>5, <1>6, OthersTold DEF ChainTyped

LEMMA TamperTold ==
  ASSUME ChainTyped, AllTold, NEW p \in Server, Tamper(p)
  PROVE  ChainTyped' /\ AllTold'
<1> DEFINE c == chain[p]
           g == given[p]
<1>1. c \in Seq(Record) /\ g \in Seq(Given) /\ Told(c, g) /\ heap' = heap /\ heap \in [Dict -> Content]
  BY DEF ChainTyped, AllTold, Tamper
<1>2. Len(c) \in Nat /\ DOMAIN c = 1 .. Len(c) /\ \A j \in 1 .. Len(c) : c[j] \in Record
  BY <1>1, ChainFacts
<1>3. InPlace(p) => \A j \in 1 .. Len(c) : c[j].hash = g[j].hash
  BY <1>2 DEF InPlace
<1>4. PICK i \in DOMAIN c :
        LET n == Len(c) IN
        \/ \E b \in Parties : chain' = [chain EXCEPT ![p][i].by = b]
        \/ \E d \in Dict : chain' = [chain EXCEPT ![p][i].idr = d]
        \/ chain' = [chain EXCEPT ![p][i].seq = n]
        \/ chain' = [chain EXCEPT ![p][i].prev = Genesis]
        \/ chain' = [chain EXCEPT ![p][i].hash = Genesis]
        \/ InPlace(p) /\ i < n /\ chain' = [chain EXCEPT ![p] = RemoveAt(@, i)]
        \/ InPlace(p) /\ i < n /\ chain' = [chain EXCEPT ![p][i] = chain[p][i + 1], ![p][i + 1] = chain[p][i]]
        \/ i = n /\ chain' = [chain EXCEPT ![p] = Front(@)]
  BY DEF Tamper
<1>5. i \in 1 .. Len(c) /\ c[i] \in Record
  BY <1>2
<1>6. given' = given /\ given' = [given EXCEPT ![p] = g]
  BY DEF ChainTyped, Tamper
<1>a. ASSUME NEW x \in Record, x.hash = c[i].hash \/ x.hash = Genesis,
             chain' = [chain EXCEPT ![p] = [c EXCEPT ![i] = x]]
      PROVE  ChainTyped' /\ AllTold'
  BY <1>1, <1>5, <1>6, <1>a, ToldReplaced
<1>b. ASSUME NEW b \in Parties, chain' = [chain EXCEPT ![p][i].by = b] PROVE ChainTyped' /\ AllTold'
  <2>1. [c[i] EXCEPT !.by = b] \in Record /\ [c[i] EXCEPT !.by = b].hash = c[i].hash
    BY <1>5 DEF Record
  <2>. QED  BY <1>a, <1>b, <2>1
<1>c. ASSUME NEW d \in Dict, chain' = [chain EXCEPT ![p][i].idr = d] PROVE ChainTyped' /\ AllTold'
  <2>1. [c[i] EXCEPT !.idr = d] \in Record /\ [c[i] EXCEPT !.idr = d].hash = c[i].hash
    BY <1>5 DEF Record
  <2>. QED  BY <1>a, <1>c, <2>1
<1>d. CASE chain' = [chain EXCEPT ![p][i].seq = Len(c)]
  <2>1. [c[i] EXCEPT !.seq = Len(c)] \in Record /\ [c[i] EXCEPT !.seq = Len(c)].hash = c[i].hash
    BY <1>2, <1>5 DEF Record
  <2>. QED  BY <1>a, <1>d, <2>1
<1>e. CASE chain' = [chain EXCEPT ![p][i].prev = Genesis]
  <2>1. [c[i] EXCEPT !.prev = Genesis] \in Record /\ [c[i] EXCEPT !.prev = Genesis].hash = c[i].hash
    BY <1>5, EmptySeq DEF Record, Genesis
  <2>. QED  BY <1>a, <1>e, <2>1
<1>f. CASE chain' = [chain EXCEPT ![p][i].hash = Genesis]
  <2>1. [c[i] EXCEPT !.hash = Genesis] \in Record /\ [c[i] EXCEPT !.hash = Genesis].hash = Genesis
    BY <1>5, EmptySeq DEF Record, Genesis
  <2>. QED  BY <1>a, <1>f, <2>1
<1>g. CASE InPlace(p) /\ i < Len(c) /\ chain' = [chain EXCEPT ![p] = RemoveAt(@, i)]
  <2>1. Told(RemoveAt(c, i), g)
    BY <1>1, <1>3, <1>5, <1>g, ToldRemove
  <2>2. RemoveAt(c, i) \in Seq(Record)
    BY <1>1, <1>5, RemoveFacts
  <2>. QED  BY <1>1, <1>6, <1>g, <2>1, <2>2, OthersTold
<1>h. CASE chain' = [chain EXCEPT ![p] = Front(@)]
  <2>1. Len(c) > 0
    BY <1>2, <1>5
  <2>2. Told(Front(c), g) /\ Front(c) \in Seq(Record)
    BY <1>1, <2>1, ToldFront, FrontFacts
  <2>. QED  BY <1>1, <1>6, <1>h, <2>2, OthersTold
<1>i. CASE /\ InPlace(p) /\ i < Len(c)
           /\ chain' = [chain EXCEPT ![p][i] = chain[p][i + 1], ![p][i + 1] = chain[p][i]]
  <2> DEFINE once == [c EXCEPT ![i] = c[i + 1]]
             e == [once EXCEPT ![i + 1] = c[i]]
  <2>1. i + 1 \in 1 .. Len(c) /\ i + 1 # i /\ c[i + 1] \in Record
    BY <1>2, <1>5, <1>i
  <2>2. /\ once \in Seq(Record) /\ Len(once) = Len(c)
        /\ \A j \in 1 .. Len(c) : once[j] = IF j = i THEN c[i + 1] ELSE c[j]
    BY <1>1, <1>5, <2>1, ExceptSeq
  <2>3. /\ e \in Seq(Record) /\ Len(e) = Len(c)
        /\ \A j \in 1 .. Len(c) : e[j] = IF j = i + 1 THEN c[i] ELSE once[j]
    <3>. HIDE DEF once
    <3>. QED  BY <1>5, <2>1, <2>2, ExceptSeq
  <2>4. chain' = [chain EXCEPT ![p] = e]
    BY <1>i DEF ChainTyped
  <2>. HIDE DEF once, e
  <2>5. e[i] = c[i + 1] /\ \A j \in 1 .. i - 1 : e[j] = c[j]
    <3>1. e[i] = c[i + 1]
      BY <1>5, <2>1, <2>2, <2>3
    <3>2. \A j \in 1 .. i - 1 : j \in 1 .. Len(c) /\ j # i /\ j # i + 1
      BY <1>2, <1>5
    <3>. QED  BY <2>2, <2>3, <3>1, <3>2
  <2>6. Len(e) <= Len(c) /\ i \in 1 .. Len(e)
    BY <1>2, <1>5, <2>3
  <2>7. Told(e, g)
    BY <1>1, <1>3, <1>5, <1>i, <2>3, <2>5, <2>6, ToldMoved
  <2>. QED  BY <1>1, <1>6, <2>3, <2>4, <2>7, OthersTold
<1>. QED  BY <1>4, <1>b, <1>c, <1>d, <1>e, <1>f, <1>g, <1>h, <1>i

LEMMA WorkflowStep == ChainTyped /\ AllTold /\ [Next]_vars => ChainTyped' /\ AllTold'
<1>. SUFFICES ASSUME ChainTyped, AllTold, [Next]_vars PROVE ChainTyped' /\ AllTold'  OBVIOUS
<1>a. UNCHANGED <<chain, given>> /\ heap' \in [Dict -> Content] => ChainTyped' /\ AllTold'
  BY DEF ChainTyped, AllTold
<1>b. heap \in [Dict -> Content]
  BY DEF ChainTyped
<1>1. ASSUME NEW p \in Server, Handoff(p) PROVE ChainTyped' /\ AllTold'
  BY <1>1, HandoffTold
<1>2. ASSUME NEW p \in Server, Restart(p) PROVE ChainTyped' /\ AllTold'
  <2>1. << >> \in Seq(Record) /\ << >> \in Seq(Given)
    BY EmptySeq
  <2>. QED  BY <1>2, <1>b, <2>1, ToldEmpty, OthersTold DEF Restart
<1>3. ASSUME NEW p \in Server, Tamper(p) PROVE ChainTyped' /\ AllTold'
  BY <1>3, TamperTold
<1>4. ASSUME NEW p \in Process, Other(p) \/ Read(p) \/ Write(p) \/ FailOpen(p) PROVE ChainTyped' /\ AllTold'
  BY <1>4, <1>a, <1>b DEF Other, Read, Write, FailOpen
<1>5. CASE Mutate
  <2>1. heap' \in [Dict -> Content]
    BY <1>5, <1>b DEF Mutate
  <2>. QED  BY <1>5, <1>a, <2>1 DEF Mutate
<1>6. CASE Ask
  BY <1>6, <1>a, <1>b DEF Ask
<1>7. CASE UNCHANGED vars
  BY <1>7, <1>a, <1>b DEF vars
<1>. QED  BY <1>1, <1>2, <1>3, <1>4, <1>5, <1>6, <1>7 DEF Next

LEMMA WorkflowInit == Init => ChainTyped /\ AllTold
<1>. SUFFICES ASSUME Init PROVE ChainTyped /\ AllTold  OBVIOUS
<1>1. << >> \in Seq(Record) /\ << >> \in Seq(Given)
  BY EmptySeq
<1>2. ChainTyped
  BY <1>1 DEF Init, ChainTyped
<1>3. AllTold
  BY ToldEmpty DEF Init, AllTold
<1>. QED  BY <1>2, <1>3

\* Two hashes are equal just when they cover the same, one by one.
LEMMA HashInjective ==
  ASSUME NEW s \in Seq(Covered), NEW t \in Seq(Covered), NEW x \in Covered, NEW y \in Covered
  PROVE  Append(s, x) = Append(t, y) <=> s = t /\ x = y
BY AppendInjective

\* What the records of a workflow say, as a sequence.
LEMMA ContentsFacts ==
  ASSUME ChainTyped, NEW p \in Server
  PROVE  /\ Contents(p) \in Seq(Given) /\ Len(Contents(p)) = Len(chain[p])
         /\ \A i \in 1 .. Len(chain[p]) :
              Contents(p)[i] = [seq |-> chain[p][i].seq, by |-> chain[p][i].by, content |-> heap[chain[p][i].idr],
                                prev |-> chain[p][i].prev, hash |-> chain[p][i].hash]
<1> DEFINE c == chain[p]
           Says(i) == [seq |-> c[i].seq, by |-> c[i].by, content |-> heap[c[i].idr], prev |-> c[i].prev, hash |-> c[i].hash]
<1>1. c \in Seq(Record) /\ heap \in [Dict -> Content]
  BY DEF ChainTyped
<1>2. Len(c) \in Nat /\ DOMAIN c = 1 .. Len(c) /\ \A i \in 1 .. Len(c) : c[i] \in Record
  BY <1>1, ChainFacts
<1>3. \A i \in 1 .. Len(c) : Says(i) \in Given
  BY <1>1, <1>2 DEF Record, Given
<1>4. Contents(p) = [i \in 1 .. Len(c) |-> Says(i)]
  BY <1>2 DEF Contents
<1>5. Contents(p) \in [1 .. Len(c) -> Given]
  BY <1>3, <1>4
<1>6. Contents(p) \in Seq(Given) /\ Len(Contents(p)) = Len(c)
  BY <1>2, <1>5, SeqDef, LenProperties
<1>. QED  BY <1>4, <1>6

LEMMA PrefixIs ==
  ASSUME NEW S, NEW s \in Seq(S), NEW t \in Seq(S), Len(s) <= Len(t)
  PROVE  IsPrefix(s, t) <=> \A i \in 1 .. Len(s) : s[i] = t[i]
<1>1. Len(s) \in Nat /\ Len(t) \in Nat
  BY LenProperties
<1> DEFINE n == Len(s)
           f == SubSeq(s, 1, n)
           g == SubSeq(t, 1, n)
<1>2. /\ f \in Seq(S) /\ Len(f) = n /\ \A j \in 1 .. n : f[j] = s[j]
      /\ g \in Seq(S) /\ Len(g) = n /\ \A j \in 1 .. n : g[j] = t[j]
  BY <1>1, PrefixFacts
<1>3. IsPrefix(s, t) <=> f = g
  BY DEF IsPrefix
<1>. HIDE DEF f, g
<1>4. f = g <=> \A j \in 1 .. n : f[j] = g[j]
  BY <1>1, <1>2, SeqEqual
<1>. QED  BY <1>2, <1>3, <1>4

\* A sound chain verifies just when its records say what was given.
LEMMA SoundVerifies ==
  ASSUME ChainTyped, NEW p \in Server, Len(chain[p]) <= Len(given[p]), Sound(chain[p], given[p], Len(chain[p]))
  PROVE  Verify(p) <=> IsPrefix(Contents(p), given[p])
<1> DEFINE c == chain[p]
           g == given[p]
           Covers(i) == [seq |-> c[i].seq, by |-> c[i].by, content |-> heap[c[i].idr]]
           Says(i) == [seq |-> c[i].seq, by |-> c[i].by, content |-> heap[c[i].idr], prev |-> c[i].prev, hash |-> c[i].hash]
<1>1. c \in Seq(Record) /\ g \in Seq(Given) /\ heap \in [Dict -> Content]
  BY DEF ChainTyped
<1>2. /\ Len(c) \in Nat /\ DOMAIN c = 1 .. Len(c) /\ Len(g) \in Nat
      /\ \A i \in 1 .. Len(c) : c[i] \in Record /\ g[i] \in Given
  BY <1>1, ChainFacts, GivenFacts
<1>3. IsPrefix(Contents(p), g) <=> \A i \in 1 .. Len(c) : Says(i) = g[i]
  <2>1. /\ Contents(p) \in Seq(Given) /\ Len(Contents(p)) = Len(c)
        /\ \A i \in 1 .. Len(c) : Contents(p)[i] = Says(i)
    BY ContentsFacts
  <2>2. IsPrefix(Contents(p), g) <=> \A i \in 1 .. Len(Contents(p)) : Contents(p)[i] = g[i]
    <3>1. Len(Contents(p)) <= Len(g) /\ Contents(p) \in Seq(Given)
      BY <2>1
    <3>. QED  BY <1>1, <3>1, PrefixIs
  <2>. QED  BY <2>1, <2>2
<1>4. Verify(p) <=> \A i \in 1 .. Len(c) : c[i].prev = (IF i = 1 THEN Genesis ELSE c[i - 1].hash)
                                            /\ c[i].hash = Append(c[i].prev, Covers(i))
  BY <1>2 DEF Verify, Canonical
<1>5. ASSUME NEW i \in 1 .. Len(c)
      PROVE  (/\ c[i].prev = (IF i = 1 THEN Genesis ELSE c[i - 1].hash)
              /\ c[i].hash = Append(c[i].prev, Covers(i))) <=> Says(i) = g[i]
  <2> DEFINE x == [seq |-> g[i].seq, by |-> g[i].by, content |-> g[i].content]
             y == Covers(i)
             s == g[i].prev
             t == c[i].prev
  <2>1. c[i].hash = g[i].hash /\ c[i].hash = Append(s, x) /\ s = IF i = 1 THEN Genesis ELSE g[i - 1].hash
    BY DEF Sound, Hashed
  <2>2. i # 1 => c[i - 1].hash = g[i - 1].hash
    <3>1. i # 1 => i - 1 \in 1 .. Len(c)
      BY <1>2
    <3>. QED  BY <3>1 DEF Sound
  <2>3. s \in Seq(Covered) /\ x \in Covered
    BY <1>2 DEF Given, Covered
  <2>4. t \in Seq(Covered) /\ y \in Covered
    BY <1>1, <1>2 DEF Record, Covered
  <2>5. Append(s, x) = Append(t, y) <=> s = t /\ x = y
    <3>. HIDE DEF x, y, s, t
    <3>. QED  BY <2>3, <2>4, HashInjective
  <2>6. g[i] = [seq |-> g[i].seq, by |-> g[i].by, content |-> g[i].content, prev |-> g[i].prev, hash |-> g[i].hash]
    BY <1>2 DEF Given
  <2>7. Says(i) = g[i] <=> s = t /\ x = y
    <3>1. Says(i) = g[i] <=> /\ c[i].seq = g[i].seq /\ c[i].by = g[i].by /\ heap[c[i].idr] = g[i].content
                            /\ c[i].prev = g[i].prev /\ c[i].hash = g[i].hash
      BY <2>6
    <3>2. c[i].hash = g[i].hash
      BY DEF Sound
    <3>. QED  BY <3>1, <3>2
  <2>8. s = t <=> c[i].prev = IF i = 1 THEN Genesis ELSE c[i - 1].hash
    BY <2>1, <2>2
  <2>. QED  BY <2>1, <2>5, <2>7, <2>8
<1>. QED  BY <1>3, <1>4, <1>5

\* A broken chain does not verify, and is not what was given.
LEMMA BrokenTells ==
  ASSUME ChainTyped, NEW p \in Server, Len(chain[p]) <= Len(given[p]),
         NEW m \in 0 .. Len(chain[p]), m < Len(chain[p]), Sound(chain[p], given[p], m), Broken(chain[p], given[p], m)
  PROVE  ~Verify(p) /\ ~IsPrefix(Contents(p), given[p])
<1> DEFINE c == chain[p]
           g == given[p]
           y == [seq |-> c[m + 1].seq, by |-> c[m + 1].by, content |-> heap[c[m + 1].idr]]
<1>1. c \in Seq(Record) /\ g \in Seq(Given) /\ heap \in [Dict -> Content]
  BY DEF ChainTyped
<1>2. /\ Len(c) \in Nat /\ DOMAIN c = 1 .. Len(c) /\ Len(g) \in Nat
      /\ \A i \in 1 .. Len(c) : c[i] \in Record
  BY <1>1, ChainFacts, GivenFacts
<1>3. m + 1 \in 1 .. Len(c)
  BY <1>2
<1>4. ~Verify(p)
  <2>1. SUFFICES ASSUME Verify(p) PROVE FALSE  OBVIOUS
  <2>2. c[m + 1].prev = (IF m + 1 = 1 THEN Genesis ELSE c[(m + 1) - 1].hash) /\ c[m + 1].hash = Append(c[m + 1].prev, y)
    BY <1>2, <1>3, <2>1 DEF Verify, Canonical
  <2>3. c[m + 1].prev \in Seq(Covered) /\ y \in Covered
    BY <1>1, <1>2, <1>3 DEF Record, Covered
  <2>4. Len(c[m + 1].hash) = Len(c[m + 1].prev) + 1
    <3>. HIDE DEF y
    <3>. QED  BY <2>2, <2>3, AppendProperties
  <2>5. Len(c[m + 1].prev) = m
    <3>1. CASE m = 0
      BY <2>2, <3>1, EmptySeq DEF Genesis
    <3>2. CASE m # 0
      <4>1. m \in 1 .. m /\ (m + 1) - 1 = m /\ m + 1 # 1
        BY <1>2, <3>2
      <4>. QED  BY <1>1, <2>2, <4>1, SoundLengths
    <3>. QED  BY <3>1, <3>2
  <2>. QED  BY <2>4, <2>5 DEF Broken
<1>5. ~IsPrefix(Contents(p), g)
  <2>1. Contents(p) \in Seq(Given) /\ Len(Contents(p)) = Len(c) /\ Len(Contents(p)) <= Len(g)
    BY ContentsFacts
  <2>c. Contents(p)[m + 1] = [seq |-> c[m + 1].seq, by |-> c[m + 1].by, content |-> heap[c[m + 1].idr],
                              prev |-> c[m + 1].prev, hash |-> c[m + 1].hash]
    BY <1>3, ContentsFacts
  <2>h. Contents(p)[m + 1].hash = c[m + 1].hash
    BY <2>c
  <2>2. Contents(p)[m + 1] # g[m + 1]
    BY <2>h DEF Broken
  <2>. QED  BY <1>1, <1>3, <2>1, <2>2, PrefixIs
<1>. QED  BY <1>4, <1>5

\* Whatever is changed behind a workflow's back - what its dictionaries hold, any field
\* of any record, the hash among them, a record taken out or two exchanged, the end cut
\* off - it verifies just when it still says what was handed off, from the first record
\* on.  Whoever works the hashes out anew, or moves records of a chain already broken,
\* is outside Tamper.
THEOREM VerifyIsRight == Spec => []VerifyTells
<1>1. ChainTyped /\ AllTold => VerifyTells
  <2>. SUFFICES ASSUME ChainTyped, AllTold, NEW p \in Server PROVE Verify(p) <=> IsPrefix(Contents(p), given[p])
    BY DEF VerifyTells
  <2> DEFINE c == chain[p]
             g == given[p]
  <2>1. Len(c) \in Nat /\ Len(c) <= Len(g)
    BY ChainFacts DEF ChainTyped, AllTold, Told
  <2>2. PICK m \in 0 .. Len(c) : Sound(c, g, m) /\ (m < Len(c) => Broken(c, g, m))
    BY DEF AllTold, Told
  <2>3. CASE m = Len(c)
    BY <2>1, <2>2, <2>3, SoundVerifies
  <2>4. CASE m < Len(c)
    BY <2>1, <2>2, <2>4, BrokenTells
  <2>. QED  BY <2>1, <2>3, <2>4
<1>2. Init => ChainTyped /\ AllTold
  BY WorkflowInit
<1>3. ChainTyped /\ AllTold /\ [Next]_vars => ChainTyped' /\ AllTold'
  BY WorkflowStep
<1>. QED  BY <1>1, <1>2, <1>3, PTL DEF Spec

-----------------------------------------------------------------------------
(* The ledger. *)

Level(k) == IF k = 0 THEN 0 ELSE ledger[k].depth + 1

\* A recorder that has read the ledger has a link that fits it.
Fits(p) ==
  pc[p] = "linking" =>
    link[p].pred <= Len(ledger) /\ link[p].depth = Level(link[p].pred) /\ (~overlapped => link[p].pred = Len(ledger))
Alone == ~overlapped => \A p, q \in Process : Busy(p) /\ Busy(q) => p = q
LedgerInv == LedgerTyped /\ LedgerRooted /\ Alone /\ \A p \in Process : Fits(p)

LEMMA LedgerFacts ==
  ASSUME LedgerTyped
  PROVE  /\ Len(ledger) \in Nat /\ DOMAIN ledger = 1 .. Len(ledger)
         /\ \A k \in 1 .. Len(ledger) : ledger[k] \in [pred : Nat, depth : Nat]
         /\ \A k \in 1 .. Len(ledger) : ledger[k].pred \in Nat /\ ledger[k].depth \in Nat
         /\ \A p \in Process : link[p] \in [pred : Nat, depth : Nat] /\ link[p].pred \in Nat /\ link[p].depth \in Nat
<1>1. Len(ledger) \in Nat /\ DOMAIN ledger = 1 .. Len(ledger)
  BY LenProperties DEF LedgerTyped
<1>2. \A k \in 1 .. Len(ledger) : ledger[k] \in [pred : Nat, depth : Nat]
  BY ElementOfSeq DEF LedgerTyped
<1>3. \A p \in Process : link[p] \in [pred : Nat, depth : Nat]
  BY DEF LedgerTyped
<1>. QED  BY <1>1, <1>2, <1>3

LEMMA LedgerInit == Init => LedgerInv
<1>. SUFFICES ASSUME Init PROVE LedgerInv  OBVIOUS
<1>1. LedgerTyped
  BY EmptySeq DEF Init, LedgerTyped, Anchor
<1>2. LedgerRooted
  BY EmptySeq DEF Init, LedgerRooted
<1>3. Alone /\ \A p \in Process : Fits(p)
  BY DEF Init, Alone, Busy, Fits
<1>. QED  BY <1>1, <1>2, <1>3 DEF LedgerInv

\* A recorder begins.
LEMMA Begins ==
  ASSUME LedgerInv, NEW p \in Process, Recording(p), UNCHANGED <<ledger, link>>
  PROVE  LedgerInv'
<1>1. LedgerTyped'
  BY DEF LedgerInv, LedgerTyped, Recording
<1>2. overlapped => overlapped'
  BY DEF Recording
<1>3. LedgerRooted'
  BY <1>2 DEF LedgerInv, LedgerRooted
<1>4. Alone'
  <2>1. SUFFICES ASSUME ~overlapped', NEW q \in Process, NEW r \in Process, Busy(q)', Busy(r)' PROVE q = r
    BY DEF Alone
  <2>2. \A o \in Process \ {p} : ~Busy(o)
    BY <2>1 DEF Recording
  <2>3. \A o \in Process \ {p} : pc'[o] = pc[o]
    BY DEF Recording, LedgerInv, LedgerTyped
  <2>. QED  BY <2>1, <2>2, <2>3 DEF Busy
<1>5. \A q \in Process : Fits(q)'
  <2>. SUFFICES ASSUME NEW q \in Process, pc'[q] = "linking" PROVE Fits(q)'
    BY DEF Fits
  <2>1. pc[q] = "linking"
    BY DEF Recording, LedgerInv, LedgerTyped
  <2>. QED  BY <1>2, <2>1 DEF LedgerInv, Fits, Level
<1>. QED  BY <1>1, <1>3, <1>4, <1>5 DEF LedgerInv

\* A recorder has finished, failed or gone.
LEMMA Ends ==
  ASSUME LedgerInv, NEW p \in Process, UNCHANGED <<ledger, overlapped>>,
         pc' = [pc EXCEPT ![p] = "idle"], link' = [link EXCEPT ![p] = Anchor]
  PROVE  LedgerInv'
<1>1. LedgerTyped'
  BY DEF LedgerInv, LedgerTyped, Anchor
<1>2. LedgerRooted'
  BY DEF LedgerInv, LedgerRooted
<1>3. Alone'
  <2>1. \A q \in Process : Busy(q)' => Busy(q)
    BY DEF Busy, LedgerInv, LedgerTyped
  <2>. QED  BY <2>1 DEF LedgerInv, Alone
<1>4. \A q \in Process : Fits(q)'
  <2>. SUFFICES ASSUME NEW q \in Process, pc'[q] = "linking" PROVE Fits(q)'
    BY DEF Fits
  <2>1. pc[q] = "linking" /\ link'[q] = link[q]
    BY DEF LedgerInv, LedgerTyped
  <2>. QED  BY <2>1 DEF LedgerInv, Fits, Level
<1>. QED  BY <1>1, <1>2, <1>3, <1>4 DEF LedgerInv

\* A recorder has read the ledger, and its link is to the last record.
LEMMA LedgerReads ==
  ASSUME LedgerInv, NEW p \in Process, Read(p), link'[p].pred = Len(ledger), link'[p].depth = Level(Len(ledger))
  PROVE  LedgerInv'
<1>1. LedgerTyped /\ UNCHANGED <<ledger, overlapped>>
  BY DEF LedgerInv, Read
<1>2. /\ pc' = [pc EXCEPT ![p] = "linking"] /\ pc[p] = "reading"
      /\ link' = [link EXCEPT ![p] = link'[p]]
  BY <1>1 DEF Read, LedgerTyped
<1>3. LedgerTyped'
  <2>1. link'[p] \in [pred : Nat, depth : Nat]
    <3>1. CASE ledger = << >>
      BY <1>1, <3>1 DEF Read, LedgerTyped, Anchor
    <3>2. CASE ledger # << >>
      <4>1. Len(ledger) \in 1 .. Len(ledger)
        BY <1>1, <3>2, EmptySeq, LedgerFacts DEF LedgerTyped
      <4>2. ledger[Len(ledger)].depth + 1 \in Nat
        BY <1>1, <4>1, LedgerFacts
      <4>3. link'[p] = [pred |-> Len(ledger), depth |-> ledger[Len(ledger)].depth + 1]
        BY <1>1, <3>2 DEF Read, LedgerTyped, Last
      <4>. QED  BY <4>1, <4>2, <4>3
    <3>. QED  BY <3>1, <3>2
  <2>. QED  BY <1>1, <1>2, <2>1 DEF LedgerTyped
<1>4. LedgerRooted'
  BY <1>1 DEF LedgerInv, LedgerRooted
<1>5. Alone'
  <2>1. \A q \in Process : Busy(q)' => Busy(q)
    BY <1>1, <1>2 DEF Busy, LedgerTyped
  <2>. QED  BY <1>1, <2>1 DEF LedgerInv, Alone
<1>6. \A q \in Process : Fits(q)'
  <2>. SUFFICES ASSUME NEW q \in Process PROVE Fits(q)'  OBVIOUS
  <2>1. CASE q = p
    BY <1>1, <2>1, LedgerFacts DEF Fits, Level
  <2>2. CASE q # p
    <3>1. pc'[q] = pc[q] /\ link'[q] = link[q]
      BY <1>1, <1>2, <2>2 DEF LedgerTyped
    <3>. QED  BY <1>1, <3>1 DEF LedgerInv, Fits, Level
  <2>. QED  BY <2>1, <2>2
<1>. QED  BY <1>3, <1>4, <1>5, <1>6 DEF LedgerInv

LEMMA ReadLinks ==
  ASSUME LedgerInv, NEW p \in Process, Read(p)
  PROVE  LedgerInv'
<1>1. LedgerTyped
  BY DEF LedgerInv
<1>2. link'[p] = IF ledger = << >> THEN Anchor ELSE [pred |-> Len(ledger), depth |-> Last(ledger).depth + 1]
  BY <1>1 DEF Read, LedgerTyped
<1>3. CASE ledger = << >>
  <2>1. link'[p].pred = 0 /\ link'[p].depth = 0 /\ Len(ledger) = 0
    BY <1>2, <1>3, EmptySeq DEF Anchor
  <2>. QED  BY <2>1, LedgerReads DEF Level
<1>4. CASE ledger # << >>
  <2>1. Len(ledger) \in Nat /\ Len(ledger) # 0
    BY <1>1, <1>4, EmptySeq, LedgerFacts DEF LedgerTyped
  <2>2. link'[p].pred = Len(ledger) /\ link'[p].depth = ledger[Len(ledger)].depth + 1
    BY <1>2, <1>4 DEF Last
  <2>. QED  BY <2>1, <2>2, LedgerReads DEF Level
<1>. QED  BY <1>3, <1>4

\* A recorder appends its record.
LEMMA WriteLinks ==
  ASSUME LedgerInv, NEW p \in Process, Write(p)
  PROVE  LedgerInv'
<1> DEFINE n == Len(ledger)
           x == link[p]
           NewLevel(k) == IF k = 0 THEN 0 ELSE ledger'[k].depth + 1
<1>1. LedgerTyped /\ LedgerRooted /\ Alone /\ (\A q \in Process : Fits(q)) /\ UNCHANGED overlapped
  BY DEF LedgerInv, Write
<1>2. /\ n \in Nat /\ x \in [pred : Nat, depth : Nat] /\ x.pred \in Nat
      /\ x.pred <= n /\ x.depth = Level(x.pred) /\ (~overlapped => x.pred = n)
  BY <1>1, LedgerFacts DEF Write, Fits
<1>3. /\ ledger' \in Seq([pred : Nat, depth : Nat]) /\ Len(ledger') = n + 1 /\ DOMAIN ledger' = 1 .. n + 1
      /\ \A k \in 1 .. n : ledger'[k] = ledger[k]
      /\ ledger'[n + 1] = x
  <2>1. ledger' = Append(ledger, x) /\ ledger \in Seq([pred : Nat, depth : Nat])
    BY <1>1 DEF Write, LedgerTyped
  <2>2. DOMAIN ledger = 1 .. n
    BY <1>1, LedgerFacts
  <2>. HIDE DEF x
  <2>3. x \in [pred : Nat, depth : Nat]
    BY <1>2
  <2>. QED  BY <1>2, <2>1, <2>2, <2>3, AppendProperties
<1>4. \A k \in 0 .. n : NewLevel(k) = Level(k)
  BY <1>2, <1>3 DEF Level
<1>5. LedgerTyped'
  BY <1>1, <1>3 DEF Write, LedgerTyped, Anchor
<1>6. LedgerRooted'
  <2>. SUFFICES ASSUME NEW k \in 1 .. n + 1
                PROVE  /\ ledger'[k].pred < k /\ ledger'[k].depth = NewLevel(ledger'[k].pred)
                       /\ (~overlapped => ledger'[k].pred = k - 1)
    BY <1>1, <1>3 DEF LedgerRooted
  <2>1. CASE k \in 1 .. n
    <3>1. /\ ledger[k].pred \in 0 .. n /\ ledger[k].pred < k /\ ledger[k].depth = Level(ledger[k].pred)
          /\ (~overlapped => ledger[k].pred = k - 1)
      BY <1>1, <2>1, LedgerFacts DEF LedgerRooted, Level
    <3>2. ledger'[k] = ledger[k] /\ NewLevel(ledger[k].pred) = Level(ledger[k].pred)
      BY <1>3, <1>4, <2>1, <3>1
    <3>. HIDE DEF NewLevel
    <3>. QED  BY <3>1, <3>2
  <2>2. CASE k = n + 1
    <3>1. ledger'[k] = x /\ x.pred \in 0 .. n
      BY <1>2, <1>3, <2>2
    <3>2. NewLevel(x.pred) = Level(x.pred)
      BY <1>4, <3>1
    <3>. HIDE DEF NewLevel, x
    <3>. QED  BY <1>2, <2>2, <3>1, <3>2
  <2>. QED  BY <1>2, <2>1, <2>2
<1>7. \A q \in Process : Busy(q)' => Busy(q) /\ q # p
  BY <1>1 DEF Write, Busy, LedgerTyped
<1>8. Alone'
  BY <1>1, <1>7 DEF Alone
<1>9. \A q \in Process : Fits(q)'
  <2>. SUFFICES ASSUME NEW q \in Process, pc'[q] = "linking"
                PROVE  /\ link'[q].pred <= n + 1 /\ link'[q].depth = NewLevel(link'[q].pred)
                       /\ (~overlapped => link'[q].pred = n + 1)
    BY <1>1, <1>3 DEF Fits, Level
  <2>1. q # p /\ pc[q] = "linking" /\ link'[q] = link[q]
    BY <1>1 DEF Write, LedgerTyped
  <2>2. overlapped
    BY <1>1, <2>1 DEF Write, Alone, Busy
  <2>3. link[q].pred \in 0 .. n /\ link[q].depth = Level(link[q].pred)
    BY <1>1, <1>2, <2>1, LedgerFacts DEF Fits
  <2>4. NewLevel(link[q].pred) = Level(link[q].pred)
    BY <1>4, <2>3
  <2>. HIDE DEF NewLevel
  <2>. QED  BY <1>2, <2>1, <2>2, <2>3, <2>4
<1>. QED  BY <1>5, <1>6, <1>8, <1>9 DEF LedgerInv

LEMMA LedgerStep == LedgerInv /\ [Next]_vars => LedgerInv'
<1>. SUFFICES ASSUME LedgerInv, [Next]_vars PROVE LedgerInv'  OBVIOUS
<1>1. ASSUME NEW p \in Server, Handoff(p) PROVE LedgerInv'
  BY <1>1, Begins, ServersAreProcesses DEF Handoff
<1>2. ASSUME NEW p \in Server, Restart(p) PROVE LedgerInv'
  BY <1>2, Ends, ServersAreProcesses DEF Restart
<1>3. ASSUME NEW p \in Process, Other(p) PROVE LedgerInv'
  BY <1>3, Begins DEF Other
<1>4. ASSUME NEW p \in Process, Read(p) PROVE LedgerInv'
  BY <1>4, ReadLinks
<1>5. ASSUME NEW p \in Process, Write(p) PROVE LedgerInv'
  BY <1>5, WriteLinks
<1>6. ASSUME NEW p \in Process, FailOpen(p) PROVE LedgerInv'
  BY <1>6, Ends DEF FailOpen
<1>7. ASSUME UNCHANGED <<ledger, pc, link, overlapped>> PROVE LedgerInv'
  <2>1. LedgerTyped' /\ LedgerRooted'
    BY <1>7 DEF LedgerInv, LedgerTyped, LedgerRooted
  <2>2. Alone' /\ \A p \in Process : Fits(p)'
    BY <1>7 DEF LedgerInv, Alone, Busy, Fits, Level
  <2>. QED  BY <2>1, <2>2 DEF LedgerInv
<1>8. ASSUME NEW p \in Server, Tamper(p) PROVE LedgerInv'
  BY <1>7, <1>8 DEF Tamper
<1>9. CASE Mutate \/ Ask \/ UNCHANGED vars
  BY <1>7, <1>9 DEF Mutate, Ask, vars
<1>. QED  BY <1>1, <1>2, <1>3, <1>4, <1>5, <1>6, <1>8, <1>9 DEF Next

\* Whatever processes record and however they interleave, fail or restart, each record
\* of the ledger hangs by an earlier one, and the ledger forks only if two recorded at a time.
THEOREM LedgerHangsTogether == Spec => []LedgerRooted
<1>1. LedgerInv => LedgerRooted
  BY DEF LedgerInv
<1>. QED  BY <1>1, LedgerInit, LedgerStep, PTL DEF Spec

\* The variables keep their types.
THEOREM TypeCorrect == Spec => []TypeOK
<1>1. ChainTyped /\ AllTold /\ LedgerInv => TypeOK
  BY DEF ChainTyped, LedgerInv, LedgerTyped, TypeOK
<1>. QED  BY <1>1, WorkflowInit, WorkflowStep, LedgerInit, LedgerStep, PTL DEF Spec

-----------------------------------------------------------------------------
(***************************************************************************)
(* The decisions.                                                          *)
(***************************************************************************)

\* Every non-empty set of naturals has a least element.
LEMMA LeastNatural ==
  ASSUME NEW S \in SUBSET Nat, S # {}
  PROVE  \E m \in S : \A n \in S : m <= n
<1> DEFINE R == OpToRel(<, Nat)
<1>1. IsWellFoundedOn(R, Nat)
  BY NatLessThanWellFounded
<1>2. R = {p \in Nat \X Nat : p[1] < p[2]}
  BY DEF OpToRel
<1> HIDE DEF R
<1>3. PICK m \in S : \A n \in S : ~ (<<n, m>> \in R)
  BY <1>1, WFMin
<1>4. ASSUME NEW n \in S PROVE m <= n
  <2>1. m \in Nat /\ n \in Nat
    OBVIOUS
  <2>2. <<n, m>> \in R <=> n < m
    BY <1>2, <2>1
  <2>. QED  BY <1>3, <2>1, <2>2
<1>. QED  BY <1>4

LEMMA MinIsLeast ==
  ASSUME NEW S \in SUBSET Nat, S # {}
  PROVE  Min(S) \in S /\ \A n \in S : Min(S) <= n
BY LeastNatural DEF Min

\* Of two rules one goes before the other, and only one; and so for three.
LEMMA BeforeOrders ==
  ASSUME NEW rules \in Seq(Rule)
  PROVE  /\ \A i, j \in 1 .. Len(rules) :
              /\ i # j => Before(rules, i, j) \/ Before(rules, j, i)
              /\ ~ (Before(rules, i, j) /\ Before(rules, j, i))
         /\ \A i, j, k \in 1 .. Len(rules) :
              Before(rules, i, j) /\ Before(rules, j, k) => Before(rules, i, k)
<1>1. \A i \in 1 .. Len(rules) : rules[i].priority \in Int /\ i \in Nat
  <2>1. ASSUME NEW i \in 1 .. Len(rules) PROVE rules[i].priority \in Int
    <3>1. rules[i] \in Rule
      BY ElementOfSeq
    <3>. QED  BY <3>1 DEF Rule
  <2>2. Len(rules) \in Nat
    BY LenProperties
  <2>. QED  BY <2>1, <2>2
<1>2. ASSUME NEW i \in 1 .. Len(rules), NEW j \in 1 .. Len(rules)
      PROVE  /\ i # j => Before(rules, i, j) \/ Before(rules, j, i)
             /\ ~ (Before(rules, i, j) /\ Before(rules, j, i))
  <2>1. rules[i].priority \in Int /\ rules[j].priority \in Int /\ i \in Nat /\ j \in Nat
    BY <1>1
  <2>. QED  BY <2>1 DEF Before
<1>3. ASSUME NEW i \in 1 .. Len(rules), NEW j \in 1 .. Len(rules), NEW k \in 1 .. Len(rules),
             Before(rules, i, j), Before(rules, j, k)
      PROVE  Before(rules, i, k)
  <2>1. /\ rules[i].priority \in Int /\ rules[j].priority \in Int /\ rules[k].priority \in Int
        /\ i \in Nat /\ j \in Nat /\ k \in Nat
    BY <1>1
  <2>. QED  BY <1>3, <2>1 DEF Before
<1>. QED  BY <1>2, <1>3

\* The first n rules listed in their order.
FirstInOrder(rules, n, s) ==
  /\ s \in [1 .. n -> 1 .. n]
  /\ \A i \in 1 .. n : \E k \in 1 .. n : s[k] = i
  /\ \A k, l \in 1 .. n : k < l => Before(rules, s[k], s[l])

\* Rule n + 1 put in its place among the first n.
LEMMA RuleInserted ==
  ASSUME NEW rules \in Seq(Rule), NEW n \in Nat, n + 1 \in 1 .. Len(rules),
         NEW s, FirstInOrder(rules, n, s)
  PROVE  \E t : FirstInOrder(rules, n + 1, t)
<1> DEFINE B == {k \in 1 .. n + 1 : k = n + 1 \/ Before(rules, n + 1, s[k])}
<1>1. Len(rules) \in Nat /\ \A k \in 1 .. n + 1 : k \in 1 .. Len(rules)
  <2>1. Len(rules) \in Nat
    BY LenProperties
  <2>. QED  BY <2>1
<1>2. n + 1 \in B /\ B \in SUBSET Nat
  OBVIOUS
<1>3. PICK p \in B : \A b \in B : p <= b
  BY <1>2, LeastNatural
<1>4. p \in 1 .. n + 1 /\ p \in Nat /\ (p = n + 1 \/ Before(rules, n + 1, s[p]))
  OBVIOUS
<1>5. \A k \in 1 .. p - 1 : Before(rules, s[k], n + 1)
  <2>1. SUFFICES ASSUME NEW k \in 1 .. p - 1 PROVE Before(rules, s[k], n + 1)
    OBVIOUS
  <2>2. k \in 1 .. n /\ k \in 1 .. n + 1 /\ k # n + 1 /\ ~ (p <= k)
    BY <1>4
  <2>3. ~ Before(rules, n + 1, s[k])
    BY <1>3, <2>2
  <2>4. s[k] \in 1 .. n
    BY <2>2 DEF FirstInOrder
  <2>5. s[k] \in 1 .. Len(rules) /\ s[k] # n + 1
    BY <1>1, <2>4
  <2>. QED  BY <2>3, <2>5, BeforeOrders
<1>6. \A k \in p .. n : Before(rules, n + 1, s[k])
  <2>1. SUFFICES ASSUME NEW k \in p .. n PROVE Before(rules, n + 1, s[k])
    OBVIOUS
  <2>2. k \in 1 .. n /\ p \in 1 .. n /\ p <= k
    BY <1>4
  <2>3. Before(rules, n + 1, s[p])
    BY <1>4, <2>2
  <2>4. s[k] \in 1 .. n /\ s[p] \in 1 .. n
    BY <2>2 DEF FirstInOrder
  <2>5. s[k] \in 1 .. Len(rules) /\ s[p] \in 1 .. Len(rules)
    BY <1>1, <2>4
  <2>6. p # k => Before(rules, s[p], s[k])
    BY <2>2 DEF FirstInOrder
  <2>. QED  BY <2>3, <2>5, <2>6, BeforeOrders
<1> DEFINE t == [k \in 1 .. n + 1 |-> IF k < p THEN s[k] ELSE IF k = p THEN n + 1 ELSE s[k - 1]]
<1>7. /\ \A k \in 1 .. n + 1 : k < p => k \in 1 .. n /\ k \in 1 .. p - 1 /\ t[k] = s[k]
      /\ t[p] = n + 1
      /\ \A k \in 1 .. n + 1 : k > p => k - 1 \in 1 .. n /\ k - 1 \in p .. n /\ t[k] = s[k - 1]
  BY <1>4
<1>8. t \in [1 .. n + 1 -> 1 .. n + 1]
  <2>1. \A k \in 1 .. n : s[k] \in 1 .. n + 1
    BY DEF FirstInOrder
  <2>2. n + 1 \in 1 .. n + 1
    OBVIOUS
  <2>. QED  BY <1>4, <2>1, <2>2
<1> HIDE DEF B, t
<1>9. ASSUME NEW i \in 1 .. n + 1 PROVE \E k \in 1 .. n + 1 : t[k] = i
  <2>1. CASE i = n + 1
    BY <1>4, <1>7, <2>1
  <2>2. CASE i # n + 1
    <3>1. i \in 1 .. n
      BY <2>2
    <3>2. PICK k \in 1 .. n : s[k] = i
      BY <3>1 DEF FirstInOrder
    <3>3. k < p => k \in 1 .. n + 1 /\ t[k] = i
      BY <1>7, <3>2
    <3>4. k >= p => k + 1 \in 1 .. n + 1 /\ k + 1 > p /\ (k + 1) - 1 = k
      BY <1>4, <3>2
    <3>5. k >= p => t[k + 1] = i
      BY <1>7, <3>2, <3>4
    <3>. QED  BY <1>4, <3>3, <3>4, <3>5
  <2>. QED  BY <2>1, <2>2
<1>10. ASSUME NEW k \in 1 .. n + 1, NEW l \in 1 .. n + 1, k < l
       PROVE  Before(rules, t[k], t[l])
  <2>1. \A i, j \in 1 .. n : i < j => Before(rules, s[i], s[j])
    BY DEF FirstInOrder
  <2>2. CASE l < p
    <3>1. k < p
      BY <1>4, <1>10, <2>2
    <3>. QED  BY <1>7, <1>10, <2>1, <2>2, <3>1
  <2>3. CASE l = p
    BY <1>5, <1>7, <1>10, <2>3
  <2>4. CASE l > p /\ k < p
    <3>1. k < l - 1
      BY <1>4, <1>10, <2>4
    <3>. QED  BY <1>7, <2>1, <2>4, <3>1
  <2>5. CASE l > p /\ k = p
    BY <1>6, <1>7, <2>5
  <2>6. CASE l > p /\ k > p
    <3>1. k - 1 < l - 1
      BY <1>4, <1>10, <2>6
    <3>. QED  BY <1>7, <2>1, <2>6, <3>1
  <2>. QED  BY <1>4, <2>2, <2>3, <2>4, <2>5, <2>6
<1>. QED  BY <1>8, <1>9, <1>10 DEF FirstInOrder

\* Any list of rules can be put in order, and Sorted is it in order.
LEMMA SortedInOrder ==
  ASSUME NEW rules \in Seq(Rule)
  PROVE  /\ Sorted(rules) \in [1 .. Len(rules) -> 1 .. Len(rules)]
         /\ \A i \in 1 .. Len(rules) : \E k \in 1 .. Len(rules) : Sorted(rules)[k] = i
         /\ \A k, l \in 1 .. Len(rules) : k < l => Before(rules, Sorted(rules)[k], Sorted(rules)[l])
<1> DEFINE B == {n \in 0 .. Len(rules) : ~ \E s : FirstInOrder(rules, n, s)}
<1>1. Len(rules) \in Nat /\ DOMAIN rules = 1 .. Len(rules)
  BY LenProperties
<1>2. ASSUME B # {} PROVE FALSE
  <2>1. B \in SUBSET Nat
    BY <1>1
  <2>2. PICK n \in B : \A b \in B : n <= b
    BY <1>2, <2>1, LeastNatural
  <2>3. n \in 0 .. Len(rules) /\ n \in Nat /\ ~ \E s : FirstInOrder(rules, n, s)
    BY <1>1
  <2>4. CASE n = 0
    <3> DEFINE e == [k \in 1 .. n |-> k]
    <3>1. 1 .. n = {}
      BY <2>4
    <3>2. FirstInOrder(rules, n, e)
      BY <3>1 DEF FirstInOrder
    <3>. QED  BY <2>3, <3>2
  <2>5. CASE n # 0
    <3>1. /\ n - 1 \in Nat /\ n - 1 \in 0 .. Len(rules) /\ ~ (n <= n - 1) /\ (n - 1) + 1 = n
          /\ (n - 1) + 1 \in 1 .. Len(rules)
      BY <1>1, <2>3, <2>5
    <3>2. n - 1 \notin B
      BY <2>2, <3>1
    <3>3. PICK s : FirstInOrder(rules, n - 1, s)
      BY <3>1, <3>2
    <3>4. \E t : FirstInOrder(rules, (n - 1) + 1, t)
      BY <3>1, <3>3, RuleInserted
    <3>. QED  BY <2>3, <3>1, <3>4
  <2>. QED  BY <2>4, <2>5
<1>3. Len(rules) \notin B
  BY <1>2
<1>4. PICK s : FirstInOrder(rules, Len(rules), s)
  BY <1>1, <1>3
<1>5. s \in [DOMAIN rules -> DOMAIN rules] /\ InOrder(rules, s)
  BY <1>1, <1>4 DEF FirstInOrder, InOrder
<1>6. Sorted(rules) \in [DOMAIN rules -> DOMAIN rules] /\ InOrder(rules, Sorted(rules))
  BY <1>5 DEF Sorted
<1>. QED  BY <1>1, <1>6 DEF InOrder

\* The number of the matching rule that goes before all others.
LEMMA FirstDecides ==
  ASSUME NEW rules \in Seq(Rule), NEW records
  PROVE  /\ Deciding(rules, records) = 0 <=> \A j \in 1 .. Len(rules) : ~ Matches(rules[j], records)
         /\ Deciding(rules, records) # 0 =>
              /\ Deciding(rules, records) \in 1 .. Len(rules)
              /\ Matches(rules[Deciding(rules, records)], records)
              /\ \A j \in 1 .. Len(rules) : Matches(rules[j], records) /\ j # Deciding(rules, records)
                   => Before(rules, Deciding(rules, records), j)
<1> DEFINE s == Sorted(rules)
           fitting == {k \in 1 .. Len(rules) : Matches(rules[s[k]], records)}
<1>1. Len(rules) \in Nat /\ DOMAIN rules = 1 .. Len(rules)
  BY LenProperties
<1>2. /\ s \in [1 .. Len(rules) -> 1 .. Len(rules)]
      /\ \A i \in 1 .. Len(rules) : \E k \in 1 .. Len(rules) : s[k] = i
      /\ \A k, l \in 1 .. Len(rules) : k < l => Before(rules, s[k], s[l])
  BY SortedInOrder
<1>3. Deciding(rules, records) = IF fitting = {} THEN 0 ELSE s[Min(fitting)]
  BY <1>1 DEF Deciding
<1>4. fitting \in SUBSET Nat
  BY <1>1
<1> HIDE DEF s
<1>5. CASE fitting = {}
  <2>1. ASSUME NEW j \in 1 .. Len(rules) PROVE ~ Matches(rules[j], records)
    <3>1. PICK k \in 1 .. Len(rules) : s[k] = j
      BY <1>2
    <3>. QED  BY <1>5, <3>1
  <2>. QED  BY <1>3, <1>5, <2>1
<1>6. CASE fitting # {}
  <2>1. PICK m \in fitting : m = Min(fitting) /\ \A k \in fitting : m <= k
    BY <1>4, <1>6, MinIsLeast
  <2>2. m \in 1 .. Len(rules) /\ Matches(rules[s[m]], records)
    OBVIOUS
  <2>3. s[m] \in 1 .. Len(rules) /\ s[m] # 0
    BY <1>2, <2>2
  <2>4. Deciding(rules, records) = s[m]
    BY <1>3, <1>6, <2>1
  <2>5. ASSUME NEW j \in 1 .. Len(rules), Matches(rules[j], records), j # s[m]
        PROVE  Before(rules, s[m], j)
    <3>1. PICK k \in 1 .. Len(rules) : s[k] = j
      BY <1>2
    <3>2. k \in fitting
      BY <2>5, <3>1
    <3>3. m < k
      BY <1>1, <2>1, <2>2, <2>5, <3>1, <3>2
    <3>. QED  BY <1>2, <2>2, <3>1, <3>3
  <2>. QED  BY <2>2, <2>3, <2>4, <2>5
<1>. QED  BY <1>5, <1>6

\* A dictionary written to at keys ks, with values vs, N times in turn.
WriteStep(K, ks, vs, f, n) ==
  IF n = 0 THEN [k \in K |-> {}] ELSE [f[n - 1] EXCEPT ![ks[n]] = vs[n]]
IsWriting(K, ks, vs, N, f) == f = [n \in 0 .. N |-> WriteStep(K, ks, vs, f, n)]

LEMMA WritingExists ==
  ASSUME NEW K, NEW ks, NEW vs, NEW N \in Nat
  PROVE  \E f : IsWriting(K, ks, vs, N, f)
<1> DEFINE B == {n \in Nat : ~ \E f : IsWriting(K, ks, vs, n, f)}
<1> SUFFICES ASSUME B # {} PROVE FALSE
  OBVIOUS
<1>1. PICK n \in B : \A b \in B : n <= b
  BY LeastNatural
<1>2. n \in Nat /\ ~ \E f : IsWriting(K, ks, vs, n, f)
  OBVIOUS
<1>3. CASE n = 0
  <2> DEFINE g == [i \in 0 .. 0 |-> [k \in K |-> {}]]
  <2>1. g = [i \in 0 .. 0 |-> WriteStep(K, ks, vs, g, i)]
    BY DEF WriteStep
  <2>. QED  BY <1>2, <1>3, <2>1 DEF IsWriting
<1>4. CASE n # 0
  <2>1. n - 1 \in Nat /\ ~ (n <= n - 1)
    BY <1>2, <1>4
  <2>2. n - 1 \notin B
    BY <1>1, <2>1
  <2>3. PICK f : IsWriting(K, ks, vs, n - 1, f)
    BY <2>1, <2>2
  <2> DEFINE g == [i \in 0 .. n |-> IF i = n THEN WriteStep(K, ks, vs, f, n) ELSE f[i]]
  <2>4. \A i \in 0 .. n - 1 : f[i] = WriteStep(K, ks, vs, f, i)
    BY <2>3 DEF IsWriting
  <2>5. \A i \in 0 .. n - 1 : g[i] = f[i]
    BY <1>2
  <2>6. \A i \in 0 .. n : i # 0 => g[i - 1] = f[i - 1]
    BY <1>2, <2>5
  <2> HIDE DEF g
  <2>7. ASSUME NEW i \in 0 .. n
        PROVE  WriteStep(K, ks, vs, g, i) = WriteStep(K, ks, vs, f, i)
    <3>1. CASE i = 0
      BY <3>1 DEF WriteStep
    <3>2. CASE i # 0
      <4>1. g[i - 1] = f[i - 1]
        BY <2>6, <3>2
      <4>. QED  BY <3>2, <4>1, Zenon DEF WriteStep
    <3>. QED  BY <3>1, <3>2
  <2>8. \A i \in 0 .. n : g[i] = WriteStep(K, ks, vs, f, i)
    BY <1>2, <2>4 DEF g
  <2>9. \A i \in 0 .. n : g[i] = WriteStep(K, ks, vs, g, i)
    BY <2>7, <2>8
  <2>10. g = [i \in 0 .. n |-> g[i]]
    BY DEF g
  <2>11. IsWriting(K, ks, vs, n, g)
    BY <2>9, <2>10 DEF IsWriting
  <2>. QED  BY <1>2, <2>11
<1>. QED  BY <1>3, <1>4

\* Under each key it holds the last value written there, or nothing.
LastWritten(ks, vs, n, k, v) ==
  \/ v = {} /\ \A i \in 1 .. n : ks[i] # k
  \/ \E i \in 1 .. n : ks[i] = k /\ v = vs[i] /\ \A j \in i + 1 .. n : ks[j] # k

LEMMA WritingKeepsLast ==
  ASSUME NEW K, NEW ks, NEW vs, NEW N \in Nat, \A i \in 1 .. N : ks[i] \in K,
         NEW f, IsWriting(K, ks, vs, N, f), NEW k \in K
  PROVE  LastWritten(ks, vs, N, k, f[N][k])
<1> DEFINE B == {n \in 0 .. N : ~ (DOMAIN f[n] = K /\ LastWritten(ks, vs, n, k, f[n][k]))}
<1>1. ASSUME B # {} PROVE FALSE
  <2>1. B \in SUBSET Nat
    OBVIOUS
  <2>2. PICK n \in B : \A b \in B : n <= b
    BY <1>1, <2>1, LeastNatural
  <2>3. /\ n \in 0 .. N /\ n \in Nat
        /\ ~ (DOMAIN f[n] = K /\ LastWritten(ks, vs, n, k, f[n][k]))
    OBVIOUS
  <2>4. f[n] = WriteStep(K, ks, vs, f, n)
    BY <2>3 DEF IsWriting
  <2>5. CASE n = 0
    <3>1. f[n] = [x \in K |-> {}]
      BY <2>4, <2>5 DEF WriteStep
    <3>2. 1 .. n = {}
      BY <2>5
    <3>3. LastWritten(ks, vs, n, k, f[n][k])
      BY <3>1, <3>2 DEF LastWritten
    <3>. QED  BY <2>3, <3>1, <3>3
  <2>6. CASE n # 0
    <3>1. n - 1 \in 0 .. N /\ ~ (n <= n - 1) /\ n \in 1 .. N
      BY <2>3, <2>6
    <3>2. n - 1 \notin B
      BY <2>2, <3>1
    <3>3. DOMAIN f[n - 1] = K /\ LastWritten(ks, vs, n - 1, k, f[n - 1][k])
      BY <3>1, <3>2
    <3>4. f[n] = [f[n - 1] EXCEPT ![ks[n]] = vs[n]]
      BY <2>4, <2>6 DEF WriteStep
    <3>5. DOMAIN f[n] = K /\ f[n][k] = IF ks[n] = k THEN vs[n] ELSE f[n - 1][k]
      BY <3>3, <3>4
    <3>6. CASE ks[n] = k
      <4>1. n \in 1 .. n /\ n + 1 .. n = {}
        BY <2>3, <2>6
      <4>2. LastWritten(ks, vs, n, k, f[n][k])
        BY <3>5, <3>6, <4>1 DEF LastWritten
      <4>. QED  BY <2>3, <3>5, <4>2
    <3>7. CASE ks[n] # k
      <4>1. f[n][k] = f[n - 1][k]
        BY <3>5, <3>7
      <4>2. \A i \in 1 .. n : i = n \/ i \in 1 .. n - 1
        BY <2>3
      <4>3. CASE f[n - 1][k] = {} /\ \A i \in 1 .. n - 1 : ks[i] # k
        <5>1. LastWritten(ks, vs, n, k, f[n][k])
          BY <3>7, <4>1, <4>2, <4>3 DEF LastWritten
        <5>. QED  BY <2>3, <3>5, <5>1
      <4>4. CASE \E i \in 1 .. n - 1 : /\ ks[i] = k /\ f[n - 1][k] = vs[i]
                                       /\ \A j \in i + 1 .. n - 1 : ks[j] # k
        <5>1. PICK i \in 1 .. n - 1 : /\ ks[i] = k /\ f[n - 1][k] = vs[i]
                                      /\ \A j \in i + 1 .. n - 1 : ks[j] # k
          BY <4>4
        <5>2. i \in 1 .. n /\ \A j \in i + 1 .. n : j = n \/ j \in i + 1 .. n - 1
          BY <2>3
        <5>3. \A j \in i + 1 .. n : ks[j] # k
          BY <3>7, <5>1, <5>2
        <5>4. LastWritten(ks, vs, n, k, f[n][k])
          BY <4>1, <5>1, <5>2, <5>3 DEF LastWritten
        <5>. QED  BY <2>3, <3>5, <5>4
      <4>. QED  BY <3>3, <4>3, <4>4 DEF LastWritten
    <3>. QED  BY <3>6, <3>7
  <2>. QED  BY <2>5, <2>6
<1>2. N \in 0 .. N /\ N \notin B
  BY <1>1
<1>. QED  BY <1>2

\* What an actor holds in a tenant: the roles of the last grant to it there.
GrantKeys(actors) == [n \in 1 .. Len(actors) |-> <<actors[n].actor, actors[n].tenant>>]
GrantRoles(actors) == [n \in 1 .. Len(actors) |-> actors[n].roles]

LEMMA GrantsLast ==
  ASSUME NEW actors \in Seq([actor : Actor, tenant : Tenant, roles : SUBSET STRING]),
         NEW a \in Actor, NEW t \in Tenant
  PROVE  LastWritten(GrantKeys(actors), GrantRoles(actors), Len(actors), <<a, t>>,
                     Grants(actors)[<<a, t>>])
<1> DEFINE N == Len(actors)
           K == Actor \X Tenant
           ks == GrantKeys(actors)
           vs == GrantRoles(actors)
           Step(f, n) == IF n = 0 THEN [at \in Actor \X Tenant |-> {}]
                         ELSE [f[n - 1] EXCEPT ![<<actors[n].actor, actors[n].tenant>>] = actors[n].roles]
           held == CHOOSE f : f = [n \in 0 .. Len(actors) |-> Step(f, n)]
<1>1. N \in Nat /\ \A n \in 1 .. N : actors[n] \in [actor : Actor, tenant : Tenant, roles : SUBSET STRING]
  BY LenProperties, ElementOfSeq
<1>2. \A n \in 1 .. N : ks[n] = <<actors[n].actor, actors[n].tenant>> /\ vs[n] = actors[n].roles
  BY DEF GrantKeys, GrantRoles
<1>3. ASSUME NEW n \in 1 .. N PROVE ks[n] \in K
  <2>1. actors[n].actor \in Actor /\ actors[n].tenant \in Tenant
    BY <1>1
  <2>2. <<actors[n].actor, actors[n].tenant>> \in K
    BY <2>1
  <2>3. ks[n] = <<actors[n].actor, actors[n].tenant>>
    BY <1>2
  <2> HIDE DEF K, ks
  <2>. QED  BY <2>2, <2>3
<1>4. \A f : \A n \in 0 .. N : Step(f, n) = WriteStep(K, ks, vs, f, n)
  <2> SUFFICES ASSUME NEW f, NEW n \in 0 .. N PROVE Step(f, n) = WriteStep(K, ks, vs, f, n)
    OBVIOUS
  <2>1. CASE n = 0
    BY <2>1 DEF WriteStep
  <2>2. CASE n # 0
    <3>1. ks[n] = <<actors[n].actor, actors[n].tenant>> /\ vs[n] = actors[n].roles
      BY <1>1, <1>2, <2>2
    <3>. QED  BY <2>2, <3>1, Zenon DEF WriteStep
  <2>. QED  BY <2>1, <2>2
<1>5. Grants(actors) = held[N]
  BY DEF Grants
<1> HIDE DEF Step, ks, vs, K
<1>6. \A f : [n \in 0 .. N |-> Step(f, n)] = [n \in 0 .. N |-> WriteStep(K, ks, vs, f, n)]
  BY <1>4
<1>7. PICK g : IsWriting(K, ks, vs, N, g)
  BY <1>1, WritingExists
<1>8. g = [n \in 0 .. Len(actors) |-> Step(g, n)]
  BY <1>6, <1>7 DEF IsWriting
<1>9. held = [n \in 0 .. Len(actors) |-> Step(held, n)]
  BY <1>8, Zenon
<1> HIDE DEF held
<1>10. IsWriting(K, ks, vs, N, held)
  BY <1>6, <1>9 DEF IsWriting
<1>11. <<a, t>> \in K
  BY DEF K
<1>12. LastWritten(ks, vs, N, <<a, t>>, held[N][<<a, t>>])
  BY <1>1, <1>3, <1>10, <1>11, WritingKeepsLast
<1>. QED  BY <1>5, <1>12 DEF ks, vs

\* What an action needs: the roles of the last entry for it.
EntryKeys(entries) == [n \in 1 .. Len(entries) |-> entries[n].action]
EntryRoles(entries) == [n \in 1 .. Len(entries) |-> entries[n].roles]

LEMMA PermissionsLast ==
  ASSUME NEW entries \in Seq([action : Action, roles : SUBSET STRING]), NEW a \in Action
  PROVE  LastWritten(EntryKeys(entries), EntryRoles(entries), Len(entries), a, Permissions(entries)[a])
<1> DEFINE N == Len(entries)
           ks == EntryKeys(entries)
           vs == EntryRoles(entries)
           Step(f, n) == IF n = 0 THEN [x \in Action |-> {}]
                         ELSE [f[n - 1] EXCEPT ![entries[n].action] = entries[n].roles]
           perms == CHOOSE f : f = [n \in 0 .. Len(entries) |-> Step(f, n)]
<1>1. N \in Nat /\ \A n \in 1 .. N : entries[n] \in [action : Action, roles : SUBSET STRING]
  BY LenProperties, ElementOfSeq
<1>2. \A n \in 1 .. N : ks[n] = entries[n].action /\ vs[n] = entries[n].roles
  BY DEF EntryKeys, EntryRoles
<1>3. \A n \in 1 .. N : ks[n] \in Action
  BY <1>1, <1>2
<1>4. \A f : \A n \in 0 .. N : Step(f, n) = WriteStep(Action, ks, vs, f, n)
  <2> SUFFICES ASSUME NEW f, NEW n \in 0 .. N PROVE Step(f, n) = WriteStep(Action, ks, vs, f, n)
    OBVIOUS
  <2>1. CASE n = 0
    BY <2>1 DEF WriteStep
  <2>2. CASE n # 0
    <3>1. ks[n] = entries[n].action /\ vs[n] = entries[n].roles
      BY <1>1, <1>2, <2>2
    <3>. QED  BY <2>2, <3>1, Zenon DEF WriteStep
  <2>. QED  BY <2>1, <2>2
<1>5. Permissions(entries) = perms[N]
  BY DEF Permissions
<1> HIDE DEF Step, ks, vs
<1>6. \A f : [n \in 0 .. N |-> Step(f, n)] = [n \in 0 .. N |-> WriteStep(Action, ks, vs, f, n)]
  BY <1>4
<1>7. PICK g : IsWriting(Action, ks, vs, N, g)
  BY <1>1, WritingExists
<1>8. g = [n \in 0 .. Len(entries) |-> Step(g, n)]
  BY <1>6, <1>7 DEF IsWriting
<1>9. perms = [n \in 0 .. Len(entries) |-> Step(perms, n)]
  BY <1>8, Zenon
<1> HIDE DEF perms
<1>10. IsWriting(Action, ks, vs, N, perms)
  BY <1>6, <1>9 DEF IsWriting
<1>11. LastWritten(ks, vs, N, a, perms[N][a])
  BY <1>1, <1>3, <1>10, WritingKeepsLast
<1>. QED  BY <1>5, <1>11 DEF ks, vs

\* The answer of a policy query, of an access query.
LEMMA DecideIs ==
  ASSUME NEW q
  PROVE  /\ q.tool = "policy" => Decide(q) = Evaluate(q.rules, q.records)
         /\ q.tool # "policy" => Decide(q) = IF Check(q) THEN 1 ELSE 0
BY DEF Decide

\* AnswersRight of one answer.
Stopped(q, i) == \E k \in DOMAIN q.records : q.records[k] \in q.rules[i].fits \/ q.records[k] \in q.rules[i].raises
FirstOf(q, i) ==
  /\ i \in DOMAIN q.rules /\ Stopped(q, i)
  /\ \A j \in DOMAIN q.rules : Stopped(q, j) /\ j # i =>
       \/ q.rules[j].priority < q.rules[i].priority
       \/ (q.rules[j].priority = q.rules[i].priority /\ i < j)
FitsFirst(q, i) ==
  \E k \in DOMAIN q.records : q.records[k] \in q.rules[i].fits /\ \A l \in 1 .. k : ~ (q.records[l] \in q.rules[i].raises)
PolicyRight(q, v) ==
  \/ v = 0 /\ \A j \in DOMAIN q.rules : ~Stopped(q, j)
  \/ FirstOf(q, v) /\ FitsFirst(q, v)
  \/ v = Raised /\ \E i \in DOMAIN q.rules : FirstOf(q, i) /\ ~FitsFirst(q, i)
AccessRight(q, v) ==
  v = 1 <=>
    \E i \in DOMAIN q.actors, e \in DOMAIN q.entries :
      /\ q.actors[i].actor = q.actor /\ q.actors[i].tenant = q.tenant
      /\ \A j \in i + 1 .. Len(q.actors) : q.actors[j].actor # q.actor \/ q.actors[j].tenant # q.tenant
      /\ q.entries[e].action = q.action
      /\ \A j \in e + 1 .. Len(q.entries) : q.entries[j].action # q.action
      /\ q.actors[i].roles \cap q.entries[e].roles # {}

\* A rule some record fits or raises: it raises if no record fits before one that does.
LEMMA RaisesOrFits ==
  ASSUME NEW q, q.records \in Seq(Content), NEW i, Stopped(q, i)
  PROVE  Raises(q.rules[i], q.records) <=> ~FitsFirst(q, i)
<1> DEFINE r == q.records
           S == Stops(q.rules[i], r)
<1>1. Len(r) \in Nat /\ DOMAIN r = 1 .. Len(r)
  BY LenProperties
<1>2. \A k : k \in S <=> k \in 1 .. Len(r) /\ (r[k] \in q.rules[i].fits \/ r[k] \in q.rules[i].raises)
  BY <1>1 DEF Stops
<1>3. S \in SUBSET Nat /\ S # {}
  BY <1>1, <1>2 DEF Stopped
<1>4. PICK m \in S : m = Min(S) /\ \A k \in S : m <= k
  BY <1>3, MinIsLeast
<1>5. Raises(q.rules[i], r) <=> r[m] \in q.rules[i].raises
  BY <1>4 DEF Raises
<1> HIDE DEF S
<1>6. CASE r[m] \in q.rules[i].raises
  <2>1. ASSUME NEW k \in 1 .. Len(r), r[k] \in q.rules[i].fits PROVE m \in 1 .. k
    <3>1. k \in S
      BY <1>2, <2>1
    <3>2. m <= k /\ m \in 1 .. Len(r)
      BY <1>2, <1>4, <3>1
    <3>. QED  BY <1>1, <3>2
  <2>2. ~FitsFirst(q, i)
    BY <1>1, <1>6, <2>1 DEF FitsFirst
  <2>. QED  BY <1>5, <1>6, <2>2
<1>7. CASE ~ (r[m] \in q.rules[i].raises)
  <2>1. m \in 1 .. Len(r) /\ r[m] \in q.rules[i].fits
    BY <1>2, <1>4, <1>7
  <2>2. ASSUME NEW l \in 1 .. m PROVE ~ (r[l] \in q.rules[i].raises)
    <3>1. CASE l = m
      BY <1>7, <3>1
    <3>2. CASE l # m
      <4>1. l \in 1 .. Len(r) /\ ~ (m <= l)
        BY <1>1, <2>1, <3>2
      <4>2. l \notin S
        BY <1>4, <4>1
      <4>. QED  BY <1>2, <4>1, <4>2
    <3>. QED  BY <3>1, <3>2
  <2>3. FitsFirst(q, i)
    BY <1>1, <2>1, <2>2 DEF FitsFirst
  <2>. QED  BY <1>5, <1>7, <2>3
<1>. QED  BY <1>6, <1>7

LEMMA PolicyDecides ==
  ASSUME NEW q, q.rules \in Seq(Rule), q.records \in Seq(Content)
  PROVE  PolicyRight(q, Evaluate(q.rules, q.records))
<1> DEFINE i == Deciding(q.rules, q.records)
           v == Evaluate(q.rules, q.records)
           n == Len(q.rules)
<1>1. n \in Nat /\ DOMAIN q.rules = 1 .. n
  BY LenProperties
<1>2. \A k \in 1 .. n : q.rules[k].priority \in Int
  <2>1. ASSUME NEW k \in 1 .. n PROVE q.rules[k].priority \in Int
    <3>1. q.rules[k] \in Rule
      BY ElementOfSeq
    <3>. QED  BY <3>1 DEF Rule
  <2>. QED  BY <2>1
<1>3. \A k : Matches(q.rules[k], q.records) <=> Stopped(q, k)
  BY DEF Matches, Stops, Stopped
<1>4. /\ i = 0 <=> \A j \in 1 .. n : ~ Matches(q.rules[j], q.records)
      /\ i # 0 => /\ i \in 1 .. n /\ Matches(q.rules[i], q.records)
                  /\ \A j \in 1 .. n : Matches(q.rules[j], q.records) /\ j # i => Before(q.rules, i, j)
  BY FirstDecides
<1>5. v = IF i # 0 /\ Raises(q.rules[i], q.records) THEN Raised ELSE i
  BY DEF Evaluate
<1> HIDE DEF i, v, n
<1>6. CASE i = 0
  <2>1. v = 0 /\ \A j \in DOMAIN q.rules : ~Stopped(q, j)
    BY <1>1, <1>3, <1>4, <1>5, <1>6
  <2>. QED  BY <2>1 DEF PolicyRight, v
<1>7. CASE i # 0
  <2>1. ASSUME NEW j \in 1 .. n, Stopped(q, j), j # i
        PROVE  \/ q.rules[j].priority < q.rules[i].priority
               \/ (q.rules[j].priority = q.rules[i].priority /\ i < j)
    <3>1. Before(q.rules, i, j) /\ i \in 1 .. n
      BY <1>3, <1>4, <1>7, <2>1
    <3>2. q.rules[i].priority \in Int /\ q.rules[j].priority \in Int
      BY <1>2, <3>1
    <3>. QED  BY <3>1, <3>2 DEF Before
  <2>2. i \in DOMAIN q.rules /\ Stopped(q, i)
    BY <1>1, <1>3, <1>4, <1>7
  <2>3. FirstOf(q, i)
    BY <1>1, <2>1, <2>2 DEF FirstOf
  <2>4. Raises(q.rules[i], q.records) <=> ~FitsFirst(q, i)
    BY <2>2, RaisesOrFits
  <2>5. CASE Raises(q.rules[i], q.records)
    <3>1. v = Raised
      BY <1>5, <1>7, <2>5
    <3>. QED  BY <2>2, <2>3, <2>4, <2>5, <3>1 DEF PolicyRight, v
  <2>6. CASE ~Raises(q.rules[i], q.records)
    <3>1. v = i
      BY <1>5, <2>6
    <3>. QED  BY <2>3, <2>4, <2>6, <3>1 DEF PolicyRight, v
  <2>. QED  BY <2>5, <2>6
<1>. QED  BY <1>6, <1>7

\* The value last written under a key is the only one.
LEMMA LastIsOne ==
  ASSUME NEW ks, NEW vs, NEW N \in Nat, NEW k, NEW v, LastWritten(ks, vs, N, k, v),
         NEW i \in 1 .. N, ks[i] = k, \A j \in i + 1 .. N : ks[j] # k
  PROVE  v = vs[i]
<1>1. PICK e \in 1 .. N : ks[e] = k /\ v = vs[e] /\ \A j \in e + 1 .. N : ks[j] # k
  BY DEF LastWritten
<1>2. ~ (e < i) /\ ~ (i < e)
  <2>1. e < i => i \in e + 1 .. N
    OBVIOUS
  <2>2. i < e => e \in i + 1 .. N
    OBVIOUS
  <2>. QED  BY <1>1, <2>1, <2>2
<1>3. e = i
  BY <1>2
<1>. QED  BY <1>1, <1>3

LEMMA AccessDecides ==
  ASSUME NEW q, q.actor \in Actor, q.tenant \in Tenant, q.action \in Action,
         q.actors \in Seq([actor : Actor, tenant : Tenant, roles : SUBSET STRING]),
         q.entries \in Seq([action : Action, roles : SUBSET STRING])
  PROVE  AccessRight(q, IF Check(q) THEN 1 ELSE 0)
<1> DEFINE at == <<q.actor, q.tenant>>
           ks == GrantKeys(q.actors)
           vs == GrantRoles(q.actors)
           N == Len(q.actors)
           es == EntryKeys(q.entries)
           rs == EntryRoles(q.entries)
           M == Len(q.entries)
           g == Grants(q.actors)[at]
           h == Permissions(q.entries)[q.action]
<1>1. N \in Nat /\ DOMAIN q.actors = 1 .. N /\ M \in Nat /\ DOMAIN q.entries = 1 .. M
  BY LenProperties
<1>2. LastWritten(ks, vs, N, at, g)
  BY GrantsLast
<1>3. LastWritten(es, rs, M, q.action, h)
  BY PermissionsLast
<1>4. Check(q) <=> g \cap h # {}
  BY DEF Check
<1>5. \A n \in 1 .. N : ks[n] = <<q.actors[n].actor, q.actors[n].tenant>> /\ vs[n] = q.actors[n].roles
  BY DEF GrantKeys, GrantRoles
<1>6. \A n \in 1 .. M : es[n] = q.entries[n].action /\ rs[n] = q.entries[n].roles
  BY DEF EntryKeys, EntryRoles
<1> HIDE DEF ks, vs, es, rs, g, h
<1>7. \A n \in 1 .. N : ks[n] = at <=> q.actors[n].actor = q.actor /\ q.actors[n].tenant = q.tenant
  BY <1>5
<1> HIDE DEF at, N, M
<1>8. ASSUME NEW i \in 1 .. N, ks[i] = at, \A j \in i + 1 .. N : ks[j] # at
      PROVE  g = q.actors[i].roles
  BY <1>1, <1>2, <1>5, <1>8, LastIsOne
<1>9. ASSUME NEW e \in 1 .. M, es[e] = q.action, \A j \in e + 1 .. M : es[j] # q.action
      PROVE  h = q.entries[e].roles
  BY <1>1, <1>3, <1>6, <1>9, LastIsOne
<1> DEFINE Granted(i) == ks[i] = at /\ \A j \in i + 1 .. N : ks[j] # at
           Entered(e) == es[e] = q.action /\ \A j \in e + 1 .. M : es[j] # q.action
<1>10. g \cap h # {} => \E i \in 1 .. N, e \in 1 .. M : Granted(i) /\ Entered(e) /\ vs[i] \cap rs[e] # {}
  <2> SUFFICES ASSUME g \cap h # {}
               PROVE  \E i \in 1 .. N, e \in 1 .. M : Granted(i) /\ Entered(e) /\ vs[i] \cap rs[e] # {}
    OBVIOUS
  <2>1. g # {} /\ h # {}
    OBVIOUS
  <2>2. PICK i \in 1 .. N : ks[i] = at /\ g = vs[i] /\ \A j \in i + 1 .. N : ks[j] # at
    BY <1>2, <2>1 DEF LastWritten
  <2>3. PICK e \in 1 .. M : es[e] = q.action /\ h = rs[e] /\ \A j \in e + 1 .. M : es[j] # q.action
    BY <1>3, <2>1 DEF LastWritten
  <2>. QED  BY <2>2, <2>3
<1>11. ASSUME NEW i \in 1 .. N, NEW e \in 1 .. M, Granted(i), Entered(e)
       PROVE  vs[i] \cap rs[e] = g \cap h
  BY <1>5, <1>6, <1>8, <1>9, <1>11
<1>12. Check(q) <=> \E i \in 1 .. N, e \in 1 .. M : Granted(i) /\ Entered(e) /\ vs[i] \cap rs[e] # {}
  BY <1>4, <1>10, <1>11
<1>13. ASSUME NEW i \in 1 .. N
       PROVE  Granted(i) <=> /\ q.actors[i].actor = q.actor /\ q.actors[i].tenant = q.tenant
                             /\ \A j \in i + 1 .. N : q.actors[j].actor # q.actor \/ q.actors[j].tenant # q.tenant
  <2>1. \A j \in i + 1 .. N : j \in 1 .. N
    BY <1>1
  <2>. QED  BY <1>7, <2>1
<1>14. ASSUME NEW e \in 1 .. M
       PROVE  Entered(e) <=> /\ q.entries[e].action = q.action
                             /\ \A j \in e + 1 .. M : q.entries[j].action # q.action
  <2>1. \A j \in e + 1 .. M : j \in 1 .. M
    BY <1>1
  <2>. QED  BY <1>6, <2>1
<1> HIDE DEF Granted, Entered
<1>15. \A i \in 1 .. N, e \in 1 .. M : vs[i] = q.actors[i].roles /\ rs[e] = q.entries[e].roles
  BY <1>5, <1>6
<1>16. Check(q) <=>
         \E i \in 1 .. N, e \in 1 .. M :
           /\ q.actors[i].actor = q.actor /\ q.actors[i].tenant = q.tenant
           /\ \A j \in i + 1 .. N : q.actors[j].actor # q.actor \/ q.actors[j].tenant # q.tenant
           /\ q.entries[e].action = q.action
           /\ \A j \in e + 1 .. M : q.entries[j].action # q.action
           /\ q.actors[i].roles \cap q.entries[e].roles # {}
  BY <1>12, <1>13, <1>14, <1>15
<1>17. (IF Check(q) THEN 1 ELSE 0) = 1 <=> Check(q)
  OBVIOUS
<1>18. DOMAIN q.actors = 1 .. Len(q.actors) /\ DOMAIN q.entries = 1 .. Len(q.entries)
  BY <1>1 DEF N, M
<1>19. Check(q) <=>
         \E i \in DOMAIN q.actors, e \in DOMAIN q.entries :
           /\ q.actors[i].actor = q.actor /\ q.actors[i].tenant = q.tenant
           /\ \A j \in i + 1 .. Len(q.actors) : q.actors[j].actor # q.actor \/ q.actors[j].tenant # q.tenant
           /\ q.entries[e].action = q.action
           /\ \A j \in e + 1 .. Len(q.entries) : q.entries[j].action # q.action
           /\ q.actors[i].roles \cap q.entries[e].roles # {}
  BY <1>16, <1>18, Zenon DEF N, M
<1>. QED  BY <1>17, <1>19, Zenon DEF AccessRight

\* The last answer, if there is one, is what Decide says of its query.
Answered == answer = NoAnswer \/ \E q \in Query : answer = [query |-> q, value |-> Decide(q)]

LEMMA AnsweredStep == ASSUME Answered, [Next]_vars PROVE Answered'
<1>1. ASSUME answer' = answer PROVE Answered'
  BY <1>1 DEF Answered
<1>2. ASSUME answer' = NoAnswer PROVE Answered'
  BY <1>2 DEF Answered, NoAnswer
<1>3. ASSUME Ask PROVE Answered'
  BY <1>3 DEF Ask, Answered
<1>4. ASSUME NEW p \in Server, Handoff(p) \/ Restart(p) \/ Tamper(p) PROVE Answered'
  BY <1>2, <1>4 DEF Handoff, Restart, Tamper
<1>5. ASSUME NEW p \in Process, Other(p) PROVE Answered'
  BY <1>2, <1>5 DEF Other
<1>6. ASSUME NEW p \in Process, Read(p) \/ Write(p) \/ FailOpen(p) PROVE Answered'
  BY <1>1, <1>6 DEF Read, Write, FailOpen
<1>7. CASE Mutate
  BY <1>2, <1>7 DEF Mutate
<1>8. CASE UNCHANGED vars
  BY <1>1, <1>8 DEF vars
<1>. QED  BY <1>3, <1>4, <1>5, <1>6, <1>7, <1>8 DEF Next

\* Whatever the rules and records, the grants and permissions a server is asked
\* about: evaluate and AccessControl.check decide as AnswersRight says.
THEOREM DecisionsAreRight == Spec => []AnswersRight
<1>1. Answered => AnswersRight
  <2> SUFFICES ASSUME NEW q \in Query, answer = [query |-> q, value |-> Decide(q)]
               PROVE  AnswersRight
    BY DEF Answered, AnswersRight, NoAnswer
  <2>1. answer.query = q /\ answer.value = Decide(q)
    OBVIOUS
  <2>2. CASE q.tool = "policy"
    <3>1. q.rules \in Seq(Rule) /\ q.records \in Seq(Content)
      BY <2>2, QueriesAreTyped
    <3>2. PolicyRight(q, Decide(q))
      BY <2>2, <3>1, DecideIs, PolicyDecides
    <3>. QED  BY <2>1, <2>2, <3>2 DEF AnswersRight, PolicyRight, FirstOf, FitsFirst, Stopped
  <2>3. CASE q.tool # "policy"
    <3>1. /\ q.actor \in Actor /\ q.tenant \in Tenant /\ q.action \in Action
          /\ q.actors \in Seq([actor : Actor, tenant : Tenant, roles : SUBSET STRING])
          /\ q.entries \in Seq([action : Action, roles : SUBSET STRING])
      BY <2>3, QueriesAreTyped
    <3>2. AccessRight(q, Decide(q))
      BY <2>3, <3>1, DecideIs, AccessDecides
    <3>. QED  BY <2>1, <2>3, <3>2 DEF AnswersRight, AccessRight
  <2>. QED  BY <2>2, <2>3
<1>2. Init => Answered
  BY DEF Init, Answered
<1>. QED  BY <1>1, <1>2, AnsweredStep, PTL DEF Spec

=============================================================================
