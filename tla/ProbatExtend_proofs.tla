------------------------ MODULE ProbatExtend_proofs ------------------------
(***************************************************************************)
(* Theorems about ProbatExtend, for any set of commits and any number of   *)
(* attempts.                                                               *)
(***************************************************************************)
EXTENDS ProbatExtend, SequenceTheorems, WellFoundedInduction, TLAPS

-----------------------------------------------------------------------------
(***************************************************************************)
(* Notarisable, one place at a time.  The recursive function inside it is  *)
(* shown to exist and to be determined; the inductions are arguments about *)
(* a least counterexample.                                                 *)
(***************************************************************************)

\* Every non-empty set of naturals has a least element.
LEMMA LeastNatural ==
  ASSUME NEW S \in SUBSET Nat, S # {}
  PROVE  \E m \in S : \A n \in S : m <= n
<1> DEFINE R == OpToRel(<, Nat)
<1>1. IsWellFoundedOn(R, Nat)
  BY NatLessThanWellFounded
<1>2. R = {p \in Nat \X Nat : p[1] < p[2]}
  BY DEF OpToRel
<1> HIDE DEF R
<1>3. PICK m \in S : \A n \in S : ~ (<<n, m>> \in R)
  BY <1>1, WFMin
<1>4. ASSUME NEW n \in S PROVE m <= n
  <2>1. m \in Nat /\ n \in Nat
    OBVIOUS
  <2>2. <<n, m>> \in R <=> n < m
    BY <1>2, <2>1
  <2>. QED  BY <1>3, <2>1, <2>2
<1>. QED  BY <1>4

\* The body of the function, and what it is to be that function.
UpToStep(m, j, f, i) ==
  IF i < j THEN << >>
  ELSE IF m[i].subject = Bot THEN f[i - 1]
  ELSE Append(f[i - 1], m[i].subject)
IsUpTo(m, j, k, f) == f = [i \in 0 .. k |-> UpToStep(m, j, f, i)]

LEMMA NotarisableIsUpTo ==
  ASSUME NEW m, NEW j, NEW k
  PROVE  Notarisable(m, j, k) = (CHOOSE f : IsUpTo(m, j, k, f))[k]
BY DEF Notarisable, IsUpTo, UpToStep

LEMMA UpToExists ==
  ASSUME NEW m, NEW j \in Nat \ {0}, NEW k \in Nat
  PROVE  \E f : IsUpTo(m, j, k, f)
<1> DEFINE B == {n \in Nat : ~ \E f : IsUpTo(m, j, n, f)}
<1> SUFFICES ASSUME B # {} PROVE FALSE
  OBVIOUS
<1>1. PICK n \in B : \A b \in B : n <= b
  BY LeastNatural
<1>2. n \in Nat /\ ~ \E f : IsUpTo(m, j, n, f)
  OBVIOUS
<1>3. CASE n = 0
  <2> DEFINE g == [i \in 0 .. 0 |-> << >>]
  <2>1. g = [i \in 0 .. 0 |-> UpToStep(m, j, g, i)]
    BY DEF UpToStep
  <2>. QED  BY <1>2, <1>3, <2>1 DEF IsUpTo
<1>4. CASE n # 0
  <2>1. n - 1 \in Nat /\ ~ (n <= n - 1)
    BY <1>2, <1>4
  <2>2. n - 1 \notin B
    BY <1>1, <2>1
  <2>3. PICK f : IsUpTo(m, j, n - 1, f)
    BY <2>1, <2>2
  <2> DEFINE g == [i \in 0 .. n |-> IF i = n THEN UpToStep(m, j, f, n) ELSE f[i]]
  <2>4. \A i \in 0 .. n - 1 : f[i] = UpToStep(m, j, f, i)
    BY <2>3 DEF IsUpTo
  <2>5. \A i \in 0 .. n - 1 : g[i] = f[i]
    BY <1>2
  <2>6. \A i \in 0 .. n : i >= j => g[i - 1] = f[i - 1]
    BY <1>2, <2>5
  <2>7. \A i \in 0 .. n : UpToStep(m, j, g, i) = UpToStep(m, j, f, i)
    BY <2>6 DEF UpToStep
  <2>8. \A i \in 0 .. n : g[i] = UpToStep(m, j, f, i)
    BY <1>2, <2>4
  <2>9. \A i \in 0 .. n : g[i] = UpToStep(m, j, g, i)
    BY <2>7, <2>8
  <2>10. g = [i \in 0 .. n |-> g[i]]
    OBVIOUS
  <2> HIDE DEF g
  <2>11. IsUpTo(m, j, n, g)
    BY <2>9, <2>10 DEF IsUpTo
  <2>. QED  BY <1>2, <2>11
<1>. QED  BY <1>3, <1>4

\* Histories that agree on the places from j to k.
SameSubjects(m, n, j, k) == \A i \in j .. k : m[i].subject = n[i].subject

LEMMA UpToAgrees ==
  ASSUME NEW m, NEW n, NEW j \in Nat \ {0}, NEW k \in Nat, NEW l \in Nat, k <= l,
         NEW f, IsUpTo(m, j, k, f), NEW g, IsUpTo(n, j, l, g),
         SameSubjects(m, n, j, k)
  PROVE  \A i \in 0 .. k : f[i] = g[i]
<1> DEFINE B == {i \in 0 .. k : f[i] # g[i]}
<1> SUFFICES ASSUME B # {} PROVE FALSE
  OBVIOUS
<1>1. B \in SUBSET Nat
  OBVIOUS
<1>2. PICK b \in B : \A x \in B : b <= x
  BY <1>1, LeastNatural
<1>3. b \in 0 .. k /\ b \in 0 .. l /\ f[b] # g[b]
  OBVIOUS
<1>4. f[b] = UpToStep(m, j, f, b) /\ g[b] = UpToStep(n, j, g, b)
  BY <1>3 DEF IsUpTo
<1>5. CASE b < j
  BY <1>3, <1>4, <1>5 DEF UpToStep
<1>6. CASE b >= j
  <2>1. b - 1 \in 0 .. k /\ ~ (b <= b - 1)
    BY <1>3, <1>6
  <2>2. f[b - 1] = g[b - 1]
    BY <1>2, <2>1
  <2>3. m[b].subject = n[b].subject
    BY <1>3, <1>6 DEF SameSubjects
  <2>4. UpToStep(m, j, f, b) = UpToStep(n, j, g, b)
    BY <2>2, <2>3 DEF UpToStep
  <2>. QED  BY <1>3, <1>4, <2>4
<1>. QED  BY <1>3, <1>5, <1>6

LEMMA UpToRestricts ==
  ASSUME NEW m, NEW j \in Nat \ {0}, NEW k \in Nat, NEW l \in Nat, k <= l,
         NEW f, IsUpTo(m, j, k, f), NEW g, IsUpTo(m, j, l, g)
  PROVE  \A i \in 0 .. k : f[i] = g[i]
<1>1. SameSubjects(m, m, j, k)
  BY DEF SameSubjects
<1>. QED  BY <1>1, UpToAgrees

LEMMA SameNotarisable ==
  ASSUME NEW m, NEW n, NEW j \in Nat \ {0}, NEW k \in Nat,
         SameSubjects(m, n, j, k)
  PROVE  Notarisable(m, j, k) = Notarisable(n, j, k)
<1>1. PICK f : f = (CHOOSE h : IsUpTo(m, j, k, h))
  OBVIOUS
<1>2. PICK g : g = (CHOOSE h : IsUpTo(n, j, k, h))
  OBVIOUS
<1>3. IsUpTo(m, j, k, f) /\ IsUpTo(n, j, k, g)
  BY <1>1, <1>2, UpToExists
<1>4. f[k] = g[k]
  BY <1>3, UpToAgrees
<1>. QED  BY <1>1, <1>2, <1>4, NotarisableIsUpTo

\* A history grows by its latest subject, if that needs a record.
LEMMA NotarisableStep ==
  ASSUME NEW m, NEW j \in Nat \ {0}, NEW k \in Nat
  PROVE  /\ k < j => Notarisable(m, j, k) = << >>
         /\ k >= j => Notarisable(m, j, k) =
                        IF m[k].subject = Bot THEN Notarisable(m, j, k - 1)
                        ELSE Append(Notarisable(m, j, k - 1), m[k].subject)
<1>1. PICK f : f = (CHOOSE h : IsUpTo(m, j, k, h))
  OBVIOUS
<1>2. IsUpTo(m, j, k, f)
  BY <1>1, UpToExists
<1>3. f[k] = UpToStep(m, j, f, k)
  BY <1>2 DEF IsUpTo
<1>4. Notarisable(m, j, k) = f[k]
  BY <1>1, NotarisableIsUpTo
<1>5. CASE k < j
  BY <1>3, <1>4, <1>5 DEF UpToStep
<1>6. CASE k >= j
  <2>1. k - 1 \in Nat /\ k - 1 <= k
    BY <1>6
  <2>2. PICK g : g = (CHOOSE h : IsUpTo(m, j, k - 1, h))
    OBVIOUS
  <2>3. IsUpTo(m, j, k - 1, g)
    BY <2>1, <2>2, UpToExists
  <2>4. \A i \in 0 .. k - 1 : g[i] = f[i]
    BY <1>2, <2>1, <2>3, UpToRestricts
  <2>5. Notarisable(m, j, k - 1) = f[k - 1]
    BY <2>1, <2>2, <2>4, NotarisableIsUpTo
  <2>. QED  BY <1>3, <1>4, <1>6, <2>5 DEF UpToStep
<1>. QED  BY <1>5, <1>6

-----------------------------------------------------------------------------
(***************************************************************************)
(* The line of work of a history: what its places leave to be recorded.    *)
(***************************************************************************)

Histories == Seq([subject : Commit \cup {Bot}, chain : Chain])
Line(m, k) == Notarisable(m, 1, k)

\* Appending to the second of two sequences.
AppendsWithin(s, t, x) == s \o Append(t, x) = Append(s \o t, x)

LEMMA AppendConcat ==
  ASSUME NEW S, NEW s \in Seq(S), NEW t \in Seq(S), NEW x \in S
  PROVE  AppendsWithin(s, t, x)
<1>1. /\ s \o t \in Seq(S) /\ Len(s \o t) = Len(s) + Len(t)
      /\ \A i \in 1 .. Len(s) + Len(t) :
           (s \o t)[i] = IF i <= Len(s) THEN s[i] ELSE t[i - Len(s)]
  BY ConcatProperties
<1>2. /\ Append(t, x) \in Seq(S) /\ Len(Append(t, x)) = Len(t) + 1
      /\ \A i \in 1 .. Len(t) : Append(t, x)[i] = t[i]
      /\ Append(t, x)[Len(t) + 1] = x
  BY AppendProperties
<1>3. /\ s \o Append(t, x) \in Seq(S)
      /\ Len(s \o Append(t, x)) = Len(s) + Len(t) + 1
      /\ \A i \in 1 .. Len(s) + Len(t) + 1 :
           (s \o Append(t, x))[i] = IF i <= Len(s) THEN s[i] ELSE Append(t, x)[i - Len(s)]
  <2>1. /\ s \o Append(t, x) \in Seq(S)
        /\ Len(s \o Append(t, x)) = Len(s) + Len(Append(t, x))
        /\ \A i \in 1 .. Len(s) + Len(Append(t, x)) :
             (s \o Append(t, x))[i] = IF i <= Len(s) THEN s[i] ELSE Append(t, x)[i - Len(s)]
    BY <1>2, ConcatProperties, Zenon
  <2>2. Len(s) + Len(Append(t, x)) = Len(s) + Len(t) + 1
    BY <1>2, LenProperties
  <2>. QED  BY <2>1, <2>2
<1>4. /\ Append(s \o t, x) \in Seq(S)
      /\ Len(Append(s \o t, x)) = Len(s) + Len(t) + 1
      /\ \A i \in 1 .. Len(s) + Len(t) : Append(s \o t, x)[i] = (s \o t)[i]
      /\ Append(s \o t, x)[Len(s) + Len(t) + 1] = x
  BY <1>1, AppendProperties
<1>5. Len(s) \in Nat /\ Len(t) \in Nat
  BY LenProperties
<1>6. \A i \in 1 .. Len(s) + Len(t) + 1 : Append(s \o t, x)[i] = (s \o Append(t, x))[i]
  <2>1. ASSUME NEW i \in 1 .. Len(s) + Len(t) + 1
        PROVE  Append(s \o t, x)[i] = (s \o Append(t, x))[i]
    <3>1. CASE i <= Len(s)
      <4>1. i \in 1 .. Len(s) + Len(t)
        BY <1>5, <3>1
      <4>. QED  BY <1>1, <1>3, <1>4, <3>1, <4>1
    <3>2. CASE i > Len(s) /\ i <= Len(s) + Len(t)
      <4>1. i \in 1 .. Len(s) + Len(t) /\ i - Len(s) \in 1 .. Len(t) /\ ~ (i <= Len(s))
        BY <1>5, <3>2
      <4>. QED  BY <1>1, <1>2, <1>3, <1>4, <4>1
    <3>3. CASE i = Len(s) + Len(t) + 1
      <4>1. i - Len(s) = Len(t) + 1 /\ ~ (i <= Len(s))
        BY <1>5, <3>3
      <4>. QED  BY <1>2, <1>3, <1>4, <3>3, <4>1
    <3>. QED  BY <1>5, <3>1, <3>2, <3>3
  <2>. QED  BY <2>1
<1>7. Append(s \o t, x) = s \o Append(t, x)
  BY <1>3, <1>4, <1>6, SeqEqual
<1>. QED  BY <1>7, Zenon DEF AppendsWithin

LEMMA PlaceOfHistory ==
  ASSUME NEW m \in Histories, NEW k \in 1 .. Len(m)
  PROVE  m[k].subject \in Commit \cup {Bot} /\ m[k].chain \in Chain
<1>1. m[k] \in [subject : Commit \cup {Bot}, chain : Chain]
  BY ElementOfSeq DEF Histories
<1>. QED  BY <1>1

LEMMA NotarisableType ==
  ASSUME NEW m \in Histories, NEW j \in Nat \ {0}, NEW k \in 0 .. Len(m)
  PROVE  Notarisable(m, j, k) \in Seq(Commit)
<1> DEFINE B == {n \in 0 .. Len(m) : Notarisable(m, j, n) \notin Seq(Commit)}
<1> SUFFICES ASSUME B # {} PROVE FALSE
  OBVIOUS
<1>1. Len(m) \in Nat
  BY LenProperties DEF Histories
<1>2. B \in SUBSET Nat
  BY <1>1
<1>3. PICK n \in B : \A b \in B : n <= b
  BY <1>2, LeastNatural
<1>4. n \in 0 .. Len(m) /\ n \in Nat /\ Notarisable(m, j, n) \notin Seq(Commit)
  BY <1>1
<1>5. n >= j
  <2>1. n < j => Notarisable(m, j, n) = << >>
    BY <1>4, NotarisableStep
  <2>2. << >> \in Seq(Commit)
    BY EmptySeq
  <2>3. ~ (n < j)
    BY <1>4, <2>1, <2>2
  <2>. QED  BY <1>4, <2>3
<1>6. n - 1 \in 0 .. Len(m) /\ ~ (n <= n - 1) /\ n \in 1 .. Len(m)
  BY <1>1, <1>4, <1>5
<1>7. Notarisable(m, j, n - 1) \in Seq(Commit)
  BY <1>3, <1>6
<1>8. m[n].subject \in Commit \cup {Bot}
  BY <1>6, PlaceOfHistory
<1>9. Notarisable(m, j, n) = IF m[n].subject = Bot THEN Notarisable(m, j, n - 1)
                             ELSE Append(Notarisable(m, j, n - 1), m[n].subject)
  BY <1>4, <1>5, NotarisableStep
<1>10. m[n].subject # Bot => Append(Notarisable(m, j, n - 1), m[n].subject) \in Seq(Commit)
  BY <1>7, <1>8, AppendProperties
<1>. QED  BY <1>4, <1>7, <1>9, <1>10

\* The line up to a later place is the line up to an earlier one, followed by
\* what is notarisable in between.
LEMMA LineSplits ==
  ASSUME NEW m \in Histories, NEW p \in 0 .. Len(m), NEW k \in p .. Len(m)
  PROVE  Line(m, k) = Line(m, p) \o Notarisable(m, p + 1, k)
<1> DEFINE B == {n \in p .. Len(m) : Line(m, n) # Line(m, p) \o Notarisable(m, p + 1, n)}
<1> SUFFICES ASSUME B # {} PROVE FALSE
  OBVIOUS
<1>1. Len(m) \in Nat
  BY LenProperties DEF Histories
<1>2. B \in SUBSET Nat
  BY <1>1
<1>3. PICK n \in B : \A b \in B : n <= b
  BY <1>2, LeastNatural
<1>4. /\ n \in p .. Len(m) /\ n \in 0 .. Len(m) /\ n \in Nat /\ p + 1 \in Nat \ {0}
      /\ Line(m, n) # Line(m, p) \o Notarisable(m, p + 1, n)
  BY <1>1
<1>5. Line(m, p) \in Seq(Commit)
  BY NotarisableType DEF Line
<1>6. CASE n = p
  <2>1. Notarisable(m, p + 1, n) = << >>
    <3>1. n < p + 1
      BY <1>4, <1>6
    <3>. QED  BY <1>4, <3>1, NotarisableStep
  <2>. QED  BY <1>4, <1>5, <1>6, <2>1, ConcatEmptySeq
<1>7. CASE n # p
  <2>1. /\ n - 1 \in p .. Len(m) /\ n - 1 \in 0 .. Len(m) /\ ~ (n <= n - 1)
        /\ n >= 1 /\ n >= p + 1 /\ n \in 1 .. Len(m)
    BY <1>1, <1>4, <1>7
  <2>2. Line(m, n - 1) = Line(m, p) \o Notarisable(m, p + 1, n - 1)
    BY <1>3, <2>1
  <2>3. Line(m, n) = IF m[n].subject = Bot THEN Line(m, n - 1)
                     ELSE Append(Line(m, n - 1), m[n].subject)
    BY <1>4, <2>1, NotarisableStep DEF Line
  <2>4. Notarisable(m, p + 1, n) =
          IF m[n].subject = Bot THEN Notarisable(m, p + 1, n - 1)
          ELSE Append(Notarisable(m, p + 1, n - 1), m[n].subject)
    BY <1>4, <2>1, NotarisableStep
  <2>5. Notarisable(m, p + 1, n - 1) \in Seq(Commit)
    BY <1>4, <2>1, NotarisableType
  <2>6. CASE m[n].subject = Bot
    BY <1>4, <2>2, <2>3, <2>4, <2>6
  <2>7. CASE m[n].subject # Bot
    <3>1. m[n].subject \in Commit
      BY <2>1, <2>7, PlaceOfHistory
    <3> DEFINE s == Line(m, p)
               r == Notarisable(m, p + 1, n - 1)
               e == m[n].subject
    <3>2. s \in Seq(Commit) /\ r \in Seq(Commit) /\ e \in Commit
      BY <1>5, <2>5, <3>1
    <3> HIDE DEF s, r, e
    <3>3. AppendsWithin(s, r, e)
      BY <3>2, AppendConcat
    <3>. QED  BY <1>4, <2>2, <2>3, <2>4, <2>7, <3>3 DEF AppendsWithin, s, r, e
  <2>. QED  BY <2>6, <2>7
<1>. QED  BY <1>6, <1>7

\* The line only grows from one place to a later one.
LEMMA LineGrows ==
  ASSUME NEW m \in Histories, NEW p \in 0 .. Len(m), NEW k \in p .. Len(m)
  PROVE  /\ Line(m, p) \in Seq(Commit) /\ Line(m, k) \in Seq(Commit)
         /\ Len(Line(m, p)) <= Len(Line(m, k))
         /\ \A i \in 1 .. Len(Line(m, p)) : Line(m, k)[i] = Line(m, p)[i]
<1>1. Len(m) \in Nat
  BY LenProperties DEF Histories
<1>2. k \in 0 .. Len(m) /\ p + 1 \in Nat \ {0}
  BY <1>1
<1>3. /\ Line(m, p) \in Seq(Commit) /\ Line(m, k) \in Seq(Commit)
      /\ Notarisable(m, p + 1, k) \in Seq(Commit)
  BY <1>2, NotarisableType DEF Line
<1>4. Line(m, k) = Line(m, p) \o Notarisable(m, p + 1, k)
  BY LineSplits
<1>5. /\ Len(Line(m, k)) = Len(Line(m, p)) + Len(Notarisable(m, p + 1, k))
      /\ \A i \in 1 .. Len(Line(m, p)) + Len(Notarisable(m, p + 1, k)) :
           Line(m, k)[i] = IF i <= Len(Line(m, p)) THEN Line(m, p)[i]
                           ELSE Notarisable(m, p + 1, k)[i - Len(Line(m, p))]
  <2> DEFINE s == Line(m, p)
             r == Notarisable(m, p + 1, k)
  <2>1. /\ Len(s \o r) = Len(s) + Len(r)
        /\ \A i \in 1 .. Len(s) + Len(r) :
             (s \o r)[i] = IF i <= Len(s) THEN s[i] ELSE r[i - Len(s)]
    BY <1>3, ConcatProperties, Zenon
  <2>2. Line(m, k) = s \o r
    BY <1>4
  <2> HIDE DEF s, r
  <2>3. /\ Len(Line(m, k)) = Len(s) + Len(r)
        /\ \A i \in 1 .. Len(s) + Len(r) :
             Line(m, k)[i] = IF i <= Len(s) THEN s[i] ELSE r[i - Len(s)]
    BY <2>1, <2>2
  <2>. QED  BY <2>3 DEF s, r
<1>6. Len(Line(m, p)) \in Nat /\ Len(Notarisable(m, p + 1, k)) \in Nat
  BY <1>3, LenProperties
<1>. QED  BY <1>3, <1>5, <1>6

\* Each commit of the line is the subject of the place where the line reached
\* that length.
LEMMA LinePlaces ==
  ASSUME NEW m \in Histories, NEW k \in 0 .. Len(m), NEW i \in 1 .. Len(Line(m, k))
  PROVE  \E p \in 1 .. k : /\ m[p].subject = Line(m, k)[i]
                           /\ m[p].subject # Bot
                           /\ Len(Line(m, p)) = i
<1> DEFINE Found(n) == \E p \in 1 .. n : /\ m[p].subject = Line(m, n)[i]
                                         /\ m[p].subject # Bot
                                         /\ Len(Line(m, p)) = i
           B == {n \in 0 .. k : i <= Len(Line(m, n)) /\ ~ Found(n)}
<1>1. Len(m) \in Nat
  BY LenProperties DEF Histories
<1>2. \A n \in 0 .. Len(m) : Line(m, n) \in Seq(Commit) /\ Len(Line(m, n)) \in Nat
  <2>1. ASSUME NEW n \in 0 .. Len(m) PROVE Line(m, n) \in Seq(Commit)
    BY NotarisableType DEF Line
  <2>. QED  BY <2>1, LenProperties
<1>3. ASSUME B # {} PROVE FALSE
  <2>1. B \in SUBSET Nat
    BY <1>1
  <2>2. PICK n \in B : \A b \in B : n <= b
    BY <1>3, <2>1, LeastNatural
  <2>3. n \in 0 .. k /\ n \in 0 .. Len(m) /\ n \in Nat /\ i <= Len(Line(m, n)) /\ ~ Found(n)
    BY <1>1
  <2>4. i \in Nat /\ i >= 1
    BY <1>2
  <2>5. n >= 1
    <3>1. n < 1 => Line(m, n) = << >>
      BY <2>3, NotarisableStep DEF Line
    <3>2. Len(<< >>) = 0
      OBVIOUS
    <3>. QED  BY <2>3, <2>4, <3>1, <3>2
  <2>6. n - 1 \in 0 .. k /\ n - 1 \in 0 .. Len(m) /\ ~ (n <= n - 1) /\ n \in 1 .. Len(m)
    BY <1>1, <2>3, <2>5
  <2>7. Line(m, n) = IF m[n].subject = Bot THEN Line(m, n - 1)
                     ELSE Append(Line(m, n - 1), m[n].subject)
    BY <2>3, <2>5, NotarisableStep DEF Line
  <2>8. n - 1 \notin B
    BY <2>2, <2>6
  <2>9. i <= Len(Line(m, n - 1)) => Found(n - 1)
    BY <2>6, <2>8
  <2>10. CASE i <= Len(Line(m, n - 1))
    <3>1. PICK p \in 1 .. n - 1 : /\ m[p].subject = Line(m, n - 1)[i]
                                  /\ m[p].subject # Bot
                                  /\ Len(Line(m, p)) = i
      BY <2>9, <2>10
    <3>2. p \in 1 .. n
      BY <2>3
    <3>3. n - 1 \in 0 .. Len(m) /\ n \in n - 1 .. Len(m) /\ i \in 1 .. Len(Line(m, n - 1))
      BY <1>2, <2>3, <2>4, <2>6, <2>10
    <3>4. Line(m, n)[i] = Line(m, n - 1)[i]
      BY <3>3, LineGrows
    <3>. QED  BY <2>3, <3>1, <3>2, <3>4
  <2>11. CASE ~ (i <= Len(Line(m, n - 1)))
    <3>1. m[n].subject # Bot
      BY <2>3, <2>7, <2>11
    <3>2. m[n].subject \in Commit
      BY <2>6, <3>1, PlaceOfHistory
    <3>3. Line(m, n) = Append(Line(m, n - 1), m[n].subject)
      BY <2>7, <3>1
    <3>4. Line(m, n - 1) \in Seq(Commit) /\ Len(Line(m, n - 1)) \in Nat
      BY <1>2, <2>6
    <3>5. /\ Len(Line(m, n)) = Len(Line(m, n - 1)) + 1
          /\ Line(m, n)[Len(Line(m, n - 1)) + 1] = m[n].subject
      BY <3>2, <3>3, <3>4, AppendProperties
    <3>6. i = Len(Line(m, n - 1)) + 1
      BY <2>3, <2>4, <2>11, <3>4, <3>5
    <3>7. n \in 1 .. n
      BY <2>3, <2>5
    <3>8. Found(n)
      BY <3>1, <3>5, <3>6, <3>7
    <3>. QED  BY <2>3, <3>8
  <2>. QED  BY <2>10, <2>11
<1>4. k \notin B
  BY <1>3
<1>5. k \in 0 .. k /\ i <= Len(Line(m, k))
  BY <1>1, <1>2
<1>. QED  BY <1>4, <1>5

\* The commits of main that need a record are all different.
SubjectsUnique(m) ==
  \A p, q \in 1 .. Len(m) : m[p].subject = m[q].subject /\ m[p].subject # Bot => p = q

LEMMA LineDistinct ==
  ASSUME NEW m \in Histories, SubjectsUnique(m), NEW k \in 0 .. Len(m),
         NEW i \in 1 .. Len(Line(m, k)), NEW j \in 1 .. Len(Line(m, k)),
         Line(m, k)[i] = Line(m, k)[j]
  PROVE  i = j
<1>1. Len(m) \in Nat
  BY LenProperties DEF Histories
<1>2. PICK p \in 1 .. k : /\ m[p].subject = Line(m, k)[i]
                          /\ m[p].subject # Bot
                          /\ Len(Line(m, p)) = i
  BY LinePlaces
<1>3. PICK q \in 1 .. k : /\ m[q].subject = Line(m, k)[j]
                          /\ Len(Line(m, q)) = j
  BY LinePlaces
<1>4. p \in 1 .. Len(m) /\ q \in 1 .. Len(m)
  BY <1>1
<1>5. p = q
  BY <1>2, <1>3, <1>4 DEF SubjectsUnique
<1>. QED  BY <1>2, <1>3, <1>5

-----------------------------------------------------------------------------
(***************************************************************************)
(* Chains against the line.                                                *)
(***************************************************************************)

\* Chain c is the stretch of line L that starts at place i.
PieceAt(c, L, i) ==
  /\ i \in 1 .. Len(L) + 1
  /\ i + Len(c) <= Len(L) + 1
  /\ \A n \in 1 .. Len(c) : c[n] = L[i + n - 1]
PieceOf(c, L) == \E i \in 1 .. Len(L) + 1 : PieceAt(c, L, i)

\* Chain f and the commits t still to be appended are the rest of line L.
RestAt(f, t, L, i) ==
  /\ i \in 1 .. Len(L) + 1
  /\ i + Len(f) + Len(t) = Len(L) + 1
  /\ \A n \in 1 .. Len(f) : f[n] = L[i + n - 1]
  /\ \A n \in 1 .. Len(t) : t[n] = L[i + Len(f) + n - 1]
RestOf(f, t, L) == \E i \in 1 .. Len(L) + 1 : RestAt(f, t, L, i)

Extends(d, c) == Len(c) <= Len(d) /\ \A n \in 1 .. Len(c) : d[n] = c[n]

LEMMA ExtendsFurther ==
  ASSUME NEW c \in Chain, NEW d \in Chain, NEW e \in Chain, Extends(d, c), Extends(e, d)
  PROVE  Extends(e, c)
<1>1. Len(c) \in Nat /\ Len(d) \in Nat /\ Len(e) \in Nat
  BY LenProperties DEF Chain
<1>2. Len(c) <= Len(e)
  BY <1>1 DEF Extends
<1>3. ASSUME NEW n \in 1 .. Len(c) PROVE e[n] = c[n]
  <2>1. n \in 1 .. Len(d)
    BY <1>1 DEF Extends
  <2>. QED  BY <2>1 DEF Extends
<1>. QED  BY <1>2, <1>3 DEF Extends

LEMMA ExtendsItself ==
  ASSUME NEW c \in Chain
  PROVE  Extends(c, c)
<1>1. Len(c) \in Nat
  BY LenProperties DEF Chain
<1>. QED  BY <1>1 DEF Extends

\* A stretch of the line stays one as the line grows.
LEMMA PieceGrows ==
  ASSUME NEW m \in Histories, NEW p \in 0 .. Len(m), NEW k \in p .. Len(m),
         NEW c \in Chain, PieceOf(c, Line(m, p))
  PROVE  PieceOf(c, Line(m, k))
<1>1. PICK i \in 1 .. Len(Line(m, p)) + 1 : PieceAt(c, Line(m, p), i)
  BY DEF PieceOf
<1>2. /\ Line(m, p) \in Seq(Commit) /\ Line(m, k) \in Seq(Commit)
      /\ Len(Line(m, p)) <= Len(Line(m, k))
      /\ \A n \in 1 .. Len(Line(m, p)) : Line(m, k)[n] = Line(m, p)[n]
  BY LineGrows
<1>3. Len(Line(m, p)) \in Nat /\ Len(Line(m, k)) \in Nat /\ Len(c) \in Nat
  BY <1>2, LenProperties DEF Chain
<1>4. i \in 1 .. Len(Line(m, k)) + 1 /\ i + Len(c) <= Len(Line(m, k)) + 1
  BY <1>1, <1>2, <1>3 DEF PieceAt
<1>5. ASSUME NEW n \in 1 .. Len(c) PROVE c[n] = Line(m, k)[i + n - 1]
  <2>1. i + n - 1 \in 1 .. Len(Line(m, p))
    BY <1>1, <1>3 DEF PieceAt
  <2>2. c[n] = Line(m, p)[i + n - 1]
    BY <1>1 DEF PieceAt
  <2>. QED  BY <1>2, <2>1, <2>2
<1>6. PieceAt(c, Line(m, k), i)
  BY <1>4, <1>5 DEF PieceAt
<1>. QED  BY <1>4, <1>6 DEF PieceOf

\* What has been appended so far is a stretch of the line.
LEMMA RestIsPiece ==
  ASSUME NEW f \in Chain, NEW t \in Chain, NEW L \in Seq(Commit), RestOf(f, t, L)
  PROVE  PieceOf(f, L)
<1>1. PICK i \in 1 .. Len(L) + 1 : RestAt(f, t, L, i)
  BY DEF RestOf
<1>2. Len(f) \in Nat /\ Len(t) \in Nat /\ Len(L) \in Nat
  BY LenProperties DEF Chain
<1>3. i + Len(f) + Len(t) = Len(L) + 1
  BY <1>1 DEF RestAt
<1>4. i + Len(f) <= Len(L) + 1
  BY <1>2, <1>3
<1>5. PieceAt(f, L, i)
  BY <1>1, <1>4 DEF RestAt, PieceAt
<1>. QED  BY <1>5 DEF PieceOf

\* Appending the next commit moves it from what is left to what is done.
LEMMA NextOfRest ==
  ASSUME NEW f \in Chain, NEW t \in Chain, NEW L \in Seq(Commit), RestOf(f, t, L), t # << >>
  PROVE  /\ Append(f, t[1]) \in Chain /\ Tail(t) \in Chain
         /\ RestOf(Append(f, t[1]), Tail(t), L)
         /\ Extends(Append(f, t[1]), f)
<1>1. PICK i \in 1 .. Len(L) + 1 : RestAt(f, t, L, i)
  BY DEF RestOf
<1>2. Len(f) \in Nat /\ Len(t) \in Nat /\ Len(L) \in Nat
  BY LenProperties DEF Chain
<1>3. Len(t) # 0
  BY EmptySeq DEF Chain
<1>4. t[1] \in Commit
  <2>1. 1 \in 1 .. Len(t)
    BY <1>2, <1>3
  <2>. QED  BY <2>1, ElementOfSeq DEF Chain
<1>5. /\ Append(f, t[1]) \in Chain /\ Len(Append(f, t[1])) = Len(f) + 1
      /\ \A n \in 1 .. Len(f) : Append(f, t[1])[n] = f[n]
      /\ Append(f, t[1])[Len(f) + 1] = t[1]
  BY <1>4, AppendProperties DEF Chain
<1>6. /\ Tail(t) \in Chain /\ Len(Tail(t)) = Len(t) - 1
      /\ \A n \in 1 .. Len(Tail(t)) : Tail(t)[n] = t[n + 1]
  BY HeadTailProperties DEF Chain
<1>7. i + Len(f) + Len(t) = Len(L) + 1
  BY <1>1 DEF RestAt
<1>8. i + Len(Append(f, t[1])) + Len(Tail(t)) = Len(L) + 1
  BY <1>2, <1>5, <1>6, <1>7
<1>9. ASSUME NEW n \in 1 .. Len(Append(f, t[1]))
      PROVE  Append(f, t[1])[n] = L[i + n - 1]
  <2>1. CASE n = Len(f) + 1
    <3>1. t[1] = L[i + Len(f) + 1 - 1]
      <4>1. 1 \in 1 .. Len(t)
        BY <1>2, <1>3
      <4>. QED  BY <1>1, <4>1 DEF RestAt
    <3>2. i + n - 1 = i + Len(f) + 1 - 1
      BY <2>1
    <3>. QED  BY <1>5, <2>1, <3>1, <3>2
  <2>2. CASE n # Len(f) + 1
    <3>1. n \in 1 .. Len(f)
      BY <1>2, <1>5, <2>2
    <3>2. f[n] = L[i + n - 1]
      BY <1>1, <3>1 DEF RestAt
    <3>. QED  BY <1>5, <3>1, <3>2
  <2>. QED  BY <2>1, <2>2
<1>10. ASSUME NEW n \in 1 .. Len(Tail(t))
       PROVE  Tail(t)[n] = L[i + Len(Append(f, t[1])) + n - 1]
  <2>1. n + 1 \in 1 .. Len(t)
    BY <1>2, <1>6
  <2>2. t[n + 1] = L[i + Len(f) + (n + 1) - 1]
    BY <1>1, <2>1 DEF RestAt
  <2>3. i + Len(f) + (n + 1) - 1 = i + Len(Append(f, t[1])) + n - 1
    BY <1>2, <1>5
  <2>. QED  BY <1>6, <2>2, <2>3
<1>11. RestOf(Append(f, t[1]), Tail(t), L)
  BY <1>8, <1>9, <1>10 DEF RestAt, RestOf
<1>12. Extends(Append(f, t[1]), f)
  BY <1>2, <1>5 DEF Extends
<1>. QED  BY <1>5, <1>6, <1>11, <1>12

-----------------------------------------------------------------------------
(***************************************************************************)
(* Histories a repository can have.                                        *)
(***************************************************************************)

\* The subjects that need a record are all different, every commit carries a
\* stretch of the line up to itself, and no commit takes back a record.
HistoryInv(m) ==
  /\ m \in Histories
  /\ m # << >>
  /\ SubjectsUnique(m)
  /\ \A k \in 1 .. Len(m) : PieceOf(m[k].chain, Line(m, k))
  /\ \A j, k \in 1 .. Len(m) : j <= k => Extends(m[k].chain, m[j].chain)

LEMMA LongerHistory ==
  ASSUME NEW m \in Histories, NEW x \in [subject : Commit \cup {Bot}, chain : Chain]
  PROVE  /\ Append(m, x) \in Histories
         /\ Append(m, x) # << >>
         /\ Len(Append(m, x)) = Len(m) + 1
         /\ \A k \in 1 .. Len(m) : Append(m, x)[k] = m[k]
         /\ Append(m, x)[Len(m) + 1] = x
         /\ \A k \in 0 .. Len(m) : Line(Append(m, x), k) = Line(m, k)
<1>1. /\ Append(m, x) \in Histories
      /\ Append(m, x) # << >>
      /\ Len(Append(m, x)) = Len(m) + 1
      /\ \A k \in 1 .. Len(m) : Append(m, x)[k] = m[k]
      /\ Append(m, x)[Len(m) + 1] = x
  BY AppendProperties DEF Histories
<1>2. Len(m) \in Nat
  BY LenProperties DEF Histories
<1>3. ASSUME NEW k \in 0 .. Len(m) PROVE Line(Append(m, x), k) = Line(m, k)
  <2>1. \A i \in 1 .. k : Append(m, x)[i].subject = m[i].subject
    BY <1>1, <1>2
  <2>2. k \in Nat /\ 1 \in Nat \ {0}
    BY <1>2
  <2>3. SameSubjects(Append(m, x), m, 1, k)
    BY <2>1 DEF SameSubjects
  <2>. QED  BY <2>2, <2>3, SameNotarisable DEF Line
<1>. QED  BY <1>1, <1>3

\* A commit keeps the history in order if its subject is new, or needs no
\* record, and its chain is a stretch of the line that extends the latest.
LEMMA CommitMade ==
  ASSUME NEW m, HistoryInv(m),
         NEW x \in [subject : Commit \cup {Bot}, chain : Chain],
         x.subject # Bot => \A p \in 1 .. Len(m) : m[p].subject # x.subject,
         PieceOf(x.chain, Line(m, Len(m))),
         Extends(x.chain, m[Len(m)].chain)
  PROVE  HistoryInv(Append(m, x))
<1> DEFINE n == Append(m, x)
<1>1. m \in Histories /\ Len(m) \in Nat /\ Len(m) # 0 /\ Len(m) \in 1 .. Len(m)
  <2>1. m \in Histories /\ Len(m) \in Nat
    BY LenProperties DEF HistoryInv, Histories
  <2>2. Len(m) # 0
    BY EmptySeq DEF HistoryInv, Histories
  <2>. QED  BY <2>1, <2>2
<1>2. /\ n \in Histories
      /\ n # << >>
      /\ Len(n) = Len(m) + 1
      /\ \A k \in 1 .. Len(m) : n[k] = m[k]
      /\ n[Len(m) + 1] = x
      /\ \A k \in 0 .. Len(m) : Line(n, k) = Line(m, k)
  BY <1>1, LongerHistory
<1> HIDE DEF n
<1>3. \A k \in 1 .. Len(n) : k \in 1 .. Len(m) \/ k = Len(m) + 1
  BY <1>1, <1>2
<1>4. SubjectsUnique(n)
  <2>1. SUFFICES ASSUME NEW p \in 1 .. Len(n), NEW q \in 1 .. Len(n),
                        n[p].subject = n[q].subject, n[p].subject # Bot
                 PROVE  p = q
    BY DEF SubjectsUnique
  <2>2. CASE p \in 1 .. Len(m) /\ q \in 1 .. Len(m)
    BY <1>2, <2>1, <2>2 DEF HistoryInv, SubjectsUnique
  <2>3. CASE p \in 1 .. Len(m) /\ q = Len(m) + 1
    BY <1>2, <2>1, <2>3
  <2>4. CASE p = Len(m) + 1 /\ q \in 1 .. Len(m)
    BY <1>2, <2>1, <2>4
  <2>. QED  BY <1>3, <2>2, <2>3, <2>4
<1>5. ASSUME NEW k \in 1 .. Len(n) PROVE PieceOf(n[k].chain, Line(n, k))
  <2>1. CASE k \in 1 .. Len(m)
    <3>1. k \in 0 .. Len(m)
      BY <2>1
    <3>. QED  BY <1>2, <2>1, <3>1 DEF HistoryInv
  <2>2. CASE k = Len(m) + 1
    <3>1. Len(m) \in 0 .. Len(m) /\ Len(m) \in 0 .. Len(n) /\ k \in Len(m) .. Len(n)
      BY <1>1, <1>2, <2>2
    <3>2. PieceOf(x.chain, Line(n, Len(m))) /\ x.chain \in Chain
      BY <1>2, <3>1
    <3>3. PieceOf(x.chain, Line(n, k))
      BY <1>2, <3>1, <3>2, PieceGrows
    <3>. QED  BY <1>2, <2>2, <3>3
  <2>. QED  BY <1>3, <2>1, <2>2
<1>6. ASSUME NEW j \in 1 .. Len(n), NEW k \in 1 .. Len(n), j <= k
      PROVE  Extends(n[k].chain, n[j].chain)
  <2>1. CASE k \in 1 .. Len(m)
    <3>1. j \in 1 .. Len(m)
      BY <1>1, <1>6, <2>1
    <3>. QED  BY <1>2, <1>6, <2>1, <3>1 DEF HistoryInv
  <2>2. CASE k = Len(m) + 1 /\ j = Len(m) + 1
    <3>1. x.chain \in Chain
      OBVIOUS
    <3>. QED  BY <1>2, <2>2, <3>1, ExtendsItself
  <2>3. CASE k = Len(m) + 1 /\ j \in 1 .. Len(m)
    <3>1. j <= Len(m)
      BY <1>1, <2>3
    <3>2. Extends(m[Len(m)].chain, m[j].chain)
      BY <1>1, <2>3, <3>1 DEF HistoryInv
    <3>3. m[j].chain \in Chain /\ m[Len(m)].chain \in Chain /\ x.chain \in Chain
      BY <1>1, <2>3, PlaceOfHistory
    <3>4. Extends(x.chain, m[j].chain)
      BY <3>2, <3>3, ExtendsFurther
    <3>. QED  BY <1>2, <2>3, <3>4
  <2>. QED  BY <1>3, <2>1, <2>2, <2>3
<1>. QED  BY <1>2, <1>4, <1>5, <1>6 DEF HistoryInv, n

\* What a job finds pending at a place is the rest of the line there.
LEMMA PendingIsRest ==
  ASSUME NEW m, HistoryInv(m), NEW k \in 1 .. Len(m)
  PROVE  /\ m[k].chain \in Chain
         /\ Pending(m, m[k].chain, k) \in Chain
         /\ RestOf(m[k].chain, Pending(m, m[k].chain, k), Line(m, k))
<1> DEFINE c == m[k].chain
           L == Line(m, k)
<1>1. m \in Histories /\ Len(m) \in Nat
  BY LenProperties DEF HistoryInv, Histories
<1>2. c \in Chain
  BY <1>1, PlaceOfHistory
<1>3. k \in 0 .. Len(m) /\ L \in Seq(Commit)
  <2>1. k \in 0 .. Len(m)
    BY <1>1
  <2>. QED  BY <1>1, <2>1, NotarisableType DEF Line
<1>4. PICK i \in 1 .. Len(L) + 1 : PieceAt(c, L, i)
  BY DEF HistoryInv, PieceOf
<1>5. Len(c) \in Nat /\ Len(L) \in Nat
  BY <1>2, <1>3, LenProperties DEF Chain
<1> HIDE DEF c, L
<1>6. \E p \in 0 .. k, i0 \in 1 .. Len(L) + 1 :
        /\ Pending(m, c, k) = Notarisable(m, p + 1, k)
        /\ PieceAt(c, L, i0)
        /\ i0 + Len(c) = Len(Line(m, p)) + 1
  <2>1. CASE c = << >>
    <3>1. Pending(m, c, k) = Notarisable(m, (k - 1) + 1, k)
      <4>1. (k - 1) + 1 = k
        BY <1>1
      <4>. QED  BY <2>1, <4>1 DEF Pending
    <3>2. k - 1 \in 0 .. k /\ k - 1 \in 0 .. Len(m) /\ k \in k - 1 .. Len(m)
      BY <1>1
    <3>3. /\ Line(m, k - 1) \in Seq(Commit) /\ Len(Line(m, k - 1)) <= Len(L)
      BY <1>1, <3>2, LineGrows DEF L
    <3>4. Len(Line(m, k - 1)) \in Nat
      BY <3>3, LenProperties
    <3>5. Len(c) = 0
      BY <2>1, EmptySeq
    <3>6. Len(Line(m, k - 1)) + 1 \in 1 .. Len(L) + 1
      BY <1>5, <3>3, <3>4
    <3>7. PieceAt(c, L, Len(Line(m, k - 1)) + 1)
      BY <1>5, <3>3, <3>4, <3>5, <3>6 DEF PieceAt
    <3>8. Len(Line(m, k - 1)) + 1 + Len(c) = Len(Line(m, k - 1)) + 1
      BY <3>4, <3>5
    <3>. QED  BY <3>1, <3>2, <3>6, <3>7, <3>8, Zenon
  <2>2. CASE c # << >>
    <3>1. Len(c) # 0
      BY <1>2, <2>2, EmptySeq DEF Chain
    <3>2. i + Len(c) - 1 \in 1 .. Len(L) /\ c[Len(c)] = L[i + Len(c) - 1]
      <4>1. Len(c) \in 1 .. Len(c)
        BY <1>5, <3>1
      <4>2. i + Len(c) - 1 \in 1 .. Len(L)
        BY <1>4, <1>5, <3>1 DEF PieceAt
      <4>. QED  BY <1>4, <4>1, <4>2 DEF PieceAt
    <3>3. PICK p \in 1 .. k : /\ m[p].subject = L[i + Len(c) - 1]
                              /\ m[p].subject # Bot
                              /\ Len(Line(m, p)) = i + Len(c) - 1
      BY <1>1, <1>3, <3>2, LinePlaces DEF L
    <3>4. p \in 1 .. Len(m) /\ m[p].subject = LastNotarised(c)
      BY <1>1, <3>2, <3>3 DEF LastNotarised
    <3>5. \A q \in 1 .. Len(m) : m[q].subject = LastNotarised(c) => q = p
      BY <3>3, <3>4 DEF HistoryInv, SubjectsUnique
    <3>6. (CHOOSE q \in 1 .. Len(m) : m[q].subject = LastNotarised(c)) = p
      BY <3>4, <3>5
    <3>7. Pending(m, c, k) = Notarisable(m, p + 1, k)
      BY <2>2, <3>6 DEF Pending
    <3>8. i + Len(c) = Len(Line(m, p)) + 1
      BY <1>5, <3>3
    <3>9. p \in 0 .. k
      BY <1>1
    <3>. QED  BY <1>4, <3>7, <3>8, <3>9, Zenon
  <2>. QED  BY <2>1, <2>2
<1>7. PICK p \in 0 .. k, i0 \in 1 .. Len(L) + 1 :
        /\ Pending(m, c, k) = Notarisable(m, p + 1, k)
        /\ PieceAt(c, L, i0)
        /\ i0 + Len(c) = Len(Line(m, p)) + 1
  BY <1>6
<1> DEFINE s == Line(m, p)
           t == Notarisable(m, p + 1, k)
<1>8. p \in 0 .. Len(m) /\ k \in p .. Len(m) /\ p + 1 \in Nat \ {0}
  BY <1>1
<1>9. s \in Seq(Commit) /\ t \in Seq(Commit) /\ L = s \o t
  <2>1. L = s \o t
    BY <1>1, <1>8, LineSplits DEF L
  <2>. QED  BY <1>1, <1>3, <1>8, <2>1, NotarisableType DEF Line
<1> HIDE DEF s, t
<1>10. /\ Len(s) \in Nat /\ Len(t) \in Nat
       /\ Len(s \o t) = Len(s) + Len(t)
       /\ \A n \in 1 .. Len(s) + Len(t) :
            (s \o t)[n] = IF n <= Len(s) THEN s[n] ELSE t[n - Len(s)]
  BY <1>9, LenProperties, ConcatProperties
<1>11. /\ Len(L) = Len(s) + Len(t)
       /\ \A n \in 1 .. Len(s) + Len(t) :
            L[n] = IF n <= Len(s) THEN s[n] ELSE t[n - Len(s)]
  BY <1>9, <1>10
<1>12. i0 + Len(c) = Len(s) + 1
  BY <1>7 DEF s
<1>13. i0 + Len(c) + Len(t) = Len(L) + 1
  <2>1. i0 \in Nat
    BY <1>5, <1>7
  <2>. QED  BY <1>5, <1>10, <1>11, <1>12, <2>1
<1>14. ASSUME NEW n \in 1 .. Len(t) PROVE t[n] = L[i0 + Len(c) + n - 1]
  <2>1. n \in 1 .. Len(t) /\ i0 \in Nat
    BY <1>5, <1>7
  <2>2. Len(s) \in Nat /\ Len(t) \in Nat
    BY <1>10
  <2>3. i0 + Len(c) + n - 1 = Len(s) + n
    BY <1>5, <1>12, <2>1, <2>2
  <2>4. /\ Len(s) + n \in 1 .. Len(s) + Len(t)
        /\ ~ (Len(s) + n <= Len(s))
        /\ Len(s) + n - Len(s) = n
    BY <2>1, <2>2
  <2>5. L[Len(s) + n] = t[Len(s) + n - Len(s)]
    BY <1>11, <2>4
  <2>6. L[Len(s) + n] = t[n]
    BY <2>4, <2>5
  <2>. QED  BY <2>3, <2>6
<1>15. RestAt(c, t, L, i0)
  BY <1>7, <1>13, <1>14 DEF RestAt, PieceAt
<1>16. RestOf(c, t, L)
  BY <1>15 DEF RestOf
<1>17. Pending(m, c, k) = t
  BY <1>7 DEF t
<1>. QED  BY <1>2, <1>9, <1>16, <1>17 DEF Chain, c, L

-----------------------------------------------------------------------------
(***************************************************************************)
(* The inductive invariant.                                                *)
(***************************************************************************)

\* The job st at place h of history m, with f appended so far and t still to
\* append: it has the whole rest of the line in hand.
JobAt(m, st, h, f, t) ==
  /\ st \in {"idle", "extending", "pushing", "proposing"}
  /\ h \in 1 .. Len(m)
  /\ f \in Chain
  /\ t \in Chain
  /\ st = "idle" => f = << >> /\ t = << >>
  /\ st # "idle" => Extends(f, m[h].chain) /\ RestOf(f, t, Line(m, h))
  /\ st \in {"pushing", "proposing"} => t = << >>

\* The chain proposed on branch b extends that of the commit it is based on.
BranchAt(m, b) ==
  b # NoBranch =>
    /\ b.base \in 1 .. Len(m)
    /\ b.chain \in Chain
    /\ Extends(b.chain, m[b.base].chain)
    /\ PieceOf(b.chain, Line(m, b.base))

ExtendInv ==
  /\ HistoryInv(main)
  /\ waiting \in 0 .. Len(main)
  /\ attempt \in Nat
  /\ JobAt(main, pc, head, file, todo)
  /\ BranchAt(main, branch)

LEMMA HistoryFacts ==
  ASSUME NEW m, HistoryInv(m)
  PROVE  m \in Histories /\ Len(m) \in Nat \ {0} /\ 1 \in 1 .. Len(m) /\ Len(m) \in 1 .. Len(m)
<1>1. m \in Histories /\ Len(m) \in Nat
  BY LenProperties DEF HistoryInv, Histories
<1>2. Len(m) # 0
  BY EmptySeq DEF HistoryInv, Histories
<1>. QED  BY <1>1, <1>2

LEMMA JobIdle ==
  ASSUME NEW m, HistoryInv(m)
  PROVE  JobAt(m, "idle", 1, << >>, << >>)
<1>1. << >> \in Chain
  BY EmptySeq DEF Chain
<1>. QED  BY <1>1, HistoryFacts DEF JobAt

LEMMA JobCheckedOut ==
  ASSUME NEW m, HistoryInv(m), NEW k \in 1 .. Len(m)
  PROVE  JobAt(m, "extending", k, m[k].chain, Pending(m, m[k].chain, k))
<1>1. Extends(m[k].chain, m[k].chain)
  BY PendingIsRest, ExtendsItself
<1>. QED  BY <1>1, PendingIsRest DEF JobAt

\* A commit on main disturbs neither the job nor the branch.
LEMMA JobUndisturbed ==
  ASSUME NEW m, HistoryInv(m), NEW x \in [subject : Commit \cup {Bot}, chain : Chain],
         NEW st, NEW h, NEW f, NEW t, JobAt(m, st, h, f, t)
  PROVE  JobAt(Append(m, x), st, h, f, t)
<1>1. m \in Histories /\ Len(m) \in Nat
  BY HistoryFacts
<1>2. h \in 1 .. Len(m) /\ h \in 0 .. Len(m)
  BY <1>1 DEF JobAt
<1>3. /\ Append(m, x)[h] = m[h] /\ Line(Append(m, x), h) = Line(m, h)
      /\ Len(Append(m, x)) = Len(m) + 1
  BY <1>1, <1>2, LongerHistory
<1>4. h \in 1 .. Len(Append(m, x))
  BY <1>1, <1>2, <1>3
<1>. QED  BY <1>3, <1>4 DEF JobAt

LEMMA BranchUndisturbed ==
  ASSUME NEW m, HistoryInv(m), NEW x \in [subject : Commit \cup {Bot}, chain : Chain],
         NEW b, BranchAt(m, b)
  PROVE  BranchAt(Append(m, x), b)
<1> SUFFICES ASSUME b # NoBranch PROVE BranchAt(Append(m, x), b)
  BY DEF BranchAt
<1>1. m \in Histories /\ Len(m) \in Nat
  BY HistoryFacts
<1>2. b.base \in 1 .. Len(m) /\ b.base \in 0 .. Len(m)
  BY <1>1 DEF BranchAt
<1>3. /\ Append(m, x)[b.base] = m[b.base] /\ Line(Append(m, x), b.base) = Line(m, b.base)
      /\ Len(Append(m, x)) = Len(m) + 1
  BY <1>1, <1>2, LongerHistory
<1>4. b.base \in 1 .. Len(Append(m, x))
  BY <1>1, <1>2, <1>3
<1>. QED  BY <1>3, <1>4 DEF BranchAt

\* What a job pushes from the tip of main keeps the history in order.
LEMMA PushKeepsHistory ==
  ASSUME HistoryInv(main), JobAt(main, pc, head, file, todo), pc # "idle", head = Len(main)
  PROVE  /\ [subject |-> Bot, chain |-> file] \in [subject : Commit \cup {Bot}, chain : Chain]
         /\ HistoryInv(PushedMain)
<1> DEFINE x == [subject |-> Bot, chain |-> file]
<1>1. file \in Chain /\ todo \in Chain /\ Extends(file, main[Len(main)].chain)
  BY DEF JobAt
<1>2. x \in [subject : Commit \cup {Bot}, chain : Chain] /\ x.subject = Bot /\ x.chain = file
  BY <1>1
<1>3. PieceOf(file, Line(main, Len(main)))
  <2>1. main \in Histories /\ Len(main) \in 0 .. Len(main)
    BY HistoryFacts
  <2>2. Line(main, Len(main)) \in Seq(Commit)
    BY <2>1, NotarisableType DEF Line
  <2>3. RestOf(file, todo, Line(main, Len(main)))
    BY DEF JobAt
  <2>. QED  BY <1>1, <2>2, <2>3, RestIsPiece
<1> HIDE DEF x
<1>4. HistoryInv(Append(main, x))
  BY <1>1, <1>2, <1>3, CommitMade
<1>. QED  BY <1>2, <1>4 DEF x, PushedMain

LEMMA InitExtend == Init => ExtendInv
<1> SUFFICES ASSUME Init PROVE ExtendInv
  OBVIOUS
<1>1. PICK c \in {<< >>, <<First>>} : main = << [subject |-> First, chain |-> c] >>
  BY DEF Init
<1>2. First \in Commit /\ First # Bot
  BY SubjectsDiffer DEF Commit
<1>3. c \in Chain
  <2>1. << >> \in Seq(Commit) /\ <<First>> \in Seq(Commit)
    BY <1>2
  <2>. QED  BY <2>1 DEF Chain
<1>4. /\ main \in Histories /\ Len(main) = 1 /\ main # << >>
      /\ main[1].subject = First /\ main[1].chain = c
  <2>1. [subject |-> First, chain |-> c] \in [subject : Commit \cup {Bot}, chain : Chain]
    BY <1>2, <1>3
  <2>. QED  BY <1>1, <2>1 DEF Histories
<1>5. Line(main, 1) = <<First>>
  <2>1. Notarisable(main, 1, 0) = << >>
    <3>1. 1 \in Nat \ {0} /\ 0 \in Nat /\ 0 < 1
      OBVIOUS
    <3>. QED  BY <3>1, NotarisableStep
  <2>2. Notarisable(main, 1, 1) =
          IF main[1].subject = Bot THEN Notarisable(main, 1, 1 - 1)
          ELSE Append(Notarisable(main, 1, 1 - 1), main[1].subject)
    <3>1. 1 \in Nat \ {0} /\ 1 \in Nat /\ 1 >= 1
      OBVIOUS
    <3>. QED  BY <3>1, NotarisableStep
  <2>3. Notarisable(main, 1, 1) = Append(<< >>, First)
    <3>1. 1 - 1 = 0
      OBVIOUS
    <3>2. Notarisable(main, 1, 1) = Append(Notarisable(main, 1, 0), First)
      BY <1>2, <1>4, <2>2, <3>1
    <3>. QED  BY <2>1, <3>2
  <2>. QED  BY <2>3 DEF Line
<1>6. PieceOf(c, <<First>>)
  <2>1. PieceAt(c, <<First>>, 1)
    BY DEF PieceAt
  <2>. QED  BY <2>1 DEF PieceOf
<1>7. HistoryInv(main)
  <2>1. SubjectsUnique(main)
    BY <1>4 DEF SubjectsUnique
  <2>2. \A k \in 1 .. Len(main) : PieceOf(main[k].chain, Line(main, k))
    BY <1>4, <1>5, <1>6
  <2>3. \A j, k \in 1 .. Len(main) : j <= k => Extends(main[k].chain, main[j].chain)
    BY <1>3, <1>4, ExtendsItself
  <2>. QED  BY <1>4, <2>1, <2>2, <2>3 DEF HistoryInv
<1>8. JobAt(main, pc, head, file, todo)
  BY <1>7, JobIdle DEF Init
<1>. QED  BY <1>4, <1>7, <1>8 DEF Init, ExtendInv, BranchAt

LEMMA StepExtend == ExtendInv /\ [Next]_vars => ExtendInv'
<1> SUFFICES ASSUME ExtendInv, [Next]_vars PROVE ExtendInv'
  OBVIOUS
<1> DEFINE Places == [subject : Commit \cup {Bot}, chain : Chain]
<1>1. /\ HistoryInv(main)
      /\ waiting \in 0 .. Len(main)
      /\ attempt \in Nat
      /\ JobAt(main, pc, head, file, todo)
      /\ BranchAt(main, branch)
  BY DEF ExtendInv
<1>2. main \in Histories /\ Len(main) \in Nat \ {0} /\ 1 \in 1 .. Len(main) /\ Len(main) \in 1 .. Len(main)
  BY <1>1, HistoryFacts
<1>3. \A x \in Places : Len(Append(main, x)) = Len(main) + 1
  BY <1>2, LongerHistory
\* A commit made on main, with no matter what run waiting.
<1>4. ASSUME NEW x \in Places, main' = Append(main, x), HistoryInv(Append(main, x))
      PROVE  /\ HistoryInv(main)'
             /\ Len(main') = Len(main) + 1
             /\ BranchAt(main', branch)
             /\ JobAt(main', pc, head, file, todo)
  BY <1>1, <1>3, <1>4, JobUndisturbed, BranchUndisturbed
<1>5. MergeWork => ExtendInv'
  <2> SUFFICES ASSUME MergeWork PROVE ExtendInv'
    OBVIOUS
  <2> DEFINE w == CHOOSE w \in Unmerged : TRUE
             x == [subject |-> w, chain |-> Tip.chain]
  <2>1. w \in Unmerged
    BY DEF MergeWork
  <2> HIDE DEF w
  <2>2. w \in Commit /\ w # Bot
    BY <2>1, SubjectsDiffer DEF Unmerged, Commit
  <2>3. \A p \in 1 .. Len(main) : main[p].subject # w
    BY <2>1 DEF Unmerged, Subjects
  <2>4. Tip.chain \in Chain
    BY <1>2, PlaceOfHistory DEF Tip
  <2>5. PieceOf(Tip.chain, Line(main, Len(main)))
    BY <1>1, <1>2 DEF Tip, HistoryInv
  <2>6. x \in Places /\ x.subject = w /\ x.chain = Tip.chain
    BY <2>2, <2>4
  <2>7. Extends(x.chain, main[Len(main)].chain)
    BY <2>4, <2>6, ExtendsItself DEF Tip
  <2>8. main' = Append(main, x)
    BY DEF MergeWork, w
  <2> HIDE DEF x
  <2>9. HistoryInv(Append(main, x))
    BY <1>1, <2>3, <2>5, <2>6, <2>7, CommitMade
  <2>10. /\ HistoryInv(main)' /\ Len(main') = Len(main) + 1
         /\ BranchAt(main', branch) /\ JobAt(main', pc, head, file, todo)
    BY <1>4, <2>6, <2>8, <2>9
  <2>11. waiting' \in 0 .. Len(main')
    BY <1>2, <2>10 DEF MergeWork
  <2>. QED  BY <1>1, <2>10, <2>11 DEF MergeWork, job, ExtendInv
<1>6. MergeBranch => ExtendInv'
  <2> SUFFICES ASSUME MergeBranch PROVE ExtendInv'
    OBVIOUS
  <2> DEFINE x == [subject |-> Bot, chain |-> branch.chain]
  <2>1. /\ branch.base \in 1 .. Len(main)
        /\ branch.chain \in Chain
        /\ Extends(branch.chain, main[branch.base].chain)
        /\ PieceOf(branch.chain, Line(main, branch.base))
    BY <1>1 DEF MergeBranch, BranchAt
  <2>2. PieceOf(branch.chain, Line(main, Len(main)))
    <3>1. branch.base \in 0 .. Len(main) /\ Len(main) \in branch.base .. Len(main)
      BY <1>2, <2>1
    <3>. QED  BY <1>2, <2>1, <3>1, PieceGrows
  <2>3. x \in Places /\ x.subject = Bot /\ x.chain = branch.chain
    BY <2>1
  <2>4. Extends(x.chain, main[Len(main)].chain)
    BY <2>1, <2>3 DEF MergeBranch, Tip
  <2>5. main' = Append(main, x)
    BY DEF MergeBranch
  <2> HIDE DEF x
  <2>6. HistoryInv(Append(main, x))
    BY <1>1, <2>2, <2>3, <2>4, CommitMade
  <2>7. /\ HistoryInv(main)' /\ Len(main') = Len(main) + 1
        /\ JobAt(main', pc, head, file, todo)
    BY <1>4, <2>3, <2>5, <2>6
  <2>8. waiting' \in 0 .. Len(main')
    BY <1>1, <1>2, <2>7 DEF MergeBranch
  <2>. QED  BY <1>1, <2>7, <2>8 DEF MergeBranch, job, ExtendInv, BranchAt
<1>7. Dispatch => ExtendInv'
  BY <1>1, <1>2 DEF Dispatch, job, ExtendInv
<1>8. StartRun => ExtendInv'
  <2> SUFFICES ASSUME StartRun PROVE ExtendInv'
    OBVIOUS
  <2>1. waiting \in 1 .. Len(main)
    BY <1>1, <1>2 DEF StartRun
  <2>2. JobAt(main, "extending", waiting, main[waiting].chain, Pending(main, main[waiting].chain, waiting))
    BY <1>1, <2>1, JobCheckedOut
  <2>3. JobAt(main, pc', head', file', todo')
    BY <2>2 DEF StartRun, CheckOut
  <2>. QED  BY <1>1, <1>2, <2>3 DEF StartRun, ExtendInv
<1>9. AppendRecord => ExtendInv'
  <2> SUFFICES ASSUME AppendRecord PROVE ExtendInv'
    OBVIOUS
  <2>1. /\ head \in 1 .. Len(main) /\ head \in 0 .. Len(main)
        /\ file \in Chain /\ todo \in Chain
        /\ Extends(file, main[head].chain) /\ RestOf(file, todo, Line(main, head))
    BY <1>1, <1>2 DEF AppendRecord, JobAt
  <2>2. Line(main, head) \in Seq(Commit) /\ main[head].chain \in Chain
    BY <1>2, <2>1, NotarisableType, PlaceOfHistory DEF Line
  <2>3. /\ file' \in Chain /\ todo' \in Chain
        /\ RestOf(file', todo', Line(main, head)) /\ Extends(file', file)
    BY <2>1, <2>2, NextOfRest DEF AppendRecord
  <2>4. Extends(file', main[head].chain)
    BY <2>1, <2>2, <2>3, ExtendsFurther
  <2>5. JobAt(main, pc', head', file', todo')
    BY <2>1, <2>3, <2>4 DEF AppendRecord, JobAt
  <2>. QED  BY <1>1, <2>5 DEF AppendRecord, ExtendInv
<1>10. EndRun /\ HistoryInv(main)' => JobAt(main', pc', head', file', todo') /\ attempt' \in Nat
  <2> SUFFICES ASSUME EndRun, HistoryInv(main)'
               PROVE  JobAt(main', pc', head', file', todo') /\ attempt' \in Nat
    OBVIOUS
  <2>1. JobAt(main', "idle", 1, << >>, << >>)
    BY JobIdle
  <2>. QED  BY <2>1 DEF EndRun
<1>11. NothingToLand => ExtendInv'
  BY <1>1, <1>10 DEF NothingToLand, ExtendInv
<1>12. Land => ExtendInv'
  BY <1>1 DEF Land, ExtendInv, JobAt
<1>13. pc \in {"pushing", "proposing"} /\ head = Len(main)
         => [subject |-> Bot, chain |-> file] \in Places /\ HistoryInv(PushedMain)
  BY <1>1, PushKeepsHistory
<1>14. PushLands => ExtendInv'
  <2> SUFFICES ASSUME PushLands PROVE ExtendInv'
    OBVIOUS
  <2> DEFINE x == [subject |-> Bot, chain |-> file]
  <2>1. x \in Places /\ HistoryInv(PushedMain)
    BY <1>13 DEF PushLands
  <2>2. main' = Append(main, x) /\ HistoryInv(Append(main, x))
    BY <2>1 DEF PushLands, PushedMain
  <2> HIDE DEF x
  <2>3. HistoryInv(main)' /\ Len(main') = Len(main) + 1 /\ BranchAt(main', branch)
    BY <1>4, <2>1, <2>2
  <2>4. waiting' \in 0 .. Len(main')
    BY <1>1, <1>2, <2>3 DEF PushLands
  <2>. QED  BY <1>10, <2>3, <2>4 DEF PushLands, ExtendInv
<1>15. PushDeclined => ExtendInv'
  BY <1>1 DEF PushDeclined, ExtendInv, JobAt
<1>16. Recompute(main') /\ HistoryInv(main)'
         => JobAt(main', pc', head', file', todo') /\ attempt' \in Nat
  <2> SUFFICES ASSUME Recompute(main'), HistoryInv(main)'
               PROVE  JobAt(main', pc', head', file', todo') /\ attempt' \in Nat
    OBVIOUS
  <2>1. HistoryInv(main') /\ Len(main') \in 1 .. Len(main')
    BY HistoryFacts
  <2>2. JobAt(main', "extending", Len(main'), main'[Len(main')].chain,
              Pending(main', main'[Len(main')].chain, Len(main')))
    BY <2>1, JobCheckedOut
  <2>. QED  BY <1>1, <2>2 DEF Recompute, CheckOut
<1>17. PushRaced => ExtendInv'
  <2> SUFFICES ASSUME PushRaced PROVE ExtendInv'
    OBVIOUS
  <2>1. main' = main /\ Recompute(main')
    BY DEF PushRaced
  <2>. QED  BY <1>1, <1>16, <2>1 DEF PushRaced, ExtendInv
<1>18. PushErrors => ExtendInv'
  <2> SUFFICES ASSUME PushErrors PROVE ExtendInv'
    OBVIOUS
  <2>1. CASE main' = main
    BY <1>1, <1>16, <2>1 DEF PushErrors, ExtendInv
  <2>2. CASE head = Len(main) /\ main' = PushedMain
    <3> DEFINE x == [subject |-> Bot, chain |-> file]
    <3>1. x \in Places /\ HistoryInv(PushedMain)
      BY <1>13, <2>2 DEF PushErrors
    <3>2. main' = Append(main, x) /\ HistoryInv(Append(main, x))
      BY <2>2, <3>1 DEF PushedMain
    <3> HIDE DEF x
    <3>3. HistoryInv(main)' /\ Len(main') = Len(main) + 1 /\ BranchAt(main', branch)
      BY <1>4, <3>1, <3>2
    <3>4. waiting \in 0 .. Len(main')
      BY <1>1, <1>2, <3>3
    <3>. QED  BY <1>16, <3>3, <3>4 DEF PushErrors, ExtendInv
  <2>. QED  BY <2>1, <2>2 DEF PushErrors
<1>19. Propose => ExtendInv'
  <2> SUFFICES ASSUME Propose PROVE ExtendInv'
    OBVIOUS
  <2>1. /\ head \in 1 .. Len(main) /\ head \in 0 .. Len(main)
        /\ file \in Chain /\ todo \in Chain
        /\ Extends(file, main[head].chain) /\ RestOf(file, todo, Line(main, head))
    BY <1>1, <1>2 DEF Propose, JobAt
  <2>2. Line(main, head) \in Seq(Commit)
    BY <1>2, <2>1, NotarisableType DEF Line
  <2>3. PieceOf(file, Line(main, head))
    BY <2>1, <2>2, RestIsPiece
  <2>4. branch'.base = head /\ branch'.chain = file
    BY DEF Propose
  <2>5. BranchAt(main, branch')
    BY <2>1, <2>3, <2>4 DEF BranchAt
  <2>. QED  BY <1>1, <1>10, <2>5 DEF Propose, ExtendInv
<1>20. RunnerDies => ExtendInv'
  BY <1>1, <1>10 DEF RunnerDies, ExtendInv
<1>21. UNCHANGED vars => ExtendInv'
  BY <1>1 DEF vars, job, ExtendInv
<1>. QED  BY <1>5, <1>6, <1>7, <1>8, <1>9, <1>11, <1>12, <1>14, <1>15, <1>17, <1>18,
             <1>19, <1>20, <1>21 DEF Next, Job

\* Every reachable state keeps main's history in order, the running job's
\* checkout with the rest of its line, and the branch above its base.
THEOREM ExtendSafe == Spec => []ExtendInv
<1>1. Init => ExtendInv
  BY InitExtend
<1>2. ExtendInv /\ [Next]_vars => ExtendInv'
  BY StepExtend
<1>. QED  BY <1>1, <1>2, PTL DEF Spec

-----------------------------------------------------------------------------
(***************************************************************************)
(* What the invariant shows of the properties.                             *)
(***************************************************************************)

LEMMA PieceIsSubSeq ==
  ASSUME NEW c \in Chain, NEW L \in Seq(Commit), PieceOf(c, L)
  PROVE  \E i \in 1 .. Len(L) + 1, j \in 0 .. Len(L) : c = SubSeq(L, i, j)
<1>1. PICK i \in 1 .. Len(L) + 1 : PieceAt(c, L, i)
  BY DEF PieceOf
<1>2. Len(c) \in Nat /\ Len(L) \in Nat
  BY LenProperties DEF Chain
<1> DEFINE j == i + Len(c) - 1
<1>3. i \in Int /\ j \in 0 .. Len(L) /\ j \in Int /\ j - i + 1 = Len(c)
  BY <1>1, <1>2 DEF PieceAt
<1> HIDE DEF j
<1>4. \A n \in i .. j : L[n] \in Commit
  <2>1. \A n \in i .. j : n \in 1 .. Len(L)
    BY <1>2, <1>3
  <2>. QED  BY <2>1, ElementOfSeq
<1>5. /\ SubSeq(L, i, j) \in Seq(Commit)
      /\ Len(SubSeq(L, i, j)) = IF i <= j THEN j - i + 1 ELSE 0
      /\ \A n \in 1 .. j - i + 1 : SubSeq(L, i, j)[n] = L[i + n - 1]
  BY <1>3, <1>4, SubSeqProperties
<1>6. Len(SubSeq(L, i, j)) = Len(c)
  BY <1>2, <1>3, <1>5
<1>7. \A n \in 1 .. Len(c) : SubSeq(L, i, j)[n] = c[n]
  BY <1>1, <1>3, <1>5 DEF PieceAt
<1>8. c = SubSeq(L, i, j)
  BY <1>5, <1>6, <1>7, SeqEqual DEF Chain
<1>. QED  BY <1>3, <1>8

\* "exactly one IDR per first-parent main commit", for every history main can
\* have: each chain records a stretch of the work line, whole and in order.
THEOREM OneRecord == Spec => []OneRecordPerCommit
<1>1. ExtendInv => OneRecordPerCommit
  <2> SUFFICES ASSUME ExtendInv, NEW c \in Chains
               PROVE  \E i \in 1 .. Len(WorkLine) + 1, j \in 0 .. Len(WorkLine) :
                        c = SubSeq(WorkLine, i, j)
    BY DEF OneRecordPerCommit
  <2>1. main \in Histories /\ Len(main) \in Nat \ {0} /\ Len(main) \in 0 .. Len(main)
    BY HistoryFacts DEF ExtendInv
  <2>2. WorkLine = Line(main, Len(main)) /\ WorkLine \in Seq(Commit)
    BY <2>1, NotarisableType DEF WorkLine, Line
  <2>3. \A p \in 0 .. Len(main) : Len(main) \in p .. Len(main)
    BY <2>1
  <2>4. CASE \E k \in 1 .. Len(main) : c = main[k].chain
    <3>1. PICK k \in 1 .. Len(main) : c = main[k].chain
      BY <2>4
    <3>2. k \in 0 .. Len(main) /\ c \in Chain
      BY <2>1, <3>1, PlaceOfHistory
    <3>3. PieceOf(c, Line(main, k))
      BY <3>1 DEF ExtendInv, HistoryInv
    <3>4. PieceOf(c, Line(main, Len(main)))
      BY <2>1, <2>3, <3>2, <3>3, PieceGrows
    <3>. QED  BY <2>2, <3>2, <3>4, PieceIsSubSeq
  <2>5. CASE c = file
    <3>1. file \in Chain /\ todo \in Chain /\ head \in 1 .. Len(main)
      BY DEF ExtendInv, JobAt
    <3>2. CASE pc = "idle"
      <4>1. file = << >> /\ Len(file) = 0
        BY <3>1, <3>2, EmptySeq DEF ExtendInv, JobAt
      <4>2. 1 \in 1 .. Len(WorkLine) + 1 /\ Len(WorkLine) \in Nat
        BY <2>2, LenProperties
      <4>3. PieceAt(file, WorkLine, 1)
        BY <4>1, <4>2 DEF PieceAt
      <4>4. PieceOf(file, WorkLine)
        BY <4>2, <4>3 DEF PieceOf
      <4>. QED  BY <2>2, <2>5, <3>1, <4>4, PieceIsSubSeq
    <3>3. CASE pc # "idle"
      <4>1. RestOf(file, todo, Line(main, head))
        BY <3>3 DEF ExtendInv, JobAt
      <4>2. head \in 0 .. Len(main) /\ Line(main, head) \in Seq(Commit)
        BY <2>1, <3>1, NotarisableType DEF Line
      <4>3. PieceOf(file, Line(main, head))
        BY <3>1, <4>1, <4>2, RestIsPiece
      <4>4. PieceOf(file, Line(main, Len(main)))
        BY <2>1, <2>3, <3>1, <4>2, <4>3, PieceGrows
      <4>. QED  BY <2>2, <2>5, <3>1, <4>4, PieceIsSubSeq
    <3>. QED  BY <3>2, <3>3
  <2>6. CASE branch # NoBranch /\ c = branch.chain
    <3>1. /\ branch.base \in 1 .. Len(main) /\ c \in Chain
          /\ PieceOf(c, Line(main, branch.base))
      BY <2>6 DEF ExtendInv, BranchAt
    <3>2. branch.base \in 0 .. Len(main)
      BY <2>1, <3>1
    <3>3. PieceOf(c, Line(main, Len(main)))
      BY <2>1, <2>3, <3>1, <3>2, PieceGrows
    <3>. QED  BY <2>2, <3>1, <3>3, PieceIsSubSeq
  <2>. QED  BY <2>4, <2>5, <2>6 DEF Chains
<1>. QED  BY <1>1, ExtendSafe, PTL

\* No commit of main takes back a record that an earlier one carried, whatever
\* raced to make it.
THEOREM NothingTakenBack == Spec => []RecordsKept
<1>1. ExtendInv => RecordsKept
  <2> SUFFICES ASSUME ExtendInv, NEW k \in 1 .. Len(main) - 1
               PROVE  IsPrefix(main[k].chain, main[k + 1].chain)
    BY DEF RecordsKept
  <2>1. main \in Histories /\ Len(main) \in Nat \ {0}
    BY HistoryFacts DEF ExtendInv
  <2>2. k \in 1 .. Len(main) /\ k + 1 \in 1 .. Len(main) /\ k <= k + 1
    BY <2>1
  <2> DEFINE c == main[k].chain
             d == main[k + 1].chain
  <2>3. c \in Chain /\ d \in Chain /\ Extends(d, c)
    BY <2>1, <2>2, PlaceOfHistory DEF ExtendInv, HistoryInv
  <2> HIDE DEF c, d
  <2>4. Len(c) \in Nat /\ Len(d) \in Nat /\ Len(c) <= Len(d)
    BY <2>3, LenProperties DEF Extends, Chain
  <2>5. /\ \A n \in 1 .. Len(c) : d[n] \in Commit /\ c[n] \in Commit
        /\ 1 \in Int /\ Len(c) \in Int /\ Len(c) - 1 + 1 = Len(c)
    <3>1. \A n \in 1 .. Len(c) : n \in 1 .. Len(d)
      BY <2>4
    <3>. QED  BY <2>3, <2>4, <3>1, ElementOfSeq DEF Chain
  <2>6. SubSeq(c, 1, Len(c)) = c
    BY <2>3, SubSeqFull DEF Chain
  <2>7. /\ SubSeq(d, 1, Len(c)) \in Seq(Commit)
        /\ Len(SubSeq(d, 1, Len(c))) = IF 1 <= Len(c) THEN Len(c) - 1 + 1 ELSE 0
        /\ \A n \in 1 .. Len(c) - 1 + 1 : SubSeq(d, 1, Len(c))[n] = d[1 + n - 1]
    BY <2>5, SubSeqProperties
  <2>8. Len(SubSeq(d, 1, Len(c))) = Len(c)
    BY <2>4, <2>7
  <2>9. \A n \in 1 .. Len(c) : SubSeq(d, 1, Len(c))[n] = c[n]
    BY <2>3, <2>4, <2>7 DEF Extends
  <2>10. SubSeq(d, 1, Len(c)) = c
    BY <2>3, <2>7, <2>8, <2>9, SeqEqual DEF Chain
  <2>. QED  BY <2>4, <2>6, <2>10 DEF IsPrefix, c, d
<1>. QED  BY <1>1, ExtendSafe, PTL

\* Two rests of one line that begin with the same commit are the same rest.
LEMMA SameRest ==
  ASSUME NEW m \in Histories, SubjectsUnique(m), NEW h \in 0 .. Len(m), NEW k \in h .. Len(m),
         NEW c \in Chain, c # << >>,
         NEW f \in Chain, RestOf(f, << >>, Line(m, h)), Extends(f, c),
         NEW g \in Chain, NEW t \in Chain, RestOf(g, t, Line(m, k)), Extends(g, c)
  PROVE  ToSet(f) \subseteq ToSet(g) \cup ToSet(t)
<1> DEFINE L == Line(m, h)
           M == Line(m, k)
<1>1. /\ L \in Seq(Commit) /\ M \in Seq(Commit) /\ Len(L) <= Len(M)
      /\ \A n \in 1 .. Len(L) : M[n] = L[n]
  BY LineGrows
<1>2. PICK i \in 1 .. Len(L) + 1 : RestAt(f, << >>, L, i)
  BY DEF RestOf
<1>3. PICK j \in 1 .. Len(M) + 1 : RestAt(g, t, M, j)
  BY DEF RestOf
<1>4. /\ Len(L) \in Nat /\ Len(M) \in Nat /\ Len(c) \in Nat /\ Len(f) \in Nat
      /\ Len(g) \in Nat /\ Len(t) \in Nat /\ Len(<< >>) = 0 /\ Len(c) # 0
  <2>1. Len(L) \in Nat /\ Len(M) \in Nat
    BY <1>1, LenProperties
  <2>. QED  BY <2>1, LenProperties, EmptySeq DEF Chain
<1>5. k \in 0 .. Len(m)
  <2>1. Len(m) \in Nat
    BY LenProperties DEF Histories
  <2>. QED  BY <2>1
<1>6. \A p, q \in 1 .. Len(M) : M[p] = M[q] => p = q
  BY <1>5, LineDistinct
<1> HIDE DEF L, M
<1>7. f[1] = c[1] /\ g[1] = c[1] /\ 1 \in 1 .. Len(f) /\ 1 \in 1 .. Len(g)
  <2>1. 1 \in 1 .. Len(c) /\ Len(c) <= Len(f) /\ Len(c) <= Len(g)
    BY <1>4 DEF Extends
  <2>. QED  BY <1>4, <2>1 DEF Extends
<1>8. i + Len(f) = Len(L) + 1 /\ j + Len(g) + Len(t) = Len(M) + 1
  BY <1>2, <1>3, <1>4 DEF RestAt
<1>9. f[1] = L[i] /\ g[1] = M[j]
  <2>1. f[1] = L[i + 1 - 1] /\ g[1] = M[j + 1 - 1]
    BY <1>2, <1>3, <1>7 DEF RestAt
  <2>. QED  BY <1>4, <2>1
<1>10. i = j
  <2>1. i \in 1 .. Len(L) /\ i \in 1 .. Len(M) /\ j \in 1 .. Len(M)
    BY <1>1, <1>4, <1>7, <1>8
  <2>2. M[i] = M[j]
    BY <1>1, <1>7, <1>9, <2>1
  <2>. QED  BY <1>6, <2>1, <2>2
<1>11. DOMAIN f = 1 .. Len(f) /\ DOMAIN g = 1 .. Len(g) /\ DOMAIN t = 1 .. Len(t)
  BY LenProperties DEF Chain
<1>12. ASSUME NEW n \in 1 .. Len(f)
       PROVE  f[n] \in ToSet(g) \cup ToSet(t)
  <2>1. i + n - 1 \in 1 .. Len(L) /\ n \in Nat /\ n >= 1
    BY <1>4, <1>8
  <2>2. f[n] = M[i + n - 1]
    <3>1. f[n] = L[i + n - 1]
      BY <1>2 DEF RestAt
    <3>. QED  BY <1>1, <2>1, <3>1
  <2>3. CASE n \in 1 .. Len(g)
    <3>1. g[n] = M[j + n - 1]
      BY <1>3, <2>3 DEF RestAt
    <3>2. f[n] = g[n]
      BY <1>10, <2>2, <3>1
    <3>. QED  BY <1>11, <2>3, <3>2 DEF ToSet
  <2>4. CASE n \notin 1 .. Len(g)
    <3>1. PICK p \in Nat : p = n - Len(g)
      <4>1. n > Len(g)
        BY <1>4, <2>1, <2>4
      <4>2. n - Len(g) \in Nat
        BY <1>4, <2>1, <4>1
      <4>. QED  BY <4>2
    <3>2. p \in 1 .. Len(t) /\ j + Len(g) + p - 1 = i + n - 1
      BY <1>1, <1>4, <1>8, <1>10, <2>1, <2>4, <3>1
    <3>3. t[p] = M[j + Len(g) + p - 1]
      BY <1>3, <3>2 DEF RestAt
    <3>4. f[n] = t[p]
      BY <2>2, <3>2, <3>3
    <3>. QED  BY <1>11, <3>2, <3>4 DEF ToSet
  <2>. QED  BY <2>3, <2>4
<1>. QED  BY <1>11, <1>12 DEF ToSet

\* "re-running after a reset recomputes the full pending set": nothing the job
\* was about to record is forgotten when its push fails.
THEOREM RecomputeIsFull == Spec => RecomputeKeepsPending
<1>1. ExtendInv /\ ExtendInv' /\ [Next]_vars
        => [EraStarted /\ pc = "pushing" /\ pc' = "extending"
              => ToSet(file) \subseteq ToSet(file') \cup ToSet(todo')]_vars
  <2> SUFFICES ASSUME ExtendInv, ExtendInv', Next,
                      EraStarted, pc = "pushing", pc' = "extending"
               PROVE  ToSet(file) \subseteq ToSet(file') \cup ToSet(todo')
    BY Zenon
  <2>1. CASE PushRaced \/ PushErrors
    <3>1. main' = main \/ (head = Len(main) /\ main' = PushedMain)
      <4>1. PushRaced => main' = main
        BY DEF PushRaced
      <4>2. PushErrors => main' = main \/ (head = Len(main) /\ main' = PushedMain)
        BY Zenon DEF PushErrors
      <4>. QED  BY <2>1, <4>1, <4>2
    <3>2. /\ HistoryInv(main) /\ JobAt(main, pc, head, file, todo)
          /\ main \in Histories /\ Len(main) \in Nat \ {0}
      BY HistoryFacts DEF ExtendInv
    <3>3. HistoryInv(main') /\ JobAt(main', pc', head', file', todo')
      BY DEF ExtendInv
    <3>4. main' \in Histories /\ Len(main') \in Nat \ {0}
      BY <3>3, HistoryFacts
    <3>5. head' = Len(main')
      BY <2>1 DEF PushRaced, PushErrors, Recompute, CheckOut
    <3>6. /\ head \in 1 .. Len(main) /\ head \in 0 .. Len(main) /\ file \in Chain
          /\ todo = << >> /\ Extends(file, main[head].chain)
          /\ RestOf(file, << >>, Line(main, head))
      BY <3>2 DEF JobAt
    <3>7. /\ Len(main) <= Len(main')
          /\ main'[head] = main[head]
          /\ Line(main', head) = Line(main, head)
      <4>1. CASE main' = main
        BY <3>2, <4>1
      <4>2. CASE head = Len(main) /\ main' = PushedMain
        <5>1. [subject |-> Bot, chain |-> file] \in [subject : Commit \cup {Bot}, chain : Chain]
          BY <3>6
        <5>. QED  BY <3>2, <3>6, <4>2, <5>1, LongerHistory DEF PushedMain
      <4>. QED  BY <3>1, <4>1, <4>2
    <3>8. head \in 1 .. Len(main') /\ head <= Len(main') /\ Len(main') \in 1 .. Len(main')
      BY <3>2, <3>4, <3>6, <3>7
    <3>9. /\ file' \in Chain /\ todo' \in Chain
          /\ RestOf(file', todo', Line(main', Len(main')))
          /\ Extends(file', main'[Len(main')].chain)
      BY <3>3, <3>5 DEF JobAt
    <3>10. /\ main[head].chain \in Chain /\ main[head].chain # << >>
           /\ main'[Len(main')].chain \in Chain
      BY <3>2, <3>4, <3>6, <3>8, PlaceOfHistory DEF EraStarted
    <3>11. Extends(file', main[head].chain)
      <4>1. Extends(main'[Len(main')].chain, main[head].chain)
        BY <3>3, <3>7, <3>8 DEF HistoryInv
      <4>. QED  BY <3>9, <3>10, <4>1, ExtendsFurther
    <3>12. head \in 0 .. Len(main') /\ Len(main') \in head .. Len(main') /\ SubjectsUnique(main')
      BY <3>3, <3>4, <3>8 DEF HistoryInv
    <3>13. RestOf(file, << >>, Line(main', head))
      BY <3>6, <3>7
    <3>. QED  BY <3>4, <3>6, <3>9, <3>10, <3>11, <3>12, <3>13, SameRest
  <2>2. CASE ~ (PushRaced \/ PushErrors)
    BY <2>2 DEF Next, Job, MergeWork, MergeBranch, Dispatch, StartRun, AppendRecord,
                NothingToLand, Land, PushLands, PushDeclined, Propose, RunnerDies,
                EndRun, job
  <2>. QED  BY <2>1, <2>2
<1>. QED  BY <1>1, ExtendSafe, PTL DEF Spec, RecomputeKeepsPending

=============================================================================
