----------------------------- MODULE ChainRules -----------------------------
(***************************************************************************)
(* The data of a widget session chain and the pure rules pushEntry applies *)
(* to it between its read and its write (web/lib/widget-storage.js), plus  *)
(* the check that web/api/widget-verify.js runs over a stored chain.       *)
(*                                                                         *)
(* Every notarise request signs at most one entry, over a fresh            *)
(* decision_id and timestamp, so no two entries share a hash: the request  *)
(* itself stands for the hash of the entry it signs.                       *)
(***************************************************************************)
EXTENDS Naturals, FiniteSets, Sequences, SequencesExt

CONSTANTS
  Request,          \* notarise requests, and the hashes of their entries
  Ip,               \* non-empty client addresses
  NoIp,             \* the empty address: clientIp found no header
  Genesis,          \* GENESIS_PREVIOUS_HASH
  MaxChainLen,      \* MAX_CHAIN_LEN, 100 in the code
  MaxPerIpInChain   \* MAX_PER_IP_IN_CHAIN, 5 in the code

ASSUME CapsArePositive ==
  /\ MaxChainLen \in Nat \ {0}
  /\ MaxPerIpInChain \in Nat \ {0}
ASSUME GenesisIsNoHash == Genesis \notin Request
ASSUME NoIpIsNoAddress == NoIp \notin Ip

Address == Ip \cup {NoIp}
Hash == Request \cup {Genesis}
Entry == [hash : Request, prev : Hash, ip : Address]

\* Variant for sensitivity runs: the wrong end of the chain is taken for its tip.
TipHash_Oldest(c) == IF c = << >> THEN Genesis ELSE c[1].hash

\* The previous_hash the next entry must carry.
TipHash(c) == IF c = << >> THEN Genesis ELSE c[Len(c)].hash

PositionsOf(c, i) == {k \in 1 .. Len(c) : c[k].ip = i}

\* Variants: the newest entry goes instead of the oldest; the cap bites one late.
DropOldestOf_Newest(c, i) ==
  IF i # NoIp /\ Cardinality(PositionsOf(c, i)) >= MaxPerIpInChain
  THEN RemoveAt(c, Max(PositionsOf(c, i)))
  ELSE c
DropOldestOf_TooLate(c, i) ==
  IF i # NoIp /\ Cardinality(PositionsOf(c, i)) > MaxPerIpInChain
  THEN RemoveAt(c, Min(PositionsOf(c, i)))
  ELSE c

\* Per-address cap: an address that already fills its share loses its oldest
\* entry; the empty address is exempt.
DropOldestOf(c, i) ==
  IF i # NoIp /\ Cardinality(PositionsOf(c, i)) >= MaxPerIpInChain
  THEN RemoveAt(c, Min(PositionsOf(c, i)))
  ELSE c

\* Variant: the loop stops at a full chain, with no room for the new entry.
ShiftToFit_OffByOne(c) ==
  IF Len(c) > MaxChainLen
  THEN SubSeq(c, Len(c) - MaxChainLen + 1, Len(c))
  ELSE c

\* Variant: pop() where the code has shift().
ShiftToFit_Pop(c) ==
  IF Len(c) >= MaxChainLen THEN SubSeq(c, 1, MaxChainLen - 1) ELSE c

\* Global cap: the shift() loop leaves room for exactly one more entry.
ShiftToFit(c) ==
  IF Len(c) >= MaxChainLen
  THEN SubSeq(c, Len(c) - MaxChainLen + 2, Len(c))
  ELSE c

PushOnto(c, e) == Append(ShiftToFit(DropOldestOf(c, e.ip)), e)

\* The entry request r signs for address i on top of chain c.  previous_hash is
\* taken from the chain as read, before anything is evicted from it.
SignedOn(c, r, i) == [hash |-> r, prev |-> TipHash(c), ip |-> i]

Hashes(c) == {c[k].hash : k \in 1 .. Len(c)}

\* The previous_hash walk finds nothing wrong at entry k.
LinksUp(c, k) == c[k].prev = IF k = 1 THEN Genesis ELSE c[k - 1].hash

\* What widget-verify's default mode answers for a stored chain.  Stored
\* entries are never altered, so their signatures hold and the previous_hash
\* walk decides.
SessionVerifies(c) == \A k \in 1 .. Len(c) : LinksUp(c, k)

\* No two of these entries name the same predecessor, unless they start a chain.
Unforked(W) ==
  \A e, f \in W : e.prev = f.prev /\ e.prev # Genesis => e = f

=============================================================================
