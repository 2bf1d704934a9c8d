---------------------------- MODULE ProbatRules ----------------------------
(***************************************************************************)
(* The records of a chain file such as PROBAT.md and the pure rules        *)
(* bin/notarise applies to them: parse_probat_text, verify_chain and       *)
(* _insert_after_last_block.                                               *)
(*                                                                         *)
(* A file is the sequence of its ```idr blocks; headings and appendices    *)
(* carry no state.  A decision_id is a nanosecond timestamp, so a record's *)
(* id also stands for its hash.                                            *)
(***************************************************************************)
EXTENDS Naturals, Sequences, SequencesExt

CONSTANTS
  Appender,    \* calls of append_to_chain, and the records they sign
  Seed,        \* records the file holds from the start
  Genesis,     \* GENESIS_PREVIOUS_HASH
  Malformed    \* a block that is not closed, not JSON, or has wrong fields

ASSUME GenesisIsNoRecord == Genesis \notin Appender \cup Seed
ASSUME SeedsAreNoAppends == Appender \cap Seed = {}

Id == Appender \cup Seed
Hash == Id \cup {Genesis}

\* good: signature, protocol and confidence all pass verify_one.
Record == [id : Id, prev : Hash, good : BOOLEAN]
ASSUME MalformedIsNoRecord == Malformed \notin Record

File == Seq(Record \cup {Malformed})

\* parse_probat_text returns, rather than raising ValueError.
Parses(f) == \A k \in 1 .. Len(f) : f[k] # Malformed

\* Variant: the hash of the first record.
TailHash_Oldest(f) == IF f = << >> THEN Genesis ELSE f[1].id

\* The previous_hash of the next record.
TailHash(f) == IF f = << >> THEN Genesis ELSE f[Len(f)].id

\* verify_chain finds no failure.
Verifies(f) ==
  \A k \in 1 .. Len(f) :
    /\ f[k].good
    /\ f[k].prev = IF k = 1 THEN Genesis ELSE f[k - 1].id

\* A chain that append_to_chain is willing to grow, and to leave behind.
Acceptable(f) == f # << >> /\ Parses(f) /\ Verifies(f)

=============================================================================
