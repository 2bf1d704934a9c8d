----------------------------- MODULE MCClioCall -----------------------------
(***************************************************************************)
(* ClioCall for TLC: what two calls may be asked to do and where.          *)
(***************************************************************************)
EXTENDS ClioCall

\* A name select_store does not know, and the four defaults and two names.  Calls
\* follow one another or the store is steady.
MCEnv ==
  {[explicit |-> x, security |-> s, material |-> m, alone |-> a, steady |-> w] :
     x \in {"", "vault", "memory", "encrypted_file"}, s, m, a, w \in BOOLEAN} \
  [explicit : STRING, security : BOOLEAN, material : BOOLEAN, alone : {FALSE}, steady : {FALSE}]

Ask(k, t) == [kind |-> k, tenant |-> t, logged |-> TRUE]
MCAsked ==
  {<<Ask("read", "t"), Ask("read", "t")>>, <<Ask("read", "t"), Ask("read", "u")>>,
   <<Ask("mutate", "t"), Ask("grant", "t")>>, <<Ask("vincent", "t"), Ask("grant", "t")>>}

=============================================================================
