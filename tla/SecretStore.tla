---------------------------- MODULE SecretStore ----------------------------
(***************************************************************************)
(* The secret stores of client/donna/secrets.py as far as the Clio tokens  *)
(* go.  A token is the number of the grant it came from; 0 is no token.    *)
(***************************************************************************)
EXTENDS Naturals

CONSTANT Tenant

Service == {"access", "refresh", "expires"}

\* What a store holds: the credentials of the OAuth app, or not, and the tokens.
Image == [app : BOOLEAN, token : [Tenant -> [Service -> Nat]]]
Empty == [app |-> FALSE, token |-> [t \in Tenant |-> [s \in Service |-> 0]]]

Named == {"keychain", "env", "memory", "encrypted_file"}

\* select_store over DONNA_SECRET_STORE, the security program and the key.  The
\* constructor of the file store raises without a key.
SelectStore(e) ==
  LET pick == IF e.explicit \in Named THEN e.explicit
              ELSE IF e.security THEN "keychain"
              ELSE IF e.material THEN "encrypted_file" ELSE "env"
  IN IF pick = "encrypted_file" /\ ~e.material THEN "raises" ELSE pick

\* Every access makes a new store: what was written to memory is gone.
Visible(backend, image) == IF backend = "memory" THEN Empty ELSE image

Put(image, t, s, value) == [image EXCEPT !.token[t][s] = value]

=============================================================================
