---------------------------- MODULE MCGovernance ----------------------------
(***************************************************************************)
(* Governance for TLC: the questions a server is asked.                    *)
(***************************************************************************)
EXTENDS Governance

MCRule == {r \in [fits : SUBSET Content, raises : SUBSET Content, verdict : {"deny"}, priority : {0, 1}] :
             r.fits \cap r.raises = {}}
MCPolicy == [tool : {"policy"}, rules : UNION {[1 .. n -> MCRule] : n \in 0 .. 3}, records : {<<"x">>, <<"x", "y">>}]

MCGrant == [actor : Actor, tenant : Tenant, roles : {{}, {"attorney"}}]
MCEntry == [action : Action, roles : {{"attorney"}, {"paralegal"}}]
MCAccess ==
  [tool : {"access"}, actors : UNION {[1 .. n -> MCGrant] : n \in 0 .. 2},
   entries : UNION {[1 .. n -> MCEntry] : n \in 0 .. 2}, actor : {"alice"}, tenant : {"t"}, action : {"sign"}]

MCQuery == MCPolicy \cup MCAccess

=============================================================================
