-------------------------- MODULE MCAccessSessions --------------------------
(* Model values for checking AccessSessions: the sessions at the provider   *)
(* all belong to one person, requests and identifiers are interchangeable.  *)
EXTENDS AccessSessions, TLC

CONSTANT Person
MCSubOf == [k \in Sids |-> Person]
Symmetry == Permutations(Requests) \cup Permutations(Ids) \cup Permutations(Sids)
=============================================================================
