---------------------------- MODULE MCFamilyCards ----------------------------
(* A parent and a child; two plans for steps, the first of them fit for a habit. *)
EXTENDS FamilyCards
CONSTANTS mum, kid, anyone

MCParents == {mum}
MCChildren == {kid}
MCPlans == {[steps |-> <<kid, anyone>>, people |-> {}, days |-> {1}],
            [steps |-> <<anyone>>, people |-> {kid, mum}, days |-> {}]}
=============================================================================
