----------------------------- MODULE AtomicCards -----------------------------
(***************************************************************************)
(* What the handling of a family card promises, without screens, versions  *)
(* to compare and requests on their way: every save is one whole command,  *)
(* applied at once to the card as it is, together with its rewards.  A     *)
(* card is created as it was drafted: who takes part was in the family at  *)
(* the moment of the draft, and may have left since.  An                   *)
(* import returns to an earlier card and leaves some people behind; each   *)
(* of them may then save once what their command made of another card.     *)
(***************************************************************************)
EXTENDS Naturals

CONSTANTS
  People, NoCard,
  Creates(_, _, _),   \* a person may draft this card for this family
  Commands(_, _, _),  \* what a command of a person may make of a card
  Rewards(_, _)       \* what the change of one card into another earns

VARIABLES
  card, ledger, active, snapshots, late,
  drafts    \* the card that each person is about to create, or NoCard

vars == <<card, ledger, active, snapshots, late, drafts>>

Init ==
  /\ card = NoCard /\ ledger = {} /\ active = People /\ snapshots = {} /\ late = {}
  /\ drafts = [p \in People |-> NoCard]

\* The people who are still here are paid, once for each thing.
Pay(e) == ledger' = ledger \cup {r \in Rewards(card, e) : r.person \in active}

Draft(p) ==
  /\ card.version = 0 /\ Creates(p, active, drafts'[p])
  /\ drafts' = [drafts EXCEPT ![p] = drafts'[p]]
  /\ UNCHANGED <<card, ledger, active, snapshots, late>>

\* The card is the draft, but those who are paid are the ones still here.
Create(p) ==
  /\ card.version = 0 /\ drafts[p] # NoCard /\ card' = drafts[p] /\ Pay(card')
  /\ drafts' = [drafts EXCEPT ![p] = NoCard]
  /\ UNCHANGED <<active, snapshots, late>>

\* The new card counts its saves; otherwise it is what the command made of this one.
Save(p) ==
  LET e == [card' EXCEPT !.version = card.version] IN
  /\ card.version > 0 /\ card'.version = card.version + 1
  /\ p \in late \/ Commands(p, card, e)
  /\ Pay(e) /\ late' = late \ {p}
  /\ UNCHANGED <<active, snapshots, drafts>>

\* A person gives up a draft or a request, or looks at the card again.
CatchUp(p) ==
  /\ late' = late \ {p} /\ drafts' = [drafts EXCEPT ![p] = NoCard]
  /\ UNCHANGED <<card, ledger, active, snapshots>>

Leave(p) == active' = active \ {p} /\ UNCHANGED <<card, ledger, snapshots, late, drafts>>

Export ==
  /\ snapshots' = snapshots \cup {[card |-> card, ledger |-> ledger, active |-> active]}
  /\ UNCHANGED <<card, ledger, active, late, drafts>>

Import(s) ==
  /\ card' = s.card /\ ledger' = s.ledger /\ active' = s.active
  /\ late' \in SUBSET People
  /\ UNCHANGED <<snapshots, drafts>>

Next ==
  \/ \E p \in People : Draft(p) \/ Create(p) \/ Save(p) \/ CatchUp(p) \/ Leave(p)
  \/ Export \/ \E s \in snapshots : Import(s)

Spec == Init /\ [][Next]_vars
=============================================================================
