---------------------------- MODULE EventLedger ----------------------------
(***************************************************************************)
(* What the notification outbox promises, without recipients, leases,      *)
(* workers or consent: an event is published once, leaves the queue once,  *)
(* is called delivered only after the remote queue accepted its key, and   *)
(* is never offered to the remote queue again after it was called          *)
(* delivered or failed.  A cancellation may race with an offer already     *)
(* being made, so a cancelled event can still turn out to be accepted.     *)
(***************************************************************************)
CONSTANT Events

VARIABLES
  status,      \* "absent", "pending" or one of the three final states
  accepted     \* event keys the remote queue holds

ledger == <<status, accepted>>

Init ==
  /\ status = [e \in Events |-> "absent"]
  /\ accepted = {}

Moved(S, to) == [e \in Events |-> IF e \in S THEN to ELSE status[e]]

Publish(S) ==
  /\ \A e \in S : status[e] = "absent"
  /\ status' = Moved(S, "pending")
  /\ UNCHANGED accepted

Cancel(S) ==
  /\ \A e \in S : status[e] = "pending"
  /\ status' = Moved(S, "cancelled")
  /\ UNCHANGED accepted

Close(e) ==
  /\ status[e] = "pending"
  /\ \/ e \in accepted /\ status' = Moved({e}, "delivered")
     \/ status' = Moved({e}, "failed")
  /\ UNCHANGED accepted

Accept(e) ==
  /\ status[e] \in {"pending", "cancelled"}
  /\ accepted' = accepted \cup {e}
  /\ UNCHANGED status

Next ==
  \/ \E S \in SUBSET Events : Publish(S) \/ Cancel(S)
  \/ \E e \in Events : Close(e) \/ Accept(e)

Spec == Init /\ [][Next]_ledger
=============================================================================
