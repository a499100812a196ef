----------------------------- MODULE PaidAccess -----------------------------
(***************************************************************************)
(* What the platform promises of the access of one family, without         *)
(* operators, parents, transactions and locks: a payment, a refund, a      *)
(* child that is added and a backup that is restored each happen at one    *)
(* moment, on what is recorded then.  Only a refund may look at the        *)
(* remaining payments as of an earlier time, when it was begun, and end    *)
(* the access as of a time since.                                          *)
(***************************************************************************)
EXTENDS Naturals

CONSTANTS References, Terms, Forever

VARIABLES
  now,
  state, terms,  \* of each reference: "none", "paid" or "refunded", and what was paid
  policy,        \* [until, limit]
  children

vars == <<now, state, terms, policy, children>>

Init ==
  /\ now = 1 /\ state = [r \in References |-> "none"]
  /\ policy.until \in {now, Forever} /\ children <= policy.limit

Pay(r, t) ==
  /\ state[r] = "none" /\ t.starts <= now
  /\ children <= t.limit
  /\ policy.until = Forever \/ policy.until <= t.ends
  /\ state' = [state EXCEPT ![r] = "paid"] /\ terms' = [terms EXCEPT ![r] = t]
  /\ policy' = [until |-> t.ends, limit |-> t.limit]
  /\ UNCHANGED <<now, children>>

\* What is left of the payments at the time t, after the refund of r.
Left(r, t) ==
  {q \in References \ {r} : state[q] = "paid" /\ terms[q].starts <= t /\ t < terms[q].ends}

Refund(r, t) ==
  /\ state[r] = "paid" /\ t <= now
  /\ state' = [state EXCEPT ![r] = "refunded"]
  /\ \/ Left(r, t) = {} /\ \E end \in t .. now : policy' = [until |-> end, limit |-> 0]
     \/ \E q \in Left(r, t) :
          /\ \A s \in Left(r, t) : terms[s].ends <= terms[q].ends
          /\ policy' = [until |-> terms[q].ends, limit |-> terms[q].limit]
  /\ UNCHANGED <<now, terms, children>>

\* A child is added, or the children of a backup take their place.
Fill == children' <= policy.limit /\ UNCHANGED <<now, state, terms, policy>>

Remove == children' = children - 1 /\ UNCHANGED <<now, state, terms, policy>>

Tick == now' = now + 1 /\ UNCHANGED <<state, terms, policy, children>>

Next ==
  \/ \E r \in References : \/ \E t \in Terms : Pay(r, t)
                           \/ \E t \in 1 .. now : Refund(r, t)
  \/ Fill \/ Remove \/ Tick

Spec == Init /\ [][Next]_vars
=============================================================================
