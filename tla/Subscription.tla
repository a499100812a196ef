---------------------------- MODULE Subscription ----------------------------
(***************************************************************************)
(* The access of one hosted family: payments and refunds that operators    *)
(* record in the platform catalog, their projection in the family's        *)
(* service_policy (until when it may write and for how many children), and *)
(* the requests of parents that depend on it.                              *)
(*                                                                         *)
(* An operator's transaction has the time of its BEGIN, waits for the row  *)
(* of the family and then for service_policy; a parent's request is        *)
(* authorised by the application and later locks service_policy, counts    *)
(* the children and commits.  Every actor may fail at any step.            *)
(***************************************************************************)
EXTENDS Naturals, FiniteSets

CONSTANTS
  Operators, Parents, Nobody,
  References,     \* payment references
  Terms,          \* what a payment may say: [starts, ends, limit]
  InitialLimit,   \* child limit of a new family
  MaxChildren,    \* bound: active children
  MaxTime         \* bound: the clock

Times == 1 .. MaxTime
Ends == 2 .. MaxTime + 1
Forever == MaxTime + 2     \* access_until is null

ASSUME SubscriptionAssumption ==
  /\ Nobody \notin Operators \cup Parents \cup References /\ Operators \cap Parents = {}
  /\ MaxTime \in Nat \ {0} /\ MaxChildren \in Nat /\ InitialLimit \in Nat
  /\ Terms \subseteq [starts : Times, ends : Ends, limit : Nat \ {0}]
  /\ \A t \in Terms : t.starts < t.ends

VARIABLES
  now,
  payments,       \* fq_platform.payments
  policy,         \* service_policy: access_until, child_limit
  children,       \* active participants with role child
  commands,       \* one command for each operator
  requests,       \* one request for each parent
  policyRow       \* who has locked the row of service_policy

vars == <<now, payments, policy, children, commands, requests, policyRow>>

NoTerms == [starts |-> 1, ends |-> 2, limit |-> 0]
Payment == [state : {"none", "paid", "refunded"}, terms : Terms \cup {NoTerms}, created : Times]
NoPayment == [state |-> "none", terms |-> NoTerms, created |-> 1]
Policy == [until : Times \cup Ends \cup {Forever}, limit : Nat]
Command == [pc : {"idle", "payment", "recording", "refund"}, reference : References \cup {Nobody},
            terms : Terms \cup {NoTerms}, begun : Times, seen : Policy, counted : 0 .. MaxChildren]
\* What a parent asks for: one more child, or the children of a backup.
More == MaxChildren + 1
Request == [pc : {"idle", "allowed", "counted"}, wish : 0 .. More,
            seen : Policy, counted : 0 .. MaxChildren]

NoPolicy == [until |-> 1, limit |-> 0]
NoCommand == [pc |-> "idle", reference |-> Nobody, terms |-> NoTerms,
              begun |-> 1, seen |-> NoPolicy, counted |-> 0]
NoRequest == [pc |-> "idle", wish |-> 0, seen |-> NoPolicy, counted |-> 0]

\* provision: a new family has access until now, that is none; a family that
\* was connected with its data has it without term.
Init ==
  /\ now = 1
  /\ payments = [r \in References |-> NoPayment]
  /\ \/ children = 0 /\ policy = [until |-> 1, limit |-> InitialLimit]
     \/ /\ children \in 0 .. MaxChildren
        /\ policy = [until |-> Forever,
                     limit |-> IF children > InitialLimit THEN children ELSE InitialLimit]
  /\ commands = [o \in Operators |-> NoCommand]
  /\ requests = [p \in Parents |-> NoRequest]
  /\ policyRow = Nobody

-----------------------------------------------------------------------------
Access == policy.until > now
Unrefunded == {r \in References : payments[r].state = "paid"}
\* Payments that cover the moment t, by their rows.
Covering(t) == {r \in Unrefunded : payments[r].terms.starts <= t /\ t < payments[r].terms.ends}

\* A command that fails, is refused, changes nothing, or whose answer is lost.
EndCommand(o) ==
  /\ commands[o].pc # "idle"
  /\ commands' = [commands EXCEPT ![o] = NoCommand]
  /\ policyRow' = IF policyRow = o THEN Nobody ELSE policyRow
  /\ UNCHANGED <<now, payments, policy, children, requests>>

\* Mutant: a period may start in the future.
BeginPaymentAhead(o, r, terms) ==
  /\ commands[o].pc = "idle"
  /\ commands' = [commands EXCEPT ![o] =
       [NoCommand EXCEPT !.pc = "payment", !.reference = r, !.terms = terms, !.begun = now]]
  /\ UNCHANGED <<now, payments, policy, children, requests, policyRow>>

\* RecordPayment is validated and begins; a period may not start in the future.
BeginPayment(o, r, terms) ==
  /\ commands[o].pc = "idle" /\ terms.starts <= now
  /\ commands' = [commands EXCEPT ![o] =
       [NoCommand EXCEPT !.pc = "payment", !.reference = r, !.terms = terms, !.begun = now]]
  /\ UNCHANGED <<now, payments, policy, children, requests, policyRow>>

\* Mutant: a reference counts as new once its payment was refunded.
NotPaid(r) == payments[r].state # "paid"

\* The reference has not been recorded, with these or other terms.
Unrecorded(r) == payments[r].state = "none"

\* The family's row is held from here to the end of a payment, as is the policy.
ReadPolicy(o) ==
  /\ commands[o].pc = "payment" /\ policyRow = Nobody
  /\ Unrecorded(commands[o].reference)
  /\ policyRow' = o
  /\ commands' = [commands EXCEPT ![o].pc = "recording", ![o].seen = policy, ![o].counted = children]
  /\ UNCHANGED <<now, payments, policy, children, requests>>

\* Mutant: the term that was granted is not compared.
FitsLimit(c) == c.counted <= c.terms.limit

\* The limit holds the children there are, and the term is not shortened.
Fits(c) == /\ c.counted <= c.terms.limit
           /\ c.seen.until = Forever \/ c.seen.until <= c.terms.ends

CommitPayment(o) ==
  LET c == commands[o] IN
  /\ c.pc = "recording" /\ Fits(c)
  /\ payments' = [payments EXCEPT ![c.reference] =
       [state |-> "paid", terms |-> c.terms, created |-> c.begun]]
  /\ policy' = [until |-> c.terms.ends, limit |-> c.terms.limit]
  /\ commands' = [commands EXCEPT ![o] = NoCommand]
  /\ policyRow' = Nobody
  /\ UNCHANGED <<now, children, requests>>

\* RefundPayment has begun and found the payment.
BeginRefund(o, r) ==
  /\ commands[o].pc = "idle" /\ payments[r].state # "none"
  /\ commands' = [commands EXCEPT ![o] =
       [NoCommand EXCEPT !.pc = "refund", !.reference = r, !.begun = now]]
  /\ UNCHANGED <<now, payments, policy, children, requests, policyRow>>

\* Mutant: the last payment recorded, also if it is the one refunded.
LastOfAll(r, t) ==
  {q \in Covering(t) : \A s \in Covering(t) : payments[s].created <= payments[q].created}

\* order by ends_at desc, created_at desc: what is left after the refund of r,
\* by the clock of the transaction's BEGIN.
Longest(r, t) ==
  LET left == Covering(t) \ {r}
      ends == {q \in left : \A s \in left : payments[s].terms.ends <= payments[q].terms.ends}
  IN {q \in ends : \A s \in ends : payments[s].created <= payments[q].created}

\* The rest of the refund, once the row of the family and the policy are free:
\* an earlier refund of the payment ends it (EndCommand).  With nothing left the access
\* ends at a time that was read before the wait for the policy.
CommitRefund(o) ==
  LET c == commands[o]
      r == c.reference
  IN
  /\ c.pc = "refund" /\ policyRow = Nobody /\ payments[r].state = "paid"
  /\ payments' = [payments EXCEPT ![r].state = "refunded"]
  /\ \/ \E q \in Longest(r, c.begun) :
          policy' = [until |-> payments[q].terms.ends, limit |-> payments[q].terms.limit]
     \/ /\ Longest(r, c.begun) = {}
        /\ \E t \in c.begun .. now : policy' = [until |-> t, limit |-> 0]
  /\ commands' = [commands EXCEPT ![o] = NoCommand]
  /\ UNCHANGED <<now, children, requests, policyRow>>

-----------------------------------------------------------------------------
EndRequest(p) ==
  /\ requests[p].pc # "idle"
  /\ requests' = [requests EXCEPT ![p] = NoRequest]
  /\ policyRow' = IF policyRow = p THEN Nobody ELSE policyRow
  /\ UNCHANGED <<now, payments, policy, children, commands>>

\* The family is resolved and the application's writable() says yes.
Authorise(p) ==
  /\ requests[p].pc = "idle" /\ Access
  /\ requests' = [requests EXCEPT ![p].pc = "allowed"]
  /\ UNCHANGED <<now, payments, policy, children, commands, policyRow>>

\* Mutant: the policy is read without "for update".
RowIsFreeAlways == TRUE

RowIsFree == policyRow = Nobody

\* CreateParticipant looks at the term again; an import does not.
CountChildren(p, wish) ==
  /\ requests[p].pc = "allowed" /\ RowIsFree
  /\ wish = More => Access
  /\ policyRow' = p
  /\ requests' = [requests EXCEPT ![p] = [pc |-> "counted", wish |-> wish, seen |-> policy, counted |-> children]]
  /\ UNCHANGED <<now, payments, policy, children, commands>>

\* CreateParticipant inserts a child.
CreateChild(p) ==
  LET r == requests[p] IN
  /\ r.pc = "counted" /\ r.wish = More /\ r.counted < r.seen.limit /\ children < MaxChildren
  /\ children' = children + 1
  /\ requests' = [requests EXCEPT ![p] = NoRequest]
  /\ policyRow' = Nobody
  /\ UNCHANGED <<now, payments, policy, commands>>

\* Mutant: the import does not compare its children with the limit.
HoldsAny(r) == TRUE

\* The active children of the backup fit.
Holds(r) == r.wish <= r.seen.limit

\* ImportBackup replaces the participants.
ImportBackup(p) ==
  LET r == requests[p] IN
  /\ r.pc = "counted" /\ r.wish # More /\ Holds(r)
  /\ children' = r.wish
  /\ requests' = [requests EXCEPT ![p] = NoRequest]
  /\ policyRow' = Nobody
  /\ UNCHANGED <<now, payments, policy, commands>>

\* DeleteParticipant does not wait for the policy.
RemoveChild(p) ==
  /\ requests[p].pc = "allowed" /\ children > 0
  /\ children' = children - 1
  /\ requests' = [requests EXCEPT ![p] = NoRequest]
  /\ UNCHANGED <<now, payments, policy, commands, policyRow>>

Tick ==
  /\ now < MaxTime
  /\ now' = now + 1
  /\ UNCHANGED <<payments, policy, children, commands, requests, policyRow>>

Next ==
  \/ \E o \in Operators :
       \/ \E r \in References : BeginRefund(o, r) \/ \E t \in Terms : BeginPayment(o, r, t)
       \/ ReadPolicy(o) \/ CommitPayment(o) \/ CommitRefund(o) \/ EndCommand(o)
  \/ \E p \in Parents :
       \/ Authorise(p) \/ \E wish \in 0 .. More : CountChildren(p, wish)
       \/ CreateChild(p) \/ ImportBackup(p) \/ RemoveChild(p) \/ EndRequest(p)
  \/ Tick

Spec == Init /\ [][Next]_vars

-----------------------------------------------------------------------------
\* Every variable holds a value of its kind, and a recorded payment says whole terms, of
\* a period that had started when it was recorded.
TypeOK ==
  /\ now \in Times
  /\ payments \in [References -> Payment]
  /\ \A r \in References : payments[r].state # "none" =>
       payments[r].terms \in Terms /\ payments[r].terms.starts <= payments[r].created
  /\ policy \in Policy
  /\ children \in 0 .. MaxChildren
  /\ commands \in [Operators -> Command]
  /\ requests \in [Parents -> Request]
  /\ policyRow \in Operators \cup Parents \cup {Nobody}

(***************************************************************************)
(* Nobody has access that was not paid: a term that runs is the term, and  *)
(* its child limit the limit, of one payment that has not been refunded,   *)
(* whatever was paid, refunded and sent again, in any order and at once.   *)
(***************************************************************************)
AccessIsPaid ==
  Access /\ policy.until # Forever =>
    \E r \in Covering(now) : payments[r].terms.ends = policy.until /\ payments[r].terms.limit = policy.limit

(***************************************************************************)
(* The children fit the limit unless a refund lowered it, although         *)
(* parents, imports and payments each count them first and write later.    *)
(***************************************************************************)
ChildrenFit ==
  (\A r \in References : payments[r].state # "refunded") => children <= policy.limit

(***************************************************************************)
(* Once the limit has been lowered no request makes more children of a     *)
(* family than the limit says, also one that was authorised before.        *)
(***************************************************************************)
GrowthIsPaid == [][children' > children => children' <= policy.limit]_vars

(***************************************************************************)
(* A reference stands for one payment for ever: its terms never change and *)
(* its refund is final, however often and however late it is sent again.   *)
(***************************************************************************)
ReferenceIsFinal ==
  [][\A r \in References :
       payments[r].state # "none" =>
         /\ payments'[r].terms = payments[r].terms
         /\ payments'[r].state \in {payments[r].state, "refunded"}]_vars

(***************************************************************************)
(* "A payment cannot shorten the term that was granted": the term of a     *)
(* family that has one gets shorter only by a refund.                      *)
(***************************************************************************)
OnlyRefundsShorten ==
  [][policy.until # Forever /\ policy'.until < policy.until =>
       \E r \in References : payments[r].state = "paid" /\ payments'[r].state = "refunded"]_vars

(***************************************************************************)
(* The locks make every transaction one step on the rows as they are: what *)
(* was read before, and counted before, is still so when it is written,    *)
(* and a refund takes access away only when no payment is left.            *)
(***************************************************************************)
Paid == INSTANCE PaidAccess WITH
  state <- [r \in References |-> payments[r].state],
  terms <- [r \in References |-> payments[r].terms]

TransactionsAreSerial == Paid!Spec

(***************************************************************************)
(* "Access is recalculated by the remaining current payments": a payment   *)
(* that covers this moment gives access until its end.                     *)
(***************************************************************************)
PaidIsHonoured == \A r \in Covering(now) : payments[r].terms.ends <= policy.until

(***************************************************************************)
(* Nothing else than a refund that waited takes away what was paid for:    *)
(* payments, repeats, time, and a refund at the time of its BEGIN leave    *)
(* each payment that covers the moment its access.                         *)
(***************************************************************************)
OnlyWaitingRefundsTake ==
  [][PaidIsHonoured /\ ~PaidIsHonoured' =>
       \E o \in Operators : CommitRefund(o) /\ commands[o].begun < now]_vars
=============================================================================
