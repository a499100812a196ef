------------------------- MODULE Subscription_proofs -------------------------
(***************************************************************************)
(* For any operators, parents, payment references, terms and child limits: *)
(* nobody has access that was not paid, only a refund shortens it, and no  *)
(* request makes more children than the limit says.                        *)
(*                                                                         *)
(* The invariant behind it: who has locked the row of the policy read what *)
(* is still there, and counted no fewer children than there are.           *)
(***************************************************************************)
EXTENDS Subscription, WellFoundedInduction, TLAPS

\* A command between its steps.
CommandStands(o) ==
  /\ commands[o].pc = "recording" <=> policyRow = o
  /\ commands[o].pc = "recording" =>
       /\ commands[o].seen = policy /\ children <= commands[o].counted
       /\ payments[commands[o].reference].state = "none"
  /\ commands[o].pc # "idle" => commands[o].reference \in References
  /\ commands[o].pc \in {"payment", "recording"} =>
       commands[o].terms \in Terms /\ commands[o].terms.starts <= commands[o].begun
  /\ commands[o].begun <= now

\* A request between its steps.
RequestStands(p) ==
  /\ requests[p].pc = "counted" <=> policyRow = p
  /\ requests[p].pc = "counted" =>
       requests[p].seen = policy /\ children <= requests[p].counted

ReadsStand == /\ \A o \in Operators : CommandStands(o)
              /\ \A p \in Parents : RequestStands(p)

Inv == TypeOK /\ ReadsStand /\ AccessIsPaid /\ ChildrenFit

-----------------------------------------------------------------------------
LEMMA Constants ==
  /\ Times \subseteq Nat /\ Ends \subseteq Nat /\ 1 \in Times /\ 2 \in Ends
  /\ Forever \in Nat /\ Forever \notin Ends /\ \A t \in Times : t < Forever
  /\ \A e \in Ends : e < Forever
  /\ Nobody \notin Operators /\ Nobody \notin Parents /\ Nobody \notin References
  /\ Operators \cap Parents = {} /\ More \in Nat /\ MaxChildren \in Nat
  /\ \A t \in Terms : t.starts \in Times /\ t.ends \in Ends /\ t.limit \in Nat
BY SubscriptionAssumption DEF Times, Ends, Forever, More

LEMMA NoTermsIsTerms == NoTerms = [starts |-> 1, ends |-> 2, limit |-> 0]
BY DEF NoTerms

LEMMA AnyTerms ==
  ASSUME NEW t \in Terms \cup {NoTerms}
  PROVE  t.starts \in Times /\ t.ends \in Ends /\ t.limit \in Nat
BY Constants, NoTermsIsTerms

\* What a step of a leaves to the others: who holds the row sees no change.
LEMMA OthersStand ==
  ASSUME Inv, NEW a \in Operators \cup Parents,
         \A o \in Operators \ {a} : commands'[o] = commands[o],
         \A p \in Parents \ {a} : requests'[p] = requests[p],
         now' \in Times, now <= now',
         \/ policyRow \in {a, Nobody} /\ policyRow' \in {a, Nobody}
         \/ /\ policyRow' = policyRow /\ policy' = policy /\ children' <= children
            /\ children' \in Nat
            /\ \A r \in References : payments[r].state = "none" => payments'[r].state = "none"
  PROVE  /\ \A o \in Operators \ {a} : CommandStands(o)'
         /\ \A p \in Parents \ {a} : RequestStands(p)'
<1>1. ASSUME NEW o \in Operators \ {a}
      PROVE  CommandStands(o)'
  <2>1. PICK c \in Command : c = commands[o] /\ c = commands'[o]
    BY DEF Inv, TypeOK
  <2>2. c.reference \in References \cup {Nobody} /\ c.begun \in Nat
        /\ c.counted \in Nat /\ now \in Nat /\ now' \in Nat /\ children \in Nat
    <3>1. c.reference \in References \cup {Nobody} /\ c.begun \in Times /\ c.counted \in Nat
      BY Constants DEF Command
    <3>2. now \in Times /\ children \in Nat
      BY Constants DEF Inv, TypeOK
    <3> QED BY <3>1, <3>2, Constants
  <2>3. CommandStands(o) /\ o # Nobody /\ o # a
    BY Constants DEF Inv, ReadsStand
  <2>4. c.pc \in {"payment", "recording"} => c.terms \in Terms /\ c.terms.starts <= c.begun
    BY <2>1, <2>2, <2>3 DEF CommandStands
  <2>5. c.begun <= now'
    BY <2>1, <2>2, <2>3 DEF CommandStands
  <2>6. CASE policyRow = o
    <3>1. /\ policyRow' = policyRow /\ policy' = policy /\ children' <= children
          /\ children' \in Nat
          /\ \A r \in References : payments[r].state = "none" => payments'[r].state = "none"
      BY <2>3, <2>6
    <3>2. c.pc = "recording" /\ c.reference \in References
      BY <2>1, <2>3, <2>6 DEF CommandStands
    <3>3. c.seen = policy' /\ children' <= c.counted /\ payments'[c.reference].state = "none"
      BY <2>1, <2>2, <2>3, <3>1, <3>2 DEF CommandStands
    <3> QED BY <2>1, <2>3, <2>4, <2>5, <2>6, <3>1, <3>2, <3>3 DEF CommandStands
  <2>7. CASE policyRow # o
    <3>1. policyRow' # o
      BY <2>3, <2>7
    <3> QED BY <2>1, <2>3, <2>4, <2>5, <2>7, <3>1 DEF CommandStands
  <2> QED BY <2>6, <2>7
<1>2. ASSUME NEW p \in Parents \ {a}
      PROVE  RequestStands(p)'
  <2>1. PICK q \in Request : q = requests[p] /\ q = requests'[p]
    BY DEF Inv, TypeOK
  <2>2. q.counted \in Nat /\ children \in Nat
    BY Constants DEF Request, Inv, TypeOK
  <2>3. RequestStands(p) /\ p # Nobody /\ p # a
    BY Constants DEF Inv, ReadsStand
  <2>4. CASE policyRow = p
    <3>1. /\ policyRow' = policyRow /\ policy' = policy /\ children' <= children
          /\ children' \in Nat
      BY <2>3, <2>4
    <3> QED BY <2>1, <2>2, <2>3, <2>4, <3>1 DEF RequestStands
  <2>5. CASE policyRow # p
    <3>1. policyRow' # p
      BY <2>3, <2>5
    <3> QED BY <2>1, <2>3, <2>5, <3>1 DEF RequestStands
  <2> QED BY <2>4, <2>5
<1> QED BY <1>1, <1>2

LEMMA Numbers ==
  ASSUME Inv
  PROVE  /\ now \in Nat /\ now \in Times /\ children \in Nat /\ children <= MaxChildren
         /\ policy \in Policy /\ policy.until \in Nat /\ policy.limit \in Nat
<1>1. now \in Times /\ children \in 0 .. MaxChildren /\ policy \in Policy
  BY DEF Inv, TypeOK
<1>2. policy.until \in Times \cup Ends \cup {Forever} /\ policy.limit \in Nat
  BY <1>1 DEF Policy
<1>3. policy.until \in Nat
  BY <1>2, Constants
<1> QED BY <1>1, <1>2, <1>3, Constants

\* A step that pays, refunds and grants nothing keeps what follows from the rows.
LEMMA RowsStay ==
  ASSUME Inv, UNCHANGED <<payments, policy>>, now' \in Times, now <= now',
         children' \in Nat, children' <= children \/ children' <= policy.limit
  PROVE  AccessIsPaid' /\ ChildrenFit'
<1>1. now \in Nat /\ now' \in Nat /\ children \in Nat /\ policy.until \in Nat /\ policy.limit \in Nat
  BY Constants, Numbers
<1>2. ASSUME Access', policy.until # Forever
      PROVE  \E r \in Covering(now)' : payments'[r].terms.ends = policy'.until
                                       /\ payments'[r].terms.limit = policy'.limit
  <2>1. Access
    BY <1>1, <1>2 DEF Access
  <2>2. PICK r \in Covering(now) : payments[r].terms.ends = policy.until
                                   /\ payments[r].terms.limit = policy.limit
    BY <1>2, <2>1 DEF Inv, AccessIsPaid
  <2>3. r \in References /\ payments[r].state = "paid" /\ payments[r].terms.starts <= now
    BY <2>2 DEF Covering, Unrefunded
  <2>4. payments[r].terms.starts \in Nat
    BY <2>3, AnyTerms, Constants DEF Inv, TypeOK, Payment
  <2>5. payments[r].terms.starts <= now' /\ now' < payments[r].terms.ends
    BY <1>1, <1>2, <2>2, <2>3, <2>4 DEF Access
  <2>6. r \in Covering(now)'
    BY <2>3, <2>5 DEF Covering, Unrefunded
  <2> QED BY <2>2, <2>6
<1>3. AccessIsPaid'
  BY <1>2 DEF AccessIsPaid
<1>4. ChildrenFit'
  BY <1>1 DEF ChildrenFit, Inv
<1> QED BY <1>3, <1>4

-----------------------------------------------------------------------------
(* Steps of operators.                                                     *)

\* A payment is recorded for a period that had started when the command began.
LEMMA RecordedHasStarted ==
  ASSUME Inv, NEW o \in Operators, commands[o].pc = "recording"
  PROVE  LET c == commands[o] IN
         /\ c.terms \in Terms /\ c.begun \in Times
         /\ c.terms.starts <= c.begun /\ c.terms.starts <= now
<1>1. PICK c \in Command : c = commands[o]
  BY DEF Inv, TypeOK
<1>2. CommandStands(o)
  BY DEF Inv, ReadsStand
<1>3. c.terms \in Terms /\ c.terms.starts <= c.begun /\ c.begun <= now
  BY <1>1, <1>2 DEF CommandStands
<1>4. c.begun \in Times
  BY DEF Command
<1>5. c.terms.starts \in Nat /\ c.begun \in Nat /\ now \in Nat
  BY <1>3, <1>4, Constants, Numbers
<1> QED BY <1>1, <1>3, <1>4, <1>5

\* A command that takes the place of o's.
Replaced(o, n) == n \in Command /\ commands' = [commands EXCEPT ![o] = n]

LEMMA ReplacedHas ==
  ASSUME Inv, NEW o \in Operators, NEW n, Replaced(o, n)
  PROVE  /\ commands' \in [Operators -> Command] /\ commands'[o] = n
         /\ \A x \in Operators \ {o} : commands'[x] = commands[x]
BY DEF Replaced, Inv, TypeOK

LEMMA NoCommandIsIdle ==
  NoCommand \in Command /\ NoCommand.pc = "idle" /\ NoCommand.begun = 1
<1>1. 1 \in Times /\ NoPolicy \in Policy /\ 0 \in 0 .. MaxChildren
  BY Constants DEF NoPolicy, Policy
<1> QED BY <1>1 DEF NoCommand, Command

LEMMA EndCommandKeeps ==
  ASSUME Inv, NEW o \in Operators, EndCommand(o)
  PROVE  Inv'
<1>1. Replaced(o, NoCommand)
  BY NoCommandIsIdle DEF EndCommand, Replaced
<1>2. UNCHANGED <<now, payments, policy, children, requests>>
      /\ policyRow' = IF policyRow = o THEN Nobody ELSE policyRow
  BY DEF EndCommand
<1>3. TypeOK'
  BY <1>1, <1>2, ReplacedHas DEF Inv, TypeOK
<1>4. o \notin Parents /\ o # Nobody
  BY Constants
<1>5. /\ \A x \in Operators \ {o} : CommandStands(x)'
      /\ \A p \in Parents \ {o} : RequestStands(p)'
  BY <1>1, <1>2, ReplacedHas, OthersStand, Numbers
<1>6. CommandStands(o)'
  BY <1>1, <1>2, <1>4, ReplacedHas, NoCommandIsIdle, Numbers, Constants DEF CommandStands, Times
<1> QED BY <1>2, <1>3, <1>4, <1>5, <1>6, RowsStay, Numbers DEF Inv, ReadsStand

LEMMA BeginPaymentKeeps ==
  ASSUME Inv, NEW o \in Operators, NEW r \in References, NEW t \in Terms,
         BeginPayment(o, r, t)
  PROVE  Inv'
<1> DEFINE n == [NoCommand EXCEPT !.pc = "payment", !.reference = r, !.terms = t, !.begun = now]
<1>1. /\ n \in Command /\ n.pc = "payment" /\ n.reference = r /\ n.terms = t /\ n.begun = now
  BY NoCommandIsIdle, Numbers DEF Command
<1>2. UNCHANGED <<now, payments, policy, children, requests, policyRow>>
      /\ commands' = [commands EXCEPT ![o] = n] /\ commands[o].pc = "idle" /\ t.starts <= now
  BY DEF BeginPayment
<1> HIDE DEF n
<1>3. Replaced(o, n)
  BY <1>1, <1>2 DEF Replaced
<1>4. TypeOK'
  BY <1>2, <1>3, ReplacedHas DEF Inv, TypeOK
<1>5. o \notin Parents /\ CommandStands(o)
  BY Constants DEF Inv, ReadsStand
<1>6. /\ \A x \in Operators \ {o} : CommandStands(x)'
      /\ \A p \in Parents \ {o} : RequestStands(p)'
  BY <1>2, <1>3, ReplacedHas, OthersStand, Numbers
<1>7. CommandStands(o)'
  BY <1>1, <1>2, <1>3, <1>5, ReplacedHas, Numbers DEF CommandStands
<1> QED BY <1>2, <1>4, <1>5, <1>6, <1>7, RowsStay, Numbers DEF Inv, ReadsStand

LEMMA BeginRefundKeeps ==
  ASSUME Inv, NEW o \in Operators, NEW r \in References, BeginRefund(o, r)
  PROVE  Inv'
<1> DEFINE n == [NoCommand EXCEPT !.pc = "refund", !.reference = r, !.begun = now]
<1>1. /\ n \in Command /\ n.pc = "refund" /\ n.reference = r /\ n.begun = now
  BY NoCommandIsIdle, Numbers DEF Command
<1>2. UNCHANGED <<now, payments, policy, children, requests, policyRow>>
      /\ commands' = [commands EXCEPT ![o] = n] /\ commands[o].pc = "idle"
  BY DEF BeginRefund
<1> HIDE DEF n
<1>3. Replaced(o, n)
  BY <1>1, <1>2 DEF Replaced
<1>4. TypeOK'
  BY <1>2, <1>3, ReplacedHas DEF Inv, TypeOK
<1>5. o \notin Parents /\ CommandStands(o)
  BY Constants DEF Inv, ReadsStand
<1>6. /\ \A x \in Operators \ {o} : CommandStands(x)'
      /\ \A p \in Parents \ {o} : RequestStands(p)'
  BY <1>2, <1>3, ReplacedHas, OthersStand, Numbers
<1>7. CommandStands(o)'
  BY <1>1, <1>2, <1>3, <1>5, ReplacedHas, Numbers DEF CommandStands
<1> QED BY <1>2, <1>4, <1>5, <1>6, <1>7, RowsStay, Numbers DEF Inv, ReadsStand

LEMMA ReadPolicyKeeps ==
  ASSUME Inv, NEW o \in Operators, ReadPolicy(o)
  PROVE  Inv'
<1>1. PICK c \in Command : c = commands[o]
  BY DEF Inv, TypeOK
<1> DEFINE n == [c EXCEPT !.pc = "recording", !.seen = policy, !.counted = children]
<1>2. /\ n \in Command /\ n.pc = "recording" /\ n.reference = c.reference
      /\ n.terms = c.terms /\ n.begun = c.begun /\ n.seen = policy /\ n.counted = children
  BY <1>1 DEF Command, Inv, TypeOK
<1>3. /\ UNCHANGED <<now, payments, policy, children, requests>>
      /\ c.pc = "payment" /\ policyRow = Nobody /\ policyRow' = o
      /\ payments[c.reference].state = "none"
  BY <1>1 DEF ReadPolicy, Unrecorded
<1>4. commands' = [commands EXCEPT ![o] = n]
  BY <1>1 DEF ReadPolicy, Inv, TypeOK
<1> HIDE DEF n
<1>5. Replaced(o, n)
  BY <1>2, <1>4 DEF Replaced
<1>6. TypeOK'
  BY <1>3, <1>5, ReplacedHas DEF Inv, TypeOK
<1>7. o \notin Parents /\ CommandStands(o)
  BY Constants DEF Inv, ReadsStand
<1>8. /\ \A x \in Operators \ {o} : CommandStands(x)'
      /\ \A p \in Parents \ {o} : RequestStands(p)'
  BY <1>3, <1>5, ReplacedHas, OthersStand, Numbers
<1>9. CommandStands(o)'
  BY <1>1, <1>2, <1>3, <1>5, <1>7, ReplacedHas, Numbers DEF CommandStands
<1> QED BY <1>3, <1>6, <1>7, <1>8, <1>9, RowsStay, Numbers DEF Inv, ReadsStand

LEMMA CommitPaymentKeeps ==
  ASSUME Inv, NEW o \in Operators, CommitPayment(o)
  PROVE  Inv'
<1>1. PICK c \in Command : c = commands[o]
  BY DEF Inv, TypeOK
<1>2. CommandStands(o) /\ o \notin Parents /\ o # Nobody
  BY Constants DEF Inv, ReadsStand
<1>3. /\ c.pc = "recording" /\ c.reference \in References /\ policyRow = o
      /\ c.seen = policy /\ children <= c.counted /\ payments[c.reference].state = "none"
      /\ c.terms.starts <= c.begun /\ c.terms.starts <= now /\ c.begun \in Times
      /\ c.terms \in Terms /\ c.counted \in Nat
  <2>1. c.pc = "recording"
    BY <1>1 DEF CommitPayment
  <2> QED BY <1>1, <1>2, <2>1, RecordedHasStarted, Constants DEF CommandStands, Command
<1> DEFINE pay == [state |-> "paid", terms |-> c.terms, created |-> c.begun]
<1>4. /\ UNCHANGED <<now, children, requests>> /\ policyRow' = Nobody
      /\ commands' = [commands EXCEPT ![o] = NoCommand]
      /\ payments' = [payments EXCEPT ![c.reference] = pay]
      /\ policy' = [until |-> c.terms.ends, limit |-> c.terms.limit]
      /\ c.counted <= c.terms.limit
  BY <1>1 DEF CommitPayment, Fits
<1>5. pay \in Payment
  BY <1>3 DEF Payment
<1>6. /\ payments' \in [References -> Payment] /\ payments'[c.reference] = pay
  BY <1>3, <1>4, <1>5 DEF Inv, TypeOK
<1>7. /\ c.terms.starts \in Nat /\ c.terms.ends \in Ends /\ c.terms.limit \in Nat
      /\ c.terms.ends \in Nat
  BY <1>3, AnyTerms, Constants
<1>8. policy' \in Policy /\ policy'.until = c.terms.ends /\ policy'.limit = c.terms.limit
  BY <1>4, <1>7 DEF Policy
<1>9. Replaced(o, NoCommand)
  BY <1>4, NoCommandIsIdle DEF Replaced
<1>10. TypeOK'
  <2>1. \A q \in References : payments'[q] = IF q = c.reference THEN pay ELSE payments[q]
    BY <1>3, <1>4, <1>6 DEF Inv, TypeOK
  <2>2. \A q \in References : payments'[q].state # "none" =>
          payments'[q].terms \in Terms /\ payments'[q].terms.starts <= payments'[q].created
    BY <1>3, <2>1 DEF Inv, TypeOK
  <2> QED BY <1>4, <1>6, <1>8, <1>9, <2>2, ReplacedHas DEF Inv, TypeOK
<1>11. /\ \A x \in Operators \ {o} : CommandStands(x)'
       /\ \A p \in Parents \ {o} : RequestStands(p)'
  BY <1>3, <1>4, <1>9, ReplacedHas, OthersStand, Numbers
<1>12. CommandStands(o)'
  BY <1>2, <1>4, <1>9, ReplacedHas, NoCommandIsIdle, Numbers, Constants DEF CommandStands, Times
<1>13. AccessIsPaid'
  <2>1. ASSUME Access' PROVE c.reference \in Covering(now)'
    BY <1>3, <1>4, <1>6, <1>8, <2>1 DEF Access, Covering, Unrefunded
  <2> QED BY <1>3, <1>6, <1>8, <2>1 DEF AccessIsPaid
<1>14. ChildrenFit'
  BY <1>3, <1>4, <1>7, <1>8, Numbers DEF ChildrenFit
<1> QED BY <1>2, <1>10, <1>11, <1>12, <1>13, <1>14 DEF Inv, ReadsStand

LEMMA CommitRefundKeeps ==
  ASSUME Inv, NEW o \in Operators, CommitRefund(o)
  PROVE  Inv'
<1>1. PICK c \in Command : c = commands[o]
  BY DEF Inv, TypeOK
<1>2. CommandStands(o) /\ o \notin Parents /\ o # Nobody
  BY Constants DEF Inv, ReadsStand
<1> DEFINE r == c.reference
<1>3. /\ r \in References /\ policyRow = Nobody /\ policyRow' = Nobody
      /\ payments[r].state = "paid" /\ c.begun \in Nat /\ c.begun <= now
      /\ UNCHANGED <<now, children, requests>>
      /\ commands' = [commands EXCEPT ![o] = NoCommand]
      /\ payments' = [payments EXCEPT ![r].state = "refunded"]
      /\ \/ \E q \in Longest(r, c.begun) :
              policy' = [until |-> payments[q].terms.ends, limit |-> payments[q].terms.limit]
         \/ \E t \in c.begun .. now : policy' = [until |-> t, limit |-> 0]
  BY <1>1, <1>2, Constants DEF CommitRefund, CommandStands, Command
<1>4. PICK old \in Payment : old = payments[r]
  BY <1>3 DEF Inv, TypeOK
<1>5. [old EXCEPT !.state = "refunded"] \in Payment
      /\ [old EXCEPT !.state = "refunded"].state = "refunded"
      /\ [old EXCEPT !.state = "refunded"].terms = old.terms
      /\ [old EXCEPT !.state = "refunded"].created = old.created
  BY DEF Payment
<1>6. payments' = [payments EXCEPT ![r] = [old EXCEPT !.state = "refunded"]]
  BY <1>3, <1>4, Zenon
<1>7. /\ payments' \in [References -> Payment] /\ payments'[r].state = "refunded"
      /\ payments'[r].terms = old.terms /\ payments'[r].created = old.created
      /\ \A q \in References \ {r} : payments'[q] = payments[q]
  BY <1>3, <1>5, <1>6 DEF Inv, TypeOK
<1>8. ASSUME NEW q \in Longest(r, c.begun)
      PROVE  /\ q \in References \ {r} /\ payments[q].state = "paid"
             /\ payments[q].terms.starts <= c.begun
             /\ payments[q].terms.starts \in Nat
             /\ payments[q].terms.ends \in Ends /\ payments[q].terms.limit \in Nat
  <2>1. q \in Covering(c.begun) \ {r}
    BY DEF Longest
  <2>2. q \in References /\ payments[q].terms \in Terms \cup {NoTerms}
    BY <2>1 DEF Covering, Unrefunded, Inv, TypeOK, Payment
  <2> QED BY <2>1, <2>2, AnyTerms, Constants DEF Covering, Unrefunded
<1>9. policy' \in Policy
  <2>1. \A t \in c.begun .. now : t \in Times /\ t \in Nat
    <3>1. c.begun \in Times /\ now \in Times /\ MaxTime \in Nat
      BY Numbers, SubscriptionAssumption DEF Command
    <3> QED BY <3>1 DEF Times
  <2>2. ASSUME NEW t \in c.begun .. now, policy' = [until |-> t, limit |-> 0]
        PROVE  policy' \in Policy
    BY <2>1, <2>2 DEF Policy
  <2>3. ASSUME NEW q \in Longest(r, c.begun),
               policy' = [until |-> payments[q].terms.ends, limit |-> payments[q].terms.limit]
        PROVE  policy' \in Policy
    BY <1>8, <2>3 DEF Policy
  <2> QED BY <1>3, <2>2, <2>3
<1>10. Replaced(o, NoCommand)
  BY <1>3, NoCommandIsIdle DEF Replaced
<1>11. TypeOK'
  <2>1. \A q \in References : payments'[q].state # "none" =>
          payments'[q].terms \in Terms /\ payments'[q].terms.starts <= payments'[q].created
    BY <1>3, <1>4, <1>7 DEF Inv, TypeOK
  <2> QED BY <1>3, <1>7, <1>9, <1>10, <2>1, ReplacedHas DEF Inv, TypeOK
<1>12. /\ \A x \in Operators \ {o} : CommandStands(x)'
       /\ \A p \in Parents \ {o} : RequestStands(p)'
  BY <1>3, <1>10, ReplacedHas, OthersStand, Numbers
<1>13. CommandStands(o)'
  BY <1>2, <1>3, <1>10, ReplacedHas, NoCommandIsIdle, Numbers, Constants DEF CommandStands, Times
<1>14. AccessIsPaid'
  <2>1. ASSUME NEW t \in c.begun .. now, policy' = [until |-> t, limit |-> 0]
        PROVE  AccessIsPaid'
    BY <1>3, <2>1, Numbers DEF AccessIsPaid, Access
  <2>2. ASSUME NEW q \in Longest(r, c.begun),
               policy' = [until |-> payments[q].terms.ends, limit |-> payments[q].terms.limit]
        PROVE  AccessIsPaid'
    <3>1. /\ q \in References \ {r} /\ payments[q].state = "paid" /\ payments'[q] = payments[q]
          /\ payments[q].terms.starts <= now
      BY <1>3, <1>7, <1>8, Numbers
    <3>2. policy'.until = payments'[q].terms.ends /\ policy'.limit = payments'[q].terms.limit
      BY <2>2, <3>1
    <3>3. ASSUME Access' PROVE q \in Covering(now)'
      BY <1>3, <3>1, <3>2, <3>3 DEF Access, Covering, Unrefunded
    <3> QED BY <3>1, <3>2, <3>3 DEF AccessIsPaid
  <2> QED BY <1>3, <2>1, <2>2
<1>15. ChildrenFit'
  BY <1>3, <1>7 DEF ChildrenFit
<1> QED BY <1>2, <1>11, <1>12, <1>13, <1>14, <1>15 DEF Inv, ReadsStand

-----------------------------------------------------------------------------
(* Steps of parents.                                                       *)

Answered(p, n) == n \in Request /\ requests' = [requests EXCEPT ![p] = n]

LEMMA AnsweredHas ==
  ASSUME Inv, NEW p \in Parents, NEW n, Answered(p, n)
  PROVE  /\ requests' \in [Parents -> Request] /\ requests'[p] = n
         /\ \A x \in Parents \ {p} : requests'[x] = requests[x]
BY DEF Answered, Inv, TypeOK

LEMMA NoRequestIsIdle == NoRequest \in Request /\ NoRequest.pc = "idle"
<1>1. 1 \in Times /\ NoPolicy \in Policy /\ 0 \in 0 .. MaxChildren /\ 0 \in 0 .. More
  BY Constants DEF NoPolicy, Policy
<1> QED BY <1>1 DEF NoRequest, Request

\* A request that ends, frees the row it held and leaves no more children than the
\* limit says, if it leaves more than before.
LEMMA RequestEnds ==
  ASSUME Inv, NEW p \in Parents, Answered(p, NoRequest),
         UNCHANGED <<now, payments, policy, commands>>,
         children' \in 0 .. MaxChildren, children' <= children \/ children' <= policy.limit,
         \/ policyRow \in {p, Nobody} /\ policyRow' = Nobody
         \/ policyRow # p /\ policyRow' = policyRow /\ children' <= children
  PROVE  Inv'
<1>1. TypeOK'
  BY AnsweredHas DEF Inv, TypeOK
<1>2. p \notin Operators /\ p # Nobody /\ children' \in Nat
  BY Constants
<1>3. /\ \A x \in Operators \ {p} : CommandStands(x)'
      /\ \A q \in Parents \ {p} : RequestStands(q)'
  BY <1>2, AnsweredHas, OthersStand, Numbers
<1>4. RequestStands(p)'
  BY <1>2, AnsweredHas, NoRequestIsIdle DEF RequestStands
<1> QED BY <1>1, <1>2, <1>3, <1>4, RowsStay, Numbers DEF Inv, ReadsStand

\* What a parent's last step may rely on.
LEMMA Counted ==
  ASSUME Inv, NEW p \in Parents, requests[p].pc = "counted"
  PROVE  /\ policyRow = p /\ requests[p].seen = policy /\ children <= requests[p].counted
         /\ requests[p].counted \in Nat /\ requests[p].wish \in 0 .. More
<1>1. RequestStands(p) /\ requests[p] \in Request
  BY DEF Inv, ReadsStand, TypeOK
<1>2. requests[p].counted \in 0 .. MaxChildren /\ requests[p].wish \in 0 .. More
  BY <1>1 DEF Request
<1> QED BY <1>1, <1>2, Constants DEF RequestStands

LEMMA EndRequestKeeps ==
  ASSUME Inv, NEW p \in Parents, EndRequest(p)
  PROVE  Inv'
<1>1. Answered(p, NoRequest) /\ UNCHANGED <<now, payments, policy, commands, children>>
      /\ policyRow' = IF policyRow = p THEN Nobody ELSE policyRow
  BY NoRequestIsIdle DEF EndRequest, Answered
<1>2. children' \in 0 .. MaxChildren /\ children' <= children
  BY <1>1, Numbers DEF Inv, TypeOK
<1> QED BY <1>1, <1>2, RequestEnds

LEMMA CreateChildKeeps ==
  ASSUME Inv, NEW p \in Parents, CreateChild(p)
  PROVE  Inv' /\ children' <= policy.limit
<1>1. Answered(p, NoRequest) /\ UNCHANGED <<now, payments, policy, commands>>
      /\ policyRow' = Nobody /\ requests[p].pc = "counted"
      /\ requests[p].counted < requests[p].seen.limit
      /\ children < MaxChildren /\ children' = children + 1
  BY NoRequestIsIdle DEF CreateChild, Answered
<1>2. children' <= policy.limit /\ policyRow = p
  BY <1>1, Counted, Numbers
<1>3. children' \in 0 .. MaxChildren
  BY <1>1, Numbers, Constants
<1> QED BY <1>1, <1>2, <1>3, RequestEnds

LEMMA ImportBackupKeeps ==
  ASSUME Inv, NEW p \in Parents, ImportBackup(p)
  PROVE  Inv' /\ children' <= policy.limit
<1>1. Answered(p, NoRequest) /\ UNCHANGED <<now, payments, policy, commands>>
      /\ policyRow' = Nobody /\ requests[p].pc = "counted"
      /\ requests[p].wish # More /\ children' = requests[p].wish
      /\ requests[p].wish <= requests[p].seen.limit
  BY NoRequestIsIdle DEF ImportBackup, Answered, Holds
<1>2. children' <= policy.limit /\ policyRow = p
  BY <1>1, Counted, Numbers
<1>3. children' \in 0 .. MaxChildren
  BY <1>1, Counted, Constants DEF More
<1> QED BY <1>1, <1>2, <1>3, RequestEnds

LEMMA RemoveChildKeeps ==
  ASSUME Inv, NEW p \in Parents, RemoveChild(p)
  PROVE  Inv' /\ children' <= children
<1>1. Answered(p, NoRequest) /\ UNCHANGED <<now, payments, policy, commands, policyRow>>
      /\ requests[p].pc = "allowed" /\ children > 0 /\ children' = children - 1
  BY NoRequestIsIdle DEF RemoveChild, Answered
<1>2. children' \in 0 .. MaxChildren /\ children' <= children
  BY <1>1, Numbers, Constants
<1>3. policyRow # p
  BY <1>1 DEF Inv, ReadsStand, RequestStands
<1> QED BY <1>1, <1>2, <1>3, RequestEnds

LEMMA AuthoriseKeeps ==
  ASSUME Inv, NEW p \in Parents, Authorise(p)
  PROVE  Inv'
<1>1. PICK q \in Request : q = requests[p]
  BY DEF Inv, TypeOK
<1> DEFINE n == [q EXCEPT !.pc = "allowed"]
<1>2. n \in Request /\ n.pc = "allowed"
  BY DEF Request
<1>3. requests' = [requests EXCEPT ![p] = n] /\ requests[p].pc = "idle"
      /\ UNCHANGED <<now, payments, policy, children, commands, policyRow>>
  BY <1>1, Zenon DEF Authorise
<1> HIDE DEF n
<1>4. Answered(p, n)
  BY <1>2, <1>3 DEF Answered
<1>5. TypeOK'
  BY <1>3, <1>4, AnsweredHas DEF Inv, TypeOK
<1>6. p \notin Operators /\ RequestStands(p)
  BY Constants DEF Inv, ReadsStand
<1>7. /\ \A x \in Operators \ {p} : CommandStands(x)'
      /\ \A x \in Parents \ {p} : RequestStands(x)'
  BY <1>3, <1>4, AnsweredHas, OthersStand, Numbers
<1>8. RequestStands(p)'
  BY <1>2, <1>3, <1>4, <1>6, AnsweredHas DEF RequestStands
<1> QED BY <1>3, <1>5, <1>6, <1>7, <1>8, RowsStay, Numbers DEF Inv, ReadsStand

LEMMA CountChildrenKeeps ==
  ASSUME Inv, NEW p \in Parents, NEW wish \in 0 .. More, CountChildren(p, wish)
  PROVE  Inv'
<1> DEFINE n == [pc |-> "counted", wish |-> wish, seen |-> policy, counted |-> children]
<1>1. n \in Request
  BY DEF Request, Inv, TypeOK
<1>2. /\ requests' = [requests EXCEPT ![p] = n] /\ policyRow = Nobody /\ policyRow' = p
      /\ UNCHANGED <<now, payments, policy, children, commands>>
  BY DEF CountChildren, RowIsFree
<1>3. Answered(p, n)
  BY <1>1, <1>2 DEF Answered
<1>4. TypeOK'
  BY <1>2, <1>3, AnsweredHas DEF Inv, TypeOK
<1>5. p \notin Operators
  BY Constants
<1>6. /\ \A x \in Operators \ {p} : CommandStands(x)'
      /\ \A x \in Parents \ {p} : RequestStands(x)'
  BY <1>2, <1>3, AnsweredHas, OthersStand, Numbers
<1>7. RequestStands(p)'
  BY <1>2, <1>3, AnsweredHas, Numbers DEF RequestStands
<1> QED BY <1>2, <1>4, <1>5, <1>6, <1>7, RowsStay, Numbers DEF Inv, ReadsStand

LEMMA TickKeeps ==
  ASSUME Inv, Tick
  PROVE  Inv'
<1>1. now' \in Times /\ now <= now' /\ UNCHANGED <<payments, policy, children, commands, requests, policyRow>>
  BY SubscriptionAssumption, Numbers DEF Tick, Times
<1>2. TypeOK'
  BY <1>1 DEF Inv, TypeOK
<1>3. ASSUME NEW o \in Operators PROVE CommandStands(o)'
  <2>1. PICK c \in Command : c = commands[o]
    BY DEF Inv, TypeOK
  <2>2. CommandStands(o) /\ c.begun \in Nat /\ c.terms.starts \in Nat /\ now' \in Nat
    BY <1>1, Constants, AnyTerms DEF Inv, ReadsStand, Command
  <2> QED BY <1>1, <2>1, <2>2, Numbers DEF CommandStands
<1>4. ASSUME NEW p \in Parents PROVE RequestStands(p)'
  BY <1>1 DEF RequestStands, Inv, ReadsStand
<1> QED BY <1>1, <1>2, <1>3, <1>4, RowsStay, Numbers DEF Inv, ReadsStand

-----------------------------------------------------------------------------
LEMMA InitKeeps == Init => Inv
<1> SUFFICES ASSUME Init PROVE Inv
  OBVIOUS
<1>1. NoPayment \in Payment
  BY Constants DEF NoPayment, Payment
<1>2. /\ now = 1 /\ now \in Times /\ 0 \in 0 .. MaxChildren /\ children \in 0 .. MaxChildren
      /\ children \in Nat
  BY Constants DEF Init
<1>3. InitialLimit \in Nat /\ policy \in Policy /\ (policy.until = Forever \/ policy.until = 1)
      /\ children <= policy.limit
  BY <1>2, SubscriptionAssumption, Constants DEF Init, Policy
<1>4. TypeOK
  <2>1. \A r \in References : payments[r] = NoPayment /\ payments[r].state = "none"
    BY DEF Init, NoPayment
  <2> QED BY <1>1, <1>2, <1>3, <2>1, NoCommandIsIdle, NoRequestIsIdle DEF Init, TypeOK
<1>5. ReadsStand
  BY <1>2, NoCommandIsIdle, NoRequestIsIdle, Constants DEF Init, ReadsStand, CommandStands, RequestStands
<1>6. AccessIsPaid /\ ChildrenFit
  BY <1>2, <1>3 DEF AccessIsPaid, ChildrenFit, Access
<1> QED BY <1>4, <1>5, <1>6 DEF Inv

\* Splits a step by its actor.
LEMMA NextSplits ==
  ASSUME Next
  PROVE  \/ \E o \in Operators :
              \/ \E r \in References : BeginRefund(o, r)
              \/ \E r \in References : \E t \in Terms : BeginPayment(o, r, t)
              \/ ReadPolicy(o) \/ CommitPayment(o) \/ CommitRefund(o) \/ EndCommand(o)
         \/ \E p \in Parents :
              \/ Authorise(p) \/ \E wish \in 0 .. More : CountChildren(p, wish)
              \/ CreateChild(p) \/ ImportBackup(p) \/ RemoveChild(p) \/ EndRequest(p)
         \/ Tick
BY DEF Next

LEMMA NextKeeps == Inv /\ [Next]_vars => Inv'
<1> SUFFICES ASSUME Inv, [Next]_vars PROVE Inv'
  OBVIOUS
<1>1. CASE UNCHANGED vars
  BY <1>1 DEF vars, Inv, TypeOK, ReadsStand, CommandStands, RequestStands, AccessIsPaid,
              ChildrenFit, Access, Covering, Unrefunded
<1>2. CASE Tick
  BY <1>2, TickKeeps
<1>3. ASSUME NEW o \in Operators,
             \/ \E r \in References : BeginRefund(o, r)
             \/ \E r \in References : \E t \in Terms : BeginPayment(o, r, t)
             \/ ReadPolicy(o) \/ CommitPayment(o) \/ CommitRefund(o) \/ EndCommand(o)
      PROVE  Inv'
  BY <1>3, BeginRefundKeeps, BeginPaymentKeeps, ReadPolicyKeeps, CommitPaymentKeeps,
     CommitRefundKeeps, EndCommandKeeps
<1>4. ASSUME NEW p \in Parents,
             \/ Authorise(p) \/ \E wish \in 0 .. More : CountChildren(p, wish)
             \/ CreateChild(p) \/ ImportBackup(p) \/ RemoveChild(p) \/ EndRequest(p)
      PROVE  Inv'
  BY <1>4, AuthoriseKeeps, CountChildrenKeeps, CreateChildKeeps, ImportBackupKeeps,
     RemoveChildKeeps, EndRequestKeeps
<1> QED BY <1>1, <1>2, <1>3, <1>4, NextSplits

LEMMA Always == Spec => []Inv
BY InitKeeps, NextKeeps, PTL DEF Spec

-----------------------------------------------------------------------------
(* What a step may never do.                                               *)

\* Only two steps write payments and policy, only the requests of parents children.
LEMMA WhoWrites ==
  ASSUME Next
  PROVE  /\ \/ UNCHANGED <<payments, policy>>
            \/ \E o \in Operators : CommitPayment(o) \/ CommitRefund(o)
         /\ \/ UNCHANGED children
            \/ \E p \in Parents : CreateChild(p) \/ ImportBackup(p) \/ RemoveChild(p)
BY NextSplits DEF BeginRefund, BeginPayment, ReadPolicy, CommitPayment, CommitRefund,
  EndCommand, Authorise, CountChildren, CreateChild, ImportBackup, RemoveChild, EndRequest, Tick

Growth == children' > children => children' <= policy.limit
Final == \A r \in References : payments[r].state # "none" =>
           /\ payments'[r].terms = payments[r].terms
           /\ payments'[r].state \in {payments[r].state, "refunded"}
Shortened == policy.until # Forever /\ policy'.until < policy.until =>
               \E r \in References : payments[r].state = "paid" /\ payments'[r].state = "refunded"

LEMMA CommitPaymentIsFinal ==
  ASSUME Inv, NEW o \in Operators, CommitPayment(o)
  PROVE  Final /\ Shortened
<1>1. PICK c \in Command : c = commands[o]
  BY DEF Inv, TypeOK
<1>2. c.seen = policy /\ payments[c.reference].state = "none" /\ c.reference \in References
      /\ c.terms.ends \in Nat
  BY <1>1, AnyTerms, Constants DEF CommitPayment, Inv, ReadsStand, CommandStands, Command
<1>3. /\ c.seen.until = Forever \/ c.seen.until <= c.terms.ends
      /\ policy' = [until |-> c.terms.ends, limit |-> c.terms.limit]
      /\ payments' = [payments EXCEPT ![c.reference] =
           [state |-> "paid", terms |-> c.terms, created |-> c.begun]]
  BY <1>1 DEF CommitPayment, Fits
<1>4. \A r \in References \ {c.reference} : payments'[r] = payments[r]
  BY <1>3 DEF Inv, TypeOK
<1>5. Final
  BY <1>2, <1>4 DEF Final
<1>6. Shortened
  BY <1>2, <1>3, Numbers DEF Shortened
<1> QED BY <1>5, <1>6

LEMMA CommitRefundIsFinal ==
  ASSUME Inv, NEW o \in Operators, CommitRefund(o)
  PROVE  Final /\ Shortened
<1> DEFINE r == commands[o].reference
<1>1. /\ r \in References /\ payments[r].state = "paid"
      /\ payments' = [payments EXCEPT ![r].state = "refunded"]
  BY DEF CommitRefund, Inv, ReadsStand, CommandStands
<1>2. PICK old \in Payment : old = payments[r]
  BY <1>1 DEF Inv, TypeOK
<1>3. [old EXCEPT !.state = "refunded"].state = "refunded"
      /\ [old EXCEPT !.state = "refunded"].terms = old.terms
  BY DEF Payment
<1>4. payments' = [payments EXCEPT ![r] = [old EXCEPT !.state = "refunded"]]
  BY <1>1, <1>2, Zenon
<1>5. /\ payments'[r].state = "refunded" /\ payments'[r].terms = payments[r].terms
      /\ \A q \in References \ {r} : payments'[q] = payments[q]
  BY <1>1, <1>2, <1>3, <1>4 DEF Inv, TypeOK
<1> QED BY <1>1, <1>5 DEF Final, Shortened

LEMMA StepIsSafe ==
  ASSUME Inv, [Next]_vars
  PROVE  Growth /\ Final /\ Shortened
<1>1. CASE UNCHANGED vars
  BY <1>1, Numbers DEF vars, Growth, Final, Shortened
<1>2. CASE Next
  <2>1. Growth
    BY <1>2, WhoWrites, CreateChildKeeps, ImportBackupKeeps, RemoveChildKeeps, Numbers DEF Growth, RemoveChild
  <2>2. Final /\ Shortened
    <3>1. CASE UNCHANGED <<payments, policy>>
      BY <3>1, Numbers DEF Final, Shortened
    <3>2. CASE \E o \in Operators : CommitPayment(o) \/ CommitRefund(o)
      BY <3>2, CommitPaymentIsFinal, CommitRefundIsFinal
    <3> QED BY <1>2, <3>1, <3>2, WhoWrites
  <2> QED BY <2>1, <2>2
<1> QED BY <1>1, <1>2

-----------------------------------------------------------------------------
(* Every transaction is one step on the rows as they are.                  *)

LEMMA Greatest ==
  ASSUME NEW n \in Nat, NEW S \in SUBSET Nat, S # {}, \A j \in S : j <= n
  PROVE  \E m \in S : \A j \in S : j <= m
<1> DEFINE D == {n - j : j \in S}
<1>1. D \in SUBSET Nat /\ D # {}
  <2>1. ASSUME NEW j \in S PROVE n - j \in Nat
    <3>1. j \in Nat /\ j <= n
      OBVIOUS
    <3> QED BY <3>1
  <2>2. PICK j \in S : TRUE
    OBVIOUS
  <2>3. n - j \in D
    OBVIOUS
  <2> QED BY <2>1, <2>3
<1>2. PICK x \in D : \A y \in D : ~ (<<y, x>> \in OpToRel(<, Nat))
  BY <1>1, NatLessThanWellFounded, WFMin
<1>3. \A y \in D : ~ (y < x)
  BY <1>1, <1>2 DEF OpToRel
<1>4. PICK m \in S : x = n - m
  OBVIOUS
<1>5. ASSUME NEW j \in S PROVE j <= m
  <2>1. n - j \in D
    OBVIOUS
  <2>2. ~ (n - j < n - m)
    BY <1>3, <1>4, <2>1
  <2> QED BY <2>2
<1> QED BY <1>5

LEMMA PaymentIs ==
  ASSUME Inv, NEW r \in References
  PROVE  /\ payments[r] \in Payment /\ payments[r].created \in Nat
         /\ payments[r].created <= MaxTime
         /\ payments[r].terms.ends \in Nat /\ payments[r].terms.ends <= MaxTime + 1
<1>1. payments[r] \in Payment
  BY DEF Inv, TypeOK
<1>2. payments[r].created \in Times /\ payments[r].terms.ends \in Ends
  BY <1>1, AnyTerms DEF Payment
<1> QED BY <1>1, <1>2, SubscriptionAssumption DEF Times, Ends

\* Terms end at bounded times, so of the payments that are left one is the longest.
LEMMA SomeIsLongest ==
  ASSUME Inv, NEW r, NEW t, Longest(r, t) = {}
  PROVE  Covering(t) \ {r} = {}
<1> DEFINE left == Covering(t) \ {r}
           ends == {q \in left : \A s \in left : payments[s].terms.ends <= payments[q].terms.ends}
<1>1. \A q \in left : q \in References
  BY DEF Covering, Unrefunded
<1>2. Longest(r, t) = {q \in ends : \A s \in ends : payments[s].created <= payments[q].created}
  BY DEF Longest
<1> SUFFICES ASSUME left # {} PROVE FALSE
  OBVIOUS
<1>3. ends # {}
  <2> DEFINE S == {payments[q].terms.ends : q \in left}
  <2>1. S \in SUBSET Nat /\ S # {} /\ MaxTime + 1 \in Nat /\ \A j \in S : j <= MaxTime + 1
    BY <1>1, PaymentIs, SubscriptionAssumption
  <2>2. PICK m \in S : \A j \in S : j <= m
    BY <2>1, Greatest
  <2>3. PICK q \in left : payments[q].terms.ends = m
    OBVIOUS
  <2>4. \A s \in left : payments[s].terms.ends \in S
    OBVIOUS
  <2> QED BY <2>2, <2>3, <2>4
<1>4. \A q \in ends : q \in References
  BY <1>1
<1> HIDE DEF ends, left
<1>5. \E q \in ends : \A s \in ends : payments[s].created <= payments[q].created
  <2> DEFINE S == {payments[q].created : q \in ends}
  <2>1. S \in SUBSET Nat /\ S # {} /\ MaxTime \in Nat /\ \A j \in S : j <= MaxTime
    BY <1>3, <1>4, PaymentIs, SubscriptionAssumption
  <2>2. PICK m \in S : \A j \in S : j <= m
    BY <2>1, Greatest
  <2>3. PICK q \in ends : payments[q].created = m
    OBVIOUS
  <2>4. \A s \in ends : payments[s].created \in S
    OBVIOUS
  <2> QED BY <2>2, <2>3, <2>4
<1> QED BY <1>2, <1>5

States == [r \in References |-> payments[r].state]
Dues == [r \in References |-> payments[r].terms]

LEMMA PaymentMaps ==
  ASSUME Inv, NEW o \in Operators, CommitPayment(o)
  PROVE  Paid!Next
<1>1. PICK c \in Command : c = commands[o]
  BY DEF Inv, TypeOK
<1>2. CommandStands(o) /\ o # Nobody
  BY Constants DEF Inv, ReadsStand
<1>3. /\ c.pc = "recording" /\ c.reference \in References
      /\ c.seen = policy /\ children <= c.counted /\ payments[c.reference].state = "none"
      /\ c.terms \in Terms /\ c.terms.starts <= now /\ c.counted \in Nat
  <2>1. c.pc = "recording"
    BY <1>1 DEF CommitPayment
  <2> QED BY <1>1, <1>2, <2>1, RecordedHasStarted, Constants DEF CommandStands, Command
<1> DEFINE pay == [state |-> "paid", terms |-> c.terms, created |-> c.begun]
<1>4. /\ UNCHANGED <<now, children>>
      /\ payments' = [payments EXCEPT ![c.reference] = pay]
      /\ policy' = [until |-> c.terms.ends, limit |-> c.terms.limit]
      /\ c.counted <= c.terms.limit /\ (policy.until = Forever \/ policy.until <= c.terms.ends)
  BY <1>1, <1>3 DEF CommitPayment, Fits
<1>5. children <= c.terms.limit
  BY <1>3, <1>4, Constants, Numbers
<1>6. payments'[c.reference] = pay /\ \A r \in References \ {c.reference} : payments'[r] = payments[r]
  BY <1>3, <1>4 DEF Inv, TypeOK
<1>7. /\ States' = [States EXCEPT ![c.reference] = "paid"]
      /\ Dues' = [Dues EXCEPT ![c.reference] = c.terms]
  <2>1. \A r \in References :
          /\ payments'[r].state = IF r = c.reference THEN "paid" ELSE payments[r].state
          /\ payments'[r].terms = IF r = c.reference THEN c.terms ELSE payments[r].terms
    BY <1>6
  <2>2. /\ States' = [r \in References |-> IF r = c.reference THEN "paid" ELSE States[r]]
        /\ Dues' = [r \in References |-> IF r = c.reference THEN c.terms ELSE Dues[r]]
    BY <2>1 DEF States, Dues
  <2> QED BY <2>2 DEF States, Dues
<1>8. Paid!Pay(c.reference, c.terms)
  BY <1>3, <1>4, <1>5, <1>7 DEF Paid!Pay, States, Dues
<1> QED BY <1>3, <1>8 DEF Paid!Next

LEMMA RefundMaps ==
  ASSUME Inv, NEW o \in Operators, CommitRefund(o)
  PROVE  Paid!Next
<1>1. PICK c \in Command : c = commands[o]
  BY DEF Inv, TypeOK
<1>2. CommandStands(o) /\ c.begun \in Times
  BY <1>1 DEF Inv, ReadsStand, Command
<1> DEFINE r == c.reference
<1>3. /\ r \in References /\ payments[r].state = "paid" /\ c.begun \in 1 .. now
      /\ UNCHANGED <<now, children>>
      /\ payments' = [payments EXCEPT ![r].state = "refunded"]
      /\ \/ \E q \in Longest(r, c.begun) :
              policy' = [until |-> payments[q].terms.ends, limit |-> payments[q].terms.limit]
         \/ /\ Longest(r, c.begun) = {}
            /\ \E t \in c.begun .. now : policy' = [until |-> t, limit |-> 0]
  BY <1>1, <1>2, Numbers DEF CommitRefund, CommandStands, Times
<1>4. PICK old \in Payment : old = payments[r]
  BY <1>3 DEF Inv, TypeOK
<1>5. [old EXCEPT !.state = "refunded"].state = "refunded"
      /\ [old EXCEPT !.state = "refunded"].terms = old.terms
  BY DEF Payment
<1>6. payments' = [payments EXCEPT ![r] = [old EXCEPT !.state = "refunded"]]
  BY <1>3, <1>4, Zenon
<1>7. /\ payments'[r].state = "refunded" /\ payments'[r].terms = payments[r].terms
      /\ \A q \in References \ {r} : payments'[q] = payments[q]
  BY <1>3, <1>4, <1>5, <1>6 DEF Inv, TypeOK
<1>8. States' = [States EXCEPT ![r] = "refunded"] /\ Dues' = Dues
  <2>1. \A q \in References :
          /\ payments'[q].state = IF q = r THEN "refunded" ELSE payments[q].state
          /\ payments'[q].terms = payments[q].terms
    BY <1>7
  <2> HIDE DEF r
  <2>2. /\ States' = [q \in References |-> IF q = r THEN "refunded" ELSE States[q]]
        /\ Dues' = Dues
    BY <2>1 DEF States, Dues
  <2> QED BY <2>2 DEF States, Dues
<1>9. Paid!Left(r, c.begun) = Covering(c.begun) \ {r}
  BY DEF Paid!Left, Covering, Unrefunded
<1>10. \A q \in Covering(c.begun) : Dues[q] = payments[q].terms
  BY DEF Dues, Covering, Unrefunded
<1>11. \/ /\ Paid!Left(r, c.begun) = {}
          /\ \E t \in c.begun .. now : policy' = [until |-> t, limit |-> 0]
       \/ \E q \in Paid!Left(r, c.begun) :
            /\ \A s \in Paid!Left(r, c.begun) : Dues[s].ends <= Dues[q].ends
            /\ policy' = [until |-> Dues[q].ends, limit |-> Dues[q].limit]
  <2>1. ASSUME NEW q \in Longest(r, c.begun),
               policy' = [until |-> payments[q].terms.ends, limit |-> payments[q].terms.limit]
        PROVE  \E x \in Paid!Left(r, c.begun) :
                 /\ \A s \in Paid!Left(r, c.begun) : Dues[s].ends <= Dues[x].ends
                 /\ policy' = [until |-> Dues[x].ends, limit |-> Dues[x].limit]
    <3>1. q \in Covering(c.begun) \ {r}
          /\ \A s \in Covering(c.begun) \ {r} : payments[s].terms.ends <= payments[q].terms.ends
      BY DEF Longest
    <3> QED BY <1>9, <1>10, <2>1, <3>1
  <2>2. ASSUME Longest(r, c.begun) = {} PROVE Paid!Left(r, c.begun) = {}
    BY <1>9, <2>2, SomeIsLongest
  <2> QED BY <1>3, <2>1, <2>2
<1>12. Paid!Refund(r, c.begun)
  <2>1. c.begun <= now
    BY <1>3
  <2> HIDE DEF r
  <2> QED BY <1>3, <1>8, <1>11, <2>1 DEF Paid!Refund, States, Dues
<1> QED BY <1>3, <1>12 DEF Paid!Next

LEMMA ChildrenMap ==
  ASSUME Inv, NEW p \in Parents, CreateChild(p) \/ ImportBackup(p) \/ RemoveChild(p)
  PROVE  Paid!Next
<1>1. UNCHANGED <<now, payments, policy>>
  BY DEF CreateChild, ImportBackup, RemoveChild
<1>2. children' <= policy.limit \/ children' = children - 1
  BY CreateChildKeeps, ImportBackupKeeps DEF RemoveChild
<1> QED BY <1>1, <1>2 DEF Paid!Next, Paid!Fill, Paid!Remove

LEMMA NextMaps == Inv /\ [Next]_vars => [Paid!Next]_(Paid!vars)
<1> SUFFICES ASSUME Inv, [Next]_vars PROVE [Paid!Next]_(Paid!vars)
  OBVIOUS
<1>1. CASE UNCHANGED vars
  BY <1>1 DEF vars, Paid!vars
<1>2. CASE Tick
  BY <1>2 DEF Tick, Paid!Next, Paid!Tick
<1>3. ASSUME NEW o \in Operators,
             \/ \E r \in References : BeginRefund(o, r)
             \/ \E r \in References : \E t \in Terms : BeginPayment(o, r, t)
             \/ ReadPolicy(o) \/ EndCommand(o)
      PROVE  UNCHANGED Paid!vars
  BY <1>3 DEF BeginRefund, BeginPayment, ReadPolicy, EndCommand, Paid!vars
<1>4. ASSUME NEW p \in Parents,
             Authorise(p) \/ (\E wish \in 0 .. More : CountChildren(p, wish)) \/ EndRequest(p)
      PROVE  UNCHANGED Paid!vars
  BY <1>4 DEF Authorise, CountChildren, EndRequest, Paid!vars
<1>5. ASSUME NEW o \in Operators, CommitPayment(o) \/ CommitRefund(o) PROVE Paid!Next
  BY <1>5, PaymentMaps, RefundMaps
<1>6. ASSUME NEW p \in Parents, CreateChild(p) \/ ImportBackup(p) \/ RemoveChild(p)
      PROVE  Paid!Next
  BY <1>6, ChildrenMap
<1> QED BY <1>1, <1>2, <1>3, <1>4, <1>5, <1>6, NextSplits

LEMMA InitMaps == Init => Paid!Init
<1> SUFFICES ASSUME Init PROVE Paid!Init
  OBVIOUS
<1>1. policy.until \in {now, Forever} /\ children <= policy.limit /\ now = 1
  BY SubscriptionAssumption DEF Init
<1>2. States = [r \in References |-> "none"]
  BY DEF Init, States, NoPayment
<1> QED BY <1>1, <1>2 DEF Paid!Init, States

-----------------------------------------------------------------------------
(* What was paid for is honoured.                                          *)

\* Payments have begun, and with one that is not refunded the family has a term.
Recorded == \A r \in Unrefunded : payments[r].terms.starts <= now /\ policy.until # Forever

LEMMA PaymentWrites ==
  ASSUME Inv, NEW o \in Operators, CommitPayment(o)
  PROVE  \E r \in References, t \in Terms :
           /\ now' = now /\ t.starts <= now /\ t.ends \in Nat /\ t.ends # Forever
           /\ policy.until = Forever \/ policy.until <= t.ends
           /\ policy'.until = t.ends
           /\ payments'[r].state = "paid" /\ payments'[r].terms = t
           /\ \A q \in References \ {r} : payments'[q] = payments[q]
<1>1. PICK c \in Command : c = commands[o]
  BY DEF Inv, TypeOK
<1>2. CommandStands(o)
  BY DEF Inv, ReadsStand
<1>3. /\ c.pc = "recording" /\ c.reference \in References /\ c.seen = policy
      /\ c.terms \in Terms /\ c.terms.starts <= now
  <2>1. c.pc = "recording"
    BY <1>1 DEF CommitPayment
  <2> QED BY <1>1, <1>2, <2>1, RecordedHasStarted DEF CommandStands
<1> DEFINE pay == [state |-> "paid", terms |-> c.terms, created |-> c.begun]
<1>4. /\ now' = now /\ payments' = [payments EXCEPT ![c.reference] = pay]
      /\ policy' = [until |-> c.terms.ends, limit |-> c.terms.limit]
      /\ policy.until = Forever \/ policy.until <= c.terms.ends
  BY <1>1, <1>3 DEF CommitPayment, Fits
<1>5. payments'[c.reference] = pay /\ \A q \in References \ {c.reference} : payments'[q] = payments[q]
  BY <1>3, <1>4 DEF Inv, TypeOK
<1>6. c.terms.ends \in Nat /\ c.terms.ends # Forever
  BY <1>3, Constants
<1> QED BY <1>3, <1>4, <1>5, <1>6

LEMMA RefundWrites ==
  ASSUME Inv, NEW o \in Operators, CommitRefund(o)
  PROVE  LET r == commands[o].reference
             t == commands[o].begun
         IN /\ now' = now /\ r \in References /\ t \in Nat /\ t <= now
            /\ payments'[r].state = "refunded"
            /\ \A q \in References \ {r} : payments'[q] = payments[q]
            /\ \/ Covering(t) \ {r} = {} /\ policy'.until \in t .. now
               \/ \E q \in Covering(t) \ {r} :
                    /\ policy'.until = payments[q].terms.ends
                    /\ \A s \in Covering(t) \ {r} : payments[s].terms.ends <= payments[q].terms.ends
<1>1. PICK c \in Command : c = commands[o]
  BY DEF Inv, TypeOK
<1>2. CommandStands(o) /\ c.begun \in Times
  BY <1>1 DEF Inv, ReadsStand, Command
<1> DEFINE r == c.reference
<1>3. /\ r \in References /\ payments[r].state = "paid" /\ c.begun \in Nat /\ c.begun <= now
      /\ now' = now /\ payments' = [payments EXCEPT ![r].state = "refunded"]
      /\ \/ \E q \in Longest(r, c.begun) :
              policy' = [until |-> payments[q].terms.ends, limit |-> payments[q].terms.limit]
         \/ /\ Longest(r, c.begun) = {}
            /\ \E t \in c.begun .. now : policy' = [until |-> t, limit |-> 0]
  BY <1>1, <1>2, Constants DEF CommitRefund, CommandStands
<1>4. PICK old \in Payment : old = payments[r]
  BY <1>3 DEF Inv, TypeOK
<1>5. [old EXCEPT !.state = "refunded"].state = "refunded"
  BY DEF Payment
<1>6. payments' = [payments EXCEPT ![r] = [old EXCEPT !.state = "refunded"]]
  BY <1>3, <1>4, Zenon
<1>7. payments'[r].state = "refunded" /\ \A q \in References \ {r} : payments'[q] = payments[q]
  BY <1>3, <1>5, <1>6 DEF Inv, TypeOK
<1>8. ASSUME NEW q \in Longest(r, c.begun)
      PROVE  q \in Covering(c.begun) \ {r}
             /\ \A s \in Covering(c.begun) \ {r} : payments[s].terms.ends <= payments[q].terms.ends
  BY DEF Longest
<1>9. Longest(r, c.begun) = {} => Covering(c.begun) \ {r} = {}
  BY SomeIsLongest
<1> HIDE DEF r
<1> QED BY <1>1, <1>3, <1>7, <1>8, <1>9 DEF r

LEMMA TimePasses ==
  ASSUME Inv, Next
  PROVE  now' \in Nat /\ now <= now'
<1>1. UNCHANGED now \/ Tick
  BY NextSplits DEF BeginRefund, BeginPayment, ReadPolicy, CommitPayment, CommitRefund,
    EndCommand, Authorise, CountChildren, CreateChild, ImportBackup, RemoveChild, EndRequest
<1> QED BY <1>1, Numbers DEF Tick

LEMMA InitRecorded == Init => Recorded
BY DEF Init, Recorded, Unrefunded, NoPayment

LEMMA RecordedKeeps == Inv /\ Recorded /\ [Next]_vars => Recorded'
<1> SUFFICES ASSUME Inv, Recorded, [Next]_vars PROVE Recorded'
  OBVIOUS
<1>1. ASSUME UNCHANGED <<payments, policy>>, now' \in Nat, now <= now' PROVE Recorded'
  <2>1. ASSUME NEW r \in Unrefunded PROVE payments[r].terms.starts <= now'
    <3>1. payments[r].terms.starts <= now /\ payments[r].terms.starts \in Nat
      BY AnyTerms, Constants DEF Recorded, Unrefunded, Inv, TypeOK, Payment
    <3> QED BY <1>1, <3>1, Numbers
  <2> QED BY <1>1, <2>1 DEF Recorded, Unrefunded
<1>2. ASSUME NEW o \in Operators, CommitPayment(o) PROVE Recorded'
  BY <1>2, PaymentWrites DEF Recorded, Unrefunded
<1>3. ASSUME NEW o \in Operators, CommitRefund(o) PROVE Recorded'
  <2>1. policy'.until # Forever
    <3>1. \A t : \A q \in Covering(t) : payments[q].terms.ends # Forever
      BY AnyTerms, Constants DEF Covering, Unrefunded, Inv, TypeOK, Payment
    <3>2. \A t \in commands[o].begun .. now : t # Forever
      BY <1>3, RefundWrites, Numbers, Constants
    <3>3. \/ policy'.until \in commands[o].begun .. now
          \/ \E q \in Covering(commands[o].begun) : policy'.until = payments[q].terms.ends
      BY <1>3, RefundWrites
    <3> QED BY <3>1, <3>2, <3>3
  <2>2. Unrefunded' \subseteq Unrefunded /\ \A q \in Unrefunded' : payments'[q] = payments[q]
    BY <1>3, RefundWrites DEF Unrefunded
  <2>3. now' = now
    BY <1>3, RefundWrites
  <2> QED BY <2>1, <2>2, <2>3 DEF Recorded
<1>4. CASE UNCHANGED vars
  BY <1>1, <1>4, Numbers DEF vars
<1>5. CASE Next
  <2>1. now' \in Nat /\ now <= now'
    BY <1>5, TimePasses
  <2> QED BY <1>1, <1>2, <1>3, <1>5, <2>1, WhoWrites
<1> QED BY <1>4, <1>5

\* A step that is no refund, or one that did not wait, keeps what was paid for.
LEMMA HonouredKeeps ==
  ASSUME Inv, Recorded, PaidIsHonoured, [Next]_vars,
         \A o \in Operators : CommitRefund(o) => ~(commands[o].begun < now)
  PROVE  PaidIsHonoured'
<1>0. policy.until \in Nat /\ now \in Nat
      /\ \A r \in References : payments[r].terms.ends \in Nat /\ payments[r].terms.starts \in Nat
  BY Numbers, AnyTerms, Constants DEF Inv, TypeOK, Payment
<1>1. ASSUME UNCHANGED <<payments, policy>>, now' \in Nat, now <= now' PROVE PaidIsHonoured'
  <2>1. ASSUME NEW q \in Covering(now)' PROVE q \in Covering(now)
    <3>1. q \in Unrefunded /\ q \in References /\ now' < payments[q].terms.ends
      BY <1>1 DEF Covering, Unrefunded
    <3>2. payments[q].terms.starts <= now
      BY <3>1 DEF Recorded
    <3>3. now < payments[q].terms.ends
      BY <1>0, <1>1, <3>1
    <3> QED BY <3>1, <3>2, <3>3 DEF Covering
  <2> QED BY <1>1, <2>1 DEF PaidIsHonoured
<1>2. ASSUME NEW o \in Operators, CommitPayment(o) PROVE PaidIsHonoured'
  <2>1. PICK r \in References, t \in Terms :
           /\ now' = now /\ t.starts <= now /\ t.ends \in Nat /\ t.ends # Forever
           /\ policy.until = Forever \/ policy.until <= t.ends
           /\ policy'.until = t.ends
           /\ payments'[r].state = "paid" /\ payments'[r].terms = t
           /\ \A q \in References \ {r} : payments'[q] = payments[q]
    BY <1>2, PaymentWrites
  <2>2. ASSUME NEW q \in Covering(now)' PROVE payments'[q].terms.ends <= policy'.until
    <3>1. CASE q = r
      BY <2>1, <3>1
    <3>2. CASE q # r
      <4>1. q \in Covering(now) /\ q \in Unrefunded /\ q \in References /\ payments'[q] = payments[q]
        BY <2>1, <3>2 DEF Covering, Unrefunded
      <4>2. policy.until <= t.ends /\ payments[q].terms.ends <= policy.until
        BY <2>1, <4>1 DEF Recorded, PaidIsHonoured
      <4> QED BY <1>0, <2>1, <4>1, <4>2
    <3> QED BY <3>1, <3>2
  <2> QED BY <2>2 DEF PaidIsHonoured
<1>3. ASSUME NEW o \in Operators, CommitRefund(o) PROVE PaidIsHonoured'
  <2> DEFINE r == commands[o].reference
             t == commands[o].begun
  <2>1. /\ now' = now /\ r \in References /\ t \in Nat /\ t <= now
        /\ payments'[r].state = "refunded"
        /\ \A q \in References \ {r} : payments'[q] = payments[q]
        /\ \/ Covering(t) \ {r} = {} /\ policy'.until \in t .. now
           \/ \E q \in Covering(t) \ {r} :
                /\ policy'.until = payments[q].terms.ends
                /\ \A s \in Covering(t) \ {r} : payments[s].terms.ends <= payments[q].terms.ends
    BY <1>3, RefundWrites
  <2>2. t = now
    BY <1>0, <1>3, <2>1
  <2> HIDE DEF r, t
  <2>3. ASSUME NEW q \in Covering(now)'
        PROVE  q \in Covering(t) \ {r} /\ payments'[q] = payments[q]
    BY <2>1, <2>2 DEF Covering, Unrefunded
  <2> QED BY <2>1, <2>3 DEF PaidIsHonoured
<1>4. CASE UNCHANGED vars
  BY <1>0, <1>1, <1>4 DEF vars
<1>5. CASE Next
  <2>1. now' \in Nat /\ now <= now'
    BY <1>5, TimePasses
  <2> QED BY <1>1, <1>2, <1>3, <1>5, <2>1, WhoWrites
<1> QED BY <1>4, <1>5

-----------------------------------------------------------------------------
(* The theorems.                                                           *)

\* Every value keeps its kind.
THEOREM TypeCorrectness == Spec => []TypeOK
<1>1. Inv => TypeOK
  BY DEF Inv
<1> QED BY <1>1, Always, PTL

\* A term that runs is the term of one payment that has not been refunded
\* (RecordPayment, RefundPayment).
THEOREM AccessPaid == Spec => []AccessIsPaid
<1>1. Inv => AccessIsPaid
  BY DEF Inv
<1> QED BY <1>1, Always, PTL

\* Without a refund the children of a family fit its limit, at every moment.
THEOREM ChildrenWithinLimit == Spec => []ChildrenFit
<1>1. Inv => ChildrenFit
  BY DEF Inv
<1> QED BY <1>1, Always, PTL

\* A request that makes more children stays below the limit of its commit
\* (CreateParticipant, ImportBackup).
THEOREM GrowthPaid == Spec => GrowthIsPaid
<1>1. Inv /\ [Next]_vars => [children' > children => children' <= policy.limit]_vars
  BY StepIsSafe DEF Growth
<1> QED BY <1>1, Always, PTL DEF Spec, GrowthIsPaid

\* A reference is one payment for ever, and its refund is final.
THEOREM ReferencesAreFinal == Spec => ReferenceIsFinal
<1>1. Inv /\ [Next]_vars =>
        [\A r \in References : payments[r].state # "none" =>
           /\ payments'[r].terms = payments[r].terms
           /\ payments'[r].state \in {payments[r].state, "refunded"}]_vars
  BY StepIsSafe DEF Final
<1> QED BY <1>1, Always, PTL DEF Spec, ReferenceIsFinal

\* No payment takes back what an earlier one granted; only refunds do.
THEOREM TermsAreKept == Spec => OnlyRefundsShorten
<1>1. Inv /\ [Next]_vars =>
        [policy.until # Forever /\ policy'.until < policy.until =>
           \E r \in References : payments[r].state = "paid" /\ payments'[r].state = "refunded"]_vars
  BY StepIsSafe DEF Shortened
<1> QED BY <1>1, Always, PTL DEF Spec, OnlyRefundsShorten

\* RecordPayment, RefundPayment, CreateParticipant and ImportBackup read, wait, and
\* write later: the locks make each of them one step of PaidAccess.
THEOREM SerialTransactions == Spec => TransactionsAreSerial
BY InitMaps, NextMaps, Always, PTL DEF Spec, TransactionsAreSerial, Paid!Spec

\* A payment that covers the moment loses its access only to a RefundPayment whose
\* BEGIN was earlier: the exact extent of what PaidIsHonoured misses.
THEOREM OnlyWaitingRefunds == Spec => OnlyWaitingRefundsTake
<1>1. Spec => []Recorded
  <2>1. Inv /\ Recorded /\ [Next]_vars => Recorded'
    BY RecordedKeeps
  <2> QED BY <2>1, InitRecorded, Always, PTL DEF Spec
<1>2. Inv /\ Recorded /\ [Next]_vars =>
        [PaidIsHonoured /\ ~PaidIsHonoured' =>
           \E o \in Operators : CommitRefund(o) /\ commands[o].begun < now]_vars
  BY HonouredKeeps
<1> QED BY <1>1, <1>2, Always, PTL DEF Spec, OnlyWaitingRefundsTake
=============================================================================
