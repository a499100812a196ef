----------------------- MODULE TelegramDelivery_proofs -----------------------
(* Theorems about TelegramDelivery, for every value of its constants.       *)
EXTENDS TelegramDelivery, TLAPS

-----------------------------------------------------------------------------
(* What the transactions of Core do to the types of their tables.           *)

\* Cancelling pending rows leaves a well-typed outbox.
LEMMA CancelledType ==
  ASSUME CoreTypeOK, NEW S
  PROVE  Cancelled(S) \in [Event -> Row]
BY DEF CoreTypeOK, Cancelled, Row, RowState

LEMMA RecipientCallsType ==
  ASSUME CoreTypeOK, NEW r \in Refs, NEW p \in Parents, NEW sub \in Nat, NEW b \in Nat,
         SetRecipient(r, p, sub, b) \/ Revoke(r)
  PROVE  CoreTypeOK'
<1>1. recipients' \in [Refs -> Recipient]
  <2>1. KeptSub(r, p, sub, b) \in Nat
    BY DEF CoreTypeOK, KeptSub, Recipient
  <2>2. CASE SetRecipient(r, p, sub, b)
    BY <2>1, <2>2 DEF CoreTypeOK, SetRecipient, Recipient
  <2>3. CASE Revoke(r)
    BY <2>3 DEF CoreTypeOK, Revoke, Recipient
  <2>. QED
    BY <2>2, <2>3
<1>2. events' \in [Event -> Row]
  BY CancelledType DEF SetRecipient, Revoke
<1>. QED
  BY <1>1, <1>2 DEF CoreTypeOK, SetRecipient, Revoke

\* A revocation needs nothing but its recipient.
LEMMA RecipientRevokeType ==
  ASSUME CoreTypeOK, NEW r \in Refs, Revoke(r)
  PROVE  CoreTypeOK'
BY CancelledType DEF CoreTypeOK, Revoke, Recipient

LEMMA WorkerCallsType ==
  ASSUME CoreTypeOK, NEW e \in Event, NEW tok \in Tokens,
         NEW outcome \in Outcomes, NEW code \in Codes,
         Claim(e, tok) \/ Settle(e, tok, outcome, code)
  PROVE  CoreTypeOK'
<1>1. CASE Claim(e, tok)
  BY <1>1 DEF CoreTypeOK, Claim, Row
<1>2. CASE Settle(e, tok, outcome, code)
  <2>1. recipients' \in [Refs -> Recipient]
    BY <1>2 DEF CoreTypeOK, Settle, Recipient
  <2> DEFINE siblings == {f \in Event : EndsGeneration(outcome, code) /\ f # e /\ SameGeneration(e, f)}
  <2>2. Cancelled(siblings) \in [Event -> Row]
    BY CancelledType
  <2>3. [events[e] EXCEPT !.state = IF outcome = "retry" THEN "pending" ELSE outcome,
                          !.lease = NoLease, !.due = outcome # "retry"] \in Row
    BY DEF CoreTypeOK, Row, RowState, Outcomes
  <2>4. events' \in [Event -> Row]
    BY <1>2, <2>2, <2>3 DEF Settle
  <2>. QED
    BY <1>2, <2>1, <2>4 DEF CoreTypeOK, Settle
<1>. QED
  BY <1>1, <1>2

LEMMA FamilyType ==
  ASSUME CoreTypeOK, FamilyStep
  PROVE  CoreTypeOK'
<1>1. ASSUME NEW t \in Tasks, CompleteBegin(t)
      PROVE  CoreTypeOK'
  <2>1. \A e \in Event : RefOf(e) \in Refs
    BY DEF Event, RefOf
  <2>2. events' \in [Event -> Row]
    BY <1>1, <2>1 DEF CompleteBegin, CoreTypeOK, Row, RowState, Recipient
  <2>. QED
    BY <1>1, <2>2 DEF CompleteBegin, CoreTypeOK
<1>2. ASSUME NEW t \in Tasks, CompleteCommit(t)
      PROVE  CoreTypeOK'
  BY <1>2 DEF CompleteCommit, CoreTypeOK, Row, RowState
<1>3. ASSUME NEW t \in Tasks, CompleteAbort(t)
      PROVE  CoreTypeOK'
  BY <1>3 DEF CompleteAbort, CoreTypeOK, Row, RowState, NoRow
<1>4. ASSUME NEW e \in Event, BackoffElapses(e)
      PROVE  CoreTypeOK'
  BY <1>4 DEF BackoffElapses, CoreTypeOK, Row
<1>5. ASSUME NEW p \in Parents, DeactivateParent(p)
      PROVE  CoreTypeOK'
  BY <1>5 DEF DeactivateParent, CoreTypeOK
<1>6. CASE PolicyChange
  BY <1>6 DEF PolicyChange, CoreTypeOK
<1>7. CASE Suspension
  BY <1>7 DEF Suspension, CoreTypeOK
<1>8. ASSUME NEW done \in SUBSET Tasks, NEW parents \in SUBSET Parents, Restore(done, parents)
      PROVE  CoreTypeOK'
  <2>1. events' \in [Event -> Row]
    BY <1>8, CancelledType DEF Restore
  <2>2. restores' \in 0 .. MaxRestores
    BY <1>8, OutboxAssumption DEF Restore, CoreTypeOK
  <2>. QED
    BY <1>8, <2>1, <2>2 DEF Restore, CoreTypeOK, NoRecipient, Recipient
<1>. QED
  BY <1>1, <1>2, <1>3, <1>4, <1>5, <1>6, <1>7, <1>8 DEF FamilyStep

-----------------------------------------------------------------------------
LEMMA IdleType == Idle \in DispState /\ Idle.pc = "idle"
BY DEF DispState, Idle, DispPc, Outcomes, Codes

LEMMA NoConsentType == NoConsent \in ConsentState /\ NoConsent.pc = "idle"
<1>1. (CHOOSE r \in Refs : TRUE) \in Refs
  BY DeliveryAssumption
<1>. QED
  BY <1>1 DEF ConsentState, NoConsent, ConsentPc

LEMMA InitType == Init => TypeOK
<1>. SUFFICES ASSUME Init PROVE TypeOK
  OBVIOUS
<1>1. CoreTypeOK
  <2>1. NoRow \in Row
    BY DEF NoRow, Row, RowState
  <2>2. NoRecipient \in Recipient
    BY DEF NoRecipient, Recipient
  <2>3. events \in [Event -> Row] /\ recipients \in [Refs -> Recipient]
    BY <2>1, <2>2 DEF Init, CoreInit
  <2>4. restores \in 0 .. MaxRestores
    BY OutboxAssumption DEF Init, CoreInit
  <2>. QED
    BY <2>3, <2>4 DEF Init, CoreInit, CoreTypeOK
<1>2. DispOK
  BY IdleType DEF Init, DispOK
<1>3. ConsentOK
  BY NoConsentType DEF Init, ConsentOK
<1>4. WorldOK
  BY DEF Init, WorldOK
<1>. QED
  BY <1>1, <1>2, <1>3, <1>4 DEF TypeOK

\* Nothing that happens outside Core touches the types of its tables.
LEMMA CoreUnchanged ==
  ASSUME CoreTypeOK, UNCHANGED coreVars
  PROVE  CoreTypeOK'
BY DEF CoreTypeOK, coreVars

\* A worker about to settle sends a well-formed call.
LEMMA SettleCallType ==
  ASSUME DispOK, disp.pc # "idle"
  PROVE  /\ disp.event \in Event /\ disp.lease \in Tokens
         /\ disp.outcome \in Outcomes /\ disp.code \in Codes
         /\ SettleCall(disp) \in Settlement
BY DEF DispOK, DispState, SettleCall, Settlement

LEMMA DispMoves ==
  ASSUME DispOK, disp.pc # "idle",
         \/ \E pc \in DispPc \ {"idle"} : Goto(pc)
         \/ \E outcome \in Outcomes, code \in Codes : Decide(outcome, code)
  PROVE  DispOK'
BY DEF DispOK, DispState, Goto, Decide, DispPc

\* The worker's own steps.
LEMMA WorkerType ==
  ASSUME TypeOK, Worker
  PROVE  TypeOK'
<1>0. ConsentOK'
  BY DEF Worker, WorkerClaim, WorkerIdentity, WorkerCheck, WorkerEligibility, WorkerSend,
         WorkerSettle, dispFrame, TypeOK, ConsentOK
<1>1. CASE WorkerClaim
  <2>1. CoreTypeOK'
    BY <1>1, WorkerCallsType DEF WorkerClaim, TypeOK, Outcomes, Codes
  <2>2. PICK e \in Event, tok \in Tokens :
           \/ disp' = [Idle EXCEPT !.pc = "claimed", !.event = e, !.lease = tok]
           \/ disp' = Idle
    BY <1>1 DEF WorkerClaim
  <2>3. DispOK'
    BY <2>2, IdleType DEF DispOK, DispState, DispPc
  <2>4. WorldOK'
    BY <1>1 DEF WorkerClaim, TypeOK, WorldOK, Fault, NoFault
  <2>. QED
    BY <1>0, <2>1, <2>3, <2>4 DEF TypeOK
<1>2. CASE WorkerIdentity \/ WorkerCheck \/ WorkerEligibility
  <2>1. CoreTypeOK'
    BY <1>2, CoreUnchanged DEF WorkerIdentity, WorkerCheck, WorkerEligibility, dispFrame, TypeOK
  <2>2. DispOK'
    BY <1>2, DispMoves DEF WorkerIdentity, WorkerCheck, WorkerEligibility, TypeOK, DispPc,
         Outcomes, Codes
  <2>3. WorldOK'
    BY <1>2 DEF WorkerIdentity, WorkerCheck, WorkerEligibility, dispFrame, TypeOK, WorldOK,
         Fault, NoFault
  <2>. QED
    BY <1>0, <2>1, <2>2, <2>3 DEF TypeOK
<1>3. CASE WorkerSend
  <2>1. CoreTypeOK'
    BY <1>3, CoreUnchanged DEF WorkerSend, TypeOK
  <2>2. DispOK'
    BY <1>3, DispMoves DEF WorkerSend, TypeOK, DispPc, Outcomes, Codes
  <2>3. WorldOK'
    BY <1>3, SettleCallType DEF WorkerSend, TypeOK, WorldOK, Fault, NoFault
  <2>. QED
    BY <1>0, <2>1, <2>2, <2>3 DEF TypeOK
<1>4. CASE WorkerSettle
  <2>1. CoreTypeOK'
    BY <1>4, SettleCallType, WorkerCallsType, CoreUnchanged DEF WorkerSettle, TypeOK
  <2>2. DispOK'
    BY <1>4, IdleType DEF WorkerSettle, DispOK
  <2>3. WorldOK'
    BY <1>4, SettleCallType DEF WorkerSettle, TypeOK, WorldOK, Fault, NoFault
  <2>. QED
    BY <1>0, <2>1, <2>2, <2>3 DEF TypeOK
<1>. QED
  BY <1>1, <1>2, <1>3, <1>4 DEF Worker

LEMMA ConsentMoves ==
  ASSUME ConsentOK,
         \/ Finish
         \/ \E pc \in ConsentPc \ {"portalOn", "bind", "record"} : Step(pc)
         \/ consent.pc = "portalOn" /\ Step("bind")
  PROVE  ConsentOK'
BY NoConsentType DEF ConsentOK, ConsentState, Finish, Step, ConsentPc

\* The steps of a consent request.
LEMMA ConsentType ==
  ASSUME TypeOK, ConsentRequest \/ ConsentStep
  PROVE  TypeOK'
<1>. USE DEF Fault, NoFault, consentFrame
<1>0. DispOK'
  BY DEF ConsentRequest, ConsentStep, OptIn, OptOut, PortalOn, FetchBinding, RecordRecipient,
         Compensate, RevokeFirst, PortalOff, TypeOK, DispOK
<1>1. ASSUME NEW r \in Refs, NEW p \in Parents, OptIn(r, p)
      PROVE  TypeOK'
  <2>1. gen + 1 \in Nat
    BY DEF TypeOK, WorldOK
  <2>2. ConsentOK'
    BY <1>1, <2>1, NoConsentType DEF OptIn, ConsentOK, ConsentState, ConsentPc
  <2>. QED
    BY <1>0, <1>1, <2>1, <2>2, CoreUnchanged DEF OptIn, TypeOK, WorldOK
<1>2. ASSUME NEW r \in Refs, NEW selected \in BOOLEAN, OptOut(r, selected)
      PROVE  TypeOK'
  <2>1. ConsentOK'
    BY <1>2, NoConsentType DEF OptOut, TypeOK, ConsentOK, ConsentState, ConsentPc
  <2>. QED
    BY <1>0, <1>2, <2>1, CoreUnchanged DEF OptOut, TypeOK, WorldOK
<1>3. CASE PortalOn
  <2>1. ConsentOK'
    BY <1>3, ConsentMoves DEF PortalOn, TypeOK
  <2>2. WorldOK'
    BY <1>3 DEF PortalOn, TypeOK, WorldOK, ConsentOK, ConsentState
  <2>. QED
    BY <1>0, <1>3, <2>1, <2>2, CoreUnchanged DEF PortalOn, TypeOK
<1>4. CASE FetchBinding
  <2>1. ConsentOK'
    <3>1. consent.ref \in Refs /\ portal[consent.ref] \in Nat
      BY DEF TypeOK, ConsentOK, ConsentState, WorldOK
    <3>2. CASE Step("compensate")
      BY <3>2, ConsentMoves DEF TypeOK, ConsentPc
    <3>3. CASE consent' = [consent EXCEPT !.pc = "record", !.binding = portal[consent.ref]]
      BY <1>4, <3>1, <3>3 DEF FetchBinding, TypeOK, ConsentOK, ConsentState, ConsentPc
    <3>. QED
      BY <1>4, <3>2, <3>3 DEF FetchBinding
  <2>. QED
    BY <1>0, <1>4, <2>1, CoreUnchanged DEF FetchBinding, TypeOK, WorldOK
<1>5. CASE RecordRecipient
  <2>1. consent.ref \in Refs /\ consent.parent \in Parents /\ consent.sub \in Nat
        /\ consent.binding \in Nat
    BY <1>5 DEF RecordRecipient, TypeOK, ConsentOK, ConsentState
  <2>2. CoreTypeOK'
    BY <1>5, <2>1, RecipientCallsType, CoreUnchanged DEF RecordRecipient, TypeOK
  <2>3. ConsentOK'
    BY <1>5, ConsentMoves DEF RecordRecipient, TypeOK, ConsentPc
  <2>4. RecordCall(consent) \in Recording
    BY <2>1 DEF RecordCall, Recording
  <2>5. WorldOK'
    BY <1>5, <2>4 DEF RecordRecipient, TypeOK, WorldOK
  <2>. QED
    BY <1>0, <2>2, <2>3, <2>5 DEF TypeOK
<1>6. CASE Compensate \/ PortalOff
  <2>1. ConsentOK'
    BY <1>6, ConsentMoves DEF Compensate, PortalOff, TypeOK
  <2>2. WorldOK'
    BY <1>6 DEF Compensate, PortalOff, TypeOK, WorldOK, ConsentOK, ConsentState
  <2>. QED
    BY <1>0, <1>6, <2>1, <2>2, CoreUnchanged DEF Compensate, PortalOff, TypeOK
<1>7. CASE RevokeFirst
  <2>1. consent.ref \in Refs
    BY DEF TypeOK, ConsentOK, ConsentState
  <2>2. CoreTypeOK'
    <3>1. CASE Revoke(consent.ref)
      BY <2>1, <3>1, RecipientRevokeType DEF TypeOK
    <3>. QED
      BY <1>7, <3>1, CoreUnchanged DEF RevokeFirst, TypeOK
  <2>3. ConsentOK'
    <3>1. \/ Step("portalOff")
          \/ consent' = [consent EXCEPT !.pc = "portalOff", !.failed = TRUE]
      BY <1>7 DEF RevokeFirst
    <3>. QED
      BY <3>1 DEF Step, TypeOK, ConsentOK, ConsentState, ConsentPc
  <2>4. RevokeCall(consent) \in Revocation
    BY <2>1 DEF RevokeCall, Revocation
  <2>5. WorldOK'
    BY <1>7, <2>4 DEF RevokeFirst, TypeOK, WorldOK
  <2>. QED
    BY <1>0, <2>2, <2>3, <2>5 DEF TypeOK
<1>. QED
  BY <1>1, <1>2, <1>3, <1>4, <1>5, <1>6, <1>7 DEF ConsentRequest, ConsentStep

\* A late call is one of the three calls Access makes.
LEMMA LateCallType ==
  ASSUME TypeOK, LateCall
  PROVE  CoreTypeOK'
<1>1. PICK m \in late : LateCall!(m)
  BY DEF LateCall
<1>2. CASE m.call = "settle"
  <2>1. m.event \in Event /\ m.lease \in Tokens /\ m.outcome \in Outcomes /\ m.code \in Codes
    BY <1>2 DEF TypeOK, WorldOK, Settlement, Recording, Revocation
  <2>. QED
    BY <1>1, <1>2, <2>1, WorkerCallsType, CoreUnchanged DEF TypeOK
<1>3. CASE m.call = "record"
  <2>1. m.ref \in Refs /\ m.parent \in Parents /\ m.sub \in Nat /\ m.binding \in Nat
    BY <1>3 DEF TypeOK, WorldOK, Settlement, Recording, Revocation
  <2>. QED
    BY <1>1, <1>3, <2>1, RecipientCallsType, CoreUnchanged DEF TypeOK
<1>4. CASE m.call = "revoke"
  <2>1. m.ref \in Refs
    BY <1>4 DEF TypeOK, WorldOK, Settlement, Recording, Revocation
  <2>. QED
    BY <1>1, <1>4, <2>1, RecipientRevokeType, CoreUnchanged DEF TypeOK
<1>. QED
  BY <1>1, <1>2, <1>3, <1>4

LEMMA EnvironmentType ==
  ASSUME TypeOK,
         \/ LateCall
         \/ \E e \in Event : Expiry(e)
         \/ \E r \in Refs : PortalStop(r)
         \/ AccessCrash
  PROVE  TypeOK'
<1>1. CASE LateCall
  <2>1. /\ UNCHANGED <<disp, consent, portal, accepted, gen, optOut, faults>>
        /\ late' \subseteq late
    BY <1>1 DEF LateCall
  <2>. QED
    BY <1>1, <2>1, LateCallType DEF TypeOK, DispOK, ConsentOK, WorldOK
<1>2. ASSUME NEW e \in Event, Expiry(e)
      PROVE  TypeOK'
  <2>1. CoreTypeOK'
    BY <1>2 DEF Expiry, LeaseExpires, TypeOK, CoreTypeOK, Row
  <2>. QED
    BY <1>2, <2>1 DEF Expiry, TypeOK, DispOK, ConsentOK, WorldOK, Fault, NoFault
<1>3. ASSUME NEW r \in Refs, PortalStop(r)
      PROVE  TypeOK'
  BY <1>3, CoreUnchanged DEF PortalStop, TypeOK, DispOK, ConsentOK, WorldOK
<1>4. CASE AccessCrash
  BY <1>4, CoreUnchanged, IdleType, NoConsentType DEF AccessCrash, TypeOK, DispOK, ConsentOK, WorldOK, Fault
<1>. QED
  BY <1>1, <1>2, <1>3, <1>4

LEMMA TypeStep ==
  ASSUME TypeOK, [Next]_vars
  PROVE  TypeOK'
<1>1. CASE FamilyStep /\ UNCHANGED accessVars
  BY <1>1, FamilyType DEF TypeOK, accessVars, DispOK, ConsentOK, WorldOK
<1>2. CASE UNCHANGED vars
  BY <1>2, CoreUnchanged DEF vars, accessVars, TypeOK, DispOK, ConsentOK, WorldOK
<1>. QED
  BY <1>1, <1>2, WorkerType, ConsentType, EnvironmentType DEF Next

(***************************************************************************)
(* Every table, message and process of the delivery path keeps its type.   *)
(***************************************************************************)
THEOREM TypeCorrect == Spec => []TypeOK
BY InitType, TypeStep, PTL DEF Spec

-----------------------------------------------------------------------------
(* The outbox table: rows follow their tasks, only pending rows are leased. *)

\* What any transaction but a completion or a restore does to the outbox.
RowsEvolve == \A e \in Event :
  /\ events[e].state = "absent" <=> events'[e].state = "absent"
  /\ events[e].state = "uncommitted" <=> events'[e].state = "uncommitted"
  /\ events'[e].lease # NoLease => events'[e].state = "pending"

LEMMA EvolvedRows ==
  ASSUME CoreInv, RowsEvolve, UNCHANGED <<tasks, restores>>
  PROVE  CoreInv'
<1>1. RowsFollowTasks'
  BY DEF CoreInv, RowsFollowTasks, RowsEvolve
<1>2. LeasedArePending'
  BY DEF LeasedArePending, RowsEvolve
<1>. QED
  BY <1>1, <1>2 DEF CoreInv

\* Cancelling pending rows is such a change.
LEMMA CancelledRows ==
  ASSUME CoreTypeOK, CoreInv, NEW S, NEW e \in Event
  PROVE  /\ events[e].state = "absent" <=> Cancelled(S)[e].state = "absent"
         /\ events[e].state = "uncommitted" <=> Cancelled(S)[e].state = "uncommitted"
         /\ Cancelled(S)[e].lease # NoLease => Cancelled(S)[e].state = "pending"
         /\ Cancelled(S)[e].state = "pending" => Cancelled(S)[e] = events[e] /\ e \notin S
         /\ Cancelled(S)[e].state \in {events[e].state, "cancelled"}
         /\ Cancelled(S)[e].state # events[e].state => events[e].state = "pending"
         /\ Cancelled(S)[e].lease \in {events[e].lease, NoLease}
         /\ Cancelled(S)[e].sub = events[e].sub
         /\ Cancelled(S)[e].binding = events[e].binding
         /\ Cancelled(S)[e].parent = events[e].parent
<1>1. events[e] \in Row
  BY DEF CoreTypeOK
<1>2. events[e].lease # NoLease => events[e].state = "pending"
  BY DEF CoreInv, LeasedArePending
<1>3. CASE e \in S \cap Pending
  <2>1. Cancelled(S)[e] = [events[e] EXCEPT !.state = "cancelled", !.lease = NoLease]
    BY <1>3 DEF Cancelled
  <2>. QED
    BY <1>1, <1>3, <2>1 DEF Pending, Row
<1>4. CASE e \notin S \cap Pending
  <2>1. Cancelled(S)[e] = events[e]
    BY <1>4 DEF Cancelled
  <2>. QED
    BY <1>2, <1>4, <2>1 DEF Pending
<1>. QED
  BY <1>3, <1>4

\* A call of Access, or a lease that runs out.
CallStep ==
  \/ \E e \in Event, tok \in Tokens : Claim(e, tok)
  \/ \E e \in Event, tok \in Tokens, outcome \in Outcomes, code \in Codes :
       Settle(e, tok, outcome, code)
  \/ \E r \in Refs, p \in Parents, sub \in Nat, b \in Nat : SetRecipient(r, p, sub, b)
  \/ \E r \in Refs : Revoke(r)
  \/ \E e \in Event : LeaseExpires(e)

LEMMA CallRows ==
  ASSUME CoreTypeOK, CoreInv, CallStep
  PROVE  RowsEvolve /\ UNCHANGED <<tasks, restores>>
<1>1. ASSUME NEW e \in Event, NEW tok \in Tokens, Claim(e, tok)
      PROVE  RowsEvolve /\ UNCHANGED <<tasks, restores>>
  BY <1>1 DEF Claim, Claimable, CoreTypeOK, Row, CoreInv, LeasedArePending, RowsEvolve
<1>2. ASSUME NEW e \in Event, NEW tok \in Tokens, NEW outcome \in Outcomes, NEW code \in Codes,
             Settle(e, tok, outcome, code)
      PROVE  RowsEvolve /\ UNCHANGED <<tasks, restores>>
  <2> DEFINE siblings == {f \in Event : EndsGeneration(outcome, code) /\ f # e /\ SameGeneration(e, f)}
             settled == [events[e] EXCEPT
                           !.state = IF outcome = "retry" THEN "pending" ELSE outcome,
                           !.lease = NoLease, !.due = outcome # "retry"]
  <2>1. Cancelled(siblings) \in [Event -> Row]
    BY CancelledType
  <2>2. events' = [Cancelled(siblings) EXCEPT ![e] = settled]
    BY <1>2 DEF Settle
  <2>3. events[e] \in Row /\ events[e].state = "pending"
    BY <1>2 DEF Settle, Holds, CoreTypeOK
  <2>4. settled.state \in {"pending", "delivered", "cancelled", "failed"} /\ settled.lease = NoLease
    BY <2>3 DEF Row, Outcomes
  <2>5. \A f \in Event : events'[f] = IF f = e THEN settled ELSE Cancelled(siblings)[f]
    BY <2>1, <2>2
  <2> HIDE DEF siblings, settled
  <2>6. RowsEvolve
    BY <2>3, <2>4, <2>5, CancelledRows DEF RowsEvolve
  <2>. QED
    BY <1>2, <2>6 DEF Settle
<1>3. ASSUME NEW r \in Refs, NEW p \in Parents, NEW sub \in Nat, NEW b \in Nat,
             SetRecipient(r, p, sub, b)
      PROVE  RowsEvolve /\ UNCHANGED <<tasks, restores>>
  BY <1>3, CancelledRows DEF SetRecipient, RowsEvolve
<1>4. ASSUME NEW r \in Refs, Revoke(r)
      PROVE  RowsEvolve /\ UNCHANGED <<tasks, restores>>
  BY <1>4, CancelledRows DEF Revoke, RowsEvolve
<1>5. ASSUME NEW e \in Event, LeaseExpires(e)
      PROVE  RowsEvolve /\ UNCHANGED <<tasks, restores>>
  BY <1>5 DEF LeaseExpires, CoreTypeOK, Row, CoreInv, LeasedArePending, RowsEvolve
<1>. QED
  BY <1>1, <1>2, <1>3, <1>4, <1>5 DEF CallStep

LEMMA FamilyRows ==
  ASSUME CoreTypeOK, CoreInv, FamilyStep
  PROVE  CoreInv'
<1>. USE DEF CoreInv, RowsFollowTasks, LeasedArePending
<1>1. ASSUME NEW t \in Tasks, CompleteBegin(t)
      PROVE  CoreInv'
  <2> DEFINE inserted == {e \in OwnRows(t) : RefOf(e) \in Notified}
  <2>1. \A e \in Event : /\ e \in inserted => /\ events'[e].state = "uncommitted"
                                              /\ events'[e].lease = NoLease
                         /\ e \notin inserted => events'[e] = events[e]
    BY <1>1 DEF CompleteBegin
  <2>2. \A e \in Event : e[1] \in Tasks
    BY DEF Event
  <2>. QED
    BY <1>1, <2>1, <2>2 DEF CompleteBegin, OwnRows, CoreTypeOK
<1>2. ASSUME NEW t \in Tasks, CompleteCommit(t) \/ CompleteAbort(t)
      PROVE  CoreInv'
  <2> DEFINE own == {e \in OwnRows(t) : events[e].state = "uncommitted"}
  <2>1. \A e \in Event :
          /\ e \in own => events'[e].state = IF CompleteCommit(t) THEN "pending" ELSE "absent"
          /\ e \in own => events'[e].state = "pending" \/ events'[e] = NoRow
          /\ e \notin own => events'[e] = events[e]
    <3>1. \A e \in Event : events[e] \in Row
      BY DEF CoreTypeOK
    <3>2. ~(CompleteCommit(t) /\ CompleteAbort(t))
      BY DEF CompleteCommit, CompleteAbort, CoreTypeOK
    <3>3. CASE CompleteCommit(t)
      BY <3>1, <3>3 DEF CompleteCommit, Row
    <3>4. CASE CompleteAbort(t)
      BY <3>2, <3>4 DEF CompleteAbort, NoRow
    <3>. QED
      BY <1>2, <3>3, <3>4
  <2>2. \A e \in Event : e[1] \in Tasks /\ e[3] \in 0 .. MaxRestores
    BY DEF Event
  <2>3. \A e \in Event : events[e].state = "uncommitted" /\ e \notin own => e[1] # t
    BY DEF OwnRows
  <2>4. LeasedArePending'
    BY <2>1 DEF NoRow
  <2>5. CASE CompleteCommit(t)
    BY <2>1, <2>2, <2>3, <2>4, <2>5 DEF CompleteCommit, CoreTypeOK, OwnRows
  <2>6. CASE CompleteAbort(t)
    <3>1. \A e \in Event : e \in own => events'[e].state = "absent"
      BY <2>6 DEF CompleteAbort, NoRow
    <3>2. \A e \in Event : e[1] = t /\ e[3] = restores => events'[e].state = "absent"
      BY <3>1, <2>1, <2>6 DEF OwnRows, CompleteAbort
    <3>. QED
      BY <2>1, <2>2, <2>3, <2>4, <2>6, <3>1, <3>2 DEF CompleteAbort, CoreTypeOK, OwnRows
  <2>. QED
    BY <1>2, <2>5, <2>6
<1>3. ASSUME NEW e \in Event, BackoffElapses(e)
      PROVE  CoreInv'
  <2>1. RowsEvolve
    BY <1>3 DEF BackoffElapses, RowsEvolve, CoreTypeOK, Row
  <2>. QED
    BY <1>3, <2>1, EvolvedRows DEF BackoffElapses
<1>4. ASSUME \/ \E p \in Parents : DeactivateParent(p)
             \/ PolicyChange
             \/ Suspension
      PROVE  CoreInv'
  BY <1>4 DEF DeactivateParent, PolicyChange, Suspension
<1>5. ASSUME NEW done \in SUBSET Tasks, NEW parents \in SUBSET Parents, Restore(done, parents)
      PROVE  CoreInv'
  <2>1. \A e \in Event : events[e].state # "uncommitted"
    BY <1>5 DEF Restore, Event
  <2>2. RowsEvolve
    BY <1>5, CancelledRows DEF Restore, RowsEvolve
  <2>3. \A e \in Event : e[3] > restores => events'[e].state = "absent"
    BY <2>2 DEF RowsEvolve
  <2>4. restores \in Nat /\ restores' = restores + 1 /\ \A e \in Event : e[3] \in Nat
    BY <1>5, OutboxAssumption DEF Restore, CoreTypeOK, Event
  <2>5. RowsFollowTasks'
    BY <2>1, <2>2, <2>3, <2>4 DEF RowsEvolve
  <2>6. LeasedArePending'
    BY <2>2 DEF RowsEvolve
  <2>. QED
    BY <2>5, <2>6
<1>. QED
  BY <1>1, <1>2, <1>3, <1>4, <1>5 DEF FamilyStep

\* What Access and Core exchange is made of calls: every step of the system is
\* a transaction of the family, a call, or leaves Core alone.
LEMMA StepsAreCalls ==
  ASSUME TypeOK, Next
  PROVE  FamilyStep \/ CallStep \/ UNCHANGED coreVars
<1>1. CASE Worker
  BY <1>1, SettleCallType DEF Worker, WorkerClaim, WorkerIdentity, WorkerCheck, WorkerEligibility,
     WorkerSend, WorkerSettle, dispFrame, CallStep, TypeOK
<1>2. CASE ConsentRequest
  BY <1>2 DEF ConsentRequest, OptIn, OptOut
<1>3. CASE ConsentStep
  <2>1. consent.ref \in Refs /\ consent.sub \in Nat /\ consent.binding \in Nat
    BY DEF TypeOK, ConsentOK, ConsentState
  <2>2. consent.pc = "record" => consent.parent \in Parents
    BY DEF TypeOK, ConsentOK
  <2>. QED
    BY <1>3, <2>1, <2>2 DEF ConsentStep, PortalOn, FetchBinding, RecordRecipient, Compensate,
       RevokeFirst, PortalOff, CallStep
<1>4. CASE LateCall
  <2>1. PICK m \in late : LateCall!(m)
    BY <1>4 DEF LateCall
  <2>2. /\ m.call = "settle" => /\ m.event \in Event /\ m.lease \in Tokens
                                /\ m.outcome \in Outcomes /\ m.code \in Codes
        /\ m.call = "record" => /\ m.ref \in Refs /\ m.parent \in Parents
                                /\ m.sub \in Nat /\ m.binding \in Nat
        /\ m.call = "revoke" => m.ref \in Refs
    BY DEF TypeOK, WorldOK, Settlement, Recording, Revocation
  <2>. QED
    BY <2>1, <2>2 DEF CallStep
<1>5. CASE \E e \in Event : Expiry(e)
  BY <1>5 DEF Expiry, CallStep
<1>6. CASE (\E r \in Refs : PortalStop(r)) \/ AccessCrash
  BY <1>6 DEF PortalStop, AccessCrash
<1>. QED
  BY <1>1, <1>2, <1>3, <1>4, <1>5, <1>6 DEF Next

LEMMA CoreInvStep ==
  ASSUME TypeOK, CoreInv, [Next]_vars
  PROVE  CoreInv'
<1>1. CASE UNCHANGED coreVars
  BY <1>1 DEF coreVars, CoreInv, RowsFollowTasks, LeasedArePending
<1>2. CASE UNCHANGED vars
  BY <1>1, <1>2 DEF vars
<1>. QED
  BY <1>1, <1>2, FamilyRows, StepsAreCalls, CallRows, EvolvedRows DEF TypeOK

-----------------------------------------------------------------------------
(* What each transaction may do to one row.                                 *)

\* The row was at most cancelled, and lost its lease or kept it.
RowKept(e) ==
  /\ \/ events'[e].state = events[e].state
     \/ events[e].state = "pending" /\ events'[e].state = "cancelled"
  /\ events'[e].lease \in {events[e].lease, NoLease}
  /\ events'[e].sub = events[e].sub
  /\ events'[e].binding = events[e].binding

Committed(e) == events[e].state \notin {"absent", "uncommitted"}

LEMMA RecipientKeeps ==
  ASSUME CoreTypeOK, CoreInv,
         \/ \E r \in Refs, p \in Parents, sub \in Nat, b \in Nat : SetRecipient(r, p, sub, b)
         \/ \E r \in Refs : Revoke(r)
         \/ \E e \in Event : LeaseExpires(e),
         NEW f \in Event
  PROVE  RowKept(f)
<1>1. CASE \E r \in Refs, p \in Parents, sub \in Nat, b \in Nat : SetRecipient(r, p, sub, b)
  BY <1>1, CancelledRows DEF SetRecipient, RowKept
<1>2. CASE \E r \in Refs : Revoke(r)
  BY <1>2, CancelledRows DEF Revoke, RowKept
<1>3. CASE \E e \in Event : LeaseExpires(e)
  BY <1>3 DEF LeaseExpires, RowKept, CoreTypeOK, Row
<1>. QED
  BY <1>1, <1>2, <1>3

LEMMA SettleKeeps ==
  ASSUME CoreTypeOK, CoreInv,
         NEW e \in Event, NEW tok \in Tokens, NEW outcome \in Outcomes, NEW code \in Codes,
         Settle(e, tok, outcome, code)
  PROVE  /\ Holds(e, tok)
         /\ events'[e].state = IF outcome = "retry" THEN "pending" ELSE outcome
         /\ events'[e].lease = NoLease
         /\ events'[e].sub = events[e].sub
         /\ events'[e].binding = events[e].binding
         /\ \A f \in Event : f # e => RowKept(f)
<1> DEFINE siblings == {f \in Event : EndsGeneration(outcome, code) /\ f # e /\ SameGeneration(e, f)}
           settled == [events[e] EXCEPT
                         !.state = IF outcome = "retry" THEN "pending" ELSE outcome,
                         !.lease = NoLease, !.due = outcome # "retry"]
<1>1. Cancelled(siblings) \in [Event -> Row]
  BY CancelledType
<1>2. events' = [Cancelled(siblings) EXCEPT ![e] = settled]
  BY DEF Settle
<1>3. events[e] \in Row
  BY DEF CoreTypeOK
<1>4. \A f \in Event : events'[f] = IF f = e THEN settled ELSE Cancelled(siblings)[f]
  BY <1>1, <1>2
<1>5. /\ settled.state = IF outcome = "retry" THEN "pending" ELSE outcome
      /\ settled.lease = NoLease /\ settled.sub = events[e].sub
      /\ settled.binding = events[e].binding
  BY <1>3 DEF Row
<1>6. Holds(e, tok)
  BY DEF Settle
<1> HIDE DEF siblings, settled
<1>7. ASSUME NEW f \in Event, f # e
      PROVE  RowKept(f)
  BY <1>4, <1>7, CancelledRows DEF RowKept
<1>. QED
  BY <1>4, <1>5, <1>6, <1>7

LEMMA ClaimKeeps ==
  ASSUME CoreTypeOK, NEW e \in Event, NEW tok \in Tokens, Claim(e, tok)
  PROVE  /\ events[e].state = "pending" /\ events'[e].state = "pending"
         /\ events'[e].lease = tok
         /\ events'[e].sub = events[e].sub
         /\ events'[e].binding = events[e].binding
         /\ \A f \in Event : f # e => events'[f] = events[f]
BY DEF Claim, Claimable, CoreTypeOK, Row

\* No transaction of the family rewrites a committed row.
LEMMA FamilyKeeps ==
  ASSUME CoreTypeOK, CoreInv, FamilyStep, NEW f \in Event, Committed(f)
  PROVE  RowKept(f)
<1>1. ASSUME NEW t \in Tasks, CompleteBegin(t)
      PROVE  RowKept(f)
  <2>1. f \notin OwnRows(t)
    BY <1>1 DEF CompleteBegin, OwnRows, Committed, CoreInv, RowsFollowTasks
  <2>. QED
    BY <1>1, <2>1 DEF CompleteBegin, RowKept
<1>2. ASSUME NEW t \in Tasks, CompleteCommit(t) \/ CompleteAbort(t)
      PROVE  RowKept(f)
  BY <1>2 DEF CompleteCommit, CompleteAbort, Committed, RowKept
<1>3. ASSUME NEW e \in Event, BackoffElapses(e)
      PROVE  RowKept(f)
  BY <1>3 DEF BackoffElapses, RowKept, CoreTypeOK, Row
<1>4. ASSUME \/ \E p \in Parents : DeactivateParent(p)
             \/ PolicyChange
             \/ Suspension
      PROVE  RowKept(f)
  BY <1>4 DEF DeactivateParent, PolicyChange, Suspension, RowKept
<1>5. ASSUME NEW done \in SUBSET Tasks, NEW parents \in SUBSET Parents, Restore(done, parents)
      PROVE  RowKept(f)
  BY <1>5, CancelledRows DEF Restore, RowKept
<1>. QED
  BY <1>1, <1>2, <1>3, <1>4, <1>5 DEF FamilyStep

\* A row of a family step either was there, with the same generation, or copies
\* the generation of an enabled recipient.
LEMMA FamilyOrigin ==
  ASSUME CoreTypeOK, CoreInv, FamilyStep, NEW f \in Event, events'[f].state # "absent"
  PROVE  \/ /\ events[f].state # "absent"
            /\ events'[f].sub = events[f].sub /\ events'[f].binding = events[f].binding
         \/ /\ recipients[RefOf(f)].enabled
            /\ events'[f].sub = recipients[RefOf(f)].sub
            /\ events'[f].binding = recipients[RefOf(f)].binding
<1>1. CASE Committed(f)
  BY <1>1, FamilyKeeps DEF RowKept, Committed
<1>2. ASSUME NEW t \in Tasks, CompleteBegin(t)
      PROVE  \/ events'[f] = events[f]
             \/ /\ recipients[RefOf(f)].enabled
                /\ events'[f].sub = recipients[RefOf(f)].sub
                /\ events'[f].binding = recipients[RefOf(f)].binding
  BY <1>2 DEF CompleteBegin, Notified
<1>3. ASSUME NEW t \in Tasks, CompleteCommit(t) \/ CompleteAbort(t)
      PROVE  /\ events[f].state # "absent"
             /\ events'[f].sub = events[f].sub /\ events'[f].binding = events[f].binding
  BY <1>3 DEF CompleteCommit, CompleteAbort, NoRow, CoreTypeOK, Row
<1>4. ASSUME ~Committed(f),
             \/ \E e \in Event : BackoffElapses(e)
             \/ \E p \in Parents : DeactivateParent(p)
             \/ PolicyChange \/ Suspension
             \/ \E done \in SUBSET Tasks, parents \in SUBSET Parents : Restore(done, parents)
      PROVE  events'[f] = events[f]
  BY <1>4 DEF BackoffElapses, DeactivateParent, PolicyChange, Suspension, Restore, Committed,
     Cancelled, Pending, CoreTypeOK
<1>. QED
  BY <1>1, <1>2, <1>3, <1>4 DEF FamilyStep

LEMMA FamilyFresh ==
  ASSUME CoreTypeOK, CoreInv, FamilyStep, NEW f \in Event, ~Committed(f)
  PROVE  events'[f].state \in {"absent", "uncommitted", "pending"}
<1>1. events[f].state \in {"absent", "uncommitted"}
  BY DEF Committed
<1>2. ASSUME NEW t \in Tasks, CompleteBegin(t) \/ CompleteCommit(t) \/ CompleteAbort(t)
      PROVE  events'[f].state \in {"absent", "uncommitted", "pending"}
  BY <1>1, <1>2 DEF CompleteBegin, CompleteCommit, CompleteAbort, NoRow, CoreTypeOK, Row
<1>3. ASSUME \/ \E e \in Event : BackoffElapses(e)
             \/ \E p \in Parents : DeactivateParent(p)
             \/ PolicyChange \/ Suspension
             \/ \E done \in SUBSET Tasks, parents \in SUBSET Parents : Restore(done, parents)
      PROVE  events'[f] = events[f]
  BY <1>1, <1>3 DEF BackoffElapses, DeactivateParent, PolicyChange, Suspension, Restore,
     Cancelled, Pending, CoreTypeOK
<1>. QED
  BY <1>1, <1>2, <1>3 DEF FamilyStep

-----------------------------------------------------------------------------
(* The worker owns the row it handles, and only says "delivered" of an      *)
(* accepted event.                                                          *)

LEMMA LateTyped ==
  ASSUME WorldOK, NEW m \in late
  PROVE  /\ m.call \in {"settle", "record", "revoke"}
         /\ m.call = "settle" => /\ m.event \in Event /\ m.lease \in Tokens
                                 /\ m.outcome \in Outcomes /\ m.code \in Codes
         /\ m.call = "record" => /\ m.ref \in Refs /\ m.parent \in Parents
                                 /\ m.sub \in Nat /\ m.binding \in Nat
         /\ m.call = "revoke" => m.ref \in Refs
BY DEF WorldOK, Settlement, Recording, Revocation

\* Whoever keeps all committed rows and makes no row "delivered" keeps what
\* the worker owns, as long as worker, late calls and Portal's queue stand.
LEMMA OwnKept ==
  ASSUME TypeOK, OwnInv,
         UNCHANGED <<disp, accepted>>,
         \A f \in Event : Committed(f) => RowKept(f),
         \A f \in Event : ~Committed(f) => events'[f].state # "delivered",
         \A m \in late' : m \in late \/ m.call # "settle",
         consent' = consent \/ disp.pc \in {"idle", "claimed"}
  PROVE  OwnInv'
<1>. USE DEF OwnInv
<1>1. MutexHeldOnce'
  BY DEF MutexHeldOnce
<1>2. disp.pc # "idle" => disp.event \in Event
  BY DEF TypeOK, DispOK
<1>3. \A m \in late' : m.call = "settle" => m \in late /\ m.event \in Event
  BY LateTyped DEF TypeOK
<1>4. WorkerOwns'
  <2>1. disp.pc # "idle" =>
          /\ events'[disp.event].state \in {"pending", "cancelled"}
          /\ events'[disp.event].lease \in {disp.lease, NoLease}
    BY <1>2 DEF WorkerOwns, RowKept, Committed
  <2>2. ASSUME NEW m \in late', m.call = "settle"
        PROVE  /\ events'[m.event].state \notin {"absent", "uncommitted"}
               /\ m.lease # disp.lease
    BY <1>3, <2>2 DEF WorkerOwns, RowKept, Committed
  <2>. QED
    BY <2>1, <2>2 DEF WorkerOwns
<1>5. DeliveredClaims'
  <2>1. ASSUME NEW f \in Event, events'[f].state = "delivered"
        PROVE  f \in accepted
    BY <2>1 DEF DeliveredClaims, DeliveredIsAccepted, RowKept
  <2>. QED
    BY <1>3, <2>1 DEF DeliveredClaims, DeliveredIsAccepted
<1>. QED
  BY <1>1, <1>4, <1>5

LEMMA OwnFamily ==
  ASSUME TypeOK, CoreInv, OwnInv, FamilyStep, UNCHANGED accessVars
  PROVE  OwnInv'
<1>1. \A f \in Event : Committed(f) => RowKept(f)
  BY FamilyKeeps DEF TypeOK
<1>2. \A f \in Event : ~Committed(f) => events'[f].state # "delivered"
  BY FamilyFresh DEF TypeOK
<1>. QED
  BY <1>1, <1>2, OwnKept DEF accessVars

\* Calls and steps that leave every row alone.
LEMMA SameRows ==
  ASSUME UNCHANGED events
  PROVE  \A f \in Event : RowKept(f) /\ (~Committed(f) => events'[f].state # "delivered")
BY DEF RowKept, Committed

LEMMA RecipientRows ==
  ASSUME CoreTypeOK, CoreInv,
         \/ \E r \in Refs, p \in Parents, sub \in Nat, b \in Nat : SetRecipient(r, p, sub, b)
         \/ \E r \in Refs : Revoke(r)
         \/ \E e \in Event : LeaseExpires(e)
  PROVE  \A f \in Event : RowKept(f) /\ (~Committed(f) => events'[f].state # "delivered")
BY RecipientKeeps DEF RowKept, Committed

LEMMA OwnConsent ==
  ASSUME TypeOK, CoreInv, OwnInv, ConsentRequest \/ ConsentStep
  PROVE  OwnInv'
<1>1. consent.ref \in Refs /\ consent.sub \in Nat /\ consent.binding \in Nat
  BY DEF TypeOK, ConsentOK, ConsentState
<1>2. consent.pc = "record" => consent.parent \in Parents
  BY DEF TypeOK, ConsentOK
<1>3. UNCHANGED <<disp, accepted>>
  BY DEF ConsentRequest, OptIn, OptOut, ConsentStep, PortalOn, FetchBinding, RecordRecipient,
     Compensate, RevokeFirst, PortalOff, consentFrame
<1>4. late' \in {late, late \cup {RecordCall(consent)}, late \cup {RevokeCall(consent)}}
  BY DEF ConsentRequest, OptIn, OptOut, ConsentStep, PortalOn, FetchBinding, RecordRecipient,
     Compensate, RevokeFirst, PortalOff
<1>5. \A m \in late' : m \in late \/ m.call # "settle"
  BY <1>4 DEF RecordCall, RevokeCall
<1>6. disp.pc \in {"idle", "claimed"}
  BY DEF ConsentRequest, OptIn, OptOut, MutexFree, ConsentStep, PortalOn, FetchBinding,
     RecordRecipient, Compensate, RevokeFirst, PortalOff, OwnInv, MutexHeldOnce
<1>7. \A f \in Event : RowKept(f) /\ (~Committed(f) => events'[f].state # "delivered")
  <2>1. \/ UNCHANGED events
        \/ \E r \in Refs, p \in Parents, sub \in Nat, b \in Nat : SetRecipient(r, p, sub, b)
        \/ \E r \in Refs : Revoke(r)
    BY <1>1, <1>2 DEF ConsentRequest, OptIn, OptOut, ConsentStep, PortalOn, FetchBinding,
       RecordRecipient, Compensate, RevokeFirst, PortalOff, coreVars
  <2>. QED
    BY <2>1, SameRows, RecipientRows DEF TypeOK
<1>. QED
  BY <1>3, <1>5, <1>6, <1>7, OwnKept

LEMMA OwnWorker ==
  ASSUME TypeOK, CoreInv, OwnInv, Worker
  PROVE  OwnInv'
<1>. USE DEF OwnInv
<1>1. Idle.pc = "idle" /\ Idle.lease = NoLease /\ disp \in DispState
  BY DEF Idle, TypeOK, DispOK
<1>2. CASE WorkerClaim
  <2>1. PICK e \in Event, tok \in Tokens :
          /\ FreshToken(tok)
          /\ Claim(e, tok)
          /\ \/ disp' = [Idle EXCEPT !.pc = "claimed", !.event = e, !.lease = tok]
             \/ disp' = Idle
    BY <1>2 DEF WorkerClaim
  <2>2. /\ events[e].state = "pending" /\ events'[e].state = "pending" /\ events'[e].lease = tok
        /\ \A f \in Event : f # e => events'[f] = events[f]
    BY <2>1, ClaimKeeps DEF TypeOK
  <2>3. \/ /\ disp'.pc = "claimed" /\ disp'.event = e /\ disp'.lease = tok
        \/ disp'.pc = "idle" /\ disp'.lease = NoLease
    BY <2>1, <1>1 DEF Idle
  <2>4. UNCHANGED <<consent, late, accepted>>
    BY <1>2 DEF WorkerClaim
  <2>5. MutexHeldOnce'
    BY <2>3, <2>4 DEF MutexHeldOnce
  <2>6. ASSUME NEW m \in late', m.call = "settle"
        PROVE  /\ m.event \in Event
               /\ events'[m.event].state \notin {"absent", "uncommitted"}
               /\ m.lease # disp'.lease
    BY <2>1, <2>2, <2>3, <2>4, <2>6, LateTyped, OutboxAssumption DEF WorkerOwns, FreshToken, TypeOK
  <2>7. WorkerOwns'
    BY <2>2, <2>3, <2>6 DEF WorkerOwns
  <2>8. DeliveredClaims'
    BY <2>2, <2>3, <2>4 DEF DeliveredClaims, DeliveredIsAccepted
  <2>. QED
    BY <2>5, <2>7, <2>8
<1>3. CASE WorkerIdentity \/ WorkerCheck \/ WorkerEligibility \/ WorkerSend
  <2>1. /\ disp.pc # "idle"
        /\ UNCHANGED <<events, consent, late>>
        /\ disp'.event = disp.event /\ disp'.lease = disp.lease /\ disp'.pc # "idle"
    BY <1>1, <1>3 DEF WorkerIdentity, WorkerCheck, WorkerEligibility, WorkerSend, dispFrame,
       coreVars, Goto, Decide, DispState
  <2>2. MutexHeldOnce'
    BY <1>3, <2>1 DEF WorkerIdentity, WorkerCheck, WorkerEligibility, WorkerSend, MutexHeldOnce
  <2>3. WorkerOwns'
    BY <2>1 DEF WorkerOwns
  <2>4. accepted \subseteq accepted'
    BY <1>3 DEF WorkerIdentity, WorkerCheck, WorkerEligibility, WorkerSend, dispFrame
  <2>5. disp'.pc = "settle" /\ disp'.outcome = "delivered" => disp'.event \in accepted'
    BY <1>1, <1>3, <2>1 DEF WorkerIdentity, WorkerCheck, WorkerEligibility, WorkerSend, Goto, Decide,
       DispState
  <2>6. DeliveredClaims'
    BY <2>1, <2>4, <2>5 DEF DeliveredClaims, DeliveredIsAccepted
  <2>. QED
    BY <2>2, <2>3, <2>6
<1>4. CASE WorkerSettle
  <2>1. /\ disp.pc = "settle" /\ disp' = Idle /\ UNCHANGED <<consent, accepted>>
        /\ disp.event \in Event /\ disp.lease \in Tokens
        /\ disp.outcome \in Outcomes /\ disp.code \in Codes
    BY <1>4, SettleCallType DEF WorkerSettle, TypeOK
  <2>2. MutexHeldOnce'
    BY <1>1, <2>1 DEF MutexHeldOnce
  <2>3. CASE Settle(disp.event, disp.lease, disp.outcome, disp.code) /\ UNCHANGED late
    <3>1. /\ Holds(disp.event, disp.lease)
          /\ events'[disp.event].state = IF disp.outcome = "retry" THEN "pending" ELSE disp.outcome
          /\ \A f \in Event : f # disp.event => RowKept(f)
      BY <2>1, <2>3, SettleKeeps DEF TypeOK
    <3>2. ASSUME NEW m \in late', m.call = "settle"
          PROVE  /\ m.event \in Event
                 /\ events'[m.event].state \notin {"absent", "uncommitted"}
                 /\ m.lease # disp'.lease
      <4>1. m.event \in Event /\ m.lease \in Tokens
        BY <2>3, <3>2, LateTyped DEF TypeOK
      <4>2. events'[disp.event].state \notin {"absent", "uncommitted"}
        BY <2>1, <3>1 DEF Outcomes
      <4>3. m.lease # disp'.lease
        BY <1>1, <2>1, <4>1, OutboxAssumption
      <4>. QED
        BY <2>3, <3>1, <3>2, <4>1, <4>2, <4>3 DEF WorkerOwns, RowKept
    <3>3. WorkerOwns'
      BY <1>1, <2>1, <3>2 DEF WorkerOwns
    <3>4. ASSUME NEW f \in Event, events'[f].state = "delivered"
          PROVE  f \in accepted
      BY <2>1, <3>1, <3>4 DEF DeliveredClaims, DeliveredIsAccepted, RowKept
    <3>5. DeliveredClaims'
      BY <1>1, <2>1, <2>3, <3>4 DEF DeliveredClaims, DeliveredIsAccepted
    <3>. QED
      BY <2>2, <3>3, <3>5
  <2>4. CASE UNCHANGED coreVars
    <3>1. UNCHANGED events /\ late' \in {late, late \cup {SettleCall(disp)}}
      BY <1>4, <2>4 DEF WorkerSettle, coreVars
    <3>2. ASSUME NEW m \in late', m.call = "settle"
          PROVE  /\ m.event \in Event
                 /\ events'[m.event].state \notin {"absent", "uncommitted"}
                 /\ m.lease # disp'.lease
                 /\ m.outcome = "delivered" => m.event \in accepted
      <4>1. CASE m \in late
        BY <1>1, <2>1, <3>1, <3>2, <4>1, LateTyped, OutboxAssumption DEF TypeOK, WorkerOwns, DeliveredClaims
      <4>2. CASE m = SettleCall(disp)
        BY <1>1, <2>1, <3>1, <4>2, OutboxAssumption DEF SettleCall, WorkerOwns, DeliveredClaims
      <4>. QED
        BY <3>1, <4>1, <4>2
    <3>3. WorkerOwns'
      BY <1>1, <2>1, <3>2 DEF WorkerOwns
    <3>4. DeliveredClaims'
      BY <1>1, <2>1, <3>1, <3>2 DEF DeliveredClaims, DeliveredIsAccepted
    <3>. QED
      BY <2>2, <3>3, <3>4
  <2>. QED
    BY <1>4, <2>3, <2>4 DEF WorkerSettle
<1>. QED
  BY <1>2, <1>3, <1>4 DEF Worker

LEMMA OwnLate ==
  ASSUME TypeOK, CoreInv, OwnInv, LateCall
  PROVE  OwnInv'
<1>1. PICK m \in late : LateCall!(m)
  BY DEF LateCall
<1>2. UNCHANGED <<disp, consent, accepted>> /\ \A n \in late' : n \in late
  BY <1>1
<1>3. CASE m.call # "settle" \/ UNCHANGED coreVars
  <2>1. \A f \in Event : RowKept(f) /\ (~Committed(f) => events'[f].state # "delivered")
    BY <1>1, <1>3, LateTyped, SameRows, RecipientRows DEF TypeOK, coreVars
  <2>. QED
    BY <1>2, <2>1, OwnKept
<1>4. CASE m.call = "settle" /\ Settle(m.event, m.lease, m.outcome, m.code)
  <2>1. /\ m.event \in Event /\ m.lease \in Tokens /\ m.outcome \in Outcomes /\ m.code \in Codes
        /\ m.lease # disp.lease
        /\ m.outcome = "delivered" => m.event \in accepted
    BY <1>4, LateTyped DEF TypeOK, OwnInv, WorkerOwns, DeliveredClaims
  <2>2. /\ Holds(m.event, m.lease)
        /\ events'[m.event].state = IF m.outcome = "retry" THEN "pending" ELSE m.outcome
        /\ \A f \in Event : f # m.event => RowKept(f)
    BY <1>4, <2>1, SettleKeeps DEF TypeOK
  <2>3. disp.pc # "idle" => disp.event \in Event /\ disp.event # m.event
    BY <2>1, <2>2, OutboxAssumption DEF Holds, OwnInv, WorkerOwns, TypeOK, DispOK
  <2>4. events'[m.event].state \notin {"absent", "uncommitted"}
    BY <2>1, <2>2 DEF Outcomes
  <2>5. ASSUME NEW n \in late', n.call = "settle"
        PROVE  /\ n.event \in Event
               /\ events'[n.event].state \notin {"absent", "uncommitted"}
               /\ n.lease # disp.lease
    BY <1>2, <2>2, <2>4, <2>5, LateTyped DEF TypeOK, OwnInv, WorkerOwns, RowKept
  <2>6. WorkerOwns'
    BY <1>2, <2>2, <2>3, <2>5 DEF OwnInv, WorkerOwns, RowKept
  <2>7. ASSUME NEW f \in Event, events'[f].state = "delivered"
        PROVE  f \in accepted
    BY <2>1, <2>2, <2>7 DEF OwnInv, DeliveredClaims, DeliveredIsAccepted, RowKept
  <2>8. DeliveredClaims'
    BY <1>2, <2>7 DEF OwnInv, DeliveredClaims, DeliveredIsAccepted
  <2>. QED
    BY <1>2, <2>6, <2>8 DEF OwnInv, MutexHeldOnce
<1>. QED
  BY <1>1, <1>3, <1>4

LEMMA OwnEnvironment ==
  ASSUME TypeOK, CoreInv, OwnInv,
         (\E e \in Event : Expiry(e)) \/ (\E r \in Refs : PortalStop(r)) \/ AccessCrash
  PROVE  OwnInv'
<1>1. CASE (\E e \in Event : Expiry(e)) \/ (\E r \in Refs : PortalStop(r))
  <2>1. \A f \in Event : RowKept(f) /\ (~Committed(f) => events'[f].state # "delivered")
    BY <1>1, SameRows, RecipientRows DEF Expiry, PortalStop, TypeOK, coreVars
  <2>2. UNCHANGED <<disp, consent, late, accepted>>
    BY <1>1 DEF Expiry, PortalStop
  <2>. QED
    BY <2>1, <2>2, OwnKept
<1>2. CASE AccessCrash
  <2>1. /\ disp'.pc = "idle" /\ disp'.lease = NoLease
        /\ UNCHANGED <<events, late, accepted>>
    BY <1>2 DEF AccessCrash, Idle, coreVars
  <2>2. \A m \in late : m.call = "settle" => m.lease # NoLease
    BY LateTyped, OutboxAssumption DEF TypeOK
  <2>. QED
    BY <2>1, <2>2 DEF OwnInv, MutexHeldOnce, WorkerOwns, DeliveredClaims, DeliveredIsAccepted
<1>. QED
  BY <1>1, <1>2

LEMMA OwnStep ==
  ASSUME TypeOK, CoreInv, OwnInv, [Next]_vars
  PROVE  OwnInv'
<1>1. CASE UNCHANGED vars
  BY <1>1 DEF vars, coreVars, accessVars, OwnInv, MutexHeldOnce, WorkerOwns, DeliveredClaims,
     DeliveredIsAccepted
<1>. QED
  BY <1>1, OwnFamily, OwnWorker, OwnConsent, OwnLate, OwnEnvironment DEF Next

LEMMA OwnInit == Init => CoreInv /\ OwnInv
BY DEF Init, CoreInit, NoRow, Idle, NoConsent, CoreInv, RowsFollowTasks, LeasedArePending, OwnInv,
   MutexHeldOnce, WorkerOwns, DeliveredClaims, DeliveredIsAccepted

(***************************************************************************)
(* The audit trail is truthful in every reachable state: "delivered" means *)
(* that Portal accepted the event key (SettleNotification after            *)
(* dispatchNotification, with lost, late and repeated calls).              *)
(***************************************************************************)
THEOREM AuditIsTruthful == Spec => []DeliveredIsAccepted
<1> DEFINE Inv == TypeOK /\ CoreInv /\ OwnInv
<1>1. Init => Inv
  BY InitType, OwnInit
<1>2. Inv /\ [Next]_vars => Inv'
  BY TypeStep, CoreInvStep, OwnStep
<1>3. Inv => DeliveredIsAccepted
  BY DEF OwnInv, DeliveredClaims
<1>. QED
  BY <1>1, <1>2, <1>3, PTL DEF Spec

-----------------------------------------------------------------------------
(* Consent generations: what is sent was not opted out of.                  *)

LEMMA RefTyped ==
  ASSUME NEW f \in Event
  PROVE  RefOf(f) \in Refs
BY DEF Event, RefOf

\* A step that draws no identifier, acknowledges no opt-out, opens no binding
\* and starts no send keeps the generations, whatever it does to rows,
\* recipients and calls that stay within the numbers drawn so far.
LEMMA GenKept ==
  ASSUME TypeOK, TypeOK', GenInv,
         UNCHANGED <<gen, optOut>>,
         \/ UNCHANGED consent
         \/ consent'.pc \notin {"portalOn", "bind", "record"},
         \A r \in Refs : portal'[r] \in {portal[r], 0},
         \A f \in Event : events'[f].state # "absent" =>
           \/ /\ events[f].state # "absent"
              /\ events'[f].sub = events[f].sub /\ events'[f].binding = events[f].binding
           \/ /\ recipients[RefOf(f)].enabled
              /\ events'[f].sub = recipients[RefOf(f)].sub
              /\ events'[f].binding = recipients[RefOf(f)].binding,
         \A r \in Refs :
           /\ recipients'[r].enabled =>
                /\ Numbered(recipients'[r].sub, recipients'[r].binding)
                /\ consent.pc = "portalOn" => recipients'[r].binding < gen
           /\ recipients'[r].binding <= gen,
         \A m \in late' : m.call = "record" =>
           m \in late \/ (Numbered(m.sub, m.binding) /\ consent'.pc # "portalOn"),
         disp'.pc = "send" =>
           /\ disp.pc = "send" /\ disp'.event = disp.event
           /\ events'[disp.event].binding = events[disp.event].binding
  PROVE  GenInv'
<1>. USE DEF GenInv
<1>1. \A f \in Event : events'[f].state # "absent" =>
        /\ Numbered(events'[f].sub, events'[f].binding)
        /\ consent.pc = "portalOn" => events'[f].binding < gen
  BY RefTyped DEF Generations, FreshAttempt
<1>2. \A r \in Refs : /\ optOut[r] \in Nat /\ portal[r] \in Nat
                      /\ portal'[r] <= gen
                      /\ portal'[r] = 0 \/ portal'[r] > optOut[r]
                      /\ consent.pc = "portalOn" => portal'[r] < gen
  <2>1. gen \in Nat /\ \A r \in Refs : optOut[r] \in Nat /\ portal[r] \in Nat
    BY DEF TypeOK, WorldOK
  <2>2. consent.pc = "portalOn" => \A r \in Refs : portal[r] < gen /\ 0 < gen
    BY <2>1 DEF FreshAttempt
  <2>. QED
    BY <2>1, <2>2 DEF Generations
<1>3. Generations'
  <2>1. \A m \in late' : m.call = "record" => Numbered(m.sub, m.binding)
    BY DEF Generations
  <2>. QED
    BY <1>1, <1>2, <2>1 DEF Generations, Numbered
<1>4. FreshAttempt'
  <2>. SUFFICES ASSUME consent'.pc = "portalOn" PROVE FreshAttempt'
    BY DEF FreshAttempt
  <2>1. consent.pc = "portalOn"
    OBVIOUS
  <2>. QED
    BY <1>1, <1>2, <2>1 DEF FreshAttempt
<1>5. SendLive'
  BY DEF SendLive
<1>. QED
  BY <1>3, <1>4, <1>5

\* The generations of recipients that a revocation, a settlement or a restore leaves.
LEMMA RecipientsWithin ==
  ASSUME TypeOK, GenInv,
         \A r \in Refs : \/ recipients'[r] = recipients[r]
                         \/ recipients'[r] = [recipients[r] EXCEPT !.enabled = FALSE]
                         \/ recipients'[r] = NoRecipient
  PROVE  \A r \in Refs :
           /\ recipients'[r].enabled =>
                /\ Numbered(recipients'[r].sub, recipients'[r].binding)
                /\ consent.pc = "portalOn" => recipients'[r].binding < gen
           /\ recipients'[r].binding <= gen
<1>1. \A r \in Refs : recipients[r] \in Recipient /\ gen \in Nat
  BY DEF TypeOK, CoreTypeOK, WorldOK
<1>2. \A r \in Refs : /\ recipients'[r].enabled => recipients'[r] = recipients[r]
                      /\ recipients'[r].binding \in {recipients[r].binding, 0}
  <2>. SUFFICES ASSUME NEW r \in Refs
                PROVE  /\ recipients'[r].enabled => recipients'[r] = recipients[r]
                       /\ recipients'[r].binding \in {recipients[r].binding, 0}
    OBVIOUS
  <2>1. CASE recipients'[r] = recipients[r]
    BY <2>1
  <2>2. CASE recipients'[r] = [recipients[r] EXCEPT !.enabled = FALSE]
    BY <1>1, <2>2 DEF Recipient
  <2>3. CASE recipients'[r] = NoRecipient
    BY <2>3 DEF NoRecipient
  <2>. QED
    BY <2>1, <2>2, <2>3
<1>. QED
  BY <1>1, <1>2 DEF GenInv, Generations, FreshAttempt

\* ... and those of a recipient that is recorded within the numbers drawn so far.
LEMMA RecordWithin ==
  ASSUME TypeOK, GenInv,
         NEW r \in Refs, NEW p \in Parents, NEW sub \in Nat, NEW b \in Nat,
         SetRecipient(r, p, sub, b),
         Numbered(sub, b),
         consent.pc = "portalOn" => b < gen
  PROVE  \A q \in Refs :
           /\ recipients'[q].enabled =>
                /\ Numbered(recipients'[q].sub, recipients'[q].binding)
                /\ consent.pc = "portalOn" => recipients'[q].binding < gen
           /\ recipients'[q].binding <= gen
<1>1. gen \in Nat /\ b <= gen
  BY DEF TypeOK, WorldOK, Numbered
<1>2. Numbered(KeptSub(r, p, sub, b), b)
  BY DEF KeptSub, GenInv, Generations
<1>3. \A q \in Refs : recipients'[q] =
        IF q = r THEN [enabled |-> TRUE, sub |-> KeptSub(r, p, sub, b), binding |-> b, parent |-> p]
                 ELSE recipients[q]
  BY DEF SetRecipient, TypeOK, CoreTypeOK
<1>. QED
  BY <1>1, <1>2, <1>3 DEF GenInv, Generations, FreshAttempt

\* Every row a call leaves was there before, with the same generation.
LEMMA CallOrigin ==
  ASSUME CoreTypeOK, CoreInv, CallStep \/ UNCHANGED coreVars, NEW f \in Event
  PROVE  /\ events'[f].sub = events[f].sub /\ events'[f].binding = events[f].binding
         /\ events'[f].state # "absent" => events[f].state # "absent"
<1>1. CASE UNCHANGED coreVars
  BY <1>1 DEF coreVars
<1>2. CASE CallStep
  <2>1. events'[f].state # "absent" => events[f].state # "absent"
    BY <1>2, CallRows DEF RowsEvolve
  <2>2. events'[f].sub = events[f].sub /\ events'[f].binding = events[f].binding
    BY <1>2, RecipientKeeps, SettleKeeps, ClaimKeeps DEF CallStep, RowKept
  <2>. QED
    BY <2>1, <2>2
<1>. QED
  BY <1>1, <1>2

\* What a transaction of the family, or a call other than a recording, does to
\* the recipients.
LEMMA RecipientMoves ==
  ASSUME TypeOK,
         \/ FamilyStep
         \/ \E e \in Event, tok \in Tokens : Claim(e, tok)
         \/ \E e \in Event, tok \in Tokens, outcome \in Outcomes, code \in Codes :
              Settle(e, tok, outcome, code)
         \/ \E r \in Refs : Revoke(r)
         \/ \E e \in Event : LeaseExpires(e)
         \/ UNCHANGED coreVars,
         NEW q \in Refs
  PROVE  \/ recipients'[q] = recipients[q]
         \/ recipients'[q] = [recipients[q] EXCEPT !.enabled = FALSE]
         \/ recipients'[q] = NoRecipient
<1>. USE DEF TypeOK, CoreTypeOK
<1>1. CASE FamilyStep
  BY <1>1 DEF FamilyStep, CompleteBegin, CompleteCommit, CompleteAbort, BackoffElapses,
     DeactivateParent, PolicyChange, Suspension, Restore
<1>2. ASSUME NEW e \in Event, NEW tok \in Tokens, NEW outcome \in Outcomes, NEW code \in Codes,
             Settle(e, tok, outcome, code)
      PROVE  \/ recipients'[q] = recipients[q]
             \/ recipients'[q] = [recipients[q] EXCEPT !.enabled = FALSE]
  <2>1. RefOf(e) \in Refs
    BY RefTyped
  <2>. QED
    BY <1>2, <2>1 DEF Settle
<1>3. ASSUME NEW r \in Refs, Revoke(r)
      PROVE  \/ recipients'[q] = recipients[q]
             \/ recipients'[q] = [recipients[q] EXCEPT !.enabled = FALSE]
  BY <1>3 DEF Revoke
<1>4. CASE \/ \E e \in Event, tok \in Tokens : Claim(e, tok)
           \/ \E e \in Event : LeaseExpires(e)
           \/ UNCHANGED coreVars
  BY <1>4 DEF Claim, LeaseExpires, coreVars
<1>. QED
  BY <1>1, <1>2, <1>3, <1>4

LEMMA GenFamily ==
  ASSUME TypeOK, TypeOK', CoreInv, OwnInv, GenInv, FamilyStep, UNCHANGED accessVars
  PROVE  GenInv'
<1>1. \A r \in Refs :
        /\ recipients'[r].enabled =>
             /\ Numbered(recipients'[r].sub, recipients'[r].binding)
             /\ consent.pc = "portalOn" => recipients'[r].binding < gen
        /\ recipients'[r].binding <= gen
  BY RecipientMoves, RecipientsWithin
<1>2. \A f \in Event : events'[f].state # "absent" =>
        \/ /\ events[f].state # "absent"
           /\ events'[f].sub = events[f].sub /\ events'[f].binding = events[f].binding
        \/ /\ recipients[RefOf(f)].enabled
           /\ events'[f].sub = recipients[RefOf(f)].sub
           /\ events'[f].binding = recipients[RefOf(f)].binding
  BY FamilyOrigin DEF TypeOK
<1>3. disp.pc = "send" => events'[disp.event].binding = events[disp.event].binding
  <2>. SUFFICES ASSUME disp.pc = "send" PROVE events'[disp.event].binding = events[disp.event].binding
    OBVIOUS
  <2>1. disp.event \in Event /\ Committed(disp.event)
    BY DEF TypeOK, DispOK, OwnInv, WorkerOwns, Committed
  <2>. QED
    BY <2>1, FamilyKeeps DEF TypeOK, RowKept
<1>4. UNCHANGED <<disp, consent, late, portal, gen, optOut>>
  BY DEF accessVars
<1>. QED
  BY <1>1, <1>2, <1>3, <1>4, GenKept

\* A step of Access that leaves Portal's bindings, the counter, the opt-outs
\* and the consent request alone or ends them.
LEMMA GenCalls ==
  ASSUME TypeOK, TypeOK', CoreInv, GenInv,
         \/ \E e \in Event, tok \in Tokens : Claim(e, tok)
         \/ \E e \in Event, tok \in Tokens, outcome \in Outcomes, code \in Codes :
              Settle(e, tok, outcome, code)
         \/ \E r \in Refs : Revoke(r)
         \/ \E e \in Event : LeaseExpires(e)
         \/ UNCHANGED coreVars,
         UNCHANGED <<gen, optOut>>,
         \/ UNCHANGED consent
         \/ consent'.pc \notin {"portalOn", "bind", "record"},
         \A r \in Refs : portal'[r] \in {portal[r], 0},
         \A m \in late' : m.call = "record" =>
           m \in late \/ (Numbered(m.sub, m.binding) /\ consent'.pc # "portalOn"),
         disp'.pc = "send" => disp.pc = "send" /\ disp'.event = disp.event
  PROVE  GenInv'
<1>1. CallStep \/ UNCHANGED coreVars
  BY DEF CallStep
<1>2. \A f \in Event :
        /\ events'[f].sub = events[f].sub /\ events'[f].binding = events[f].binding
        /\ events'[f].state # "absent" => events[f].state # "absent"
  BY <1>1, CallOrigin DEF TypeOK
<1>3. \A r \in Refs :
        /\ recipients'[r].enabled =>
             /\ Numbered(recipients'[r].sub, recipients'[r].binding)
             /\ consent.pc = "portalOn" => recipients'[r].binding < gen
        /\ recipients'[r].binding <= gen
  BY RecipientMoves, RecipientsWithin
<1>4. disp.pc = "send" => disp.event \in Event
  BY DEF TypeOK, DispOK
<1>. QED
  BY <1>2, <1>3, <1>4, GenKept

LEMMA GenWorker ==
  ASSUME TypeOK, TypeOK', CoreInv, OwnInv, GenInv, Worker
  PROVE  GenInv'
<1>1. /\ UNCHANGED <<consent, portal, gen, optOut>>
      /\ late' \in {late, late \cup {SettleCall(disp)}}
  BY DEF Worker, WorkerClaim, WorkerIdentity, WorkerCheck, WorkerEligibility, WorkerSend,
     WorkerSettle, dispFrame
<1>2. \A m \in late' : m.call = "record" => m \in late
  BY <1>1 DEF SettleCall
<1>3. \/ \E e \in Event, tok \in Tokens : Claim(e, tok)
      \/ \E e \in Event, tok \in Tokens, outcome \in Outcomes, code \in Codes :
           Settle(e, tok, outcome, code)
      \/ UNCHANGED coreVars
  BY SettleCallType DEF Worker, WorkerClaim, WorkerIdentity, WorkerCheck, WorkerEligibility,
     WorkerSend, WorkerSettle, dispFrame, TypeOK
<1>4. CASE disp'.pc # "send"
  BY <1>1, <1>2, <1>3, <1>4, GenCalls
<1>5. CASE disp'.pc = "send"
  <2>0. /\ \A pc \in DispPc : Goto(pc) => disp'.pc = pc
        /\ \A outcome \in Outcomes, code \in Codes : Decide(outcome, code) => disp'.pc = "settle"
    BY DEF Goto, Decide, TypeOK, DispOK, DispState
  <2>1. /\ WorkerEligibility /\ BindingLive(disp.event) /\ disp' = [disp EXCEPT !.pc = "send"]
        /\ UNCHANGED <<coreVars, late>>
    <3>1. ~WorkerClaim /\ ~WorkerSettle
      <4>1. ~WorkerSettle
        BY <1>5 DEF WorkerSettle, Idle
      <4>2. ~WorkerClaim
        <5>1. SUFFICES ASSUME WorkerClaim PROVE FALSE
          OBVIOUS
        <5>2. PICK e \in Event, tok \in Tokens :
                \/ disp' = [Idle EXCEPT !.pc = "claimed", !.event = e, !.lease = tok]
                \/ disp' = Idle
          BY <5>1 DEF WorkerClaim
        <5>3. disp'.pc = "claimed" \/ disp'.pc = "idle"
          <6>1. CASE disp' = Idle
            BY <6>1 DEF Idle
          <6>2. CASE disp' = [Idle EXCEPT !.pc = "claimed", !.event = e, !.lease = tok]
            BY <6>2 DEF Idle
          <6>. QED
            BY <5>2, <6>1, <6>2
        <5>. QED
          BY <1>5, <5>3
      <4>. QED
        BY <4>1, <4>2
    <3>2. /\ "check" \in DispPc /\ "eligibility" \in DispPc
          /\ {"retry", "delivered", "cancelled", "failed"} = Outcomes
          /\ {"none", "portal_denied", "recipient_revoked", "authorization_revoked"} = Codes
      BY DEF DispPc, Outcomes, Codes
    <3>3. ~WorkerIdentity /\ ~WorkerCheck /\ ~WorkerSend
      BY <1>5, <2>0, <3>2 DEF WorkerIdentity, WorkerCheck, WorkerSend
    <3>4. WorkerEligibility
      BY <3>1, <3>3 DEF Worker
    <3>. QED
      BY <1>5, <2>0, <3>2, <3>4 DEF WorkerEligibility, Goto, dispFrame, Outcomes, Codes
  <2>2. disp.event \in Event /\ disp'.event = disp.event
    BY <2>1 DEF WorkerEligibility, TypeOK, DispOK, DispState
  <2>3. events[disp.event].binding > optOut[RefOf(disp.event)]
    BY <2>1, <2>2, RefTyped DEF BindingLive, GenInv, Generations
  <2>4. SendLive'
    BY <1>1, <2>1, <2>2, <2>3 DEF SendLive, coreVars
  <2>5. Generations' /\ FreshAttempt'
    BY <1>1, <2>1 DEF coreVars, GenInv, Generations, Numbered, FreshAttempt
  <2>. QED
    BY <2>4, <2>5 DEF GenInv
<1>. QED
  BY <1>4, <1>5

LEMMA GenEnvironment ==
  ASSUME TypeOK, TypeOK', CoreInv, OwnInv, GenInv,
         \/ LateCall
         \/ \E e \in Event : Expiry(e)
         \/ \E r \in Refs : PortalStop(r)
         \/ AccessCrash
  PROVE  GenInv'
<1>1. ASSUME NEW e \in Event, Expiry(e)
      PROVE  GenInv'
  <2>1. LeaseExpires(e) /\ UNCHANGED <<disp, consent, late, portal, gen, optOut>>
    BY <1>1 DEF Expiry
  <2>. QED
    BY <2>1, GenCalls
<1>2. ASSUME NEW r \in Refs, PortalStop(r)
      PROVE  GenInv'
  <2>1. UNCHANGED <<disp, consent, late, gen, optOut>> /\ UNCHANGED coreVars
    BY <1>2 DEF PortalStop
  <2>2. \A q \in Refs : portal'[q] \in {portal[q], 0}
    BY <1>2 DEF PortalStop, TypeOK, WorldOK
  <2>. QED
    BY <2>1, <2>2, GenCalls
<1>3. CASE AccessCrash
  <2>1. /\ disp'.pc = "idle" /\ consent'.pc = "idle"
        /\ UNCHANGED <<late, portal, gen, optOut>> /\ UNCHANGED coreVars
    BY <1>3 DEF AccessCrash, Idle, NoConsent
  <2>. QED
    BY <2>1, GenCalls
<1>4. CASE LateCall
  <2>1. PICK m \in late : LateCall!(m)
    BY <1>4 DEF LateCall
  <2>2. UNCHANGED <<disp, consent, portal, gen, optOut>> /\ \A n \in late' : n \in late
    BY <2>1
  <2>3. CASE \/ m.call # "record"
             \/ UNCHANGED coreVars
    <3>1. \/ \E e \in Event, tok \in Tokens, outcome \in Outcomes, code \in Codes :
               Settle(e, tok, outcome, code)
          \/ \E r \in Refs : Revoke(r)
          \/ UNCHANGED coreVars
      BY <2>1, <2>3, LateTyped DEF TypeOK
    <3>. QED
      BY <2>2, <3>1, GenCalls
  <2>4. CASE m.call = "record" /\ SetRecipient(m.ref, m.parent, m.sub, m.binding)
    <3>1. /\ m.ref \in Refs /\ m.parent \in Parents /\ m.sub \in Nat /\ m.binding \in Nat
          /\ Numbered(m.sub, m.binding)
          /\ consent.pc = "portalOn" => m.binding < gen
      BY <2>4, LateTyped DEF TypeOK, GenInv, Generations, FreshAttempt
    <3>2. \A q \in Refs :
            /\ recipients'[q].enabled =>
                 /\ Numbered(recipients'[q].sub, recipients'[q].binding)
                 /\ consent.pc = "portalOn" => recipients'[q].binding < gen
            /\ recipients'[q].binding <= gen
      BY <2>4, <3>1, RecordWithin
    <3>3. \A f \in Event :
            /\ events'[f].sub = events[f].sub /\ events'[f].binding = events[f].binding
            /\ events'[f].state # "absent" => events[f].state # "absent"
      BY <2>4, <3>1, CallOrigin DEF TypeOK, CallStep
    <3>4. disp.pc = "send" => disp.event \in Event
      BY DEF TypeOK, DispOK
    <3>. QED
      BY <2>2, <3>2, <3>3, <3>4, GenKept
  <2>. QED
    BY <2>1, <2>3, <2>4
<1>. QED
  BY <1>1, <1>2, <1>3, <1>4

LEMMA GenConsent ==
  ASSUME TypeOK, TypeOK', CoreInv, OwnInv, GenInv, ConsentRequest \/ ConsentStep
  PROVE  GenInv'
<1>1. /\ consent.ref \in Refs /\ consent.sub \in Nat /\ consent.binding \in Nat
      /\ consent.pc = "record" => consent.parent \in Parents
      /\ gen \in Nat /\ portal \in [Refs -> Nat] /\ optOut \in [Refs -> Nat]
  BY DEF TypeOK, ConsentOK, ConsentState, WorldOK
<1>2. NoConsent.pc = "idle"
  BY NoConsentType
<1>3. ASSUME NEW r \in Refs, NEW p \in Parents, OptIn(r, p)
      PROVE  GenInv'
  <2>1. /\ gen' = gen + 1 /\ consent'.pc = "portalOn" /\ consent'.sub = gen + 1
        /\ UNCHANGED <<late, portal, optOut, disp, events, recipients>>
    BY <1>3 DEF OptIn, NoConsent, coreVars
  <2>2. \A r1 \in Refs : portal[r1] \in Nat /\ optOut[r1] \in Nat /\ recipients[r1].binding \in Nat
    BY <1>1 DEF TypeOK, CoreTypeOK, Recipient
  <2>3. \A sub, b : Numbered(sub, b) /\ sub \in Nat /\ b \in Nat => Numbered(sub, b)' /\ b < gen'
    BY <1>1, <2>1 DEF Numbered
  <2>4. \A f \in Event : events[f].sub \in Nat /\ events[f].binding \in Nat
    BY DEF TypeOK, CoreTypeOK, Row
  <2>5. \A r1 \in Refs : recipients[r1].sub \in Nat
    BY DEF TypeOK, CoreTypeOK, Recipient
  <2>6. \A m \in late : m.call = "record" => m.sub \in Nat /\ m.binding \in Nat
    BY LateTyped DEF TypeOK
  <2>7. Generations'
    BY <1>1, <2>1, <2>2, <2>3, <2>4, <2>5, <2>6 DEF GenInv, Generations
  <2>8. FreshAttempt'
    BY <1>1, <2>1, <2>2, <2>3, <2>4, <2>5, <2>6 DEF GenInv, Generations, FreshAttempt
  <2>9. SendLive'
    BY <2>1 DEF GenInv, SendLive
  <2>. QED
    BY <2>7, <2>8, <2>9 DEF GenInv
<1>4. ASSUME NEW r \in Refs, NEW selected \in BOOLEAN, OptOut(r, selected)
      PROVE  GenInv'
  <2>1. /\ UNCHANGED coreVars /\ UNCHANGED <<disp, late, portal, gen, optOut>>
        /\ consent'.pc \notin {"portalOn", "bind", "record"}
    BY <1>4 DEF OptOut, NoConsent
  <2>. QED
    BY <2>1, GenCalls
<1>5. CASE PortalOn
  <2>1. /\ consent.pc = "portalOn" /\ UNCHANGED <<coreVars, late, gen, optOut, disp, accepted>>
        /\ consent.sub = gen
        /\ \/ consent' = [consent EXCEPT !.pc = "bind"]
           \/ consent'.pc = "idle"
        /\ \A r \in Refs : portal'[r] \in {portal[r], consent.sub}
    BY <1>1, <1>2, <1>5 DEF PortalOn, Step, Finish, consentFrame, GenInv, Generations
  <2>2. consent' = [consent EXCEPT !.pc = "bind"] => consent'.pc = "bind" /\ consent'.sub = gen
    BY <2>1 DEF TypeOK, ConsentOK, ConsentState
  <2>3. \A r \in Refs : /\ portal'[r] <= gen
                        /\ portal'[r] = 0 \/ portal'[r] > optOut[r]
    BY <1>1, <2>1 DEF GenInv, Generations, FreshAttempt
  <2>4. Generations'
    BY <2>1, <2>2, <2>3 DEF coreVars, GenInv, Generations, Numbered
  <2>5. FreshAttempt' /\ SendLive'
    BY <2>1, <2>2 DEF coreVars, GenInv, FreshAttempt, SendLive
  <2>. QED
    BY <2>4, <2>5 DEF GenInv
<1>6. CASE FetchBinding
  <2>1. /\ consent.pc = "bind" /\ UNCHANGED <<coreVars, late, portal, gen, optOut, disp, accepted>>
        /\ \/ consent'.pc = "compensate"
           \/ /\ portal[consent.ref] # 0
              /\ consent'.pc = "record" /\ consent'.sub = consent.sub
              /\ consent'.binding = portal[consent.ref]
    BY <1>6 DEF FetchBinding, Step, consentFrame, TypeOK, ConsentOK, ConsentState
  <2>2. consent'.pc = "record" => 0 < consent'.binding /\ consent'.binding <= gen
    BY <1>1, <2>1 DEF GenInv, Generations
  <2>3. Generations'
    BY <2>1, <2>2 DEF coreVars, GenInv, Generations, Numbered
  <2>4. FreshAttempt' /\ SendLive'
    BY <2>1 DEF coreVars, GenInv, FreshAttempt, SendLive
  <2>. QED
    BY <2>3, <2>4 DEF GenInv
<1>7. CASE RecordRecipient
  <2>1. /\ consent.pc = "record" /\ UNCHANGED <<portal, gen, optOut, disp>>
        /\ late' \in {late, late \cup {RecordCall(consent)}}
        /\ Numbered(consent.sub, consent.binding)
    BY <1>1, <1>7 DEF RecordRecipient, consentFrame, GenInv, Generations, Numbered
  <2>2. consent'.pc \notin {"portalOn", "bind", "record"}
    BY <1>2, <1>7 DEF RecordRecipient, Step, Finish, TypeOK, ConsentOK, ConsentState
  <2>3. \A m \in late' : m.call = "record" =>
          m \in late \/ (Numbered(m.sub, m.binding) /\ consent'.pc # "portalOn")
    BY <2>1, <2>2 DEF RecordCall
  <2>4. CASE UNCHANGED coreVars
    BY <2>1, <2>2, <2>3, <2>4, GenCalls
  <2>5. CASE SetRecipient(consent.ref, consent.parent, consent.sub, consent.binding)
    <3>1. \A q \in Refs :
            /\ recipients'[q].enabled =>
                 /\ Numbered(recipients'[q].sub, recipients'[q].binding)
                 /\ consent.pc = "portalOn" => recipients'[q].binding < gen
            /\ recipients'[q].binding <= gen
      BY <1>1, <2>1, <2>5, RecordWithin
    <3>2. \A f \in Event :
            /\ events'[f].sub = events[f].sub /\ events'[f].binding = events[f].binding
            /\ events'[f].state # "absent" => events[f].state # "absent"
      BY <1>1, <2>1, <2>5, CallOrigin DEF TypeOK, CallStep
    <3>3. disp.pc = "send" => disp.event \in Event
      BY DEF TypeOK, DispOK
    <3>. QED
      BY <2>1, <2>2, <2>3, <3>1, <3>2, <3>3, GenKept
  <2>. QED
    BY <1>7, <2>4, <2>5 DEF RecordRecipient
<1>8. CASE Compensate
  <2>1. /\ UNCHANGED coreVars /\ UNCHANGED <<disp, late, gen, optOut>>
        /\ consent'.pc = "idle"
        /\ \A r \in Refs : portal'[r] \in {portal[r], 0}
    BY <1>1, <1>2, <1>8 DEF Compensate, Finish, consentFrame
  <2>. QED
    BY <2>1, GenCalls
<1>9. CASE RevokeFirst
  <2>1. consent'.pc = "portalOff"
    BY <1>9 DEF RevokeFirst, Step, TypeOK, ConsentOK, ConsentState
  <2>2. UNCHANGED <<portal, gen, optOut, disp>> /\ late' \in {late, late \cup {RevokeCall(consent)}}
    BY <1>9 DEF RevokeFirst, consentFrame
  <2>3. (\E r \in Refs : Revoke(r)) \/ UNCHANGED coreVars
    BY <1>1, <1>9 DEF RevokeFirst
  <2>4. \A m \in late' : m.call = "record" => m \in late
    BY <2>2 DEF RevokeCall
  <2>. QED
    BY <2>1, <2>2, <2>3, <2>4, GenCalls
<1>10. CASE PortalOff
  <2>1. /\ UNCHANGED <<coreVars, late, gen, disp>>
        /\ consent.pc = "portalOff" /\ consent'.pc = "idle"
        /\ \A r \in Refs : /\ portal'[r] \in {portal[r], 0}
                           /\ optOut'[r] = optOut[r] \/ (optOut'[r] = gen /\ portal'[r] = 0)
    BY <1>1, <1>2, <1>10 DEF PortalOff, Finish, consentFrame
  <2>2. disp.pc # "send"
    BY <2>1 DEF OwnInv, MutexHeldOnce
  <2>3. \A r \in Refs : portal'[r] <= gen /\ optOut'[r] <= gen
                        /\ (portal'[r] = 0 \/ portal'[r] > optOut'[r])
    BY <1>1, <2>1 DEF GenInv, Generations
  <2>4. Generations'
    BY <2>1, <2>3 DEF coreVars, GenInv, Generations, Numbered
  <2>5. FreshAttempt' /\ SendLive'
    BY <2>1, <2>2 DEF FreshAttempt, SendLive
  <2>. QED
    BY <2>4, <2>5 DEF GenInv
<1>. QED
  BY <1>3, <1>4, <1>5, <1>6, <1>7, <1>8, <1>9, <1>10 DEF ConsentRequest, ConsentStep

LEMMA GenStep ==
  ASSUME TypeOK, CoreInv, OwnInv, GenInv, [Next]_vars
  PROVE  GenInv'
<1>1. TypeOK'
  BY TypeStep
<1>2. CASE UNCHANGED vars
  BY <1>2 DEF vars, coreVars, accessVars, GenInv, Generations, Numbered, FreshAttempt, SendLive
<1>. QED
  BY <1>1, <1>2, GenFamily, GenWorker, GenConsent, GenEnvironment DEF Next

LEMMA GenInit == Init => GenInv
BY RefTyped DEF Init, CoreInit, NoRow, NoRecipient, Idle, NoConsent, GenInv, Generations, Numbered,
   FreshAttempt, SendLive

(***************************************************************************)
(* No acknowledged opt-out is followed by a send of an event of an earlier *)
(* consent: what the worker sends has a binding younger than the opt-out,  *)
(* and a subscription is never older than its binding (telegramConsent and *)
(* dispatchNotification under deliveryMu).                                 *)
(***************************************************************************)
THEOREM OptOutIsFinal == Spec => []NoSendAfterOptOut
<1> DEFINE Inv == TypeOK /\ CoreInv /\ OwnInv /\ GenInv
<1>1. Init => Inv
  BY InitType, OwnInit, GenInit
<1>2. Inv /\ [Next]_vars => Inv'
  BY TypeStep, CoreInvStep, OwnStep, GenStep
<1>3. Inv => NoSendAfterOptOut
  <2>. SUFFICES ASSUME Inv, disp.pc = "send"
                PROVE  events[disp.event].sub > optOut[RefOf(disp.event)]
    BY DEF NoSendAfterOptOut
  <2>1. /\ disp.event \in Event /\ events[disp.event].state # "absent"
        /\ events[disp.event].sub \in Nat /\ events[disp.event].binding \in Nat
        /\ optOut[RefOf(disp.event)] \in Nat
    BY RefTyped DEF TypeOK, DispOK, CoreTypeOK, Row, WorldOK, OwnInv, WorkerOwns
  <2>. QED
    BY <2>1 DEF GenInv, Generations, Numbered, SendLive
<1>. QED
  BY <1>1, <1>2, <1>3, PTL DEF Spec

-----------------------------------------------------------------------------
(* A denial is only reported of a binding that will never be live again.    *)

LEMMA GenerationKept ==
  ASSUME TypeOK, CoreInv, Next, NEW e \in Event, Committed(e)
  PROVE  events'[e].binding = events[e].binding
<1>1. CASE FamilyStep
  BY <1>1, FamilyKeeps DEF TypeOK, RowKept
<1>2. CASE CallStep \/ UNCHANGED coreVars
  BY <1>2, CallOrigin DEF TypeOK
<1>. QED
  BY <1>1, <1>2, StepsAreCalls

LEMMA PortalMoves ==
  ASSUME TypeOK, Next, NEW r \in Refs
  PROVE  \/ portal'[r] \in {portal[r], 0}
         \/ consent.pc = "portalOn" /\ portal'[r] = consent.sub
<1>1. portal \in [Refs -> Nat] /\ consent.ref \in Refs
  BY DEF TypeOK, WorldOK, ConsentOK, ConsentState
<1>2. CASE (FamilyStep /\ UNCHANGED accessVars) \/ Worker \/ ConsentRequest \/ LateCall
  BY <1>2 DEF accessVars, Worker, WorkerClaim, WorkerIdentity, WorkerCheck, WorkerEligibility,
     WorkerSend, WorkerSettle, dispFrame, ConsentRequest, OptIn, OptOut, LateCall
<1>3. CASE ConsentStep
  BY <1>1, <1>3 DEF ConsentStep, PortalOn, FetchBinding, RecordRecipient, Compensate, RevokeFirst,
     PortalOff
<1>4. CASE (\E e \in Event : Expiry(e)) \/ (\E q \in Refs : PortalStop(q)) \/ AccessCrash
  BY <1>1, <1>4 DEF Expiry, PortalStop, AccessCrash
<1>. QED
  BY <1>2, <1>3, <1>4 DEF Next

LEMMA StaysRetired ==
  ASSUME TypeOK, CoreInv, GenInv, Next, NEW e \in Event, Committed(e), ~BindingLive(e)
  PROVE  ~(portal'[RefOf(e)] # 0 /\ portal'[RefOf(e)] = events'[e].binding)
<1>1. events'[e].binding = events[e].binding /\ RefOf(e) \in Refs
  BY GenerationKept, RefTyped
<1>2. CASE portal'[RefOf(e)] \in {portal[RefOf(e)], 0}
  BY <1>1, <1>2 DEF BindingLive
<1>3. CASE consent.pc = "portalOn" /\ portal'[RefOf(e)] = consent.sub
  <2>1. portal'[RefOf(e)] = gen /\ events[e].binding < gen
    BY <1>3 DEF GenInv, Generations, FreshAttempt, Committed
  <2>2. gen \in Nat /\ events[e].binding \in Nat
    BY DEF TypeOK, WorldOK, CoreTypeOK, Row
  <2>. QED
    BY <1>1, <2>1, <2>2
<1>. QED
  BY <1>1, <1>2, <1>3, PortalMoves

\* Which denials the next state reports: old ones, or one just answered.
LEMMA NewDenials ==
  ASSUME TypeOK, Next
  PROVE  /\ disp'.pc = "settle" /\ disp'.code = "portal_denied" =>
              \/ disp' = disp
              \/ /\ disp.pc # "idle" /\ disp'.event = disp.event
                 /\ ~BindingLive(disp.event) /\ UNCHANGED <<events, portal>>
         /\ \A m \in late' : m \in late \/ m.call # "settle"
              \/ (disp.pc = "settle" /\ m = SettleCall(disp) /\ UNCHANGED <<events, portal>>)
<1>1. disp \in DispState /\ Idle.pc = "idle"
  BY DEF TypeOK, DispOK, Idle
<1>2. CASE Worker
  <2>1. CASE WorkerClaim
    <3>1. PICK e \in Event, tok \in Tokens :
            \/ disp' = [Idle EXCEPT !.pc = "claimed", !.event = e, !.lease = tok]
            \/ disp' = Idle
      BY <2>1 DEF WorkerClaim
    <3>2. CASE disp' = Idle
      BY <1>1, <2>1, <3>2 DEF WorkerClaim
    <3>3. CASE disp' = [Idle EXCEPT !.pc = "claimed", !.event = e, !.lease = tok]
      BY <2>1, <3>3 DEF WorkerClaim, Idle
    <3>. QED
      BY <3>1, <3>2, <3>3
  <2>2. CASE WorkerIdentity \/ WorkerCheck
    BY <1>1, <2>2 DEF WorkerIdentity, WorkerCheck, Goto, Decide, dispFrame, DispState
  <2>3. CASE WorkerEligibility
    BY <1>1, <2>3 DEF WorkerEligibility, Goto, Decide, dispFrame, DispState, coreVars
  <2>4. CASE WorkerSend
    BY <1>1, <2>4 DEF WorkerSend, Decide, DispState, coreVars
  <2>5. CASE WorkerSettle
    BY <1>1, <2>5 DEF WorkerSettle, coreVars
  <2>. QED
    BY <1>2, <2>1, <2>2, <2>3, <2>4, <2>5 DEF Worker
<1>3. CASE (FamilyStep /\ UNCHANGED accessVars) \/ ConsentRequest \/ LateCall
  BY <1>3 DEF accessVars, ConsentRequest, OptIn, OptOut, LateCall
<1>4. CASE ConsentStep
  <2>1. UNCHANGED disp /\ late' \in {late, late \cup {RecordCall(consent)}, late \cup {RevokeCall(consent)}}
    BY <1>4 DEF ConsentStep, PortalOn, FetchBinding, RecordRecipient, Compensate, RevokeFirst,
       PortalOff, consentFrame
  <2>. QED
    BY <2>1 DEF RecordCall, RevokeCall
<1>5. CASE (\E e \in Event : Expiry(e)) \/ (\E q \in Refs : PortalStop(q)) \/ AccessCrash
  BY <1>1, <1>5 DEF Expiry, PortalStop, AccessCrash
<1>. QED
  BY <1>2, <1>3, <1>4, <1>5 DEF Next

LEMMA DeniedStep ==
  ASSUME TypeOK, CoreInv, OwnInv, GenInv, DeniedIsRetired, [Next]_vars
  PROVE  DeniedIsRetired'
<1>1. CASE UNCHANGED vars
  BY <1>1 DEF vars, coreVars, accessVars, DeniedIsRetired, BindingLive
<1>2. CASE Next
  <2>1. ASSUME disp'.pc = "settle", disp'.code = "portal_denied"
        PROVE  ~BindingLive(disp.event)'
    <3>1. CASE disp' = disp
      <4>1. disp.event \in Event /\ Committed(disp.event) /\ ~BindingLive(disp.event)
        BY <2>1, <3>1 DEF TypeOK, DispOK, OwnInv, WorkerOwns, Committed, DeniedIsRetired
      <4>. QED
        BY <1>2, <3>1, <4>1, StaysRetired DEF BindingLive
    <3>2. CASE disp'.event = disp.event /\ ~BindingLive(disp.event) /\ UNCHANGED <<events, portal>>
      BY <3>2 DEF BindingLive
    <3>. QED
      BY <1>2, <2>1, <3>1, <3>2, NewDenials
  <2>2. ASSUME NEW m \in late', m.call = "settle", m.code = "portal_denied"
        PROVE  ~(portal'[RefOf(m.event)] # 0 /\ portal'[RefOf(m.event)] = events'[m.event].binding)
    <3>1. CASE m \in late
      <4>1. m.event \in Event /\ Committed(m.event) /\ ~BindingLive(m.event)
        BY <2>2, <3>1, LateTyped DEF TypeOK, OwnInv, WorkerOwns, Committed, DeniedIsRetired
      <4>. QED
        BY <1>2, <4>1, StaysRetired
    <3>2. CASE disp.pc = "settle" /\ m = SettleCall(disp) /\ UNCHANGED <<events, portal>>
      BY <2>2, <3>2 DEF SettleCall, DeniedIsRetired, BindingLive
    <3>. QED
      BY <1>2, <2>2, <3>1, <3>2, NewDenials
  <2>. QED
    BY <2>1, <2>2 DEF DeniedIsRetired, BindingLive
<1>. QED
  BY <1>1, <1>2

(***************************************************************************)
(* A "portal_denied" settlement, however late it reaches Core, is about a  *)
(* binding that is not live and never will be: bindings are not reused.    *)
(***************************************************************************)
THEOREM DenialIsFinal == Spec => []DeniedIsRetired
<1> DEFINE Inv == TypeOK /\ CoreInv /\ OwnInv /\ GenInv /\ DeniedIsRetired
<1>1. Init => Inv
  BY InitType, OwnInit, GenInit DEF Init, Idle, DeniedIsRetired
<1>2. Inv /\ [Next]_vars => Inv'
  BY TypeStep, CoreInvStep, OwnStep, GenStep, DeniedStep
<1>. QED
  BY <1>1, <1>2, PTL DEF Spec

-----------------------------------------------------------------------------
(* A consent is only disabled for a reason.                                 *)

\* A settlement disables the consent of r only for its own binding.
LEMMA SettlementDisables ==
  ASSUME TypeOK, GenInv,
         NEW e \in Event, NEW tok \in Tokens, NEW outcome \in Outcomes, NEW code \in Codes,
         Settle(e, tok, outcome, code),
         NEW r \in Refs, recipients[r].enabled, ~recipients'[r].enabled,
         portal[r] = recipients[r].binding
  PROVE  code = "recipient_revoked" \/ (code = "portal_denied" /\ BindingLive(e))
<1>1. recipients \in [Refs -> Recipient] /\ RefOf(e) \in Refs
  BY RefTyped DEF TypeOK, CoreTypeOK
<1>2. /\ EndsGeneration(outcome, code) /\ RefOf(e) = r
      /\ recipients[r].binding = events[e].binding
  BY <1>1 DEF Settle, Recipient
<1>3. portal[r] # 0
  <2>1. recipients[r].binding \in Nat /\ 0 < recipients[r].binding
    BY <1>1 DEF Recipient, GenInv, Generations, Numbered
  <2>. QED
    BY <2>1
<1>. QED
  BY <1>2, <1>3 DEF EndsGeneration, BindingLive

\* A recording disables nobody.
LEMMA RecordingKeeps ==
  ASSUME TypeOK, NEW q \in Refs, NEW p, NEW sub, NEW b, SetRecipient(q, p, sub, b),
         NEW r \in Refs, recipients[r].enabled
  PROVE  recipients'[r].enabled
BY DEF SetRecipient, TypeOK, CoreTypeOK

\* What a step of the family does to a consent: only a restore touches it.
LEMMA FamilyDisables ==
  ASSUME TypeOK, FamilyStep
  PROVE  UNCHANGED recipients \/ restores' # restores
<1>1. CASE \E done \in SUBSET Tasks, parents \in SUBSET Parents : Restore(done, parents)
  BY <1>1 DEF Restore, TypeOK, CoreTypeOK
<1>. QED
  BY <1>1 DEF FamilyStep, CompleteBegin, CompleteCommit, CompleteAbort, BackoffElapses,
     DeactivateParent, PolicyChange, Suspension

LEMMA WorkerDisables ==
  ASSUME TypeOK, GenInv, DeniedIsRetired, Worker,
         NEW r \in Refs, recipients[r].enabled, ~recipients'[r].enabled,
         portal[r] = recipients[r].binding
  PROVE  disp.code = "recipient_revoked"
<1>1. CASE WorkerSettle
  <2>1. disp.pc = "settle" /\ Settle(disp.event, disp.lease, disp.outcome, disp.code)
    BY <1>1 DEF WorkerSettle, coreVars
  <2>. QED
    BY <2>1, SettleCallType, SettlementDisables DEF TypeOK, DeniedIsRetired
<1>2. CASE WorkerClaim
  <2>1. UNCHANGED recipients
    BY <1>2 DEF WorkerClaim, Claim
  <2>. QED
    BY <2>1
<1>3. CASE WorkerIdentity \/ WorkerCheck \/ WorkerEligibility \/ WorkerSend
  <2>1. UNCHANGED recipients
    BY <1>3 DEF WorkerIdentity, WorkerCheck, WorkerEligibility, WorkerSend, dispFrame, coreVars
  <2>. QED
    BY <2>1
<1>. QED
  BY <1>1, <1>2, <1>3 DEF Worker

LEMMA RequestDisables ==
  ASSUME TypeOK, ConsentRequest \/ ConsentStep,
         NEW r \in Refs, recipients[r].enabled, ~recipients'[r].enabled
  PROVE  consent.pc = "revoke"
<1>1. CASE ConsentRequest
  <2>1. PICK q \in Refs :
          (\E p \in Parents : OptIn(q, p)) \/ (\E selected \in BOOLEAN : OptOut(q, selected))
    BY <1>1 DEF ConsentRequest
  <2>2. ASSUME NEW p \in Parents, OptIn(q, p)
        PROVE  UNCHANGED coreVars
    BY <2>2 DEF OptIn
  <2>3. ASSUME NEW selected \in BOOLEAN, OptOut(q, selected)
        PROVE  UNCHANGED coreVars
    BY <2>3, Zenon DEF OptOut
  <2>4. UNCHANGED coreVars
    BY <2>1, <2>2, <2>3
  <2>. QED
    BY <2>4 DEF coreVars
<1>2. CASE RecordRecipient
  <2>1. consent.ref \in Refs
    BY DEF TypeOK, ConsentOK, ConsentState
  <2>2. SetRecipient(consent.ref, consent.parent, consent.sub, consent.binding)
    BY <1>2 DEF RecordRecipient, coreVars
  <2>. QED
    BY <2>1, <2>2, RecordingKeeps
<1>3. CASE RevokeFirst
  BY <1>3 DEF RevokeFirst
<1>4. CASE PortalOn \/ FetchBinding \/ Compensate \/ PortalOff
  BY <1>4 DEF PortalOn, FetchBinding, Compensate, PortalOff, coreVars
<1>. QED
  BY <1>1, <1>2, <1>3, <1>4 DEF ConsentStep

LEMMA LateDisables ==
  ASSUME TypeOK, GenInv, DeniedIsRetired, LateCall,
         NEW r \in Refs, recipients[r].enabled, ~recipients'[r].enabled,
         portal[r] = recipients[r].binding
  PROVE  \/ [call |-> "revoke", ref |-> r] \in late
         \/ \E m \in late : m.call = "settle" /\ m.code = "recipient_revoked"
<1>1. PICK m \in late : LateCall!(m)
  BY DEF LateCall
<1>2. /\ m.call = "settle" => /\ m.event \in Event /\ m.lease \in Tokens
                              /\ m.outcome \in Outcomes /\ m.code \in Codes
      /\ m.call = "record" => m.ref \in Refs
      /\ m.call = "revoke" => m.ref \in Refs /\ m = [call |-> "revoke", ref |-> m.ref]
  BY DEF TypeOK, WorldOK, Settlement, Recording, Revocation
<1>3. CASE m.call = "settle"
  <2>1. Settle(m.event, m.lease, m.outcome, m.code)
    BY <1>1, <1>3 DEF coreVars
  <2>. QED
    BY <1>2, <1>3, <2>1, SettlementDisables DEF DeniedIsRetired
<1>4. CASE m.call = "record"
  <2>1. SetRecipient(m.ref, m.parent, m.sub, m.binding)
    BY <1>1, <1>4 DEF coreVars
  <2>. QED
    BY <1>2, <1>4, <2>1, RecordingKeeps
<1>5. CASE m.call = "revoke"
  <2>1. Revoke(m.ref)
    BY <1>1, <1>5 DEF coreVars
  <2>2. m.ref = r
    BY <1>2, <1>5, <2>1 DEF Revoke, TypeOK, CoreTypeOK
  <2>. QED
    BY <1>2, <1>5, <2>2
<1>. QED
  BY <1>1, <1>3, <1>4, <1>5

(***************************************************************************)
(* A consent that Portal still honours is never lost to an outage, a stale *)
(* answer or a late call: it ends with the parent's opt-out, a restore or  *)
(* the suspension of the family (SettleNotification, telegramConsent).     *)
(***************************************************************************)
THEOREM ConsentIsKept == Spec => ConsentSurvives
<1> DEFINE Inv == TypeOK /\ DeliveryInv /\ DeniedIsRetired
           Survives == \A r \in Refs :
             recipients[r].enabled /\ ~recipients'[r].enabled
               /\ portal[r] = recipients[r].binding
             => \/ consent.pc = "revoke" \/ [call |-> "revoke", ref |-> r] \in late
                \/ restores' # restores
                \/ disp.code = "recipient_revoked"
                \/ \E m \in late : m.call = "settle" /\ m.code = "recipient_revoked"
<1>1. Init => Inv
  BY InitType, OwnInit, GenInit DEF Init, Idle, DeniedIsRetired, DeliveryInv
<1>2. Inv /\ [Next]_vars => Inv'
  BY TypeStep, CoreInvStep, OwnStep, GenStep, DeniedStep DEF DeliveryInv
<1>3. Inv /\ [Next]_vars => [Survives]_vars
  <2>. SUFFICES ASSUME Inv, Next, NEW r \in Refs,
                       recipients[r].enabled, ~recipients'[r].enabled,
                       portal[r] = recipients[r].binding
                PROVE  \/ consent.pc = "revoke" \/ [call |-> "revoke", ref |-> r] \in late
                       \/ restores' # restores
                       \/ disp.code = "recipient_revoked"
                       \/ \E m \in late : m.call = "settle" /\ m.code = "recipient_revoked"
    OBVIOUS
  <2>1. CASE FamilyStep
    BY <2>1, FamilyDisables
  <2>2. CASE Worker
    BY <2>2, WorkerDisables DEF DeliveryInv
  <2>3. CASE ConsentRequest \/ ConsentStep
    BY <2>3, RequestDisables
  <2>4. CASE LateCall
    BY <2>4, LateDisables DEF DeliveryInv
  <2>5. CASE (\E e \in Event : Expiry(e)) \/ (\E q \in Refs : PortalStop(q)) \/ AccessCrash
    BY <2>5 DEF Expiry, LeaseExpires, PortalStop, AccessCrash, coreVars
  <2>. QED
    BY <2>1, <2>2, <2>3, <2>4, <2>5 DEF Next
<1>. QED
  BY <1>1, <1>2, <1>3, PTL DEF Spec, ConsentSurvives

-----------------------------------------------------------------------------
(* The system implements the ledger of EventLedger.                         *)

LEMMA LedgerRow ==
  /\ LedgerStatus = [e \in Event |-> LedgerStatus[e]]
  /\ \A e \in Event : LedgerStatus[e] =
       IF events[e].state = "uncommitted" THEN "absent" ELSE events[e].state
BY DEF LedgerStatus

LEMMA LedgerRowNext ==
  /\ LedgerStatus' = [e \in Event |-> LedgerStatus'[e]]
  /\ \A e \in Event : LedgerStatus'[e] =
       IF events'[e].state = "uncommitted" THEN "absent" ELSE events'[e].state
BY DEF LedgerStatus

\* A step that only moves pending rows to "cancelled" is Cancel.
LEMMA LedgerCancels ==
  ASSUME UNCHANGED accepted,
         \A e \in Event : \/ events'[e].state = events[e].state
                          \/ events[e].state = "pending" /\ events'[e].state = "cancelled"
  PROVE  Ledger!Next
<1> DEFINE S == {e \in Event : events'[e].state # events[e].state}
<1>1. \A e \in S : LedgerStatus[e] = "pending"
  BY LedgerRow
<1>2. \A e \in Event : LedgerStatus'[e] = IF e \in S THEN "cancelled" ELSE LedgerStatus[e]
  BY LedgerRow, LedgerRowNext
<1>3. LedgerStatus' = Ledger!Moved(S, "cancelled")
  BY <1>2, LedgerRowNext DEF Ledger!Moved
<1>4. Ledger!Cancel(S)
  BY <1>1, <1>3 DEF Ledger!Cancel
<1>. QED
  BY <1>4 DEF Ledger!Next

LEMMA LedgerFamily ==
  ASSUME TypeOK, CoreInv, FamilyStep, UNCHANGED accepted
  PROVE  [Ledger!Next]_(Ledger!ledger)
<1>1. ASSUME NEW t \in Tasks, CompleteBegin(t) \/ CompleteAbort(t)
      PROVE  LedgerStatus' = LedgerStatus
  <2>1. ASSUME NEW e \in Event
        PROVE  \/ events'[e].state = events[e].state
               \/ /\ events[e].state \in {"absent", "uncommitted"}
                  /\ events'[e].state \in {"absent", "uncommitted"}
    <3>1. CASE CompleteBegin(t)
      <4>1. e \in OwnRows(t) => events[e].state = "absent"
        BY <3>1 DEF CompleteBegin, OwnRows, CoreInv, RowsFollowTasks
      <4>. QED
        BY <3>1, <4>1 DEF CompleteBegin
    <3>2. CASE CompleteAbort(t)
      BY <3>2 DEF CompleteAbort, NoRow
    <3>. QED
      BY <1>1, <3>1, <3>2
  <2>2. \A e \in Event : LedgerStatus'[e] = LedgerStatus[e]
    BY <2>1, LedgerRow, LedgerRowNext
  <2>. QED
    BY <2>2, LedgerRow, LedgerRowNext
<1>2. ASSUME NEW t \in Tasks, CompleteCommit(t)
      PROVE  Ledger!Next
  <2> DEFINE S == {e \in OwnRows(t) : events[e].state = "uncommitted"}
  <2>1. S \subseteq Event /\ \A e \in S : LedgerStatus[e] = "absent"
    BY LedgerRow DEF OwnRows
  <2>2. \A e \in Event : events'[e].state = IF e \in S THEN "pending" ELSE events[e].state
    BY <1>2 DEF CompleteCommit, TypeOK, CoreTypeOK, Row
  <2>3. \A e \in Event : LedgerStatus'[e] = IF e \in S THEN "pending" ELSE LedgerStatus[e]
    BY <2>2, LedgerRow, LedgerRowNext
  <2>4. LedgerStatus' = Ledger!Moved(S, "pending")
    BY <2>3, LedgerRowNext DEF Ledger!Moved
  <2>5. Ledger!Publish(S)
    BY <2>1, <2>4 DEF Ledger!Publish
  <2>. QED
    BY <2>1, <2>5 DEF Ledger!Next
<1>3. ASSUME \/ \E e \in Event : BackoffElapses(e)
             \/ \E p \in Parents : DeactivateParent(p)
             \/ PolicyChange \/ Suspension
             \/ \E done \in SUBSET Tasks, parents \in SUBSET Parents : Restore(done, parents)
      PROVE  Ledger!Next
  <2>1. ASSUME NEW f \in Event
        PROVE  \/ events'[f].state = events[f].state
               \/ events[f].state = "pending" /\ events'[f].state = "cancelled"
    <3>1. CASE Committed(f)
      BY <1>3, <3>1, FamilyKeeps DEF FamilyStep, TypeOK, RowKept
    <3>2. CASE ~Committed(f)
      BY <1>3, <3>2 DEF BackoffElapses, DeactivateParent, PolicyChange, Suspension, Restore,
         Committed, Cancelled, Pending, TypeOK, CoreTypeOK
    <3>. QED
      BY <3>1, <3>2
  <2>. QED
    BY <2>1, LedgerCancels
<1>. QED
  BY <1>1, <1>2, <1>3 DEF FamilyStep, Ledger!ledger

LEMMA LedgerSettles ==
  ASSUME TypeOK, CoreInv, UNCHANGED accepted,
         NEW e \in Event, NEW tok \in Tokens, NEW outcome \in Outcomes, NEW code \in Codes,
         Settle(e, tok, outcome, code),
         outcome = "delivered" => e \in accepted
  PROVE  Ledger!Next
<1>1. /\ events[e].state = "pending"
      /\ events'[e].state = IF outcome = "retry" THEN "pending" ELSE outcome
      /\ \A f \in Event : f # e => RowKept(f)
  BY SettleKeeps DEF TypeOK, Holds
<1>2. CASE outcome \in {"retry", "cancelled"}
  <2>1. \A f \in Event : \/ events'[f].state = events[f].state
                         \/ events[f].state = "pending" /\ events'[f].state = "cancelled"
    BY <1>1, <1>2 DEF RowKept
  <2>. QED
    BY <2>1, LedgerCancels
<1>3. CASE outcome \in {"delivered", "failed"}
  <2> DEFINE siblings == {f \in Event : EndsGeneration(outcome, code) /\ f # e /\ SameGeneration(e, f)}
  <2>1. siblings = {}
    BY <1>3 DEF EndsGeneration
  <2>2. Cancelled({}) = events
    BY DEF Cancelled, TypeOK, CoreTypeOK
  <2>3. events' = [events EXCEPT ![e] =
                     [events[e] EXCEPT !.state = IF outcome = "retry" THEN "pending" ELSE outcome,
                                       !.lease = NoLease, !.due = outcome # "retry"]]
    BY <2>1, <2>2 DEF Settle
  <2>4. \A f \in Event : events'[f].state = IF f = e THEN outcome ELSE events[f].state
    BY <1>1, <1>3, <2>3 DEF TypeOK, CoreTypeOK, Row
  <2>5. \A f \in Event : LedgerStatus'[f] = IF f \in {e} THEN outcome ELSE LedgerStatus[f]
    BY <1>3, <2>4, LedgerRow, LedgerRowNext
  <2>6. LedgerStatus' = Ledger!Moved({e}, outcome)
    BY <2>5, LedgerRowNext DEF Ledger!Moved
  <2>7. LedgerStatus[e] = "pending"
    BY <1>1, LedgerRow
  <2>8. Ledger!Close(e)
    BY <1>3, <2>6, <2>7 DEF Ledger!Close
  <2>. QED
    BY <2>8 DEF Ledger!Next
<1>. QED
  BY <1>2, <1>3 DEF Outcomes

\* Calls other than settlements.
LEMMA LedgerCalls ==
  ASSUME TypeOK, CoreInv, UNCHANGED accepted,
         \/ \E e \in Event, tok \in Tokens : Claim(e, tok)
         \/ \E r \in Refs, p \in Parents, sub \in Nat, b \in Nat : SetRecipient(r, p, sub, b)
         \/ \E r \in Refs : Revoke(r)
         \/ \E e \in Event : LeaseExpires(e)
         \/ UNCHANGED coreVars
  PROVE  Ledger!Next
<1>1. \A f \in Event : \/ events'[f].state = events[f].state
                       \/ events[f].state = "pending" /\ events'[f].state = "cancelled"
  BY ClaimKeeps, RecipientKeeps DEF TypeOK, RowKept, coreVars
<1>. QED
  BY <1>1, LedgerCancels

LEMMA LedgerStep ==
  ASSUME TypeOK, CoreInv, OwnInv, [Next]_vars
  PROVE  [Ledger!Next]_(Ledger!ledger)
<1>1. CASE UNCHANGED vars
  BY <1>1 DEF vars, coreVars, accessVars, Ledger!ledger, LedgerStatus
<1>2. CASE FamilyStep /\ UNCHANGED accessVars
  BY <1>2, LedgerFamily DEF accessVars
<1>3. CASE WorkerClaim
  BY <1>3, LedgerCalls DEF WorkerClaim
<1>4. CASE WorkerIdentity \/ WorkerCheck \/ WorkerEligibility
  BY <1>4, LedgerCalls DEF WorkerIdentity, WorkerCheck, WorkerEligibility, dispFrame
<1>5. CASE WorkerSend
  <2>1. CASE UNCHANGED accepted
    BY <1>5, <2>1, LedgerCalls DEF WorkerSend
  <2>2. CASE accepted' = accepted \cup {disp.event}
    <3>1. disp.event \in Event /\ LedgerStatus[disp.event] \in {"pending", "cancelled"}
      BY <1>5, LedgerRow DEF WorkerSend, TypeOK, DispOK, OwnInv, WorkerOwns
    <3>2. LedgerStatus' = LedgerStatus
      BY <1>5 DEF WorkerSend, coreVars, LedgerStatus
    <3>3. Ledger!Accept(disp.event)
      BY <2>2, <3>1, <3>2 DEF Ledger!Accept
    <3>. QED
      BY <3>1, <3>3 DEF Ledger!Next
  <2>. QED
    BY <1>5, <2>1, <2>2 DEF WorkerSend
<1>6. CASE WorkerSettle
  <2>1. /\ disp.event \in Event /\ disp.lease \in Tokens
        /\ disp.outcome \in Outcomes /\ disp.code \in Codes
        /\ disp.outcome = "delivered" => disp.event \in accepted
        /\ UNCHANGED accepted
    BY <1>6, SettleCallType DEF WorkerSettle, TypeOK, OwnInv, DeliveredClaims
  <2>. QED
    BY <1>6, <2>1, LedgerSettles, LedgerCalls DEF WorkerSettle
<1>7. CASE ConsentRequest \/ ConsentStep
  <2>1. /\ consent.ref \in Refs /\ consent.sub \in Nat /\ consent.binding \in Nat
        /\ consent.pc = "record" => consent.parent \in Parents
    BY DEF TypeOK, ConsentOK, ConsentState
  <2>2. /\ UNCHANGED accepted
        /\ \/ UNCHANGED coreVars
           \/ \E r \in Refs, p \in Parents, sub \in Nat, b \in Nat : SetRecipient(r, p, sub, b)
           \/ \E r \in Refs : Revoke(r)
    BY <1>7, <2>1 DEF ConsentRequest, OptIn, OptOut, ConsentStep, PortalOn, FetchBinding,
       RecordRecipient, Compensate, RevokeFirst, PortalOff, consentFrame
  <2>. QED
    BY <2>2, LedgerCalls
<1>8. CASE LateCall
  <2>1. PICK m \in late : LateCall!(m)
    BY <1>8 DEF LateCall
  <2>2. /\ UNCHANGED accepted
        /\ m.call = "settle" /\ m.outcome = "delivered" => m.event \in accepted
    BY <2>1 DEF OwnInv, DeliveredClaims
  <2>. QED
    BY <2>1, <2>2, LateTyped, LedgerSettles, LedgerCalls DEF TypeOK
<1>9. CASE (\E e \in Event : Expiry(e)) \/ (\E r \in Refs : PortalStop(r)) \/ AccessCrash
  BY <1>9, LedgerCalls DEF Expiry, PortalStop, AccessCrash
<1>. QED
  BY <1>1, <1>2, <1>3, <1>4, <1>5, <1>6, <1>7, <1>8, <1>9 DEF Next, Worker

(***************************************************************************)
(* Access, Core and Portal together implement the abstract event ledger.   *)
(***************************************************************************)
THEOREM Implementation == Spec => ImplementsLedger
<1> DEFINE Inv == TypeOK /\ CoreInv /\ OwnInv
<1>1. Init => Inv
  BY InitType, OwnInit
<1>2. Inv /\ [Next]_vars => Inv'
  BY TypeStep, CoreInvStep, OwnStep
<1>3. Init => Ledger!Init
  BY DEF Init, CoreInit, NoRow, Ledger!Init, LedgerStatus
<1>4. Inv /\ [Next]_vars => [Ledger!Next]_(Ledger!ledger)
  BY LedgerStep
<1>. QED
  BY <1>1, <1>2, <1>3, <1>4, PTL DEF Spec, ImplementsLedger, Ledger!Spec


-----------------------------------------------------------------------------
(* One event per completion.                                                *)

LEMMA CancelledFinal ==
  ASSUME NEW S, NEW e \in Event, events[e].state # "pending"
  PROVE  Cancelled(S)[e] = events[e]
BY DEF Cancelled, Pending

LEMMA CallFinal ==
  ASSUME CoreTypeOK, CoreInv, CallStep, NEW f \in Event, events[f].state \in Terminal
  PROVE  events'[f] = events[f]
<1>. USE DEF Terminal
<1>1. ASSUME NEW e \in Event, NEW tok \in Tokens, Claim(e, tok)
      PROVE  events'[f] = events[f]
  BY <1>1 DEF Claim, Claimable, CoreTypeOK
<1>2. ASSUME NEW e \in Event, NEW tok \in Tokens, NEW outcome \in Outcomes, NEW code \in Codes,
             Settle(e, tok, outcome, code)
      PROVE  events'[f] = events[f]
  <2> DEFINE siblings == {g \in Event : EndsGeneration(outcome, code) /\ g # e /\ SameGeneration(e, g)}
             settled == [events[e] EXCEPT
                           !.state = IF outcome = "retry" THEN "pending" ELSE outcome,
                           !.lease = NoLease, !.due = outcome # "retry"]
  <2>1. Cancelled(siblings) \in [Event -> Row]
    BY CancelledType
  <2>2. events' = [Cancelled(siblings) EXCEPT ![e] = settled] /\ events[e].state = "pending"
    BY <1>2 DEF Settle, Holds
  <2>3. f # e
    BY <2>2
  <2> HIDE DEF siblings, settled
  <2>. QED
    BY <2>1, <2>2, <2>3, CancelledFinal
<1>3. ASSUME NEW r \in Refs, NEW p \in Parents, NEW sub \in Nat, NEW b \in Nat,
             SetRecipient(r, p, sub, b)
      PROVE  events'[f] = events[f]
  BY <1>3, CancelledFinal DEF SetRecipient
<1>4. ASSUME NEW r \in Refs, Revoke(r)
      PROVE  events'[f] = events[f]
  BY <1>4, CancelledFinal DEF Revoke
<1>5. ASSUME NEW e \in Event, LeaseExpires(e)
      PROVE  events'[f] = events[f]
  BY <1>5 DEF LeaseExpires, CoreTypeOK, CoreInv, LeasedArePending
<1>. QED
  BY <1>1, <1>2, <1>3, <1>4, <1>5 DEF CallStep

LEMMA FamilyFinal ==
  ASSUME CoreTypeOK, CoreInv, FamilyStep, NEW f \in Event, events[f].state \in Terminal
  PROVE  events'[f] = events[f]
<1>. USE DEF Terminal
<1>1. ASSUME NEW t \in Tasks, CompleteBegin(t)
      PROVE  events'[f] = events[f]
  <2>1. f \notin OwnRows(t)
    BY <1>1 DEF CompleteBegin, OwnRows, CoreInv, RowsFollowTasks
  <2>. QED
    BY <1>1, <2>1 DEF CompleteBegin
<1>2. ASSUME NEW t \in Tasks, CompleteCommit(t) \/ CompleteAbort(t)
      PROVE  events'[f] = events[f]
  BY <1>2 DEF CompleteCommit, CompleteAbort
<1>3. ASSUME NEW e \in Event, BackoffElapses(e)
      PROVE  events'[f] = events[f]
  BY <1>3 DEF BackoffElapses, CoreTypeOK
<1>4. ASSUME \/ \E p \in Parents : DeactivateParent(p)
             \/ PolicyChange \/ Suspension
             \/ \E done \in SUBSET Tasks, parents \in SUBSET Parents : Restore(done, parents)
      PROVE  events'[f] = events[f]
  BY <1>4, CancelledFinal DEF DeactivateParent, PolicyChange, Suspension, Restore
<1>. QED
  BY <1>1, <1>2, <1>3, <1>4 DEF FamilyStep

\* A row is only ever inserted where there was none.
LEMMA InsertsFresh ==
  ASSUME TypeOK, CoreInv, Next, NEW f \in Event, events'[f].state = "uncommitted"
  PROVE  events[f].state \in {"absent", "uncommitted"}
<1>1. CASE FamilyStep
  BY <1>1, FamilyKeeps DEF TypeOK, RowKept, Committed
<1>2. CASE CallStep
  BY <1>2, CallRows DEF TypeOK, RowsEvolve
<1>3. CASE UNCHANGED coreVars
  BY <1>3 DEF coreVars
<1>. QED
  BY <1>1, <1>2, <1>3, StepsAreCalls

LEMMA SubscriptionKept ==
  ASSUME TypeOK, CoreInv, Next, NEW f \in Event, events[f].state = "pending"
  PROVE  events'[f].sub = events[f].sub
<1>1. CASE FamilyStep
  BY <1>1, FamilyKeeps DEF TypeOK, RowKept, Committed
<1>2. CASE CallStep \/ UNCHANGED coreVars
  BY <1>2, CallOrigin DEF TypeOK, Committed
<1>. QED
  BY <1>1, <1>2, StepsAreCalls

(***************************************************************************)
(* Whatever interleaves, one completion of a task yields one row for each  *)
(* recipient, and a settled row is never inserted again, revived or        *)
(* rewritten (CompleteTask, SettleNotification, ImportBackup).             *)
(***************************************************************************)
THEOREM EventsHappenOnce == Spec => NoSecondEvent
<1> DEFINE Inv == TypeOK /\ CoreInv
           Once == \A e \in Event :
             /\ events[e].state \in Terminal => events'[e] = events[e]
             /\ events'[e].state = "uncommitted" => events[e].state \in {"absent", "uncommitted"}
             /\ events[e].state = "pending" => events'[e].sub = events[e].sub
<1>1. Init => Inv
  BY InitType, OwnInit
<1>2. Inv /\ [Next]_vars => Inv'
  BY TypeStep, CoreInvStep
<1>3. Inv /\ [Next]_vars => [Once]_vars
  <2>. SUFFICES ASSUME Inv, Next, NEW e \in Event
                PROVE  /\ events[e].state \in Terminal => events'[e] = events[e]
                       /\ events'[e].state = "uncommitted" =>
                            events[e].state \in {"absent", "uncommitted"}
                       /\ events[e].state = "pending" => events'[e].sub = events[e].sub
    OBVIOUS
  <2>1. ASSUME events[e].state \in Terminal
        PROVE  events'[e] = events[e]
    BY <2>1, StepsAreCalls, FamilyFinal, CallFinal DEF TypeOK, coreVars
  <2>. QED
    BY <2>1, InsertsFresh, SubscriptionKept
<1>. QED
  BY <1>1, <1>2, <1>3, PTL DEF Spec, NoSecondEvent

(***************************************************************************)
(* The strengthened invariant the results above rest on: who holds a row,  *)
(* what an abandoned call may still say, and how generations are numbered. *)
(***************************************************************************)
THEOREM DeliveryInvariant == Spec => []DeliveryInv
<1>1. Init => TypeOK /\ DeliveryInv
  BY InitType, OwnInit, GenInit DEF DeliveryInv
<1>2. TypeOK /\ DeliveryInv /\ [Next]_vars => (TypeOK /\ DeliveryInv)'
  BY TypeStep, CoreInvStep, OwnStep, GenStep DEF DeliveryInv
<1>. QED
  BY <1>1, <1>2, PTL DEF Spec
=============================================================================
