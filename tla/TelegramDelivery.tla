-------------------------- MODULE TelegramDelivery --------------------------
(***************************************************************************)
(* The Access process around the Core outbox: the delivery worker, the     *)
(* consent handler that shares deliveryMu with it, the private RPCs        *)
(* between Access and Core, and Portal as Access uses it.                  *)
(*                                                                         *)
(* Each remote call may be answered, may run with its answer lost, or may  *)
(* not run at all.  The calls to Core that write (settle, record, revoke)  *)
(* may also run after their caller gave up ("late"); calls to Portal never *)
(* do.  The number of such faults and of Access crashes is bounded by      *)
(* MaxFaults, the number of opt-in attempts by MaxConsents.                *)
(***************************************************************************)
EXTENDS NotificationOutbox

CONSTANTS MaxFaults, MaxConsents, NoEvent

ASSUME DeliveryAssumption ==
  /\ MaxFaults \in Nat
  /\ MaxConsents \in Nat
  /\ Refs # {}
  /\ NoEvent \notin Event

VARIABLES
  disp,       \* the worker: program counter, claimed row, lease, settlement
  consent,    \* the consent handler that holds deliveryMu, if any
  late,       \* calls to Core that their caller gave up on
  portal,     \* Portal: the live binding of each recipient, 0 for none
  accepted,   \* Portal: event keys in its durable queue
  gen,        \* how many subscription identifiers have been drawn
  optOut,     \* history: gen at the last acknowledged opt-out of a recipient
  faults      \* faults so far

accessVars == <<disp, consent, late, portal, accepted, gen, optOut, faults>>
vars == <<coreVars, accessVars>>

Codes == {"none", "portal_denied", "recipient_revoked", "authorization_revoked"}
Outcomes == {"retry", "delivered", "cancelled", "failed"}
DispPc == {"idle", "claimed", "check", "eligibility", "send", "settle"}
ConsentPc == {"idle", "portalOn", "bind", "record", "compensate", "revoke", "portalOff"}

Idle == [pc |-> "idle", event |-> NoEvent, lease |-> NoLease,
         outcome |-> "retry", code |-> "none"]
NoConsent == [pc |-> "idle", ref |-> CHOOSE r \in Refs : TRUE, parent |-> NoParent,
              sub |-> 0, binding |-> 0, failed |-> FALSE]

SettleCall(d) == [call |-> "settle", event |-> d.event, lease |-> d.lease,
                  outcome |-> d.outcome, code |-> d.code]
RecordCall(c) == [call |-> "record", ref |-> c.ref, parent |-> c.parent,
                  sub |-> c.sub, binding |-> c.binding]
RevokeCall(c) == [call |-> "revoke", ref |-> c.ref]

Init ==
  /\ CoreInit
  /\ disp = Idle
  /\ consent = NoConsent
  /\ late = {}
  /\ portal = [r \in Refs |-> 0]
  /\ accepted = {}
  /\ gen = 0
  /\ optOut = [r \in Refs |-> 0]
  /\ faults = 0

Fault == faults < MaxFaults /\ faults' = faults + 1
NoFault == UNCHANGED faults

\* Mutant: only consent requests take deliveryMu.
MutexOfConsentsOnly == consent.pc = "idle"

\* deliveryMu: held by the worker from the identity lookup to the end of the
\* settlement, by a consent request for its whole duration.
MutexFree == consent.pc = "idle" /\ disp.pc \in {"idle", "claimed"}

-----------------------------------------------------------------------------
(***************************************************************************)
(* The worker: DispatchTelegramNotifications and dispatchNotification.     *)
(***************************************************************************)
dispFrame == UNCHANGED <<coreVars, consent, late, portal, accepted, gen, optOut>>

\* A lease token is a fresh UUID: nothing refers to it yet.
FreshToken(tok) ==
  /\ \A e \in Event : events[e].lease # tok
  /\ disp.lease # tok
  /\ \A m \in late : m.call = "settle" => m.lease # tok

\* Mutant: the claim does not return the lease token.
WorkerClaimUnleased ==
  /\ disp.pc = "idle"
  /\ \E e \in Event, tok \in Tokens :
       /\ FreshToken(tok)
       /\ Claim(e, tok)
       /\ disp' = [Idle EXCEPT !.pc = "claimed", !.event = e] /\ NoFault
  /\ UNCHANGED <<consent, late, portal, accepted, gen, optOut>>

\* The claim runs outside the mutex; if its answer is lost the row stays leased.
WorkerClaim ==
  /\ disp.pc = "idle"
  /\ \E e \in Event, tok \in Tokens :
       /\ FreshToken(tok)
       /\ Claim(e, tok)
       /\ \/ disp' = [Idle EXCEPT !.pc = "claimed", !.event = e, !.lease = tok] /\ NoFault
          \/ disp' = Idle /\ Fault
  /\ UNCHANGED <<consent, late, portal, accepted, gen, optOut>>

Goto(pc) == disp' = [disp EXCEPT !.pc = pc]
Decide(outcome, code) ==
  disp' = [disp EXCEPT !.pc = "settle", !.outcome = outcome, !.code = code]

\* The identity catalogue only answers for families that are not suspended.
WorkerIdentity ==
  /\ disp.pc = "claimed" /\ consent.pc = "idle"
  /\ \/ suspended /\ Decide("cancelled", "recipient_revoked") /\ NoFault
     \/ ~suspended /\ Goto("check") /\ NoFault
     \/ Decide("retry", "none") /\ Fault
  /\ dispFrame

WorkerCheck ==
  /\ disp.pc = "check"
  /\ \/ ~suspended /\ Allowed(disp.event, disp.lease) /\ Goto("eligibility") /\ NoFault
     \/ ~suspended /\ ~Allowed(disp.event, disp.lease)
        /\ Decide("cancelled", "authorization_revoked") /\ NoFault
     \/ suspended /\ Decide("retry", "none") /\ NoFault
     \/ Decide("retry", "none") /\ Fault
  /\ dispFrame

\* Portal answers 403 "denied" unless the binding is the live one.
BindingLive(e) == portal[RefOf(e)] # 0 /\ portal[RefOf(e)] = events[e].binding

\* Mutant: an unreachable Portal counts as a denial.
WorkerEligibilityStrict ==
  /\ disp.pc = "eligibility"
  /\ \/ BindingLive(disp.event) /\ Goto("send") /\ NoFault
     \/ ~BindingLive(disp.event) /\ Decide("cancelled", "portal_denied") /\ NoFault
     \/ Decide("cancelled", "portal_denied") /\ Fault
  /\ dispFrame

WorkerEligibility ==
  /\ disp.pc = "eligibility"
  /\ \/ BindingLive(disp.event) /\ Goto("send") /\ NoFault
     \/ ~BindingLive(disp.event) /\ Decide("cancelled", "portal_denied") /\ NoFault
     \/ (Decide("retry", "none") \/ Decide("failed", "none")) /\ Fault
  /\ dispFrame

\* Mutant: an answer without a notification id counts as a delivery.
WorkerSendUnchecked ==
  /\ disp.pc = "send"
  /\ \/ /\ BindingLive(disp.event)
        /\ accepted' = accepted \cup {disp.event}
        /\ Decide("delivered", "none") /\ NoFault
     \/ Decide("delivered", "none") /\ Fault /\ UNCHANGED accepted
  /\ UNCHANGED <<coreVars, consent, late, portal, gen, optOut>>

\* Portal stores the event key once and checks the binding again.  A timeout,
\* an unusable answer or a 5xx is retried whether or not Portal stored it.
WorkerSend ==
  /\ disp.pc = "send"
  /\ \/ /\ BindingLive(disp.event)
        /\ accepted' = accepted \cup {disp.event}
        /\ \/ Decide("delivered", "none") /\ NoFault
           \/ Decide("retry", "none") /\ Fault
     \/ /\ ~BindingLive(disp.event)
        /\ Decide("cancelled", "portal_denied") /\ NoFault
        /\ UNCHANGED accepted
     \/ /\ \/ Decide("retry", "none")
           \/ Decide("failed", "none")
        /\ Fault
        /\ UNCHANGED accepted
  /\ UNCHANGED <<coreVars, consent, late, portal, gen, optOut>>

\* Whatever happens to the settle call, the worker moves on: an unsettled row
\* keeps its lease until it expires.
WorkerSettle ==
  /\ disp.pc = "settle"
  /\ disp' = Idle
  /\ \/ Settle(disp.event, disp.lease, disp.outcome, disp.code) /\ NoFault /\ UNCHANGED late
     \/ /\ suspended \/ ~Holds(disp.event, disp.lease)
        /\ UNCHANGED <<coreVars, late>> /\ NoFault
     \/ UNCHANGED <<coreVars, late>> /\ Fault
     \/ late' = late \cup {SettleCall(disp)} /\ UNCHANGED coreVars /\ Fault
  /\ UNCHANGED <<consent, portal, accepted, gen, optOut>>

Worker ==
  \/ WorkerClaim \/ WorkerIdentity \/ WorkerCheck
  \/ WorkerEligibility \/ WorkerSend \/ WorkerSettle

-----------------------------------------------------------------------------
(***************************************************************************)
(* telegramConsent.                                                        *)
(***************************************************************************)
consentFrame == UNCHANGED <<disp, accepted>>
Step(pc) == consent' = [consent EXCEPT !.pc = pc]
Finish == consent' = NoConsent

\* Validation of the session, the parent's principal and the subscription,
\* then a new subscription identifier.
OptIn(r, p) ==
  /\ MutexFree
  /\ gen < MaxConsents
  /\ MayRecord(p)
  /\ gen' = gen + 1
  /\ consent' = [NoConsent EXCEPT !.pc = "portalOn", !.ref = r, !.parent = p, !.sub = gen + 1]
  /\ UNCHANGED <<coreVars, disp, late, portal, accepted, optOut, faults>>

\* Portal creates a new binding when consent goes from off to on and keeps it
\* otherwise.  An error here ends the request without compensation.
PortalOn ==
  /\ consent.pc = "portalOn"
  /\ \/ /\ portal' = [portal EXCEPT ![consent.ref] = IF @ = 0 THEN consent.sub ELSE @]
        /\ \/ Step("bind") /\ NoFault
           \/ Finish /\ Fault
     \/ UNCHANGED portal /\ Finish /\ Fault
  /\ UNCHANGED <<coreVars, late, gen, optOut>> /\ consentFrame

FetchBinding ==
  /\ consent.pc = "bind"
  /\ \/ /\ portal[consent.ref] # 0
        /\ consent' = [consent EXCEPT !.pc = "record", !.binding = portal[consent.ref]]
        /\ NoFault
     \/ portal[consent.ref] = 0 /\ Step("compensate") /\ NoFault
     \/ Step("compensate") /\ Fault
  /\ UNCHANGED <<coreVars, late, portal, gen, optOut>> /\ consentFrame

RecordRecipient ==
  /\ consent.pc = "record"
  /\ \/ /\ SetRecipient(consent.ref, consent.parent, consent.sub, consent.binding)
        /\ \/ Finish /\ NoFault
           \/ Step("compensate") /\ Fault
        /\ UNCHANGED late
     \/ /\ ~MayRecord(consent.parent)
        /\ Step("compensate") /\ NoFault
        /\ UNCHANGED <<coreVars, late>>
     \/ /\ Step("compensate") /\ Fault
        /\ UNCHANGED coreVars
        /\ \/ UNCHANGED late
           \/ late' = late \cup {RecordCall(consent)}
  /\ UNCHANGED <<portal, gen, optOut>> /\ consentFrame

\* The answer to the compensating opt-out is ignored.
Compensate ==
  /\ consent.pc = "compensate"
  /\ \/ portal' = [portal EXCEPT ![consent.ref] = 0] /\ NoFault
     \/ UNCHANGED portal /\ Fault
  /\ Finish
  /\ UNCHANGED <<coreVars, late, gen, optOut>> /\ consentFrame

\* An opt-out revokes in Core first when the session has selected a family.
OptOut(r, selected) ==
  /\ MutexFree
  /\ consent' = [NoConsent EXCEPT !.pc = IF selected THEN "revoke" ELSE "portalOff", !.ref = r]
  /\ UNCHANGED <<coreVars, disp, late, portal, accepted, gen, optOut, faults>>

RevokeFirst ==
  /\ consent.pc = "revoke"
  /\ \/ /\ Revoke(consent.ref)
        /\ UNCHANGED late
        /\ \/ Step("portalOff") /\ NoFault
           \/ consent' = [consent EXCEPT !.pc = "portalOff", !.failed = TRUE] /\ Fault
     \/ /\ suspended /\ NoFault
        /\ consent' = [consent EXCEPT !.pc = "portalOff", !.failed = TRUE]
        /\ UNCHANGED <<coreVars, late>>
     \/ /\ consent' = [consent EXCEPT !.pc = "portalOff", !.failed = TRUE] /\ Fault
        /\ UNCHANGED coreVars
        /\ \/ UNCHANGED late
           \/ late' = late \cup {RevokeCall(consent)}
  /\ UNCHANGED <<portal, gen, optOut>> /\ consentFrame

\* The opt-out is acknowledged only if both calls succeeded.
PortalOff ==
  /\ consent.pc = "portalOff"
  /\ \/ /\ portal' = [portal EXCEPT ![consent.ref] = 0]
        /\ \/ /\ optOut' = IF consent.failed THEN optOut
                           ELSE [optOut EXCEPT ![consent.ref] = gen]
              /\ NoFault
           \/ UNCHANGED optOut /\ Fault
     \/ UNCHANGED <<portal, optOut>> /\ Fault
  /\ Finish
  /\ UNCHANGED <<coreVars, late, gen>> /\ consentFrame

ConsentRequest == \E r \in Refs :
  (\E p \in Parents : OptIn(r, p)) \/ (\E selected \in BOOLEAN : OptOut(r, selected))
ConsentStep ==
  \/ PortalOn \/ FetchBinding \/ RecordRecipient \/ Compensate
  \/ RevokeFirst \/ PortalOff

-----------------------------------------------------------------------------
(***************************************************************************)
(* The environment.                                                        *)
(***************************************************************************)
\* Core executes a call whose caller is gone, or refuses it.
LateCall == \E m \in late :
  /\ late' = late \ {m}
  /\ \/ /\ m.call = "settle"
        /\ \/ Settle(m.event, m.lease, m.outcome, m.code)
           \/ (suspended \/ ~Holds(m.event, m.lease)) /\ UNCHANGED coreVars
     \/ /\ m.call = "record"
        /\ \/ SetRecipient(m.ref, m.parent, m.sub, m.binding)
           \/ ~MayRecord(m.parent) /\ UNCHANGED coreVars
     \/ /\ m.call = "revoke"
        /\ \/ Revoke(m.ref)
           \/ suspended /\ UNCHANGED coreVars
  /\ UNCHANGED <<disp, consent, portal, accepted, gen, optOut, faults>>

\* A lease lasts 60 seconds and a batch, claims included, 30: only a worker
\* that was paused for longer outlives its lease.
Expiry(e) ==
  /\ LeaseExpires(e)
  /\ IF disp.event = e THEN Fault ELSE NoFault
  /\ UNCHANGED <<disp, consent, late, portal, accepted, gen, optOut>>

\* /stop, a blocked bot or an unlinked account ends the binding in Portal.
PortalStop(r) ==
  /\ portal[r] # 0
  /\ portal' = [portal EXCEPT ![r] = 0]
  /\ UNCHANGED <<coreVars, disp, consent, late, accepted, gen, optOut, faults>>

\* Access stops or its batch context ends: worker and request are abandoned.
AccessCrash ==
  /\ disp.pc # "idle" \/ consent.pc # "idle"
  /\ disp' = Idle /\ consent' = NoConsent
  /\ Fault
  /\ UNCHANGED <<coreVars, late, portal, accepted, gen, optOut>>

Next ==
  \/ FamilyStep /\ UNCHANGED accessVars
  \/ Worker
  \/ ConsentRequest \/ ConsentStep
  \/ LateCall
  \/ \E e \in Event : Expiry(e)
  \/ \E r \in Refs : PortalStop(r)
  \/ AccessCrash

\* The worker loop restarts every five seconds; sync.Mutex hands itself to a
\* waiter that has been overtaken, so the worker is not starved by a stream of
\* consent requests; leases and delays are wall clock; every HTTP call of a
\* consent request ends within its timeout.
Fairness ==
  /\ WF_vars(Worker)
  /\ SF_vars(WorkerIdentity)
  /\ WF_vars(ConsentStep)
  /\ \A e \in Event : WF_vars(Expiry(e))
  /\ \A e \in Event : WF_vars(BackoffElapses(e) /\ UNCHANGED accessVars)

Spec == Init /\ [][Next]_vars
FairSpec == Spec /\ Fairness

-----------------------------------------------------------------------------
Settlement == [call : {"settle"}, event : Event, lease : Tokens,
               outcome : Outcomes, code : Codes]
Recording == [call : {"record"}, ref : Refs, parent : Parents, sub : Nat, binding : Nat]
Revocation == [call : {"revoke"}, ref : Refs]

DispState == [pc : DispPc, event : Event \cup {NoEvent}, lease : Tokens \cup {NoLease},
              outcome : Outcomes, code : Codes]
ConsentState == [pc : ConsentPc, ref : Refs, parent : Parents \cup {NoParent},
                 sub : Nat, binding : Nat, failed : BOOLEAN]

DispOK ==
  /\ disp \in DispState
  /\ disp.pc # "idle" => disp.event \in Event /\ disp.lease \in Tokens

ConsentOK ==
  /\ consent \in ConsentState
  /\ consent.pc \in {"portalOn", "bind", "record"} => consent.parent \in Parents

WorldOK ==
  /\ late \in SUBSET (Settlement \cup Recording \cup Revocation)
  /\ portal \in [Refs -> Nat]
  /\ accepted \in SUBSET Event
  /\ gen \in Nat
  /\ optOut \in [Refs -> Nat]
  /\ faults \in Nat

TypeOK == CoreTypeOK /\ DispOK /\ ConsentOK /\ WorldOK

(***************************************************************************)
(* Once a parent's opt-out has been acknowledged, the worker never again   *)
(* asks Portal to enqueue an event recorded under an earlier consent,      *)
(* however claims, retries, restarts and later opt-ins interleave with it. *)
(* (telegramConsent and dispatchNotification under deliveryMu; docs: "a    *)
(* new consent does not restore old events".)                              *)
(***************************************************************************)
NoSendAfterOptOut ==
  disp.pc = "send" => events[disp.event].sub > optOut[RefOf(disp.event)]

(***************************************************************************)
(* The audit trail is truthful: a row says "delivered" only if Portal has  *)
(* its event key in its queue, whatever answers were lost, late or wrong.  *)
(***************************************************************************)
DeliveredIsAccepted ==
  \A e \in Event : events[e].state = "delivered" => e \in accepted

(***************************************************************************)
(* Only a binding that Portal has ended for good is reported as denied, so *)
(* an outage or a stale answer never costs a parent a live consent.        *)
(***************************************************************************)
DeniedIsRetired ==
  /\ disp.pc = "settle" /\ disp.code = "portal_denied" =>
       ~BindingLive(disp.event)
  /\ \A m \in late : m.call = "settle" /\ m.code = "portal_denied" =>
       ~BindingLive(m.event)

(***************************************************************************)
(* A consent whose binding is live in Portal is disabled only by the       *)
(* parent's own opt-out, by a restore or by a suspension of the family.    *)
(***************************************************************************)
ConsentSurvives ==
  [][\A r \in Refs :
       recipients[r].enabled /\ ~recipients'[r].enabled
         /\ portal[r] = recipients[r].binding
       => \/ consent.pc = "revoke" \/ [call |-> "revoke", ref |-> r] \in late
          \/ restores' # restores
          \/ disp.code = "recipient_revoked"
          \/ \E m \in late : m.call = "settle" /\ m.code = "recipient_revoked"]_vars

(***************************************************************************)
(* One completion writes one event per recipient: a row is inserted under  *)
(* a name once, so a second completion of the task, from the web or from   *)
(* MCP, adds nothing, and a settled row never comes back to life.          *)
(***************************************************************************)
NoSecondEvent ==
  [][\A e \in Event :
       /\ events[e].state \in Terminal => events'[e] = events[e]
       /\ events'[e].state = "uncommitted" => events[e].state \in {"absent", "uncommitted"}
       /\ events[e].state = "pending" => events'[e].sub = events[e].sub]_vars

(***************************************************************************)
(* The whole of Access, Core and Portal implements the ledger: a row whose *)
(* transaction is still open is absent for everyone else.                  *)
(***************************************************************************)
LedgerStatus ==
  [e \in Event |-> IF events[e].state = "uncommitted" THEN "absent" ELSE events[e].state]

Ledger == INSTANCE EventLedger WITH Events <- Event, status <- LedgerStatus

(***************************************************************************)
(* Publishing once, settling once, delivered only after acceptance and no  *)
(* offer after a settlement, as the ledger states them.                    *)
(***************************************************************************)
ImplementsLedger == Ledger!Spec

(***************************************************************************)
(* Every event a completion commits is eventually settled, while the       *)
(* family is not suspended: crashes, lost answers and expired leases leave *)
(* it recoverable.                                                         *)
(***************************************************************************)
EventSettles ==
  \A e \in Event : events[e].state = "pending" ~>
                     (events[e].state \in Terminal \/ suspended)

-----------------------------------------------------------------------------
(***************************************************************************)
(* The strengthening that makes the safety properties inductive.           *)
(***************************************************************************)
MutexHeldOnce == consent.pc # "idle" => disp.pc \in {"idle", "claimed"}

\* While the worker handles a row, nobody else has settled it as delivered or
\* failed, and no abandoned call carries the worker's lease.
WorkerOwns ==
  /\ disp.pc = "idle" => disp.lease = NoLease
  /\ disp.pc # "idle" =>
       /\ events[disp.event].state \in {"pending", "cancelled"}
       /\ events[disp.event].lease \in {disp.lease, NoLease}
  /\ \A m \in late : m.call = "settle" =>
       /\ events[m.event].state \notin {"absent", "uncommitted"}
       /\ m.lease # disp.lease

\* "delivered" is only ever said of an accepted event.
DeliveredClaims ==
  /\ DeliveredIsAccepted
  /\ disp.pc = "settle" /\ disp.outcome = "delivered" => disp.event \in accepted
  /\ \A m \in late : m.call = "settle" /\ m.outcome = "delivered" => m.event \in accepted

\* A subscription is drawn after, or together with, the binding it is recorded
\* with, and nothing is numbered beyond the counter.
Numbered(sub, binding) == 0 < binding /\ binding <= sub /\ sub <= gen

Generations ==
  /\ \A e \in Event : events[e].state # "absent" => Numbered(events[e].sub, events[e].binding)
  /\ \A r \in Refs : /\ recipients[r].enabled =>
                          Numbered(recipients[r].sub, recipients[r].binding)
                     /\ recipients[r].binding <= gen
                     /\ portal[r] <= gen
                     /\ optOut[r] <= gen
                     /\ portal[r] = 0 \/ portal[r] > optOut[r]
  /\ \A m \in late : m.call = "record" => Numbered(m.sub, m.binding)
  /\ consent.pc \in {"portalOn", "bind", "record"} => consent.sub = gen
  /\ consent.pc = "record" => 0 < consent.binding /\ consent.binding <= gen

\* Before a request reaches Portal no binding has its number.
FreshAttempt ==
  consent.pc = "portalOn" =>
    /\ \A e \in Event : events[e].state # "absent" => events[e].binding < gen
    /\ \A r \in Refs : /\ recipients[r].enabled => recipients[r].binding < gen
                       /\ portal[r] < gen
                       /\ optOut[r] < gen
    /\ \A m \in late : m.call = "record" => m.binding < gen

\* What the worker sends was not opted out of.
SendLive ==
  disp.pc = "send" => events[disp.event].binding > optOut[RefOf(disp.event)]

OwnInv == MutexHeldOnce /\ WorkerOwns /\ DeliveredClaims
GenInv == Generations /\ FreshAttempt /\ SendLive

\* With TypeOK and DeniedIsRetired an inductive invariant of Spec.
DeliveryInv == CoreInv /\ OwnInv /\ GenInv
=============================================================================
