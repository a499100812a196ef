--------------------------- MODULE AccessSessions ---------------------------
(***************************************************************************)
(* Common sign-in at the Access gateway: the login and its hand-over to    *)
(* the browser, the session that lets a new person create a family, the    *)
(* private Provisioner that creates it, and the registry of sessions and   *)
(* revocations that Access keeps in one file.                              *)
(*                                                                         *)
(* A request reads the registry, asks the catalog, calls Provisioner and   *)
(* Core, and opens a session; the registry's mutex covers one call, so a   *)
(* sign-out, a logout of the identity provider, another tab or a restart   *)
(* falls between any two steps.  Any request may end at any step.          *)
(***************************************************************************)
EXTENDS Naturals, FiniteSets

CONSTANTS
  Subjects, Sids,   \* people and their sessions at the identity provider
  SubOf,            \* whose session it is
  Others,           \* what logouts name besides: other people and sessions
  Browsers, Requests,
  Ids, NoId,        \* random session identifiers
  NoSid,
  MaxActive,        \* size of the registry (10000)
  MaxRevoked,       \* size of its list of revocations (10000)
  MaxFamilies,      \* bound: families in the catalog
  MaxFaults         \* bound: failed writes of the registry's file

Families == 1 .. MaxFamilies
Keys == Sids \cup Subjects \cup Others
Onboarding == 0    \* scope of a session that may only create a family
Unbound == 0

ASSUME AccessAssumption ==
  /\ SubOf \in [Sids -> Subjects] /\ Subjects \cap Sids = {}
  /\ Others \cap (Sids \cup Subjects) = {} /\ Browsers # {}
  /\ NoId \notin Ids /\ NoSid \notin Sids
  /\ {MaxActive, MaxRevoked, MaxFamilies} \subseteq Nat \ {0} /\ MaxFaults \in Nat

VARIABLES
  families,     \* status of the families in the catalog
  identities,   \* whom the catalog binds to which family
  active, revoked,  \* the registry in memory
  disk,         \* the registry's file
  handoff,      \* finished logins that wait for the browser's exchange
  jar,          \* account cookie of a browser
  requests,
  late,         \* people whose registration outlives the request
  faults,
  told          \* revocations of the people answered with 200: recorded, or at capacity

catalog == <<families, identities>>
registry == <<active, revoked, disk>>
vars == <<catalog, registry, handoff, jar, requests, late, faults, told>>

NoSession == [sid |-> NoSid, scope |-> Onboarding]
Session == [sid : Sids, scope : Families \cup {Onboarding}]
Registry == [Ids -> Session \cup {NoSession}]
Request == [pc : {"idle", "lookup", "begin", "register", "recheck", "enter"},
            browser : Browsers, sid : Sids \cup {NoSid}, cookie : Ids \cup {NoId},
            onboarding : BOOLEAN, family : Families \cup {Unbound},
            ended : {"no", "provisioning", "entering"}]
Idle(b) == [pc |-> "idle", browser |-> b, sid |-> NoSid, cookie |-> NoId,
            onboarding |-> FALSE, family |-> Unbound, ended |-> "no"]
SomeBrowser == CHOOSE b \in Browsers : TRUE

\* A catalog with one family that an operator provisioned for somebody else.
Init ==
  /\ families = [f \in Families |-> IF f = 1 THEN "active" ELSE "none"]
  /\ identities = [u \in Subjects |-> Unbound]
  /\ active = [i \in Ids |-> NoSession] /\ revoked = {}
  /\ disk = [active |-> active, revoked |-> revoked]
  /\ handoff = [b \in Browsers |-> NoSid] /\ jar = [b \in Browsers |-> NoId]
  /\ requests = [r \in Requests |-> Idle(SomeBrowser)]
  /\ late = {} /\ faults = 0 /\ told = [recorded |-> {}, full |-> {}]

-----------------------------------------------------------------------------
(* The registry.                                                           *)

Opened == {i \in Ids : active[i] # NoSession}
Full == Cardinality(revoked) >= MaxRevoked
\* A logout token names a session of the provider or, without one, a person.
Matches(s, key) == s # NoSession /\ key \in {s.sid, SubOf[s.sid]}
Without(a, S) == [i \in Ids |-> IF i \in S THEN NoSession ELSE a[i]]

\* An identifier nobody holds: random ones never repeat.
Fresh == {i \in Ids : /\ active[i] = NoSession /\ disk.active[i] = NoSession
                      /\ \A b \in Browsers : jar[b] # i
                      /\ \A r \in Requests : requests[r].cookie # i}

\* Mutant: a list of revocations that is full does not stop new sessions.
AdmitsWhileFull(k) == Cardinality(Opened) < MaxActive /\ {k, SubOf[k]} \cap revoked = {}

Admits(k) == /\ Cardinality(Opened) < MaxActive /\ ~Full
             /\ {k, SubOf[k]} \cap revoked = {}

\* The file is replaced as a whole, or the write fails and it is as before.
Save(a, rv) == disk' = [active |-> a, revoked |-> rv] /\ UNCHANGED faults
SaveFails == faults < MaxFaults /\ faults' = faults + 1 /\ UNCHANGED disk

\* Who is revoked while a request is on its way to a new session.
Ending(r, ends) ==
  IF ~ends \/ ~requests[r].onboarding \/ requests[r].pc = "idle" THEN requests[r].ended
  ELSE IF requests[r].pc \in {"register", "recheck"} THEN "provisioning"
  ELSE IF requests[r].ended = "no" THEN "entering" ELSE requests[r].ended

-----------------------------------------------------------------------------
(* Sign-in.                                                                *)

\* Login.Complete of a good answer of the provider; Access keeps the subject and
\* the browser a code for it.
Callback(b, k) ==
  /\ handoff' = [handoff EXCEPT ![b] = k]
  /\ UNCHANGED <<catalog, registry, jar, requests, late, faults, told>>

\* The hand-over lives for one minute in the memory of Access.
HandoffExpires(b) ==
  /\ handoff[b] # NoSid /\ handoff' = [handoff EXCEPT ![b] = NoSid]
  /\ UNCHANGED <<catalog, registry, jar, requests, late, faults, told>>

Begins(r, b, k, onboarding) ==
  /\ requests[r].pc = "idle"
  /\ requests' = [requests EXCEPT ![r] = [Idle(b) EXCEPT
       !.pc = "lookup", !.sid = k, !.cookie = jar[b], !.onboarding = onboarding]]

\* The exchange takes the hand-over once.
Exchange(r, b) ==
  /\ handoff[b] # NoSid /\ Begins(r, b, handoff[b], FALSE)
  /\ handoff' = [handoff EXCEPT ![b] = NoSid]
  /\ UNCHANGED <<catalog, registry, jar, late, faults, told>>

\* A request with an onboarding session: restore, or the form of a new family.
Onboard(r, b) ==
  /\ jar[b] \in Opened /\ active[jar[b]].scope = Onboarding
  /\ Begins(r, b, active[jar[b]].sid, TRUE)
  /\ UNCHANGED <<catalog, registry, handoff, jar, late, faults, told>>

\* Identity finds active families only, PortalFamily finds suspended ones too.
Identity(u) == IF identities[u] # Unbound /\ families[identities[u]] = "active"
               THEN identities[u] ELSE Unbound

\* Mutant: an error of the catalog is taken for a family.
LookupAnyway(r) ==
  /\ requests[r].pc = "lookup"
  /\ requests' = [requests EXCEPT ![r].pc = "enter",
                                 ![r].family = Identity(SubOf[requests[r].sid])]
  /\ UNCHANGED <<catalog, registry, handoff, jar, late, faults, told>>

Lookup(r) ==
  LET u == SubOf[requests[r].sid] IN
  /\ requests[r].pc = "lookup"
  /\ \/ /\ Identity(u) # Unbound
        /\ requests' = [requests EXCEPT ![r].pc = "enter", ![r].family = Identity(u)]
     \/ /\ identities[u] = Unbound
        /\ requests' = [requests EXCEPT ![r].pc =
             IF requests[r].onboarding THEN "register" ELSE "begin"]
  /\ UNCHANGED <<catalog, registry, handoff, jar, late, faults, told>>

\* Refused, failed, given up: a registration may go on without its request.
End(r) ==
  /\ requests[r].pc # "idle"
  /\ late' \in {late} \cup
       IF requests[r].pc = "register" THEN {late \cup {SubOf[requests[r].sid]}} ELSE {}
  /\ requests' = [requests EXCEPT ![r] = Idle(SomeBrowser)]
  /\ UNCHANGED <<catalog, registry, handoff, jar, faults, told>>

-----------------------------------------------------------------------------
(* Provisioner: one transaction under the catalog's advisory lock.         *)

Exists == {f \in Families : families[f] # "none"}
NextFamily == Cardinality(Exists) + 1

\* Mutant: only a family that is active counts as registered.
NotEntered(u) == Identity(u) = Unbound

\* The identity is looked up again under the lock.
Unregistered(u) == identities[u] = Unbound

Register(u) ==
  /\ Unregistered(u) /\ NextFamily \in Families
  /\ families' = [families EXCEPT ![NextFamily] = "active"]
  /\ identities' = [identities EXCEPT ![u] = NextFamily]

Provision(r) ==
  LET u == SubOf[requests[r].sid] IN
  /\ requests[r].pc = "register"
  /\ \/ Identity(u) # Unbound /\ UNCHANGED catalog
     \/ Register(u)
  /\ requests' = [requests EXCEPT ![r].pc = "recheck", ![r].family = identities'[u]]
  /\ UNCHANGED <<registry, handoff, jar, late, faults, told>>

\* A registration nobody waits for: it commits, or is rolled back.
LateProvision(u) ==
  /\ u \in late /\ late' = late \ {u}
  /\ UNCHANGED catalog \/ Register(u)
  /\ UNCHANGED <<registry, handoff, jar, requests, faults, told>>

\* Mutant: an operator's binding replaces the one there is.
MayRebind(u, f) == identities[u] # f

\* A binding is never replaced; to repeat it changes nothing.
MayBind(u, f) == identities[u] = Unbound

BindIdentity(u, f) ==
  /\ f \in Exists /\ MayBind(u, f)
  /\ identities' = [identities EXCEPT ![u] = f]
  /\ UNCHANGED <<families, registry, handoff, jar, requests, late, faults, told>>

\* Bound: operators suspend only families of the people that sign in.
Watched(f) == \E u \in Subjects : identities[u] = f

Suspend(f, status) ==
  /\ f \in Exists /\ Watched(f) /\ families[f] # status
  /\ families' = [families EXCEPT ![f] = status]
  /\ UNCHANGED <<identities, registry, handoff, jar, requests, late, faults, told>>

-----------------------------------------------------------------------------
(* A new session.                                                          *)

\* Mutant: the session that began the registration is not looked up again.
RecheckBinding(r) == /\ requests[r].pc = "recheck"
                     /\ Identity(SubOf[requests[r].sid]) = requests[r].family

\* After the registration: the session still stands, the binding is the family.
Rechecks(r) == /\ requests[r].pc = "recheck" /\ requests[r].cookie \in Opened
               /\ Identity(SubOf[requests[r].sid]) = requests[r].family

Recheck(r) ==
  /\ Rechecks(r)
  /\ requests' = [requests EXCEPT ![r].pc = "enter"]
  /\ UNCHANGED <<catalog, registry, handoff, jar, late, faults, told>>

\* AddFor writes the registry with the new session; Delete takes out the old one
\* and writes it again, or panics, and the browser does not learn of the session.
OpenSession(r, scope) ==
  LET old == requests[r].cookie
      sid == requests[r].sid IN
  /\ Admits(sid)
  /\ \E id \in Fresh :
       LET added == [active EXCEPT ![id] = [sid |-> sid, scope |-> scope]] IN
       /\ active' = Without(added, {old})
       /\ \/ /\ Save(active', revoked)
             /\ jar' = [jar EXCEPT ![requests[r].browser] = id] \/ UNCHANGED jar
          \/ /\ old # NoId /\ faults < MaxFaults /\ faults' = faults + 1
             /\ disk' = [active |-> added, revoked |-> revoked] /\ UNCHANGED jar
  /\ requests' = [requests EXCEPT ![r] = Idle(SomeBrowser)]
  /\ UNCHANGED <<catalog, revoked, handoff, late, told>>

\* beginOnboarding: thirty minutes for the form of a new family.
BeginOnboarding(r) == requests[r].pc = "begin" /\ OpenSession(r, Onboarding)

\* Core opens a session of the owner only for an active family.
EnterFamily(r) == /\ requests[r].pc = "enter" /\ families[requests[r].family] = "active"
                  /\ OpenSession(r, requests[r].family)

\* The two ways into a family check different things. The gateway lets a profile of
\* Core pass by the account session's scope and asks the catalog for the status only;
Serves(i, f) == /\ active[i] # NoSession /\ active[i].scope = f
                /\ families[f] = "active"

\* the list of profiles and the PIN ask the catalog who the person is.
OpensProfile(i, f) == /\ active[i] # NoSession /\ active[i].scope = f
                      /\ Identity(SubOf[active[i].sid]) = f

-----------------------------------------------------------------------------
(* Sign-out and logout of the provider.                                    *)

\* Sign-out of the browser: the registry forgets its session, or panics.
Logout(b) ==
  /\ jar[b] # NoId
  /\ active' = Without(active, {jar[b]})
  /\ requests' = [r \in Requests |->
       [requests[r] EXCEPT !.ended = Ending(r, requests[r].cookie = jar[b])]]
  /\ \/ Save(active', revoked) /\ jar' = [jar EXCEPT ![b] = NoId]
     \/ SaveFails /\ UNCHANGED jar
  /\ UNCHANGED <<catalog, revoked, handoff, late, told>>

\* Mutant: at capacity the revocation is dropped and nothing else is done.
LosesNothing(key) == {i \in Ids : Matches(active[i], key) /\ ~Full}

\* At capacity every session is invalidated.
Loses(key) == {i \in Ids : Full \/ Matches(active[i], key)}

\* A token of the back channel: revoked in memory, then written; 200 only after that.
Revoke(key) ==
  /\ active' = Without(active, Loses(key))
  /\ revoked' = IF Full THEN revoked ELSE revoked \cup {key}
  /\ requests' = [r \in Requests |->
       [requests[r] EXCEPT !.ended = Ending(r, key \in {requests[r].sid} \cup
          IF requests[r].sid = NoSid THEN {} ELSE {SubOf[requests[r].sid]})]]
  /\ \/ /\ Save(active', revoked')
        /\ told' = IF Full THEN [told EXCEPT !.full = @ \cup ({key} \ Others)]
                           ELSE [told EXCEPT !.recorded = @ \cup ({key} \ Others)]
     \/ SaveFails /\ UNCHANGED told
  /\ UNCHANGED <<catalog, handoff, jar, late>>

-----------------------------------------------------------------------------
(* Time and restarts.                                                      *)

Expire(i) ==
  /\ active[i] # NoSession \/ disk.active[i] # NoSession
  /\ active' = Without(active, {i})
  /\ disk' = [disk EXCEPT !.active = Without(@, {i})]
  /\ UNCHANGED <<catalog, revoked, handoff, jar, requests, late, faults, told>>

\* A revocation lapses after sixty days, when every older session has expired.
Lapse(key) ==
  /\ key \in revoked /\ \A i \in Ids : ~Matches(disk.active[i], key)
  /\ revoked' = revoked \ {key} /\ disk' = [disk EXCEPT !.revoked = @ \ {key}]
  /\ told' = [recorded |-> told.recorded \ {key}, full |-> {}]
  /\ UNCHANGED <<catalog, active, handoff, jar, requests, late, faults>>

\* Access starts again from its file; logins, hand-overs and requests are gone.
Restart ==
  /\ active' = disk.active /\ revoked' = disk.revoked
  /\ handoff' = [b \in Browsers |-> NoSid]
  /\ late' \in {late, late \cup {SubOf[requests[r].sid] :
                                  r \in {q \in Requests : requests[q].pc = "register"}}}
  /\ requests' = [r \in Requests |-> Idle(SomeBrowser)]
  /\ UNCHANGED <<catalog, disk, jar, faults, told>>

Next ==
  \/ \E b \in Browsers :
       \/ HandoffExpires(b) \/ Logout(b)
       \/ \E k \in Sids : Callback(b, k)
       \/ \E r \in Requests : Exchange(r, b) \/ Onboard(r, b)
  \/ \E r \in Requests :
       \/ Lookup(r) \/ End(r) \/ Provision(r) \/ Recheck(r)
       \/ BeginOnboarding(r) \/ EnterFamily(r)
  \/ \E u \in Subjects : LateProvision(u) \/ \E f \in Families : BindIdentity(u, f)
  \/ \E f \in Families : \E status \in {"active", "suspended"} : Suspend(f, status)
  \/ \E key \in Keys : Revoke(key) \/ Lapse(key)
  \/ \E i \in Ids : Expire(i)
  \/ Restart

Spec == Init /\ [][Next]_vars

-----------------------------------------------------------------------------
(* Properties.                                                             *)

\* Every variable holds a value of its kind; whoever enters a family knows which.
TypeOK ==
  /\ families \in [Families -> {"none", "active", "suspended"}]
  /\ identities \in [Subjects -> Families \cup {Unbound}]
  /\ active \in Registry /\ revoked \subseteq Keys
  /\ disk \in [active : Registry, revoked : SUBSET Keys]
  /\ handoff \in [Browsers -> Sids \cup {NoSid}]
  /\ jar \in [Browsers -> Ids \cup {NoId}]
  /\ requests \in [Requests -> Request] /\ late \subseteq Subjects
  /\ \A r \in Requests : requests[r].pc \in {"recheck", "enter"} => requests[r].family # Unbound
  /\ faults \in 0 .. MaxFaults
  /\ told \in [recorded : SUBSET (Keys \ Others), full : SUBSET (Keys \ Others)]

\* Through two tabs, lost answers, retries, registrations that commit after their
\* request has gone, suspension and the operator's binding, no person gets a second
\* family: every family but the operator's belongs to somebody.
\* (platform.go: "Retry never changes the name, PIN or entitlement")
OneFamilyPerIdentity ==
  \A f \in Exists \ {1} : \E u \in Subjects : identities[u] = f

\* The gateway, which does not ask whose account it is, serves a family only to a
\* person whom the catalog binds to that family: no binding is replaced, and no session
\* comes back from the file that the catalog does not bear out.
ScopeIsBinding == \A i \in Ids : \A f \in Families : Serves(i, f) => OpensProfile(i, f)

\* A logout of the provider that was answered with 200 leaves no session of that
\* sign-in, in memory or in the file, and none is opened later, also through a
\* hand-over or a request that was under way, a failed write or a restart; one that
\* found the list full, for as long as it is full.
RevokedStaysOut ==
  \A key \in told.recorded \cup IF Full THEN told.full ELSE {} : \A i \in Ids :
     ~Matches(active[i], key) /\ ~Matches(disk.active[i], key)

\* Request r opened a session in this step.
Opens(r) == /\ requests[r].pc \in {"begin", "enter"} /\ requests'[r].pc = "idle"
            /\ \E i \in Fresh : active'[i] # NoSession

\* A sign-out or a revocation while a family is being created lets the request that
\* creates it open no session.
\* (onboarding.go: "must not establish a new session")
LogoutDuringProvisioning ==
  [][\A r \in Requests : Opens(r) => requests[r].ended # "provisioning"]_vars

\* A sign-out or a revocation while a request with an onboarding session is under way,
\* at any step, lets it open no session.
LogoutIsFinal ==
  [][\A r \in Requests : Opens(r) => requests[r].ended = "no"]_vars
=============================================================================
