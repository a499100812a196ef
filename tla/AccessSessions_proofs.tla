------------------------- MODULE AccessSessions_proofs -------------------------
(***************************************************************************)
(* For any number of people, sign-ins, browsers, requests, families and    *)
(* failed writes, and for registries of any size: one family for a person, *)
(* sessions that open no family but the person's, and no session after a   *)
(* logout that was acknowledged.                                           *)
(***************************************************************************)
EXTENDS AccessSessions, TLAPS

\* A request that is under way has a sign-in; what it will enter is the family of its
\* person; its onboarding session is of its sign-in, while it stands; and if that was
\* ended during the registration, it is gone and the request cannot get past the recheck.
Stands(q) ==
  /\ q.pc # "idle" =>
       /\ q.sid \in Sids
       /\ q.pc \in {"recheck", "enter"} => identities[SubOf[q.sid]] = q.family
       /\ q.onboarding /\ q.cookie \in Opened => active[q.cookie].sid = q.sid
  /\ q.ended = "provisioning" =>
       q.onboarding /\ q.pc \in {"register", "recheck"} /\ q.cookie \notin Opened
RequestsStand == \A r \in Requests : Stands(requests[r])

\* Sessions of a family, in memory and in the file, are of people bound to it.
Bound(a) == \A i \in Ids : a[i].scope # Onboarding => identities[SubOf[a[i].sid]] = a[i].scope
ScopesStand == Bound(active) /\ Bound(disk.active)

\* Logouts that were acknowledged are in the list and in the file, and match nothing there;
\* since one found the list full, both have no session and the same list.
NoMatch(a, keys) == \A key \in keys : \A i \in Ids : ~Matches(a[i], key)
NoneIn(a) == \A i \in Ids : a[i] = NoSession
RevocationsStand ==
  /\ told.recorded \subseteq revoked /\ told.recorded \subseteq disk.revoked
  /\ NoMatch(active, told.recorded) /\ NoMatch(disk.active, told.recorded)
  /\ told.full # {} => Full /\ disk.revoked = revoked /\ NoneIn(active) /\ NoneIn(disk.active)

Inv == TypeOK /\ RequestsStand /\ ScopesStand /\ RevocationsStand /\ OneFamilyPerIdentity

-----------------------------------------------------------------------------
(* Types.                                                                  *)

LEMMA Distinct ==
  /\ NoSid \notin Sids /\ NoId \notin Ids /\ SubOf \in [Sids -> Subjects]
  /\ Unbound \notin Families /\ Onboarding \notin Families
  /\ MaxFaults \in Nat
BY AccessAssumption DEF Unbound, Onboarding, Families

LEMMA IdleIsRequest ==
  /\ SomeBrowser \in Browsers
  /\ \A b \in Browsers : Idle(b) \in Request
BY AccessAssumption DEF Idle, Request, SomeBrowser

LEMMA WithoutIsRegistry ==
  ASSUME NEW a \in Registry, NEW S
  PROVE  Without(a, S) \in Registry
BY DEF Without, Registry

LEMMA EndingIsEnded ==
  ASSUME NEW r \in Requests, requests[r] \in Request, NEW ends
  PROVE  Ending(r, ends) \in {"no", "provisioning", "entering"}
BY DEF Ending, Request

LEMMA InitTypeOK == Init => TypeOK
<1> SUFFICES ASSUME Init PROVE TypeOK
  OBVIOUS
<1> USE DEF Init
<1>1. families \in [Families -> {"none", "active", "suspended"}]
  OBVIOUS
<1>2. active \in Registry /\ disk \in [active : Registry, revoked : SUBSET Keys]
  BY DEF Registry
<1>3. requests \in [Requests -> Request]
  BY IdleIsRequest
<1>4. \A r \in Requests : requests[r].pc = "idle"
  BY DEF Idle
<1> QED
  BY <1>1, <1>2, <1>3, <1>4, AccessAssumption DEF TypeOK

\* Logins that wait for their exchange.
LEMMA HandoffTypeOK ==
  ASSUME TypeOK, NEW b \in Browsers, HandoffExpires(b) \/ \E k \in Sids : Callback(b, k)
  PROVE  TypeOK'
<1> USE Distinct DEF TypeOK
<1>1. CASE \E k \in Sids : Callback(b, k)
  BY <1>1 DEF Callback, catalog, registry
<1>2. CASE HandoffExpires(b)
  BY <1>2 DEF HandoffExpires, catalog, registry
<1> QED BY <1>1, <1>2

\* A step that only moves a request.
LEMMA MovesTypeOK ==
  ASSUME TypeOK, RequestsStand, NEW r \in Requests,
         \/ \E b \in Browsers : Exchange(r, b) \/ Onboard(r, b)
         \/ Lookup(r) \/ End(r) \/ Recheck(r)
  PROVE  TypeOK'
<1> USE Distinct, IdleIsRequest DEF TypeOK
<1>3. ASSUME NEW b \in Browsers, Exchange(r, b) PROVE TypeOK'
  <2>1. requests' \in [Requests -> Request]
    BY <1>3 DEF Exchange, Begins, Idle, Request
  <2>2. \A q \in Requests : requests'[q].pc \in {"recheck", "enter"} => requests'[q].family # Unbound
    BY <1>3 DEF Exchange, Begins, Idle, Request
  <2> QED BY <1>3, <2>1, <2>2 DEF Exchange, catalog, registry
<1>4. ASSUME NEW b \in Browsers, Onboard(r, b) PROVE TypeOK'
  <2>1. active[jar[b]].sid \in Sids
    BY <1>4 DEF Onboard, Opened, Registry, Session
  <2>2. requests' \in [Requests -> Request]
    BY <1>4, <2>1 DEF Onboard, Begins, Idle, Request
  <2>3. \A q \in Requests : requests'[q].pc \in {"recheck", "enter"} => requests'[q].family # Unbound
    BY <1>4 DEF Onboard, Begins, Idle, Request
  <2> QED BY <1>4, <2>2, <2>3 DEF Onboard, catalog, registry
<1>5. CASE Lookup(r)
  <2>1. requests[r].sid \in Sids /\ SubOf[requests[r].sid] \in Subjects
    BY <1>5 DEF Lookup, RequestsStand, Stands
  <2>2. Identity(SubOf[requests[r].sid]) \in Families \cup {Unbound}
    BY <2>1 DEF Identity
  <2>3. requests' \in [Requests -> Request]
    BY <1>5, <2>2 DEF Lookup, Request
  <2>4. \A q \in Requests : requests'[q].pc \in {"recheck", "enter"} => requests'[q].family # Unbound
    BY <1>5 DEF Lookup, Request
  <2> QED BY <1>5, <2>3, <2>4 DEF Lookup, catalog, registry
<1>6. CASE End(r)
  <2>1. requests[r].sid \in Sids /\ SubOf[requests[r].sid] \in Subjects
    BY <1>6 DEF End, RequestsStand, Stands
  <2>2. late' \subseteq Subjects
    BY <1>6, <2>1 DEF End
  <2>3. /\ requests' \in [Requests -> Request]
        /\ \A q \in Requests : requests'[q].pc \in {"recheck", "enter"} => requests'[q].family # Unbound
    BY <1>6 DEF End, Idle, Request
  <2> QED BY <1>6, <2>2, <2>3 DEF End, catalog, registry
<1>7. CASE Recheck(r)
  <2>1. requests[r].family # Unbound
    BY <1>7 DEF Recheck, Rechecks
  <2>2. /\ requests' \in [Requests -> Request]
        /\ \A q \in Requests : requests'[q].pc \in {"recheck", "enter"} => requests'[q].family # Unbound
    BY <1>7, <2>1 DEF Recheck, Request
  <2> QED BY <1>7, <2>2 DEF Recheck, catalog, registry
<1> QED BY <1>3, <1>4, <1>5, <1>6, <1>7

\* Registration and the operator's commands.
LEMMA CatalogTypeOK ==
  ASSUME TypeOK, RequestsStand,
         \/ \E r \in Requests : Provision(r)
         \/ \E u \in Subjects : LateProvision(u) \/ \E f \in Families : BindIdentity(u, f)
         \/ \E f \in Families : \E status \in {"active", "suspended"} : Suspend(f, status)
  PROVE  TypeOK'
<1> USE Distinct DEF TypeOK
<1>1. ASSUME NEW v \in Subjects, Register(v)
      PROVE  /\ families' \in [Families -> {"none", "active", "suspended"}]
             /\ identities' \in [Subjects -> Families \cup {Unbound}] /\ identities'[v] # Unbound
  BY <1>1 DEF Register
<1>2. ASSUME NEW r \in Requests, Provision(r) PROVE TypeOK'
  <2>1. requests[r].sid \in Sids /\ SubOf[requests[r].sid] \in Subjects
    BY <1>2 DEF Provision, RequestsStand, Stands
  <2>2. /\ families' \in [Families -> {"none", "active", "suspended"}]
        /\ identities' \in [Subjects -> Families \cup {Unbound}]
        /\ identities'[SubOf[requests[r].sid]] # Unbound
    <3> DEFINE u == SubOf[requests[r].sid]
    <3>1. Register(u) \/ (Identity(u) # Unbound /\ UNCHANGED catalog)
      BY <1>2 DEF Provision
    <3>2. CASE Register(u)
      BY <2>1, <3>2, <1>1
    <3>3. CASE Identity(u) # Unbound /\ UNCHANGED catalog
      <4>1. identities[u] # Unbound /\ families' = families /\ identities' = identities
        BY <3>3 DEF Identity, catalog
      <4> QED BY <2>1, <4>1
    <3> QED BY <3>1, <3>2, <3>3
  <2>3. /\ requests' \in [Requests -> Request]
        /\ \A q \in Requests : requests'[q].pc \in {"recheck", "enter"} => requests'[q].family # Unbound
    <3>1. PICK f \in Families \ {Unbound} :
            requests' = [requests EXCEPT ![r].pc = "recheck", ![r].family = f]
      BY <1>2, <2>1, <2>2 DEF Provision
    <3>2. ASSUME NEW q \in Request
          PROVE  [q EXCEPT !.pc = "recheck", !.family = f] \in Request
      BY DEF Request
    <3>3. requests[r] \in Request
      OBVIOUS
    <3>4. [requests[r] EXCEPT !.pc = "recheck", !.family = f] \in Request
      BY <3>2, <3>3, Zenon
    <3> QED BY <3>1, <3>4
  <2> QED BY <1>2, <2>2, <2>3 DEF Provision, registry
<1>3. ASSUME NEW u \in Subjects, LateProvision(u) PROVE TypeOK'
  BY <1>1, <1>3 DEF LateProvision, catalog, registry
<1>4. ASSUME NEW u \in Subjects, NEW f \in Families, BindIdentity(u, f) PROVE TypeOK'
  BY <1>4 DEF BindIdentity, registry
<1>5. ASSUME NEW f \in Families, NEW status \in {"active", "suspended"}, Suspend(f, status) PROVE TypeOK'
  BY <1>5 DEF Suspend, registry
<1> QED BY <1>2, <1>3, <1>4, <1>5

\* A new session replaces the browser's old one.
LEMMA OpenSessionEffect ==
  ASSUME TypeOK, RequestsStand, NEW r \in Requests, requests[r].pc # "idle",
         NEW scope \in Families \cup {Onboarding}, OpenSession(r, scope)
  PROVE  \E id \in Fresh :
           LET added == [active EXCEPT ![id] = [sid |-> requests[r].sid, scope |-> scope]] IN
           /\ added \in Registry /\ active' = Without(added, {requests[r].cookie})
           /\ disk' \in {[active |-> added, revoked |-> revoked], [active |-> active', revoked |-> revoked]}
           /\ jar' \in {jar, [jar EXCEPT ![requests[r].browser] = id]}
           /\ faults' \in 0 .. MaxFaults
<1>1. PICK id \in Fresh :
         LET added == [active EXCEPT ![id] = [sid |-> requests[r].sid, scope |-> scope]] IN
         /\ active' = Without(added, {requests[r].cookie})
         /\ \/ /\ Save(active', revoked)
               /\ jar' = [jar EXCEPT ![requests[r].browser] = id] \/ UNCHANGED jar
            \/ /\ requests[r].cookie # NoId /\ faults < MaxFaults /\ faults' = faults + 1
               /\ disk' = [active |-> added, revoked |-> revoked] /\ UNCHANGED jar
  BY DEF OpenSession
<1> DEFINE added == [active EXCEPT ![id] = [sid |-> requests[r].sid, scope |-> scope]]
<1>2. added \in Registry
  BY DEF TypeOK, RequestsStand, Stands, Registry, Session, Fresh
<1>3. faults' \in 0 .. MaxFaults
  BY <1>1, Distinct DEF TypeOK, Save
<1> QED BY <1>1, <1>2, <1>3 DEF Save

LEMMA OpenSessionTypeOK ==
  ASSUME TypeOK, RequestsStand, NEW r \in Requests, BeginOnboarding(r) \/ EnterFamily(r)
  PROVE  TypeOK'
<1>1. PICK scope \in Families \cup {Onboarding} : OpenSession(r, scope)
  BY DEF BeginOnboarding, EnterFamily, TypeOK, Request
<1>2. requests[r].pc # "idle"
  BY DEF BeginOnboarding, EnterFamily
<1>3. PICK id \in Fresh :
         LET added == [active EXCEPT ![id] = [sid |-> requests[r].sid, scope |-> scope]] IN
         /\ added \in Registry /\ active' = Without(added, {requests[r].cookie})
         /\ disk' \in {[active |-> added, revoked |-> revoked], [active |-> active', revoked |-> revoked]}
         /\ jar' \in {jar, [jar EXCEPT ![requests[r].browser] = id]}
         /\ faults' \in 0 .. MaxFaults
  BY <1>1, <1>2, OpenSessionEffect
<1>4. active' \in Registry
  BY <1>3, WithoutIsRegistry
<1>5. disk' \in [active : Registry, revoked : SUBSET Keys]
  BY <1>3, <1>4 DEF TypeOK
<1>6. jar' \in [Browsers -> Ids \cup {NoId}]
  BY <1>3 DEF TypeOK, Fresh
<1>7. /\ requests' \in [Requests -> Request]
      /\ \A q \in Requests : requests'[q].pc \in {"recheck", "enter"} => requests'[q].family # Unbound
  BY <1>1, IdleIsRequest DEF TypeOK, OpenSession, Idle
<1> QED BY <1>1, <1>3, <1>4, <1>5, <1>6, <1>7 DEF TypeOK, OpenSession, catalog

\* What a sign-out or a logout of the provider does to requests.
Marked(r, end) == [requests[r] EXCEPT !.ended = Ending(r, end)]
Marks(ends) == requests' = [r \in Requests |-> Marked(r, ends[r])]

LEMMA MarkedKeeps ==
  ASSUME NEW r \in Requests, requests[r] \in Request, NEW end
  PROVE  LET m == Marked(r, end)
             q == requests[r] IN
         /\ m \in Request /\ m.ended = Ending(r, end) /\ m.pc = q.pc /\ m.sid = q.sid
         /\ m.cookie = q.cookie /\ m.onboarding = q.onboarding /\ m.family = q.family
<1>1. Ending(r, end) \in {"no", "provisioning", "entering"}
  BY EndingIsEnded
<1>2. PICK q \in Request : q = requests[r]
  OBVIOUS
<1>3. PICK e \in {"no", "provisioning", "entering"} : e = Ending(r, end)
  BY <1>1
<1>4. Marked(r, end) = [q EXCEPT !.ended = e]
  BY <1>2, <1>3, Zenon DEF Marked
<1>5. LET m == [q EXCEPT !.ended = e] IN
     /\ m \in Request /\ m.ended = e /\ m.pc = q.pc /\ m.sid = q.sid /\ m.cookie = q.cookie
     /\ m.onboarding = q.onboarding /\ m.family = q.family
  BY DEF Request
<1> QED BY <1>2, <1>3, <1>4, <1>5, Zenon

LEMMA MarksTypeOK ==
  ASSUME TypeOK, NEW ends, Marks(ends)
  PROVE  /\ requests' \in [Requests -> Request]
         /\ \A q \in Requests : requests'[q].pc \in {"recheck", "enter"} => requests'[q].family # Unbound
BY MarkedKeeps DEF TypeOK, Marks

LEMMA LogoutMarks ==
  ASSUME NEW b \in Browsers, Logout(b)
  PROVE  Marks([r \in Requests |-> requests[r].cookie = jar[b]])
BY DEF Logout, Marks, Marked

Names(r, key) == key \in {requests[r].sid} \cup
                   IF requests[r].sid = NoSid THEN {} ELSE {SubOf[requests[r].sid]}

LEMMA RevokeMarks ==
  ASSUME NEW key \in Keys, Revoke(key)
  PROVE  Marks([r \in Requests |-> Names(r, key)])
BY DEF Revoke, Marks, Marked, Names

LEMMA SavedTypeOK ==
  ASSUME TypeOK, NEW a \in Registry, NEW rv \in SUBSET Keys, Save(a, rv) \/ SaveFails
  PROVE  disk' \in [active : Registry, revoked : SUBSET Keys] /\ faults' \in 0 .. MaxFaults
BY Distinct DEF TypeOK, Save, SaveFails

LEMMA LogoutTypeOK ==
  ASSUME TypeOK, NEW b \in Browsers, Logout(b)
  PROVE  TypeOK'
<1>1. active' \in Registry
  BY WithoutIsRegistry DEF Logout, TypeOK
<1>2. disk' \in [active : Registry, revoked : SUBSET Keys] /\ faults' \in 0 .. MaxFaults
  BY <1>1, SavedTypeOK DEF Logout, TypeOK
<1>3. jar' \in [Browsers -> Ids \cup {NoId}]
  BY DEF Logout, TypeOK
<1>4. /\ requests' \in [Requests -> Request]
      /\ \A q \in Requests : requests'[q].pc \in {"recheck", "enter"} => requests'[q].family # Unbound
  BY LogoutMarks, MarksTypeOK
<1> QED BY <1>1, <1>2, <1>3, <1>4 DEF TypeOK, Logout, catalog

LEMMA RevokeTypeOK ==
  ASSUME TypeOK, NEW key \in Keys, Revoke(key)
  PROVE  TypeOK'
<1>1. active' \in Registry /\ revoked' \subseteq Keys
  BY WithoutIsRegistry DEF Revoke, TypeOK
<1>2. disk' \in [active : Registry, revoked : SUBSET Keys] /\ faults' \in 0 .. MaxFaults
  BY <1>1, SavedTypeOK DEF Revoke, TypeOK
<1>3. told' \in [recorded : SUBSET (Keys \ Others), full : SUBSET (Keys \ Others)]
  BY DEF Revoke, TypeOK
<1>4. /\ requests' \in [Requests -> Request]
      /\ \A q \in Requests : requests'[q].pc \in {"recheck", "enter"} => requests'[q].family # Unbound
  BY RevokeMarks, MarksTypeOK
<1> QED BY <1>1, <1>2, <1>3, <1>4 DEF TypeOK, Revoke, catalog

LEMMA TimeTypeOK ==
  ASSUME TypeOK, RequestsStand, 
         (\E i \in Ids : Expire(i)) \/ (\E key \in Keys : Lapse(key)) \/ Restart
  PROVE  TypeOK'
<1>1. ASSUME NEW i \in Ids, Expire(i) PROVE TypeOK'
  <2>1. active' \in Registry /\ disk' \in [active : Registry, revoked : SUBSET Keys]
    BY <1>1, WithoutIsRegistry DEF Expire, TypeOK
  <2> QED BY <1>1, <2>1 DEF Expire, TypeOK, catalog
<1>2. ASSUME NEW key \in Keys, Lapse(key) PROVE TypeOK'
  BY <1>2 DEF Lapse, TypeOK, catalog
<1>3. CASE Restart
  <2>1. late' \subseteq Subjects
    BY <1>3, Distinct DEF Restart, TypeOK, RequestsStand, Stands
  <2>2. /\ requests' \in [Requests -> Request]
        /\ \A q \in Requests : requests'[q].pc \in {"recheck", "enter"} => requests'[q].family # Unbound
    BY <1>3, IdleIsRequest DEF Restart, Idle
  <2> QED BY <1>3, <2>1, <2>2 DEF Restart, TypeOK, catalog
<1> QED BY <1>1, <1>2, <1>3

LEMMA NextTypeOK ==
  ASSUME TypeOK, RequestsStand, Next
  PROVE  TypeOK'
BY HandoffTypeOK, MovesTypeOK, CatalogTypeOK, OpenSessionTypeOK, LogoutTypeOK, RevokeTypeOK,
   TimeTypeOK DEF Next

-----------------------------------------------------------------------------
(* Requests.                                                               *)

\* No binding is replaced.
BindingsStay == \A u \in Subjects : identities[u] # Unbound => identities'[u] = identities[u]

LEMMA NextBindingsStay ==
  ASSUME TypeOK, RequestsStand, Next
  PROVE  BindingsStay
<1> USE DEF BindingsStay, catalog
<1>1. ASSUME NEW u \in Subjects, Register(u)
      PROVE  BindingsStay
  BY <1>1 DEF Register, Unregistered, TypeOK
<1>2. ASSUME NEW r \in Requests, Provision(r)
      PROVE  BindingsStay
  <2>1. SubOf[requests[r].sid] \in Subjects
    BY <1>2, Distinct DEF Provision, RequestsStand, Stands
  <2> QED BY <1>1, <1>2, <2>1 DEF Provision
<1>3. ASSUME NEW u \in Subjects, LateProvision(u)
      PROVE  BindingsStay
  BY <1>1, <1>3 DEF LateProvision
<1>4. ASSUME NEW u \in Subjects, NEW f \in Families, BindIdentity(u, f)
      PROVE  BindingsStay
  BY <1>4 DEF BindIdentity, MayBind, TypeOK
<1>5. \/ \E r \in Requests : Provision(r)
      \/ \E u \in Subjects : LateProvision(u) \/ \E f \in Families : BindIdentity(u, f)
      \/ UNCHANGED identities
  BY DEF Next, HandoffExpires, Logout, Callback, Exchange, Onboard, Lookup, End, Recheck,
         BeginOnboarding, EnterFamily, OpenSession, Suspend, Revoke, Lapse, Expire, Restart
<1> QED BY <1>2, <1>3, <1>4, <1>5

\* A session in memory stays, goes, or is opened under an identifier that nobody held.
SessionsStay == \A i \in Ids \ Fresh : active'[i] \in {active[i], NoSession}

LEMMA WithoutStays ==
  ASSUME NEW a, NEW S, NEW i \in Ids
  PROVE  Without(a, S)[i] \in {a[i], NoSession}
BY DEF Without

LEMMA NextSessionsStay ==
  ASSUME TypeOK, RequestsStand, Next, ~Restart
  PROVE  SessionsStay
<1> USE DEF SessionsStay
<1>1. ASSUME NEW r \in Requests, BeginOnboarding(r) \/ EnterFamily(r)
      PROVE  SessionsStay
  <2>1. PICK scope \in Families \cup {Onboarding} : OpenSession(r, scope)
    BY <1>1 DEF BeginOnboarding, EnterFamily, TypeOK, Request
  <2>2. requests[r].pc # "idle"
    BY <1>1 DEF BeginOnboarding, EnterFamily
  <2>3. PICK id \in Fresh :
          active' = Without([active EXCEPT ![id] = [sid |-> requests[r].sid, scope |-> scope]],
                            {requests[r].cookie})
    BY <2>1, <2>2, OpenSessionEffect
  <2> QED BY <2>3, WithoutStays DEF TypeOK, Registry
<1>2. ASSUME NEW b \in Browsers, Logout(b)
      PROVE  SessionsStay
  BY <1>2, WithoutStays DEF Logout
<1>3. ASSUME NEW key \in Keys, Revoke(key)
      PROVE  SessionsStay
  BY <1>3, WithoutStays DEF Revoke
<1>4. ASSUME NEW i \in Ids, Expire(i)
      PROVE  SessionsStay
  BY <1>4, WithoutStays DEF Expire
<1>5. \/ \E r \in Requests : BeginOnboarding(r) \/ EnterFamily(r)
      \/ \E b \in Browsers : Logout(b)
      \/ \E key \in Keys : Revoke(key)
      \/ \E i \in Ids : Expire(i)
      \/ UNCHANGED active
  BY DEF Next, HandoffExpires, Callback, Exchange, Onboard, Lookup, End, Recheck, Provision,
         LateProvision, BindIdentity, Suspend, Lapse, registry
<1> QED BY <1>1, <1>2, <1>3, <1>4, <1>5

\* What a request relies on stays as it is, whatever the others do.
LEMMA KeepsStanding ==
  ASSUME TypeOK, NEW r \in Requests, Stands(requests[r]), BindingsStay, SessionsStay
  PROVE  LET q == requests[r] IN
         /\ q.pc # "idle" =>
              /\ q.sid \in Sids
              /\ q.pc \in {"recheck", "enter"} => identities'[SubOf[q.sid]] = q.family
              /\ q.onboarding /\ q.cookie \in Opened' => active'[q.cookie].sid = q.sid
         /\ q.cookie \notin Opened => q.cookie \notin Opened'
<1> DEFINE q == requests[r]
<1>1. q.cookie \notin Fresh
  BY DEF Fresh
<1>2. q.cookie \in Ids => active'[q.cookie] \in {active[q.cookie], NoSession}
  BY <1>1 DEF SessionsStay
<1>3. q.pc \in {"recheck", "enter"} => q.family # Unbound
  BY DEF TypeOK
<1>4. q.sid \in Sids => SubOf[q.sid] \in Subjects
  BY Distinct
<1> QED BY <1>2, <1>3, <1>4 DEF Stands, BindingsStay, Opened

LEMMA UnmovedStands ==
  ASSUME TypeOK, NEW r \in Requests, Stands(requests[r]), BindingsStay, SessionsStay,
         requests'[r] = requests[r]
  PROVE  Stands(requests[r])'
BY KeepsStanding DEF Stands

LEMMA IdleStands ==
  ASSUME NEW r \in Requests, NEW b \in Browsers, requests'[r] = Idle(b)
  PROVE  Stands(requests[r])'
BY DEF Idle, Stands

\* A request that begins.
LEMMA BeginStands ==
  ASSUME TypeOK, NEW r \in Requests, NEW b \in Browsers, Exchange(r, b) \/ Onboard(r, b)
  PROVE  Stands(requests[r])'
<1>1. CASE Exchange(r, b)
  <2>1. requests'[r] = [pc |-> "lookup", browser |-> b, sid |-> handoff[b], cookie |-> jar[b],
                        onboarding |-> FALSE, family |-> Unbound, ended |-> "no"]
    BY <1>1 DEF Exchange, Begins, Idle, TypeOK
  <2>2. handoff[b] \in Sids
    BY <1>1 DEF Exchange, TypeOK
  <2> QED BY <2>1, <2>2 DEF Stands
<1>2. CASE Onboard(r, b)
  <2>1. requests'[r] = [pc |-> "lookup", browser |-> b, sid |-> active[jar[b]].sid, cookie |-> jar[b],
                        onboarding |-> TRUE, family |-> Unbound, ended |-> "no"]
    BY <1>2 DEF Onboard, Begins, Idle, TypeOK
  <2>2. active[jar[b]].sid \in Sids /\ active' = active
    BY <1>2 DEF Onboard, TypeOK, Opened, Registry, Session, registry
  <2> QED BY <2>1, <2>2 DEF Stands
<1> QED BY <1>1, <1>2

\* A request that goes on.
LEMMA MoveStands ==
  ASSUME TypeOK, NEW r \in Requests, Stands(requests[r]), BindingsStay, SessionsStay,
         Lookup(r) \/ Provision(r) \/ Recheck(r)
  PROVE  Stands(requests[r])'
<1> DEFINE q == requests[r]
           u == SubOf[q.sid]
           m == requests'[r]
<1>1. q.sid \in Sids /\ u \in Subjects /\ q \in Request
  BY Distinct DEF Lookup, Provision, Recheck, Rechecks, Stands, TypeOK
<1>2. /\ m.sid = q.sid /\ m.cookie = q.cookie /\ m.onboarding = q.onboarding /\ m.ended = q.ended
      /\ q.pc \in {"lookup", "register", "recheck"}
  <2>1. CASE Lookup(r)
    BY <2>1 DEF Lookup, TypeOK, Request
  <2>2. CASE Provision(r)
    BY <2>2 DEF Provision, TypeOK, Request
  <2>3. CASE Recheck(r)
    BY <2>3 DEF Recheck, Rechecks, TypeOK, Request
  <2> QED BY <2>1, <2>2, <2>3
<1>3. active' = active
  BY DEF Lookup, Provision, Recheck, registry
<1>4. m.pc \in {"recheck", "enter"} => identities'[u] = m.family
  <2>1. CASE Lookup(r)
    BY <1>1, <2>1 DEF Lookup, Identity, TypeOK, Request, catalog
  <2>2. CASE Provision(r)
    BY <1>1, <2>2 DEF Provision, TypeOK
  <2>3. CASE Recheck(r)
    BY <1>1, <2>3 DEF Recheck, Rechecks, Stands, TypeOK, Request, catalog
  <2> QED BY <2>1, <2>2, <2>3
<1>5. q.ended = "provisioning" => m.pc = "recheck"
  <2>1. CASE Lookup(r)
    BY <2>1 DEF Lookup, Stands
  <2>2. CASE Provision(r)
    BY <2>2 DEF Provision, TypeOK, Request
  <2>3. CASE Recheck(r)
    BY <2>3 DEF Recheck, Rechecks, Stands
  <2> QED BY <2>1, <2>2, <2>3
<1>6. Opened' = Opened
  BY <1>3 DEF Opened
<1> QED BY <1>1, <1>2, <1>3, <1>4, <1>5, <1>6 DEF Stands

\* Whoever is signed out or revoked during the registration loses the session that
\* began it.
LEMMA MarkedStands ==
  ASSUME TypeOK, NEW r \in Requests, Stands(requests[r]), BindingsStay, SessionsStay,
         NEW ends, Marks(ends), ends[r] => requests[r].cookie \notin Opened'
                                           \/ ~requests[r].onboarding \/ requests[r].pc = "idle"
  PROVE  Stands(requests[r])'
<1> DEFINE q == requests[r]
           m == requests'[r]
<1>1. q \in Request /\ m = Marked(r, ends[r])
  BY DEF TypeOK, Marks
<1>2. /\ m.ended = Ending(r, ends[r]) /\ m.pc = q.pc /\ m.sid = q.sid
      /\ m.cookie = q.cookie /\ m.onboarding = q.onboarding /\ m.family = q.family
  BY <1>1, MarkedKeeps
<1>3. m.ended = "provisioning" =>
        q.onboarding /\ q.pc \in {"register", "recheck"} /\ q.cookie \notin Opened'
  <2> SUFFICES ASSUME Ending(r, ends[r]) = "provisioning"
               PROVE  q.onboarding /\ q.pc \in {"register", "recheck"} /\ q.cookie \notin Opened'
    BY <1>2
  <2>1. CASE ~ends[r] \/ ~q.onboarding \/ q.pc = "idle"
    BY <2>1, KeepsStanding DEF Ending, Stands
  <2>2. CASE ends[r] /\ q.onboarding /\ q.pc # "idle"
    BY <2>2 DEF Ending, Stands
  <2> QED BY <2>1, <2>2
<1> QED BY <1>2, <1>3, KeepsStanding DEF Stands

LEMMA LogoutStands ==
  ASSUME TypeOK, NEW r \in Requests, Stands(requests[r]), BindingsStay, SessionsStay,
         NEW b \in Browsers, Logout(b)
  PROVE  Stands(requests[r])'
<1>1. requests[r].cookie = jar[b] => requests[r].cookie \notin Opened'
  BY DEF Logout, Opened, Without
<1> QED BY <1>1, LogoutMarks, MarkedStands

LEMMA RevokeStands ==
  ASSUME TypeOK, NEW r \in Requests, Stands(requests[r]), BindingsStay, SessionsStay,
         NEW key \in Keys, Revoke(key)
  PROVE  Stands(requests[r])'
<1> DEFINE q == requests[r]
<1>1. ASSUME Names(r, key), q.onboarding, q.pc # "idle"
      PROVE  q.cookie \notin Opened'
  <2> SUFFICES ASSUME q.cookie \in Opened PROVE q.cookie \notin Opened'
    BY KeepsStanding
  <2>1. q.cookie \in Ids /\ active[q.cookie].sid = q.sid /\ q.sid \in Sids /\ active[q.cookie] # NoSession
    BY <1>1 DEF Stands, Opened
  <2>2. Matches(active[q.cookie], key)
    BY <1>1, <2>1, Distinct DEF Matches, Names
  <2>3. q.cookie \in Loses(key)
    BY <2>1, <2>2 DEF Loses
  <2> QED BY <2>3 DEF Revoke, Without, Opened
<1> QED BY <1>1, RevokeMarks, MarkedStands

LEMMA NextRequestsStand ==
  ASSUME TypeOK, RequestsStand, Next
  PROVE  RequestsStand'
<1>1. CASE Restart
  BY <1>1, IdleIsRequest, IdleStands DEF Restart, RequestsStand
<1>2. CASE ~Restart
  <2>1. BindingsStay /\ SessionsStay
    BY <1>2, NextBindingsStay, NextSessionsStay
  <2> SUFFICES ASSUME NEW r \in Requests PROVE Stands(requests[r])'
    BY DEF RequestsStand
  <2>2. Stands(requests[r])
    BY DEF RequestsStand
  <2>3. ASSUME NEW b \in Browsers, Logout(b) PROVE Stands(requests[r])'
    BY <2>1, <2>2, <2>3, LogoutStands
  <2>4. ASSUME NEW key \in Keys, Revoke(key) PROVE Stands(requests[r])'
    BY <2>1, <2>2, <2>4, RevokeStands
  <2>5. ASSUME NEW b \in Browsers, Exchange(r, b) \/ Onboard(r, b) PROVE Stands(requests[r])'
    BY <2>5, BeginStands
  <2>6. CASE Lookup(r) \/ Provision(r) \/ Recheck(r)
    BY <2>1, <2>2, <2>6, MoveStands
  <2>7. CASE End(r) \/ BeginOnboarding(r) \/ EnterFamily(r)
    BY <2>7, IdleIsRequest, IdleStands DEF End, BeginOnboarding, EnterFamily, OpenSession, TypeOK
  <2>8. CASE requests'[r] = requests[r]
    BY <2>1, <2>2, <2>8, UnmovedStands
  <2>9. \/ \E b \in Browsers : Logout(b) \/ Exchange(r, b) \/ Onboard(r, b)
        \/ \E key \in Keys : Revoke(key)
        \/ Lookup(r) \/ Provision(r) \/ Recheck(r)
        \/ End(r) \/ BeginOnboarding(r) \/ EnterFamily(r)
        \/ requests'[r] = requests[r]
    <3>1. ASSUME NEW b \in Browsers, NEW s \in Requests, Exchange(s, b) \/ Onboard(s, b)
          PROVE  s = r \/ requests'[r] = requests[r]
      BY <3>1 DEF Exchange, Onboard, Begins, TypeOK
    <3>2. ASSUME NEW s \in Requests,
                 \/ Lookup(s) \/ Provision(s) \/ Recheck(s)
                 \/ End(s) \/ BeginOnboarding(s) \/ EnterFamily(s)
          PROVE  s = r \/ requests'[r] = requests[r]
      BY <3>2 DEF Lookup, Provision, Recheck, End, BeginOnboarding, EnterFamily, OpenSession, TypeOK
    <3>3. ASSUME NEW b \in Browsers, HandoffExpires(b) \/ \E k \in Sids : Callback(b, k)
          PROVE  requests'[r] = requests[r]
      BY <3>3 DEF HandoffExpires, Callback
    <3>4. ASSUME \/ \E u \in Subjects : LateProvision(u) \/ \E f \in Families : BindIdentity(u, f)
                 \/ \E f \in Families : \E status \in {"active", "suspended"} : Suspend(f, status)
                 \/ \E key \in Keys : Lapse(key)
                 \/ \E i \in Ids : Expire(i)
          PROVE  requests'[r] = requests[r]
      BY <3>4 DEF LateProvision, BindIdentity, Suspend, Lapse, Expire
    <3> QED BY <1>2, <3>1, <3>2, <3>3, <3>4 DEF Next
  <2> QED BY <2>3, <2>4, <2>5, <2>6, <2>7, <2>8, <2>9
<1> QED BY <1>1, <1>2

-----------------------------------------------------------------------------
(* The registry and its file.                                              *)

\* What a registry holds it had before, in memory or in the file.
Older(a) == \A i \in Ids : a[i] \in {active[i], disk.active[i], NoSession}

LEMMA NextIsOlder ==
  ASSUME TypeOK, Next, ~(\E r \in Requests : BeginOnboarding(r) \/ EnterFamily(r))
  PROVE  /\ \A i \in Ids : active'[i] \in {active[i], disk.active[i], NoSession}
         /\ \A i \in Ids : disk'.active[i] \in {active[i], disk.active[i], NoSession}
<1> DEFINE P == /\ \A i \in Ids : active'[i] \in {active[i], disk.active[i], NoSession}
                /\ \A i \in Ids : disk'.active[i] \in {active[i], disk.active[i], NoSession}
<1>1. ASSUME NEW b \in Browsers, Logout(b) PROVE P
  BY <1>1, WithoutStays DEF Logout, Save, SaveFails
<1>2. ASSUME NEW key \in Keys, Revoke(key) PROVE P
  BY <1>2, WithoutStays DEF Revoke, Save, SaveFails
<1>3. ASSUME NEW i \in Ids, Expire(i) PROVE P
  BY <1>3, WithoutStays DEF Expire, TypeOK
<1>4. ASSUME NEW key \in Keys, Lapse(key) PROVE P
  BY <1>4 DEF Lapse, TypeOK
<1>5. CASE Restart
  BY <1>5 DEF Restart
<1>6. CASE UNCHANGED registry
  BY <1>6 DEF registry
<1>7. \/ \E b \in Browsers : Logout(b)
      \/ \E key \in Keys : Revoke(key) \/ Lapse(key)
      \/ \E i \in Ids : Expire(i)
      \/ Restart \/ UNCHANGED registry
  BY DEF Next, HandoffExpires, Callback, Exchange, Onboard, Lookup, End, Recheck, Provision,
         LateProvision, BindIdentity, Suspend
<1> QED BY <1>1, <1>2, <1>3, <1>4, <1>5, <1>6, <1>7

\* A new session is one of a person who is admitted, in the family it enters.
LEMMA NewSession ==
  ASSUME TypeOK, RequestsStand, NEW r \in Requests, BeginOnboarding(r) \/ EnterFamily(r)
  PROVE  /\ requests[r].sid \in Sids /\ Admits(requests[r].sid)
         /\ revoked' = revoked /\ disk'.revoked = revoked /\ told' = told
         /\ UNCHANGED catalog
         /\ \E s \in Session :
              /\ s.sid = requests[r].sid
              /\ s.scope # Onboarding => identities[SubOf[s.sid]] = s.scope
              /\ \A i \in Ids : active'[i] \in {active[i], NoSession, s}
              /\ \A i \in Ids : disk'.active[i] \in {active[i], NoSession, s}
<1>1. PICK scope \in Families \cup {Onboarding} :
        /\ OpenSession(r, scope)
        /\ requests[r].sid \in Sids
        /\ scope # Onboarding => identities[SubOf[requests[r].sid]] = scope
  BY DEF BeginOnboarding, EnterFamily, TypeOK, Request, RequestsStand, Stands
<1>2. requests[r].pc # "idle"
  BY DEF BeginOnboarding, EnterFamily
<1>3. PICK s \in Session : s = [sid |-> requests[r].sid, scope |-> scope]
  <2>1. [sid |-> requests[r].sid, scope |-> scope] \in Session
    BY <1>1 DEF Session
  <2> QED BY <2>1
<1>4. s.sid = requests[r].sid /\ s.scope = scope
  BY <1>3
<1>5. PICK id, added, old :
         /\ id \in Fresh /\ added \in Registry
         /\ added = [active EXCEPT ![id] = s] /\ active' = Without(added, old)
         /\ disk'.active \in {added, active'} /\ disk'.revoked = revoked
  <2>1. PICK id \in Fresh :
          LET added == [active EXCEPT ![id] = [sid |-> requests[r].sid, scope |-> scope]] IN
          /\ added \in Registry /\ active' = Without(added, {requests[r].cookie})
          /\ disk' \in {[active |-> added, revoked |-> revoked], [active |-> active', revoked |-> revoked]}
    BY <1>1, <1>2, OpenSessionEffect
  <2>2. PICK added \in Registry : added = [active EXCEPT ![id] = s]
    BY <1>3, <2>1
  <2>3. /\ active' = Without(added, {requests[r].cookie})
        /\ disk' \in {[active |-> added, revoked |-> revoked], [active |-> active', revoked |-> revoked]}
    BY <1>3, <2>1, <2>2
  <2>4. disk'.active \in {added, active'} /\ disk'.revoked = revoked
    BY <2>3
  <2> QED BY <2>2, <2>3, <2>4
<1>6. \A i \in Ids : added[i] \in {active[i], s}
  BY <1>5 DEF TypeOK, Registry
<1>7. \A i \in Ids : active'[i] \in {added[i], NoSession}
  BY <1>5, WithoutStays
<1>8. \A i \in Ids : active'[i] \in {active[i], NoSession, s}
  BY <1>6, <1>7
<1>9. \A i \in Ids : disk'.active[i] \in {active[i], NoSession, s}
  BY <1>5, <1>6, <1>8
<1>10. Admits(requests[r].sid) /\ revoked' = revoked /\ told' = told /\ UNCHANGED catalog
  BY <1>1 DEF OpenSession
<1> QED BY <1>1, <1>4, <1>5, <1>8, <1>9, <1>10

LEMMA NextScopesStand ==
  ASSUME TypeOK, RequestsStand, ScopesStand, Next
  PROVE  ScopesStand'
<1>1. BindingsStay
  BY NextBindingsStay
<1>2. ASSUME NEW i \in Ids, NEW s \in {active[i], disk.active[i], NoSession}, s.scope # Onboarding
      PROVE  identities'[SubOf[s.sid]] = s.scope
  <2>1. s \in Session /\ identities[SubOf[s.sid]] = s.scope
    BY <1>2 DEF ScopesStand, Bound, TypeOK, Registry, NoSession
  <2> QED BY <1>1, <1>2, <2>1, Distinct DEF Session, BindingsStay
<1>3. CASE \E r \in Requests : BeginOnboarding(r) \/ EnterFamily(r)
  BY <1>2, <1>3, NewSession DEF ScopesStand, Bound, catalog
<1>4. CASE ~\E r \in Requests : BeginOnboarding(r) \/ EnterFamily(r)
  BY <1>2, <1>4, NextIsOlder DEF ScopesStand, Bound
<1> QED BY <1>3, <1>4

\* Nothing that matched no key matches one.
LEMMA OlderMatchesNothing ==
  ASSUME NEW keys, NoMatch(active, keys), NoMatch(disk.active, keys),
         NEW i \in Ids, NEW s \in {active[i], disk.active[i], NoSession}, NEW key \in keys
  PROVE  ~Matches(s, key)
BY DEF NoMatch, Matches

LEMMA NewSessionRevocations ==
  ASSUME TypeOK, RequestsStand, RevocationsStand,
         NEW r \in Requests, BeginOnboarding(r) \/ EnterFamily(r)
  PROVE  RevocationsStand'
<1>1. PICK s \in Session :
        /\ s.sid = requests[r].sid
        /\ \A i \in Ids : active'[i] \in {active[i], NoSession, s}
        /\ \A i \in Ids : disk'.active[i] \in {active[i], NoSession, s}
  BY NewSession
<1>2. Admits(s.sid) /\ revoked' = revoked /\ disk'.revoked = revoked /\ told' = told
  BY <1>1, NewSession
<1>3. \A key \in told.recorded : ~Matches(s, key)
  BY <1>2 DEF Admits, Matches, RevocationsStand
<1>4. told.full = {}
  BY <1>2 DEF Admits, RevocationsStand
<1>5. NoMatch(active, told.recorded)' /\ NoMatch(disk.active, told.recorded)'
  <2>1. ASSUME NEW key \in told.recorded, NEW i \in Ids, NEW t \in {active[i], NoSession, s}
        PROVE  ~Matches(t, key)
    BY <1>3, OlderMatchesNothing DEF RevocationsStand
  <2>2. \A key \in told.recorded : \A i \in Ids :
          ~Matches(active'[i], key) /\ ~Matches(disk'.active[i], key)
    BY <1>1, <2>1
  <2> QED BY <1>2, <2>2 DEF NoMatch
<1> QED BY <1>2, <1>4, <1>5 DEF RevocationsStand

LEMMA RevokeRevocations ==
  ASSUME TypeOK, RevocationsStand, NEW key \in Keys, Revoke(key)
  PROVE  RevocationsStand'
<1>1. /\ active' = Without(active, Loses(key))
      /\ revoked' = IF Full THEN revoked ELSE revoked \cup {key}
  BY DEF Revoke
<1>2. \A i \in Ids : ~Matches(active'[i], key)
  BY <1>1 DEF Without, Loses, Matches
<1>3. \A i \in Ids : active'[i] \in {active[i], NoSession}
  BY <1>1, WithoutStays
<1>4. \A old \in told.recorded : \A i \in Ids : ~Matches(active'[i], old)
  BY <1>3, OlderMatchesNothing DEF RevocationsStand
<1>5. Full => Full' /\ revoked' = revoked /\ \A i \in Ids : active'[i] = NoSession
  BY <1>1 DEF Full, Without, Loses
<1>6. CASE SaveFails /\ UNCHANGED told
  BY <1>1, <1>4, <1>5, <1>6 DEF RevocationsStand, NoMatch, NoneIn, SaveFails
<1>7. CASE Save(active', revoked') /\ Full /\ told' = [told EXCEPT !.full = @ \cup ({key} \ Others)]
  <2>1. told'.recorded = told.recorded
    BY <1>7 DEF TypeOK
  <2>2. disk' = [active |-> active', revoked |-> revoked']
    BY <1>7 DEF Save
  <2> QED BY <1>4, <1>5, <1>7, <2>1, <2>2 DEF RevocationsStand, NoMatch, NoneIn
<1>8. CASE Save(active', revoked') /\ ~Full /\ told' = [told EXCEPT !.recorded = @ \cup ({key} \ Others)]
  <2>1. told'.recorded \subseteq told.recorded \cup {key} /\ told'.full = told.full
    BY <1>8 DEF TypeOK
  <2>2. disk' = [active |-> active', revoked |-> revoked']
    BY <1>8 DEF Save
  <2>3. told.full = {}
    BY <1>8 DEF RevocationsStand
  <2> QED BY <1>1, <1>2, <1>4, <1>8, <2>1, <2>2, <2>3 DEF RevocationsStand, NoMatch
<1> QED BY <1>6, <1>7, <1>8 DEF Revoke

LEMMA NextRevocationsStand ==
  ASSUME TypeOK, RequestsStand, RevocationsStand, Next
  PROVE  RevocationsStand'
<1>1. ASSUME NEW r \in Requests, BeginOnboarding(r) \/ EnterFamily(r)
      PROVE  RevocationsStand'
  BY <1>1, NewSessionRevocations
<1>2. ASSUME NEW key \in Keys, Revoke(key)
      PROVE  RevocationsStand'
  BY <1>2, RevokeRevocations
<1>3. CASE /\ ~\E r \in Requests : BeginOnboarding(r) \/ EnterFamily(r)
           /\ ~\E key \in Keys : Revoke(key)
  <2>1. /\ \A i \in Ids : active'[i] \in {active[i], disk.active[i], NoSession}
        /\ \A i \in Ids : disk'.active[i] \in {active[i], disk.active[i], NoSession}
    BY <1>3, NextIsOlder
  <2>2. /\ \A key \in told.recorded : \A i \in Ids : ~Matches(active'[i], key)
        /\ \A key \in told.recorded : \A i \in Ids : ~Matches(disk'.active[i], key)
    BY <2>1, OlderMatchesNothing DEF RevocationsStand
  <2>3. told.full # {} => \A i \in Ids : active'[i] = NoSession /\ disk'.active[i] = NoSession
    BY <2>1 DEF RevocationsStand, NoneIn
  <2>4. ASSUME NEW key \in Keys, Lapse(key)
        PROVE  RevocationsStand'
    <3>1. /\ told'.recorded = told.recorded \ {key} /\ told'.full = {}
          /\ revoked' = revoked \ {key} /\ disk'.revoked = disk.revoked \ {key}
      BY <2>4 DEF Lapse, TypeOK
    <3> QED BY <2>2, <3>1 DEF RevocationsStand, NoMatch
  <2>5. CASE told' = told /\ revoked' \in {revoked, disk.revoked} /\ disk'.revoked \in {revoked, disk.revoked}
    <3>1. told.full # {} => revoked' = revoked /\ disk'.revoked = revoked
      BY <2>5 DEF RevocationsStand
    <3>2. told.full # {} => Full'
      BY <3>1 DEF Full, RevocationsStand
    <3> QED BY <2>2, <2>3, <2>5, <3>1, <3>2 DEF RevocationsStand, NoMatch, NoneIn
  <2>6. \/ \E key \in Keys : Lapse(key)
        \/ told' = told /\ revoked' \in {revoked, disk.revoked} /\ disk'.revoked \in {revoked, disk.revoked}
    <3>1. ASSUME NEW b \in Browsers, Logout(b)
          PROVE  told' = told /\ revoked' = revoked /\ disk'.revoked \in {revoked, disk.revoked}
      BY <3>1 DEF Logout, Save, SaveFails
    <3>2. ASSUME NEW i \in Ids, Expire(i)
          PROVE  told' = told /\ revoked' = revoked /\ disk'.revoked = disk.revoked
      BY <3>2 DEF Expire, TypeOK
    <3>3. CASE Restart
      BY <3>3 DEF Restart
    <3>4. CASE UNCHANGED <<registry, told>>
      BY <3>4 DEF registry
    <3>5. \/ \E key \in Keys : Lapse(key)
          \/ \E b \in Browsers : Logout(b)
          \/ \E i \in Ids : Expire(i)
          \/ Restart \/ UNCHANGED <<registry, told>>
      BY <1>3 DEF Next, HandoffExpires, Callback, Exchange, Onboard, Lookup, End, Recheck, Provision,
         LateProvision, BindIdentity, Suspend
    <3> QED BY <3>1, <3>2, <3>3, <3>4, <3>5
  <2> QED BY <2>4, <2>5, <2>6
<1> QED BY <1>1, <1>2, <1>3

LEMMA NextOneFamily ==
  ASSUME TypeOK, RequestsStand, OneFamilyPerIdentity, Next
  PROVE  OneFamilyPerIdentity'
<1>1. BindingsStay
  BY NextBindingsStay
<1>2. ASSUME NEW f \in Exists \ {1} PROVE \E u \in Subjects : identities'[u] = f
  BY <1>1, Distinct DEF OneFamilyPerIdentity, BindingsStay, Exists
<1>3. ASSUME NEW u \in Subjects, Register(u), NEW f \in Exists' \ {1}
      PROVE  \E v \in Subjects : identities'[v] = f
  <2>1. CASE f = NextFamily
    BY <1>3, <2>1 DEF Register, TypeOK
  <2>2. CASE f # NextFamily
    BY <1>2, <1>3, <2>2 DEF Register, TypeOK, Exists
  <2> QED BY <2>1, <2>2
<1>4. ASSUME Exists' \subseteq Exists
      PROVE  OneFamilyPerIdentity'
  BY <1>2, <1>4 DEF OneFamilyPerIdentity
<1>5. ASSUME NEW f \in Families, NEW status \in {"active", "suspended"}, Suspend(f, status)
      PROVE  Exists' \subseteq Exists
  BY <1>5 DEF Suspend, Exists, TypeOK
<1>6. CASE UNCHANGED families
  BY <1>4, <1>6 DEF Exists
<1>7. ASSUME NEW r \in Requests, Provision(r)
      PROVE  OneFamilyPerIdentity'
  <2>1. SubOf[requests[r].sid] \in Subjects
    BY <1>7, Distinct DEF Provision, RequestsStand, Stands
  <2> QED BY <1>3, <1>6, <1>7, <2>1 DEF Provision, OneFamilyPerIdentity, catalog
<1>8. \/ \E f \in Families : \E status \in {"active", "suspended"} : Suspend(f, status)
      \/ \E r \in Requests : Provision(r)
      \/ \E u \in Subjects : Register(u)
      \/ UNCHANGED families
  BY DEF Next, HandoffExpires, Callback, Exchange, Onboard, Lookup, End, Recheck, LateProvision,
     BindIdentity, BeginOnboarding, EnterFamily, OpenSession, Logout, Revoke, Lapse, Expire, Restart,
     catalog
<1> QED BY <1>3, <1>4, <1>5, <1>6, <1>7, <1>8 DEF OneFamilyPerIdentity

-----------------------------------------------------------------------------
(* The invariant and what follows from it.                                 *)

LEMMA InitInv == Init => Inv
<1> SUFFICES ASSUME Init PROVE Inv
  OBVIOUS
<1>1. TypeOK
  BY InitTypeOK
<1>2. RequestsStand
  BY DEF Init, RequestsStand, Stands, Idle
<1>3. ScopesStand
  BY DEF Init, ScopesStand, Bound, NoSession
<1>4. RevocationsStand
  BY DEF Init, RevocationsStand, NoMatch
<1>5. OneFamilyPerIdentity
  BY DEF Init, OneFamilyPerIdentity, Exists
<1> QED BY <1>1, <1>2, <1>3, <1>4, <1>5 DEF Inv

LEMMA NextInv == Inv /\ [Next]_vars => Inv'
<1> SUFFICES ASSUME Inv, [Next]_vars PROVE Inv'
  OBVIOUS
<1>1. CASE Next
  BY <1>1, NextTypeOK, NextRequestsStand, NextScopesStand, NextRevocationsStand, NextOneFamily DEF Inv
<1>2. CASE UNCHANGED vars
  <2> USE <1>2 DEF vars, catalog, registry
  <2>1. TypeOK'
    BY DEF Inv, TypeOK
  <2>2. RequestsStand'
    BY DEF Inv, RequestsStand, Stands, Opened
  <2>3. ScopesStand' /\ RevocationsStand' /\ OneFamilyPerIdentity'
    BY DEF Inv, ScopesStand, Bound, RevocationsStand, NoMatch, NoneIn, Full, OneFamilyPerIdentity, Exists
  <2> QED BY <2>1, <2>2, <2>3 DEF Inv
<1> QED BY <1>1, <1>2

LEMMA Invariance == Spec => []Inv
BY InitInv, NextInv, PTL DEF Spec

\* The variables keep their types.
THEOREM TypeCorrectness == Spec => []TypeOK
<1>1. Inv => TypeOK
  BY DEF Inv
<1> QED BY <1>1, Invariance, PTL

\* Every family but the operator's belongs to somebody: lost answers, retries and late
\* registrations leave no person with a second one.
THEOREM OneFamily == Spec => []OneFamilyPerIdentity
<1>1. Inv => OneFamilyPerIdentity
  BY DEF Inv
<1> QED BY <1>1, Invariance, PTL

\* The gateway, which asks the catalog for the status only, serves a family to nobody
\* whom the catalog binds to another one.
THEOREM Scopes == Spec => []ScopeIsBinding
<1>1. Inv => ScopeIsBinding
  BY DEF Inv, ScopesStand, Bound, ScopeIsBinding, Serves, OpensProfile, Identity, Families,
     Onboarding, Unbound
<1> QED BY <1>1, Invariance, PTL

\* After a logout of the provider that was acknowledged no session of that sign-in is
\* left or opened, through requests under way, failed writes and restarts.
THEOREM RevocationIsKept == Spec => []RevokedStaysOut
<1>1. Inv => RevokedStaysOut
  BY DEF Inv, RevocationsStand, NoMatch, NoneIn, RevokedStaysOut, Matches
<1> QED BY <1>1, Invariance, PTL

\* A request whose person signed out or was revoked while it created a family opens no
\* session.
THEOREM ProvisioningEnds == Spec => LogoutDuringProvisioning
<1>1. Inv => [\A r \in Requests : Opens(r) => requests[r].ended # "provisioning"]_vars
  BY DEF Inv, RequestsStand, Stands, Opens
<1> QED BY <1>1, Invariance, PTL DEF LogoutDuringProvisioning
=============================================================================
