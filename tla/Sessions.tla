------------------------------- MODULE Sessions -------------------------------
(***************************************************************************)
(* The credentials that speak for a profile: bearer tokens, remembered     *)
(* devices, MCP grants and five-minute parent confirmations, and the use   *)
(* cases that issue, check and revoke them.                                *)
(*                                                                         *)
(* A login and a management request (PIN change, import, removal of a      *)
(* device, new MCP grant) read the database, decide, and write in a later  *)
(* transaction; everything else may happen in between.  Profiles, roles    *)
(* and versions are as in Profiles.  A credential carries, as history, the *)
(* epoch of its profile when the PIN or the session behind it was checked. *)
(***************************************************************************)
EXTENDS Profiles

CONSTANTS Devices, Grants, NoDevice, NoGrant,
          MaxTokens       \* bound on bearer tokens and confirmations in force

ASSUME SessionsAssumption ==
  /\ NoDevice \notin Devices /\ NoGrant \notin Grants
  /\ MaxTokens \in Nat

VARIABLES
  bearers,    \* session tokens that have not expired
  proofs,     \* confirmation tokens that have not expired
  devices,    \* trusted_devices; a revoked, expired or truncated row is "gone"
  grants,     \* mcp_grants, likewise
  login,      \* a sign-in that is to be remembered, between its transactions
  admin       \* a management request, between its transactions

sessionVars == <<bearers, proofs, devices, grants, login, admin>>
vars == <<profileVars, sessionVars>>

Claim == [id : Id, role : Roles, version : Nat, epoch : Nat]
Proof == [id : Id, version : Nat, device : Devices \cup {NoDevice}, epoch : Nat]
Bound == [state : {"unused", "live", "gone"}, by : Claim]
Login == [pc : {"idle", "verified", "approved"}, owner : Claim, approver : Claim]
Admin == [pc : {"idle", "authenticated", "checked", "granting"}, actor : Claim,
          device : Devices \cup {NoDevice}, target : Claim]

\* What the database says of a profile now, as a claim.
Current(id) == [id |-> id, role |-> people[id].role,
                version |-> people[id].version, epoch |-> epoch[id]]
NoClaim == [id |-> Owner, role |-> "parent", version |-> 0, epoch |-> 0]
Unbound == [state |-> "unused", by |-> NoClaim]
NoLogin == [pc |-> "idle", owner |-> NoClaim, approver |-> NoClaim]
NoAdmin == [pc |-> "idle", actor |-> NoClaim, device |-> NoDevice, target |-> NoClaim]

Init ==
  /\ ProfilesInit
  /\ bearers = {} /\ proofs = {}
  /\ devices = [d \in Devices |-> Unbound]
  /\ grants = [g \in Grants |-> Unbound]
  /\ login = NoLogin
  /\ admin = NoAdmin

-----------------------------------------------------------------------------
\* ParseToken: active, same role, same session_version.
Stands(c) == /\ people[c.id].active
             /\ people[c.id].role = c.role
             /\ people[c.id].version = c.version

BearerAccepted(c) == c \in bearers /\ Stands(c)
DeviceAccepted(d) == devices[d].state = "live" /\ Stands(devices[d].by)
GrantAccepted(g) == grants[g].state = "live" /\ Stands(grants[g].by)

\* A parent who has authenticated with a bearer token or a device cookie.
ParentRequest(c, d) ==
  /\ c.role = "parent"
  /\ \/ d = NoDevice /\ BearerAccepted(c)
     \/ d \in Devices /\ DeviceAccepted(d) /\ c = devices[d].by

\* Mutant: rows are deleted, so that their ids may be used again.
GoneDeleted(table, keys) ==
  [k \in {x \in DOMAIN table : x \notin keys \/ table[x].state # "live"} |-> table[k]]

Gone(table, keys) == [k \in DOMAIN table |->
  IF k \in keys /\ table[k].state = "live" THEN [state |-> "gone", by |-> NoClaim] ELSE table[k]]

-----------------------------------------------------------------------------
(***************************************************************************)
(* Login and rememberDevice: the owner's PIN, then for a child a parent's  *)
(* PIN, then one transaction that checks both versions again.              *)
(***************************************************************************)
VerifyOwner(id) ==
  /\ login.pc = "idle" /\ people[id].active
  /\ login' = [NoLogin EXCEPT !.pc = "verified", !.owner = Current(id)]
  /\ UNCHANGED <<profileVars, bearers, proofs, devices, grants, admin>>

\* Without "remember" the token is returned and the previous device forgotten.
FinishLogin(previous) ==
  /\ login.pc = "verified"
  /\ Cardinality(bearers) < MaxTokens
  /\ bearers' = bearers \cup {login.owner}
  /\ devices' = Gone(devices, previous)
  /\ login' = NoLogin
  /\ UNCHANGED <<profileVars, proofs, grants, admin>>

VerifyApprover(id) ==
  /\ login.pc = "verified" /\ login.owner.role = "child"
  /\ people[id].active /\ people[id].role = "parent"
  /\ login' = [login EXCEPT !.pc = "approved", !.approver = Current(id)]
  /\ UNCHANGED <<profileVars, bearers, proofs, devices, grants, admin>>

\* Mutant: only the owner is checked again.
MayBindOwnerOnly == Stands(login.owner)

\* CreateDevice, under share locks of both participants.
MayBind == Stands(login.owner) /\ (login.owner.role = "parent" \/ Stands(login.approver))

CreateDevice(d, previous) ==
  /\ login.pc = IF login.owner.role = "parent" THEN "verified" ELSE "approved"
  /\ login' = NoLogin
  /\ \/ /\ MayBind
        /\ devices[d].state = "unused"
        /\ devices' = [Gone(devices, previous) EXCEPT ![d] = [state |-> "live", by |-> login.owner]]
     \/ ~MayBind /\ UNCHANGED devices
  /\ UNCHANGED <<profileVars, bearers, proofs, grants, admin>>

\* The request fails, or the client goes away.
AbandonLogin ==
  /\ login.pc # "idle"
  /\ login' = NoLogin
  /\ UNCHANGED <<profileVars, bearers, proofs, devices, grants, admin>>

\* AccountSession: a token for an adult that the platform has authenticated.
AccountSession(id) ==
  /\ people[id].active /\ people[id].role = "parent"
  /\ Cardinality(bearers) < MaxTokens
  /\ bearers' = bearers \cup {Current(id)}
  /\ UNCHANGED <<profileVars, proofs, devices, grants, login, admin>>

-----------------------------------------------------------------------------
(***************************************************************************)
(* Parent confirmation and the operations that need it.                    *)
(***************************************************************************)
\* ConfirmParent: the PIN of the adult behind this very session.
Confirm(c, d) ==
  /\ ParentRequest(c, d)
  /\ Cardinality(proofs) < MaxTokens
  /\ proofs' = proofs \cup {[id |-> c.id, version |-> c.version, device |-> d, epoch |-> epoch[c.id]]}
  /\ UNCHANGED <<profileVars, bearers, devices, grants, login, admin>>

Authenticate(c, d) ==
  /\ admin.pc = "idle"
  /\ ParentRequest(c, d)
  /\ admin' = [NoAdmin EXCEPT !.pc = "authenticated", !.actor = c, !.device = d]
  /\ UNCHANGED <<profileVars, bearers, proofs, devices, grants, login>>

\* Mutant: the proof is compared with the claims of the request only.
ConfirmsClaims(p) ==
  p.id = admin.actor.id /\ p.version = admin.actor.version /\ p.device = admin.device

\* CheckConfirmation: the proof belongs to this session, which still stands.
Confirms(p) ==
  /\ p.id = admin.actor.id /\ p.version = admin.actor.version /\ p.device = admin.device
  /\ Stands(admin.actor)
  /\ admin.device # NoDevice =>
       /\ devices[admin.device].state = "live"
       /\ devices[admin.device].by.id = p.id /\ devices[admin.device].by.version = p.version

CheckConfirmation ==
  /\ admin.pc = "authenticated"
  /\ \E p \in proofs : Confirms(p)
  /\ admin' = [admin EXCEPT !.pc = "checked"]
  /\ UNCHANGED <<profileVars, bearers, proofs, devices, grants, login>>

\* The check or the operation fails.
AbandonAdmin ==
  /\ admin.pc # "idle"
  /\ admin' = NoAdmin
  /\ UNCHANGED <<profileVars, bearers, proofs, devices, grants, login>>

UpdatePIN(id) ==
  /\ admin.pc = "checked"
  /\ ChangePIN(id)
  /\ admin' = NoAdmin
  /\ UNCHANGED <<bearers, proofs, devices, grants, login>>

RemoveDevice(d) ==
  /\ admin.pc = "checked"
  /\ devices' = Gone(devices, {d})
  /\ admin' = NoAdmin
  /\ UNCHANGED <<profileVars, bearers, proofs, grants, login>>

\* The import truncates trusted_devices and, by cascade, mcp_grants.
ImportBackup(b) ==
  /\ admin.pc = "checked"
  /\ Import(b)
  /\ devices' = Gone(devices, Devices)
  /\ grants' = Gone(grants, Grants)
  /\ admin' = NoAdmin
  /\ UNCHANGED <<bearers, proofs, login>>

\* CreateMCPGrant reads the profile, mints the token and inserts the row only
\* if the profile is still active with the version it read.
ReadGrantee(id) ==
  /\ admin.pc = "checked"
  /\ \E g \in Grants : grants[g].state = "unused"
  /\ people[id].active
  /\ admin' = [admin EXCEPT !.pc = "granting", !.target = Current(id)]
  /\ UNCHANGED <<profileVars, bearers, proofs, devices, grants, login>>

InsertGrant(g) ==
  /\ admin.pc = "granting"
  /\ admin' = NoAdmin
  /\ LET t == admin.target
         current == people[t.id].active /\ people[t.id].version = t.version
     IN \/ /\ current /\ grants[g].state = "unused"
           /\ grants' = [grants EXCEPT ![g] = [state |-> "live", by |-> t]]
        \/ ~current /\ UNCHANGED grants
  /\ UNCHANGED <<profileVars, bearers, proofs, devices, login>>

-----------------------------------------------------------------------------
\* ForgetDevice at sign-out, or the end of a device's 90 days.
DeviceEnds(d) ==
  /\ devices[d].state = "live"
  /\ devices' = Gone(devices, {d})
  /\ UNCHANGED <<profileVars, bearers, proofs, grants, login, admin>>

\* RemoveMCPGrant, or the end of its 90 days.
GrantEnds(g) ==
  /\ grants[g].state = "live"
  /\ grants' = Gone(grants, {g})
  /\ UNCHANGED <<profileVars, bearers, proofs, devices, login, admin>>

\* The TTL of a token runs out.
TokenEnds ==
  /\ \/ \E c \in bearers : bearers' = bearers \ {c} /\ UNCHANGED proofs
     \/ \E p \in proofs : proofs' = proofs \ {p} /\ UNCHANGED bearers
  /\ UNCHANGED <<profileVars, devices, grants, login, admin>>

\* Meanwhile other parents manage participants.
ProfileStep ==
  /\ \/ \E n \in Names, r \in Roles : Create(n, r)
     \/ \E id \in Id : Delete(id)
     \/ ResetAccount
     \/ Export
  /\ UNCHANGED sessionVars

LoginStep ==
  \/ \E id \in Id : VerifyOwner(id) \/ VerifyApprover(id) \/ AccountSession(id)
  \/ \E previous \in SUBSET Devices : Cardinality(previous) <= 1 /\
       (FinishLogin(previous) \/ \E d \in Devices : CreateDevice(d, previous))
  \/ AbandonLogin

AdminStep ==
  \/ \E c \in bearers \cup {devices[d].by : d \in Devices}, d \in Devices \cup {NoDevice} :
       Confirm(c, d) \/ Authenticate(c, d)
  \/ CheckConfirmation
  \/ AbandonAdmin
  \/ \E id \in Id : UpdatePIN(id) \/ ReadGrantee(id)
  \/ \E d \in Devices : RemoveDevice(d)
  \/ \E b \in backups : ImportBackup(b)
  \/ \E g \in Grants : InsertGrant(g)

Next ==
  \/ ProfileStep \/ LoginStep \/ AdminStep
  \/ \E d \in Devices : DeviceEnds(d)
  \/ \E g \in Grants : GrantEnds(g)
  \/ TokenEnds

Spec == Init /\ [][Next]_vars

-----------------------------------------------------------------------------
TypeOK ==
  /\ ProfilesTypeOK
  /\ bearers \in SUBSET Claim
  /\ proofs \in SUBSET Proof
  /\ devices \in [Devices -> Bound]
  /\ grants \in [Grants -> Bound]
  /\ login \in Login
  /\ admin \in Admin

\* The claims behind the requests that would be authenticated now.
Accepted ==
  {c \in bearers : Stands(c)}
    \cup {devices[d].by : d \in {x \in Devices : DeviceAccepted(x)}}
    \cup {grants[g].by : g \in {x \in Grants : GrantAccepted(x)}}

(***************************************************************************)
(* Revocation is final: whatever a request authenticates with was checked  *)
(* after the last PIN change, account reset or import of its profile, also *)
(* if it was being issued while that happened.  Ids that an import dropped *)
(* are excepted: see ImportRevokes.                                        *)
(***************************************************************************)
RevocationIsFinal ==
  \A c \in Accepted : c.id \in dropped \/ c.epoch = epoch[c.id]

(***************************************************************************)
(* The same without the exception, as the architecture document says it of *)
(* every import: "a PIN change and a backup import raise the version and   *)
(* revoke old sessions".                                                   *)
(***************************************************************************)
ImportRevokes == \A c \in Accepted : c.epoch = epoch[c.id]

(***************************************************************************)
(* A child's device is remembered only with the PIN that a parent of the   *)
(* family has at that moment, whatever happened to that parent since the   *)
(* PIN was typed (CreateDevice checks both profiles again under lock).     *)
(***************************************************************************)
ChildDeviceApproved ==
  [][\A d \in Devices :
       devices[d].state # "live" /\ devices'[d].state = "live" /\ devices'[d].by.role = "child" =>
         /\ login.approver.id \in Adults(people)
         /\ login.approver.id \in dropped \/ login.approver.epoch = epoch[login.approver.id]]_vars

(***************************************************************************)
(* A management request passes its confirmation only if its adult still    *)
(* has the PIN that was typed, and its device has not been signed out by   *)
(* another one since the request was authenticated.                        *)
(***************************************************************************)
ConfirmationIsCurrent ==
  [][admin.pc = "authenticated" /\ admin'.pc = "checked" =>
       LET id == admin.actor.id IN
       /\ id \in Adults(people)
       /\ id \in dropped \/ admin.actor.epoch = epoch[id]
       /\ admin.device # NoDevice => devices[admin.device].state = "live"]_vars

-----------------------------------------------------------------------------
\* Every claim held anywhere in the system.
Claims ==
  bearers \cup {devices[d].by : d \in Devices} \cup {grants[g].by : g \in Grants}
    \cup {login.owner, login.approver, admin.actor, admin.target}

(***************************************************************************)
(* The strengthening that makes RevocationIsFinal inductive: as long as an *)
(* id has not been dropped its version counts its revocations, and so does *)
(* the version in every claim.                                             *)
(***************************************************************************)
PeopleCount == \A id \in Id \ dropped : people[id].version = epoch[id]
ClaimsCount == \A c \in Claims : c.id \in dropped \/ c.version = c.epoch
VersionsCount == PeopleCount /\ ClaimsCount
=============================================================================
