--------------------------- MODULE Sessions_proofs ---------------------------
(* Theorems about Sessions, for every value of its constants.               *)
EXTENDS Sessions, TLAPS

-----------------------------------------------------------------------------
(* What the transactions on participants preserve.                          *)

LEMMA OwnerIsId == Owner \in Id
BY ProfilesAssumption DEF Id

LEMMA RevokedType ==
  ASSUME ProfilesTypeOK, NEW ids, Revoked(ids)
  PROVE  epoch' \in [Id -> Nat] /\ revocations' \in 0 .. MaxRevocations
BY ProfilesAssumption DEF ProfilesTypeOK, Revoked

LEMMA BumpedType ==
  ASSUME ProfilesTypeOK, NEW id \in Id
  PROVE  [people EXCEPT ![id].version = @ + 1] \in [Id -> Profile]
<1>1. people[id].version + 1 \in Nat
  BY DEF ProfilesTypeOK, Profile
<1>2. [people[id] EXCEPT !.version = @ + 1] \in Profile
  BY <1>1 DEF ProfilesTypeOK, Profile
<1>. QED
  BY <1>2 DEF ProfilesTypeOK

LEMMA ImportedType ==
  ASSUME ProfilesTypeOK, NEW b \in backups
  PROVE  Imported(b) \in [Id -> Profile]
BY DEF ProfilesTypeOK, Imported, Profile, NoProfile, Roles

LEMMA SnapshotType ==
  ASSUME ProfilesTypeOK
  PROVE  Snapshot \in [Id -> [name : Names \cup {NoName}, role : Roles, active : BOOLEAN]]
BY DEF ProfilesTypeOK, Snapshot, Profile

\* The step of a participant's row, whoever asks for it.
PeopleStep ==
  \/ \E n \in Names, r \in Roles : Create(n, r)
  \/ \E id \in Id : Delete(id) \/ ChangePIN(id)
  \/ ResetAccount
  \/ Export
  \/ \E b \in backups : Import(b)
  \/ UNCHANGED profileVars

LEMMA PeopleType ==
  ASSUME ProfilesTypeOK, PeopleStep
  PROVE  ProfilesTypeOK'
<1>1. ASSUME NEW n \in Names, NEW r \in Roles, Create(n, r)
      PROVE  ProfilesTypeOK'
  <2>1. [name |-> n, role |-> r, active |-> TRUE, version |-> 0] \in Profile
    BY DEF Profile
  <2>2. people' \in [Id -> Profile]
    BY <1>1, <2>1 DEF Create, ProfilesTypeOK
  <2>. QED
    BY <1>1, <2>2 DEF Create, historyKept, ProfilesTypeOK
<1>2. ASSUME NEW id \in Id, Delete(id)
      PROVE  ProfilesTypeOK'
  BY <1>2 DEF Delete, historyKept, ProfilesTypeOK, Profile
<1>3. ASSUME NEW id \in Id, ChangePIN(id)
      PROVE  ProfilesTypeOK'
  <2>1. people' \in [Id -> Profile]
    BY <1>3, BumpedType DEF ChangePIN
  <2>. QED
    BY <1>3, <2>1, RevokedType DEF ChangePIN, ProfilesTypeOK
<1>4. CASE ResetAccount
  <2>1. people' \in [Id -> Profile]
    BY <1>4, OwnerIsId, BumpedType DEF ResetAccount
  <2>. QED
    BY <1>4, <2>1, RevokedType DEF ResetAccount, ProfilesTypeOK
<1>5. CASE Export
  BY <1>5, SnapshotType DEF Export, ProfilesTypeOK
<1>6. ASSUME NEW b \in backups, Import(b)
      PROVE  ProfilesTypeOK'
  <2>1. people' \in [Id -> Profile]
    BY <1>6, ImportedType DEF Import
  <2>2. seq' \in Id /\ dropped' \in SUBSET Id
    BY <1>6 DEF Import, Known, ProfilesTypeOK
  <2>. QED
    BY <1>6, <2>1, <2>2, RevokedType DEF Import, ProfilesTypeOK
<1>7. CASE UNCHANGED profileVars
  BY <1>7 DEF profileVars, ProfilesTypeOK
<1>. QED
  BY <1>1, <1>2, <1>3, <1>4, <1>5, <1>6, <1>7 DEF PeopleStep

\* A profile without a row has nothing in it.
NamelessAreEmpty == \A id \in Id \ Known(people) : people[id] = NoProfile

LEMMA NamelessStayEmpty ==
  ASSUME ProfilesTypeOK, NamelessAreEmpty, OwnerRemains, PeopleStep
  PROVE  NamelessAreEmpty'
<1>1. ASSUME NEW n \in Names, NEW r \in Roles, Create(n, r)
      PROVE  NamelessAreEmpty'
  <2>1. \A id \in Id : id # seq + 1 => people'[id] = people[id]
    BY <1>1 DEF Create, ProfilesTypeOK
  <2>2. people'[seq + 1].name = n \/ people' = people
    BY <1>1 DEF Create, ProfilesTypeOK
  <2>. QED
    BY <2>1, <2>2, ProfilesAssumption DEF NamelessAreEmpty, Known
<1>2. ASSUME NEW id \in Id, Delete(id)
      PROVE  NamelessAreEmpty'
  <2>1. \A x \in Id : x # id => people'[x] = people[x]
    BY <1>2 DEF Delete, ProfilesTypeOK
  <2>2. people'[id].name = people[id].name
    BY <1>2 DEF Delete, ProfilesTypeOK, Profile
  <2>. QED
    BY <1>2, <2>1, <2>2 DEF Delete, NamelessAreEmpty, Known
<1>3. ASSUME NEW id \in Id, ChangePIN(id)
      PROVE  NamelessAreEmpty'
  <2>1. \A x \in Id : x # id => people'[x] = people[x]
    BY <1>3 DEF ChangePIN, ProfilesTypeOK
  <2>2. people'[id].name = people[id].name
    BY <1>3 DEF ChangePIN, ProfilesTypeOK, Profile
  <2>3. id \in Known(people)
    BY <1>3 DEF ChangePIN, NamelessAreEmpty, NoProfile
  <2>. QED
    BY <2>1, <2>2, <2>3 DEF NamelessAreEmpty, Known
<1>4. CASE ResetAccount
  <2>1. \A x \in Id : x # Owner => people'[x] = people[x]
    BY <1>4 DEF ResetAccount, ProfilesTypeOK
  <2>2. people'[Owner].name = people[Owner].name
    BY <1>4, OwnerIsId DEF ResetAccount, ProfilesTypeOK, Profile
  <2>3. Owner \in Known(people)
    BY OwnerIsId DEF OwnerRemains, Adults, NamelessAreEmpty, NoProfile
  <2>. QED
    BY <2>1, <2>2, <2>3 DEF NamelessAreEmpty, Known
<1>5. CASE Export
  BY <1>5 DEF Export, NamelessAreEmpty, Known
<1>6. ASSUME NEW b \in backups, Import(b)
      PROVE  NamelessAreEmpty'
  <2> SUFFICES ASSUME NEW id \in Id, id \notin Known(people')
               PROVE  people'[id] = NoProfile
    BY DEF NamelessAreEmpty
  <2>1. id \notin Known(b)
    <3> SUFFICES ASSUME id \in Known(b)
                 PROVE  FALSE
      OBVIOUS
    <3>1. people'[id].name = b[id].name
      BY <1>6 DEF Import, Imported
    <3>. QED
      BY <3>1 DEF Known
  <2>. QED
    BY <1>6, <2>1 DEF Import, Imported
<1>7. CASE UNCHANGED profileVars
  BY <1>7 DEF profileVars, NamelessAreEmpty, Known
<1>. QED
  BY <1>1, <1>2, <1>3, <1>4, <1>5, <1>6, <1>7 DEF PeopleStep

\* The owner stays, and the sequence stays above every profile.
LEMMA OwnerStays ==
  ASSUME ProfilesTypeOK, OwnerRemains, PeopleStep
  PROVE  OwnerRemains'
<1>1. ASSUME NEW n \in Names, NEW r \in Roles, Create(n, r)
      PROVE  OwnerRemains'
  <2>1. seq + 1 \in Id /\ seq' = seq + 1 /\ seq \in Nat
    BY <1>1 DEF Create, ProfilesTypeOK, Id
  <2>2. \A id \in Id : id # seq + 1 => people'[id] = people[id]
    BY <1>1 DEF Create, ProfilesTypeOK
  <2>3. Owner <= seq
    BY <2>1, OwnerIsId DEF OwnerRemains, Adults, NoProfile, Id
  <2>4. Owner \in Adults(people')
    BY <2>1, <2>2, <2>3, OwnerIsId DEF OwnerRemains, Adults, Id
  <2>5. \A id \in Id : id > seq' => people'[id] = NoProfile
    BY <2>1, <2>2 DEF OwnerRemains, Id
  <2>. QED
    BY <1>1, <2>4, <2>5 DEF Create, OwnerRemains
<1>2. ASSUME NEW id \in Id, Delete(id)
      PROVE  OwnerRemains'
  <2>1. \A x \in Id : x # id => people'[x] = people[x]
    BY <1>2 DEF Delete, ProfilesTypeOK
  <2>2. Owner \in Adults(people')
    BY <1>2, <2>1 DEF Delete, OwnerRemains, Adults
  <2>3. ~(id > seq)
    BY <1>2, ProfilesAssumption DEF Delete, Known, OwnerRemains, NoProfile
  <2>. QED
    BY <1>2, <2>1, <2>2, <2>3 DEF Delete, OwnerRemains, historyKept
<1>3. ASSUME NEW id \in Id, ChangePIN(id)
      PROVE  OwnerRemains'
  <2>1. \A x \in Id : x # id => people'[x] = people[x]
    BY <1>3 DEF ChangePIN, ProfilesTypeOK
  <2>2. people'[id].active = people[id].active /\ people'[id].role = people[id].role
    BY <1>3 DEF ChangePIN, ProfilesTypeOK, Profile
  <2>3. ~(id > seq)
    BY <1>3 DEF ChangePIN, OwnerRemains, NoProfile
  <2>4. Owner \in Adults(people')
    BY <2>1, <2>2 DEF OwnerRemains, Adults
  <2>. QED
    BY <1>3, <2>1, <2>3, <2>4 DEF ChangePIN, OwnerRemains
<1>4. CASE ResetAccount
  <2>1. \A x \in Id : x # Owner => people'[x] = people[x]
    BY <1>4 DEF ResetAccount, ProfilesTypeOK
  <2>2. people'[Owner].active = people[Owner].active /\ people'[Owner].role = people[Owner].role
    BY <1>4, OwnerIsId DEF ResetAccount, ProfilesTypeOK, Profile
  <2>3. ~(Owner > seq)
    BY OwnerIsId DEF OwnerRemains, Adults, NoProfile
  <2>4. Owner \in Adults(people')
    BY <2>2 DEF OwnerRemains, Adults
  <2>. QED
    BY <1>4, <2>1, <2>3, <2>4 DEF ResetAccount, OwnerRemains
<1>5. CASE Export
  <2>1. Owner \in Adults(Snapshot)
    BY OwnerIsId DEF OwnerRemains, Adults, Snapshot
  <2>. QED
    BY <1>5, <2>1 DEF Export, OwnerRemains
<1>6. ASSUME NEW b \in backups, Import(b)
      PROVE  OwnerRemains'
  <2>1. \A id \in Id : id > seq' => id \notin Known(b)
    BY <1>6 DEF Import, Last, Known, Id
  <2>2. \A id \in Id : id > seq' => people'[id] = NoProfile
    BY <1>6, <2>1 DEF Import, Imported
  <2>3. Owner \in Known(b)
    BY <1>6 DEF Import, Importable
  <2>4. Owner \in Adults(people')
    BY <1>6, <2>3, OwnerIsId DEF Import, Importable, Imported, Adults
  <2>. QED
    BY <1>6, <2>2, <2>4 DEF Import, OwnerRemains
<1>7. CASE UNCHANGED profileVars
  BY <1>7 DEF profileVars, OwnerRemains, Adults
<1>. QED
  BY <1>1, <1>2, <1>3, <1>4, <1>5, <1>6, <1>7 DEF PeopleStep

\* Versions go on counting revocations, except of ids that an import drops.
LEMMA PeopleAreCounted ==
  ASSUME ProfilesTypeOK, PeopleCount, NamelessAreEmpty, OwnerRemains, PeopleStep
  PROVE  PeopleCount' /\ dropped \subseteq dropped'
<1>1. ASSUME NEW n \in Names, NEW r \in Roles, Create(n, r)
      PROVE  PeopleCount' /\ dropped \subseteq dropped'
  <2>1. seq + 1 \in Id /\ seq + 1 > seq
    BY <1>1 DEF Create, ProfilesTypeOK, Id
  <2>2. people[seq + 1].version = 0
    BY <2>1 DEF OwnerRemains, NoProfile
  <2>. QED
    BY <1>1, <2>1, <2>2 DEF Create, historyKept, PeopleCount, ProfilesTypeOK
<1>2. ASSUME NEW id \in Id, Delete(id)
      PROVE  PeopleCount' /\ dropped \subseteq dropped'
  BY <1>2 DEF Delete, historyKept, PeopleCount, ProfilesTypeOK, Profile
<1>3. ASSUME NEW id \in Id, ChangePIN(id)
      PROVE  PeopleCount' /\ dropped \subseteq dropped'
  BY <1>3 DEF ChangePIN, Revoked, PeopleCount, ProfilesTypeOK, Profile
<1>4. CASE ResetAccount
  BY <1>4, OwnerIsId DEF ResetAccount, Revoked, PeopleCount, ProfilesTypeOK, Profile
<1>5. CASE Export
  BY <1>5 DEF Export, PeopleCount
<1>6. ASSUME NEW b \in backups, Import(b)
      PROVE  PeopleCount' /\ dropped \subseteq dropped'
  <2> SUFFICES ASSUME NEW id \in Id, id \notin dropped'
               PROVE  people'[id].version = epoch'[id]
    BY <1>6 DEF Import, PeopleCount
  <2>1. id \notin dropped /\ (id \in Known(people) => id \in Known(b))
    BY <1>6 DEF Import
  <2>2. people[id].version = epoch[id]
    BY <2>1 DEF PeopleCount
  <2>3. CASE id \in Known(b)
    <3>1. people[id].name = b[id].name /\ b[id].name # NoName
      BY <1>6, <2>3 DEF Import, Importable, Known
    <3>2. id \in Known(people)
      BY <3>1 DEF Known
    <3>3. epoch'[id] = epoch[id] + 1
      BY <1>6, <3>2 DEF Import, Revoked
    <3>4. people'[id].version = people[id].version + 1
      BY <1>6, <2>3 DEF Import, Imported
    <3>. QED
      BY <2>2, <3>3, <3>4
  <2>4. CASE id \notin Known(b)
    <3>1. id \notin Known(people)
      BY <2>1, <2>4
    <3>2. epoch'[id] = epoch[id]
      BY <1>6, <3>1 DEF Import, Revoked
    <3>3. people'[id].version = 0
      BY <1>6, <2>4 DEF Import, Imported, NoProfile
    <3>4. people[id].version = 0
      BY <3>1 DEF NamelessAreEmpty, NoProfile
    <3>. QED
      BY <2>2, <3>2, <3>3, <3>4
  <2>. QED
    BY <2>3, <2>4
<1>7. CASE UNCHANGED profileVars
  BY <1>7 DEF profileVars, PeopleCount
<1>. QED
  BY <1>1, <1>2, <1>3, <1>4, <1>5, <1>6, <1>7 DEF PeopleStep

-----------------------------------------------------------------------------
(* What the requests preserve.                                              *)

SessionsTypeOK ==
  /\ bearers \in SUBSET Claim
  /\ proofs \in SUBSET Proof
  /\ devices \in [Devices -> Bound]
  /\ grants \in [Grants -> Bound]
  /\ login \in Login
  /\ admin \in Admin

\* A child's sign-in was approved, and management was asked for, by a parent.
ParentsAct ==
  /\ login.pc = "approved" => login.approver.role = "parent"
  /\ admin.pc # "idle" => admin.actor.role = "parent"

\* Claims that a step may bring into the system.
Fresh == {Current(id) : id \in Id} \cup {NoClaim}

\* What every step of a request does to the session variables.
Sound == SessionsTypeOK' /\ ParentsAct' /\ Claims' \subseteq Claims \cup Fresh

LEMMA CurrentType ==
  ASSUME ProfilesTypeOK
  PROVE  \A id \in Id : Current(id) \in Claim
BY DEF ProfilesTypeOK, Profile, Current, Claim

LEMMA NothingTypes ==
  NoClaim \in Claim /\ NoLogin \in Login /\ NoAdmin \in Admin /\ Unbound \in Bound
<1>1. NoClaim \in Claim
  BY OwnerIsId DEF NoClaim, Claim, Roles
<1>. QED
  BY <1>1 DEF NoLogin, Login, NoAdmin, Admin, Unbound, Bound

LEMMA GoneType ==
  ASSUME NEW S, NEW table \in [S -> Bound], NEW keys
  PROVE  /\ Gone(table, keys) \in [S -> Bound]
         /\ \A k \in S : Gone(table, keys)[k].by \in {table[k].by, NoClaim}
<1>1. [state |-> "gone", by |-> NoClaim] \in Bound
  BY NothingTypes DEF Bound
<1>. QED
  BY <1>1 DEF Gone

\* Claims of a login or an admin slot that has been emptied.
LEMMA IdleClaims ==
  /\ NoLogin.owner = NoClaim /\ NoLogin.approver = NoClaim /\ NoLogin.pc = "idle"
  /\ NoAdmin.actor = NoClaim /\ NoAdmin.target = NoClaim /\ NoAdmin.pc = "idle"
BY DEF NoLogin, NoAdmin

LEMMA LoginSound ==
  ASSUME TypeOK, ParentsAct, LoginStep
  PROVE  Sound
<1> USE DEF TypeOK, SessionsTypeOK
<1>1. ASSUME NEW id \in Id, VerifyOwner(id)
      PROVE  Sound
  <2>1. /\ login' \in Login /\ login'.pc = "verified"
        /\ login'.owner = Current(id) /\ login'.approver = NoClaim
    BY <1>1, CurrentType, NothingTypes DEF VerifyOwner, Login, NoLogin
  <2>. QED
    BY <1>1, <2>1 DEF VerifyOwner, Sound, ParentsAct, Claims, Fresh
<1>2. ASSUME NEW previous \in SUBSET Devices, FinishLogin(previous)
      PROVE  Sound
  <2>1. devices' \in [Devices -> Bound] /\ \A d \in Devices : devices'[d].by \in {devices[d].by, NoClaim}
    BY <1>2, GoneType DEF FinishLogin
  <2>2. bearers' \in SUBSET Claim /\ bearers' = bearers \cup {login.owner}
    BY <1>2 DEF FinishLogin, Login
  <2>3. login' = NoLogin
    BY <1>2 DEF FinishLogin
  <2>. QED
    BY <1>2, <2>1, <2>2, <2>3, IdleClaims, NothingTypes DEF FinishLogin, Sound, ParentsAct, Claims, Fresh
<1>3. ASSUME NEW id \in Id, VerifyApprover(id)
      PROVE  Sound
  <2>1. /\ login' \in Login /\ login'.pc = "approved"
        /\ login'.owner = login.owner /\ login'.approver = Current(id)
    BY <1>3, CurrentType DEF VerifyApprover, Login
  <2>2. Current(id).role = "parent"
    BY <1>3 DEF VerifyApprover, Current
  <2>. QED
    BY <1>3, <2>1, <2>2 DEF VerifyApprover, Sound, ParentsAct, Claims, Fresh
<1>4. ASSUME NEW d \in Devices, NEW previous \in SUBSET Devices, CreateDevice(d, previous)
      PROVE  Sound
  <2>1. login' = NoLogin
    BY <1>4 DEF CreateDevice
  <2>2. [state |-> "live", by |-> login.owner] \in Bound
    BY DEF Login, Bound
  <2>3. /\ devices' \in [Devices -> Bound]
        /\ \A x \in Devices : devices'[x].by \in {devices[x].by, NoClaim, login.owner}
    BY <1>4, <2>2, GoneType DEF CreateDevice
  <2>. QED
    BY <1>4, <2>1, <2>3, IdleClaims, NothingTypes DEF CreateDevice, Sound, ParentsAct, Claims, Fresh
<1>5. CASE AbandonLogin
  BY <1>5, IdleClaims, NothingTypes DEF AbandonLogin, Sound, ParentsAct, Claims, Fresh
<1>6. ASSUME NEW id \in Id, AccountSession(id)
      PROVE  Sound
  BY <1>6, CurrentType DEF AccountSession, Sound, ParentsAct, Claims, Fresh
<1>. QED
  BY <1>1, <1>2, <1>3, <1>4, <1>5, <1>6 DEF LoginStep

LEMMA AdminSound ==
  ASSUME TypeOK, ParentsAct, AdminStep
  PROVE  Sound
<1> USE DEF TypeOK, SessionsTypeOK
<1>1. ASSUME NEW c \in bearers \cup {devices[d].by : d \in Devices}, NEW d \in Devices \cup {NoDevice},
             Confirm(c, d)
      PROVE  Sound
  <2>1. c \in Claim
    BY DEF Bound
  <2>2. [id |-> c.id, version |-> c.version, device |-> d, epoch |-> epoch[c.id]] \in Proof
    BY <2>1 DEF Claim, Proof, ProfilesTypeOK
  <2>. QED
    BY <1>1, <2>2 DEF Confirm, Sound, ParentsAct, Claims, Fresh
<1>2. ASSUME NEW c \in bearers \cup {devices[d].by : d \in Devices}, NEW d \in Devices \cup {NoDevice},
             Authenticate(c, d)
      PROVE  Sound
  <2>1. c \in Claim /\ c \in Claims
    BY DEF Bound, Claims
  <2>2. c.role = "parent"
    BY <1>2 DEF Authenticate, ParentRequest
  <2>3. /\ admin' \in Admin /\ admin'.pc = "authenticated"
        /\ admin'.actor = c /\ admin'.target = NoClaim
    BY <1>2, <2>1, NothingTypes DEF Authenticate, Admin, NoAdmin
  <2>. QED
    BY <1>2, <2>1, <2>2, <2>3 DEF Authenticate, Sound, ParentsAct, Claims, Fresh
<1>3. CASE CheckConfirmation
  <2>1. /\ admin' \in Admin /\ admin'.actor = admin.actor /\ admin'.target = admin.target
    BY <1>3 DEF CheckConfirmation, Admin
  <2>. QED
    BY <1>3, <2>1 DEF CheckConfirmation, Sound, ParentsAct, Claims, Fresh
<1>4. CASE AbandonAdmin
  BY <1>4, IdleClaims, NothingTypes DEF AbandonAdmin, Sound, ParentsAct, Claims, Fresh
<1>5. ASSUME NEW id \in Id, UpdatePIN(id)
      PROVE  Sound
  BY <1>5, IdleClaims, NothingTypes DEF UpdatePIN, Sound, ParentsAct, Claims, Fresh
<1>6. ASSUME NEW d \in Devices, RemoveDevice(d)
      PROVE  Sound
  <2>1. devices' \in [Devices -> Bound] /\ \A x \in Devices : devices'[x].by \in {devices[x].by, NoClaim}
    BY <1>6, GoneType DEF RemoveDevice
  <2>. QED
    BY <1>6, <2>1, IdleClaims, NothingTypes DEF RemoveDevice, Sound, ParentsAct, Claims, Fresh
<1>7. ASSUME NEW b \in backups, ImportBackup(b)
      PROVE  Sound
  <2>1. devices' \in [Devices -> Bound] /\ \A x \in Devices : devices'[x].by \in {devices[x].by, NoClaim}
    BY <1>7, GoneType DEF ImportBackup
  <2>2. grants' \in [Grants -> Bound] /\ \A x \in Grants : grants'[x].by \in {grants[x].by, NoClaim}
    BY <1>7, GoneType DEF ImportBackup
  <2>. QED
    BY <1>7, <2>1, <2>2, IdleClaims, NothingTypes DEF ImportBackup, Sound, ParentsAct, Claims, Fresh
<1>8. ASSUME NEW id \in Id, ReadGrantee(id)
      PROVE  Sound
  <2>1. /\ admin' \in Admin /\ admin'.actor = admin.actor /\ admin'.target = Current(id)
    BY <1>8, CurrentType DEF ReadGrantee, Admin
  <2>2. admin.actor.role = "parent"
    BY <1>8 DEF ReadGrantee, ParentsAct
  <2>. QED
    BY <1>8, <2>1, <2>2 DEF ReadGrantee, Sound, ParentsAct, Claims, Fresh
<1>9. ASSUME NEW g \in Grants, InsertGrant(g)
      PROVE  Sound
  <2>1. [state |-> "live", by |-> admin.target] \in Bound
    BY DEF Admin, Bound
  <2>2. /\ grants' \in [Grants -> Bound]
        /\ \A x \in Grants : grants'[x].by \in {grants[x].by, admin.target}
    BY <1>9, <2>1 DEF InsertGrant
  <2>. QED
    BY <1>9, <2>2, IdleClaims, NothingTypes DEF InsertGrant, Sound, ParentsAct, Claims, Fresh
<1>. QED
  BY <1>1, <1>2, <1>3, <1>4, <1>5, <1>6, <1>7, <1>8, <1>9 DEF AdminStep

LEMMA NextSound ==
  ASSUME TypeOK, ParentsAct, [Next]_vars
  PROVE  Sound /\ PeopleStep
<1>1. CASE ProfileStep
  BY <1>1 DEF ProfileStep, sessionVars, Sound, TypeOK, SessionsTypeOK, ParentsAct, Claims, PeopleStep
<1>2. CASE LoginStep
  <2>1. UNCHANGED profileVars
    BY <1>2 DEF LoginStep, VerifyOwner, FinishLogin, VerifyApprover, CreateDevice, AbandonLogin, AccountSession
  <2>. QED
    BY <1>2, <2>1, LoginSound DEF PeopleStep
<1>3. CASE AdminStep
  <2>1. PeopleStep
    BY <1>3 DEF AdminStep, Confirm, Authenticate, CheckConfirmation, AbandonAdmin, UpdatePIN,
                RemoveDevice, ImportBackup, ReadGrantee, InsertGrant, PeopleStep
  <2>. QED
    BY <1>3, <2>1, AdminSound
<1>4. ASSUME NEW d \in Devices, DeviceEnds(d)
      PROVE  Sound /\ PeopleStep
  <2>1. devices' \in [Devices -> Bound] /\ \A x \in Devices : devices'[x].by \in {devices[x].by, NoClaim}
    BY <1>4, GoneType DEF DeviceEnds, TypeOK
  <2>. QED
    BY <1>4, <2>1 DEF DeviceEnds, PeopleStep, Sound, TypeOK, SessionsTypeOK, ParentsAct, Claims, Fresh
<1>5. ASSUME NEW g \in Grants, GrantEnds(g)
      PROVE  Sound /\ PeopleStep
  <2>1. grants' \in [Grants -> Bound] /\ \A x \in Grants : grants'[x].by \in {grants[x].by, NoClaim}
    BY <1>5, GoneType DEF GrantEnds, TypeOK
  <2>. QED
    BY <1>5, <2>1 DEF GrantEnds, PeopleStep, Sound, TypeOK, SessionsTypeOK, ParentsAct, Claims, Fresh
<1>6. CASE TokenEnds
  BY <1>6 DEF TokenEnds, PeopleStep, Sound, TypeOK, SessionsTypeOK, ParentsAct, Claims
<1>7. CASE UNCHANGED vars
  BY <1>7 DEF vars, sessionVars, PeopleStep, Sound, TypeOK, SessionsTypeOK, ParentsAct, Claims
<1>. QED
  BY <1>1, <1>2, <1>3, <1>4, <1>5, <1>6, <1>7 DEF Next

-----------------------------------------------------------------------------
\* The inductive invariant.
IInv == TypeOK /\ OwnerRemains /\ NamelessAreEmpty /\ VersionsCount /\ ParentsAct

LEMMA InitInv == Init => IInv
<1> SUFFICES ASSUME Init
             PROVE  IInv
  OBVIOUS
<1> USE DEF Init, ProfilesInit
<1>1. PICK n \in Names : people =
        [id \in Id |-> IF id = Owner
                       THEN [name |-> n, role |-> "parent", active |-> TRUE, version |-> 0]
                       ELSE NoProfile]
  OBVIOUS
<1>2. TypeOK
  <2>1. people \in [Id -> Profile]
    BY <1>1 DEF Profile, NoProfile, Roles
  <2>2. 0 \in 0 .. MaxRevocations
    BY ProfilesAssumption
  <2>. QED
    BY <2>1, <2>2, OwnerIsId, NothingTypes DEF TypeOK, ProfilesTypeOK
<1>3. OwnerRemains
  BY <1>1, OwnerIsId DEF OwnerRemains, Adults, Id
<1>4. NamelessAreEmpty
  BY <1>1, ProfilesAssumption DEF NamelessAreEmpty, Known
<1>5. PeopleCount
  BY <1>1 DEF PeopleCount, NoProfile
<1>6. Claims \subseteq {NoClaim}
  BY IdleClaims DEF Claims, Unbound
<1>7. ClaimsCount
  BY <1>6 DEF ClaimsCount, NoClaim
<1>8. ParentsAct
  BY IdleClaims DEF ParentsAct
<1>. QED
  BY <1>2, <1>3, <1>4, <1>5, <1>7, <1>8 DEF IInv, VersionsCount

LEMMA ClaimsAreCounted ==
  ASSUME ProfilesTypeOK, VersionsCount, dropped \subseteq dropped', Claims' \subseteq Claims \cup Fresh
  PROVE  ClaimsCount'
<1> SUFFICES ASSUME NEW c \in Claims'
             PROVE  c.id \in dropped' \/ c.version = c.epoch
  BY DEF ClaimsCount
<1>1. CASE c \in Claims
  BY <1>1 DEF VersionsCount, ClaimsCount
<1>2. CASE c = NoClaim
  BY <1>2 DEF NoClaim
<1>3. ASSUME NEW id \in Id, c = Current(id)
      PROVE  c.id \in dropped' \/ c.version = c.epoch
  BY <1>3 DEF VersionsCount, PeopleCount, Current
<1>. QED
  BY <1>1, <1>2, <1>3 DEF Fresh

LEMMA StepInv == IInv /\ [Next]_vars => IInv'
<1> SUFFICES ASSUME IInv, [Next]_vars
             PROVE  IInv'
  OBVIOUS
<1>1. Sound /\ PeopleStep
  BY NextSound DEF IInv
<1>2. ProfilesTypeOK
  BY DEF IInv, TypeOK
<1>3. TypeOK'
  BY <1>1, <1>2, PeopleType DEF Sound, TypeOK, SessionsTypeOK
<1>4. OwnerRemains' /\ NamelessAreEmpty'
  BY <1>1, <1>2, OwnerStays, NamelessStayEmpty DEF IInv
<1>5. PeopleCount' /\ dropped \subseteq dropped'
  BY <1>1, <1>2, PeopleAreCounted DEF IInv, VersionsCount
<1>6. ClaimsCount'
  BY <1>1, <1>2, <1>5, ClaimsAreCounted DEF Sound, IInv
<1>. QED
  BY <1>1, <1>3, <1>4, <1>5, <1>6 DEF IInv, Sound, VersionsCount

THEOREM Invariant == Spec => []IInv
BY InitInv, StepInv, PTL DEF Spec

(***************************************************************************)
(* Every table and every request keeps its type.                           *)
(***************************************************************************)
THEOREM TypeCorrect == Spec => []TypeOK
<1>1. IInv => TypeOK
  BY DEF IInv
<1>. QED
  BY <1>1, Invariant, PTL

(***************************************************************************)
(* The owner stays an active adult of the family, in backups too, and new  *)
(* profiles get free ids.                                                  *)
(***************************************************************************)
THEOREM OwnerIsNeverLost == Spec => []OwnerRemains
<1>1. IInv => OwnerRemains
  BY DEF IInv
<1>. QED
  BY <1>1, Invariant, PTL

(***************************************************************************)
(* Session versions, in the table and in every credential, count the       *)
(* revocations of a profile that no import has dropped.                    *)
(***************************************************************************)
THEOREM VersionsAreCounts == Spec => []VersionsCount
<1>1. IInv => VersionsCount
  BY DEF IInv
<1>. QED
  BY <1>1, Invariant, PTL

(***************************************************************************)
(* No credential issued before the last PIN change, account reset or       *)
(* import of its profile is accepted, for any number of devices, grants,   *)
(* profiles and requests in between.                                       *)
(***************************************************************************)
THEOREM Revocation == Spec => []RevocationIsFinal
<1>1. ASSUME IInv
      PROVE  RevocationIsFinal
  <2> SUFFICES ASSUME NEW c \in Accepted, c.id \notin dropped
               PROVE  c.epoch = epoch[c.id]
    BY DEF RevocationIsFinal
  <2>1. c \in Claims /\ Stands(c)
    BY DEF Accepted, Claims, DeviceAccepted, GrantAccepted
  <2>2. c \in Claim
    BY <1>1, <2>1 DEF IInv, TypeOK, Claims, Bound, Login, Admin
  <2>3. people[c.id].version = epoch[c.id]
    BY <1>1, <2>2 DEF IInv, VersionsCount, PeopleCount, Claim
  <2>4. c.version = c.epoch
    BY <1>1, <2>1 DEF IInv, VersionsCount, ClaimsCount
  <2>. QED
    BY <2>1, <2>3, <2>4 DEF Stands
<1>. QED
  BY <1>1, Invariant, PTL

\* A credential that stands now carries the epoch of its profile.
LEMMA StandingIsCurrent ==
  ASSUME IInv, NEW c \in Claims, Stands(c)
  PROVE  c.id \in dropped \/ c.epoch = epoch[c.id]
<1>1. c \in Claim
  BY DEF IInv, TypeOK, Claims, Bound, Login, Admin
<1>. QED
  BY <1>1 DEF IInv, VersionsCount, PeopleCount, ClaimsCount, Claim, Stands

(***************************************************************************)
(* A child's device is only remembered with the PIN its parent has then.   *)
(***************************************************************************)
THEOREM ChildDevices == Spec => ChildDeviceApproved
<1>1. ASSUME IInv, [Next]_vars, NEW d \in Devices,
             devices[d].state # "live", devices'[d].state = "live", devices'[d].by.role = "child"
      PROVE  /\ login.approver.id \in Adults(people)
             /\ login.approver.id \in dropped \/ login.approver.epoch = epoch[login.approver.id]
  <2>1. \A keys : Gone(devices, keys)[d].state # "live"
    BY <1>1 DEF Gone, IInv, TypeOK
  <2>2. devices' # devices /\ \A keys : devices' # Gone(devices, keys)
    BY <1>1, <2>1
  <2>3. PICK x \in Devices, previous \in SUBSET Devices : CreateDevice(x, previous)
    <3>1. ~UNCHANGED devices
      BY <2>2
    <3>. QED
      BY <1>1, <2>2, <3>1 DEF Next, vars, sessionVars, ProfileStep, LoginStep, AdminStep, VerifyOwner,
        FinishLogin, VerifyApprover, AbandonLogin, AccountSession, Confirm, Authenticate,
        CheckConfirmation, AbandonAdmin, UpdatePIN, RemoveDevice, ImportBackup, ReadGrantee,
        InsertGrant, DeviceEnds, GrantEnds, TokenEnds
  <2>4. MayBind /\ devices' = [Gone(devices, previous) EXCEPT ![x] = [state |-> "live", by |-> login.owner]]
    BY <2>2, <2>3 DEF CreateDevice
  <2>5. devices'[d].by = login.owner
    <3>1. Gone(devices, previous) \in [Devices -> Bound]
      BY <1>1, GoneType DEF IInv, TypeOK
    <3>2. d = x
      <4> SUFFICES ASSUME d # x
                   PROVE  FALSE
        OBVIOUS
      <4>1. devices'[d] = Gone(devices, previous)[d]
        BY <2>4, <3>1
      <4>. QED
        BY <1>1, <2>1, <4>1
    <3>. QED
      BY <2>4, <3>1, <3>2
  <2>6. login.owner.role = "child"
    BY <1>1, <2>5
  <2>7. Stands(login.approver) /\ login.approver.role = "parent"
    BY <1>1, <2>3, <2>4, <2>6 DEF CreateDevice, MayBind, IInv, ParentsAct
  <2>8. login.approver \in Claims /\ login.approver.id \in Id
    BY <1>1 DEF Claims, IInv, TypeOK, Login, Claim
  <2>. QED
    BY <1>1, <2>7, <2>8, StandingIsCurrent DEF Stands, Adults
<1>2. ASSUME IInv, [Next]_vars
      PROVE  [\A d \in Devices :
                devices[d].state # "live" /\ devices'[d].state = "live" /\ devices'[d].by.role = "child" =>
                  /\ login.approver.id \in Adults(people)
                  /\ login.approver.id \in dropped \/ login.approver.epoch = epoch[login.approver.id]]_vars
  BY <1>1, <1>2
<1>. QED
  BY <1>2, Invariant, PTL DEF Spec, ChildDeviceApproved

(***************************************************************************)
(* A confirmation only lets a request through while the PIN behind it is   *)
(* current and its device has not been signed out.                         *)
(***************************************************************************)
THEOREM Confirmations == Spec => ConfirmationIsCurrent
<1>1. ASSUME IInv, [Next]_vars, admin.pc = "authenticated", admin'.pc = "checked"
      PROVE  LET id == admin.actor.id IN
             /\ id \in Adults(people)
             /\ id \in dropped \/ admin.actor.epoch = epoch[id]
             /\ admin.device # NoDevice => devices[admin.device].state = "live"
  <2>1. admin' # admin /\ admin'.pc # "idle"
    BY <1>1
  <2>2. CheckConfirmation
    <3>1. \A c, d : ~Authenticate(c, d)
      BY <1>1 DEF Authenticate
    <3>2. \A id : ~ReadGrantee(id)
      BY <1>1 DEF ReadGrantee
    <3>3. admin' # NoAdmin
      BY <2>1, IdleClaims
    <3>. QED
      BY <1>1, <2>1, <3>1, <3>2, <3>3 DEF Next, vars, sessionVars, ProfileStep, LoginStep, AdminStep,
        VerifyOwner, FinishLogin, VerifyApprover, CreateDevice, AbandonLogin, AccountSession, Confirm,
        AbandonAdmin, UpdatePIN, RemoveDevice, ImportBackup, InsertGrant, DeviceEnds, GrantEnds, TokenEnds
  <2>3. /\ Stands(admin.actor)
        /\ admin.device # NoDevice => devices[admin.device].state = "live"
    BY <2>2 DEF CheckConfirmation, Confirms
  <2>4. admin.actor \in Claims /\ admin.actor.id \in Id /\ admin.actor.role = "parent"
    BY <1>1 DEF Claims, IInv, TypeOK, Admin, Claim, ParentsAct
  <2>. QED
    BY <1>1, <2>3, <2>4, StandingIsCurrent DEF Stands, Adults
<1>2. ASSUME IInv, [Next]_vars
      PROVE  [admin.pc = "authenticated" /\ admin'.pc = "checked" =>
                LET id == admin.actor.id IN
                /\ id \in Adults(people)
                /\ id \in dropped \/ admin.actor.epoch = epoch[id]
                /\ admin.device # NoDevice => devices[admin.device].state = "live"]_vars
  BY <1>1, <1>2
<1>. QED
  BY <1>2, Invariant, PTL DEF Spec, ConfirmationIsCurrent
=============================================================================
