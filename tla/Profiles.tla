------------------------------- MODULE Profiles -------------------------------
(***************************************************************************)
(* The participants of one hosted family (table participants) and the      *)
(* transactions that create, remove, revoke, export and import them.  Each *)
(* takes the lock that makes it atomic: service_policy FOR UPDATE, a SHARE *)
(* ROW EXCLUSIVE or an ACCESS EXCLUSIVE table lock, or a single UPDATE.    *)
(*                                                                         *)
(* The subscription (access_until, child_limit) changes at any time and    *)
(* has no other effect here than that Create and Import are refused: a     *)
(* refused operation is a step that does not happen.                       *)
(*                                                                         *)
(* Profile ids come from a sequence; an import sets the sequence back to   *)
(* the largest imported id, so an id may be given out again.               *)
(***************************************************************************)
EXTENDS Naturals, FiniteSets

CONSTANTS
  MaxId,          \* profile ids are 1 .. MaxId
  Names,
  NoName,         \* no such row
  Owner,          \* owner_participant_id of service_policy
  MaxBackups,     \* exports that are kept
  MaxRevocations  \* PIN changes, account resets and imports in a behaviour

ASSUME ProfilesAssumption ==
  /\ MaxId \in Nat \ {0} /\ MaxBackups \in Nat /\ MaxRevocations \in Nat
  /\ Owner \in 1 .. MaxId
  /\ NoName \notin Names

VARIABLES
  people,         \* participants
  seq,            \* last id drawn from the sequence of participants.id
  backups,        \* exported backups, as far as participants go
  epoch,          \* history: revocations of each id, never reset
  dropped,        \* history: ids that an import left out
  revocations     \* how many revoking operations there have been

profileVars == <<people, seq, backups, epoch, dropped, revocations>>

Id == 1 .. MaxId
Roles == {"parent", "child"}
Profile == [name : Names \cup {NoName}, role : Roles, active : BOOLEAN, version : Nat]
NoProfile == [name |-> NoName, role |-> "child", active |-> FALSE, version |-> 0]

Known(ps) == {id \in Id : ps[id].name # NoName}
Adults(ps) == {id \in Id : ps[id].active /\ ps[id].role = "parent"}

ProfilesInit ==
  /\ \E n \in Names : people =
       [id \in Id |-> IF id = Owner
                      THEN [name |-> n, role |-> "parent", active |-> TRUE, version |-> 0]
                      ELSE NoProfile]
  /\ seq = Owner
  /\ backups = {}
  /\ epoch = [id \in Id |-> 0]
  /\ dropped = {}
  /\ revocations = 0

\* Revoking operations advance the history of the ids they revoke.
Revoked(ids) ==
  /\ revocations < MaxRevocations
  /\ revocations' = revocations + 1
  /\ epoch' = [id \in Id |-> IF id \in ids THEN epoch[id] + 1 ELSE epoch[id]]

historyKept == UNCHANGED <<epoch, dropped, revocations>>

\* CreateParticipant: new rows have session_version 0; a name that is taken,
\* by an inactive profile too, costs an id.
Create(name, role) ==
  /\ seq + 1 \in Id
  /\ seq' = seq + 1
  /\ \/ /\ \A id \in Id : people[id].name # name
        /\ people' = [people EXCEPT ![seq + 1] =
             [name |-> name, role |-> role, active |-> TRUE, version |-> 0]]
     \/ /\ \E id \in Id : people[id].name = name
        /\ UNCHANGED people
  /\ UNCHANGED backups /\ historyKept

\* Mutant: only the last active parent is protected.
DeleteOwnerToo(id) ==
  /\ id \in Known(people)
  /\ Adults(people) # {id}
  /\ people' = [people EXCEPT ![id].active = FALSE]
  /\ UNCHANGED <<seq, backups>> /\ historyKept

\* DeleteParticipant keeps the row: the owner and the last active parent stay.
Delete(id) ==
  /\ id \in Known(people) /\ id # Owner
  /\ Adults(people) # {id}
  /\ people' = [people EXCEPT ![id].active = FALSE]
  /\ UNCHANGED <<seq, backups>> /\ historyKept

\* UpdateParticipantPIN
ChangePIN(id) ==
  /\ people[id].active
  /\ people' = [people EXCEPT ![id].version = @ + 1]
  /\ Revoked({id})
  /\ UNCHANGED <<seq, backups, dropped>>

\* Mutant: the password is replaced, open sessions are forgotten.
ResetAccountPasswordOnly ==
  /\ Revoked({Owner})
  /\ UNCHANGED <<people, seq, backups, dropped>>

\* ResetAccount: an operator's recovery of the owner's account.
ResetAccount ==
  /\ people' = [people EXCEPT ![Owner].version = @ + 1]
  /\ Revoked({Owner})
  /\ UNCHANGED <<seq, backups, dropped>>

\* ExportBackup reads one snapshot; PINs and session versions stay behind.
Snapshot == [id \in Id |-> [name |-> people[id].name, role |-> people[id].role,
                            active |-> people[id].active]]

Export ==
  /\ Cardinality(backups) < MaxBackups
  /\ backups' = backups \cup {Snapshot}
  /\ UNCHANGED <<people, seq, epoch, dropped, revocations>>

(***************************************************************************)
(* ImportBackup keeps the PIN of a profile with the same id, name and      *)
(* role; without one the import fails.  Versions go on from the current    *)
(* ones.                                                                   *)
(***************************************************************************)
Importable(b) ==
  /\ Owner \in Known(b) \cap Adults(b)
  /\ \A id \in Known(b) : people[id].name = b[id].name /\ people[id].role = b[id].role

\* Mutant: the version of a kept profile is restored as it is.
ImportedKeepingVersions(b) ==
  [id \in Id |-> IF id \in Known(b)
                 THEN [name |-> b[id].name, role |-> b[id].role, active |-> b[id].active,
                       version |-> people[id].version]
                 ELSE NoProfile]

Imported(b) ==
  [id \in Id |-> IF id \in Known(b)
                 THEN [name |-> b[id].name, role |-> b[id].role, active |-> b[id].active,
                       version |-> people[id].version + 1]
                 ELSE NoProfile]

\* resetSequences
Last(id, b) == \A other \in Known(b) : other <= id

Import(b) ==
  /\ Importable(b)
  /\ people' = Imported(b)
  /\ \E id \in Known(b) : Last(id, b) /\ seq' = id
  /\ dropped' = dropped \cup (Known(people) \ Known(b))
  /\ Revoked(Known(people))
  /\ UNCHANGED backups

ProfilesTypeOK ==
  /\ people \in [Id -> Profile]
  /\ seq \in Id
  /\ backups \in SUBSET [Id -> [name : Names \cup {NoName}, role : Roles, active : BOOLEAN]]
  /\ epoch \in [Id -> Nat]
  /\ dropped \in SUBSET Id
  /\ revocations \in 0 .. MaxRevocations

(***************************************************************************)
(* Whatever is removed, restored or created, the family keeps its owner as *)
(* an active adult, and a profile without a row holds nothing: ids above   *)
(* the sequence are free, so a new profile never overwrites one.           *)
(***************************************************************************)
OwnerRemains ==
  /\ Owner \in Adults(people)
  /\ \A b \in backups : Owner \in Adults(b)
  /\ \A id \in Id : id > seq => people[id] = NoProfile
=============================================================================
