------------------------ MODULE ResourceSharingProofs ------------------------
(***************************************************************************)
(* Sharing of a resource is correct for every set of users, administrators *)
(* and group members, and every bound on the ledger.                       *)
(***************************************************************************)
EXTENDS ResourceSharing, ProvenanceFacts

(* Before its creation and after its deletion a resource has no rows. *)
Dormant ==
    stage # "live" => \A u \in User : row[u] = NoRow /\ ledger[u] = <<>>

(* The inductive invariant.  HolderOnceOwned needs LedgerMatch, because a    *)
(* quota holder is chosen by row and remembered by record.                   *)
IInv ==
    /\ TypeOK
    /\ Dormant
    /\ LedgerMatch
    /\ OwnerRemains
    /\ HolderOnceOwned

LEMMA TablesTyped == TypeOK => TablesTypeOK
  BY DEF TypeOK

LEMMA Codes ==
    /\ CHANGE..NONE \subseteq Privilege
    /\ NONE \in CHANGE..NONE
    /\ Grantable \subseteq Privilege
  BY DEF Privilege, Grantable, OWNER, CHANGE, VIEW, NONE

-----------------------------------------------------------------------------
(* The steps by what they do to the tables. *)

(* A request that posts one record for u, made by a; the rest of the state   *)
(* stays.                                                                    *)
Posting(a, u) ==
    \/ \E p \in Grantable : ShareResourceWithUser(a, u, p)
    \/ UnshareResourceWithUser(a, u)
    \/ UndoShareResourceWithUser(a, u)

Quiet == UNCHANGED <<stage, tables>>

(* Every step creates the resource, deletes it, posts a record or leaves the *)
(* tables alone.                                                             *)
LEMMA StepKinds ==
    ASSUME [Next]_vars
    PROVE  \/ \E a \in User : CreateResource(a)
           \/ \E a \in User : DeleteResource(a)
           \/ \E a, u \in User : Posting(a, u)
           \/ Quiet
  <1>. USE DEF Quiet
  <1>1. CASE UNCHANGED vars
    BY <1>1 DEF vars, others
  <1>2. ASSUME NEW a \in User, NEW value \in BOOLEAN,
               SetShareable(a, value) \/ SetUserActive(a, value)
        PROVE  Quiet
    BY <1>2 DEF SetShareable, SetUserActive
  <1>3. ASSUME NEW a \in User, PublishResource(a) \/ CreateNewVersion(a)
        PROVE  Quiet
    BY <1>3 DEF PublishResource, CreateNewVersion
  <1>4. ASSUME NEW a \in User, NEW u \in User,
               SetQuotaHolder(a, u) \/ LoseQuotaHolder(a, u)
        PROVE  Quiet
    BY <1>4 DEF SetQuotaHolder, LoseQuotaHolder, others
  <1>5. CASE DeleteNewVersion
    BY <1>5 DEF DeleteNewVersion
  <1>6. ASSUME NEW u \in GroupMember, NEW p \in CHANGE..NONE,
               ChangeGroupAccess(u, p)
        PROVE  Quiet
    BY <1>6 DEF ChangeGroupAccess
  <1>. QED
    BY <1>1, <1>2, <1>3, <1>4, <1>5, <1>6 DEF Next, Posting

(* What the three requests that post a record have in common. *)
LEMMA PostingPosts ==
    ASSUME TypeOK, NEW a \in User, NEW u \in User, Posting(a, u)
    PROVE  /\ stage = "live"
           /\ UNCHANGED <<others, quotaHolder>>
           /\ \E r \in Record : Posts(u, r)
  <1>1. ASSUME NEW p \in Grantable, ShareResourceWithUser(a, u, p)
        PROVE  \E r \in Record : Posts(u, r)
    BY <1>1, TablesTyped, GrantPosts, Codes DEF ShareResourceWithUser
  <1>2. ASSUME UnshareResourceWithUser(a, u)
        PROVE  \E r \in Record : Posts(u, r)
    BY <1>2, TablesTyped, GrantPosts, PrivilegeCodes DEF UnshareResourceWithUser
  <1>3. ASSUME UndoShareResourceWithUser(a, u)
        PROVE  \E r \in Record : Posts(u, r)
    BY <1>3, TablesTyped, RollbackPosts DEF UndoShareResourceWithUser
  <1>. QED
    BY <1>1, <1>2, <1>3
       DEF Posting, ShareResourceWithUser, UnshareResourceWithUser,
           UndoShareResourceWithUser, Live

LEMMA CreatePosts ==
    ASSUME TypeOK, NEW a \in User, CreateResource(a)
    PROVE  /\ GrantRecord(OWNER, a) \in Record
           /\ Posts(a, GrantRecord(OWNER, a))
  BY TablesTyped, GrantPosts, PrivilegeCodes DEF CreateResource

-----------------------------------------------------------------------------
LEMMA InitIInv == Init => IInv
  <1>. SUFFICES ASSUME Init
                PROVE  IInv
    OBVIOUS
  <1>1. TablesTypeOK /\ Dormant
    BY NoRowType DEF Init, EmptyTables, TablesTypeOK, Dormant
  <1>2. viaGroups \in [User -> CHANGE..NONE]
    BY Codes DEF Init
  <1>3. TypeOK
    BY <1>1, <1>2 DEF Init, TypeOK
  <1>4. LedgerMatch /\ OwnerRemains /\ HolderOnceOwned
    BY NoRowType DEF Init, EmptyTables, LedgerMatch, OwnerRemains, HolderOnceOwned
  <1>. QED
    BY <1>1, <1>3, <1>4 DEF IInv

(* The variables beside the tables keep their types. *)
FlagsTypeOK ==
    /\ isActive \in [User -> BOOLEAN]
    /\ stage \in {"none", "live", "deleted"}
    /\ shareable \in BOOLEAN /\ immutable \in BOOLEAN /\ published \in BOOLEAN
    /\ viaGroups \in [User -> CHANGE..NONE]
    /\ quotaHolder \in User \cup {NoUser}

LEMMA FlagsStep ==
    ASSUME TypeOK, [Next]_vars
    PROVE  FlagsTypeOK'
  <1>. USE DEF TypeOK, FlagsTypeOK
  <1>1. CASE UNCHANGED vars
    BY <1>1 DEF vars, others, accessFlags
  <1>2. ASSUME NEW a \in User,
               CreateResource(a) \/ DeleteResource(a)
        PROVE  FlagsTypeOK'
    BY <1>2, Codes DEF CreateResource, DeleteResource, accessFlags
  <1>3. ASSUME NEW a \in User, PublishResource(a) \/ CreateNewVersion(a)
        PROVE  FlagsTypeOK'
    BY <1>3 DEF PublishResource, CreateNewVersion
  <1>4. ASSUME NEW a \in User, NEW value \in BOOLEAN,
               SetShareable(a, value) \/ SetUserActive(a, value)
        PROVE  FlagsTypeOK'
    BY <1>4 DEF SetShareable, SetUserActive, accessFlags
  <1>5. ASSUME NEW a \in User, NEW u \in User, Posting(a, u)
        PROVE  FlagsTypeOK'
    BY <1>5, PostingPosts DEF others, accessFlags
  <1>6. ASSUME NEW a \in User, NEW u \in User,
               SetQuotaHolder(a, u) \/ LoseQuotaHolder(a, u)
        PROVE  FlagsTypeOK'
    BY <1>6 DEF SetQuotaHolder, LoseQuotaHolder, others, accessFlags
  <1>7. CASE DeleteNewVersion
    BY <1>7 DEF DeleteNewVersion
  <1>8. ASSUME NEW u \in GroupMember, NEW p \in CHANGE..NONE,
               ChangeGroupAccess(u, p)
        PROVE  FlagsTypeOK'
    BY <1>8 DEF ChangeGroupAccess, accessFlags
  <1>. QED
    BY <1>1, <1>2, <1>3, <1>4, <1>5, <1>6, <1>7, <1>8 DEF Next, Posting

LEMMA TablesStep ==
    ASSUME TypeOK, Dormant, LedgerMatch, [Next]_vars
    PROVE  TablesTypeOK' /\ Dormant' /\ LedgerMatch'
  <1>0. TablesTypeOK
    BY TablesTyped
  <1>1. ASSUME NEW a \in User, CreateResource(a)
        PROVE  TablesTypeOK' /\ Dormant' /\ LedgerMatch'
    <2>1. stage' = "live"
      BY <1>1 DEF CreateResource
    <2>. QED
      BY <1>0, <1>1, <2>1, CreatePosts, PostsEffect, PostsKeepsMatch
         DEF TablesTypeOK, Dormant
  <1>2. ASSUME NEW a \in User, DeleteResource(a)
        PROVE  TablesTypeOK' /\ Dormant' /\ LedgerMatch'
    BY <1>2, NoRowType
       DEF DeleteResource, ClearTables, TablesTypeOK, Dormant, LedgerMatch
  <1>3. ASSUME NEW a \in User, NEW u \in User, Posting(a, u)
        PROVE  TablesTypeOK' /\ Dormant' /\ LedgerMatch'
    <2>1. PICK r \in Record : Posts(u, r)
      BY <1>3, PostingPosts
    <2>2. stage' = "live"
      BY <1>3, PostingPosts DEF others
    <2>. QED
      BY <1>0, <2>1, <2>2, PostsEffect, PostsKeepsMatch DEF TablesTypeOK, Dormant
  <1>4. CASE Quiet
    BY <1>0, <1>4 DEF Quiet, tables, TablesTypeOK, Dormant, LedgerMatch
  <1>. QED
    BY <1>1, <1>2, <1>3, <1>4, StepKinds

-----------------------------------------------------------------------------
(* Ownership. *)

(* An active user with an owner's row who is not alone has a fellow owner. *)
LEMMA FellowOwner ==
    ASSUME NEW u \in User, isActive[u], OwnsResource(u), ~OneOwner
    PROVE  \E o \in User \ {u} : OwnsResource(o)
  BY DEF OwnsResource, OneOwner, SoleOwner, Owners

(* An owner's privilege is not limited by the immutable flag. *)
LEMMA OwnerIsEffective ==
    ASSUME NEW u \in User, OwnsResource(u)
    PROVE  EffectiveUserPrivilege(u) = OWNER
  BY DEF OwnsResource, EffectiveUserPrivilege, Limited, OWNER, CHANGE

(* No request takes the last ownership: either u's new privilege is OWNER,   *)
(* or somebody else owns the resource.                                       *)
LEMMA PostingLeavesOwner ==
    ASSUME TypeOK, OwnerRemains, NEW a \in User, NEW u \in User, Posting(a, u)
    PROVE  \E r \in Record :
             /\ Posts(u, r)
             /\ r.privilege = OWNER \/ \E o \in User \ {u} : OwnsResource(o)
  <1>0. stage = "live" /\ (~OwnsResource(u) => \E o \in User \ {u} : OwnsResource(o))
    BY PostingPosts DEF OwnerRemains
  <1>1. ASSUME NEW p \in Grantable, ShareResourceWithUser(a, u, p)
        PROVE  \E r \in Record :
                 /\ Posts(u, r)
                 /\ r.privilege = OWNER \/ \E o \in User \ {u} : OwnsResource(o)
    <2>1. /\ GrantRecord(p, a) \in Record /\ Posts(u, GrantRecord(p, a))
          /\ GrantRecord(p, a).privilege = p
      BY <1>1, TablesTyped, GrantPosts, Codes
         DEF ShareResourceWithUser, GrantRecord
    <2>2. OwnsResource(u) /\ p # OWNER => isActive[u] /\ ~OneOwner
      BY <1>1, OwnerIsEffective
         DEF ShareResourceWithUser, CheckShareResource, Live
    <2>. QED
      BY <1>0, <2>1, <2>2, FellowOwner
  <1>2. ASSUME UnshareResourceWithUser(a, u)
        PROVE  \E r \in Record :
                 Posts(u, r) /\ \E o \in User \ {u} : OwnsResource(o)
    <2>1. OwnsResource(u) => \E o \in User \ {u} : OwnsResource(o)
      BY <1>2 DEF UnshareResourceWithUser, CheckUnshareResource
    <2>. QED
      BY <1>0, <1>2, <2>1, PostingPosts DEF Posting
  <1>3. ASSUME UndoShareResourceWithUser(a, u)
        PROVE  \E r \in Record :
                 Posts(u, r) /\ \E o \in User \ {u} : OwnsResource(o)
    <2>1. isActive[u] /\ u \in ResourceUndoUsers(a)
      BY <1>3 DEF UndoShareResourceWithUser, Live
    <2>2. OwnsResource(u) => ~OneOwner
      BY <2>1 DEF ResourceUndoUsers, Owners, OwnsResource
    <2>. QED
      BY <1>0, <1>3, <2>1, <2>2, FellowOwner, PostingPosts DEF Posting
  <1>. QED
    BY <1>1, <1>2, <1>3 DEF Posting

LEMMA OwnerStep ==
    ASSUME TypeOK, OwnerRemains, [Next]_vars
    PROVE  OwnerRemains'
  <1>0. TablesTypeOK
    BY TablesTyped
  <1>1. ASSUME NEW a \in User, CreateResource(a)
        PROVE  OwnerRemains'
    <2>1. row'[a].privilege = OWNER
      BY <1>0, <1>1, CreatePosts, PostsEffect DEF GrantRecord
    <2>. QED
      BY <2>1 DEF OwnerRemains, OwnsResource
  <1>2. ASSUME NEW a \in User, DeleteResource(a)
        PROVE  OwnerRemains'
    BY <1>2 DEF DeleteResource, OwnerRemains
  <1>3. ASSUME NEW a \in User, NEW u \in User, Posting(a, u)
        PROVE  OwnerRemains'
    <2>1. PICK r \in Record :
             /\ Posts(u, r)
             /\ r.privilege = OWNER \/ \E o \in User \ {u} : OwnsResource(o)
      BY <1>3, PostingLeavesOwner
    <2>. QED
      BY <1>0, <2>1, PostsEffect DEF OwnerRemains, OwnsResource
  <1>4. CASE Quiet
    BY <1>4 DEF Quiet, tables, OwnerRemains, OwnsResource
  <1>. QED
    BY <1>1, <1>2, <1>3, <1>4, StepKinds

-----------------------------------------------------------------------------
(* The quota holder. *)

(* A user whose row says OWNER has a record that says so: the last one. *)
LEMMA OwnerHasRecord ==
    ASSUME TypeOK, LedgerMatch, NEW u \in User, OwnsResource(u)
    PROVE  \E i \in DOMAIN ledger[u] : ledger[u][i].privilege = OWNER
  <1>1. ledger[u] \in Seq(Record) /\ row[u] = PostedRow(ledger[u])
    BY DEF TypeOK, TablesTypeOK, LedgerMatch
  <1>2. OWNER # NONE
    BY DEF OWNER, NONE
  <1>3. ledger[u] # <<>>
    BY <1>1, <1>2, NoRowType DEF OwnsResource
  <1>4. CurrentRecord(ledger[u]).privilege = OWNER
    BY <1>1, <1>2, <1>3, NoRowType DEF OwnsResource, PostedRow, UpdatedRow
  <1>. QED
    BY <1>1, <1>3, <1>4 DEF CurrentRecord

(* Ledgers only grow while the resource lives. *)
LEMMA PostingKeepsRecords ==
    ASSUME TypeOK, NEW u \in User, NEW r \in Record, Posts(u, r), NEW v \in User,
           \E i \in DOMAIN ledger[v] : ledger[v][i].privilege = OWNER
    PROVE  \E i \in DOMAIN ledger'[v] : ledger'[v][i].privilege = OWNER
  <1>1. /\ ledger'[u] = Append(ledger[u], r)
        /\ v # u => ledger'[v] = ledger[v]
    BY TablesTyped, PostsEffect
  <1>2. ledger[v] \in Seq(Record)
    BY DEF TypeOK, TablesTypeOK
  <1>3. CASE v = u
    <2>1. PICK i \in 1..Len(ledger[u]) : ledger[u][i].privilege = OWNER
      BY <1>2, <1>3
    <2>2. Append(ledger[u], r)[i] = ledger[u][i] /\ i \in 1..Len(Append(ledger[u], r))
      BY <1>2, <1>3, <2>1, AppendedIsCurrent
    <2>3. DOMAIN Append(ledger[u], r) = 1..Len(Append(ledger[u], r))
      BY <1>2, <1>3, AppendedIsCurrent
    <2>. QED
      BY <1>1, <1>3, <2>1, <2>2, <2>3
  <1>4. CASE v # u
    BY <1>1, <1>4
  <1>. QED
    BY <1>3, <1>4

LEMMA HolderStep ==
    ASSUME TypeOK, LedgerMatch, HolderOnceOwned, [Next]_vars
    PROVE  HolderOnceOwned'
  <1>1. ASSUME NEW a \in User, CreateResource(a)
        PROVE  HolderOnceOwned'
    <2>1. Posts(a, GrantRecord(OWNER, a)) /\ GrantRecord(OWNER, a) \in Record
      BY <1>1, CreatePosts
    <2>2. ledger'[a] = Append(ledger[a], GrantRecord(OWNER, a))
      BY <2>1, TablesTyped, PostsEffect
    <2>3. ledger[a] \in Seq(Record)
      BY DEF TypeOK, TablesTypeOK
    <2>4. /\ Len(ledger'[a]) \in DOMAIN ledger'[a]
          /\ ledger'[a][Len(ledger'[a])].privilege = OWNER
      BY <2>1, <2>2, <2>3, AppendedIsCurrent DEF CurrentRecord, GrantRecord
    <2>. QED
      BY <1>1, <2>4 DEF CreateResource, HolderOnceOwned
  <1>2. ASSUME NEW a \in User, DeleteResource(a)
        PROVE  HolderOnceOwned'
    BY <1>2 DEF DeleteResource, HolderOnceOwned
  <1>3. ASSUME NEW a \in User, NEW u \in User, Posting(a, u)
        PROVE  HolderOnceOwned'
    <2>1. PICK r \in Record : Posts(u, r)
      BY <1>3, PostingPosts
    <2>2. stage' = stage /\ quotaHolder' = quotaHolder
      BY <1>3, PostingPosts DEF others
    <2>3. quotaHolder # NoUser => quotaHolder \in User
      BY DEF TypeOK
    <2>. QED
      BY <2>1, <2>2, <2>3, PostingKeepsRecords DEF HolderOnceOwned
  <1>4. ASSUME NEW a \in User, NEW u \in User,
               SetQuotaHolder(a, u) \/ LoseQuotaHolder(a, u)
        PROVE  HolderOnceOwned'
    BY <1>4, OwnerHasRecord
       DEF SetQuotaHolder, LoseQuotaHolder, Live, others, tables, HolderOnceOwned
  <1>5. CASE UNCHANGED <<stage, quotaHolder, tables>>
    BY <1>5 DEF tables, HolderOnceOwned
  <1>6. ASSUME NEW a \in User, NEW value \in BOOLEAN,
               SetShareable(a, value) \/ SetUserActive(a, value)
        PROVE  UNCHANGED <<stage, quotaHolder, tables>>
    BY <1>6 DEF SetShareable, SetUserActive
  <1>7. ASSUME NEW a \in User, PublishResource(a) \/ CreateNewVersion(a)
        PROVE  UNCHANGED <<stage, quotaHolder, tables>>
    BY <1>7 DEF PublishResource, CreateNewVersion
  <1>8. CASE DeleteNewVersion
    BY <1>5, <1>8 DEF DeleteNewVersion
  <1>9. ASSUME NEW u \in GroupMember, NEW p \in CHANGE..NONE,
               ChangeGroupAccess(u, p)
        PROVE  UNCHANGED <<stage, quotaHolder, tables>>
    BY <1>9 DEF ChangeGroupAccess
  <1>10. CASE UNCHANGED vars
    BY <1>5, <1>10 DEF vars, others
  <1>. QED
    BY <1>1, <1>2, <1>3, <1>4, <1>5, <1>6, <1>7, <1>8, <1>9, <1>10
       DEF Next, Posting

-----------------------------------------------------------------------------
LEMMA InvStep == IInv /\ [Next]_vars => IInv'
  <1>. SUFFICES ASSUME IInv, [Next]_vars
                PROVE  IInv'
    OBVIOUS
  <1>1. FlagsTypeOK' /\ TablesTypeOK' /\ Dormant' /\ LedgerMatch'
    BY FlagsStep, TablesStep DEF IInv
  <1>2. TypeOK'
    BY <1>1 DEF TypeOK, FlagsTypeOK
  <1>3. OwnerRemains' /\ HolderOnceOwned'
    BY OwnerStep, HolderStep DEF IInv
  <1>. QED
    BY <1>1, <1>2, <1>3 DEF IInv

(* The inductive invariant holds of every behaviour. *)
THEOREM Invariance == Spec => []IInv
  BY InitIInv, InvStep, PTL DEF Spec

(* Flags, rows and ledgers stay well-typed, whatever requests arrive. *)
THEOREM TypeCorrect == Spec => []TypeOK
  <1>1. IInv => TypeOK
    BY DEF IInv
  <1>. QED
    BY <1>1, Invariance, PTL

(* The privilege table of a resource is the last word of its ledger. *)
THEOREM TableMatchesLedger == Spec => []LedgerMatch
  <1>1. IInv => LedgerMatch
    BY DEF IInv
  <1>. QED
    BY <1>1, Invariance, PTL

(* No sequence of whole requests leaves a live resource without an owner. *)
THEOREM ResourceKeepsOwner == Spec => []OwnerRemains
  <1>1. IInv => OwnerRemains
    BY DEF IInv
  <1>. QED
    BY <1>1, Invariance, PTL

(* Quota is only ever charged to a user who has owned the resource. *)
THEOREM QuotaChargedToOwners == Spec => []HolderOnceOwned
  <1>1. IInv => HolderOnceOwned
    BY DEF IInv
  <1>. QED
    BY <1>1, Invariance, PTL

-----------------------------------------------------------------------------
(* Only undo parts the quota holder from ownership. *)

HolderKept(u) ==
    (/\ quotaHolder = u /\ OwnsResource(u)
     /\ stage' = "live" /\ ~OwnsResource(u)') =>
        CurrentRecord(ledger'[u]).undone

LEMMA HolderKeptStep ==
    ASSUME TypeOK, [Next]_vars
    PROVE  \A v \in User : HolderKept(v)
  <1>0. TablesTypeOK
    BY TablesTyped
  <1>1. ASSUME NEW a \in User, CreateResource(a)
        PROVE  \A v \in User : HolderKept(v)
    <2>1. /\ row'[a].privilege = OWNER
          /\ \A v \in User \ {a} : row'[v] = row[v]
      BY <1>0, <1>1, CreatePosts, PostsEffect DEF GrantRecord
    <2>. QED
      BY <2>1 DEF HolderKept, OwnsResource
  <1>2. ASSUME NEW a \in User, DeleteResource(a)
        PROVE  \A v \in User : HolderKept(v)
    BY <1>2 DEF DeleteResource, HolderKept
  <1>3. ASSUME NEW a \in User, NEW u \in User, NEW p \in Grantable,
               ShareResourceWithUser(a, u, p)
        PROVE  \A v \in User : HolderKept(v)
    <2>1. /\ row'[u].privilege = p
          /\ \A v \in User \ {u} : row'[v] = row[v]
      BY <1>0, <1>3, GrantChange, Codes DEF ShareResourceWithUser
    <2>2. OwnsResource(u) /\ p # OWNER => quotaHolder # u
      BY <1>3, OwnerIsEffective DEF ShareResourceWithUser, CheckShareResource
    <2>. QED
      BY <2>1, <2>2 DEF HolderKept, OwnsResource
  <1>4. ASSUME NEW a \in User, NEW u \in User, UnshareResourceWithUser(a, u)
        PROVE  \A v \in User : HolderKept(v)
    <2>1. \A v \in User \ {u} : row'[v] = row[v]
      BY <1>0, <1>4, GrantChange, PrivilegeCodes DEF UnshareResourceWithUser
    <2>2. quotaHolder # u
      BY <1>4 DEF UnshareResourceWithUser, CheckUnshareResource
    <2>. QED
      BY <2>1, <2>2 DEF HolderKept, OwnsResource
  <1>5. ASSUME NEW a \in User, NEW u \in User, UndoShareResourceWithUser(a, u)
        PROVE  \A v \in User : HolderKept(v)
    <2>1. /\ RollbackRecord(ledger[u]) \in Record
          /\ ledger'[u] = Append(ledger[u], RollbackRecord(ledger[u]))
          /\ \A v \in User \ {u} : row'[v] = row[v]
      BY <1>0, <1>5, RollbackPosts, PostsEffect DEF UndoShareResourceWithUser
    <2>2. CurrentRecord(ledger'[u]).undone
      BY <1>0, <2>1, AppendedIsCurrent, RollbackRecordType DEF TablesTypeOK
    <2>. QED
      BY <2>1, <2>2 DEF HolderKept, OwnsResource
  <1>6. CASE Quiet
    BY <1>6 DEF Quiet, tables, HolderKept, OwnsResource
  <1>. QED
    BY <1>1, <1>2, <1>3, <1>4, <1>5, <1>6, StepKinds DEF Posting

(* No share or unshare request takes ownership from the quota holder. *)
THEOREM HolderProtected == Spec => HolderKeepsOwnership
  <1>1. TypeOK /\ [Next]_vars => [\A u \in User : HolderKept(u)]_vars
    BY HolderKeptStep
  <1>. QED
    BY <1>1, TypeCorrect, PTL DEF Spec, HolderKeepsOwnership, HolderKept

-----------------------------------------------------------------------------
(* Authority: who can move a privilege, and how far. *)

ChangeAuthorised(u) ==
    (stage = "live" /\ stage' = "live" /\ row'[u] # row[u]) =>
        \/ CurrentRecord(ledger'[u]).undone
        \/ /\ row'[u].privilege > row[u].privilege =>
                \/ ActorOf(u) \in Superuser \cup {u}
                \/ OwnsResource(ActorOf(u))
           /\ row'[u].privilege < row[u].privilege =>
                EffectivePrivilege(ActorOf(u)) <= row'[u].privilege

(* Groups give no ownership, and the flags take none away, so that only      *)
(* administrators and those with an owner's row count as owners.             *)
LEMMA EffectiveOwners ==
    ASSUME TypeOK, NEW a \in User
    PROVE  /\ EffectivePrivilege(a) \in Privilege
           /\ a \in Superuser => EffectivePrivilege(a) = OWNER
           /\ EffectivePrivilege(a) = OWNER => a \in Superuser \/ OwnsResource(a)
  <1>1. row[a].privilege \in 1..4 /\ viaGroups[a] \in 2..4
    BY DEF TypeOK, TablesTypeOK, Row, Privilege, OWNER, CHANGE, NONE
  <1>. QED
    BY <1>1 DEF EffectivePrivilege, EffectiveUserPrivilege, Limited, OwnsResource,
                Privilege, OWNER, CHANGE, VIEW, NONE

(* What the flags take from a stored privilege is a code from CHANGE to VIEW. *)
LEMMA FlagsTake ==
    ASSUME NEW u \in User, u \notin Superuser
    PROVE  \/ EffectiveUserPrivilege(u) = row[u].privilege
           \/ row[u].privilege = 2 /\ EffectiveUserPrivilege(u) = 3
  BY DEF EffectiveUserPrivilege, Limited, CHANGE, VIEW

LEMMA AuthorityStep ==
    ASSUME TypeOK, [Next]_vars
    PROVE  \A u \in User : ChangeAuthorised(u)
  <1>. USE DEF ChangeAuthorised
  <1>0. \A u \in User : row[u].privilege \in 1..4
    BY DEF TypeOK, TablesTypeOK, Row, Privilege, OWNER, NONE
  <1>1. ASSUME NEW a \in User, CreateResource(a)
        PROVE  \A u \in User : ChangeAuthorised(u)
    BY <1>1 DEF CreateResource
  <1>2. ASSUME NEW a \in User, DeleteResource(a)
        PROVE  \A u \in User : ChangeAuthorised(u)
    BY <1>2 DEF DeleteResource
  <1>3. ASSUME NEW a \in User, NEW u \in User, NEW p \in Grantable,
               ShareResourceWithUser(a, u, p)
        PROVE  \A v \in User : ChangeAuthorised(v)
    <2>1. /\ ActorOf(u) = a
          /\ row'[u].privilege = p
          /\ \A v \in User \ {u} : row'[v] = row[v]
      BY TablesTyped, <1>3, GrantChange, Codes DEF ShareResourceWithUser
    <2>2. MayGrant(a, u, p) /\ p \in 1..3
      BY <1>3 DEF ShareResourceWithUser, CheckShareResource, Grantable, OWNER, VIEW
    <2>3. p < row[u].privilege => EffectivePrivilege(a) <= p
      BY <2>2, EffectiveOwners DEF MayGrant, OWNER
    <2>4. p > row[u].privilege => a \in Superuser \cup {u} \/ OwnsResource(a)
      <3>1. CASE a \in Superuser \/ EffectivePrivilege(a) = OWNER
        BY <3>1, EffectiveOwners
      <3>2. CASE u \in Superuser
        <4>1. SUFFICES ASSUME a \notin Superuser, EffectivePrivilege(a) # OWNER,
                              p > row[u].privilege, a # u
                       PROVE  FALSE
          BY EffectiveOwners
        <4>2. EffectiveUserPrivilege(u) = 1
          BY <3>2 DEF EffectiveUserPrivilege, OWNER
        <4>. QED
          BY <1>0, <2>2, <4>1, <4>2 DEF MayGrant
      <3>3. CASE u \notin Superuser
        BY <1>0, <2>2, <3>1, <3>3, FlagsTake DEF MayGrant
      <3>. QED
        BY <3>1, <3>2, <3>3
    <2>. QED
      BY <2>1, <2>3, <2>4
  <1>4. ASSUME NEW a \in User, NEW u \in User, UnshareResourceWithUser(a, u)
        PROVE  \A v \in User : ChangeAuthorised(v)
    <2>1. /\ ActorOf(u) = a
          /\ row'[u].privilege = NONE
          /\ \A v \in User \ {u} : row'[v] = row[v]
      BY TablesTyped, <1>4, GrantChange, PrivilegeCodes DEF UnshareResourceWithUser
    <2>2. a \in Superuser \cup {u} \/ OwnsResource(a)
      BY <1>4 DEF UnshareResourceWithUser, CheckUnshareResource
    <2>3. ~(NONE < row[u].privilege)
      BY <1>0 DEF NONE
    <2>. QED
      BY <2>1, <2>2, <2>3
  <1>5. ASSUME NEW a \in User, NEW u \in User, UndoShareResourceWithUser(a, u)
        PROVE  \A v \in User : ChangeAuthorised(v)
    <2>1. /\ RollbackRecord(ledger[u]) \in Record
          /\ ledger'[u] = Append(ledger[u], RollbackRecord(ledger[u]))
          /\ \A v \in User \ {u} : row'[v] = row[v]
      BY TablesTyped, <1>5, RollbackPosts, PostsEffect DEF UndoShareResourceWithUser
    <2>2. CurrentRecord(ledger'[u]).undone
      BY <2>1, AppendedIsCurrent, RollbackRecordType DEF TypeOK, TablesTypeOK
    <2>. QED
      BY <2>1, <2>2
  <1>6. CASE Quiet
    BY <1>6 DEF Quiet, tables
  <1>. QED
    BY <1>1, <1>2, <1>3, <1>4, <1>5, <1>6, StepKinds DEF Posting

(* Only owners and administrators demote others, and nobody gives away more  *)
(* than the giver effectively has, whatever requests came before.            *)
THEOREM AuthorityRespected == Spec => ChangesAuthorised
  <1>1. TypeOK /\ [Next]_vars => [\A u \in User : ChangeAuthorised(u)]_vars
    BY AuthorityStep
  <1>. QED
    BY <1>1, TypeCorrect, PTL DEF Spec, ChangesAuthorised, ChangeAuthorised

-----------------------------------------------------------------------------
(* Refinement: roles over a resource change as those over an owned thing do. *)

Role == [u \in User |-> row[u].privilege]

LEMMA PostsAssigns ==
    ASSUME TypeOK, NEW u \in User, NEW r \in Record, Posts(u, r)
    PROVE  /\ Role' = [Role EXCEPT ![u] = r.privilege]
           /\ r.privilege \in 1..4
  <1>1. \A v \in User : Role'[v] = IF v = u THEN r.privilege ELSE Role[v]
    BY TablesTyped, PostsEffect DEF Role
  <1>. QED
    BY <1>1 DEF Role, Record, Privilege, OWNER, NONE

LEMMA RefineStep ==
    ASSUME IInv, [Next]_vars
    PROVE  [Owned!Next]_Role
  <1>. USE DEF OWNER, NONE
  <1>0. TypeOK /\ Dormant /\ OwnerRemains
    BY DEF IInv
  <1>1. ASSUME NEW a \in User, CreateResource(a)
        PROVE  Owned!Create(a)
    <2>1. Role' = [Role EXCEPT ![a] = OWNER]
      BY <1>0, <1>1, CreatePosts, PostsAssigns DEF GrantRecord
    <2>2. \A u \in User : Role[u] = 4
      BY <1>0, <1>1, NoRowType DEF CreateResource, Dormant, Role
    <2>. QED
      BY <2>1, <2>2 DEF Owned!Create, Owned!Exists, Role
  <1>2. ASSUME NEW a \in User, DeleteResource(a)
        PROVE  Owned!Destroy
    <2>1. \E u \in User : Role[u] = 1
      BY <1>0, <1>2 DEF DeleteResource, OwnerRemains, OwnsResource, Role
    <2>2. Role' = [u \in User |-> 4]
      BY <1>2, NoRowType DEF DeleteResource, ClearTables, Role
    <2>. QED
      BY <2>1, <2>2 DEF Owned!Destroy, Owned!Exists, Role
  <1>3. ASSUME NEW a \in User, NEW u \in User, Posting(a, u)
        PROVE  \E q \in 1..4 : Owned!Assign(u, q)
    <2>1. PICK r \in Record :
             /\ Posts(u, r)
             /\ r.privilege = OWNER \/ \E o \in User \ {u} : OwnsResource(o)
      BY <1>0, <1>3, PostingLeavesOwner
    <2>2. \E o \in User : Role[o] = 1 /\ (o = u => r.privilege = 1)
      BY <1>0, <1>3, <2>1, PostingPosts DEF OwnerRemains, OwnsResource, Role
    <2>3. Owned!Exists
      BY <2>2 DEF Owned!Exists, Role
    <2>4. Role' = [Role EXCEPT ![u] = r.privilege] /\ r.privilege \in 1..4
      BY <1>0, <2>1, PostsAssigns
    <2>. QED
      BY <2>2, <2>3, <2>4 DEF Owned!Assign, Role
  <1>4. CASE Quiet
    BY <1>4 DEF Quiet, tables, Role
  <1>. QED
    BY <1>0, <1>1, <1>2, <1>3, <1>4, StepKinds DEF Owned!Next

(* Resource sharing implements the abstract owned thing, as group sharing    *)
(* does: one role changes at a time and the last owner keeps ownership.      *)
THEOREM ResourceImplementsOwnedThing == Spec => ImplementsOwnedThing
  <1>1. Init => Owned!Init
    BY NoRowType DEF Init, EmptyTables, Owned!Init, NONE
  <1>2. IInv /\ [Next]_vars => [Owned!Next]_Role
    BY RefineStep
  <1>. QED
    BY <1>1, <1>2, Invariance, PTL
       DEF Spec, ImplementsOwnedThing, Owned!Spec, Role

=============================================================================
