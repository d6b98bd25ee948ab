-------------------------- MODULE GroupSharingProofs --------------------------
(***************************************************************************)
(* Group sharing is correct for every set of users and administrators and  *)
(* every bound on the ledger; and so are the requests and invitations to   *)
(* join, which are steps of group sharing and in which nobody waits twice. *)
(***************************************************************************)
EXTENDS GroupMembership, ProvenanceFacts

(* Before its creation and after its deletion a group has no rows. *)
Dormant ==
    stage # "live" => \A u \in User : row[u] = NoRow /\ ledger[u] = <<>>

(* The inductive invariant.  Each conjunct but the last two needs the types; *)
(* RollbackFaithful and NullGrantorHoldsNothing are about records that were  *)
(* appended earlier and are copied later.                                    *)
IInv ==
    /\ TypeOK
    /\ Dormant
    /\ LedgerMatch
    /\ OwnerRemains
    /\ RollbackFaithful
    /\ NullGrantorHoldsNothing

-----------------------------------------------------------------------------
(* The steps of the specification, by what they write. *)

(* A step posts one record of a live group, creates it, deletes it, or       *)
(* leaves all rows and records alone.                                        *)
LEMMA StepKinds ==
    ASSUME TypeOK, [Next]_vars
    PROVE  \/ \E a \in User : CreateGroup(a)
           \/ \E a \in User : DeleteGroup(a)
           \/ /\ isActive' \in [User -> BOOLEAN]
              /\ active' \in BOOLEAN
              /\ UNCHANGED <<stage, shareable, row, ledger>>
           \/ \E a, u \in User : \E p \in Grantable : ShareGroupWithUser(a, u, p)
           \/ \E a, u \in User : UnshareGroupWithUser(a, u)
           \/ \E a, u \in User : UndoShareGroupWithUser(a, u)
  <1>1. CASE UNCHANGED vars
    BY <1>1 DEF vars, TypeOK, TablesTypeOK
  <1>2. CASE \E a \in User, status \in BOOLEAN : SetGroupActiveStatus(a, status)
    BY <1>2 DEF SetGroupActiveStatus, TypeOK, TablesTypeOK
  <1>3. CASE \E a \in User : DeactivateUser(a)
    BY <1>3 DEF DeactivateUser, TypeOK, TablesTypeOK
  <1>4. CASE \E a \in User : ReactivateUser(a)
    BY <1>4 DEF ReactivateUser, TypeOK, TablesTypeOK
  <1>. QED
    BY <1>1, <1>2, <1>3, <1>4 DEF Next, Request

LEMMA TablesTyped == TypeOK => TablesTypeOK
  BY DEF TypeOK

LEMMA InitIInv == Init => IInv
  <1>. SUFFICES ASSUME Init
                PROVE  IInv
    OBVIOUS
  <1>1. TypeOK /\ Dormant /\ OwnerRemains
    BY NoRowType DEF Init, EmptyTables, TypeOK, TablesTypeOK, Stage, Dormant, OwnerRemains
  <1>2. LedgerMatch
    BY NoRowType DEF Init, EmptyTables, LedgerMatch
  <1>3. RollbackFaithful /\ NullGrantorHoldsNothing
    BY DEF Init, EmptyTables, RollbackFaithful, NullGrantorHoldsNothing
  <1>. QED
    BY <1>1, <1>2, <1>3 DEF IInv

-----------------------------------------------------------------------------
(* One lemma per conjunct of the invariant. *)

LEMMA TypeStep ==
    ASSUME TypeOK, [Next]_vars
    PROVE  TypeOK'
  <1>1. ASSUME NEW a \in User, CreateGroup(a)
        PROVE  TypeOK'
    <2>1. \E r \in Record : Posts(a, r)
      BY TablesTyped, <1>1, GrantPosts, PrivilegeCodes DEF CreateGroup
    <2>. QED
      BY <1>1, <2>1, PostsEffect DEF CreateGroup, TypeOK, TablesTypeOK, Stage
  <1>2. ASSUME NEW a \in User, DeleteGroup(a)
        PROVE  TypeOK'
    BY <1>2, NoRowType DEF DeleteGroup, ClearTables, TypeOK, TablesTypeOK, Stage
  <1>3. ASSUME isActive' \in [User -> BOOLEAN], active' \in BOOLEAN,
               UNCHANGED <<stage, shareable, row, ledger>>
        PROVE  TypeOK'
    BY <1>3 DEF TypeOK, TablesTypeOK
  <1>4. ASSUME NEW a \in User, NEW u \in User, NEW p \in Grantable,
               ShareGroupWithUser(a, u, p)
        PROVE  TypeOK'
    <2>1. \E r \in Record : Posts(u, r)
      BY TablesTyped, <1>4, GrantPosts, PrivilegeCodes DEF ShareGroupWithUser
    <2>. QED
      BY <1>4, <2>1, PostsEffect DEF ShareGroupWithUser, flags, TypeOK, TablesTypeOK
  <1>5. ASSUME NEW a \in User, NEW u \in User, UnshareGroupWithUser(a, u)
        PROVE  TypeOK'
    <2>1. \E r \in Record : Posts(u, r)
      BY TablesTyped, <1>5, GrantPosts, PrivilegeCodes DEF UnshareGroupWithUser
    <2>. QED
      BY <1>5, <2>1, PostsEffect DEF UnshareGroupWithUser, flags, TypeOK, TablesTypeOK
  <1>6. ASSUME NEW a \in User, NEW u \in User, UndoShareGroupWithUser(a, u)
        PROVE  TypeOK'
    <2>1. \E r \in Record : Posts(u, r)
      BY TablesTyped, <1>6, RollbackPosts DEF UndoShareGroupWithUser
    <2>. QED
      BY <1>6, <2>1, PostsEffect DEF UndoShareGroupWithUser, flags, TypeOK, TablesTypeOK
  <1>. QED
    BY <1>1, <1>2, <1>3, <1>4, <1>5, <1>6, StepKinds

LEMMA DormantStep ==
    ASSUME TypeOK, Dormant, [Next]_vars
    PROVE  Dormant'
  <1>1. ASSUME NEW a \in User, CreateGroup(a)
        PROVE  Dormant'
    BY <1>1 DEF CreateGroup, Dormant
  <1>2. ASSUME NEW a \in User, DeleteGroup(a)
        PROVE  Dormant'
    BY <1>2 DEF DeleteGroup, ClearTables, Dormant
  <1>3. ASSUME UNCHANGED <<stage, shareable, row, ledger>>
        PROVE  Dormant'
    BY <1>3 DEF Dormant
  <1>4. ASSUME NEW a \in User, NEW u \in User, NEW p \in Grantable,
               ShareGroupWithUser(a, u, p)
        PROVE  Dormant'
    BY <1>4 DEF ShareGroupWithUser, flags, Dormant
  <1>5. ASSUME NEW a \in User, NEW u \in User, UnshareGroupWithUser(a, u)
        PROVE  Dormant'
    BY <1>5 DEF UnshareGroupWithUser, flags, Dormant
  <1>6. ASSUME NEW a \in User, NEW u \in User, UndoShareGroupWithUser(a, u)
        PROVE  Dormant'
    BY <1>6 DEF UndoShareGroupWithUser, flags, Dormant
  <1>. QED
    BY <1>1, <1>2, <1>3, <1>4, <1>5, <1>6, StepKinds

LEMMA MatchStep ==
    ASSUME TypeOK, LedgerMatch, [Next]_vars
    PROVE  LedgerMatch'
  <1>1. ASSUME NEW a \in User, CreateGroup(a)
        PROVE  LedgerMatch'
    BY TablesTyped, <1>1, GrantPosts, PrivilegeCodes, PostsKeepsMatch
       DEF CreateGroup
  <1>2. ASSUME NEW a \in User, DeleteGroup(a)
        PROVE  LedgerMatch'
    BY <1>2, NoRowType DEF DeleteGroup, ClearTables, LedgerMatch
  <1>3. ASSUME UNCHANGED <<stage, shareable, row, ledger>>
        PROVE  LedgerMatch'
    BY <1>3 DEF LedgerMatch
  <1>4. ASSUME NEW a \in User, NEW u \in User, NEW p \in Grantable,
               ShareGroupWithUser(a, u, p)
        PROVE  LedgerMatch'
    BY TablesTyped, <1>4, GrantPosts, PrivilegeCodes, PostsKeepsMatch
       DEF ShareGroupWithUser
  <1>5. ASSUME NEW a \in User, NEW u \in User, UnshareGroupWithUser(a, u)
        PROVE  LedgerMatch'
    BY TablesTyped, <1>5, GrantPosts, PrivilegeCodes, PostsKeepsMatch
       DEF UnshareGroupWithUser
  <1>6. ASSUME NEW a \in User, NEW u \in User, UndoShareGroupWithUser(a, u)
        PROVE  LedgerMatch'
    BY TablesTyped, <1>6, RollbackPosts, PostsKeepsMatch
       DEF UndoShareGroupWithUser
  <1>. QED
    BY <1>1, <1>2, <1>3, <1>4, <1>5, <1>6, StepKinds

(* The heart of the ownership argument: when u's role is about to change, the *)
(* checks leave either an owner beside u, or u as an owner.  An active user   *)
(* with an owner's row who is not the sole owner has a fellow owner.          *)
LEMMA FellowOwner ==
    ASSUME NEW u \in User, isActive[u], OwnsGroup(u), ~SoleOwner(u)
    PROVE  \E o \in User \ {u} : OwnsGroup(o)
  BY DEF OwnsGroup, SoleOwner, Owners

LEMMA ShareLeavesOwner ==
    ASSUME OwnerRemains, stage = "live",
           NEW a \in User, NEW u \in User, NEW p \in Grantable,
           ShareGroupWithUser(a, u, p)
    PROVE  p = OWNER \/ \E o \in User \ {u} : OwnsGroup(o)
  <1>. SUFFICES ASSUME p # OWNER, OwnsGroup(u)
                PROVE  \E o \in User \ {u} : OwnsGroup(o)
    BY DEF OwnerRemains
  <1>1. isActive[u] /\ ~SoleOwner(u)
    BY DEF ShareGroupWithUser, CheckShareGroup, EffectivePrivilege, OwnsGroup
  <1>. QED
    BY <1>1, FellowOwner

LEMMA UnshareLeavesOwner ==
    ASSUME OwnerRemains, stage = "live",
           NEW a \in User, NEW u \in User, UnshareGroupWithUser(a, u)
    PROVE  \E o \in User \ {u} : OwnsGroup(o)
  <1>1. CASE OwnsGroup(u)
    BY <1>1 DEF UnshareGroupWithUser, CheckUnshareGroup
  <1>2. CASE ~OwnsGroup(u)
    BY <1>2 DEF OwnerRemains
  <1>. QED
    BY <1>1, <1>2

LEMMA UndoLeavesOwner ==
    ASSUME OwnerRemains, stage = "live",
           NEW a \in User, NEW u \in User, UndoShareGroupWithUser(a, u)
    PROVE  \E o \in User \ {u} : OwnsGroup(o)
  <1>1. CASE OwnsGroup(u)
    <2>1. isActive[u] /\ u \in GroupUndoUsers(a)
      BY DEF UndoShareGroupWithUser
    <2>2. u \in Owners
      BY <1>1, <2>1 DEF Owners, OwnsGroup
    <2>3. ~SoleOwner(u)
      BY <2>1, <2>2 DEF GroupUndoUsers
    <2>. QED
      BY <1>1, <2>1, <2>3, FellowOwner
  <1>2. CASE ~OwnsGroup(u)
    BY <1>2 DEF OwnerRemains
  <1>. QED
    BY <1>1, <1>2

LEMMA OwnerStep ==
    ASSUME TypeOK, OwnerRemains, [Next]_vars
    PROVE  OwnerRemains'
  <1>1. ASSUME NEW a \in User, CreateGroup(a)
        PROVE  OwnerRemains'
    <2>1. Posts(a, GrantRecord(OWNER, a)) /\ GrantRecord(OWNER, a) \in Record
      BY TablesTyped, <1>1, GrantPosts, PrivilegeCodes DEF CreateGroup
    <2>2. row'[a].privilege = OWNER
      BY TablesTyped, <2>1, PostsEffect DEF GrantRecord
    <2>. QED
      BY <2>2 DEF OwnerRemains, OwnsGroup
  <1>2. ASSUME NEW a \in User, DeleteGroup(a)
        PROVE  OwnerRemains'
    BY <1>2 DEF DeleteGroup, ClearTables, OwnerRemains
  <1>3. ASSUME UNCHANGED <<stage, shareable, row, ledger>>
        PROVE  OwnerRemains'
    BY <1>3 DEF OwnerRemains, OwnsGroup
  <1>4. ASSUME NEW a \in User, NEW u \in User, NEW p \in Grantable,
               ShareGroupWithUser(a, u, p)
        PROVE  OwnerRemains'
    <2>1. /\ stage = "live"
          /\ GrantRecord(p, a) \in Record
          /\ Posts(u, GrantRecord(p, a))
      BY TablesTyped, <1>4, GrantPosts, PrivilegeCodes DEF ShareGroupWithUser
    <2>2. CASE p = OWNER
      <3>1. row'[u].privilege = OWNER
        BY TablesTyped, <2>1, <2>2, PostsEffect DEF GrantRecord
      <3>. QED
        BY <3>1 DEF OwnerRemains, OwnsGroup
    <2>3. CASE \E o \in User \ {u} : OwnsGroup(o)
      BY TablesTyped, <2>1, <2>3, PostsEffect DEF OwnerRemains, OwnsGroup
    <2>. QED
      BY <1>4, <2>1, <2>2, <2>3, ShareLeavesOwner
  <1>5. ASSUME NEW a \in User, NEW u \in User, UnshareGroupWithUser(a, u)
        PROVE  OwnerRemains'
    <2>1. /\ stage = "live"
          /\ GrantRecord(NONE, a) \in Record
          /\ Posts(u, GrantRecord(NONE, a))
      BY TablesTyped, <1>5, GrantPosts, PrivilegeCodes DEF UnshareGroupWithUser
    <2>2. \E o \in User \ {u} : OwnsGroup(o)
      BY <1>5, <2>1, UnshareLeavesOwner
    <2>. QED
      BY TablesTyped, <2>1, <2>2, PostsEffect DEF OwnerRemains, OwnsGroup
  <1>6. ASSUME NEW a \in User, NEW u \in User, UndoShareGroupWithUser(a, u)
        PROVE  OwnerRemains'
    <2>1. /\ stage = "live"
          /\ RollbackRecord(ledger[u]) \in Record
          /\ Posts(u, RollbackRecord(ledger[u]))
      BY TablesTyped, <1>6, RollbackPosts DEF UndoShareGroupWithUser
    <2>2. \E o \in User \ {u} : OwnsGroup(o)
      BY <1>6, <2>1, UndoLeavesOwner
    <2>. QED
      BY TablesTyped, <2>1, <2>2, PostsEffect DEF OwnerRemains, OwnsGroup
  <1>. QED
    BY <1>1, <1>2, <1>3, <1>4, <1>5, <1>6, StepKinds

LEMMA LedgerStep ==
    ASSUME TypeOK, \A u \in User : WellKept(ledger[u]), [Next]_vars
    PROVE  \A v \in User : WellKept(ledger'[v])
  <1>0. TablesTypeOK
    BY DEF TypeOK
  <1>1. ASSUME NEW a \in User, CreateGroup(a)
        PROVE  \A v \in User : WellKept(ledger'[v])
    BY <1>0, <1>1, GrantKeepsLedgers, PrivilegeCodes DEF CreateGroup
  <1>2. ASSUME NEW a \in User, DeleteGroup(a)
        PROVE  \A v \in User : WellKept(ledger'[v])
    BY <1>2, ClearKeepsLedgers DEF DeleteGroup
  <1>3. ASSUME UNCHANGED <<stage, shareable, row, ledger>>
        PROVE  \A v \in User : WellKept(ledger'[v])
    BY <1>3
  <1>4. ASSUME NEW a \in User, NEW u \in User, NEW p \in Grantable,
               ShareGroupWithUser(a, u, p)
        PROVE  \A v \in User : WellKept(ledger'[v])
    BY <1>0, <1>4, GrantKeepsLedgers, PrivilegeCodes DEF ShareGroupWithUser
  <1>5. ASSUME NEW a \in User, NEW u \in User, UnshareGroupWithUser(a, u)
        PROVE  \A v \in User : WellKept(ledger'[v])
    BY <1>0, <1>5, GrantKeepsLedgers, PrivilegeCodes DEF UnshareGroupWithUser
  <1>6. ASSUME NEW a \in User, NEW u \in User, UndoShareGroupWithUser(a, u)
        PROVE  \A v \in User : WellKept(ledger'[v])
    BY <1>0, <1>6, RollbackKeepsLedgers
       DEF UndoShareGroupWithUser, GroupUndoUsers
  <1>. QED
    BY <1>1, <1>2, <1>3, <1>4, <1>5, <1>6, StepKinds

-----------------------------------------------------------------------------
LEMMA InvStep == IInv /\ [Next]_vars => IInv'
  <1>. SUFFICES ASSUME IInv, [Next]_vars
                PROVE  IInv'
    OBVIOUS
  <1>1. TypeOK' /\ Dormant' /\ LedgerMatch' /\ OwnerRemains'
    BY TypeStep, DormantStep, MatchStep, OwnerStep DEF IInv
  <1>2. (\A u \in User : WellKept(ledger[u]))'
    BY WellKeptLedgers, LedgerStep DEF IInv
  <1>3. RollbackFaithful' /\ NullGrantorHoldsNothing'
    BY <1>2 DEF RollbackFaithful, NullGrantorHoldsNothing, WellKept,
                WellRolled, NullIsNothing
  <1>. QED
    BY <1>1, <1>3 DEF IInv

(* The inductive invariant holds of every behaviour. *)
THEOREM Invariance == Spec => []IInv
  BY InitIInv, InvStep, PTL DEF Spec

(* Rows and ledgers stay well-typed, whatever requests arrive. *)
THEOREM TypeCorrect == Spec => []TypeOK
  <1>1. IInv => TypeOK
    BY DEF IInv
  <1>. QED
    BY <1>1, Invariance, PTL

(* The privilege table is at all times the last word of the ledger.          *)
THEOREM TableMatchesLedger == Spec => []LedgerMatch
  <1>1. IInv => LedgerMatch
    BY DEF IInv
  <1>. QED
    BY <1>1, Invariance, PTL

(* No sequence of whole requests leaves a live group without an owner. *)
THEOREM GroupKeepsOwner == Spec => []OwnerRemains
  <1>1. IInv => OwnerRemains
    BY DEF IInv
  <1>. QED
    BY <1>1, Invariance, PTL

(* Undo backs up by exactly one grant, never by two.                         *)
THEOREM RollbackCorrect == Spec => []RollbackFaithful
  <1>1. IInv => RollbackFaithful
    BY DEF IInv
  <1>. QED
    BY <1>1, Invariance, PTL

(* Undo never posts a null grantor to the table, which forbids it.           *)
THEOREM NoNullGrantorPosted == Spec => []NullGrantorHoldsNothing
  <1>1. IInv => NullGrantorHoldsNothing
    BY DEF IInv
  <1>. QED
    BY <1>1, Invariance, PTL

LEMMA OfferedMayGo == UnshareListSound
  <1>. SUFFICES ASSUME NEW a \in User, isActive[a], NEW u \in GroupUnshareUsers(a)
                PROVE  CheckUnshareGroup(a, u)
    BY DEF UnshareListSound
  <1>1. u \in Members /\ isActive[u] /\ u \in User
    BY DEF GroupUnshareUsers, Members
  <1>2. CASE a \in Superuser \/ OwnsGroup(a)
    <2>1. OwnsGroup(u) => ~SoleOwner(u)
      BY <1>1, <1>2 DEF GroupUnshareUsers, Owners, OwnsGroup
    <2>. QED
      BY <1>1, <1>2, <2>1, FellowOwner DEF CheckUnshareGroup
  <1>3. CASE ~(a \in Superuser \/ OwnsGroup(a))
    BY <1>1, <1>3 DEF GroupUnshareUsers, CheckUnshareGroup
  <1>. QED
    BY <1>2, <1>3

(* Whom a page offers to remove, the request will not refuse: two pieces of  *)
(* code that count owners in different ways agree.                           *)
THEOREM OffersAreKept == Spec => []UnshareListSound
  BY OfferedMayGo, PTL

-----------------------------------------------------------------------------
(* Refinement: roles of a group change as those of an owned thing do. *)

Role == [u \in User |-> row[u].privilege]

LEMMA PostsAssigns ==
    ASSUME TypeOK, NEW u \in User, NEW r \in Record, Posts(u, r)
    PROVE  /\ Role' = [Role EXCEPT ![u] = r.privilege]
           /\ r.privilege \in 1..4
  <1>1. \A v \in User : Role'[v] = IF v = u THEN r.privilege ELSE Role[v]
    BY TablesTyped, PostsEffect DEF Role
  <1>. QED
    BY <1>1 DEF Role, Record, Privilege, OWNER, NONE

LEMMA RefineInit == Init => Owned!Init
  BY NoRowType DEF Init, EmptyTables, Owned!Init, NONE

LEMMA RefineStep ==
    ASSUME IInv, [Next]_vars
    PROVE  [Owned!Next]_Role
  <1>. USE DEF OWNER, NONE
  <1>0. TypeOK /\ Dormant /\ OwnerRemains
    BY DEF IInv
  <1>1. ASSUME NEW a \in User, CreateGroup(a)
        PROVE  Owned!Create(a)
    <2>1. Posts(a, GrantRecord(OWNER, a)) /\ GrantRecord(OWNER, a) \in Record
      BY TablesTyped, <1>0, <1>1, GrantPosts, PrivilegeCodes DEF CreateGroup
    <2>2. Role' = [Role EXCEPT ![a] = OWNER]
      BY <1>0, <2>1, PostsAssigns DEF GrantRecord
    <2>3. \A u \in User : Role[u] = 4
      BY <1>0, <1>1, NoRowType DEF CreateGroup, Dormant, Role
    <2>. QED
      BY <2>2, <2>3 DEF Owned!Create, Owned!Exists, Role
  <1>2. ASSUME NEW a \in User, DeleteGroup(a)
        PROVE  Owned!Destroy
    <2>1. \E u \in User : Role[u] = 1
      BY <1>0, <1>2 DEF DeleteGroup, ClearTables, OwnerRemains, OwnsGroup, Role
    <2>2. Role' = [u \in User |-> 4]
      BY <1>2, NoRowType DEF DeleteGroup, ClearTables, Role
    <2>. QED
      BY <2>1, <2>2 DEF Owned!Destroy, Owned!Exists, Role
  <1>3. ASSUME UNCHANGED <<stage, shareable, row, ledger>>
        PROVE  UNCHANGED Role
    BY <1>3 DEF Role
  <1>4. ASSUME NEW u \in User, NEW r \in Record, Posts(u, r),
               r.privilege = OWNER \/ \E o \in User \ {u} : OwnsGroup(o),
               stage = "live"
        PROVE  Owned!Assign(u, r.privilege)
    <2>1. \E o \in User : Role[o] = 1 /\ (o = u => r.privilege = 1)
      BY <1>0, <1>4 DEF OwnerRemains, OwnsGroup, Role
    <2>2. Owned!Exists
      BY <2>1 DEF Owned!Exists, Role
    <2>3. Role' = [Role EXCEPT ![u] = r.privilege]
      BY <1>0, <1>4, PostsAssigns
    <2>. QED
      BY <2>1, <2>2, <2>3 DEF Owned!Assign, Role
  <1>5. ASSUME NEW a \in User, NEW u \in User, NEW p \in Grantable,
               ShareGroupWithUser(a, u, p)
        PROVE  \E q \in 1..4 : Owned!Assign(u, q)
    <2>1. /\ stage = "live"
          /\ GrantRecord(p, a) \in Record
          /\ Posts(u, GrantRecord(p, a))
          /\ GrantRecord(p, a).privilege = p
      BY TablesTyped, <1>0, <1>5, GrantPosts, PrivilegeCodes
         DEF ShareGroupWithUser, GrantRecord
    <2>. QED
      BY <1>0, <1>4, <1>5, <2>1, ShareLeavesOwner, PostsAssigns
  <1>6. ASSUME NEW a \in User, NEW u \in User, UnshareGroupWithUser(a, u)
        PROVE  \E q \in 1..4 : Owned!Assign(u, q)
    <2>1. /\ stage = "live"
          /\ GrantRecord(NONE, a) \in Record
          /\ Posts(u, GrantRecord(NONE, a))
      BY TablesTyped, <1>0, <1>6, GrantPosts, PrivilegeCodes
         DEF UnshareGroupWithUser
    <2>. QED
      BY <1>0, <1>4, <1>6, <2>1, UnshareLeavesOwner, PostsAssigns
  <1>7. ASSUME NEW a \in User, NEW u \in User, UndoShareGroupWithUser(a, u)
        PROVE  \E q \in 1..4 : Owned!Assign(u, q)
    <2>1. /\ stage = "live"
          /\ RollbackRecord(ledger[u]) \in Record
          /\ Posts(u, RollbackRecord(ledger[u]))
      BY TablesTyped, <1>0, <1>7, RollbackPosts DEF UndoShareGroupWithUser
    <2>. QED
      BY <1>0, <1>4, <1>7, <2>1, UndoLeavesOwner, PostsAssigns
  <1>. QED
    BY <1>0, <1>1, <1>2, <1>3, <1>5, <1>6, <1>7, StepKinds DEF Owned!Next

(* Group sharing implements the abstract owned thing: one role changes at a  *)
(* time and the last owner keeps ownership.                                  *)
THEOREM GroupImplementsOwnedThing == Spec => ImplementsOwnedThing
  <1>1. Init => Owned!Init
    BY RefineInit
  <1>2. IInv /\ [Next]_vars => [Owned!Next]_Role
    BY RefineStep
  <1>. QED
    BY <1>1, <1>2, Invariance, PTL DEF Spec, ImplementsOwnedThing, Owned!Spec, Role

-----------------------------------------------------------------------------
(* Authority: who can move a role, and how far. *)

ChangeAuthorised(u) ==
    (stage = "live" /\ stage' = "live" /\ row'[u] # row[u]) =>
        \/ CurrentRecord(ledger'[u]).undone
        \/ /\ isActive[ActorOf(u)]
           /\ row'[u].privilege > row[u].privilege =>
                ActorOf(u) = u \/ CanChangeGroupFlags(ActorOf(u))
           /\ row'[u].privilege < row[u].privilege =>
                \/ ActorOf(u) \in Superuser
                \/ row[ActorOf(u)].privilege <= row'[u].privilege

LEMMA AuthorityStep ==
    ASSUME TypeOK, [Next]_vars
    PROVE  \A u \in User : ChangeAuthorised(u)
  <1>. USE DEF ChangeAuthorised
  <1>0. \A u \in User : row[u].privilege \in 1..4
    BY DEF TypeOK, TablesTypeOK, Row, Privilege, OWNER, NONE
  <1>1. ASSUME NEW a \in User, CreateGroup(a)
        PROVE  \A u \in User : ChangeAuthorised(u)
    BY <1>1 DEF CreateGroup
  <1>2. ASSUME NEW a \in User, DeleteGroup(a)
        PROVE  \A u \in User : ChangeAuthorised(u)
    BY <1>2 DEF DeleteGroup, ClearTables
  <1>3. ASSUME UNCHANGED <<stage, shareable, row, ledger>>
        PROVE  \A u \in User : ChangeAuthorised(u)
    BY <1>3
  <1>4. ASSUME NEW a \in User, NEW u \in User, NEW p \in Grantable,
               ShareGroupWithUser(a, u, p)
        PROVE  \A v \in User : ChangeAuthorised(v)
    <2>1. /\ ActorOf(u) = a
          /\ row'[u].privilege = p
          /\ \A v \in User \ {u} : row'[v] = row[v]
      BY TablesTyped, <1>4, GrantChange, PrivilegeCodes DEF ShareGroupWithUser
    <2>2. /\ isActive[a] /\ isActive[u]
          /\ MayGrant(a, u, p)
          /\ EffectivePrivilege(a) = row[a].privilege
          /\ EffectivePrivilege(u) = row[u].privilege
      BY <1>4 DEF ShareGroupWithUser, CheckShareGroup, EffectivePrivilege
    <2>3. p > row[u].privilege => a = u \/ CanChangeGroupFlags(a)
      BY <2>2 DEF MayGrant, CanChangeGroupFlags, OwnsGroup
    <2>4. p < row[u].privilege => a \in Superuser \/ row[a].privilege <= p
      BY <1>0, <2>2 DEF MayGrant, Grantable, OWNER, VIEW
    <2>. QED
      BY <2>1, <2>2, <2>3, <2>4
  <1>5. ASSUME NEW a \in User, NEW u \in User, UnshareGroupWithUser(a, u)
        PROVE  \A v \in User : ChangeAuthorised(v)
    <2>1. /\ ActorOf(u) = a
          /\ row'[u].privilege = NONE
          /\ \A v \in User \ {u} : row'[v] = row[v]
      BY TablesTyped, <1>5, GrantChange, PrivilegeCodes
         DEF UnshareGroupWithUser
    <2>2. isActive[a] /\ (a = u \/ CanChangeGroupFlags(a))
      BY <1>5 DEF UnshareGroupWithUser, CheckUnshareGroup, CanChangeGroupFlags
    <2>3. ~(NONE < row[u].privilege)
      BY <1>0 DEF NONE
    <2>. QED
      BY <2>1, <2>2, <2>3
  <1>6. ASSUME NEW a \in User, NEW u \in User, UndoShareGroupWithUser(a, u)
        PROVE  \A v \in User : ChangeAuthorised(v)
    <2>1. /\ RollbackRecord(ledger[u]) \in Record
          /\ ledger'[u] = Append(ledger[u], RollbackRecord(ledger[u]))
          /\ \A v \in User \ {u} : row'[v] = row[v]
      BY TablesTyped, <1>6, RollbackPosts, PostsEffect
         DEF UndoShareGroupWithUser
    <2>2. CurrentRecord(ledger'[u]).undone
      BY <2>1, AppendedIsCurrent, RollbackRecordType DEF TypeOK, TablesTypeOK
    <2>. QED
      BY <2>1, <2>2
  <1>. QED
    BY <1>1, <1>2, <1>3, <1>4, <1>5, <1>6, StepKinds

(* Sharing privilege alone demotes nobody and gives away no more than the    *)
(* giver has, whatever sequence of requests came before.                     *)
THEOREM AuthorityRespected == Spec => ChangesAuthorised
  <1>1. TypeOK /\ [Next]_vars =>
            [\A u \in User : ChangeAuthorised(u)]_vars
    BY AuthorityStep
  <1>. QED
    BY <1>1, TypeCorrect, PTL
       DEF Spec, ChangesAuthorised, ChangeAuthorised

-----------------------------------------------------------------------------
(* Joining a group. *)

(* Two pending requests can stand side by side.                              *)
Apart(r, s) ==
    /\ IsInvitation(r) \/ IsInvitation(s) \/ r.from # s.from
    /\ IsInvitation(r) => r.invitee # s.invitee

(* The same as OnePending, of any history of requests.                       *)
OneEach(h) ==
    \A i, j \in DOMAIN h : (i # j /\ ~h[i].redeemed /\ ~h[j].redeemed) => Apart(h[i], h[j])

LEMMA OnePendingForm == /\ OnePending <=> OneEach(requests)
                        /\ OnePending' <=> OneEach(requests')
BY DEF OnePending, OneEach, Apart

-----------------------------------------------------------------------------
(* Histories of requests. *)

LEMMA JoinerType ==
    ASSUME NEW r \in MembershipRequest
    PROVE  Joiner(r) \in User
BY DEF Joiner, IsInvitation, MembershipRequest

LEMMA AppendOne ==
    ASSUME NEW h \in Seq(MembershipRequest), OneEach(h), NEW r \in MembershipRequest,
           \A i \in DOMAIN h : (~r.redeemed /\ ~h[i].redeemed) => Apart(r, h[i]) /\ Apart(h[i], r)
    PROVE  Append(h, r) \in Seq(MembershipRequest) /\ OneEach(Append(h, r))
<1> DEFINE k == Append(h, r)
<1>0. Len(h) \in Nat /\ DOMAIN h = 1..Len(h)
  OBVIOUS
<1>1. /\ k \in Seq(MembershipRequest) /\ DOMAIN k = 1..(Len(h) + 1)
      /\ k[Len(h) + 1] = r
      /\ \A i \in 1..Len(h) : k[i] = h[i]
  OBVIOUS
<1> HIDE DEF k
<1>2. \A i \in DOMAIN k : i = Len(h) + 1 \/ i \in DOMAIN h
  BY <1>0, <1>1
<1>3. ASSUME NEW i \in DOMAIN k, NEW j \in DOMAIN k, i # j, ~k[i].redeemed, ~k[j].redeemed
      PROVE  Apart(k[i], k[j])
  <2>1. CASE i \in DOMAIN h /\ j \in DOMAIN h
    BY <1>0, <1>1, <1>3, <2>1 DEF OneEach
  <2>2. CASE i = Len(h) + 1 /\ j \in DOMAIN h
    BY <1>0, <1>1, <1>3, <2>2
  <2>3. CASE i \in DOMAIN h /\ j = Len(h) + 1
    BY <1>0, <1>1, <1>3, <2>3
  <2> QED
    BY <1>2, <1>3, <2>1, <2>2, <2>3
<1>4. OneEach(k)
  BY <1>3 DEF OneEach
<1> QED
  BY <1>1, <1>4 DEF k

LEMMA MarkedRequest ==
    ASSUME NEW r \in MembershipRequest, NEW m \in BOOLEAN
    PROVE  LET s == [r EXCEPT !.redeemed = m] IN
             s \in MembershipRequest /\ s.redeemed = m
BY DEF MembershipRequest

LEMMA RedeemOne ==
    ASSUME NEW h \in Seq(MembershipRequest), OneEach(h), NEW i \in DOMAIN h
    PROVE  LET k == [h EXCEPT ![i].redeemed = TRUE] IN
             k \in Seq(MembershipRequest) /\ OneEach(k)
<1> DEFINE s == [h[i] EXCEPT !.redeemed = TRUE]
           k == [h EXCEPT ![i].redeemed = TRUE]
<1>1. h[i] \in MembershipRequest
  OBVIOUS
<1>2. s \in MembershipRequest /\ s.redeemed
  BY <1>1, MarkedRequest
<1>3. k = [h EXCEPT ![i] = s]
  OBVIOUS
<1> HIDE DEF s, k
<1>4. /\ k \in Seq(MembershipRequest) /\ DOMAIN k = DOMAIN h /\ k[i] = s
      /\ \A j \in DOMAIN h : j # i => k[j] = h[j]
  BY <1>2, <1>3
<1>5. OneEach(k)
  BY <1>2, <1>4 DEF OneEach
<1> QED
  BY <1>4, <1>5 DEF k

-----------------------------------------------------------------------------
(* Steps. *)

(* g shares the group with u at VIEW on behalf of a request.                 *)
SharedAtView(g, u) == ShareGroupWithUser(g, u, VIEW)

(* A step that makes a request appends it, and it stands apart from those    *)
(* that are pending, or is redeemed already; one that acts on a request      *)
(* marks it; each may share the group at VIEW.                               *)
Asks(r) ==
    /\ r \in MembershipRequest
    /\ requests' = Append(requests, r)
    /\ \A i \in DOMAIN requests :
         (~r.redeemed /\ ~requests[i].redeemed) =>
            Apart(r, requests[i]) /\ Apart(requests[i], r)

LEMMA RequestStepForms ==
    ASSUME MembershipTypeOK, NEW b \in User, RequestStep(b)
    PROVE  /\ autoApprove' \in BOOLEAN
           /\ \/ \E r : Asks(r)
              \/ \E i \in DOMAIN requests :
                   requests' = [requests EXCEPT ![i].redeemed = TRUE]
           /\ \/ UNCHANGED vars
              \/ \E g, u \in User : SharedAtView(g, u)
<1>0. /\ autoApprove \in BOOLEAN /\ requests \in Seq(MembershipRequest)
      /\ \A i \in DOMAIN requests : requests[i] \in MembershipRequest
  BY DEF MembershipTypeOK
<1>1. ASSUME NEW a \in User, NEW v \in User \cup {NoUser}, NEW m \in BOOLEAN
      PROVE  LET r == [from |-> a, invitee |-> v, redeemed |-> m] IN
               /\ r \in MembershipRequest /\ r.redeemed = m /\ r.from = a /\ r.invitee = v
  BY DEF MembershipRequest
<1>2. ASSUME NEW a \in User, NewRequest(a, NoUser, FALSE), ~HasPendingRequest(a)
      PROVE  \E r : Asks(r)
  <2> DEFINE r == [from |-> a, invitee |-> NoUser, redeemed |-> FALSE]
  <2>1. requests' = Append(requests, r)
    BY <1>2 DEF NewRequest
  <2>2. r \in MembershipRequest /\ r.redeemed = FALSE /\ r.from = a /\ r.invitee = NoUser
    BY <1>1
  <2> HIDE DEF r
  <2>3. Asks(r)
    BY <1>2, <2>1, <2>2 DEF Asks, Apart, IsInvitation, HasPendingRequest
  <2> QED
    BY <2>3
<1>3. ASSUME NEW a \in User, NEW u \in User, NewRequest(a, u, FALSE), ~HasPendingInvitation(u)
      PROVE  \E r : Asks(r)
  <2> DEFINE r == [from |-> a, invitee |-> u, redeemed |-> FALSE]
  <2>1. requests' = Append(requests, r)
    BY <1>3 DEF NewRequest
  <2>2. r \in MembershipRequest /\ r.redeemed = FALSE /\ r.from = a /\ r.invitee = u
    BY <1>1
  <2> HIDE DEF r
  <2>3. Asks(r)
    BY <1>3, <2>1, <2>2, NoUserAssumption DEF Asks, Apart, IsInvitation, HasPendingInvitation
  <2> QED
    BY <2>3
<1>4. ASSUME NEW a \in User, NewRequest(a, NoUser, TRUE)
      PROVE  \E r : Asks(r)
  <2> DEFINE r == [from |-> a, invitee |-> NoUser, redeemed |-> TRUE]
  <2>1. requests' = Append(requests, r)
    BY <1>4 DEF NewRequest
  <2>2. r \in MembershipRequest /\ r.redeemed = TRUE
    BY <1>1
  <2> HIDE DEF r
  <2>3. Asks(r)
    BY <2>1, <2>2 DEF Asks
  <2> QED
    BY <2>3
<1>5. ASSUME NEW a \in User, RequestToJoin(a) \/ JoinWithoutApprover(a)
      PROVE  (\E r : Asks(r)) /\ UNCHANGED vars /\ autoApprove' = autoApprove
  BY <1>2, <1>5 DEF RequestToJoin, JoinWithoutApprover, MayAskToJoin, NewRequest
<1>6. ASSUME NEW a \in User, JoinAutoApproved(a)
      PROVE  (\E r : Asks(r)) /\ (\E g, u \in User : SharedAtView(g, u)) /\ autoApprove' = autoApprove
  BY <1>4, <1>6 DEF JoinAutoApproved, NewRequest, SharedAtView, Owners
<1>7. ASSUME NEW a \in User, NEW u \in User, InviteUser(a, u)
      PROVE  (\E r : Asks(r)) /\ UNCHANGED vars /\ autoApprove' = autoApprove
  BY <1>3, <1>7 DEF InviteUser, NewRequest
<1>8. ASSUME NEW a \in User, NEW i \in DOMAIN requests, NEW accept \in BOOLEAN,
             ActOnRequest(a, i, accept)
      PROVE  /\ requests' = [requests EXCEPT ![i].redeemed = TRUE] /\ autoApprove' = autoApprove
             /\ UNCHANGED vars \/ \E g, u \in User : SharedAtView(g, u)
  <2>1. PICK g \in GrantorsFor(a, requests[i], accept) :
               IF accept /\ g # NoUser
                 THEN SharedAtView(g, Joiner(requests[i])) ELSE UNCHANGED vars
    BY <1>8 DEF ActOnRequest, SharedAtView
  <2>2. Joiner(requests[i]) \in User /\ requests[i].from \in User
    BY <1>0, JoinerType DEF MembershipRequest
  <2>3. g \in User \cup {NoUser}
    BY <2>2 DEF GrantorsFor
  <2> QED
    BY <1>8, <2>1, <2>2, <2>3 DEF ActOnRequest
<1> QED
  BY <1>0, <1>5, <1>6, <1>7, <1>8 DEF RequestStep

LEMMA RequestForms ==
    ASSUME MembershipTypeOK, MembershipNext
    PROVE  \/ SharingStep
           \/ /\ autoApprove' \in BOOLEAN
              /\ \/ \E r : Asks(r)
                 \/ \E i \in DOMAIN requests :
                      requests' = [requests EXCEPT ![i].redeemed = TRUE]
                 \/ requests' = requests
              /\ \/ UNCHANGED vars
                 \/ \E g, u \in User : SharedAtView(g, u)
<1>1. ASSUME NEW a \in User, NEW value \in BOOLEAN, SetAutoApprove(a, value)
      PROVE  autoApprove' \in BOOLEAN /\ requests' = requests /\ UNCHANGED vars
  BY <1>1 DEF SetAutoApprove
<1> QED
  BY <1>1, RequestStepForms DEF MembershipNext

LEMMA MembershipStep ==
    ASSUME MembershipTypeOK, OnePending, [MembershipNext]_mvars
    PROVE  MembershipTypeOK' /\ OnePending'
<1>0. requests \in Seq(MembershipRequest) /\ OneEach(requests)
  BY OnePendingForm DEF MembershipTypeOK
<1>1. \/ requests' = requests \/ requests' = <<>>
      \/ \E r : Asks(r)
      \/ \E i \in DOMAIN requests : requests' = [requests EXCEPT ![i].redeemed = TRUE]
  BY RequestForms DEF SharingStep, mvars
<1>2. autoApprove' \in BOOLEAN
  BY RequestForms DEF SharingStep, mvars, MembershipTypeOK
<1>3. CASE requests' = requests
  BY <1>0, <1>2, <1>3, OnePendingForm DEF MembershipTypeOK
<1>4. CASE requests' = <<>>
  <2>1. OneEach(<<>>)
    BY DEF OneEach
  <2> QED
    BY <1>2, <1>4, <2>1, OnePendingForm DEF MembershipTypeOK
<1>5. ASSUME NEW r, Asks(r) PROVE MembershipTypeOK' /\ OnePending'
  BY <1>0, <1>2, <1>5, AppendOne, OnePendingForm DEF Asks, MembershipTypeOK
<1>6. ASSUME NEW i \in DOMAIN requests, requests' = [requests EXCEPT ![i].redeemed = TRUE]
      PROVE  MembershipTypeOK' /\ OnePending'
  BY <1>0, <1>2, <1>6, RedeemOne, OnePendingForm DEF MembershipTypeOK
<1> QED
  BY <1>1, <1>3, <1>4, <1>5, <1>6

LEMMA MembershipInitial == MembershipInit => MembershipTypeOK /\ OnePending
BY DEF MembershipInit, MembershipTypeOK, OnePending

LEMMA MembershipRefines ==
    ASSUME MembershipTypeOK, [MembershipNext]_mvars
    PROVE  [Next]_vars
<1>1. ASSUME NEW g \in User, NEW u \in User, SharedAtView(g, u) PROVE Next
  BY <1>1 DEF SharedAtView, Next, Request, Grantable, OWNER, VIEW
<1>2. CASE MembershipNext
  BY <1>1, <1>2, RequestForms DEF SharingStep
<1>3. CASE UNCHANGED mvars
  BY <1>3 DEF mvars
<1> QED
  BY <1>2, <1>3

(* What a step that makes or acts on a request may do to the role of u.      *)
JoinAtView(u) ==
    row'[u] # row[u] =>
       /\ row'[u].privilege = VIEW
       /\ row'[u].grantor \in Superuser \/ row[row'[u].grantor].privilege <= VIEW

LEMMA SharedRow ==
    ASSUME TypeOK, NEW g \in User, NEW u \in User, SharedAtView(g, u), NEW v \in User
    PROVE  JoinAtView(v)
<1>1. Grant(u, VIEW, g) /\ MayGrant(g, u, VIEW)
  BY DEF SharedAtView, ShareGroupWithUser, CheckShareGroup
<1>2. row'[v] = IF v = u THEN UpdatedRow(VIEW, g) ELSE row[v]
  BY <1>1 DEF Grant, TypeOK, TablesTypeOK
<1>3. UpdatedRow(VIEW, g) = [privilege |-> VIEW, grantor |-> g]
  BY DEF UpdatedRow, VIEW, NONE
<1>4. g \in Superuser \/ row[g].privilege <= VIEW
  <2>1. EffectivePrivilege(g) <= VIEW => row[g].privilege <= VIEW
    BY DEF EffectivePrivilege, NONE, VIEW
  <2> QED
    BY <1>1, <2>1 DEF MayGrant, OWNER, VIEW
<1> QED
  BY <1>2, <1>3, <1>4 DEF JoinAtView

LEMMA JoinStep ==
    ASSUME MembershipTypeOK, TypeOK, NEW a \in User, RequestStep(a)
    PROVE  \A u \in User : JoinAtView(u)
<1>1. UNCHANGED vars \/ \E g, u \in User : SharedAtView(g, u)
  BY RequestStepForms
<1>2. CASE UNCHANGED vars
  BY <1>2 DEF vars, JoinAtView
<1> QED
  BY <1>1, <1>2, SharedRow

-----------------------------------------------------------------------------
(* Requests keep their type, and nobody waits twice, however often requests  *)
(* and invitations are made, cancelled, accepted and made again.             *)
THEOREM MembershipInvariant == MembershipSpec => [](MembershipTypeOK /\ OnePending)
BY MembershipInitial, MembershipStep, PTL DEF MembershipSpec

(* In particular nobody waits twice,                                         *)
THEOREM NobodyWaitsTwice == MembershipSpec => []OnePending
BY MembershipInvariant, PTL

(* and the variables keep their types.                                       *)
THEOREM MembershipTypeCorrect == MembershipSpec => []MembershipTypeOK
BY MembershipInvariant, PTL

(* Joining a group is group sharing: every request is a step of it or none.  *)
THEOREM JoiningIsSharing == MembershipSpec => ImplementsGroupSharing
<1>1. MembershipInit => Init
  BY DEF MembershipInit
<1>2. MembershipTypeOK /\ [MembershipNext]_mvars => [Next]_vars
  BY MembershipRefines
<1> QED
  BY <1>1, <1>2, MembershipTypeCorrect, PTL DEF MembershipSpec, ImplementsGroupSharing, Spec

(* So a group that people join and are invited to keeps an owner.            *)
THEOREM JoinedGroupKeepsOwner == MembershipSpec => []OwnerRemains
BY JoiningIsSharing, GroupKeepsOwner, PTL DEF ImplementsGroupSharing

(* A request or an invitation gives VIEW, on behalf of somebody who may      *)
(* still share, and nothing else, whether it is acted on once or again.      *)
THEOREM JoinsGiveView == MembershipSpec => JoinsAtView
<1>1. MembershipTypeOK /\ TypeOK =>
        \A a, u \in User : RequestStep(a) => JoinAtView(u)
  BY JoinStep
<1>2. MembershipSpec => []TypeOK
  BY JoiningIsSharing, TypeCorrect, PTL DEF ImplementsGroupSharing
<1>3. MembershipTypeOK /\ TypeOK =>
        [\A a, u \in User :
           (RequestStep(a) /\ row'[u] # row[u]) =>
              /\ row'[u].privilege = VIEW
              /\ row'[u].grantor \in Superuser \/ row[row'[u].grantor].privilege <= VIEW]_mvars
  BY <1>1 DEF JoinAtView
<1> QED
  BY <1>2, <1>3, MembershipTypeCorrect, PTL DEF JoinsAtView

=============================================================================
