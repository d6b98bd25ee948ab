---------------------------- MODULE GroupSharing ----------------------------
(***************************************************************************)
(* Membership of one HydroShare group: who shares the group with whom, at  *)
(* which privilege, and who may take it back (UserAccess and GroupAccess). *)
(* row and ledger are the UserGroupPrivilege and UserGroupProvenance       *)
(* tables.  Nothing here looks at another group, so one group stands for   *)
(* all of them.                                                            *)
(*                                                                         *)
(* Every request is one step in this module.  GroupSharingSteps takes the  *)
(* same requests apart into the database transactions they consist of.     *)
(***************************************************************************)
EXTENDS Provenance

CONSTANT Superuser   \* the administrators among the users

ASSUME SuperuserAssumption == Superuser \subseteq User

VARIABLES
    isActive,    \* isActive[u]: User.is_active
    stage,       \* the group: not created yet, live, or deleted for good
    active,      \* GroupAccess.active
    shareable    \* GroupAccess.shareable

vars == <<isActive, stage, active, shareable, row, ledger>>
flags == <<isActive, stage, active, shareable>>

Stage == {"none", "live", "deleted"}

TypeOK ==
    /\ isActive \in [User -> BOOLEAN]
    /\ stage \in Stage
    /\ active \in BOOLEAN
    /\ shareable \in BOOLEAN
    /\ TablesTypeOK

-----------------------------------------------------------------------------
(* The queries the checks are made of. *)

Owners == {u \in User : isActive[u] /\ row[u].privilege = OWNER}

Members == {u \in User : isActive[u] /\ row[u].privilege <= VIEW}

SoleOwner(u) == Owners = {u}

EffectivePrivilege(u) == IF isActive[u] THEN row[u].privilege ELSE NONE

OwnsGroup(u) == row[u].privilege = OWNER

CanChangeGroupFlags(a) == isActive[a] /\ (a \in Superuser \/ OwnsGroup(a))

(* Mutant: sharing privilege is enough to demote others. *)
MayGrantLower(a, u, p) ==
    \/ a \in Superuser
    \/ shareable /\ EffectivePrivilege(a) <= p /\ EffectivePrivilege(u) # p

(* a may grant privilege p to u: administrators and owners may always, other *)
(* members of a shareable group may raise others up to their own privilege   *)
(* and lower themselves.                                                     *)
MayGrant(a, u, p) ==
    \/ a \in Superuser
    \/ EffectivePrivilege(a) = OWNER
    \/ /\ shareable
       /\ EffectivePrivilege(a) <= VIEW
       /\ EffectivePrivilege(a) <= p
       /\ EffectivePrivilege(u) # p
       /\ p > EffectivePrivilege(u) => u = a

CheckShareGroup(a, u, p) ==
    /\ MayGrant(a, u, p)
    /\ ~(EffectivePrivilege(u) = OWNER /\ p # OWNER /\ SoleOwner(u))

(* Mutant: nobody asks whether another owner is left. *)
CheckUnshareAnyOwner(a, u) ==
    u \in Members /\ (a \in Superuser \/ OwnsGroup(a) \/ u = a)

CheckUnshareGroup(a, u) ==
    /\ u \in Members
    /\ a \in Superuser \/ OwnsGroup(a) \/ u = a
    /\ OwnsGroup(u) => \E o \in User \ {u} : OwnsGroup(o)

(* Mutant: the sole owner is not left out. *)
UndoUsersAnyOwner(a) == UndoUsers(a)

GroupUndoUsers(a) ==
    IF \E o \in User : SoleOwner(o) THEN UndoUsers(a) \ Owners ELSE UndoUsers(a)

-----------------------------------------------------------------------------
(* The requests. *)

CreateGroup(a) ==
    /\ stage = "none"
    /\ isActive[a]
    /\ stage' = "live"
    /\ Grant(a, OWNER, a)
    /\ UNCHANGED <<isActive, active, shareable>>

DeleteGroup(a) ==
    /\ stage = "live"
    /\ isActive[a]
    /\ a \in Superuser \/ OwnsGroup(a)
    /\ stage' = "deleted"
    /\ ClearTables
    /\ UNCHANGED <<isActive, active, shareable>>

SetGroupActiveStatus(a, status) ==
    /\ stage = "live"
    /\ CanChangeGroupFlags(a)
    /\ active' = status
    /\ UNCHANGED <<isActive, stage, shareable, row, ledger>>

ShareGroupWithUser(a, u, p) ==
    /\ stage = "live"
    /\ isActive[a] /\ active /\ isActive[u]
    /\ CheckShareGroup(a, u, p)
    /\ Grant(u, p, a)
    /\ UNCHANGED flags

UnshareGroupWithUser(a, u) ==
    /\ stage = "live"
    /\ isActive[a] /\ active /\ isActive[u]
    /\ CheckUnshareGroup(a, u)
    /\ Grant(u, NONE, a)
    /\ UNCHANGED flags

UndoShareGroupWithUser(a, u) ==
    /\ stage = "live"
    /\ isActive[a] /\ active /\ isActive[u]
    /\ u \in GroupUndoUsers(a)
    /\ Rollback(u)
    /\ UNCHANGED flags

(* A user closes the account, and may come back through a password reset. *)
DeactivateUser(u) ==
    /\ isActive[u]
    /\ isActive' = [isActive EXCEPT ![u] = FALSE]
    /\ UNCHANGED <<stage, active, shareable, row, ledger>>

ReactivateUser(u) ==
    /\ ~isActive[u]
    /\ isActive' = [isActive EXCEPT ![u] = TRUE]
    /\ UNCHANGED <<stage, active, shareable, row, ledger>>

(* Accounts exist before the group does.  No request sets shareable: it is  *)
(* either value from the start.                                             *)
Init ==
    /\ isActive = [u \in User |-> TRUE]
    /\ stage = "none"
    /\ active = TRUE
    /\ shareable \in BOOLEAN
    /\ EmptyTables

Request(a, u) ==
    \/ \E p \in Grantable : ShareGroupWithUser(a, u, p)
    \/ UnshareGroupWithUser(a, u)
    \/ UndoShareGroupWithUser(a, u)

Next ==
    \/ \E a \in User :
         \/ CreateGroup(a)
         \/ DeleteGroup(a)
         \/ \E status \in BOOLEAN : SetGroupActiveStatus(a, status)
         \/ DeactivateUser(a)
         \/ ReactivateUser(a)
    \/ \E a, u \in User : Request(a, u)

Spec == Init /\ [][Next]_vars

-----------------------------------------------------------------------------
(* What is correct. *)

(* A live group keeps an owner, although owners may demote, remove and undo  *)
(* one another, leave, and close their accounts.                             *)
OwnerRemains == stage = "live" => \E u \in User : OwnsGroup(u)

(* In a live group a role falls by an undo, or by the user's own request, or *)
(* by an owner's or administrator's; and it rises by an undo, or by someone  *)
(* who holds at least what is given.  Sharing privilege alone demotes nobody *)
(* and gives nobody more than the giver has.                                 *)
ChangesAuthorised ==
    [][\A u \in User :
         (stage = "live" /\ stage' = "live" /\ row'[u] # row[u]) =>
            \/ CurrentRecord(ledger'[u]).undone
            \/ /\ isActive[ActorOf(u)]
               /\ row'[u].privilege > row[u].privilege =>
                    ActorOf(u) = u \/ CanChangeGroupFlags(ActorOf(u))
               /\ row'[u].privilege < row[u].privilege =>
                    \/ ActorOf(u) \in Superuser
                    \/ row[ActorOf(u)].privilege <= row'[u].privilege]_vars

(* The abstract promise, with the stored privilege as the role. *)
Owned == INSTANCE OwnedThing WITH role <- [u \in User |-> row[u].privilege]

ImplementsOwnedThing == Owned!Spec

(* Mutant: the sole owner is offered as well. *)
GroupUnshareAnyOwner(a) ==
    IF a \in Superuser \/ OwnsGroup(a) THEN Members ELSE Members \cap {a}

(* get_group_unshare_users: the users that a's pages offer to remove. *)
GroupUnshareUsers(a) ==
    LET oneOwner == \E o \in User : SoleOwner(o) IN
    IF a \in Superuser \/ OwnsGroup(a)
      THEN IF oneOwner THEN Members \ Owners ELSE Members
      ELSE Members \cap {a}

(* Nobody is offered for removal whom the request would then refuse.         *)
UnshareListSound ==
    \A a \in User : isActive[a] =>
        \A u \in GroupUnshareUsers(a) : CheckUnshareGroup(a, u)
=============================================================================
