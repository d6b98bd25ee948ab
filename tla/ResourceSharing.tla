--------------------------- MODULE ResourceSharing ---------------------------
(***************************************************************************)
(* Access of single users to one HydroShare resource (UserAccess and       *)
(* ResourceAccess), and the quota holder, the owner whose storage quota    *)
(* pays for it.  row and ledger are the UserResourcePrivilege and          *)
(* UserResourceProvenance tables.                                          *)
(*                                                                         *)
(* Privilege over a resource differs from that over a group: it may also   *)
(* come through groups and communities, whose sharing is seen here only as *)
(* viaGroups; the immutable flag takes CHANGE away; and administrators     *)
(* count as owners.  The pages ask for view privilege first; the model     *)
(* takes every request that UserAccess itself accepts.                     *)
(***************************************************************************)
EXTENDS Provenance

CONSTANTS
    Superuser,    \* the administrators among the users
    GroupMember   \* the users who may have access through groups

ASSUME UsersAssumption == Superuser \subseteq User /\ GroupMember \subseteq User

VARIABLES
    isActive,     \* isActive[u]: User.is_active
    stage,        \* the resource: not created yet, live, or deleted
    shareable,    \* ResourceAccess.shareable
    immutable,    \* ResourceAccess.immutable
    published,    \* ResourceAccess.published
    viaGroups,    \* viaGroups[u]: u's best privilege through groups
    quotaHolder   \* the iRODS attribute quotaUserName

accessFlags == <<shareable, immutable, published>>
others == <<isActive, stage, accessFlags, viaGroups>>
vars == <<others, quotaHolder, tables>>

TypeOK ==
    /\ isActive \in [User -> BOOLEAN]
    /\ stage \in {"none", "live", "deleted"}
    /\ shareable \in BOOLEAN /\ immutable \in BOOLEAN /\ published \in BOOLEAN
    /\ viaGroups \in [User -> CHANGE..NONE]
    /\ quotaHolder \in User \cup {NoUser}
    /\ TablesTypeOK

-----------------------------------------------------------------------------
(* Queries.  Only active users are asked about. *)

Owners == {u \in User : isActive[u] /\ row[u].privilege = OWNER}

ViewUsers == {u \in User : isActive[u] /\ (row[u] # NoRow \/ viaGroups[u] # NONE)}

OwnsResource(u) == row[u].privilege = OWNER

SoleOwner(u) == Owners = {u}

Limited(p) == IF immutable /\ p = CHANGE THEN VIEW ELSE p

EffectiveUserPrivilege(u) ==
    IF u \in Superuser THEN OWNER ELSE Limited(row[u].privilege)

EffectivePrivilege(u) ==
    LET direct == EffectiveUserPrivilege(u)
        group  == Limited(viaGroups[u]) IN
    IF direct <= group THEN direct ELSE group

CanChangeResourceFlags(a) ==
    isActive[a] /\ (a \in Superuser \/ (OwnsResource(a) /\ ~published))

(* Mutant: the immutable flag is not taken into account. *)
MayGrantStored(a, u, p) ==
    \/ a \in Superuser
    \/ OwnsResource(a)
    \/ /\ shareable
       /\ row[a].privilege <= p
       /\ row[u].privilege # p
       /\ p > row[u].privilege => u = a

(* As for groups, but a's own privilege may come through groups. *)
MayGrant(a, u, p) ==
    \/ a \in Superuser
    \/ EffectivePrivilege(a) = OWNER
    \/ /\ shareable
       /\ EffectivePrivilege(a) <= VIEW
       /\ EffectivePrivilege(a) <= p
       /\ EffectiveUserPrivilege(u) # p
       /\ p > EffectiveUserPrivilege(u) => u = a

(* The code counts the active owners, not whether u is among them. *)
OneOwner == \E o \in User : SoleOwner(o)

(* Mutant: an owner who is demoted is not asked to leave another one. *)
CheckShareAnyOwner(a, u, p) == MayGrant(a, u, p)

CheckShareResource(a, u, p) ==
    /\ MayGrant(a, u, p)
    /\ EffectiveUserPrivilege(u) = OWNER /\ p # OWNER =>
         ~OneOwner /\ quotaHolder # u

(* Mutant: a leaving quota holder is let go. *)
CheckUnshareAnyHolder(a, u) ==
    /\ u \in ViewUsers
    /\ a \in Superuser \/ OwnsResource(a) \/ u = a
    /\ OwnsResource(u) => \E o \in User \ {u} : OwnsResource(o)

CheckUnshareResource(a, u) ==
    /\ u \in ViewUsers
    /\ a \in Superuser \/ OwnsResource(a) \/ u = a
    /\ quotaHolder # u
    /\ OwnsResource(u) => \E o \in User \ {u} : OwnsResource(o)

ResourceUndoUsers(a) == IF OneOwner THEN UndoUsers(a) \ Owners ELSE UndoUsers(a)

-----------------------------------------------------------------------------
(* Requests. *)

CreateResource(a) ==
    /\ stage = "none"
    /\ isActive[a]
    /\ stage' = "live"
    /\ Grant(a, OWNER, a)
    /\ quotaHolder' = a
    /\ UNCHANGED <<isActive, accessFlags, viaGroups>>

(* A resource that a newer version replaces is not deleted; VersionChain     *)
(* says which those are.                                                     *)
DeleteResource(a) ==
    /\ stage = "live"
    /\ isActive[a]
    /\ a \in Superuser \/ (OwnsResource(a) /\ ~published)
    /\ stage' = "deleted"
    /\ ClearTables
    /\ quotaHolder' = NoUser
    /\ viaGroups' = [u \in User |-> NONE]
    /\ UNCHANGED <<isActive, accessFlags>>

Live(a, u) == stage = "live" /\ isActive[a] /\ isActive[u]

ShareResourceWithUser(a, u, p) ==
    /\ Live(a, u)
    /\ CheckShareResource(a, u, p)
    /\ Grant(u, p, a)
    /\ UNCHANGED <<others, quotaHolder>>

UnshareResourceWithUser(a, u) ==
    /\ Live(a, u)
    /\ CheckUnshareResource(a, u)
    /\ Grant(u, NONE, a)
    /\ UNCHANGED <<others, quotaHolder>>

UndoShareResourceWithUser(a, u) ==
    /\ Live(a, u)
    /\ u \in ResourceUndoUsers(a)
    /\ Rollback(u)
    /\ UNCHANGED <<others, quotaHolder>>

(* Mutant: anybody may take over the quota. *)
SetQuotaHolderToAny(a, u) ==
    /\ Live(a, u)
    /\ OwnsResource(a)
    /\ quotaHolder' = u
    /\ UNCHANGED <<others, tables>>

SetQuotaHolder(a, u) ==
    /\ Live(a, u)
    /\ OwnsResource(a) /\ OwnsResource(u)
    /\ quotaHolder' = u
    /\ UNCHANGED <<others, tables>>

(* The old attribute is removed before the new one is set, and iRODS fails   *)
(* in between.                                                               *)
LoseQuotaHolder(a, u) ==
    /\ Live(a, u)
    /\ OwnsResource(a) /\ OwnsResource(u) /\ a # u
    /\ quotaHolder # NoUser
    /\ quotaHolder' = NoUser
    /\ UNCHANGED <<others, tables>>

SetShareable(a, value) ==
    /\ stage = "live"
    /\ CanChangeResourceFlags(a)
    /\ shareable' = value
    /\ UNCHANGED <<isActive, stage, immutable, published, viaGroups, quotaHolder, tables>>

PublishResource(a) ==
    /\ stage = "live"
    /\ CanChangeResourceFlags(a)
    /\ immutable' = TRUE /\ shareable' = FALSE /\ published' = TRUE
    /\ UNCHANGED <<isActive, stage, viaGroups, quotaHolder, tables>>

(* An owner makes a new version, which freezes this one. *)
CreateNewVersion(a) ==
    /\ stage = "live"
    /\ isActive[a] /\ OwnsResource(a)
    /\ immutable' = TRUE
    /\ UNCHANGED <<isActive, stage, shareable, published, viaGroups, quotaHolder, tables>>

(* The new version is deleted by whoever owns it, which thaws this one. *)
DeleteNewVersion ==
    /\ stage = "live"
    /\ ~published
    /\ immutable' = FALSE
    /\ UNCHANGED <<isActive, stage, shareable, published, viaGroups, quotaHolder, tables>>

(* Groups are joined and left, and resources shared with them, elsewhere. *)
ChangeGroupAccess(u, p) ==
    /\ stage = "live"
    /\ viaGroups' = [viaGroups EXCEPT ![u] = p]
    /\ UNCHANGED <<isActive, stage, accessFlags, quotaHolder, tables>>

SetUserActive(u, value) ==
    /\ isActive' = [isActive EXCEPT ![u] = value]
    /\ UNCHANGED <<stage, accessFlags, viaGroups, quotaHolder, tables>>

Init ==
    /\ isActive = [u \in User |-> TRUE]
    /\ stage = "none"
    /\ shareable = TRUE /\ immutable = FALSE /\ published = FALSE
    /\ viaGroups = [u \in User |-> NONE]
    /\ quotaHolder = NoUser
    /\ EmptyTables

Next ==
    \/ \E a \in User :
         \/ CreateResource(a)
         \/ DeleteResource(a)
         \/ PublishResource(a)
         \/ CreateNewVersion(a)
         \/ \E value \in BOOLEAN : SetShareable(a, value) \/ SetUserActive(a, value)
    \/ \E a, u \in User :
         \/ \E p \in Grantable : ShareResourceWithUser(a, u, p)
         \/ UnshareResourceWithUser(a, u)
         \/ UndoShareResourceWithUser(a, u)
         \/ SetQuotaHolder(a, u)
         \/ LoseQuotaHolder(a, u)
    \/ DeleteNewVersion
    \/ \E u \in GroupMember, p \in CHANGE..NONE : ChangeGroupAccess(u, p)

Spec == Init /\ [][Next]_vars

-----------------------------------------------------------------------------
(* What is correct. *)

(* A live resource keeps an owner, although owners demote, remove and undo   *)
(* one another and close their accounts.                                     *)
OwnerRemains == stage = "live" => \E u \in User : OwnsResource(u)

(* The abstract promise, with the stored privilege as the role. *)
Owned == INSTANCE OwnedThing WITH role <- [u \in User |-> row[u].privilege]

ImplementsOwnedThing == Owned!Spec

(* Outside undo, a stored privilege falls only at the user's own request or  *)
(* an owner's or administrator's, and rises only by somebody whose effective *)
(* privilege, groups and flags included, reaches that far: while a resource  *)
(* is immutable, nobody but owners and administrators makes new editors.     *)
ChangesAuthorised ==
    [][\A u \in User :
         (stage = "live" /\ stage' = "live" /\ row'[u] # row[u]) =>
            \/ CurrentRecord(ledger'[u]).undone
            \/ /\ row'[u].privilege > row[u].privilege =>
                    \/ ActorOf(u) \in Superuser \cup {u}
                    \/ OwnsResource(ActorOf(u))
               /\ row'[u].privilege < row[u].privilege =>
                    EffectivePrivilege(ActorOf(u)) <= row'[u].privilege]_vars

(* The quota holder loses ownership by an undo only, never by a share or     *)
(* unshare request, whoever makes it.                                        *)
HolderKeepsOwnership ==
    [][\A u \in User :
         (/\ quotaHolder = u /\ OwnsResource(u)
          /\ stage' = "live" /\ ~OwnsResource(u)') =>
            CurrentRecord(ledger'[u]).undone]_vars

(* The quota of a live resource is charged to somebody who owned it at some  *)
(* time, even if undo took that back, and a deleted one is charged to nobody. *)
HolderOnceOwned ==
    quotaHolder # NoUser =>
        /\ stage = "live"
        /\ \E i \in DOMAIN ledger[quotaHolder] : ledger[quotaHolder][i].privilege = OWNER
=============================================================================
