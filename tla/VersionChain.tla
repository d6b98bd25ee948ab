---------------------------- MODULE VersionChain ----------------------------
(***************************************************************************)
(* New versions and copies of HydroShare resources.                        *)
(*                                                                         *)
(* Making a new version takes several database transactions and file       *)
(* transfers, in one server process: the original is locked, an empty      *)
(* resource is created, metadata is copied, the two are linked by the      *)
(* relations isReplacedBy and isVersionOf, the original is made immutable  *)
(* and the lock is released.  Copying, deleting and publishing are one     *)
(* step each.  Requests come from owners, whose rights are the subject of  *)
(* ResourceSharing.                                                        *)
(***************************************************************************)
EXTENDS Naturals, Sequences, FiniteSets

CONSTANTS
    Resource,     \* resource identifiers, each given out once
    NoResource,
    Process,      \* server processes
    MaxAbandoned  \* how many locks may be left behind at a time

ASSUME NoResourceAssumption == NoResource \notin Resource
ASSUME MaxAbandonedAssumption == MaxAbandoned \in Nat

VARIABLES
    stage,        \* not created, live, gone, or a ghost: a bare database row
    replacedBy,   \* the isReplacedBy relations of each resource, oldest first
    versionOf,    \* the isVersionOf relations
    immutable,    \* ResourceAccess.immutable
    published,    \* ResourceAccess.published
    locked,       \* whether BaseResource.locked_time is set
    job,          \* the version that each process is making
    abandoned,    \* history: the resources whose lock was last left by a
                  \* request that could not clean up after itself
    orderly       \* history: so far no request came while a version was being
                  \* made, nothing failed or was copied, and versions were
                  \* requested only where a page offers to make one

links == <<replacedBy, versionOf>>
access == <<immutable, published>>
vars == <<stage, links, access, locked, job, abandoned, orderly>>

Job == [at : {"idle", "create", "copy", "replace", "relink", "freeze", "release"},
        original : Resource \cup {NoResource}, new : Resource \cup {NoResource}]

Idle == [at |-> "idle", original |-> NoResource, new |-> NoResource]

TypeOK ==
    /\ stage \in [Resource -> {"none", "live", "gone", "ghost"}]
    /\ replacedBy \in [Resource -> Seq(Resource)]
    /\ versionOf \in [Resource -> Seq(Resource)]
    /\ immutable \in [Resource -> BOOLEAN] /\ published \in [Resource -> BOOLEAN]
    /\ locked \in [Resource -> BOOLEAN]
    /\ job \in [Process -> Job]
    /\ abandoned \subseteq Resource
    /\ orderly \in BOOLEAN

AllIdle == \A p \in Process : job[p] = Idle

Live(r) == stage[r] = "live"

-----------------------------------------------------------------------------
(* Making a new version. *)

(* The lock is cleared first when it is set: the elapsed time is never less  *)
(* than zero days.  So it is set whether or not it was before.               *)
LockOriginal(p, r) ==
    /\ job[p] = Idle
    /\ Live(r)
    /\ orderly' = (orderly /\ AllIdle /\ replacedBy[r] = <<>>)
    /\ locked' = [locked EXCEPT ![r] = TRUE]
    /\ job' = [job EXCEPT ![p] = [at |-> "create", original |-> r, new |-> NoResource]]
    /\ abandoned' = abandoned \ {r}
    /\ UNCHANGED <<stage, links, access>>

CreateEmpty(p, n) ==
    /\ job[p].at = "create"
    /\ Live(job[p].original)
    /\ stage[n] = "none"
    /\ stage' = [stage EXCEPT ![n] = "live"]
    /\ job' = [job EXCEPT ![p].at = "copy", ![p].new = n]
    /\ UNCHANGED <<links, access, locked, abandoned, orderly>>

(* Relations are copied with the rest of the metadata. *)
CopyLinks(r, n) ==
    /\ replacedBy' = [replacedBy EXCEPT ![n] = @ \o replacedBy[r]]
    /\ versionOf' = [versionOf EXCEPT ![n] = @ \o versionOf[r]]

CopyMetadata(p) ==
    /\ job[p].at = "copy"
    /\ Live(job[p].original) /\ Live(job[p].new)
    /\ CopyLinks(job[p].original, job[p].new)
    /\ job' = [job EXCEPT ![p].at = "replace"]
    /\ UNCHANGED <<stage, access, locked, abandoned, orderly>>

LinkReplacement(p) ==
    /\ job[p].at = "replace"
    /\ Live(job[p].original) /\ Live(job[p].new)
    /\ replacedBy' = [replacedBy EXCEPT ![job[p].original] = Append(@, job[p].new)]
    /\ job' = [job EXCEPT ![p].at = "relink"]
    /\ UNCHANGED <<stage, versionOf, access, locked, abandoned, orderly>>

(* Mutants: a copied isVersionOf is kept; the identifier of the new resource *)
(* is used for the original's; the relation is written without an identifier. *)
KeptOrigin(p) == Append(versionOf[job[p].new], job[p].original)
SelfOrigin(p) == <<job[p].new>>
BlankOrigin(p) == <<NoResource>>

(* A copied isVersionOf gives way to one that names the original. *)
NewOrigin(p) ==
    LET copied == versionOf[job[p].new]
        kept   == IF copied = <<>> THEN <<>> ELSE Tail(copied) IN
    Append(kept, job[p].original)

LinkOrigin(p) ==
    /\ job[p].at = "relink"
    /\ Live(job[p].original) /\ Live(job[p].new)
    /\ versionOf' = [versionOf EXCEPT ![job[p].new] = NewOrigin(p)]
    /\ job' = [job EXCEPT ![p].at = "freeze"]
    /\ UNCHANGED <<stage, replacedBy, access, locked, abandoned, orderly>>

(* Mutant: the original stays editable. *)
UnfrozenOriginal(p) ==
    /\ job[p].at = "freeze"
    /\ Live(job[p].original)
    /\ job' = [job EXCEPT ![p].at = "release"]
    /\ UNCHANGED <<stage, links, access, locked, abandoned, orderly>>

FreezeOriginal(p) ==
    /\ job[p].at = "freeze"
    /\ Live(job[p].original)
    /\ immutable' = [immutable EXCEPT ![job[p].original] = TRUE]
    /\ job' = [job EXCEPT ![p].at = "release"]
    /\ UNCHANGED <<stage, links, published, locked, abandoned, orderly>>

(* Clearing the lock saves the whole row; if the resource was deleted in the *)
(* meantime, that inserts the row again.                                     *)
Release(r, deleted) ==
    /\ locked' = [s \in Resource |-> s # r /\ s \notin deleted /\ locked[s]]
    /\ abandoned' = abandoned \ (deleted \cup {r})
    /\ stage' = [s \in Resource |->
                   IF s = r /\ stage[r] = "gone" THEN "ghost"
                   ELSE IF s \in deleted THEN "gone" ELSE stage[s]]

Finish(p) ==
    /\ job[p].at = "release"
    /\ Release(job[p].original, {})
    /\ job' = [job EXCEPT ![p] = Idle]
    /\ UNCHANGED <<links, access, orderly>>

(* Mutant: the lock is only released on success. *)
FailLocked(p) ==
    /\ job[p].at = "create"
    /\ orderly' = FALSE
    /\ job' = [job EXCEPT ![p] = Idle]
    /\ UNCHANGED <<stage, links, access, locked, abandoned>>

Making == {"create", "copy", "replace", "relink", "freeze"}

Unlink(n) ==
    /\ replacedBy' = [s \in Resource |-> IF s = n THEN <<>> ELSE replacedBy[s]]
    /\ versionOf' = [s \in Resource |-> IF s = n THEN <<>> ELSE versionOf[s]]

DropFlags(n) ==
    /\ immutable' = [s \in Resource |-> s # n /\ immutable[s]]
    /\ published' = [s \in Resource |-> s # n /\ published[s]]

(* Any step may fail.  The new resource is deleted again; the relation that  *)
(* names it is not.                                                          *)
Fail(p) ==
    /\ orderly' = FALSE
    /\ job[p].at \in Making
    /\ Release(job[p].original, {job[p].new})
    /\ Unlink(job[p].new)
    /\ DropFlags(job[p].new)
    /\ job' = [job EXCEPT ![p] = Idle]

(* How far the deletion of n got: its metadata are gone, or the row as well. *)
PartlyDeleted(n) ==
    /\ Unlink(n)
    /\ \/ UNCHANGED <<stage, access, locked>>
       \/ /\ DropFlags(n)
          /\ locked' = [s \in Resource |-> s # n /\ locked[s]]
          /\ stage' = [s \in Resource |-> IF s = n THEN "gone" ELSE stage[s]]

(* The deletion after a failure, or the save that clears the lock, raises an *)
(* exception itself, which nothing catches: the lock stays.                  *)
FailToRelease(p) ==
    /\ job[p].at # "idle"
    /\ Cardinality(abandoned \cup {job[p].original}) <= MaxAbandoned
    /\ orderly' = FALSE
    /\ \/ UNCHANGED <<stage, links, access, locked>>
       \/ job[p].at \in Making \ {"create"} /\ PartlyDeleted(job[p].new)
    /\ abandoned' = {r \in abandoned \cup {job[p].original} : locked'[r]}
    /\ job' = [job EXCEPT ![p] = Idle]

-----------------------------------------------------------------------------
(* The other requests. *)

CreateResource(n) ==
    /\ orderly' = (orderly /\ AllIdle)
    /\ stage[n] = "none"
    /\ stage' = [stage EXCEPT ![n] = "live"]
    /\ UNCHANGED <<links, access, locked, job, abandoned>>

CopyResource(r, n) ==
    /\ orderly' = FALSE
    /\ Live(r)
    /\ stage[n] = "none"
    /\ stage' = [stage EXCEPT ![n] = "live"]
    /\ CopyLinks(r, n)
    /\ UNCHANGED <<access, locked, job, abandoned>>

PublishResource(r) ==
    /\ orderly' = (orderly /\ AllIdle)
    /\ Live(r)
    /\ immutable' = [immutable EXCEPT ![r] = TRUE]
    /\ published' = [published EXCEPT ![r] = TRUE]
    /\ UNCHANGED <<stage, links, locked, job, abandoned>>

(* Mutant: a published original is thawed as well. *)
ThawAny(o) == FALSE

(* Whether o stays immutable when the version that replaced it is deleted. *)
StaysFrozen(o) == immutable[o] /\ published[o]

(* Deleting the version of o removes the first isReplacedBy of o, whichever  *)
(* resource that names.                                                      *)
DeleteResource(r) ==
    /\ orderly' = (orderly /\ AllIdle)
    /\ Live(r)
    /\ replacedBy[r] = <<>>
    /\ \/ /\ versionOf[r] = <<>>
          /\ replacedBy' = replacedBy
          /\ immutable' = [immutable EXCEPT ![r] = FALSE]
       \/ \E o \in Resource :
            /\ versionOf[r] # <<>> /\ o = Head(versionOf[r])
            /\ Live(o)
            /\ IF replacedBy[o] = <<>>
                 THEN /\ replacedBy' = replacedBy
                      /\ immutable' = [immutable EXCEPT ![r] = FALSE]
                 ELSE /\ replacedBy' = [replacedBy EXCEPT ![o] = Tail(@)]
                      /\ immutable' = [immutable EXCEPT ![o] = StaysFrozen(o), ![r] = FALSE]
    /\ stage' = [stage EXCEPT ![r] = "gone"]
    /\ versionOf' = [versionOf EXCEPT ![r] = <<>>]
    /\ published' = [published EXCEPT ![r] = FALSE]
    /\ locked' = [locked EXCEPT ![r] = FALSE]
    /\ abandoned' = abandoned \ {r}
    /\ UNCHANGED job

Init ==
    /\ stage = [r \in Resource |-> "none"]
    /\ replacedBy = [r \in Resource |-> <<>>]
    /\ versionOf = [r \in Resource |-> <<>>]
    /\ immutable = [r \in Resource |-> FALSE]
    /\ published = [r \in Resource |-> FALSE]
    /\ locked = [r \in Resource |-> FALSE]
    /\ job = [p \in Process |-> Idle]
    /\ abandoned = {}
    /\ orderly = TRUE

(* A process goes on with the request that it has begun. *)
Work(p) ==
    \/ \E n \in Resource : CreateEmpty(p, n)
    \/ CopyMetadata(p)
    \/ LinkReplacement(p)
    \/ LinkOrigin(p)
    \/ FreezeOriginal(p)
    \/ Finish(p)
    \/ Fail(p)
    \/ FailToRelease(p)

Next ==
    \/ \E p \in Process : Work(p) \/ \E r \in Resource : LockOriginal(p, r)
    \/ \E r \in Resource :
         \/ CreateResource(r)
         \/ DeleteResource(r)
         \/ PublishResource(r)
         \/ \E n \in Resource : CopyResource(r, n)

Spec == Init /\ [][Next]_vars

(* A server process runs statement after statement, or raises an exception,  *)
(* until the request is answered.                                            *)
FairSpec == Spec /\ \A p \in Process : WF_vars(Work(p))

-----------------------------------------------------------------------------
(* What survives overlapping requests, failures and copies. *)

Names(links_, r) == {links_[r][i] : i \in DOMAIN links_[r]}

(* A resource is the version of at most one other, although the relations of *)
(* its original are copied to it, however long the chain.                    *)
AtMostOneOrigin == \A r \in Resource : Len(versionOf[r]) <= 1

(* No chain of versions leads back to where it started, so that following    *)
(* isVersionOf comes to an end.                                              *)
Acyclic ==
    ~\E S \in SUBSET Resource :
        S # {} /\ \A r \in S : Names(versionOf, r) \cap S # {}

(* A published resource stays immutable, whatever becomes of its versions.   *)
PublishedFrozen == \A r \in Resource : published[r] => immutable[r]

(* A lock outlives the requests that set it only when one of them could not  *)
(* clean up after itself, and nobody has taken the lock since.               *)
LockHeldByWorker ==
    \A r \in Resource :
        locked[r] => r \in abandoned \/ \E p \in Process : job[p].original = r

(* Every lock is released, even when the original or the new resource is     *)
(* deleted while the request goes on, unless cleaning up fails as well.      *)
LockReleased ==
    [](\A r \in Resource : locked[r] => <>(~locked[r] \/ r \in abandoned))

-----------------------------------------------------------------------------
(* What orderly requests make of it, between one request and the next. *)

(* The two relations mirror one another: a resource is replaced by exactly   *)
(* the resources that are versions of it, and by one at most, so versions    *)
(* form chains.                                                              *)
LinearHistory ==
    orderly /\ AllIdle =>
        \A r, n \in Resource :
            /\ n \in Names(replacedBy, r) <=> r \in Names(versionOf, n)
            /\ n \in Names(replacedBy, r) => Live(r) /\ Live(n)
            /\ Len(replacedBy[r]) <= 1

(* Replaced or published resources are immutable and no others: deleting the *)
(* newest version makes the one before it editable again, unless published.  *)
FrozenIffReplaced ==
    orderly /\ AllIdle =>
        \A r \in Resource : Live(r) =>
            (immutable[r] <=> published[r] \/ replacedBy[r] # <<>>)

-----------------------------------------------------------------------------
(* What the comments say, and the code does not keep. *)

(* An immutable resource becomes editable again only when it is the latest   *)
(* version, that is, when no version of it is left.                          *)
ThawedWhenLatest ==
    [][\A r \in Resource :
         (Live(r) /\ immutable[r] /\ (Live(r) /\ ~immutable[r])') =>
            ~\E n \in Resource : Live(n)' /\ (r \in Names(versionOf, n))']_vars
=============================================================================
