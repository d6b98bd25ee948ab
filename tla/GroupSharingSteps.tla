-------------------------- MODULE GroupSharingSteps --------------------------
(***************************************************************************)
(* The requests of GroupSharing as the server runs them: each worker first *)
(* checks, then writes the privilege table and the provenance ledger in    *)
(* transactions of their own (no view opens a transaction around a         *)
(* request), so that the steps of several workers interleave, and a worker *)
(* may die between two of them.                                            *)
(*                                                                         *)
(* A check is one step here although it issues several queries, and the    *)
(* two tables keep the operators of GroupSharing.  The group exists        *)
(* throughout.                                                             *)
(***************************************************************************)
EXTENDS GroupSharing, FiniteSets

CONSTANTS
    Worker,      \* the server processes that handle requests
    MaxCrashes   \* how many of them may die in a behaviour

ASSUME MaxCrashesAssumption == MaxCrashes \in Nat

VARIABLES
    request,     \* request[w]: what worker w is doing
    crashes,     \* how many workers have died
    overlapped,  \* the users for whom two requests have been under way at once
    raced        \* whether any two requests have been under way at once

svars == <<vars, request, crashes, overlapped, raced>>

PC == {"idle", "checked", "written", "prepared", "appended", "read"}

(* The record of a share is known from the check on; that of an undo is     *)
(* prepared from the ledger, and read back from it.                         *)
RequestType ==
    [pc : PC, undo : BOOLEAN, actor : User \cup {NoUser},
     grantee : User \cup {NoUser}, record : Record]

Idle == [pc |-> "idle", undo |-> FALSE, actor |-> NoUser, grantee |-> NoUser,
         record |-> GrantRecord(NONE, NoUser)]

StepsTypeOK ==
    /\ TypeOK
    /\ request \in [Worker -> RequestType]
    /\ crashes \in 0..MaxCrashes
    /\ overlapped \subseteq User
    /\ raced \in BOOLEAN

Busy == {w \in Worker : request[w] # Idle}

Quiet == Busy = {}

-----------------------------------------------------------------------------
(* Two variables that only observe: who was handled by two workers at once.  *)
Observe(w, u) ==
    /\ overlapped' =
         IF \E v \in Busy \ {w} : request[v].grantee = u
           THEN overlapped \cup {u} ELSE overlapped
    /\ raced' = (raced \/ Busy \ {w} # {})

(* An idle worker takes a request that passes its checks. *)
Begin(w, a, u, undo, record) ==
    /\ request[w] = Idle
    /\ stage = "live" /\ isActive[a] /\ active /\ isActive[u]
    /\ NumRecords + Cardinality(Busy) < MaxRecords
    /\ request' = [request EXCEPT ![w] =
                     [pc |-> "checked", undo |-> undo, actor |-> a,
                      grantee |-> u, record |-> record]]
    /\ Observe(w, u)
    /\ UNCHANGED <<vars, crashes>>

BeginShare(w, a, u, p) ==
    /\ CheckShareGroup(a, u, p)
    /\ Begin(w, a, u, FALSE, GrantRecord(p, a))

BeginUnshare(w, a, u) ==
    /\ CheckUnshareGroup(a, u)
    /\ Begin(w, a, u, FALSE, GrantRecord(NONE, a))

BeginUndo(w, a, u) ==
    /\ u \in GroupUndoUsers(a)
    /\ Begin(w, a, u, TRUE, GrantRecord(NONE, a))

-----------------------------------------------------------------------------
(* The transactions. *)

At(w, pc) == request[w].pc = pc

GoTo(w, pc) == request' = [request EXCEPT ![w].pc = pc]

Finish(w) == request' = [request EXCEPT ![w] = Idle]

WriteRow(w) ==
    /\ row' = [row EXCEPT ![request[w].grantee] =
                 UpdatedRow(request[w].record.privilege, request[w].record.grantor)]
    /\ UNCHANGED <<isActive, stage, active, shareable, ledger>>
    /\ UNCHANGED <<crashes, overlapped, raced>>

AppendRecord(w) ==
    /\ ledger' = [ledger EXCEPT ![request[w].grantee] = Append(@, request[w].record)]
    /\ UNCHANGED <<isActive, stage, active, shareable, row>>
    /\ UNCHANGED <<crashes, overlapped, raced>>

(* share and unshare: the table first, the ledger second. *)
WriteGrant(w) == At(w, "checked") /\ ~request[w].undo /\ WriteRow(w) /\ GoTo(w, "written")

(* Mutant: the ledger is forgotten. *)
UnrecordedGrant(w) ==
    At(w, "written") /\ Finish(w) /\ UNCHANGED <<vars, crashes, overlapped, raced>>

RecordGrant(w) == At(w, "written") /\ AppendRecord(w) /\ Finish(w)

(* undo_share: the ledger is looked at once more, *)
PrepareRollback(w) ==
    LET h == ledger[request[w].grantee] IN
    /\ At(w, "checked") /\ request[w].undo
    /\ UndoPossible(h, request[w].actor)
    /\ request' = [request EXCEPT ![w].pc = "prepared",
                                  ![w].record = RollbackRecord(h)]
    /\ UNCHANGED <<vars, crashes, overlapped, raced>>

RefuseRollback(w) ==
    /\ At(w, "checked") /\ request[w].undo
    /\ ~UndoPossible(ledger[request[w].grantee], request[w].actor)
    /\ Finish(w)
    /\ UNCHANGED <<vars, crashes, overlapped, raced>>

(* then appended to, *)
RecordRollback(w) == At(w, "prepared") /\ AppendRecord(w) /\ GoTo(w, "appended")

(* then read back, *)
ReadBack(w) ==
    /\ At(w, "appended")
    /\ request' = [request EXCEPT ![w].pc = "read",
                     ![w].record = CurrentRecord(ledger[request[w].grantee])]
    /\ UNCHANGED <<vars, crashes, overlapped, raced>>

(* Mutant: the rollback is not posted. *)
UnpostedRollbackStep(w) ==
    At(w, "read") /\ Finish(w) /\ UNCHANGED <<vars, crashes, overlapped, raced>>

(* and posted to the table. *)
PostRollback(w) == At(w, "read") /\ WriteRow(w) /\ Finish(w)

Crash(w) ==
    /\ request[w] # Idle
    /\ crashes < MaxCrashes
    /\ crashes' = crashes + 1
    /\ Finish(w)
    /\ UNCHANGED <<vars, overlapped, raced>>

-----------------------------------------------------------------------------
StepsInit ==
    \E creator \in User :
        /\ isActive = [u \in User |-> TRUE]
        /\ stage = "live"
        /\ active = TRUE
        /\ shareable \in BOOLEAN
        /\ row = [u \in User |->
                    IF u = creator THEN UpdatedRow(OWNER, creator) ELSE NoRow]
        /\ ledger = [u \in User |->
                    IF u = creator THEN <<GrantRecord(OWNER, creator)>> ELSE <<>>]
        /\ request = [w \in Worker |-> Idle]
        /\ crashes = 0
        /\ overlapped = {}
        /\ raced = FALSE

Transaction(w) ==
    \/ WriteGrant(w)
    \/ RecordGrant(w)
    \/ PrepareRollback(w)
    \/ RefuseRollback(w)
    \/ RecordRollback(w)
    \/ ReadBack(w)
    \/ PostRollback(w)

(* Flags and accounts change in single transactions. *)
Environment ==
    /\ \E u \in User :
         \/ \E status \in BOOLEAN : SetGroupActiveStatus(u, status)
         \/ DeactivateUser(u)
         \/ ReactivateUser(u)
    /\ UNCHANGED <<request, crashes, overlapped, raced>>

StepsNext ==
    \/ \E w \in Worker :
         \/ \E a, u \in User :
              \/ \E p \in Grantable : BeginShare(w, a, u, p)
              \/ BeginUnshare(w, a, u)
              \/ BeginUndo(w, a, u)
         \/ Transaction(w)
         \/ Crash(w)
    \/ Environment

StepsSpec == StepsInit /\ [][StepsNext]_svars

-----------------------------------------------------------------------------
(* What survives interleaving. *)

(* Table and ledger agree about every user who was never handled by two      *)
(* workers at once, provided that no worker died: serialising the requests   *)
(* of one pair is all it takes to keep the two in step.                      *)
MatchUnlessOverlapped ==
    (Quiet /\ crashes = 0) =>
        \A u \in User \ overlapped : row[u] = PostedRow(ledger[u])

(* The last owner cannot be lost while requests to the group come one at a   *)
(* time, even if workers die half-way and accounts close between the check   *)
(* and the write.                                                            *)
OwnerUnlessRaced == ~raced => OwnerRemains

(* However requests interleave, every row at rest is one that some record of *)
(* its pair's ledger put there: a lost race leaves an outdated row, never an *)
(* invented one.                                                             *)
RowIsRecorded ==
    (Quiet /\ crashes = 0) =>
        \A u \in User :
            \/ row[u] = NoRow /\ ledger[u] = <<>>
            \/ \E i \in DOMAIN ledger[u] :
                 row[u] = UpdatedRow(ledger[u][i].privilege, ledger[u][i].grantor)

(* Owners cannot leave a group without an owner, whoever else is at work.    *)
OwnerAtRest == Quiet => OwnerRemains
=============================================================================
