----------------------------- MODULE Provenance -----------------------------
(***************************************************************************)
(* The two tables behind every sharing operation of HydroShare, for one    *)
(* (grantee, thing) pair:                                                  *)
(*                                                                         *)
(*   - a row of a "Privilege" table, which says what the grantee may do    *)
(*     now (an absent row is no privilege at all), and                     *)
(*   - a ledger, the records of the matching "Provenance" table in the     *)
(*     order of their start times; the last one is binding.                *)
(*                                                                         *)
(* UserGroup, UserResource, GroupResource, UserCommunity and               *)
(* GroupCommunity each have the same two tables and operations.  Record    *)
(* start times are taken to be distinct, as unique_together asks.          *)
(***************************************************************************)
EXTENDS Integers, Sequences, Folds, Functions

CONSTANTS
    User,      \* the accounts, any of which may be the grantor of a privilege
    NoUser,    \* the null grantor of a record that rolls back to nothing
    MaxRecords \* how many ledger records a behaviour may hold

ASSUME NoUserAssumption == NoUser \notin User
ASSUME MaxRecordsAssumption == MaxRecords \in Nat

VARIABLES
    row,       \* row[u]: the privilege row of grantee u
    ledger     \* ledger[u]: the provenance records of grantee u

tables == <<row, ledger>>

\* PrivilegeCodes: a smaller code is a greater privilege.
OWNER  == 1
CHANGE == 2
VIEW   == 3
NONE   == 4

Privilege == OWNER..NONE

(* The codes a sharing request may carry; revoking is a separate request. *)
Grantable == OWNER..VIEW

Row == [privilege : Privilege, grantor : User \cup {NoUser}]

NoRow == [privilege |-> NONE, grantor |-> NoUser]

Record == [privilege : Privilege, grantor : User \cup {NoUser},
           undone : BOOLEAN]

(* Mutant: the update that changes an existing row forgets the grantor. *)
UpdatedRowNoGrantor(privilege, grantor) == [privilege |-> privilege]

(* The row that an update of the Privilege table leaves behind. *)
UpdatedRow(privilege, grantor) ==
    IF privilege < NONE
      THEN [privilege |-> privilege, grantor |-> grantor]
      ELSE NoRow

(* The record that share and unshare append. *)
GrantRecord(privilege, grantor) ==
    [privilege |-> privilege, grantor |-> grantor, undone |-> FALSE]

(* history: the records of one pair. *)
CurrentRecord(history) == history[Len(history)]

(* Mutant: an undo may be undone in turn. *)
UndoPossibleTwice(history, grantor) ==
    history # <<>> /\ CurrentRecord(history).grantor = grantor

(* The last grant can be rolled back once, and only by its own grantor. *)
UndoPossible(history, grantor) ==
    /\ history # <<>>
    /\ ~CurrentRecord(history).undone
    /\ CurrentRecord(history).grantor = grantor

(* Mutants: an undo that does not copy the grantor; one without its mark. *)
RollbackRecordNoGrantor(history) ==
    [privilege |-> IF Len(history) > 1 THEN history[Len(history) - 1].privilege ELSE NONE,
     grantor |-> NoUser, undone |-> TRUE]

RollbackRecordUnmarked(history) == [privilege |-> NONE, grantor |-> NoUser]

(* The record that an undo appends: a copy of the one before the last. *)
RollbackRecord(history) ==
    IF Len(history) > 1
      THEN [history[Len(history) - 1] EXCEPT !.undone = TRUE]
      ELSE [privilege |-> NONE, grantor |-> NoUser, undone |-> TRUE]

(* What an undo reads back from the ledger and posts to the table. *)
PostedRow(history) ==
    IF history = <<>>
      THEN NoRow
      ELSE UpdatedRow(CurrentRecord(history).privilege,
                      CurrentRecord(history).grantor)

-----------------------------------------------------------------------------
(* The tables of one thing, with a pair for every user. *)

TablesTypeOK ==
    /\ row \in [User -> Row]
    /\ ledger \in [User -> Seq(Record)]

EmptyTables ==
    /\ row = [u \in User |-> NoRow]
    /\ ledger = [u \in User |-> <<>>]

(* The thing is deleted, and rows and records with it, by cascade. *)
ClearTables ==
    /\ row' = [u \in User |-> NoRow]
    /\ ledger' = [u \in User |-> <<>>]

NumRecords == FoldFunction(LAMBDA h, n : Len(h) + n, 0, ledger)

HasRoom == NumRecords < MaxRecords

(* share and unshare: the row, then the ledger. *)
Grant(u, p, a) ==
    /\ HasRoom
    /\ row' = [row EXCEPT ![u] = UpdatedRow(p, a)]
    /\ ledger' = [ledger EXCEPT ![u] = Append(@, GrantRecord(p, a))]

(* Mutant: the ledger is rolled back and the row is not. *)
UnpostedRollback(u) ==
    /\ HasRoom
    /\ ledger' = [ledger EXCEPT ![u] = Append(@, RollbackRecord(@))]
    /\ UNCHANGED row

(* undo_share: the ledger, then the row read back from it. *)
Rollback(u) ==
    /\ HasRoom
    /\ ledger' = [ledger EXCEPT ![u] = Append(@, RollbackRecord(@))]
    /\ row' = [row EXCEPT ![u] = PostedRow(ledger'[u])]

(* The users whose last grant a may take back. *)
UndoUsers(a) == {u \in User \ {a} : UndoPossible(ledger[u], a)}

(* The user whose request changes u's privilege in this step: the grantor    *)
(* that the new record names.                                                *)
ActorOf(u) == CurrentRecord(ledger'[u]).grantor

-----------------------------------------------------------------------------
(* What the tables promise together. *)

(* The table is a cache of the ledger: each row is what the last record of   *)
(* its pair says, whatever was shared, revoked and undone before.            *)
LedgerMatch == \A u \in User : row[u] = PostedRow(ledger[u])

(* A rollback record reinstates the record two places before it (nothing, if *)
(* there is none), and never follows another rollback: undo backs up by one  *)
(* grant and no further.                                                     *)
RollbackFaithful ==
    \A u \in User : \A i \in DOMAIN ledger[u] :
        ledger[u][i].undone =>
            /\ i > 1
            /\ ~ledger[u][i - 1].undone
            /\ IF i = 2
                 THEN ledger[u][i].privilege = NONE
                 ELSE /\ ledger[u][i].privilege = ledger[u][i - 2].privilege
                      /\ ledger[u][i].grantor = ledger[u][i - 2].grantor

(* Only a record of no privilege lacks a grantor, so that posting a record   *)
(* never writes a null grantor to the table, which forbids it.               *)
NullGrantorHoldsNothing ==
    \A u \in User : \A i \in DOMAIN ledger[u] :
        ledger[u][i].grantor = NoUser => ledger[u][i].privilege = NONE
=============================================================================
