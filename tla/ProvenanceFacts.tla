--------------------------- MODULE ProvenanceFacts ---------------------------
(* What the operators of Provenance return, for every ledger. *)
EXTENDS Provenance, TLAPS

(* The grantor is stored as given, so an update leaves a well-typed row. *)
LEMMA UpdatedRowType ==
    ASSUME NEW p \in Privilege, NEW g \in User \cup {NoUser}
    PROVE  /\ UpdatedRow(p, g) \in Row
           /\ UpdatedRow(p, g).privilege = p
  BY DEF UpdatedRow, Row, NoRow, Privilege, OWNER, NONE

(* The record that was appended last is the current one, and it leaves the *)
(* earlier ones where they were.                                           *)
LEMMA AppendedIsCurrent ==
    ASSUME NEW h \in Seq(Record), NEW r \in Record
    PROVE  /\ Append(h, r) \in Seq(Record)
           /\ Append(h, r) # <<>>
           /\ Len(Append(h, r)) = Len(h) + 1
           /\ CurrentRecord(Append(h, r)) = r
           /\ \A i \in 1..Len(h) : Append(h, r)[i] = h[i]
  BY DEF CurrentRecord

(* The current record of a ledger in use is one of its records. *)
LEMMA CurrentRecordType ==
    ASSUME NEW h \in Seq(Record), h # <<>>
    PROVE  /\ Len(h) \in 1..Len(h)
           /\ CurrentRecord(h) \in Record
  BY DEF CurrentRecord

LEMMA RollbackRecordType ==
    ASSUME NEW h \in Seq(Record)
    PROVE  /\ RollbackRecord(h) \in Record
           /\ RollbackRecord(h).undone
  <1>1. CASE Len(h) > 1
    <2>1. h[Len(h) - 1] \in Record
      BY <1>1
    <2>. QED
      BY <1>1, <2>1 DEF RollbackRecord, Record
  <1>2. CASE ~(Len(h) > 1)
    BY <1>2 DEF RollbackRecord, Record, Privilege, OWNER, NONE
  <1>. QED
    BY <1>1, <1>2

(* A rollback copies the record before the last, or revokes everything. *)
LEMMA RollbackCopies ==
    ASSUME NEW h \in Seq(Record), h # <<>>
    PROVE  /\ Len(h) = 1 => RollbackRecord(h).privilege = NONE
           /\ Len(h) > 1 =>
                /\ Len(h) - 1 \in 1..Len(h)
                /\ RollbackRecord(h).privilege = h[Len(h) - 1].privilege
                /\ RollbackRecord(h).grantor = h[Len(h) - 1].grantor
  <1>0. Len(h) \in Nat /\ Len(h) \in 1..Len(h)
    BY CurrentRecordType
  <1>1. CASE Len(h) = 1
    BY <1>0, <1>1 DEF RollbackRecord
  <1>2. CASE Len(h) > 1
    <2>. DEFINE previous == h[Len(h) - 1]
    <2>1. previous \in Record /\ Len(h) - 1 \in 1..Len(h)
      BY <1>2
    <2>2. RollbackRecord(h) = [previous EXCEPT !.undone = TRUE]
      BY <1>2 DEF RollbackRecord
    <2>3. /\ RollbackRecord(h).privilege = previous.privilege
          /\ RollbackRecord(h).grantor = previous.grantor
      <3>. HIDE DEF previous
      <3>. QED
        BY <2>1, <2>2 DEF Record
    <2>4. Len(h) # 1
      BY <1>0, <1>2
    <2>. QED
      BY <2>1, <2>3, <2>4
  <1>3. Len(h) = 1 \/ Len(h) > 1
    BY <1>0
  <1>. QED
    BY <1>1, <1>2, <1>3

(* Posting a ledger that has just grown writes the new record to the table. *)
LEMMA PostedAfterAppend ==
    ASSUME NEW h \in Seq(Record), NEW r \in Record
    PROVE  /\ PostedRow(Append(h, r)) = UpdatedRow(r.privilege, r.grantor)
           /\ PostedRow(Append(h, r)) \in Row
           /\ PostedRow(Append(h, r)).privilege = r.privilege
  <1>1. PostedRow(Append(h, r)) = UpdatedRow(r.privilege, r.grantor)
    BY AppendedIsCurrent DEF PostedRow
  <1>2. r.privilege \in Privilege /\ r.grantor \in User \cup {NoUser}
    BY DEF Record
  <1>. QED
    BY <1>1, <1>2, UpdatedRowType

LEMMA PrivilegeCodes ==
    Grantable \subseteq Privilege /\ NONE \in Privilege /\ OWNER \in Privilege
  BY DEF Grantable, Privilege, OWNER, VIEW, NONE

LEMMA NoRowType ==
    NoRow \in Row /\ NoRow = PostedRow(<<>>) /\ NoRow.privilege = NONE
  BY DEF NoRow, Row, PostedRow, Privilege, OWNER, NONE

-----------------------------------------------------------------------------
(* Every request that changes a privilege appends one record and posts it. *)

Posts(u, r) ==
    /\ row' = [row EXCEPT ![u] = PostedRow(Append(ledger[u], r))]
    /\ ledger' = [ledger EXCEPT ![u] = Append(ledger[u], r)]

LEMMA GrantPosts ==
    ASSUME TablesTypeOK, NEW u \in User, NEW p \in Privilege, NEW a \in User,
           Grant(u, p, a)
    PROVE  GrantRecord(p, a) \in Record /\ Posts(u, GrantRecord(p, a))
  <1>1. GrantRecord(p, a) \in Record
    BY DEF GrantRecord, Record
  <1>2. ledger[u] \in Seq(Record)
    BY DEF TablesTypeOK
  <1>3. PostedRow(Append(ledger[u], GrantRecord(p, a))) = UpdatedRow(p, a)
    BY <1>1, <1>2, PostedAfterAppend DEF GrantRecord
  <1>. QED
    BY <1>1, <1>3 DEF Grant, Posts, TablesTypeOK

LEMMA RollbackPosts ==
    ASSUME TablesTypeOK, NEW u \in User, Rollback(u)
    PROVE  /\ RollbackRecord(ledger[u]) \in Record
           /\ Posts(u, RollbackRecord(ledger[u]))
  <1>1. ledger[u] \in Seq(Record)
    BY DEF TablesTypeOK
  <1>2. ledger'[u] = Append(ledger[u], RollbackRecord(ledger[u]))
    BY DEF Rollback, TablesTypeOK
  <1>. QED
    BY <1>1, <1>2, RollbackRecordType DEF Rollback, Posts, TablesTypeOK

LEMMA PostsEffect ==
    ASSUME TablesTypeOK, NEW u \in User, NEW r \in Record, Posts(u, r)
    PROVE  /\ row' \in [User -> Row]
           /\ ledger' \in [User -> Seq(Record)]
           /\ row'[u] = PostedRow(ledger'[u])
           /\ row'[u].privilege = r.privilege
           /\ ledger'[u] = Append(ledger[u], r)
           /\ \A v \in User \ {u} : row'[v] = row[v] /\ ledger'[v] = ledger[v]
  <1>1. ledger[u] \in Seq(Record)
    BY DEF TablesTypeOK
  <1>2. /\ Append(ledger[u], r) \in Seq(Record)
        /\ PostedRow(Append(ledger[u], r)) \in Row
        /\ PostedRow(Append(ledger[u], r)).privilege = r.privilege
    BY <1>1, AppendedIsCurrent, PostedAfterAppend
  <1>. QED
    BY <1>2 DEF Posts, TablesTypeOK

(* Whatever posts a record keeps the table equal to the ledger. *)
LEMMA PostsKeepsMatch ==
    ASSUME TablesTypeOK, LedgerMatch, NEW u \in User, NEW r \in Record, Posts(u, r)
    PROVE  LedgerMatch'
  BY PostsEffect DEF LedgerMatch

LEMMA GrantChange ==
    ASSUME TablesTypeOK, NEW u \in User, NEW p \in Privilege, NEW a \in User,
           Grant(u, p, a)
    PROVE  /\ ActorOf(u) = a
           /\ row'[u].privilege = p
           /\ \A v \in User \ {u} : row'[v] = row[v]
  <1>1. /\ GrantRecord(p, a) \in Record
        /\ ledger'[u] = Append(ledger[u], GrantRecord(p, a))
        /\ row'[u].privilege = p
        /\ \A v \in User \ {u} : row'[v] = row[v]
    BY GrantPosts, PostsEffect DEF GrantRecord
  <1>2. CurrentRecord(ledger'[u]) = GrantRecord(p, a)
    BY <1>1, AppendedIsCurrent DEF TablesTypeOK
  <1>. QED
    BY <1>1, <1>2 DEF ActorOf, GrantRecord

-----------------------------------------------------------------------------
(* The two invariants about the records themselves.  They are properties of  *)
(* one ledger at a time: a step leaves it, empties it, or appends a grant or *)
(* a permitted rollback to it.                                               *)

WellRolled(h) ==
    \A i \in DOMAIN h :
        h[i].undone =>
            /\ i > 1
            /\ ~h[i - 1].undone
            /\ IF i = 2
                 THEN h[i].privilege = NONE
                 ELSE /\ h[i].privilege = h[i - 2].privilege
                      /\ h[i].grantor = h[i - 2].grantor

NullIsNothing(h) ==
    \A i \in DOMAIN h : h[i].grantor = NoUser => h[i].privilege = NONE

WellKept(h) == WellRolled(h) /\ NullIsNothing(h)

LEMMA WellKeptLedgers ==
    (RollbackFaithful /\ NullGrantorHoldsNothing)
        <=> \A u \in User : WellKept(ledger[u])
  BY DEF RollbackFaithful, NullGrantorHoldsNothing, WellKept, WellRolled,
         NullIsNothing

LEMMA GrantKeepsLedger ==
    ASSUME NEW h \in Seq(Record), WellKept(h),
           NEW p \in Privilege, NEW a \in User
    PROVE  WellKept(Append(h, GrantRecord(p, a)))
  <1>. DEFINE r == GrantRecord(p, a)
              k == Append(h, r)
  <1>1. r \in Record /\ ~r.undone /\ r.grantor # NoUser
    BY NoUserAssumption DEF GrantRecord, Record
  <1>2. /\ DOMAIN k = 1..(Len(h) + 1)
        /\ k[Len(h) + 1] = r
        /\ \A i \in 1..Len(h) : k[i] = h[i]
    BY <1>1
  <1>3. DOMAIN h = 1..Len(h) /\ Len(h) \in Nat
    OBVIOUS
  <1>4. WellRolled(k)
    <2>. SUFFICES ASSUME NEW i \in 1..Len(h), h[i].undone
                  PROVE  /\ i > 1
                         /\ ~k[i - 1].undone
                         /\ IF i = 2
                              THEN k[i].privilege = NONE
                              ELSE /\ k[i].privilege = k[i - 2].privilege
                                   /\ k[i].grantor = k[i - 2].grantor
      BY <1>1, <1>2, <1>3 DEF WellRolled
    <2>1. i > 1 /\ i - 1 \in 1..Len(h)
      BY <1>3 DEF WellKept, WellRolled
    <2>2. i # 2 => i - 2 \in 1..Len(h)
      BY <2>1
    <2>. HIDE DEF k
    <2>. QED
      BY <1>2, <1>3, <2>1, <2>2 DEF WellKept, WellRolled
  <1>5. NullIsNothing(k)
    <2>. HIDE DEF k
    <2>. QED
      BY <1>1, <1>2, <1>3 DEF WellKept, NullIsNothing
  <1>. QED
    BY <1>4, <1>5 DEF WellKept

LEMMA RollbackKeepsLedger ==
    ASSUME NEW h \in Seq(Record), WellKept(h),
           NEW a \in User, UndoPossible(h, a)
    PROVE  WellKept(Append(h, RollbackRecord(h)))
  <1>. DEFINE r == RollbackRecord(h)
              k == Append(h, r)
              n == Len(h)
  <1>1. n \in Nat /\ n >= 1 /\ DOMAIN h = 1..n /\ ~h[n].undone
    BY DEF UndoPossible, CurrentRecord
  <1>2. /\ n = 1 => r.privilege = NONE
        /\ n > 1 => /\ n - 1 \in 1..n
                    /\ r.privilege = h[n - 1].privilege
                    /\ r.grantor = h[n - 1].grantor
    BY RollbackCopies DEF UndoPossible
  <1>3. /\ DOMAIN k = 1..(n + 1)
        /\ k[n + 1] = r
        /\ \A i \in 1..n : k[i] = h[i]
    <2>. r \in Record
      BY RollbackRecordType
    <2>. HIDE DEF r
    <2>. QED
      OBVIOUS
  <1>. HIDE DEF r, k, n
  <1>4. WellRolled(k)
    <2>. SUFFICES ASSUME NEW i \in 1..(n + 1), k[i].undone
                  PROVE  /\ i > 1
                         /\ ~k[i - 1].undone
                         /\ IF i = 2
                              THEN k[i].privilege = NONE
                              ELSE /\ k[i].privilege = k[i - 2].privilege
                                   /\ k[i].grantor = k[i - 2].grantor
      BY <1>3 DEF WellRolled
    <2>1. CASE i = n + 1 /\ n = 1
      BY <1>1, <1>2, <1>3, <2>1
    <2>2. CASE i = n + 1 /\ n > 1
      BY <1>1, <1>2, <1>3, <2>2
    <2>3. CASE i \in 1..n
      <3>1. i \in DOMAIN h /\ h[i].undone /\ k[i] = h[i]
        BY <1>1, <1>3, <2>3
      <3>2. /\ i > 1
            /\ ~h[i - 1].undone
            /\ IF i = 2
                 THEN h[i].privilege = NONE
                 ELSE /\ h[i].privilege = h[i - 2].privilege
                      /\ h[i].grantor = h[i - 2].grantor
        BY <3>1 DEF WellKept, WellRolled
      <3>3. i - 1 \in 1..n /\ (i # 2 => i - 2 \in 1..n)
        BY <1>1, <2>3, <3>2
      <3>. QED
        BY <1>3, <3>1, <3>2, <3>3
    <2>. QED
      BY <1>1, <2>1, <2>2, <2>3
  <1>5. NullIsNothing(k)
    <2>1. r.grantor = NoUser => r.privilege = NONE
      BY <1>1, <1>2 DEF WellKept, NullIsNothing
    <2>. QED
      BY <1>1, <1>3, <2>1 DEF WellKept, NullIsNothing
  <1>. QED
    BY <1>4, <1>5 DEF WellKept, k, r

(* The step of one pair leaves every other ledger as it was. *)
LEMMA GrantKeepsLedgers ==
    ASSUME TablesTypeOK, \A u \in User : WellKept(ledger[u]),
           NEW u \in User, NEW p \in Privilege, NEW a \in User,
           Grant(u, p, a)
    PROVE  \A v \in User : WellKept(ledger'[v])
  <1>1. /\ ledger'[u] = Append(ledger[u], GrantRecord(p, a))
        /\ \A v \in User \ {u} : ledger'[v] = ledger[v]
    BY GrantPosts, PostsEffect
  <1>2. WellKept(ledger'[u])
    BY <1>1, GrantKeepsLedger DEF TablesTypeOK
  <1>. QED
    BY <1>1, <1>2

LEMMA RollbackKeepsLedgers ==
    ASSUME TablesTypeOK, \A u \in User : WellKept(ledger[u]),
           NEW u \in User, NEW a \in User, u \in UndoUsers(a), Rollback(u)
    PROVE  \A v \in User : WellKept(ledger'[v])
  <1>1. /\ ledger'[u] = Append(ledger[u], RollbackRecord(ledger[u]))
        /\ \A v \in User \ {u} : ledger'[v] = ledger[v]
    BY RollbackPosts, PostsEffect
  <1>2. UndoPossible(ledger[u], a)
    BY DEF UndoUsers
  <1>3. WellKept(ledger'[u])
    BY <1>1, <1>2, RollbackKeepsLedger DEF TablesTypeOK
  <1>. QED
    BY <1>1, <1>3

(* Deleting the thing empties every ledger. *)
LEMMA ClearKeepsLedgers ==
    ASSUME ClearTables
    PROVE  \A v \in User : WellKept(ledger'[v])
  <1>1. \A v \in User : ledger'[v] = <<>>
    BY DEF ClearTables
  <1>2. WellKept(<<>>)
    BY DEF WellKept, WellRolled, NullIsNothing
  <1>. QED
    BY <1>1, <1>2


=============================================================================
