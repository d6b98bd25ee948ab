------------------------ MODULE GroupSharingStepsProofs ------------------------
(***************************************************************************)
(* What is left of group sharing when the transactions of its requests     *)
(* interleave: proved for any users, workers, records and crashes.         *)
(***************************************************************************)
EXTENDS GroupSharingSteps, GroupSharingProofs

(* The grantee that a worker is busy with. *)
HandledBy(w, u) == request[w] # Idle /\ request[w].grantee = u

Undoing == {"prepared", "appended", "read"}

(* A busy worker names a grantee; an undo has found a record and will find   *)
(* one again, since ledgers only grow.                                       *)
RequestsFormed ==
    \A w \in Worker :
        /\ request[w].pc = "idle" => request[w] = Idle
        /\ request[w] # Idle =>
             /\ request[w].grantee \in User
             /\ request[w].pc = "written" => ~request[w].undo
             /\ request[w].pc \in Undoing => request[w].undo /\ ledger[request[w].grantee] # <<>>

(* Those who are not in overlapped are handled by one worker at most. *)
HandledOnce ==
    \A u \in User \ overlapped : \A v, w \in Worker :
        HandledBy(v, u) /\ HandledBy(w, u) => v = w

(* The row that a worker has written, or is about to write. *)
RowOf(record) == UpdatedRow(record.privilege, record.grantor)

(* What a worker knows of its pair when nobody else handles it. *)
InStep(w, u) ==
    /\ request[w].pc = "checked" => row[u] = PostedRow(ledger[u])
    /\ request[w].pc = "written" => row[u] = RowOf(request[w].record)
    /\ request[w].pc = "read" => request[w].record = CurrentRecord(ledger[u])

PairsInStep ==
    crashes = 0 =>
        \A u \in User \ overlapped :
            /\ \A w \in Worker : HandledBy(w, u) => InStep(w, u)
            /\ (\A w \in Worker : ~HandledBy(w, u)) => row[u] = PostedRow(ledger[u])

MatchInv == StepsTypeOK /\ RequestsFormed /\ HandledOnce /\ PairsInStep

-----------------------------------------------------------------------------
LEMMA IdleRequest ==
    /\ Idle \in RequestType /\ Idle.pc = "idle"
    /\ Idle.grantee = NoUser
BY DEF Idle, RequestType, PC, Record, GrantRecord, Privilege, NONE, OWNER

LEMMA StepsInitial == StepsInit => MatchInv
<1> SUFFICES ASSUME StepsInit PROVE MatchInv
  OBVIOUS
<1>1. PICK creator \in User :
        /\ row = [u \in User |-> IF u = creator THEN UpdatedRow(OWNER, creator) ELSE NoRow]
        /\ ledger = [u \in User |->
                    IF u = creator THEN <<GrantRecord(OWNER, creator)>> ELSE <<>>]
  BY DEF StepsInit
<1>2. GrantRecord(OWNER, creator) \in Record /\ UpdatedRow(OWNER, creator) \in Row
  BY PrivilegeCodes, UpdatedRowType DEF GrantRecord, Record
<1>3. TablesTypeOK
  BY <1>1, <1>2, NoRowType DEF TablesTypeOK
<1>4. StepsTypeOK
  <2>1. TypeOK
    BY <1>3 DEF StepsInit, TypeOK, Stage
  <2>2. request \in [Worker -> RequestType] /\ crashes \in 0..MaxCrashes
    BY IdleRequest, MaxCrashesAssumption DEF StepsInit
  <2>3. overlapped \subseteq User /\ raced \in BOOLEAN
    BY DEF StepsInit
  <2> QED
    BY <2>1, <2>2, <2>3 DEF StepsTypeOK
<1>5. \A u \in User : row[u] = PostedRow(ledger[u])
  <2>1. <<GrantRecord(OWNER, creator)>> = Append(<<>>, GrantRecord(OWNER, creator))
    OBVIOUS
  <2>2. PostedRow(<<GrantRecord(OWNER, creator)>>) = UpdatedRow(OWNER, creator)
    <3> DEFINE r == GrantRecord(OWNER, creator)
    <3>1. r \in Record /\ r.privilege = OWNER /\ r.grantor = creator
      BY <1>2 DEF GrantRecord
    <3>2. <<>> \in Seq(Record) /\ <<r>> = Append(<<>>, r)
      OBVIOUS
    <3> HIDE DEF r
    <3>3. PostedRow(Append(<<>>, r)) = UpdatedRow(r.privilege, r.grantor)
      BY <3>1, <3>2, PostedAfterAppend
    <3>4. PostedRow(<<r>>) = UpdatedRow(OWNER, creator)
      BY <3>1, <3>2, <3>3
    <3> QED
      BY <3>4 DEF r
  <2> QED
    BY <1>1, <2>2, NoRowType
<1> QED
  BY <1>4, <1>5 DEF StepsInit, MatchInv, RequestsFormed, HandledOnce, HandledBy, PairsInStep

-----------------------------------------------------------------------------
(* One pair at a time. *)

(* Worker w does something about the pair of u, and about no other.          *)
Frame(w, u) ==
    /\ \A x \in Worker \ {w} : request'[x] = request[x]
    /\ \A v \in User \ {u} : row'[v] = row[v] /\ ledger'[v] = ledger[v]
    /\ overlapped \subseteq overlapped' /\ overlapped' \subseteq User
    /\ crashes' = crashes
    /\ request'[w] # Idle => request'[w].grantee = u
    /\ request[w] # Idle => request[w].grantee = u

LEMMA PairStep ==
    ASSUME MatchInv, HandledOnce', NEW w \in Worker, NEW u \in User, Frame(w, u),
           (crashes = 0 /\ u \notin overlapped') =>
              IF request'[w] = Idle
                THEN request[w] # Idle /\ row'[u] = PostedRow(ledger'[u])
                ELSE InStep(w, u)'
    PROVE  PairsInStep'
<1> SUFFICES ASSUME crashes' = 0, NEW v \in User, v \notin overlapped'
             PROVE  /\ \A x \in Worker : HandledBy(x, v)' => InStep(x, v)'
                    /\ (\A x \in Worker : ~HandledBy(x, v)') => row'[v] = PostedRow(ledger'[v])
  BY DEF PairsInStep, StepsTypeOK, MatchInv, Frame
<1>0. crashes = 0 /\ v \notin overlapped
  BY DEF Frame
<1>1. CASE v # u
  <2>1. \A x \in Worker : HandledBy(x, v)' <=> HandledBy(x, v)
    BY <1>1 DEF Frame, HandledBy
  <2>2. \A x \in Worker : HandledBy(x, v) => x # w
    BY <1>1 DEF Frame, HandledBy
  <2>3. \A x \in Worker : HandledBy(x, v) => InStep(x, v)'
    BY <1>0, <1>1, <2>2 DEF Frame, InStep, MatchInv, PairsInStep
  <2> QED
    BY <1>0, <1>1, <2>1, <2>3 DEF MatchInv, PairsInStep, Frame
<1>2. CASE v = u /\ request'[w] # Idle
  <2>1. HandledBy(w, u)' /\ InStep(w, u)'
    BY <1>0, <1>2 DEF Frame, HandledBy
  <2>2. \A x \in Worker : HandledBy(x, u)' => x = w
    BY <1>2, <2>1 DEF HandledOnce
  <2> QED
    BY <1>2, <2>1, <2>2
<1>3. CASE v = u /\ request'[w] = Idle
  <2>1. request[w] # Idle /\ row'[u] = PostedRow(ledger'[u])
    BY <1>0, <1>3
  <2>2. HandledBy(w, u)
    BY <2>1 DEF HandledBy, Frame
  <2>3. \A x \in Worker : ~HandledBy(x, u)'
    BY <1>0, <1>3, <2>2 DEF HandledOnce, HandledBy, Frame, MatchInv
  <2> QED
    BY <1>3, <2>1, <2>3
<1> QED
  BY <1>1, <1>2, <1>3

(* A worker that has begun goes on. *)
LEMMA OnceKept ==
    ASSUME MatchInv, NEW w \in Worker, NEW u \in User, Frame(w, u), request[w] # Idle
    PROVE  HandledOnce'
BY DEF MatchInv, HandledOnce, HandledBy, Frame

(* What a worker's request becomes. *)
LEMMA Moved ==
    ASSUME NEW r \in RequestType, NEW pc \in PC \ {"idle"}, NEW s, s = [r EXCEPT !.pc = pc]
    PROVE  /\ s \in RequestType /\ s # Idle /\ s.pc = pc /\ s.undo = r.undo
           /\ s.grantee = r.grantee /\ s.record = r.record
<1>1. /\ s \in RequestType /\ s.pc = pc /\ s.undo = r.undo
      /\ s.grantee = r.grantee /\ s.record = r.record
  BY DEF RequestType
<1> QED
  BY <1>1, IdleRequest

LEMMA Noted ==
    ASSUME NEW r \in RequestType, r # Idle, r.pc # "idle", NEW record \in Record,
           NEW s, s = [r EXCEPT !.record = record]
    PROVE  /\ s \in RequestType /\ s # Idle /\ s.pc = r.pc /\ s.undo = r.undo
           /\ s.grantee = r.grantee /\ s.record = record
<1>1. /\ s \in RequestType /\ s.pc = r.pc /\ s.undo = r.undo
      /\ s.grantee = r.grantee /\ s.record = record
  BY DEF RequestType
<1> QED
  BY <1>1, IdleRequest

(* One transaction of a worker that is busy with u, by what it writes. *)
LEMMA TransactionKeeps ==
    ASSUME MatchInv, NEW w \in Worker, NEW u \in User, HandledBy(w, u),
           NEW new \in RequestType, request' = [request EXCEPT ![w] = new],
           \/ new = Idle
           \/ /\ new # Idle /\ new.pc # "idle" /\ new.grantee = u
              /\ new.pc = "written" => ~new.undo
              /\ new.pc \in Undoing => new.undo /\ ledger'[u] # <<>>,
           \A v \in User : ledger[v] # <<>> => ledger'[v] # <<>>,
           TablesTypeOK',
           \A v \in User \ {u} : row'[v] = row[v] /\ ledger'[v] = ledger[v],
           UNCHANGED <<isActive, stage, active, shareable, crashes, overlapped, raced>>,
           (crashes = 0 /\ u \notin overlapped /\ InStep(w, u)) =>
              IF new = Idle THEN row'[u] = PostedRow(ledger'[u]) ELSE InStep(w, u)'
    PROVE  MatchInv'
<1>0. request \in [Worker -> RequestType] /\ request[w] # Idle /\ request[w].grantee = u
  BY DEF MatchInv, StepsTypeOK, HandledBy
<1>1. StepsTypeOK'
  BY <1>0 DEF MatchInv, StepsTypeOK, TypeOK
<1>2. request'[w] = new /\ \A x \in Worker \ {w} : request'[x] = request[x]
  BY <1>0
<1>3. RequestsFormed'
  <2>1. \A x \in Worker \ {w} : /\ request'[x].pc = "idle" => request'[x] = Idle
                                /\ request'[x] # Idle =>
                                    /\ request'[x].grantee \in User
                                    /\ request'[x].pc = "written" => ~request'[x].undo
                                    /\ request'[x].pc \in Undoing =>
                                         request'[x].undo /\ ledger'[request'[x].grantee] # <<>>
    BY <1>2 DEF MatchInv, RequestsFormed
  <2> QED
    BY <1>2, <2>1, IdleRequest DEF RequestsFormed
<1>4. Frame(w, u)
  BY <1>0, <1>2 DEF Frame, MatchInv, StepsTypeOK
<1>5. HandledOnce'
  BY <1>0, <1>4, OnceKept
<1>6. crashes = 0 /\ u \notin overlapped => InStep(w, u)
  BY DEF MatchInv, PairsInStep
<1>7. PairsInStep'
  BY <1>0, <1>2, <1>4, <1>5, <1>6, PairStep
<1> QED
  BY <1>1, <1>3, <1>5, <1>7 DEF MatchInv

LEMMA Written ==
    ASSUME TablesTypeOK, NEW w \in Worker, NEW u \in User, request[w] \in RequestType,
           request[w].grantee = u, WriteRow(w)
    PROVE  /\ TablesTypeOK' /\ row'[u] = RowOf(request[w].record) /\ ledger' = ledger
           /\ \A v \in User \ {u} : row'[v] = row[v]
<1>1. request[w].record \in Record
  BY DEF RequestType
<1>2. RowOf(request[w].record) \in Row
  BY <1>1, UpdatedRowType DEF RowOf, Record
<1> QED
  BY <1>2 DEF WriteRow, RowOf, TablesTypeOK

LEMMA Appended ==
    ASSUME TablesTypeOK, NEW w \in Worker, NEW u \in User, request[w] \in RequestType,
           request[w].grantee = u, AppendRecord(w)
    PROVE  /\ TablesTypeOK' /\ row' = row /\ ledger'[u] # <<>>
           /\ PostedRow(ledger'[u]) = RowOf(request[w].record)
           /\ \A v \in User \ {u} : ledger'[v] = ledger[v]
<1>1. request[w].record \in Record /\ ledger[u] \in Seq(Record)
  BY DEF RequestType, TablesTypeOK
<1>2. ledger'[u] = Append(ledger[u], request[w].record)
  BY DEF AppendRecord, TablesTypeOK
<1>3. ledger' \in [User -> Seq(Record)]
  BY <1>1, AppendedIsCurrent DEF AppendRecord, TablesTypeOK
<1> QED
  BY <1>1, <1>2, <1>3, AppendedIsCurrent, PostedAfterAppend DEF AppendRecord, TablesTypeOK, RowOf

LEMMA TransactionStep ==
    ASSUME MatchInv, NEW w \in Worker, Transaction(w)
    PROVE  MatchInv'
<1>0. /\ request \in [Worker -> RequestType] /\ request[w] \in RequestType
      /\ TablesTypeOK
  BY DEF MatchInv, StepsTypeOK, TypeOK
<1>1. request[w].pc # "idle" /\ request[w] # Idle
  BY IdleRequest DEF Transaction, WriteGrant, RecordGrant, PrepareRollback, RefuseRollback,
     RecordRollback, ReadBack, PostRollback, At
<1>2. PICK u \in User : u = request[w].grantee
  BY <1>1 DEF MatchInv, RequestsFormed
<1>3. HandledBy(w, u) /\ request[w].record \in Record
  BY <1>0, <1>1, <1>2 DEF HandledBy, RequestType
<1>4. request[w].pc \in Undoing => request[w].undo /\ ledger[u] # <<>>
  BY <1>1, <1>2 DEF MatchInv, RequestsFormed
<1>6. CASE WriteGrant(w)
  <2> DEFINE new == [request[w] EXCEPT !.pc = "written"]
  <2>1. request' = [request EXCEPT ![w] = new]
    BY <1>0, <1>6 DEF WriteGrant, GoTo
  <2>2. /\ new \in RequestType /\ new # Idle /\ new.pc = "written"
        /\ new.undo = request[w].undo /\ new.grantee = u /\ new.record = request[w].record
    <3>1. new = [request[w] EXCEPT !.pc = "written"]
      OBVIOUS
    <3> HIDE DEF new
    <3> QED
      BY <1>0, <1>2, <3>1, Moved DEF PC
  <2>3. ~request[w].undo /\ request'[w] = new
    BY <1>0, <1>6, <2>1 DEF WriteGrant
  <2> HIDE DEF new
  <2>4. /\ TablesTypeOK' /\ row'[u] = RowOf(new.record) /\ ledger' = ledger
        /\ \A v \in User \ {u} : row'[v] = row[v]
    BY <1>0, <1>2, <1>6, <2>2, Written DEF WriteGrant
  <2>5. InStep(w, u)'
    BY <2>2, <2>3, <2>4 DEF InStep
  <2>6. UNCHANGED <<isActive, stage, active, shareable, crashes, overlapped, raced>>
    BY <1>6 DEF WriteGrant, WriteRow
  <2>7. new.pc # "idle" /\ new.pc \notin Undoing /\ ~new.undo
    BY <2>2, <2>3 DEF Undoing
  <2> QED
    BY <1>3, <2>1, <2>2, <2>4, <2>5, <2>6, <2>7, TransactionKeeps
<1>7. CASE RecordGrant(w)
  <2>1. /\ TablesTypeOK' /\ row' = row /\ PostedRow(ledger'[u]) = RowOf(request[w].record)
        /\ ledger'[u] # <<>>
        /\ \A v \in User \ {u} : ledger'[v] = ledger[v]
    BY <1>0, <1>2, <1>7, Appended DEF RecordGrant
  <2>2. InStep(w, u) => row'[u] = PostedRow(ledger'[u])
    BY <1>7, <2>1 DEF InStep, RecordGrant, At
  <2>3. UNCHANGED <<isActive, stage, active, shareable, crashes, overlapped, raced>>
        /\ request' = [request EXCEPT ![w] = Idle]
    BY <1>7 DEF RecordGrant, AppendRecord, Finish
  <2>4. \A v \in User : ledger[v] # <<>> => ledger'[v] # <<>>
    BY <2>1
  <2> QED
    BY <1>3, <2>1, <2>2, <2>3, <2>4, IdleRequest, TransactionKeeps
<1>8. CASE PrepareRollback(w)
  <2> DEFINE next == RollbackRecord(ledger[u])
             new == [request[w] EXCEPT !.pc = "prepared", !.record = next]
  <2>1. next \in Record /\ ledger[u] # <<>>
    BY <1>0, <1>2, <1>8, RollbackRecordType DEF TablesTypeOK, PrepareRollback, UndoPossible
  <2>2. request' = [request EXCEPT ![w] = new]
    BY <1>0, <1>2, <1>8 DEF PrepareRollback
  <2>3. /\ new \in RequestType /\ new # Idle /\ new.pc = "prepared"
        /\ new.undo = request[w].undo /\ new.grantee = u
    <3> DEFINE moved == [request[w] EXCEPT !.pc = "prepared"]
    <3>1. moved = [request[w] EXCEPT !.pc = "prepared"] /\ new = [moved EXCEPT !.record = next] /\ next \in Record
      BY <1>0, <2>1
    <3> HIDE DEF new, next, moved
    <3>2. /\ moved \in RequestType /\ moved # Idle /\ moved.pc = "prepared"
          /\ moved.undo = request[w].undo /\ moved.grantee = u
      BY <1>0, <1>2, <3>1, Moved DEF PC
    <3>3. PICK r \in RequestType : r = moved
      BY <3>2
    <3>4. PICK c \in Record : c = next
      BY <3>1
    <3>5. new = [r EXCEPT !.record = c]
      BY <3>1, <3>3, <3>4
    <3>6. r # Idle /\ r.pc # "idle"
      BY <3>2, <3>3
    <3>7. /\ new \in RequestType /\ new # Idle /\ new.pc = r.pc /\ new.undo = r.undo
          /\ new.grantee = r.grantee /\ new.record = c
      BY <3>5, <3>6, Noted
    <3> QED
      BY <3>2, <3>3, <3>4, <3>7
  <2>4. request[w].undo /\ request'[w] = new
    BY <1>0, <1>8, <2>2 DEF PrepareRollback
  <2> HIDE DEF new
  <2>5. InStep(w, u)'
    BY <2>3, <2>4 DEF InStep
  <2>6. /\ UNCHANGED <<row, ledger, isActive, stage, active, shareable, crashes, overlapped, raced>>
        /\ TablesTypeOK'
    BY <1>0, <1>8 DEF PrepareRollback, vars, TablesTypeOK
  <2>7. new.pc # "idle" /\ new.pc # "written" /\ new.undo
    BY <2>3, <2>4
  <2> QED
    BY <1>3, <2>1, <2>2, <2>3, <2>5, <2>6, <2>7, TransactionKeeps
<1>9. CASE RefuseRollback(w)
  <2>1. UNCHANGED <<row, ledger, isActive, stage, active, shareable, crashes, overlapped, raced>>
    BY <1>9 DEF RefuseRollback, vars
  <2>2. InStep(w, u) => row'[u] = PostedRow(ledger'[u])
    BY <1>9, <2>1 DEF InStep, RefuseRollback, At
  <2>3. TablesTypeOK'
    BY <1>0, <2>1 DEF TablesTypeOK
  <2> QED
    BY <1>3, <1>9, <2>1, <2>2, <2>3, IdleRequest, TransactionKeeps DEF RefuseRollback, Finish
<1>10. CASE RecordRollback(w)
  <2> DEFINE new == [request[w] EXCEPT !.pc = "appended"]
  <2>1. request' = [request EXCEPT ![w] = new]
    BY <1>0, <1>10 DEF RecordRollback, GoTo
  <2>2. /\ new \in RequestType /\ new # Idle /\ new.pc = "appended"
        /\ new.undo = request[w].undo /\ new.grantee = u
    <3>1. new = [request[w] EXCEPT !.pc = "appended"]
      OBVIOUS
    <3> HIDE DEF new
    <3> QED
      BY <1>0, <1>2, <3>1, Moved DEF PC
  <2>3. request[w].undo /\ request'[w] = new
    BY <1>0, <1>4, <1>10, <2>1 DEF RecordRollback, At, Undoing
  <2> HIDE DEF new
  <2>4. /\ TablesTypeOK' /\ row' = row /\ ledger'[u] # <<>>
        /\ \A v \in User \ {u} : ledger'[v] = ledger[v]
    BY <1>0, <1>2, <1>10, Appended DEF RecordRollback
  <2>5. InStep(w, u)'
    BY <2>2, <2>3, <2>4 DEF InStep
  <2>6. UNCHANGED <<isActive, stage, active, shareable, crashes, overlapped, raced>>
    BY <1>10 DEF RecordRollback, AppendRecord
  <2>7. /\ new.pc # "idle" /\ new.pc # "written" /\ new.undo
        /\ \A v \in User : ledger[v] # <<>> => ledger'[v] # <<>>
    BY <2>2, <2>3, <2>4
  <2> QED
    BY <1>3, <2>1, <2>2, <2>4, <2>5, <2>6, <2>7, TransactionKeeps
<1>11. CASE ReadBack(w)
  <2> DEFINE read == CurrentRecord(ledger[u])
             new == [request[w] EXCEPT !.pc = "read", !.record = read]
  <2>1. request' = [request EXCEPT ![w] = new]
    BY <1>0, <1>2, <1>11 DEF ReadBack
  <2>2. /\ UNCHANGED <<row, ledger, isActive, stage, active, shareable, crashes, overlapped, raced>>
        /\ TablesTypeOK'
    BY <1>0, <1>11 DEF ReadBack, vars, TablesTypeOK
  <2>3. read \in Record /\ ledger[u] # <<>>
    <3>1. ledger[u] \in Seq(Record) /\ ledger[u] # <<>>
      BY <1>0, <1>4, <1>11 DEF TablesTypeOK, ReadBack, At, Undoing
    <3> QED
      BY <3>1, CurrentRecordType
  <2>4. /\ new \in RequestType /\ new # Idle /\ new.pc = "read"
        /\ new.undo = request[w].undo /\ new.grantee = u /\ new.record = read
    <3> DEFINE moved == [request[w] EXCEPT !.pc = "read"]
    <3>1. moved = [request[w] EXCEPT !.pc = "read"] /\ new = [moved EXCEPT !.record = read] /\ read \in Record
      BY <1>0, <2>3
    <3> HIDE DEF new, read, moved
    <3>2. /\ moved \in RequestType /\ moved # Idle /\ moved.pc = "read"
          /\ moved.undo = request[w].undo /\ moved.grantee = u
      BY <1>0, <1>2, <3>1, Moved DEF PC
    <3>3. PICK r \in RequestType : r = moved
      BY <3>2
    <3>4. PICK c \in Record : c = read
      BY <3>1
    <3>5. new = [r EXCEPT !.record = c]
      BY <3>1, <3>3, <3>4
    <3>6. r # Idle /\ r.pc # "idle"
      BY <3>2, <3>3
    <3>7. /\ new \in RequestType /\ new # Idle /\ new.pc = r.pc /\ new.undo = r.undo
          /\ new.grantee = r.grantee /\ new.record = c
      BY <3>5, <3>6, Noted
    <3> QED
      BY <3>2, <3>3, <3>4, <3>7
  <2>5. request[w].undo /\ request'[w] = new
    BY <1>0, <1>4, <1>11, <2>1 DEF ReadBack, At, Undoing
  <2> HIDE DEF new
  <2>6. InStep(w, u) => InStep(w, u)'
    BY <1>11, <2>2, <2>4, <2>5 DEF InStep, ReadBack, At
  <2>7. new.pc # "idle" /\ new.pc # "written" /\ new.undo
    BY <2>4, <2>5
  <2> QED
    BY <1>3, <2>1, <2>2, <2>3, <2>4, <2>6, <2>7, TransactionKeeps
<1>12. CASE PostRollback(w)
  <2>1. /\ TablesTypeOK' /\ row'[u] = RowOf(request[w].record) /\ ledger' = ledger
        /\ \A v \in User \ {u} : row'[v] = row[v]
    BY <1>0, <1>2, <1>12, Written DEF PostRollback
  <2>2. InStep(w, u) => row'[u] = PostedRow(ledger'[u])
    <3>1. ledger[u] # <<>>
      BY <1>4, <1>12 DEF PostRollback, At, Undoing
    <3> QED
      BY <1>12, <2>1, <3>1 DEF InStep, PostRollback, At, PostedRow, RowOf
  <2>3. UNCHANGED <<isActive, stage, active, shareable, crashes, overlapped, raced>>
        /\ request' = [request EXCEPT ![w] = Idle]
    BY <1>12 DEF PostRollback, WriteRow, Finish
  <2> QED
    BY <1>3, <2>1, <2>2, <2>3, IdleRequest, TransactionKeeps
<1> QED
  BY <1>6, <1>7, <1>8, <1>9, <1>10, <1>11, <1>12 DEF Transaction

-----------------------------------------------------------------------------
(* The other steps. *)

LEMMA Begun ==
    ASSUME NEW a \in User, NEW u \in User, NEW undo \in BOOLEAN, NEW record \in Record,
           NEW s, s = [pc |-> "checked", undo |-> undo, actor |-> a,
                       grantee |-> u, record |-> record]
    PROVE  /\ s \in RequestType /\ s # Idle /\ s.pc = "checked" /\ s.undo = undo
           /\ s.grantee = u /\ s.record = record
<1>1. /\ s \in RequestType /\ s.pc = "checked" /\ s.undo = undo
      /\ s.grantee = u /\ s.record = record
  BY DEF RequestType, PC
<1> QED
  BY <1>1, IdleRequest

LEMMA BeginKeeps ==
    ASSUME MatchInv, NEW w \in Worker, NEW a \in User, NEW u \in User,
           NEW undo \in BOOLEAN, NEW record \in Record, Begin(w, a, u, undo, record)
    PROVE  MatchInv'
<1>0. /\ request \in [Worker -> RequestType] /\ TablesTypeOK /\ TypeOK
      /\ crashes \in 0..MaxCrashes /\ overlapped \subseteq User /\ raced \in BOOLEAN
  BY DEF MatchInv, StepsTypeOK, TypeOK
<1> DEFINE new == [pc |-> "checked", undo |-> undo, actor |-> a,
                   grantee |-> u, record |-> record]
<1>1. request[w] = Idle /\ request' = [request EXCEPT ![w] = new]
  BY DEF Begin
<1>2. new \in RequestType /\ new # Idle /\ new.pc = "checked" /\ new.grantee = u
  <2>1. new = [pc |-> "checked", undo |-> undo, actor |-> a, grantee |-> u, record |-> record]
    OBVIOUS
  <2> HIDE DEF new
  <2> QED
    BY <2>1, Begun
<1> HIDE DEF new
<1>3. /\ request'[w] = new /\ \A x \in Worker \ {w} : request'[x] = request[x]
      /\ request' \in [Worker -> RequestType]
  BY <1>0, <1>1, <1>2
<1>4. UNCHANGED <<row, ledger, isActive, stage, active, shareable, crashes>>
  BY DEF Begin, vars
<1>5. /\ overlapped' = IF \E v \in Worker \ {w} : HandledBy(v, u)
                         THEN overlapped \cup {u} ELSE overlapped
      /\ raced' \in BOOLEAN
  BY DEF Begin, Observe, HandledBy, Busy
<1>6. StepsTypeOK'
  BY <1>0, <1>3, <1>4, <1>5 DEF StepsTypeOK, TypeOK, TablesTypeOK
<1>7. RequestsFormed'
  <2>1. \A x \in Worker \ {w} : /\ request'[x].pc = "idle" => request'[x] = Idle
                                /\ request'[x] # Idle =>
                                    /\ request'[x].grantee \in User
                                    /\ request'[x].pc = "written" => ~request'[x].undo
                                    /\ request'[x].pc \in Undoing =>
                                         request'[x].undo /\ ledger'[request'[x].grantee] # <<>>
    BY <1>3, <1>4 DEF MatchInv, RequestsFormed
  <2> QED
    BY <1>2, <1>3, <2>1 DEF RequestsFormed, Undoing
<1>8. Frame(w, u)
  BY <1>0, <1>1, <1>2, <1>3, <1>4, <1>5 DEF Frame
<1>9. HandledOnce'
  <2> SUFFICES ASSUME NEW v \in User, v \notin overlapped', NEW x \in Worker, NEW y \in Worker,
                      HandledBy(x, v)', HandledBy(y, v)'
               PROVE  x = y
    BY DEF HandledOnce
  <2>1. v \notin overlapped
    BY <1>5
  <2>2. CASE x # w /\ y # w
    BY <1>3, <2>1, <2>2 DEF HandledBy, MatchInv, HandledOnce
  <2>3. ASSUME NEW z \in Worker, z # w, HandledBy(z, v)', HandledBy(w, v)'
        PROVE  FALSE
    <3>1. v = u /\ HandledBy(z, u)
      BY <1>2, <1>3, <2>3 DEF HandledBy
    <3> QED
      BY <1>5, <2>3, <3>1
  <2> QED
    BY <2>2, <2>3
<1>10. ASSUME crashes = 0, u \notin overlapped'
       PROVE  InStep(w, u)'
  <2>1. u \notin overlapped /\ \A v \in Worker : ~HandledBy(v, u)
    BY <1>1, <1>5, <1>10 DEF HandledBy
  <2>2. row[u] = PostedRow(ledger[u])
    BY <1>10, <2>1 DEF MatchInv, PairsInStep
  <2> QED
    BY <1>2, <1>3, <1>4, <2>2 DEF InStep
<1>11. PairsInStep'
  BY <1>2, <1>3, <1>8, <1>9, <1>10, PairStep
<1> QED
  BY <1>6, <1>7, <1>9, <1>11 DEF MatchInv

LEMMA CrashKeeps ==
    ASSUME MatchInv, NEW w \in Worker, Crash(w)
    PROVE  MatchInv'
<1>0. /\ request \in [Worker -> RequestType] /\ TablesTypeOK /\ TypeOK
      /\ crashes \in 0..MaxCrashes /\ overlapped \subseteq User /\ raced \in BOOLEAN
  BY DEF MatchInv, StepsTypeOK, TypeOK
<1>1. /\ request' = [request EXCEPT ![w] = Idle]
      /\ UNCHANGED <<row, ledger, isActive, stage, active, shareable, overlapped, raced>>
      /\ crashes' = crashes + 1 /\ crashes < MaxCrashes
  BY DEF Crash, Finish, vars
<1>2. StepsTypeOK'
  BY <1>0, <1>1, IdleRequest, MaxCrashesAssumption DEF StepsTypeOK, TypeOK, TablesTypeOK
<1>3. \A x \in Worker : request'[x] = Idle \/ request'[x] = request[x]
  BY <1>0, <1>1
<1>4. RequestsFormed'
  BY <1>1, <1>3, IdleRequest DEF MatchInv, RequestsFormed
<1>5. HandledOnce'
  BY <1>1, <1>3 DEF MatchInv, HandledOnce, HandledBy
<1>6. crashes' # 0
  BY <1>0, <1>1
<1> QED
  BY <1>2, <1>4, <1>5, <1>6 DEF MatchInv, PairsInStep

LEMMA EnvironmentKeeps ==
    ASSUME MatchInv, Environment \/ UNCHANGED svars
    PROVE  MatchInv'
<1>0. TypeOK
  BY DEF MatchInv, StepsTypeOK
<1>1. /\ UNCHANGED <<row, ledger, request, crashes, overlapped, raced>>
      /\ TypeOK'
  BY <1>0 DEF Environment, SetGroupActiveStatus, DeactivateUser, ReactivateUser, svars, vars,
     TypeOK, TablesTypeOK
<1> QED
  BY <1>1 DEF MatchInv, StepsTypeOK, RequestsFormed, HandledOnce, HandledBy, PairsInStep, InStep

LEMMA MatchStepwise ==
    ASSUME MatchInv, [StepsNext]_svars
    PROVE  MatchInv'
<1>0. \A p \in Privilege, a \in User : GrantRecord(p, a) \in Record
  BY DEF GrantRecord, Record
<1>1. ASSUME NEW w \in Worker, NEW a \in User, NEW u \in User,
             \/ \E p \in Grantable : BeginShare(w, a, u, p)
             \/ BeginUnshare(w, a, u)
             \/ BeginUndo(w, a, u)
      PROVE  MatchInv'
  <2>1. PICK undo \in BOOLEAN, record \in Record : Begin(w, a, u, undo, record)
    BY <1>0, <1>1, PrivilegeCodes DEF BeginShare, BeginUnshare, BeginUndo
  <2> QED
    BY <2>1, BeginKeeps
<1> QED
  BY <1>1, TransactionStep, CrashKeeps, EnvironmentKeeps DEF StepsNext

(* The inductive invariant holds of every behaviour.                         *)
THEOREM MatchInvariance == StepsSpec => []MatchInv
BY StepsInitial, MatchStepwise, PTL DEF StepsSpec

(* Every variable of the requests under way keeps its type.                  *)
THEOREM StepsTypeCorrect == StepsSpec => []StepsTypeOK
<1>1. MatchInv => StepsTypeOK
  BY DEF MatchInv
<1> QED
  BY <1>1, MatchInvariance, PTL

(* Table and ledger come apart only for a user whom two workers handled at   *)
(* once, or when a worker died.                                              *)
THEOREM MatchWithoutOverlap == StepsSpec => []MatchUnlessOverlapped
<1>1. MatchInv => MatchUnlessOverlapped
  BY DEF MatchInv, PairsInStep, MatchUnlessOverlapped, Quiet, Busy, HandledBy
<1> QED
  BY <1>1, MatchInvariance, PTL

-----------------------------------------------------------------------------
(* The last owner, while requests come one at a time. *)

(* What a busy worker is going to write leaves the group an owner.           *)
Spare(w) ==
    \/ request[w] = Idle \/ request[w].pc = "written"
    \/ ~request[w].undo /\ request[w].record.privilege = OWNER
    \/ \E o \in User : o # request[w].grantee /\ OwnsGroup(o)

OwnerInv ==
    ~raced =>
        /\ \A v, w \in Worker : request[v] # Idle /\ request[w] # Idle => v = w
        /\ \A w \in Worker : Spare(w)
        /\ OwnerRemains

LEMMA ChecksLeaveOwner ==
    ASSUME OwnerRemains, stage = "live", NEW a \in User, NEW u \in User, isActive[u]
    PROVE  /\ \A p \in Grantable : CheckShareGroup(a, u, p) =>
                p = OWNER \/ \E o \in User : o # u /\ OwnsGroup(o)
           /\ CheckUnshareGroup(a, u) \/ u \in GroupUndoUsers(a) =>
                \E o \in User : o # u /\ OwnsGroup(o)
<1>1. CASE ~OwnsGroup(u)
  BY <1>1 DEF OwnerRemains
<1>2. CASE OwnsGroup(u)
  <2>1. ~SoleOwner(u) => \E o \in User : o # u /\ OwnsGroup(o)
    BY <1>2, FellowOwner
  <2>2. \A p \in Grantable : CheckShareGroup(a, u, p) => p = OWNER \/ ~SoleOwner(u)
    BY <1>2 DEF CheckShareGroup, EffectivePrivilege, OwnsGroup
  <2>3. u \in GroupUndoUsers(a) => ~SoleOwner(u)
    BY <1>2 DEF GroupUndoUsers, Owners, OwnsGroup
  <2>4. CheckUnshareGroup(a, u) => \E o \in User : o # u /\ OwnsGroup(o)
    BY <1>2 DEF CheckUnshareGroup
  <2> QED
    BY <2>1, <2>2, <2>3, <2>4
<1> QED
  BY <1>1, <1>2

LEMMA BeginLeavesOwner ==
    ASSUME MatchInv, OwnerInv, NEW w \in Worker, NEW a \in User, NEW u \in User,
           NEW undo \in BOOLEAN, NEW record \in Record, Begin(w, a, u, undo, record),
           OwnerRemains /\ stage = "live" /\ isActive[u] =>
             (~undo /\ record.privilege = OWNER) \/ \E o \in User : o # u /\ OwnsGroup(o)
    PROVE  OwnerInv'
<1> SUFFICES ASSUME ~raced' PROVE OwnerInv'
  BY DEF OwnerInv
<1>0. request \in [Worker -> RequestType]
  BY DEF MatchInv, StepsTypeOK
<1> DEFINE new == [pc |-> "checked", undo |-> undo, actor |-> a,
                   grantee |-> u, record |-> record]
<1>1. request' = [request EXCEPT ![w] = new]
  BY DEF Begin
<1>2. new # Idle /\ new.undo = undo /\ new.grantee = u /\ new.record = record
  <2>1. new = [pc |-> "checked", undo |-> undo, actor |-> a, grantee |-> u, record |-> record]
    OBVIOUS
  <2> HIDE DEF new
  <2> QED
    BY <2>1, Begun
<1> HIDE DEF new
<1>3. request'[w] = new /\ \A x \in Worker \ {w} : request'[x] = request[x]
  BY <1>0, <1>1
<1>4. ~raced /\ \A x \in Worker \ {w} : request[x] = Idle
  BY DEF Begin, Observe, Busy
<1>5. UNCHANGED <<row, stage>> /\ stage = "live" /\ isActive[u]
  BY DEF Begin, vars
<1>6. OwnerRemains' /\ OwnerRemains
  BY <1>4, <1>5 DEF OwnerInv, OwnerRemains, OwnsGroup
<1>7. Spare(w)'
  BY <1>2, <1>3, <1>5, <1>6 DEF Spare, OwnsGroup
<1>8. \A x \in Worker : Spare(x)'
  BY <1>3, <1>4, <1>7 DEF Spare
<1> QED
  BY <1>3, <1>4, <1>6, <1>8 DEF OwnerInv

(* A transaction of w that leaves rows alone, or gives u what w spares.      *)
LEMMA OwnerTransaction ==
    ASSUME MatchInv, OwnerInv, NEW w \in Worker, NEW new,
           request[w] # Idle, request' = [request EXCEPT ![w] = new],
           UNCHANGED <<stage, raced>>,
           \/ /\ row' = row
              /\ new = Idle \/ /\ new.grantee = request[w].grantee
                               /\ ~new.undo => /\ ~request[w].undo /\ new.record = request[w].record
                                               /\ request[w].pc # "written"
                               /\ new.undo => request[w].undo /\ request[w].pc # "written"
           \/ /\ new = Idle \/ new.pc = "written"
              /\ request[w].pc # "written"
              /\ row'[request[w].grantee].privilege = request[w].record.privilege
                   \/ request[w].undo
              /\ \A v \in User : v # request[w].grantee => row'[v] = row[v]
    PROVE  OwnerInv'
<1> SUFFICES ASSUME ~raced PROVE OwnerInv'
  BY DEF OwnerInv
<1>0. request \in [Worker -> RequestType]
  BY DEF MatchInv, StepsTypeOK
<1>1. request'[w] = new /\ \A x \in Worker \ {w} : request'[x] = request[x]
  BY <1>0
<1>2. /\ \A x \in Worker \ {w} : request'[x] = Idle
      /\ Spare(w) /\ OwnerRemains
  BY <1>1 DEF OwnerInv
<1>3. PICK u \in User : u = request[w].grantee
  BY DEF MatchInv, RequestsFormed
<1>4. CASE row' = row
  <2>1. \A o \in User : OwnsGroup(o)' <=> OwnsGroup(o)
    BY <1>4 DEF OwnsGroup
  <2>2. OwnerRemains'
    BY <1>2, <2>1 DEF OwnerRemains
  <2>3. CASE new = Idle
    BY <1>1, <1>2, <2>2, <2>3 DEF OwnerInv, Spare
  <2>4. CASE new # Idle /\ new.grantee = u /\ (~new.undo => ~request[w].undo /\ new.record = request[w].record)
             /\ (new.undo => request[w].undo) /\ request[w].pc # "written"
    <3>1. Spare(w)'
      BY <1>1, <1>2, <1>3, <2>1, <2>4 DEF Spare
    <3> QED
      BY <1>1, <1>2, <2>2, <3>1 DEF OwnerInv, Spare
  <2>5. CASE /\ new = Idle \/ new.pc = "written"
    BY <1>1, <1>2, <2>2, <2>5 DEF OwnerInv, Spare
  <2> QED
    BY <1>3, <2>3, <2>4, <2>5
<1>5. CASE /\ new = Idle \/ new.pc = "written"
           /\ request[w].pc # "written"
           /\ row'[u].privilege = request[w].record.privilege \/ request[w].undo
           /\ \A v \in User : v # u => row'[v] = row[v]
  <2>1. stage = "live" => \E o \in User : OwnsGroup(o)'
    BY <1>2, <1>3, <1>5 DEF Spare, OwnsGroup
  <2> QED
    BY <1>1, <1>2, <1>5, <2>1 DEF OwnerInv, Spare, OwnerRemains
<1> QED
  BY <1>3, <1>4, <1>5

LEMMA OwnerTransactions ==
    ASSUME MatchInv, OwnerInv, NEW w \in Worker, Transaction(w)
    PROVE  OwnerInv'
<1>0. request[w] \in RequestType /\ TablesTypeOK /\ request[w].record \in Record
  BY DEF MatchInv, StepsTypeOK, TypeOK, RequestType
<1>1. request[w].pc # "idle" /\ request[w] # Idle
  BY IdleRequest DEF Transaction, WriteGrant, RecordGrant, PrepareRollback, RefuseRollback,
     RecordRollback, ReadBack, PostRollback, At
<1>2. PICK u \in User : u = request[w].grantee
  BY <1>1 DEF MatchInv, RequestsFormed
<1>3. request[w].pc \in Undoing => request[w].undo
  BY <1>1 DEF MatchInv, RequestsFormed
<1>4. RowOf(request[w].record).privilege = request[w].record.privilege
  BY <1>0, UpdatedRowType DEF RowOf, Record
<1>5. CASE WriteGrant(w)
  <2> DEFINE new == [request[w] EXCEPT !.pc = "written"]
  <2>1. request' = [request EXCEPT ![w] = new] /\ new.pc = "written"
    BY <1>0, <1>5 DEF WriteGrant, GoTo, RequestType, MatchInv, StepsTypeOK
  <2> HIDE DEF new
  <2>2. row'[u] = RowOf(request[w].record) /\ \A v \in User \ {u} : row'[v] = row[v]
    BY <1>0, <1>2, <1>5, Written DEF WriteGrant
  <2>3. UNCHANGED <<stage, raced>> /\ request[w].pc # "written"
    BY <1>5 DEF WriteGrant, WriteRow, At
  <2> QED
    BY <1>1, <1>2, <1>4, <2>1, <2>2, <2>3, OwnerTransaction
<1>6. CASE RecordGrant(w)
  BY <1>1, <1>6, OwnerTransaction DEF RecordGrant, AppendRecord, Finish
<1>7. CASE RefuseRollback(w)
  BY <1>1, <1>7, OwnerTransaction DEF RefuseRollback, Finish, vars
<1>8. CASE PostRollback(w)
  <2>1. row'[u] = RowOf(request[w].record) /\ \A v \in User \ {u} : row'[v] = row[v]
    BY <1>0, <1>2, <1>8, Written DEF PostRollback
  <2>2. UNCHANGED <<stage, raced>> /\ request[w].pc # "written"
    BY <1>8 DEF PostRollback, WriteRow, At
  <2> QED
    BY <1>1, <1>2, <1>4, <1>8, <2>1, <2>2, OwnerTransaction DEF PostRollback, Finish
<1>9. ASSUME NEW new, request' = [request EXCEPT ![w] = new],
             new.grantee = request[w].grantee, new.undo = request[w].undo, request[w].undo,
             UNCHANGED <<row, stage, raced>>
      PROVE  OwnerInv'
  <2>1. request[w].pc # "written"
    BY <1>1, <1>9 DEF MatchInv, RequestsFormed
  <2> QED
    BY <1>1, <1>9, <2>1, OwnerTransaction
<1>10. CASE PrepareRollback(w)
  <2> DEFINE next == RollbackRecord(ledger[u])
             new == [request[w] EXCEPT !.pc = "prepared", !.record = next]
  <2>1. new.grantee = request[w].grantee /\ new.undo = request[w].undo
    BY <1>0 DEF RequestType
  <2>2. request' = [request EXCEPT ![w] = new]
    BY <1>2, <1>10 DEF PrepareRollback, MatchInv, StepsTypeOK
  <2> HIDE DEF new
  <2> QED
    BY <1>9, <1>10, <2>1, <2>2 DEF PrepareRollback, vars
<1>11. CASE RecordRollback(w)
  <2> DEFINE new == [request[w] EXCEPT !.pc = "appended"]
  <2>1. new.grantee = request[w].grantee /\ new.undo = request[w].undo
    BY <1>0 DEF RequestType
  <2>2. request' = [request EXCEPT ![w] = new] /\ request[w].undo
    BY <1>3, <1>11 DEF RecordRollback, GoTo, At, Undoing, MatchInv, StepsTypeOK
  <2> HIDE DEF new
  <2> QED
    BY <1>9, <1>11, <2>1, <2>2 DEF RecordRollback, AppendRecord
<1>12. CASE ReadBack(w)
  <2> DEFINE read == CurrentRecord(ledger[u])
             new == [request[w] EXCEPT !.pc = "read", !.record = read]
  <2>1. new.grantee = request[w].grantee /\ new.undo = request[w].undo
    BY <1>0 DEF RequestType
  <2>2. request' = [request EXCEPT ![w] = new] /\ request[w].undo
    BY <1>2, <1>3, <1>12 DEF ReadBack, At, Undoing, MatchInv, StepsTypeOK
  <2> HIDE DEF new
  <2> QED
    BY <1>9, <1>12, <2>1, <2>2 DEF ReadBack, vars
<1> QED
  BY <1>5, <1>6, <1>7, <1>8, <1>10, <1>11, <1>12 DEF Transaction

LEMMA OwnerStepwise ==
    ASSUME MatchInv, OwnerInv, [StepsNext]_svars
    PROVE  OwnerInv'
<1>0. \A p \in Privilege, a \in User :
        GrantRecord(p, a) \in Record /\ GrantRecord(p, a).privilege = p
  BY DEF GrantRecord, Record
<1>1. ASSUME NEW w \in Worker, NEW a \in User, NEW u \in User, NEW p \in Grantable,
             BeginShare(w, a, u, p)
      PROVE  OwnerInv'
  <2> DEFINE record == GrantRecord(p, a)
  <2>1. record \in Record /\ record.privilege = p
    BY <1>0, PrivilegeCodes
  <2> HIDE DEF record
  <2>2. Begin(w, a, u, FALSE, record) /\ CheckShareGroup(a, u, p)
    BY <1>1 DEF BeginShare, record
  <2> QED
    BY <2>1, <2>2, BeginLeavesOwner, ChecksLeaveOwner
<1>2. ASSUME NEW w \in Worker, NEW a \in User, NEW u \in User,
             BeginUnshare(w, a, u) \/ BeginUndo(w, a, u)
      PROVE  OwnerInv'
  <2> DEFINE record == GrantRecord(NONE, a)
  <2>1. record \in Record
    BY <1>0, PrivilegeCodes
  <2>2. PICK undo \in BOOLEAN : Begin(w, a, u, undo, record)
    BY <1>2 DEF BeginUnshare, BeginUndo
  <2> HIDE DEF record
  <2>3. CheckUnshareGroup(a, u) \/ u \in GroupUndoUsers(a)
    BY <1>2 DEF BeginUnshare, BeginUndo
  <2> QED
    BY <2>1, <2>2, <2>3, BeginLeavesOwner, ChecksLeaveOwner
<1>3. ASSUME NEW w \in Worker, Crash(w) PROVE OwnerInv'
  <2>1. request[w] # Idle /\ request' = [request EXCEPT ![w] = Idle]
        /\ UNCHANGED <<row, stage, raced>>
    BY <1>3 DEF Crash, Finish, vars
  <2> QED
    BY <2>1, OwnerTransaction
<1>4. CASE Environment \/ UNCHANGED svars
  <2>1. UNCHANGED <<row, stage, request, raced>>
    BY <1>4 DEF Environment, SetGroupActiveStatus, DeactivateUser, ReactivateUser, svars, vars
  <2> QED
    BY <2>1 DEF OwnerInv, Spare, OwnerRemains, OwnsGroup
<1> QED
  BY <1>1, <1>2, <1>3, <1>4, OwnerTransactions DEF StepsNext

LEMMA OwnerInitial == StepsInit => OwnerInv
<1> SUFFICES ASSUME StepsInit PROVE OwnerInv
  OBVIOUS
<1>1. PICK creator \in User :
        row = [u \in User |-> IF u = creator THEN UpdatedRow(OWNER, creator) ELSE NoRow]
  BY DEF StepsInit
<1>2. OwnsGroup(creator)
  BY <1>1, UpdatedRowType, PrivilegeCodes DEF OwnsGroup
<1> QED
  BY <1>2 DEF StepsInit, OwnerInv, Spare, OwnerRemains

(* While requests come one at a time the last owner cannot be lost, even if  *)
(* workers die between transactions and accounts close under way.            *)
THEOREM OwnerWithoutRace == StepsSpec => []OwnerUnlessRaced
<1>1. OwnerInv => OwnerUnlessRaced
  BY DEF OwnerInv, OwnerUnlessRaced
<1>2. StepsInit => MatchInv /\ OwnerInv
  BY StepsInitial, OwnerInitial
<1>3. MatchInv /\ OwnerInv /\ [StepsNext]_svars => MatchInv' /\ OwnerInv'
  BY MatchStepwise, OwnerStepwise
<1> QED
  BY <1>1, <1>2, <1>3, PTL DEF StepsSpec

-----------------------------------------------------------------------------
(* Where rows come from. *)

RecordedIn(h, r) == \E i \in DOMAIN h : r = RowOf(h[i])

(* Of a row r and a ledger h of u: nobody was ever given a privilege, or the *)
(* row is in the ledger, or the worker that wrote it has yet to append it.   *)
Explained(u, r, h) ==
    \/ /\ r = NoRow /\ h = <<>>
       /\ \A w \in Worker : HandledBy(w, u) => request[w].pc # "written"
    \/ RecordedIn(h, r)
    \/ \E w \in Worker :
         HandledBy(w, u) /\ request[w].pc = "written" /\ r = RowOf(request[w].record)

(* What a worker has read back is in the ledger it read.                     *)
ReadIsRecorded(q) ==
    q.pc = "read" => RecordedIn(ledger[q.grantee], RowOf(q.record))

RecordInv ==
    /\ crashes = 0 => \A u \in User : Explained(u, row[u], ledger[u])
    /\ \A w \in Worker : ReadIsRecorded(request[w])

LEMMA AppendedRecorded ==
    ASSUME NEW h \in Seq(Record), NEW r \in Record
    PROVE  /\ RecordedIn(Append(h, r), RowOf(r))
           /\ \A s : RecordedIn(h, s) => RecordedIn(Append(h, r), s)
<1> DEFINE k == Append(h, r)
<1>1. Len(h) \in Nat /\ DOMAIN h = 1..Len(h) /\ DOMAIN k = 1..(Len(h) + 1)
  OBVIOUS
<1>2. k[Len(h) + 1] = r /\ \A i \in 1..Len(h) : k[i] = h[i]
  OBVIOUS
<1> HIDE DEF k
<1>3. Len(h) + 1 \in DOMAIN k /\ \A i \in DOMAIN h : i \in DOMAIN k /\ k[i] = h[i]
  BY <1>1, <1>2
<1>4. RecordedIn(k, RowOf(r)) /\ \A s : RecordedIn(h, s) => RecordedIn(k, s)
  BY <1>2, <1>3 DEF RecordedIn
<1> QED
  BY <1>4 DEF k

(* A transaction of w for u, by what becomes of the row, the ledger and the  *)
(* request.                                                                  *)
LEMMA RecordTransaction ==
    ASSUME MatchInv, RecordInv, NEW w \in Worker, NEW u \in User, HandledBy(w, u), NEW new,
           request' = [request EXCEPT ![w] = new], crashes' = crashes,
           new # Idle => new.grantee = u,
           \A v \in User \ {u} : row'[v] = row[v] /\ ledger'[v] = ledger[v],
           \A r : RecordedIn(ledger[u], r) => RecordedIn(ledger'[u], r),
           new.pc = "read" => RecordedIn(ledger'[u], RowOf(new.record)),
           \/ new # Idle /\ new.pc = "written" /\ row'[u] = RowOf(new.record)
           \/ RecordedIn(ledger'[u], row'[u])
           \/ /\ row'[u] = row[u] /\ request[w].pc # "written" /\ new.pc # "written"
              /\ ledger'[u] = ledger[u] \/ ledger[u] # <<>>
           \/ /\ row'[u] = row[u] /\ request[w].pc = "written"
              /\ RecordedIn(ledger'[u], RowOf(request[w].record))
    PROVE  RecordInv'
<1>0. request \in [Worker -> RequestType]
  BY DEF MatchInv, StepsTypeOK
<1>1. request'[w] = new /\ \A x \in Worker \ {w} : request'[x] = request[x]
  BY <1>0
<1>2. HandledBy(w, u)' <=> new # Idle
  BY <1>1 DEF HandledBy
<1>3. \A v \in User, x \in Worker \ {w} : HandledBy(x, v)' <=> HandledBy(x, v)
  BY <1>1 DEF HandledBy
<1>4. \A v \in User \ {u} : ~HandledBy(w, v) /\ ~HandledBy(w, v)'
  BY <1>1 DEF HandledBy
<1>5. ASSUME NEW v \in User \ {u}, Explained(v, row[v], ledger[v])
      PROVE  Explained(v, row[v], ledger[v])'
  BY <1>1, <1>3, <1>4, <1>5 DEF Explained
<1>6. ASSUME Explained(u, row[u], ledger[u]) PROVE Explained(u, row[u], ledger[u])'
  <2>1. CASE new # Idle /\ new.pc = "written" /\ row'[u] = RowOf(new.record)
    BY <1>1, <1>2, <2>1 DEF Explained
  <2>2. CASE RecordedIn(ledger'[u], row'[u])
    BY <2>2 DEF Explained
  <2>3. CASE row[u] = NoRow /\ ledger[u] = <<>>
             /\ (\A x \in Worker : HandledBy(x, u) => request[x].pc # "written")
             /\ row'[u] = row[u] /\ new.pc # "written" /\ ledger'[u] = ledger[u]
    <3>1. \A x \in Worker : HandledBy(x, u)' => request'[x].pc # "written"
      BY <1>1, <1>3, <2>3
    <3> QED
      BY <2>3, <3>1 DEF Explained
  <2>4. CASE RecordedIn(ledger[u], row[u]) /\ row'[u] = row[u]
    BY <2>4 DEF Explained
  <2>5. ASSUME NEW x \in Worker, HandledBy(x, u), request[x].pc = "written",
               row[u] = RowOf(request[x].record), row'[u] = row[u], x # w
        PROVE  Explained(u, row[u], ledger[u])'
    BY <1>1, <1>3, <2>5 DEF Explained
  <2>6. CASE /\ row'[u] = row[u] /\ request[w].pc # "written" /\ new.pc # "written"
             /\ ledger'[u] = ledger[u] \/ ledger[u] # <<>>
    BY <1>6, <2>3, <2>4, <2>5, <2>6 DEF Explained
  <2>7. CASE /\ row'[u] = row[u] /\ request[w].pc = "written"
             /\ RecordedIn(ledger'[u], RowOf(request[w].record))
    <3>1. CASE \E x \in Worker : HandledBy(x, u) /\ request[x].pc = "written"
                                 /\ row[u] = RowOf(request[x].record)
      BY <2>2, <2>5, <2>7, <3>1
    <3>2. CASE RecordedIn(ledger[u], row[u])
      BY <2>4, <2>7, <3>2
    <3> QED
      BY <1>6, <2>7, <3>1, <3>2 DEF Explained
  <2> QED
    BY <2>1, <2>2, <2>6, <2>7
<1>7. crashes' = 0 => \A v \in User : Explained(v, row[v], ledger[v])'
  BY <1>5, <1>6 DEF RecordInv
<1>8. ASSUME NEW x \in Worker PROVE ReadIsRecorded(request[x])'
  <2>1. CASE x = w
    <3>1. new.pc = "read" => new.grantee = u
      BY IdleRequest
    <3> QED
      BY <1>1, <2>1, <3>1 DEF ReadIsRecorded
  <2>2. CASE x # w
    <3>1. request'[x] = request[x] /\ ReadIsRecorded(request[x])
      BY <1>1, <2>2 DEF RecordInv
    <3>2. request[x].pc = "read" => request[x].grantee \in User
      BY <1>0, IdleRequest DEF MatchInv, RequestsFormed
    <3> QED
      BY <3>1, <3>2 DEF ReadIsRecorded
  <2> QED
    BY <2>1, <2>2
<1> QED
  BY <1>7, <1>8 DEF RecordInv

LEMMA RecordTransactions ==
    ASSUME MatchInv, RecordInv, NEW w \in Worker, Transaction(w)
    PROVE  RecordInv'
<1>0. /\ request \in [Worker -> RequestType] /\ TablesTypeOK
      /\ request[w] \in RequestType /\ request[w].record \in Record
  BY DEF MatchInv, StepsTypeOK, TypeOK, RequestType
<1>1. request[w].pc # "idle" /\ request[w] # Idle
  BY IdleRequest DEF Transaction, WriteGrant, RecordGrant, PrepareRollback, RefuseRollback,
     RecordRollback, ReadBack, PostRollback, At
<1>2. PICK u \in User : u = request[w].grantee
  BY <1>1 DEF MatchInv, RequestsFormed
<1>3. HandledBy(w, u) /\ ledger[u] \in Seq(Record)
  BY <1>0, <1>1, <1>2 DEF HandledBy, TablesTypeOK
<1>4. request[w].pc \in Undoing => ledger[u] # <<>>
  BY <1>1, <1>2 DEF MatchInv, RequestsFormed
<1>5. ASSUME AppendRecord(w)
      PROVE  /\ row' = row /\ crashes' = crashes
             /\ \A v \in User \ {u} : ledger'[v] = ledger[v]
             /\ RecordedIn(ledger'[u], RowOf(request[w].record))
             /\ \A r : RecordedIn(ledger[u], r) => RecordedIn(ledger'[u], r)
  <2>1. ledger'[u] = Append(ledger[u], request[w].record)
    BY <1>0, <1>2, <1>5 DEF AppendRecord, TablesTypeOK
  <2>2. row' = row /\ crashes' = crashes /\ \A v \in User \ {u} : ledger'[v] = ledger[v]
    BY <1>0, <1>2, <1>5 DEF AppendRecord, TablesTypeOK
  <2> QED
    BY <1>0, <1>3, <2>1, <2>2, AppendedRecorded
<1>6. CASE WriteGrant(w)
  <2> DEFINE new == [request[w] EXCEPT !.pc = "written"]
  <2>1. request' = [request EXCEPT ![w] = new]
    BY <1>0, <1>6 DEF WriteGrant, GoTo
  <2>2. new # Idle /\ new.pc = "written" /\ new.grantee = u /\ new.record = request[w].record
    <3>1. new = [request[w] EXCEPT !.pc = "written"]
      OBVIOUS
    <3> HIDE DEF new
    <3> QED
      BY <1>0, <1>2, <3>1, Moved DEF PC
  <2> HIDE DEF new
  <2>3. /\ row'[u] = RowOf(new.record) /\ ledger' = ledger /\ crashes' = crashes
        /\ \A v \in User \ {u} : row'[v] = row[v]
    BY <1>0, <1>2, <1>6, <2>2, Written DEF WriteGrant, WriteRow
  <2> QED
    BY <1>3, <2>1, <2>2, <2>3, RecordTransaction
<1>7. CASE RecordGrant(w)
  <2>1. request' = [request EXCEPT ![w] = Idle] /\ request[w].pc = "written" /\ AppendRecord(w)
    BY <1>7 DEF RecordGrant, Finish, At
  <2> QED
    BY <1>3, <1>5, <2>1, IdleRequest, RecordTransaction
<1>8. CASE PrepareRollback(w)
  <2> DEFINE next == RollbackRecord(ledger[u])
             new == [request[w] EXCEPT !.pc = "prepared", !.record = next]
  <2>1. request' = [request EXCEPT ![w] = new]
    BY <1>0, <1>2, <1>8 DEF PrepareRollback
  <2>2. new # Idle /\ new.pc = "prepared" /\ new.grantee = u
    BY <1>0, <1>2, IdleRequest DEF RequestType
  <2> HIDE DEF new
  <2>3. row' = row /\ ledger' = ledger /\ crashes' = crashes /\ request[w].pc # "written"
    BY <1>8 DEF PrepareRollback, vars, At
  <2> QED
    BY <1>3, <2>1, <2>2, <2>3, RecordTransaction
<1>9. CASE RefuseRollback(w)
  <2>1. /\ row' = row /\ ledger' = ledger /\ crashes' = crashes /\ request[w].pc # "written"
        /\ request' = [request EXCEPT ![w] = Idle]
    BY <1>9 DEF RefuseRollback, vars, At, Finish
  <2> QED
    BY <1>3, <2>1, IdleRequest, RecordTransaction
<1>10. CASE RecordRollback(w)
  <2> DEFINE new == [request[w] EXCEPT !.pc = "appended"]
  <2>1. request' = [request EXCEPT ![w] = new]
    BY <1>0, <1>10 DEF RecordRollback, GoTo
  <2>2. new # Idle /\ new.pc = "appended" /\ new.grantee = u
    BY <1>0, <1>2, IdleRequest DEF RequestType
  <2> HIDE DEF new
  <2>3. request[w].pc # "written" /\ ledger[u] # <<>> /\ AppendRecord(w)
    BY <1>4, <1>10 DEF RecordRollback, At, Undoing
  <2> QED
    BY <1>3, <1>5, <2>1, <2>2, <2>3, RecordTransaction
<1>11. CASE ReadBack(w)
  <2> DEFINE read == CurrentRecord(ledger[u])
             new == [request[w] EXCEPT !.pc = "read", !.record = read]
  <2>1. request' = [request EXCEPT ![w] = new]
    BY <1>0, <1>2, <1>11 DEF ReadBack
  <2>2. new # Idle /\ new.pc = "read" /\ new.grantee = u /\ new.record = read
    BY <1>0, <1>2, IdleRequest DEF RequestType
  <2> HIDE DEF new
  <2>3. row' = row /\ ledger' = ledger /\ crashes' = crashes /\ request[w].pc # "written"
    BY <1>11 DEF ReadBack, vars, At
  <2>4. RecordedIn(ledger[u], RowOf(read))
    <3>1. ledger[u] # <<>>
      BY <1>4, <1>11 DEF ReadBack, At, Undoing
    <3>2. Len(ledger[u]) \in DOMAIN ledger[u]
      BY <1>3, <3>1, CurrentRecordType
    <3> QED
      BY <3>2 DEF RecordedIn, CurrentRecord
  <2> HIDE DEF read
  <2> QED
    BY <1>3, <2>1, <2>2, <2>3, <2>4, RecordTransaction
<1>12. CASE PostRollback(w)
  <2>1. request' = [request EXCEPT ![w] = Idle] /\ request[w].pc = "read"
    BY <1>12 DEF PostRollback, Finish, At
  <2>2. /\ row'[u] = RowOf(request[w].record) /\ ledger' = ledger /\ crashes' = crashes
        /\ \A v \in User \ {u} : row'[v] = row[v]
    BY <1>0, <1>2, <1>12, Written DEF PostRollback, WriteRow
  <2>3. RecordedIn(ledger[u], row'[u])
    BY <1>2, <2>1, <2>2 DEF RecordInv, ReadIsRecorded
  <2> QED
    BY <1>3, <2>1, <2>2, <2>3, IdleRequest, RecordTransaction
<1> QED
  BY <1>6, <1>7, <1>8, <1>9, <1>10, <1>11, <1>12 DEF Transaction

LEMMA BeginKeepsRecords ==
    ASSUME MatchInv, RecordInv, NEW w \in Worker, NEW a \in User, NEW u \in User,
           NEW undo \in BOOLEAN, NEW record \in Record, Begin(w, a, u, undo, record)
    PROVE  RecordInv'
<1>0. request \in [Worker -> RequestType]
  BY DEF MatchInv, StepsTypeOK
<1> DEFINE new == [pc |-> "checked", undo |-> undo, actor |-> a,
                   grantee |-> u, record |-> record]
<1>1. request[w] = Idle /\ request' = [request EXCEPT ![w] = new] /\ new.pc = "checked"
      /\ UNCHANGED <<row, ledger, crashes>>
  BY DEF Begin, vars
<1> HIDE DEF new
<1>2. request'[w] = new /\ \A x \in Worker \ {w} : request'[x] = request[x]
  BY <1>0, <1>1
<1>3. ASSUME NEW v \in User, Explained(v, row[v], ledger[v])
      PROVE  Explained(v, row[v], ledger[v])'
  <2>1. \A x \in Worker : (HandledBy(x, v) /\ request[x].pc = "written")
                           <=> (HandledBy(x, v)' /\ request'[x].pc = "written")
    BY <1>1, <1>2, IdleRequest DEF HandledBy
  <2>2. \A x \in Worker : HandledBy(x, v) /\ request[x].pc = "written" => x # w
    BY <1>1 DEF HandledBy
  <2> QED
    BY <1>1, <1>2, <1>3, <2>1, <2>2 DEF Explained
<1>4. ASSUME NEW x \in Worker PROVE ReadIsRecorded(request[x])'
  BY <1>1, <1>2 DEF RecordInv, ReadIsRecorded
<1> QED
  BY <1>1, <1>3, <1>4 DEF RecordInv

LEMMA RecordStepwise ==
    ASSUME MatchInv, RecordInv, [StepsNext]_svars
    PROVE  RecordInv'
<1>0. \A p \in Privilege, a \in User : GrantRecord(p, a) \in Record
  BY DEF GrantRecord, Record
<1>1. ASSUME NEW w \in Worker, NEW a \in User, NEW u \in User,
             \/ \E p \in Grantable : BeginShare(w, a, u, p)
             \/ BeginUnshare(w, a, u)
             \/ BeginUndo(w, a, u)
      PROVE  RecordInv'
  <2>1. PICK undo \in BOOLEAN, record \in Record : Begin(w, a, u, undo, record)
    BY <1>0, <1>1, PrivilegeCodes DEF BeginShare, BeginUnshare, BeginUndo
  <2> QED
    BY <2>1, BeginKeepsRecords
<1>2. ASSUME NEW w \in Worker, Crash(w) PROVE RecordInv'
  <2>1. crashes' # 0 /\ ledger' = ledger
    BY <1>2 DEF Crash, vars, MatchInv, StepsTypeOK
  <2>2. \A x \in Worker : request'[x] = Idle \/ request'[x] = request[x]
    BY <1>2 DEF Crash, Finish, MatchInv, StepsTypeOK
  <2>3. ASSUME NEW x \in Worker PROVE ReadIsRecorded(request[x])'
    BY <2>1, <2>2, IdleRequest DEF RecordInv, ReadIsRecorded
  <2> QED
    BY <2>1, <2>3 DEF RecordInv
<1>3. CASE Environment \/ UNCHANGED svars
  <2>1. UNCHANGED <<row, ledger, request, crashes>>
    BY <1>3 DEF Environment, SetGroupActiveStatus, DeactivateUser, ReactivateUser, svars, vars
  <2> QED
    BY <2>1 DEF RecordInv, Explained, ReadIsRecorded, HandledBy
<1> QED
  BY <1>1, <1>2, <1>3, RecordTransactions DEF StepsNext

LEMMA RecordInitial == StepsInit => RecordInv
<1> SUFFICES ASSUME StepsInit PROVE RecordInv
  OBVIOUS
<1>1. PICK creator \in User :
        /\ row = [u \in User |-> IF u = creator THEN UpdatedRow(OWNER, creator) ELSE NoRow]
        /\ ledger = [u \in User |->
                       IF u = creator THEN <<GrantRecord(OWNER, creator)>> ELSE <<>>]
  BY DEF StepsInit
<1>2. \A w \in Worker : request[w] = Idle
  BY DEF StepsInit
<1>3. RecordedIn(<<GrantRecord(OWNER, creator)>>, UpdatedRow(OWNER, creator))
  <2> DEFINE h == <<GrantRecord(OWNER, creator)>>
  <2>1. 1 \in DOMAIN h /\ h[1] = GrantRecord(OWNER, creator)
    OBVIOUS
  <2>2. RowOf(h[1]) = UpdatedRow(OWNER, creator)
    BY <2>1 DEF RowOf, GrantRecord
  <2> QED
    BY <2>1, <2>2 DEF RecordedIn
<1>4. ASSUME NEW u \in User PROVE Explained(u, row[u], ledger[u])
  BY <1>1, <1>2, <1>3 DEF Explained, HandledBy
<1> QED
  BY <1>2, <1>4, IdleRequest DEF RecordInv, ReadIsRecorded

(* At rest and without crashes every row is one that its pair's ledger holds, *)
(* however many requests for the same user were under way at once.            *)
THEOREM RowsAreRecorded == StepsSpec => []RowIsRecorded
<1>1. ASSUME RecordInv PROVE RowIsRecorded
  <2> SUFFICES ASSUME Quiet, crashes = 0, NEW u \in User
               PROVE  \/ row[u] = NoRow /\ ledger[u] = <<>>
                      \/ \E i \in DOMAIN ledger[u] :
                           row[u] = UpdatedRow(ledger[u][i].privilege, ledger[u][i].grantor)
    BY DEF RowIsRecorded
  <2>1. Explained(u, row[u], ledger[u]) /\ \A w \in Worker : ~HandledBy(w, u)
    BY <1>1 DEF RecordInv, Quiet, Busy, HandledBy
  <2> QED
    BY <2>1 DEF Explained, RecordedIn, RowOf
<1>2. StepsInit => MatchInv /\ RecordInv
  BY StepsInitial, RecordInitial
<1>3. MatchInv /\ RecordInv /\ [StepsNext]_svars => MatchInv' /\ RecordInv'
  BY MatchStepwise, RecordStepwise
<1> QED
  BY <1>1, <1>2, <1>3, PTL DEF StepsSpec

=============================================================================
