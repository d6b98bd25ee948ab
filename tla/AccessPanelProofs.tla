------------------------- MODULE AccessPanelProofs -------------------------
(***************************************************************************)
(* The panel is never left blocked by answers alone, and at rest it shows  *)
(* the truth about everybody's access: proved for any users, groups,       *)
(* levels, objects and numbers of requests, and whatever access users and  *)
(* groups have besides what they were given.                               *)
(*                                                                         *)
(* First requests and what blocks the panel (PanelInv), then the types     *)
(* (TypeInv), then the truth (TruthInv): how the list and the server       *)
(* differ while requests are under way.                                    *)
(***************************************************************************)
EXTENDS AccessPanel, SequenceTheorems, FiniteSetTheorems, WellFoundedInduction, TLAPS

(* A request has exactly its seven fields, whatever they hold. *)
WellFormed(r) ==
    \/ r = Idle
    \/ /\ r = [op |-> r.op, who |-> r.who, to |-> r.to, object |-> r.object,
               index |-> r.index, heard |-> r.heard, answer |-> r.answer]
       /\ r.heard \in BOOLEAN

CallsFormed == /\ calls = [c \in Call |-> calls[c]]
               /\ \A c \in Call : WellFormed(calls[c])

(* A page that nothing has disturbed hears every answer. *)
AllHeard == orderly => \A c \in Call : Asked(c) => calls[c].heard

Blocker(k) == \E c \in Call : k[c].op \in Blocking

PanelInv == CallsFormed /\ AllHeard /\ BlockedOnlyWhileAsked

(* Posting a request keeps the requests well formed and heard, and adds one *)
(* with the operation that was asked for.                                   *)
LEMMA PostAdds ==
    ASSUME NEW c \in Call, NEW op, NEW who, NEW to, NEW o, NEW i,
           CallsFormed, AllHeard, Post(c, op, who, to, o, i), orderly' => orderly
    PROVE  /\ CallsFormed' /\ AllHeard'
           /\ calls'[c].op = op
           /\ \A d \in Call \ {c} : calls'[d] = calls[d]
<1> DEFINE new == [op |-> op, who |-> who, to |-> to, object |-> o,
                   index |-> i, heard |-> TRUE, answer |-> "waiting"]
<1>1. calls' = [d \in Call |-> IF d = c THEN new ELSE calls[d]]
  BY DEF Post, CallsFormed
<1>2. WellFormed(new)
  BY DEF WellFormed
<1> QED
  BY <1>1, <1>2, ZenonT(30) DEF CallsFormed, AllHeard, Asked, WellFormed

(* A request that is over leaves the others as they are. *)
LEMMA EndKeeps ==
    ASSUME NEW c \in Call, CallsFormed, AllHeard,
           calls' = [calls EXCEPT ![c] = Idle], orderly' => orderly
    PROVE  /\ CallsFormed' /\ AllHeard'
           /\ \A d \in Call \ {c} : calls'[d] = calls[d]
<1>1. calls' = [d \in Call |-> IF d = c THEN Idle ELSE calls[d]]
  BY DEF CallsFormed
<1>2. WellFormed(Idle) /\ Idle.op = "idle"
  BY DEF WellFormed, Idle
<1> QED
  BY <1>1, <1>2 DEF CallsFormed, AllHeard, Asked, WellFormed

(* Every button of the panel. *)
LEMMA ClickKeeps ==
    ASSUME NEW c \in Call, PanelInv, Click(c)
    PROVE  PanelInv'
<1>1. ASSUME NEW o, NEW i, NEW a, ChangeAccess(c, o, i, a)
      PROVE  PanelInv'
  <2>1. CallsFormed' /\ AllHeard' /\ calls'[c].op = "change"
    BY <1>1, PostAdds DEF ChangeAccess, PanelInv
  <2> QED
    BY <2>1 DEF PanelInv, BlockedOnlyWhileAsked, Blocking
<1>2. ASSUME NEW o, NEW i, RemoveAccess(c, o, i)
      PROVE  PanelInv'
  <2>1. CallsFormed' /\ AllHeard' /\ calls'[c].op = "remove"
    BY <1>2, PostAdds DEF RemoveAccess, PanelInv
  <2> QED
    BY <2>1 DEF PanelInv, BlockedOnlyWhileAsked, Blocking
<1>3. ASSUME NEW op, NEW i, NEW a, ShowDialog(op, i, a)
      PROVE  PanelInv'
  BY <1>3 DEF ShowDialog, PanelInv, CallsFormed, AllHeard, BlockedOnlyWhileAsked,
              WellFormed, Asked
<1>4. ASSUME NEW i, NEW a, OnChangeAccess(c, i, a)
      PROVE  PanelInv'
  BY <1>1, <1>3, <1>4 DEF OnChangeAccess
<1>5. ASSUME NEW i, OnRemove(c, i)
      PROVE  PanelInv'
  BY <1>2, <1>3, <1>5 DEF OnRemove
<1>6. ASSUME NEW i, UndoAccess(c, i)
      PROVE  PanelInv'
  <2>1. ~Asked(c)
    BY <1>6 DEF UndoAccess, Post
  <2>2. /\ CallsFormed' /\ AllHeard'
        /\ \A d \in Call \ {c} : calls'[d] = calls[d]
    BY <1>6, PostAdds DEF UndoAccess, PanelInv
  <2>3. open' = open /\ processing' = processing /\ (orderly' => orderly)
    BY <1>6 DEF UndoAccess
  <2> QED
    BY <2>1, <2>2, <2>3 DEF PanelInv, BlockedOnlyWhileAsked, Blocking, Asked
<1>7. ASSUME NEW i, SetQuotaHolder(c, i)
      PROVE  PanelInv'
  <2>1. ~Asked(c)
    BY <1>7 DEF SetQuotaHolder, Post
  <2>2. /\ CallsFormed' /\ AllHeard'
        /\ \A d \in Call \ {c} : calls'[d] = calls[d]
    BY <1>7, PostAdds DEF SetQuotaHolder, PanelInv
  <2>3. open' = open /\ processing' = processing /\ (orderly' => orderly)
    BY <1>7 DEF SetQuotaHolder
  <2> QED
    BY <2>1, <2>2, <2>3 DEF PanelInv, BlockedOnlyWhileAsked, Blocking, Asked
<1>8. ASSUME NEW s, NEW a, GrantAccess(c, s, a)
      PROVE  PanelInv'
  <2>1. orderly' => orderly
    BY <1>8 DEF GrantAccess
  <2>2. \E o, i : Post(c, "grant", s, a, o, i)
    BY <1>8 DEF GrantAccess
  <2>3. CallsFormed' /\ AllHeard' /\ calls'[c].op = "grant"
    BY <2>1, <2>2, PostAdds DEF PanelInv
  <2> QED
    BY <2>3 DEF PanelInv, BlockedOnlyWhileAsked, Blocking
<1>9. CASE Confirm(c)
  BY <1>1, <1>2, <1>9 DEF Confirm
<1> QED
  BY <1>4, <1>5, <1>6, <1>7, <1>8, <1>9 DEF Click

(* The answer to a request that blocks the panel frees it, whichever it is; *)
(* the other answers leave the requests that block it alone.                *)
LEMMA AnswerKeeps ==
    ASSUME NEW c \in Call, PanelInv, Answer(c)
    PROVE  PanelInv'
<1>1. Answered(c) /\ (orderly' => orderly)
  <2>1. Answered(c)
    BY DEF Answer, ChangeAnswered, GrantAnswered, UndoAnswered, RemoveAnswered, HolderAnswered
  <2>2. CASE ChangeAnswered(c) \/ GrantAnswered(c) \/ HolderAnswered(c)
    BY <2>1, <2>2 DEF ChangeAnswered, GrantAnswered, HolderAnswered
  <2>3. CASE UndoAnswered(c)
    <3>1. Undone(c) \/ orderly' = orderly
      BY <2>3 DEF UndoAnswered
    <3>2. Undone(c) => (orderly' => orderly)
      BY Zenon DEF Undone
    <3> QED
      BY <2>1, <3>1, <3>2
  <2>4. CASE RemoveAnswered(c)
    <3>1. Removed(c) \/ orderly' = orderly
      BY <2>4 DEF RemoveAnswered
    <3>2. Removed(c) => (orderly' => orderly)
      BY Zenon DEF Removed
    <3> QED
      BY <2>1, <3>1, <3>2
  <2> QED
    BY <2>2, <2>3, <2>4 DEF Answer
<1>2. /\ CallsFormed' /\ AllHeard'
      /\ \A d \in Call \ {c} : calls'[d] = calls[d]
  BY <1>1, EndKeeps DEF Answered, PanelInv
<1>3. open
  BY <1>1 DEF Answered
<1>4. CASE ~processing'
  BY <1>2, <1>4 DEF PanelInv, BlockedOnlyWhileAsked
<1>5. CASE processing'
  <2>1. processing' # FALSE
    BY <1>5
  <2>2. calls[c].op \notin Blocking /\ processing' = processing
    BY <2>1 DEF Answer, ChangeAnswered, GrantAnswered, UndoAnswered, RemoveAnswered,
                HolderAnswered, Replaced, Restored, Unreadable, Granted, Undone, Removed, Blocking
  <2> QED
    BY <1>1, <1>2, <1>3, <1>5, <2>2 DEF PanelInv, BlockedOnlyWhileAsked
<1> QED
  BY <1>4, <1>5

(* An answer on its way takes no request away from a page that hears it. *)
LEMMA ServeKeeps ==
    ASSUME NEW c \in Call, PanelInv, Serve(c)
    PROVE  PanelInv'
<1>1. PICK a : Reply(c, a)
  BY DEF Serve
<1>2. open' = open /\ processing' = processing /\ orderly' = orderly /\ Asked(c)
  BY <1>1 DEF Reply, Serve
<1>3. CASE calls[c].heard
  <2> DEFINE new == [calls[c] EXCEPT !.answer = a]
  <2>1. calls' = [d \in Call |-> IF d = c THEN new ELSE calls[d]]
    BY <1>1, <1>3 DEF Reply, PanelInv, CallsFormed
  <2>2. calls[c] = [op |-> calls[c].op, who |-> calls[c].who, to |-> calls[c].to,
                    object |-> calls[c].object, index |-> calls[c].index,
                    heard |-> calls[c].heard, answer |-> calls[c].answer]
        /\ calls[c].heard \in BOOLEAN
    BY <1>2 DEF PanelInv, CallsFormed, WellFormed, Asked, Idle
  <2>3. new = [op |-> calls[c].op, who |-> calls[c].who, to |-> calls[c].to,
               object |-> calls[c].object, index |-> calls[c].index,
               heard |-> calls[c].heard, answer |-> a]
    BY <2>2
  <2>4. WellFormed(new) /\ new.op = calls[c].op /\ new.heard
    BY <1>3, <2>2, <2>3 DEF WellFormed
  <2> HIDE DEF new
  <2> QED
    BY <1>2, <2>1, <2>4 DEF PanelInv, CallsFormed, AllHeard, BlockedOnlyWhileAsked, Asked
<1>4. CASE ~calls[c].heard
  <2>1. calls' = [calls EXCEPT ![c] = Idle]
    BY <1>1, <1>4 DEF Reply
  <2>2. ~orderly
    BY <1>2, <1>4 DEF PanelInv, AllHeard
  <2>3. CallsFormed' /\ AllHeard'
    BY <1>2, <2>1, EndKeeps DEF PanelInv
  <2> QED
    BY <1>2, <2>2, <2>3 DEF PanelInv, BlockedOnlyWhileAsked
<1> QED
  BY <1>3, <1>4

(* What goes wrong is remembered as a disturbance. *)
LEMMA FaultKeeps ==
    ASSUME NEW c \in Call, PanelInv, Fail(c) \/ Garble(c)
    PROVE  PanelInv'
<1>1. ~orderly'
  BY DEF Fail, Garble
<1>2. CASE Fail(c)
  BY <1>1, <1>2, EndKeeps DEF Fail, PanelInv, AllHeard, BlockedOnlyWhileAsked
<1>3. CASE Garble(c)
  <2> DEFINE new == [calls[c] EXCEPT !.answer = "garbled"]
  <2>1. calls' = [d \in Call |-> IF d = c THEN new ELSE calls[d]]
    BY <1>3 DEF Garble, PanelInv, CallsFormed
  <2>2. calls[c] = [op |-> calls[c].op, who |-> calls[c].who, to |-> calls[c].to,
                    object |-> calls[c].object, index |-> calls[c].index,
                    heard |-> calls[c].heard, answer |-> calls[c].answer]
        /\ calls[c].heard \in BOOLEAN
    BY <1>3 DEF Garble, PanelInv, CallsFormed, WellFormed, Asked, Idle
  <2>3. WellFormed(new)
    BY <2>2 DEF WellFormed
  <2> HIDE DEF new
  <2> QED
    BY <1>1, <2>1, <2>3 DEF PanelInv, CallsFormed, AllHeard, BlockedOnlyWhileAsked
<1> QED
  BY <1>2, <1>3

(* A loaded page is not blocked, and what is still under way is not heard. *)
LEMMA LoadKeeps == PanelInv /\ Load => PanelInv'
<1> SUFFICES ASSUME PanelInv, Load PROVE PanelInv'
  OBVIOUS
<1> DEFINE next(c) == IF Asked(c) /\ calls[c].answer = "waiting"
                      THEN [calls[c] EXCEPT !.heard = FALSE, !.object = NoObject]
                      ELSE Idle
<1>1. calls' = [c \in Call |-> next(c)]
  BY DEF Load
<1>2. ~processing' /\ (orderly' => \A c \in Call : calls'[c] = Idle)
  BY DEF Load
<1>3. ASSUME NEW c \in Call PROVE WellFormed(next(c))
  <2>1. CASE ~(Asked(c) /\ calls[c].answer = "waiting")
    BY <2>1 DEF WellFormed
  <2>2. CASE Asked(c)
    <3>1. calls[c] = [op |-> calls[c].op, who |-> calls[c].who, to |-> calls[c].to,
                      object |-> calls[c].object, index |-> calls[c].index,
                      heard |-> calls[c].heard, answer |-> calls[c].answer]
      BY <2>2 DEF PanelInv, CallsFormed, WellFormed, Asked, Idle
    <3>2. PICK cut : cut = [calls[c] EXCEPT !.heard = FALSE, !.object = NoObject]
      OBVIOUS
    <3>3. cut = [op |-> cut.op, who |-> cut.who, to |-> cut.to, object |-> cut.object,
                 index |-> cut.index, heard |-> cut.heard, answer |-> cut.answer]
      BY <3>1, <3>2
    <3>4. cut.heard = FALSE
      BY <3>1, <3>2
    <3>5. WellFormed(cut)
      BY <3>3, <3>4 DEF WellFormed
    <3>6. WellFormed(Idle)
      BY DEF WellFormed
    <3> QED
      BY <3>2, <3>6, <3>5
  <2> QED
    BY <2>1, <2>2
<1> HIDE DEF next
<1>4. CallsFormed'
  BY <1>1, <1>3 DEF CallsFormed
<1>5. AllHeard' /\ BlockedOnlyWhileAsked'
  BY <1>2 DEF AllHeard, BlockedOnlyWhileAsked, Asked, Idle
<1> QED
  BY <1>4, <1>5 DEF PanelInv

LEMMA PanelInvInductive == PanelInv /\ [Next]_vars => PanelInv'
<1> SUFFICES ASSUME PanelInv, [Next]_vars PROVE PanelInv'
  OBVIOUS
<1>1. CASE Load
  BY <1>1, LoadKeeps
<1>2. CASE Cancel
  BY <1>2 DEF Cancel, PanelInv, CallsFormed, AllHeard, BlockedOnlyWhileAsked, WellFormed, Asked
<1>3. ASSUME NEW c \in Call, Click(c) \/ Serve(c) \/ Answer(c) \/ Fail(c) \/ Garble(c)
      PROVE  PanelInv'
  BY <1>3, ClickKeeps, ServeKeeps, AnswerKeeps, FaultKeeps
<1>4. CASE UNCHANGED vars
  BY <1>4 DEF vars, page, PanelInv, CallsFormed, AllHeard, BlockedOnlyWhileAsked, WellFormed, Asked
<1> QED
  BY <1>1, <1>2, <1>3, <1>4 DEF Next

(* As long as the panel of an undisturbed page is blocked, a request that   *)
(* blocks it is under way: every success and failure callback frees it.     *)
THEOREM PanelBlockedOnlyWhileAsked == Spec => []BlockedOnlyWhileAsked
<1>1. Init => PanelInv
  BY DEF Init, PanelInv, CallsFormed, AllHeard, BlockedOnlyWhileAsked, WellFormed, Asked, Idle
<1>2. PanelInv => BlockedOnlyWhileAsked
  BY DEF PanelInv
<1> QED
  BY <1>1, <1>2, PanelInvInductive, PTL DEF Spec

-----------------------------------------------------------------------------
(* Lists of rows.                                                           *)

(* splice with one element replaces, or appends past the end.               *)
LEMMA PutTyped ==
    ASSUME NEW S, NEW s \in Seq(S), NEW i \in Nat, NEW o \in S
    PROVE  Put(s, i, o) \in Seq(S)
<1>1. CASE i \in 1..Len(s)
  BY <1>1, ExceptSeq DEF Put
<1>2. CASE i = 0
  <2>1. DOMAIN s = 1..Len(s) /\ i \notin 1..Len(s) /\ s = [j \in DOMAIN s |-> s[j]]
    BY <1>2, LenProperties
  <2>2. [s EXCEPT ![i] = o] = s
    BY <2>1, Zenon
  <2>3. i <= Len(s)
    BY <1>2, LenProperties
  <2> QED
    BY <2>2, <2>3, Zenon DEF Put
<1>3. CASE i > Len(s)
  BY <1>3, AppendProperties DEF Put
<1> QED
  BY <1>1, <1>2, <1>3, LenProperties

LEMMA PutAt ==
    ASSUME NEW S, NEW s \in Seq(S), NEW i \in 1..Len(s), NEW o \in S
    PROVE  /\ Len(Put(s, i, o)) = Len(s)
           /\ \A j \in 1..Len(s) : Put(s, i, o)[j] = IF j = i THEN o ELSE s[j]
BY ExceptSeq DEF Put

(* splice without an element shifts what comes after it.                    *)
LEMMA CutTyped ==
    ASSUME NEW S, NEW s \in Seq(S), NEW i \in Nat
    PROVE  /\ Cut(s, i) \in Seq(S)
           /\ i \in 1..Len(s) =>
                 /\ Len(Cut(s, i)) = Len(s) - 1
                 /\ \A j \in 1..(Len(s) - 1) :
                       Cut(s, i)[j] = IF j < i THEN s[j] ELSE s[j + 1]
<1>1. Len(s) \in Nat /\ \A j \in 1..Len(s) : s[j] \in S
  BY LenProperties, ElementOfSeq
<1>2. CASE i > Len(s)
  <2>1. ~(i <= Len(s)) /\ i \notin 1..Len(s)
    BY <1>1, <1>2
  <2> QED
    BY <2>1, Zenon DEF Cut
<1>3. CASE i <= Len(s)
  <2>1. PICK a, b : a = SubSeq(s, 1, i - 1) /\ b = SubSeq(s, i + 1, Len(s))
    OBVIOUS
  <2>2. /\ a \in Seq(S) /\ Len(a) = IF 1 <= i - 1 THEN i - 1 ELSE 0
        /\ \A j \in 1..(i - 1) : a[j] = s[j]
    <3>1. /\ SubSeq(s, 1, i - 1) \in Seq(S)
          /\ Len(SubSeq(s, 1, i - 1)) = IF 1 <= i - 1 THEN i - 1 - 1 + 1 ELSE 0
          /\ \A j \in 1..(i - 1 - 1 + 1) : SubSeq(s, 1, i - 1)[j] = s[1 + j - 1]
      BY <1>1, <1>3, SubSeqProperties
    <3> QED
      BY <2>1, <3>1, <1>1
  <2>3. /\ b \in Seq(S) /\ Len(b) = IF i < Len(s) THEN Len(s) - i ELSE 0
        /\ \A j \in 1..(Len(s) - i) : b[j] = s[i + j]
    <3>1. /\ SubSeq(s, i + 1, Len(s)) \in Seq(S)
          /\ Len(SubSeq(s, i + 1, Len(s))) =
                IF i + 1 <= Len(s) THEN Len(s) - (i + 1) + 1 ELSE 0
          /\ \A j \in 1..(Len(s) - (i + 1) + 1) :
                SubSeq(s, i + 1, Len(s))[j] = s[i + 1 + j - 1]
      BY <1>1, <1>3, SubSeqProperties
    <3> QED
      BY <2>1, <3>1, <1>1
  <2>4. /\ a \o b \in Seq(S)
        /\ Len(a \o b) = Len(a) + Len(b)
        /\ \A j \in 1..(Len(a) + Len(b)) :
              (a \o b)[j] = IF j <= Len(a) THEN a[j] ELSE b[j - Len(a)]
    BY <2>2, <2>3, ConcatProperties
  <2>5. Cut(s, i) = a \o b
    BY <1>3, <2>1 DEF Cut
  <2>6. ASSUME i \in 1..Len(s)
        PROVE  /\ Len(a \o b) = Len(s) - 1
               /\ \A j \in 1..(Len(s) - 1) :
                     (a \o b)[j] = IF j < i THEN s[j] ELSE s[j + 1]
    <3>1. Len(a) = i - 1 /\ Len(b) = Len(s) - i
      BY <1>1, <2>2, <2>3, <2>6
    <3>2. ASSUME NEW j \in 1..(Len(s) - 1)
          PROVE  (a \o b)[j] = IF j < i THEN s[j] ELSE s[j + 1]
      <4>1. CASE j < i
        BY <1>1, <2>2, <2>4, <2>6, <3>1, <4>1
      <4>2. CASE ~(j < i)
        <5>1. j - (i - 1) \in 1..(Len(s) - i) /\ i + (j - (i - 1)) = j + 1
          BY <1>1, <2>6, <4>2
        <5>2. (a \o b)[j] = b[j - (i - 1)]
          BY <1>1, <2>4, <2>6, <3>1, <4>2
        <5> QED
          BY <2>3, <4>2, <5>1, <5>2
      <4> QED
        BY <4>1, <4>2
    <3> QED
      BY <1>1, <2>4, <2>6, <3>1, <3>2
  <2> QED
    BY <2>4, <2>5, <2>6
<1> QED
  BY <1>1, <1>2, <1>3

(* Some places of a list: there is a first one and a last one.              *)
LEMMA Below ==
    ASSUME NEW i \in Nat, NEW j \in Nat
    PROVE  <<j, i>> \in OpToRel(<, Nat) <=> j < i
<1>1. <<j, i>> \in Nat \X Nat /\ <<j, i>>[1] = j /\ <<j, i>>[2] = i
  OBVIOUS
<1> QED
  BY <1>1, Zenon DEF OpToRel

LEMMA FirstIn ==
    ASSUME NEW I, I \subseteq Nat, I # {}
    PROVE  First(I) \in I /\ \A j \in I : First(I) <= j
<1>1. PICK i \in I : \A j \in I : ~(<<j, i>> \in OpToRel(<, Nat))
  BY NatLessThanWellFounded, WFMin, Zenon
<1>2. \A j \in I : ~(j < i)
  BY <1>1, Below, Zenon
<1>3. \A j \in I : i <= j
  BY <1>2
<1> QED
  BY <1>3 DEF First

LEMMA LastIn ==
    ASSUME NEW n \in Nat, NEW I, I \subseteq 1..n, I # {}
    PROVE  Last(I) \in I
<1>1. PICK D : D = {n - j : j \in I}
  OBVIOUS
<1>2. D \subseteq Nat /\ D # {}
  <2>1. \A j \in 1..n : n - j \in Nat
    OBVIOUS
  <2> QED
    BY <1>1, <2>1, Zenon
<1>3. First(D) \in D /\ \A d \in D : First(D) <= d
  BY <1>2, FirstIn
<1>4. PICK i \in I : First(D) = n - i
  BY <1>1, <1>3
<1>5. ASSUME NEW j \in I PROVE j <= i
  <2>1. n - j \in D
    BY <1>1
  <2>2. n - i <= n - j
    BY <1>3, <1>4, <2>1
  <2>3. i \in Nat /\ j \in Nat
    OBVIOUS
  <2> QED
    BY <2>2, <2>3
<1> QED
  BY <1>5, Zenon DEF Last

-----------------------------------------------------------------------------
(* Types.                                                                   *)

Ops == {"change", "undo", "grant", "remove", "holder"}

(* A holder is a user; callbacks that update a row were given its object.   *)
Aimed(r) ==
    /\ r.op = "holder" => r.who.type = "user"
    /\ r.op \in {"change", "undo", "remove"} /\ r.heard => r.object \in Object

CallsTyped == /\ calls \in [Call -> Request \cup {Idle}]
              /\ \A c \in Call : Aimed(calls[c])
PageTyped == /\ rows \in Seq(Object) /\ heap \in [Object -> Row]
             /\ selfLevel \in Access /\ holder \in Person
             /\ processing \in BOOLEAN /\ changing \in BOOLEAN
             /\ open \in BOOLEAN /\ orderly \in BOOLEAN
             /\ dialog \in Dialog \cup {NoDialog}
ServerTyped == /\ access \in [Subject -> Access] /\ was \in [Subject -> Access \cup {"no"}]
               /\ charged \in Person
TypeInv == PageTyped /\ CallsTyped /\ ServerTyped /\ asked \in 0..MaxAsked

LEMMA TypeInvTypes == TypeInv => PanelTypeOK
BY DEF TypeInv, PageTyped, CallsTyped, ServerTyped, PanelTypeOK

LEMMA Ranges ==
    /\ User(Self) \in Subject /\ User(Self).type = "user" /\ User(Self).id = Self
    /\ \A s \in Subject : s.type = "user" => s.id \in Person /\ s = User(s.id)
    /\ "none" \in Access /\ Level \subseteq Access
    /\ {"no", "leave", "waiting", "error", "garbled"} \cap Access = {}
    /\ "none" \notin Level /\ NoRow \in Row
<1>1. Self \in Person
  BY PanelAssumption
<1>2. User(Self) \in Subject /\ User(Self).type = "user" /\ User(Self).id = Self
  BY <1>1 DEF Subject, User
<1>3. ASSUME NEW s \in Subject, s.type = "user"
      PROVE  s.id \in Person /\ s = User(s.id)
  <2>1. s \notin {Group(g) : g \in Team}
    BY <1>3 DEF Group
  <2>2. PICK p \in Person : s = User(p)
    BY <2>1 DEF Subject
  <2> QED
    BY <2>2 DEF User
<1>4. "none" \in Access /\ Level \subseteq Access
  BY DEF Access
<1>5. Level \cap {"none", "no", "leave", "waiting", "error", "garbled"} = {}
  BY PanelAssumption
<1>6. {"no", "leave", "waiting", "error", "garbled"} \cap Access = {} /\ "none" \notin Level
  BY <1>5 DEF Access
<1>7. NoRow \in Row
  BY <1>2, <1>4 DEF NoRow, Row
<1> QED
  BY <1>2, <1>3, <1>4, <1>6, <1>7

(* Explicit access may be all there is, and no effective access is unheard of. *)
LEMMA EffectiveTyped ==
    ASSUME NEW s, NEW a \in Access
    PROVE  a \in Effective(s, a) /\ Effective(s, a) \subseteq Access
BY DEF Effective

(* A request under way has all its fields, and one that is over has none.   *)
LEMMA CallTyped ==
    ASSUME NEW r \in Request \cup {Idle}
    PROVE  /\ r.op # "idle" => r \in Request
           /\ r \in Request => r.op \in Ops /\ r.op # "idle"
           /\ Idle.op = "idle" /\ Aimed(Idle)
BY DEF Request, Idle, Ops, Aimed

(* Changing one field of a row.                                             *)
LEMMA RowWith ==
    ASSUME NEW r \in Row, NEW a \in Access, NEW b \in BOOLEAN
    PROVE  /\ r.who \in Subject /\ r.access \in Access
           /\ r.undo \in BOOLEAN /\ r.loading \in BOOLEAN
           /\ [r EXCEPT !.loading = b] \in Row
           /\ [r EXCEPT !.loading = b] =
                 [who |-> r.who, access |-> r.access, undo |-> r.undo, loading |-> b]
           /\ [r EXCEPT !.access = a] \in Row
           /\ [r EXCEPT !.access = a] =
                 [who |-> r.who, access |-> a, undo |-> r.undo, loading |-> r.loading]
           /\ [r EXCEPT !.undo = b] \in Row
           /\ [r EXCEPT !.undo = b] =
                 [who |-> r.who, access |-> r.access, undo |-> b, loading |-> r.loading]
<1>1. r = [who |-> r.who, access |-> r.access, undo |-> r.undo, loading |-> r.loading]
      /\ r.who \in Subject /\ r.access \in Access
      /\ r.undo \in BOOLEAN /\ r.loading \in BOOLEAN
  BY DEF Row
<1>2. [r EXCEPT !.loading = b] =
         [who |-> r.who, access |-> r.access, undo |-> r.undo, loading |-> b]
  BY <1>1
<1>3. [r EXCEPT !.access = a] =
         [who |-> r.who, access |-> a, undo |-> r.undo, loading |-> r.loading]
  BY <1>1
<1>4. [r EXCEPT !.undo = b] =
         [who |-> r.who, access |-> r.access, undo |-> b, loading |-> r.loading]
  BY <1>1
<1> QED
  BY <1>1, <1>2, <1>3, <1>4 DEF Row

(* The objects that the list, a callback or the dialog refers to are kept.  *)
LEMMA KeepTyped ==
    ASSUME NEW h \in [Object -> Row], NEW s \in Seq(Object), NEW k, NEW d, Keep(h, s, k, d)
    PROVE  /\ heap' \in [Object -> Row]
           /\ \A i \in 1..Len(s) : s[i] \in Object /\ heap'[s[i]] = h[s[i]]
<1>1. NoRow \in Row
  BY Ranges
<1>2. ASSUME NEW i \in 1..Len(s)
      PROVE  s[i] \in Object /\ heap'[s[i]] = h[s[i]]
  <2>1. s[i] \in Object
    BY ElementOfSeq
  <2> QED
    BY <2>1, Zenon DEF Keep
<1> QED
  BY <1>1, <1>2 DEF Keep

LEMMA EntryTyped ==
    ASSUME PageTyped, NEW i \in Place
    PROVE  /\ rows[i] \in Object /\ Entry(i) \in Row /\ i \in Nat
           /\ Entry(i).who \in Subject /\ Entry(i).access \in Access
           /\ Entry(i).undo \in BOOLEAN /\ Entry(i).loading \in BOOLEAN
<1>1. rows[i] \in Object /\ i \in Nat
  BY ElementOfSeq, LenProperties DEF PageTyped, Place
<1>2. heap[rows[i]] \in Row
  BY <1>1 DEF PageTyped
<1> QED
  BY <1>1, <1>2 DEF Entry, Row

(* A request that is posted is well typed, and leaves the others alone.     *)
LEMMA PostTyped ==
    ASSUME TypeInv, NEW c \in Call, NEW op \in Ops, NEW who \in Subject, NEW to \in Access,
           NEW o \in Object \cup {NoObject}, NEW i \in Nat, Post(c, op, who, to, o, i),
           op = "holder" => who.type = "user",
           op \in {"change", "undo", "remove"} => o \in Object
    PROVE  /\ CallsTyped' /\ asked' \in 0..MaxAsked /\ ~Asked(c)
           /\ \A d \in Call \ {c} : calls'[d] = calls[d]
           /\ calls'[c] \in Request
           /\ calls'[c].op = op /\ calls'[c].who = who /\ calls'[c].to = to
           /\ calls'[c].object = o /\ calls'[c].index = i
           /\ calls'[c].heard = TRUE /\ calls'[c].answer = "waiting"
<1>1. PICK new : new = [op |-> op, who |-> who, to |-> to, object |-> o,
                        index |-> i, heard |-> TRUE, answer |-> "waiting"]
  OBVIOUS
<1>2. calls \in [Call -> Request \cup {Idle}]
  BY DEF TypeInv, CallsTyped
<1>3. calls' = [calls EXCEPT ![c] = new]
  BY <1>1 DEF Post
<1>4. /\ new \in Request /\ new.op = op /\ new.who = who /\ new.to = to
      /\ new.object = o /\ new.index = i /\ new.heard = TRUE /\ new.answer = "waiting"
  BY <1>1 DEF Request, Ops
<1>5. Aimed(new)
  BY <1>4 DEF Aimed
<1>6. calls'[c] = new /\ \A d \in Call \ {c} : calls'[d] = calls[d]
  BY <1>2, <1>3
<1>7. calls' \in [Call -> Request \cup {Idle}]
  BY <1>2, <1>3, <1>4
<1>8. asked' \in 0..MaxAsked
  BY PanelAssumption DEF TypeInv, Post
<1>9. CallsTyped'
  BY <1>5, <1>6, <1>7 DEF TypeInv, CallsTyped, Aimed
<1> QED
  BY <1>4, <1>6, <1>8, <1>9 DEF Post

(* A row that shows that it is busy: the object, its place, and nothing else *)
(* of what the list, a callback or the dialog refers to.                     *)
LEMMA MarkTyped ==
    ASSUME TypeInv, NEW o \in Object, NEW i \in Nat, MarkLoading(o, i)
    PROVE  rows' \in Seq(Object) /\ heap' \in [Object -> Row]
<1>1. rows' \in Seq(Object)
  BY PutTyped DEF MarkLoading, TypeInv, PageTyped
<1>2. PICK h : h = [heap EXCEPT ![o].loading = TRUE]
  OBVIOUS
<1>3. [heap[o] EXCEPT !.loading = TRUE] \in Row
  BY RowWith, Ranges DEF TypeInv, PageTyped
<1>4. h \in [Object -> Row]
  BY <1>2, <1>3 DEF TypeInv, PageTyped
<1>5. Keep(h, rows', calls', dialog')
  BY <1>2 DEF MarkLoading
<1> QED
  BY <1>1, <1>4, <1>5, KeepTyped

LEMMA ChangeTyped ==
    ASSUME TypeInv, NEW c \in Call, NEW o \in Object, NEW i \in Nat, NEW a \in Access,
           ChangeAccess(c, o, i, a) \/ RemoveAccess(c, o, i), dialog' \in Dialog \cup {NoDialog}
    PROVE  TypeInv'
<1>1. heap[o].who \in Subject
  BY RowWith DEF TypeInv, PageTyped, Row
<1>2. rows' \in Seq(Object) /\ heap' \in [Object -> Row]
  BY MarkTyped DEF ChangeAccess, RemoveAccess
<1>3. CallsTyped' /\ asked' \in 0..MaxAsked
  <2>1. "change" \in Ops /\ "remove" \in Ops
    BY DEF Ops
  <2>2. CASE ChangeAccess(c, o, i, a)
    <3>1. Post(c, "change", heap[o].who, a, o, i)
      BY <2>2 DEF ChangeAccess
    <3> QED
      BY <1>1, <2>1, <3>1, PostTyped
  <2>3. CASE RemoveAccess(c, o, i)
    <3>1. Post(c, "remove", heap[o].who, "none", o, i)
      BY <2>3 DEF RemoveAccess
    <3> QED
      BY <1>1, <2>1, <3>1, PostTyped, Ranges
  <2> QED
    BY <2>2, <2>3
<1>4. /\ UNCHANGED <<selfLevel, holder, changing, open, server>>
      /\ processing' = TRUE /\ orderly' \in BOOLEAN
  BY DEF ChangeAccess, RemoveAccess
<1> QED
  BY <1>2, <1>3, <1>4 DEF TypeInv, PageTyped, ServerTyped, server

LEMMA ShowTyped ==
    ASSUME TypeInv, NEW op \in {"change", "remove"}, NEW i \in Place, NEW a \in Access,
           ShowDialog(op, i, a)
    PROVE  TypeInv'
<1>1. rows[i] \in Object /\ i \in Nat
  BY EntryTyped DEF TypeInv
<1>2. dialog' \in Dialog
  BY <1>1 DEF ShowDialog, Dialog
<1>3. UNCHANGED <<rows, heap, selfLevel, holder, processing, changing, open, calls, asked, server>>
      /\ orderly' \in BOOLEAN
  BY DEF ShowDialog
<1> QED
  BY <1>2, <1>3 DEF TypeInv, PageTyped, CallsTyped, ServerTyped, server, Aimed

LEMMA GrantTyped ==
    ASSUME TypeInv, NEW c \in Call, NEW s \in Subject, NEW a \in Level, GrantAccess(c, s, a)
    PROVE  TypeInv'
<1>1. a \in Access /\ "grant" \in Ops
  BY Ranges DEF Ops
<1>2. /\ UNCHANGED <<selfLevel, holder, changing, open, server>> /\ dialog' = dialog
      /\ processing' = TRUE /\ orderly' \in BOOLEAN
  BY DEF GrantAccess
<1>3. CASE Post(c, "grant", s, a, NoObject, 0) /\ UNCHANGED <<rows, heap>>
  <2>1. CallsTyped' /\ asked' \in 0..MaxAsked
    BY <1>1, <1>3, PostTyped
  <2> QED
    BY <1>2, <1>3, <2>1 DEF TypeInv, PageTyped, ServerTyped, server
<1>4. CASE /\ SameId(s) # {}
           /\ Post(c, "grant", s, a, rows[First(SameId(s))], Last(SameId(s)))
           /\ MarkLoading(rows[First(SameId(s))], Last(SameId(s)))
  <2>1. Len(rows) \in Nat /\ SameId(s) \subseteq 1..Len(rows)
    BY LenProperties DEF TypeInv, PageTyped, SameId, Place
  <2>2. First(SameId(s)) \in Place /\ Last(SameId(s)) \in Place
    BY <1>4, <2>1, FirstIn, LastIn DEF Place
  <2>3. rows[First(SameId(s))] \in Object /\ Last(SameId(s)) \in Nat
    BY <2>2, EntryTyped DEF TypeInv
  <2>4. CallsTyped' /\ asked' \in 0..MaxAsked
    BY <1>1, <1>4, <2>3, PostTyped
  <2>5. rows' \in Seq(Object) /\ heap' \in [Object -> Row]
    BY <1>4, <2>3, MarkTyped
  <2> QED
    BY <1>2, <2>4, <2>5 DEF TypeInv, PageTyped, ServerTyped, server
<1> QED
  BY <1>3, <1>4 DEF GrantAccess

LEMMA ClickTyped ==
    ASSUME TypeInv, NEW c \in Call, Click(c)
    PROVE  TypeInv'
<1>1. dialog \in Dialog \cup {NoDialog} /\ NoDialog \in Dialog \cup {NoDialog}
  BY DEF TypeInv, PageTyped
<1>2. ASSUME NEW i \in Place, NEW a \in Level, OnChangeAccess(c, i, a)
      PROVE  TypeInv'
  <2>1. rows[i] \in Object /\ i \in Nat /\ a \in Access
    BY EntryTyped, Ranges DEF TypeInv
  <2>2. ShowDialog("change", i, a) \/ (dialog' = dialog /\ ChangeAccess(c, rows[i], i, a))
    BY <1>2 DEF OnChangeAccess
  <2>3. CASE ShowDialog("change", i, a)
    BY <2>1, <2>3, ShowTyped
  <2>4. CASE dialog' = dialog /\ ChangeAccess(c, rows[i], i, a)
    BY <1>1, <2>1, <2>4, ChangeTyped
  <2> QED
    BY <2>2, <2>3, <2>4
<1>3. ASSUME NEW i \in Place, OnRemove(c, i)
      PROVE  TypeInv'
  <2>1. rows[i] \in Object /\ i \in Nat /\ "none" \in Access
    BY EntryTyped, Ranges DEF TypeInv
  <2>2. ShowDialog("remove", i, "none") \/ (dialog' = dialog /\ RemoveAccess(c, rows[i], i))
    BY <1>3 DEF OnRemove
  <2>3. CASE ShowDialog("remove", i, "none")
    BY <2>1, <2>3, ShowTyped
  <2>4. CASE dialog' = dialog /\ RemoveAccess(c, rows[i], i)
    BY <1>1, <2>1, <2>4, ChangeTyped
  <2> QED
    BY <2>2, <2>3, <2>4
<1>4. ASSUME NEW i \in Place, UndoAccess(c, i)
      PROVE  TypeInv'
  <2>1. /\ rows[i] \in Object /\ i \in Nat /\ Entry(i).who \in Subject
        /\ "none" \in Access /\ "undo" \in Ops
    BY EntryTyped, Ranges DEF TypeInv, Ops
  <2>2. /\ Post(c, "undo", Entry(i).who, "none", rows[i], i) /\ MarkLoading(rows[i], i)
        /\ UNCHANGED <<selfLevel, holder, processing, changing, open, server>>
        /\ dialog' = dialog /\ orderly' \in BOOLEAN
    BY <1>4 DEF UndoAccess
  <2>3. CallsTyped' /\ asked' \in 0..MaxAsked
    BY <2>1, <2>2, PostTyped
  <2>4. rows' \in Seq(Object) /\ heap' \in [Object -> Row]
    BY <2>1, <2>2, MarkTyped
  <2> QED
    BY <2>2, <2>3, <2>4 DEF TypeInv, PageTyped, ServerTyped, server
<1>5. ASSUME NEW i \in Place, SetQuotaHolder(c, i)
      PROVE  TypeInv'
  <2>1. Entry(i).who \in Subject /\ "none" \in Access /\ "holder" \in Ops
    BY EntryTyped, Ranges DEF TypeInv, Ops
  <2>2. /\ Post(c, "holder", Entry(i).who, "none", NoObject, 0)
        /\ Entry(i).who.type = "user"
        /\ UNCHANGED <<rows, heap, selfLevel, holder, processing, dialog, open, server>>
        /\ changing' = TRUE /\ orderly' \in BOOLEAN
    BY <1>5 DEF SetQuotaHolder
  <2>3. CallsTyped' /\ asked' \in 0..MaxAsked
    BY <2>1, <2>2, PostTyped
  <2> QED
    BY <2>2, <2>3 DEF TypeInv, PageTyped, ServerTyped, server
<1>6. CASE Confirm(c)
  <2>1. dialog \in Dialog /\ dialog' = NoDialog
    BY <1>1, <1>6 DEF Confirm
  <2>2. dialog.object \in Object /\ dialog.index \in Nat /\ dialog.to \in Access
    BY <2>1 DEF Dialog
  <2>3. \/ ChangeAccess(c, dialog.object, dialog.index, dialog.to)
        \/ RemoveAccess(c, dialog.object, dialog.index)
    BY <1>6 DEF Confirm
  <2> QED
    BY <1>1, <2>1, <2>2, <2>3, ChangeTyped
<1> QED
  BY <1>2, <1>3, <1>4, <1>5, <1>6, GrantTyped DEF Click

LEMMA ReplyTyped ==
    ASSUME TypeInv, NEW c \in Call, Asked(c), NEW a \in Access \cup {"leave", "error", "garbled"},
           \/ calls' = [calls EXCEPT ![c] = IF @.heard THEN [@ EXCEPT !.answer = a] ELSE Idle]
           \/ calls[c].heard /\ calls' = [calls EXCEPT ![c].answer = a]
    PROVE  /\ CallsTyped'
           /\ \A d \in Call \ {c} : calls'[d] = calls[d]
           /\ ~calls[c].heard => calls'[c] = Idle
           /\ calls[c].heard =>
                 /\ calls'[c].op = calls[c].op /\ calls'[c].who = calls[c].who
                 /\ calls'[c].to = calls[c].to /\ calls'[c].object = calls[c].object
                 /\ calls'[c].index = calls[c].index /\ calls'[c].heard = calls[c].heard
                 /\ calls'[c].answer = a
<1>1. calls \in [Call -> Request \cup {Idle}] /\ calls[c] \in Request /\ Aimed(calls[c])
  BY CallTyped DEF TypeInv, CallsTyped, Asked
<1>2. PICK r : r = calls[c]
  OBVIOUS
<1>3. PICK new : new = [r EXCEPT !.answer = a]
  OBVIOUS
<1>4. r = [op |-> r.op, who |-> r.who, to |-> r.to, object |-> r.object,
           index |-> r.index, heard |-> r.heard, answer |-> r.answer]
      /\ r.op \in Ops /\ r.who \in Subject /\ r.to \in Access
      /\ r.object \in Object \cup {NoObject} /\ r.index \in Nat /\ r.heard \in BOOLEAN
  BY <1>1, <1>2 DEF Request, Ops
<1>5. new = [op |-> r.op, who |-> r.who, to |-> r.to, object |-> r.object,
             index |-> r.index, heard |-> r.heard, answer |-> a]
  BY <1>3, <1>4
<1>6. /\ new \in Request /\ new.op = r.op /\ new.who = r.who /\ new.to = r.to
      /\ new.object = r.object /\ new.index = r.index /\ new.heard = r.heard /\ new.answer = a
  BY <1>4, <1>5 DEF Request, Ops
<1>7. Aimed(new)
  BY <1>1, <1>2, <1>6 DEF Aimed
<1>8. Aimed(Idle)
  BY CallTyped
<1>9. calls' = [calls EXCEPT ![c] = IF r.heard THEN new ELSE Idle]
  <2>1. CASE calls' = [calls EXCEPT ![c] = IF @.heard THEN [@ EXCEPT !.answer = a] ELSE Idle]
    BY <2>1, <1>2, <1>3, Zenon
  <2>2. CASE calls[c].heard /\ calls' = [calls EXCEPT ![c].answer = a]
    BY <2>2, <1>2, <1>3, Zenon
  <2> QED
    BY <2>1, <2>2
<1>10. /\ calls' \in [Call -> Request \cup {Idle}]
       /\ calls'[c] = (IF r.heard THEN new ELSE Idle)
       /\ \A d \in Call \ {c} : calls'[d] = calls[d]
  BY <1>1, <1>6, <1>9
<1>11. CallsTyped'
  <2>1. \A d \in Call : Aimed(calls[d])
    BY DEF TypeInv, CallsTyped
  <2>2. ASSUME NEW d \in Call PROVE Aimed(calls'[d])
    BY <1>7, <1>8, <1>10, <2>1
  <2>3. \A d \in Call : Aimed(calls'[d])
    BY <2>2
  <2>4. (\A d \in Call : Aimed(calls[d]))' <=> \A d \in Call : Aimed(calls'[d])
    BY DEF Aimed
  <2> QED
    BY <1>10, <2>3, <2>4 DEF CallsTyped
<1> QED
  BY <1>2, <1>4, <1>6, <1>10, <1>11

LEMMA ServeTyped ==
    ASSUME TypeInv, NEW c \in Call, Serve(c)
    PROVE  TypeInv'
<1>1. Asked(c) /\ calls[c] \in Request /\ Aimed(calls[c])
  BY CallTyped DEF Serve, Asked, TypeInv, CallsTyped
<1>2. PICK s : s = calls[c].who
  OBVIOUS
<1>3. s \in Subject /\ calls[c].to \in Access
  BY <1>1, <1>2 DEF Request
<1>4. ServerTyped'
  <2>1. access \in [Subject -> Access] /\ was \in [Subject -> Access \cup {"no"}] /\ charged \in Person
    BY DEF TypeInv, ServerTyped
  <2>2. CASE Refused(c)
    BY <2>1, <2>2 DEF Refused, server, ServerTyped
  <2>3. ASSUME NEW a, Done(c, a) PROVE ServerTyped'
    <3>1. CASE /\ access' = [access EXCEPT ![s] = calls[c].to]
               /\ was' = [was EXCEPT ![s] = access[s]] /\ UNCHANGED charged
      BY <1>3, <2>1, <3>1 DEF ServerTyped
    <3>2. CASE /\ Undoable(s) /\ access' = [access EXCEPT ![s] = was[s]]
               /\ was' = [was EXCEPT ![s] = "no"] /\ UNCHANGED charged
      <4>1. was[s] \in Access
        BY <1>3, <2>1, <3>2 DEF Undoable
      <4> QED
        BY <1>3, <2>1, <3>2, <4>1 DEF ServerTyped
    <3>3. CASE /\ access' = [access EXCEPT ![s] = "none"]
               /\ was' = [was EXCEPT ![s] = "no"] /\ UNCHANGED charged
      BY <1>3, <2>1, <3>3, Ranges DEF ServerTyped
    <3>4. CASE calls[c].op = "holder" /\ charged' = s.id /\ UNCHANGED <<access, was>>
      <4>1. s.id \in Person
        BY <1>1, <1>2, <1>3, <3>4, Ranges DEF Aimed
      <4> QED
        BY <2>1, <3>4, <4>1 DEF ServerTyped
    <3> QED
      BY <1>2, <2>3, <3>1, <3>2, <3>3, <3>4 DEF Done
  <2> QED
    BY <2>2, <2>3 DEF Serve
<1>5. PICK a \in Access \cup {"leave", "error", "garbled"} : Reply(c, a)
  BY DEF Serve
<1>6. CallsTyped'
  BY <1>1, <1>5, ReplyTyped DEF Reply
<1>7. heap' \in [Object -> Row]
  BY <1>5, KeepTyped DEF Reply, TypeInv, PageTyped
<1>8. UNCHANGED <<rows, selfLevel, holder, processing, changing, dialog, open, asked, orderly>>
  BY <1>5 DEF Reply
<1> QED
  BY <1>4, <1>6, <1>7, <1>8 DEF TypeInv, PageTyped

(* A request that is over.                                                  *)
LEMMA EndTyped ==
    ASSUME TypeInv, NEW c \in Call, calls' = [calls EXCEPT ![c] = Idle]
    PROVE  CallsTyped' /\ calls'[c] = Idle /\ \A d \in Call \ {c} : calls'[d] = calls[d]
BY CallTyped DEF TypeInv, CallsTyped, Aimed

LEMMA FaultTyped ==
    ASSUME TypeInv, NEW c \in Call, Fail(c) \/ Garble(c)
    PROVE  TypeInv'
<1>1. CASE Fail(c)
  <2>1. CallsTyped'
    BY <1>1, EndTyped DEF Fail
  <2>2. heap' \in [Object -> Row]
    BY <1>1, KeepTyped DEF Fail, TypeInv, PageTyped
  <2>3. UNCHANGED <<rows, selfLevel, holder, processing, changing, dialog, open, asked, server>>
        /\ orderly' = FALSE
    BY <1>1 DEF Fail
  <2> QED
    BY <2>1, <2>2, <2>3 DEF TypeInv, PageTyped, ServerTyped, server
<1>2. CASE Garble(c)
  <2>1. /\ Asked(c) /\ calls[c].heard /\ calls' = [calls EXCEPT ![c].answer = "garbled"]
        /\ orderly' = FALSE /\ UNCHANGED <<page, asked, server>>
    BY <1>2 DEF Garble
  <2>2. CallsTyped'
    BY <2>1, ReplyTyped
  <2> QED
    BY <2>1, <2>2 DEF TypeInv, PageTyped, ServerTyped, server, page
<1> QED
  BY <1>1, <1>2

LEMMA CancelTyped ==
    ASSUME TypeInv, Cancel
    PROVE  TypeInv'
<1>1. heap' \in [Object -> Row]
  BY KeepTyped DEF Cancel, TypeInv, PageTyped
<1>2. /\ UNCHANGED <<rows, selfLevel, holder, processing, changing, open, calls, asked, server, orderly>>
      /\ dialog' = NoDialog
  BY DEF Cancel
<1> QED
  BY <1>1, <1>2 DEF TypeInv, PageTyped, CallsTyped, ServerTyped, server, Aimed

LEMMA UpdatedTyped ==
    ASSUME NEW h \in [Object -> Row], NEW s \in Seq(Object), Updated(h, s)
    PROVE  /\ rows' = s /\ rows' \in Seq(Object) /\ heap' \in [Object -> Row]
           /\ \A i \in 1..Len(s) : s[i] \in Object /\ heap'[s[i]] = h[s[i]]
BY KeepTyped, Zenon DEF Updated

(* What a callback makes of the row of its object.                          *)
LEMMA Rewritten ==
    ASSUME TypeInv, NEW o \in Object, NEW r \in Row, NEW i \in Nat
    PROVE  /\ [heap EXCEPT ![o] = r] \in [Object -> Row]
           /\ [heap EXCEPT ![o] = r][o] = r
           /\ \A p \in Object \ {o} : [heap EXCEPT ![o] = r][p] = heap[p]
           /\ Put(rows, i, o) \in Seq(Object) /\ Cut(rows, i) \in Seq(Object)
BY PutTyped, CutTyped DEF TypeInv, PageTyped

LEMMA AnswerTyped ==
    ASSUME TypeInv, NEW c \in Call, Answer(c)
    PROVE  TypeInv'
<1>1. Answered(c)
  BY DEF Answer, ChangeAnswered, GrantAnswered, UndoAnswered, RemoveAnswered, HolderAnswered
<1>2. /\ open /\ Asked(c) /\ calls[c].heard /\ calls[c].answer # "waiting"
      /\ calls' = [calls EXCEPT ![c] = Idle] /\ UNCHANGED <<dialog, asked, server>>
  BY <1>1 DEF Answered
<1>3. CallsTyped'
  BY <1>2, EndTyped
<1>4. PICK r : r = calls[c]
  OBVIOUS
<1>5. r \in Request /\ Aimed(r)
  BY <1>2, <1>4, CallTyped DEF TypeInv, CallsTyped, Asked
<1>6. /\ r.who \in Subject /\ r.to \in Access /\ r.index \in Nat
      /\ r.object \in Object \cup {NoObject}
      /\ r.op \in {"change", "undo", "remove"} => r.object \in Object
      /\ r.op = "holder" => r.who.id \in Person
  <2>1. r.op = "holder" => r.who.type = "user"
    BY <1>5 DEF Aimed
  <2> QED
    BY <1>2, <1>4, <1>5, <2>1, Ranges DEF Request, Aimed
<1>7. rows \in Seq(Object) /\ heap \in [Object -> Row] /\ selfLevel \in Access /\ holder \in Person
      /\ processing \in BOOLEAN /\ changing \in BOOLEAN /\ orderly \in BOOLEAN /\ open \in BOOLEAN
  BY DEF TypeInv, PageTyped
<1>8. SUFFICES /\ rows' \in Seq(Object) /\ heap' \in [Object -> Row]
               /\ selfLevel' \in Access /\ holder' \in Person
               /\ processing' \in BOOLEAN /\ changing' \in BOOLEAN
               /\ open' \in BOOLEAN /\ orderly' \in BOOLEAN
  BY <1>2, <1>3 DEF TypeInv, PageTyped, ServerTyped, server
<1>9. Updated(heap, rows) => rows' \in Seq(Object) /\ heap' \in [Object -> Row]
  BY <1>7, UpdatedTyped
<1>10. ASSUME NEW o \in Object, NEW e \in Row, NEW h, h = [heap EXCEPT ![o] = e]
       PROVE  /\ Updated(h, Put(rows, r.index, o)) => rows' \in Seq(Object) /\ heap' \in [Object -> Row]
              /\ Updated(h, Cut(rows, r.index)) => rows' \in Seq(Object) /\ heap' \in [Object -> Row]
              /\ Updated(h, Append(rows, o)) => rows' \in Seq(Object) /\ heap' \in [Object -> Row]
              /\ Updated(h, rows) => rows' \in Seq(Object) /\ heap' \in [Object -> Row]
  <2>1. h \in [Object -> Row] /\ Put(rows, r.index, o) \in Seq(Object) /\ Cut(rows, r.index) \in Seq(Object)
    BY <1>6, <1>10, Rewritten
  <2>2. Append(rows, o) \in Seq(Object)
    BY <1>7, AppendProperties
  <2> QED
    BY <1>7, <2>1, <2>2, UpdatedTyped
<1>11. Restored(c) => /\ rows' \in Seq(Object) /\ heap' \in [Object -> Row]
                      /\ processing' = FALSE /\ selfLevel' = selfLevel /\ open' = open
  <2> SUFFICES ASSUME Restored(c)
               PROVE  rows' \in Seq(Object) /\ heap' \in [Object -> Row]
    BY DEF Restored
  <2>1. CASE r.object = NoObject
    BY <1>4, <1>9, <2>1 DEF Restored
  <2>2. CASE r.object # NoObject
    <3>1. r.object \in Object
      BY <1>6, <2>2
    <3>2. PICK e : e = [heap[r.object] EXCEPT !.loading = FALSE]
      OBVIOUS
    <3>3. e \in Row
      BY <1>7, <3>1, <3>2, RowWith, Ranges
    <3>4. Updated([heap EXCEPT ![r.object] = e], Put(rows, r.index, r.object))
      BY <1>4, <2>2, <3>2, Zenon DEF Restored
    <3> QED
      BY <1>10, <3>1, <3>3, <3>4
  <2> QED
    BY <2>1, <2>2
<1>12. Unreadable(c) => /\ rows' \in Seq(Object) /\ heap' \in [Object -> Row]
                        /\ processing' = FALSE /\ selfLevel' = selfLevel /\ open' = open
  BY <1>9 DEF Unreadable
<1>13. ASSUME NEW o \in Object, NEW s
       PROVE  [who |-> r.who, access |-> r.to, undo |-> TRUE, loading |-> FALSE] \in Row
  BY <1>6 DEF Row
<1>14. CASE ChangeAnswered(c)
  <2>1. /\ holder' = holder /\ changing' = changing /\ orderly' = orderly
        /\ Replaced(c) \/ Restored(c) \/ Unreadable(c)
    BY <1>14 DEF ChangeAnswered
  <2>2. CASE Replaced(c)
    <3>1. PICK o \in Object :
             Updated([heap EXCEPT ![o] = [who |-> r.who, access |-> r.to,
                                          undo |-> TRUE, loading |-> FALSE]],
                     Put(rows, r.index, o))
      BY <1>4, <2>2 DEF Replaced
    <3>2. rows' \in Seq(Object) /\ heap' \in [Object -> Row]
      BY <1>10, <1>13, <3>1
    <3>3. selfLevel' \in Access /\ processing' = FALSE /\ open' = open
      BY <1>4, <1>6, <1>7, <2>2 DEF Replaced, OwnLevel
    <3> QED
      BY <1>7, <2>1, <3>2, <3>3
  <2> QED
    BY <1>7, <1>11, <1>12, <2>1, <2>2
<1>15. CASE GrantAnswered(c)
  <2>1. /\ holder' = holder /\ changing' = changing /\ orderly' = orderly
        /\ Granted(c) \/ Restored(c) \/ Unreadable(c)
    BY <1>15 DEF GrantAnswered
  <2>2. CASE Granted(c) /\ r.object = NoObject
    <3>1. PICK n \in Object :
             Updated([heap EXCEPT ![n] = [who |-> r.who, access |-> r.to,
                                          undo |-> TRUE, loading |-> FALSE]],
                     Append(rows, n))
      BY <1>4, <2>2 DEF Granted
    <3>2. rows' \in Seq(Object) /\ heap' \in [Object -> Row]
      BY <1>10, <1>13, <3>1
    <3>3. selfLevel' = selfLevel /\ processing' = FALSE /\ open' = open
      BY <1>4, <2>2 DEF Granted
    <3> QED
      BY <1>7, <2>1, <3>2, <3>3
  <2>3. CASE Granted(c) /\ r.object # NoObject
    <3>1. r.object \in Object
      BY <1>6, <2>3
    <3>2. PICK d, e : /\ d = [heap[r.object] EXCEPT !.access = r.to]
                      /\ e = [d EXCEPT !.loading = FALSE]
      OBVIOUS
    <3>3. d \in Row
      BY <1>6, <1>7, <3>1, <3>2, RowWith
    <3>4. e \in Row
      BY <3>2, <3>3, RowWith, Ranges
    <3>5. PICK h : h = [heap EXCEPT ![r.object].access = r.to, ![r.object].loading = FALSE]
      OBVIOUS
    <3>6. h = [heap EXCEPT ![r.object] = e]
      BY <1>7, <3>1, <3>2, <3>5
    <3>7. Updated(h, Put(rows, r.index, r.object)) /\ selfLevel' \in {r.to, selfLevel}
          /\ processing' = FALSE /\ open' = open
      BY <1>4, <2>3, <3>5 DEF Granted, OwnLevel
    <3>8. rows' \in Seq(Object) /\ heap' \in [Object -> Row]
      BY <1>10, <3>1, <3>4, <3>6, <3>7
    <3> QED
      BY <1>6, <1>7, <2>1, <3>7, <3>8
  <2> QED
    BY <1>7, <1>11, <1>12, <2>1, <2>2, <2>3
<1>16. CASE UndoAnswered(c)
  <2>1. /\ holder' = holder /\ changing' = changing /\ r.op = "undo"
        /\ Undone(c) \/ (Restored(c) /\ orderly' = orderly)
    BY <1>4, <1>16 DEF UndoAnswered
  <2>2. CASE Undone(c)
    <3>1. r.object \in Object /\ r.answer \in Access
      BY <1>4, <1>6, <2>1, <2>2 DEF Undone
    <3>2. PICK d, e, f : /\ d = [heap[r.object] EXCEPT !.access = r.answer]
                         /\ e = [d EXCEPT !.undo = FALSE]
                         /\ f = [e EXCEPT !.loading = FALSE]
      OBVIOUS
    <3>3. d \in Row
      BY <1>7, <3>1, <3>2, RowWith
    <3>4. e \in Row
      BY <3>2, <3>3, RowWith, Ranges
    <3>5. f \in Row
      BY <3>2, <3>4, RowWith, Ranges
    <3>6. PICK h, g : /\ h = [heap EXCEPT ![r.object].access = r.answer, ![r.object].undo = FALSE]
                      /\ g = [h EXCEPT ![r.object].loading = FALSE]
      OBVIOUS
    <3>7. h = [heap EXCEPT ![r.object] = e]
      BY <1>7, <3>1, <3>2, <3>6
    <3>8. g = [heap EXCEPT ![r.object] = f]
      <4>1. h[r.object] = e
        BY <1>7, <3>1, <3>7
      <4> QED
        BY <1>7, <3>1, <3>2, <3>6, <3>7, <4>1
    <3>9. \/ Updated(h, Cut(rows, r.index)) /\ processing' = processing /\ orderly' \in BOOLEAN
          \/ Updated(g, Put(rows, r.index, r.object)) /\ processing' = FALSE /\ orderly' = orderly
      BY <1>4, <2>2, <3>6, Zenon DEF Undone
    <3>10. selfLevel' = selfLevel /\ open' = open
      BY <2>2 DEF Undone
    <3>11. rows' \in Seq(Object) /\ heap' \in [Object -> Row]
      BY <1>10, <3>1, <3>4, <3>5, <3>7, <3>8, <3>9
    <3> QED
      BY <1>7, <2>1, <3>9, <3>10, <3>11
  <2> QED
    BY <1>7, <1>11, <2>1, <2>2
<1>17. CASE RemoveAnswered(c)
  <2>1. /\ holder' = holder /\ changing' = changing
        /\ Removed(c) \/ (Restored(c) /\ orderly' = orderly)
    BY <1>17 DEF RemoveAnswered
  <2>2. CASE Removed(c)
    <3>1. /\ Updated(heap, Cut(rows, r.index)) /\ orderly' \in BOOLEAN
          /\ processing' = FALSE /\ open' \in BOOLEAN /\ selfLevel' = selfLevel
      BY <1>4, <2>2 DEF Removed
    <3>2. Cut(rows, r.index) \in Seq(Object)
      BY <1>6, <1>7, CutTyped
    <3>3. rows' \in Seq(Object) /\ heap' \in [Object -> Row]
      BY <1>7, <3>1, <3>2, UpdatedTyped
    <3> QED
      BY <1>7, <2>1, <3>1, <3>3
  <2> QED
    BY <1>7, <1>11, <2>1, <2>2
<1>18. CASE HolderAnswered(c)
  <2>1. PICK found : found = {i \in Place : Entry(i).who = calls[c].who}
    OBVIOUS
  <2>2. /\ \/ Updated(heap, rows) /\ holder' = holder
           \/ /\ found # {} /\ holder' = r.who.id
              /\ Updated([heap EXCEPT ![rows[First(found)]].undo = FALSE], rows)
        /\ changing' \in BOOLEAN /\ UNCHANGED <<selfLevel, processing, open, orderly>>
    BY <1>4, <1>18, <2>1, Zenon DEF HolderAnswered
  <2>3. holder' \in Person
    BY <1>4, <1>6, <1>7, <1>18, <2>2 DEF HolderAnswered
  <2>4. CASE Updated(heap, rows)
    BY <1>7, <1>9, <2>2, <2>3, <2>4
  <2>5. CASE found # {} /\ Updated([heap EXCEPT ![rows[First(found)]].undo = FALSE], rows)
    <3>1. found \subseteq Nat
      BY <1>7, <2>1, LenProperties DEF Place
    <3>2. First(found) \in Place
      BY <2>1, <2>5, <3>1, FirstIn
    <3>3. PICK o : o = rows[First(found)]
      OBVIOUS
    <3>4. o \in Object
      BY <3>2, <3>3, EntryTyped DEF TypeInv
    <3>5. PICK e : e = [heap[o] EXCEPT !.undo = FALSE]
      OBVIOUS
    <3>6. e \in Row
      BY <1>7, <3>4, <3>5, RowWith, Ranges
    <3>7. Updated([heap EXCEPT ![o] = e], rows)
      BY <2>5, <3>3, <3>5, Zenon
    <3>8. rows' \in Seq(Object) /\ heap' \in [Object -> Row]
      BY <1>10, <3>4, <3>6, <3>7
    <3> QED
      BY <1>7, <2>2, <2>3, <3>8
  <2> QED
    BY <2>2, <2>4, <2>5
<1> QED
  BY <1>14, <1>15, <1>16, <1>17, <1>18 DEF Answer

(* There are finitely many users and groups, and so rows of a page.         *)
LEMMA ListingFinite ==
    ASSUME NEW v
    PROVE  Cardinality(Listing(v)) \in Nat
<1>1. IsFiniteSet({User(p) : p \in Person})
  <2>1. PICK f : f = [p \in Person |-> User(p)]
    OBVIOUS
  <2>2. f \in Surjection(Person, {User(p) : p \in Person})
    BY <2>1 DEF Surjection
  <2> QED
    BY <2>2, FS_Surjection, PanelAssumption
<1>2. IsFiniteSet({Group(g) : g \in Team})
  <2>1. PICK f : f = [g \in Team |-> Group(g)]
    OBVIOUS
  <2>2. f \in Surjection(Team, {Group(g) : g \in Team})
    BY <2>1 DEF Surjection
  <2> QED
    BY <2>2, FS_Surjection, PanelAssumption
<1>3. IsFiniteSet(Subject)
  BY <1>1, <1>2, FS_Union DEF Subject
<1>4. Listing(v) \in SUBSET Subject
  BY DEF Listing
<1>5. IsFiniteSet(Listing(v))
  BY <1>3, <1>4, FS_Subset
<1> QED
  BY <1>5, FS_CardinalityType

(* What a loaded page holds: one object for each user and group that the    *)
(* server shows.                                                            *)
LoadedView(v) ==
    /\ rows' \in Seq(Object) /\ heap' \in [Object -> Row]
    /\ \A i, j \in 1..Len(rows') : heap'[rows'[i]].who = heap'[rows'[j]].who => i = j
    /\ \A i \in 1..Len(rows') :
          LET e == heap'[rows'[i]] IN
          /\ e.who \in Listing(v) /\ e.access = v[e.who]
          /\ e.undo <=> Undoable(e.who)
          /\ ~e.loading
    /\ \A s \in Listing(v) : \E i \in 1..Len(rows') : heap'[rows'[i]].who = s

LEMMA LoadedPage ==
    ASSUME TypeInv, Load
    PROVE  \E v \in Views : LoadedView(v)
<1>0. PICK v \in Views :
         \E order \in OneOf(Orders(Listing(v))), f \in OneOf(Holdings(Listing(v))) :
             Loaded(v, order, f)
  BY DEF Load
<1>1. PICK order \in OneOf(Orders(Listing(v))), f \in OneOf(Holdings(Listing(v))) :
         Loaded(v, order, f)
  BY <1>0
<1>2. order \in Orders(Listing(v)) /\ f \in Holdings(Listing(v))
  <2>1. \A S : \A x \in OneOf(S) : x \in S
    BY DEF OneOf
  <2> QED
    BY <2>1
<1>3. PICK n : n = Cardinality(Listing(v))
  OBVIOUS
<1>4. n \in Nat
  BY <1>3, ListingFinite
<1>5. /\ order \in [1..n -> Listing(v)] /\ f \in [1..n -> Object]
      /\ \A i, j \in 1..n : order[i] = order[j] => i = j
      /\ \A s \in Listing(v) : \E i \in 1..n : order[i] = s
      /\ \A i, j \in 1..n : f[i] = f[j] => i = j
  BY <1>2, <1>3 DEF Orders, Holdings, Injective
<1>6. rows' = f /\ rows' \in Seq(Object) /\ Len(rows') = n
  BY <1>1, <1>4, <1>5 DEF Loaded
<1>7. DOMAIN f = 1..n
  BY <1>5
<1>8. ASSUME NEW i \in 1..n
      PROVE  /\ f[i] \in Object
             /\ heap'[f[i]] = [who |-> order[i], access |-> v[order[i]],
                               undo |-> Undoable(order[i]), loading |-> FALSE]
  <2>1. f[i] \in Object
    BY <1>5
  <2>2. (CHOOSE j \in DOMAIN f : f[j] = f[i]) = i
    BY <1>5, <1>7
  <2>3. \E j \in DOMAIN f : f[j] = f[i]
    BY <1>7
  <2> QED
    BY <1>1, <2>1, <2>2, <2>3, Zenon DEF Loaded
<1>9. heap' \in [Object -> Row]
  <2>1. ASSUME NEW s \in Listing(v)
        PROVE  [who |-> s, access |-> v[s], undo |-> Undoable(s), loading |-> FALSE] \in Row
    BY <1>0 DEF Row, Listing, Views, Undoable
  <2>2. NoRow \in Row
    BY Ranges
  <2>3. ASSUME NEW o \in Object, \E i \in DOMAIN f : f[i] = o
        PROVE  order[CHOOSE i \in DOMAIN f : f[i] = o] \in Listing(v)
    BY <1>5, <1>7, <2>3
  <2>4. heap' = [o \in Object |->
                  IF \E i \in DOMAIN f : f[i] = o
                  THEN LET s == order[CHOOSE i \in DOMAIN f : f[i] = o]
                       IN  [who |-> s, access |-> v[s],
                            undo |-> Undoable(s), loading |-> FALSE]
                  ELSE NoRow]
    BY <1>1 DEF Loaded
  <2>5. ASSUME NEW o \in Object
        PROVE  heap'[o] \in Row
    <3>1. CASE \E i \in DOMAIN f : f[i] = o
      <4>1. PICK s : s = order[CHOOSE i \in DOMAIN f : f[i] = o]
        OBVIOUS
      <4>2. heap'[o] = [who |-> s, access |-> v[s],
                        undo |-> Undoable(s), loading |-> FALSE]
        BY <2>4, <3>1, <4>1, Zenon
      <4> QED
        BY <2>1, <2>3, <3>1, <4>1, <4>2
    <3>2. CASE ~ \E i \in DOMAIN f : f[i] = o
      BY <2>2, <2>4, <3>2, Zenon
    <3> QED
      BY <3>1, <3>2
  <2>6. heap' = [o \in Object |-> heap'[o]]
    BY <2>4
  <2> QED
    BY <2>5, <2>6
<1>10. ASSUME NEW i \in 1..n
       PROVE  LET e == heap'[f[i]] IN
              /\ e.who = order[i] /\ e.who \in Listing(v) /\ e.access = v[e.who]
              /\ e.undo <=> Undoable(e.who)
              /\ ~e.loading
  <2>1. order[i] \in Listing(v)
    BY <1>5
  <2>2. PICK s, e : s = order[i] /\ e = heap'[f[i]]
    OBVIOUS
  <2>3. e = [who |-> s, access |-> v[s], undo |-> Undoable(s), loading |-> FALSE]
    BY <1>8, <2>2, Zenon
  <2>4. /\ e.who = s /\ e.access = v[s] /\ ~e.loading
        /\ e.undo <=> Undoable(s)
    BY <2>3 DEF Undoable
  <2> QED
    BY <2>1, <2>2, <2>4
<1>11. \A i, j \in 1..n : heap'[f[i]].who = heap'[f[j]].who => i = j
  BY <1>5, <1>10
<1>12. \A s \in Listing(v) : \E i \in 1..n : heap'[f[i]].who = s
  BY <1>5, <1>10
<1>13. LoadedView(v)
  BY <1>6, <1>9, <1>10, <1>11, <1>12 DEF LoadedView
<1> QED
  BY <1>0, <1>13

LEMMA LoadTyped ==
    ASSUME TypeInv, Load
    PROVE  TypeInv'
<1>1. rows' \in Seq(Object) /\ heap' \in [Object -> Row]
  BY LoadedPage DEF LoadedView
<1>2. /\ selfLevel' \in Access /\ holder' \in Person
      /\ processing' = FALSE /\ changing' = FALSE /\ dialog' = NoDialog /\ open' = TRUE
      /\ orderly' \in BOOLEAN /\ UNCHANGED <<asked, server>>
  BY Ranges, EffectiveTyped DEF Load, OwnAccess, TypeInv, ServerTyped
<1>3. CallsTyped'
  <2>1. calls \in [Call -> Request \cup {Idle}]
    BY DEF TypeInv, CallsTyped
  <2>2. ASSUME NEW c \in Call
        PROVE  calls'[c] \in Request \cup {Idle} /\ Aimed(calls'[c])
    <3>1. PICK r : r = calls[c]
      OBVIOUS
    <3>2. CASE calls'[c] = Idle
      BY <3>2, CallTyped
    <3>3. CASE Asked(c) /\ calls'[c] = [r EXCEPT !.heard = FALSE, !.object = NoObject]
      <4>1. r \in Request /\ Aimed(r)
        BY <3>1, <3>3, CallTyped DEF Asked, TypeInv, CallsTyped
      <4>2. PICK cut : cut = [r EXCEPT !.heard = FALSE, !.object = NoObject]
        OBVIOUS
      <4>3. r = [op |-> r.op, who |-> r.who, to |-> r.to, object |-> r.object,
                 index |-> r.index, heard |-> r.heard, answer |-> r.answer]
        BY <4>1 DEF Request
      <4>4. cut = [op |-> r.op, who |-> r.who, to |-> r.to, object |-> NoObject,
                   index |-> r.index, heard |-> FALSE, answer |-> r.answer]
        BY <4>2, <4>3
      <4>5. cut \in Request /\ cut.op = r.op /\ cut.who = r.who /\ ~cut.heard
        BY <4>1, <4>4 DEF Request
      <4>6. Aimed(cut)
        BY <4>1, <4>5 DEF Aimed
      <4> QED
        BY <3>3, <4>2, <4>5, <4>6
    <3> QED
      BY <3>1, <3>2, <3>3, Zenon DEF Load
  <2>3. calls' = [c \in Call |-> calls'[c]]
    BY DEF Load
  <2>4. calls' \in [Call -> Request \cup {Idle}]
    BY <2>2, <2>3
  <2>5. \A c \in Call : Aimed(calls'[c])
    BY <2>2
  <2>6. (\A c \in Call : Aimed(calls[c]))' <=> \A c \in Call : Aimed(calls'[c])
    BY DEF Aimed
  <2> QED
    BY <2>4, <2>5, <2>6 DEF CallsTyped
<1> QED
  BY <1>1, <1>2, <1>3 DEF TypeInv, PageTyped, ServerTyped, server

LEMMA TypeInvInductive == TypeInv /\ [Next]_vars => TypeInv'
<1> SUFFICES ASSUME TypeInv, [Next]_vars PROVE TypeInv'
  OBVIOUS
<1>1. ASSUME NEW c \in Call, Click(c) \/ Serve(c) \/ Answer(c) \/ Fail(c) \/ Garble(c)
      PROVE  TypeInv'
  BY <1>1, ClickTyped, ServeTyped, AnswerTyped, FaultTyped
<1>2. CASE UNCHANGED vars
  BY <1>2 DEF vars, page, server, TypeInv, PageTyped, CallsTyped, ServerTyped, Aimed
<1> QED
  BY <1>1, <1>2, LoadTyped, CancelTyped DEF Next

LEMMA TypeInvInit == Init => TypeInv
<1> SUFFICES ASSUME Init PROVE TypeInv
  OBVIOUS
<1>1. CallsTyped
  BY CallTyped DEF Init, CallsTyped
<1>2. ServerTyped
  BY PanelAssumption DEF Init, ServerTyped
<1>3. PageTyped
  <2>1. heap \in [Object -> Row] /\ selfLevel \in Access
    BY Ranges DEF Init
  <2>2. rows \in Seq(Object) /\ holder \in Person
    BY PanelAssumption DEF Init
  <2> QED
    BY <2>1, <2>2 DEF Init, PageTyped
<1> QED
  BY <1>1, <1>2, <1>3, PanelAssumption DEF Init, TypeInv

(* Every variable keeps to its values: callbacks and the server, whatever   *)
(* order they run in, only ever store rows, users and levels of access.     *)
THEOREM PanelTyped == Spec => []PanelTypeOK
BY TypeInvInit, TypeInvInductive, TypeInvTypes, PTL DEF Spec

-----------------------------------------------------------------------------
(* The truth of the panel.                                                  *)

Has(s) == \E i \in Place : Entry(i).who = s

(* A request about a row holds the row; a grant that found no row and a     *)
(* change of the quota holder hold none.                                    *)
Held(c) == /\ calls[c].index \in Place
           /\ calls[c].object = rows[calls[c].index]
           /\ Entry(calls[c].index).who = calls[c].who
PlacedCall(c) ==
    \/ calls[c].op \in {"change", "grant", "undo", "remove"} /\ Held(c)
    \/ calls[c].op = "grant" /\ calls[c].object = NoObject /\ ~Has(calls[c].who)
    \/ calls[c].op = "holder" /\ calls[c].object = NoObject /\ Has(calls[c].who)

(* What is asked for is a level of access, and no row of a mixed up group.  *)
MeantCall(c) ==
    /\ calls[c].op \in {"change", "grant"} =>
          calls[c].to \in Level /\ (calls[c].object # NoObject => ~MixedUp(calls[c].who))
    /\ calls[c].op = "undo" => calls[c].who # User(Self)

(* The member a of Truth(s). *)
Fits(s, a) == /\ a \in Effective(s, access[s])
              /\ s.type = "user" /\ was[s] # "no" => a = access[s]

(* A request that was carried out, whose callback has not run yet.          *)
Succeeded(c) == Asked(c) /\ calls[c].answer \notin {"waiting", "error"}
AnsweredCall(c) ==
    Succeeded(c) =>
        /\ calls[c].op \in {"change", "grant"} =>
              /\ calls[c].answer = calls[c].to
              /\ access[calls[c].who] = calls[c].to /\ Undoable(calls[c].who)
              /\ calls[c].object = NoObject /\ calls[c].who = User(Self) => calls[c].to # "owner"
        /\ calls[c].op = "remove" =>
              calls[c].answer \in {"none", "leave"} /\ Fits(calls[c].who, "none")
        /\ calls[c].op = "undo" => Fits(calls[c].who, calls[c].answer)
        /\ calls[c].op = "holder" => charged = calls[c].who.id

(* The row of s tells the truth, unless an answer is on its way.            *)
Settled(s) == \A c \in Call : Succeeded(c) /\ calls[c].op # "holder" => calls[c].who # s
RowTrue(s) ==
    Settled(s) =>
        /\ ~Has(s) => access[s] = "none"
        /\ \A i \in Place : Entry(i).who = s =>
              /\ Entry(i).access # "none" /\ Fits(s, Entry(i).access)
              /\ Entry(i).undo => Undoable(s)

Distinct == \A i, j \in Place : Entry(i).who = Entry(j).who => i = j
OneEach == \A c, d \in Call :
               Asked(c) /\ Asked(d) /\ calls[c].who = calls[d].who => c = d
CallsTrue == \A c \in Call : Asked(c) => PlacedCall(c) /\ MeantCall(c) /\ AnsweredCall(c)
RowsTrue == \A s \in Subject : RowTrue(s)
Busy == \A i \in Place : Entry(i).loading =>
            \E c \in Call : Asked(c) /\ calls[c].object = rows[i]
SelfKnown ==
    /\ ~Has(User(Self)) => selfLevel # "none" /\ selfLevel \in Effective(User(Self), "none")
    /\ Settled(User(Self)) => selfLevel \in OwnAccess
HolderKnown ==
    /\ \A c, d \in Call : calls[c].op = "holder" /\ calls[d].op = "holder" => c = d
    /\ \A c \in Call : calls[c].op = "holder" => changing
    /\ (\A c \in Call : calls[c].op = "holder" => ~Succeeded(c)) => holder = charged
DialogPlaced ==
    dialog # NoDialog =>
        /\ dialog.index \in Place /\ dialog.object = rows[dialog.index]
        /\ NoneAbout(Entry(dialog.index).who)
        /\ dialog.op = "change" => dialog.to \in Level

Calm == Distinct /\ OneEach /\ CallsTrue /\ RowsTrue /\ Busy /\ SelfKnown /\ HolderKnown
TruthInv == open /\ orderly => Calm /\ DialogPlaced

LEMMA TruthAtRest == TypeInv /\ TruthInv => PanelTrueAtRest
<1> SUFFICES ASSUME TypeInv, TruthInv, Undisturbed
             PROVE  /\ \A i, j \in Place : Entry(i).who = Entry(j).who => i = j
                    /\ Listing(access) \subseteq {Entry(i).who : i \in Place}
                    /\ \A i \in Place : /\ Entry(i).access \in Truth(Entry(i).who) \ {"none"}
                                        /\ Entry(i).undo => Undoable(Entry(i).who)
                                        /\ ~Entry(i).loading
                    /\ selfLevel \in OwnAccess /\ holder = charged
  BY DEF PanelTrueAtRest
<1>1. Calm /\ \A c \in Call : ~Asked(c)
  BY DEF TruthInv, Undisturbed, AllIdle
<1>2. ASSUME NEW s \in Subject PROVE Settled(s)
  BY <1>1 DEF Settled, Succeeded
<1>3. ASSUME NEW s \in Subject
      PROVE  /\ ~Has(s) => access[s] = "none"
             /\ \A i \in Place : Entry(i).who = s =>
                   /\ Entry(i).access # "none" /\ Fits(s, Entry(i).access)
                   /\ Entry(i).undo => Undoable(s)
  BY <1>1, <1>2 DEF Calm, RowsTrue, RowTrue
<1>4. \A i \in Place : Entry(i).who \in Subject
  BY EntryTyped DEF TypeInv
<1>5. Listing(access) \subseteq {Entry(i).who : i \in Place}
  BY <1>3 DEF Listing, Has
<1>6. ASSUME NEW i \in Place
      PROVE  /\ Entry(i).access \in Truth(Entry(i).who) \ {"none"}
             /\ Entry(i).undo => Undoable(Entry(i).who)
  <2>1. PICK s \in Subject : s = Entry(i).who
    BY <1>4
  <2>2. Entry(i).access # "none" /\ Fits(s, Entry(i).access) /\ (Entry(i).undo => Undoable(s))
    BY <1>3, <2>1
  <2>3. Entry(i).access \in Truth(s)
    BY <2>2 DEF Fits, Truth, Undoable
  <2> QED
    BY <2>1, <2>2, <2>3
<1>7. \A i \in Place : ~Entry(i).loading
  BY <1>1 DEF Calm, Busy
<1>8. selfLevel \in OwnAccess /\ holder = charged
  BY <1>1, <1>2, Ranges DEF Calm, SelfKnown, HolderKnown, Succeeded
<1> QED
  BY <1>1, <1>5, <1>6, <1>7, <1>8 DEF Calm, Distinct

(* The list stays as it is, but for row k, which shows that it is busy with *)
(* request c.                                                               *)
OnlyMarks(c, k) ==
    /\ Len(rows') = Len(rows)
    /\ \A i \in Place :
          /\ rows'[i] = rows[i]
          /\ heap'[rows[i]].who = Entry(i).who
          /\ heap'[rows[i]].access = Entry(i).access
          /\ heap'[rows[i]].undo = Entry(i).undo
          /\ i # k => heap'[rows[i]].loading = Entry(i).loading
          /\ i = k => calls'[c].object = rows[i]

(* A request is posted about a user or group that no other is about.        *)
LEMMA PostCalm ==
    ASSUME TypeInv, Calm, NEW c \in Call, NEW s \in Subject, NEW k,
           ~Asked(c), NoneAbout(s),
           Asked(c)', calls'[c].who = s, calls'[c].answer = "waiting",
           \A d \in Call \ {c} : calls'[d] = calls[d],
           OnlyMarks(c, k), UNCHANGED <<access, was, charged, selfLevel, holder>>,
           PlacedCall(c)', MeantCall(c)',
           IF calls'[c].op = "holder" THEN ~changing /\ changing' ELSE changing' = changing
    PROVE  Calm'
<1>1. Place' = Place /\ \A i \in Place : rows'[i] = rows[i] /\ Entry(i)' = heap'[rows[i]]
  BY DEF OnlyMarks, Place, Entry
<1>2. \A i \in Place : /\ Entry(i)'.who = Entry(i).who
                       /\ Entry(i)'.access = Entry(i).access
                       /\ Entry(i)'.undo = Entry(i).undo
                       /\ i # k => Entry(i)'.loading = Entry(i).loading
                       /\ i = k => calls'[c].object = rows[i]
  BY <1>1 DEF OnlyMarks
<1>3. Distinct'
  BY <1>1, <1>2 DEF Calm, Distinct
<1>4. OneEach'
  BY DEF Calm, OneEach, NoneAbout, Asked
<1>5. \A t : Has(t)' <=> Has(t)
  BY <1>1, <1>2 DEF Has
<1>6. ASSUME NEW d \in Call \ {c}, Asked(d)'
      PROVE  PlacedCall(d)' /\ MeantCall(d)' /\ AnsweredCall(d)'
  <2>1. calls'[d] = calls[d] /\ Asked(d)
    BY <1>6 DEF Asked
  <2>2. PlacedCall(d) /\ MeantCall(d) /\ AnsweredCall(d)
    BY <2>1 DEF Calm, CallsTrue
  <2>3. Held(d) => Held(d)'
    BY <1>1, <1>2, <2>1 DEF Held
  <2>4. PlacedCall(d)'
    BY <1>5, <2>1, <2>2, <2>3 DEF PlacedCall
  <2> QED
    BY <2>1, <2>2, <2>4 DEF MeantCall, AnsweredCall, Succeeded, Asked, Undoable, Fits
<1>7. CallsTrue'
  <2>1. ~Succeeded(c)'
    BY DEF Succeeded
  <2> QED
    BY <1>6, <2>1 DEF CallsTrue, AnsweredCall
<1>8. \A t \in Subject : Settled(t)' => Settled(t)
  BY DEF Settled, Succeeded, Asked
<1>9. RowsTrue'
  <2> SUFFICES ASSUME NEW t \in Subject, Settled(t)' PROVE RowTrue(t)'
    BY DEF RowsTrue, RowTrue
  <2>1. RowTrue(t) /\ Settled(t)
    BY <1>8 DEF Calm, RowsTrue
  <2> QED
    BY <1>1, <1>2, <1>5, <2>1 DEF RowTrue, Undoable, Fits
<1>10. Busy'
  <2> SUFFICES ASSUME NEW i \in Place, Entry(i)'.loading
               PROVE  \E d \in Call : Asked(d)' /\ calls'[d].object = rows'[i]
    BY <1>1 DEF Busy
  <2>1. CASE i = k
    BY <1>1, <1>2, <2>1
  <2>2. CASE i # k
    <3>1. Entry(i).loading
      BY <1>2, <2>2
    <3>2. PICK d \in Call : Asked(d) /\ calls[d].object = rows[i]
      BY <3>1 DEF Calm, Busy
    <3> QED
      BY <1>1, <3>2 DEF Asked
  <2> QED
    BY <2>1, <2>2
<1>11. SelfKnown'
  BY <1>5, <1>8, Ranges DEF Calm, SelfKnown, OwnAccess
<1>12. HolderKnown'
  <2>1. \A d \in Call : Succeeded(d) => d # c /\ Succeeded(d)'
    BY DEF Succeeded, Asked
  <2> QED
    BY <2>1 DEF Calm, HolderKnown
<1> QED
  BY <1>3, <1>4, <1>7, <1>9, <1>10, <1>11, <1>12 DEF Calm

LEMMA MarkFacts ==
    ASSUME TypeInv, Distinct, NEW i \in Place, MarkLoading(rows[i], i)
    PROVE  /\ Len(rows') = Len(rows)
           /\ \A j \in Place : /\ rows'[j] = rows[j]
                               /\ heap'[rows[j]].who = Entry(j).who
                               /\ heap'[rows[j]].access = Entry(j).access
                               /\ heap'[rows[j]].undo = Entry(j).undo
                               /\ j # i => heap'[rows[j]].loading = Entry(j).loading
<1>1. PICK o : o = rows[i]
  OBVIOUS
<1>2. o \in Object /\ rows \in Seq(Object) /\ heap \in [Object -> Row]
  BY <1>1, EntryTyped DEF TypeInv, PageTyped
<1>3. rows' = Put(rows, i, o)
  BY <1>1 DEF MarkLoading
<1>4. Len(rows') = Len(rows) /\ \A j \in Place : rows'[j] = rows[j]
  BY <1>1, <1>2, <1>3, PutAt DEF Place
<1>5. PICK e : e = [heap[o] EXCEPT !.loading = TRUE]
  OBVIOUS
<1>6. /\ e \in Row /\ e.who = heap[o].who /\ e.access = heap[o].access /\ e.undo = heap[o].undo
  <2>1. PICK r : r = heap[o]
    OBVIOUS
  <2>2. r \in Row /\ "none" \in Access
    BY <1>2, <2>1, Ranges
  <2>3. e \in Row /\ e = [who |-> r.who, access |-> r.access, undo |-> r.undo, loading |-> TRUE]
    BY <1>5, <2>1, <2>2, RowWith
  <2> QED
    BY <2>1, <2>3
<1>7. PICK h : h = [heap EXCEPT ![o] = e]
  OBVIOUS
<1>8. Keep(h, rows', calls', dialog')
  BY <1>1, <1>5, <1>7, Zenon DEF MarkLoading
<1>9. h \in [Object -> Row] /\ h[o] = e /\ \A p \in Object \ {o} : h[p] = heap[p]
  BY <1>2, <1>6, <1>7
<1>10. \A j \in 1..Len(rows') : heap'[rows'[j]] = h[rows'[j]]
  <2>1. PICK s : s = rows'
    OBVIOUS
  <2>2. s \in Seq(Object)
    BY <1>2, <1>3, <2>1, PutTyped DEF Place
  <2>3. Keep(h, s, calls', dialog')
    BY <1>8, <2>1
  <2>4. \A j \in 1..Len(s) : heap'[s[j]] = h[s[j]]
    BY <1>9, <2>2, <2>3, KeepTyped
  <2> QED
    BY <2>1, <2>4
<1>11. ASSUME NEW j \in Place
       PROVE  heap'[rows[j]] = (IF j = i THEN e ELSE Entry(j))
  <2>1. heap'[rows[j]] = h[rows[j]] /\ rows[j] \in Object
    BY <1>4, <1>10, EntryTyped DEF Place, TypeInv
  <2>2. j # i => rows[j] # o
    BY <1>1 DEF Distinct, Entry
  <2> QED
    BY <1>1, <1>9, <2>1, <2>2 DEF Entry
<1> QED
  BY <1>1, <1>4, <1>6, <1>11 DEF Entry

LEMMA AskRowCalm ==
    ASSUME TypeInv, Calm, NEW c \in Call, NEW i \in Place,
           NEW op \in {"change", "undo", "grant", "remove"}, NEW to \in Access,
           Post(c, op, Entry(i).who, to, rows[i], i), MarkLoading(rows[i], i),
           NoneAbout(Entry(i).who), UNCHANGED <<selfLevel, holder, changing, server>>,
           op \in {"change", "grant"} => to \in Level /\ ~MixedUp(Entry(i).who),
           op = "undo" => Entry(i).who # User(Self)
    PROVE  Calm'
<1>1. /\ rows[i] \in Object /\ i \in Nat /\ Entry(i).who \in Subject
      /\ op \in Ops /\ op # "idle" /\ op # "holder"
  BY EntryTyped DEF TypeInv, Ops
<1>2. PICK s, o : s = Entry(i).who /\ o = rows[i]
  OBVIOUS
<1>3. s \in Subject /\ o \in Object
  BY <1>1, <1>2
<1>4. Post(c, op, s, to, o, i)
  BY <1>2
<1>5. /\ ~Asked(c)
      /\ \A d \in Call \ {c} : calls'[d] = calls[d]
      /\ calls'[c].op = op /\ calls'[c].who = s /\ calls'[c].to = to
      /\ calls'[c].object = o /\ calls'[c].index = i /\ calls'[c].answer = "waiting"
  BY <1>1, <1>3, <1>4, PostTyped, ZenonT(40)
<1>6. /\ Len(rows') = Len(rows)
      /\ \A j \in Place : /\ rows'[j] = rows[j]
                          /\ heap'[rows[j]].who = Entry(j).who
                          /\ heap'[rows[j]].access = Entry(j).access
                          /\ heap'[rows[j]].undo = Entry(j).undo
                          /\ j # i => heap'[rows[j]].loading = Entry(j).loading
  BY MarkFacts DEF Calm
<1>7. PlacedCall(c)'
  BY <1>2, <1>5, <1>6 DEF PlacedCall, Held, Place, Entry
<1>8. MeantCall(c)'
  BY <1>2, <1>5 DEF MeantCall, MixedUp
<1>9. NoneAbout(s)
  BY <1>2
<1>10. Asked(c)'
  BY <1>1, <1>5 DEF Asked
<1>11. /\ UNCHANGED <<access, was, charged, selfLevel, holder>>
       /\ IF calls'[c].op = "holder" THEN ~changing /\ changing' ELSE changing' = changing
  BY <1>1, <1>5 DEF server
<1>12. OnlyMarks(c, i)
  BY <1>2, <1>5, <1>6 DEF OnlyMarks
<1>13. ~Asked(c) /\ \A d \in Call \ {c} : calls'[d] = calls[d]
  BY <1>5
<1>14. calls'[c].who = s /\ calls'[c].answer = "waiting"
  BY <1>5
<1> QED
  BY <1>3, <1>7, <1>8, <1>9, <1>10, <1>11, <1>12, <1>13, <1>14, PostCalm

LEMMA ChangeCalm ==
    ASSUME TypeInv, Calm, NEW c \in Call, NEW i \in Place, NEW a \in Level, orderly',
           ChangeAccess(c, rows[i], i, a) \/ RemoveAccess(c, rows[i], i)
    PROVE  Calm'
<1>1. heap[rows[i]] = Entry(i) /\ a \in Access /\ "none" \in Access
  BY Ranges DEF Entry
<1>2. CASE ChangeAccess(c, rows[i], i, a)
  BY <1>1, <1>2, AskRowCalm, Zenon DEF ChangeAccess
<1>3. CASE RemoveAccess(c, rows[i], i)
  BY <1>1, <1>3, AskRowCalm, Zenon DEF RemoveAccess
<1> QED
  BY <1>2, <1>3

LEMMA ShowTrue ==
    ASSUME TypeInv, TruthInv, NEW op \in {"change", "remove"}, NEW i \in Place, NEW a,
           op = "change" => a \in Level, ShowDialog(op, i, a)
    PROVE  TruthInv'
<1> SUFFICES ASSUME (open /\ orderly)' PROVE Calm' /\ DialogPlaced'
  BY DEF TruthInv
<1>1. /\ UNCHANGED <<rows, heap, selfLevel, holder, processing, changing, open, calls, asked, server>>
      /\ orderly /\ NoneAbout(Entry(i).who)
      /\ dialog' = [op |-> op, object |-> rows[i], index |-> i, to |-> a]
  BY DEF ShowDialog
<1>2. Calm
  BY <1>1 DEF TruthInv
<1>3. Calm'
  BY <1>1, <1>2 DEF Calm, Distinct, OneEach, CallsTrue, RowsTrue, Busy, SelfKnown, HolderKnown,
                    PlacedCall, MeantCall, AnsweredCall, RowTrue, Has, Held, Succeeded, Settled,
                    Place, Entry, Asked, Undoable, Fits, OwnAccess, server
<1>4. DialogPlaced'
  BY <1>1 DEF DialogPlaced, Place, Entry, NoneAbout, Asked
<1> QED
  BY <1>3, <1>4

LEMMA GrantTrue ==
    ASSUME TypeInv, TruthInv, NEW c \in Call, NEW s \in Subject, NEW a \in Level,
           GrantAccess(c, s, a)
    PROVE  TruthInv'
<1> SUFFICES ASSUME (open /\ orderly)' PROVE Calm' /\ DialogPlaced'
  BY DEF TruthInv
<1>1. /\ orderly /\ NoneAbout(s) /\ (\A i \in SameId(s) : Entry(i).who = s /\ ~MixedUp(s))
      /\ UNCHANGED <<selfLevel, holder, changing, open, server>>
      /\ dialog' = dialog /\ dialog = NoDialog
  BY DEF GrantAccess, Clickable
<1>2. Calm
  BY <1>1 DEF TruthInv
<1>3. DialogPlaced'
  BY <1>1 DEF DialogPlaced
<1>4. SameId(s) # {} => ~MixedUp(s)
  BY <1>1
<1>5. a \in Access
  BY Ranges
<1>6. CASE SameId(s) = {} /\ Post(c, "grant", s, a, NoObject, 0) /\ UNCHANGED <<rows, heap>>
  <2>1. /\ ~Asked(c)
        /\ \A d \in Call \ {c} : calls'[d] = calls[d]
        /\ calls'[c].op = "grant" /\ calls'[c].who = s /\ calls'[c].to = a
        /\ calls'[c].object = NoObject /\ calls'[c].answer = "waiting"
    <3>1. PICK op, o, i : op = "grant" /\ o = NoObject /\ i = 0
      OBVIOUS
    <3>2. op \in Ops /\ o \in Object \cup {NoObject} /\ i \in Nat /\ op \notin {"holder", "change", "undo", "remove"}
      BY <3>1 DEF Ops
    <3>3. Post(c, op, s, a, o, i)
      BY <1>6, <3>1
    <3>4. /\ ~Asked(c)
          /\ \A d \in Call \ {c} : calls'[d] = calls[d]
          /\ calls'[c].op = op /\ calls'[c].who = s /\ calls'[c].to = a
          /\ calls'[c].object = o /\ calls'[c].answer = "waiting"
      BY <1>5, <3>2, <3>3, PostTyped, ZenonT(40)
    <3> QED
      BY <3>1, <3>4
  <2>2. ~Has(s)
    BY <1>6 DEF Has, SameId
  <2>3. PlacedCall(c)'
    BY <1>6, <2>1, <2>2 DEF PlacedCall, Has, Place, Entry
  <2>4. MeantCall(c)'
    BY <2>1 DEF MeantCall
  <2>5. Asked(c)'
    BY <2>1 DEF Asked
  <2>7. Len(rows') = Len(rows) /\ \A i \in Place : /\ rows'[i] = rows[i]
                            /\ heap'[rows[i]].who = Entry(i).who
                            /\ heap'[rows[i]].access = Entry(i).access
                            /\ heap'[rows[i]].undo = Entry(i).undo
                            /\ heap'[rows[i]].loading = Entry(i).loading
    BY <1>6 DEF Entry
  <2>8. OnlyMarks(c, 0)
    <3>1. \A i \in Place : i # 0
      BY LenProperties DEF Place, TypeInv, PageTyped
    <3> QED
      BY <2>7, <3>1 DEF OnlyMarks
  <2>9. Calm'
    BY <1>1, <1>2, <2>1, <2>3, <2>4, <2>5, <2>8, PostCalm DEF server
  <2> QED
    BY <1>3, <2>9
<1>7. CASE /\ SameId(s) # {}
           /\ Post(c, "grant", s, a, rows[First(SameId(s))], Last(SameId(s)))
           /\ MarkLoading(rows[First(SameId(s))], Last(SameId(s)))
  <2>1. Len(rows) \in Nat /\ SameId(s) \subseteq 1..Len(rows)
    BY LenProperties DEF TypeInv, PageTyped, SameId, Place
  <2>2. PICK i : i = First(SameId(s))
    OBVIOUS
  <2>3. i \in SameId(s) /\ Last(SameId(s)) \in SameId(s)
    BY <1>7, <2>1, <2>2, FirstIn, LastIn
  <2>4. i \in Place /\ Entry(i).who = s /\ Last(SameId(s)) = i
    BY <1>1, <1>2, <2>3 DEF Calm, Distinct, SameId
  <2>5. Post(c, "grant", Entry(i).who, a, rows[i], i) /\ MarkLoading(rows[i], i)
    BY <1>7, <2>2, <2>4
  <2>6. Calm'
    BY <1>1, <1>2, <1>4, <1>5, <1>7, <2>4, <2>5, AskRowCalm
  <2> QED
    BY <1>3, <2>6
<1> QED
  BY <1>6, <1>7 DEF GrantAccess

LEMMA ClickTrue ==
    ASSUME TypeInv, TruthInv, NEW c \in Call, Click(c)
    PROVE  TruthInv'
<1>1. ASSUME NEW i \in Place, NEW a \in Level, dialog' = NoDialog, open,
             orderly => Calm,
             ChangeAccess(c, rows[i], i, a) \/ RemoveAccess(c, rows[i], i)
      PROVE  TruthInv'
  <2> SUFFICES ASSUME (open /\ orderly)' PROVE Calm' /\ DialogPlaced'
    BY DEF TruthInv
  <2>1. orderly
    BY <1>1 DEF ChangeAccess, RemoveAccess
  <2> QED
    BY <1>1, <2>1, ChangeCalm DEF DialogPlaced
<1>2. ASSUME NEW i \in Place, NEW a \in Level, OnChangeAccess(c, i, a)
      PROVE  TruthInv'
  <2>1. \/ ShowDialog("change", i, a)
        \/ dialog' = NoDialog /\ open /\ ChangeAccess(c, rows[i], i, a)
    BY <1>2 DEF OnChangeAccess, RowClickable, Clickable
  <2> QED
    BY <1>1, <2>1, ShowTrue DEF TruthInv
<1>3. ASSUME NEW i \in Place, OnRemove(c, i)
      PROVE  TruthInv'
  <2>1. \/ ShowDialog("remove", i, "none")
        \/ dialog' = NoDialog /\ open /\ RemoveAccess(c, rows[i], i)
    BY <1>3 DEF OnRemove, RowClickable, Clickable
  <2>2. "owner" \in Level
    BY PanelAssumption
  <2> QED
    BY <1>1, <2>1, <2>2, ShowTrue DEF TruthInv
<1>4. ASSUME NEW i \in Place, UndoAccess(c, i)
      PROVE  TruthInv'
  <2> SUFFICES ASSUME (open /\ orderly)' PROVE Calm' /\ DialogPlaced'
    BY DEF TruthInv
  <2>1. /\ open /\ orderly /\ NoneAbout(Entry(i).who) /\ Entry(i).who # User(Self)
        /\ dialog' = NoDialog
        /\ Post(c, "undo", Entry(i).who, "none", rows[i], i) /\ MarkLoading(rows[i], i)
        /\ UNCHANGED <<selfLevel, holder, changing, server>>
    BY <1>4 DEF UndoAccess, RowClickable, Clickable
  <2>2. Calm'
    BY <2>1, AskRowCalm, Ranges DEF TruthInv
  <2> QED
    BY <2>1, <2>2 DEF DialogPlaced
<1>5. ASSUME NEW i \in Place, SetQuotaHolder(c, i)
      PROVE  TruthInv'
  <2> SUFFICES ASSUME (open /\ orderly)' PROVE Calm' /\ DialogPlaced'
    BY DEF TruthInv
  <2>1. PICK s : s = Entry(i).who
    OBVIOUS
  <2>2. /\ open /\ orderly /\ NoneAbout(s) /\ dialog' = NoDialog /\ ~changing /\ changing' = TRUE
        /\ Post(c, "holder", s, "none", NoObject, 0) /\ s.type = "user"
        /\ UNCHANGED <<rows, heap, selfLevel, holder, server>>
    BY <1>5, <2>1 DEF SetQuotaHolder, Clickable
  <2>3. s \in Subject /\ "none" \in Access /\ "holder" \in Ops
    BY <2>1, EntryTyped, Ranges DEF TypeInv, Ops
  <2>4. /\ ~Asked(c)
        /\ \A d \in Call \ {c} : calls'[d] = calls[d]
        /\ calls'[c].op = "holder" /\ calls'[c].who = s
        /\ calls'[c].object = NoObject /\ calls'[c].answer = "waiting"
    <3>1. PICK op, to, o, k : op = "holder" /\ to = "none" /\ o = NoObject /\ k = 0
      OBVIOUS
    <3>2. /\ op \in Ops /\ o \in Object \cup {NoObject} /\ k \in Nat /\ to \in Access
          /\ op \notin {"change", "undo", "remove"}
      BY <2>3, <3>1
    <3>3. Post(c, op, s, to, o, k)
      BY <2>2, <3>1
    <3>4. /\ ~Asked(c)
          /\ \A d \in Call \ {c} : calls'[d] = calls[d]
          /\ calls'[c].op = op /\ calls'[c].who = s
          /\ calls'[c].object = o /\ calls'[c].answer = "waiting"
      BY <2>2, <2>3, <3>2, <3>3, PostTyped, ZenonT(40)
    <3> QED
      BY <3>1, <3>4
  <2>5. Has(s)
    BY <2>1 DEF Has
  <2>6. PlacedCall(c)'
    BY <2>2, <2>4, <2>5 DEF PlacedCall, Has, Place, Entry
  <2>7. MeantCall(c)' /\ Asked(c)'
    BY <2>4 DEF MeantCall, Asked
  <2>8. Len(rows') = Len(rows) /\ \A j \in Place : /\ rows'[j] = rows[j]
                            /\ heap'[rows[j]].who = Entry(j).who
                            /\ heap'[rows[j]].access = Entry(j).access
                            /\ heap'[rows[j]].undo = Entry(j).undo
                            /\ heap'[rows[j]].loading = Entry(j).loading
    BY <2>2 DEF Entry
  <2>10. OnlyMarks(c, 0)
    <3>1. \A j \in Place : j # 0
      BY LenProperties DEF Place, TypeInv, PageTyped
    <3> QED
      BY <2>8, <3>1 DEF OnlyMarks
  <2>11. Calm
    BY <2>2 DEF TruthInv
  <2>12. Calm'
    BY <2>2, <2>3, <2>4, <2>6, <2>7, <2>10, <2>11, PostCalm DEF server
  <2> QED
    BY <2>2, <2>12 DEF DialogPlaced
<1>6. CASE Confirm(c)
  <2> SUFFICES ASSUME (open /\ orderly)' PROVE TruthInv'
    BY DEF TruthInv
  <2>1. /\ open /\ dialog # NoDialog /\ dialog' = NoDialog
        /\ \/ dialog.op = "change" /\ ChangeAccess(c, dialog.object, dialog.index, dialog.to)
           \/ RemoveAccess(c, dialog.object, dialog.index)
    BY <1>6 DEF Confirm
  <2>2. orderly
    BY <2>1 DEF ChangeAccess, RemoveAccess
  <2>3. Calm /\ DialogPlaced
    BY <2>1, <2>2 DEF TruthInv
  <2>4. /\ dialog.index \in Place /\ dialog.object = rows[dialog.index]
        /\ dialog.op = "change" => dialog.to \in Level
    BY <2>1, <2>3 DEF DialogPlaced
  <2>5. PICK i \in Place : i = dialog.index
    BY <2>4
  <2>6. "owner" \in Level
    BY PanelAssumption
  <2> QED
    BY <1>1, <2>1, <2>3, <2>4, <2>5, <2>6
<1> QED
  BY <1>2, <1>3, <1>4, <1>5, <1>6, GrantTrue DEF Click

(* The server answers a request: it touches what it keeps about the user or *)
(* group of the request, whom no other request is about.                    *)
LEMMA ServeCalm ==
    ASSUME TypeInv, Calm, NEW c \in Call, NEW s \in Subject, NEW a,
           Asked(c), calls[c].who = s, calls[c].answer = "waiting",
           \A d \in Call \ {c} : calls'[d] = calls[d],
           calls'[c].op = calls[c].op, calls'[c].who = s, calls'[c].to = calls[c].to,
           calls'[c].object = calls[c].object, calls'[c].index = calls[c].index,
           calls'[c].answer = a,
           rows' = rows, \A i \in Place : heap'[rows[i]] = heap[rows[i]],
           UNCHANGED <<selfLevel, holder, changing>>,
           \A t \in Subject \ {s} : access'[t] = access[t] /\ was'[t] = was[t],
           calls[c].op = "holder" \/ a = "error" => access'[s] = access[s] /\ was'[s] = was[s],
           calls[c].op # "holder" \/ a = "error" => charged' = charged,
           AnsweredCall(c)', a # "waiting"
    PROVE  Calm'
<1>1. Place' = Place /\ \A i \in Place : Entry(i)' = Entry(i)
  BY DEF Place, Entry
<1>2. Distinct'
  BY <1>1 DEF Calm, Distinct
<1>3. \A d \in Call : (Asked(d)' <=> Asked(d)) /\ calls'[d].who = calls[d].who
  BY DEF Asked
<1>4. OneEach'
  BY <1>3 DEF Calm, OneEach
<1>5. \A t : Has(t)' <=> Has(t)
  BY <1>1 DEF Has
<1>6. ASSUME NEW d \in Call, Asked(d)
      PROVE  PlacedCall(d)' /\ MeantCall(d)' /\ AnsweredCall(d)'
  <2>1. PlacedCall(d) /\ MeantCall(d) /\ AnsweredCall(d)
    BY <1>6 DEF Calm, CallsTrue
  <2>2. /\ calls'[d].op = calls[d].op /\ calls'[d].who = calls[d].who
        /\ calls'[d].to = calls[d].to /\ calls'[d].object = calls[d].object
        /\ calls'[d].index = calls[d].index
    OBVIOUS
  <2>3. Held(d) => Held(d)'
    BY <1>1, <2>2 DEF Held
  <2>4. PlacedCall(d)' /\ MeantCall(d)'
    BY <1>5, <2>1, <2>2, <2>3 DEF PlacedCall, MeantCall, MixedUp
  <2>5. CASE d = c
    BY <2>4, <2>5
  <2>6. CASE d # c
    <3>1. calls'[d] = calls[d] /\ (Succeeded(d)' <=> Succeeded(d))
      BY <2>6 DEF Succeeded, Asked
    <3>2. calls[d] \in Request
      BY <1>6, CallTyped DEF Asked, TypeInv, CallsTyped
    <3>3. calls[d].who \in Subject /\ calls[d].who # s
      BY <1>6, <2>6, <3>2 DEF Calm, OneEach, Request
    <3>4. calls[d].op = "holder" => calls[c].op # "holder"
      BY <2>6 DEF Calm, HolderKnown
    <3>5. /\ access'[calls[d].who] = access[calls[d].who]
          /\ was'[calls[d].who] = was[calls[d].who]
          /\ calls[d].op = "holder" => charged' = charged
      BY <3>3, <3>4
    <3> QED
      BY <2>1, <2>4, <3>1, <3>5 DEF AnsweredCall, Undoable, Fits
  <2> QED
    BY <2>5, <2>6
<1>7. CallsTrue'
  BY <1>3, <1>6 DEF CallsTrue
<1>8. \A t \in Subject : Settled(t)' => Settled(t) /\ access'[t] = access[t] /\ was'[t] = was[t]
  <2> SUFFICES ASSUME NEW t \in Subject, Settled(t)'
               PROVE  Settled(t) /\ access'[t] = access[t] /\ was'[t] = was[t]
    OBVIOUS
  <2>1. \A d \in Call : Succeeded(d) => Succeeded(d)'
    BY DEF Succeeded, Asked
  <2>2. Settled(t)
    BY <1>3, <2>1 DEF Settled
  <2>3. CASE t = s
    <3>1. ~(Succeeded(c)' /\ calls[c].op # "holder")
      BY <2>3 DEF Settled
    <3>2. calls[c].op = "holder" \/ a = "error"
      BY <1>3, <3>1 DEF Succeeded
    <3> QED
      BY <2>2, <2>3, <3>2
  <2> QED
    BY <2>2, <2>3
<1>9. RowsTrue'
  <2> SUFFICES ASSUME NEW t \in Subject, Settled(t)' PROVE RowTrue(t)'
    BY DEF RowsTrue, RowTrue
  <2>1. RowTrue(t) /\ Settled(t) /\ access'[t] = access[t] /\ was'[t] = was[t]
    BY <1>8 DEF Calm, RowsTrue
  <2> QED
    BY <1>1, <1>5, <2>1 DEF RowTrue, Undoable, Fits
<1>10. Busy'
  <2> SUFFICES ASSUME NEW i \in Place, Entry(i).loading
               PROVE  \E d \in Call : Asked(d)' /\ calls'[d].object = rows[i]
    BY <1>1 DEF Busy
  <2>1. PICK d \in Call : Asked(d) /\ calls[d].object = rows[i]
    BY DEF Calm, Busy
  <2> QED
    BY <1>3, <2>1
<1>11. SelfKnown'
  BY <1>5, <1>8, Ranges DEF Calm, SelfKnown, OwnAccess
<1>12. HolderKnown'
  <2>1. \A d \in Call : calls'[d].op = calls[d].op
    OBVIOUS
  <2>2. ASSUME \A d \in Call : calls'[d].op = "holder" => ~Succeeded(d)'
        PROVE  holder' = charged'
    <3>1. \A d \in Call : calls[d].op = "holder" => ~Succeeded(d)
      BY <2>1, <2>2 DEF Succeeded, Asked
    <3>2. calls[c].op # "holder" \/ a = "error"
      BY <1>3, <2>1, <2>2 DEF Succeeded
    <3> QED
      BY <3>1, <3>2 DEF Calm, HolderKnown
  <2>3. /\ \A d, e \in Call : calls'[d].op = "holder" /\ calls'[e].op = "holder" => d = e
        /\ \A d \in Call : calls'[d].op = "holder" => changing'
    BY <2>1 DEF Calm, HolderKnown
  <2> QED
    BY <2>2, <2>3 DEF HolderKnown
<1> QED
  BY <1>2, <1>4, <1>7, <1>9, <1>10, <1>11, <1>12 DEF Calm

LEMMA ServeTrue ==
    ASSUME TypeInv, AllHeard, TruthInv, NEW c \in Call, Serve(c)
    PROVE  TruthInv'
<1> SUFFICES ASSUME (open /\ orderly)' PROVE Calm' /\ DialogPlaced'
  BY DEF TruthInv
<1>1. PICK a \in Access \cup {"leave", "error"} :
         /\ Reply(c, a)
         /\ \/ Refused(c) /\ a = "error"
            \/ Done(c, a) /\ a # "error"
  BY Ranges DEF Serve
<1>2. Asked(c) /\ calls[c].answer = "waiting" /\ calls[c] \in Request
  BY CallTyped DEF Serve, Asked, TypeInv, CallsTyped
<1>3. UNCHANGED <<rows, selfLevel, holder, changing, dialog, open, orderly>>
  BY <1>1 DEF Reply
<1>4. Calm /\ DialogPlaced /\ calls[c].heard
  BY <1>2, <1>3 DEF TruthInv, AllHeard
<1>5. /\ \A d \in Call \ {c} : calls'[d] = calls[d]
      /\ calls'[c].op = calls[c].op /\ calls'[c].who = calls[c].who
      /\ calls'[c].to = calls[c].to /\ calls'[c].object = calls[c].object
      /\ calls'[c].index = calls[c].index /\ calls'[c].answer = a
  BY <1>1, <1>2, <1>4, ReplyTyped DEF Reply
<1>6. \A i \in Place : heap'[rows[i]] = heap[rows[i]]
  BY <1>1, KeepTyped DEF Reply, TypeInv, PageTyped, Place
<1>7. PICK s \in Subject : s = calls[c].who
  BY <1>2 DEF Request
<1>8. a \notin {"waiting", "garbled"} /\ calls[c].to \in Access
  BY <1>2, Ranges DEF Request
<1>9. /\ access \in [Subject -> Access] /\ was \in [Subject -> Access \cup {"no"}]
      /\ access[s] # "no"
  BY Ranges DEF TypeInv, ServerTyped
<1>10. DialogPlaced'
  <2>1. Place' = Place /\ \A i \in Place : Entry(i)' = Entry(i)
    BY <1>3, <1>6 DEF Place, Entry
  <2>2. \A t : NoneAbout(t) => NoneAbout(t)'
    BY <1>5 DEF NoneAbout, Asked
  <2> QED
    BY <1>3, <1>4, <2>1, <2>2 DEF DialogPlaced
<1>11. CASE Refused(c) /\ a = "error"
  <2>1. UNCHANGED <<access, was, charged>>
    BY <1>11 DEF Refused, server
  <2>2. AnsweredCall(c)'
    BY <1>5, <1>11 DEF AnsweredCall, Succeeded
  <2> QED
    BY <1>2, <1>3, <1>4, <1>5, <1>6, <1>7, <1>8, <1>10, <2>1, <2>2, <1>11, ServeCalm
<1>12. CASE Done(c, a) /\ a # "error"
  <2>1. a # "error"
    BY <1>12
  <2>2. MeantCall(c)
    BY <1>2, <1>4 DEF Calm, CallsTrue
  <2>3. CASE /\ calls[c].op \in {"change", "grant"}
             /\ access' = [access EXCEPT ![s] = calls[c].to]
             /\ was' = [was EXCEPT ![s] = access[s]] /\ UNCHANGED charged
             /\ a = calls[c].to
             /\ calls[c].to = "owner" => access[User(Self)] = "owner"
    <3>1. /\ access'[s] = calls[c].to /\ was'[s] = access[s]
          /\ \A t \in Subject \ {s} : access'[t] = access[t] /\ was'[t] = was[t]
      BY <1>9, <2>3
    <3>2. calls[c].object = NoObject /\ s = User(Self) => calls[c].to # "owner"
      <4> SUFFICES ASSUME calls[c].object = NoObject, s = User(Self)
                   PROVE  access[s] = "none"
        BY <2>3
      <4>1. ~Has(s)
        <5>1. \A i \in Place : rows[i] # NoObject
          BY EntryTyped, PanelAssumption DEF TypeInv
        <5>2. PlacedCall(c) /\ calls[c].op # "holder"
          BY <1>2, <1>4, <2>3 DEF Calm, CallsTrue
        <5> QED
          BY <1>7, <5>1, <5>2 DEF PlacedCall, Held
      <4>2. Settled(s)
        BY <1>2, <1>4, <1>7 DEF Settled, Succeeded, Calm, OneEach
      <4> QED
        BY <1>4, <4>1, <4>2 DEF Calm, RowsTrue, RowTrue
    <3>3. AnsweredCall(c)'
      BY <1>5, <1>7, <1>9, <2>3, <3>1, <3>2 DEF AnsweredCall, Undoable
    <3> QED
      BY <1>2, <1>3, <1>4, <1>5, <1>6, <1>7, <1>8, <1>10, <2>1, <2>3, <3>1, <3>3, ServeCalm
  <2>4. CASE /\ calls[c].op = "undo"
             /\ access' = [access EXCEPT ![s] = was[s]]
             /\ was' = [was EXCEPT ![s] = "no"] /\ UNCHANGED charged
             /\ a \in Effective(s, was[s])
    <3>1. /\ access'[s] = was[s] /\ was'[s] = "no"
          /\ \A t \in Subject \ {s} : access'[t] = access[t] /\ was'[t] = was[t]
      BY <1>9, <2>4
    <3>2. AnsweredCall(c)'
      BY <1>5, <1>7, <2>4, <3>1 DEF AnsweredCall, Fits
    <3> QED
      BY <1>2, <1>3, <1>4, <1>5, <1>6, <1>7, <1>8, <1>10, <2>1, <2>4, <3>1, <3>2, ServeCalm
  <2>5. CASE /\ calls[c].op = "remove"
             /\ access' = [access EXCEPT ![s] = "none"]
             /\ was' = [was EXCEPT ![s] = "no"] /\ UNCHANGED charged
             /\ a \in {"none", "leave"}
    <3>1. /\ access'[s] = "none" /\ was'[s] = "no"
          /\ \A t \in Subject \ {s} : access'[t] = access[t] /\ was'[t] = was[t]
      BY <1>9, <2>5
    <3>2. AnsweredCall(c)'
      BY <1>5, <1>7, <2>5, <3>1, Ranges, EffectiveTyped DEF AnsweredCall, Fits
    <3> QED
      BY <1>2, <1>3, <1>4, <1>5, <1>6, <1>7, <1>8, <1>10, <2>1, <2>5, <3>1, <3>2, ServeCalm
  <2>6. CASE calls[c].op = "holder" /\ charged' = s.id /\ UNCHANGED <<access, was>>
    <3>1. AnsweredCall(c)'
      BY <1>5, <1>7, <2>6 DEF AnsweredCall
    <3> QED
      BY <1>2, <1>3, <1>4, <1>5, <1>6, <1>7, <1>8, <1>10, <2>1, <2>6, <3>1, ServeCalm
  <2>7. Calm' /\ DialogPlaced'
    BY <1>7, <1>12, <2>3, <2>4, <2>5, <2>6 DEF Done
  <2> QED
    BY <2>7
<1> QED
  BY <1>1, <1>11, <1>12

LEMMA CancelTrue ==
    ASSUME TypeInv, TruthInv, Cancel
    PROVE  TruthInv'
<1> SUFFICES ASSUME (open /\ orderly)' PROVE Calm' /\ DialogPlaced'
  BY DEF TruthInv
<1>1. /\ UNCHANGED <<rows, selfLevel, holder, changing, open, calls, access, was, charged, orderly>>
      /\ dialog' = NoDialog
  BY DEF Cancel, server
<1>2. \A i \in Place : heap'[rows[i]] = heap[rows[i]]
  BY KeepTyped DEF Cancel, TypeInv, PageTyped, Place
<1>3. Place' = Place /\ \A i \in Place : Entry(i)' = Entry(i)
  BY <1>1, <1>2 DEF Place, Entry
<1>4. Calm
  BY <1>1 DEF TruthInv
<1>5. \A t : Has(t)' <=> Has(t)
  BY <1>3 DEF Has
<1>6. ASSUME NEW c \in Call
      PROVE  /\ Asked(c)' <=> Asked(c)
             /\ PlacedCall(c) => PlacedCall(c)' /\ (MeantCall(c) => MeantCall(c)')
             /\ (AnsweredCall(c) => AnsweredCall(c)') /\ (Succeeded(c)' <=> Succeeded(c))
  <2>1. Held(c) => Held(c)'
    BY <1>1, <1>3 DEF Held
  <2> QED
    BY <1>1, <1>5, <2>1 DEF Asked, PlacedCall, MeantCall, AnsweredCall, Succeeded, MixedUp, Undoable, Fits
<1>7. \A t : Settled(t)' <=> Settled(t)
  BY <1>1, <1>6 DEF Settled
<1>8. Distinct' /\ OneEach' /\ CallsTrue' /\ Busy'
  BY <1>1, <1>3, <1>4, <1>6 DEF Calm, Distinct, OneEach, CallsTrue, Busy
<1>9. RowsTrue'
  <2> SUFFICES ASSUME NEW t \in Subject PROVE RowTrue(t) => RowTrue(t)'
    BY <1>4 DEF RowsTrue, Calm
  <2> QED
    BY <1>1, <1>3, <1>5, <1>7 DEF RowTrue, Undoable, Fits
<1>10. SelfKnown' /\ HolderKnown'
  BY <1>1, <1>4, <1>5, <1>6, <1>7 DEF Calm, SelfKnown, HolderKnown, OwnAccess
<1>11. DialogPlaced'
  BY <1>1 DEF DialogPlaced
<1> QED
  BY <1>8, <1>9, <1>10, <1>11 DEF Calm

(* A page that is loaded when nothing is under way tells the truth.         *)
LEMMA LoadTrue ==
    ASSUME TypeInv, Load
    PROVE  TruthInv'
<1> SUFFICES ASSUME orderly' PROVE Calm' /\ DialogPlaced'
  BY DEF TruthInv
<1>1. /\ \A c \in Call : calls'[c] = Idle
      /\ selfLevel' \in OwnAccess \ {"none"} /\ holder' = charged /\ dialog' = NoDialog
      /\ UNCHANGED <<access, was, charged>>
  BY DEF Load, server
<1>2. \A c \in Call : ~Asked(c)' /\ ~Succeeded(c)' /\ calls'[c].op # "holder"
  BY <1>1, CallTyped DEF Asked, Succeeded
<1>3. PICK v \in Views : LoadedView(v)
  BY LoadedPage
<1>4. /\ \A i, j \in Place' : Entry(i)'.who = Entry(j)'.who => i = j
      /\ \A i \in Place' : /\ Entry(i)'.who \in Listing(v)
                           /\ Entry(i)'.access = v[Entry(i)'.who]
                           /\ Entry(i)'.undo <=> Undoable(Entry(i)'.who)
                           /\ ~Entry(i)'.loading
      /\ \A s \in Listing(v) : \E i \in Place' : Entry(i)'.who = s
  BY <1>3 DEF LoadedView, Place, Entry
<1>5. Distinct' /\ OneEach' /\ CallsTrue'
  BY <1>2, <1>4 DEF Distinct, OneEach, CallsTrue
<1>6. \A t : Has(t)' <=> t \in Listing(v)
  BY <1>4 DEF Has
<1>7. RowsTrue'
  <2> SUFFICES ASSUME NEW t \in Subject PROVE RowTrue(t)'
    BY DEF RowsTrue
  <2>1. v[t] \in Shown(t) /\ (v[t] # "none" <=> t \in Listing(v))
    BY <1>3 DEF Views, Listing
  <2>2. access[t] \in Effective(t, access[t])
    BY EffectiveTyped DEF TypeInv, ServerTyped
  <2>3. Fits(t, v[t])
    BY <2>1, <2>2 DEF Shown, Fits
  <2>4. v[t] = "none" => access[t] = "none"
    BY <2>3 DEF Fits, Effective
  <2> QED
    BY <1>1, <1>4, <1>6, <2>1, <2>3, <2>4 DEF RowTrue, Undoable, Fits
<1>8. Busy'
  BY <1>4 DEF Busy
<1>9. SelfKnown'
  <2>1. v[User(Self)] = access[User(Self)]
    BY <1>3, Ranges DEF Views, Shown, User
  <2> QED
    BY <1>1, <1>6, <2>1, Ranges DEF SelfKnown, OwnAccess, Listing
<1>10. HolderKnown'
  BY <1>1, <1>2 DEF HolderKnown
<1>11. DialogPlaced'
  BY <1>1 DEF DialogPlaced
<1> QED
  BY <1>5, <1>7, <1>8, <1>9, <1>10, <1>11 DEF Calm

(* A callback ends: what is about others is as it was.                      *)
LEMMA EndOthers ==
    ASSUME TypeInv, Calm, NEW c \in Call, NEW s, Asked(c), calls[c].who = s,
           calls'[c] = Idle, \A d \in Call \ {c} : calls'[d] = calls[d],
           UNCHANGED <<access, was, charged>>,
           IF calls[c].op = "holder" THEN holder' = charged
                                     ELSE holder' = holder /\ changing' = changing
    PROVE  /\ \A d \in Call : Asked(d)' <=> Asked(d) /\ d # c
           /\ \A d \in Call : Asked(d)' => calls[d].who # s /\ MeantCall(d)' /\ AnsweredCall(d)'
           /\ \A t : Settled(t)' => t = s \/ Settled(t)
           /\ \A t : NoneAbout(t) => NoneAbout(t)'
           /\ OneEach' /\ HolderKnown'
<1>1. \A d \in Call : Asked(d)' <=> Asked(d) /\ d # c
  BY CallTyped DEF Asked
<1>2. ASSUME NEW d \in Call, Asked(d)'
      PROVE  calls[d].who # s /\ MeantCall(d)' /\ AnsweredCall(d)'
  <2>1. d # c /\ Asked(d) /\ calls'[d] = calls[d]
    BY <1>1, <1>2
  <2>2. MeantCall(d) /\ AnsweredCall(d)
    BY <2>1 DEF Calm, CallsTrue
  <2>3. calls[d].who # s
    BY <2>1 DEF Calm, OneEach
  <2>4. MeantCall(d)'
    BY <2>1, <2>2 DEF MeantCall, MixedUp
  <2>5. AnsweredCall(d)'
    BY <1>1, <2>1, <2>2 DEF AnsweredCall, Succeeded, Undoable, Fits
  <2> QED
    BY <2>3, <2>4, <2>5
<1>3. \A d \in Call \ {c} : Succeeded(d)' <=> Succeeded(d)
  BY <1>1 DEF Succeeded
<1>4. \A t : Settled(t)' => t = s \/ Settled(t)
  BY <1>3 DEF Settled
<1>5. \A t : NoneAbout(t) => NoneAbout(t)'
  BY <1>1 DEF NoneAbout
<1>6. OneEach'
  BY <1>1 DEF Calm, OneEach
<1>7. HolderKnown'
  <2>1. \A d \in Call : calls'[d].op = "holder" => d # c /\ calls[d].op = "holder"
    BY CallTyped
  <2>2. \A d, e \in Call : calls'[d].op = "holder" /\ calls'[e].op = "holder" => d = e
    BY <2>1 DEF Calm, HolderKnown
  <2>3. CASE calls[c].op = "holder"
    <3>1. \A d \in Call : calls'[d].op # "holder"
      BY <2>1, <2>3 DEF Calm, HolderKnown
    <3> QED
      BY <2>3, <3>1 DEF HolderKnown
  <2>4. CASE calls[c].op # "holder"
    <3>1. \A d \in Call : calls[d].op = "holder" => d # c /\ calls'[d].op = "holder"
      BY <2>4
    <3>2. (\A d \in Call : calls'[d].op = "holder" => ~Succeeded(d)')
             => (\A d \in Call : calls[d].op = "holder" => ~Succeeded(d))
      BY <1>3, <3>1
    <3> QED
      BY <2>1, <2>2, <2>4, <3>2 DEF Calm, HolderKnown
  <2> QED
    BY <2>3, <2>4
<1> QED
  BY <1>1, <1>2, <1>4, <1>5, <1>6, <1>7

(* The row of the request, at k, shows what the server has; or the callback *)
(* leaves the list alone.                                                   *)
LEMMA EndCalm ==
    ASSUME TypeInv, Calm, DialogPlaced, NEW c \in Call, NEW s \in Subject, NEW k,
           Asked(c), calls[c].who = s,
           calls'[c] = Idle, \A d \in Call \ {c} : calls'[d] = calls[d],
           Len(rows') = Len(rows),
           \A i \in Place : heap'[rows'[i]].who = Entry(i).who,
           \A i \in Place : i # k => /\ rows'[i] = rows[i]
                                     /\ heap'[rows'[i]].access = Entry(i).access
                                     /\ heap'[rows'[i]].loading = Entry(i).loading
                                     /\ heap'[rows'[i]].undo => Entry(i).undo,
           \A i \in Place : i = k => /\ Entry(i).who = s
                                     /\ heap'[rows'[i]].access # "none"
                                     /\ Fits(s, heap'[rows'[i]].access)
                                     /\ ~heap'[rows'[i]].loading
                                     /\ heap'[rows'[i]].undo => Undoable(s),
           Settled(s) \/ k \in Place,
           calls[c].object = NoObject \/ (k \in Place /\ calls[c].object = rows[k]),
           UNCHANGED <<access, was, charged, dialog>>,
           selfLevel' = selfLevel \/ (s = User(Self) /\ k \in Place),
           s = User(Self) => selfLevel' \in OwnAccess,
           IF calls[c].op = "holder" THEN holder' = charged
                                     ELSE holder' = holder /\ changing' = changing
    PROVE  Calm' /\ DialogPlaced'
<1>1. Place' = Place /\ \A i \in Place : Entry(i)' = heap'[rows'[i]]
  BY DEF Place, Entry
<1>2. /\ \A d \in Call : Asked(d)' <=> Asked(d) /\ d # c
      /\ \A d \in Call : Asked(d)' => calls[d].who # s /\ MeantCall(d)' /\ AnsweredCall(d)'
      /\ \A t : Settled(t)' => t = s \/ Settled(t)
      /\ \A t : NoneAbout(t) => NoneAbout(t)'
      /\ OneEach' /\ HolderKnown'
  BY EndOthers
<1>3. Distinct'
  BY <1>1 DEF Calm, Distinct
<1>4. \A t : Has(t)' <=> Has(t)
  BY <1>1 DEF Has
<1>5. ASSUME NEW d \in Call, Asked(d)' PROVE PlacedCall(d)'
  <2>1. calls'[d] = calls[d] /\ Asked(d) /\ calls[d].who # s
    BY <1>2, <1>5
  <2>2. Held(d) => Held(d)'
    <3> SUFFICES ASSUME Held(d) PROVE Held(d)'
      OBVIOUS
    <3>1. PICK i \in Place : i = calls[d].index
      BY DEF Held
    <3>2. i # k /\ rows'[i] = rows[i] /\ Entry(i)'.who = Entry(i).who
      BY <1>1, <2>1, <3>1 DEF Held
    <3> QED
      BY <1>1, <2>1, <3>1, <3>2 DEF Held
  <2>3. PlacedCall(d)
    BY <2>1 DEF Calm, CallsTrue
  <2> QED
    BY <1>4, <2>1, <2>2, <2>3 DEF PlacedCall
<1>6. CallsTrue'
  BY <1>2, <1>5 DEF CallsTrue
<1>7. RowsTrue'
  <2> SUFFICES ASSUME NEW t \in Subject, Settled(t)' PROVE RowTrue(t)'
    BY DEF RowsTrue, RowTrue
  <2>1. RowTrue(t)
    BY DEF Calm, RowsTrue
  <2>2. CASE Settled(t)
    <3>1. ASSUME NEW i \in Place, Entry(i)'.who = t
          PROVE  /\ Entry(i)'.access # "none" /\ Fits(t, Entry(i)'.access)
                 /\ Entry(i)'.undo => Undoable(t)
      <4>1. Entry(i).who = t
        BY <1>1, <3>1
      <4>2. CASE i = k
        BY <1>1, <4>1, <4>2
      <4>3. CASE i # k
        BY <1>1, <2>1, <2>2, <4>1, <4>3 DEF RowTrue
      <4> QED
        BY <4>2, <4>3
    <3> QED
      BY <1>1, <1>4, <2>1, <2>2, <3>1 DEF RowTrue, Undoable, Fits
  <2>3. CASE ~Settled(t)
    <3>1. t = s /\ k \in Place
      BY <1>2, <2>3
    <3>2. ASSUME NEW i \in Place, Entry(i)'.who = t
          PROVE  /\ Entry(i)'.access # "none" /\ Fits(t, Entry(i)'.access)
                 /\ Entry(i)'.undo => Undoable(t)
      <4>1. Entry(i).who = t /\ Entry(k).who = t
        BY <1>1, <3>1, <3>2
      <4>2. i = k
        BY <3>1, <4>1 DEF Calm, Distinct
      <4> QED
        BY <1>1, <3>1, <4>2
    <3>3. Has(t)'
      BY <1>4, <3>1 DEF Has
    <3> QED
      BY <1>1, <3>1, <3>2, <3>3 DEF RowTrue, Undoable, Fits
  <2> QED
    BY <2>2, <2>3
<1>8. Busy'
  <2> SUFFICES ASSUME NEW i \in Place, Entry(i)'.loading
               PROVE  \E d \in Call : Asked(d)' /\ calls'[d].object = rows'[i]
    BY <1>1 DEF Busy
  <2>1. i # k /\ rows'[i] = rows[i] /\ Entry(i).loading
    BY <1>1
  <2>2. PICK d \in Call : Asked(d) /\ calls[d].object = rows[i]
    BY <2>1 DEF Calm, Busy
  <2>3. d # c
    <3> SUFFICES ASSUME d = c PROVE FALSE
      OBVIOUS
    <3>1. rows[i] # NoObject
      BY EntryTyped, PanelAssumption DEF TypeInv
    <3>2. k \in Place /\ rows[k] = rows[i]
      BY <2>2, <3>1
    <3>3. Entry(k).who = Entry(i).who
      BY <3>2 DEF Entry
    <3> QED
      BY <2>1, <3>2, <3>3 DEF Calm, Distinct
  <2> QED
    BY <1>2, <2>1, <2>2, <2>3
<1>9. SelfKnown'
  <2>1. ~Has(User(Self)) => selfLevel' = selfLevel
    BY DEF Has
  <2> QED
    BY <1>2, <1>4, <2>1 DEF Calm, SelfKnown, OwnAccess
<1>10. DialogPlaced'
  <2> SUFFICES ASSUME dialog # NoDialog
               PROVE  /\ dialog.index \in Place' /\ dialog.object = rows'[dialog.index]
                      /\ \A d \in Call : Asked(d)' =>
                            calls'[d].who # heap'[rows'[dialog.index]].who
                      /\ dialog.op = "change" => dialog.to \in Level
    BY DEF DialogPlaced, Entry, NoneAbout
  <2>1. PICK i \in Place : i = dialog.index
    BY DEF DialogPlaced
  <2>2. NoneAbout(Entry(i).who) /\ dialog.object = rows[i]
    BY <2>1 DEF DialogPlaced
  <2>3. i # k /\ rows'[i] = rows[i]
    BY <2>2 DEF NoneAbout
  <2>4. PICK t : t = Entry(i).who
    OBVIOUS
  <2>5. /\ \A d \in Call : Asked(d)' => calls'[d].who # t
        /\ heap'[rows'[i]].who = t
    BY <1>2, <2>2, <2>4 DEF NoneAbout
  <2> QED
    BY <1>1, <2>1, <2>2, <2>3, <2>5 DEF DialogPlaced
<1> QED
  BY <1>2, <1>3, <1>6, <1>7, <1>8, <1>9, <1>10 DEF Calm

(* The callback cuts out the row of the request: who had it has no access,  *)
(* and what is under way holds only rows above it.                          *)
LEMMA CutCalm ==
    ASSUME TypeInv, Calm, DialogPlaced, NEW c \in Call, NEW s \in Subject, NEW k \in Place,
           Asked(c), calls[c].who = s, calls[c].op # "holder",
           calls'[c] = Idle, \A d \in Call \ {c} : calls'[d] = calls[d],
           Entry(k).who = s, calls[c].object = rows[k],
           Fits(s, "none"), s # User(Self),
           rows' = Cut(rows, k),
           \A i \in Place \ {k} : heap'[rows[i]] = Entry(i),
           NoneBelow(c, k),
           UNCHANGED <<access, was, charged, dialog, selfLevel, holder, changing>>
    PROVE  Calm' /\ DialogPlaced'
<1>1. Len(rows) \in Nat /\ k \in 1..Len(rows) /\ rows \in Seq(Object)
  BY LenProperties DEF Place, TypeInv, PageTyped
<1>2. /\ Len(rows') = Len(rows) - 1
      /\ \A j \in 1..(Len(rows) - 1) : rows'[j] = IF j < k THEN rows[j] ELSE rows[j + 1]
  <2>1. PICK s1, i : s1 = rows /\ i = k
    OBVIOUS
  <2>2. s1 \in Seq(Object) /\ i \in 1..Len(s1) /\ i \in Nat
    BY <1>1, <2>1
  <2>3. /\ Len(Cut(s1, i)) = Len(s1) - 1
        /\ \A j \in 1..(Len(s1) - 1) : Cut(s1, i)[j] = IF j < i THEN s1[j] ELSE s1[j + 1]
    BY <2>2, CutTyped, Zenon
  <2>4. rows' = Cut(s1, i)
    BY <2>1
  <2> QED
    BY <2>1, <2>3, <2>4
<1>3. PICK old : old = [j \in 1..(Len(rows) - 1) |-> IF j < k THEN j ELSE j + 1]
  OBVIOUS
<1>4. Place' = 1..(Len(rows) - 1)
  BY <1>2 DEF Place
<1>5. ASSUME NEW j \in Place'
      PROVE  /\ old[j] \in Place \ {k} /\ rows'[j] = rows[old[j]]
             /\ heap'[rows'[j]] = Entry(old[j])
  <2>1. old[j] \in Place \ {k} /\ rows'[j] = rows[old[j]]
    BY <1>1, <1>2, <1>3, <1>4 DEF Place
  <2> QED
    BY <2>1
<1>6. \A i \in Place \ {k} : \E j \in Place' : old[j] = i
  <2> SUFFICES ASSUME NEW i \in Place \ {k} PROVE \E j \in Place' : old[j] = i
    OBVIOUS
  <2>1. CASE i < k
    <3>1. i \in Place' /\ old[i] = i
      BY <1>1, <1>3, <1>4, <2>1 DEF Place
    <3> QED
      BY <3>1
  <2>2. CASE ~(i < k)
    <3>1. i - 1 \in Place' /\ old[i - 1] = i
      BY <1>1, <1>3, <1>4, <2>2 DEF Place
    <3> QED
      BY <3>1
  <2> QED
    BY <2>1, <2>2
<1>7. \A i, j \in Place' : old[i] = old[j] => i = j
  BY <1>1, <1>3, <1>4
<1>8. \A j \in Place' : Entry(j)' = Entry(old[j])
  BY <1>5 DEF Entry
<1>9. \A i \in Place : Entry(i).who = s => i = k
  BY DEF Calm, Distinct
<1>10. \A t : Has(t)' <=> Has(t) /\ t # s
  BY <1>5, <1>6, <1>8, <1>9 DEF Has
<1>11. /\ \A d \in Call : Asked(d)' <=> Asked(d) /\ d # c
       /\ \A d \in Call : Asked(d)' => calls[d].who # s /\ MeantCall(d)' /\ AnsweredCall(d)'
       /\ \A t : Settled(t)' => t = s \/ Settled(t)
       /\ OneEach' /\ HolderKnown'
  BY EndOthers
<1>12. Distinct'
  BY <1>5, <1>7, <1>8 DEF Calm, Distinct
<1>13. \A i \in Place : i < k => i \in Place' /\ rows'[i] = rows[i] /\ Entry(i)' = Entry(i)
  <2> SUFFICES ASSUME NEW i \in Place, i < k
               PROVE  i \in Place' /\ rows'[i] = rows[i] /\ Entry(i)' = Entry(i)
    OBVIOUS
  <2>1. i \in Place' /\ old[i] = i
    BY <1>1, <1>3, <1>4 DEF Place
  <2> QED
    BY <1>5, <1>8, <2>1
<1>14. ASSUME NEW d \in Call, Asked(d)' PROVE PlacedCall(d)'
  <2>1. calls'[d] = calls[d] /\ Asked(d) /\ calls[d].who # s /\ d # c
    BY <1>11, <1>14
  <2>2. Held(d) => Held(d)'
    <3> SUFFICES ASSUME Held(d) PROVE Held(d)'
      OBVIOUS
    <3>1. PICK i \in Place : i = calls[d].index
      BY DEF Held
    <3>2. i < k
      BY <2>1, <3>1 DEF NoneBelow
    <3> QED
      BY <1>13, <2>1, <3>1, <3>2 DEF Held
  <2>3. PlacedCall(d)
    BY <2>1 DEF Calm, CallsTrue
  <2> QED
    BY <1>10, <2>1, <2>2, <2>3 DEF PlacedCall
<1>15. CallsTrue'
  BY <1>11, <1>14 DEF CallsTrue
<1>16. RowsTrue'
  <2> SUFFICES ASSUME NEW t \in Subject, Settled(t)' PROVE RowTrue(t)'
    BY DEF RowsTrue, RowTrue
  <2>1. CASE t = s
    <3>1. ~Has(t)' /\ \A j \in Place' : Entry(j)'.who # t
      BY <1>10, <2>1 DEF Has
    <3>2. access'[s] = "none"
      BY DEF Fits, Effective
    <3> QED
      BY <2>1, <3>1, <3>2 DEF RowTrue
  <2>2. CASE t # s
    <3>1. RowTrue(t) /\ Settled(t)
      BY <1>11, <2>2 DEF Calm, RowsTrue
    <3>2. \A j \in Place' : Entry(j)'.who = t =>
             /\ Entry(j)'.access # "none" /\ Fits(t, Entry(j)'.access)
             /\ Entry(j)'.undo => Undoable(t)
      BY <1>5, <1>8, <3>1 DEF RowTrue
    <3> QED
      BY <1>10, <2>2, <3>1, <3>2 DEF RowTrue, Undoable, Fits
  <2> QED
    BY <2>1, <2>2
<1>17. Busy'
  <2> SUFFICES ASSUME NEW j \in Place', Entry(j)'.loading
               PROVE  \E d \in Call : Asked(d)' /\ calls'[d].object = rows'[j]
    BY DEF Busy
  <2>1. PICK i \in Place \ {k} : i = old[j]
    BY <1>5
  <2>2. Entry(i).loading /\ rows'[j] = rows[i]
    BY <1>5, <1>8, <2>1
  <2>3. PICK d \in Call : Asked(d) /\ calls[d].object = rows[i]
    BY <2>2 DEF Calm, Busy
  <2>4. rows[i] # rows[k]
    BY <2>1 DEF Calm, Distinct, Entry
  <2> QED
    BY <1>11, <2>2, <2>3, <2>4
<1>18. SelfKnown'
  BY <1>10, <1>11 DEF Calm, SelfKnown, OwnAccess
<1>19. DialogPlaced'
  <2> SUFFICES ASSUME dialog # NoDialog
               PROVE  /\ dialog.index \in Place' /\ dialog.object = rows'[dialog.index]
                      /\ \A d \in Call : Asked(d)' =>
                            calls'[d].who # heap'[rows'[dialog.index]].who
                      /\ dialog.op = "change" => dialog.to \in Level
    BY DEF DialogPlaced, Entry, NoneAbout
  <2>1. PICK i \in Place : i = dialog.index
    BY DEF DialogPlaced
  <2>2. NoneAbout(Entry(i).who) /\ dialog.object = rows[i]
    BY <2>1 DEF DialogPlaced
  <2>3. i < k
    BY <2>1 DEF NoneBelow
  <2>4. i \in Place' /\ rows'[i] = rows[i] /\ Entry(i)' = Entry(i)
    BY <1>13, <2>3
  <2>5. \A d \in Call : Asked(d)' => calls'[d].who # Entry(i).who
    BY <1>11, <2>2 DEF NoneAbout
  <2> QED
    BY <2>1, <2>2, <2>4, <2>5 DEF DialogPlaced, Entry
<1> QED
  BY <1>11, <1>12, <1>15, <1>16, <1>17, <1>18, <1>19 DEF Calm

(* The callback of a grant that found no row adds one.                      *)
LEMMA AppendCalm ==
    ASSUME TypeInv, Calm, DialogPlaced, NEW c \in Call, NEW s \in Subject, NEW o \in Object,
           Asked(c), calls[c].who = s, calls[c].op # "holder",
           calls'[c] = Idle, \A d \in Call \ {c} : calls'[d] = calls[d],
           ~Has(s), calls[c].object = NoObject, s = User(Self) => selfLevel \in OwnAccess,
           rows' = Append(rows, o),
           \A i \in Place : heap'[rows[i]] = Entry(i),
           heap'[o].who = s, heap'[o].access # "none", Fits(s, heap'[o].access), Undoable(s),
           ~heap'[o].loading,
           UNCHANGED <<access, was, charged, dialog, selfLevel, holder, changing>>
    PROVE  Calm' /\ DialogPlaced'
<1>1. Len(rows) \in Nat /\ rows \in Seq(Object)
  BY LenProperties DEF TypeInv, PageTyped
<1>2. PICK n : n = Len(rows) + 1
  OBVIOUS
<1>3. /\ Len(rows') = n /\ rows'[n] = o
      /\ \A i \in 1..Len(rows) : rows'[i] = rows[i]
  BY <1>1, <1>2, AppendProperties
<1>4. /\ n \notin Place /\ \A i : i \in Place' <=> i \in Place \/ i = n
  BY <1>1, <1>2, <1>3 DEF Place
<1>5. /\ \A i \in Place : rows'[i] = rows[i] /\ Entry(i)' = Entry(i)
      /\ Entry(n)' = heap'[o]
  BY <1>3 DEF Place, Entry
<1>6. \A i \in Place : Entry(i).who # s
  BY DEF Has
<1>7. \A t : Has(t)' <=> Has(t) \/ t = s
  BY <1>4, <1>5 DEF Has
<1>8. /\ \A d \in Call : Asked(d)' <=> Asked(d) /\ d # c
      /\ \A d \in Call : Asked(d)' => calls[d].who # s /\ MeantCall(d)' /\ AnsweredCall(d)'
      /\ \A t : Settled(t)' => t = s \/ Settled(t)
      /\ OneEach' /\ HolderKnown'
  BY EndOthers
<1>9. Distinct'
  <2> SUFFICES ASSUME NEW i \in Place', NEW j \in Place', Entry(i)'.who = Entry(j)'.who
               PROVE  i = j
    BY DEF Distinct
  <2> QED
    BY <1>4, <1>5, <1>6 DEF Calm, Distinct
<1>10. ASSUME NEW d \in Call, Asked(d)' PROVE PlacedCall(d)'
  <2>1. calls'[d] = calls[d] /\ Asked(d) /\ calls[d].who # s
    BY <1>8, <1>10
  <2>2. Held(d) => Held(d)'
    BY <1>4, <1>5, <2>1 DEF Held
  <2>3. PlacedCall(d)
    BY <2>1 DEF Calm, CallsTrue
  <2> QED
    BY <1>7, <2>1, <2>2, <2>3 DEF PlacedCall
<1>11. CallsTrue'
  BY <1>8, <1>10 DEF CallsTrue
<1>12. RowsTrue'
  <2> SUFFICES ASSUME NEW t \in Subject, Settled(t)' PROVE RowTrue(t)'
    BY DEF RowsTrue, RowTrue
  <2>1. CASE t = s
    <3>1. \A i \in Place' : Entry(i)'.who = t =>
             /\ Entry(i)'.access # "none" /\ Fits(t, Entry(i)'.access)
             /\ Entry(i)'.undo => Undoable(t)
      BY <1>4, <1>5, <1>6, <2>1
    <3> QED
      BY <1>7, <2>1, <3>1 DEF RowTrue, Undoable, Fits
  <2>2. CASE t # s
    <3>1. RowTrue(t) /\ Settled(t)
      BY <1>8, <2>2 DEF Calm, RowsTrue
    <3>2. \A i \in Place' : Entry(i)'.who = t =>
             /\ Entry(i)'.access # "none" /\ Fits(t, Entry(i)'.access)
             /\ Entry(i)'.undo => Undoable(t)
      BY <1>4, <1>5, <2>2, <3>1 DEF RowTrue
    <3> QED
      BY <1>7, <2>2, <3>1, <3>2 DEF RowTrue, Undoable, Fits
  <2> QED
    BY <2>1, <2>2
<1>13. Busy'
  <2> SUFFICES ASSUME NEW i \in Place', Entry(i)'.loading
               PROVE  \E d \in Call : Asked(d)' /\ calls'[d].object = rows'[i]
    BY DEF Busy
  <2>1. i \in Place /\ Entry(i).loading /\ rows'[i] = rows[i]
    BY <1>4, <1>5
  <2>2. PICK d \in Call : Asked(d) /\ calls[d].object = rows[i]
    BY <2>1 DEF Calm, Busy
  <2>3. rows[i] # NoObject
    BY <2>1, EntryTyped, PanelAssumption DEF TypeInv
  <2> QED
    BY <1>8, <2>1, <2>2, <2>3
<1>14. SelfKnown'
  BY <1>7, <1>8 DEF Calm, SelfKnown, OwnAccess
<1>15. DialogPlaced'
  <2> SUFFICES ASSUME dialog # NoDialog
               PROVE  /\ dialog.index \in Place' /\ dialog.object = rows'[dialog.index]
                      /\ \A d \in Call : Asked(d)' =>
                            calls'[d].who # heap'[rows'[dialog.index]].who
                      /\ dialog.op = "change" => dialog.to \in Level
    BY DEF DialogPlaced, Entry, NoneAbout
  <2>1. PICK i \in Place : i = dialog.index
    BY DEF DialogPlaced
  <2>2. NoneAbout(Entry(i).who) /\ dialog.object = rows[i]
    BY <2>1 DEF DialogPlaced
  <2>3. \A d \in Call : Asked(d)' => calls'[d].who # Entry(i).who
    BY <1>8, <2>2 DEF NoneAbout
  <2> QED
    BY <1>4, <1>5, <2>1, <2>2, <2>3 DEF DialogPlaced, Entry
<1> QED
  BY <1>8, <1>9, <1>11, <1>12, <1>13, <1>14, <1>15 DEF Calm

(* The request that a callback ends, and what is known of it.               *)
LEMMA AnsweredFacts ==
    ASSUME TypeInv, Calm, NEW c \in Call, Answered(c)
    PROVE  /\ open /\ Asked(c) /\ calls[c].who \in Subject /\ calls[c].to \in Access
           /\ calls'[c] = Idle /\ \A d \in Call \ {c} : calls'[d] = calls[d]
           /\ UNCHANGED <<access, was, charged, dialog>>
           /\ PlacedCall(c) /\ MeantCall(c) /\ AnsweredCall(c)
           /\ calls[c].answer # "error" => Succeeded(c)
           /\ calls[c].answer = "error" \/ calls[c].op = "holder" => Settled(calls[c].who)
<1>1. /\ open /\ Asked(c) /\ calls[c].answer # "waiting"
      /\ calls' = [calls EXCEPT ![c] = Idle] /\ UNCHANGED <<access, was, charged, dialog>>
  BY DEF Answered, server
<1>2. calls'[c] = Idle /\ \A d \in Call \ {c} : calls'[d] = calls[d]
  BY <1>1, EndTyped
<1>3. calls[c].who \in Subject /\ calls[c].to \in Access
  BY <1>1, CallTyped DEF TypeInv, CallsTyped, Asked, Request
<1>4. calls[c].answer = "error" \/ calls[c].op = "holder" => Settled(calls[c].who)
  BY <1>1 DEF Settled, Succeeded, Calm, OneEach
<1> QED
  BY <1>1, <1>2, <1>3, <1>4 DEF Calm, CallsTrue, Succeeded

(* A callback that writes the object o at the row of its request.           *)
LEMMA RowCalm ==
    ASSUME TypeInv, Calm, DialogPlaced, NEW c \in Call, Answered(c), Held(c),
           NEW o \in Object, NEW e \in Row,
           \A i \in Place : i # calls[c].index => rows[i] # o,
           e.who = calls[c].who, e.access # "none", Fits(e.who, e.access), ~e.loading,
           e.undo => Undoable(e.who),
           Updated([heap EXCEPT ![o] = e], Put(rows, calls[c].index, o)),
           calls[c].op # "holder",
           selfLevel' = selfLevel \/ e.who = User(Self),
           e.who = User(Self) => selfLevel' \in OwnAccess,
           UNCHANGED <<holder, changing>>
    PROVE  Calm' /\ DialogPlaced'
<1>1. PICK s, k : s = calls[c].who /\ k = calls[c].index
  OBVIOUS
<1>2. k \in Place /\ calls[c].object = rows[k] /\ Entry(k).who = s
  BY <1>1 DEF Held
<1>3. k \in Nat /\ k \in 1..Len(rows) /\ rows \in Seq(Object) /\ s \in Subject
  BY <1>1, <1>2, EntryTyped, AnsweredFacts DEF TypeInv, PageTyped, Place
<1>4. PICK h, r : h = [heap EXCEPT ![o] = e] /\ r = Put(rows, k, o)
  OBVIOUS
<1>5. /\ h \in [Object -> Row] /\ h[o] = e /\ \A p \in Object \ {o} : h[p] = heap[p]
      /\ r \in Seq(Object)
  BY <1>3, <1>4, Rewritten
<1>6. Len(r) = Len(rows) /\ \A i \in Place : r[i] = IF i = k THEN o ELSE rows[i]
  BY <1>3, <1>4, PutAt DEF Place
<1>7. Updated(h, r)
  BY <1>1, <1>4
<1>8. rows' = r /\ \A i \in 1..Len(r) : heap'[r[i]] = h[r[i]]
  BY <1>5, <1>7, UpdatedTyped
<1>9. \A i \in Place : i = k => heap'[rows'[i]] = e
  BY <1>5, <1>6, <1>8 DEF Place
<1>10. \A i \in Place : i # k => rows'[i] = rows[i] /\ heap'[rows'[i]] = Entry(i)
  <2> SUFFICES ASSUME NEW i \in Place, i # k
               PROVE  rows'[i] = rows[i] /\ heap'[rows'[i]] = Entry(i)
    OBVIOUS
  <2>1. rows'[i] = rows[i] /\ heap'[rows'[i]] = h[rows[i]]
    BY <1>6, <1>8 DEF Place
  <2>2. rows[i] \in Object \ {o}
    BY <1>1, EntryTyped DEF TypeInv
  <2> QED
    BY <1>5, <2>1, <2>2 DEF Entry
<1>11. /\ Asked(c) /\ calls'[c] = Idle /\ \A d \in Call \ {c} : calls'[d] = calls[d]
       /\ UNCHANGED <<access, was, charged, dialog>>
  BY AnsweredFacts
<1>12. /\ Len(rows') = Len(rows)
       /\ \A i \in Place : heap'[rows'[i]].who = Entry(i).who
  BY <1>1, <1>2, <1>6, <1>8, <1>9, <1>10
<1>13. /\ \A i \in Place : i # k => /\ rows'[i] = rows[i]
                                    /\ heap'[rows'[i]].access = Entry(i).access
                                    /\ heap'[rows'[i]].loading = Entry(i).loading
                                    /\ heap'[rows'[i]].undo => Entry(i).undo
       /\ \A i \in Place : i = k => /\ Entry(i).who = s
                                    /\ heap'[rows'[i]].access # "none"
                                    /\ Fits(s, heap'[rows'[i]].access)
                                    /\ ~heap'[rows'[i]].loading
                                    /\ heap'[rows'[i]].undo => Undoable(s)
  BY <1>1, <1>2, <1>9, <1>10
<1> QED
  BY <1>1, <1>2, <1>3, <1>11, <1>12, <1>13, EndCalm

(* A callback that leaves the rows alone, where the server did.             *)
LEMMA StayCalm ==
    ASSUME TypeInv, Calm, DialogPlaced, NEW c \in Call, Answered(c), NEW h \in [Object -> Row],
           \A p \in Object : /\ h[p].who = heap[p].who /\ h[p].access = heap[p].access
                             /\ h[p].loading = heap[p].loading /\ (h[p].undo => heap[p].undo),
           Updated(h, rows), calls[c].object = NoObject, Settled(calls[c].who),
           selfLevel' = selfLevel,
           IF calls[c].op = "holder" THEN holder' = charged
                                     ELSE holder' = holder /\ changing' = changing
    PROVE  Calm' /\ DialogPlaced'
<1>1. PICK s, k : s = calls[c].who /\ k = 0
  OBVIOUS
<1>2. rows \in Seq(Object) /\ \A i \in Place : i # k
  BY <1>1, EntryTyped, LenProperties DEF TypeInv, PageTyped, Place
<1>3. rows' = rows /\ \A i \in Place : rows[i] \in Object /\ heap'[rows[i]] = h[rows[i]]
  BY <1>2, UpdatedTyped DEF Place
<1>4. \A i \in Place : /\ heap'[rows'[i]].who = Entry(i).who
                       /\ heap'[rows'[i]].access = Entry(i).access
                       /\ heap'[rows'[i]].loading = Entry(i).loading
                       /\ heap'[rows'[i]].undo => Entry(i).undo
  BY <1>3 DEF Entry
<1>5. /\ Asked(c) /\ calls'[c] = Idle /\ \A d \in Call \ {c} : calls'[d] = calls[d]
      /\ UNCHANGED <<access, was, charged, dialog>> /\ s \in Subject
  BY <1>1, AnsweredFacts
<1>6. s = User(Self) => selfLevel' \in OwnAccess
  BY <1>1 DEF Calm, SelfKnown
<1> QED
  BY <1>1, <1>2, <1>3, <1>4, <1>5, <1>6, EndCalm

(* A request that was refused changed nothing.                              *)
LEMMA RestoredCalm ==
    ASSUME TypeInv, Calm, DialogPlaced, NEW c \in Call, Answered(c), Restored(c),
           calls[c].op # "holder", UNCHANGED <<holder, changing>>
    PROVE  Calm' /\ DialogPlaced'
<1>1. PICK s, k, o : s = calls[c].who /\ k = calls[c].index /\ o = calls[c].object
  OBVIOUS
<1>2. PlacedCall(c) /\ Settled(s) /\ s \in Subject /\ selfLevel' = selfLevel
  BY <1>1, AnsweredFacts DEF Restored
<1>3. s = User(Self) => selfLevel' \in OwnAccess
  BY <1>2 DEF Calm, SelfKnown
<1>4. CASE o = NoObject
  <2>1. Updated(heap, rows) /\ heap \in [Object -> Row]
    BY <1>1, <1>4 DEF Restored, TypeInv, PageTyped
  <2>2. \A p \in Object : heap[p].undo => heap[p].undo
    OBVIOUS
  <2> QED
    BY <1>1, <1>2, <1>4, <2>1, <2>2, StayCalm
<1>5. CASE o # NoObject
  <2>1. Held(c)
    BY <1>1, <1>2, <1>5 DEF PlacedCall
  <2>2. k \in Place /\ o = rows[k] /\ Entry(k).who = s
    BY <1>1, <2>1 DEF Held
  <2>3. o \in Object /\ heap[o] \in Row /\ heap[o] = Entry(k)
    BY <2>2, EntryTyped DEF TypeInv, Entry
  <2>4. PICK r, e : r = heap[o] /\ e = [r EXCEPT !.loading = FALSE]
    OBVIOUS
  <2>5. e \in Row /\ e.who = r.who /\ e.access = r.access /\ e.undo = r.undo /\ ~e.loading
    <3>1. r \in Row /\ "none" \in Access
      BY <2>3, <2>4, Ranges
    <3>2. e \in Row /\ e = [who |-> r.who, access |-> r.access, undo |-> r.undo, loading |-> FALSE]
      BY <2>4, <3>1, RowWith
    <3> QED
      BY <3>2
  <2>6. e.who = s /\ e.access # "none" /\ Fits(s, e.access) /\ (e.undo => Undoable(s))
    <3>1. RowTrue(s)
      BY <1>2 DEF Calm, RowsTrue
    <3> QED
      BY <1>2, <2>2, <2>3, <2>4, <2>5, <3>1 DEF RowTrue
  <2>7. Updated([heap EXCEPT ![o] = e], Put(rows, k, o))
    BY <1>1, <1>5, <2>4, Zenon DEF Restored
  <2>8. \A i \in Place : i # k => rows[i] # o
    BY <2>2 DEF Calm, Distinct, Entry
  <2>9. /\ e.who = calls[c].who /\ e.access # "none" /\ Fits(e.who, e.access)
        /\ (e.undo => Undoable(e.who)) /\ selfLevel' = selfLevel
        /\ e.who = User(Self) => selfLevel' \in OwnAccess
    BY <1>1, <1>2, <1>3, <2>6
  <2>10. /\ Updated([heap EXCEPT ![o] = e], Put(rows, calls[c].index, o))
         /\ \A i \in Place : i # calls[c].index => rows[i] # o
    BY <1>1, <2>7, <2>8
  <2> QED
    BY <2>1, <2>3, <2>5, <2>9, <2>10, RowCalm
<1> QED
  BY <1>4, <1>5

(* The row that the server sends replaces the row of the request.           *)
LEMMA ReplacedCalm ==
    ASSUME TypeInv, Calm, DialogPlaced, NEW c \in Call, Answered(c), Replaced(c),
           calls[c].op = "change", UNCHANGED <<holder, changing>>
    PROVE  Calm' /\ DialogPlaced'
<1>1. PICK s, a, k : s = calls[c].who /\ a = calls[c].to /\ k = calls[c].index
  OBVIOUS
<1>2. /\ PlacedCall(c) /\ MeantCall(c) /\ AnsweredCall(c) /\ s \in Subject /\ a \in Access
      /\ calls[c].answer # "error" => Succeeded(c)
  BY <1>1, AnsweredFacts
<1>3. calls[c].answer \in Level /\ calls[c].answer # "error"
  BY PanelAssumption DEF Replaced
<1>4. a = access[s] /\ Undoable(s) /\ a # "none" /\ Fits(s, a) /\ Held(c)
  BY <1>1, <1>2, <1>3, Ranges, EffectiveTyped DEF AnsweredCall, PlacedCall, Fits
<1>5. PICK o \in Object :
         /\ Fresh(o)
         /\ Updated([heap EXCEPT ![o] = [who |-> s, access |-> a, undo |-> TRUE, loading |-> FALSE]],
                    Put(rows, k, o))
  BY <1>1 DEF Replaced
<1>6. PICK e : e = [who |-> s, access |-> a, undo |-> TRUE, loading |-> FALSE]
  OBVIOUS
<1>7. e \in Row /\ e.who = s /\ e.access = a /\ ~e.loading
  BY <1>2, <1>4, <1>6 DEF Row
<1>8. \A i \in Place : rows[i] # o
  BY <1>5 DEF Fresh, InUse
<1>9. selfLevel' = IF s = User(Self) THEN a ELSE selfLevel
  <2>1. calls[c].object # NoObject
    BY <1>4, EntryTyped, PanelAssumption DEF Held, TypeInv
  <2>2. s.id = Self <=> s = User(Self)
    BY <1>1, <1>2, <2>1, Ranges DEF MeantCall, MixedUp
  <2> QED
    BY <1>1, <2>2 DEF Replaced, OwnLevel
<1>10. Updated([heap EXCEPT ![o] = e], Put(rows, k, o))
  BY <1>5, <1>6
<1>11. /\ e.who = calls[c].who /\ e.access # "none" /\ Fits(e.who, e.access)
       /\ Undoable(e.who) /\ (selfLevel' = selfLevel \/ e.who = User(Self))
       /\ e.who = User(Self) => selfLevel' \in OwnAccess
  BY <1>1, <1>4, <1>7, <1>9 DEF OwnAccess, Fits
<1>12. Updated([heap EXCEPT ![o] = e], Put(rows, calls[c].index, o))
  BY <1>1, <1>10
<1> QED
  BY <1>4, <1>7, <1>8, <1>11, <1>12, RowCalm

(* Access that was granted is shown by the row that was found, or a new one. *)
LEMMA GrantedCalm ==
    ASSUME TypeInv, Calm, DialogPlaced, NEW c \in Call, Answered(c), Granted(c),
           calls[c].op = "grant", UNCHANGED <<holder, changing>>
    PROVE  Calm' /\ DialogPlaced'
<1>1. PICK s, a, k, o : /\ s = calls[c].who /\ a = calls[c].to
                        /\ k = calls[c].index /\ o = calls[c].object
  OBVIOUS
<1>2. /\ PlacedCall(c) /\ MeantCall(c) /\ AnsweredCall(c) /\ s \in Subject /\ a \in Access
      /\ calls[c].answer # "error" => Succeeded(c)
  BY <1>1, AnsweredFacts
<1>3. calls[c].answer \in Level /\ calls[c].answer # "error"
  BY PanelAssumption DEF Granted
<1>4. a = access[s] /\ Undoable(s) /\ a # "none" /\ Fits(s, a)
  BY <1>1, <1>2, <1>3, Ranges, EffectiveTyped DEF AnsweredCall, Fits
<1>5. CASE o = NoObject
  <2>1. ~Has(s)
    <3> SUFFICES ~Held(c)
      BY <1>1, <1>2 DEF PlacedCall
    <3>1. \A i \in Place : rows[i] # NoObject
      BY EntryTyped, PanelAssumption DEF TypeInv
    <3> QED
      BY <1>1, <1>5, <3>1 DEF Held
  <2>2. PICK n \in Object :
           /\ Fresh(n)
           /\ Updated([heap EXCEPT ![n] = [who |-> s, access |-> a, undo |-> TRUE, loading |-> FALSE]],
                      Append(rows, n))
    BY <1>1, <1>5 DEF Granted
  <2>3. PICK e, h : /\ e = [who |-> s, access |-> a, undo |-> TRUE, loading |-> FALSE]
                    /\ h = [heap EXCEPT ![n] = e]
    OBVIOUS
  <2>4. e \in Row /\ e.who = s /\ e.access = a /\ ~e.loading
    BY <1>2, <1>4, <2>3 DEF Row
  <2>5. h \in [Object -> Row] /\ h[n] = e /\ \A p \in Object \ {n} : h[p] = heap[p]
    BY <2>3, <2>4 DEF TypeInv, PageTyped
  <2>6. rows \in Seq(Object) /\ Len(rows) \in Nat
    BY LenProperties DEF TypeInv, PageTyped
  <2>7. PICK r : r = Append(rows, n)
    OBVIOUS
  <2>8. /\ r \in Seq(Object) /\ Len(r) = Len(rows) + 1 /\ r[Len(rows) + 1] = n
        /\ \A i \in 1..Len(rows) : r[i] = rows[i]
    BY <2>6, <2>7, AppendProperties
  <2>9. Updated(h, r)
    BY <2>2, <2>3, <2>7
  <2>10. rows' = r /\ \A i \in 1..Len(r) : heap'[r[i]] = h[r[i]]
    BY <2>5, <2>8, <2>9, UpdatedTyped
  <2>11. heap'[n] = e
    BY <2>5, <2>6, <2>8, <2>10
  <2>12. \A i \in Place : heap'[rows[i]] = Entry(i)
    <3> SUFFICES ASSUME NEW i \in Place PROVE heap'[rows[i]] = heap[rows[i]]
      BY DEF Entry
    <3>1. heap'[rows[i]] = h[rows[i]]
      BY <2>6, <2>8, <2>10 DEF Place
    <3>2. rows[i] \in Object \ {n}
      BY <2>2, EntryTyped DEF TypeInv, Fresh, InUse
    <3> QED
      BY <2>5, <3>1, <3>2
  <2>13. /\ Asked(c) /\ calls'[c] = Idle /\ \A d \in Call \ {c} : calls'[d] = calls[d]
         /\ UNCHANGED <<access, was, charged, dialog>>
    BY AnsweredFacts
  <2>14. selfLevel' = selfLevel /\ rows' = Append(rows, n)
    BY <1>1, <1>5, <2>7, <2>10 DEF Granted
  <2>15. s = User(Self) => selfLevel \in OwnAccess
    <3> SUFFICES ASSUME s = User(Self) PROVE selfLevel \in Effective(s, a)
      BY <1>4 DEF OwnAccess
    <3>1. a # "owner"
      BY <1>1, <1>2, <1>3, <1>5 DEF AnsweredCall
    <3>2. selfLevel # "none" /\ selfLevel \in Effective(s, "none")
      BY <2>1 DEF Calm, SelfKnown
    <3> QED
      BY <3>1, <3>2, Ranges DEF Effective
  <2>16. heap'[n].who = s /\ heap'[n].access # "none" /\ Fits(s, heap'[n].access) /\ ~heap'[n].loading
    BY <1>4, <2>4, <2>11
  <2> QED
    BY <1>1, <1>2, <1>4, <1>5, <2>1, <2>12, <2>13, <2>14, <2>15, <2>16, AppendCalm
<1>6. CASE o # NoObject
  <2>1. Held(c)
    BY <1>1, <1>2, <1>6 DEF PlacedCall
  <2>2. k \in Place /\ o = rows[k] /\ Entry(k).who = s
    BY <1>1, <2>1 DEF Held
  <2>3. o \in Object /\ heap[o] \in Row /\ heap[o] = Entry(k) /\ heap \in [Object -> Row]
    BY <2>2, EntryTyped DEF TypeInv, PageTyped, Entry
  <2>4. PICK r, d, e, h :
           /\ r = heap[o] /\ d = [r EXCEPT !.access = a] /\ e = [d EXCEPT !.loading = FALSE]
           /\ h = [heap EXCEPT ![o].access = a, ![o].loading = FALSE]
    OBVIOUS
  <2>5. r \in Row /\ d \in Row /\ d = [who |-> r.who, access |-> a, undo |-> r.undo, loading |-> r.loading]
    <3>1. r \in Row /\ FALSE \in BOOLEAN
      BY <2>3, <2>4
    <3> QED
      BY <1>2, <2>4, <3>1, RowWith
  <2>6. e \in Row /\ e = [who |-> r.who, access |-> a, undo |-> r.undo, loading |-> FALSE]
    <3>1. e \in Row /\ e = [who |-> d.who, access |-> d.access, undo |-> d.undo, loading |-> FALSE]
      BY <1>2, <2>4, <2>5, RowWith
    <3>2. d.who = r.who /\ d.access = a /\ d.undo = r.undo
      BY <2>5
    <3> QED
      BY <3>1, <3>2
  <2>7. e.who = s /\ e.access = a /\ ~e.loading
    BY <1>4, <2>2, <2>3, <2>4, <2>6
  <2>8. h = [heap EXCEPT ![o] = e]
    BY <2>3, <2>4
  <2>9. Updated(h, Put(rows, k, o)) /\ OwnLevel(heap[o].who, a)
    BY <1>1, <1>6, <2>4, Zenon DEF Granted
  <2>10. selfLevel' = IF s = User(Self) THEN a ELSE selfLevel
    <3>1. s.id = Self <=> s = User(Self)
      BY <1>1, <1>2, <1>6, Ranges DEF MeantCall, MixedUp
    <3> QED
      BY <1>4, <2>2, <2>3, <2>9, <3>1 DEF OwnLevel
  <2>11. \A i \in Place : i # k => rows[i] # o
    BY <2>2 DEF Calm, Distinct, Entry
  <2>12. Updated([heap EXCEPT ![o] = e], Put(rows, k, o))
    BY <2>8, <2>9
  <2>13. /\ e.who = calls[c].who /\ e.access # "none" /\ Fits(e.who, e.access)
         /\ Undoable(e.who) /\ (selfLevel' = selfLevel \/ e.who = User(Self))
         /\ e.who = User(Self) => selfLevel' \in OwnAccess
    BY <1>1, <1>4, <2>7, <2>10 DEF OwnAccess, Fits
  <2>14. /\ Updated([heap EXCEPT ![o] = e], Put(rows, calls[c].index, o))
         /\ \A i \in Place : i # calls[c].index => rows[i] # o
    BY <1>1, <2>11, <2>12
  <2> QED
    BY <2>1, <2>3, <2>6, <2>7, <2>13, <2>14, RowCalm
<1> QED
  BY <1>5, <1>6

(* A callback that cuts out the row of its request, rewritten or not.       *)
LEMMA GoneCalm ==
    ASSUME TypeInv, Calm, DialogPlaced, NEW c \in Call, Answered(c), Held(c), NEW e \in Row,
           Updated([heap EXCEPT ![calls[c].object] = e], Cut(rows, calls[c].index)),
           Fits(calls[c].who, "none"), calls[c].who # User(Self), calls[c].op # "holder",
           NoneBelow(c, calls[c].index), UNCHANGED <<selfLevel, holder, changing>>
    PROVE  Calm' /\ DialogPlaced'
<1>1. PICK s, k, o : s = calls[c].who /\ k = calls[c].index /\ o = calls[c].object
  OBVIOUS
<1>2. k \in Place /\ o = rows[k] /\ Entry(k).who = s
  BY <1>1 DEF Held
<1>3. /\ rows \in Seq(Object) /\ Len(rows) \in Nat /\ k \in 1..Len(rows) /\ k \in Nat
      /\ o \in Object /\ s \in Subject
  BY <1>1, <1>2, EntryTyped, AnsweredFacts, LenProperties DEF TypeInv, PageTyped, Place
<1>4. PICK h, r : h = [heap EXCEPT ![o] = e] /\ r = Cut(rows, k)
  OBVIOUS
<1>5. /\ h \in [Object -> Row] /\ (\A p \in Object \ {o} : h[p] = heap[p])
      /\ r \in Seq(Object)
  BY <1>3, <1>4, Rewritten
<1>6. /\ Len(r) = Len(rows) - 1
      /\ \A j \in 1..(Len(rows) - 1) : r[j] = IF j < k THEN rows[j] ELSE rows[j + 1]
  <2>1. PICK q : q = rows
    OBVIOUS
  <2>2. /\ Len(Cut(q, k)) = Len(q) - 1
        /\ \A j \in 1..(Len(q) - 1) : Cut(q, k)[j] = IF j < k THEN q[j] ELSE q[j + 1]
    BY <1>3, <2>1, CutTyped, Zenon
  <2> QED
    BY <1>4, <2>1, <2>2
<1>7. Updated(h, r)
  BY <1>1, <1>4
<1>8. rows' = r /\ \A j \in 1..Len(r) : heap'[r[j]] = h[r[j]]
  BY <1>5, <1>7, UpdatedTyped
<1>9. ASSUME NEW i \in Place \ {k} PROVE heap'[rows[i]] = Entry(i)
  <2>1. \E j \in 1..Len(r) : r[j] = rows[i]
    <3>1. CASE i < k
      <4>1. i \in 1..Len(r) /\ r[i] = rows[i]
        BY <1>3, <1>6, <3>1 DEF Place
      <4> QED
        BY <4>1
    <3>2. CASE ~(i < k)
      <4>1. i - 1 \in 1..Len(r) /\ r[i - 1] = rows[i]
        BY <1>3, <1>6, <3>2 DEF Place
      <4> QED
        BY <4>1
    <3> QED
      BY <3>1, <3>2
  <2>2. heap'[rows[i]] = h[rows[i]]
    BY <1>8, <2>1
  <2>3. rows[i] \in Object \ {o}
    <3>1. rows[i] \in Object
      BY EntryTyped DEF TypeInv
    <3>2. rows[i] # rows[k]
      BY <1>2 DEF Calm, Distinct, Entry
    <3> QED
      BY <1>2, <3>1, <3>2
  <2> QED
    BY <1>5, <2>2, <2>3 DEF Entry
<1>10. /\ Asked(c) /\ calls'[c] = Idle /\ \A d \in Call \ {c} : calls'[d] = calls[d]
       /\ UNCHANGED <<access, was, charged, dialog>>
  BY AnsweredFacts
<1>11. rows' = Cut(rows, k)
  BY <1>4, <1>8
<1> QED
  BY <1>1, <1>2, <1>3, <1>9, <1>10, <1>11, CutCalm

(* What was undone is shown, or its row goes.                               *)
LEMMA UndoneCalm ==
    ASSUME TypeInv, Calm, DialogPlaced, NEW c \in Call, Answered(c), Undone(c), orderly',
           calls[c].op = "undo", UNCHANGED <<holder, changing>>
    PROVE  Calm' /\ DialogPlaced'
<1>1. PICK s, a, k, o : /\ s = calls[c].who /\ a = calls[c].answer
                        /\ k = calls[c].index /\ o = calls[c].object
  OBVIOUS
<1>2. /\ PlacedCall(c) /\ MeantCall(c) /\ AnsweredCall(c) /\ s \in Subject
      /\ calls[c].answer # "error" => Succeeded(c)
  BY <1>1, AnsweredFacts
<1>3. a \in Access /\ a # "error" /\ selfLevel' = selfLevel
  BY <1>1, Ranges DEF Undone
<1>4. Fits(s, a) /\ s # User(Self) /\ Held(c)
  BY <1>1, <1>2, <1>3 DEF AnsweredCall, MeantCall, PlacedCall
<1>5. k \in Place /\ o = rows[k] /\ Entry(k).who = s
  BY <1>1, <1>4 DEF Held
<1>6. o \in Object /\ heap[o] \in Row /\ heap[o] = Entry(k) /\ heap \in [Object -> Row]
  BY <1>5, EntryTyped DEF TypeInv, PageTyped, Entry
<1>7. PICK r, d, e, f, h, g :
         /\ r = heap[o] /\ d = [r EXCEPT !.access = a] /\ e = [d EXCEPT !.undo = FALSE]
         /\ f = [e EXCEPT !.loading = FALSE]
         /\ h = [heap EXCEPT ![o].access = a, ![o].undo = FALSE]
         /\ g = [h EXCEPT ![o].loading = FALSE]
  OBVIOUS
<1>8. /\ r \in Row /\ d \in Row
      /\ d = [who |-> r.who, access |-> a, undo |-> r.undo, loading |-> r.loading]
  <2>1. r \in Row /\ FALSE \in BOOLEAN
    BY <1>6, <1>7
  <2> QED
    BY <1>3, <1>7, <2>1, RowWith
<1>9. e \in Row /\ e = [who |-> r.who, access |-> a, undo |-> FALSE, loading |-> r.loading]
  <2>1. e \in Row /\ e = [who |-> d.who, access |-> d.access, undo |-> FALSE, loading |-> d.loading]
    BY <1>3, <1>7, <1>8, RowWith
  <2>2. d.who = r.who /\ d.access = a /\ d.loading = r.loading
    BY <1>8
  <2> QED
    BY <2>1, <2>2
<1>10. f \in Row /\ f = [who |-> r.who, access |-> a, undo |-> FALSE, loading |-> FALSE]
  <2>1. f \in Row /\ f = [who |-> e.who, access |-> e.access, undo |-> e.undo, loading |-> FALSE]
    BY <1>3, <1>7, <1>9, RowWith
  <2>2. e.who = r.who /\ e.access = a /\ e.undo = FALSE
    BY <1>9
  <2> QED
    BY <2>1, <2>2
<1>11. h = [heap EXCEPT ![o] = e]
  BY <1>6, <1>7
<1>12. g = [heap EXCEPT ![o] = f]
  <2>1. h[o] = e
    BY <1>6, <1>11
  <2> QED
    BY <1>6, <1>7, <1>11, <2>1
<1>13. CASE a = "none"
  <2>1. Updated(h, Cut(rows, k)) /\ NoneBelow(c, k)
    BY <1>1, <1>7, <1>13, Zenon DEF Undone
  <2>2. Updated([heap EXCEPT ![o] = e], Cut(rows, k))
    BY <1>11, <2>1
  <2> QED
    BY <1>1, <1>3, <1>4, <1>9, <1>13, <2>1, <2>2, GoneCalm
<1>14. CASE a # "none"
  <2>1. Updated(g, Put(rows, k, o))
    BY <1>1, <1>7, <1>14, Zenon DEF Undone
  <2>2. Updated([heap EXCEPT ![o] = f], Put(rows, k, o))
    BY <1>12, <2>1
  <2>3. f.who = s /\ f.access = a /\ ~f.loading /\ ~f.undo
    BY <1>5, <1>6, <1>7, <1>10
  <2>4. \A i \in Place : i # k => rows[i] # o
    BY <1>5 DEF Calm, Distinct, Entry
  <2>6. /\ f.who = calls[c].who /\ f.access # "none" /\ Fits(f.who, f.access)
        /\ ~f.undo /\ selfLevel' = selfLevel /\ f.who # User(Self)
    BY <1>1, <1>3, <1>4, <1>14, <2>3
  <2>7. /\ Updated([heap EXCEPT ![o] = f], Put(rows, calls[c].index, o))
        /\ \A i \in Place : i # calls[c].index => rows[i] # o
    BY <1>1, <2>2, <2>4
  <2> QED
    BY <1>4, <1>6, <1>10, <2>3, <2>6, <2>7, RowCalm
<1> QED
  BY <1>13, <1>14

(* The row of who was removed goes; removing oneself closes or disturbs the *)
(* page.                                                                    *)
LEMMA RemovedCalm ==
    ASSUME TypeInv, Calm, DialogPlaced, NEW c \in Call, Answered(c), Removed(c), orderly', open',
           calls[c].op = "remove", UNCHANGED <<holder, changing>>
    PROVE  Calm' /\ DialogPlaced'
<1>1. PICK s, k, o : s = calls[c].who /\ k = calls[c].index /\ o = calls[c].object
  OBVIOUS
<1>2. /\ PlacedCall(c) /\ AnsweredCall(c)
      /\ calls[c].answer # "error" => Succeeded(c)
  BY AnsweredFacts
<1>3. /\ calls[c].answer # "error" /\ Updated(heap, Cut(rows, k)) /\ NoneBelow(c, k)
      /\ s # User(Self) /\ selfLevel' = selfLevel
  BY <1>1 DEF Removed
<1>4. Fits(s, "none") /\ Held(c)
  BY <1>1, <1>2, <1>3 DEF AnsweredCall, PlacedCall
<1>5. o \in Object /\ heap \in [Object -> Row]
  BY <1>1, <1>4, EntryTyped DEF Held, TypeInv, PageTyped
<1>6. PICK e : e = heap[o]
  OBVIOUS
<1>7. e \in Row /\ [heap EXCEPT ![o] = e] = heap
  BY <1>5, <1>6
<1>8. Updated([heap EXCEPT ![o] = e], Cut(rows, k))
  BY <1>3, <1>7
<1> QED
  BY <1>1, <1>3, <1>4, <1>7, <1>8, GoneCalm

(* The page learns who the new quota holder is, if the server agreed.       *)
LEMMA HolderCalm ==
    ASSUME TypeInv, Calm, DialogPlaced, NEW c \in Call, HolderAnswered(c)
    PROVE  Calm' /\ DialogPlaced'
<1>1. PICK found : found = {i \in Place : Entry(i).who = calls[c].who}
  OBVIOUS
<1>2. Answered(c) /\ calls[c].op = "holder" /\ selfLevel' = selfLevel
  BY DEF HolderAnswered
<1>3. /\ PlacedCall(c) /\ AnsweredCall(c) /\ Settled(calls[c].who)
      /\ calls[c].answer # "error" => Succeeded(c)
  BY <1>2, AnsweredFacts
<1>4. calls[c].object = NoObject /\ found # {}
  BY <1>1, <1>2, <1>3 DEF PlacedCall, Has
<1>5. heap \in [Object -> Row]
  BY DEF TypeInv, PageTyped
<1>6. CASE calls[c].answer = "error"
  <2>1. Updated(heap, rows) /\ holder' = holder
    BY <1>6, Zenon DEF HolderAnswered
  <2>2. holder = charged
    <3>1. \A d \in Call : calls[d].op = "holder" => d = c
      BY <1>2 DEF Calm, HolderKnown
    <3>2. ~Succeeded(c)
      BY <1>6 DEF Succeeded
    <3> QED
      BY <3>1, <3>2 DEF Calm, HolderKnown
  <2>3. \A p \in Object : heap[p].undo => heap[p].undo
    OBVIOUS
  <2> QED
    BY <1>2, <1>3, <1>4, <1>5, <2>1, <2>2, <2>3, StayCalm
<1>7. CASE calls[c].answer # "error"
  <2>1. PICK o : o = rows[First(found)]
    OBVIOUS
  <2>2. Updated([heap EXCEPT ![o].undo = FALSE], rows) /\ holder' = calls[c].who.id
    BY <1>1, <1>4, <1>7, <2>1, Zenon DEF HolderAnswered
  <2>3. holder' = charged
    BY <1>2, <1>3, <1>7, <2>2 DEF AnsweredCall
  <2>4. o \in Object
    <3>1. found \subseteq Nat
      BY <1>1, EntryTyped DEF TypeInv
    <3>2. First(found) \in Place
      BY <1>1, <1>4, <3>1, FirstIn
    <3> QED
      BY <2>1, <3>2, EntryTyped DEF TypeInv
  <2>5. PICK r, e, h : /\ r = heap[o] /\ e = [r EXCEPT !.undo = FALSE]
                       /\ h = [heap EXCEPT ![o] = e]
    OBVIOUS
  <2>6. r \in Row /\ e \in Row
        /\ e = [who |-> r.who, access |-> r.access, undo |-> FALSE, loading |-> r.loading]
    <3>1. r \in Row /\ "none" \in Access /\ FALSE \in BOOLEAN
      BY <1>5, <2>4, <2>5, Ranges
    <3> QED
      BY <2>5, <3>1, RowWith
  <2>7. h \in [Object -> Row] /\ h[o] = e /\ \A p \in Object \ {o} : h[p] = heap[p]
    BY <1>5, <2>4, <2>5, <2>6
  <2>8. e.who = r.who /\ e.access = r.access /\ e.loading = r.loading /\ ~e.undo
    BY <2>6
  <2>9. \A p \in Object : /\ h[p].who = heap[p].who /\ h[p].access = heap[p].access
                          /\ h[p].loading = heap[p].loading /\ (h[p].undo => heap[p].undo)
    BY <2>5, <2>7, <2>8
  <2>10. Updated(h, rows)
    BY <2>2, <2>5, Zenon
  <2> QED
    BY <1>2, <1>3, <1>4, <2>3, <2>7, <2>9, <2>10, StayCalm
<1> QED
  BY <1>6, <1>7

(* A callback runs: what it makes of the list is what the server has done.  *)
LEMMA AnswerTrue ==
    ASSUME TypeInv, TruthInv, NEW c \in Call, Answer(c)
    PROVE  TruthInv'
<1> SUFFICES ASSUME open', orderly' PROVE Calm' /\ DialogPlaced'
  BY DEF TruthInv
<1>1. Answered(c)
  BY DEF Answer, ChangeAnswered, GrantAnswered, UndoAnswered, RemoveAnswered, HolderAnswered
<1>2. open /\ orderly
  BY <1>1 DEF Answered, Answer, ChangeAnswered, GrantAnswered, UndoAnswered, RemoveAnswered,
              HolderAnswered, Undone, Removed
<1>3. Calm /\ DialogPlaced
  BY <1>2 DEF TruthInv
<1>4. calls[c].op \in {"change", "grant"} => ~Unreadable(c)
  <2> SUFFICES ASSUME calls[c].op \in {"change", "grant"}, calls[c].answer = "garbled"
               PROVE  FALSE
    BY DEF Unreadable
  <2>1. MeantCall(c) /\ AnsweredCall(c) /\ Succeeded(c)
    BY <1>1, <1>3, AnsweredFacts
  <2>2. calls[c].answer \in Level
    BY <2>1 DEF MeantCall, AnsweredCall
  <2> QED
    BY <2>2, PanelAssumption
<1>5. CASE ChangeAnswered(c)
  BY <1>1, <1>3, <1>4, <1>5, ReplacedCalm, RestoredCalm DEF ChangeAnswered
<1>6. CASE GrantAnswered(c)
  BY <1>1, <1>3, <1>4, <1>6, GrantedCalm, RestoredCalm DEF GrantAnswered
<1>7. CASE UndoAnswered(c)
  BY <1>1, <1>3, <1>7, UndoneCalm, RestoredCalm DEF UndoAnswered
<1>8. CASE RemoveAnswered(c)
  BY <1>1, <1>3, <1>8, RemovedCalm, RestoredCalm DEF RemoveAnswered
<1>9. CASE HolderAnswered(c)
  BY <1>3, <1>9, HolderCalm
<1> QED
  BY <1>5, <1>6, <1>7, <1>8, <1>9 DEF Answer

LEMMA TruthInvInductive == TypeInv /\ AllHeard /\ TruthInv /\ [Next]_vars => TruthInv'
<1> SUFFICES ASSUME TypeInv, AllHeard, TruthInv, [Next]_vars PROVE TruthInv'
  OBVIOUS
<1>1. ASSUME NEW c \in Call, Click(c) \/ Serve(c) \/ Answer(c)
      PROVE  TruthInv'
  BY <1>1, ClickTrue, ServeTrue, AnswerTrue
<1>2. ASSUME NEW c \in Call, Fail(c) \/ Garble(c)
      PROVE  TruthInv'
  BY <1>2 DEF Fail, Garble, TruthInv
<1>3. CASE UNCHANGED vars
  BY <1>3 DEF vars, page, server, TruthInv, Calm, Distinct, OneEach, CallsTrue, RowsTrue, Busy,
              SelfKnown, HolderKnown, DialogPlaced, NoneAbout, PlacedCall, MeantCall, AnsweredCall,
              RowTrue, Has, Held, Succeeded, Settled, Place, Entry, Asked, Undoable, Fits,
              OwnAccess
<1> QED
  BY <1>1, <1>2, <1>3, LoadTrue, CancelTrue DEF Next

(* Whatever users, groups, levels and requests there are: once all answers  *)
(* to a page that nothing disturbed have arrived, in whatever order, the    *)
(* panel lists all to whom the server has given access, once each; shows    *)
(* what users were given, or what access an undo left them with through     *)
(* groups; and shows of groups what communities and flags may make of what  *)
(* they were given.                                                         *)
THEOREM PanelShowsTheTruth == Spec => []PanelTrueAtRest
<1>1. Init => PanelInv
  BY DEF Init, PanelInv, CallsFormed, AllHeard, BlockedOnlyWhileAsked, WellFormed, Asked, Idle
<1>2. Init => TruthInv
  BY DEF Init, TruthInv
<1>3. PanelInv => AllHeard
  BY DEF PanelInv
<1> QED
  BY <1>1, <1>2, <1>3, TypeInvInit, TypeInvInductive, PanelInvInductive, TruthInvInductive,
     TruthAtRest, PTL DEF Spec
=============================================================================
