-------------------------- MODULE AuthorListProofs --------------------------
(***************************************************************************)
(* The types of the author list, the numbering of authors on the server,   *)
(* and what the page shows, for any finite set of authors.                 *)
(***************************************************************************)
EXTENDS AuthorList, FiniteSetTheorems, SequenceTheorems, TLAPS

(* The form is only shown with an author in it, and places count from one. *)
FormFilled == modal => selected.id \in Author
MovePlaced == calls["update"].op = "move" => calls["update"].order > 0 /\ calls["update"].from > 0
TypeInv == AuthorsTypeOK /\ FormFilled /\ MovePlaced

LEMMA IdleForm == Idle \notin Request /\ Idle.op # "move"
BY DEF Idle, Request

-----------------------------------------------------------------------------
(* What Array.splice makes of a list of entries is a list of entries. *)

LEMMA UptoType ==
    ASSUME NEW s \in Seq(Entry), NEW i \in Int
    PROVE  Upto(s, i) \in Seq(Entry)
<1> DEFINE n == IF i > Len(s) THEN Len(s) ELSE i
<1>1. n \in Int /\ n <= Len(s)
  BY LenProperties
<1>2. \A j \in 1..n : s[j] \in Entry
  BY <1>1, LenProperties, ElementOfSeq
<1> HIDE DEF n
<1>3. SubSeq(s, 1, n) \in Seq(Entry)
  BY <1>1, <1>2, SubSeqProperties
<1> QED
  BY <1>3 DEF Upto, n

LEMMA FromType ==
    ASSUME NEW s \in Seq(Entry), NEW i \in Nat, i > 0
    PROVE  SubSeq(s, i, Len(s)) \in Seq(Entry)
<1>1. \A j \in i..Len(s) : s[j] \in Entry
  BY LenProperties, ElementOfSeq
<1> QED
  BY <1>1, LenProperties, SubSeqProperties

LEMMA SpliceTypes ==
    ASSUME NEW s \in Seq(Entry), NEW i \in Nat, NEW e \in Entry
    PROVE  /\ Cut(s, i) \in Seq(Entry)
           /\ Put(s, i, e) \in Seq(Entry)
           /\ i > 0 => Insert(s, i, e) \in Seq(Entry)
<1>1. Upto(s, i - 1) \in Seq(Entry)
  BY UptoType
<1>2. SubSeq(s, i + 1, Len(s)) \in Seq(Entry)
  BY FromType
<1>3. <<e>> \in Seq(Entry)
  OBVIOUS
<1>4. Upto(s, i - 1) \o <<e>> \in Seq(Entry)
  BY <1>1, <1>3, ConcatProperties
<1>5. i > 0 => SubSeq(s, i, Len(s)) \in Seq(Entry)
  BY FromType
<1> QED
  BY <1>1, <1>2, <1>4, <1>5, ConcatProperties DEF Cut, Put, Insert

LEMMA RenumberedType ==
    ASSUME NEW s \in Seq(Entry)
    PROVE  Renumbered(s) \in Seq(Entry)
<1>1. Len(s) \in Nat
  BY LenProperties
<1>2. \A i \in 1..Len(s) : [s[i] EXCEPT !.order = i] \in Entry
  <2> SUFFICES ASSUME NEW i \in 1..Len(s) PROVE [s[i] EXCEPT !.order = i] \in Entry
    OBVIOUS
  <2>1. s[i] \in Entry /\ i \in Nat
    BY <1>1, ElementOfSeq
  <2> QED
    BY <2>1 DEF Entry
<1>3. Renumbered(s) \in [1..Len(s) -> Entry]
  BY <1>2 DEF Renumbered
<1> QED
  BY <1>1, <1>3

-----------------------------------------------------------------------------
LEMMA InitTyped == Init => TypeInv
<1> SUFFICES ASSUME Init PROVE TypeInv
  OBVIOUS
<1>1. order \in [Author -> Nat]
  <2>1. Cardinality(Author) \in Nat
    BY AuthorAssumption, FS_CardinalityType
  <2> QED
    BY <2>1 DEF Init
<1>2. Count \in Nat
  BY AuthorAssumption, FS_CardinalityType, FS_Subset DEF Count, Present
<1>3. list \in Seq(Entry)
  <2>1. \A i \in 1..Count : \E a \in Author : order[a] = i
    BY DEF Init, ProperlyOrdered, Present
  <2>2. \A i \in 1..Count : (CHOOSE a \in Author : order[a] = i) \in Author
    BY <2>1
  <2>3. \A i \in 1..Count : [id |-> CHOOSE a \in Author : order[a] = i, order |-> i] \in Entry
    BY <1>2, <2>2 DEF Entry
  <2>4. list \in [1..Count -> Entry]
    BY <2>3 DEF Init
  <2> QED
    BY <1>2, <2>4
<1>4. calls = [k \in Kind |-> Idle]
  BY DEF Init
<1>5. MovePlaced
  BY <1>4, IdleForm DEF MovePlaced, Kind
<1> QED
  BY <1>1, <1>3, <1>4, <1>5 DEF Init, TypeInv, AuthorsTypeOK, FormFilled

(* A request that is posted is well formed when what it is about is. *)
LEMMA PostTyped ==
    ASSUME TypeInv, NEW k \in Kind, NEW op \in {"user", "person", "save", "move", "delete"},
           NEW a \in Author, NEW n \in Nat, NEW i \in Nat, Post(k, op, a, n, i)
    PROVE  /\ calls' \in [Kind -> Request \cup {Idle}]
           /\ (op = "move" => n > 0 /\ i > 0) => MovePlaced'
<1> DEFINE r == [op |-> op, id |-> a, order |-> n, from |-> i, answer |-> "waiting"]
<1>1. r \in Request
  BY DEF Request
<1>2. r.op = op /\ r.order = n /\ r.from = i
  OBVIOUS
<1>3. calls' = [calls EXCEPT ![k] = r]
  BY DEF Post
<1> HIDE DEF r
<1>4. calls' \in [Kind -> Request \cup {Idle}]
  BY <1>1, <1>3 DEF TypeInv, AuthorsTypeOK
<1>5. calls'["update"] = IF k = "update" THEN r ELSE calls["update"]
  BY <1>3 DEF TypeInv, AuthorsTypeOK, Kind
<1> QED
  BY <1>2, <1>4, <1>5 DEF MovePlaced, TypeInv

(* A request that is answered is forgotten. *)
LEMMA AnsweredTyped ==
    ASSUME TypeInv, NEW k \in Kind, Answered(k)
    PROVE  /\ calls' \in [Kind -> Request \cup {Idle}]
           /\ MovePlaced'
           /\ calls[k] \in Request
           /\ order' = order /\ inner' = inner /\ orderly' = orderly
<1>1. calls' = [calls EXCEPT ![k] = Idle]
  BY DEF Answered
<1>2. calls'["update"] = IF k = "update" THEN Idle ELSE calls["update"]
  BY <1>1 DEF TypeInv, AuthorsTypeOK, Kind
<1> QED
  BY <1>1, <1>2, IdleForm DEF TypeInv, AuthorsTypeOK, Answered, Asked, MovePlaced

LEMMA CountType ==
    ASSUME order \in [Author -> Nat]
    PROVE  Count \in Nat /\ IsFiniteSet(Present) /\ Present \subseteq Author
BY AuthorAssumption, FS_CardinalityType, FS_Subset DEF Count, Present

LEMMA ServerTyped ==
    ASSUME order \in [Author -> Nat], inner \in BOOLEAN, NEW a \in Author, NEW n \in Nat,
           Create(a) \/ Update(a, n) \/ Remove(a)
    PROVE  order' \in [Author -> Nat] /\ inner' \in BOOLEAN
<1>1. CASE Create(a)
  BY <1>1 DEF Create
<1>2. CASE Update(a, n)
  <2>1. AtLeastOne(n) \in Nat
    BY DEF AtLeastOne
  <2>2. AtMostCount(AtLeastOne(n)) \in Nat
    BY <2>1, CountType DEF AtMostCount
  <2>3. \A m \in Nat : Shifted(a, m) \in [Author -> Nat]
    BY DEF Shifted
  <2> QED
    BY <1>2, <2>2, <2>3 DEF Update, Place
<1>3. CASE Remove(a)
  BY <1>3 DEF Remove
<1> QED
  BY <1>1, <1>2, <1>3

LEMMA ServeTyped == ASSUME TypeInv, NEW k \in Kind, Serve(k) PROVE TypeInv'
<1>1. calls[k] \in Request
  BY DEF Serve, Asked, TypeInv, AuthorsTypeOK
<1>2. PICK answer \in {"success", "error", "failed"} :
         /\ calls' = [calls EXCEPT ![k].answer = answer]
         /\ orderly' = (orderly /\ answer # "failed")
  BY DEF Serve
<1> DEFINE r == [calls[k] EXCEPT !.answer = answer]
<1>3. r \in Request /\ r.op = calls[k].op /\ r.order = calls[k].order /\ r.from = calls[k].from
  BY <1>1 DEF Request
<1>4. calls' = [calls EXCEPT ![k] = r]
  BY <1>2
<1> HIDE DEF r
<1>5. calls' \in [Kind -> Request \cup {Idle}]
  BY <1>3, <1>4 DEF TypeInv, AuthorsTypeOK
<1>6. calls'["update"] = IF k = "update" THEN r ELSE calls["update"]
  BY <1>4 DEF TypeInv, AuthorsTypeOK, Kind
<1>7. MovePlaced'
  BY <1>3, <1>6 DEF MovePlaced, TypeInv
<1>8. order' \in [Author -> Nat] /\ inner' \in BOOLEAN
  <2>1. calls[k].id \in Author /\ calls[k].order \in Nat
    BY <1>1 DEF Request
  <2>2. \/ UNCHANGED <<order, inner>>
        \/ Create(calls[k].id) \/ Update(calls[k].id, calls[k].order) \/ Remove(calls[k].id)
    BY DEF Serve, Kind
  <2> QED
    BY <2>1, <2>2, ServerTyped DEF TypeInv, AuthorsTypeOK
<1>9. orderly' \in BOOLEAN
  BY <1>2 DEF TypeInv, AuthorsTypeOK
<1>10. UNCHANGED page
  BY DEF Serve
<1> QED
  BY <1>5, <1>7, <1>8, <1>9, <1>10 DEF TypeInv, AuthorsTypeOK, FormFilled, page

LEMMA ButtonsTyped ==
    ASSUME TypeInv,
           \/ \E i \in 1..Len(list) : OpenForm(i) \/ \E j \in 1..Len(list) : UpdateAuthorOrder(i, j)
           \/ CloseForm \/ UpdateAuthor \/ DeleteAuthor
           \/ \E form \in {"user", "person"}, a \in Author : AddAuthor(form, a)
    PROVE  TypeInv'
<1> USE DEF TypeInv, AuthorsTypeOK, FormFilled
<1>1. Len(list) \in Nat
  BY LenProperties
<1>2. \A i \in 1..Len(list) : list[i] \in Entry /\ i \in Nat /\ i > 0
  BY <1>1, ElementOfSeq
<1>3. ASSUME NEW i \in 1..Len(list), OpenForm(i) PROVE TypeInv'
  BY <1>2, <1>3 DEF OpenForm, SelectAuthor, Entry, MovePlaced
<1>4. ASSUME NEW i \in 1..Len(list), NEW j \in 1..Len(list), UpdateAuthorOrder(i, j)
      PROVE  TypeInv'
  <2>1. list[i].id \in Author
    BY <1>2 DEF Entry
  <2>2. selected' \in [id : Author \cup {NoAuthor}, order : Nat, index : Nat]
    BY <1>2, <1>4, <2>1 DEF UpdateAuthorOrder
  <2>3. ~modal'
    BY <1>4 DEF UpdateAuthorOrder, ListClickable
  <2>4. CASE i = j
    BY <1>4, <2>2, <2>3, <2>4 DEF UpdateAuthorOrder, MovePlaced
  <2>5. CASE i # j
    <3>1. Post("update", "move", list[i].id, j, i)
      BY <1>4, <2>5 DEF UpdateAuthorOrder
    <3>2. calls' \in [Kind -> Request \cup {Idle}] /\ MovePlaced'
      BY <1>2, <2>1, <3>1, PostTyped DEF Kind
    <3> QED
      BY <1>4, <2>2, <2>3, <2>5, <3>2 DEF UpdateAuthorOrder
  <2> QED
    BY <2>4, <2>5
<1>5. CASE CloseForm
  BY <1>5 DEF CloseForm, MovePlaced
<1>6. CASE UpdateAuthor
  <2>1. selected.id \in Author /\ selected.order \in Nat
    BY <1>6 DEF UpdateAuthor
  <2>2. calls' \in [Kind -> Request \cup {Idle}] /\ MovePlaced'
    BY <1>6, <2>1, PostTyped DEF UpdateAuthor, Kind
  <2> QED
    BY <1>6, <2>2 DEF UpdateAuthor
<1>7. CASE DeleteAuthor
  <2>1. selected.id \in Author
    BY <1>7 DEF DeleteAuthor
  <2>2. calls' \in [Kind -> Request \cup {Idle}] /\ MovePlaced'
    BY <1>7, <2>1, PostTyped DEF DeleteAuthor, Kind
  <2> QED
    BY <1>7, <2>2 DEF DeleteAuthor
<1>8. ASSUME NEW form \in {"user", "person"}, NEW a \in Author, AddAuthor(form, a)
      PROVE  TypeInv'
  <2>1. calls' \in [Kind -> Request \cup {Idle}] /\ MovePlaced'
    BY <1>8, PostTyped DEF AddAuthor, Kind
  <2> QED
    BY <1>8, <2>1 DEF AddAuthor
<1> QED
  BY <1>3, <1>4, <1>5, <1>6, <1>7, <1>8

LEMMA AnswersTyped == ASSUME TypeInv, Answer PROVE TypeInv'
<1>1. CASE AuthorAdded
  <2>1. /\ calls' \in [Kind -> Request \cup {Idle}] /\ MovePlaced'
        /\ calls["add"] \in Request
        /\ order' = order /\ inner' = inner /\ orderly' = orderly
    BY <1>1, AnsweredTyped DEF AuthorAdded, Kind
  <2>2. list' \in Seq(Entry)
    <3> DEFINE e == [id |-> calls["add"].id, order |-> 0]
    <3>1. e \in Entry
      BY <2>1 DEF Entry, Request
    <3> HIDE DEF e
    <3>2. Append(list, e) \in Seq(Entry)
      BY <3>1 DEF TypeInv, AuthorsTypeOK
    <3>3. list' = list \/ list' = Renumbered(Append(list, e))
      BY <1>1 DEF AuthorAdded, e
    <3> QED
      BY <3>2, <3>3, RenumberedType DEF TypeInv, AuthorsTypeOK
  <2> QED
    BY <1>1, <2>1, <2>2 DEF AuthorAdded, TypeInv, AuthorsTypeOK, FormFilled
<1>2. CASE AuthorSaved
  <2>1. /\ calls' \in [Kind -> Request \cup {Idle}] /\ MovePlaced'
        /\ calls["update"] \in Request
        /\ order' = order /\ inner' = inner /\ orderly' = orderly
    BY <1>2, AnsweredTyped DEF AuthorSaved, Kind
  <2>2. list' \in Seq(Entry)
    <3> DEFINE e == [id |-> calls["update"].id, order |-> calls["update"].order]
    <3>1. e \in Entry /\ selected.index \in Nat
      BY <2>1 DEF Entry, Request, TypeInv, AuthorsTypeOK
    <3> HIDE DEF e
    <3>2. list' = list \/ list' = Put(list, selected.index, e)
      BY <1>2 DEF AuthorSaved, e
    <3>3. list \in Seq(Entry)
      BY DEF TypeInv, AuthorsTypeOK
    <3>4. Put(list, selected.index, e) \in Seq(Entry)
      BY <3>1, <3>3, SpliceTypes
    <3> QED
      BY <3>2, <3>3, <3>4
  <2>3. modal' \in BOOLEAN /\ FormFilled'
    <3>1. modal' = FALSE \/ modal' = modal
      BY <1>2 DEF AuthorSaved
    <3>2. selected' = selected
      BY <1>2 DEF AuthorSaved
    <3>3. CASE modal' = FALSE
      BY <3>3 DEF FormFilled
    <3>4. CASE modal' = modal
      BY <3>2, <3>4 DEF FormFilled, TypeInv, AuthorsTypeOK
    <3> QED
      BY <3>1, <3>3, <3>4
  <2>4. updating' = FALSE /\ UNCHANGED <<selected, deleting, adding, broken>>
    BY <1>2 DEF AuthorSaved
  <2> QED
    BY <2>1, <2>2, <2>3, <2>4 DEF TypeInv, AuthorsTypeOK
<1>3. CASE AuthorMoved
  <2> DEFINE call == calls["update"]
  <2>1. /\ calls' \in [Kind -> Request \cup {Idle}] /\ MovePlaced'
        /\ call \in Request
        /\ order' = order /\ inner' = inner /\ orderly' = orderly
    BY <1>3, AnsweredTyped DEF AuthorMoved, Kind
  <2>2. list' \in Seq(Entry)
    <3>1. CASE call.from <= Len(list)
      <4>1. call.order > 0 /\ call.from > 0 /\ call.order \in Nat /\ call.from \in Nat
        BY <1>3, <2>1 DEF AuthorMoved, MovePlaced, TypeInv, Request
      <4>2. list[call.from] \in Entry
        BY <3>1, <4>1, ElementOfSeq, LenProperties DEF TypeInv, AuthorsTypeOK
      <4>3. Cut(list, call.from) \in Seq(Entry)
        BY <4>1, <4>2, SpliceTypes DEF TypeInv, AuthorsTypeOK
      <4>4. Insert(Cut(list, call.from), call.order, list[call.from]) \in Seq(Entry)
        BY <4>1, <4>2, <4>3, SpliceTypes
      <4>5. \/ list' = list
            \/ list' = Renumbered(Insert(Cut(list, call.from), call.order, list[call.from]))
        BY <1>3 DEF AuthorMoved
      <4> QED
        BY <4>4, <4>5, RenumberedType DEF TypeInv, AuthorsTypeOK
    <3>2. CASE ~(call.from <= Len(list))
      BY <1>3, <3>2 DEF AuthorMoved, TypeInv, AuthorsTypeOK
    <3> QED
      BY <3>1, <3>2
  <2> QED
    BY <1>3, <2>1, <2>2 DEF AuthorMoved, TypeInv, AuthorsTypeOK, FormFilled
<1>4. CASE AuthorDeleted
  <2>1. /\ calls' \in [Kind -> Request \cup {Idle}] /\ MovePlaced'
        /\ order' = order /\ inner' = inner /\ orderly' = orderly
    BY <1>4, AnsweredTyped DEF AuthorDeleted, Kind
  <2>2. list' \in Seq(Entry)
    <3>1. list' = list \/ list' = Renumbered(Cut(list, selected.index))
      BY <1>4 DEF AuthorDeleted
    <3>2. Cut(list, selected.index) \in Seq(Entry)
      <4>1. selected.index \in Nat
        BY DEF TypeInv, AuthorsTypeOK
      <4>2. Upto(list, selected.index - 1) \in Seq(Entry)
        BY <4>1, UptoType DEF TypeInv, AuthorsTypeOK
      <4>3. SubSeq(list, selected.index + 1, Len(list)) \in Seq(Entry)
        BY <4>1, FromType DEF TypeInv, AuthorsTypeOK
      <4> QED
        BY <4>2, <4>3, ConcatProperties DEF Cut
    <3> QED
      BY <3>1, <3>2, RenumberedType DEF TypeInv, AuthorsTypeOK
  <2>3. modal' \in BOOLEAN /\ FormFilled'
    <3>1. modal' = FALSE \/ modal' = modal
      BY <1>4 DEF AuthorDeleted
    <3>2. selected' = selected
      BY <1>4 DEF AuthorDeleted
    <3>3. CASE modal' = FALSE
      BY <3>3 DEF FormFilled
    <3>4. CASE modal' = modal
      BY <3>2, <3>4 DEF FormFilled, TypeInv, AuthorsTypeOK
    <3> QED
      BY <3>1, <3>3, <3>4
  <2>4. deleting' \in BOOLEAN /\ UNCHANGED <<selected, updating, adding, broken>>
    BY <1>4 DEF AuthorDeleted
  <2> QED
    BY <2>1, <2>2, <2>3, <2>4 DEF TypeInv, AuthorsTypeOK
<1> QED
  BY <1>1, <1>2, <1>3, <1>4 DEF Answer

LEMMA TypeInvInductive == TypeInv /\ [Next]_vars => TypeInv'
<1> SUFFICES ASSUME TypeInv, [Next]_vars PROVE TypeInv'
  OBVIOUS
<1>1. CASE Next
  BY <1>1, ButtonsTyped, ServeTyped, AnswersTyped DEF Next
<1>2. CASE UNCHANGED vars
  BY <1>2 DEF vars, page, TypeInv, AuthorsTypeOK, FormFilled, MovePlaced
<1> QED
  BY <1>1, <1>2

(* The page and the server keep their types, whatever is clicked and        *)
(* whatever the server answers.                                             *)
THEOREM AuthorTypes == Spec => []AuthorsTypeOK
<1>1. TypeInv => AuthorsTypeOK
  BY DEF TypeInv
<1> QED
  BY InitTyped, TypeInvInductive, <1>1, PTL DEF Spec

-----------------------------------------------------------------------------
(* The numbering.  The operations of the server on properly numbered         *)
(* authors number them properly again.                                       *)

LEMMA CreateOrders ==
    ASSUME order \in [Author -> Nat], ProperlyOrdered, NEW a \in Author, Create(a)
    PROVE  /\ ProperlyOrdered' /\ Count' = Count + 1
           /\ order' = [order EXCEPT ![a] = Count + 1]
<1>1. /\ Count \in Nat /\ IsFiniteSet(Present) /\ a \notin Present
      /\ {order[b] : b \in Present} = 1..Count
  BY CountType DEF Create, Present, ProperlyOrdered
<1>2. PICK last \in Author : Last(last) /\ order' = [order EXCEPT ![a] = order[last] + 1]
  BY DEF Create
<1>3. order[last] = Count
  <2>1. \A b \in Author : order[b] <= Count
    BY <1>1 DEF Present
  <2>2. CASE Count = 0
    BY <2>1, <2>2
  <2>3. CASE Count # 0
    <3>1. Count \in 1..Count
      BY <1>1, <2>3
    <3>2. \E b \in Author : order[b] = Count
      BY <1>1, <3>1 DEF Present
    <3> QED
      BY <1>1, <1>2, <2>1, <3>2 DEF Last
  <2> QED
    BY <2>2, <2>3
<1>4. order' = [b \in Author |-> IF b = a THEN Count + 1 ELSE order[b]]
  BY <1>2, <1>3
<1>5. Present' = Present \cup {a}
  BY <1>1, <1>4 DEF Present
<1>6. Count' = Count + 1
  BY <1>1, <1>5, FS_AddElement DEF Count
<1>7. \A b \in Present : order'[b] = order[b] /\ order[b] \in 1..Count
  BY <1>1, <1>4 DEF Present
<1>8. order'[a] = Count + 1
  BY <1>4
<1>9. \A b, c \in Present' : order'[b] = order'[c] => b = c
  <2> SUFFICES ASSUME NEW b \in Present', NEW c \in Present', order'[b] = order'[c]
               PROVE  b = c
    OBVIOUS
  <2>1. CASE b \in Present /\ c \in Present
    BY <1>7, <2>1 DEF ProperlyOrdered
  <2>2. CASE b = a \/ c = a
    BY <1>1, <1>5, <1>7, <1>8, <2>2
  <2> QED
    BY <1>5, <2>1, <2>2
<1>10. {order'[b] : b \in Present'} = 1..Count'
  <2>1. \A b \in Present' : order'[b] \in 1..Count'
    BY <1>1, <1>5, <1>6, <1>7, <1>8
  <2>2. ASSUME NEW n \in 1..Count' PROVE \E b \in Present' : order'[b] = n
    <3>1. CASE n = Count + 1
      BY <1>5, <1>8, <3>1
    <3>2. CASE n # Count + 1
      <4>1. n \in 1..Count
        BY <1>1, <1>6, <3>2
      <4>2. PICK b \in Present : order[b] = n
        BY <1>1, <4>1
      <4> QED
        BY <1>5, <1>7, <4>2
    <3> QED
      BY <3>1, <3>2
  <2> QED
    BY <2>1, <2>2
<1> QED
  BY <1>2, <1>3, <1>6, <1>9, <1>10 DEF ProperlyOrdered

LEMMA RemoveOrders ==
    ASSUME order \in [Author -> Nat], ProperlyOrdered, NEW a \in Author, Remove(a)
    PROVE  ProperlyOrdered' /\ Count' = Count - 1
<1>1. /\ Count \in Nat /\ IsFiniteSet(Present) /\ a \in Present
      /\ {order[b] : b \in Present} = 1..Count
      /\ \A b, c \in Present : order[b] = order[c] => b = c
  BY CountType DEF Remove, Present, ProperlyOrdered
<1>2. order' = [b \in Author |-> IF b = a THEN 0
                                ELSE IF order[b] > order[a] THEN order[b] - 1 ELSE order[b]]
  BY DEF Remove
<1>3. Present' = Present \ {a}
  <2>1. order[a] > 0
    BY <1>1 DEF Present
  <2>2. \A b \in Author : order'[b] > 0 <=> b # a /\ order[b] > 0
    BY <1>2, <2>1
  <2> QED
    BY <2>2 DEF Present
<1>4. Count' = Count - 1
  BY <1>1, <1>3, FS_RemoveElement DEF Count
<1>5. \A b \in Present' : /\ b \in Present /\ b # a /\ order[b] \in 1..Count /\ order[b] # order[a]
                          /\ order'[b] = IF order[b] > order[a] THEN order[b] - 1 ELSE order[b]
  BY <1>1, <1>2, <1>3 DEF Present
<1>6. order[a] \in 1..Count
  BY <1>1
<1>7. \A b, c \in Present' : order'[b] = order'[c] => b = c
  <2> SUFFICES ASSUME NEW b \in Present', NEW c \in Present', order'[b] = order'[c]
               PROVE  order[b] = order[c]
    BY <1>1, <1>5
  <2> QED
    BY <1>1, <1>5, <1>6
<1>8. \A b \in Present' : order'[b] \in 1..Count'
  BY <1>1, <1>4, <1>5, <1>6
<1>9. ASSUME NEW n \in 1..Count' PROVE \E b \in Present' : order'[b] = n
  <2>1. CASE n < order[a]
    <3>1. n \in 1..Count
      BY <1>1, <1>4
    <3>2. PICK b \in Present : order[b] = n
      BY <1>1, <3>1
    <3> QED
      BY <1>1, <1>3, <1>5, <1>6, <2>1, <3>2
  <2>2. CASE ~(n < order[a])
    <3>1. n + 1 \in 1..Count
      BY <1>1, <1>4
    <3>2. PICK b \in Present : order[b] = n + 1
      BY <1>1, <3>1
    <3>3. b \in Present' /\ order[b] > order[a]
      BY <1>1, <1>3, <1>4, <1>6, <2>2, <3>2
    <3> QED
      BY <1>1, <1>4, <1>5, <3>2, <3>3
  <2> QED
    BY <2>1, <2>2
<1>10. {order'[b] : b \in Present'} = 1..Count'
  BY <1>8, <1>9
<1> QED
  BY <1>4, <1>7, <1>10 DEF ProperlyOrdered

(* Moving an author up, or down to the end. *)
LEMMA ShiftOrders ==
    ASSUME order \in [Author -> Nat], ProperlyOrdered, NEW a \in Author, order[a] > 0,
           NEW m \in 1..Count, m < order[a] \/ m = Count, order' = Shifted(a, m)
    PROVE  ProperlyOrdered' /\ Count' = Count
<1>1. /\ Count \in Nat /\ IsFiniteSet(Present) /\ a \in Present
      /\ {order[b] : b \in Present} = 1..Count
      /\ \A b, c \in Present : order[b] = order[c] => b = c
  BY CountType DEF Present, ProperlyOrdered
<1>2. order[a] \in 1..Count /\ m \in Nat /\ m > 0
  BY <1>1
<1>3. \A b \in Author :
         order'[b] = IF b = a THEN m
                     ELSE IF order[a] > m
                          THEN IF order[b] < order[a] /\ order[b] >= m THEN order[b] + 1 ELSE order[b]
                          ELSE IF order[b] > order[a] THEN order[b] - 1 ELSE order[b]
  BY DEF Shifted
<1>4. \A b \in Author : order'[b] > 0 <=> order[b] > 0
  BY <1>2, <1>3
<1>5. Present' = Present /\ Count' = Count
  BY <1>4 DEF Present, Count
<1>6. \A b \in Present : b \in Author /\ order[b] \in 1..Count /\ (b # a => order[b] # order[a])
  BY <1>1 DEF Present
<1>7. \A b, c \in Present : order'[b] = order'[c] => b = c
  <2> SUFFICES ASSUME NEW b \in Present, NEW c \in Present, order'[b] = order'[c], b # c
               PROVE  FALSE
    OBVIOUS
  <2>1. order[b] # order[c]
    BY <1>1
  <2>2. CASE order[a] > m
    BY <1>1, <1>2, <1>3, <1>6, <2>1, <2>2
  <2>3. CASE ~(order[a] > m)
    BY <1>1, <1>2, <1>3, <1>6, <2>1, <2>3
  <2> QED
    BY <2>2, <2>3
<1>8. \A b \in Present : order'[b] \in 1..Count
  <2>1. CASE order[a] > m
    BY <1>1, <1>2, <1>3, <1>6, <2>1
  <2>2. CASE ~(order[a] > m)
    BY <1>1, <1>2, <1>3, <1>6, <2>2
  <2> QED
    BY <2>1, <2>2
<1>9. ASSUME NEW n \in 1..Count PROVE \E b \in Present : order'[b] = n
  <2>0. \A k \in 1..Count : \E b \in Present : order[b] = k
    BY <1>1
  <2>1. CASE n = m
    BY <1>1, <1>3, <1>6, <2>1
  <2>2. CASE n # m /\ order[a] > m /\ (n < m \/ n > order[a])
    <3>1. PICK b \in Present : order[b] = n
      BY <2>0
    <3> QED
      BY <1>1, <1>2, <1>3, <1>6, <2>2, <3>1
  <2>3. CASE n > m /\ order[a] > m /\ n <= order[a]
    <3>1. PICK b \in Present : order[b] = n - 1
      BY <1>1, <1>2, <2>0, <2>3
    <3> QED
      BY <1>1, <1>2, <1>3, <1>6, <2>3, <3>1
  <2>4. CASE ~(order[a] > m) /\ n < order[a]
    <3>1. PICK b \in Present : order[b] = n
      BY <2>0
    <3> QED
      BY <1>1, <1>2, <1>3, <1>6, <2>4, <3>1
  <2>5. CASE n # m /\ ~(order[a] > m) /\ n >= order[a]
    <3>1. m = Count /\ n + 1 \in 1..Count
      BY <1>1, <1>2, <2>5
    <3>2. PICK b \in Present : order[b] = n + 1
      BY <2>0, <3>1
    <3> QED
      BY <1>1, <1>2, <1>3, <1>6, <2>5, <3>2
  <2> QED
    BY <1>1, <1>2, <2>1, <2>2, <2>3, <2>4, <2>5
<1>10. {order'[b] : b \in Present} = 1..Count
  BY <1>8, <1>9
<1> QED
  BY <1>5, <1>7, <1>10 DEF ProperlyOrdered

LEMMA UpdateOrders ==
    ASSUME order \in [Author -> Nat], OrderedUnlessInner, NEW a \in Author, NEW n \in Nat,
           Update(a, n)
    PROVE  OrderedUnlessInner'
<1> DEFINE k == AtLeastOne(n)
<1>1. k \in Nat /\ k > 0
  BY DEF AtLeastOne
<1>2. Place(a, k)
  BY DEF Update
<1> HIDE DEF k
<1> SUFFICES ASSUME ~inner' PROVE ProperlyOrdered'
  BY DEF OrderedUnlessInner
<1>3. CASE order[a] = k
  BY <1>2, <1>3 DEF Place, OrderedUnlessInner, ProperlyOrdered, Present, Count
<1>4. CASE order[a] # k
  <2>1. ~inner /\ ~(order[a] < k /\ k < Count) /\ order[a] > 0
        /\ order' = Shifted(a, AtMostCount(k))
    BY <1>2, <1>4 DEF Place
  <2>2. ProperlyOrdered
    BY <2>1 DEF OrderedUnlessInner
  <2>3. Count \in Nat /\ a \in Present /\ order[a] \in 1..Count
    BY <2>1, <2>2, CountType DEF ProperlyOrdered, Present
  <2>4. AtMostCount(k) \in 1..Count /\ (AtMostCount(k) < order[a] \/ AtMostCount(k) = Count)
    BY <1>1, <1>4, <2>1, <2>3 DEF AtMostCount
  <2> QED
    BY <2>1, <2>2, <2>4, ShiftOrders
<1> QED
  BY <1>3, <1>4

(* Whatever the page asks for, and whenever requests fail, the authors stay *)
(* numbered from one, without gaps or duplicates, until an author is moved  *)
(* down to a place that is not the last: Party.update is right but for that.*)
THEOREM AuthorsStayOrdered == Spec => []OrderedUnlessInner
<1>1. Init => OrderedUnlessInner
  BY DEF Init, OrderedUnlessInner
<1>2. TypeInv /\ OrderedUnlessInner /\ [Next]_vars => OrderedUnlessInner'
  <2> SUFFICES ASSUME TypeInv, OrderedUnlessInner, [Next]_vars PROVE OrderedUnlessInner'
    OBVIOUS
  <2>1. CASE UNCHANGED <<order, inner>>
    BY <2>1 DEF OrderedUnlessInner, ProperlyOrdered, Present, Count
  <2>2. ASSUME NEW k \in Kind, Serve(k), ~UNCHANGED <<order, inner>> PROVE OrderedUnlessInner'
    <3> DEFINE a == calls[k].id
               n == calls[k].order
    <3>1. a \in Author /\ n \in Nat /\ order \in [Author -> Nat]
      BY <2>2 DEF Serve, Asked, TypeInv, AuthorsTypeOK, Request
    <3>2. Create(a) \/ Update(a, n) \/ Remove(a)
      BY <2>2 DEF Serve, Kind
    <3> HIDE DEF a, n
    <3>3. CASE Create(a)
      BY <3>1, <3>3, CreateOrders DEF Create, OrderedUnlessInner
    <3>4. CASE Update(a, n)
      BY <3>1, <3>4, UpdateOrders
    <3>5. CASE Remove(a)
      BY <3>1, <3>5, RemoveOrders DEF Remove, OrderedUnlessInner
    <3> QED
      BY <3>2, <3>3, <3>4, <3>5
  <2>3. \/ UNCHANGED <<order, inner>>
        \/ \E k \in Kind : Serve(k)
    BY DEF Next, vars, OpenForm, UpdateAuthorOrder, CloseForm, UpdateAuthor, DeleteAuthor,
           AddAuthor, Answer, AuthorAdded, AuthorSaved, AuthorMoved, AuthorDeleted, Answered
  <2> QED
    BY <2>1, <2>2, <2>3
<1>3. TypeInv /\ [Next]_vars => TypeInv'
  BY TypeInvInductive
<1> QED
  BY InitTyped, <1>1, <1>2, <1>3, PTL DEF Spec

-----------------------------------------------------------------------------
(* What the page shows. *)

(* The request of kind k has been carried out and its answer is on its way.  *)
Done(k) == Asked(k) /\ calls[k].answer = "success"

Saving == Asked("update") /\ calls["update"].op = "save"
Moving == Asked("update") /\ calls["update"].op = "move"

(* The form, and a request that it has sent, are about the author who was    *)
(* selected and who is still at the place remembered.                        *)
FormTrue ==
    /\ modal \/ deleting \/ Saving =>
         /\ selected.index \in 1..Len(list)
         /\ selected.id = list[selected.index].id /\ selected.order = selected.index
    /\ Saving => calls["update"].id = selected.id /\ calls["update"].order = selected.order
    /\ deleting => calls["delete"].id = selected.id

(* So is a request to move an author, while which no form is shown.          *)
MoveTrue ==
    Moving =>
        /\ ~modal
        /\ calls["update"].from \in 1..Len(list) /\ calls["update"].order \in 1..Len(list)
        /\ calls["update"].id = list[calls["update"].from].id

BusyTrue ==
    /\ ~broken /\ (updating <=> Asked("update")) /\ (deleting <=> Asked("delete"))
    /\ ~(updating /\ deleting)
    /\ Asked("update") => Saving \/ Moving

EntriesTrue ==
    /\ \A i \in 1..Len(list) : list[i].order = i
    /\ Asked("add") => \A i \in 1..Len(list) : list[i].id # calls["add"].id

NoneFailed == \A k \in Kind : Asked(k) => calls[k].answer # "failed"

PageTrue == BusyTrue /\ NoneFailed /\ EntriesTrue /\ FormTrue /\ MoveTrue

PageInv == orderly => PageTrue

(* Where the server has the author who is at place i of the page: elsewhere  *)
(* if a deletion or a move has been carried out and not yet been answered.   *)
Slot(i) ==
    IF Done("delete")
    THEN IF i < selected.index THEN i ELSE IF i = selected.index THEN 0 ELSE i - 1
    ELSE IF Done("update") /\ Moving
    THEN LET from == calls["update"].from
             to == calls["update"].order IN
         IF i = from THEN to
         ELSE IF to <= i /\ i < from THEN i + 1
         ELSE IF from < i /\ i <= to THEN i - 1
         ELSE i
    ELSE i

(* An author who was added, and whom the page does not list yet, is the last.*)
ListTrue ==
    /\ \A i \in 1..Len(list) : order[list[i].id] = Slot(i)
    /\ Done("add") => order[calls["add"].id] = Count
    /\ Count + (IF Done("delete") THEN 1 ELSE 0) = Len(list) + (IF Done("add") THEN 1 ELSE 0)

ListInv == orderly /\ ~inner => ListTrue

-----------------------------------------------------------------------------
(* What Array.splice makes of a list, entry by entry. *)

LEMMA UptoForm ==
    ASSUME NEW s \in Seq(Entry), NEW i \in 0..Len(s)
    PROVE  /\ Upto(s, i) \in Seq(Entry) /\ Len(Upto(s, i)) = i
           /\ \A j \in 1..i : Upto(s, i)[j] = s[j]
<1>1. Len(s) \in Nat /\ i \in Nat /\ i <= Len(s)
  BY LenProperties
<1>2. \A j \in 1..i : s[j] \in Entry
  BY <1>1, ElementOfSeq
<1>3. Upto(s, i) = SubSeq(s, 1, i)
  BY <1>1 DEF Upto
<1>4. /\ SubSeq(s, 1, i) \in Seq(Entry) /\ Len(SubSeq(s, 1, i)) = i
      /\ \A j \in 1..i : SubSeq(s, 1, i)[j] = s[j]
  BY <1>1, <1>2, SubSeqProperties
<1> QED
  BY <1>3, <1>4

LEMMA FromForm ==
    ASSUME NEW s \in Seq(Entry), NEW i \in 1..(Len(s) + 1)
    PROVE  /\ SubSeq(s, i, Len(s)) \in Seq(Entry) /\ Len(SubSeq(s, i, Len(s))) = Len(s) - i + 1
           /\ \A j \in 1..(Len(s) - i + 1) : SubSeq(s, i, Len(s))[j] = s[i + j - 1]
<1>1. Len(s) \in Nat /\ i \in Nat /\ i > 0 /\ i <= Len(s) + 1
  BY LenProperties
<1>2. \A j \in i..Len(s) : s[j] \in Entry
  BY <1>1, ElementOfSeq
<1> QED
  BY <1>1, <1>2, SubSeqProperties

LEMMA CutForm ==
    ASSUME NEW s \in Seq(Entry), NEW i \in 1..Len(s)
    PROVE  /\ Cut(s, i) \in Seq(Entry) /\ Len(Cut(s, i)) = Len(s) - 1
           /\ \A j \in 1..(Len(s) - 1) : Cut(s, i)[j] = IF j < i THEN s[j] ELSE s[j + 1]
<1>1. Len(s) \in Nat /\ i \in Nat /\ i - 1 \in 0..Len(s) /\ i + 1 \in 1..(Len(s) + 1)
  BY LenProperties
<1> DEFINE u == Upto(s, i - 1)
           v == SubSeq(s, i + 1, Len(s))
<1>2. u \in Seq(Entry) /\ Len(u) = i - 1 /\ \A j \in 1..(i - 1) : u[j] = s[j]
  BY <1>1, UptoForm
<1>3. /\ v \in Seq(Entry) /\ Len(v) = Len(s) - i
      /\ \A j \in 1..(Len(s) - i) : v[j] = s[i + j]
  BY <1>1, FromForm
<1>4. Cut(s, i) = u \o v
  BY DEF Cut
<1> HIDE DEF u, v
<1>5. /\ u \o v \in Seq(Entry) /\ Len(u \o v) = Len(u) + Len(v)
      /\ \A j \in 1..(Len(u) + Len(v)) : (u \o v)[j] = IF j <= Len(u) THEN u[j] ELSE v[j - Len(u)]
  BY <1>2, <1>3, ConcatProperties
<1>6. Len(u) + Len(v) = Len(s) - 1
  BY <1>1, <1>2, <1>3
<1>7. ASSUME NEW j \in 1..(Len(s) - 1)
      PROVE  (u \o v)[j] = IF j < i THEN s[j] ELSE s[j + 1]
  <2>1. CASE j < i
    BY <1>1, <1>2, <1>5, <1>6, <2>1
  <2>2. CASE ~(j < i)
    <3>1. j - (i - 1) \in 1..(Len(s) - i) /\ i + (j - (i - 1)) = j + 1 /\ ~(j <= i - 1)
      BY <1>1, <2>2
    <3>2. v[j - (i - 1)] = s[j + 1]
      BY <1>3, <3>1
    <3> QED
      BY <1>2, <1>5, <1>6, <2>2, <3>1, <3>2
  <2> QED
    BY <2>1, <2>2
<1> QED
  BY <1>4, <1>5, <1>6, <1>7

LEMMA InsertForm ==
    ASSUME NEW s \in Seq(Entry), NEW i \in 1..(Len(s) + 1), NEW e \in Entry
    PROVE  /\ Insert(s, i, e) \in Seq(Entry) /\ Len(Insert(s, i, e)) = Len(s) + 1
           /\ \A j \in 1..(Len(s) + 1) :
                Insert(s, i, e)[j] = IF j < i THEN s[j] ELSE IF j = i THEN e ELSE s[j - 1]
<1>1. Len(s) \in Nat /\ i \in Nat /\ i - 1 \in 0..Len(s)
  BY LenProperties
<1> DEFINE u == Upto(s, i - 1)
           v == SubSeq(s, i, Len(s))
<1>2. u \in Seq(Entry) /\ Len(u) = i - 1 /\ \A j \in 1..(i - 1) : u[j] = s[j]
  BY <1>1, UptoForm
<1>3. /\ v \in Seq(Entry) /\ Len(v) = Len(s) - i + 1
      /\ \A j \in 1..(Len(s) - i + 1) : v[j] = s[i + j - 1]
  BY <1>1, FromForm
<1>4. Insert(s, i, e) = Append(u, e) \o v
  BY <1>2, SMTT(30) DEF Insert
<1> HIDE DEF u, v
<1>5. /\ Append(u, e) \in Seq(Entry) /\ Len(Append(u, e)) = i /\ Append(u, e)[i] = e
      /\ \A j \in 1..(i - 1) : Append(u, e)[j] = u[j]
  BY <1>1, <1>2, AppendProperties
<1>6. /\ Append(u, e) \o v \in Seq(Entry) /\ Len(Append(u, e) \o v) = i + Len(v)
      /\ \A j \in 1..(i + Len(v)) :
           (Append(u, e) \o v)[j] = IF j <= i THEN Append(u, e)[j] ELSE v[j - i]
  BY <1>3, <1>5, ConcatProperties, ZenonT(40)
<1> QED
  BY <1>1, <1>2, <1>3, <1>4, <1>5, <1>6

LEMMA PutForm ==
    ASSUME NEW s \in Seq(Entry), NEW i \in 1..Len(s), NEW e \in Entry
    PROVE  /\ Put(s, i, e) \in Seq(Entry) /\ Len(Put(s, i, e)) = Len(s)
           /\ \A j \in 1..Len(s) : Put(s, i, e)[j] = IF j = i THEN e ELSE s[j]
<1>1. Len(s) \in Nat /\ i \in Nat /\ i - 1 \in 0..Len(s) /\ i + 1 \in 1..(Len(s) + 1)
  BY LenProperties
<1> DEFINE u == Upto(s, i - 1)
           v == SubSeq(s, i + 1, Len(s))
<1>2. u \in Seq(Entry) /\ Len(u) = i - 1 /\ \A j \in 1..(i - 1) : u[j] = s[j]
  BY <1>1, UptoForm
<1>3. /\ v \in Seq(Entry) /\ Len(v) = Len(s) - i
      /\ \A j \in 1..(Len(s) - i) : v[j] = s[i + j]
  BY <1>1, FromForm
<1>4. Put(s, i, e) = Append(u, e) \o v
  BY <1>2, SMTT(30) DEF Put
<1> HIDE DEF u, v
<1>5. /\ Append(u, e) \in Seq(Entry) /\ Len(Append(u, e)) = i /\ Append(u, e)[i] = e
      /\ \A j \in 1..(i - 1) : Append(u, e)[j] = u[j]
  BY <1>1, <1>2, AppendProperties
<1>6. /\ Append(u, e) \o v \in Seq(Entry) /\ Len(Append(u, e) \o v) = i + Len(v)
      /\ \A j \in 1..(i + Len(v)) :
           (Append(u, e) \o v)[j] = IF j <= i THEN Append(u, e)[j] ELSE v[j - i]
  BY <1>3, <1>5, ConcatProperties, ZenonT(40)
<1> QED
  BY <1>1, <1>2, <1>3, <1>4, <1>5, <1>6

LEMMA RenumberedForm ==
    ASSUME NEW s \in Seq(Entry)
    PROVE  /\ Len(Renumbered(s)) = Len(s)
           /\ \A i \in 1..Len(s) : Renumbered(s)[i].id = s[i].id /\ Renumbered(s)[i].order = i
<1>1. Len(s) \in Nat /\ \A i \in 1..Len(s) : s[i] \in Entry
  BY LenProperties, ElementOfSeq
<1>2. Len(Renumbered(s)) = Len(s)
  BY <1>1 DEF Renumbered
<1>3. ASSUME NEW i \in 1..Len(s)
      PROVE  Renumbered(s)[i].id = s[i].id /\ Renumbered(s)[i].order = i
  <2>1. Renumbered(s)[i] = [s[i] EXCEPT !.order = i]
    BY DEF Renumbered
  <2>2. s[i] \in Entry
    BY <1>1
  <2> QED
    BY <2>1, <2>2 DEF Entry
<1> QED
  BY <1>2, <1>3

-----------------------------------------------------------------------------
(* What the page knows of itself. *)

LEMMA Posted ==
    ASSUME TypeInv, NEW k \in Kind, NEW op \in {"user", "person", "save", "move", "delete"},
           NEW a \in Author, NEW n \in Nat, NEW i \in Nat, Post(k, op, a, n, i)
    PROVE  /\ calls'[k] # Idle /\ calls'[k].op = op /\ calls'[k].id = a
           /\ calls'[k].order = n /\ calls'[k].from = i /\ calls'[k].answer = "waiting"
           /\ \A q \in Kind \ {k} : calls'[q] = calls[q]
<1> DEFINE r == [op |-> op, id |-> a, order |-> n, from |-> i, answer |-> "waiting"]
<1>1. r \in Request
  BY DEF Request
<1>2. r.op = op /\ r.id = a /\ r.order = n /\ r.from = i /\ r.answer = "waiting"
  OBVIOUS
<1>3. calls' = [calls EXCEPT ![k] = r]
  BY DEF Post
<1> HIDE DEF r
<1> QED
  BY <1>1, <1>2, <1>3, IdleForm DEF TypeInv, AuthorsTypeOK

LEMMA Forgotten ==
    ASSUME TypeInv, NEW k \in Kind, Answered(k)
    PROVE  /\ calls[k] \in Request /\ Asked(k) /\ calls[k].answer \in {"success", "error", "failed"}
           /\ calls'[k] = Idle /\ \A q \in Kind \ {k} : calls'[q] = calls[q]
           /\ UNCHANGED <<order, inner, orderly>>
<1>1. calls[k] \in Request /\ calls[k].answer # "waiting"
  BY DEF Answered, Asked, TypeInv, AuthorsTypeOK
<1>2. calls[k].answer \in {"success", "error", "failed"}
  BY <1>1 DEF Request
<1> QED
  BY <1>1, <1>2 DEF Answered, TypeInv, AuthorsTypeOK

LEMMA Carried ==
    ASSUME TypeInv, NEW k \in Kind, Serve(k)
    PROVE  /\ calls[k] \in Request /\ calls[k] # Idle /\ calls'[k] # Idle
           /\ calls[k].answer = "waiting"
           /\ calls'[k].op = calls[k].op /\ calls'[k].id = calls[k].id
           /\ calls'[k].order = calls[k].order /\ calls'[k].from = calls[k].from
           /\ \A q \in Kind \ {k} : calls'[q] = calls[q]
           /\ orderly' => orderly /\ calls'[k].answer \in {"success", "error"}
<1>1. calls[k] \in Request
  BY DEF Serve, Asked, TypeInv, AuthorsTypeOK
<1>2. PICK answer \in {"success", "error", "failed"} :
         /\ calls' = [calls EXCEPT ![k].answer = answer]
         /\ orderly' = (orderly /\ answer # "failed")
  BY DEF Serve
<1> DEFINE r == [calls[k] EXCEPT !.answer = answer]
<1>3. /\ r \in Request /\ r.op = calls[k].op /\ r.order = calls[k].order
      /\ r.from = calls[k].from /\ r.id = calls[k].id /\ r.answer = answer
  BY <1>1 DEF Request
<1>4. calls' = [calls EXCEPT ![k] = r]
  BY <1>2
<1> HIDE DEF r
<1>5. calls[k] # Idle /\ calls[k].answer = "waiting"
  BY DEF Serve, Asked
<1> QED
  BY <1>1, <1>2, <1>3, <1>4, <1>5, IdleForm DEF TypeInv, AuthorsTypeOK

LEMMA PageServed ==
    ASSUME TypeInv, PageInv, NEW k \in Kind, Serve(k), orderly'
    PROVE  PageTrue'
<1>1. PageTrue /\ UNCHANGED page
  BY Carried DEF PageInv, Serve
<1>2. \A q \in Kind : /\ Asked(q)' <=> Asked(q)
                      /\ calls'[q].op = calls[q].op /\ calls'[q].id = calls[q].id
                      /\ calls'[q].order = calls[q].order /\ calls'[q].from = calls[q].from
  BY Carried DEF Asked
<1>3. Saving' = Saving /\ Moving' = Moving
  BY <1>2 DEF Saving, Moving, Kind
<1>4. BusyTrue' /\ EntriesTrue'
  BY <1>1, <1>2, <1>3 DEF PageTrue, BusyTrue, EntriesTrue, page, Kind
<1>5. FormTrue' /\ MoveTrue'
  BY <1>1, <1>2, <1>3 DEF PageTrue, FormTrue, MoveTrue, page, Kind
<1>6. NoneFailed'
  <2>1. \A q \in Kind : q = k \/ calls'[q] = calls[q]
    BY Carried
  <2>2. calls'[k].answer # "failed"
    BY Carried
  <2> QED
    BY <1>1, <1>2, <2>1, <2>2 DEF PageTrue, NoneFailed, Asked
<1> QED
  BY <1>1, <1>4, <1>5, <1>6 DEF PageTrue

LEMMA PageClicked ==
    ASSUME TypeInv, PageInv, orderly',
           \/ \E i \in 1..Len(list) : OpenForm(i) \/ \E j \in 1..Len(list) : UpdateAuthorOrder(i, j)
           \/ CloseForm \/ UpdateAuthor \/ DeleteAuthor
           \/ \E form \in {"user", "person"}, a \in Author : AddAuthor(form, a)
    PROVE  PageTrue'
<1>0. PageTrue /\ orderly
  BY DEF PageInv, OpenForm, UpdateAuthorOrder, CloseForm, UpdateAuthor, DeleteAuthor, AddAuthor
<1>1. list' = list /\ Len(list) \in Nat /\ \A i \in 1..Len(list) : list[i] \in Entry /\ i \in Nat
  <2>1. Len(list) \in Nat /\ \A i \in 1..Len(list) : list[i] \in Entry
    BY LenProperties, ElementOfSeq DEF TypeInv, AuthorsTypeOK
  <2>2. list' = list
    BY DEF OpenForm, UpdateAuthorOrder, CloseForm, UpdateAuthor, DeleteAuthor, AddAuthor
  <2> QED
    BY <2>1, <2>2
<1>2. NoneFailed'
  <2>1. \/ UNCHANGED calls
        \/ \E k \in Kind : \E op, a, n, i : Post(k, op, a, n, i)
    BY DEF OpenForm, UpdateAuthorOrder, CloseForm, UpdateAuthor, DeleteAuthor, AddAuthor, Kind
  <2>2. CASE UNCHANGED calls
    BY <1>0, <2>2 DEF PageTrue, NoneFailed, Asked
  <2>3. ASSUME NEW k \in Kind, NEW op, NEW a, NEW n, NEW i, Post(k, op, a, n, i)
        PROVE  NoneFailed'
    <3>1. /\ calls'[k].answer = "waiting"
          /\ \A q \in Kind \ {k} : calls'[q] = calls[q]
      BY <2>3 DEF Post, TypeInv, AuthorsTypeOK
    <3> QED
      BY <1>0, <3>1 DEF PageTrue, NoneFailed, Asked
  <2> QED
    BY <2>1, <2>2, <2>3
<1> USE <1>2 DEF PageTrue
<1>3. ASSUME NEW i \in 1..Len(list), OpenForm(i) PROVE PageTrue'
  <2>1. /\ ~updating /\ ~deleting /\ UNCHANGED <<updating, deleting, broken, calls>>
        /\ selected' = [id |-> list[i].id, order |-> list[i].order, index |-> i]
    BY <1>3 DEF OpenForm, SelectAuthor, ListClickable
  <2>2. BusyTrue' /\ EntriesTrue'
    BY <1>0, <1>1, <2>1 DEF BusyTrue, EntriesTrue, Asked, Saving, Moving
  <2>3. ~Saving' /\ ~Moving' /\ ~deleting'
    BY <1>0, <2>1 DEF BusyTrue, Asked, Saving, Moving
  <2>4. FormTrue' /\ MoveTrue'
    BY <1>0, <1>1, <2>1, <2>3 DEF EntriesTrue, FormTrue, MoveTrue
  <2> QED
    BY <2>2, <2>4
<1>4. ASSUME NEW i \in 1..Len(list), NEW j \in 1..Len(list), UpdateAuthorOrder(i, j)
      PROVE  PageTrue'
  <2>1. ~broken /\ ~updating /\ ~modal /\ ~deleting /\ UNCHANGED <<modal, deleting, broken>>
    BY <1>4 DEF UpdateAuthorOrder, ListClickable
  <2>2. CASE i = j
    <3>1. UNCHANGED <<calls, updating>>
      BY <1>4, <2>2 DEF UpdateAuthorOrder
    <3> QED
      BY <1>0, <1>1, <2>1, <3>1 DEF BusyTrue, EntriesTrue, FormTrue, MoveTrue, Asked, Saving, Moving
  <2>3. CASE i # j
    <3>1. Post("update", "move", list[i].id, j, i) /\ updating' = TRUE
      BY <1>4, <2>3 DEF UpdateAuthorOrder
    <3>2. list[i].id \in Author
      BY <1>1 DEF Entry
    <3>3. /\ calls'["update"] # Idle /\ calls'["update"].op = "move"
          /\ calls'["update"].id = list[i].id
          /\ calls'["update"].order = j /\ calls'["update"].from = i
          /\ calls'["add"] = calls["add"] /\ calls'["delete"] = calls["delete"]
      BY <1>1, <3>1, <3>2, Posted DEF Kind
    <3>4. Moving' /\ ~Saving' /\ Asked("update")'
      BY <3>3 DEF Asked, Saving, Moving
    <3>5. BusyTrue' /\ EntriesTrue'
      BY <1>0, <1>1, <2>1, <3>1, <3>3, <3>4 DEF BusyTrue, EntriesTrue, Asked
    <3>6. FormTrue' /\ MoveTrue'
      BY <1>1, <2>1, <3>3, <3>4 DEF FormTrue, MoveTrue
    <3> QED
      BY <3>5, <3>6
  <2> QED
    BY <2>2, <2>3
<1>5. CASE CloseForm
  <2>1. UNCHANGED <<updating, deleting, broken, calls, selected>> /\ ~modal'
    BY <1>5 DEF CloseForm
  <2> QED
    BY <1>0, <1>1, <2>1 DEF BusyTrue, EntriesTrue, FormTrue, MoveTrue, Asked, Saving, Moving
<1>6. CASE UpdateAuthor
  <2>1. /\ modal /\ ~updating /\ ~deleting /\ updating' = TRUE
        /\ UNCHANGED <<modal, deleting, broken, selected>>
        /\ Post("update", "save", selected.id, selected.order, 0)
    BY <1>6 DEF UpdateAuthor
  <2>2. selected.id \in Author /\ selected.order \in Nat
    BY <2>1 DEF TypeInv, AuthorsTypeOK, FormFilled
  <2>3. /\ calls'["update"] # Idle /\ calls'["update"].op = "save"
        /\ calls'["update"].id = selected.id /\ calls'["update"].order = selected.order
        /\ calls'["add"] = calls["add"] /\ calls'["delete"] = calls["delete"]
    BY <2>1, <2>2, Posted DEF Kind
  <2>4. Saving' /\ ~Moving' /\ Asked("update")'
    BY <2>3 DEF Asked, Saving, Moving
  <2>5. BusyTrue' /\ EntriesTrue'
    BY <1>0, <1>1, <2>1, <2>3, <2>4 DEF BusyTrue, EntriesTrue, Asked
  <2>6. FormTrue' /\ MoveTrue'
    BY <1>0, <1>1, <2>1, <2>3, <2>4 DEF FormTrue, MoveTrue
  <2> QED
    BY <2>5, <2>6
<1>7. CASE DeleteAuthor
  <2>1. /\ modal /\ ~updating /\ deleting' = TRUE
        /\ UNCHANGED <<modal, updating, broken, selected>>
        /\ Post("delete", "delete", selected.id, 0, 0)
    BY <1>7 DEF DeleteAuthor
  <2>2. selected.id \in Author
    BY <2>1 DEF TypeInv, FormFilled
  <2>3. /\ calls'["delete"] # Idle /\ calls'["delete"].id = selected.id
        /\ calls'["add"] = calls["add"] /\ calls'["update"] = calls["update"]
    BY <2>1, <2>2, Posted DEF Kind
  <2>4. ~Saving' /\ ~Moving' /\ ~Asked("update")' /\ Asked("delete")'
    BY <1>0, <2>1, <2>3 DEF BusyTrue, Asked, Saving, Moving
  <2>5. BusyTrue' /\ EntriesTrue'
    BY <1>0, <1>1, <2>1, <2>3, <2>4 DEF BusyTrue, EntriesTrue, Asked
  <2>6. FormTrue' /\ MoveTrue'
    BY <1>0, <1>1, <2>1, <2>3, <2>4 DEF FormTrue, MoveTrue
  <2> QED
    BY <2>5, <2>6
<1>8. ASSUME NEW form \in {"user", "person"}, NEW a \in Author, AddAuthor(form, a)
      PROVE  PageTrue'
  <2>1. /\ Post("add", form, a, 0, 0) /\ Unused(a)
        /\ UNCHANGED <<selected, modal, updating, deleting, broken>>
    BY <1>8 DEF AddAuthor
  <2>2. /\ calls'["add"].id = a
        /\ calls'["update"] = calls["update"] /\ calls'["delete"] = calls["delete"]
    <3>1. "add" \in Kind /\ 0 \in Nat
      BY DEF Kind
    <3> QED
      BY <2>1, <3>1, Posted DEF Kind
  <2>3. Saving' = Saving /\ Moving' = Moving
    BY <2>2 DEF Asked, Saving, Moving
  <2>4. BusyTrue' /\ EntriesTrue'
    BY <1>0, <1>1, <2>1, <2>2, <2>3 DEF BusyTrue, EntriesTrue, Asked, Unused
  <2>5. FormTrue' /\ MoveTrue'
    BY <1>0, <1>1, <2>1, <2>2, <2>3 DEF FormTrue, MoveTrue
  <2> QED
    BY <2>4, <2>5
<1> QED
  BY <1>3, <1>4, <1>5, <1>6, <1>7, <1>8

(* The list with an author more, with one less, and with one moved. *)
LEMMA Lengthened ==
    ASSUME TypeInv, NEW a \in Author, NEW l, l = Renumbered(Append(list, [id |-> a, order |-> 0]))
    PROVE  /\ Len(l) = Len(list) + 1 /\ l[Len(list) + 1].id = a
           /\ \A i \in 1..Len(list) : l[i].id = list[i].id
           /\ \A i \in 1..Len(l) : l[i].order = i
<1> DEFINE e == [id |-> a, order |-> 0]
           k == Append(list, e)
<1>1. list \in Seq(Entry) /\ Len(list) \in Nat
  BY LenProperties DEF TypeInv, AuthorsTypeOK
<1>2. e \in Entry /\ e.id = a
  BY DEF Entry
<1>3. l = Renumbered(k)
  OBVIOUS
<1> HIDE DEF e
<1>4. /\ k \in Seq(Entry) /\ Len(k) = Len(list) + 1 /\ k[Len(list) + 1] = e
      /\ \A i \in 1..Len(list) : k[i] = list[i]
  BY <1>1, <1>2, AppendProperties
<1> HIDE DEF k
<1>5. /\ Len(Renumbered(k)) = Len(k)
      /\ \A i \in 1..Len(k) : Renumbered(k)[i].id = k[i].id /\ Renumbered(k)[i].order = i
  BY <1>4, RenumberedForm
<1>6. Len(list) + 1 \in 1..Len(k) /\ \A i \in 1..Len(list) : i \in 1..Len(k)
  BY <1>1, <1>4
<1> QED
  BY <1>1, <1>2, <1>3, <1>4, <1>5, <1>6

LEMMA Shortened ==
    ASSUME TypeInv, NEW i \in 1..Len(list), NEW l, l = Renumbered(Cut(list, i))
    PROVE  /\ Len(l) = Len(list) - 1
           /\ \A j \in 1..Len(l) :
                l[j].order = j /\ l[j].id = list[IF j < i THEN j ELSE j + 1].id
<1> DEFINE k == Cut(list, i)
<1>1. list \in Seq(Entry) /\ Len(list) \in Nat
  BY LenProperties DEF TypeInv, AuthorsTypeOK
<1>2. /\ k \in Seq(Entry) /\ Len(k) = Len(list) - 1
      /\ \A j \in 1..(Len(list) - 1) : k[j] = IF j < i THEN list[j] ELSE list[j + 1]
  BY <1>1, CutForm
<1>3. l = Renumbered(k)
  OBVIOUS
<1> HIDE DEF k
<1>4. /\ Len(Renumbered(k)) = Len(k)
      /\ \A j \in 1..Len(k) : Renumbered(k)[j].id = k[j].id /\ Renumbered(k)[j].order = j
  BY <1>2, RenumberedForm
<1> QED
  BY <1>1, <1>2, <1>3, <1>4

(* Where the author at place j was before the one at place i moved to n. *)
Before(j, i, n) ==
    IF j = n THEN i
    ELSE IF j < n
         THEN IF j < i THEN j ELSE j + 1
         ELSE IF j <= i THEN j - 1 ELSE j

LEMMA Rearranged ==
    ASSUME TypeInv, NEW i \in 1..Len(list), NEW n \in 1..Len(list), NEW l,
           l = Renumbered(Insert(Cut(list, i), n, list[i]))
    PROVE  /\ Len(l) = Len(list)
           /\ \A j \in 1..Len(l) :
                /\ l[j].order = j /\ Before(j, i, n) \in 1..Len(list)
                /\ l[j].id = list[Before(j, i, n)].id
<1> DEFINE c == Cut(list, i)
           e == list[i]
           k == Insert(c, n, e)
<1>1. list \in Seq(Entry) /\ Len(list) \in Nat /\ e \in Entry
  BY LenProperties, ElementOfSeq DEF TypeInv, AuthorsTypeOK
<1>2. /\ c \in Seq(Entry) /\ Len(c) = Len(list) - 1
      /\ \A j \in 1..(Len(list) - 1) : c[j] = IF j < i THEN list[j] ELSE list[j + 1]
  BY <1>1, CutForm
<1>3. l = Renumbered(k) /\ e = list[i]
  OBVIOUS
<1> HIDE DEF c, e
<1>4. n \in 1..(Len(c) + 1) /\ Len(c) + 1 = Len(list)
  BY <1>1, <1>2
<1>5. /\ k \in Seq(Entry) /\ Len(k) = Len(c) + 1
      /\ \A j \in 1..(Len(c) + 1) : k[j] = IF j < n THEN c[j] ELSE IF j = n THEN e ELSE c[j - 1]
  BY <1>1, <1>2, <1>4, InsertForm
<1> HIDE DEF k
<1>6. /\ Len(Renumbered(k)) = Len(k)
      /\ \A j \in 1..Len(k) : Renumbered(k)[j].id = k[j].id /\ Renumbered(k)[j].order = j
  BY <1>5, RenumberedForm
<1>7. ASSUME NEW j \in 1..Len(list)
      PROVE  Before(j, i, n) \in 1..Len(list) /\ k[j] = list[Before(j, i, n)]
  <2>1. CASE j = n
    BY <1>3, <1>4, <1>5, <2>1 DEF Before
  <2>2. CASE j < n
    BY <1>1, <1>2, <1>4, <1>5, <2>2 DEF Before
  <2>3. CASE j > n
    BY <1>1, <1>2, <1>4, <1>5, <2>3 DEF Before
  <2> QED
    BY <1>1, <2>1, <2>2, <2>3
<1> QED
  BY <1>3, <1>4, <1>5, <1>6, <1>7

LEMMA PageAnswered == ASSUME TypeInv, PageInv, orderly', Answer PROVE PageTrue'
<1>0. PageTrue
  BY Forgotten DEF PageInv, Answer, AuthorAdded, AuthorSaved, AuthorMoved, AuthorDeleted, Kind
<1>1. list \in Seq(Entry) /\ Len(list) \in Nat /\ \A i \in 1..Len(list) : list[i] \in Entry
  BY LenProperties, ElementOfSeq DEF TypeInv, AuthorsTypeOK
<1> USE DEF PageTrue
<1>2. ASSUME NEW k \in Kind, Answered(k) PROVE NoneFailed' /\ calls[k].answer # "failed"
  BY <1>0, <1>2, Forgotten DEF NoneFailed, Asked
<1>3. CASE AuthorAdded
  <2>1. Answered("add") /\ "add" \in Kind /\ UNCHANGED <<selected, modal, updating, deleting, broken>>
    BY <1>3 DEF AuthorAdded, Kind
  <2>2. /\ ~Asked("add")' /\ calls["add"].id \in Author
        /\ calls'["update"] = calls["update"] /\ calls'["delete"] = calls["delete"]
    BY <2>1, Forgotten DEF Asked, Kind, Request
  <2>3. /\ Len(list) <= Len(list') /\ Len(list') \in Nat
        /\ \A i \in 1..Len(list) : list'[i].id = list[i].id
        /\ \A i \in 1..Len(list') : list'[i].order = i
    <3>1. CASE calls["add"].answer = "success"
      <4>1. list' = Renumbered(Append(list, [id |-> calls["add"].id, order |-> 0]))
        BY <1>3, <3>1 DEF AuthorAdded
      <4> QED
        BY <1>1, <2>2, <4>1, Lengthened
    <3>2. CASE calls["add"].answer # "success"
      <4>1. list' = list
        BY <1>3, <3>2 DEF AuthorAdded
      <4> QED
        BY <1>0, <1>1, <4>1 DEF EntriesTrue
    <3> QED
      BY <3>1, <3>2
  <2>4. Saving' = Saving /\ Moving' = Moving
    BY <2>2 DEF Asked, Saving, Moving
  <2>5. BusyTrue' /\ EntriesTrue'
    BY <1>0, <2>1, <2>2, <2>3, <2>4 DEF BusyTrue, EntriesTrue, Asked
  <2>6. FormTrue' /\ MoveTrue'
    BY <1>0, <1>1, <2>1, <2>2, <2>3, <2>4 DEF FormTrue, MoveTrue
  <2> QED
    BY <1>2, <2>1, <2>5, <2>6
<1>4. CASE AuthorSaved
  <2>1. /\ Answered("update") /\ "update" \in Kind /\ calls["update"].op = "save"
        /\ updating' = FALSE /\ UNCHANGED <<selected, deleting, broken>>
    BY <1>4 DEF AuthorSaved, Kind
  <2>2. /\ ~Asked("update")' /\ Asked("update") /\ Saving
        /\ calls'["add"] = calls["add"] /\ calls'["delete"] = calls["delete"]
    BY <2>1, Forgotten DEF Asked, Saving, Kind
  <2>3. ~Saving' /\ ~Moving' /\ ~deleting /\ ~deleting' /\ ~Asked("delete")'
    BY <1>0, <2>1, <2>2 DEF BusyTrue, Saving, Moving, Asked
  <2>4. /\ Len(list') = Len(list) /\ (modal' => modal)
        /\ \A i \in 1..Len(list) : list'[i].id = list[i].id /\ list'[i].order = list[i].order
    <3>1. CASE calls["update"].answer = "success"
      <4>1. [id |-> calls["update"].id, order |-> calls["update"].order] \in Entry
        BY <2>1, Forgotten DEF Entry, Request
      <4>2. PICK e \in Entry : e = [id |-> calls["update"].id, order |-> calls["update"].order]
        BY <4>1
      <4>3. selected.index \in 1..Len(list)
        BY <1>0, <2>2 DEF FormTrue
      <4>4. PICK i \in 1..Len(list) : i = selected.index
        BY <4>3
      <4>5. e.id = list[i].id /\ e.order = i
        BY <1>0, <2>2, <4>2, <4>4 DEF FormTrue
      <4>6. list' = Put(list, i, e) /\ modal' = FALSE
        BY <1>4, <3>1, <4>2, <4>4 DEF AuthorSaved
      <4>7. /\ Len(Put(list, i, e)) = Len(list)
            /\ \A j \in 1..Len(list) : Put(list, i, e)[j] = IF j = i THEN e ELSE list[j]
        BY <1>1, PutForm, ZenonT(40)
      <4> QED
        BY <1>0, <4>5, <4>6, <4>7 DEF EntriesTrue
    <3>2. CASE calls["update"].answer # "success"
      BY <1>4, <3>2 DEF AuthorSaved
    <3> QED
      BY <3>1, <3>2
  <2>5. BusyTrue' /\ EntriesTrue'
    BY <1>0, <2>1, <2>2, <2>3, <2>4 DEF BusyTrue, EntriesTrue, Asked
  <2>6. FormTrue' /\ MoveTrue'
    BY <1>0, <2>1, <2>3, <2>4 DEF FormTrue, MoveTrue, EntriesTrue
  <2> QED
    BY <1>2, <2>1, <2>5, <2>6
<1>5. CASE AuthorMoved
  <2>1. /\ Answered("update") /\ "update" \in Kind /\ calls["update"].op = "move"
        /\ UNCHANGED <<selected, modal, deleting>>
    BY <1>5 DEF AuthorMoved, Kind
  <2>2. /\ ~Asked("update")' /\ Asked("update") /\ Moving
        /\ calls'["add"] = calls["add"] /\ calls'["delete"] = calls["delete"]
    BY <2>1, Forgotten DEF Asked, Moving, Kind
  <2>3. ~Saving' /\ ~Moving' /\ ~deleting /\ ~deleting' /\ ~Asked("delete")' /\ ~modal'
    BY <1>0, <2>1, <2>2 DEF BusyTrue, MoveTrue, Saving, Moving, Asked
  <2>4. updating' = FALSE /\ ~broken'
    <3>1. calls["update"].from <= Len(list) /\ ~(calls["update"].from > Len(list))
      BY <1>0, <1>1, <2>2 DEF MoveTrue
    <3>2. ~broken
      BY <1>0 DEF BusyTrue
    <3> QED
      BY <1>5, <3>1, <3>2 DEF AuthorMoved
  <2>5. /\ Len(list') = Len(list)
        /\ \A i \in 1..Len(list) :
             list'[i].order = i /\ \E j \in 1..Len(list) : list'[i].id = list[j].id
    <3>1. CASE calls["update"].answer = "success"
      <4>1. calls["update"].from \in 1..Len(list) /\ calls["update"].order \in 1..Len(list)
        BY <1>0, <2>2 DEF MoveTrue
      <4>2. PICK i \in 1..Len(list), n \in 1..Len(list) :
               i = calls["update"].from /\ n = calls["update"].order
        BY <4>1
      <4>3. list' = Renumbered(Insert(Cut(list, i), n, list[i]))
        BY <1>1, <1>5, <3>1, <4>2 DEF AuthorMoved
      <4>4. PICK l : l = list'
        OBVIOUS
      <4>5. l = Renumbered(Insert(Cut(list, i), n, list[i]))
        BY <4>4, <4>3
      <4>6. /\ Len(l) = Len(list)
            /\ \A j \in 1..Len(l) :
                 /\ l[j].order = j /\ Before(j, i, n) \in 1..Len(list)
                 /\ l[j].id = list[Before(j, i, n)].id
        BY <4>5, Rearranged DEF Before
      <4> QED
        BY <4>4, <4>6
    <3>2. CASE calls["update"].answer # "success"
      <4>1. list' = list
        BY <1>5, <3>2 DEF AuthorMoved
      <4> QED
        BY <1>0, <4>1 DEF EntriesTrue
    <3> QED
      BY <3>1, <3>2
  <2>6. BusyTrue'
    BY <1>0, <2>2, <2>3, <2>4 DEF BusyTrue, Asked
  <2>7. EntriesTrue'
    BY <1>0, <2>2, <2>5 DEF EntriesTrue, Asked
  <2>8. FormTrue' /\ MoveTrue'
    BY <2>3 DEF FormTrue, MoveTrue
  <2> QED
    BY <1>2, <2>1, <2>6, <2>7, <2>8
<1>6. CASE AuthorDeleted
  <2>1. /\ Answered("delete") /\ "delete" \in Kind
        /\ UNCHANGED <<selected, updating, broken>>
    BY <1>6 DEF AuthorDeleted, Kind
  <2>2. /\ ~Asked("delete")' /\ Asked("delete") /\ deleting /\ ~deleting'
        /\ calls'["add"] = calls["add"] /\ calls'["update"] = calls["update"]
    BY <1>0, <1>2, <1>6, <2>1, Forgotten DEF Asked, AuthorDeleted, BusyTrue, Kind
  <2>3. ~Saving' /\ ~Moving' /\ ~updating' /\ ~Asked("update")'
    BY <1>0, <2>1, <2>2 DEF BusyTrue, Saving, Moving, Asked
  <2>4. BusyTrue'
    BY <1>0, <2>1, <2>2, <2>3 DEF BusyTrue
  <2>5. CASE calls["delete"].answer = "success"
    <3> DEFINE i == selected.index
    <3>1. i \in 1..Len(list)
      BY <1>0, <2>2 DEF FormTrue
    <3>2. list' = Renumbered(Cut(list, i)) /\ modal' = FALSE
      BY <1>6, <2>5 DEF AuthorDeleted
    <3> HIDE DEF i
    <3>3. /\ Len(list') = Len(list) - 1
          /\ \A j \in 1..Len(list') :
               list'[j].order = j /\ list'[j].id = list[IF j < i THEN j ELSE j + 1].id
      BY <3>1, <3>2, Shortened
    <3>4. \A j \in 1..Len(list') : (IF j < i THEN j ELSE j + 1) \in 1..Len(list)
      BY <1>1, <3>1, <3>3
    <3>5. EntriesTrue'
      BY <1>0, <2>2, <3>3, <3>4 DEF EntriesTrue, Asked
    <3>6. FormTrue' /\ MoveTrue'
      BY <2>2, <2>3, <3>2 DEF FormTrue, MoveTrue
    <3> QED
      BY <1>2, <2>1, <2>4, <3>5, <3>6
  <2>6. CASE calls["delete"].answer # "success"
    <3>1. UNCHANGED <<list, modal>>
      BY <1>6, <2>6 DEF AuthorDeleted
    <3>2. EntriesTrue'
      BY <1>0, <2>2, <3>1 DEF EntriesTrue, Asked
    <3>3. FormTrue' /\ MoveTrue'
      BY <1>0, <2>1, <2>2, <2>3, <3>1 DEF FormTrue, MoveTrue
    <3> QED
      BY <1>2, <2>1, <2>4, <3>2, <3>3
  <2> QED
    BY <2>5, <2>6
<1> QED
  BY <1>3, <1>4, <1>5, <1>6 DEF Answer

LEMMA PageStep == TypeInv /\ PageInv /\ [Next]_vars => PageInv'
<1> SUFFICES ASSUME TypeInv, PageInv, [Next]_vars, orderly' PROVE PageTrue'
  BY DEF PageInv
<1>1. CASE Next
  BY <1>1, PageClicked, PageServed, PageAnswered DEF Next
<1>2. CASE UNCHANGED vars
  BY <1>2 DEF vars, page, PageInv, PageTrue, BusyTrue, NoneFailed, EntriesTrue, FormTrue, MoveTrue,
              Asked, Saving, Moving
<1> QED
  BY <1>1, <1>2

-----------------------------------------------------------------------------
(* Where the server has the authors of the page. *)

Known == TypeInv /\ OrderedUnlessInner /\ (Asked("add") => adding) /\ PageInv /\ ListInv

LEMMA SlotKept ==
    ASSUME Done("delete")' <=> Done("delete"), Done("delete") => selected' = selected,
           (Done("update") /\ Moving)' <=> (Done("update") /\ Moving),
           Done("update") /\ Moving => calls'["update"].from = calls["update"].from
                                       /\ calls'["update"].order = calls["update"].order
    PROVE  \A i : Slot(i)' = Slot(i)
BY DEF Slot

LEMMA AddingStep ==
    TypeInv /\ (Asked("add") => adding) /\ [Next]_vars => (Asked("add") => adding)'
<1> SUFFICES ASSUME TypeInv, Asked("add") => adding, [Next]_vars, Asked("add")'
             PROVE  adding'
  OBVIOUS
<1>1. ASSUME NEW k \in Kind, Serve(k) PROVE adding'
  <2>1. Asked("add")
    BY <1>1, Carried DEF Asked, Kind
  <2> QED
    BY <1>1, <2>1 DEF Serve, page
<1>2. ASSUME NEW k \in Kind, Answered(k), UNCHANGED adding \/ k = "add" PROVE adding'
  BY <1>2, Forgotten DEF Asked, Kind
<1>3. ASSUME UNCHANGED adding,
             \/ UNCHANGED calls
             \/ \E k \in Kind \ {"add"} : \E op, a, n, i : Post(k, op, a, n, i)
      PROVE  adding'
  <2>1. calls'["add"] = calls["add"]
    BY <1>3 DEF Post, TypeInv, AuthorsTypeOK, Kind
  <2> QED
    BY <1>3, <2>1 DEF Asked
<1>4. CASE Answer
  BY <1>2, <1>4 DEF Answer, AuthorAdded, AuthorSaved, AuthorMoved, AuthorDeleted, Kind
<1>5. ASSUME NEW i \in 1..Len(list), NEW j \in 1..Len(list), UpdateAuthorOrder(i, j)
      PROVE  adding'
  <2>1. UNCHANGED calls \/ Post("update", "move", list[i].id, j, i)
    BY <1>5 DEF UpdateAuthorOrder
  <2> QED
    BY <1>3, <1>5, <2>1 DEF UpdateAuthorOrder, Kind
<1>6. ASSUME NEW i \in 1..Len(list), OpenForm(i) PROVE adding'
  BY <1>3, <1>6 DEF OpenForm
<1>7. CASE CloseForm \/ UpdateAuthor \/ DeleteAuthor
  BY <1>3, <1>7 DEF CloseForm, UpdateAuthor, DeleteAuthor, Kind
<1>8. ASSUME NEW form, NEW a, AddAuthor(form, a) PROVE adding'
  BY <1>8 DEF AddAuthor
<1>9. CASE UNCHANGED vars
  BY <1>3, <1>9 DEF vars, page
<1> QED
  BY <1>1, <1>4, <1>5, <1>6, <1>7, <1>8, <1>9 DEF Next

LEMMA ListClicked ==
    ASSUME Known, orderly', ~inner',
           \/ \E i \in 1..Len(list) : OpenForm(i) \/ \E j \in 1..Len(list) : UpdateAuthorOrder(i, j)
           \/ CloseForm \/ UpdateAuthor \/ DeleteAuthor
           \/ \E form \in {"user", "person"}, a \in Author : AddAuthor(form, a)
    PROVE  ListTrue'
<1>1. UNCHANGED <<order, list, inner>> /\ orderly
  BY DEF OpenForm, UpdateAuthorOrder, CloseForm, UpdateAuthor, DeleteAuthor, AddAuthor
<1>2. PageTrue /\ ListTrue
  BY <1>1 DEF Known, PageInv, ListInv
<1>3. \A k \in Kind : calls'[k] = calls[k] \/ (~Asked(k) /\ calls'[k].answer = "waiting")
  <2>1. UNCHANGED calls \/ \E k \in Kind : ~Asked(k) /\ \E op, a, n, i : Post(k, op, a, n, i)
    <3>1. /\ ~updating => ~Asked("update")
          /\ ~deleting => ~Asked("delete")
          /\ ~adding => ~Asked("add")
      BY <1>2 DEF PageTrue, BusyTrue, Known
    <3>2. ASSUME NEW i \in 1..Len(list), NEW j \in 1..Len(list), UpdateAuthorOrder(i, j)
          PROVE  UNCHANGED calls \/ (~Asked("update") /\ Post("update", "move", list[i].id, j, i))
      BY <3>1, <3>2 DEF UpdateAuthorOrder, ListClickable
    <3>3. CASE UpdateAuthor \/ DeleteAuthor
      BY <3>1, <3>3 DEF UpdateAuthor, DeleteAuthor, Kind
    <3>4. ASSUME NEW form, NEW a, AddAuthor(form, a)
          PROVE  ~Asked("add") /\ Post("add", form, a, 0, 0)
      BY <3>1, <3>4 DEF AddAuthor
    <3>5. (CloseForm => UNCHANGED calls) /\ \A i : OpenForm(i) => UNCHANGED calls
      BY DEF CloseForm, OpenForm
    <3>6. "add" \in Kind /\ "update" \in Kind
      BY DEF Kind
    <3> QED
      BY <3>2, <3>3, <3>4, <3>5, <3>6
  <2>2. ASSUME NEW k \in Kind, NEW op, NEW a, NEW n, NEW i, Post(k, op, a, n, i)
        PROVE  calls'[k].answer = "waiting" /\ \A q \in Kind \ {k} : calls'[q] = calls[q]
    BY <2>2 DEF Post, Known, TypeInv, AuthorsTypeOK
  <2> QED
    BY <2>1, <2>2
<1>4. \A k \in Kind : Done(k)' <=> Done(k)
  BY <1>3 DEF Done, Asked
<1>5. \A k \in Kind : Done(k) => calls'[k] = calls[k]
  BY <1>3 DEF Done
<1>6. (Done("update") /\ Moving)' <=> (Done("update") /\ Moving)
  BY <1>4, <1>5 DEF Moving, Done, Asked, Kind
<1>7. Done("delete") => selected' = selected
  <2> SUFFICES ASSUME Done("delete") PROVE selected' = selected
    OBVIOUS
  <2>1. deleting
    BY <1>2 DEF PageTrue, BusyTrue, Done
  <2> QED
    BY <2>1 DEF OpenForm, UpdateAuthorOrder, CloseForm, UpdateAuthor, DeleteAuthor, AddAuthor
<1>8. \A i : Slot(i)' = Slot(i)
  BY <1>4, <1>5, <1>6, <1>7, SlotKept DEF Kind
<1>9. Count' = Count
  BY <1>1 DEF Count, Present
<1> QED
  BY <1>1, <1>2, <1>4, <1>5, <1>8, <1>9 DEF ListTrue, Kind

(* What the server does with a request that does not fail. *)
LEMMA CarriedOut ==
    ASSUME TypeInv, NEW k \in Kind, Serve(k), orderly'
    PROVE  \/ calls'[k].answer = "error" /\ UNCHANGED <<order, inner>>
           \/ /\ calls'[k].answer = "success"
              /\ k = "add" => Create(calls[k].id)
              /\ k = "update" => Update(calls[k].id, calls[k].order)
              /\ k = "delete" => Remove(calls[k].id)
<1>1. calls[k] \in Request
  BY DEF Serve, Asked, TypeInv, AuthorsTypeOK
<1>2. PICK answer \in {"success", "error", "failed"} :
         /\ calls' = [calls EXCEPT ![k].answer = answer]
         /\ orderly' = (orderly /\ answer # "failed")
         /\ \/ /\ answer # "error"
               /\ CASE k = "add" -> Create(calls[k].id)
                    [] k = "update" -> Update(calls[k].id, calls[k].order)
                    [] k = "delete" -> Remove(calls[k].id)
            \/ answer # "success" /\ UNCHANGED <<order, inner>>
  BY DEF Serve
<1> DEFINE r == [calls[k] EXCEPT !.answer = answer]
<1>3. r.answer = answer
  BY <1>1 DEF Request
<1>4. calls' = [calls EXCEPT ![k] = r]
  BY <1>2
<1> HIDE DEF r
<1>5. calls'[k].answer = answer
  BY <1>3, <1>4 DEF TypeInv, AuthorsTypeOK
<1> QED
  BY <1>2, <1>5 DEF Kind

LEMMA Typed ==
    ASSUME TypeInv
    PROVE  /\ Len(list) \in Nat /\ order \in [Author -> Nat] /\ Count \in Nat
           /\ \A j \in 1..Len(list) : list[j].id \in Author /\ j \in Nat /\ j > 0
<1>1. list \in Seq(Entry) /\ Len(list) \in Nat /\ order \in [Author -> Nat]
  BY LenProperties DEF TypeInv, AuthorsTypeOK
<1>2. \A j \in 1..Len(list) : list[j] \in Entry
  BY <1>1, ElementOfSeq
<1>3. \A j \in 1..Len(list) : list[j].id \in Author /\ j \in Nat /\ j > 0
  BY <1>1, <1>2 DEF Entry
<1> QED
  BY <1>1, <1>3, CountType

LEMMA SavedInPlace ==
    ASSUME Known, PageTrue, ListTrue, Saving, Update(calls["update"].id, calls["update"].order)
    PROVE  UNCHANGED <<order, inner>>
<1> DEFINE n == calls["update"].order
<1>1. ~Done("delete") /\ ~Moving
  BY DEF PageTrue, BusyTrue, Done, Saving, Moving
<1>2. /\ selected.index \in 1..Len(list) /\ n = selected.index
      /\ calls["update"].id = list[selected.index].id
  BY DEF PageTrue, FormTrue
<1>3. order[calls["update"].id] = n
  BY <1>1, <1>2 DEF ListTrue, Slot
<1>4. n # 0
  <2>1. Len(list) \in Nat
    BY LenProperties DEF Known, TypeInv, AuthorsTypeOK
  <2> QED
    BY <1>2, <2>1
<1> QED
  BY <1>3, <1>4 DEF Update, Place, AtLeastOne

LEMMA MovedToPlace ==
    ASSUME Known, PageTrue, ListTrue, ProperlyOrdered, Moving, ~Done("update"), ~inner',
           Update(calls["update"].id, calls["update"].order), UNCHANGED list,
           calls'["update"].from = calls["update"].from,
           calls'["update"].order = calls["update"].order,
           Done("update")', Moving', ~Done("delete")', Done("add")' <=> Done("add"),
           calls'["add"].id = calls["add"].id
    PROVE  ListTrue'
<1> DEFINE a == calls["update"].id
           i == calls["update"].from
           n == calls["update"].order
<1>1. /\ Len(list) \in Nat /\ order \in [Author -> Nat]
      /\ \A j \in 1..Len(list) : list[j].id \in Author /\ j \in Nat /\ j > 0
  BY Typed DEF Known
<1>2. i \in 1..Len(list) /\ n \in 1..Len(list) /\ a = list[i].id
  BY DEF PageTrue, MoveTrue
<1>3. ~Done("delete")
  BY DEF PageTrue, BusyTrue, Done, Moving
<1>4. \A j \in 1..Len(list) : order[list[j].id] = j
  BY <1>3 DEF ListTrue, Slot
<1>5. Count \in Nat /\ Count = Len(list) + (IF Done("add") THEN 1 ELSE 0)
  BY <1>1, <1>3, CountType DEF ListTrue
<1>6. n # 0 /\ ~(n > Count) /\ order[a] = i /\ n \in 1..Count /\ a \in Author /\ i > 0
  BY <1>1, <1>2, <1>4, <1>5
<1>7. Place(a, n)
  BY <1>6 DEF Update, AtLeastOne
<1>8. \A j \in 1..Len(list) :
        Slot(j)' = IF j = i THEN n
                   ELSE IF n <= j /\ j < i THEN j + 1 ELSE IF i < j /\ j <= n THEN j - 1 ELSE j
  BY DEF Slot
<1> HIDE DEF a, i, n
<1>9. CASE i = n
  <2>1. UNCHANGED order
    BY <1>6, <1>7, <1>9 DEF Place
  <2>2. Count' = Count
    BY <2>1 DEF Count, Present
  <2>3. \A j \in 1..Len(list) : Slot(j)' = j
    BY <1>1, <1>2, <1>8, <1>9
  <2> QED
    BY <1>3, <1>4, <2>1, <2>2, <2>3 DEF ListTrue
<1>10. CASE i # n
  <2>1. order' = Shifted(a, n) /\ ~(i < n /\ n < Count)
    BY <1>6, <1>7, <1>10 DEF Place, AtMostCount
  <2>2. n < i \/ n = Count
    BY <1>1, <1>2, <1>5, <1>6, <1>10, <2>1
  <2>3. Count' = Count
    BY <1>1, <1>6, <2>1, <2>2, ShiftOrders
  <2>4. \A b \in Author :
          order'[b] = IF b = a THEN n
                      ELSE IF i > n
                           THEN IF order[b] < i /\ order[b] >= n THEN order[b] + 1 ELSE order[b]
                           ELSE IF order[b] > i THEN order[b] - 1 ELSE order[b]
    BY <1>6, <2>1 DEF Shifted
  <2>5. ASSUME NEW j \in 1..Len(list) PROVE order'[list[j].id] = Slot(j)'
    <3>1. CASE j = i
      BY <1>1, <1>2, <1>8, <2>4, <3>1
    <3>2. CASE j # i
      <4>1. list[j].id # a /\ list[j].id \in Author /\ order[list[j].id] = j
        BY <1>1, <1>4, <1>6, <3>2
      <4>2. order'[list[j].id] = IF i > n THEN IF j < i /\ j >= n THEN j + 1 ELSE j
                                 ELSE IF j > i THEN j - 1 ELSE j
        BY <2>4, <4>1
      <4>3. j \in Nat /\ i \in Nat /\ n \in Nat /\ (n < i \/ j <= n)
        BY <1>1, <1>2, <1>5, <2>2
      <4> QED
        BY <1>8, <2>2, <3>2, <4>2, <4>3
    <3> QED
      BY <3>1, <3>2
  <2>6. Done("add") => order'[calls["add"].id] = Count
    <3> SUFFICES ASSUME Done("add") PROVE order'[calls["add"].id] = Count
      OBVIOUS
    <3>1. calls["add"].id \in Author
      BY DEF Done, Asked, Known, TypeInv, AuthorsTypeOK, Request, Kind
    <3>2. order[calls["add"].id] = Count
      BY DEF ListTrue
    <3>3. n < i /\ i < Count
      BY <1>1, <1>2, <1>5, <2>2
    <3>4. calls["add"].id # a
      BY <1>2, <1>5, <1>6, <3>2, <3>3
    <3> QED
      BY <1>1, <1>2, <1>5, <2>4, <3>1, <3>2, <3>3, <3>4
  <2> QED
    BY <1>3, <2>3, <2>5, <2>6 DEF ListTrue
<1> QED
  BY <1>9, <1>10

LEMMA ListServed ==
    ASSUME Known, orderly', ~inner', NEW k \in Kind, Serve(k)
    PROVE  ListTrue'
<1>0. TypeInv
  BY DEF Known
<1>1. /\ UNCHANGED <<list, selected>> /\ orderly
      /\ calls[k].answer = "waiting" /\ calls'[k].op = calls[k].op /\ calls'[k].id = calls[k].id
      /\ calls'[k].order = calls[k].order /\ calls'[k].from = calls[k].from
      /\ calls[k] # Idle /\ calls'[k] # Idle /\ calls[k] \in Request
      /\ \A q \in Kind \ {k} : calls'[q] = calls[q]
  BY <1>0, Carried DEF Serve, page
<1>2. ~inner
  <2>1. (\E a, n : Update(a, n)) \/ UNCHANGED inner
    BY DEF Serve, Create, Remove, Kind
  <2>2. ASSUME inner, NEW a, NEW n, Update(a, n) PROVE inner'
    BY <2>2 DEF Update, Place
  <2> QED
    BY <2>1, <2>2
<1>3. PageTrue /\ ListTrue /\ ProperlyOrdered
  BY <1>1, <1>2 DEF Known, PageInv, ListInv, OrderedUnlessInner
<1>4. /\ ~Done(k) /\ Asked(k) /\ (Done(k)' <=> calls'[k].answer = "success")
      /\ \A q \in Kind \ {k} : Done(q)' <=> Done(q)
      /\ Saving' = Saving /\ Moving' = Moving
  <2>1. ~Done(k) /\ Asked(k) /\ (Done(k)' <=> calls'[k].answer = "success")
    BY <1>1 DEF Done, Asked
  <2>2. \A q \in Kind \ {k} : Done(q)' <=> Done(q)
    BY <1>1 DEF Done, Asked
  <2>3. Saving' = Saving /\ Moving' = Moving
    BY <1>1 DEF Saving, Moving, Asked, Kind
  <2> QED
    BY <2>1, <2>2, <2>3
<1>5. /\ calls'["update"].from = calls["update"].from
      /\ calls'["update"].order = calls["update"].order /\ calls'["add"].id = calls["add"].id
  BY <1>1 DEF Kind
<1>6. ASSUME UNCHANGED order, \A q \in Kind : Done(q)' <=> Done(q) PROVE ListTrue'
  <2>1. \A i : Slot(i)' = Slot(i)
    BY <1>1, <1>4, <1>5, <1>6, SlotKept DEF Kind
  <2>2. Count' = Count
    BY <1>6 DEF Count, Present
  <2> QED
    BY <1>1, <1>3, <1>5, <1>6, <2>1, <2>2 DEF ListTrue, Kind
<1>7. CASE calls'[k].answer = "error" /\ UNCHANGED <<order, inner>>
  BY <1>4, <1>6, <1>7
<1>8. /\ Len(list) \in Nat /\ order \in [Author -> Nat] /\ calls[k].id \in Author
      /\ \A j \in 1..Len(list) : list[j].id \in Author /\ j \in Nat /\ j > 0
      /\ Count \in Nat
  BY <1>0, <1>1, Typed DEF Request
<1>9. CASE k = "add" /\ calls'[k].answer = "success" /\ Create(calls[k].id)
  <2> DEFINE a == calls["add"].id
  <2>1. Count' = Count + 1 /\ order' = [order EXCEPT ![a] = Count + 1] /\ a \in Author
    BY <1>3, <1>8, <1>9, CreateOrders
  <2>2. \A j \in 1..Len(list) : order'[list[j].id] = order[list[j].id]
    BY <1>3, <1>4, <1>8, <1>9, <2>1 DEF PageTrue, EntriesTrue
  <2>3. \A i : Slot(i)' = Slot(i)
    BY <1>1, <1>4, <1>5, <1>9, SlotKept DEF Kind
  <2>4. order'[a] = Count'
    BY <1>8, <2>1
  <2>5. Done("add")' /\ ~Done("add") /\ (Done("delete")' <=> Done("delete"))
    BY <1>4, <1>9 DEF Kind
  <2>6. Count' + (IF Done("delete")' THEN 1 ELSE 0) = Len(list') + (IF Done("add")' THEN 1 ELSE 0)
    BY <1>1, <1>3, <1>8, <2>1, <2>5 DEF ListTrue
  <2> QED
    BY <1>1, <1>3, <1>5, <2>2, <2>3, <2>4, <2>6 DEF ListTrue
<1>10. CASE k = "update" /\ calls'[k].answer = "success" /\ Update(calls[k].id, calls[k].order)
  <2>1. Saving \/ Moving
    BY <1>3, <1>4, <1>10 DEF PageTrue, BusyTrue
  <2>2. CASE Saving
    <3>1. UNCHANGED order
      BY <1>3, <1>10, <2>2, SavedInPlace
    <3>2. ~Moving /\ ~Moving'
      BY <1>4, <2>2 DEF Saving, Moving
    <3>3. \A i : Slot(i)' = Slot(i)
      BY <1>1, <1>4, <1>10, <3>2, SlotKept DEF Kind
    <3>4. Count' = Count
      BY <3>1 DEF Count, Present
    <3>5. (Done("delete")' <=> Done("delete")) /\ (Done("add")' <=> Done("add"))
      BY <1>4, <1>10 DEF Kind
    <3> QED
      BY <1>1, <1>3, <1>5, <3>1, <3>3, <3>4, <3>5 DEF ListTrue
  <2>3. CASE Moving
    <3>1. /\ Done("update")' /\ ~Done("update") /\ Moving'
          /\ ~Done("delete")' /\ (Done("add")' <=> Done("add"))
      <4>1. ~Done("delete")
        BY <1>3, <2>3 DEF PageTrue, BusyTrue, Done, Moving
      <4> QED
        BY <1>4, <1>10, <2>3, <4>1 DEF Kind
    <3> QED
      BY <1>1, <1>3, <1>5, <1>10, <2>3, <3>1, MovedToPlace
  <2> QED
    BY <2>1, <2>2, <2>3
<1>11. CASE k = "delete" /\ calls'[k].answer = "success" /\ Remove(calls[k].id)
  <2> DEFINE i == selected.index
             a == calls["delete"].id
  <2>1. deleting /\ ~Asked("update")
    BY <1>3, <1>4, <1>11 DEF PageTrue, BusyTrue
  <2>2. i \in 1..Len(list) /\ a = list[i].id /\ a \in Author
    BY <1>3, <1>8, <1>11, <2>1 DEF PageTrue, FormTrue
  <2>3. ~Done("delete") /\ Done("delete")' /\ ~Done("update") /\ (Done("add")' <=> Done("add"))
    BY <1>4, <1>11, <2>1 DEF Done, Kind
  <2>4. /\ \A j \in 1..Len(list) : order[list[j].id] = j
        /\ Count = Len(list) + (IF Done("add") THEN 1 ELSE 0)
    BY <1>3, <1>8, <2>3 DEF ListTrue, Slot
  <2>5. Count' = Count - 1
    BY <1>3, <1>8, <1>11, RemoveOrders
  <2>6. order[a] = i
    BY <2>2, <2>4
  <2>7. \A b \in Author :
          order'[b] = IF b = a THEN 0 ELSE IF order[b] > i THEN order[b] - 1 ELSE order[b]
    BY <1>11, <2>6 DEF Remove
  <2>8. \A j : Slot(j)' = IF j < i THEN j ELSE IF j = i THEN 0 ELSE j - 1
    BY <1>1, <2>3 DEF Slot
  <2> HIDE DEF i, a
  <2>9. ASSUME NEW j \in 1..Len(list) PROVE order'[list[j].id] = Slot(j)'
    <3>1. CASE j = i
      BY <1>8, <2>2, <2>7, <2>8, <3>1
    <3>2. CASE j # i
      BY <1>8, <2>2, <2>4, <2>6, <2>7, <2>8, <3>2
    <3> QED
      BY <3>1, <3>2
  <2>10. Done("add") => order'[calls["add"].id] = Count - 1
    <3> SUFFICES ASSUME Done("add") PROVE order'[calls["add"].id] = Count - 1
      OBVIOUS
    <3>1. calls["add"].id \in Author
      BY <1>0 DEF Done, Asked, TypeInv, AuthorsTypeOK, Request, Kind
    <3>2. order[calls["add"].id] = Count
      BY <1>3 DEF ListTrue
    <3>3. i < Count /\ i \in Nat
      BY <1>8, <2>2, <2>4
    <3>4. calls["add"].id # a /\ order[calls["add"].id] > i
      BY <2>6, <3>2, <3>3
    <3> QED
      BY <2>7, <3>1, <3>2, <3>4
  <2>11. Count' + (IF Done("delete")' THEN 1 ELSE 0) = Len(list') + (IF Done("add")' THEN 1 ELSE 0)
    BY <1>1, <1>8, <2>3, <2>4, <2>5
  <2> QED
    BY <1>1, <1>5, <2>3, <2>5, <2>9, <2>10, <2>11 DEF ListTrue
<1> QED
  BY <1>0, <1>7, <1>9, <1>10, <1>11, CarriedOut DEF Kind

LEMMA ListAnswered ==
    ASSUME Known, orderly', ~inner', Answer
    PROVE  ListTrue'
<1>0. TypeInv /\ "add" \in Kind /\ "update" \in Kind /\ "delete" \in Kind
  BY DEF Known, Kind
<1>1. UNCHANGED <<order, inner, orderly, selected>>
  BY <1>0, Forgotten DEF Answer, AuthorAdded, AuthorSaved, AuthorMoved, AuthorDeleted
<1>2. PageTrue /\ ListTrue
  BY <1>1 DEF Known, PageInv, ListInv
<1>3. Count' = Count
  BY <1>1 DEF Count, Present
<1>4. /\ Len(list) \in Nat /\ Count \in Nat /\ order \in [Author -> Nat]
      /\ \A j \in 1..Len(list) : list[j].id \in Author /\ j \in Nat /\ j > 0
  BY <1>0, Typed
<1>5. ASSUME UNCHANGED list, \A q \in Kind : Done(q)' <=> Done(q),
             \A q \in Kind : Done(q) => calls'[q] = calls[q]
      PROVE  ListTrue'
  <2>1. (Done("update") /\ Moving)' <=> (Done("update") /\ Moving)
    BY <1>0, <1>5 DEF Moving, Done, Asked
  <2>2. \A i : Slot(i)' = Slot(i)
    BY <1>0, <1>1, <1>5, <2>1, SlotKept
  <2> QED
    BY <1>0, <1>1, <1>2, <1>3, <1>5, <2>2 DEF ListTrue
<1>6. ASSUME NEW k \in Kind, Answered(k), calls[k].answer # "success", UNCHANGED list
      PROVE  ListTrue'
  <2>1. ~Done(k) /\ ~Done(k)' /\ \A q \in Kind \ {k} : calls'[q] = calls[q]
    BY <1>0, <1>6, Forgotten DEF Done, Asked
  <2>2. \A q \in Kind \ {k} : Done(q)' <=> Done(q)
    BY <2>1 DEF Done, Asked
  <2>3. \A q \in Kind : Done(q)' <=> Done(q)
    BY <2>1, <2>2
  <2> QED
    BY <1>5, <1>6, <2>1, <2>3
<1>7. ASSUME AuthorAdded, calls["add"].answer = "success" PROVE ListTrue'
  <2> DEFINE a == calls["add"].id
  <2>1. /\ Done("add") /\ ~Done("add")' /\ a \in Author
        /\ calls'["update"] = calls["update"] /\ calls'["delete"] = calls["delete"]
    BY <1>0, <1>7, Forgotten DEF AuthorAdded, Done, Asked, Kind, Request
  <2>2. /\ (Done("delete")' <=> Done("delete")) /\ (Done("update")' <=> Done("update"))
        /\ Moving' = Moving
    BY <2>1 DEF Done, Moving, Asked
  <2>3. \A i : Slot(i)' = Slot(i)
    BY <1>1, <2>1, <2>2, SlotKept
  <2>4. list' = Renumbered(Append(list, [id |-> a, order |-> 0]))
    BY <1>7 DEF AuthorAdded
  <2> HIDE DEF a
  <2>5. /\ Len(list') = Len(list) + 1 /\ list'[Len(list) + 1].id = a
        /\ \A i \in 1..Len(list) : list'[i].id = list[i].id
    BY <1>0, <2>1, <2>4, Lengthened
  <2>6. order[a] = Count /\ Count + (IF Done("delete") THEN 1 ELSE 0) = Len(list) + 1
    BY <1>2, <2>1 DEF ListTrue, a
  <2>7. Slot(Len(list) + 1) = Count
    <3>1. CASE Done("delete")
      <4>1. deleting
        BY <1>2, <3>1 DEF PageTrue, BusyTrue, Done
      <4>2. selected.index \in 1..Len(list)
        BY <1>2, <4>1 DEF PageTrue, FormTrue
      <4> QED
        BY <1>4, <2>6, <3>1, <4>2 DEF Slot
    <3>2. CASE ~Done("delete") /\ Done("update") /\ Moving
      <4>1. calls["update"].from \in 1..Len(list) /\ calls["update"].order \in 1..Len(list)
        BY <1>2, <3>2 DEF PageTrue, MoveTrue
      <4> QED
        BY <1>4, <2>6, <3>2, <4>1 DEF Slot
    <3>3. CASE ~Done("delete") /\ ~(Done("update") /\ Moving)
      BY <1>4, <2>6, <3>3 DEF Slot
    <3> QED
      BY <3>1, <3>2, <3>3
  <2>8. ASSUME NEW i \in 1..Len(list') PROVE order'[list'[i].id] = Slot(i)'
    <3>1. CASE i = Len(list) + 1
      BY <1>1, <2>3, <2>5, <2>6, <2>7, <3>1
    <3>2. CASE i # Len(list) + 1
      <4>1. i \in 1..Len(list)
        BY <1>4, <2>5, <3>2
      <4> QED
        BY <1>1, <1>2, <2>3, <2>5, <4>1 DEF ListTrue
    <3> QED
      BY <3>1, <3>2
  <2>9. Count' + (IF Done("delete")' THEN 1 ELSE 0) = Len(list') + (IF Done("add")' THEN 1 ELSE 0)
    BY <1>3, <1>4, <2>1, <2>2, <2>5, <2>6
  <2> QED
    BY <2>1, <2>8, <2>9 DEF ListTrue
<1>8. ASSUME AuthorSaved, calls["update"].answer = "success" PROVE ListTrue'
  <2>1. /\ Asked("update") /\ ~Asked("update")' /\ Saving
        /\ calls'["add"] = calls["add"] /\ calls'["delete"] = calls["delete"]
    BY <1>0, <1>8, Forgotten DEF AuthorSaved, Saving, Asked, Kind
  <2>2. /\ (Done("delete")' <=> Done("delete")) /\ (Done("add")' <=> Done("add"))
        /\ ~Moving /\ ~Moving'
    BY <2>1 DEF Done, Saving, Moving, Asked
  <2>3. \A i : Slot(i)' = Slot(i)
    BY <1>1, <2>2, SlotKept
  <2>4. [id |-> calls["update"].id, order |-> calls["update"].order] \in Entry
    BY <1>0, <1>8, Forgotten DEF AuthorSaved, Entry, Request
  <2>5. PICK e \in Entry : e = [id |-> calls["update"].id, order |-> calls["update"].order]
    BY <2>4
  <2>6. selected.index \in 1..Len(list)
    BY <1>2, <2>1 DEF PageTrue, FormTrue
  <2>7. PICK i \in 1..Len(list) : i = selected.index
    BY <2>6
  <2>8. e.id = list[i].id
    BY <1>2, <2>1, <2>5, <2>7 DEF PageTrue, FormTrue
  <2>9. list' = Put(list, i, e) /\ list \in Seq(Entry)
    BY <1>0, <1>8, <2>5, <2>7 DEF AuthorSaved, TypeInv, AuthorsTypeOK
  <2>10. /\ Len(Put(list, i, e)) = Len(list)
         /\ \A j \in 1..Len(list) : Put(list, i, e)[j] = IF j = i THEN e ELSE list[j]
    BY <2>9, PutForm, ZenonT(40)
  <2>11. Len(list') = Len(list) /\ \A j \in 1..Len(list) : list'[j].id = list[j].id
    BY <2>8, <2>9, <2>10
  <2> QED
    BY <1>1, <1>2, <1>3, <2>1, <2>2, <2>3, <2>11 DEF ListTrue
<1>9. ASSUME AuthorMoved, calls["update"].answer = "success" PROVE ListTrue'
  <2>1. /\ Asked("update") /\ ~Asked("update")' /\ Moving /\ Done("update")
        /\ calls'["add"] = calls["add"] /\ calls'["delete"] = calls["delete"]
    BY <1>0, <1>9, Forgotten DEF AuthorMoved, Moving, Done, Asked, Kind
  <2>2. /\ ~Done("delete")' /\ ~Done("delete") /\ (Done("add")' <=> Done("add"))
    BY <1>2, <2>1 DEF PageTrue, BusyTrue, Done, Asked
  <2>3. \A j : Slot(j)' = j
    BY <2>1, <2>2 DEF Slot, Done
  <2>4. calls["update"].from \in 1..Len(list) /\ calls["update"].order \in 1..Len(list)
    BY <1>2, <2>1 DEF PageTrue, MoveTrue
  <2>5. PICK i \in 1..Len(list), n \in 1..Len(list) :
           i = calls["update"].from /\ n = calls["update"].order
    BY <2>4
  <2>6. list' = Renumbered(Insert(Cut(list, i), n, list[i]))
    BY <1>4, <1>9, <2>5 DEF AuthorMoved
  <2>7. PICK l : l = list'
    OBVIOUS
  <2>8. l = Renumbered(Insert(Cut(list, i), n, list[i]))
    BY <2>6, <2>7
  <2>9. /\ Len(l) = Len(list)
        /\ \A j \in 1..Len(l) :
             /\ l[j].order = j /\ Before(j, i, n) \in 1..Len(list)
             /\ l[j].id = list[Before(j, i, n)].id
    BY <1>0, <2>8, Rearranged DEF Before
  <2>10. ASSUME NEW j \in 1..Len(list) PROVE Slot(Before(j, i, n)) = j
    BY <1>4, <2>1, <2>2, <2>5 DEF Slot, Before
  <2>11. \A j \in 1..Len(list') : order'[list'[j].id] = Slot(j)'
    BY <1>1, <1>2, <2>3, <2>7, <2>9, <2>10 DEF ListTrue
  <2> QED
    BY <1>1, <1>2, <1>3, <2>1, <2>2, <2>7, <2>9, <2>11 DEF ListTrue
<1>10. ASSUME AuthorDeleted, calls["delete"].answer = "success" PROVE ListTrue'
  <2>1. /\ Done("delete") /\ ~Done("delete")' /\ Asked("delete")
        /\ calls'["add"] = calls["add"] /\ calls'["update"] = calls["update"]
    BY <1>0, <1>10, Forgotten DEF AuthorDeleted, Done, Asked, Kind
  <2>2. deleting /\ ~Done("update")' /\ (Done("add")' <=> Done("add"))
    BY <1>2, <2>1 DEF PageTrue, BusyTrue, Done, Asked
  <2>3. \A j : Slot(j)' = j
    BY <2>1, <2>2 DEF Slot
  <2>4. selected.index \in 1..Len(list)
    BY <1>2, <2>2 DEF PageTrue, FormTrue
  <2>5. PICK i \in 1..Len(list) : i = selected.index
    BY <2>4
  <2>6. PICK l : l = list'
    OBVIOUS
  <2>7. l = Renumbered(Cut(list, i))
    BY <1>10, <2>5, <2>6 DEF AuthorDeleted
  <2>8. /\ Len(l) = Len(list) - 1
        /\ \A j \in 1..Len(l) : l[j].id = list[IF j < i THEN j ELSE j + 1].id
    BY <1>0, <2>7, Shortened
  <2>9. ASSUME NEW j \in 1..Len(l)
        PROVE  /\ (IF j < i THEN j ELSE j + 1) \in 1..Len(list)
               /\ Slot(IF j < i THEN j ELSE j + 1) = j
    BY <1>4, <2>1, <2>5, <2>8 DEF Slot
  <2>10. \A j \in 1..Len(list') : order'[list'[j].id] = Slot(j)'
    BY <1>1, <1>2, <2>3, <2>6, <2>8, <2>9 DEF ListTrue
  <2>11. Count' + (IF Done("delete")' THEN 1 ELSE 0) = Len(list') + (IF Done("add")' THEN 1 ELSE 0)
    BY <1>2, <1>3, <1>4, <2>1, <2>2, <2>6, <2>8 DEF ListTrue
  <2>12. Done("add")' => order'[calls'["add"].id] = Count'
    BY <1>1, <1>2, <1>3, <2>1, <2>2 DEF ListTrue
  <2> QED
    BY <2>10, <2>11, <2>12 DEF ListTrue
<1>11. ASSUME AuthorAdded, calls["add"].answer # "success" PROVE ListTrue'
  BY <1>0, <1>6, <1>11 DEF AuthorAdded
<1>12. ASSUME AuthorSaved \/ AuthorMoved, calls["update"].answer # "success" PROVE ListTrue'
  BY <1>0, <1>6, <1>12 DEF AuthorSaved, AuthorMoved
<1>13. ASSUME AuthorDeleted, calls["delete"].answer # "success" PROVE ListTrue'
  BY <1>0, <1>6, <1>13 DEF AuthorDeleted
<1> QED
  BY <1>7, <1>8, <1>9, <1>10, <1>11, <1>12, <1>13 DEF Answer

LEMMA ListStep == Known /\ [Next]_vars => ListInv'
<1> SUFFICES ASSUME Known, [Next]_vars, orderly', ~inner' PROVE ListTrue'
  BY DEF ListInv
<1>1. CASE Next
  BY <1>1, ListClicked, ListServed, ListAnswered DEF Next
<1>2. CASE UNCHANGED vars
  <2>1. ListTrue /\ UNCHANGED <<order, list, selected, calls>>
    BY <1>2 DEF vars, page, Known, ListInv
  <2>2. \A k : Done(k)' <=> Done(k)
    BY <2>1 DEF Done, Asked
  <2>3. (Done("update") /\ Moving)' <=> (Done("update") /\ Moving)
    BY <2>1, <2>2 DEF Moving, Asked
  <2>4. \A i : Slot(i)' = Slot(i)
    BY <2>1, <2>2, <2>3, SlotKept
  <2>5. Count' = Count
    BY <2>1 DEF Count, Present
  <2> QED
    BY <2>1, <2>2, <2>4, <2>5 DEF ListTrue
<1> QED
  BY <1>1, <1>2

LEMMA InitListed == Init => PageInv /\ ListInv /\ (Asked("add") => adding)
<1> SUFFICES ASSUME Init PROVE PageTrue /\ ListTrue /\ ~Asked("add")
  BY DEF PageInv, ListInv
<1>1. \A k \in Kind : ~Asked(k)
  BY DEF Init, Asked
<1>2. ~Asked("add") /\ ~Asked("update") /\ ~Asked("delete")
  BY <1>1 DEF Kind
<1>3. Count \in Nat
  BY InitTyped, Typed
<1>4. Len(list) = Count /\ \A i \in 1..Count : list[i].order = i /\ order[list[i].id] = i
  <2>1. \A i \in 1..Count : \E a \in Author : order[a] = i
    BY DEF Init, ProperlyOrdered, Present
  <2>2. \A i \in 1..Count : order[CHOOSE a \in Author : order[a] = i] = i
    BY <2>1
  <2>3. list = [i \in 1..Count |-> [id |-> CHOOSE a \in Author : order[a] = i, order |-> i]]
    BY DEF Init
  <2>4. Len(list) = Count
    BY <1>3, <2>3
  <2> QED
    BY <2>2, <2>3, <2>4
<1>5. PageTrue
  BY <1>1, <1>2, <1>4 DEF Init, PageTrue, BusyTrue, NoneFailed, EntriesTrue, FormTrue, MoveTrue,
                          Saving, Moving
<1>6. ListTrue
  BY <1>2, <1>3, <1>4 DEF ListTrue, Slot, Done
<1> QED
  BY <1>2, <1>5, <1>6

(* Whatever is clicked while requests are carried out and answered in any    *)
(* order: when all is answered, a page that nothing has disturbed shows the  *)
(* authors of the server in the server's order, for any set of authors.      *)
THEOREM AuthorsShown == Spec => []ListTrueAtRest
<1>1. Known => ListTrueAtRest
  <2> SUFFICES ASSUME Known, orderly, ~inner, \A k \in Kind : ~Asked(k)
               PROVE  /\ Len(list) = Count
                      /\ \A i \in 1..Len(list) : order[list[i].id] = i /\ list[i].order = i
    BY DEF ListTrueAtRest
  <2>1. ~Done("add") /\ ~Done("update") /\ ~Done("delete")
    BY DEF Done, Kind
  <2>2. PageTrue /\ ListTrue /\ Count \in Nat /\ Len(list) \in Nat
    BY Typed DEF Known, PageInv, ListInv
  <2> QED
    BY <2>1, <2>2 DEF PageTrue, EntriesTrue, ListTrue, Slot
<1>2. Known /\ [Next]_vars => TypeInv'
  BY TypeInvInductive DEF Known
<1>3. Known /\ [Next]_vars => PageInv' /\ ListInv' /\ (Asked("add") => adding)'
  BY PageStep, ListStep, AddingStep DEF Known
<1>4. Known <=> /\ TypeInv /\ OrderedUnlessInner /\ PageInv /\ ListInv
                /\ (Asked("add") => adding)
  BY DEF Known
<1> QED
  BY InitTyped, InitListed, AuthorsStayOrdered, TypeInvInductive, <1>1, <1>2, <1>3, <1>4, PTL DEF Spec
=============================================================================
