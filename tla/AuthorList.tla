----------------------------- MODULE AuthorList -----------------------------
(***************************************************************************)
(* The authors of a resource, kept in order on the server, and the list of *)
(* them on the resource page, where authors are added, edited, dragged to  *)
(* another place and deleted.                                              *)
(*                                                                         *)
(* The server numbers the authors and renumbers them on every change.  The *)
(* page makes the same change to its own list when the answer arrives.     *)
(***************************************************************************)
EXTENDS Naturals, Sequences, FiniteSets

CONSTANTS Author, NoAuthor

ASSUME AuthorAssumption == IsFiniteSet(Author) /\ NoAuthor \notin Author

VARIABLES
    order,       \* on the server: the order of each author, 0 for who is none
    list,        \* the authors on the page
    selected,    \* a copy of the author last clicked on, and its index then
    modal,       \* whether the form that edits the selected author is shown
    updating, deleting, adding,     \* isUpdatingAuthor, isDeletingAuthor, isAddingAuthor
    broken,      \* the page has put undefined in the list and can no longer show it
    calls,       \* the requests under way, one at most of each kind
    inner,       \* history: an author was moved down, and not to the end
    orderly      \* history: no request failed, and nothing was selected, dragged
                 \* or deleted while the request before was under way

page == <<list, selected, modal, updating, deleting, adding, broken>>
vars == <<order, page, calls, inner, orderly>>

Kind == {"add", "update", "delete"}
Entry == [id : Author, order : Nat]
Idle == [op |-> "idle"]
Request == [op : {"user", "person", "save", "move", "delete"}, id : Author,
            order : Nat, from : Nat, answer : {"waiting", "success", "error", "failed"}]

Present == {a \in Author : order[a] > 0}
Count == Cardinality(Present)
Asked(k) == calls[k] # Idle

-----------------------------------------------------------------------------
(* The server: a creator is added at the end, moved, and removed. *)

Last(b) == \A c \in Author : order[c] <= order[b]

(* Mutant: a new author is numbered by how many there were. *)
CreateUncounted(a) ==
    /\ order[a] = 0
    /\ order' = [order EXCEPT ![a] = Count]
    /\ UNCHANGED inner

Create(a) ==
    /\ order[a] = 0
    /\ \E b \in Author : Last(b) /\ order' = [order EXCEPT ![a] = order[b] + 1]
    /\ UNCHANGED inner

AtLeastOne(n) == IF n = 0 THEN 1 ELSE n
AtMostCount(n) == IF n > Count THEN Count ELSE n

(* Moving up makes room; moving down closes the gap, whatever the new place. *)
Shifted(a, n) ==
    [b \in Author |->
        CASE b = a -> n
          [] b # a /\ order[a] > n -> IF order[b] < order[a] /\ order[b] >= n
                                      THEN order[b] + 1 ELSE order[b]
          [] OTHER -> IF order[b] > order[a] THEN order[b] - 1 ELSE order[b]]

Place(a, n) ==
    /\ order[a] > 0
    /\ IF order[a] = n
       THEN UNCHANGED <<order, inner>>
       ELSE /\ order' = Shifted(a, AtMostCount(n))
            /\ inner' = (inner \/ (order[a] < n /\ n < Count))

Update(a, n) == Place(a, AtLeastOne(n))

Remove(a) ==
    /\ order[a] > 0 /\ Count # 1
    /\ order' = [b \in Author |-> CASE b = a -> 0
                                    [] b # a /\ order[b] > order[a] -> order[b] - 1
                                    [] OTHER -> order[b]]
    /\ UNCHANGED inner

(* A request is carried out, refused, or ends in a server error.  Some of    *)
(* those that end so were carried out before.                               *)
Serve(k) ==
    /\ Asked(k) /\ calls[k].answer = "waiting"
    /\ \E answer \in {"success", "error", "failed"} :
          /\ calls' = [calls EXCEPT ![k].answer = answer]
          /\ orderly' = (orderly /\ answer # "failed")
          /\ \/ /\ answer # "error"
                /\ CASE k = "add" -> Create(calls[k].id)
                     [] k = "update" -> Update(calls[k].id, calls[k].order)
                     [] k = "delete" -> Remove(calls[k].id)
             \/ answer # "success" /\ UNCHANGED <<order, inner>>
    /\ UNCHANGED page

-----------------------------------------------------------------------------
(* The page. *)

Post(k, op, a, n, i) ==
    calls' = [calls EXCEPT ![k] = [op |-> op, id |-> a, order |-> n, from |-> i,
                                   answer |-> "waiting"]]

(* A style sheet keeps the mouse off the list while an author is updated;   *)
(* the form covers it while it is shown.                                    *)
ListClickable == ~broken /\ ~updating /\ ~modal

(* Mutant: the place of the author is not remembered. *)
SelectEntry(i) == selected' = list[i]

SelectAuthor(i) == selected' = [id |-> list[i].id, order |-> list[i].order, index |-> i]

OpenForm(i) ==
    /\ ListClickable
    /\ SelectAuthor(i)
    /\ modal' = TRUE
    /\ orderly' = (orderly /\ ~deleting)
    /\ UNCHANGED <<order, list, updating, deleting, adding, broken, calls, inner>>

(* The cross of the form closes it, also while a request is under way. *)
CloseForm ==
    /\ ~broken /\ modal
    /\ modal' = FALSE
    /\ UNCHANGED <<order, list, selected, updating, deleting, adding, broken, calls, inner, orderly>>

UpdateAuthor ==
    /\ ~broken /\ modal /\ ~updating /\ ~deleting
    /\ Post("update", "save", selected.id, selected.order, 0)
    /\ updating' = TRUE
    /\ UNCHANGED <<order, list, selected, modal, deleting, adding, broken, inner, orderly>>

(* The button that deletes is disabled while deleting, not while updating.   *)
DeleteAuthor ==
    /\ ~broken /\ modal /\ ~deleting
    /\ Len(list) > 1
    /\ Post("delete", "delete", selected.id, 0, 0)
    /\ deleting' = TRUE
    /\ orderly' = (orderly /\ ~updating)
    /\ UNCHANGED <<order, list, selected, modal, updating, adding, broken, inner>>

(* An author is dragged from place i to place j. *)
UpdateAuthorOrder(i, j) ==
    /\ ListClickable
    /\ selected' = [id |-> list[i].id, order |-> j, index |-> i]
    /\ orderly' = (orderly /\ ~deleting)
    /\ IF i = j
       THEN UNCHANGED <<calls, updating>>
       ELSE Post("update", "move", list[i].id, j, i) /\ updating' = TRUE
    /\ UNCHANGED <<order, list, modal, deleting, adding, broken, inner>>

(* Ids are not used again: a new author is one that nothing refers to. *)
Unused(a) ==
    /\ order[a] = 0 /\ selected.id # a
    /\ \A i \in 1..Len(list) : list[i].id # a
    /\ \A k \in Kind : Asked(k) => calls[k].id # a

AddAuthor(form, a) ==
    /\ ListClickable /\ ~adding
    /\ Unused(a)
    /\ Post("add", form, a, 0, 0)
    /\ adding' = TRUE
    /\ UNCHANGED <<order, list, selected, modal, updating, deleting, broken, inner, orderly>>

-----------------------------------------------------------------------------
(* Answers. *)

(* Array.splice counts a place behind the end of the list as its end. *)
Upto(s, i) == SubSeq(s, 1, IF i > Len(s) THEN Len(s) ELSE i)
Cut(s, i) == Upto(s, i - 1) \o SubSeq(s, i + 1, Len(s))
Insert(s, i, e) == Upto(s, i - 1) \o <<e>> \o SubSeq(s, i, Len(s))
Put(s, i, e) == Upto(s, i - 1) \o <<e>> \o SubSeq(s, i + 1, Len(s))
Renumbered(s) == [i \in 1..Len(s) |-> [s[i] EXCEPT !.order = i]]

Answered(k) ==
    /\ ~broken /\ Asked(k) /\ calls[k].answer # "waiting"
    /\ calls' = [calls EXCEPT ![k] = Idle]
    /\ UNCHANGED <<order, inner, orderly>>

(* What handles a failure to add an author that is no user refers to a name *)
(* that does not exist, and ends before it resets the flag.                 *)
AuthorAdded ==
    LET call == calls["add"] IN
    /\ Answered("add")
    /\ IF call.answer = "success"
       THEN list' = Renumbered(Append(list, [id |-> call.id, order |-> 0]))
       ELSE UNCHANGED list
    /\ adding' = (call.answer = "failed" /\ call.op = "person")
    /\ UNCHANGED <<selected, modal, updating, deleting, broken>>

(* Mutant: the answer to a save is not waited for unless it succeeds. *)
AuthorSavedOrStuck ==
    LET call == calls["update"] IN
    /\ Answered("update") /\ call.op = "save"
    /\ IF call.answer = "success"
       THEN /\ list' = Put(list, selected.index, [id |-> call.id, order |-> call.order])
            /\ modal' = FALSE
       ELSE UNCHANGED <<list, modal>>
    /\ updating' = (call.answer # "success")
    /\ UNCHANGED <<selected, deleting, adding, broken>>

AuthorSaved ==
    LET call == calls["update"] IN
    /\ Answered("update") /\ call.op = "save"
    /\ IF call.answer = "success"
       THEN /\ list' = Put(list, selected.index, [id |-> call.id, order |-> call.order])
            /\ modal' = FALSE
       ELSE UNCHANGED <<list, modal>>
    /\ updating' = FALSE
    /\ UNCHANGED <<selected, deleting, adding, broken>>

(* Moving a place that the list no longer has moves undefined. *)
AuthorMoved ==
    LET call == calls["update"] IN
    /\ Answered("update") /\ call.op = "move"
    /\ \/ /\ call.answer = "success" /\ call.from <= Len(list)
          /\ list' = Renumbered(Insert(Cut(list, call.from), call.order, list[call.from]))
          /\ updating' = FALSE
          /\ UNCHANGED broken
       \/ /\ call.answer = "success" /\ call.from > Len(list)
          /\ broken' = TRUE
          /\ UNCHANGED <<list, updating>>
       \/ /\ call.answer # "success"
          /\ updating' = FALSE
          /\ UNCHANGED <<list, broken>>
    /\ UNCHANGED <<selected, modal, deleting, adding>>

(* Mutant: the remaining authors keep their numbers on the page. *)
AuthorDeletedOnly ==
    LET call == calls["delete"] IN
    /\ Answered("delete")
    /\ IF call.answer = "success"
       THEN /\ list' = Cut(list, selected.index)
            /\ modal' = FALSE
       ELSE UNCHANGED <<list, modal>>
    /\ deleting' = (call.answer = "failed")
    /\ UNCHANGED <<selected, updating, adding, broken>>

(* What is cut is the entry selected now.  Nothing handles a failure.        *)
AuthorDeleted ==
    LET call == calls["delete"] IN
    /\ Answered("delete")
    /\ IF call.answer = "success"
       THEN /\ list' = Renumbered(Cut(list, selected.index))
            /\ modal' = FALSE
       ELSE UNCHANGED <<list, modal>>
    /\ deleting' = (call.answer = "failed")
    /\ UNCHANGED <<selected, updating, adding, broken>>

Answer == AuthorAdded \/ AuthorSaved \/ AuthorMoved \/ AuthorDeleted

-----------------------------------------------------------------------------
(* Neither gaps nor duplicates: the authors are numbered from one. *)
ProperlyOrdered ==
    /\ \A a, b \in Present : order[a] = order[b] => a = b
    /\ {order[a] : a \in Present} = 1..Count

(* The page is loaded with the authors in their order; there is one at least. *)
Init ==
    /\ order \in [Author -> 0..Cardinality(Author)]
    /\ Present # {} /\ ProperlyOrdered
    /\ list = [i \in 1..Count |-> [id |-> CHOOSE a \in Author : order[a] = i, order |-> i]]
    /\ selected = [id |-> NoAuthor, order |-> 0, index |-> 0]
    /\ modal = FALSE /\ broken = FALSE
    /\ updating = FALSE /\ deleting = FALSE /\ adding = FALSE
    /\ calls = [k \in Kind |-> Idle]
    /\ inner = FALSE /\ orderly = TRUE

Next ==
    \/ \E i \in 1..Len(list) : OpenForm(i) \/ \E j \in 1..Len(list) : UpdateAuthorOrder(i, j)
    \/ CloseForm \/ UpdateAuthor \/ DeleteAuthor
    \/ \E form \in {"user", "person"}, a \in Author : AddAuthor(form, a)
    \/ \E k \in Kind : Serve(k)
    \/ Answer

Spec == Init /\ [][Next]_vars

(* Requests are served or fail, and the browser runs the callbacks. *)
FairSpec == Spec /\ WF_vars(Answer) /\ \A k \in Kind : WF_vars(Serve(k))

-----------------------------------------------------------------------------
AuthorsTypeOK ==
    /\ order \in [Author -> Nat]
    /\ list \in Seq(Entry)
    /\ selected \in [id : Author \cup {NoAuthor}, order : Nat, index : Nat]
    /\ calls \in [Kind -> Request \cup {Idle}]
    /\ {modal, updating, deleting, adding, broken, inner, orderly} \subseteq BOOLEAN

(* Creating, updating and removing keep the authors numbered from one       *)
(* without gaps or duplicates, until one is moved down and not to the end.  *)
OrderedUnlessInner == ~inner => ProperlyOrdered

(* At rest, a page that nothing has disturbed lists the authors that the    *)
(* server has, in the server's order, with the numbers the server uses.     *)
ListTrueAtRest ==
    orderly /\ ~inner /\ (\A k \in Kind : ~Asked(k)) =>
        /\ Len(list) = Count
        /\ \A i \in 1..Len(list) : order[list[i].id] = i /\ list[i].order = i

(* "The term of Creator and a proper ordering" *)
ProperOrder == ProperlyOrdered

(* The list is not blocked for ever: every update is answered, and every    *)
(* answer frees the list, unless requests overlapped.                       *)
UpdatesEnd == [](updating => <>(~updating \/ ~orderly))
=============================================================================
