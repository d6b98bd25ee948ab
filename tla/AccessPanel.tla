---------------------------- MODULE AccessPanel ----------------------------
(***************************************************************************)
(* The Manage access panel of a resource page, and the server behind it.   *)
(*                                                                         *)
(* The panel keeps a list of rows, one for each user or group with access. *)
(* Every button posts a request and a callback updates the list when the   *)
(* answer arrives, at the index that the row had when the button was       *)
(* pressed.  Rows are JavaScript objects: a callback holds the object it   *)
(* was started with, which the list may or may not still contain.          *)
(*                                                                         *)
(* The server knows two kinds of access.  What the panel changes is the    *)
(* explicit access, what users and groups were given, and a loaded page    *)
(* shows that of users.  Who may open the page, the level of the user at   *)
(* it, the rows of groups on a loaded page and the answer to an undo are   *)
(* about effective access: groups and communities may add to the explicit  *)
(* one, and the immutable flag limits it.                                  *)
(*                                                                         *)
(* Explicit access changes only through this page: nobody else shares the  *)
(* resource meanwhile.  Groups, communities and the immutable flag are the *)
(* business of others and may change at any time.  The resource is         *)
(* private, users and groups are active, no administrator is involved, who *)
(* has access to everything, and a query lists a group once, also when the *)
(* group is in a community.                                                *)
(***************************************************************************)
EXTENDS Naturals, Sequences, FiniteSets

CONSTANTS
    Person,      \* ids of users
    Team,        \* ids of groups, numbered apart from users: both may occur
    Self,        \* the user at the page
    Outside,     \* users whose effective access may differ from the explicit one,
    Nested,      \* and groups of which the same is true
    Level,       \* access levels, "owner" among them
    Object,      \* identities of row objects, numbers: a bound on those in use
    NoObject,
    Call,        \* a bound on the requests under way
    MaxAsked     \* a bound on the requests made in all

ASSUME PanelAssumption ==
    /\ Self \in Person /\ Outside \subseteq Person /\ Nested \subseteq Team
    /\ IsFiniteSet(Person) /\ IsFiniteSet(Team)
    /\ "owner" \in Level
    /\ Level \cap {"none", "no", "leave", "waiting", "error", "garbled"} = {}
    /\ Object \subseteq Nat /\ NoObject \notin Object /\ MaxAsked \in Nat

VARIABLES
    rows,        \* vue.users, a list of objects
    heap,        \* the contents of the objects
    selfLevel,   \* vue.selfAccessLevel
    holder,      \* vue.quotaHolder.id
    processing,  \* vue.isProcessing
    changing,    \* vue.isChangingQuotaHolder
    dialog,      \* the confirmation that is shown, with what its button will do
    open,        \* whether the page is open
    calls,       \* the requests under way
    asked,       \* how many requests have been made
    access,      \* on the server: the explicit access of each user and group
    was,         \* on the server: the access that an undo would restore
    charged,     \* on the server: the quota holder
    orderly      \* history: nothing has disturbed the panel since it was loaded:
                 \* no failure, no two requests about one row, no row cut out of
                 \* the list above one that a request is about, no mix-up of ids

page == <<rows, heap, selfLevel, holder, processing, changing, dialog, open>>
server == <<access, was, charged>>
vars == <<page, calls, asked, server, orderly>>

User(p) == [type |-> "user", id |-> p]
Group(g) == [type |-> "group", id |-> g]
Subject == {User(p) : p \in Person} \cup {Group(g) : g \in Team}
Access == Level \cup {"none"}
Row == [who : Subject, access : Access, undo : BOOLEAN, loading : BOOLEAN]
NoRow == [who |-> User(Self), access |-> "none", undo |-> FALSE, loading |-> FALSE]

Request == [op : {"change", "undo", "grant", "remove", "holder"}, who : Subject, to : Access,
            object : Object \cup {NoObject}, index : Nat, heard : BOOLEAN,
            answer : Access \cup {"leave", "waiting", "error", "garbled"}]
Idle == [op |-> "idle"]
NoDialog == [op |-> "closed"]
Dialog == [op : {"change", "remove"}, object : Object, index : Nat, to : Access]

Entry(i) == heap[rows[i]]
Place == 1..Len(rows)
Asked(c) == calls[c].op # "idle"
AllIdle == \A c \in Call : ~Asked(c)
Blocking == {"change", "grant", "remove"}

(* Array.splice with one element, and without. *)
Put(s, i, o) == IF i <= Len(s) THEN [s EXCEPT ![i] = o] ELSE Append(s, o)
Cut(s, i) == IF i <= Len(s) THEN SubSeq(s, 1, i - 1) \o SubSeq(s, i + 1, Len(s)) ELSE s

(* A new object: the first that neither the list nor a callback refers to. *)
InUse == {rows[i] : i \in Place} \cup {calls[c].object : c \in {d \in Call : Asked(d)}}
             \cup (IF dialog = NoDialog THEN {} ELSE {dialog.object})
Fresh(o) == o \in Object \ InUse /\ \A p \in Object \ InUse : o <= p

(* What is no longer referred to is forgotten. *)
Keep(h, s, k, d) ==
    heap' = [o \in Object |->
                IF \/ \E i \in 1..Len(s) : s[i] = o
                   \/ \E c \in Call : k[c].op # "idle" /\ k[c].object = o
                   \/ d # NoDialog /\ d.object = o
                THEN h[o] ELSE NoRow]

OneOwner == Cardinality({i \in Place : Entry(i).access = "owner"}) = 1

(* No request is about s, and none holds an index that cutting at i shifts. *)
NoneAbout(s) == \A c \in Call : Asked(c) => calls[c].who # s
NoneBelow(c, i) ==
    /\ \A d \in Call \ {c} : Asked(d) => calls[d].index < i
    /\ dialog # NoDialog => dialog.index < i

-----------------------------------------------------------------------------
(* Buttons. *)

Clickable == open /\ ~processing /\ dialog = NoDialog

(* Style sheets keep the mouse off busy rows and disabled choices. *)
RowClickable(i) == Clickable /\ ~Entry(i).loading

Offered(i, a) ==
    /\ Entry(i).access # a /\ (a = "view" => Entry(i).access # "none")
    /\ a = "owner" => selfLevel = "owner" /\ Entry(i).who.type = "user"
    /\ a = "edit" => selfLevel \in {"owner", "edit"}
    /\ ~(Entry(i).access = "owner" /\ OneOwner)
    /\ Entry(i).who # User(holder)

Post(c, op, who, to, o, i) ==
    /\ ~Asked(c)
    /\ asked < MaxAsked /\ asked' = asked + 1
    /\ calls' = [calls EXCEPT ![c] = [op |-> op, who |-> who, to |-> to, object |-> o,
                                      index |-> i, heard |-> TRUE, answer |-> "waiting"]]

(* The row at index i becomes object o and shows that it is busy. *)
MarkLoading(o, i) ==
    /\ rows' = Put(rows, i, o)
    /\ Keep([heap EXCEPT ![o].loading = TRUE], rows', calls', dialog')

(* Changing the row of a group with the number of the user at the page      *)
(* mixes up the two: selfAccessLevel becomes what the group was given.      *)
MixedUp(s) == s.id = Self /\ s # User(Self)

ChangeAccess(c, o, i, a) ==
    /\ Post(c, "change", heap[o].who, a, o, i)
    /\ MarkLoading(o, i)
    /\ processing' = TRUE
    /\ orderly' = (orderly /\ NoneAbout(heap[o].who) /\ ~MixedUp(heap[o].who))
    /\ UNCHANGED <<selfLevel, holder, changing, open, server>>

RemoveAccess(c, o, i) ==
    /\ Post(c, "remove", heap[o].who, "none", o, i)
    /\ MarkLoading(o, i)
    /\ processing' = TRUE
    /\ orderly' = (orderly /\ NoneAbout(heap[o].who))
    /\ UNCHANGED <<selfLevel, holder, changing, open, server>>

(* Reducing one's own ownership, or leaving the resource, is confirmed first. *)
ShowDialog(op, i, a) ==
    /\ dialog' = [op |-> op, object |-> rows[i], index |-> i, to |-> a]
    /\ orderly' = (orderly /\ NoneAbout(Entry(i).who))
    /\ UNCHANGED <<rows, heap, selfLevel, holder, processing, changing, open, calls, asked, server>>

OnChangeAccess(c, i, a) ==
    /\ RowClickable(i) /\ Offered(i, a)
    /\ IF Entry(i).who.id = Self /\ Entry(i).access = "owner"
       THEN ShowDialog("change", i, a)
       ELSE dialog' = dialog /\ ChangeAccess(c, rows[i], i, a)

OnRemove(c, i) ==
    /\ RowClickable(i)
    /\ ~(Entry(i).access = "owner" /\ OneOwner)
    /\ Entry(i).who.id # holder
    /\ selfLevel = "owner" \/ Entry(i).who.id = Self
    /\ IF Entry(i).who.id = Self
       THEN ShowDialog("remove", i, "none")
       ELSE dialog' = dialog /\ RemoveAccess(c, rows[i], i)

Confirm(c) ==
    /\ open /\ dialog # NoDialog
    /\ dialog' = NoDialog
    /\ \/ dialog.op = "change" /\ ChangeAccess(c, dialog.object, dialog.index, dialog.to)
       \/ dialog.op = "remove" /\ RemoveAccess(c, dialog.object, dialog.index)

Cancel ==
    /\ open /\ dialog # NoDialog
    /\ dialog' = NoDialog
    /\ Keep(heap, rows, calls, dialog')
    /\ UNCHANGED <<rows, selfLevel, holder, processing, changing, open, calls, asked, server, orderly>>

(* Undo does not block the panel.  Undoing a change of one's own access     *)
(* leaves selfAccessLevel behind, which counts as a disturbance.            *)
UndoAccess(c, i) ==
    /\ RowClickable(i)
    /\ Entry(i).undo /\ holder # Entry(i).who.id
    /\ Post(c, "undo", Entry(i).who, "none", rows[i], i)
    /\ dialog' = dialog
    /\ MarkLoading(rows[i], i)
    /\ orderly' = (orderly /\ NoneAbout(Entry(i).who) /\ Entry(i).who # User(Self))
    /\ UNCHANGED <<selfLevel, holder, processing, changing, open, server>>

(* The row to update is sought by id alone: its object is the first with    *)
(* that id and its index the last.                                          *)
SameId(s) == {i \in Place : Entry(i).who.id = s.id}
First(I) == CHOOSE i \in I : \A j \in I : i <= j
Last(I) == CHOOSE i \in I : \A j \in I : j <= i

GrantAccess(c, s, a) ==
    /\ Clickable
    /\ dialog' = dialog
    /\ processing' = TRUE
    /\ orderly' = (orderly /\ NoneAbout(s) /\ \A i \in SameId(s) : Entry(i).who = s /\ ~MixedUp(s))
    /\ \/ /\ SameId(s) = {}
          /\ Post(c, "grant", s, a, NoObject, 0)
          /\ UNCHANGED <<rows, heap>>
       \/ /\ SameId(s) # {}
          /\ Entry(First(SameId(s))).access # a
          /\ Post(c, "grant", s, a, rows[First(SameId(s))], Last(SameId(s)))
          /\ MarkLoading(rows[First(SameId(s))], Last(SameId(s)))
    /\ UNCHANGED <<selfLevel, holder, changing, open, server>>

SetQuotaHolder(c, i) ==
    /\ Clickable /\ ~changing
    /\ selfLevel = "owner" /\ ~OneOwner
    /\ Entry(i).who.type = "user" /\ Entry(i).access = "owner"
    /\ Post(c, "holder", Entry(i).who, "none", NoObject, 0)
    /\ orderly' = (orderly /\ NoneAbout(Entry(i).who))
    /\ changing' = TRUE
    /\ UNCHANGED <<rows, heap, selfLevel, holder, processing, dialog, open, server>>

-----------------------------------------------------------------------------
(* The server: a request is refused, or carried out.  Its rules are those   *)
(* of ResourceSharing.                                                      *)

Refused(c) == UNCHANGED server

(* Mutant: what was undone can be undone again. *)
UndoableAlways(s) == TRUE

Undoable(s) == was[s] # "no"

(* What the effective access of s may be when the explicit one is a.  Only  *)
(* owners are owners, and nobody loses all access to a flag.                *)
Effective(s, a) ==
    IF a = "owner" \/ s \notin {User(p) : p \in Outside} \cup {Group(g) : g \in Nested} THEN {a}
    ELSE {b \in Access \ {"owner"} : b = "none" => a = "none"}

(* The user's own effective access, as some request finds it. *)
OwnAccess == Effective(User(Self), access[User(Self)])

(* Request c is carried out and a is answered: the access that was asked    *)
(* for, the effective access after an undo, and after a removal whether the *)
(* user at the page has any access left.                                    *)
Done(c, a) ==
    LET s == calls[c].who IN
    /\ OwnAccess # {"none"}
    /\ \/ /\ calls[c].op \in {"change", "grant"}
          /\ s = User(charged) => calls[c].to = "owner"
          /\ calls[c].to = "owner" => s.type = "user" /\ access[User(Self)] = "owner"
          /\ access' = [access EXCEPT ![s] = calls[c].to]
          /\ was' = [was EXCEPT ![s] = access[s]]
          /\ a = calls[c].to
          /\ UNCHANGED charged
       \/ /\ calls[c].op = "undo"
          /\ Undoable(s)
          /\ access' = [access EXCEPT ![s] = was[s]]
          /\ was' = [was EXCEPT ![s] = "no"]
          /\ a \in Effective(s, was[s])
          /\ UNCHANGED charged
       \/ /\ calls[c].op = "remove"
          /\ s # User(charged) /\ Effective(s, access[s]) # {"none"}
          /\ access' = [access EXCEPT ![s] = "none"]
          /\ was' = [was EXCEPT ![s] = "no"]
          /\ \/ a = "none" /\ OwnAccess' # {"none"}
             \/ a = "leave" /\ "none" \in OwnAccess'
          /\ UNCHANGED charged
       \/ /\ calls[c].op = "holder"
          /\ access[s] = "owner" /\ a = "owner"
          /\ charged' = s.id
          /\ UNCHANGED <<access, was>>

Reply(c, a) ==
    /\ calls' = [calls EXCEPT ![c] = IF @.heard THEN [@ EXCEPT !.answer = a] ELSE Idle]
    /\ Keep(heap, rows, calls', dialog)
    /\ UNCHANGED <<rows, selfLevel, holder, processing, changing, dialog, open, asked, orderly>>

Serve(c) ==
    /\ Asked(c) /\ calls[c].answer = "waiting"
    /\ \/ Refused(c) /\ Reply(c, "error")
       \/ \E a \in Access \cup {"leave"} : Done(c, a) /\ Reply(c, a)

-----------------------------------------------------------------------------
(* Callbacks. *)

Answered(c) ==
    /\ open /\ Asked(c) /\ calls[c].heard /\ calls[c].answer # "waiting"
    /\ calls' = [calls EXCEPT ![c] = Idle]
    /\ UNCHANGED <<dialog, asked, server>>

Updated(h, s) == rows' = s /\ Keep(h, s, calls', dialog)

(* Mutant: a refusal gives the row back and leaves the panel blocked. *)
RestoredStaysBusy(c) ==
    /\ calls[c].answer = "error"
    /\ IF calls[c].object = NoObject
       THEN Updated(heap, rows)
       ELSE Updated([heap EXCEPT ![calls[c].object].loading = FALSE],
                    Put(rows, calls[c].index, calls[c].object))
    /\ UNCHANGED <<selfLevel, open, processing>>

(* The row as it was comes back when the request was refused. *)
Restored(c) ==
    /\ calls[c].answer = "error"
    /\ IF calls[c].object = NoObject
       THEN Updated(heap, rows)
       ELSE Updated([heap EXCEPT ![calls[c].object].loading = FALSE],
                    Put(rows, calls[c].index, calls[c].object))
    /\ processing' = FALSE
    /\ UNCHANGED <<selfLevel, open>>

(* A page instead of JSON: the row keeps showing that it is busy. *)
Unreadable(c) ==
    /\ calls[c].answer = "garbled"
    /\ Updated(heap, rows)
    /\ processing' = FALSE
    /\ UNCHANGED <<selfLevel, open>>

OwnLevel(s, a) == selfLevel' = IF s.id = Self THEN a ELSE selfLevel

(* What the server sends replaces the row. *)
Replaced(c) ==
    /\ calls[c].answer \in Level
    /\ \E o \in Object :
          /\ Fresh(o)
          /\ Updated([heap EXCEPT ![o] = [who |-> calls[c].who, access |-> calls[c].to,
                                          undo |-> TRUE, loading |-> FALSE]],
                     Put(rows, calls[c].index, o))
    /\ OwnLevel(calls[c].who, calls[c].to)
    /\ processing' = FALSE
    /\ UNCHANGED open

ChangeAnswered(c) ==
    /\ Answered(c) /\ calls[c].op = "change"
    /\ Replaced(c) \/ Restored(c) \/ Unreadable(c)
    /\ UNCHANGED <<holder, changing, orderly>>

Granted(c) ==
    LET o == calls[c].object IN
    /\ calls[c].answer \in Level
    /\ processing' = FALSE
    /\ UNCHANGED open
    /\ IF o = NoObject
       THEN /\ \E n \in Object :
                  /\ Fresh(n)
                  /\ Updated([heap EXCEPT ![n] = [who |-> calls[c].who, access |-> calls[c].to,
                                                  undo |-> TRUE, loading |-> FALSE]],
                             Append(rows, n))
            /\ UNCHANGED selfLevel
       ELSE /\ Updated([heap EXCEPT ![o].access = calls[c].to, ![o].loading = FALSE],
                       Put(rows, calls[c].index, o))
            /\ OwnLevel(heap[o].who, calls[c].to)

GrantAnswered(c) ==
    /\ Answered(c) /\ calls[c].op = "grant"
    /\ Granted(c) \/ Restored(c) \/ Unreadable(c)
    /\ UNCHANGED <<holder, changing, orderly>>

(* Mutant: an undone row is shown even when no access is left. *)
UndoneShown(c) ==
    LET o == calls[c].object
        h == [heap EXCEPT ![o].access = calls[c].answer, ![o].undo = FALSE] IN
    /\ calls[c].answer \in Access
    /\ Updated([h EXCEPT ![o].loading = FALSE], Put(rows, calls[c].index, o))
    /\ processing' = FALSE
    /\ UNCHANGED <<selfLevel, open, orderly>>

(* When nothing is left to show, the row is cut out and the callback ends. *)
Undone(c) ==
    LET o == calls[c].object
        h == [heap EXCEPT ![o].access = calls[c].answer, ![o].undo = FALSE] IN
    /\ calls[c].answer \in Access
    /\ IF calls[c].answer = "none"
       THEN /\ Updated(h, Cut(rows, calls[c].index))
            /\ orderly' = (orderly /\ NoneBelow(c, calls[c].index))
            /\ UNCHANGED processing
       ELSE /\ Updated([h EXCEPT ![o].loading = FALSE], Put(rows, calls[c].index, o))
            /\ processing' = FALSE
            /\ UNCHANGED orderly
    /\ UNCHANGED <<selfLevel, open>>

UndoAnswered(c) ==
    /\ Answered(c) /\ calls[c].op = "undo"
    /\ Undone(c) \/ (Restored(c) /\ UNCHANGED orderly)
    /\ UNCHANGED <<holder, changing>>

(* Mutant: the answer to a removal leaves the panel blocked. *)
RemovedStaysBusy(c) ==
    /\ calls[c].answer \in {"none", "leave"}
    /\ Updated(heap, Cut(rows, calls[c].index))
    /\ orderly' = (orderly /\ NoneBelow(c, calls[c].index) /\ calls[c].who # User(Self))
    /\ open' = (calls[c].answer = "none")
    /\ UNCHANGED <<selfLevel, processing>>

(* Who has no access left is sent to another page.  Who removes oneself and *)
(* keeps access through a group stays, with the selfAccessLevel of before,  *)
(* which counts as a disturbance.                                           *)
Removed(c) ==
    /\ calls[c].answer \in {"none", "leave"}
    /\ Updated(heap, Cut(rows, calls[c].index))
    /\ orderly' = (orderly /\ NoneBelow(c, calls[c].index) /\ calls[c].who # User(Self))
    /\ processing' = FALSE
    /\ open' = (calls[c].answer = "none")
    /\ UNCHANGED selfLevel

RemoveAnswered(c) ==
    /\ Answered(c) /\ calls[c].op = "remove"
    /\ Removed(c) \/ (Restored(c) /\ UNCHANGED orderly)
    /\ UNCHANGED <<holder, changing>>

(* The row of the new holder is sought when the answer arrives; when it is   *)
(* gone the callback fails: the page keeps the old holder and stays busy.   *)
HolderAnswered(c) ==
    LET found == {i \in Place : Entry(i).who = calls[c].who} IN
    /\ Answered(c) /\ calls[c].op = "holder"
    /\ IF calls[c].answer = "error" \/ found = {}
       THEN Updated(heap, rows) /\ UNCHANGED holder
       ELSE /\ Updated([heap EXCEPT ![rows[First(found)]].undo = FALSE], rows)
            /\ holder' = calls[c].who.id
    /\ changing' = (calls[c].answer # "error" /\ found = {})
    /\ UNCHANGED <<selfLevel, processing, open, orderly>>

Answer(c) ==
    \/ ChangeAnswered(c) \/ GrantAnswered(c) \/ UndoAnswered(c)
    \/ RemoveAnswered(c) \/ HolderAnswered(c)

-----------------------------------------------------------------------------
(* What goes wrong between page and server. *)

(* No callback runs after a failed request: nothing handles the failure.     *)
Fail(c) ==
    /\ open /\ Asked(c) /\ calls[c].heard
    /\ calls' = [calls EXCEPT ![c] = Idle]
    /\ Keep(heap, rows, calls', dialog)
    /\ orderly' = FALSE
    /\ UNCHANGED <<rows, selfLevel, holder, processing, changing, dialog, open, asked, server>>

(* An answer that is not JSON. *)
Garble(c) ==
    /\ open /\ Asked(c) /\ calls[c].heard /\ calls[c].answer = "waiting"
    /\ calls[c].op \in {"change", "grant"}
    /\ calls' = [calls EXCEPT ![c].answer = "garbled"]
    /\ orderly' = FALSE
    /\ UNCHANGED <<page, asked, server>>

(* What a loaded page may show of each user and group, "none" if nothing:   *)
(* of users the explicit access, of groups the effective one.               *)
Shown(s) == IF s.type = "user" THEN {access[s]} ELSE Effective(s, access[s])
Views == {v \in [Subject -> Access] : \A s \in Subject : v[s] \in Shown(s)}
Listing(v) == {s \in Subject : v[s] # "none"}

(* The rows that the server sends with the page, held by the objects f. *)
Loaded(v, order, f) ==
    /\ rows' = f
    /\ heap' = [o \in Object |->
                  IF \E i \in DOMAIN f : f[i] = o
                  THEN LET s == order[CHOOSE i \in DOMAIN f : f[i] = o]
                       IN  [who |-> s, access |-> v[s],
                            undo |-> Undoable(s), loading |-> FALSE]
                  ELSE NoRow]

Injective(f) == \A i, j \in DOMAIN f : f[i] = f[j] => i = j

(* One of a set: which order and which objects makes no difference. *)
OneOf(S) == IF \E x \in S : TRUE THEN {CHOOSE x \in S : TRUE} ELSE {}
Orders(S) == {f \in [1..Cardinality(S) -> S] :
                 Injective(f) /\ \A s \in S : \E i \in DOMAIN f : f[i] = s}
Holdings(S) == {f \in [1..Cardinality(S) -> Object] : Injective(f)}

(* The page is loaded again: nobody hears the answers any more, though the  *)
(* server may still carry out what it was asked.                            *)
Load ==
    /\ selfLevel' \in OwnAccess \ {"none"}
    /\ calls' = [c \in Call |-> IF Asked(c) /\ calls[c].answer = "waiting"
                                THEN [calls[c] EXCEPT !.heard = FALSE, !.object = NoObject]
                                ELSE Idle]
    /\ \E v \in Views :
          \E order \in OneOf(Orders(Listing(v))), f \in OneOf(Holdings(Listing(v))) :
              Loaded(v, order, f)
    /\ holder' = charged
    /\ processing' = FALSE /\ changing' = FALSE /\ dialog' = NoDialog /\ open' = TRUE
    /\ orderly' = \A c \in Call : calls'[c] = Idle
    /\ UNCHANGED <<asked, server>>

-----------------------------------------------------------------------------
(* The page is first opened by the only owner, who pays for the resource. *)
Init ==
    /\ access \in {f \in [Subject -> Access] :
                      \A s \in Subject : f[s] = "owner" <=> s = User(Self)}
    /\ was = [s \in Subject |-> "no"]
    /\ charged = Self
    /\ rows = <<>> /\ heap = [o \in Object |-> NoRow]
    /\ selfLevel = "none" /\ holder = Self
    /\ processing = FALSE /\ changing = FALSE /\ dialog = NoDialog /\ open = FALSE
    /\ calls = [c \in Call |-> Idle] /\ asked = 0
    /\ orderly = TRUE

Click(c) ==
    \/ \E i \in Place : \/ \E a \in Level : OnChangeAccess(c, i, a)
                       \/ OnRemove(c, i) \/ UndoAccess(c, i) \/ SetQuotaHolder(c, i)
    \/ \E s \in Subject, a \in Level : GrantAccess(c, s, a)
    \/ Confirm(c)

Next ==
    \/ Load \/ Cancel
    \/ \E c \in Call : Click(c) \/ Serve(c) \/ Answer(c) \/ Fail(c) \/ Garble(c)

Spec == Init /\ [][Next]_vars

(* The server gets to every request and the browser runs every callback. *)
FairSpec == Spec /\ \A c \in Call : WF_vars(Serve(c)) /\ WF_vars(Answer(c))

-----------------------------------------------------------------------------
PanelTypeOK ==
    /\ rows \in Seq(Object) /\ heap \in [Object -> Row]
    /\ selfLevel \in Access /\ holder \in Person
    /\ processing \in BOOLEAN /\ changing \in BOOLEAN /\ open \in BOOLEAN /\ orderly \in BOOLEAN
    /\ dialog \in Dialog \cup {NoDialog}
    /\ calls \in [Call -> Request \cup {Idle}] /\ asked \in 0..MaxAsked
    /\ access \in [Subject -> Access] /\ was \in [Subject -> Access \cup {"no"}]
    /\ charged \in Person

Undisturbed == open /\ orderly /\ AllIdle

(* The truth about s that a row may show: of a group the effective access,  *)
(* of a user the explicit one or, when an undo may have been the last       *)
(* request about s, an effective one.                                       *)
Truth(s) == {a \in Effective(s, access[s]) :
                s.type = "user" /\ Undoable(s) => a = access[s]}

(* At rest, a panel that nothing has disturbed tells the truth.  It lists   *)
(* every user and group with explicit access, once each, and nobody without *)
(* any access.  The row of a user shows the explicit access, except that    *)
(* undo shows what access groups and flags leave; the row of a group shows  *)
(* no more and no less than communities and flags may make of the explicit  *)
(* one.  A row offers to undo only what can be undone, none is shown as     *)
(* busy, and the page knows its own user's effective access and the quota   *)
(* holder.                                                                  *)
PanelTrueAtRest ==
    Undisturbed =>
        /\ \A i, j \in Place : Entry(i).who = Entry(j).who => i = j
        /\ Listing(access) \subseteq {Entry(i).who : i \in Place}
        /\ \A i \in Place : /\ Entry(i).access \in Truth(Entry(i).who) \ {"none"}
                            /\ Entry(i).undo => Undoable(Entry(i).who)
                            /\ ~Entry(i).loading
        /\ selfLevel \in OwnAccess /\ holder = charged

(* The panel never stays blocked: while it is, a request that blocks it is  *)
(* under way, unless something disturbed it.                                *)
BlockedOnlyWhileAsked ==
    open /\ orderly /\ processing => \E c \in Call : calls[c].op \in Blocking

(* "An entry was found, update the data": the entry that a grant found is    *)
(* the entry of the user or group that is granted access.                   *)
GrantFindsItsRow ==
    \A c \in Call : calls[c].op = "grant" /\ calls[c].object # NoObject
                      => heap[calls[c].object].who = calls[c].who

(* A blocked panel is freed again, or else something disturbed it: nothing  *)
(* frees it after a request that failed.                                    *)
PanelFreed == [](processing => <>(~processing \/ ~orderly))
=============================================================================
