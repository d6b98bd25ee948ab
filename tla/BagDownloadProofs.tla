------------------------- MODULE BagDownloadProofs -------------------------
(***************************************************************************)
(* What downloads are sent, and what the flags of a bag mean: proved for   *)
(* any number of pages, tasks, edits and failures.                         *)
(***************************************************************************)
EXTENDS BagDownload, TLAPS

(* An edit in progress has been counted, a page that is told of a task is    *)
(* told of one, and no request remembers more edits than there were.         *)
TypeInv ==
    /\ TypeOK
    /\ editor # "idle" => content > 0
    /\ \A t \in Tab : tab[t].at \in {"answer", "polling"} => tab[t].task \in Task
    /\ \A t \in Tab : tab[t].since <= content

Current == bag = NoBag \/ (bag.files = content /\ bag.xml = content)

(* As long as no edit overlaps with bagging: metadata files that are not     *)
(* dirty, or about to be called clean or zipped, are current; so is the bag  *)
(* when it is about to be called clean, and when it is called clean, but for *)
(* the edit in progress.                                                     *)
StorageInv ==
    ~overlapped =>
        /\ Bagging => editor = "idle"
        /\ editor = "flagged" => modified
        /\ editor = "idle" /\ ~dirty => xml = content
        /\ \A k \in Task : task[k] \in {"clean", "zip"} => xml = content
        /\ \A t \in Tab : tab[t].at = "clean" => xml = content
        /\ \A k \in Task : task[k] = "flag" => Current
        /\ editor = "idle" /\ ~modified => Current
        /\ editor = "saved" /\ ~modified =>
              bag = NoBag \/ (bag.files >= content - 1 /\ bag.xml >= content - 1)

(* A request that has found the flag clear. *)
Trusting(t) == tab[t].at = "stream" \/ (tab[t].at = "check" /\ ~tab[t].modified)

ServedInv ==
    ~overlapped =>
        \A t \in Tab : Trusting(t) /\ bag # NoBag =>
            bag.files >= tab[t].since /\ bag.xml >= tab[t].since

MissingInv == \A t \in Tab : Trusting(t) /\ bag = NoBag => tab[t].failed

BagInv == TypeInv /\ StorageInv /\ ServedInv /\ MissingInv

-----------------------------------------------------------------------------
(* Types. *)

LEMMA FreshRequest == NoRequest \in Request /\ NoRequest.since = 0
BY BoundsAssumption DEF NoRequest, Request, Undecided

LEMMA AskRequest ==
    ASSUME NEW m \in BOOLEAN, NEW n \in 0..MaxEdits
    PROVE  LET new == [NoRequest EXCEPT !.at = "check", !.modified = m, !.since = n] IN
           new \in Request /\ new.at = "check" /\ new.modified = m /\ new.since = n
<1>1. ASSUME NEW r, r \in Request
      PROVE  LET new == [r EXCEPT !.at = "check", !.modified = m, !.since = n] IN
             new \in Request /\ new.at = "check" /\ new.modified = m /\ new.since = n
  BY <1>1 DEF Request, Undecided
<1> QED
  BY <1>1, FreshRequest

LEMMA CompleteType ==
    ASSUME TypeInv
    PROVE  Complete \in 0..MaxEdits /\ Complete <= content
BY BoundsAssumption DEF TypeInv, TypeOK, Complete

(* What a change of the requests has to keep, when nothing is edited. *)
RequestsTyped ==
    /\ tab \in [Tab -> Request]
    /\ \A t \in Tab : tab[t].at \in {"answer", "polling"} => tab[t].task \in Task
    /\ \A t \in Tab : tab[t].since <= content

LEMMA GoTyped ==
    ASSUME TypeInv, content' = content, NEW t \in Tab,
           NEW step \in {"idle", "generate", "clean", "active", "queue", "make", "turned"},
           Go(t, step)
    PROVE  RequestsTyped'
<1>1. [NoRequest EXCEPT !.at = step] \in Request
  BY FreshRequest DEF Request
<1>2. /\ [NoRequest EXCEPT !.at = step].at = step
      /\ [NoRequest EXCEPT !.at = step].since = 0
  BY DEF NoRequest
<1> QED
  BY <1>1, <1>2 DEF Go, TypeInv, TypeOK, RequestsTyped

LEMMA AskTyped ==
    ASSUME TypeInv, NEW t \in Tab, Ask(t)
    PROVE  RequestsTyped'
<1> DEFINE m == modified \/ bag = NoBag
           new == [NoRequest EXCEPT !.at = "check", !.modified = m, !.since = Complete]
<1>1. Complete \in 0..MaxEdits /\ Complete <= content
  BY CompleteType
<1>2. m \in BOOLEAN
  OBVIOUS
<1>3. tab' = [tab EXCEPT ![t] = new] /\ content' = content
  BY DEF Ask, edits
<1> HIDE DEF m
<1>4. new \in Request /\ new.at = "check" /\ new.since = Complete
  BY <1>1, <1>2, AskRequest
<1> HIDE DEF new
<1> QED
  BY <1>1, <1>3, <1>4 DEF TypeInv, TypeOK, RequestsTyped

LEMMA RequestTypes ==
    ASSUME TypeInv, NEW t \in Tab,
           PressDownload(t) \/ Serve(t) \/ LoadPage(t) \/ Poll(t)
    PROVE  RequestsTyped' /\ content' = content /\ editor' = editor
<1>1. content' = content /\ editor' = editor
  BY DEF PressDownload, Serve, LoadPage, Poll, Ask, CheckDirty, RequestGenerates,
         RequestCleans, LookAtActive, LookAtQueued, LookAt, MakeTask, Answer, Stream,
         PollPending, PollReady, PollFailed, edits
<1>2. CASE Ask(t)
  BY <1>2, <1>1, AskTyped
<1>3. ASSUME NEW step \in {"idle", "generate", "clean", "active", "queue", "make", "turned"},
             Go(t, step)
      PROVE  RequestsTyped'
  BY <1>1, <1>3, GoTyped
<1>4. ASSUME tab' = [tab EXCEPT ![t].at = "stream"]
      PROVE  RequestsTyped'
  <2>1. [tab[t] EXCEPT !.at = "stream"] \in Request
    BY DEF TypeInv, TypeOK, Request, Undecided
  <2>2. [tab[t] EXCEPT !.at = "stream"].at = "stream"
    BY DEF TypeInv, TypeOK, Request
  <2>3. [tab[t] EXCEPT !.at = "stream"].since = tab[t].since
    BY DEF TypeInv, TypeOK, Request
  <2> QED
    BY <1>1, <1>4, <2>1, <2>2, <2>3 DEF TypeInv, TypeOK, RequestsTyped
<1>5. ASSUME NEW k \in Task, tab' = [tab EXCEPT ![t].at = "answer", ![t].task = k]
      PROVE  RequestsTyped'
  <2> DEFINE new == [tab[t] EXCEPT !.at = "answer", !.task = k]
  <2>1. new \in Request /\ new.task = k /\ new.since = tab[t].since
    BY DEF TypeInv, TypeOK, Request
  <2>2. tab' = [tab EXCEPT ![t] = new]
    BY <1>5 DEF TypeInv, TypeOK
  <2> HIDE DEF new
  <2> QED
    BY <1>1, <2>1, <2>2 DEF TypeInv, TypeOK, RequestsTyped
<1>6. ASSUME NEW k \in Task,
             tab' = [tab EXCEPT ![t] = [NoRequest EXCEPT !.at = "polling", !.task = k]]
      PROVE  RequestsTyped'
  <2> DEFINE new == [NoRequest EXCEPT !.at = "polling", !.task = k]
  <2>1. new \in Request /\ new.task = k /\ new.since = 0
    BY FreshRequest DEF Request, NoRequest
  <2> HIDE DEF new
  <2>2. tab' = [tab EXCEPT ![t] = new]
    BY <1>6 DEF new
  <2> QED
    BY <1>1, <2>1, <2>2 DEF TypeInv, TypeOK, RequestsTyped
<1>7. CASE CheckDirty(t)
  BY <1>1, <1>3, <1>4, <1>7 DEF CheckDirty
<1>8. CASE RequestGenerates(t) \/ RequestCleans(t) \/ Answer(t) \/ Stream(t) \/ PollFailed(t)
  BY <1>1, <1>3, <1>8 DEF RequestGenerates, RequestCleans, Answer, Stream, PollFailed
<1>9. CASE LookAtActive(t) \/ LookAtQueued(t)
  BY <1>1, <1>3, <1>5, <1>9 DEF LookAtActive, LookAtQueued, LookAt, Found
<1>10. CASE \E k \in Task : MakeTask(t, k)
  BY <1>1, <1>5, <1>10 DEF MakeTask
<1>11. CASE LoadPage(t)
  BY <1>1, <1>3, <1>6, <1>11 DEF LoadPage, TypeInv, TypeOK
<1>12. CASE PollPending(t)
  BY <1>1, <1>12 DEF PollPending, page, TypeInv, TypeOK, RequestsTyped
<1> QED
  BY <1>1, <1>2, <1>7, <1>8, <1>9, <1>10, <1>11, <1>12
     DEF PressDownload, Serve, Poll, PollReady

LEMMA StorageTypes ==
    ASSUME TypeInv, Next
    PROVE  /\ content' \in 0..MaxEdits /\ editor' \in {"idle", "saved", "flagged"}
           /\ editor' # "idle" => content' > 0
           /\ content' >= content
           /\ xml' \in 0..MaxEdits /\ bag' \in Bag
           /\ modified' \in BOOLEAN /\ dirty' \in BOOLEAN /\ overlapped' \in BOOLEAN
<1>1. CASE Edit
  <2>1. CASE SaveEdit
    BY <1>1, <2>1, BoundsAssumption DEF SaveEdit, storage, TypeInv, TypeOK
  <2>2. CASE SetModified
    BY <2>2 DEF SetModified, history, TypeInv, TypeOK
  <2>3. CASE SetDirty
    BY <2>3 DEF SetDirty, history, TypeInv, TypeOK
  <2> QED
    BY <1>1, <2>1, <2>2, <2>3 DEF Edit
<1>2. ASSUME NEW k \in Task, Run(k) PROVE
           /\ UNCHANGED edits
           /\ xml' \in 0..MaxEdits /\ bag' \in Bag
           /\ modified' \in BOOLEAN /\ dirty' \in BOOLEAN /\ overlapped' \in BOOLEAN
  <2>1. NoBag \in Bag
    BY DEF Bag
  <2>2. [files |-> content, xml |-> xml] \in Bag
    BY DEF Bag, TypeInv, TypeOK
  <2> QED
    BY <1>2, <2>1, <2>2
       DEF Run, Fetch, Begin, ReadDirty, GenerateFiles, CleanFiles, ZipUp, ClearModified,
           Fail, Failing, edits, storage, history, TypeInv, TypeOK
<1>3. ASSUME NEW t \in Tab, PressDownload(t) \/ Serve(t) \/ LoadPage(t) \/ Poll(t) PROVE
           /\ UNCHANGED edits
           /\ xml' \in 0..MaxEdits /\ bag' \in Bag
           /\ modified' \in BOOLEAN /\ dirty' \in BOOLEAN /\ overlapped' \in BOOLEAN
  BY <1>3
     DEF PressDownload, Serve, LoadPage, Poll, Ask, CheckDirty, RequestGenerates,
         RequestCleans, LookAtActive, LookAtQueued, LookAt, MakeTask, Answer, Stream,
         PollPending, PollReady, PollFailed, edits, storage, history, TypeInv, TypeOK
<1> QED
  BY <1>1, <1>2, <1>3 DEF Next, edits, TypeInv, TypeOK

LEMMA OtherRequests ==
    ASSUME TypeInv, Edit \/ \E k \in Task : Run(k), content' \in 0..MaxEdits,
           content' >= content
    PROVE  RequestsTyped'
<1>1. CASE tab' = tab
  <2>1. \A t \in Tab : tab[t].since <= content'
    BY BoundsAssumption DEF TypeInv, TypeOK, Request
  <2> QED
    BY <1>1, <2>1 DEF TypeInv, TypeOK, RequestsTyped
<1>2. ASSUME NEW k \in Task, Failing(k) PROVE RequestsTyped'
  <2>1. content' = content
    BY <1>2 DEF Failing, edits
  <2>2. \A t \in Tab : LET new == [tab[t] EXCEPT !.failed = TRUE] IN
           /\ new \in Request /\ new.since = tab[t].since
           /\ new.at = tab[t].at /\ new.task = tab[t].task
    BY DEF TypeInv, TypeOK, Request
  <2>3. tab' = [t \in Tab |-> IF tab[t].at \notin Undecided THEN tab[t]
                             ELSE [tab[t] EXCEPT !.failed = TRUE]]
    BY <1>2 DEF Failing
  <2> QED
    BY <2>1, <2>2, <2>3 DEF TypeInv, TypeOK, RequestsTyped
<1> QED
  BY <1>1, <1>2 DEF Edit, SaveEdit, SetModified, SetDirty, Run, Fetch, Begin, ReadDirty,
     GenerateFiles, CleanFiles, ZipUp, ClearModified, Fail, page

LEMMA TaskTypes ==
    ASSUME TypeInv, Next
    PROVE  /\ task' \in [Task -> Ended \cup Waiting \cup TaskSteps]
           /\ failures' \in 0..MaxFailures
           /\ session' \in Task \cup {NoTask}
<1>1. CASE Edit
  BY <1>1 DEF Edit, SaveEdit, SetModified, SetDirty, history, page, TypeInv, TypeOK
<1>2. ASSUME NEW k \in Task, Run(k) PROVE
           /\ task' \in [Task -> Ended \cup Waiting \cup TaskSteps]
           /\ failures' \in 0..MaxFailures
           /\ session' \in Task \cup {NoTask}
  BY <1>2, BoundsAssumption
     DEF Run, Fetch, Begin, ReadDirty, GenerateFiles, CleanFiles, ZipUp, ClearModified,
         Fail, Failing, Move, Ended, Waiting, TaskSteps, history, page, TypeInv, TypeOK
<1>3. ASSUME NEW t \in Tab, PressDownload(t) \/ Serve(t) \/ LoadPage(t) \/ Poll(t) PROVE
           /\ task' \in [Task -> Ended \cup Waiting \cup TaskSteps]
           /\ failures' \in 0..MaxFailures
           /\ session' \in Task \cup {NoTask}
  BY <1>3
     DEF PressDownload, Serve, LoadPage, Poll, Ask, CheckDirty, RequestGenerates,
         RequestCleans, LookAtActive, LookAtQueued, LookAt, MakeTask, Answer, Stream,
         PollPending, PollReady, PollFailed, Waiting, history, page, TypeInv, TypeOK
<1> QED
  BY <1>1, <1>2, <1>3 DEF Next

LEMMA InitTyped == Init => TypeInv
<1> SUFFICES ASSUME Init PROVE TypeInv
  OBVIOUS
<1>1. NoRequest \in Request /\ NoRequest.since = 0 /\ NoRequest.at = "idle"
  BY FreshRequest DEF NoRequest
<1>2. tab \in [Tab -> Request] /\ \A t \in Tab : tab[t] = NoRequest
  BY <1>1 DEF Init
<1>3. task \in [Task -> Ended \cup Waiting \cup TaskSteps]
  BY DEF Init, Ended
<1>4. TypeOK
  <2>1. bag \in Bag
    BY DEF Init, Bag
  <2>2. /\ modified \in BOOLEAN /\ dirty \in BOOLEAN /\ overlapped \in BOOLEAN
        /\ session \in Task \cup {NoTask} /\ editor \in {"idle", "saved", "flagged"}
    BY DEF Init
  <2>3. content \in 0..MaxEdits /\ xml \in 0..MaxEdits /\ failures \in 0..MaxFailures
    BY BoundsAssumption DEF Init
  <2> QED
    BY <1>2, <1>3, <2>1, <2>2, <2>3 DEF TypeOK
<1> QED
  BY <1>1, <1>2, <1>4 DEF Init, TypeInv

LEMMA TypeInvInductive == TypeInv /\ [Next]_vars => TypeInv'
<1> SUFFICES ASSUME TypeInv, [Next]_vars PROVE TypeInv'
  OBVIOUS
<1>1. CASE Next
  <2>1. RequestsTyped'
    BY <1>1, RequestTypes, OtherRequests, StorageTypes DEF Next
  <2> QED
    BY <1>1, <2>1, StorageTypes, TaskTypes DEF TypeInv, TypeOK, RequestsTyped
<1>2. CASE UNCHANGED vars
  BY <1>2 DEF vars, edits, storage, page, history, TypeInv, TypeOK, Bag
<1> QED
  BY <1>1, <1>2

(* Every variable keeps its type, however tasks, requests and edits          *)
(* interleave.                                                               *)
THEOREM TypeCorrect == Spec => []TypeOK
<1>1. TypeInv => TypeOK
  BY DEF TypeInv
<1> QED
  BY InitTyped, TypeInvInductive, <1>1, PTL DEF Spec

-----------------------------------------------------------------------------
(* Metadata files, zip file and flags. *)

(* A step that neither touches them nor brings a task or a request any       *)
(* nearer to them.                                                           *)
LEMMA AsideKeeps ==
    ASSUME StorageInv, overlapped' = overlapped, UNCHANGED <<edits, storage>>,
           \A k \in Task : task'[k] \in TaskSteps => task'[k] = task[k],
           \A t \in Tab : tab'[t].at \in {"generate", "clean"} => tab'[t].at = tab[t].at
    PROVE  StorageInv'
<1>1. Bagging' => Bagging
  BY DEF Bagging
<1> QED
  BY <1>1 DEF StorageInv, Current, edits, storage, TaskSteps

LEMMA EditStorage ==
    ASSUME TypeInv, StorageInv, Edit
    PROVE  StorageInv'
<1>1. Bagging' <=> Bagging
  BY DEF Edit, SaveEdit, SetModified, SetDirty, page, Bagging
<1>2. task' = task /\ tab' = tab
  BY DEF Edit, SaveEdit, SetModified, SetDirty, page
<1>3. CASE SaveEdit
  <2>1. ~overlapped' => ~overlapped /\ ~Bagging
    BY <1>3 DEF SaveEdit
  <2>2. ~Bagging =>
          /\ \A k \in Task : task[k] \notin {"clean", "zip", "flag"}
          /\ \A t \in Tab : tab[t].at # "clean"
    BY DEF Bagging, TaskSteps
  <2> QED
    BY <1>1, <1>2, <1>3, <2>1, <2>2
       DEF SaveEdit, StorageInv, Current, storage, TypeInv, TypeOK
<1>4. CASE SetModified
  BY <1>1, <1>2, <1>4 DEF SetModified, StorageInv, Current, history
<1>5. CASE SetDirty
  BY <1>1, <1>2, <1>5 DEF SetDirty, StorageInv, Current, history
<1> QED
  BY <1>3, <1>4, <1>5 DEF Edit

LEMMA TaskStorage ==
    ASSUME TypeInv, StorageInv, NEW k \in Task, Run(k)
    PROVE  StorageInv'
<1>1. CASE Fetch(k)
  BY <1>1, AsideKeeps DEF Fetch, Move, TaskSteps, history, page, TypeInv, TypeOK
<1>2. \A j \in Task : j # k => task'[j] = task[j]
  BY DEF Run, Fetch, Begin, ReadDirty, GenerateFiles, CleanFiles, ZipUp, ClearModified,
         Fail, Failing, Move, TypeInv, TypeOK
<1>3. \A t \in Tab : tab'[t].at = tab[t].at
  <2>1. CASE tab' = tab
    BY <2>1
  <2>2. CASE Failing(k)
    <3>1. \A t \in Tab : [tab[t] EXCEPT !.failed = TRUE].at = tab[t].at
      BY DEF TypeInv, TypeOK, Request
    <3> QED
      BY <2>2, <3>1 DEF Failing
  <2> QED
    BY <2>1, <2>2 DEF Run, Fetch, Begin, ReadDirty, GenerateFiles, CleanFiles, ZipUp,
       ClearModified, Fail, page
<1>4. UNCHANGED edits
  BY DEF Run, Fetch, Begin, ReadDirty, GenerateFiles, CleanFiles, ZipUp, ClearModified,
         Fail, Failing
<1>5. CASE Begin(k)
  <2>1. task'[k] = "begin" /\ (~overlapped' => ~overlapped /\ editor = "idle")
    BY <1>5 DEF Begin, Move, TypeInv, TypeOK
  <2> QED
    BY <1>2, <1>3, <1>4, <1>5, <2>1 DEF Begin, StorageInv, Current, edits, storage
<1>6. ASSUME task[k] \in TaskSteps, overlapped' = overlapped
      PROVE  (~overlapped' => ~overlapped /\ editor' = "idle" /\ editor = "idle")
  BY <1>4, <1>6 DEF StorageInv, Bagging, edits
<1>7. CASE ReadDirty(k)
  <2>1. task[k] = "begin" /\ task'[k] = (IF dirty THEN "generate" ELSE "zip")
    BY <1>7 DEF ReadDirty, Move, TypeInv, TypeOK
  <2> QED
    BY <1>2, <1>3, <1>4, <1>6, <1>7, <2>1
       DEF ReadDirty, StorageInv, Current, edits, storage, history, TaskSteps
<1>8. CASE GenerateFiles(k)
  <2>1. task[k] = "generate" /\ task'[k] = "clean"
    BY <1>8 DEF GenerateFiles, Move, TypeInv, TypeOK
  <2> QED
    BY <1>2, <1>3, <1>4, <1>6, <1>8, <2>1
       DEF GenerateFiles, StorageInv, Current, edits, history, TaskSteps
<1>9. CASE CleanFiles(k)
  <2>1. task[k] = "clean" /\ task'[k] = "zip"
    BY <1>9 DEF CleanFiles, Move, TypeInv, TypeOK
  <2> QED
    BY <1>2, <1>3, <1>4, <1>6, <1>9, <2>1
       DEF CleanFiles, StorageInv, Current, edits, history, TaskSteps
<1>10. CASE ZipUp(k)
  <2>1. task[k] = "zip" /\ task'[k] = "flag"
    BY <1>10 DEF ZipUp, Move, TypeInv, TypeOK
  <2>2. bag'.files = content /\ bag'.xml = xml
    BY <1>10 DEF ZipUp
  <2> QED
    BY <1>2, <1>3, <1>4, <1>6, <1>10, <2>1, <2>2
       DEF ZipUp, StorageInv, Current, edits, history, TaskSteps
<1>11. CASE ClearModified(k)
  <2>1. task[k] = "flag" /\ task'[k] = "done"
    BY <1>11 DEF ClearModified, Move, TypeInv, TypeOK
  <2> QED
    BY <1>2, <1>3, <1>4, <1>6, <1>11, <2>1
       DEF ClearModified, StorageInv, Current, edits, history, TaskSteps
<1>12. CASE Fail(k)
  <2>1. task[k] \in TaskSteps /\ task'[k] = "failed" /\ overlapped' = overlapped
    BY <1>12 DEF Fail, Failing, TaskSteps, TypeInv, TypeOK
  <2>2. CASE UNCHANGED storage
    BY <1>2, <1>3, <1>4, <1>6, <2>1, <2>2 DEF StorageInv, Current, edits, storage
  <2>3. CASE bag' = NoBag /\ UNCHANGED <<xml, modified, dirty>>
    BY <1>2, <1>3, <1>4, <1>6, <2>1, <2>3 DEF StorageInv, Current, NoBag, edits
  <2> QED
    BY <1>12, <2>2, <2>3 DEF Fail
<1> QED
  BY <1>1, <1>5, <1>7, <1>8, <1>9, <1>10, <1>11, <1>12 DEF Run

(* Steps at which a request trusts no flag and makes no files. *)
Plain == {"idle", "active", "queue", "make", "answer", "turned", "polling"}

PlainStep(t) ==
    /\ \A u \in Tab \ {t} : tab'[u] = tab[u]
    /\ tab'[t].at \in Plain \/ tab'[t] = tab[t]

LEMMA GoSteps ==
    ASSUME TypeInv, NEW t \in Tab, NEW step, Go(t, step)
    PROVE  tab'[t].at = step /\ \A u \in Tab \ {t} : tab'[u] = tab[u]
BY DEF Go, NoRequest, TypeInv, TypeOK

(* Most of what pages and requests do is aside. *)
LEMMA PlainSteps ==
    ASSUME TypeInv, NEW t \in Tab,
           \/ LookAtActive(t) \/ LookAtQueued(t) \/ \E k \in Task : MakeTask(t, k)
           \/ Answer(t) \/ Stream(t) \/ LoadPage(t) \/ PollPending(t) \/ PollFailed(t)
    PROVE  /\ PlainStep(t)
           /\ overlapped' = overlapped /\ UNCHANGED <<edits, storage>>
           /\ \A k \in Task : task'[k] \in TaskSteps => task'[k] = task[k]
<1>1. overlapped' = overlapped /\ UNCHANGED <<edits, storage>>
  BY DEF LookAtActive, LookAtQueued, LookAt, MakeTask, Answer, Stream, LoadPage,
         PollPending, PollFailed, history
<1>2. \A k \in Task : task'[k] \in TaskSteps => task'[k] = task[k]
  BY DEF LookAtActive, LookAtQueued, LookAt, MakeTask, Answer, Stream, LoadPage,
         PollPending, PollFailed, TaskSteps, TypeInv, TypeOK
<1>3. ASSUME NEW step \in Plain, Go(t, step) PROVE PlainStep(t)
  BY <1>3, GoSteps DEF PlainStep
<1>4. ASSUME NEW k, tab' = [tab EXCEPT ![t].at = "answer", ![t].task = k]
      PROVE  PlainStep(t)
  BY <1>4 DEF PlainStep, Plain, TypeInv, TypeOK, Request
<1>5. ASSUME NEW k, tab' = [tab EXCEPT ![t] = [NoRequest EXCEPT !.at = "polling", !.task = k]]
      PROVE  PlainStep(t)
  BY <1>5 DEF PlainStep, Plain, NoRequest, TypeInv, TypeOK
<1>6. CASE LookAtActive(t) \/ LookAtQueued(t)
  BY <1>1, <1>2, <1>3, <1>4, <1>6 DEF LookAtActive, LookAtQueued, LookAt, Found, Plain
<1>7. CASE \E k \in Task : MakeTask(t, k)
  BY <1>1, <1>2, <1>4, <1>7 DEF MakeTask
<1>8. CASE Answer(t) \/ Stream(t) \/ PollFailed(t)
  BY <1>1, <1>2, <1>3, <1>8 DEF Answer, Stream, PollFailed, Plain
<1>9. CASE LoadPage(t)
  BY <1>1, <1>2, <1>3, <1>5, <1>9 DEF LoadPage, Plain
<1>10. CASE PollPending(t)
  BY <1>1, <1>2, <1>10 DEF PollPending, page, PlainStep
<1> QED
  BY <1>1, <1>2, <1>6, <1>7, <1>8, <1>9, <1>10

(* What is asked and what is done about the flag that says dirty. *)
LEMMA AskSteps ==
    ASSUME TypeInv, NEW t \in Tab, Ask(t)
    PROVE  /\ \A u \in Tab \ {t} : tab'[u] = tab[u]
           /\ tab'[t].at = "check" /\ tab'[t].since = Complete
           /\ ~tab'[t].modified => ~modified /\ bag # NoBag
<1> DEFINE m == modified \/ bag = NoBag
           new == [NoRequest EXCEPT !.at = "check", !.modified = m, !.since = Complete]
<1>1. m \in BOOLEAN /\ (~m => ~modified /\ bag # NoBag)
  OBVIOUS
<1>2. tab' = [tab EXCEPT ![t] = new]
  BY DEF Ask
<1>3. Complete \in 0..MaxEdits
  BY CompleteType
<1> HIDE DEF m
<1>4. new.at = "check" /\ new.modified = m /\ new.since = Complete
  BY <1>1, <1>3, AskRequest
<1> HIDE DEF new
<1> QED
  BY <1>1, <1>2, <1>4 DEF TypeInv, TypeOK

LEMMA CheckSteps ==
    ASSUME TypeInv, NEW t \in Tab, CheckDirty(t)
    PROVE  /\ \A u \in Tab \ {t} : tab'[u] = tab[u]
           /\ \/ dirty /\ tab'[t].at = "generate"
              \/ tab'[t].at = "active"
              \/ /\ tab[t].at = "check" /\ ~tab[t].modified
                 /\ tab'[t].at = "stream"
                 /\ tab'[t].since = tab[t].since /\ tab'[t].failed = tab[t].failed
<1>1. CASE tab' = [tab EXCEPT ![t].at = "stream"] /\ ~tab[t].modified
  BY <1>1 DEF CheckDirty, TypeInv, TypeOK, Request
<1>2. CASE \/ dirty /\ Go(t, "generate")
           \/ Go(t, "active")
  BY <1>2, GoSteps
<1> QED
  BY <1>1, <1>2 DEF CheckDirty

LEMMA RequestStorage ==
    ASSUME TypeInv, StorageInv, NEW t \in Tab,
           PressDownload(t) \/ Serve(t) \/ LoadPage(t) \/ Poll(t)
    PROVE  StorageInv'
<1>1. CASE \/ LookAtActive(t) \/ LookAtQueued(t) \/ \E k \in Task : MakeTask(t, k)
           \/ Answer(t) \/ Stream(t) \/ LoadPage(t) \/ PollPending(t) \/ PollFailed(t)
  BY <1>1, PlainSteps, AsideKeeps DEF PlainStep, Plain
<1>2. CASE Ask(t)
  BY <1>2, AskSteps, AsideKeeps DEF Ask, history
<1>3. CASE CheckDirty(t)
  <2>1. UNCHANGED <<edits, storage, task>>
    BY <1>3 DEF CheckDirty
  <2>2. ~overlapped' => ~overlapped /\ (dirty => editor = "idle")
    BY <1>3 DEF CheckDirty, TypeInv, TypeOK
  <2>3. Bagging' => Bagging \/ dirty
    BY <1>3, <2>1, CheckSteps DEF Bagging
  <2>4. \A u \in Tab : tab'[u].at = "clean" => tab[u].at = "clean"
    BY <1>3, CheckSteps
  <2> QED
    BY <2>1, <2>2, <2>3, <2>4 DEF StorageInv, Current, edits, storage
<1>4. CASE RequestGenerates(t)
  <2>1. Bagging /\ task' = task /\ overlapped' = overlapped
    BY <1>4 DEF RequestGenerates, Bagging, history
  <2> QED
    BY <1>4, <2>1 DEF RequestGenerates, StorageInv, Current, edits
<1>5. CASE RequestCleans(t)
  <2>1. Bagging /\ task' = task /\ overlapped' = overlapped
    BY <1>5 DEF RequestCleans, Bagging, history
  <2>2. \A u \in Tab : tab'[u].at = "clean" => tab[u].at = "clean"
    BY <1>5, GoSteps DEF RequestCleans
  <2> QED
    BY <1>5, <2>1, <2>2 DEF RequestCleans, StorageInv, Current, edits
<1> QED
  BY <1>1, <1>2, <1>3, <1>4, <1>5 DEF PressDownload, Serve, Poll, PollReady

-----------------------------------------------------------------------------
(* What requests are sent. *)

LEMMA RequestServed ==
    ASSUME TypeInv, StorageInv, ServedInv, MissingInv, NEW t \in Tab,
           PressDownload(t) \/ Serve(t) \/ LoadPage(t) \/ Poll(t)
    PROVE  ServedInv' /\ MissingInv'
<1>1. CASE \/ LookAtActive(t) \/ LookAtQueued(t) \/ \E k \in Task : MakeTask(t, k)
           \/ Answer(t) \/ Stream(t) \/ LoadPage(t) \/ PollPending(t) \/ PollFailed(t)
  <2>1. \A u \in Tab : Trusting(u)' => tab'[u] = tab[u]
    BY <1>1, PlainSteps DEF PlainStep, Plain, Trusting
  <2> QED
    BY <1>1, <2>1, PlainSteps DEF ServedInv, MissingInv, Trusting, storage
<1>2. CASE Ask(t)
  <2>1. UNCHANGED <<edits, storage>> /\ overlapped' = overlapped
    BY <1>2 DEF Ask, history
  <2>2. ~overlapped /\ ~modified /\ bag # NoBag =>
           bag.files >= Complete /\ bag.xml >= Complete
    BY BoundsAssumption DEF TypeInv, TypeOK, StorageInv, Current, Complete
  <2> QED
    BY <1>2, <2>1, <2>2, AskSteps DEF ServedInv, MissingInv, Trusting, storage
<1>3. CASE CheckDirty(t)
  <2>1. UNCHANGED <<edits, storage>> /\ (~overlapped' => ~overlapped)
    BY <1>3 DEF CheckDirty, TypeInv, TypeOK
  <2> QED
    BY <1>3, <2>1, CheckSteps DEF ServedInv, MissingInv, Trusting, storage
<1>4. CASE RequestGenerates(t) \/ RequestCleans(t)
  <2>1. bag' = bag /\ overlapped' = overlapped
    BY <1>4 DEF RequestGenerates, RequestCleans, history
  <2>2. \A u \in Tab : Trusting(u)' => tab'[u] = tab[u]
    BY <1>4, GoSteps DEF RequestGenerates, RequestCleans, Trusting
  <2> QED
    BY <2>1, <2>2 DEF ServedInv, MissingInv, Trusting
<1> QED
  BY <1>1, <1>2, <1>3, <1>4 DEF PressDownload, Serve, Poll, PollReady

LEMMA OthersServed ==
    ASSUME TypeInv, StorageInv, ServedInv, MissingInv, Edit \/ \E k \in Task : Run(k)
    PROVE  ServedInv' /\ MissingInv'
<1>1. CASE tab' = tab /\ bag' = bag
  <2>1. ~overlapped' => ~overlapped
    BY DEF Edit, SaveEdit, SetModified, SetDirty, Run, Fetch, Begin, ReadDirty,
           GenerateFiles, CleanFiles, ZipUp, ClearModified, Fail, Failing, history,
           TypeInv, TypeOK
  <2> QED
    BY <1>1, <2>1 DEF ServedInv, MissingInv, Trusting
<1>2. ASSUME NEW k \in Task, ZipUp(k) PROVE ServedInv' /\ MissingInv'
  <2>1. tab' = tab /\ overlapped' = overlapped
    BY <1>2 DEF ZipUp, history, page
  <2>2. bag'.files = content /\ bag'.xml = xml /\ (~overlapped => xml = content)
    BY <1>2 DEF ZipUp, Move, StorageInv
  <2>3. bag' # NoBag
    <3>1. NoBag.xml = MaxEdits + 1 /\ xml \in 0..MaxEdits
      BY DEF NoBag, TypeInv, TypeOK
    <3> QED
      BY <2>2, <3>1, BoundsAssumption
  <2> QED
    BY <2>1, <2>2, <2>3 DEF ServedInv, MissingInv, Trusting, TypeInv
<1>3. ASSUME NEW k \in Task, Failing(k), bag' = NoBag \/ bag' = bag
      PROVE  ServedInv' /\ MissingInv'
  <2>1. \A t \in Tab : LET new == [tab[t] EXCEPT !.failed = TRUE] IN
           /\ new.at = tab[t].at /\ new.since = tab[t].since
           /\ new.modified = tab[t].modified /\ new.failed = TRUE
    BY DEF TypeInv, TypeOK, Request
  <2>2. tab' = [t \in Tab |-> IF tab[t].at \notin Undecided THEN tab[t]
                             ELSE [tab[t] EXCEPT !.failed = TRUE]]
    BY <1>3 DEF Failing
  <2>3. \A t \in Tab : Trusting(t)' =>
           Trusting(t) /\ tab'[t].since = tab[t].since /\ tab'[t].failed = TRUE
    BY <2>1, <2>2 DEF Trusting, Undecided
  <2>4. overlapped' = overlapped
    BY <1>3 DEF Failing
  <2> QED
    BY <1>3, <2>3, <2>4 DEF ServedInv, MissingInv
<1> QED
  BY <1>1, <1>2, <1>3 DEF Edit, SaveEdit, SetModified, SetDirty, Run, Fetch, Begin,
     ReadDirty, GenerateFiles, CleanFiles, ClearModified, Fail, page, storage

-----------------------------------------------------------------------------
LEMMA InitHolds == Init => BagInv
<1> SUFFICES ASSUME Init PROVE BagInv
  OBVIOUS
<1>1. TypeInv
  BY InitTyped
<1>2. \A t \in Tab : tab[t].at = "idle"
  BY DEF Init, NoRequest
<1>3. StorageInv
  BY <1>2 DEF Init, StorageInv, Bagging, Current, TaskSteps
<1>4. ServedInv /\ MissingInv
  BY <1>2 DEF ServedInv, MissingInv, Trusting
<1> QED
  BY <1>1, <1>3, <1>4 DEF BagInv

LEMMA BagInvInductive == BagInv /\ [Next]_vars => BagInv'
<1> SUFFICES ASSUME BagInv, [Next]_vars PROVE BagInv'
  OBVIOUS
<1>1. TypeInv'
  BY TypeInvInductive DEF BagInv
<1>2. CASE Next
  <2>1. StorageInv'
    BY <1>2, EditStorage, TaskStorage, RequestStorage DEF Next, BagInv
  <2>2. ServedInv' /\ MissingInv'
    BY <1>2, OthersServed, RequestServed DEF Next, BagInv
  <2> QED
    BY <1>1, <2>1, <2>2 DEF BagInv
<1>3. CASE UNCHANGED vars
  <2>1. StorageInv'
    BY <1>3 DEF vars, edits, storage, page, history, BagInv, StorageInv, Current, Bagging
  <2>2. ServedInv' /\ MissingInv'
    BY <1>3 DEF vars, storage, page, history, BagInv, ServedInv, MissingInv, Trusting
  <2> QED
    BY <1>1, <2>1, <2>2 DEF BagInv
<1> QED
  BY <1>2, <1>3

(* The inductive invariant holds of every behaviour.                         *)
THEOREM Invariance == Spec => []BagInv
BY InitHolds, BagInvInductive, PTL DEF Spec

(* Unless an edit went on while a bag was made, a bag that the flags call    *)
(* clean holds the latest edit, however many tasks make and delete it.       *)
THEOREM CleanBagsAreCurrent == Spec => []CleanMeansCurrent
<1>1. BagInv => CleanMeansCurrent
  BY DEF BagInv, StorageInv, Current, CleanMeansCurrent
<1> QED
  BY Invariance, <1>1, PTL

(* Unless an edit went on while a bag was made, what a page is sent has      *)
(* every edit that was complete when it asked.                               *)
THEOREM SentBagsAreCurrent == Spec => []ServedCurrent
<1>1. BagInv => ServedCurrent
  BY DEF BagInv, ServedInv, Trusting, ServedCurrent
<1> QED
  BY Invariance, <1>1, PTL

(* A page is sent to a missing bag only when a task failed since it asked.   *)
THEOREM BagsMissOnlyByFailure == Spec => []MissingOnlyByFailure
<1>1. BagInv => MissingOnlyByFailure
  BY DEF BagInv, MissingInv, Trusting, MissingOnlyByFailure
<1> QED
  BY Invariance, <1>1, PTL
=============================================================================
