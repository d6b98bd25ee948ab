---------------------------- MODULE BagDownload ----------------------------
(***************************************************************************)
(* Downloading one HydroShare resource as a bag, a zip file in iRODS that  *)
(* is made on demand.  Two flags kept in iRODS say whether the bag and the *)
(* metadata files that go into it are out of date.  The pages of one       *)
(* browser ask for the bag; the web server makes a celery task when it has *)
(* to be made, leaves the task's identifier in the session, and sends the  *)
(* browser to the resource's page, which polls until the task has ended    *)
(* and then asks again.  Meanwhile the resource is edited.                 *)
(*                                                                         *)
(* Every iRODS command is a step of its own.  The resource is neither      *)
(* deleted nor a collection, and no task is lost by its worker.            *)
(***************************************************************************)
EXTENDS Naturals

CONSTANTS
    Tab,          \* the browser's pages
    Task,         \* celery tasks; the identifier of a task nobody waits for any
                  \* more is used again, to keep them finite
    NoTask,
    MaxEdits,     \* how many edits a behaviour may hold
    MaxFailures   \* how many tasks may fail in a behaviour

ASSUME NoTaskAssumption == NoTask \notin Task
ASSUME BoundsAssumption == MaxEdits \in Nat /\ MaxFailures \in Nat

VARIABLES
    content,      \* how often files or metadata have been edited
    editor,       \* how far the latest edit is
    xml,          \* the edits that the metadata files in iRODS reflect
    bag,          \* the edits that the files in the zip file and its metadata
                  \* files reflect, or NoBag
    modified,     \* the iRODS attribute bag_modified
    dirty,        \* the iRODS attribute metadata_dirty
    task,         \* task[k]: how far the task is
    failures,     \* how many tasks have failed
    session,      \* the session's task_id
    tab,          \* what each page is doing
    overlapped    \* history: an edit has gone on while a bag or metadata files
                  \* were being made

edits == <<content, editor>>
storage == <<xml, bag, modified, dirty>>
page == <<session, tab>>
history == <<failures, overlapped>>
vars == <<edits, storage, task, page, history>>

NoBag == [files |-> 0, xml |-> MaxEdits + 1]

Bag == [files : 0..MaxEdits, xml : 0..MaxEdits] \cup {NoBag}

TaskSteps == {"begin", "generate", "clean", "zip", "flag"}

Waiting == {"sent", "queued"}

Ended == {"none", "done", "failed"}

(* Until it is clear whether the bag has to be made, a request remembers how *)
(* many edits were complete when it came and whether a task has failed since. *)
Undecided == {"check", "stream"}

Request == [at : {"idle", "generate", "clean", "active", "queue", "make", "answer",
                  "turned", "polling"} \cup Undecided,
            modified : BOOLEAN, task : Task \cup {NoTask},
            since : 0..MaxEdits, failed : BOOLEAN]

NoRequest == [at |-> "idle", modified |-> FALSE, task |-> NoTask,
              since |-> 0, failed |-> FALSE]

TypeOK ==
    /\ content \in 0..MaxEdits
    /\ editor \in {"idle", "saved", "flagged"}
    /\ xml \in 0..MaxEdits
    /\ bag \in Bag
    /\ modified \in BOOLEAN /\ dirty \in BOOLEAN
    /\ task \in [Task -> Ended \cup Waiting \cup TaskSteps]
    /\ failures \in 0..MaxFailures
    /\ session \in Task \cup {NoTask}
    /\ tab \in [Tab -> Request]
    /\ overlapped \in BOOLEAN

(* Some task makes the bag, or some request writes the metadata files.       *)
Bagging ==
    \/ \E k \in Task : task[k] \in TaskSteps
    \/ \E t \in Tab : tab[t].at \in {"generate", "clean"}

Complete == IF editor = "idle" THEN content ELSE content - 1

-----------------------------------------------------------------------------
(* An edit: the resource is saved, and then the two flags are set. *)

SaveEdit ==
    /\ editor = "idle"
    /\ content < MaxEdits
    /\ content' = content + 1
    /\ editor' = "saved"
    /\ overlapped' = (overlapped \/ Bagging)
    /\ UNCHANGED <<storage, task, failures, page>>

SetModified ==
    /\ editor = "saved"
    /\ modified' = TRUE
    /\ editor' = "flagged"
    /\ UNCHANGED <<content, xml, bag, dirty, task, history, page>>

(* Mutant: an edit of the metadata leaves the metadata files as they are. *)
SetNoDirty ==
    /\ editor = "flagged"
    /\ editor' = "idle"
    /\ UNCHANGED <<content, storage, task, history, page>>

SetDirty ==
    /\ editor = "flagged"
    /\ dirty' = TRUE
    /\ editor' = "idle"
    /\ UNCHANGED <<content, xml, bag, modified, task, history, page>>

-----------------------------------------------------------------------------
(* The task. *)

Move(k, from, to) == task[k] = from /\ task' = [task EXCEPT ![k] = to]

Fetch(k) ==
    /\ Move(k, "sent", "queued")
    /\ UNCHANGED <<edits, storage, history, page>>

Begin(k) ==
    /\ Move(k, "queued", "begin")
    /\ overlapped' = (overlapped \/ editor # "idle")
    /\ UNCHANGED <<edits, storage, failures, page>>

(* Mutant: the bag is called clean before it is made. *)
ReadDirtyFirst(k) ==
    /\ Move(k, "begin", IF dirty THEN "generate" ELSE "zip")
    /\ modified' = FALSE
    /\ UNCHANGED <<edits, xml, bag, dirty, history, page>>

ReadDirty(k) ==
    /\ Move(k, "begin", IF dirty THEN "generate" ELSE "zip")
    /\ UNCHANGED <<edits, storage, history, page>>

GenerateFiles(k) ==
    /\ Move(k, "generate", "clean")
    /\ xml' = content
    /\ UNCHANGED <<edits, bag, modified, dirty, history, page>>

CleanFiles(k) ==
    /\ Move(k, "clean", "zip")
    /\ dirty' = FALSE
    /\ UNCHANGED <<edits, xml, bag, modified, history, page>>

(* Mutant: the metadata files are left out of the zip file. *)
ZipUpBare(k) ==
    /\ Move(k, "zip", "flag")
    /\ bag' = [files |-> content]
    /\ UNCHANGED <<edits, xml, modified, dirty, history, page>>

ZipUp(k) ==
    /\ Move(k, "zip", "flag")
    /\ bag' = [files |-> content, xml |-> xml]
    /\ UNCHANGED <<edits, xml, modified, dirty, history, page>>

ClearModified(k) ==
    /\ Move(k, "flag", "done")
    /\ modified' = FALSE
    /\ UNCHANGED <<edits, xml, bag, dirty, history, page>>

Failing(k) ==
    /\ failures < MaxFailures
    /\ failures' = failures + 1
    /\ task' = [task EXCEPT ![k] = "failed"]
    /\ tab' = [t \in Tab |-> IF tab[t].at \notin Undecided THEN tab[t]
                             ELSE [tab[t] EXCEPT !.failed = TRUE]]
    /\ UNCHANGED <<edits, session, overlapped>>

(* Mutant: the result of a failed task is not kept. *)
FailUnkept(k) ==
    /\ task[k] \in TaskSteps
    /\ failures < MaxFailures
    /\ failures' = failures + 1
    /\ task' = [task EXCEPT ![k] = "none"]
    /\ bag' = NoBag
    /\ UNCHANGED <<edits, xml, modified, dirty, page, overlapped>>

(* An iRODS command fails.  From the zipping on, the zip file is deleted,    *)
(* whichever task it is of.                                                  *)
Fail(k) ==
    \/ /\ task[k] \in {"begin", "generate", "clean"}
       /\ Failing(k)
       /\ UNCHANGED storage
    \/ /\ task[k] \in {"zip", "flag"}
       /\ Failing(k)
       /\ bag' = NoBag
       /\ UNCHANGED <<xml, modified, dirty>>

-----------------------------------------------------------------------------
(* The request. *)

Go(t, step) == tab' = [tab EXCEPT ![t] = [NoRequest EXCEPT !.at = step]]

(* Mutant: a bag that is not there is not asked for. *)
AskUnchecked(t) ==
    /\ tab' = [tab EXCEPT ![t] = [NoRequest EXCEPT !.at = "check",
                                     !.modified = modified, !.since = Complete]]
    /\ UNCHANGED <<edits, storage, task, history, session>>

(* The flag, and whether the bag is there, are read first. *)
Ask(t) ==
    /\ tab' = [tab EXCEPT ![t] = [NoRequest EXCEPT !.at = "check",
                                     !.modified = modified \/ bag = NoBag,
                                     !.since = Complete]]
    /\ UNCHANGED <<edits, storage, task, history, session>>

PressDownload(t) == tab[t].at = "idle" /\ Ask(t)

CheckDirty(t) ==
    /\ tab[t].at = "check"
    /\ overlapped' = (overlapped \/ (dirty /\ editor # "idle"))
    /\ \/ dirty /\ Go(t, "generate")
       \/ ~dirty /\ tab[t].modified /\ Go(t, "active")
       \/ ~dirty /\ ~tab[t].modified /\ tab' = [tab EXCEPT ![t].at = "stream"]
    /\ UNCHANGED <<edits, storage, task, failures, session>>

RequestGenerates(t) ==
    /\ tab[t].at = "generate"
    /\ Go(t, "clean")
    /\ xml' = content
    /\ UNCHANGED <<edits, bag, modified, dirty, task, history, session>>

(* The bag has to be made again with the fresh metadata files. *)
RequestCleans(t) ==
    /\ tab[t].at = "clean"
    /\ Go(t, "active")
    /\ dirty' = FALSE
    /\ UNCHANGED <<edits, xml, bag, modified, task, history, session>>

Found(t, among) ==
    \E k \in Task :
        /\ task[k] \in among
        /\ tab' = [tab EXCEPT ![t].at = "answer", ![t].task = k]

(* The workers are asked for running tasks first and for waiting ones next.  *)
LookAt(t, step, among, next) ==
    /\ tab[t].at = step
    /\ \/ Found(t, among)
       \/ (\A k \in Task : task[k] \notin among) /\ Go(t, next)
    /\ UNCHANGED <<edits, storage, task, history, session>>

LookAtActive(t) == LookAt(t, "active", TaskSteps, "queue")

LookAtQueued(t) == LookAt(t, "queue", {"queued"}, "make")

Unused(k) == task[k] \in Ended /\ session # k /\ \A t \in Tab : tab[t].task # k

MakeTask(t, k) ==
    /\ tab[t].at = "make"
    /\ Unused(k)
    /\ task' = [task EXCEPT ![k] = "sent"]
    /\ tab' = [tab EXCEPT ![t].at = "answer", ![t].task = k]
    /\ UNCHANGED <<edits, storage, history, session>>

Answer(t) ==
    /\ tab[t].at = "answer"
    /\ session' = tab[t].task
    /\ Go(t, "turned")
    /\ UNCHANGED <<edits, storage, task, history>>

(* Any load of a resource's page takes the session's task, whichever page    *)
(* asked for it.                                                             *)
LoadPage(t) ==
    /\ tab[t].at \in {"idle", "turned"}
    /\ \/ session = NoTask /\ Go(t, "idle")
       \/ /\ session # NoTask
          /\ tab' = [tab EXCEPT ![t] = [NoRequest EXCEPT !.at = "polling",
                                                         !.task = session]]
    /\ session' = NoTask
    /\ UNCHANGED <<edits, storage, task, history>>

PollPending(t) ==
    /\ tab[t].at = "polling" /\ task[tab[t].task] \notin {"done", "failed"}
    /\ UNCHANGED <<edits, storage, task, history, page>>

(* A failed task, or a bag that is not there, is reported to the user. *)
PollReady(t) == tab[t].at = "polling" /\ task[tab[t].task] = "done" /\ Ask(t)

PollFailed(t) ==
    /\ tab[t].at = "polling" /\ task[tab[t].task] = "failed"
    /\ Go(t, "idle")
    /\ UNCHANGED <<edits, storage, task, history, session>>

Stream(t) ==
    /\ tab[t].at = "stream"
    /\ Go(t, "idle")
    /\ UNCHANGED <<edits, storage, task, history, session>>

-----------------------------------------------------------------------------
(* A new resource has its metadata files and no bag. *)
Init ==
    /\ content = 0
    /\ editor = "idle"
    /\ xml = 0
    /\ bag = NoBag
    /\ modified = TRUE
    /\ dirty = FALSE
    /\ task = [k \in Task |-> "none"]
    /\ failures = 0
    /\ session = NoTask
    /\ tab = [t \in Tab |-> NoRequest]
    /\ overlapped = FALSE

Edit == SaveEdit \/ SetModified \/ SetDirty

Run(k) ==
    \/ Fetch(k)
    \/ Begin(k)
    \/ ReadDirty(k)
    \/ GenerateFiles(k)
    \/ CleanFiles(k)
    \/ ZipUp(k)
    \/ ClearModified(k)
    \/ Fail(k)

Serve(t) ==
    \/ CheckDirty(t)
    \/ RequestGenerates(t)
    \/ RequestCleans(t)
    \/ LookAtActive(t)
    \/ LookAtQueued(t)
    \/ \E k \in Task : MakeTask(t, k)
    \/ Answer(t)
    \/ Stream(t)

Poll(t) == PollPending(t) \/ PollReady(t) \/ PollFailed(t)

Next ==
    \/ Edit
    \/ \E k \in Task : Run(k)
    \/ \E t \in Tab : PressDownload(t) \/ Serve(t) \/ LoadPage(t) \/ Poll(t)

Spec == Init /\ [][Next]_vars

Follow(t) == tab[t].at = "turned" /\ LoadPage(t)

(* The web server and the workers go on with what they have begun, a page    *)
(* follows where it is sent, and polls again every three seconds.            *)
FairSpec ==
    /\ Spec
    /\ \A k \in Task : WF_vars(Run(k))
    /\ \A t \in Tab : WF_vars(Serve(t) \/ Follow(t) \/ Poll(t))

-----------------------------------------------------------------------------
(* What is correct. *)

(* A bag that the flags call clean holds the latest edit, files and metadata *)
(* alike, although tasks for one bag run side by side, and fail, unless an   *)
(* edit went on while a bag was made.                                        *)
CleanMeansCurrent ==
    (~overlapped /\ editor = "idle" /\ ~modified /\ ~dirty /\ bag # NoBag) =>
        bag.files = content /\ bag.xml = content

(* What a page is sent has every edit that was complete when it asked. *)
ServedCurrent ==
    \A t \in Tab :
        (~overlapped /\ tab[t].at = "stream" /\ bag # NoBag) =>
            bag.files >= tab[t].since /\ bag.xml >= tab[t].since

(* A page is sent to a bag that is not there only if a task failed since the *)
(* page asked: one that is gone from before is made again, whatever the      *)
(* flags say.                                                                *)
MissingOnlyByFailure ==
    \A t \in Tab : tab[t].at = "stream" /\ bag = NoBag => tab[t].failed

(* Whoever asks for the bag gets it, or an error, or a page that forgot the  *)
(* request; nobody polls for ever, although tasks run twice, fail and delete *)
(* one another's bag.                                                        *)
DownloadEnds == \A t \in Tab : tab[t].at # "idle" ~> tab[t].at = "idle"
=============================================================================
