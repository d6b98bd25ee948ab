------------------------- MODULE VersionChainProofs -------------------------
(***************************************************************************)
(* What overlapping and failing requests cannot do to versions: proved for *)
(* any number of resources and processes.                                  *)
(***************************************************************************)
EXTENDS VersionChain, SequenceTheorems, TLAPS

Existing(r) == stage[r] # "none"

Made == {"copy", "replace", "relink", "freeze", "release"}

(* A job has an original that was created, and a new resource, also created, *)
(* once it has left the first step.                                          *)
JobsFormed ==
    \A p \in Process :
        /\ job[p] # Idle => job[p].original \in Resource /\ Existing(job[p].original)
        /\ job[p].at = "idle" => job[p] = Idle
        /\ job[p].at \in Made => job[p].new \in Resource /\ Existing(job[p].new)
        /\ job[p].at \notin Made => job[p].new = NoResource

(* Each new resource is the work of one process. *)
NewOnce ==
    \A p, q \in Process :
        p # q /\ job[p].new = job[q].new => job[p].new = NoResource

(* Relations are blank before they are copied, and name what was created.    *)
OriginsExist ==
    /\ \A r \in Resource : ~Existing(r) => versionOf[r] = <<>>
    /\ \A p \in Process : job[p].at = "copy" => versionOf[job[p].new] = <<>>
    /\ \A r, x \in Resource : versionOf[r] = <<x>> => Existing(x)

ChainTypes == TypeOK /\ JobsFormed /\ NewOnce /\ OriginsExist /\ AtMostOneOrigin

(* A set of resources from which relations, and those that jobs are about to *)
(* make, do not lead out.                                                    *)
Closed(C) ==
    /\ \A x \in C : x \in Resource /\ Existing(x)
    /\ \A x \in C, y \in Resource : versionOf[x] = <<y>> => y \in C
    /\ \A p \in Process : job[p].new \in C => job[p].original \in C

(* The original of a job was there before the new resource: the new one is   *)
(* not reached from it.                                                      *)
Grounded ==
    \A p \in Process :
        job[p].at \in Made =>
            \E C \in SUBSET Resource :
                Closed(C) /\ job[p].original \in C /\ job[p].new \notin C

ChainInv == ChainTypes /\ Grounded /\ Acyclic /\ PublishedFrozen /\ LockHeldByWorker

-----------------------------------------------------------------------------
LEMMA IdleFields == /\ Idle.at = "idle" /\ Idle.original = NoResource /\ Idle.new = NoResource
                    /\ Idle \in Job
BY DEF Idle, Job

(* Sequences of at most one relation. *)
LEMMA OneOrNone ==
    ASSUME NEW s \in Seq(Resource), Len(s) <= 1
    PROVE  s = <<>> \/ \E x \in Resource : s = <<x>>
<1>0. Len(s) \in Nat
  OBVIOUS
<1>1. CASE Len(s) = 0
  BY <1>1, EmptySeq
<1>2. CASE Len(s) # 0
  <2>1. Len(s) = 1
    BY <1>0, <1>2
  <2>2. s[1] \in Resource
    BY <2>1, ElementOfSeq
  <2>3. <<s[1]>> \in Seq(Resource) /\ Len(<<s[1]>>) = 1 /\ <<s[1]>>[1] = s[1]
    BY <2>2
  <2>4. \A i \in 1..Len(s) : s[i] = <<s[1]>>[i]
    BY <2>1, <2>3
  <2>5. s = <<s[1]>>
    BY <2>1, <2>3, <2>4, SeqEqual
  <2> QED
    BY <2>2, <2>5
<1> QED
  BY <1>0, <1>1, <1>2

LEMMA OriginForm ==
    ASSUME TypeOK, AtMostOneOrigin, NEW r \in Resource
    PROVE  versionOf[r] = <<>> \/ \E x \in Resource : versionOf[r] = <<x>>
BY OneOrNone DEF TypeOK, AtMostOneOrigin

(* What becomes of the isVersionOf relations. *)
Unlinked(r) == versionOf' = [versionOf EXCEPT ![r] = <<>>]
Relinked(n, r) == versionOf' = [versionOf EXCEPT ![n] = <<r>>]
Copied(n, r) == versionOf' = [versionOf EXCEPT ![n] = versionOf[r]]

LEMMA CopyForm ==
    ASSUME TypeOK, NEW r \in Resource, NEW n \in Resource, versionOf[n] = <<>>, CopyLinks(r, n)
    PROVE  /\ Copied(n, r)
           /\ replacedBy' \in [Resource -> Seq(Resource)]
<1>1. versionOf[r] \in Seq(Resource) /\ replacedBy[r] \in Seq(Resource)
      /\ replacedBy[n] \in Seq(Resource)
  BY DEF TypeOK
<1>2. <<>> \o versionOf[r] = versionOf[r]
  BY <1>1
<1>3. replacedBy[n] \o replacedBy[r] \in Seq(Resource)
  BY <1>1, ConcatProperties
<1> QED
  BY <1>2, <1>3 DEF CopyLinks, Copied, TypeOK

LEMMA RelinkForm ==
    ASSUME TypeOK, AtMostOneOrigin, NEW p \in Process,
           job[p].new \in Resource, LinkOrigin(p)
    PROVE  Relinked(job[p].new, job[p].original)
<1>1. NewOrigin(p) = <<job[p].original>>
  <2>1. versionOf[job[p].new] = <<>> \/ \E x \in Resource : versionOf[job[p].new] = <<x>>
    BY OriginForm
  <2>2. \A x \in Resource : <<x>> # <<>> /\ Tail(<<x>>) = <<>>
    OBVIOUS
  <2>3. Append(<<>>, job[p].original) = <<job[p].original>>
    OBVIOUS
  <2> QED
    BY <2>1, <2>2, <2>3 DEF NewOrigin
<1> QED
  BY <1>1 DEF LinkOrigin, Relinked

(* Every step leaves them alone or makes one of three changes. *)
LEMMA LinkForms ==
    ASSUME ChainTypes, Next
    PROVE  \/ versionOf' = versionOf
           \/ \E r \in Resource : Unlinked(r)
           \/ \E p \in Process : LinkOrigin(p) /\ Relinked(job[p].new, job[p].original)
           \/ \E p \in Process : CopyMetadata(p) /\ Copied(job[p].new, job[p].original)
           \/ \E r, n \in Resource : CopyResource(r, n) /\ Copied(n, r)
<1>1. ASSUME NEW p \in Process, Work(p) PROVE
           \/ versionOf' = versionOf
           \/ \E r \in Resource : Unlinked(r)
           \/ LinkOrigin(p) /\ Relinked(job[p].new, job[p].original)
           \/ CopyMetadata(p) /\ Copied(job[p].new, job[p].original)
  <2>1. CASE \/ \E n \in Resource : CreateEmpty(p, n)
             \/ LinkReplacement(p) \/ FreezeOriginal(p) \/ Finish(p)
    BY <2>1 DEF CreateEmpty, LinkReplacement, FreezeOriginal, Finish, links
  <2>2. CASE CopyMetadata(p)
    <3>1. job[p].at = "copy" /\ job[p] # Idle
      BY <2>2, IdleFields DEF CopyMetadata
    <3>2. /\ job[p].new \in Resource /\ job[p].original \in Resource
          /\ versionOf[job[p].new] = <<>>
      BY <3>1 DEF ChainTypes, JobsFormed, Made, OriginsExist
    <3> QED
      BY <2>2, <3>2, CopyForm DEF CopyMetadata, ChainTypes
  <2>3. CASE LinkOrigin(p)
    <3>1. job[p].new \in Resource
      BY <2>3 DEF LinkOrigin, ChainTypes, JobsFormed, Made
    <3> QED
      BY <2>3, <3>1, RelinkForm DEF ChainTypes
  <2>4. CASE Fail(p) \/ FailToRelease(p)
    <3>1. \/ versionOf' = versionOf
          \/ versionOf' = [s \in Resource |-> IF s = job[p].new THEN <<>> ELSE versionOf[s]]
      BY <2>4 DEF Fail, FailToRelease, PartlyDeleted, Unlink, links
    <3>2. versionOf \in [Resource -> Seq(Resource)]
      BY DEF ChainTypes, TypeOK
    <3>3. CASE versionOf' = versionOf
      BY <3>3
    <3>4. CASE versionOf' = [s \in Resource |-> IF s = job[p].new THEN <<>> ELSE versionOf[s]]
      <4>1. CASE job[p].new \in Resource
        <5>1. versionOf' = [versionOf EXCEPT ![job[p].new] = <<>>]
          BY <3>2, <3>4, <4>1
        <5> QED
          BY <4>1, <5>1 DEF Unlinked
      <4>2. CASE job[p].new \notin Resource
        <5>1. versionOf' = versionOf
          BY <3>2, <3>4, <4>2
        <5> QED
          BY <5>1
      <4> QED
        BY <4>1, <4>2
    <3> QED
      BY <3>1, <3>3, <3>4
  <2> QED
    BY <1>1, <2>1, <2>2, <2>3, <2>4 DEF Work
<1>2. ASSUME NEW r \in Resource, NEW n \in Resource, CopyResource(r, n)
      PROVE  Copied(n, r)
  BY <1>2, CopyForm DEF CopyResource, ChainTypes, OriginsExist, Existing
<1> QED
  BY <1>1, <1>2
     DEF Next, LockOriginal, CreateResource, DeleteResource, PublishResource, links, Unlinked

-----------------------------------------------------------------------------
(* Types. *)

(* What a step of a job does to jobs. *)
LEMMA JobForms ==
    ASSUME ChainTypes, Next
    PROVE  \/ job' = job
           \/ \E p \in Process, r \in Resource :
                job[p] = Idle /\ Existing(r)
                /\ job' = [job EXCEPT ![p] = [at |-> "create", original |-> r, new |-> NoResource]]
           \/ \E p \in Process, n \in Resource :
                job[p].at = "create" /\ stage[n] = "none" /\ Existing(n)'
                /\ job' = [job EXCEPT ![p].at = "copy", ![p].new = n]
           \/ \E p \in Process, step \in Made \ {"copy"} :
                job[p].at \in Made /\ job' = [job EXCEPT ![p].at = step]
           \/ \E p \in Process : job' = [job EXCEPT ![p] = Idle]
<1>1. ASSUME NEW p \in Process, Work(p) PROVE
           \/ \E n \in Resource :
                job[p].at = "create" /\ stage[n] = "none" /\ Existing(n)'
                /\ job' = [job EXCEPT ![p].at = "copy", ![p].new = n]
           \/ \E step \in Made \ {"copy"} :
                job[p].at \in Made /\ job' = [job EXCEPT ![p].at = step]
           \/ job' = [job EXCEPT ![p] = Idle]
  BY <1>1 DEF Work, CreateEmpty, CopyMetadata, LinkReplacement, LinkOrigin, FreezeOriginal,
     Finish, Fail, FailToRelease, Making, Made, Existing, ChainTypes, TypeOK
<1>2. ASSUME NEW p \in Process, NEW r \in Resource, LockOriginal(p, r) PROVE
           /\ job[p] = Idle /\ Existing(r)
           /\ job' = [job EXCEPT ![p] = [at |-> "create", original |-> r, new |-> NoResource]]
  BY <1>2 DEF LockOriginal, Live, Existing
<1> QED
  BY <1>1, <1>2 DEF Next, CreateResource, DeleteResource, PublishResource, CopyResource

(* What was created stays so. *)
LEMMA StageForms ==
    ASSUME ChainTypes, Next
    PROVE  /\ stage' \in [Resource -> {"none", "live", "gone", "ghost"}]
           /\ \A r \in Resource : Existing(r) => Existing(r)'
<1>1. ASSUME NEW p \in Process, Work(p) PROVE
           /\ stage' \in [Resource -> {"none", "live", "gone", "ghost"}]
           /\ \A r \in Resource : Existing(r) => Existing(r)'
  <2>1. ASSUME NEW r, NEW deleted, Release(r, deleted) PROVE
           /\ stage' \in [Resource -> {"none", "live", "gone", "ghost"}]
           /\ \A s \in Resource : Existing(s) => Existing(s)'
    BY <2>1 DEF Release, Existing, ChainTypes, TypeOK
  <2>2. CASE Finish(p) \/ Fail(p)
    BY <2>1, <2>2 DEF Finish, Fail
  <2>3. CASE \E n \in Resource : CreateEmpty(p, n)
    BY <2>3 DEF CreateEmpty, Existing, ChainTypes, TypeOK
  <2>4. CASE stage' = stage
    BY <2>4 DEF Existing, ChainTypes, TypeOK
  <2>5. CASE FailToRelease(p)
    <3>1. CASE stage' = [s \in Resource |-> IF s = job[p].new THEN "gone" ELSE stage[s]]
      BY <3>1 DEF Existing, ChainTypes, TypeOK
    <3> QED
      BY <2>4, <2>5, <3>1 DEF FailToRelease, PartlyDeleted
  <2> QED
    BY <1>1, <2>2, <2>3, <2>4, <2>5
       DEF Work, CopyMetadata, LinkReplacement, LinkOrigin, FreezeOriginal
<1> QED
  BY <1>1 DEF Next, LockOriginal, CreateResource, DeleteResource, PublishResource,
     CopyResource, Existing, ChainTypes, TypeOK

LEMMA JobsKept ==
    ASSUME ChainTypes, Next
    PROVE  job' \in [Process -> Job] /\ JobsFormed' /\ NewOnce'
<1>0. /\ \A r \in Resource : Existing(r) => Existing(r)'
      /\ job \in [Process -> Job] /\ JobsFormed /\ NewOnce
  BY StageForms DEF ChainTypes, TypeOK
<1>1. CASE job' = job
  BY <1>0, <1>1 DEF JobsFormed, NewOnce
<1>2. ASSUME NEW p \in Process, NEW r \in Resource, Existing(r),
             job' = [job EXCEPT ![p] = [at |-> "create", original |-> r, new |-> NoResource]]
      PROVE  job' \in [Process -> Job] /\ JobsFormed' /\ NewOnce'
  <2> DEFINE new == [at |-> "create", original |-> r, new |-> NoResource]
  <2>1. new \in Job /\ new.at = "create" /\ new.original = r /\ new.new = NoResource
    BY DEF Job
  <2>2. job' = [job EXCEPT ![p] = new]
    BY <1>2
  <2> HIDE DEF new
  <2> QED
    BY <1>0, <1>2, <2>1, <2>2, IdleFields DEF JobsFormed, NewOnce, Made
<1>3. ASSUME NEW p \in Process, NEW n \in Resource, job[p].at = "create",
             stage[n] = "none", Existing(n)',
             job' = [job EXCEPT ![p].at = "copy", ![p].new = n]
      PROVE  job' \in [Process -> Job] /\ JobsFormed' /\ NewOnce'
  <2> DEFINE new == [job[p] EXCEPT !.at = "copy", !.new = n]
  <2>1. /\ new \in Job /\ new.at = "copy" /\ new.new = n
        /\ new.original = job[p].original
    BY <1>0 DEF Job
  <2>2. job' = [job EXCEPT ![p] = new]
    BY <1>0, <1>3
  <2>3. job[p] # Idle /\ \A q \in Process : job[q].new # n
    BY <1>0, <1>3, IdleFields, NoResourceAssumption DEF JobsFormed, Existing, Made
  <2> HIDE DEF new
  <2>4. job' \in [Process -> Job] /\ NewOnce'
    BY <1>0, <2>1, <2>2, <2>3 DEF NewOnce
  <2>5. new.original \in Resource /\ Existing(new.original)
    BY <1>0, <2>1, <2>3 DEF JobsFormed
  <2>6. JobsFormed'
    BY <1>0, <1>3, <2>1, <2>2, <2>5 DEF JobsFormed, Existing, Made
  <2> QED
    BY <2>4, <2>6
<1>4. ASSUME NEW p \in Process, NEW step \in Made \ {"copy"}, job[p].at \in Made,
             job' = [job EXCEPT ![p].at = step]
      PROVE  job' \in [Process -> Job] /\ JobsFormed' /\ NewOnce'
  <2> DEFINE new == [job[p] EXCEPT !.at = step]
  <2>1. /\ new \in Job /\ new.at = step /\ new.new = job[p].new
        /\ new.original = job[p].original
    BY <1>0 DEF Job, Made
  <2>2. job' = [job EXCEPT ![p] = new]
    BY <1>0, <1>4
  <2>3. job[p] # Idle
    BY <1>4, IdleFields DEF Made
  <2> HIDE DEF new
  <2> QED
    BY <1>0, <1>4, <2>1, <2>2, <2>3, IdleFields DEF JobsFormed, NewOnce, Made
<1>5. ASSUME NEW p \in Process, job' = [job EXCEPT ![p] = Idle]
      PROVE  job' \in [Process -> Job] /\ JobsFormed' /\ NewOnce'
  BY <1>0, <1>5, IdleFields DEF JobsFormed, NewOnce, Made
<1> QED
  BY <1>1, <1>2, <1>3, <1>4, <1>5, JobForms

LEMMA OriginsKept ==
    ASSUME ChainTypes, Next
    PROVE  versionOf' \in [Resource -> Seq(Resource)] /\ AtMostOneOrigin' /\ OriginsExist'
<1>0. /\ \A r \in Resource : Existing(r) => Existing(r)'
      /\ versionOf \in [Resource -> Seq(Resource)]
      /\ \A p \in Process : job[p] \in Job
  BY StageForms DEF ChainTypes, TypeOK
<1>1. \A r \in Resource : versionOf[r] = <<>> \/ \E x \in Resource : versionOf[r] = <<x>>
  BY OriginForm DEF ChainTypes
(* A job about to copy has found the relations of its new resource blank.    *)
<1>2. ASSUME NEW p \in Process, job'[p].at = "copy"
      PROVE  \/ job[p].at = "copy" /\ job'[p] = job[p]
             \/ job'[p].new \in Resource /\ stage[job'[p].new] = "none"
  <2>0. job \in [Process -> Job]
    BY DEF ChainTypes, TypeOK
  <2>1. CASE job' = job
    BY <1>2, <2>1
  <2>2. ASSUME NEW q \in Process, NEW r \in Resource,
               job' = [job EXCEPT ![q] = [at |-> "create", original |-> r, new |-> NoResource]]
        PROVE  job'[p] = job[p]
    <3> DEFINE new == [at |-> "create", original |-> r, new |-> NoResource]
    <3>1. new.at = "create" /\ job' = [job EXCEPT ![q] = new]
      BY <2>2
    <3> HIDE DEF new
    <3> QED
      BY <1>2, <2>0, <3>1
  <2>3. ASSUME NEW q \in Process, NEW n \in Resource, stage[n] = "none",
               job' = [job EXCEPT ![q].at = "copy", ![q].new = n]
        PROVE  job'[p] = job[p] \/ job'[p].new = n
    <3> DEFINE new == [job[q] EXCEPT !.at = "copy", !.new = n]
    <3>1. new.new = n
      BY <1>0 DEF Job
    <3>2. job' = [job EXCEPT ![q] = new]
      BY <2>0, <2>3
    <3> HIDE DEF new
    <3> QED
      BY <2>0, <3>1, <3>2
  <2>4. ASSUME NEW q \in Process, NEW step \in Made \ {"copy"},
               job' = [job EXCEPT ![q].at = step]
        PROVE  job'[p] = job[p]
    <3> DEFINE new == [job[q] EXCEPT !.at = step]
    <3>1. new.at = step
      BY <1>0 DEF Job
    <3>2. job' = [job EXCEPT ![q] = new]
      BY <2>0, <2>4
    <3> HIDE DEF new
    <3> QED
      BY <1>2, <2>0, <2>4, <3>1, <3>2
  <2>5. ASSUME NEW q \in Process, job' = [job EXCEPT ![q] = Idle]
        PROVE  job'[p] = job[p]
    BY <1>2, <2>0, <2>5, IdleFields
  <2>6. job'[p] = job[p] \/ (job'[p].new \in Resource /\ stage[job'[p].new] = "none")
    BY <2>1, <2>2, <2>3, <2>4, <2>5, JobForms
  <2> QED
    BY <1>2, <2>6
(* Those of the resource x change to the relation y, or to none. *)
<1>3. ASSUME NEW x \in Resource, NEW s,
             versionOf' = [versionOf EXCEPT ![x] = s],
             \/ s = <<>>
             \/ \E y \in Resource : s = <<y>> /\ Existing(y),
             s = <<>> \/ Existing(x)',
             \A p \in Process : s # <<>> /\ job'[p].at = "copy" => job'[p].new # x
      PROVE  versionOf' \in [Resource -> Seq(Resource)] /\ AtMostOneOrigin' /\ OriginsExist'
  <2>0. s \in Seq(Resource) /\ Len(s) <= 1
    <3>1. <<>> \in Seq(Resource) /\ Len(<<>>) <= 1
      OBVIOUS
    <3>2. \A y \in Resource : <<y>> \in Seq(Resource) /\ Len(<<y>>) <= 1
      OBVIOUS
    <3> QED
      BY <1>3, <3>1, <3>2, Zenon
  <2>1. versionOf' \in [Resource -> Seq(Resource)]
    BY <1>0, <1>3, <2>0
  <2>2. \A r \in Resource : versionOf'[r] = IF r = x THEN s ELSE versionOf[r]
    BY <1>0, <1>3
  <2>3. AtMostOneOrigin'
    BY <2>0, <2>2 DEF ChainTypes, AtMostOneOrigin
  <2>4. \A r \in Resource : ~Existing(r)' => versionOf'[r] = <<>>
    BY <1>0, <1>3, <2>2 DEF ChainTypes, OriginsExist
  <2>5. ASSUME NEW p \in Process, job'[p].at = "copy"
        PROVE  versionOf'[job'[p].new] = <<>>
    <3>1. job'[p].new \in Resource
      BY <2>5, JobsKept DEF JobsFormed, Made
    <3>2. versionOf[job'[p].new] = <<>>
      BY <1>2, <2>5 DEF ChainTypes, OriginsExist, Existing
    <3> QED
      BY <1>3, <2>2, <2>5, <3>1, <3>2
  <2>6. ASSUME NEW r \in Resource, NEW y \in Resource, versionOf'[r] = <<y>>
        PROVE  Existing(y)'
    <3>1. CASE r = x
      <4>1. s = <<y>>
        BY <2>2, <2>6, <3>1
      <4>2. s # <<>>
        BY <4>1
      <4>3. PICK z \in Resource : s = <<z>> /\ Existing(z)
        BY <1>3, <4>2
      <4>4. y = z
        BY <4>1, <4>3
      <4> QED
        BY <1>0, <4>3, <4>4
    <3>2. CASE r # x
      BY <1>0, <2>2, <2>6, <3>2 DEF ChainTypes, OriginsExist
    <3> QED
      BY <3>1, <3>2
  <2> QED
    BY <2>1, <2>3, <2>4, <2>5, <2>6 DEF OriginsExist
<1>4. CASE versionOf' = versionOf
  <2>1. \A p \in Process : job'[p].at = "copy" => versionOf[job'[p].new] = <<>>
    BY <1>2 DEF ChainTypes, OriginsExist, Existing
  <2> QED
    BY <1>0, <1>4, <2>1 DEF ChainTypes, OriginsExist, AtMostOneOrigin
<1>5. CASE \E r \in Resource : Unlinked(r)
  BY <1>3, <1>5 DEF Unlinked
<1>6. ASSUME NEW q \in Process,
             \/ LinkOrigin(q) /\ Relinked(job[q].new, job[q].original)
             \/ CopyMetadata(q) /\ Copied(job[q].new, job[q].original)
      PROVE  versionOf' \in [Resource -> Seq(Resource)] /\ AtMostOneOrigin' /\ OriginsExist'
  <2>1. /\ job[q].at \in {"copy", "relink"} /\ job'[q].at \in {"replace", "freeze"}
        /\ \A p \in Process : p # q => job'[p] = job[p]
    BY <1>0, <1>6 DEF LinkOrigin, CopyMetadata, ChainTypes, TypeOK, Job
  <2>2. /\ job[q].new \in Resource /\ Existing(job[q].new)
        /\ job[q].original \in Resource /\ Existing(job[q].original)
    BY <2>1, IdleFields DEF ChainTypes, JobsFormed, Made
  <2>3. \A p \in Process : job'[p].at = "copy" => job'[p].new # job[q].new
    BY <2>1, <2>2, NoResourceAssumption DEF ChainTypes, NewOnce
  <2>4. PICK x \in Resource : x = job[q].new
    BY <2>2
  <2> DEFINE s == IF LinkOrigin(q) /\ Relinked(x, job[q].original)
                    THEN <<job[q].original>> ELSE versionOf[job[q].original]
  <2>5. versionOf' = [versionOf EXCEPT ![x] = s]
    BY <1>6, <2>4 DEF Relinked, Copied
  <2>6. s = <<>> \/ \E y \in Resource : s = <<y>> /\ Existing(y)
    BY <1>1, <2>2 DEF ChainTypes, OriginsExist
  <2>7. Existing(x)'
    BY <1>0, <2>2, <2>4
  <2>8. \A p \in Process : job'[p].at = "copy" => job'[p].new # x
    BY <2>3, <2>4
  <2> HIDE DEF s
  <2> QED
    BY <1>3, <2>5, <2>6, <2>7, <2>8
<1>7. ASSUME NEW r \in Resource, NEW n \in Resource, CopyResource(r, n), Copied(n, r)
      PROVE  versionOf' \in [Resource -> Seq(Resource)] /\ AtMostOneOrigin' /\ OriginsExist'
  <2>1. Live(r) /\ stage[n] = "none" /\ stage'[n] = "live" /\ job' = job
    BY <1>7 DEF CopyResource, ChainTypes, TypeOK
  <2>2. \A p \in Process : job'[p].at = "copy" => job'[p].new # n
    BY <2>1 DEF ChainTypes, JobsFormed, Made, Existing
  <2> DEFINE s == versionOf[r]
  <2>3. s = <<>> \/ \E y \in Resource : s = <<y>> /\ Existing(y)
    BY <1>1 DEF ChainTypes, OriginsExist
  <2>4. versionOf' = [versionOf EXCEPT ![n] = s] /\ Existing(n)'
    BY <1>7, <2>1 DEF Copied, Existing
  <2> HIDE DEF s
  <2> QED
    BY <1>3, <2>2, <2>3, <2>4
<1> QED
  BY <1>4, <1>5, <1>6, <1>7, LinkForms

(* The other variables keep their types. *)
LEMMA ReplacedKept ==
    ASSUME ChainTypes, Next
    PROVE  replacedBy' \in [Resource -> Seq(Resource)]
<1>0. replacedBy \in [Resource -> Seq(Resource)]
  BY DEF ChainTypes, TypeOK
<1>1. ASSUME NEW p \in Process, Work(p) PROVE replacedBy' \in [Resource -> Seq(Resource)]
  <2>1. CASE CopyMetadata(p)
    <3>1. job[p].at = "copy" /\ job[p] # Idle
      BY <2>1, IdleFields DEF CopyMetadata
    <3>2. job[p].new \in Resource /\ job[p].original \in Resource /\ versionOf[job[p].new] = <<>>
      BY <3>1 DEF ChainTypes, JobsFormed, Made, OriginsExist
    <3> QED
      BY <2>1, <3>2, CopyForm DEF CopyMetadata, ChainTypes
  <2>2. CASE LinkReplacement(p)
    <3>1. job[p].new \in Resource
      BY <2>2 DEF LinkReplacement, ChainTypes, JobsFormed, Made
    <3>2. \A r \in Resource : Append(replacedBy[r], job[p].new) \in Seq(Resource)
      BY <1>0, <3>1
    <3> QED
      BY <1>0, <2>2, <3>2 DEF LinkReplacement
  <2>3. CASE Fail(p) \/ FailToRelease(p)
    <3>1. \A r \in Resource : replacedBy[r] \in Seq(Resource) /\ <<>> \in Seq(Resource)
      BY <1>0
    <3> QED
      <4>1. CASE replacedBy' = replacedBy
        BY <1>0, <4>1
      <4>2. CASE Unlink(job[p].new)
        BY <1>0, <3>1, <4>2 DEF Unlink
      <4> QED
        BY <2>3, <4>1, <4>2 DEF Fail, FailToRelease, PartlyDeleted, links
  <2> QED
    BY <1>0, <1>1, <2>1, <2>2, <2>3 DEF Work, CreateEmpty, LinkOrigin, FreezeOriginal, Finish, links
<1>2. ASSUME NEW r \in Resource, DeleteResource(r)
      PROVE  replacedBy' \in [Resource -> Seq(Resource)]
  <2>1. \A o \in Resource : replacedBy[o] # <<>> => Tail(replacedBy[o]) \in Seq(Resource)
    BY <1>0
  <2> QED
    BY <1>0, <1>2, <2>1 DEF DeleteResource
<1>3. ASSUME NEW r \in Resource, NEW n \in Resource, CopyResource(r, n)
      PROVE  replacedBy' \in [Resource -> Seq(Resource)]
  BY <1>3, CopyForm DEF CopyResource, ChainTypes, OriginsExist, Existing
<1> QED
  BY <1>0, <1>1, <1>2, <1>3 DEF Next, LockOriginal, CreateResource, PublishResource, links

LEMMA FlagsKept ==
    ASSUME ChainTypes, Next
    PROVE  /\ immutable' \in [Resource -> BOOLEAN] /\ published' \in [Resource -> BOOLEAN]
           /\ locked' \in [Resource -> BOOLEAN] /\ orderly' \in BOOLEAN
           /\ abandoned' \subseteq Resource
<1>0. /\ immutable \in [Resource -> BOOLEAN] /\ published \in [Resource -> BOOLEAN]
      /\ locked \in [Resource -> BOOLEAN] /\ orderly \in BOOLEAN
      /\ abandoned \subseteq Resource
  BY DEF ChainTypes, TypeOK
<1>1. ASSUME NEW p \in Process, Work(p)
      PROVE  /\ immutable' \in [Resource -> BOOLEAN] /\ published' \in [Resource -> BOOLEAN]
             /\ locked' \in [Resource -> BOOLEAN] /\ orderly' \in BOOLEAN
             /\ abandoned' \subseteq Resource
  <2>1. job[p].at # "idle" => job[p].original \in Resource
    BY IdleFields DEF ChainTypes, JobsFormed
  <2>2. CASE FailToRelease(p)
    <3>1. orderly' \in BOOLEAN /\ abandoned' \subseteq Resource
      BY <1>0, <2>1, <2>2 DEF FailToRelease
    <3>2. locked' \in [Resource -> BOOLEAN]
      BY <1>0, <2>2 DEF FailToRelease, PartlyDeleted
    <3>3. immutable' \in [Resource -> BOOLEAN] /\ published' \in [Resource -> BOOLEAN]
      <4>1. CASE UNCHANGED access
        BY <1>0, <4>1 DEF access
      <4>2. CASE DropFlags(job[p].new)
        BY <1>0, <4>2 DEF DropFlags
      <4> QED
        BY <2>2, <4>1, <4>2 DEF FailToRelease, PartlyDeleted, access
    <3> QED
      BY <3>1, <3>2, <3>3
  <2> QED
    BY <1>0, <1>1, <2>2 DEF Work, CreateEmpty, CopyMetadata, LinkReplacement, LinkOrigin,
       FreezeOriginal, Finish, Fail, DropFlags, Release, access
<1>2. ASSUME NEW r \in Resource, DeleteResource(r)
      PROVE  /\ immutable' \in [Resource -> BOOLEAN] /\ published' \in [Resource -> BOOLEAN]
             /\ locked' \in [Resource -> BOOLEAN] /\ orderly' \in BOOLEAN
             /\ abandoned' \subseteq Resource
  <2>1. \A o \in Resource : StaysFrozen(o) \in BOOLEAN
    BY DEF StaysFrozen
  <2> QED
    BY <1>0, <1>2, <2>1 DEF DeleteResource
<1> QED
  BY <1>0, <1>1, <1>2 DEF Next, LockOriginal, CreateResource, PublishResource, CopyResource, access

LEMMA TypesKept ==
    ASSUME ChainTypes, Next
    PROVE  ChainTypes'
BY StageForms, JobsKept, OriginsKept, ReplacedKept, FlagsKept DEF ChainTypes, TypeOK

-----------------------------------------------------------------------------
(* No cycles. *)

(* S is a set in which each resource is a version of another.                *)
Looped(f, S) == S # {} /\ \A r \in S : \E y \in S : f[r] = <<y>>

LEMMA NamesForm ==
    ASSUME NEW f
    PROVE  /\ \A r : f[r] = <<>> => Names(f, r) = {}
           /\ \A r, y : f[r] = <<y>> => Names(f, r) = {y}
<1>1. ASSUME NEW r, f[r] = <<>> PROVE Names(f, r) = {}
  BY <1>1 DEF Names
<1>2. ASSUME NEW r, NEW y, f[r] = <<y>> PROVE Names(f, r) = {y}
  <2>1. DOMAIN <<y>> = {1} /\ <<y>>[1] = y
    OBVIOUS
  <2> QED
    BY <1>2, <2>1 DEF Names
<1> QED
  BY <1>1, <1>2

LEMMA LoopForm ==
    ASSUME NEW f, \A r \in Resource : f[r] = <<>> \/ \E x \in Resource : f[r] = <<x>>
    PROVE  (\E S \in SUBSET Resource : S # {} /\ \A r \in S : Names(f, r) \cap S # {})
           <=> \E S \in SUBSET Resource : Looped(f, S)
<1>1. ASSUME NEW S \in SUBSET Resource, NEW r \in S
      PROVE  (Names(f, r) \cap S # {}) <=> \E y \in S : f[r] = <<y>>
  <2>1. f[r] = <<>> \/ \E x \in Resource : f[r] = <<x>>
    OBVIOUS
  <2>2. CASE f[r] = <<>>
    <3>1. \A y : <<y>> # <<>>
      OBVIOUS
    <3> QED
      BY <2>2, <3>1, NamesForm
  <2>3. ASSUME NEW x \in Resource, f[r] = <<x>>
        PROVE  (Names(f, r) \cap S # {}) <=> \E y \in S : f[r] = <<y>>
    <3>1. \A y : <<y>> = <<x>> => y = x
      OBVIOUS
    <3>2. Names(f, r) = {x}
      BY <2>3, NamesForm
    <3> QED
      BY <2>3, <3>1, <3>2
  <2> QED
    BY <2>1, <2>2, <2>3
<1> QED
  BY <1>1 DEF Looped

LEMMA AcyclicForm ==
    ASSUME ChainTypes
    PROVE  Acyclic <=> ~\E S \in SUBSET Resource : Looped(versionOf, S)
<1>1. \A r \in Resource : versionOf[r] = <<>> \/ \E x \in Resource : versionOf[r] = <<x>>
  BY OriginForm DEF ChainTypes
<1> QED
  BY <1>1, LoopForm DEF Acyclic

LEMMA AcyclicFormNext ==
    ASSUME ChainTypes'
    PROVE  Acyclic' <=> ~\E S \in SUBSET Resource : Looped(versionOf', S)
<1>1. \A r \in Resource : versionOf'[r] \in Seq(Resource) /\ Len(versionOf'[r]) <= 1
  BY DEF ChainTypes, TypeOK, AtMostOneOrigin
<1>2. \A r \in Resource : versionOf'[r] = <<>> \/ \E x \in Resource : versionOf'[r] = <<x>>
  BY <1>1, OneOrNone
<1> QED
  BY <1>2, LoopForm DEF Acyclic

(* A relation that leads from outside a closed set into it closes no loop.   *)
LEMMA Grown ==
    ASSUME ChainTypes, ChainTypes', Acyclic, NEW C \in SUBSET Resource, Closed(C),
           NEW n \in Resource, n \notin C, NEW s,
           s = <<>> \/ \E y \in C : s = <<y>>,
           versionOf' = [versionOf EXCEPT ![n] = s]
    PROVE  Acyclic'
<1>0. \A r \in Resource : versionOf'[r] = IF r = n THEN s ELSE versionOf[r]
  BY DEF ChainTypes, TypeOK
<1>1. ASSUME NEW S \in SUBSET Resource, S # {},
             \A r \in S : \E y \in S : versionOf'[r] = <<y>>
      PROVE  FALSE
  <2>1. CASE n \notin S
    <3>1. Looped(versionOf, S)
      BY <1>0, <1>1, <2>1 DEF Looped
    <3> QED
      BY <3>1, AcyclicForm
  <2>2. CASE n \in S
    <3>1. PICK y \in S : versionOf'[n] = <<y>>
      BY <1>1, <2>2
    <3>2. y \in C
      <4>1. s = <<y>>
        BY <1>0, <3>1
      <4>2. <<y>> # <<>> /\ \A z : <<z>> = <<y>> => z = y
        OBVIOUS
      <4> QED
        BY <4>1, <4>2
    <3>3. ASSUME NEW r \in S \cap C
          PROVE  \E z \in S \cap C : versionOf[r] = <<z>>
      <4>1. PICK z \in S : versionOf'[r] = <<z>>
        BY <1>1
      <4>2. versionOf[r] = <<z>>
        BY <1>0, <4>1
      <4> QED
        BY <4>1, <4>2 DEF Closed
    <3>4. Looped(versionOf, S \cap C)
      BY <3>1, <3>2, <3>3 DEF Looped
    <3> QED
      BY <3>4, AcyclicForm
  <2> QED
    BY <2>1, <2>2
<1>2. ~\E S \in SUBSET Resource : Looped(versionOf', S)
  BY <1>1 DEF Looped
<1> QED
  BY <1>2, AcyclicFormNext

-----------------------------------------------------------------------------
(* Closed sets. *)

LEMMA AllClosed == ChainTypes => Closed({r \in Resource : Existing(r)})
<1> SUFFICES ASSUME ChainTypes PROVE Closed({r \in Resource : Existing(r)})
  OBVIOUS
<1>1. ASSUME NEW p \in Process, job[p].new \in Resource
      PROVE  job[p].original \in Resource /\ Existing(job[p].original)
  BY <1>1, IdleFields, NoResourceAssumption DEF ChainTypes, JobsFormed
<1> QED
  BY <1>1 DEF Closed, ChainTypes, OriginsExist

(* The relations that steps add were allowed for. *)
LEMMA ClosedKept ==
    ASSUME ChainTypes, Next, NEW C \in SUBSET Resource, Closed(C)
    PROVE  Closed(C)'
<1>0. /\ \A r \in Resource : Existing(r) => Existing(r)'
      /\ versionOf \in [Resource -> Seq(Resource)] /\ job \in [Process -> Job]
  BY StageForms DEF ChainTypes, TypeOK
<1>1. \A x \in C : x \in Resource /\ Existing(x)'
  BY <1>0 DEF Closed
<1>2. \A x \in C, y \in Resource : versionOf'[x] = <<y>> => y \in C
  <2>0. \A x \in C, y \in Resource : versionOf[x] = <<y>> => y \in C
    BY DEF Closed
  <2>1. CASE versionOf' = versionOf
    BY <2>0, <2>1
  <2>2. ASSUME NEW r \in Resource, Unlinked(r)
        PROVE  \A x \in C, y \in Resource : versionOf'[x] = <<y>> => y \in C
    <3>1. \A y : <<y>> # <<>>
      OBVIOUS
    <3> QED
      BY <1>0, <2>0, <2>2, <3>1 DEF Unlinked
  <2>3. ASSUME NEW p \in Process, LinkOrigin(p), Relinked(job[p].new, job[p].original),
               NEW x \in C, NEW y \in Resource, versionOf'[x] = <<y>>
        PROVE  y \in C
    <3>1. CASE x = job[p].new
      <4>1. versionOf'[x] = <<job[p].original>> /\ job[p].original \in C
        BY <1>0, <2>3, <3>1 DEF Relinked, Closed
      <4>2. \A z : <<y>> = <<z>> => y = z
        OBVIOUS
      <4> QED
        BY <2>3, <4>1, <4>2
    <3>2. CASE x # job[p].new
      BY <1>0, <2>0, <2>3, <3>2 DEF Relinked
    <3> QED
      BY <3>1, <3>2
  <2>4. ASSUME NEW p \in Process, CopyMetadata(p), Copied(job[p].new, job[p].original)
        PROVE  \A x \in C, y \in Resource : versionOf'[x] = <<y>> => y \in C
    BY <1>0, <2>0, <2>4 DEF Copied, Closed
  <2>5. ASSUME NEW r \in Resource, NEW n \in Resource, CopyResource(r, n), Copied(n, r)
        PROVE  \A x \in C, y \in Resource : versionOf'[x] = <<y>> => y \in C
    <3>1. n \notin C
      BY <2>5 DEF CopyResource, Closed, Existing
    <3> QED
      BY <1>0, <2>0, <2>5, <3>1 DEF Copied
  <2> QED
    BY <2>1, <2>2, <2>3, <2>4, <2>5, LinkForms
<1>3. \A p \in Process : job'[p].new \in C => job'[p].original \in C
  <2>0. /\ \A p \in Process : job[p].new \in C => job[p].original \in C
        /\ \A p \in Process : job[p] \in Job
        /\ NoResource \notin C
    BY <1>0, NoResourceAssumption DEF Closed
  <2>1. CASE job' = job
    BY <2>0, <2>1
  <2>2. ASSUME NEW q \in Process, NEW r \in Resource,
               job' = [job EXCEPT ![q] = [at |-> "create", original |-> r, new |-> NoResource]]
        PROVE  \A p \in Process : job'[p].new \in C => job'[p].original \in C
    <3> DEFINE new == [at |-> "create", original |-> r, new |-> NoResource]
    <3>1. new.new = NoResource /\ job' = [job EXCEPT ![q] = new]
      BY <2>2
    <3> HIDE DEF new
    <3> QED
      BY <1>0, <2>0, <3>1
  <2>3. ASSUME NEW q \in Process, NEW n \in Resource, stage[n] = "none",
               job' = [job EXCEPT ![q].at = "copy", ![q].new = n]
        PROVE  \A p \in Process : job'[p].new \in C => job'[p].original \in C
    <3> DEFINE new == [job[q] EXCEPT !.at = "copy", !.new = n]
    <3>1. new.new = n
      BY <2>0 DEF Job
    <3>2. job' = [job EXCEPT ![q] = new]
      BY <1>0, <2>3
    <3>3. n \notin C
      BY <2>3 DEF Closed, Existing
    <3> HIDE DEF new
    <3> QED
      BY <1>0, <2>0, <3>1, <3>2, <3>3
  <2>4. ASSUME NEW q \in Process, NEW step \in Made, job' = [job EXCEPT ![q].at = step]
        PROVE  \A p \in Process : job'[p].new \in C => job'[p].original \in C
    <3> DEFINE new == [job[q] EXCEPT !.at = step]
    <3>1. new.new = job[q].new /\ new.original = job[q].original
      BY <2>0 DEF Job
    <3>2. job' = [job EXCEPT ![q] = new]
      BY <1>0, <2>4
    <3> HIDE DEF new
    <3> QED
      BY <1>0, <2>0, <3>1, <3>2
  <2>5. ASSUME NEW q \in Process, job' = [job EXCEPT ![q] = Idle]
        PROVE  \A p \in Process : job'[p].new \in C => job'[p].original \in C
    BY <1>0, <2>0, <2>5, IdleFields
  <2> QED
    BY <2>1, <2>2, <2>3, <2>4, <2>5, JobForms
<1> QED
  BY <1>1, <1>2, <1>3 DEF Closed

(* Every job is still grounded, and one that creates its new resource is. *)
LEMMA GroundedKept ==
    ASSUME ChainTypes, Grounded, Next
    PROVE  Grounded'
<1> SUFFICES ASSUME NEW p \in Process, job'[p].at \in Made
             PROVE  \E C \in SUBSET Resource :
                      Closed(C)' /\ job'[p].original \in C /\ job'[p].new \notin C
  BY DEF Grounded
<1>0. job \in [Process -> Job] /\ \A q \in Process : job[q] \in Job
  BY DEF ChainTypes, TypeOK
<1>1. CASE /\ job[p].at \in Made /\ job'[p].original = job[p].original
           /\ job'[p].new = job[p].new
  <2>1. PICK C \in SUBSET Resource :
             Closed(C) /\ job[p].original \in C /\ job[p].new \notin C
    BY <1>1 DEF Grounded
  <2> QED
    BY <1>1, <2>1, ClosedKept
<1>2. CASE /\ job[p].at = "create" /\ job'[p].original = job[p].original
           /\ job'[p].new \in Resource /\ stage[job'[p].new] = "none"
  <2>1. PICK C \in SUBSET Resource : C = {r \in Resource : Existing(r)}
    OBVIOUS
  <2>2. Closed(C)'
    BY <2>1, AllClosed, ClosedKept
  <2>3. job[p].original \in C
    BY <1>2, <2>1, IdleFields DEF ChainTypes, JobsFormed
  <2>4. job'[p].new \notin C
    BY <1>2, <2>1 DEF Existing
  <2> QED
    BY <1>2, <2>2, <2>3, <2>4
<1>3. \/ /\ job[p].at \in Made /\ job'[p].original = job[p].original
         /\ job'[p].new = job[p].new
      \/ /\ job[p].at = "create" /\ job'[p].original = job[p].original
         /\ job'[p].new \in Resource /\ stage[job'[p].new] = "none"
  <2> DEFINE Goal ==
        \/ /\ job[p].at \in Made /\ job'[p].original = job[p].original
           /\ job'[p].new = job[p].new
        \/ /\ job[p].at = "create" /\ job'[p].original = job[p].original
           /\ job'[p].new \in Resource /\ stage[job'[p].new] = "none"
  <2>1. CASE job' = job
    BY <2>1
  <2>2. ASSUME NEW q \in Process, NEW r \in Resource,
               job' = [job EXCEPT ![q] = [at |-> "create", original |-> r, new |-> NoResource]]
        PROVE  Goal
    <3> DEFINE new == [at |-> "create", original |-> r, new |-> NoResource]
    <3>1. new.at = "create" /\ job' = [job EXCEPT ![q] = new]
      BY <2>2
    <3> HIDE DEF new
    <3>2. job'[p] = job[p]
      BY <1>0, <3>1 DEF Made
    <3> QED
      BY <3>2
  <2>3. ASSUME NEW q \in Process, NEW n \in Resource, job[q].at = "create", stage[n] = "none",
               job' = [job EXCEPT ![q].at = "copy", ![q].new = n]
        PROVE  Goal
    <3> DEFINE new == [job[q] EXCEPT !.at = "copy", !.new = n]
    <3>1. new.new = n /\ new.original = job[q].original
      BY <1>0 DEF Job
    <3>2. job' = [job EXCEPT ![q] = new]
      BY <1>0, <2>3
    <3> HIDE DEF new
    <3>3. CASE p = q
      BY <1>0, <2>3, <3>1, <3>2, <3>3
    <3>4. CASE p # q
      BY <1>0, <3>2, <3>4
    <3> QED
      BY <3>3, <3>4
  <2>4. ASSUME NEW q \in Process, NEW step \in Made, job[q].at \in Made,
               job' = [job EXCEPT ![q].at = step]
        PROVE  Goal
    <3> DEFINE new == [job[q] EXCEPT !.at = step]
    <3>1. new.new = job[q].new /\ new.original = job[q].original
      BY <1>0 DEF Job
    <3>2. job' = [job EXCEPT ![q] = new]
      BY <1>0, <2>4
    <3> HIDE DEF new
    <3>3. CASE p = q
      BY <1>0, <2>4, <3>1, <3>2, <3>3
    <3>4. CASE p # q
      BY <1>0, <3>2, <3>4
    <3> QED
      BY <3>3, <3>4
  <2>5. ASSUME NEW q \in Process, job' = [job EXCEPT ![q] = Idle]
        PROVE  Goal
    <3>1. job'[p] = job[p]
      BY <1>0, <2>5, IdleFields DEF Made
    <3> QED
      BY <3>1
  <2> QED
    BY <2>1, <2>2, <2>3, <2>4, <2>5, JobForms
<1> QED
  BY <1>1, <1>2, <1>3

LEMMA AcyclicKept ==
    ASSUME ChainTypes, ChainTypes', Grounded, Acyclic, Next
    PROVE  Acyclic'
<1>1. CASE versionOf' = versionOf
  BY <1>1 DEF Acyclic
<1>2. ASSUME NEW r \in Resource, Unlinked(r) PROVE Acyclic'
  <2>1. PICK C \in SUBSET Resource : C = {}
    OBVIOUS
  <2> DEFINE s == <<>>
  <2>2. versionOf' = [versionOf EXCEPT ![r] = s] /\ s = <<>>
    BY <1>2 DEF Unlinked
  <2>3. Closed(C) /\ r \notin C
    BY <2>1 DEF Closed
  <2> HIDE DEF s
  <2> QED
    BY <2>2, <2>3, Grown
<1>3. ASSUME NEW p \in Process,
             \/ LinkOrigin(p) /\ Relinked(job[p].new, job[p].original)
             \/ CopyMetadata(p) /\ Copied(job[p].new, job[p].original)
      PROVE  Acyclic'
  <2>1. job[p].at \in Made
    BY <1>3 DEF LinkOrigin, CopyMetadata, Made
  <2>2. PICK C \in SUBSET Resource :
             Closed(C) /\ job[p].original \in C /\ job[p].new \notin C
    BY <2>1 DEF Grounded
  <2>3. PICK n \in Resource : n = job[p].new
    BY <2>1 DEF ChainTypes, JobsFormed
  <2>4. CASE Relinked(job[p].new, job[p].original)
    <3> DEFINE s == <<job[p].original>>
    <3>1. versionOf' = [versionOf EXCEPT ![n] = s] /\ \E y \in C : s = <<y>>
      BY <2>2, <2>3, <2>4 DEF Relinked
    <3> HIDE DEF s
    <3> QED
      BY <2>2, <2>3, <3>1, Grown
  <2>5. CASE Copied(job[p].new, job[p].original)
    <3> DEFINE s == versionOf[job[p].original]
    <3>1. versionOf' = [versionOf EXCEPT ![n] = s]
      BY <2>3, <2>5 DEF Copied
    <3>2. s = <<>> \/ \E y \in Resource : s = <<y>>
      BY <2>2, OriginForm DEF ChainTypes
    <3>3. s = <<>> \/ \E y \in C : s = <<y>>
      BY <2>2, <3>2 DEF Closed
    <3> HIDE DEF s
    <3> QED
      BY <2>2, <2>3, <3>1, <3>3, Grown
  <2> QED
    BY <1>3, <2>4, <2>5
<1>4. ASSUME NEW r \in Resource, NEW n \in Resource, CopyResource(r, n), Copied(n, r)
      PROVE  Acyclic'
  <2>1. PICK C \in SUBSET Resource : C = {x \in Resource : Existing(x)}
    OBVIOUS
  <2>2. Closed(C) /\ r \in C /\ n \notin C
    BY <1>4, <2>1, AllClosed DEF CopyResource, Live, Existing
  <2> DEFINE s == versionOf[r]
  <2>3. versionOf' = [versionOf EXCEPT ![n] = s]
    BY <1>4 DEF Copied
  <2>4. s = <<>> \/ \E y \in Resource : s = <<y>>
    BY OriginForm DEF ChainTypes
  <2>5. s = <<>> \/ \E y \in C : s = <<y>>
    BY <2>2, <2>4 DEF Closed
  <2> HIDE DEF s
  <2> QED
    BY <2>2, <2>3, <2>5, Grown
<1> QED
  BY <1>1, <1>2, <1>3, <1>4, LinkForms

-----------------------------------------------------------------------------
(* Frozen resources and locks. *)

LEMMA FrozenKept ==
    ASSUME ChainTypes, PublishedFrozen, Next
    PROVE  PublishedFrozen'
<1>0. immutable \in [Resource -> BOOLEAN] /\ published \in [Resource -> BOOLEAN]
  BY DEF ChainTypes, TypeOK
<1>1. ASSUME NEW p \in Process, Work(p) PROVE PublishedFrozen'
  BY <1>0, <1>1 DEF Work, CreateEmpty, CopyMetadata, LinkReplacement, LinkOrigin,
     FreezeOriginal, Finish, Fail, FailToRelease, PartlyDeleted, DropFlags, access,
     PublishedFrozen
<1>2. ASSUME NEW r \in Resource, DeleteResource(r) PROVE PublishedFrozen'
  BY <1>0, <1>2 DEF DeleteResource, StaysFrozen, PublishedFrozen
<1> QED
  BY <1>0, <1>1, <1>2 DEF Next, LockOriginal, CreateResource, PublishResource,
     CopyResource, access, PublishedFrozen

LEMMA LockKept ==
    ASSUME ChainTypes, LockHeldByWorker, Next
    PROVE  LockHeldByWorker'
<1>0. /\ locked \in [Resource -> BOOLEAN] /\ job \in [Process -> Job]
      /\ \A p \in Process : job[p] \in Job
  BY DEF ChainTypes, TypeOK
<1>1. ASSUME NEW p \in Process, NEW r \in Resource, LockOriginal(p, r)
      PROVE  LockHeldByWorker'
  <2> DEFINE new == [at |-> "create", original |-> r, new |-> NoResource]
  <2>1. new.original = r /\ job' = [job EXCEPT ![p] = new]
    BY <1>1 DEF LockOriginal
  <2>2. /\ job[p].original = NoResource /\ locked' = [locked EXCEPT ![r] = TRUE]
        /\ abandoned' = abandoned \ {r}
    BY <1>1, IdleFields DEF LockOriginal
  <2> HIDE DEF new
  <2> QED
    BY <1>0, <2>1, <2>2, NoResourceAssumption DEF LockHeldByWorker
(* A request that ends clears the lock or is known to have left it. *)
<1>2. ASSUME NEW p \in Process, job' = [job EXCEPT ![p] = Idle],
             \A r \in Resource : locked'[r] =>
                /\ locked[r] /\ (r \in abandoned => r \in abandoned')
                /\ r = job[p].original => r \in abandoned'
      PROVE  LockHeldByWorker'
  BY <1>0, <1>2 DEF LockHeldByWorker
<1>3. ASSUME NEW p \in Process, Work(p), locked' = locked, abandoned' = abandoned,
             job'[p].original = job[p].original,
             \A q \in Process : q # p => job'[q] = job[q]
      PROVE  LockHeldByWorker'
  BY <1>3 DEF LockHeldByWorker
<1>4. ASSUME NEW p \in Process, Work(p) PROVE LockHeldByWorker'
  <2>1. CASE \/ \E n \in Resource : CreateEmpty(p, n)
             \/ CopyMetadata(p) \/ LinkReplacement(p) \/ LinkOrigin(p) \/ FreezeOriginal(p)
    <3>1. locked' = locked /\ abandoned' = abandoned
          /\ \A q \in Process : q # p => job'[q] = job[q]
      BY <1>0, <2>1 DEF CreateEmpty, CopyMetadata, LinkReplacement, LinkOrigin, FreezeOriginal
    <3>2. job'[p].original = job[p].original
      BY <1>0, <2>1 DEF Job, CreateEmpty, CopyMetadata, LinkReplacement, LinkOrigin, FreezeOriginal
    <3> QED
      BY <1>3, <1>4, <3>1, <3>2
  <2>2. CASE Finish(p) \/ Fail(p)
    <3>1. PICK deleted : Release(job[p].original, deleted) /\ job' = [job EXCEPT ![p] = Idle]
      BY <2>2 DEF Finish, Fail
    <3>2. \A r \in Resource : locked'[r] =>
            locked[r] /\ r # job[p].original /\ r \notin deleted
      BY <1>0, <3>1 DEF Release
    <3>3. abandoned' = abandoned \ (deleted \cup {job[p].original})
      BY <3>1 DEF Release
    <3> QED
      BY <1>2, <3>1, <3>2, <3>3
  <2>3. CASE FailToRelease(p)
    <3>1. /\ job' = [job EXCEPT ![p] = Idle]
          /\ abandoned' = {r \in abandoned \cup {job[p].original} : locked'[r]}
      BY <2>3 DEF FailToRelease
    <3>2. \A r \in Resource : locked'[r] => locked[r]
      BY <1>0, <2>3 DEF FailToRelease, PartlyDeleted
    <3> QED
      BY <1>2, <3>1, <3>2
  <2> QED
    BY <1>4, <2>1, <2>2, <2>3 DEF Work
<1>5. ASSUME NEW r \in Resource, DeleteResource(r) PROVE LockHeldByWorker'
  <2>1. \A s \in Resource : locked'[s] => locked[s] /\ s # r
    BY <1>0, <1>5 DEF DeleteResource
  <2>2. abandoned' = abandoned \ {r} /\ job' = job
    BY <1>5 DEF DeleteResource
  <2> QED
    BY <2>1, <2>2 DEF LockHeldByWorker
<1> QED
  BY <1>0, <1>1, <1>4, <1>5 DEF Next, CreateResource, PublishResource, CopyResource,
     LockHeldByWorker

-----------------------------------------------------------------------------
LEMMA ChainInit == Init => ChainInv
<1> SUFFICES ASSUME Init PROVE ChainInv
  OBVIOUS
<1>1. TypeOK
  BY IdleFields DEF Init, TypeOK
<1>2. JobsFormed /\ NewOnce /\ OriginsExist /\ AtMostOneOrigin /\ Grounded
  <2>1. \A x : <<x>> # <<>>
    OBVIOUS
  <2> QED
    BY <2>1, IdleFields DEF Init, JobsFormed, NewOnce, OriginsExist, AtMostOneOrigin, Grounded, Made
<1>3. Acyclic
  BY NamesForm DEF Init, Acyclic
<1> QED
  BY <1>1, <1>2, <1>3 DEF ChainInv, ChainTypes, Init, PublishedFrozen, LockHeldByWorker

LEMMA ChainStep == ChainInv /\ [Next]_vars => ChainInv'
<1> SUFFICES ASSUME ChainInv, [Next]_vars PROVE ChainInv'
  OBVIOUS
<1>1. CASE Next
  BY <1>1, TypesKept, GroundedKept, AcyclicKept, FrozenKept, LockKept DEF ChainInv
<1>2. CASE UNCHANGED vars
  BY <1>2, ZenonT(30) DEF ChainInv, ChainTypes, TypeOK, JobsFormed, NewOnce, OriginsExist,
     AtMostOneOrigin, Grounded, Closed, Existing, Acyclic, PublishedFrozen, LockHeldByWorker, vars, links, access
<1> QED
  BY <1>1, <1>2

(* The invariant holds of overlapping, failing and repeated requests.        *)
THEOREM Invariance == Spec => []ChainInv
BY ChainInit, ChainStep, PTL DEF Spec

(* Every variable keeps its type, whatever requests overlap or fail.         *)
THEOREM TypeCorrect == Spec => []TypeOK
<1>1. ChainInv => TypeOK
  BY DEF ChainInv, ChainTypes
<1> QED
  BY <1>1, Invariance, PTL

(* A resource never becomes the version of two: create_new_version removes   *)
(* the isVersionOf that it copied before it adds its own.                    *)
THEOREM OneOrigin == Spec => []AtMostOneOrigin
<1>1. ChainInv => AtMostOneOrigin
  BY DEF ChainInv, ChainTypes
<1> QED
  BY <1>1, Invariance, PTL

(* Following isVersionOf from any resource comes to an end, whatever         *)
(* requests overlapped, failed, copied or deleted.                           *)
THEOREM NoLoops == Spec => []Acyclic
<1>1. ChainInv => Acyclic
  BY DEF ChainInv
<1> QED
  BY <1>1, Invariance, PTL

(* What is published is never thawed: not when its newest version is         *)
(* deleted, nor when a version of it fails.                                  *)
THEOREM PublishedStaysFrozen == Spec => []PublishedFrozen
<1>1. ChainInv => PublishedFrozen
  BY DEF ChainInv
<1> QED
  BY <1>1, Invariance, PTL

(* A locked resource has a request at work on it, even when several locked   *)
(* it and each clears the lock of the others, or was left locked by one that *)
(* raised an exception while it cleaned up.                                  *)
THEOREM LocksAreHeld == Spec => []LockHeldByWorker
<1>1. ChainInv => LockHeldByWorker
  BY DEF ChainInv
<1> QED
  BY <1>1, Invariance, PTL

-----------------------------------------------------------------------------
(* What orderly requests keep. *)

(* The relations mirror one another, but for those of x, which may not have  *)
(* its isVersionOf yet; what is replaced or published is frozen, but for y,  *)
(* which may not be yet.                                                     *)
Tidy(x, y) ==
    /\ \A r \in Resource : replacedBy[r] = <<>> \/ \E n \in Resource : replacedBy[r] = <<n>>
    /\ \A r, n \in Resource : replacedBy[r] = <<n>> => Live(r) /\ Live(n)
    /\ \A r, n \in Resource : n # x => (replacedBy[r] = <<n>> <=> versionOf[n] = <<r>>)
    /\ \A r \in Resource : Live(r) /\ r # y =>
         (immutable[r] <=> published[r] \/ replacedBy[r] # <<>>)
    /\ \A r \in Resource : ~Existing(r) => ~immutable[r] /\ ~published[r]

(* The one request under way: what it has reached, for which resources.      *)
Hand(p, at, o, n) ==
    /\ job[p].at = at /\ job[p].original = o /\ job[p].new = n
    /\ \A q \in Process \ {p} : job[q] = Idle

(* Only the original names the new resource, if anybody does.                *)
NamedBy(o, n) == \A r \in Resource : replacedBy[r] = <<n>> => r = o

Phase(at, o, n) ==
    /\ Live(o)
    /\ \/ at = "create" /\ replacedBy[o] = <<>> /\ Tidy(NoResource, NoResource)
       \/ at = "copy" /\ replacedBy[o] = <<>> /\ Live(n) /\ Tidy(NoResource, NoResource)
       \/ /\ at = "replace" /\ replacedBy[o] = <<>> /\ Live(n)
          /\ NamedBy(o, n) /\ Tidy(n, NoResource)
       \/ at = "relink" /\ replacedBy[o] = <<n>> /\ NamedBy(o, n) /\ Tidy(n, o)
       \/ at = "freeze" /\ replacedBy[o] = <<n>> /\ Tidy(NoResource, o)
       \/ at = "release" /\ Tidy(NoResource, NoResource)

Underway(p) ==
    \E o \in Resource, n \in Resource \cup {NoResource}, at \in Made \cup {"create"} :
        Hand(p, at, o, n) /\ Phase(at, o, n)

OrderlyInv ==
    orderly => \/ AllIdle /\ Tidy(NoResource, NoResource)
               \/ \E p \in Process : Underway(p)

(* Sequences of one relation. *)
LEMMA Ones ==
    /\ \A x : <<x>> # <<>>
    /\ \A x, y : <<x>> = <<y>> => x = y
OBVIOUS

LEMMA HandMoved ==
    ASSUME ChainTypes, NEW p \in Process, NEW at, NEW o, NEW n, Hand(p, at, o, n),
           NEW step, job' = [job EXCEPT ![p].at = step]
    PROVE  Hand(p, step, o, n)'
<1> DEFINE new == [job[p] EXCEPT !.at = step]
<1>0. job \in [Process -> Job] /\ job[p] \in Job
  BY DEF ChainTypes, TypeOK
<1>1. new.at = step /\ new.original = job[p].original /\ new.new = job[p].new
  BY <1>0 DEF Job
<1>2. job' = [job EXCEPT ![p] = new]
  BY <1>0
<1> HIDE DEF new
<1>3. job'[p] = new /\ \A q \in Process \ {p} : job'[q] = job[q]
  BY <1>0, <1>2
<1> QED
  BY <1>1, <1>3 DEF Hand

LEMMA CreatedTidy ==
    ASSUME ChainTypes, Tidy(NoResource, NoResource), NEW m \in Resource, stage[m] = "none",
           stage' = [stage EXCEPT ![m] = "live"],
           UNCHANGED <<replacedBy, versionOf, immutable, published>>
    PROVE  /\ Tidy(NoResource, NoResource)' /\ Live(m)'
           /\ \A r \in Resource : Live(r) => Live(r)'
<1>0. stage \in [Resource -> {"none", "live", "gone", "ghost"}]
  BY DEF ChainTypes, TypeOK
<1>1. /\ Live(m)' /\ \A r \in Resource : Live(r) => Live(r)'
      /\ \A r \in Resource : Live(r)' => Live(r) \/ r = m
      /\ \A r \in Resource : ~Existing(r)' => ~Existing(r)
      /\ ~Existing(m) /\ ~Live(m)
  BY <1>0 DEF Live, Existing
<1>2. replacedBy[m] = <<>>
  BY <1>1 DEF Tidy
<1>3. Tidy(NoResource, NoResource)'
  BY <1>1, <1>2 DEF Tidy
<1> QED
  BY <1>1, <1>3

(* One step of the request under way. *)
LEMMA UnderwayStep ==
    ASSUME ChainTypes, NEW p \in Process, Underway(p), Work(p), orderly'
    PROVE  Underway(p)' \/ (AllIdle /\ Tidy(NoResource, NoResource))'
<1>0. PICK o \in Resource, n \in Resource \cup {NoResource}, at \in Made \cup {"create"} :
        Hand(p, at, o, n) /\ Phase(at, o, n)
  BY DEF Underway
<1>1. /\ replacedBy \in [Resource -> Seq(Resource)] /\ versionOf \in [Resource -> Seq(Resource)]
      /\ stage \in [Resource -> {"none", "live", "gone", "ghost"}]
      /\ immutable \in [Resource -> BOOLEAN] /\ job \in [Process -> Job]
  BY DEF ChainTypes, TypeOK
<1>2. job[p].at = at /\ job[p].original = o /\ job[p].new = n
  BY <1>0 DEF Hand
<1>3. at \in Made => n \in Resource /\ Existing(n)
  BY <1>2 DEF ChainTypes, JobsFormed
<1>4. ASSUME NEW step \in Made, Hand(p, step, o, n)', Phase(step, o, n)' PROVE Underway(p)'
  BY <1>4 DEF Underway
<1>5. ASSUME NEW m \in Resource, CreateEmpty(p, m) PROVE Underway(p)'
  <2> DEFINE new == [job[p] EXCEPT !.at = "copy", !.new = m]
  <2>1. new.at = "copy" /\ new.original = o /\ new.new = m
    BY <1>1, <1>2 DEF Job
  <2>2. job' = [job EXCEPT ![p] = new]
    BY <1>1, <1>5 DEF CreateEmpty
  <2> HIDE DEF new
  <2>3. Hand(p, "copy", o, m)'
    BY <1>0, <1>1, <2>1, <2>2 DEF Hand
  <2>4. /\ stage[m] = "none" /\ stage' = [stage EXCEPT ![m] = "live"]
        /\ UNCHANGED <<replacedBy, versionOf, immutable, published>>
        /\ at = "create"
    BY <1>2, <1>5 DEF CreateEmpty, links, access
  <2>5. Live(o) /\ replacedBy[o] = <<>> /\ Tidy(NoResource, NoResource)
    BY <1>0, <2>4 DEF Phase
  <2>6. Tidy(NoResource, NoResource)' /\ Live(m)' /\ Live(o)'
    BY <2>4, <2>5, CreatedTidy
  <2>7. Phase("copy", o, m)'
    BY <2>4, <2>5, <2>6 DEF Phase
  <2> QED
    BY <2>3, <2>7 DEF Underway, Made
<1>6. CASE CopyMetadata(p)
  <2>1. /\ at = "copy" /\ versionOf[n] = <<>> /\ CopyLinks(o, n) /\ n \in Resource
        /\ UNCHANGED <<stage, immutable, published>>
        /\ job' = [job EXCEPT ![p].at = "replace"]
    BY <1>2, <1>3, <1>6 DEF CopyMetadata, ChainTypes, OriginsExist, Made, access
  <2>2. Live(o) /\ replacedBy[o] = <<>> /\ Live(n) /\ Tidy(NoResource, NoResource)
    BY <1>0, <2>1 DEF Phase
  <2>3. versionOf' = [versionOf EXCEPT ![n] = versionOf[o]]
    BY <2>1, CopyForm DEF Copied, ChainTypes
  <2>4. replacedBy' = replacedBy
    <3>1. \A s \in Seq(Resource) : s \o <<>> = s
      OBVIOUS
    <3>2. replacedBy' = [replacedBy EXCEPT ![n] = replacedBy[n]]
      BY <1>1, <2>1, <2>2, <3>1 DEF CopyLinks
    <3> QED
      BY <1>1, <3>2
  <2>5. \A r \in Resource : replacedBy[r] # <<n>>
    BY <2>1, <2>2, NoResourceAssumption, Ones DEF Tidy
  <2>6. Tidy(n, NoResource)'
    <3>1. \A m \in Resource \ {n} : versionOf'[m] = versionOf[m]
      BY <1>1, <2>1, <2>3
    <3>2. \A r, m \in Resource : m # n => (replacedBy'[r] = <<m>> <=> versionOf'[m] = <<r>>)
      BY <2>1, <2>2, <2>4, <3>1, NoResourceAssumption DEF Tidy
    <3>3. \A r \in Resource : Live(r)' => Live(r) /\ (~Existing(r)' => ~Existing(r))
      BY <2>1 DEF Live, Existing
    <3> QED
      BY <2>1, <2>2, <2>4, <3>2, <3>3 DEF Tidy, Live, Existing
  <2>7. Phase("replace", o, n)'
    BY <2>1, <2>2, <2>4, <2>5, <2>6 DEF Phase, NamedBy, Live
  <2> QED
    BY <1>0, <1>4, <2>1, <2>7, HandMoved DEF Made
<1>7. CASE LinkReplacement(p)
  <2>1. /\ at = "replace" /\ n \in Resource
        /\ replacedBy' = [replacedBy EXCEPT ![o] = Append(replacedBy[o], n)]
        /\ UNCHANGED <<stage, versionOf, immutable, published>>
        /\ job' = [job EXCEPT ![p].at = "relink"]
    BY <1>2, <1>3, <1>7 DEF LinkReplacement, Made, access
  <2>2. Live(o) /\ replacedBy[o] = <<>> /\ Live(n) /\ NamedBy(o, n) /\ Tidy(n, NoResource)
    BY <1>0, <2>1 DEF Phase
  <2>3. Append(<<>>, n) = <<n>>
    OBVIOUS
  <2>4. replacedBy'[o] = <<n>> /\ \A r \in Resource \ {o} : replacedBy'[r] = replacedBy[r]
    BY <1>1, <2>1, <2>2, <2>3
  <2>5. Live(o)' /\ NamedBy(o, n)'
    BY <2>1, <2>2, <2>4 DEF NamedBy, Live
  <2>6. Tidy(n, o)'
    <3>1. \A r \in Resource : replacedBy'[r] = <<>> \/ \E m \in Resource : replacedBy'[r] = <<m>>
      BY <2>1, <2>2, <2>4 DEF Tidy
    <3>2. \A r, m \in Resource : replacedBy'[r] = <<m>> => Live(r)' /\ Live(m)'
      BY <2>1, <2>2, <2>4, Ones DEF Tidy, Live
    <3>3. \A r, m \in Resource : m # n => (replacedBy'[r] = <<m>> <=> versionOf'[m] = <<r>>)
      BY <2>1, <2>2, <2>4, Ones DEF Tidy
    <3>4. \A r \in Resource : Live(r)' /\ r # o =>
            (immutable'[r] <=> published'[r] \/ replacedBy'[r] # <<>>)
      BY <2>1, <2>2, <2>4, NoResourceAssumption DEF Tidy, Live
    <3>5. \A r \in Resource : ~Existing(r)' => ~immutable'[r] /\ ~published'[r]
      BY <2>1, <2>2 DEF Tidy, Existing
    <3> QED
      BY <3>1, <3>2, <3>3, <3>4, <3>5 DEF Tidy
  <2>7. Phase("relink", o, n)'
    BY <2>4, <2>5, <2>6 DEF Phase
  <2> QED
    BY <1>0, <1>4, <2>1, <2>7, HandMoved DEF Made
<1>8. CASE LinkOrigin(p)
  <2>1. /\ at = "relink" /\ n \in Resource
        /\ UNCHANGED <<stage, replacedBy, immutable, published>>
        /\ job' = [job EXCEPT ![p].at = "freeze"]
    BY <1>2, <1>3, <1>8 DEF LinkOrigin, Made, access
  <2>2. versionOf' = [versionOf EXCEPT ![n] = <<o>>]
    BY <1>2, <1>8, <2>1, RelinkForm DEF Relinked, ChainTypes
  <2>3. Live(o) /\ replacedBy[o] = <<n>> /\ NamedBy(o, n) /\ Tidy(n, o)
    BY <1>0, <2>1 DEF Phase
  <2>4. versionOf'[n] = <<o>> /\ \A m \in Resource \ {n} : versionOf'[m] = versionOf[m]
    BY <1>1, <2>1, <2>2
  <2>5. \A r, m \in Resource : replacedBy'[r] = <<m>> <=> versionOf'[m] = <<r>>
    <3>1. \A r \in Resource : replacedBy[r] = <<n>> <=> <<o>> = <<r>>
      BY <2>3, Ones DEF NamedBy
    <3> QED
      BY <2>1, <2>3, <2>4, <3>1 DEF Tidy
  <2>6. Tidy(NoResource, o)'
    BY <2>1, <2>3, <2>5 DEF Tidy, Live, Existing
  <2>7. Phase("freeze", o, n)'
    BY <2>1, <2>3, <2>6 DEF Phase, Live
  <2> QED
    BY <1>0, <1>4, <2>1, <2>7, HandMoved DEF Made
<1>9. CASE FreezeOriginal(p)
  <2>1. /\ at = "freeze" /\ immutable' = [immutable EXCEPT ![o] = TRUE]
        /\ UNCHANGED <<stage, replacedBy, versionOf, published>>
        /\ job' = [job EXCEPT ![p].at = "release"]
    BY <1>2, <1>9 DEF FreezeOriginal, links
  <2>2. Live(o) /\ replacedBy[o] = <<n>> /\ Tidy(NoResource, o)
    BY <1>0, <2>1 DEF Phase
  <2>3. \A r \in Resource : Live(r) => (immutable'[r] <=> published[r] \/ replacedBy[r] # <<>>)
    <3>1. immutable'[o] = TRUE /\ replacedBy[o] # <<>>
      BY <1>1, <2>1, <2>2, Ones
    <3>2. \A r \in Resource \ {o} : immutable'[r] = immutable[r]
      BY <1>1, <2>1
    <3> QED
      BY <2>2, <3>1, <3>2 DEF Tidy
  <2>4. \A r \in Resource : ~Existing(r) => r # o
    BY <2>2 DEF Existing, Live
  <2>5. Tidy(NoResource, NoResource)'
    BY <1>1, <2>1, <2>2, <2>3, <2>4, ZenonT(30) DEF Tidy, Live, Existing
  <2>6. Phase("release", o, n)'
    BY <2>1, <2>2, <2>5 DEF Phase, Live
  <2> QED
    BY <1>0, <1>4, <2>1, <2>6, HandMoved DEF Made
<1>10. CASE Finish(p)
  <2>1. /\ at = "release" /\ Release(o, {}) /\ job' = [job EXCEPT ![p] = Idle]
        /\ UNCHANGED <<replacedBy, versionOf, immutable, published>>
    BY <1>2, <1>10 DEF Finish, links, access
  <2>2. Live(o) /\ Tidy(NoResource, NoResource)
    BY <1>0, <2>1 DEF Phase
  <2>3. stage' = stage
    BY <1>1, <2>1, <2>2 DEF Release, Live
  <2>4. AllIdle'
    BY <1>0, <1>1, <2>1 DEF Hand, AllIdle
  <2>5. Tidy(NoResource, NoResource)'
    BY <2>1, <2>2, <2>3 DEF Tidy, Live, Existing
  <2> QED
    BY <2>4, <2>5
<1>11. ~Fail(p) /\ ~FailToRelease(p)
  BY DEF Fail, FailToRelease
<1> QED
  BY <1>5, <1>6, <1>7, <1>8, <1>9, <1>10, <1>11 DEF Work

LEMMA PublishedTidy ==
    ASSUME ChainTypes, Tidy(NoResource, NoResource), NEW r \in Resource, PublishResource(r)
    PROVE  Tidy(NoResource, NoResource)'
<1>1. /\ Live(r) /\ immutable'[r] = TRUE /\ published'[r] = TRUE
      /\ \A s \in Resource \ {r} : immutable'[s] = immutable[s] /\ published'[s] = published[s]
      /\ UNCHANGED <<stage, replacedBy, versionOf>>
  BY DEF PublishResource, ChainTypes, TypeOK, links
<1>2. \A s \in Resource : (Live(s)' <=> Live(s)) /\ (Existing(s)' <=> Existing(s))
  BY <1>1 DEF Live, Existing
<1>3. Existing(r)
  BY <1>1 DEF Live, Existing
<1> QED
  BY <1>1, <1>2, <1>3 DEF Tidy

(* The original of the deleted version is the resource it replaced, so the   *)
(* relation that is removed is the one that names it.                        *)
LEMMA DeletedTidy ==
    ASSUME ChainTypes, Tidy(NoResource, NoResource), NEW r \in Resource, DeleteResource(r)
    PROVE  Tidy(NoResource, NoResource)'
<1>0. /\ replacedBy \in [Resource -> Seq(Resource)] /\ versionOf \in [Resource -> Seq(Resource)]
      /\ stage \in [Resource -> {"none", "live", "gone", "ghost"}]
      /\ immutable \in [Resource -> BOOLEAN] /\ published \in [Resource -> BOOLEAN]
  BY DEF ChainTypes, TypeOK
<1>1. /\ replacedBy[r] = <<>> /\ Live(r) /\ stage'[r] = "gone"
      /\ versionOf'[r] = <<>> /\ published'[r] = FALSE
      /\ \A s \in Resource \ {r} :
           stage'[s] = stage[s] /\ versionOf'[s] = versionOf[s] /\ published'[s] = published[s]
  BY <1>0 DEF DeleteResource
<1>2. /\ \A s \in Resource : Live(s)' <=> Live(s) /\ s # r
      /\ \A s \in Resource : ~Existing(s)' => ~Existing(s) /\ s # r
  BY <1>1 DEF Live, Existing
<1>3. CASE versionOf[r] = <<>>
  <2>1. replacedBy' = replacedBy /\ immutable' = [immutable EXCEPT ![r] = FALSE]
    BY <1>3 DEF DeleteResource
  <2>2. \A s \in Resource \ {r} : immutable'[s] = immutable[s]
    BY <1>0, <2>1
  <2>3. \A s \in Resource : replacedBy[s] # <<r>>
    BY <1>3, Ones, NoResourceAssumption DEF Tidy
  <2>4. \A s, n \in Resource : replacedBy'[s] = <<n>> => Live(s)' /\ Live(n)'
    BY <1>1, <1>2, <2>1, <2>3, Ones DEF Tidy
  <2>5. \A s, n \in Resource : replacedBy'[s] = <<n>> <=> versionOf'[n] = <<s>>
    BY <1>1, <1>3, <2>1, <2>3, Ones, NoResourceAssumption DEF Tidy
  <2>6. \A s \in Resource : Live(s)' =>
          (immutable'[s] <=> published'[s] \/ replacedBy'[s] # <<>>)
    BY <1>1, <1>2, <2>1, <2>2, NoResourceAssumption DEF Tidy
  <2>7. \A s \in Resource : ~Existing(s)' => ~immutable'[s] /\ ~published'[s]
    BY <1>1, <1>2, <2>2 DEF Tidy
  <2> QED
    BY <2>1, <2>4, <2>5, <2>6, <2>7 DEF Tidy
<1>4. CASE versionOf[r] # <<>>
  <2>1. PICK o \in Resource : versionOf[r] = <<o>>
    BY <1>4, OriginForm DEF ChainTypes
  <2>2. Head(<<o>>) = o /\ Tail(<<r>>) = <<>>
    OBVIOUS
  <2>3. replacedBy[o] = <<r>> /\ o # r
    BY <1>1, <2>1, Ones, NoResourceAssumption DEF Tidy
  <2>4. /\ replacedBy' = [replacedBy EXCEPT ![o] = Tail(@)]
        /\ immutable' = [immutable EXCEPT ![o] = StaysFrozen(o), ![r] = FALSE]
    <3>1. Head(versionOf[r]) = o /\ replacedBy[o] # <<>>
      BY <2>1, <2>2, <2>3, Ones
    <3> QED
      BY <1>4, <3>1 DEF DeleteResource
  <2>5. replacedBy'[o] = <<>> /\ \A s \in Resource \ {o} : replacedBy'[s] = replacedBy[s]
    BY <1>0, <2>2, <2>3, <2>4
  <2>6. /\ immutable'[r] = FALSE /\ immutable'[o] = StaysFrozen(o)
        /\ \A s \in Resource \ {o, r} : immutable'[s] = immutable[s]
    BY <1>0, <2>3, <2>4
  <2>7. Live(o) /\ immutable[o] /\ Existing(o)
    BY <2>3, Ones, NoResourceAssumption DEF Tidy, Live, Existing
  <2>8. \A s \in Resource : replacedBy[s] = <<r>> => s = o
    BY <2>1, Ones, NoResourceAssumption DEF Tidy
  <2>9. \A s \in Resource : replacedBy'[s] = <<>> \/ \E n \in Resource : replacedBy'[s] = <<n>>
    BY <2>5 DEF Tidy
  <2>10. \A s, n \in Resource : replacedBy'[s] = <<n>> => Live(s)' /\ Live(n)'
    BY <1>1, <1>2, <2>5, <2>8, Ones DEF Tidy
  <2>11. ASSUME NEW s \in Resource, NEW n \in Resource
         PROVE  replacedBy'[s] = <<n>> <=> versionOf'[n] = <<s>>
    <3>1. replacedBy[s] = <<n>> <=> versionOf[n] = <<s>>
      BY NoResourceAssumption DEF Tidy
    <3>2. CASE n = r
      BY <1>1, <2>5, <2>8, <3>2, Ones
    <3>3. CASE n # r /\ s = o
      BY <1>1, <2>3, <2>5, <3>1, <3>3, Ones
    <3>4. CASE n # r /\ s # o
      BY <1>1, <2>5, <3>1, <3>4
    <3> QED
      BY <3>2, <3>3, <3>4
  <2>12. ASSUME NEW s \in Resource, Live(s)'
         PROVE  immutable'[s] <=> published'[s] \/ replacedBy'[s] # <<>>
    <3>1. Live(s) /\ s # r /\ published'[s] = published[s]
      BY <1>1, <1>2, <2>12
    <3>2. immutable[s] <=> published[s] \/ replacedBy[s] # <<>>
      BY <3>1, NoResourceAssumption DEF Tidy
    <3>3. CASE s = o
      BY <2>5, <2>6, <2>7, <3>1, <3>3 DEF StaysFrozen
    <3>4. CASE s # o
      BY <2>5, <2>6, <3>1, <3>2, <3>4
    <3> QED
      BY <3>3, <3>4
  <2>13. \A s \in Resource : ~Existing(s)' => ~immutable'[s] /\ ~published'[s]
    BY <1>1, <1>2, <2>6, <2>7 DEF Tidy
  <2> QED
    BY <2>9, <2>10, <2>11, <2>12, <2>13 DEF Tidy
<1> QED
  BY <1>3, <1>4

LEMMA OrderlyInit == Init => OrderlyInv
BY Ones DEF Init, OrderlyInv, AllIdle, Tidy, Live, Existing

(* Requests that come when nothing is under way. *)
LEMMA OrderlyRequest ==
    ASSUME ChainTypes, OrderlyInv, orderly, AllIdle
    PROVE  Tidy(NoResource, NoResource)
BY IdleFields DEF OrderlyInv, AllIdle, Underway, Hand, Made

LEMMA OrderlyStep == ChainInv /\ OrderlyInv /\ [Next]_vars => OrderlyInv'
<1> SUFFICES ASSUME ChainInv, OrderlyInv, [Next]_vars, orderly'
             PROVE  (AllIdle /\ Tidy(NoResource, NoResource))' \/ \E p \in Process : Underway(p)'
  BY DEF OrderlyInv
<1>0. ChainTypes /\ job \in [Process -> Job]
  BY DEF ChainInv, ChainTypes, TypeOK
<1>1. ASSUME NEW p \in Process, Work(p)
      PROVE  (AllIdle /\ Tidy(NoResource, NoResource))' \/ Underway(p)'
  <2>1. orderly /\ job[p].at # "idle"
    BY <1>1 DEF Work, CreateEmpty, CopyMetadata, LinkReplacement, LinkOrigin,
       FreezeOriginal, Finish, Fail, FailToRelease
  <2>2. PICK q \in Process : Underway(q)
    BY <2>1, IdleFields DEF OrderlyInv, AllIdle
  <2>3. q = p
    BY <2>1, <2>2, IdleFields DEF Underway, Hand
  <2> QED
    BY <1>0, <1>1, <2>2, <2>3, UnderwayStep
<1>2. ASSUME NEW p \in Process, NEW r \in Resource, LockOriginal(p, r)
      PROVE  Underway(p)'
  <2>1. orderly /\ AllIdle /\ Live(r) /\ replacedBy[r] = <<>>
    BY <1>2 DEF LockOriginal
  <2>2. Tidy(NoResource, NoResource)
    BY <1>0, <2>1, OrderlyRequest
  <2>3. UNCHANGED <<stage, replacedBy, versionOf, immutable, published>>
    BY <1>2 DEF LockOriginal, links, access
  <2>4. Phase("create", r, NoResource)'
    BY <2>1, <2>2, <2>3 DEF Phase, Tidy, Live, Existing
  <2> DEFINE new == [at |-> "create", original |-> r, new |-> NoResource]
  <2>5. /\ new.at = "create" /\ new.original = r /\ new.new = NoResource
        /\ job' = [job EXCEPT ![p] = new]
    BY <1>2 DEF LockOriginal
  <2> HIDE DEF new
  <2>6. Hand(p, "create", r, NoResource)'
    BY <1>0, <2>1, <2>5 DEF Hand, AllIdle
  <2> QED
    BY <2>4, <2>6 DEF Underway
<1>3. ASSUME NEW r \in Resource, CreateResource(r) \/ DeleteResource(r) \/ PublishResource(r)
      PROVE  (AllIdle /\ Tidy(NoResource, NoResource))'
  <2>1. orderly /\ AllIdle /\ job' = job
    BY <1>3 DEF CreateResource, DeleteResource, PublishResource
  <2>2. Tidy(NoResource, NoResource) /\ AllIdle'
    BY <1>0, <2>1, OrderlyRequest DEF AllIdle
  <2>3. CASE CreateResource(r)
    BY <1>0, <2>2, <2>3, CreatedTidy DEF CreateResource, links, access
  <2> QED
    BY <1>0, <1>3, <2>2, <2>3, DeletedTidy, PublishedTidy
<1>4. CASE UNCHANGED vars
  <2>1. UNCHANGED <<stage, replacedBy, versionOf, immutable, published, job, orderly>>
    BY <1>4 DEF vars, links, access
  <2>2. \A x, y : Tidy(x, y)' <=> Tidy(x, y)
    BY <2>1 DEF Tidy, Live, Existing
  <2>3. \A at, o, n : Phase(at, o, n)' <=> Phase(at, o, n)
    BY <2>1, <2>2 DEF Phase, NamedBy, Live
  <2>4. \A p \in Process : Underway(p)' <=> Underway(p)
    BY <2>1, <2>3 DEF Underway, Hand
  <2> QED
    BY <2>1, <2>2, <2>4 DEF OrderlyInv, AllIdle
<1> QED
  BY <1>1, <1>2, <1>3, <1>4 DEF Next, CopyResource

(* As long as versions are made one after another, of resources that have    *)
(* none, and nothing fails, OrderlyInv tells which relations and flags are   *)
(* still missing at each step of the request.                                *)
LEMMA Orderliness == Spec => []OrderlyInv
BY ChainInit, ChainStep, OrderlyInit, OrderlyStep, PTL DEF Spec

(* Orderly requests leave the two relations mirroring one another, in chains *)
(* of live resources.                                                        *)
THEOREM OrderlyHistory == Spec => []LinearHistory
<1>1. ChainInv /\ OrderlyInv => LinearHistory
  <2> SUFFICES ASSUME ChainInv, OrderlyInv, orderly, AllIdle,
                      NEW r \in Resource, NEW n \in Resource
               PROVE  /\ n \in Names(replacedBy, r) <=> r \in Names(versionOf, n)
                      /\ n \in Names(replacedBy, r) => Live(r) /\ Live(n)
                      /\ Len(replacedBy[r]) <= 1
    BY DEF LinearHistory
  <2>1. ChainTypes /\ Tidy(NoResource, NoResource)
    BY OrderlyRequest DEF ChainInv
  <2>2. Len(replacedBy[r]) <= 1
    <3>1. replacedBy[r] = <<>> \/ \E m \in Resource : replacedBy[r] = <<m>>
      BY <2>1 DEF Tidy
    <3>2. CASE replacedBy[r] = <<>>
      BY <3>2
    <3>3. CASE \E m \in Resource : replacedBy[r] = <<m>>
      <4>1. PICK m \in Resource : replacedBy[r] = <<m>>
        BY <3>3
      <4>2. Len(<<m>>) = 1
        OBVIOUS
      <4>3. Len(replacedBy[r]) = 1
        BY <4>1, <4>2, Zenon
      <4> QED
        BY <4>3
    <3> QED
      BY <3>1, <3>2, <3>3
  <2>4. n \in Names(replacedBy, r) <=> replacedBy[r] = <<n>>
    BY <2>1, Ones, NamesForm DEF Tidy
  <2>5. r \in Names(versionOf, n) <=> versionOf[n] = <<r>>
    BY <2>1, Ones, NamesForm, OriginForm DEF ChainTypes
  <2> QED
    BY <2>1, <2>2, <2>4, <2>5, NoResourceAssumption DEF Tidy
<1> QED
  BY <1>1, Invariance, Orderliness, PTL

(* Orderly requests leave exactly the replaced and the published resources   *)
(* immutable: deleting the newest version thaws the one before it.           *)
THEOREM OrderlyFreezing == Spec => []FrozenIffReplaced
<1>1. ChainInv /\ OrderlyInv => FrozenIffReplaced
  BY OrderlyRequest, NoResourceAssumption DEF ChainInv, FrozenIffReplaced, Tidy
<1> QED
  BY <1>1, Invariance, Orderliness, PTL
=============================================================================
