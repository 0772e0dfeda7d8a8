------------------------- MODULE GitPushes_proofs -------------------------
(***************************************************************************)
(* Proofs about GitPushes, for any guests, credentials, limits, histories  *)
(* and bundles: every publication in the metadata has its bundle and the   *)
(* store keeps to its limit, a publication is pushed at most once and its  *)
(* status tells the truth about it, the lease protects commits of others,  *)
(* and what is sent was reviewed, in a review that shows what the push     *)
(* brings.                                                                 *)
(*                                                                         *)
(* The inductive invariant relates four copies of a publication that run   *)
(* apart: the metadata, the directories, the worker's snapshot and the     *)
(* submission being accepted.  UUIDs are fresh, so what disappeared cannot *)
(* come back under the worker's hands; a snapshot agrees with the metadata *)
(* in everything a push depends on; and from admission to the record the   *)
(* publication stays in the metadata as Sending, which nothing but the     *)
(* worker and a restart may change.                                        *)
(***************************************************************************)
EXTENDS GitPushes, FiniteSetTheorems, TLAPS

-----------------------------------------------------------------------------
(* What a review shows.  The examination sees the history cut off at the   *)
(* base; what it lists has to be the whole ancestry of the head without    *)
(* that of the base.  The two agree because the commits listed form one    *)
(* line from the base: a commit of it that was older than the base would   *)
(* be its own ancestor.  What the branch gains besides is below the base,  *)
(* and the repository has it, because it has the base.                     *)

Parents(c) == Elems(History[c].parents)

LEMMA ElemsOne ==
  ASSUME NEW x
  PROVE  Elems(<<x>>) = {x}
BY DEF Elems

-----------------------------------------------------------------------------
(* What can be reached *)

LEMMA ReachHas ==
  ASSUME NEW c \in Commits, NEW stop
  PROVE  c \in Reach(c, stop) /\ Reach(c, stop) \subseteq Commits
BY DEF Reach

LEMMA ReachClosed ==
  ASSUME NEW c, NEW stop, NEW x \in Reach(c, stop) \ stop
  PROVE  Parents(x) \subseteq Reach(c, stop)
<1>1. x \in Commits /\ Parents(x) \subseteq Commits
  BY HistoryAssumption DEF Reach, Parents
<1> QED  BY <1>1 DEF Reach, Parents

LEMMA ReachLeast ==
  ASSUME NEW c, NEW stop, NEW S \in SUBSET Commits, c \in S,
         \A x \in S \ stop : Parents(x) \subseteq S
  PROVE  Reach(c, stop) \subseteq S
BY DEF Reach, Parents

LEMMA AncestryHas ==
  ASSUME NEW c \in Commits
  PROVE  /\ c \in Ancestry[c] /\ Ancestry[c] \subseteq Commits
         /\ \A x \in Ancestry[c] : Parents(x) \subseteq Ancestry[c]
BY ReachHas, ReachClosed DEF Ancestry

LEMMA AncestryLeast ==
  ASSUME NEW c \in Commits, NEW S \in SUBSET Commits, c \in S, \A x \in S : Parents(x) \subseteq S
  PROVE  Ancestry[c] \subseteq S
BY ReachLeast DEF Ancestry

LEMMA AncestryTransitive ==
  ASSUME NEW c \in Commits, NEW a \in Ancestry[c]
  PROVE  Ancestry[a] \subseteq Ancestry[c]
BY AncestryHas, AncestryLeast

\* Whoever is not the commit itself is reached over one of its parents.
LEMMA OverAParent ==
  ASSUME NEW c \in Commits, NEW a \in Ancestry[c], a # c
  PROVE  \E p \in Parents(c) : a \in Ancestry[p]
<1> DEFINE S == {c} \cup UNION {Ancestry[p] : p \in Parents(c)}
<1>1. Parents(c) \subseteq Commits
  BY HistoryAssumption DEF Parents
<1>2. S \in SUBSET Commits /\ \A p \in Parents(c) : p \in S
  BY <1>1, AncestryHas
<1>3. \A x \in S : Parents(x) \subseteq S
  BY <1>1, <1>2, AncestryHas
<1>4. Ancestry[c] \subseteq S
  BY <1>2, <1>3, AncestryLeast
<1> QED  BY <1>4

LEMMA Acyclic ==
  ASSUME NEW a \in Commits, NEW b \in Ancestry[a], a \in Ancestry[b]
  PROVE  a = b
<1> DEFINE S == {x \in Ancestry[a] : a \in Ancestry[x]}
<1>1. S \in SUBSET Commits /\ a \in S /\ b \in S
  BY AncestryHas
<1>2. PICK m \in S : Parents(m) \cap S = {}
  BY <1>1, HistoryAssumption DEF Parents
<1>3. ASSUME NEW p \in Parents(m), a \in Ancestry[p] PROVE FALSE
  BY <1>2, <1>3, AncestryHas
<1>4. m = a
  BY <1>1, <1>2, <1>3, OverAParent
<1>5. ASSUME b # a PROVE FALSE
  <2>1. PICK p \in Parents(a) : b \in Ancestry[p]
    BY <1>5, OverAParent
  <2>2. p \in Commits
    BY HistoryAssumption DEF Parents
  <2>3. a \in Ancestry[p]
    BY <2>1, <2>2, AncestryTransitive
  <2> QED  BY <1>3, <1>4, <2>3
<1> QED  BY <1>5

-----------------------------------------------------------------------------
(* What the branch gains *)

LEMMA LinearGains ==
  ASSUME NEW base, NEW head \in Commits, base \in Reach(head, {base}),
         NEW n \in Nat, NEW s \in [1 .. n -> RevList(base, head)],
         Elems(s) = RevList(base, head), Linear(s, base)
  PROVE  Ancestry[head] \ Ancestry[base] = RevList(base, head)
<1> DEFINE range == RevList(base, head)
<1>1. /\ base \in Commits /\ range \subseteq Commits /\ base \notin range
      /\ head \in range \cup {base}
  BY ReachHas DEF RevList
<1>2. ASSUME NEW c \in range
      PROVE  Parents(c) # {} /\ Parents(c) \subseteq range \cup {base}
  <2>1. PICK i \in 1 .. n : s[i] = c
    BY DEF Elems
  <2>2. CASE i = 1
    <3>1. History[c].parents = <<base>>
      BY <2>1, <2>2 DEF Linear
    <3> QED  BY <3>1, ElemsOne DEF Parents
  <2>3. CASE i # 1
    <3>1. i - 1 \in 1 .. n
      BY <2>3
    <3>2. History[c].parents = <<s[i - 1]>>
      BY <2>1, <2>3 DEF Linear
    <3> QED  BY <3>1, <3>2, ElemsOne DEF Parents
  <2> QED  BY <2>2, <2>3
<1>3. \A c \in range : base \in Ancestry[c]
  <2> DEFINE W == {c \in range : base \notin Ancestry[c]}
  <2>1. SUFFICES ASSUME W # {} PROVE FALSE
    OBVIOUS
  <2>2. PICK c \in W : Parents(c) \cap W = {}
    BY <1>1, <2>1, HistoryAssumption DEF Parents
  <2>3. PICK p \in Parents(c) : p = base \/ (p \in range /\ base \in Ancestry[p])
    BY <1>2, <2>2
  <2>4. p \in Ancestry[c] /\ base \in Ancestry[p]
    BY <1>1, <2>3, AncestryHas
  <2> QED  BY <1>1, <2>2, <2>4, AncestryTransitive
<1>4. range \cap Ancestry[base] = {}
  BY <1>1, <1>3, Acyclic
<1>5. range \subseteq Ancestry[head]
  <2>1. \A x \in Ancestry[head] : Parents(x) \subseteq Ancestry[head]
    BY AncestryHas
  <2>2. Reach(head, {base}) \subseteq Ancestry[head]
    BY <2>1, AncestryHas, ReachLeast
  <2> QED  BY <2>2 DEF RevList
<1>6. Ancestry[head] \subseteq range \cup Ancestry[base]
  <2> DEFINE S == range \cup Ancestry[base]
  <2>1. S \in SUBSET Commits /\ head \in S /\ base \in S
    BY <1>1, AncestryHas
  <2>2. \A x \in S : Parents(x) \subseteq S
    BY <1>1, <1>2, <2>1, AncestryHas
  <2> QED  BY <2>1, <2>2, AncestryLeast
<1> QED  BY <1>4, <1>5, <1>6

-----------------------------------------------------------------------------
(* What is shown of a commit *)

Touched(c, p) ==
  {path \in DOMAIN History[c].tree \cup DOMAIN History[p].tree :
     ~(/\ path \in DOMAIN History[c].tree /\ path \in DOMAIN History[p].tree
       /\ History[c].tree[path] = History[p].tree[path])}

\* A path that a commit changes is an entry's path, or what a rename had it from.
LEMMA ChangesShow ==
  ASSUME NEW c, NEW p, NEW path \in Touched(c, p)
  PROVE  \E f \in Changes(c, p) : f.commit = c /\ path \in {f.path, f.old}
<1> DEFINE old == History[p].tree
           new == History[c].tree
           added == DOMAIN new \ DOMAIN old
           gone == DOMAIN old \ DOMAIN new
           renames == {r \in gone \X added : old[r[1]] = new[r[2]]}
           entry(status, q, from) == [commit |-> c, status |-> status, path |-> q, old |-> from]
<1>1. Changes(c, p) =
        {entry("R", r[2], r[1]) : r \in renames}
          \cup {entry("A", q, None) : q \in added \ {r[2] : r \in renames}}
          \cup {entry("D", q, None) : q \in gone \ {r[1] : r \in renames}}
          \cup {entry("M", q, None) : q \in {x \in DOMAIN old \cap DOMAIN new : old[x] # new[x]}}
  BY DEF Changes
<1>2. CASE \E r \in renames : path \in {r[1], r[2]}
  <2>1. PICK r \in renames : path \in {r[1], r[2]}
    BY <1>2
  <2>2. entry("R", r[2], r[1]) \in Changes(c, p)
    BY <1>1
  <2> QED  BY <2>1, <2>2
<1>3. CASE ~\E r \in renames : path \in {r[1], r[2]}
  <2>1. \/ path \in added \ {r[2] : r \in renames}
        \/ path \in gone \ {r[1] : r \in renames}
        \/ path \in {x \in DOMAIN old \cap DOMAIN new : old[x] # new[x]}
    BY <1>3 DEF Touched
  <2>2. PICK status \in {"A", "D", "M"} : entry(status, path, None) \in Changes(c, p)
    BY <1>1, <2>1
  <2> QED  BY <2>2
<1> QED  BY <1>2, <1>3

-----------------------------------------------------------------------------
\* What the examination says of the bundle and its commits.
LEMMA ExaminedBundle ==
  ASSUME NEW b, Examine(b) # None
  PROVE  Examine(b).base = b.base /\ Examine(b).head \in Commits
<1>1. PICK base, head, commits, files :
        /\ b.base = base /\ head \in Commits
        /\ Examine(b) = [base |-> base, head |-> head, commits |-> commits, files |-> files]
  BY DEF Examine
<1> QED  BY <1>1

\* A repository has the parents of its commits.
Closed(R) == R \subseteq Commits /\ \A c \in R : Parents(c) \subseteq R

LEMMA BelowClosed ==
  ASSUME NEW R, Closed(R), NEW tip \in Oids
  PROVE  Closed(R \cup Below(tip))
<1>1. CASE tip = None
  BY <1>1 DEF Below
<1>2. CASE tip # None
  <2>1. tip \in Commits
    BY <1>2 DEF Oids
  <2> QED  BY <1>2, <2>1, AncestryHas DEF Below, Closed
<1> QED  BY <1>1, <1>2

LEMMA CommitBelow ==
  ASSUME NEW c \in Commits
  PROVE  Below(c) = Ancestry[c]
BY BundleAssumption DEF Below

(***************************************************************************)
(* A review shows what a push of its bundle brings, over any tip, to any   *)
(* repository that has the base: every commit the branch gains is listed   *)
(* or is history of the base that the repository has already, every path a *)
(* listed commit changes is listed, and there is no object besides         *)
(* (prepare_remote, validate_objects, commits, changed_files).             *)
(***************************************************************************)
THEOREM ReviewShows ==
  ASSUME NEW b, Examine(b) # None, NEW tip, NEW R, Closed(R), Examine(b).base \in R
  PROVE  Shows(Examine(b), b, tip, R)
<1>1. PICK base, head, commits, files :
        /\ BundleHeader(b) # None /\ base = BundleHeader(b).base /\ head = BundleHeader(b).head
        /\ commits = CommitsReview(base, head) /\ commits # None
        /\ files = ChangedFiles(commits)
        /\ Examine(b) = [base |-> base, head |-> head, commits |-> commits, files |-> files]
        /\ head \in Commits /\ IsAncestor(base, head)
        /\ ValidateObjects(base, head, b.objects)
  BY DEF Examine
<1>2. head = b.references[1].oid
  BY <1>1 DEF BundleHeader
<1> DEFINE range == RevList(base, head)
<1>3. /\ commits \in [1 .. Cardinality(range) -> range]
      /\ Elems(commits) = range /\ Linear(commits, base)
  BY <1>1 DEF CommitsReview
<1>4. Ancestry[head] \ Ancestry[base] = range
  <2>1. range \subseteq Commits
    BY <1>1, ReachHas DEF RevList
  <2>2. Cardinality(range) \in Nat
    BY <2>1, HistoryAssumption, FS_Subset, FS_CardinalityType
  <2> QED  BY <1>1, <1>3, <2>2, LinearGains DEF IsAncestor
<1>5. ASSUME NEW c \in range, NEW p \in Parents(c), NEW path \in Touched(c, p)
      PROVE  \E f \in files : f.commit = c /\ path \in {f.path, f.old}
  <2>1. PICK i \in DOMAIN commits : c = commits[i]
    BY <1>3 DEF Elems
  <2>2. p = History[c].parents[1]
    BY <1>3, <2>1 DEF Linear, Parents, Elems
  <2>3. Changes(c, p) \subseteq files
    BY <1>1, <2>1, <2>2 DEF ChangedFiles
  <2> QED  BY <2>3, ChangesShow
<1>6. b.objects \subseteq ObjectsOf(range \cup {base})
  BY <1>1 DEF ValidateObjects, Baseline, ObjectsOf
<1>7. PICK review : /\ review = Examine(b) /\ review.base = base /\ review.head = head
                    /\ review.commits = commits /\ review.files = files
  BY <1>1
<1>8. base \in R /\ base \in Commits /\ Ancestry[base] \subseteq R
  BY <1>7, AncestryLeast DEF Closed
<1>9. Below(head) = Ancestry[head] /\ Below(base) = Ancestry[base]
  BY <1>1, <1>8, CommitBelow
<1> DEFINE paths(c) == {f.path : f \in {g \in review.files : g.commit = c}}
                         \cup {f.old : f \in {g \in review.files : g.commit = c}}
<1>10. \A c \in range : \A p \in Parents(c) : Touched(c, p) \subseteq paths(c)
  BY <1>5, <1>7
<1>11. Elems(review.commits) = range
  BY <1>3, <1>7
<1>12. /\ Below(head) \ Below(tip) \subseteq range \cup (Below(base) \cap R)
       /\ range \subseteq Below(head) \ Below(base)
  BY <1>4, <1>8, <1>9
<1> HIDE DEF range
<1>13. Shows(review, b, tip, R)
  BY <1>2, <1>6, <1>7, <1>10, <1>11, <1>12 DEF Shows, Parents, Touched
<1> QED  BY <1>7, <1>13

-----------------------------------------------------------------------------
(* The inductive invariant *)

Decided == {"Pending", "Approved", "Sending", "Denied", "Published", "Unknown"}

\* A publication that was pushed n times, while the repository has R.
JobOK(j, n, R) ==
  /\ n \in 0 .. 1
  /\ j.status \in NotSent \cup Waiting => n = 0
  /\ j.status = "Published" => n = 1
  /\ j.status \in Decided => j.review # None
  /\ j.review # None => j.review = Examined[j.bundle] /\ j.review.base \in R

JobsOK == \A id \in DOMAIN jobs : JobOK(jobs[id], pushed[id], repository)

\* The directories and the metadata; what was never submitted, or is being
\* submitted, was not pushed either.
StoreOK ==
  /\ DOMAIN jobs \subseteq artifacts
  /\ DOMAIN jobs \cap trash = {}
  /\ Cardinality(DOMAIN jobs) <= MaxJobs
  /\ \A id \in DOMAIN jobs \cup trash : id < nextId
  /\ \A id \in Ids : pushed[id] \in 0 .. 1 /\ (id >= nextId => pushed[id] = 0)

\* A submission's bundle is in place, under an identifier nobody else uses.
DraftOK ==
  draft # None =>
    IF draft.id = None THEN nextId <= MaxId
    ELSE /\ draft.id < nextId /\ pushed[draft.id] = 0
         /\ draft.binding \in Credentials
         /\ draft.id \in artifacts \ trash
         /\ draft.id \notin DOMAIN jobs \cup DOMAIN batch
         /\ worker # IdleWorker => worker.id # draft.id

\* What the worker took from the metadata still holds of it.
Same(j, k) == j.bundle = k.bundle /\ j.expected = k.expected

\* A review is that of the bundle.
Faithful(j) == j.review \in {None, Examined[j.bundle]}

BatchOK ==
  \A id \in DOMAIN batch :
    /\ id < nextId /\ batch[id].status \in Waiting /\ Faithful(batch[id])
    /\ id \in DOMAIN jobs => Same(batch[id], jobs[id])

Sends == {"check", "push", "verify", "record"}

WorkerOK ==
  worker # IdleWorker =>
    /\ worker.id < nextId /\ worker.job.status \in Waiting /\ Faithful(worker.job)
    /\ worker.id \in DOMAIN jobs => Same(worker.job, jobs[worker.id])
    /\ worker.step = "derive" =>
         /\ worker.review \in {None, Examined[worker.job.bundle]}
         /\ worker.review # None => worker.review.base \in repository
    /\ worker.step \in Sends => worker.id \in DOMAIN jobs /\ jobs[worker.id].status = "Sending"
    /\ worker.step = "push" => worker.job.review # None
    /\ worker.step \in {"check", "push"} => pushed[worker.id] = 0
    /\ worker.step = "verify" => pushed[worker.id] = 1
    /\ worker.step = "record" /\ worker.ok => pushed[worker.id] = 1

IInv == TypeOK /\ StoreOK /\ DraftOK /\ JobsOK /\ BatchOK /\ WorkerOK /\ Closed(repository)

-----------------------------------------------------------------------------
(* Shapes *)

USE DEF Ids

LEMMA IdsFinite ==
  ASSUME NEW S, S \subseteq Ids
  PROVE  IsFiniteSet(S) /\ Cardinality(S) \in Nat
<1>1. IsFiniteSet(Ids)
  BY FS_Interval, PushesAssumption
<1>2. IsFiniteSet(S)
  BY <1>1, FS_Subset
<1> QED  BY <1>2, FS_CardinalityType

LEMMA SetShape ==
  ASSUME NEW j \in Job, NEW st \in Status, now \in Nat
  PROVE  /\ Set(j, st) \in Job /\ Set(j, st).status = st /\ Set(j, st).review = j.review
         /\ Set(j, st).bundle = j.bundle /\ Same(Set(j, st), j)
BY DEF Set, Job, Same

\* The steps of a worker that carry a snapshot and nothing else.
Plain == {"revoke", "credential", "block", "prepare", "drop", "admit", "check", "push", "verify"}

LEMMA WorkerShape ==
  ASSUME NEW w \in BusyWorker
  PROVE  /\ w # IdleWorker /\ w.id \in Ids /\ w.job \in Job
         /\ w.step \in Plain \cup {"derive", "record"}
         /\ w.step = "derive" => w.review \in Reviews
         /\ w.step = "record" => w.ok \in BOOLEAN
         /\ w.step \in Plain => w \in [step : Plain, id : Ids, job : Job]
BY DEF BusyWorker, IdleWorker, Plain

LEMMA PlainShape ==
  ASSUME NEW step \in Plain, NEW id \in Ids, NEW job \in Job
  PROVE  LET w == [step |-> step, id |-> id, job |-> job]
         IN w \in BusyWorker /\ w.step = step /\ w.id = id /\ w.job = job
BY DEF BusyWorker, Plain

LEMMA StepShape ==
  ASSUME NEW w \in BusyWorker, w.step \in Plain, NEW step \in Plain
  PROVE  LET v == [w EXCEPT !.step = step]
         IN v \in BusyWorker /\ v.step = step /\ v.id = w.id /\ v.job = w.job
<1>1. w \in [step : Plain, id : Ids, job : Job]
  BY WorkerShape
<1> QED  BY <1>1 DEF BusyWorker, Plain

LEMMA OutcomeShape ==
  ASSUME worker \in BusyWorker, NEW ok \in BOOLEAN
  PROVE  /\ Outcome(ok) \in BusyWorker /\ Outcome(ok).step = "record"
         /\ Outcome(ok).id = worker.id /\ Outcome(ok).job = worker.job /\ Outcome(ok).ok = ok
<1>1. worker.id \in Ids /\ worker.job \in Job
  BY WorkerShape
<1> QED  BY <1>1 DEF Outcome, BusyWorker

LEMMA Busy ==
  ASSUME IInv, worker.step # "idle"
  PROVE  worker \in BusyWorker /\ worker # IdleWorker
BY DEF IInv, TypeOK, IdleWorker

\* What the registry makes of a guest is a guest.
LEMMA Authority ==
  ASSUME AuthorityTypeOK, NEW i, i \in Identity
  PROVE  /\ \A k \in Renewed(i) : k \in Identity
         /\ Absent \in Identity
         /\ \A k \in Rebooted(i) : k \in Identity
<1>1. stamp \in Nat
  BY DEF AuthorityTypeOK
<1>2. Absent \in Identity
  BY DEF Absent, Identity
<1>3. ASSUME NEW k \in Renewed(i) PROVE k \in Identity
  BY <1>1, <1>3 DEF Renewed, Identity
<1>4. ASSUME NEW k \in Rebooted(i) PROVE k \in Identity
  <2>1. CASE k = Absent
    BY <1>2, <2>1
  <2>2. CASE k # Absent
    <3>1. k = [i EXCEPT !.epoch = stamp, !.instance = IF i.durable THEN @ ELSE stamp]
      BY <2>2 DEF Rebooted
    <3> QED  BY <1>1, <3>1 DEF Identity
  <2> QED  BY <2>1, <2>2
<1> QED  BY <1>2, <1>3, <1>4

-----------------------------------------------------------------------------
(* Frames *)

Other == <<identity, stamp, up, now, credential>>

\* A step that changes one publication, and what the worker holds with it.
LEMMA OneJob ==
  ASSUME IInv, NEW id \in DOMAIN jobs, NEW j \in Job, Same(j, jobs[id]), JobOK(j, pushed[id], repository),
         jobs' = [jobs EXCEPT ![id] = j], UNCHANGED <<Other, artifacts, trash, draft, nextId, batch, pushed, branch, repository>>,
         worker' \in BusyWorker \cup {IdleWorker}, WorkerOK',
         worker' # IdleWorker => worker # IdleWorker /\ worker'.id = worker.id
  PROVE  IInv'
<1>1. DOMAIN jobs' = DOMAIN jobs /\ jobs'[id] = j /\ \A k \in DOMAIN jobs : k # id => jobs'[k] = jobs[k]
  OBVIOUS
<1>2. TypeOK'
  <2>1. \A k \in DOMAIN jobs' : jobs'[k] \in Job
    BY <1>1 DEF IInv, TypeOK
  <2> QED  BY <1>1, <2>1 DEF Other, IInv, TypeOK, AuthorityTypeOK
<1>3. StoreOK'
  BY <1>1 DEF IInv, StoreOK
<1>4. DraftOK'
  BY <1>1 DEF IInv, DraftOK
<1>5. JobsOK'
  BY <1>1 DEF IInv, JobsOK
<1>6. BatchOK'
  BY <1>1 DEF IInv, BatchOK, Same
<1> QED  BY <1>2, <1>3, <1>4, <1>5, <1>6 DEF IInv

\* A step of the worker that leaves the metadata alone.
LEMMA NoJob ==
  ASSUME IInv, UNCHANGED <<Other, jobs, artifacts, trash, draft, nextId, pushed, branch, repository>>,
         DOMAIN batch' \subseteq DOMAIN batch, \A id \in DOMAIN batch' : batch'[id] = batch[id],
         worker' \in BusyWorker \cup {IdleWorker}, WorkerOK',
         worker' # IdleWorker => worker'.id \in DOMAIN batch \/ (worker # IdleWorker /\ worker'.id = worker.id)
  PROVE  IInv'
<1>1. TypeOK'
  BY DEF Other, IInv, TypeOK, AuthorityTypeOK
<1>2. StoreOK'
  BY DEF IInv, StoreOK
<1>3. DraftOK'
  BY DEF IInv, DraftOK
<1>4. JobsOK'
  BY DEF IInv, JobsOK
<1>5. BatchOK'
  BY DEF IInv, BatchOK
<1> QED  BY <1>1, <1>2, <1>3, <1>4, <1>5 DEF IInv

\* The worker at a publication that is not being sent by it.
LEMMA WorkerFrame ==
  ASSUME IInv, NEW id \in DOMAIN jobs, jobs[id].status # "Sending", NEW j, Same(j, jobs[id]),
         jobs' = [jobs EXCEPT ![id] = j], UNCHANGED <<worker, nextId, pushed, repository>>
  PROVE  WorkerOK'
<1>1. DOMAIN jobs' = DOMAIN jobs /\ jobs'[id] = j /\ \A k \in DOMAIN jobs : k # id => jobs'[k] = jobs[k]
  OBVIOUS
<1> QED  BY <1>1 DEF IInv, WorkerOK, Same

LEMMA IdleOK == worker' = IdleWorker => WorkerOK'
BY DEF WorkerOK

-----------------------------------------------------------------------------
(* Guest and host *)

\* A status that nothing but a step of the owner, the host or the worker gives.
LEMMA MovedOK ==
  ASSUME NEW j \in Job, now \in Nat, NEW n, NEW R, JobOK(j, n, R), NEW st \in Status,
         st \in NotSent \cup Waiting \cup {"Sending"} => j.status \in Waiting \/ n = 0,
         st = "Published" => n = 1,
         st \in Decided => j.status \in Decided
  PROVE  Set(j, st) \in Job /\ JobOK(Set(j, st), n, R) /\ Same(Set(j, st), j)
<1>1. /\ Set(j, st) \in Job /\ Set(j, st).status = st /\ Set(j, st).review = j.review
      /\ Set(j, st).bundle = j.bundle /\ Same(Set(j, st), j)
  BY SetShape
<1> QED  BY <1>1 DEF JobOK

LEMMA JobFacts ==
  ASSUME IInv, NEW id \in DOMAIN jobs
  PROVE  id \in Ids /\ id < nextId /\ jobs[id] \in Job /\ JobOK(jobs[id], pushed[id], repository) /\ now \in Nat
BY DEF IInv, TypeOK, StoreOK, JobsOK

LEMMA CancelInv ==
  ASSUME IInv, NEW n \in Names, NEW id \in DOMAIN jobs, Cancel(n, id)
  PROVE  IInv'
<1>1. PICK j : j = Set(jobs[id], "Cancelled")
  OBVIOUS
<1>2. jobs[id].status \in Waiting /\ jobs' = [jobs EXCEPT ![id] = j]
  BY <1>1 DEF Cancel
<1>3. UNCHANGED <<Other, artifacts, trash, draft, nextId, batch, pushed, branch, repository, worker>>
  BY DEF Cancel, StoreOnly, Other, workerVars, remoteVars
<1>4. j \in Job /\ JobOK(j, pushed[id], repository) /\ Same(j, jobs[id])
  BY <1>1, <1>2, JobFacts, MovedOK DEF Status, NotSent, Decided
<1>5. WorkerOK'
  BY <1>2, <1>3, <1>4, WorkerFrame DEF Waiting
<1> QED  BY <1>2, <1>3, <1>4, <1>5, OneJob DEF IInv, TypeOK

LEMMA AcknowledgeInv ==
  ASSUME IInv, NEW n \in Names, NEW id \in DOMAIN jobs, Acknowledge(n, id)
  PROVE  IInv'
<1>1. PICK j : j = [jobs[id] EXCEPT !.acknowledged = TRUE]
  OBVIOUS
<1>2. jobs[id].status # "Sending" /\ jobs' = [jobs EXCEPT ![id] = j]
  BY <1>1 DEF Acknowledge, Terminal, Active
<1>3. UNCHANGED <<Other, artifacts, trash, draft, nextId, batch, pushed, branch, repository, worker>>
  BY DEF Acknowledge, StoreOnly, Other, workerVars, remoteVars
<1>4. /\ j \in Job /\ j.status = jobs[id].status /\ j.review = jobs[id].review
      /\ j.bundle = jobs[id].bundle /\ Same(j, jobs[id])
  BY <1>1, JobFacts DEF Job, Same
<1>5. JobOK(j, pushed[id], repository)
  BY <1>4, JobFacts DEF JobOK
<1>6. WorkerOK'
  BY <1>2, <1>3, <1>4, WorkerFrame
<1> QED  BY <1>2, <1>3, <1>4, <1>5, <1>6, OneJob DEF IInv, TypeOK

LEMMA DecideInv ==
  ASSUME IInv, NEW id \in DOMAIN jobs, NEW approve \in BOOLEAN, Decide(id, approve)
  PROVE  IInv'
<1>1. PICK st, j : st = (IF approve THEN "Approved" ELSE "Denied") /\ j = Set(jobs[id], st)
  OBVIOUS
<1>2. jobs[id].status = "Pending" /\ jobs' = [jobs EXCEPT ![id] = j]
  BY <1>1 DEF Decide
<1>3. UNCHANGED <<Other, artifacts, trash, draft, nextId, batch, pushed, branch, repository, worker>>
  BY DEF Decide, StoreOnly, Other, workerVars, remoteVars
<1>4. j \in Job /\ JobOK(j, pushed[id], repository) /\ Same(j, jobs[id])
  BY <1>1, <1>2, JobFacts, MovedOK DEF Status, NotSent, Decided, Waiting, Active
<1>5. WorkerOK'
  BY <1>2, <1>3, <1>4, WorkerFrame
<1> QED  BY <1>2, <1>3, <1>4, <1>5, OneJob DEF IInv, TypeOK

\* Publications leave the metadata.
LEMMA WithoutShape ==
  ASSUME NEW J, NEW R
  PROVE  /\ DOMAIN Without(J, R) = DOMAIN J \ R
         /\ \A id \in DOMAIN J \ R : Without(J, R)[id] = J[id]
BY DEF Without

LEMMA DeleteInv ==
  ASSUME IInv, NEW n \in Names, NEW id \in DOMAIN jobs, Delete(n, id)
  PROVE  IInv'
<1>1. /\ DOMAIN jobs' = DOMAIN jobs \ {id} /\ \A k \in DOMAIN jobs' : jobs'[k] = jobs[k]
      /\ trash' = trash \cup {id} /\ jobs[id].status # "Sending"
  <2>1. jobs' = Without(jobs, {id}) /\ trash' = trash \cup {id} /\ jobs[id].status \notin Active
    BY DEF Delete, Terminal
  <2>2. DOMAIN jobs' = DOMAIN jobs \ {id} /\ \A k \in DOMAIN jobs' : jobs'[k] = jobs[k]
    BY <2>1 DEF Without
  <2> QED  BY <2>1, <2>2 DEF Active
<1>2. UNCHANGED <<Other, artifacts, draft, nextId, batch, pushed, branch, repository, worker>>
  BY DEF Delete, StoreOnly, Other, workerVars, remoteVars
<1>3. TypeOK'
  BY <1>1, <1>2 DEF Other, IInv, TypeOK, AuthorityTypeOK
<1>4. StoreOK'
  <2>1. DOMAIN jobs \subseteq Ids /\ DOMAIN jobs' \subseteq Ids
    BY <1>1 DEF IInv, TypeOK
  <2>2. Cardinality(DOMAIN jobs') <= Cardinality(DOMAIN jobs)
    BY <1>1, <2>1, IdsFinite, FS_Subset
  <2>3. Cardinality(DOMAIN jobs') <= MaxJobs
    BY <2>1, <2>2, IdsFinite, PushesAssumption DEF IInv, StoreOK
  <2> QED  BY <1>1, <1>2, <2>3 DEF IInv, StoreOK
<1>5. DraftOK'
  BY <1>1, <1>2 DEF IInv, DraftOK
<1>6. JobsOK'
  BY <1>1, <1>2 DEF IInv, JobsOK
<1>7. BatchOK'
  BY <1>1, <1>2 DEF IInv, BatchOK
<1>8. WorkerOK'
  BY <1>1, <1>2 DEF IInv, WorkerOK
<1> QED  BY <1>2, <1>3, <1>4, <1>5, <1>6, <1>7, <1>8 DEF IInv

LEMMA BeginSubmitInv ==
  ASSUME IInv, NEW n \in Names, NEW peer \in IPs, BeginSubmit(n, peer, branch)
  PROVE  IInv'
<1>1. PICK d : /\ draft' = d
               /\ d = [id |-> None, guest |-> n, peer |-> peer, instance |-> identity[n].instance,
                       epoch |-> identity[n].epoch, binding |-> None, expected |-> branch]
  BY DEF BeginSubmit
<1>2. UNCHANGED <<Other, jobs, artifacts, trash, nextId, batch, pushed, branch, repository, worker>>
  BY DEF BeginSubmit, Other, storeVars, workerVars, remoteVars
<1>3. identity[n].instance \in Nat /\ identity[n].epoch \in Nat /\ branch \in Oids
  BY DEF IInv, TypeOK, AuthorityTypeOK, Identity
<1>4. d \in Draft /\ d.id = None
  BY <1>1, <1>3 DEF Draft
<1>5. TypeOK'
  BY <1>1, <1>2, <1>4 DEF Other, IInv, TypeOK, AuthorityTypeOK
<1>6. DraftOK'
  BY <1>1, <1>2, <1>4 DEF DraftOK, BeginSubmit
<1> QED  BY <1>2, <1>5, <1>6 DEF IInv, StoreOK, JobsOK, BatchOK, WorkerOK

LEMMA PlaceBundleInv ==
  ASSUME IInv, PlaceBundle
  PROVE  IInv'
<1>1. draft \in Draft /\ draft.id = None /\ credential \in Credentials
  BY DEF PlaceBundle, IInv, TypeOK
<1>2. UNCHANGED <<stamp, up, jobs, trash, now, credential, batch, pushed, branch, repository, worker>>
  BY DEF PlaceBundle, workerVars, remoteVars
<1>3. /\ artifacts' = artifacts \cup {nextId} /\ nextId' = nextId + 1
      /\ draft' = [draft EXCEPT !.id = nextId, !.binding = credential]
  BY DEF PlaceBundle
<1>4. nextId \in 1 .. MaxId
  BY <1>1, PushesAssumption DEF PlaceBundle, IInv, TypeOK, DraftOK
<1>5. draft' \in Draft /\ draft'.id = nextId /\ draft'.binding = credential
  BY <1>1, <1>3, <1>4 DEF Draft
<1>6. AuthorityTypeOK'
  <2>1. identity \in [Names -> Identity] /\ stamp \in Nat
    BY DEF IInv, TypeOK, AuthorityTypeOK
  <2>2. identity' = [n \in Names |-> [identity[n] EXCEPT !.durable = @ \/ identity[n].peers # {}]]
    BY DEF PlaceBundle
  <2>3. ASSUME NEW n \in Names
        PROVE  [identity[n] EXCEPT !.durable = @ \/ identity[n].peers # {}] \in Identity
    BY <2>1 DEF Identity
  <2> QED  BY <1>2, <2>1, <2>2, <2>3 DEF AuthorityTypeOK
<1>7. TypeOK'
  <2>1. nextId' \in 1 .. MaxId + 1 /\ artifacts' \subseteq Ids
    BY <1>3, <1>4, PushesAssumption DEF IInv, TypeOK
  <2> QED  BY <1>2, <1>5, <1>6, <2>1 DEF IInv, TypeOK
<1>8. \A id \in DOMAIN jobs \cup trash \cup DOMAIN batch : id \in Ids /\ id < nextId
  BY DEF IInv, TypeOK, StoreOK, BatchOK
<1>9. StoreOK'
  <2>1. \A id \in Ids : pushed[id] \in 0 .. 1 /\ (id >= nextId + 1 => pushed[id] = 0)
    BY <1>4 DEF IInv, StoreOK
  <2>2. \A id \in DOMAIN jobs \cup trash : id < nextId + 1
    BY <1>4, <1>8
  <2> QED  BY <1>2, <1>3, <2>1, <2>2 DEF IInv, StoreOK
<1>10. DraftOK'
  <2>1. pushed[nextId] = 0 /\ nextId < nextId + 1
    BY <1>4 DEF IInv, StoreOK
  <2>2. nextId \notin DOMAIN jobs \cup trash \cup DOMAIN batch
    BY <1>4, <1>8
  <2>3. worker # IdleWorker => worker.id # nextId
    <3>1. worker # IdleWorker => worker.id < nextId /\ worker.id \in Ids
      BY WorkerShape DEF IInv, TypeOK, WorkerOK
    <3> QED  BY <1>4, <3>1
  <2>4. draft'.id # None
    BY <1>4, <1>5, PushesAssumption
  <2> QED  BY <1>1, <1>2, <1>3, <1>5, <2>1, <2>2, <2>3, <2>4 DEF DraftOK
<1>11. BatchOK'
  BY <1>2, <1>3, <1>4, <1>8 DEF IInv, BatchOK
<1>12. WorkerOK'
  <2>1. worker # IdleWorker => worker.id < nextId + 1
    BY <1>4, WorkerShape DEF IInv, TypeOK, WorkerOK
  <2> QED  BY <1>2, <1>3, <2>1 DEF IInv, WorkerOK
<1> QED  BY <1>2, <1>7, <1>9, <1>10, <1>11, <1>12 DEF IInv, JobsOK

LEMMA RefuseSubmitInv ==
  ASSUME IInv, RefuseSubmit
  PROVE  IInv'
<1>1. draft \in Draft /\ draft' = None /\ trash' = trash \cup ({draft.id} \ {None})
  BY DEF RefuseSubmit, IInv, TypeOK
<1>2. UNCHANGED <<Other, jobs, artifacts, nextId, batch, pushed, branch, repository, worker>>
  BY DEF RefuseSubmit, Other, workerVars, remoteVars
<1>3. \A id \in trash' : id \in trash \/ (id = draft.id /\ draft.id # None)
  BY <1>1
<1>4. draft # None
  BY DEF RefuseSubmit
<1>5. \A id \in trash' : id \in trash \/ (id \in Ids /\ id < nextId /\ id \notin DOMAIN jobs)
  BY <1>1, <1>3, <1>4 DEF IInv, DraftOK, Draft
<1>6. TypeOK'
  BY <1>1, <1>2, <1>5 DEF Other, IInv, TypeOK, AuthorityTypeOK
<1>7. StoreOK'
  BY <1>2, <1>5 DEF IInv, StoreOK
<1>8. DraftOK'
  BY <1>1 DEF DraftOK
<1> QED  BY <1>2, <1>6, <1>7, <1>8 DEF IInv, JobsOK, BatchOK, WorkerOK

LEMMA RemoveArtifactInv ==
  ASSUME IInv, NEW id \in trash, RemoveArtifact(id)
  PROVE  IInv'
<1>1. trash' = trash \ {id} /\ artifacts' \subseteq artifacts /\ artifacts \ {id} \subseteq artifacts'
  BY DEF RemoveArtifact
<1>2. UNCHANGED <<Other, jobs, draft, nextId, batch, pushed, branch, repository, worker>>
  BY DEF RemoveArtifact, Other, workerVars, remoteVars
<1>3. TypeOK'
  BY <1>1, <1>2 DEF Other, IInv, TypeOK, AuthorityTypeOK
<1>4. StoreOK'
  BY <1>1, <1>2 DEF IInv, StoreOK
<1>5. DraftOK'
  BY <1>1, <1>2 DEF IInv, DraftOK
<1> QED  BY <1>2, <1>3, <1>4, <1>5 DEF IInv, JobsOK, BatchOK, WorkerOK

\* prune_for_admission makes the room that is needed.
LEMMA PruningFits ==
  ASSUME NEW J, DOMAIN J \subseteq Ids, NEW R \in Prunings(J)
  PROVE  /\ R \subseteq DOMAIN J /\ \A id \in R : J[id].status \notin Active
         /\ Cardinality(DOMAIN J \ R) <= MaxJobs
<1>1. /\ R \subseteq {id \in DOMAIN J : AutomaticallyRemovable(J[id])}
      /\ Cardinality(R) = IF Cardinality(DOMAIN J) > MaxJobs
                          THEN Cardinality(DOMAIN J) - MaxJobs ELSE 0
  BY DEF Prunings
<1>2. R \subseteq DOMAIN J /\ \A id \in R : J[id].status \notin Active
  BY <1>1 DEF AutomaticallyRemovable, Terminal
<1>3. DOMAIN J \ R \subseteq Ids /\ R \subseteq Ids
  BY <1>2
<1>4. /\ IsFiniteSet(DOMAIN J) /\ IsFiniteSet(R) /\ IsFiniteSet(DOMAIN J \ R)
      /\ Cardinality(DOMAIN J) \in Nat /\ Cardinality(R) \in Nat /\ Cardinality(DOMAIN J \ R) \in Nat
  BY <1>3, IdsFinite
<1>5. (DOMAIN J \ R) \cap R = {} /\ (DOMAIN J \ R) \cup R = DOMAIN J
  BY <1>2
<1>6. Cardinality(DOMAIN J) = Cardinality(DOMAIN J \ R) + Cardinality(R)
  <2>1. Cardinality((DOMAIN J \ R) \cup R)
          = Cardinality(DOMAIN J \ R) + Cardinality(R) - Cardinality((DOMAIN J \ R) \cap R)
    BY <1>4, FS_Union
  <2> QED  BY <1>4, <1>5, <2>1, FS_EmptySet
<1> QED  BY <1>1, <1>2, <1>4, <1>6, PushesAssumption

LEMMA FinishSubmitInv ==
  ASSUME IInv, NEW bundle \in DOMAIN Bundles, FinishSubmit(bundle)
  PROVE  IInv'
<1>1. PICK new : new = draft.id
  OBVIOUS
<1>2. /\ draft \in Draft /\ new \in Ids /\ new < nextId /\ pushed[new] = 0 /\ draft.binding \in Credentials
      /\ new \in artifacts \ trash /\ new \notin DOMAIN jobs \cup DOMAIN batch
      /\ worker # IdleWorker => worker.id # new
  BY <1>1 DEF FinishSubmit, IInv, TypeOK, DraftOK, Draft
<1>3. PICK job :
        job = [guest |-> draft.guest, peer |-> draft.peer, instance |-> draft.instance,
               epoch |-> draft.epoch, binding |-> draft.binding, bundle |-> bundle,
               expected |-> draft.expected, review |-> None, status |-> "Preparing", updated |-> now,
               expires |-> now + ReviewTime, acknowledged |-> FALSE]
  OBVIOUS
<1>4. job \in Job /\ job.status = "Preparing" /\ job.review = None
  <2>1. now \in Nat /\ now + ReviewTime \in Nat
    BY PushesAssumption DEF IInv, TypeOK
  <2>2. None \in Reviews /\ "Preparing" \in Status
    BY DEF Reviews, Status, Active, Waiting
  <2> QED  BY <1>2, <1>3, <2>1, <2>2 DEF Job, Draft
<1>5. JobOK(job, 0, repository)
  BY <1>4 DEF JobOK, Decided
<1>6. PICK J : J = [id \in DOMAIN jobs \cup {new} |-> IF id = new THEN job ELSE jobs[id]]
  OBVIOUS
<1>7. PICK R \in Prunings(J) : jobs' = Without(J, R) /\ trash' = trash \cup R
  BY <1>1, <1>3, <1>6 DEF FinishSubmit
<1>8. DOMAIN J \subseteq Ids
  BY <1>2, <1>6 DEF IInv, TypeOK
<1>9. /\ R \subseteq DOMAIN J /\ \A id \in R : J[id].status \notin Active
      /\ Cardinality(DOMAIN J \ R) <= MaxJobs
  BY <1>7, <1>8, PruningFits
<1>10. new \notin R
  BY <1>2, <1>4, <1>6, <1>9 DEF Active, Waiting
<1>11. /\ DOMAIN jobs' = DOMAIN J \ R
       /\ \A id \in DOMAIN jobs' : id = new \/ id \in DOMAIN jobs
       /\ jobs'[new] = job /\ \A id \in DOMAIN jobs' \ {new} : jobs'[id] = jobs[id]
  BY <1>2, <1>6, <1>7, <1>9, <1>10 DEF Without
<1>12. \A id \in R : id \in DOMAIN jobs /\ jobs[id].status \notin Active
  BY <1>2, <1>6, <1>9, <1>10
<1>13. UNCHANGED <<Other, artifacts, nextId, batch, pushed, branch, repository, worker>> /\ draft' = None
  BY DEF FinishSubmit, Other, workerVars, remoteVars
<1> HIDE DEF Ids
<1>14. TypeOK'
  <2>1. DOMAIN jobs' \subseteq Ids /\ \A id \in DOMAIN jobs' : jobs'[id] \in Job
    BY <1>4, <1>8, <1>11 DEF IInv, TypeOK
  <2>2. trash' \subseteq Ids
    BY <1>7, <1>8, <1>9 DEF IInv, TypeOK
  <2> QED  BY <1>13, <2>1, <2>2 DEF Other, IInv, TypeOK, AuthorityTypeOK
<1>15. StoreOK'
  <2>1. DOMAIN jobs' \subseteq artifacts
    BY <1>2, <1>11 DEF IInv, StoreOK
  <2>2. DOMAIN jobs' \cap trash' = {}
    <3>1. ASSUME NEW id \in DOMAIN jobs' PROVE id \notin trash'
      BY <1>2, <1>7, <1>11 DEF IInv, StoreOK
    <3> QED  BY <3>1
  <2>3. \A id \in DOMAIN jobs' \cup trash' : id < nextId
    BY <1>2, <1>7, <1>11, <1>12 DEF IInv, StoreOK
  <2>4. Cardinality(DOMAIN jobs') <= MaxJobs
    BY <1>9, <1>11
  <2> QED  BY <1>13, <2>1, <2>2, <2>3, <2>4 DEF IInv, StoreOK
<1>16. DraftOK'
  BY <1>13 DEF DraftOK
<1>17. JobsOK'
  BY <1>2, <1>5, <1>11, <1>13 DEF IInv, JobsOK
<1>18. BatchOK'
  BY <1>2, <1>11, <1>13 DEF IInv, BatchOK
<1>19. WorkerOK'
  <2>1. worker # IdleWorker /\ worker.step \in Sends => worker.id \in DOMAIN jobs'
    <3>1. worker # IdleWorker /\ worker.step \in Sends =>
            worker.id \in DOMAIN jobs /\ jobs[worker.id].status = "Sending"
      BY DEF IInv, WorkerOK
    <3>2. \A id \in DOMAIN jobs : id \in DOMAIN jobs' \/ id \in R
      BY <1>6, <1>11
    <3> QED  BY <1>12, <3>1, <3>2 DEF Active
  <2> QED  BY <1>2, <1>11, <1>13, <2>1 DEF IInv, WorkerOK
<1> QED  BY <1>13, <1>14, <1>15, <1>16, <1>17, <1>18, <1>19 DEF IInv

-----------------------------------------------------------------------------
(* The worker *)

LEMMA TickStartInv ==
  ASSUME IInv, TickStart
  PROVE  IInv'
<1>1. /\ worker = IdleWorker
      /\ \A id \in DOMAIN batch' :
           id \in DOMAIN jobs /\ batch'[id] = jobs[id] /\ jobs[id].status \in Waiting
      /\ UNCHANGED <<Other, jobs, artifacts, trash, draft, nextId, pushed, branch, repository, worker>>
  BY DEF TickStart, WorkerOnly, Other, remoteVars, Without
<1>2. TypeOK'
  <2>1. DOMAIN batch' \subseteq Ids /\ \A id \in DOMAIN batch' : batch'[id] \in Job
    BY <1>1 DEF IInv, TypeOK
  <2> QED  BY <1>1, <2>1 DEF Other, IInv, TypeOK, AuthorityTypeOK
<1>3. DraftOK'
  BY <1>1 DEF IInv, DraftOK
<1>4. BatchOK'
  <2>1. \A id \in DOMAIN jobs : Faithful(jobs[id])
    BY DEF IInv, JobsOK, JobOK, Faithful
  <2> QED  BY <1>1, <2>1 DEF IInv, StoreOK, BatchOK, Same
<1> QED  BY <1>1, <1>2, <1>3, <1>4 DEF IInv, StoreOK, JobsOK, WorkerOK

LEMMA WorkerPickInv ==
  ASSUME IInv, NEW id \in DOMAIN batch, WorkerPick(id)
  PROVE  IInv'
<1>1. PICK job : job = batch[id]
  OBVIOUS
<1>2. /\ DOMAIN batch' \subseteq DOMAIN batch /\ \A k \in DOMAIN batch' : batch'[k] = batch[k]
      /\ UNCHANGED <<Other, jobs, artifacts, trash, draft, nextId, pushed, branch, repository>>
  BY DEF WorkerPick, WorkerOnly, Other, remoteVars, Without
<1>3. /\ id \in Ids /\ job \in Job /\ id < nextId /\ (id \in DOMAIN jobs => Same(job, jobs[id]))
      /\ job.status \in Waiting /\ Faithful(job)
  BY <1>1 DEF IInv, TypeOK, BatchOK
<1>4. \/ worker' = IdleWorker
      \/ \E step \in {"revoke", "credential"} : worker' = [step |-> step, id |-> id, job |-> job]
  BY <1>1 DEF WorkerPick
<1>5. CASE worker' = IdleWorker
  BY <1>2, <1>5, IdleOK, NoJob
<1>6. ASSUME NEW step \in {"revoke", "credential"}, worker' = [step |-> step, id |-> id, job |-> job]
      PROVE  IInv'
  <2>1. PICK w : w = [step |-> step, id |-> id, job |-> job]
    OBVIOUS
  <2>2. w \in BusyWorker /\ w.step = step /\ w.id = id /\ w.job = job
    BY <1>3, <2>1, PlainShape DEF Plain
  <2>3. WorkerOK'
    BY <1>2, <1>3, <1>6, <2>1, <2>2 DEF WorkerOK, Sends
  <2> QED  BY <1>2, <1>6, <2>1, <2>2, <2>3, NoJob
<1> QED  BY <1>4, <1>5, <1>6

\* A transaction of the worker that moves one publication, if it still waits.
LEMMA MoveIfInv ==
  ASSUME IInv, NEW from, from \subseteq Waiting, NEW st \in {"Expired", "Cancelled", "Blocked"},
         worker \in BusyWorker, MoveIf(worker.id, from, st), worker' = IdleWorker,
         UNCHANGED <<Other, artifacts, trash, draft, nextId, batch, pushed, branch, repository>>
  PROVE  IInv'
<1>1. CASE worker.id \in DOMAIN jobs /\ jobs[worker.id].status \in from
  <2>1. PICK id \in DOMAIN jobs : id = worker.id
    BY <1>1
  <2>2. PICK j : j = Set(jobs[id], st)
    OBVIOUS
  <2>3. jobs' = [jobs EXCEPT ![id] = j]
    BY <1>1, <2>1, <2>2 DEF MoveIf
  <2>4. j \in Job /\ JobOK(j, pushed[id], repository) /\ Same(j, jobs[id])
    BY <1>1, <2>1, <2>2, JobFacts, MovedOK DEF Status, NotSent, Decided, Waiting
  <2> QED  BY <2>3, <2>4, IdleOK, OneJob
<1>2. CASE ~(worker.id \in DOMAIN jobs /\ jobs[worker.id].status \in from)
  <2>1. jobs' = jobs
    BY <1>2 DEF MoveIf
  <2> QED  BY <2>1, IdleOK, NoJob
<1> QED  BY <1>1, <1>2

LEMMA WorkerRevokeInv ==
  ASSUME IInv, WorkerRevoke
  PROVE  IInv'
<1>1. UNCHANGED <<Other, artifacts, trash, draft, nextId, batch, pushed, branch, repository>> /\ worker' = IdleWorker
  BY DEF WorkerRevoke, WorkerOnly, Other, remoteVars
<1>2. worker \in BusyWorker
  BY Busy DEF WorkerRevoke
<1>3. PICK st \in {"Expired", "Cancelled", "Blocked"} : MoveIf(worker.id, Waiting, st)
  BY DEF WorkerRevoke
<1> QED  BY <1>1, <1>2, <1>3, MoveIfInv

LEMMA WorkerDropInv ==
  ASSUME IInv, WorkerDrop
  PROVE  IInv'
<1>1. UNCHANGED <<Other, artifacts, trash, draft, nextId, batch, pushed, branch, repository>> /\ worker' = IdleWorker
  BY DEF WorkerDrop, WorkerOnly, Other, remoteVars
<1>2. worker \in BusyWorker
  BY Busy DEF WorkerDrop
<1>3. MoveIf(worker.id, {"Preparing"}, "Cancelled") /\ {"Preparing"} \subseteq Waiting
  BY DEF WorkerDrop, Waiting
<1> QED  BY <1>1, <1>2, <1>3, MoveIfInv

LEMMA WorkerFailsInv ==
  ASSUME IInv, WorkerFails
  PROVE  IInv'
<1>1. /\ UNCHANGED <<Other, jobs, artifacts, trash, draft, nextId, pushed, branch, repository>>
      /\ worker' = IdleWorker /\ DOMAIN batch' = {}
  BY DEF WorkerFails, WorkerOnly, Other, remoteVars, Nothing, Without
<1> QED  BY <1>1, IdleOK, NoJob

LEMMA WorkerCredentialInv ==
  ASSUME IInv, WorkerCredential
  PROVE  IInv'
<1>1. UNCHANGED <<Other, jobs, artifacts, trash, draft, nextId, batch, pushed, branch, repository>>
  BY DEF WorkerCredential, WorkerOnly, Other, remoteVars
<1>2. PICK w \in BusyWorker : w = worker /\ w.step = "credential" /\ w # IdleWorker
  BY Busy DEF WorkerCredential
<1>3. PICK step \in {"block", "prepare", "admit"} : worker' = [w EXCEPT !.step = step]
  BY <1>2 DEF WorkerCredential
<1>4. PICK v : v = [w EXCEPT !.step = step]
  OBVIOUS
<1>5. v \in BusyWorker /\ v.step = step /\ v.id = w.id /\ v.job = w.job
  <2>1. w.step \in Plain /\ step \in Plain
    BY <1>2, <1>3 DEF Plain
  <2> QED  BY <1>2, <1>4, <2>1, StepShape
<1>6. WorkerOK'
  BY <1>1, <1>2, <1>3, <1>4, <1>5 DEF IInv, WorkerOK, Sends
<1> QED  BY <1>1, <1>2, <1>3, <1>4, <1>5, <1>6, NoJob

\* The bundle is examined, whatever else happens.
LEMMA WorkerPrepareInv ==
  ASSUME IInv, NEW works \in BOOLEAN, WorkerPrepare(works)
  PROVE  IInv'
<1>1. UNCHANGED <<Other, jobs, artifacts, trash, draft, nextId, batch, pushed, branch, repository>>
  BY DEF WorkerPrepare, WorkerOnly, Other, remoteVars
<1>2. PICK w \in BusyWorker : w = worker /\ w.step = "prepare" /\ w # IdleWorker /\ w.id \in Ids /\ w.job \in Job
  BY Busy, WorkerShape DEF WorkerPrepare
<1>3. PICK review \in {None, Examined[w.job.bundle]} :
        /\ worker' = [step |-> "derive", id |-> w.id, job |-> w.job, review |-> review]
        /\ review # None => review = Examined[w.job.bundle] /\ Bundles[w.job.bundle].base \in repository
  BY <1>2, Zenon DEF WorkerPrepare
<1>4. PICK v : v = [step |-> "derive", id |-> w.id, job |-> w.job, review |-> review]
  OBVIOUS
<1>5. /\ v \in BusyWorker /\ v.step = "derive" /\ v.id = w.id /\ v.job = w.job /\ v.review = review
      /\ review \in Reviews
      /\ review # None => review.base \in repository
  <2>1. review \in Reviews
    BY <1>2, <1>3 DEF Reviews, Job
  <2>2. Examined[w.job.bundle] = Examine(Bundles[w.job.bundle])
    BY <1>2 DEF Examined, Job
  <2>3. review # None => review.base \in repository
    BY <1>3, <2>2, ExaminedBundle
  <2> QED  BY <1>2, <1>4, <2>1, <2>3 DEF BusyWorker
<1>6. WorkerOK'
  BY <1>1, <1>2, <1>3, <1>4, <1>5 DEF IInv, WorkerOK, Sends
<1> QED  BY <1>1, <1>2, <1>3, <1>4, <1>5, <1>6, NoJob

LEMMA WorkerBlockInv ==
  ASSUME IInv, WorkerBlock
  PROVE  IInv'
<1>1. UNCHANGED <<Other, artifacts, trash, draft, nextId, batch, pushed, branch, repository>> /\ worker' = IdleWorker
  BY DEF WorkerBlock, WorkerOnly, Other, remoteVars
<1>2. worker \in BusyWorker
  BY Busy DEF WorkerBlock
<1>3. MoveIf(worker.id, {worker.job.status}, "Blocked")
  BY DEF WorkerBlock
<1>4. {worker.job.status} \subseteq Waiting
  BY <1>2, Busy DEF WorkerBlock, IInv, WorkerOK
<1> QED  BY <1>1, <1>2, <1>3, <1>4, MoveIfInv

\* The result of the examination is stored, or the publication dropped.
LEMMA WorkerDeriveInv ==
  ASSUME IInv, WorkerDerive
  PROVE  IInv'
<1>1. UNCHANGED <<Other, artifacts, trash, draft, nextId, batch, pushed, branch, repository>>
  BY DEF WorkerDerive, WorkerOnly, Other, remoteVars
<1>2. PICK w \in BusyWorker : w = worker /\ w.step = "derive" /\ w # IdleWorker /\ w.id \in Ids /\ w.job \in Job
  BY Busy, WorkerShape DEF WorkerDerive
<1>3. /\ w.review \in Reviews /\ w.review \in {None, Examined[w.job.bundle]}
      /\ w.review # None => w.review.base \in repository
      /\ w.id < nextId /\ w.job.status \in Waiting /\ Faithful(w.job)
      /\ w.id \in DOMAIN jobs => Same(w.job, jobs[w.id])
  BY <1>2, WorkerShape DEF IInv, WorkerOK
<1>4. \/ worker' = IdleWorker /\ w.id \in DOMAIN jobs /\ jobs[w.id].status = "Preparing"
           /\ jobs' = [jobs EXCEPT ![w.id] = Derived(jobs[w.id], w.review)]
      \/ worker' = IdleWorker /\ jobs' = jobs
      \/ worker' = [step |-> "drop", id |-> w.id, job |-> w.job] /\ jobs' = jobs
  BY <1>2 DEF WorkerDerive
<1>5. CASE worker' = IdleWorker /\ w.id \in DOMAIN jobs /\ jobs[w.id].status = "Preparing"
           /\ jobs' = [jobs EXCEPT ![w.id] = Derived(jobs[w.id], w.review)]
  <2>1. PICK id \in DOMAIN jobs : id = w.id
    BY <1>5
  <2>2. PICK j : j = Derived(jobs[id], w.review)
    OBVIOUS
  <2>3. jobs[id] \in Job /\ JobOK(jobs[id], pushed[id], repository) /\ now \in Nat
    BY JobFacts
  <2>4. \/ j = Set(jobs[id], "Expired") \/ j = Set(jobs[id], "Blocked")
        \/ /\ w.review # None
           /\ j = [Set(jobs[id], IF AllowAll THEN "Approved" ELSE "Pending") EXCEPT !.review = w.review]
    BY <2>2 DEF Derived
  <2>5. CASE j = Set(jobs[id], "Expired") \/ j = Set(jobs[id], "Blocked")
    <3>1. j \in Job /\ JobOK(j, pushed[id], repository) /\ Same(j, jobs[id])
      BY <1>5, <2>1, <2>3, <2>5, MovedOK DEF Status, NotSent, Decided, Waiting
    <3> QED  BY <1>1, <1>5, <2>1, <2>2, <3>1, IdleOK, OneJob
  <2>6. CASE /\ w.review # None
             /\ j = [Set(jobs[id], IF AllowAll THEN "Approved" ELSE "Pending") EXCEPT !.review = w.review]
    <3>1. PICK st, k : /\ st \in {"Approved", "Pending"}
                       /\ k = Set(jobs[id], st) /\ j = [k EXCEPT !.review = w.review]
      BY <2>6
    <3>2. k \in Job /\ k.status = st /\ k.bundle = jobs[id].bundle /\ Same(k, jobs[id])
      BY <2>3, <3>1, SetShape DEF Status, Active, Waiting
    <3>3. /\ j \in Job /\ j.status = st /\ j.review = w.review /\ j.bundle = jobs[id].bundle
          /\ Same(j, jobs[id])
      BY <1>3, <3>1, <3>2 DEF Job, Same
    <3>4. jobs[id].bundle = w.job.bundle /\ pushed[id] = 0
      BY <1>3, <1>5, <2>1, <2>3 DEF Same, JobOK, Waiting
    <3>5. JobOK(j, pushed[id], repository)
      BY <1>3, <2>6, <3>1, <3>3, <3>4 DEF JobOK
    <3> QED  BY <1>1, <1>5, <2>1, <2>2, <3>3, <3>5, IdleOK, OneJob
  <2> QED  BY <2>4, <2>5, <2>6
<1>6. CASE worker' = IdleWorker /\ jobs' = jobs
  BY <1>1, <1>6, IdleOK, NoJob
<1>7. CASE worker' = [step |-> "drop", id |-> w.id, job |-> w.job] /\ jobs' = jobs
  <2>1. PICK v : v = [step |-> "drop", id |-> w.id, job |-> w.job]
    OBVIOUS
  <2>2. v \in BusyWorker /\ v.step = "drop" /\ v.id = w.id /\ v.job = w.job
    BY <1>2, <2>1, PlainShape DEF Plain
  <2>3. WorkerOK'
    BY <1>1, <1>3, <1>7, <2>1, <2>2 DEF WorkerOK, Sends
  <2> QED  BY <1>1, <1>2, <1>7, <2>1, <2>2, <2>3, NoJob
<1> QED  BY <1>4, <1>5, <1>6, <1>7

LEMMA WorkerAdmitInv ==
  ASSUME IInv, WorkerAdmit
  PROVE  IInv'
<1>1. UNCHANGED <<Other, artifacts, trash, draft, nextId, batch, pushed, branch, repository>>
  BY DEF WorkerAdmit, WorkerOnly, Other, remoteVars
<1>2. PICK w \in BusyWorker : w = worker /\ w.step = "admit" /\ w # IdleWorker
  BY Busy DEF WorkerAdmit
<1>3. \/ /\ w.id \in DOMAIN jobs /\ jobs[w.id].status = "Approved"
         /\ jobs' = [jobs EXCEPT ![w.id] = Set(jobs[w.id], "Sending")]
         /\ worker' = [w EXCEPT !.step = "check"]
      \/ jobs' = jobs /\ worker' = IdleWorker
  BY <1>2 DEF WorkerAdmit
<1>4. CASE jobs' = jobs /\ worker' = IdleWorker
  BY <1>1, <1>4, IdleOK, NoJob
<1>5. CASE /\ w.id \in DOMAIN jobs /\ jobs[w.id].status = "Approved"
           /\ jobs' = [jobs EXCEPT ![w.id] = Set(jobs[w.id], "Sending")]
           /\ worker' = [w EXCEPT !.step = "check"]
  <2>1. PICK id \in DOMAIN jobs : id = w.id
    BY <1>5
  <2>2. PICK j, v : j = Set(jobs[id], "Sending") /\ v = [w EXCEPT !.step = "check"]
    OBVIOUS
  <2>3. jobs[id] \in Job /\ JobOK(jobs[id], pushed[id], repository) /\ now \in Nat
    BY JobFacts
  <2>4. /\ j \in Job /\ JobOK(j, pushed[id], repository) /\ Same(j, jobs[id]) /\ j.status = "Sending"
        /\ pushed[id] = 0
    <3>1. jobs[id].status \in Decided \cap Waiting /\ "Sending" \in Status
      BY <1>5, <2>1 DEF Decided, Waiting, Status, Active
    <3>2. j \in Job /\ JobOK(j, pushed[id], repository) /\ Same(j, jobs[id])
      BY <2>2, <2>3, <3>1, MovedOK
    <3> QED  BY <2>2, <2>3, <3>1, <3>2, SetShape DEF JobOK
  <2>5. v \in BusyWorker /\ v.step = "check" /\ v.id = id /\ v.job = w.job
    <3>1. w.step \in Plain /\ "check" \in Plain
      BY <1>2 DEF Plain
    <3> QED  BY <1>2, <2>1, <2>2, <3>1, StepShape
  <2>6. jobs' = [jobs EXCEPT ![id] = j] /\ worker' = v
    BY <1>5, <2>1, <2>2
  <2>7. jobs'[id] = j /\ DOMAIN jobs' = DOMAIN jobs
    BY <2>6
  <2>8. id < nextId /\ w.job.status \in Waiting /\ Same(w.job, j) /\ Faithful(w.job)
    BY <1>2, <2>1, <2>4 DEF IInv, WorkerOK, Same
  <2>9. WorkerOK'
    BY <1>1, <2>4, <2>5, <2>6, <2>7, <2>8 DEF WorkerOK, Sends
  <2> QED  BY <1>1, <1>2, <2>1, <2>4, <2>5, <2>6, <2>9, OneJob
<1> QED  BY <1>3, <1>4, <1>5

LEMMA WorkerCheckInv ==
  ASSUME IInv, WorkerCheck
  PROVE  IInv'
<1>1. UNCHANGED <<Other, jobs, artifacts, trash, draft, nextId, batch, pushed, branch, repository>>
  BY DEF WorkerCheck, WorkerOnly, Other, remoteVars
<1>2. PICK w \in BusyWorker : w = worker /\ w.step = "check" /\ w # IdleWorker
  BY Busy DEF WorkerCheck
<1>3. PICK v : /\ worker' = v
               /\ (v = [w EXCEPT !.step = "push"] /\ w.job.review # None) \/ v = Outcome(FALSE)
  BY <1>2 DEF WorkerCheck
<1>4. /\ v \in BusyWorker /\ v.id = w.id /\ v.job = w.job
      /\ (v.step = "push" /\ w.job.review # None) \/ (v.step = "record" /\ v.ok = FALSE)
  <2>1. w.step \in Plain /\ "push" \in Plain
    BY <1>2 DEF Plain
  <2>2. CASE v = [w EXCEPT !.step = "push"] /\ w.job.review # None
    BY <2>1, <2>2, StepShape
  <2>3. CASE v = Outcome(FALSE)
    BY <1>2, <2>3, OutcomeShape
  <2> QED  BY <1>3, <2>2, <2>3
<1>5. WorkerOK'
  BY <1>1, <1>2, <1>3, <1>4 DEF IInv, WorkerOK, Sends
<1> QED  BY <1>1, <1>2, <1>3, <1>4, <1>5, NoJob

\* More commits in the repository hurt nobody.
LEMMA MoreCommits ==
  ASSUME NEW j, NEW n, NEW R, NEW S, R \subseteq S, JobOK(j, n, R)
  PROVE  JobOK(j, n, S)
BY DEF JobOK

\* What the worker pushes is what the metadata has the review of.
LEMMA PushedHead ==
  ASSUME IInv, worker.step = "push"
  PROVE  /\ worker \in BusyWorker /\ worker # IdleWorker /\ worker.id \in Ids
         /\ worker.id \in DOMAIN jobs /\ jobs[worker.id].status = "Sending"
         /\ jobs[worker.id].review # None /\ Same(worker.job, jobs[worker.id])
         /\ pushed[worker.id] = 0
         /\ worker.job.review = jobs[worker.id].review
         /\ worker.job.review.head \in Commits
<1>1. worker \in BusyWorker /\ worker # IdleWorker /\ worker.id \in Ids /\ worker.job \in Job
  BY Busy, WorkerShape
<1>2. /\ worker.id \in DOMAIN jobs /\ jobs[worker.id].status = "Sending"
      /\ pushed[worker.id] = 0 /\ Same(worker.job, jobs[worker.id])
      /\ worker.job.review # None /\ Faithful(worker.job)
  BY <1>1 DEF IInv, WorkerOK, Sends
<1>3. JobOK(jobs[worker.id], pushed[worker.id], repository)
  BY <1>2, JobFacts
<1>4. jobs[worker.id].review # None /\ jobs[worker.id].review = Examined[jobs[worker.id].bundle]
  BY <1>2, <1>3 DEF JobOK, Decided
<1>5. worker.job.review = Examined[worker.job.bundle] /\ worker.job.bundle = jobs[worker.id].bundle
  BY <1>2 DEF Faithful, Same
<1>6. Examined[worker.job.bundle] = Examine(Bundles[worker.job.bundle])
  BY <1>1 DEF Examined, Job
<1>7. worker.job.review.head \in Commits
  BY <1>2, <1>5, <1>6, ExaminedBundle
<1> QED  BY <1>1, <1>2, <1>4, <1>5, <1>7

\* The push left the branch at the head, or nothing happened to it.
LEMMA WorkerPushInv ==
  ASSUME IInv, WorkerPush
  PROVE  IInv'
<1>1. UNCHANGED <<Other, jobs, artifacts, trash, draft, nextId, batch>>
  BY DEF WorkerPush, WorkerOnly, Other
<1>2. PICK w \in BusyWorker : w = worker /\ w.step = "push" /\ w # IdleWorker /\ w.id \in Ids
  BY Busy, WorkerShape DEF WorkerPush
<1>3. pushed[w.id] = 0 /\ w.id \in DOMAIN jobs /\ jobs[w.id].status = "Sending"
  BY <1>2 DEF IInv, WorkerOK, Sends
<1>4. CASE worker' = Outcome(FALSE) /\ UNCHANGED remoteVars
  <2>1. PICK v : v = Outcome(FALSE)
    OBVIOUS
  <2>2. v \in BusyWorker /\ v.id = w.id /\ v.job = w.job /\ v.step = "record" /\ v.ok = FALSE
    BY <1>2, <2>1, OutcomeShape
  <2>3. WorkerOK'
    BY <1>1, <1>2, <1>3, <1>4, <2>1, <2>2 DEF IInv, WorkerOK, Sends, remoteVars
  <2> QED  BY <1>1, <1>2, <1>4, <2>1, <2>2, <2>3, NoJob DEF remoteVars
<1>5. CASE /\ Landed(worker.id, worker.job.review.head)
           /\ worker' \in {[worker EXCEPT !.step = "verify"], Outcome(FALSE)}
  <2>1. PICK v : worker' = v /\ (v = [w EXCEPT !.step = "verify"] \/ v = Outcome(FALSE))
    BY <1>2, <1>5
  <2>2. /\ v \in BusyWorker /\ v.id = w.id /\ v.job = w.job /\ v # IdleWorker
        /\ v.step = "verify" \/ (v.step = "record" /\ v.ok = FALSE)
    <3>1. w.step \in Plain /\ "verify" \in Plain
      BY <1>2 DEF Plain
    <3>2. CASE v = [w EXCEPT !.step = "verify"]
      BY <3>1, <3>2, StepShape, WorkerShape
    <3>3. CASE v = Outcome(FALSE)
      BY <1>2, <3>3, OutcomeShape, WorkerShape
    <3> QED  BY <2>1, <3>2, <3>3
  <2>3. PICK head \in Commits : head = w.job.review.head
    BY <1>2, PushedHead
  <2>4. /\ pushed' \in [Ids -> Nat] /\ pushed'[w.id] = 1
        /\ \A id \in Ids : id # w.id => pushed'[id] = pushed[id]
    <3>1. pushed' = [pushed EXCEPT ![w.id] = @ + 1]
      BY <1>2, <1>5 DEF Landed
    <3> QED  BY <1>2, <1>3, <3>1 DEF IInv, TypeOK
  <2>5. /\ branch' = head /\ branch' \in Oids /\ Closed(repository')
        /\ repository \subseteq repository'
    <3>1. branch' = head /\ repository' = repository \cup Below(head) /\ head \in Oids
      BY <1>2, <1>5, <2>3 DEF Landed, Oids
    <3> QED  BY <3>1, BelowClosed DEF IInv
  <2>6. WorkerOK'
    BY <1>1, <1>2, <1>3, <2>1, <2>2, <2>4 DEF IInv, WorkerOK, Sends
  <2> HIDE DEF Ids
  <2>7. TypeOK'
    BY <1>1, <2>1, <2>2, <2>4, <2>5 DEF Other, IInv, TypeOK, AuthorityTypeOK, Closed
  <2>8. StoreOK'
    <3>1. ~(w.id >= nextId)
      BY <1>2, <1>3 DEF IInv, TypeOK, StoreOK, Ids
    <3>2. \A id \in Ids : pushed'[id] \in 0 .. 1 /\ (id >= nextId => pushed'[id] = 0)
      BY <2>4, <3>1 DEF IInv, StoreOK
    <3> QED  BY <1>1, <3>2 DEF IInv, StoreOK
  <2>9. DraftOK'
    <3>1. draft # None /\ draft.id # None => draft.id # w.id /\ draft.id \in Ids
      BY <1>2 DEF IInv, TypeOK, DraftOK, Draft
    <3> QED  BY <1>1, <1>2, <2>1, <2>2, <2>4, <3>1 DEF IInv, DraftOK
  <2>10. JobsOK'
    <3>1. ASSUME NEW id \in DOMAIN jobs PROVE JobOK(jobs[id], pushed'[id], repository')
      <4>1. id \in Ids /\ JobOK(jobs[id], pushed[id], repository)
        BY JobFacts
      <4>2. JobOK(jobs[id], pushed[id], repository')
        BY <2>5, <4>1, MoreCommits
      <4>3. CASE id = w.id
        BY <1>3, <2>4, <4>2, <4>3 DEF JobOK, NotSent, Waiting
      <4>4. CASE id # w.id
        BY <2>4, <4>1, <4>2, <4>4
      <4> QED  BY <4>3, <4>4
    <3> QED  BY <1>1, <3>1 DEF JobsOK
  <2> QED  BY <1>1, <2>5, <2>6, <2>7, <2>8, <2>9, <2>10 DEF IInv, BatchOK
<1> QED  BY <1>4, <1>5 DEF WorkerPush

LEMMA WorkerVerifyInv ==
  ASSUME IInv, WorkerVerify
  PROVE  IInv'
<1>1. UNCHANGED <<Other, jobs, artifacts, trash, draft, nextId, batch, pushed, branch, repository>>
  BY DEF WorkerVerify, WorkerOnly, Other, remoteVars
<1>2. PICK w \in BusyWorker : w = worker /\ w.step = "verify" /\ w # IdleWorker
  BY Busy DEF WorkerVerify
<1>3. PICK ok \in BOOLEAN : worker' = Outcome(ok)
  BY DEF WorkerVerify
<1>4. PICK v : v = Outcome(ok)
  OBVIOUS
<1>5. v \in BusyWorker /\ v.id = w.id /\ v.job = w.job /\ v.step = "record"
  BY <1>2, <1>3, <1>4, OutcomeShape
<1>6. WorkerOK'
  BY <1>1, <1>2, <1>3, <1>4, <1>5 DEF IInv, WorkerOK, Sends
<1> QED  BY <1>1, <1>2, <1>3, <1>4, <1>5, <1>6, NoJob

LEMMA WorkerRecordInv ==
  ASSUME IInv, WorkerRecord
  PROVE  IInv'
<1>1. UNCHANGED <<Other, artifacts, trash, draft, nextId, batch, pushed, branch, repository>> /\ worker' = IdleWorker
  BY DEF WorkerRecord, WorkerOnly, Other, remoteVars
<1>2. PICK id \in DOMAIN jobs : id = worker.id /\ jobs[id].status = "Sending" /\ (worker.ok => pushed[id] = 1)
  BY Busy DEF WorkerRecord, IInv, WorkerOK, Sends
<1>3. PICK st, j : st = (IF worker.ok THEN "Published" ELSE "Unknown") /\ j = Set(jobs[id], st)
  OBVIOUS
<1>4. jobs' = [jobs EXCEPT ![id] = j]
  BY <1>2, <1>3 DEF WorkerRecord
<1>5. j \in Job /\ JobOK(j, pushed[id], repository) /\ Same(j, jobs[id])
  <2>1. st \in Status /\ st \notin NotSent \cup Waiting \cup {"Sending"}
    BY <1>3 DEF Status, NotSent, Waiting
  <2>2. (st = "Published" => pushed[id] = 1) /\ jobs[id].status \in Decided
    BY <1>2, <1>3 DEF Decided
  <2> QED  BY <1>3, <2>1, <2>2, JobFacts, MovedOK
<1> QED  BY <1>1, <1>4, <1>5, IdleOK, OneJob

-----------------------------------------------------------------------------
(* The environment *)

LEMMA Sides ==
  ASSUME IInv, TypeOK', UNCHANGED <<jobs, artifacts, trash, draft, nextId, batch, worker, pushed>>,
         repository \subseteq repository', Closed(repository')
  PROVE  IInv'
<1>1. StoreOK' /\ DraftOK'
  BY DEF IInv, StoreOK, DraftOK
<1>2. JobsOK'
  BY MoreCommits DEF IInv, JobsOK
<1>3. BatchOK' /\ WorkerOK'
  BY DEF IInv, BatchOK, WorkerOK
<1> QED  BY <1>1, <1>2, <1>3 DEF IInv

\* The repository as it was.
LEMMA SameRepository == IInv /\ repository' = repository => Closed(repository')
BY DEF IInv

LEMMA PolicyChangeInv ==
  ASSUME IInv, NEW n \in Names, PolicyChange(n)
  PROVE  IInv'
<1>1. UNCHANGED <<up, jobs, artifacts, trash, now, credential, draft, nextId, batch, worker, branch, repository, pushed>>
  BY DEF PolicyChange, storeVars, workerVars, remoteVars
<1>2. AuthorityTypeOK'
  <2>1. PICK k \in Identity : identity' = [identity EXCEPT ![n] = k] /\ stamp' = stamp + 1
    BY Authority DEF PolicyChange, Change, IInv, TypeOK, AuthorityTypeOK
  <2> QED  BY <2>1 DEF IInv, TypeOK, AuthorityTypeOK
<1>3. TypeOK'
  BY <1>1, <1>2 DEF IInv, TypeOK
<1> QED  BY <1>1, <1>3, Sides, SameRepository

LEMMA ChangeCredentialInv ==
  ASSUME IInv, NEW c \in Credentials \cup {None}, ChangeCredential(c)
  PROVE  IInv'
<1>1. /\ UNCHANGED <<identity, stamp, up, jobs, artifacts, trash, now, draft, nextId, batch, worker,
                     branch, repository, pushed>>
      /\ credential' = c
  BY DEF ChangeCredential, storeVars, workerVars, remoteVars
<1>2. TypeOK'
  BY <1>1 DEF IInv, TypeOK, AuthorityTypeOK
<1> QED  BY <1>1, <1>2, Sides, SameRepository

LEMMA TickInv ==
  ASSUME IInv, Tick
  PROVE  IInv'
<1>1. /\ UNCHANGED <<identity, stamp, up, jobs, artifacts, trash, credential, draft, nextId, batch,
                     worker, branch, repository, pushed>>
      /\ now' = now + 1
  BY DEF Tick, storeVars, workerVars, remoteVars
<1>2. TypeOK'
  BY <1>1 DEF IInv, TypeOK, AuthorityTypeOK
<1> QED  BY <1>1, <1>2, Sides, SameRepository

LEMMA ForeignPushInv ==
  ASSUME IInv, NEW tip \in Others, ForeignPush(tip)
  PROVE  IInv'
<1>1. /\ UNCHANGED <<identity, stamp, up, jobs, artifacts, trash, now, credential, draft, nextId, batch,
                     worker, pushed>>
      /\ branch' = tip /\ repository' = repository \cup Below(tip)
  BY DEF ForeignPush, storeVars, workerVars
<1>2. tip \in Oids
  BY PushesAssumption DEF Oids
<1>3. Closed(repository')
  BY <1>1, <1>2, BelowClosed DEF IInv
<1>4. TypeOK'
  BY <1>1, <1>2, <1>3 DEF IInv, TypeOK, AuthorityTypeOK, Closed
<1> QED  BY <1>1, <1>3, <1>4, Sides

LEMMA RecoveredOK ==
  ASSUME NEW j \in Job, now \in Nat, NEW n, NEW R, JobOK(j, n, R)
  PROVE  Recovered(j) \in Job /\ JobOK(Recovered(j), n, R)
<1>1. CASE j.status = "Sending"
  <2>1. Recovered(j) = Set(j, "Unknown")
    BY <1>1 DEF Recovered, Waiting
  <2>2. "Unknown" \in Status /\ "Unknown" \notin NotSent \cup Waiting \cup {"Sending"} /\ j.status \in Decided
    BY <1>1 DEF Status, NotSent, Waiting, Decided
  <2> QED  BY <2>1, <2>2, MovedOK
<1>2. CASE j.status \in Waiting
  <2>1. Recovered(j) = Set(j, "Cancelled")
    BY <1>2 DEF Recovered, Waiting
  <2>2. "Cancelled" \in Status /\ "Cancelled" \notin Decided
    BY DEF Status, NotSent, Decided
  <2> QED  BY <1>2, <2>1, <2>2, MovedOK
<1>3. CASE j.status # "Sending" /\ j.status \notin Waiting
  BY <1>3 DEF Recovered
<1> QED  BY <1>1, <1>2, <1>3

LEMMA RestartInv ==
  ASSUME IInv, Restart
  PROVE  IInv'
<1>1. /\ UNCHANGED <<now, credential, nextId, branch, repository, pushed>>
      /\ draft' = None /\ trash' = {} /\ worker' = IdleWorker /\ batch' = Nothing
  BY DEF Restart, remoteVars
<1>2. DOMAIN batch' = {}
  BY <1>1 DEF Nothing, Without
<1>3. AuthorityTypeOK'
  <2>1. DOMAIN identity = Names /\ \A n \in Names : identity[n] \in Identity
    BY DEF IInv, TypeOK, AuthorityTypeOK
  <2>2. DOMAIN identity' = Names /\ \A n \in Names : identity'[n] \in Rebooted(identity[n])
    BY DEF Restart, Reboot
  <2>3. \A n \in Names : identity'[n] \in Identity
    BY <2>1, <2>2, Authority DEF IInv, TypeOK
  <2> QED  BY <2>2, <2>3 DEF Restart, Reboot, IInv, TypeOK, AuthorityTypeOK
<1>4. /\ DOMAIN jobs' = DOMAIN jobs
      /\ \A id \in DOMAIN jobs : jobs'[id] \in {jobs[id], Recovered(jobs[id])}
      /\ DOMAIN jobs \subseteq artifacts' /\ artifacts' \subseteq artifacts /\ up' \in BOOLEAN
  <2>1. DOMAIN jobs \subseteq artifacts /\ up \in BOOLEAN
    BY DEF IInv, StoreOK, TypeOK
  <2>2. CASE LoadAccepts(jobs, artifacts)
    BY <2>1, <2>2 DEF Restart
  <2>3. CASE ~LoadAccepts(jobs, artifacts)
    BY <2>1, <2>3 DEF Restart
  <2> QED  BY <2>2, <2>3
<1>5. \A id \in DOMAIN jobs' : jobs'[id] \in Job /\ JobOK(jobs'[id], pushed[id], repository)
  BY <1>4, JobFacts, RecoveredOK
<1>6. TypeOK'
  BY <1>1, <1>2, <1>3, <1>4, <1>5 DEF IInv, TypeOK
<1>7. StoreOK'
  BY <1>1, <1>4 DEF IInv, StoreOK
<1>8. JobsOK'
  BY <1>1, <1>5 DEF JobsOK
<1> QED  BY <1>1, <1>2, <1>6, <1>7, <1>8 DEF IInv, DraftOK, BatchOK, WorkerOK

-----------------------------------------------------------------------------
(* The invariant *)

LEMMA InitInv == Init => IInv
<1> SUFFICES ASSUME Init PROVE IInv
  OBVIOUS
<1>1. /\ jobs = [id \in {} |-> None] /\ batch = [id \in {} |-> None] /\ artifacts = {} /\ trash = {}
      /\ draft = None /\ worker = IdleWorker /\ nextId = 1 /\ pushed = [id \in Ids |-> 0]
  BY DEF Init
<1>2. DOMAIN jobs = {} /\ DOMAIN batch = {}
  BY <1>1
<1>3. branch \in Oids /\ Closed(repository)
  <2>1. branch \in Oids /\ repository = Published \cup Below(branch)
    BY PushesAssumption DEF Init, Oids
  <2>2. Closed(Published)
    BY HistoryAssumption DEF Closed, Parents
  <2> QED  BY <2>1, <2>2, BelowClosed
<1>4. TypeOK
  <2>1. AuthorityTypeOK
    <3> DEFINE first == [instance |-> 0, epoch |-> 0, peers |-> IPs, durable |-> TRUE]
    <3>1. IPs \in SUBSET IPs /\ first \in Identity
      BY DEF Identity
    <3>2. identity \in [Names -> {first}] /\ stamp = 1
      BY DEF Init
    <3> HIDE DEF first
    <3> QED  BY <3>1, <3>2 DEF AuthorityTypeOK
  <2>2. branch \in Oids /\ repository \subseteq Commits
    BY <1>3 DEF Closed
  <2>3. nextId \in 1 .. MaxId + 1 /\ pushed \in [Ids -> Nat]
    BY <1>1, PushesAssumption
  <2> QED  BY <1>1, <1>2, <2>1, <2>2, <2>3 DEF Init, TypeOK
<1>5. StoreOK
  <2>1. Cardinality(DOMAIN jobs) <= MaxJobs
    BY <1>2, FS_EmptySet, PushesAssumption
  <2> QED  BY <1>1, <1>2, <2>1 DEF StoreOK
<1> QED  BY <1>1, <1>2, <1>3, <1>4, <1>5 DEF IInv, DraftOK, JobsOK, BatchOK, WorkerOK

LEMMA StepInv == IInv /\ [Next]_vars => IInv'
<1> SUFFICES ASSUME IInv, [Next]_vars PROVE IInv'
  OBVIOUS
<1>1. CASE UNCHANGED vars
  <2>1. /\ UNCHANGED <<identity, stamp, up, jobs, artifacts, trash, now, credential, draft, nextId, batch>>
        /\ UNCHANGED <<worker, branch, repository, pushed>>
    BY <1>1 DEF vars, storeVars, workerVars, remoteVars
  <2>2. TypeOK'
    BY <2>1 DEF IInv, TypeOK, AuthorityTypeOK
  <2> QED  BY <2>1, <2>2, Sides, SameRepository
<1>2. CASE GuestStep
  BY <1>2, BeginSubmitInv, PlaceBundleInv, FinishSubmitInv, RefuseSubmitInv, RemoveArtifactInv,
     CancelInv, AcknowledgeInv, DeleteInv DEF GuestStep
<1>3. CASE HostStep
  BY <1>3, DecideInv, PolicyChangeInv, ChangeCredentialInv DEF HostStep
<1>4. CASE WorkerStep
  BY <1>4, TickStartInv, WorkerPickInv, WorkerRevokeInv, WorkerCredentialInv, WorkerBlockInv,
     WorkerPrepareInv, WorkerDeriveInv, WorkerDropInv, WorkerAdmitInv, WorkerCheckInv, WorkerPushInv,
     WorkerVerifyInv, WorkerRecordInv, WorkerFailsInv DEF WorkerStep
<1>5. CASE Tick \/ Restart \/ \E tip \in Others : ForeignPush(tip)
  BY <1>5, TickInv, RestartInv, ForeignPushInv
<1> QED  BY <1>1, <1>2, <1>3, <1>4, <1>5 DEF Next

\* The invariant that all others follow from.
THEOREM Invariance == Spec => []IInv
BY InitInv, StepInv, PTL DEF Spec

\* Type correctness of every variable.
THEOREM TypeCorrect == Spec => []TypeOK
<1>1. IInv => TypeOK
  BY DEF IInv
<1> QED  BY <1>1, Invariance, PTL

(***************************************************************************)
(* Every publication of the metadata has its bundle, and the store is      *)
(* within its limits, wherever the broker stops (submit, delete, load).    *)
(***************************************************************************)
THEOREM BundlesAreThere == Spec => []BundlesStay
<1>1. IInv => BundlesStay
  BY DEF IInv, StoreOK, BundlesStay
<1> QED  BY <1>1, Invariance, PTL

(***************************************************************************)
(* A publication is pushed successfully at most once, and its status does  *)
(* not lie about it (tick_remote, execute_remote, load).                   *)
(***************************************************************************)
THEOREM StatusIsHonest == Spec => []HonestPublication
<1>1. ASSUME IInv PROVE HonestPublication
  <2>1. \A id \in Ids : pushed[id] <= 1
    BY <1>1 DEF IInv, StoreOK
  <2>2. \A id \in DOMAIN jobs : JobOK(jobs[id], pushed[id], repository)
    BY <1>1 DEF IInv, JobsOK
  <2> QED  BY <2>1, <2>2 DEF JobOK, HonestPublication
<1> QED  BY <1>1, Invariance, PTL

(***************************************************************************)
(* What the host can decide on, what is sent and what was sent has a       *)
(* review, and the review shows what the push brings over the tip that the *)
(* guest expects (tick_remote, decide, prepare_remote).                    *)
(***************************************************************************)
THEOREM ReviewedBeforeSent == Spec => []SentWasReviewed
<1>1. ASSUME IInv PROVE SentWasReviewed
  <2>1. ASSUME NEW id \in DOMAIN jobs, jobs[id].status \in Decided
        PROVE  /\ jobs[id].review # None
               /\ Shows(jobs[id].review, Bundles[jobs[id].bundle], jobs[id].expected, repository)
    <3>1. jobs[id].bundle \in DOMAIN Bundles /\ JobOK(jobs[id], pushed[id], repository)
      BY <1>1, JobFacts DEF Job
    <3>2. PICK b : b = Bundles[jobs[id].bundle]
      OBVIOUS
    <3>3. jobs[id].review # None /\ jobs[id].review = Examine(b) /\ Examine(b).base \in repository
      BY <2>1, <3>1, <3>2 DEF JobOK, Examined
    <3>4. Closed(repository)
      BY <1>1 DEF IInv
    <3>5. Shows(Examine(b), b, jobs[id].expected, repository)
      BY <3>3, <3>4, ReviewShows
    <3> QED  BY <3>2, <3>3, <3>5
  <2> QED  BY <2>1 DEF SentWasReviewed, Decided
<1> QED  BY <1>1, Invariance, PTL

-----------------------------------------------------------------------------
(* The lease *)

LEMMA OnlyPushes ==
  ASSUME Next, ~WorkerPush
  PROVE  UNCHANGED pushed
<1>1. CASE GuestStep
  BY <1>1 DEF GuestStep, BeginSubmit, PlaceBundle, FinishSubmit, RefuseSubmit, RemoveArtifact, Cancel,
              Acknowledge, Delete, StoreOnly, remoteVars
<1>2. CASE HostStep
  BY <1>2 DEF HostStep, Decide, PolicyChange, ChangeCredential, StoreOnly, remoteVars
<1>3. CASE WorkerStep
  BY <1>3 DEF WorkerStep, TickStart, WorkerPick, WorkerRevoke, WorkerCredential, WorkerBlock,
              WorkerPrepare, WorkerDerive, WorkerDrop, WorkerAdmit, WorkerCheck, WorkerVerify,
              WorkerRecord, WorkerFails, remoteVars
<1>4. CASE Tick \/ Restart \/ \E tip \in Others : ForeignPush(tip)
  BY <1>4 DEF Tick, Restart, ForeignPush, remoteVars
<1> QED  BY <1>1, <1>2, <1>3, <1>4 DEF Next

LEMMA LeaseStep ==
  ASSUME IInv, [Next]_vars
  PROVE  \A id \in DOMAIN jobs :
           pushed'[id] > pushed[id] => /\ branch' = jobs[id].review.head
                                       /\ branch \in {jobs[id].expected, branch'}
<1>1. \A id \in DOMAIN jobs : id \in Ids /\ pushed[id] \in Nat
  BY DEF IInv, TypeOK
<1>2. CASE UNCHANGED pushed
  BY <1>1, <1>2
<1>3. CASE WorkerPush /\ ~UNCHANGED pushed
  <2>1. /\ worker.step = "push"
        /\ branch \in {worker.job.expected, worker.job.review.head}
        /\ branch' = worker.job.review.head
        /\ pushed' = [pushed EXCEPT ![worker.id] = @ + 1]
    BY <1>3 DEF WorkerPush, Landed, remoteVars
  <2>2. /\ jobs[worker.id].expected = worker.job.expected
        /\ jobs[worker.id].review = worker.job.review
    BY <2>1, PushedHead DEF Same
  <2>3. \A id \in DOMAIN jobs : id # worker.id => pushed'[id] = pushed[id]
    BY <1>1, <2>1 DEF IInv, TypeOK
  <2> QED  BY <1>1, <2>1, <2>2, <2>3
<1> QED  BY <1>2, <1>3, OnlyPushes DEF vars, remoteVars

(***************************************************************************)
(* A push that ends well leaves the branch at the reviewed head, and moved *)
(* it there only from the commit its guest saw, no matter who else pushes  *)
(* (execute_remote's lease on "expected").                                 *)
(***************************************************************************)
THEOREM LeaseProtects == Spec => NothingOverwritten
<1>1. IInv /\ [Next]_vars
        => [\A id \in DOMAIN jobs :
              pushed'[id] > pushed[id] => /\ branch' = jobs[id].review.head
                                          /\ branch \in {jobs[id].expected, branch'}]_vars
  BY LeaseStep
<1> QED  BY <1>1, Invariance, PTL DEF Spec, NothingOverwritten
=============================================================================
