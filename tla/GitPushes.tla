----------------------------- MODULE GitPushes -----------------------------
(***************************************************************************)
(* Reviewed Git branch publication (src/src/pushes.rs): a guest uploads a  *)
(* bundle, the broker derives a review from it, the host approves, and one *)
(* worker pushes the reviewed head with a lease on the branch.             *)
(*                                                                         *)
(* Two things are durable: the metadata file, replaced by every            *)
(* transaction before memory is published (one variable here, as in        *)
(* AsyncJobs), and one directory per job with the bundle, created before   *)
(* and removed after the metadata that names it.  A crash may fall between *)
(* any two of these steps, and the next start checks one against the       *)
(* other.                                                                  *)
(*                                                                         *)
(* The remote repository is external: a branch that others push to as      *)
(* well, read with ls-remote and updated by a push that its lease allows.  *)
(***************************************************************************)
EXTENDS GuestAuthority, PushBundle

CONSTANTS
  Credentials,  \* possible values of the GitHub escrow credential
  AllowAll,     \* the broker runs with the GitHub allow-all policy
  ReviewTime,   \* REVIEW_HOURS, in clock ticks
  Retention,    \* UNACKNOWLEDGED_RETENTION_HOURS, in clock ticks
  MaxActive,    \* active publications in all (8 in the code)
  MaxPerGuest,  \* active publications per guest (4)
  MaxJobs,      \* retained publications, by number and by bundle bytes
  MaxId,        \* bound on submissions
  Submitted,    \* id -> names of the bundles it may be submitted with
  MaxStamp,     \* bound on policy changes and restarts
  MaxNow,       \* bound on the clock
  Others        \* tips that others give the branch, None to delete it

ASSUME PushesAssumption ==
  /\ None \notin Credentials /\ None \notin Nat
  /\ AllowAll \in BOOLEAN
  /\ {ReviewTime, Retention, MaxActive, MaxPerGuest, MaxJobs, MaxId, MaxStamp, MaxNow}
       \subseteq Nat
  /\ Others \subseteq Commits \cup {None}

VARIABLES
  up,          \* the broker runs
  jobs,        \* id -> publication, git-push-jobs.json
  artifacts,   \* ids whose directory holds the bundle
  trash,       \* ids whose directory an operation is about to remove
  now,         \* the wall clock
  credential,  \* the one Git credential in escrow, or None
  draft,       \* the submission being accepted, or None
  nextId,      \* the next publication UUID
  batch,       \* id -> publication, what is left of the worker's snapshot
  worker,      \* where the worker is in its loop body
  branch,      \* the tip of the remote branch, None while there is no branch
  repository,  \* the commits the remote repository has
  pushed       \* history: how often a push of each publication left the branch
               \* at its head, moved there or found there

storeVars == <<jobs, artifacts, trash>>
workerVars == <<batch, worker>>
remoteVars == <<branch, repository, pushed>>
vars == <<identity, stamp, up, storeVars, now, credential, draft, nextId, workerVars, remoteVars>>

Ids == 1 .. MaxId

\* Tips of a branch; None is the all-zero OID.
Oids == Commits \cup {None}

Waiting == {"Preparing", "Pending", "Approved"}
Active == Waiting \cup {"Sending"}
NotSent == {"Denied", "Expired", "Cancelled", "Blocked"}
Status == Active \cup NotSent \cup {"Published", "Unknown"}

Reviews == {Examined[b] : b \in DOMAIN Bundles} \cup {None}

\* expected is the branch tip the guest saw; review what was derived.
Job ==
  [guest : Names, peer : IPs, instance : Nat, epoch : Nat, binding : Credentials,
   bundle : DOMAIN Bundles, expected : Oids, review : Reviews, status : Status,
   updated : Nat, expires : Nat, acknowledged : BOOLEAN]

Draft ==
  [id : Ids \cup {None}, guest : Names, peer : IPs, instance : Nat, epoch : Nat,
   binding : Credentials \cup {None}, expected : Oids]

IdleWorker == [step |-> "idle"]

BusyWorker ==
  [step : {"revoke", "credential", "block", "prepare", "drop", "admit", "check", "push", "verify"},
   id : Ids, job : Job]
    \cup [step : {"derive"}, id : Ids, job : Job, review : Reviews]
    \cup [step : {"record"}, id : Ids, job : Job, ok : BOOLEAN]

Terminal(j) == j.status \notin Active
Lapsed(j) == j.expires <= now
Set(j, status) == [j EXCEPT !.status = status, !.updated = now]
ActiveIds == {id \in DOMAIN jobs : ~Terminal(jobs[id])}
Without(J, R) == [id \in DOMAIN J \ R |-> J[id]]
Nothing == Without(jobs, DOMAIN jobs)

-----------------------------------------------------------------------------
(* The store *)

AutomaticallyRemovable(j) ==
  /\ Terminal(j)
  /\ j.status # "Unknown"
  /\ j.acknowledged \/ j.updated + Retention <= now

\* What prune_for_admission may remove: the oldest removable publications, as
\* many as needed.
Prunings(J) ==
  LET removable == {id \in DOMAIN J : AutomaticallyRemovable(J[id])}
  IN {R \in SUBSET removable :
        /\ Cardinality(R) = IF Cardinality(DOMAIN J) > MaxJobs
                            THEN Cardinality(DOMAIN J) - MaxJobs ELSE 0
        /\ \A a \in R, b \in removable \ R : J[a].updated <= J[b].updated}

\* load's checks: limits, each publication's bundle, and a review wherever the
\* status is not one a publication without a review may have.
LoadAccepts(J, A) ==
  /\ Cardinality(DOMAIN J) <= MaxJobs
  /\ \A id \in DOMAIN J :
       /\ id \in A
       /\ J[id].review # None \/ J[id].status \in {"Preparing", "Blocked", "Cancelled"}

Recovered(j) ==
  CASE j.status = "Sending"  -> Set(j, "Unknown")
    [] j.status \in Waiting  -> Set(j, "Cancelled")
    [] OTHER                 -> j

\* The process stops anywhere.  load refuses a store that fails its checks and
\* the broker does not start; otherwise it recovers, then removes directories
\* the metadata does not name, as far as it can.
Restart ==
  /\ stamp < MaxStamp
  /\ Reboot
  /\ draft' = None
  /\ trash' = {}
  /\ worker' = IdleWorker
  /\ batch' = Nothing
  /\ IF LoadAccepts(jobs, artifacts)
     THEN /\ jobs' = [id \in DOMAIN jobs |-> Recovered(jobs[id])]
          /\ \E left \in SUBSET (artifacts \ DOMAIN jobs) :
                artifacts' = (artifacts \cap DOMAIN jobs) \cup left
          /\ UNCHANGED up
     ELSE up' = FALSE /\ UNCHANGED <<jobs, artifacts>>
  /\ UNCHANGED <<now, credential, nextId, remoteVars>>

\* remove_dir_all after the metadata is gone; an error leaves the directory.
RemoveArtifact(id) ==
  /\ id \in trash
  /\ trash' = trash \ {id}
  /\ artifacts' \in {artifacts, artifacts \ {id}}
  /\ UNCHANGED <<identity, stamp, up, jobs, now, credential, draft, nextId, workerVars, remoteVars>>

-----------------------------------------------------------------------------
(* The guest's operations *)

\* submit, the upload complete: whose publication it is.
BeginSubmit(n, peer, expected) ==
  /\ draft = None
  /\ nextId <= MaxId
  /\ peer \in identity[n].peers
  /\ draft' = [id |-> None, guest |-> n, peer |-> peer, instance |-> identity[n].instance,
               epoch |-> identity[n].epoch, binding |-> None, expected |-> expected]
  /\ UNCHANGED <<identity, stamp, up, storeVars, now, credential, nextId, workerVars, remoteVars>>

\* submit: the incarnation is durable, the credential known, and the bundle
\* renamed into the publication's directory.
PlaceBundle ==
  /\ draft # None
  /\ draft.id = None
  /\ identity' = [n \in Names |-> [identity[n] EXCEPT !.durable = @ \/ identity[n].peers # {}]]
  /\ credential # None
  /\ draft' = [draft EXCEPT !.id = nextId, !.binding = credential]
  /\ artifacts' = artifacts \cup {nextId}
  /\ nextId' = nextId + 1
  /\ UNCHANGED <<stamp, up, jobs, trash, now, credential, workerVars, remoteVars>>

\* submit: metadata and history in one transaction; directories go afterwards.
\* What the bundle holds is chosen here, where it is first of consequence.
FinishSubmit(bundle) ==
  LET job == [guest |-> draft.guest, peer |-> draft.peer, instance |-> draft.instance,
              epoch |-> draft.epoch, binding |-> draft.binding, bundle |-> bundle,
              expected |-> draft.expected, review |-> None, status |-> "Preparing", updated |-> now,
              expires |-> now + ReviewTime, acknowledged |-> FALSE]
      J == [id \in DOMAIN jobs \cup {draft.id} |-> IF id = draft.id THEN job ELSE jobs[id]]
  IN /\ draft # None
     /\ draft.id # None
     /\ bundle \in Submitted[draft.id]
     /\ now + ReviewTime <= MaxNow
     /\ Cardinality(ActiveIds) < MaxActive
     /\ Cardinality({id \in ActiveIds : jobs[id].guest = draft.guest}) < MaxPerGuest
     /\ \E R \in Prunings(J) : jobs' = Without(J, R) /\ trash' = trash \cup R
     /\ draft' = None
     /\ UNCHANGED <<identity, stamp, up, artifacts, now, credential, nextId, workerVars, remoteVars>>

\* submit refused, by a limit, the escrow or the disk: its directory goes too.
RefuseSubmit ==
  /\ draft # None
  /\ draft' = None
  /\ trash' = trash \cup ({draft.id} \ {None})
  /\ UNCHANGED <<identity, stamp, up, jobs, artifacts, now, credential, nextId, workerVars, remoteVars>>

Owns(n, id) ==
  /\ identity[n].peers # {}
  /\ jobs[id].guest = n
  /\ jobs[id].instance = identity[n].instance

StoreOnly ==
  UNCHANGED <<identity, stamp, up, artifacts, now, credential, draft, nextId, workerVars, remoteVars>>

\* Mutant of Cancel: also while the worker pushes.
CancelActive(n, id) ==
  /\ Owns(n, id)
  /\ ~Terminal(jobs[id])
  /\ jobs' = [jobs EXCEPT ![id] = Set(@, "Cancelled")]
  /\ UNCHANGED trash
  /\ StoreOnly

Cancel(n, id) ==
  /\ Owns(n, id)
  /\ jobs[id].status \in Waiting
  /\ jobs' = [jobs EXCEPT ![id] = Set(@, "Cancelled")]
  /\ UNCHANGED trash
  /\ StoreOnly

Acknowledge(n, id) ==
  /\ Owns(n, id)
  /\ Terminal(jobs[id])
  /\ jobs[id].status # "Unknown"
  /\ jobs' = [jobs EXCEPT ![id].acknowledged = TRUE]
  /\ UNCHANGED trash
  /\ StoreOnly

\* Mutant of Delete: the directory first, and the metadata not yet.
DeleteArtifactFirst(n, id) ==
  /\ Owns(n, id)
  /\ Terminal(jobs[id])
  /\ artifacts' = artifacts \ {id}
  /\ UNCHANGED <<identity, stamp, up, jobs, trash, now, credential, draft, nextId, workerVars,
                 remoteVars>>

\* delete: the metadata first, then the directory.
Delete(n, id) ==
  /\ Owns(n, id)
  /\ Terminal(jobs[id])
  /\ jobs' = Without(jobs, {id})
  /\ trash' = trash \cup {id}
  /\ StoreOnly

\* The host's decision on the derived review.
Decide(id, approve) ==
  /\ jobs[id].status = "Pending"
  /\ ~Lapsed(jobs[id])
  /\ jobs' = [jobs EXCEPT ![id] = Set(@, IF approve THEN "Approved" ELSE "Denied")]
  /\ UNCHANGED trash
  /\ StoreOnly

-----------------------------------------------------------------------------
(* The worker *)

WorkerOnly == UNCHANGED <<identity, stamp, up, artifacts, trash, now, credential, draft, nextId>>

\* The worker's transaction: publication id moves to a status if it still has
\* one of the statuses in from.
MoveIf(id, from, status) ==
  jobs' = IF id \in DOMAIN jobs /\ jobs[id].status \in from
          THEN [jobs EXCEPT ![id] = Set(@, status)] ELSE jobs

TickStart ==
  /\ worker = IdleWorker
  /\ batch = Nothing
  /\ \E id \in DOMAIN jobs : jobs[id].status \in Waiting
  /\ batch' = Without(jobs, {id \in DOMAIN jobs : jobs[id].status \notin Waiting})
  /\ WorkerOnly
  /\ UNCHANGED <<jobs, worker, remoteVars>>

WorkerPick(id) ==
  LET job == batch[id]
      current == AsyncIdentity(job.guest, job.peer, job.instance, job.epoch)
      at(step) == [step |-> step, id |-> id, job |-> job]
  IN /\ worker = IdleWorker
     /\ batch' = Without(batch, {id})
     /\ worker' = CASE Lapsed(job) \/ ~current   -> at("revoke")
                    [] job.status = "Pending"    -> IdleWorker
                    [] OTHER                     -> at("credential")
     /\ WorkerOnly
     /\ UNCHANGED <<jobs, remoteVars>>

WorkerRevoke ==
  /\ worker.step = "revoke"
  /\ MoveIf(worker.id, Waiting, IF Lapsed(worker.job) THEN "Expired" ELSE "Cancelled")
  /\ worker' = IdleWorker
  /\ WorkerOnly
  /\ UNCHANGED <<batch, remoteVars>>

WorkerCredential ==
  /\ worker.step = "credential"
  /\ worker' = [worker EXCEPT !.step =
                  CASE credential # worker.job.binding     -> "block"
                    [] worker.job.status = "Preparing"     -> "prepare"
                    [] OTHER                               -> "admit"]
  /\ WorkerOnly
  /\ UNCHANGED <<jobs, batch, remoteVars>>

WorkerBlock ==
  /\ worker.step = "block"
  /\ MoveIf(worker.id, {worker.job.status}, "Blocked")
  /\ worker' = IdleWorker
  /\ WorkerOnly
  /\ UNCHANGED <<batch, remoteVars>>

\* prepare_remote: the branch must be where the guest saw it, the repository must
\* have the base, and the bundle must be there and pass the examination; each of
\* the Git commands may also fail.  Nothing is said of a head that is the tip
\* already.
WorkerPrepare(works) ==
  /\ worker.step = "prepare"
  /\ worker' = [step |-> "derive", id |-> worker.id, job |-> worker.job,
                review |-> IF /\ works
                              /\ branch = worker.job.expected
                              /\ Bundles[worker.job.bundle].base \in repository
                              /\ worker.id \in artifacts
                           THEN Examined[worker.job.bundle] ELSE None]
  /\ WorkerOnly
  /\ UNCHANGED <<jobs, batch, remoteVars>>

\* What becomes of a publication whose bundle was examined.
Derived(j, review) ==
  CASE Lapsed(j)     -> Set(j, "Expired")
    [] review = None -> Set(j, "Blocked")
    [] OTHER         -> [Set(j, IF AllowAll THEN "Approved" ELSE "Pending")
                           EXCEPT !.review = review]

\* The result is stored under the registry's lock if the guest is still the one
\* that submitted; a publication that disappeared ends the tick (WorkerFails).
WorkerDerive ==
  LET j == worker.job
  IN /\ worker.step = "derive"
     /\ IF AsyncIdentity(j.guest, j.peer, j.instance, j.epoch)
        THEN /\ worker.id \in DOMAIN jobs
             /\ jobs' = IF jobs[worker.id].status = "Preparing"
                        THEN [jobs EXCEPT ![worker.id] = Derived(@, worker.review)] ELSE jobs
             /\ worker' = IdleWorker
        ELSE /\ worker' = [step |-> "drop", id |-> worker.id, job |-> worker.job]
             /\ UNCHANGED jobs
     /\ WorkerOnly
     /\ UNCHANGED <<batch, remoteVars>>

WorkerDrop ==
  /\ worker.step = "drop"
  /\ MoveIf(worker.id, {"Preparing"}, "Cancelled")
  /\ worker' = IdleWorker
  /\ WorkerOnly
  /\ UNCHANGED <<batch, remoteVars>>

\* Admission: current policy and a durable Sending, before the first byte.
WorkerAdmit ==
  LET j == worker.job
      admitted == /\ AsyncIdentity(j.guest, j.peer, j.instance, j.epoch)
                  /\ worker.id \in DOMAIN jobs
                  /\ jobs[worker.id].status = "Approved"
                  /\ ~Lapsed(jobs[worker.id])
  IN /\ worker.step = "admit"
     /\ jobs' = IF admitted THEN [jobs EXCEPT ![worker.id] = Set(@, "Sending")] ELSE jobs
     /\ worker' = IF admitted THEN [worker EXCEPT !.step = "check"] ELSE IdleWorker
     /\ WorkerOnly
     /\ UNCHANGED <<batch, remoteVars>>

Outcome(ok) == [step |-> "record", id |-> worker.id, job |-> worker.job, ok |-> ok]

\* execute_remote: the bundle and the branch are checked again.
WorkerCheck ==
  /\ worker.step = "check"
  /\ \/ /\ branch = worker.job.expected
        /\ worker.id \in artifacts
        /\ worker.job.review # None
        /\ worker' = [worker EXCEPT !.step = "push"]
     \/ worker' = Outcome(FALSE)
  /\ WorkerOnly
  /\ UNCHANGED <<jobs, batch, remoteVars>>

\* The remote has the branch at a head after a push of publication id.
Landed(id, head) ==
  /\ branch' = head
  /\ repository' = repository \cup Below(head)
  /\ pushed' = [pushed EXCEPT ![id] = @ + 1]

\* Mutant of WorkerPush: --force without a lease.
WorkerPushForced ==
  /\ worker.step = "push"
  /\ Landed(worker.id, worker.job.review.head)
  /\ worker' \in {[worker EXCEPT !.step = "verify"], Outcome(FALSE)}
  /\ WorkerOnly
  /\ UNCHANGED <<jobs, batch>>

\* git push --force-with-lease: the remote moves the branch only from the
\* expected commit, but a branch that is at the head already is up to date,
\* whatever was expected.  The report, or the connection, may be lost.
WorkerPush ==
  /\ worker.step = "push"
  /\ \/ /\ branch \in {worker.job.expected, worker.job.review.head}
        /\ Landed(worker.id, worker.job.review.head)
        /\ worker' \in {[worker EXCEPT !.step = "verify"], Outcome(FALSE)}
     \/ worker' = Outcome(FALSE) /\ UNCHANGED remoteVars
  /\ WorkerOnly
  /\ UNCHANGED <<jobs, batch>>

\* The branch is read back.
WorkerVerify ==
  /\ worker.step = "verify"
  /\ worker' \in {Outcome(branch = worker.job.review.head), Outcome(FALSE)}
  /\ WorkerOnly
  /\ UNCHANGED <<jobs, batch, remoteVars>>

WorkerRecord ==
  /\ worker.step = "record"
  /\ worker.id \in DOMAIN jobs
  /\ jobs' = [jobs EXCEPT ![worker.id] = Set(@, IF worker.ok THEN "Published" ELSE "Unknown")]
  /\ worker' = IdleWorker
  /\ WorkerOnly
  /\ UNCHANGED <<batch, remoteVars>>

\* A transaction fails: the tick ends.
WorkerFails ==
  /\ worker.step \in {"revoke", "block", "derive", "drop", "admit", "record"}
  /\ worker' = IdleWorker
  /\ batch' = Nothing
  /\ WorkerOnly
  /\ UNCHANGED <<jobs, remoteVars>>

-----------------------------------------------------------------------------
(* The environment *)

PolicyChange(n) ==
  /\ stamp < MaxStamp
  /\ Change(n)
  /\ UNCHANGED <<up, storeVars, now, credential, draft, nextId, workerVars, remoteVars>>

ChangeCredential(c) ==
  /\ credential # c
  /\ credential' = c
  /\ UNCHANGED <<identity, stamp, up, storeVars, now, draft, nextId, workerVars, remoteVars>>

Tick ==
  /\ now < MaxNow
  /\ now' = now + 1
  /\ UNCHANGED <<identity, stamp, up, storeVars, credential, draft, nextId, workerVars, remoteVars>>

\* Someone else moves the branch, to where it was before perhaps, or deletes it.
ForeignPush(tip) ==
  /\ branch # tip
  /\ branch' = tip
  /\ repository' = repository \cup Below(tip)
  /\ UNCHANGED <<identity, stamp, up, storeVars, now, credential, draft, nextId, workerVars, pushed>>

-----------------------------------------------------------------------------
(* The specification *)

Init ==
  /\ identity \in [Names -> {[instance |-> 0, epoch |-> 0, peers |-> IPs, durable |-> TRUE]}]
  /\ stamp = 1
  /\ up = TRUE
  /\ jobs = [id \in {} |-> None]
  /\ artifacts = {}
  /\ trash = {}
  /\ now = 0
  /\ credential \in Credentials
  /\ draft = None
  /\ nextId = 1
  /\ batch = [id \in {} |-> None]
  /\ worker = IdleWorker
  /\ branch \in Others
  /\ repository = Published \cup Below(branch)
  /\ pushed = [id \in Ids |-> 0]

GuestStep ==
  \/ \E n \in Names, peer \in IPs : BeginSubmit(n, peer, branch)
  \/ PlaceBundle
  \/ \E bundle \in DOMAIN Bundles : FinishSubmit(bundle)
  \/ RefuseSubmit
  \/ \E id \in trash : RemoveArtifact(id)
  \/ \E n \in Names, id \in DOMAIN jobs : Cancel(n, id) \/ Acknowledge(n, id) \/ Delete(n, id)

HostStep ==
  \/ \E id \in DOMAIN jobs, approve \in BOOLEAN : Decide(id, approve)
  \/ \E n \in Names : PolicyChange(n)
  \/ \E c \in Credentials \cup {None} : ChangeCredential(c)

WorkerStep ==
  \/ TickStart
  \/ \E id \in DOMAIN batch : WorkerPick(id)
  \/ WorkerRevoke
  \/ WorkerCredential
  \/ WorkerBlock
  \/ \E works \in BOOLEAN : WorkerPrepare(works)
  \/ WorkerDerive
  \/ WorkerDrop
  \/ WorkerAdmit
  \/ WorkerCheck
  \/ WorkerPush
  \/ WorkerVerify
  \/ WorkerRecord
  \/ WorkerFails

Next ==
  /\ up
  /\ \/ GuestStep
     \/ HostStep
     \/ WorkerStep
     \/ Tick
     \/ \E tip \in Others : ForeignPush(tip)
     \/ Restart

Spec == Init /\ [][Next]_vars

-----------------------------------------------------------------------------
(* Properties *)

TypeOK ==
  /\ AuthorityTypeOK
  /\ up \in BOOLEAN
  /\ DOMAIN jobs \subseteq Ids
  /\ \A id \in DOMAIN jobs : jobs[id] \in Job
  /\ artifacts \subseteq Ids
  /\ trash \subseteq Ids
  /\ now \in Nat
  /\ credential \in Credentials \cup {None}
  /\ draft \in Draft \cup {None}
  /\ nextId \in 1 .. MaxId + 1
  /\ DOMAIN batch \subseteq Ids
  /\ \A id \in DOMAIN batch : batch[id] \in Job
  /\ worker \in BusyWorker \cup {IdleWorker}
  /\ branch \in Oids
  /\ repository \subseteq Commits
  /\ pushed \in [Ids -> Nat]

(***************************************************************************)
(* A publication is pushed successfully at most once, over all failures    *)
(* and restarts; a status that says "not sent", or still waits, is true;   *)
(* and "Published" means that its push left the branch at its head, which  *)
(* may have been there before (tick_remote, execute_remote, load).         *)
(***************************************************************************)
HonestPublication ==
  /\ \A id \in Ids : pushed[id] <= 1
  /\ \A id \in DOMAIN jobs :
       /\ jobs[id].status \in NotSent \cup Waiting => pushed[id] = 0
       /\ jobs[id].status = "Published" => pushed[id] = 1

(***************************************************************************)
(* Whatever an operation was doing when the broker stopped, the bundle of  *)
(* every publication in the metadata is on disk, and the store is within   *)
(* its limits: load's first checks never refuse what the broker wrote.     *)
(***************************************************************************)
BundlesStay ==
  /\ DOMAIN jobs \subseteq artifacts
  /\ Cardinality(DOMAIN jobs) <= MaxJobs

(***************************************************************************)
(* A publication the host can decide on, that is being sent or was sent    *)
(* has a review, and the review shows what the push brings (Shows): every  *)
(* commit the branch gains over the tip that the guest expects is listed   *)
(* or is history of the displayed base, which the repository has; of the   *)
(* listed commits every path one of them changes, also one that a later    *)
(* commit changes back; and no object comes along unseen (prepare_remote). *)
(* The commits that a rebase takes off the branch are not listed.          *)
(* Recording a verified push ("approved review") cannot panic.             *)
(***************************************************************************)
SentWasReviewed ==
  \A id \in DOMAIN jobs :
    jobs[id].status \in {"Pending", "Approved", "Sending", "Denied", "Published", "Unknown"}
      => /\ jobs[id].review # None
         /\ Shows(jobs[id].review, Bundles[jobs[id].bundle], jobs[id].expected, repository)

(***************************************************************************)
(* The lease: a push that ends well leaves the branch at the head that was *)
(* reviewed, and never overwrites a commit that the guest had not seen,    *)
(* although others push while the host reviews (execute_remote).           *)
(***************************************************************************)
NothingOverwritten ==
  [][\A id \in DOMAIN jobs :
       pushed'[id] > pushed[id] => /\ branch' = jobs[id].review.head
                                   /\ branch \in {jobs[id].expected, branch'}]_vars

(***************************************************************************)
(* "Restart cancels preparing/pending/approved jobs" (ASYNC-GRAPHQL.md):   *)
(* the broker starts from every store it wrote itself.                     *)
(***************************************************************************)
AlwaysRestarts == up
=============================================================================
