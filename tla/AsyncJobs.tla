----------------------------- MODULE AsyncJobs -----------------------------
(***************************************************************************)
(* Durable asynchronous GraphQL jobs (src/src/jobs.rs): a guest submits a  *)
(* request and may disconnect, the host decides, and one worker executes   *)
(* approved jobs at most once.                                             *)
(*                                                                         *)
(* The store is one file, async-jobs.json, replaced by every transaction   *)
(* before memory is published.  A crash in between loses only the caller's *)
(* answer (load reads what the transaction wrote), so the file and the     *)
(* memory are one variable here.  A transaction that cannot write changes  *)
(* nothing: the caller of an API operation gets an error (a stuttering     *)
(* step), the worker abandons its tick.                                    *)
(*                                                                         *)
(* The worker works from a snapshot of the jobs it found at the start of   *)
(* the tick.  Each of its awaits and each of its locks is a step of its    *)
(* own, so the guest, the host, the clock and the registry interleave.     *)
(***************************************************************************)
EXTENDS GuestAuthority, FiniteSets

CONSTANTS
  None,
  Credentials,  \* possible values of the GitHub escrow credential
  AllowAll,     \* the broker runs with the GitHub allow-all policy
  ReviewTime,   \* REVIEW_HOURS, in clock ticks
  Retention,    \* UNACKNOWLEDGED_RETENTION_HOURS, in clock ticks
  MaxActive,    \* active jobs in all (32 in the code)
  MaxPerGuest,  \* active jobs per guest (8)
  MaxJobs,      \* retained jobs (100)
  JobSize,      \* bytes of a stored job without its result
  ResultSize,   \* bytes of a stored result
  Reserve,      \* bytes set aside for each active job's result
  MaxStorage,   \* bytes of the store (256 MiB)
  MaxId,        \* bound on submissions
  MaxStamp,     \* bound on policy changes and restarts
  MaxNow        \* bound on the clock

\* Reserve is six times the largest answer and 4096 bytes: a byte of the answer
\* takes at most six as JSON.
ASSUME JobsAssumption ==
  /\ ResultSize <= Reserve
  /\ None \notin Credentials
  /\ IPs # {}
  /\ AllowAll \in BOOLEAN
  /\ {ReviewTime, Retention, MaxActive, MaxPerGuest, MaxJobs, JobSize, ResultSize,
      Reserve, MaxStorage, MaxId, MaxStamp, MaxNow} \subseteq Nat

VARIABLES
  jobs,        \* id -> job, the store
  now,         \* the wall clock
  credential,  \* the one GitHub credential in escrow, or None
  draft,       \* the submission being accepted, or None
  nextId,      \* the next job UUID
  batch,       \* id -> job, what is left of the worker's snapshot
  worker,      \* where the worker is in its loop body
  sends,       \* history: how often each job's request left for GitHub
  revoked      \* history: the jobs whose guest's authority changed while they waited

jobVars == <<jobs, now, credential, draft, nextId, batch, worker, sends, revoked>>
vars == <<identity, stamp, jobVars>>

Ids == 1 .. MaxId
Waiting == {"Pending", "Approved"}
Active == Waiting \cup {"Sending"}
NotSent == {"Denied", "Expired", "Cancelled", "Blocked"}
\* "Answered" stands for ResponseReceived, GraphqlError and UpstreamError: a
\* complete answer, whatever it says.
Outcomes == {"Answered", "Unknown"}
Status == Active \cup NotSent \cup Outcomes

Job ==
  [guest : Names, peer : IPs, instance : Nat, epoch : Nat, binding : Credentials,
   status : Status, updated : Nat, expires : Nat, result : BOOLEAN, acknowledged : BOOLEAN]

\* A submission on its way into the store.
Draft ==
  [persisted : BOOLEAN, guest : Names, peer : IPs, instance : Nat, epoch : Nat,
   binding : Credentials \cup {None}]

IdleWorker == [step |-> "idle"]

\* The worker inside its loop body, with its copy of the job.
BusyWorker ==
  [step : {"revoke", "credential", "block", "admit", "send", "wait"}, id : Ids, job : Job]
    \cup [step : {"record"}, id : Ids, job : Job, status : Outcomes]

Terminal(j) == j.status \notin Active
Expired(j) == j.expires <= now

\* Job::set
Set(j, status) == [j EXCEPT !.status = status, !.updated = now]

ActiveIds(J) == {id \in DOMAIN J : ~Terminal(J[id])}

-----------------------------------------------------------------------------
(* The store *)

\* Mutant of StorageUsage: nothing is set aside for results to come.
StorageUsageNoReserve(J) ==
  Cardinality(DOMAIN J) * JobSize + Cardinality({id \in DOMAIN J : J[id].result}) * ResultSize

StorageUsage(J) ==
  Cardinality(DOMAIN J) * JobSize
    + Cardinality({id \in DOMAIN J : J[id].result}) * ResultSize
    + Cardinality(ActiveIds(J)) * Reserve

\* transaction: the edited store must fit and be written before it is published.
Transaction(J) ==
  /\ StorageUsage(J) <= MaxStorage
  /\ jobs' = J

\* Mutant of AutomaticallyRemovable: an uncertain outcome ages out like any other.
RemovableIfTerminal(j) ==
  /\ Terminal(j)
  /\ j.acknowledged \/ j.updated + Retention <= now

AutomaticallyRemovable(j) ==
  /\ Terminal(j)
  /\ j.status # "Unknown"
  /\ j.acknowledged \/ j.updated + Retention <= now

Without(J, R) == [id \in DOMAIN J \ R |-> J[id]]

Fits(J) == Cardinality(DOMAIN J) <= MaxJobs /\ StorageUsage(J) <= MaxStorage

\* What prune_for_admission may remove: removable jobs, oldest first, one at a
\* time and no more than needed.  Empty when it gives up.
Prunings(J) ==
  LET removable == {id \in DOMAIN J : AutomaticallyRemovable(J[id])}
  IN {R \in SUBSET removable :
        /\ Fits(Without(J, R))
        /\ \A a \in R, b \in removable \ R : J[a].updated <= J[b].updated
        /\ R # {} => \E last \in R : /\ \A a \in R : J[a].updated <= J[last].updated
                                     /\ ~Fits(Without(J, R \ {last}))}

\* load: what a restart makes of the stored jobs.
Recovered(j) ==
  CASE j.status = "Sending"   -> Set(j, "Unknown")
    [] j.status \in Waiting   -> Set(j, "Cancelled")
    [] OTHER                  -> j

-----------------------------------------------------------------------------
(* The guest's operations *)

\* submit: whose job it is.
BeginSubmit(n, peer) ==
  /\ draft = None
  /\ nextId <= MaxId
  /\ peer \in identity[n].peers
  /\ draft' = [persisted |-> FALSE, guest |-> n, peer |-> peer,
               instance |-> identity[n].instance, epoch |-> identity[n].epoch,
               binding |-> None]
  /\ UNCHANGED <<identity, stamp, jobs, now, credential, nextId, batch, worker, sends, revoked>>

\* Mutant of Persisted: the incarnation stays in memory.
PersistedNothing(S) == identity

\* persist_guest_identity: containers.json holds every authorized guest's
\* incarnation before a job owned by it is stored.
Persisted(S) == [n \in Names |-> IF n \in S THEN [identity[n] EXCEPT !.durable = TRUE]
                                 ELSE identity[n]]

\* submit: the incarnation is made durable and the escrow credential looked up.
PersistSubmit ==
  /\ draft # None
  /\ ~draft.persisted
  /\ identity' = Persisted({n \in Names : identity[n].peers # {}})
  /\ credential # None
  /\ draft' = [draft EXCEPT !.persisted = TRUE, !.binding = credential]
  /\ UNCHANGED <<stamp, jobs, now, credential, nextId, batch, worker, sends, revoked>>

\* A read or an allow-all job needs no decision.
NewJob(read) ==
  [guest |-> draft.guest, peer |-> draft.peer, instance |-> draft.instance,
   epoch |-> draft.epoch, binding |-> draft.binding,
   status |-> IF read \/ AllowAll THEN "Approved" ELSE "Pending",
   updated |-> now, expires |-> now + ReviewTime, result |-> FALSE, acknowledged |-> FALSE]

WithJob(J, id, job) == [i \in DOMAIN J \cup {id} |-> IF i = id THEN job ELSE J[i]]

\* submit: the job enters the store and history makes room for it, or nothing
\* changes.
FinishSubmit(read) ==
  LET J == WithJob(jobs, nextId, NewJob(read))
  IN /\ draft # None
     /\ draft.persisted
     /\ now + ReviewTime <= MaxNow
     /\ Cardinality(ActiveIds(jobs)) < MaxActive
     /\ Cardinality({id \in ActiveIds(jobs) : jobs[id].guest = draft.guest}) < MaxPerGuest
     /\ \E R \in Prunings(J) : Transaction(Without(J, R))
     /\ nextId' = nextId + 1
     /\ draft' = None
     /\ revoked' = IF AsyncIdentity(draft.guest, draft.peer, draft.instance, draft.epoch)
                   THEN revoked ELSE revoked \cup {nextId}
     /\ UNCHANGED <<identity, stamp, now, credential, batch, worker, sends>>

\* submit refused: by a limit, by the escrow, or by the disk.
RefuseSubmit ==
  /\ draft # None
  /\ draft' = None
  /\ UNCHANGED <<identity, stamp, jobs, now, credential, nextId, batch, worker, sends, revoked>>

\* Guest n, calling from some authorized address, owns the job.
Owns(n, id) ==
  /\ identity[n].peers # {}
  /\ jobs[id].guest = n
  /\ jobs[id].instance = identity[n].instance

StoreOnly ==
  UNCHANGED <<identity, stamp, now, credential, draft, nextId, batch, worker, sends, revoked>>

\* Mutant of Cancel: a job in execution can be cancelled.
CancelActive(n, id) ==
  /\ Owns(n, id)
  /\ ~Terminal(jobs[id])
  /\ Transaction([jobs EXCEPT ![id] = Set(@, "Cancelled")])
  /\ StoreOnly

Cancel(n, id) ==
  /\ Owns(n, id)
  /\ jobs[id].status \in Waiting
  /\ Transaction([jobs EXCEPT ![id] = Set(@, "Cancelled")])
  /\ StoreOnly

Acknowledge(n, id) ==
  /\ Owns(n, id)
  /\ Terminal(jobs[id])
  /\ jobs[id].status # "Unknown"
  /\ Transaction([jobs EXCEPT ![id].acknowledged = TRUE])
  /\ StoreOnly

Delete(n, id) ==
  /\ Owns(n, id)
  /\ Terminal(jobs[id])
  /\ Transaction(Without(jobs, {id}))
  /\ StoreOnly

\* The host's decision.
Decide(id, approve) ==
  /\ jobs[id].status = "Pending"
  /\ ~Expired(jobs[id])
  /\ Transaction([jobs EXCEPT ![id] = Set(@, IF approve THEN "Approved" ELSE "Denied")])
  /\ StoreOnly

-----------------------------------------------------------------------------
(* The worker: one tick, one job at a time *)

WorkerOnly == UNCHANGED <<identity, stamp, now, credential, draft, nextId, revoked>>

\* tick: a snapshot of the jobs to look at.
TickStart ==
  /\ worker = IdleWorker
  /\ batch = Without(jobs, DOMAIN jobs)
  /\ \E id \in DOMAIN jobs : jobs[id].status \in Waiting
  /\ batch' = Without(jobs, {id \in DOMAIN jobs : jobs[id].status \notin Waiting})
  /\ WorkerOnly
  /\ UNCHANGED <<jobs, worker, sends>>

\* The next job of the snapshot: past its deadline or no longer its guest's,
\* approved and to be executed, or still waiting for the host.
WorkerPick(id) ==
  LET job == batch[id]
      lapsed == Expired(job) \/ ~AsyncIdentity(job.guest, job.peer, job.instance, job.epoch)
  IN /\ worker = IdleWorker
     /\ batch' = Without(batch, {id})
     /\ worker' = CASE lapsed                   -> [step |-> "revoke", id |-> id, job |-> job]
                    [] job.status = "Approved"  -> [step |-> "credential", id |-> id, job |-> job]
                    [] OTHER                    -> IdleWorker
     /\ WorkerOnly
     /\ UNCHANGED <<jobs, sends>>

\* Mutant of WorkerRevoke: only approved jobs are withdrawn.
WorkerRevokeApproved ==
  /\ worker.step = "revoke"
  /\ IF worker.id \in DOMAIN jobs /\ jobs[worker.id].status = "Approved"
     THEN Transaction([jobs EXCEPT ![worker.id] =
                         Set(@, IF Expired(@) THEN "Expired" ELSE "Cancelled")])
     ELSE Transaction(jobs)
  /\ worker' = IdleWorker
  /\ WorkerOnly
  /\ UNCHANGED <<batch, sends>>

WorkerRevoke ==
  /\ worker.step = "revoke"
  /\ IF worker.id \in DOMAIN jobs /\ jobs[worker.id].status \in Waiting
     THEN Transaction([jobs EXCEPT ![worker.id] =
                         Set(@, IF Expired(@) THEN "Expired" ELSE "Cancelled")])
     ELSE Transaction(jobs)
  /\ worker' = IdleWorker
  /\ WorkerOnly
  /\ UNCHANGED <<batch, sends>>

\* The job is bound to the credential it was reviewed with.
WorkerCredential ==
  /\ worker.step = "credential"
  /\ worker' = [worker EXCEPT !.step = IF credential = worker.job.binding THEN "admit" ELSE "block"]
  /\ WorkerOnly
  /\ UNCHANGED <<jobs, batch, sends>>

WorkerBlock ==
  /\ worker.step = "block"
  /\ IF worker.id \in DOMAIN jobs /\ jobs[worker.id].status = "Approved"
     THEN Transaction([jobs EXCEPT ![worker.id] = Set(@, "Blocked")])
     ELSE Transaction(jobs)
  /\ worker' = IdleWorker
  /\ WorkerOnly
  /\ UNCHANGED <<batch, sends>>

\* Mutant of Admissible: the snapshot's identity check is relied on.
AdmissibleUnchecked(id, job) ==
  /\ id \in DOMAIN jobs
  /\ jobs[id].status = "Approved"
  /\ ~Expired(jobs[id])

\* Under the registry's lock, and only if nothing changed since the snapshot.
Admissible(id, job) ==
  /\ AsyncIdentity(job.guest, job.peer, job.instance, job.epoch)
  /\ id \in DOMAIN jobs
  /\ jobs[id].status = "Approved"
  /\ ~Expired(jobs[id])

\* Mutant of WorkerAdmit: Sending is left to the final write.
WorkerAdmitInMemory ==
  /\ worker.step = "admit"
  /\ worker' = IF Admissible(worker.id, worker.job) THEN [worker EXCEPT !.step = "send"]
               ELSE IdleWorker
  /\ WorkerOnly
  /\ UNCHANGED <<jobs, batch, sends>>

\* Sending is durable before the first byte leaves.
WorkerAdmit ==
  /\ worker.step = "admit"
  /\ IF Admissible(worker.id, worker.job)
     THEN /\ Transaction([jobs EXCEPT ![worker.id] = Set(@, "Sending")])
          /\ worker' = [worker EXCEPT !.step = "send"]
     ELSE worker' = IdleWorker /\ UNCHANGED jobs
  /\ WorkerOnly
  /\ UNCHANGED <<batch, sends>>

WorkerSend ==
  /\ worker.step = "send"
  /\ sends' = [sends EXCEPT ![worker.id] = @ + 1]
  /\ worker' = [worker EXCEPT !.step = "wait"]
  /\ WorkerOnly
  /\ UNCHANGED <<jobs, batch>>

\* GitHub answers, or the transport fails or times out.
WorkerReply(status) ==
  /\ worker.step = "wait"
  /\ worker' = [step |-> "record", id |-> worker.id, job |-> worker.job, status |-> status]
  /\ WorkerOnly
  /\ UNCHANGED <<jobs, batch, sends>>

WithOutcome(J, id, status) ==
  [J EXCEPT ![id] = [Set(@, status) EXCEPT !.result = status = "Answered"]]

WorkerRecord ==
  /\ worker.step = "record"
  /\ worker.id \in DOMAIN jobs
  /\ Transaction(WithOutcome(jobs, worker.id, worker.status))
  /\ worker' = IdleWorker
  /\ WorkerOnly
  /\ UNCHANGED <<batch, sends>>

\* A transaction of the worker fails (the disk, the size check, a missing job):
\* the tick ends, and the next one takes a new snapshot.
WorkerFails ==
  /\ worker.step \in {"revoke", "block", "admit", "record"}
  /\ worker' = IdleWorker
  /\ batch' = Without(jobs, DOMAIN jobs)
  /\ WorkerOnly
  /\ UNCHANGED <<jobs, sends>>

-----------------------------------------------------------------------------
(* The environment *)

\* History: the waiting jobs whose guest is no longer the one that submitted them.
RecordRevoked ==
  revoked' = revoked \cup
    {id \in DOMAIN jobs :
       /\ jobs[id].status \in Waiting
       /\ LET i == identity'[jobs[id].guest]
          IN ~(jobs[id].peer \in i.peers /\ jobs[id].instance = i.instance
                 /\ jobs[id].epoch = i.epoch)}

\* The registry commits a change for one guest: update_policy does not touch jobs.
PolicyChange(n) ==
  /\ stamp < MaxStamp
  /\ Change(n)
  /\ RecordRevoked
  /\ UNCHANGED <<jobs, now, credential, draft, nextId, batch, worker, sends>>

ChangeCredential(c) ==
  /\ credential # c
  /\ credential' = c
  /\ UNCHANGED <<identity, stamp, jobs, now, draft, nextId, batch, worker, sends, revoked>>

Tick ==
  /\ now < MaxNow
  /\ now' = now + 1
  /\ UNCHANGED <<identity, stamp, jobs, credential, draft, nextId, batch, worker, sends, revoked>>

\* The broker stops at any moment and starts again: load, and a new registry.
Restart ==
  /\ stamp < MaxStamp
  /\ Reboot
  /\ Transaction([id \in DOMAIN jobs |-> Recovered(jobs[id])])
  /\ draft' = None
  /\ worker' = IdleWorker
  /\ batch' = Without(jobs, DOMAIN jobs)
  /\ RecordRevoked
  /\ UNCHANGED <<now, credential, nextId, sends>>

-----------------------------------------------------------------------------
(* The specification *)

Init ==
  /\ identity \in [Names -> {[instance |-> 0, epoch |-> 0, peers |-> IPs, durable |-> FALSE]}]
  /\ stamp = 1
  /\ jobs = [id \in {} |-> None]
  /\ now = 0
  /\ credential \in Credentials
  /\ draft = None
  /\ nextId = 1
  /\ batch = [id \in {} |-> None]
  /\ worker = IdleWorker
  /\ sends = [id \in Ids |-> 0]
  /\ revoked = {}

GuestStep ==
  \/ \E n \in Names, peer \in IPs : BeginSubmit(n, peer)
  \/ PersistSubmit
  \/ \E read \in BOOLEAN : FinishSubmit(read)
  \/ RefuseSubmit
  \/ \E n \in Names, id \in DOMAIN jobs : Cancel(n, id) \/ Acknowledge(n, id) \/ Delete(n, id)

HostStep ==
  \/ \E id \in DOMAIN jobs, approve \in BOOLEAN : Decide(id, approve)
  \/ \E n \in Names : PolicyChange(n)
  \/ \E c \in Credentials \cup {None} : ChangeCredential(c)

WorkerStep ==
  \/ TickStart
  \/ \E id \in DOMAIN batch : WorkerPick(id)
  \/ WorkerRevoke
  \/ WorkerCredential
  \/ WorkerBlock
  \/ WorkerAdmit
  \/ WorkerSend
  \/ \E status \in Outcomes : WorkerReply(status)
  \/ WorkerRecord

Next == GuestStep \/ HostStep \/ WorkerStep \/ WorkerFails \/ Tick \/ Restart

Spec == Init /\ [][Next]_vars

(***************************************************************************)
(* The worker task never stops and an HTTP request ends within 90 seconds, *)
(* so a worker step that stays possible is taken; the clock advances; and  *)
(* a store that can be written again and again is not refused forever.     *)
(***************************************************************************)
Fairness ==
  /\ WF_vars(WorkerStep)
  /\ WF_vars(Tick)
  /\ SF_vars(WorkerRevoke)
  /\ SF_vars(WorkerBlock)
  /\ SF_vars(WorkerAdmit)

FairSpec == Spec /\ Fairness

-----------------------------------------------------------------------------
(* Properties *)

TypeOK ==
  /\ AuthorityTypeOK
  /\ DOMAIN jobs \subseteq Ids
  /\ \A id \in DOMAIN jobs : jobs[id] \in Job
  /\ now \in Nat
  /\ credential \in Credentials \cup {None}
  /\ draft \in Draft \cup {None}
  /\ nextId \in 1 .. MaxId + 1
  /\ DOMAIN batch \subseteq Ids
  /\ \A id \in DOMAIN batch : batch[id] \in Job
  /\ worker \in BusyWorker \cup {IdleWorker}
  /\ sends \in [Ids -> Nat]
  /\ revoked \subseteq Ids

(***************************************************************************)
(* At most once: no sequence of approvals, failed writes and restarts      *)
(* sends a job's request to GitHub twice.                                  *)
(***************************************************************************)
AtMostOnce == \A id \in Ids : sends[id] <= 1

(***************************************************************************)
(* A job that says "not sent" (Denied, Expired, Cancelled, Blocked) or is  *)
(* still waiting was not sent, whoever raced with whom; and the job of a   *)
(* request in flight is in the store as Sending.                           *)
(***************************************************************************)
HonestStatus ==
  /\ \A id \in DOMAIN jobs : jobs[id].status \in NotSent \cup Waiting => sends[id] = 0
  /\ worker.step \in {"send", "wait", "record"} =>
       worker.id \in DOMAIN jobs /\ jobs[worker.id].status = "Sending"

(***************************************************************************)
(* Work whose guest was removed, killed, moved to another address, or      *)
(* killed and resumed while the job waited is never sent, not even after   *)
(* the same authority is given back (with_async_identity).                 *)
(***************************************************************************)
RevokedNeverSent == \A id \in revoked : sends[id] = 0

(***************************************************************************)
(* "Storage pressure must not prevent result recording" (transaction):     *)
(* whatever entered the store while GitHub was answering, the answer fits. *)
(***************************************************************************)
RecordFits ==
  worker.step = "record" /\ worker.id \in DOMAIN jobs =>
    StorageUsage(WithOutcome(jobs, worker.id, worker.status)) <= MaxStorage

(***************************************************************************)
(* A job leaves the store only when its owner deletes it, or, to make room *)
(* for a new one, when its outcome is known and was acknowledged or has    *)
(* been there for the retention time.  Active work and uncertain outcomes  *)
(* are never dropped, by a restart either.                                 *)
(***************************************************************************)
NothingLost ==
  [][\A id \in DOMAIN jobs \ DOMAIN jobs' :
       \/ \E n \in Names : Delete(n, id)
       \/ /\ nextId' # nextId
          /\ jobs[id].status \in NotSent \cup {"Answered"}
          /\ jobs[id].acknowledged \/ now - jobs[id].updated >= Retention]_vars

(***************************************************************************)
(* A guest that can read its job's result before a restart can read it     *)
(* afterwards: the incarnation that owns a stored job survives.            *)
(***************************************************************************)
OwnerSurvivesRestart ==
  [][Restart => \A n \in Names, id \in DOMAIN jobs : Owns(n, id) => Owns(n, id)']_vars

(***************************************************************************)
(* No job waits forever: it is decided and executed, or it expires, is     *)
(* cancelled or is blocked, even if writes fail now and then.              *)
(***************************************************************************)
WaitingEnds ==
  \A id \in Ids :
    (id \in DOMAIN jobs /\ jobs[id].status \in Waiting)
      ~> ~(id \in DOMAIN jobs /\ jobs[id].status \in Waiting)
=============================================================================
