-------------------------- MODULE AsyncJobs_proofs --------------------------
(***************************************************************************)
(* Proofs about AsyncJobs, for any number of guests, addresses, jobs and   *)
(* credentials, any limits and any number of restarts.                     *)
(*                                                                         *)
(* At-most-once needs three facts about the past that no single variable   *)
(* holds: ids are never reused, a request in flight is in the store as     *)
(* Sending, and what waits or says "not sent" was not sent.  That revoked  *)
(* work is never sent needs the meaning of epochs (a new one differs from  *)
(* every old one) and that the worker's copies name the guest of the job.  *)
(***************************************************************************)
EXTENDS AsyncJobs, FiniteSetTheorems, TLAPS

\* Two versions of a job belong to the same guest, address and authority.
Same(j, k) ==
  /\ j.guest = k.guest /\ j.peer = k.peer
  /\ j.instance = k.instance /\ j.epoch = k.epoch

Current(j) == AsyncIdentity(j.guest, j.peer, j.instance, j.epoch)

Busy == worker.step # "idle"

\* Ids not handed out yet leave no trace.
Numbered ==
  /\ \A id \in DOMAIN jobs \cup DOMAIN batch \cup revoked : id < nextId
  /\ \A id \in Ids : sends[id] # 0 => id < nextId
  /\ Busy => worker.id < nextId
  /\ draft # None => nextId \in Ids

DraftBound == draft # None /\ draft.persisted => draft.binding \in Credentials

FirstSend == worker.step = "send" => sends[worker.id] = 0

EpochsPast ==
  /\ \A n \in Names : identity[n].epoch < stamp
  /\ \A id \in DOMAIN jobs : jobs[id].epoch < stamp
  /\ draft # None => draft.epoch < stamp

\* The worker's copies and the store agree on whose job it is.
CopiesAgree ==
  /\ \A id \in DOMAIN batch \cap DOMAIN jobs : Same(batch[id], jobs[id])
  /\ Busy /\ worker.id \in DOMAIN jobs => Same(worker.job, jobs[worker.id])

\* A revoked job was not sent, and cannot become current again.
RevokedStuck ==
  \A id \in revoked :
    /\ sends[id] = 0
    /\ id \in DOMAIN jobs => /\ jobs[id].status \in NotSent \cup Waiting
                             /\ jobs[id].status \in Waiting => ~Current(jobs[id])

Inv ==
  /\ TypeOK
  /\ Numbered
  /\ DraftBound
  /\ AtMostOnce
  /\ HonestStatus
  /\ FirstSend
  /\ EpochsPast
  /\ CopiesAgree
  /\ RevokedStuck

\* An edit of the store that starts and ends no execution: waiting jobs may move
\* among the states that were not sent, finished ones may go.
Edit(J) ==
  /\ DOMAIN J \subseteq DOMAIN jobs
  /\ \A id \in DOMAIN J :
       /\ J[id] \in Job
       /\ Same(J[id], jobs[id])
       /\ \/ J[id].status = jobs[id].status
          \/ jobs[id].status \in Waiting /\ J[id].status \in NotSent \cup Waiting
  /\ \A id \in DOMAIN jobs : jobs[id].status = "Sending" => id \in DOMAIN J

\* An edit, after which the worker goes on or is idle with its batch or without.
LEMMA EditInv ==
  ASSUME Inv, Edit(jobs'),
         UNCHANGED <<identity, stamp, now, credential, draft, nextId, sends, revoked>>,
         \/ UNCHANGED <<worker, batch>>
         \/ worker' = IdleWorker /\ (batch' = batch \/ batch' = Without(jobs, DOMAIN jobs))
  PROVE  Inv'
<1> USE JobsAssumption
<1>1. /\ \A id \in DOMAIN batch' : id \in DOMAIN batch /\ batch'[id] = batch[id]
      /\ worker' = worker \/ worker' = IdleWorker
  BY DEF Without
<1>2. TypeOK'
  BY <1>1 DEF Inv, TypeOK, Edit, AuthorityTypeOK
<1>3. Numbered'
  BY <1>1 DEF Inv, TypeOK, Edit, Numbered, Busy, IdleWorker
<1>4. AtMostOnce' /\ FirstSend' /\ DraftBound'
  BY <1>1 DEF Inv, AtMostOnce, FirstSend, IdleWorker, DraftBound
<1>5. HonestStatus'
  <2>1. ASSUME NEW id \in DOMAIN jobs', jobs'[id].status \in NotSent \cup Waiting
        PROVE  sends'[id] = 0
    BY <2>1 DEF Inv, Edit, HonestStatus
  <2>2. ASSUME worker'.step \in {"send", "wait", "record"}
        PROVE  worker'.id \in DOMAIN jobs' /\ jobs'[worker'.id].status = "Sending"
    BY <1>1, <2>2 DEF Inv, Edit, HonestStatus, IdleWorker, Waiting
  <2> QED  BY <2>1, <2>2 DEF HonestStatus
<1>6. EpochsPast'
  BY DEF Inv, Edit, EpochsPast, Same
<1>7. CopiesAgree'
  BY <1>1 DEF Inv, Edit, CopiesAgree, Same, Busy, IdleWorker
<1>8. RevokedStuck'
  BY DEF Inv, Edit, RevokedStuck, Same, Current, AsyncIdentity, NotSent, Waiting
<1> QED  BY <1>2, <1>3, <1>4, <1>5, <1>6, <1>7, <1>8 DEF Inv

\* One waiting job moves to a state that was not sent.
LEMMA SetEdit ==
  ASSUME Inv, NEW id \in DOMAIN jobs, jobs[id].status \in Waiting,
         NEW s \in NotSent \cup Waiting
  PROVE  Edit([jobs EXCEPT ![id] = Set(@, s)])
<1> DEFINE J == [jobs EXCEPT ![id] = Set(@, s)]
<1>1. now \in Nat /\ \A i \in DOMAIN jobs : jobs[i] \in Job
  BY DEF Inv, TypeOK
<1>2. s \in Status
  BY DEF NotSent, Waiting, Status, Active
<1>3. Set(jobs[id], s) \in Job /\ Same(Set(jobs[id], s), jobs[id]) /\ Set(jobs[id], s).status = s
  BY <1>1, <1>2 DEF Set, Job, Same
<1>4. DOMAIN J = DOMAIN jobs /\ \A i \in DOMAIN jobs : J[i] = IF i = id THEN Set(jobs[id], s) ELSE jobs[i]
  OBVIOUS
<1> QED  BY <1>1, <1>3, <1>4 DEF Edit, Same

\* The store as it is, is an edit.
LEMMA SameEdit == ASSUME Inv PROVE Edit(jobs)
  BY DEF Inv, TypeOK, Edit, Same

-----------------------------------------------------------------------------
(* The guest's and the host's operations on stored jobs *)

\* Cancelling reaches a waiting job only.
LEMMA CancelInv ==
  ASSUME Inv, NEW n \in Names, NEW id \in DOMAIN jobs, Cancel(n, id) PROVE Inv'
<1>1. Edit(jobs')
  BY SetEdit DEF Cancel, Transaction, NotSent
<1> QED  BY <1>1, EditInv DEF Cancel, StoreOnly

\* A decision moves a pending job.
LEMMA DecideInv ==
  ASSUME Inv, NEW id \in DOMAIN jobs, NEW approve \in BOOLEAN, Decide(id, approve) PROVE Inv'
<1>1. Edit(jobs')
  BY SetEdit DEF Decide, Transaction, NotSent, Waiting
<1> QED  BY <1>1, EditInv DEF Decide, StoreOnly

\* An acknowledgement changes no status.
LEMMA AcknowledgeInv ==
  ASSUME Inv, NEW n \in Names, NEW id \in DOMAIN jobs, Acknowledge(n, id) PROVE Inv'
<1>1. \A i \in DOMAIN jobs : jobs[i] \in Job
  BY DEF Inv, TypeOK
<1>2. /\ DOMAIN jobs' = DOMAIN jobs
      /\ \A i \in DOMAIN jobs :
           jobs'[i] = IF i = id THEN [jobs[id] EXCEPT !.acknowledged = TRUE] ELSE jobs[i]
  BY DEF Acknowledge, Transaction
<1> DEFINE k == [jobs[id] EXCEPT !.acknowledged = TRUE]
<1>3. k \in Job /\ Same(k, jobs[id]) /\ k.status = jobs[id].status
  BY <1>1 DEF Same, Job
<1> HIDE DEF k
<1>4. \A i \in DOMAIN jobs : jobs'[i] = IF i = id THEN k ELSE jobs[i]
  BY <1>2 DEF k
<1>5. Edit(jobs')
  BY <1>1, <1>2, <1>3, <1>4 DEF Edit, Same
<1> QED  BY <1>5, EditInv DEF Acknowledge, StoreOnly

\* Only a finished job is deleted.
LEMMA DeleteInv ==
  ASSUME Inv, NEW n \in Names, NEW id \in DOMAIN jobs, Delete(n, id) PROVE Inv'
<1>1. Edit(jobs')
  BY DEF Inv, TypeOK, Delete, Transaction, Without, Terminal, Active, Edit, Same
<1> QED  BY <1>1, EditInv DEF Delete, StoreOnly

-----------------------------------------------------------------------------
(* Submission *)

\* A submission takes down its guest's current identity.
LEMMA BeginSubmitInv ==
  ASSUME Inv, NEW n \in Names, NEW peer \in IPs, BeginSubmit(n, peer) PROVE Inv'
<1> USE JobsAssumption
<1>1. draft' \in Draft /\ ~draft'.persisted /\ draft'.epoch = identity[n].epoch
  BY DEF Inv, TypeOK, BeginSubmit, Draft, AuthorityTypeOK, Identity
<1>2. TypeOK' /\ DraftBound'
  BY <1>1 DEF Inv, TypeOK, BeginSubmit, AuthorityTypeOK, DraftBound
<1>3. EpochsPast'
  BY <1>1 DEF Inv, BeginSubmit, EpochsPast
<1>4. Numbered'
  BY DEF Inv, TypeOK, BeginSubmit, Numbered, Busy, Ids
<1> QED
  BY <1>2, <1>3, <1>4 DEF Inv, BeginSubmit, AtMostOnce, HonestStatus, FirstSend, CopiesAgree,
     RevokedStuck, Busy, Current, AsyncIdentity

\* Making incarnations durable changes no guest's identity.
LEMMA PersistSubmitInv == ASSUME Inv, PersistSubmit PROVE Inv'
<1>1. \A n \in Names : /\ identity'[n] \in Identity
                       /\ identity'[n].instance = identity[n].instance
                       /\ identity'[n].epoch = identity[n].epoch
                       /\ identity'[n].peers = identity[n].peers
  BY DEF Inv, TypeOK, AuthorityTypeOK, PersistSubmit, Persisted, Identity
<1>2. draft \in Draft /\ draft' \in Draft /\ draft'.epoch = draft.epoch /\ DraftBound'
  BY DEF Inv, TypeOK, PersistSubmit, Draft, DraftBound
<1>3. TypeOK'
  BY <1>1, <1>2 DEF Inv, TypeOK, AuthorityTypeOK, PersistSubmit, Persisted
<1>4. EpochsPast'
  BY <1>1, <1>2 DEF Inv, EpochsPast, PersistSubmit
<1>5. RevokedStuck'
  <2>1. \A id \in DOMAIN jobs : jobs[id].guest \in Names
    BY DEF Inv, TypeOK, Job
  <2> QED  BY <1>1, <2>1 DEF Inv, RevokedStuck, Current, AsyncIdentity, PersistSubmit
<1>6. Numbered'
  BY DEF Inv, Numbered, PersistSubmit, Busy
<1> QED
  BY <1>2, <1>3, <1>4, <1>5, <1>6 DEF Inv, PersistSubmit, AtMostOnce, HonestStatus, FirstSend,
     CopiesAgree, Busy

\* The new job has an id of its own, and history makes room without touching
\* active work.
LEMMA FinishSubmitInv ==
  ASSUME Inv, NEW read \in BOOLEAN, FinishSubmit(read) PROVE Inv'
<1> USE JobsAssumption
<1> DEFINE job == NewJob(read)
           J == WithJob(jobs, nextId, job)
<1>1. PICK R \in Prunings(J) : jobs' = Without(J, R)
  BY DEF FinishSubmit, Transaction
<1>2. /\ draft \in Draft /\ draft # None /\ draft.persisted
      /\ nextId' = nextId + 1 /\ draft' = None
      /\ UNCHANGED <<identity, stamp, now, credential, batch, worker, sends>>
  BY DEF Inv, TypeOK, FinishSubmit
<1>3. revoked' = IF AsyncIdentity(draft.guest, draft.peer, draft.instance, draft.epoch)
                 THEN revoked ELSE revoked \cup {nextId}
  BY DEF FinishSubmit
<1>4. nextId \in Ids /\ nextId \in Nat /\ nextId \notin DOMAIN jobs /\ nextId \notin DOMAIN batch
      /\ nextId \notin revoked /\ sends[nextId] = 0 /\ (Busy => worker.id # nextId)
  BY <1>2 DEF Inv, TypeOK, Numbered, Ids
<1>5. job \in Job /\ job.status \in Waiting /\ job.epoch = draft.epoch
      /\ (Current(job) <=> AsyncIdentity(draft.guest, draft.peer, draft.instance, draft.epoch))
  <2>1. draft.binding \in Credentials
    BY <1>2 DEF Inv, DraftBound
  <2>2. now \in Nat
    BY DEF Inv, TypeOK
  <2> QED  BY <1>2, <2>1, <2>2 DEF NewJob, Job, Draft, Status, Active, Waiting, Current
<1>6. /\ DOMAIN jobs' = (DOMAIN jobs \cup {nextId}) \ R
      /\ \A id \in DOMAIN jobs' : jobs'[id] = IF id = nextId THEN job ELSE jobs[id]
  BY <1>1 DEF Without, WithJob
<1>7. /\ nextId \in DOMAIN jobs'
      /\ \A id \in DOMAIN jobs : jobs[id].status \in Active => id \in DOMAIN jobs'
  <2>1. \A id \in R : id \in DOMAIN J /\ J[id].status \notin Active
    BY DEF Prunings, AutomaticallyRemovable, Terminal
  <2>2. DOMAIN J = DOMAIN jobs \cup {nextId}
        /\ \A id \in DOMAIN J : J[id] = IF id = nextId THEN job ELSE jobs[id]
    BY DEF WithJob
  <2>3. J[nextId].status \in Active
    BY <1>5, <2>2 DEF Active
  <2> HIDE DEF J, job
  <2> QED  BY <1>4, <1>6, <2>1, <2>2, <2>3
<1> HIDE DEF J, job
<1>8. TypeOK'
  <2>1. nextId' \in 1 .. MaxId + 1
    BY <1>2, <1>4 DEF Ids
  <2>2. revoked' \subseteq Ids
    BY <1>3, <1>4 DEF Inv, TypeOK
  <2> QED  BY <1>2, <1>4, <1>5, <1>6, <2>1, <2>2 DEF Inv, TypeOK, AuthorityTypeOK
<1>9. Numbered' /\ DraftBound'
  <2>1. \A id \in Ids : id < nextId => id < nextId'
    BY <1>2, <1>4 DEF Ids
  <2>2. DOMAIN jobs \cup DOMAIN batch \cup revoked \subseteq Ids
    BY DEF Inv, TypeOK
  <2>3. nextId < nextId'
    BY <1>2, <1>4
  <2>4. \A id \in DOMAIN jobs' \cup DOMAIN batch' \cup revoked' : id < nextId'
    BY <1>2, <1>3, <1>6, <2>1, <2>2, <2>3 DEF Inv, Numbered
  <2>5. Busy => worker.id \in Ids
    BY DEF Inv, TypeOK, BusyWorker, Busy, IdleWorker
  <2> QED  BY <1>2, <2>1, <2>4, <2>5 DEF Inv, Numbered, Busy, DraftBound
<1>10. HonestStatus'
  <2>1. ASSUME NEW id \in DOMAIN jobs', jobs'[id].status \in NotSent \cup Waiting
        PROVE  sends'[id] = 0
    BY <1>2, <1>4, <1>6, <2>1 DEF Inv, HonestStatus
  <2>2. ASSUME worker'.step \in {"send", "wait", "record"}
        PROVE  worker'.id \in DOMAIN jobs' /\ jobs'[worker'.id].status = "Sending"
    BY <1>2, <1>4, <1>6, <1>7, <2>2 DEF Inv, HonestStatus, Active, Busy
  <2> QED  BY <2>1, <2>2 DEF HonestStatus
<1>11. EpochsPast'
  BY <1>2, <1>5, <1>6 DEF Inv, EpochsPast
<1>12. CopiesAgree'
  BY <1>2, <1>4, <1>6 DEF Inv, CopiesAgree, Busy
<1>13. RevokedStuck'
  <2>1. ASSUME NEW id \in revoked'
        PROVE  /\ sends'[id] = 0
               /\ id \in DOMAIN jobs' => /\ jobs'[id].status \in NotSent \cup Waiting
                                         /\ jobs'[id].status \in Waiting => ~Current(jobs'[id])
    <3>1. CASE id = nextId
      BY <1>2, <1>3, <1>4, <1>5, <1>6, <3>1 DEF Current, AsyncIdentity
    <3>2. CASE id # nextId
      BY <1>2, <1>3, <1>6, <3>2 DEF Inv, RevokedStuck, Current, AsyncIdentity
    <3> QED  BY <3>1, <3>2
  <2> QED  BY <1>2, <2>1 DEF RevokedStuck, Current, AsyncIdentity
<1> QED
  BY <1>2, <1>8, <1>9, <1>10, <1>11, <1>12, <1>13 DEF Inv, AtMostOnce, FirstSend

\* A refused submission is forgotten.
LEMMA RefuseSubmitInv == ASSUME Inv, RefuseSubmit PROVE Inv'
  BY DEF Inv, RefuseSubmit, TypeOK, AuthorityTypeOK, Numbered, DraftBound, AtMostOnce, HonestStatus,
     FirstSend, EpochsPast, CopiesAgree, RevokedStuck, Busy, Current, AsyncIdentity

-----------------------------------------------------------------------------
(* The worker *)

\* The worker's snapshot is a copy of stored jobs.
LEMMA TickStartInv == ASSUME Inv, TickStart PROVE Inv'
<1>1. /\ DOMAIN batch' \subseteq DOMAIN jobs
      /\ \A id \in DOMAIN batch' : batch'[id] = jobs[id]
  BY DEF TickStart, Without
<1>2. UNCHANGED <<identity, stamp, now, credential, draft, nextId, jobs, worker, sends, revoked>>
  BY DEF TickStart, WorkerOnly
<1>3. TypeOK'
  BY <1>1, <1>2 DEF Inv, TypeOK, AuthorityTypeOK
<1>4. Numbered' /\ CopiesAgree'
  BY <1>1, <1>2 DEF Inv, Numbered, CopiesAgree, Same, Busy
<1> QED
  BY <1>2, <1>3, <1>4 DEF Inv, DraftBound, AtMostOnce, HonestStatus, FirstSend, EpochsPast,
     RevokedStuck, Current, AsyncIdentity

\* The worker takes one job of its snapshot, or passes over it.
LEMMA WorkerPickInv ==
  ASSUME Inv, NEW id \in DOMAIN batch, WorkerPick(id) PROVE Inv'
<1>1. /\ DOMAIN batch' \subseteq DOMAIN batch
      /\ \A i \in DOMAIN batch' : batch'[i] = batch[i]
  BY DEF WorkerPick, Without
<1>2. UNCHANGED <<identity, stamp, now, credential, draft, nextId, jobs, sends, revoked>>
  BY DEF WorkerPick, WorkerOnly
<1>3. \/ worker' = IdleWorker
      \/ worker' = [step |-> "revoke", id |-> id, job |-> batch[id]]
      \/ worker' = [step |-> "credential", id |-> id, job |-> batch[id]]
  BY DEF WorkerPick
<1>4. id \in Ids /\ batch[id] \in Job
  BY DEF Inv, TypeOK
<1>5. worker' \in BusyWorker \cup {IdleWorker}
      /\ worker'.step \in {"idle", "revoke", "credential"}
      /\ (Busy' => worker'.id = id /\ worker'.job = batch[id])
  BY <1>3, <1>4 DEF IdleWorker, BusyWorker, Busy
<1>6. TypeOK'
  BY <1>1, <1>2, <1>5 DEF Inv, TypeOK, AuthorityTypeOK
<1>7. Numbered'
  <2>1. Busy' => worker'.id < nextId
    BY <1>5 DEF Inv, Numbered
  <2> QED  BY <1>1, <1>2, <2>1 DEF Inv, Numbered
<1>8. CopiesAgree'
  BY <1>1, <1>2, <1>5 DEF Inv, CopiesAgree
<1>9. HonestStatus' /\ FirstSend'
  BY <1>2, <1>5 DEF Inv, HonestStatus, FirstSend
<1> QED
  BY <1>2, <1>6, <1>7, <1>8, <1>9 DEF Inv, DraftBound, AtMostOnce, EpochsPast, RevokedStuck,
     Current, AsyncIdentity

\* A lapsed job is withdrawn unless it moved on.
LEMMA WorkerRevokeInv == ASSUME Inv, WorkerRevoke PROVE Inv'
<1>1. Edit(jobs')
  BY SetEdit, SameEdit DEF WorkerRevoke, Transaction, NotSent
<1> QED  BY <1>1, EditInv DEF WorkerRevoke, WorkerOnly

\* So is one whose credential changed.
LEMMA WorkerBlockInv == ASSUME Inv, WorkerBlock PROVE Inv'
<1>1. Edit(jobs')
  BY SetEdit, SameEdit DEF WorkerBlock, Transaction, NotSent, Waiting
<1> QED  BY <1>1, EditInv DEF WorkerBlock, WorkerOnly

\* A failed write leaves the store as it was.
LEMMA WorkerFailsInv == ASSUME Inv, WorkerFails PROVE Inv'
<1>1. Edit(jobs')
  BY SameEdit DEF WorkerFails
<1> QED  BY <1>1, EditInv DEF WorkerFails, WorkerOnly

\* What a busy worker carries along.
LEMMA BusyType ==
  ASSUME Inv, Busy
  PROVE  worker \in BusyWorker /\ worker.id \in Ids /\ worker.job \in Job
  BY DEF Inv, TypeOK, BusyWorker, IdleWorker, Busy

\* A worker that moves on within its job, and does not start to send.
LEMMA WorkerMoves ==
  ASSUME Inv, worker' \in BusyWorker, Busy, worker'.id = worker.id, worker'.job = worker.job,
         worker'.step # "send",
         worker'.step \in {"wait", "record"} => worker.step \in {"send", "wait", "record"},
         UNCHANGED <<identity, stamp, now, credential, draft, nextId, jobs, batch, revoked, sends>>
  PROVE  Inv'
<1>1. TypeOK'
  BY DEF Inv, TypeOK, AuthorityTypeOK
<1>2. Numbered' /\ CopiesAgree'
  BY DEF Inv, Numbered, CopiesAgree, Busy
<1>3. HonestStatus' /\ FirstSend'
  BY DEF Inv, HonestStatus, FirstSend
<1> QED
  BY <1>1, <1>2, <1>3 DEF Inv, DraftBound, AtMostOnce, EpochsPast, RevokedStuck, Current,
     AsyncIdentity

\* The credential decides whether the job goes on.
LEMMA WorkerCredentialInv == ASSUME Inv, WorkerCredential PROVE Inv'
<1>1. Busy
  BY DEF WorkerCredential, Busy
<1>2. worker' \in BusyWorker /\ worker'.id = worker.id /\ worker'.job = worker.job
      /\ worker'.step \in {"admit", "block"}
  BY <1>1, BusyType DEF WorkerCredential, BusyWorker
<1> QED  BY <1>1, <1>2, WorkerMoves DEF WorkerCredential, WorkerOnly

\* An answer or a lost one is taken down.
LEMMA WorkerReplyInv ==
  ASSUME Inv, NEW status \in Outcomes, WorkerReply(status) PROVE Inv'
<1>1. Busy
  BY DEF WorkerReply, Busy
<1>2. worker' \in BusyWorker /\ worker'.id = worker.id /\ worker'.job = worker.job
      /\ worker'.step = "record"
  BY <1>1, BusyType DEF WorkerReply, BusyWorker
<1> QED  BY <1>1, <1>2, WorkerMoves DEF WorkerReply, WorkerOnly

\* Setting a status keeps a job well formed and its owner's.
LEMMA SetType ==
  ASSUME NEW j \in Job, NEW s \in Status, now \in Nat
  PROVE  Set(j, s) \in Job /\ Same(Set(j, s), j) /\ Set(j, s).status = s
  BY DEF Set, Job, Same

\* Admission: Sending is stored, only for a current job that was never sent.
LEMMA WorkerAdmitInv == ASSUME Inv, WorkerAdmit PROVE Inv'
<1>1. CASE ~Admissible(worker.id, worker.job)
  <2>1. Edit(jobs')
    BY <1>1, SameEdit DEF WorkerAdmit
  <2> QED  BY <1>1, <2>1, EditInv DEF WorkerAdmit, WorkerOnly
<1>2. CASE Admissible(worker.id, worker.job)
  <2> DEFINE id == worker.id
             k == Set(jobs[id], "Sending")
  <2>1. Busy
    BY DEF WorkerAdmit, Busy
  <2>2. worker' \in BusyWorker /\ worker'.id = id /\ worker'.job = worker.job /\ worker'.step = "send"
    BY <1>2, <2>1, BusyType DEF WorkerAdmit, BusyWorker
  <2>3. UNCHANGED <<identity, stamp, now, credential, draft, nextId, batch, sends, revoked>>
    BY DEF WorkerAdmit, WorkerOnly
  <2>4. id \in DOMAIN jobs /\ jobs[id] \in Job /\ jobs[id].status = "Approved"
    BY <1>2 DEF Admissible, Inv, TypeOK
  <2>5. k \in Job /\ Same(k, jobs[id]) /\ k.status = "Sending"
    BY <2>4, SetType DEF Inv, TypeOK, Status, Active
  <2>6. DOMAIN jobs' = DOMAIN jobs
        /\ \A i \in DOMAIN jobs : jobs'[i] = IF i = id THEN k ELSE jobs[i]
    BY <1>2, <2>4 DEF WorkerAdmit, Transaction
  <2>7. sends[id] = 0
    BY <2>4 DEF Inv, HonestStatus, Waiting
  <2>8. Same(worker.job, jobs[id])
    BY <2>1, <2>4 DEF Inv, CopiesAgree
  <2>9. id \notin revoked
    <3>1. Current(jobs[id])
      BY <1>2, <2>8 DEF Admissible, Current, Same, AsyncIdentity
    <3> QED  BY <2>4, <3>1 DEF Inv, RevokedStuck, Waiting
  <2> HIDE DEF k
  <2>10. TypeOK'
    BY <2>2, <2>3, <2>5, <2>6 DEF Inv, TypeOK, AuthorityTypeOK
  <2>11. Numbered' /\ DraftBound'
    BY <2>1, <2>2, <2>3, <2>6 DEF Inv, Numbered, DraftBound, Busy
  <2>12. HonestStatus' /\ FirstSend'
    BY <2>2, <2>3, <2>4, <2>5, <2>6, <2>7 DEF Inv, HonestStatus, FirstSend, NotSent, Waiting
  <2>13. EpochsPast'
    BY <2>3, <2>5, <2>6 DEF Inv, EpochsPast, Same
  <2>14. CopiesAgree'
    BY <2>1, <2>2, <2>3, <2>5, <2>6, <2>8 DEF Inv, CopiesAgree, Same, Busy
  <2>15. RevokedStuck'
    BY <2>3, <2>6, <2>9 DEF Inv, RevokedStuck, Current, AsyncIdentity
  <2> QED
    BY <2>3, <2>10, <2>11, <2>12, <2>13, <2>14, <2>15 DEF Inv, AtMostOnce
<1> QED  BY <1>1, <1>2

\* The one step that sends finds that the job was not sent before.
LEMMA WorkerSendInv == ASSUME Inv, WorkerSend PROVE Inv'
<1> DEFINE id == worker.id
<1>1. Busy
  BY DEF WorkerSend, Busy
<1>2. worker' \in BusyWorker /\ worker'.id = id /\ worker'.job = worker.job /\ worker'.step = "wait"
  BY <1>1, BusyType DEF WorkerSend, BusyWorker
<1>3. UNCHANGED <<identity, stamp, now, credential, draft, nextId, jobs, batch, revoked>>
  BY DEF WorkerSend, WorkerOnly
<1>4. id \in Ids /\ id < nextId /\ sends[id] = 0
  BY <1>1, BusyType DEF Inv, Numbered, FirstSend, WorkerSend
<1>5. sends' = [sends EXCEPT ![id] = 1] /\ sends \in [Ids -> Nat]
  BY <1>4 DEF WorkerSend, Inv, TypeOK
<1>6. id \in DOMAIN jobs /\ jobs[id].status = "Sending"
  BY DEF Inv, HonestStatus, WorkerSend
<1>7. TypeOK' /\ AtMostOnce'
  <2>1. sends' \in [Ids -> Nat] /\ \A i \in Ids : sends'[i] = IF i = id THEN 1 ELSE sends[i]
    BY <1>5
  <2> QED  BY <1>2, <1>3, <2>1 DEF Inv, TypeOK, AuthorityTypeOK, AtMostOnce
<1>8. Numbered' /\ DraftBound'
  BY <1>1, <1>2, <1>3, <1>4, <1>5 DEF Inv, Numbered, DraftBound, Busy
<1>9. HonestStatus' /\ FirstSend'
  <2>1. \A i \in DOMAIN jobs : jobs[i].status \in NotSent \cup Waiting => i # id
    BY <1>6 DEF NotSent, Waiting
  <2>2. DOMAIN jobs \subseteq Ids
    BY DEF Inv, TypeOK
  <2> QED  BY <1>2, <1>3, <1>5, <1>6, <2>1, <2>2 DEF Inv, HonestStatus, FirstSend
<1>10. EpochsPast' /\ CopiesAgree'
  BY <1>1, <1>2, <1>3 DEF Inv, EpochsPast, CopiesAgree, Busy
<1>11. RevokedStuck'
  <2>1. id \notin revoked
    BY <1>6 DEF Inv, RevokedStuck, NotSent, Waiting
  <2>2. revoked \subseteq Ids
    BY DEF Inv, TypeOK
  <2> QED  BY <1>3, <1>5, <2>1, <2>2 DEF Inv, RevokedStuck, Current, AsyncIdentity
<1> QED  BY <1>7, <1>8, <1>9, <1>10, <1>11 DEF Inv

\* The outcome replaces Sending.
LEMMA WorkerRecordInv == ASSUME Inv, WorkerRecord PROVE Inv'
<1> DEFINE id == worker.id
           k == [Set(jobs[id], worker.status) EXCEPT !.result = worker.status = "Answered"]
<1>1. id \in DOMAIN jobs /\ jobs[id] \in Job /\ jobs[id].status = "Sending"
      /\ worker.status \in Outcomes
  BY DEF WorkerRecord, Inv, TypeOK, HonestStatus, BusyWorker, IdleWorker
<1>2. k \in Job /\ Same(k, jobs[id]) /\ k.status \in Outcomes
  <2>1. Set(jobs[id], worker.status) \in Job /\ Same(Set(jobs[id], worker.status), jobs[id])
        /\ Set(jobs[id], worker.status).status = worker.status
    BY <1>1, SetType DEF Inv, TypeOK, Status
  <2> HIDE DEF id
  <2> QED  BY <1>1, <2>1 DEF Job, Same
<1>3. DOMAIN jobs' = DOMAIN jobs
      /\ \A i \in DOMAIN jobs : jobs'[i] = IF i = id THEN k ELSE jobs[i]
  BY <1>1 DEF WorkerRecord, Transaction, WithOutcome
<1>4. worker' = IdleWorker
      /\ UNCHANGED <<identity, stamp, now, credential, draft, nextId, batch, sends, revoked>>
  BY DEF WorkerRecord, WorkerOnly
<1>5. id \notin revoked
  BY <1>1 DEF Inv, RevokedStuck, NotSent, Waiting
<1> HIDE DEF k
<1>6. TypeOK'
  BY <1>2, <1>3, <1>4 DEF Inv, TypeOK, AuthorityTypeOK
<1>7. Numbered' /\ DraftBound' /\ FirstSend' /\ AtMostOnce'
  BY <1>3, <1>4 DEF Inv, Numbered, DraftBound, FirstSend, AtMostOnce, Busy, IdleWorker
<1>8. HonestStatus'
  BY <1>2, <1>3, <1>4 DEF Inv, HonestStatus, IdleWorker, Outcomes, NotSent, Waiting
<1>9. EpochsPast' /\ CopiesAgree'
  BY <1>2, <1>3, <1>4 DEF Inv, EpochsPast, CopiesAgree, Same, Busy, IdleWorker
<1>10. RevokedStuck'
  BY <1>3, <1>4, <1>5 DEF Inv, RevokedStuck, Current, AsyncIdentity
<1> QED  BY <1>6, <1>7, <1>8, <1>9, <1>10 DEF Inv

-----------------------------------------------------------------------------
(* The environment *)

\* Every successor of an identity is an identity with an older or the new epoch.
LEMMA RenewedType ==
  ASSUME NEW i \in Identity, stamp \in Nat, i.epoch < stamp,
         NEW k \in Renewed(i) \cup {Absent} \cup Rebooted(i)
  PROVE  /\ k \in Identity
         /\ k.epoch < stamp + 1
         /\ k.peers # {} => k.epoch = stamp
<1>1. Absent \in Identity /\ Absent.epoch < stamp + 1 /\ Absent.peers = {}
  BY DEF Absent, Identity
<1>2. CASE k \in Renewed(i)
  <2>1. k \in [instance : Nat, epoch : {stamp}, peers : SUBSET IPs, durable : BOOLEAN]
    BY <1>2 DEF Renewed, Identity
  <2> QED  BY <2>1 DEF Identity
<1>3. CASE k \in Rebooted(i) /\ k # Absent
  <2>1. k = [i EXCEPT !.epoch = stamp, !.instance = IF i.durable THEN @ ELSE stamp]
    BY <1>3 DEF Rebooted
  <2>2. i.instance \in Nat /\ i.peers \in SUBSET IPs /\ i.durable \in BOOLEAN
        /\ i = [instance |-> i.instance, epoch |-> i.epoch, peers |-> i.peers, durable |-> i.durable]
    BY DEF Identity
  <2>3. PICK m \in Nat :
          k = [instance |-> m, epoch |-> stamp, peers |-> i.peers, durable |-> i.durable]
    BY <2>1, <2>2
  <2> QED  BY <2>2, <2>3 DEF Identity
<1> QED  BY <1>1, <1>2, <1>3

\* A change of the registry: waiting jobs of a changed guest are never current
\* again.
LEMMA AuthorityInv ==
  ASSUME Inv, identity' \in [Names -> Identity], stamp' = stamp + 1,
         \A n \in Names : /\ identity'[n].epoch < stamp'
                          /\ \/ identity'[n] = identity[n]
                             \/ identity'[n].peers # {} => identity'[n].epoch = stamp,
         DOMAIN jobs' = DOMAIN jobs,
         \A id \in DOMAIN jobs : /\ jobs'[id] \in Job
                                 /\ Same(jobs'[id], jobs[id])
                                 /\ \/ jobs'[id].status = jobs[id].status
                                    \/ jobs[id].status \in Waiting /\ jobs'[id].status \in NotSent
                                    \/ /\ jobs[id].status = "Sending" /\ worker' = IdleWorker
                                       /\ jobs'[id].status = "Unknown",
         \/ UNCHANGED <<draft, worker, batch>>
         \/ draft' = None /\ worker' = IdleWorker /\ DOMAIN batch' = {},
         RecordRevoked, UNCHANGED <<now, credential, nextId, sends>>
  PROVE  Inv'
<1> USE JobsAssumption
<1>1. TypeOK'
  <2>1. revoked' \subseteq Ids
    BY DEF Inv, TypeOK, RecordRevoked
  <2>2. draft' \in Draft \cup {None} /\ worker' \in BusyWorker \cup {IdleWorker}
    BY DEF Inv, TypeOK
  <2>3. DOMAIN batch' \subseteq Ids /\ \A id \in DOMAIN batch' : batch'[id] \in Job
    BY DEF Inv, TypeOK
  <2>4. stamp' \in Nat
    BY DEF Inv, TypeOK, AuthorityTypeOK
  <2> QED  BY <2>1, <2>2, <2>3, <2>4 DEF Inv, TypeOK, AuthorityTypeOK
<1>2. Numbered' /\ DraftBound' /\ FirstSend' /\ AtMostOnce'
  BY DEF Inv, Numbered, DraftBound, FirstSend, AtMostOnce, RecordRevoked, Busy, IdleWorker
<1>3. HonestStatus'
  <2>1. ASSUME NEW id \in DOMAIN jobs', jobs'[id].status \in NotSent \cup Waiting
        PROVE  sends'[id] = 0
    BY <2>1 DEF Inv, HonestStatus, NotSent, Waiting
  <2>2. ASSUME worker'.step \in {"send", "wait", "record"}
        PROVE  worker'.id \in DOMAIN jobs' /\ jobs'[worker'.id].status = "Sending"
    <3>1. worker' # IdleWorker
      BY <2>2 DEF IdleWorker
    <3>2. worker' = worker
      BY <3>1
    <3>3. worker.id \in DOMAIN jobs /\ jobs[worker.id].status = "Sending"
      BY <2>2, <3>2 DEF Inv, HonestStatus
    <3>4. jobs'[worker.id].status = "Sending"
      BY <3>1, <3>3 DEF Waiting
    <3> QED  BY <3>2, <3>3, <3>4
  <2> QED  BY <2>1, <2>2 DEF HonestStatus
<1>4. EpochsPast'
  <2>1. /\ stamp \in Nat /\ \A id \in DOMAIN jobs : jobs[id].epoch \in Nat
        /\ draft # None => draft.epoch \in Nat
    BY DEF Inv, TypeOK, AuthorityTypeOK, Job, Draft
  <2>2. \A id \in DOMAIN jobs' : jobs'[id].epoch < stamp'
    <3>1. \A id \in DOMAIN jobs : jobs[id].epoch < stamp
      BY DEF Inv, EpochsPast
    <3>2. \A id \in DOMAIN jobs : jobs'[id].epoch = jobs[id].epoch
      BY DEF Same
    <3> QED  BY <2>1, <3>1, <3>2, SMTT(30)
  <2>3. draft' # None => draft'.epoch < stamp'
    <3>1. draft # None => draft.epoch < stamp
      BY DEF Inv, EpochsPast
    <3> QED  BY <2>1, <3>1, SMTT(30)
  <2> QED  BY <2>2, <2>3 DEF EpochsPast
<1>5. CopiesAgree'
  BY DEF Inv, CopiesAgree, Same, Busy, IdleWorker
<1>6. RevokedStuck'
  <2> SUFFICES ASSUME NEW id \in revoked'
               PROVE  /\ sends'[id] = 0
                      /\ id \in DOMAIN jobs' =>
                           /\ jobs'[id].status \in NotSent \cup Waiting
                           /\ jobs'[id].status \in Waiting => ~Current(jobs[id])'
    BY DEF RevokedStuck
  <2>1. sends[id] = 0 /\ (id \in DOMAIN jobs => jobs[id].status \in NotSent \cup Waiting)
    BY DEF Inv, RevokedStuck, RecordRevoked, HonestStatus
  <2>2. ASSUME id \in DOMAIN jobs, jobs'[id].status \in Waiting
        PROVE  ~Current(jobs[id])'
    <3> DEFINE n == jobs[id].guest
    <3>1. n \in Names /\ jobs[id].epoch \in Nat /\ stamp \in Nat /\ jobs[id].epoch < stamp
      BY <2>2 DEF Inv, TypeOK, AuthorityTypeOK, Job, EpochsPast
    <3>2. jobs[id].status \in Waiting
      BY <2>2, <2>1 DEF NotSent, Waiting
    <3>3. CASE id \in revoked /\ identity'[n] = identity[n]
      <4>1. ~Current(jobs[id])
        BY <2>2, <3>2, <3>3 DEF Inv, RevokedStuck
      <4> QED  BY <2>2, <3>3, <4>1 DEF Current, AsyncIdentity, Same
    <3>a. /\ jobs'[id].guest = n /\ jobs'[id].peer = jobs[id].peer
          /\ jobs'[id].instance = jobs[id].instance /\ jobs'[id].epoch = jobs[id].epoch
      BY <2>2 DEF Same
    <3>4. CASE identity'[n] # identity[n]
      <4>1. identity'[n].peers # {} => identity'[n].epoch = stamp
        BY <3>1, <3>4
      <4>2. jobs[id].epoch # stamp
        BY <3>1
      <4>3. ~(jobs[id].peer \in identity'[n].peers /\ jobs[id].epoch = identity'[n].epoch)
        BY <4>1, <4>2
      <4> HIDE DEF n
      <4> QED  BY <3>a, <4>3 DEF Current, AsyncIdentity
    <3>5. CASE id \notin revoked
      <4>1. ~(/\ jobs[id].peer \in identity'[n].peers /\ jobs[id].instance = identity'[n].instance
              /\ jobs[id].epoch = identity'[n].epoch)
        BY <3>5 DEF RecordRevoked
      <4> HIDE DEF n
      <4> QED  BY <3>a, <4>1 DEF Current, AsyncIdentity
    <3> QED  BY <3>3, <3>4, <3>5
  <2> QED  BY <2>1, <2>2 DEF NotSent, Waiting
<1> QED  BY <1>1, <1>2, <1>3, <1>4, <1>5, <1>6 DEF Inv

\* The registry changes under the store.
LEMMA PolicyChangeInv ==
  ASSUME Inv, NEW n \in Names, PolicyChange(n) PROVE Inv'
<1>1. identity \in [Names -> Identity] /\ stamp \in Nat /\ \A m \in Names : identity[m].epoch < stamp
  BY DEF Inv, TypeOK, AuthorityTypeOK, EpochsPast
<1>2. PICK i \in Renewed(identity[n]) \cup {Absent} : identity' = [identity EXCEPT ![n] = i]
  BY DEF PolicyChange, Change
<1>3. i \in Identity /\ i.epoch < stamp + 1 /\ (i.peers # {} => i.epoch = stamp)
  BY <1>1, RenewedType
<1>4. \A m \in Names : identity[m].epoch \in Nat
  BY <1>1 DEF Identity
<1>5. identity' \in [Names -> Identity] /\ stamp' = stamp + 1
      /\ \A m \in Names : /\ identity'[m].epoch < stamp'
                          /\ \/ identity'[m] = identity[m]
                             \/ identity'[m].peers # {} => identity'[m].epoch = stamp
  BY <1>1, <1>2, <1>3, <1>4 DEF PolicyChange, Change
<1>6. \A id \in DOMAIN jobs : jobs[id] \in Job /\ Same(jobs[id], jobs[id])
  BY DEF Inv, TypeOK, Same
<1> QED  BY <1>5, <1>6, AuthorityInv DEF PolicyChange

\* A restart ends every execution without repeating it.
LEMMA RestartInv == ASSUME Inv, Restart PROVE Inv'
<1>1. identity \in [Names -> Identity] /\ stamp \in Nat /\ \A m \in Names : identity[m].epoch < stamp
  BY DEF Inv, TypeOK, AuthorityTypeOK, EpochsPast
<1>2. \A n \in Names : /\ identity'[n] \in Identity
                       /\ identity'[n].epoch < stamp + 1
                       /\ identity'[n].peers # {} => identity'[n].epoch = stamp
  <2> TAKE n \in Names
  <2>1. identity'[n] \in Rebooted(identity[n])
    BY DEF Restart, Reboot
  <2> QED  BY <1>1, <2>1, RenewedType
<1>3. identity' \in [Names -> Identity] /\ stamp' = stamp + 1
  BY <1>2 DEF Restart, Reboot
<1>4. DOMAIN jobs' = DOMAIN jobs /\ \A id \in DOMAIN jobs : jobs'[id] = Recovered(jobs[id])
  BY DEF Restart, Transaction
<1>5. draft' = None /\ worker' = IdleWorker /\ DOMAIN batch' = {} /\ RecordRevoked
      /\ UNCHANGED <<now, credential, nextId, sends>>
  BY DEF Restart, Without
<1>6. ASSUME NEW id \in DOMAIN jobs
      PROVE  /\ jobs'[id] \in Job
             /\ Same(jobs'[id], jobs[id])
             /\ \/ jobs'[id].status = jobs[id].status
                \/ jobs[id].status \in Waiting /\ jobs'[id].status \in NotSent
                \/ jobs[id].status = "Sending" /\ jobs'[id].status = "Unknown"
  <2>1. jobs[id] \in Job /\ now \in Nat
    BY DEF Inv, TypeOK
  <2>2. "Unknown" \in Status /\ "Cancelled" \in Status /\ "Cancelled" \in NotSent
    BY DEF Status, Outcomes, NotSent
  <2>3. CASE jobs[id].status = "Sending"
    BY <1>4, <2>1, <2>2, <2>3, SetType DEF Recovered
  <2>4. CASE jobs[id].status \in Waiting
    BY <1>4, <2>1, <2>2, <2>4, SetType DEF Recovered, Waiting
  <2>5. CASE jobs[id].status \notin Waiting \cup {"Sending"}
    BY <1>4, <2>1, <2>5 DEF Recovered, Same
  <2> QED  BY <2>3, <2>4, <2>5
<1> QED  BY <1>2, <1>3, <1>4, <1>5, <1>6, AuthorityInv

\* The escrow and the clock move on their own.
LEMMA AmbientInv ==
  ASSUME Inv, Tick \/ \E c \in Credentials \cup {None} : ChangeCredential(c) PROVE Inv'
<1>1. UNCHANGED <<identity, stamp, jobs, draft, nextId, batch, worker, sends, revoked>>
      /\ now' \in Nat /\ credential' \in Credentials \cup {None}
  BY DEF Inv, TypeOK, Tick, ChangeCredential
<1>2. TypeOK'
  BY <1>1 DEF Inv, TypeOK, AuthorityTypeOK
<1> QED
  BY <1>1, <1>2 DEF Inv, Numbered, DraftBound, AtMostOnce, HonestStatus, FirstSend, EpochsPast,
     CopiesAgree, RevokedStuck, Busy, Current, AsyncIdentity

-----------------------------------------------------------------------------
(* The theorems *)

\* An empty store satisfies the invariant.
LEMMA InitInv == Init => Inv
<1> SUFFICES ASSUME Init PROVE Inv
  OBVIOUS
<1> USE JobsAssumption
<1>1. DOMAIN jobs = {} /\ DOMAIN batch = {} /\ revoked = {} /\ worker = IdleWorker /\ draft = None
      /\ stamp = 1 /\ nextId = 1 /\ sends = [id \in Ids |-> 0] /\ now = 0
  BY DEF Init
<1>2. identity \in [Names -> Identity] /\ \A n \in Names : identity[n].epoch = 0
  <2>1. identity \in [Names -> {[instance |-> 0, epoch |-> 0, peers |-> IPs, durable |-> FALSE]}]
    BY DEF Init
  <2>2. \A n \in Names :
          identity[n] = [instance |-> 0, epoch |-> 0, peers |-> IPs, durable |-> FALSE]
    BY <2>1
  <2>3. [instance |-> 0, epoch |-> 0, peers |-> IPs, durable |-> FALSE] \in Identity
    BY DEF Identity
  <2>4. identity \in [Names -> Identity]
    BY <2>1, <2>3
  <2> QED  BY <2>2, <2>4
<1>3. TypeOK
  BY <1>1, <1>2 DEF Init, TypeOK, AuthorityTypeOK, Ids
<1> QED
  BY <1>1, <1>2, <1>3 DEF Inv, Numbered, DraftBound, AtMostOnce, HonestStatus, FirstSend,
     EpochsPast, CopiesAgree, RevokedStuck, Busy, IdleWorker

\* Every step of the guests, the host, the worker and the environment preserves
\* the invariant.
LEMMA StepInv == Inv /\ [Next]_vars => Inv'
<1> SUFFICES ASSUME Inv, [Next]_vars PROVE Inv'
  OBVIOUS
<1>1. CASE GuestStep
  BY <1>1, BeginSubmitInv, PersistSubmitInv, FinishSubmitInv, RefuseSubmitInv, CancelInv,
     AcknowledgeInv, DeleteInv DEF GuestStep
<1>2. CASE HostStep
  BY <1>2, DecideInv, PolicyChangeInv, AmbientInv DEF HostStep
<1>3. CASE WorkerStep
  BY <1>3, TickStartInv, WorkerPickInv, WorkerRevokeInv, WorkerCredentialInv, WorkerBlockInv,
     WorkerAdmitInv, WorkerSendInv, WorkerReplyInv, WorkerRecordInv DEF WorkerStep
<1>4. CASE WorkerFails
  BY <1>4, WorkerFailsInv
<1>5. CASE Tick
  BY <1>5, AmbientInv
<1>6. CASE Restart
  BY <1>6, RestartInv
<1>7. CASE UNCHANGED vars
  BY <1>7 DEF vars, jobVars, Inv, TypeOK, AuthorityTypeOK, Numbered, DraftBound, AtMostOnce,
     HonestStatus, FirstSend, EpochsPast, CopiesAgree, RevokedStuck, Busy, Current, AsyncIdentity
<1> QED  BY <1>1, <1>2, <1>3, <1>4, <1>5, <1>6, <1>7 DEF Next

(***************************************************************************)
(* The inductive invariant holds in every state of every behaviour.        *)
(***************************************************************************)
THEOREM Invariance == Spec => []Inv
  BY InitInv, StepInv, PTL DEF Spec

(***************************************************************************)
(* Jobs, the worker and its copies keep their types (submit, tick).        *)
(***************************************************************************)
THEOREM TypeCorrect == Spec => []TypeOK
<1>1. Inv => TypeOK
  BY DEF Inv
<1> QED  BY <1>1, Invariance, PTL

(***************************************************************************)
(* For every number of jobs, failed writes, policy changes and restarts,   *)
(* tick sends a job's request to GitHub at most once.                      *)
(***************************************************************************)
THEOREM SentAtMostOnce == Spec => []AtMostOnce
<1>1. Inv => AtMostOnce
  BY DEF Inv
<1> QED  BY <1>1, Invariance, PTL

(***************************************************************************)
(* A stored status that says a job was not sent is true, and a request in  *)
(* flight is in the store as Sending.                                      *)
(***************************************************************************)
THEOREM StatusIsHonest == Spec => []HonestStatus
<1>1. Inv => HonestStatus
  BY DEF Inv
<1> QED  BY <1>1, Invariance, PTL

(***************************************************************************)
(* A job whose guest's authority changed while it waited is never sent     *)
(* (with_async_identity).                                                  *)
(***************************************************************************)
THEOREM RevokedWorkIsNotSent == Spec => []RevokedNeverSent
<1>1. Inv => RevokedNeverSent
  BY DEF Inv, RevokedStuck, RevokedNeverSent
<1> QED  BY <1>1, Invariance, PTL

-----------------------------------------------------------------------------
(* The size of the store *)

Small == StorageUsage(jobs) <= MaxStorage

\* The size of a store whose ids are bounded is a number.
LEMMA UsageType ==
  ASSUME NEW J, DOMAIN J \subseteq Ids
  PROVE  /\ IsFiniteSet(DOMAIN J)
         /\ IsFiniteSet({id \in DOMAIN J : J[id].result})
         /\ IsFiniteSet(ActiveIds(J))
         /\ StorageUsage(J) \in Nat
<1> USE JobsAssumption
<1>1. IsFiniteSet(Ids)
  BY FS_Interval DEF Ids
<1>2. IsFiniteSet(DOMAIN J)
  BY <1>1, FS_Subset
<1>3. IsFiniteSet({id \in DOMAIN J : J[id].result}) /\ IsFiniteSet(ActiveIds(J))
  BY <1>2, FS_Subset DEF ActiveIds
<1>4. PICK d \in Nat, r \in Nat, a \in Nat :
        /\ d = Cardinality(DOMAIN J)
        /\ r = Cardinality({id \in DOMAIN J : J[id].result})
        /\ a = Cardinality(ActiveIds(J))
  BY <1>2, <1>3, FS_CardinalityType
<1>5. d * JobSize + r * ResultSize + a * Reserve \in Nat
  <2>1. d * JobSize \in Nat /\ r * ResultSize \in Nat /\ a * Reserve \in Nat
    OBVIOUS
  <2> QED  BY <2>1
<1> QED  BY <1>2, <1>3, <1>4, <1>5 DEF StorageUsage

\* Giving up one reservation makes room for one result.
LEMMA ReserveSuffices ==
  ASSUME NEW r \in Nat, NEW q \in Nat, q <= r + 1, NEW a \in Nat, a >= 1
  PROVE  q * ResultSize + (a - 1) * Reserve <= r * ResultSize + a * Reserve
<1> USE JobsAssumption
<1>1. q * ResultSize <= (r + 1) * ResultSize
  OBVIOUS
<1>2. (r + 1) * ResultSize = r * ResultSize + ResultSize
  OBVIOUS
<1>3. a * Reserve = (a - 1) * Reserve + Reserve
  OBVIOUS
<1>4. q * ResultSize \in Nat /\ r * ResultSize \in Nat /\ (a - 1) * Reserve \in Nat
  OBVIOUS
<1> QED  BY <1>1, <1>2, <1>3, <1>4

\* An outcome takes no more than its job's reservation.
LEMMA OutcomeFits ==
  ASSUME Inv, Small, NEW id \in DOMAIN jobs, jobs[id].status = "Sending", NEW s \in Outcomes
  PROVE  StorageUsage(WithOutcome(jobs, id, s)) <= MaxStorage
<1> USE JobsAssumption
<1> DEFINE J == WithOutcome(jobs, id, s)
           results == {i \in DOMAIN jobs : jobs[i].result}
           results2 == {i \in DOMAIN J : J[i].result}
<1>1. DOMAIN jobs \subseteq Ids /\ \A i \in DOMAIN jobs : jobs[i] \in Job
  BY DEF Inv, TypeOK
<1>2. /\ DOMAIN J = DOMAIN jobs
      /\ J[id].status = s
      /\ \A i \in DOMAIN jobs \ {id} : J[i] = jobs[i]
  BY <1>1 DEF WithOutcome, Set, Job
<1>3. ActiveIds(J) = ActiveIds(jobs) \ {id} /\ id \in ActiveIds(jobs)
  BY <1>2 DEF ActiveIds, Terminal, Active, Waiting, Outcomes
<1>4. results2 \subseteq results \cup {id}
  BY <1>2
<1>5. /\ IsFiniteSet(DOMAIN jobs) /\ IsFiniteSet(results) /\ IsFiniteSet(ActiveIds(jobs))
      /\ StorageUsage(jobs) \in Nat
  BY <1>1, UsageType
<1>6. PICK d \in Nat, r \in Nat, a \in Nat :
        /\ d = Cardinality(DOMAIN jobs)
        /\ r = Cardinality(results)
        /\ a = Cardinality(ActiveIds(jobs))
  BY <1>5, FS_CardinalityType
<1>7. Cardinality(ActiveIds(J)) = a - 1 /\ a >= 1
  <2> HIDE DEF J
  <2>0. Cardinality(ActiveIds(jobs) \ {id}) = Cardinality(ActiveIds(jobs)) - 1
    BY <1>3, <1>5, FS_RemoveElement
  <2>1. Cardinality(ActiveIds(J)) = a - 1
    BY <1>3, <1>6, <2>0
  <2>2. IsFiniteSet(ActiveIds(J))
    BY <1>3, <1>5, FS_RemoveElement
  <2>3. a - 1 \in Nat
    BY <2>1, <2>2, FS_CardinalityType
  <2> QED  BY <2>1, <2>3
<1>8. PICK q \in Nat : q = Cardinality(results2) /\ q <= r + 1
  <2>1. IsFiniteSet(results \cup {id}) /\ Cardinality(results \cup {id}) \in {r, r + 1}
    BY <1>5, <1>6, FS_AddElement
  <2>2. IsFiniteSet(results2) /\ Cardinality(results2) <= Cardinality(results \cup {id})
    BY <1>4, <2>1, FS_Subset
  <2>3. Cardinality(results2) \in Nat
    BY <2>2, FS_CardinalityType
  <2>4. Cardinality(results2) <= r + 1
    BY <2>1, <2>2, <2>3
  <2> HIDE DEF results2
  <2> QED  BY <2>3, <2>4
<1>9. StorageUsage(J) = d * JobSize + q * ResultSize + (a - 1) * Reserve
  BY <1>2, <1>6, <1>7, <1>8 DEF StorageUsage
<1>10. StorageUsage(jobs) = d * JobSize + r * ResultSize + a * Reserve
  BY <1>6 DEF StorageUsage
<1>11. q * ResultSize + (a - 1) * Reserve <= r * ResultSize + a * Reserve
  BY <1>7, <1>8, ReserveSuffices
<1>12. PICK x \in Int, y1 \in Int, y2 \in Int, z1 \in Int, z2 \in Int :
         /\ x = d * JobSize
         /\ y1 = q * ResultSize /\ y2 = (a - 1) * Reserve
         /\ z1 = r * ResultSize /\ z2 = a * Reserve
  <2>1. /\ d * JobSize \in Int /\ q * ResultSize \in Int /\ (a - 1) * Reserve \in Int
        /\ r * ResultSize \in Int /\ a * Reserve \in Int
    OBVIOUS
  <2> QED  BY <2>1, Zenon
<1>13. StorageUsage(J) = x + y1 + y2 /\ StorageUsage(jobs) = x + z1 + z2 /\ y1 + y2 <= z1 + z2
  BY <1>9, <1>10, <1>11, <1>12
<1> QED  BY <1>12, <1>13 DEF Small

\* The store is left alone or replaced by a transaction.
LEMMA StoreMoves ==
  ASSUME [Next]_vars PROVE jobs' = jobs \/ Transaction(jobs')
<1>1. CASE GuestStep
  BY <1>1 DEF GuestStep, BeginSubmit, PersistSubmit, FinishSubmit, RefuseSubmit, Cancel,
     Acknowledge, Delete, Transaction
<1>2. CASE HostStep
  BY <1>2 DEF HostStep, Decide, PolicyChange, ChangeCredential, Transaction
<1>3. CASE WorkerStep
  BY <1>3 DEF WorkerStep, TickStart, WorkerPick, WorkerRevoke, WorkerCredential, WorkerBlock,
     WorkerAdmit, WorkerSend, WorkerReply, WorkerRecord, Transaction
<1>4. CASE WorkerFails \/ Tick \/ Restart \/ UNCHANGED vars
  BY <1>4 DEF WorkerFails, Tick, Restart, Transaction, vars, jobVars
<1> QED  BY <1>1, <1>2, <1>3, <1>4 DEF Next

(***************************************************************************)
(* Whatever entered the store while GitHub was answering, the answer fits: *)
(* each active job keeps the room its result may need (transaction).       *)
(***************************************************************************)
THEOREM ResultsAlwaysFit == Spec => []RecordFits
<1>1. Init => Small
  <2> SUFFICES ASSUME Init PROVE Small
    OBVIOUS
  <2>1. DOMAIN jobs = {}
    BY DEF Init
  <2>2. {id \in DOMAIN jobs : jobs[id].result} = {} /\ ActiveIds(jobs) = {}
    BY <2>1 DEF ActiveIds
  <2>3. StorageUsage(jobs) = 0 * JobSize + 0 * ResultSize + 0 * Reserve
    BY <2>1, <2>2, FS_EmptySet DEF StorageUsage
  <2> QED  BY <2>3, JobsAssumption DEF Small
<1>2. Small /\ [Next]_vars => Small'
  <2> SUFFICES ASSUME Small, [Next]_vars PROVE Small'
    OBVIOUS
  <2>1. CASE jobs' = jobs
    BY <2>1 DEF Small, StorageUsage, ActiveIds
  <2>2. CASE Transaction(jobs')
    BY <2>2 DEF Small, Transaction, StorageUsage, ActiveIds
  <2> QED  BY <2>1, <2>2, StoreMoves
<1>3. Inv /\ Small => RecordFits
  <2> SUFFICES ASSUME Inv, Small, worker.step = "record", worker.id \in DOMAIN jobs
               PROVE  StorageUsage(WithOutcome(jobs, worker.id, worker.status)) <= MaxStorage
    BY DEF RecordFits
  <2>1. worker.status \in Outcomes
    BY DEF Inv, TypeOK, BusyWorker, IdleWorker
  <2>2. jobs[worker.id].status = "Sending"
    BY DEF Inv, HonestStatus
  <2> QED  BY <2>1, <2>2, OutcomeFits
<1> QED  BY <1>1, <1>2, <1>3, Invariance, PTL DEF Spec

-----------------------------------------------------------------------------
(* What leaves the store *)

\* Every step but a deletion and an accepted submission keeps the stored ids.
LEMMA IdsStay ==
  ASSUME [Next]_vars,
         ~\E n \in Names, id \in DOMAIN jobs : Delete(n, id),
         ~\E read \in BOOLEAN : FinishSubmit(read)
  PROVE  DOMAIN jobs' = DOMAIN jobs
<1>1. CASE GuestStep
  BY <1>1 DEF GuestStep, BeginSubmit, PersistSubmit, RefuseSubmit, Cancel, Acknowledge, Transaction
<1>2. CASE HostStep
  BY <1>2 DEF HostStep, Decide, PolicyChange, ChangeCredential, Transaction
<1>3. CASE WorkerStep
  BY <1>3 DEF WorkerStep, TickStart, WorkerPick, WorkerRevoke, WorkerCredential, WorkerBlock,
     WorkerAdmit, WorkerSend, WorkerReply, WorkerRecord, WithOutcome, Transaction
<1>4. CASE WorkerFails \/ Tick \/ Restart \/ UNCHANGED vars
  BY <1>4 DEF WorkerFails, Tick, Restart, Transaction, vars, jobVars
<1> QED  BY <1>1, <1>2, <1>3, <1>4 DEF Next

\* What an accepted submission pushes out may be removed automatically.
LEMMA PrunedIsRemovable ==
  ASSUME Inv, NEW read \in BOOLEAN, FinishSubmit(read), NEW id \in DOMAIN jobs \ DOMAIN jobs'
  PROVE  nextId' # nextId /\ AutomaticallyRemovable(jobs[id])
<1> DEFINE J == WithJob(jobs, nextId, NewJob(read))
<1>1. PICK R \in Prunings(J) : jobs' = Without(J, R)
  BY DEF FinishSubmit, Transaction
<1>2. nextId \in Nat /\ id # nextId
  BY DEF Inv, TypeOK, Numbered
<1>3. id \in DOMAIN J /\ J[id] = jobs[id]
  BY <1>2 DEF WithJob
<1>4. id \in R
  BY <1>1, <1>3 DEF Without
<1>5. AutomaticallyRemovable(J[id])
  BY <1>1, <1>4 DEF Prunings
<1>6. nextId' = nextId + 1
  BY DEF FinishSubmit
<1> QED  BY <1>2, <1>3, <1>5, <1>6

(***************************************************************************)
(* A job leaves the store only by its owner's deletion or, when its        *)
(* outcome is known and was acknowledged or kept long enough, to make room *)
(* (prune_for_admission, delete): no restart, failure or other step drops  *)
(* active work or an uncertain outcome.                                    *)
(***************************************************************************)
THEOREM NoJobIsLost == Spec => NothingLost
<1> DEFINE Left(id) ==
             \/ \E n \in Names : Delete(n, id)
             \/ /\ nextId' # nextId
                /\ jobs[id].status \in NotSent \cup {"Answered"}
                /\ jobs[id].acknowledged \/ now - jobs[id].updated >= Retention
           Leaving == \A id \in DOMAIN jobs \ DOMAIN jobs' : Left(id)
<1>1. Inv /\ [Next]_vars => Leaving
  <2> SUFFICES ASSUME Inv, [Next]_vars, NEW id \in DOMAIN jobs \ DOMAIN jobs' PROVE Left(id)
    OBVIOUS
  <2>1. ASSUME NEW n \in Names, NEW i \in DOMAIN jobs, Delete(n, i) PROVE Left(id)
    <3>1. id = i
      BY <2>1 DEF Delete, Transaction, Without
    <3> QED  BY <2>1, <3>1
  <2>2. ASSUME NEW read \in BOOLEAN, FinishSubmit(read) PROVE Left(id)
    <3>1. nextId' # nextId /\ AutomaticallyRemovable(jobs[id])
      BY <2>2, PrunedIsRemovable
    <3>2. jobs[id] \in Job /\ now \in Nat /\ Retention \in Nat
      BY JobsAssumption DEF Inv, TypeOK
    <3>3. jobs[id].status \in NotSent \cup {"Answered"}
      BY <3>1, <3>2 DEF AutomaticallyRemovable, Terminal, Job, Status, Outcomes
    <3>4. jobs[id].acknowledged \/ now - jobs[id].updated >= Retention
      BY <3>1, <3>2 DEF AutomaticallyRemovable, Job
    <3> QED  BY <3>1, <3>3, <3>4
  <2> QED  BY <2>1, <2>2, IdsStay
<1>2. Inv /\ [Next]_vars => [Leaving]_vars
  BY <1>1
<1>3. Spec => [][Leaving]_vars
  BY <1>2, Invariance, PTL DEF Spec
<1> QED  BY <1>3 DEF NothingLost

-----------------------------------------------------------------------------
(* Who owns a stored job *)

\* The file holds the incarnation of n while n is authorized.
Held(n) == identity[n].peers # {} => identity[n].durable

OwnersHeld ==
  /\ \A id \in DOMAIN jobs : Held(jobs[id].guest)
  /\ draft # None /\ draft.persisted => Held(draft.guest)

\* A step that changes the registry is the second half of a submission, a change
\* of one guest or a restart.
LEMMA RegistryMoves ==
  ASSUME [Next]_vars
  PROVE  identity' = identity \/ PersistSubmit \/ (\E n \in Names : PolicyChange(n)) \/ Restart
<1>1. CASE GuestStep
  BY <1>1 DEF GuestStep, BeginSubmit, FinishSubmit, RefuseSubmit, Cancel, Acknowledge, Delete,
     StoreOnly
<1>2. CASE HostStep
  BY <1>2 DEF HostStep, Decide, StoreOnly, ChangeCredential
<1>3. CASE WorkerStep
  BY <1>3 DEF WorkerStep, TickStart, WorkerPick, WorkerRevoke, WorkerCredential, WorkerBlock,
     WorkerAdmit, WorkerSend, WorkerReply, WorkerRecord, WorkerOnly
<1>4. CASE WorkerFails \/ Tick \/ Restart \/ UNCHANGED vars
  BY <1>4 DEF WorkerFails, WorkerOnly, Tick, vars
<1> QED  BY <1>1, <1>2, <1>3, <1>4 DEF Next

\* Once the file holds the incarnation of an authorized guest, it keeps doing so.
LEMMA HeldStays ==
  ASSUME Inv, [Next]_vars, NEW n \in Names, Held(n) PROVE Held(n)'
<1>1. identity \in [Names -> Identity]
  BY DEF Inv, TypeOK, AuthorityTypeOK
<1>2. CASE identity' = identity
  BY <1>2 DEF Held
<1>3. CASE PersistSubmit
  <2>1. identity'[n] = IF identity[n].peers # {} THEN [identity[n] EXCEPT !.durable = TRUE]
                       ELSE identity[n]
    BY <1>3 DEF PersistSubmit, Persisted
  <2> QED  BY <1>1, <2>1 DEF Held, Identity
<1>4. ASSUME NEW m \in Names, PolicyChange(m) PROVE Held(n)'
  <2>1. PICK i : (i.peers # {} => i.durable) /\ identity' = [identity EXCEPT ![m] = i]
    BY <1>4 DEF PolicyChange, Change
  <2>2. identity'[n] = IF n = m THEN i ELSE identity[n]
    BY <1>1, <2>1
  <2> QED  BY <2>1, <2>2 DEF Held
<1>5. CASE Restart
  <2>1. identity'[n] \in Rebooted(identity[n])
    BY <1>5 DEF Restart, Reboot
  <2>2. PICK i \in Identity : i = identity[n]
    BY <1>1
  <2>3. identity'[n] = Absent \/ (identity'[n].peers = i.peers /\ identity'[n].durable = i.durable)
    BY <2>1, <2>2 DEF Rebooted, Identity
  <2> QED  BY <2>2, <2>3 DEF Held, Absent
<1> QED  BY <1>2, <1>3, <1>4, <1>5, RegistryMoves

\* A stored job keeps its guest, and a new one has the guest of its draft.
LEMMA GuestsStay ==
  ASSUME Inv, [Next]_vars, NEW id \in DOMAIN jobs'
  PROVE  \/ id \in DOMAIN jobs /\ jobs'[id].guest = jobs[id].guest
         \/ draft # None /\ draft.persisted /\ jobs'[id].guest = draft.guest
<1>1. \A i \in DOMAIN jobs : jobs[i] \in Job
  BY DEF Inv, TypeOK
<1>2. ASSUME NEW i \in DOMAIN jobs, NEW s, jobs' = [jobs EXCEPT ![i] = Set(@, s)]
      PROVE  id \in DOMAIN jobs /\ jobs'[id].guest = jobs[id].guest
  <2>1. Set(jobs[i], s).guest = jobs[i].guest
    BY <1>1 DEF Set, Job
  <2> QED  BY <1>2, <2>1
<1>3. CASE jobs' = jobs
  BY <1>3
<1>4. ASSUME NEW n \in Names, NEW i \in DOMAIN jobs, Cancel(n, i) \/ Acknowledge(n, i) \/ Delete(n, i)
      PROVE  id \in DOMAIN jobs /\ jobs'[id].guest = jobs[id].guest
  <2>1. CASE Cancel(n, i)
    BY <1>2, <2>1 DEF Cancel, Transaction
  <2>2. CASE Acknowledge(n, i)
    <3>1. jobs' = [jobs EXCEPT ![i].acknowledged = TRUE]
      BY <2>2 DEF Acknowledge, Transaction
    <3> QED  BY <1>1, <3>1 DEF Job
  <2>3. CASE Delete(n, i)
    BY <2>3 DEF Delete, Transaction, Without
  <2> QED  BY <1>4, <2>1, <2>2, <2>3
<1>5. ASSUME NEW read \in BOOLEAN, FinishSubmit(read)
      PROVE  \/ id \in DOMAIN jobs /\ jobs'[id].guest = jobs[id].guest
             \/ draft # None /\ draft.persisted /\ jobs'[id].guest = draft.guest
  <2> DEFINE J == WithJob(jobs, nextId, NewJob(read))
  <2>1. PICK R : jobs' = Without(J, R)
    BY <1>5 DEF FinishSubmit, Transaction
  <2>2. id \in DOMAIN J /\ jobs'[id] = J[id]
    BY <2>1 DEF Without
  <2>3. NewJob(read).guest = draft.guest
    BY DEF NewJob
  <2> QED  BY <1>5, <2>2, <2>3 DEF WithJob, FinishSubmit
<1>6. ASSUME NEW i \in DOMAIN jobs, NEW approve \in BOOLEAN, Decide(i, approve)
      PROVE  id \in DOMAIN jobs /\ jobs'[id].guest = jobs[id].guest
  BY <1>2, <1>6 DEF Decide, Transaction
<1>7. CASE WorkerRevoke \/ WorkerBlock \/ WorkerAdmit
  BY <1>2, <1>7 DEF WorkerRevoke, WorkerBlock, WorkerAdmit, Admissible, Transaction
<1>8. CASE WorkerRecord
  <2>1. jobs' = WithOutcome(jobs, worker.id, worker.status) /\ worker.id \in DOMAIN jobs
    BY <1>8 DEF WorkerRecord, Transaction
  <2>2. \A i \in DOMAIN jobs : [Set(jobs[i], worker.status) EXCEPT
                                  !.result = worker.status = "Answered"].guest = jobs[i].guest
    BY <1>1 DEF Set, Job
  <2> QED  BY <2>1, <2>2 DEF WithOutcome
<1>9. CASE Restart
  <2>1. DOMAIN jobs' = DOMAIN jobs /\ jobs'[id] = Recovered(jobs[id])
    BY <1>9 DEF Restart, Transaction
  <2> QED  BY <1>1, <2>1 DEF Recovered, Set, Job
<1>10. CASE GuestStep
  BY <1>3, <1>4, <1>5, <1>10 DEF GuestStep, BeginSubmit, PersistSubmit, RefuseSubmit
<1>11. CASE HostStep
  BY <1>3, <1>6, <1>11 DEF HostStep, PolicyChange, ChangeCredential
<1>12. CASE WorkerStep
  BY <1>3, <1>7, <1>8, <1>12 DEF WorkerStep, TickStart, WorkerPick, WorkerCredential, WorkerSend,
     WorkerReply
<1>13. CASE WorkerFails \/ Tick \/ UNCHANGED vars
  BY <1>3, <1>13 DEF WorkerFails, Tick, vars, jobVars
<1> QED  BY <1>9, <1>10, <1>11, <1>12, <1>13 DEF Next

\* A draft becomes persisted in one step only, which makes all incarnations durable.
LEMMA DraftMoves ==
  ASSUME [Next]_vars, draft' # None, draft'.persisted PROVE draft' = draft \/ PersistSubmit
<1>0. ASSUME NEW n \in Names, NEW peer \in IPs, BeginSubmit(n, peer) PROVE FALSE
  <2>1. draft'.persisted = FALSE
    BY <1>0 DEF BeginSubmit
  <2> QED  BY <2>1
<1>1. CASE GuestStep
  BY <1>0, <1>1 DEF GuestStep, FinishSubmit, RefuseSubmit, Cancel, Acknowledge, Delete,
     StoreOnly
<1>2. CASE HostStep
  BY <1>2 DEF HostStep, Decide, StoreOnly, PolicyChange, ChangeCredential
<1>3. CASE WorkerStep
  BY <1>3 DEF WorkerStep, TickStart, WorkerPick, WorkerRevoke, WorkerCredential, WorkerBlock,
     WorkerAdmit, WorkerSend, WorkerReply, WorkerRecord, WorkerOnly
<1>4. CASE WorkerFails \/ Tick \/ Restart \/ UNCHANGED vars
  BY <1>4 DEF WorkerFails, WorkerOnly, Tick, Restart, vars, jobVars
<1> QED  BY <1>1, <1>2, <1>3, <1>4 DEF Next

\* The file holds the owners of the stored jobs.
LEMMA OwnersHeldStep ==
  ASSUME Inv, OwnersHeld, [Next]_vars PROVE OwnersHeld'
<1>1. identity \in [Names -> Identity]
  BY DEF Inv, TypeOK, AuthorityTypeOK
<1>2. (\A id \in DOMAIN jobs : jobs[id].guest \in Names) /\ (draft # None => draft.guest \in Names)
  BY DEF Inv, TypeOK, Job, Draft
<1>3. ASSUME NEW id \in DOMAIN jobs' PROVE Held(jobs[id].guest)'
  <2>1. PICK n \in Names : n = jobs'[id].guest /\ Held(n)
    BY <1>2, <1>3, GuestsStay DEF OwnersHeld
  <2>2. Held(n)'
    BY <2>1, HeldStays
  <2> QED  BY <2>1, <2>2 DEF Held
<1>4. ASSUME draft' # None, draft'.persisted PROVE Held(draft.guest)'
  <2>1. CASE draft' = draft
    <3>1. PICK n \in Names : n = draft.guest /\ Held(n)
      BY <1>2, <1>4, <2>1 DEF OwnersHeld
    <3>2. Held(n)'
      BY <3>1, HeldStays
    <3> QED  BY <2>1, <3>1, <3>2 DEF Held
  <2>2. CASE PersistSubmit
    <3>1. PICK n \in Names : n = draft'.guest
      BY <1>2, <2>2 DEF PersistSubmit, Inv, TypeOK, Draft
    <3>2. identity'[n] = IF identity[n].peers # {} THEN [identity[n] EXCEPT !.durable = TRUE]
                         ELSE identity[n]
      BY <2>2 DEF PersistSubmit, Persisted
    <3>3. identity'[n].peers # {} => identity'[n].durable
      BY <1>1, <3>2 DEF Identity
    <3> QED  BY <3>1, <3>3 DEF Held
  <2> QED  BY <1>4, <2>1, <2>2, DraftMoves
<1> QED  BY <1>3, <1>4 DEF OwnersHeld

(***************************************************************************)
(* A guest that owns a stored job still owns it after a restart, because   *)
(* the file held its incarnation before the job was stored (submit,        *)
(* persist_guest_identity).                                                *)
(***************************************************************************)
THEOREM OwnersSurvive == Spec => OwnerSurvivesRestart
<1> DEFINE Keeps == Restart => \A n \in Names, id \in DOMAIN jobs : Owns(n, id) => Owns(n, id)'
<1>1. Init => OwnersHeld
  BY DEF Init, OwnersHeld
<1>2. Inv /\ OwnersHeld /\ [Next]_vars => OwnersHeld'
  BY OwnersHeldStep
<1>3. Inv /\ OwnersHeld /\ [Next]_vars => [Keeps]_vars
  <2> SUFFICES ASSUME Inv, OwnersHeld, Restart, NEW n \in Names, NEW id \in DOMAIN jobs, Owns(n, id)
               PROVE  Owns(n, id)'
    OBVIOUS
  <2>1. jobs[id] \in Job /\ identity[n] \in Identity
    BY DEF Inv, TypeOK, AuthorityTypeOK
  <2>2. jobs'[id] = Recovered(jobs[id])
    BY DEF Restart, Transaction
  <2>3. jobs'[id].guest = jobs[id].guest /\ jobs'[id].instance = jobs[id].instance
    BY <2>1, <2>2 DEF Recovered, Set, Job
  <2>4. identity[n].peers # {} /\ jobs[id].guest = n /\ jobs[id].instance = identity[n].instance
    BY DEF Owns
  <2>5. identity[n].durable
    BY <2>4 DEF OwnersHeld, Held
  <2>6. identity'[n] \in Rebooted(identity[n]) /\ identity[n] # Absent
    BY <2>4 DEF Restart, Reboot, Absent
  <2>7. PICK i \in Identity : i = identity[n]
    BY <2>1
  <2>8. identity'[n].peers = i.peers /\ identity'[n].instance = i.instance
    BY <2>5, <2>6, <2>7 DEF Rebooted, Identity
  <2> QED  BY <2>3, <2>4, <2>7, <2>8 DEF Owns
<1>4. Spec => [][Keeps]_vars
  BY <1>1, <1>2, <1>3, Invariance, PTL DEF Spec
<1> QED  BY <1>4 DEF OwnerSurvivesRestart
=============================================================================
