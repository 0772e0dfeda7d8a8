---------------------------- MODULE ReviewQueue ----------------------------
(***************************************************************************)
(* Reviews of requests whose sender waits: the in-memory review queue      *)
(* (src/src/review.rs) with the two handlers that use it, the proxy's      *)
(* await_review (src/src/proxy.rs) and the file upload client              *)
(* (src/src/uploads.rs), and the registry's side of it (src/src/state.rs). *)
(*                                                                         *)
(* A handler captures its guest's epoch, collects a body, enqueues a       *)
(* review, waits for the host and is admitted; it can be dropped at each   *)
(* of its awaits, and what its drop guards do then is part of the model.   *)
(*                                                                         *)
(* Locks.  The queue's mutex is held by the host's decision from its check *)
(* of the deadline to the send on the channel; every other operation on    *)
(* the queue is one step and waits for it.  A policy change takes the      *)
(* registry's lock, then the queue's; enqueue_review holds the registry's  *)
(* lock, shared, across its check, the insertion and the automatic         *)
(* decision.                                                               *)
(*                                                                         *)
(* A request's UUID is fresh, so a request is identified with its handler. *)
(* All of this state is lost by a restart, and the handlers with it.       *)
(***************************************************************************)
EXTENDS GuestAuthority, Sequences, FiniteSets

CONSTANTS
  None,
  Requests,     \* requests of guests, each served once
  Kinds,        \* the kinds of request that occur, a subset of AllKinds
  AllowAll,     \* the broker runs with the GitHub allow-all policy
  WaitTime,     \* WAIT_LIMIT, in clock ticks
  Capacity,     \* MAX_PENDING (32)
  PerGuest,     \* MAX_PER_GUEST (8)
  BufferSlots,  \* bodies of proxied requests held at once (32)
  UploadSlots,  \* files held at once (4)
  History,      \* HISTORY_LIMIT (100)
  MaxStamp,     \* bound on policy changes
  MaxNow        \* bound on the clock

\* read: a GraphQL query or LFS download, admitted without a review; graphql and
\* rest: proxied writes; github and linear: file uploads.
AllKinds == {"read", "graphql", "rest", "github", "linear"}
Uploads == {"github", "linear"}

ASSUME QueueAssumption ==
  /\ Kinds \subseteq AllKinds
  /\ None \notin {"Approve", "Deny", "Pending", "Allowed", "Blocked"}
  /\ AllowAll \in BOOLEAN
  /\ IPs # {}
  /\ {WaitTime, Capacity, PerGuest, BufferSlots, UploadSlots, History, MaxStamp, MaxNow}
       \subseteq Nat

VARIABLES
  pending,   \* request -> deadline, the reviews waiting for the host
  recent,    \* retained reviews, oldest first
  handler,   \* request -> its handler
  answer,    \* request -> what was sent on its channel
  deciding,  \* the decision that holds the queue's lock, or None
  row,       \* request -> verdict of its row in the request log
  now,       \* the clock
  sent,      \* history: requests of which a byte left for the upstream
  agreed,    \* history: requests the host approved
  revoked    \* history: requests whose guest's authority changed before admission

queueVars == <<pending, recent, handler, answer, deciding, row, now, sent, agreed, revoked>>
vars == <<identity, stamp, queueVars>>

Active == {"Approved", "Sending"}
NotSent == {"Denied", "Expired", "Cancelled", "Blocked"}
Refined == {"GraphqlError", "Unknown"}
Status == Active \cup NotSent \cup Refined \cup {"ResponseReceived", "UpstreamError"}

Review == [id : Requests, status : Status]

BeforeAdmission ==
  {"collecting", "automatic", "waiting", "leaving", "expiring", "admitting", "lookup"}
Ending == {"failing", "blocking"}
Upstream == {"forwarding", "inflight", "body"}
Phases == {"idle", "done"} \cup BeforeAdmission \cup Ending \cup Upstream

IdleHandler == [phase |-> "idle"]
Handler ==
  {IdleHandler} \cup
  [phase : Phases \ {"idle"}, kind : Kinds, guest : Names, peer : IPs,
   instance : Nat, epoch : Nat]

In(phases) == {r \in Requests : handler[r].phase \in phases}
IsUpload(r) == handler[r].kind \in Uploads
Served(n) == {r \in Requests \ In({"idle"}) : handler[r].guest = n}

Go(r, phase) == handler' = [handler EXCEPT ![r].phase = phase]

\* The guest and epoch captured by the handler are still in force.
Current(r) ==
  AsyncIdentity(handler[r].guest, handler[r].peer, handler[r].instance, handler[r].epoch)

-----------------------------------------------------------------------------
(* The queue, under its lock *)

Unlocked == deciding = None

Without(f, S) == [x \in DOMAIN f \ S |-> f[x]]

\* The newest reviews, as many as are kept.
Retained(s) == IF Len(s) > History THEN SubSeq(s, Len(s) - History + 1, Len(s)) ELSE s

\* archive: the entry leaves pending, its sender dropped or used by the caller.
Archive(r, status) ==
  /\ pending' = Without(pending, {r})
  /\ recent' = Retained(Append(recent, [id |-> r, status |-> status]))

\* Mutant of Observed: any retained review takes the observation.
ObservedAlways(s, r, status) ==
  [i \in DOMAIN s |-> IF s[i].id = r THEN [s[i] EXCEPT !.status = status] ELSE s[i]]

\* observe: only an active outcome is refined.
Observed(s, r, status) ==
  [i \in DOMAIN s |-> IF s[i].id = r /\ s[i].status \in Active
                      THEN [s[i] EXCEPT !.status = status] ELSE s[i]]

\* response_detail and graphql_response_detail: only a received response is.
Detailed(s, r, status) ==
  [i \in DOMAIN s |-> IF s[i].id = r /\ s[i].status = "ResponseReceived"
                      THEN [s[i] EXCEPT !.status = status] ELSE s[i]]

IsRecent(r) == \E i \in DOMAIN recent : recent[i].id = r

\* The host's decision: too late, or begun under the lock.
DecideStart(r, approve) ==
  /\ Unlocked
  /\ r \in DOMAIN pending
  /\ IF pending[r] <= now
     THEN Archive(r, "Expired") /\ UNCHANGED deciding
     ELSE deciding' = [id |-> r, approve |-> approve] /\ UNCHANGED <<pending, recent>>
  /\ UNCHANGED <<identity, stamp, handler, answer, row, now, sent, agreed, revoked>>

\* The review is archived and the waiting handler answered; its receiver is
\* still there, because a ticket leaves the queue before it drops the receiver.
DecideFinish ==
  /\ deciding # None
  /\ Archive(deciding.id, IF deciding.approve THEN "Approved" ELSE "Denied")
  /\ answer' = [answer EXCEPT ![deciding.id] = IF deciding.approve THEN "Approve" ELSE "Deny"]
  /\ agreed' = IF deciding.approve THEN agreed \cup {deciding.id} ELSE agreed
  /\ deciding' = None
  /\ UNCHANGED <<identity, stamp, handler, row, now, sent, revoked>>

-----------------------------------------------------------------------------
(* A handler, up to its admission *)

HandlerOnly ==
  UNCHANGED <<identity, stamp, pending, recent, answer, deciding, row, now, sent, agreed, revoked>>

SlotFree(kind) ==
  IF kind \in Uploads
  THEN Cardinality({r \in In(Phases \ {"idle", "done"}) : IsUpload(r)}) < UploadSlots
  ELSE Cardinality({r \in In(BeforeAdmission) : ~IsUpload(r)}) < BufferSlots

\* record, review_epoch and a slot for the body.
Begin(r, kind, n, peer) ==
  /\ handler[r] = IdleHandler
  /\ peer \in identity[n].peers
  /\ SlotFree(kind)
  /\ handler' = [handler EXCEPT ![r] =
       [phase |-> "collecting", kind |-> kind, guest |-> n, peer |-> peer,
        instance |-> identity[n].instance, epoch |-> identity[n].epoch]]
  /\ row' = [row EXCEPT ![r] = IF kind \in Uploads THEN None ELSE "Pending"]
  /\ UNCHANGED <<identity, stamp, pending, recent, answer, deciding, now, sent, agreed, revoked>>

\* The body is late, too large or not reviewable, the client goes away, the
\* policy changed or the queue is full.
Refuse(r) ==
  /\ handler[r].phase = "collecting"
  /\ Go(r, "failing")
  /\ HandlerOnly

\* admit_graphql_read and admit_lfs_download.
AdmitRead(r) ==
  /\ handler[r].phase = "collecting"
  /\ handler[r].kind = "read"
  /\ IF Current(r) THEN Go(r, "forwarding") /\ row' = [row EXCEPT ![r] = "Allowed"]
                   ELSE Go(r, "failing") /\ UNCHANGED row
  /\ UNCHANGED <<identity, stamp, pending, recent, answer, deciding, now, sent, agreed, revoked>>

\* enqueue_review: the check and the insertion exclude a policy change.
Enqueue(r) ==
  /\ handler[r].phase = "collecting"
  /\ handler[r].kind # "read"
  /\ Current(r)
  /\ Unlocked
  /\ Cardinality(DOMAIN pending) < Capacity
  /\ Cardinality(DOMAIN pending \cap Served(handler[r].guest)) < PerGuest
  /\ now + WaitTime <= MaxNow
  /\ pending' = [p \in DOMAIN pending \cup {r} |-> IF p = r THEN now + WaitTime ELSE pending[p]]
  /\ Go(r, IF handler[r].kind = "github" /\ AllowAll THEN "automatic" ELSE "waiting")
  /\ UNCHANGED <<identity, stamp, recent, answer, deciding, row, now, sent, agreed, revoked>>

\* Allow-all decides a GitHub upload itself, unless the host or the guest
\* was faster; its ticket is then dropped.
Automatic(r) ==
  /\ handler[r].phase = "automatic"
  /\ Unlocked
  /\ IF r \in DOMAIN pending
     THEN IF pending[r] > now
          THEN /\ Archive(r, "Approved")
               /\ answer' = [answer EXCEPT ![r] = "Approve"]
               /\ Go(r, "waiting")
          ELSE Archive(r, "Expired") /\ Go(r, "failing") /\ UNCHANGED answer
     ELSE Go(r, "failing") /\ UNCHANGED <<pending, recent, answer>>
  /\ UNCHANGED <<identity, stamp, deciding, row, now, sent, agreed, revoked>>

\* Mutant of Wake: anything but a denial lets the request through.
WakeUnlessDenied(r) ==
  /\ handler[r].phase = "waiting"
  /\ r \notin DOMAIN pending
  /\ Go(r, IF answer[r] = "Deny" THEN "failing" ELSE "admitting")
  /\ HandlerOnly

\* Ticket::wait returns the decision, or an error when the sender was dropped.
Wake(r) ==
  /\ handler[r].phase = "waiting"
  /\ r \notin DOMAIN pending
  /\ Go(r, IF answer[r] = "Approve" THEN "admitting" ELSE "failing")
  /\ HandlerOnly

\* Mutant of TimeOut: the wait has no deadline of its own.
TimeOutNever(r) == FALSE

\* The timeout finds no answer on the channel, whoever holds the lock.
TimeOut(r) ==
  /\ handler[r].phase = "waiting"
  /\ r \in DOMAIN pending
  /\ pending[r] <= now
  /\ Go(r, "expiring")
  /\ HandlerOnly

\* The waiting client disconnects and its handler is dropped.
Disconnect(r) ==
  /\ handler[r].phase = "waiting"
  /\ Go(r, "leaving")
  /\ HandlerOnly

\* Mutant of DropTicket: a dropped ticket leaves its entry behind.
DropTicketKeepsEntry(r) ==
  /\ handler[r].phase \in {"leaving", "expiring"}
  /\ Unlocked
  /\ IF r \in DOMAIN pending /\ handler[r].phase = "expiring"
     THEN Archive(r, "Expired")
     ELSE UNCHANGED <<pending, recent>>
  /\ Go(r, "failing")
  /\ UNCHANGED <<identity, stamp, answer, deciding, row, now, sent, agreed, revoked>>

\* cancel_pending, from the timeout or from the ticket's drop: a decision that
\* came first has archived the entry.
DropTicket(r) ==
  /\ handler[r].phase \in {"leaving", "expiring"}
  /\ Unlocked
  /\ IF r \in DOMAIN pending
     THEN Archive(r, IF handler[r].phase = "expiring" THEN "Expired" ELSE "Cancelled")
     ELSE UNCHANGED <<pending, recent>>
  /\ Go(r, "failing")
  /\ UNCHANGED <<identity, stamp, answer, deciding, row, now, sent, agreed, revoked>>

\* An upload checks its guest and its credential before it looks the repository up.
AdmitUpload(r) ==
  /\ handler[r].phase = "admitting"
  /\ IsUpload(r)
  /\ \/ Current(r) /\ Go(r, "lookup")
     \/ Go(r, "failing")
  /\ HandlerOnly

\* The lookup fails, the credential changed meanwhile, or the client goes away.
LookupFails(r) ==
  /\ handler[r].phase = "lookup"
  /\ \/ Go(r, "blocking")
     \/ handler[r].kind = "github" /\ Go(r, "failing")
  /\ HandlerOnly

\* An upload is admitted after its lookup, a proxied request at once.
AtAdmission(r) ==
  \/ handler[r].phase = "lookup"
  \/ handler[r].phase = "admitting" /\ ~IsUpload(r)

\* Mutant of AdmitReview: the approval is taken for the authority.
AdmitReviewUnchecked(r) ==
  /\ AtAdmission(r)
  /\ Unlocked
  /\ Go(r, "forwarding")
  /\ recent' = Observed(recent, r, "Sending")
  /\ row' = IF IsUpload(r) THEN row ELSE [row EXCEPT ![r] = "Allowed"]
  /\ UNCHANGED <<identity, stamp, pending, answer, deciding, now, sent, agreed, revoked>>

\* admit_review: the consistency boundary between the policy and the request.
AdmitReview(r) ==
  /\ AtAdmission(r)
  /\ Unlocked
  /\ IF Current(r)
     THEN /\ Go(r, "forwarding")
          /\ recent' = Observed(recent, r, "Sending")
          /\ row' = IF IsUpload(r) THEN row ELSE [row EXCEPT ![r] = "Allowed"]
     ELSE /\ Go(r, IF IsUpload(r) THEN "blocking" ELSE "failing")
          /\ UNCHANGED <<recent, row>>
  /\ UNCHANGED <<identity, stamp, pending, answer, deciding, now, sent, agreed, revoked>>

\* The end of a request that is not forwarded: the drop of ReviewLogGuard or of
\* the upload's Outcome (failing), or mark_blocked after approval (blocking).
End(r) ==
  /\ handler[r].phase \in Ending
  /\ Unlocked
  /\ recent' = Observed(recent, r,
                 IF handler[r].phase = "failing" THEN "Cancelled" ELSE "Blocked")
  /\ row' = IF IsUpload(r) THEN row ELSE [row EXCEPT ![r] = "Blocked"]
  /\ Go(r, "done")
  /\ UNCHANGED <<identity, stamp, pending, answer, deciding, now, sent, agreed, revoked>>

-----------------------------------------------------------------------------
(* A handler, after its admission *)

\* The escrow refuses the substitution for an admitted proxied request.
SubstitutionBlocks(r) ==
  /\ handler[r].phase = "forwarding"
  /\ ~IsUpload(r)
  /\ Go(r, "blocking")
  /\ HandlerOnly

Send(r) ==
  /\ handler[r].phase = "forwarding"
  /\ sent' = sent \cup {r}
  /\ Go(r, "inflight")
  /\ UNCHANGED <<identity, stamp, pending, recent, answer, deciding, row, now, agreed, revoked>>

Observe(r, status, phase) ==
  /\ Unlocked
  /\ recent' = Observed(recent, r, status)
  /\ Go(r, phase)
  /\ UNCHANGED <<identity, stamp, pending, answer, deciding, row, now, sent, agreed, revoked>>

\* handle_response, or the provider's answer to an upload.  The body of a
\* reviewed GraphQL response is watched if it is JSON.
Respond(r, json) ==
  /\ handler[r].phase = "inflight"
  /\ Observe(r, "ResponseReceived",
       IF handler[r].kind = "graphql" /\ json /\ IsRecent(r) THEN "body" ELSE "done")

\* handle_error: before or after the request was sent.
UpstreamFails(r) ==
  /\ handler[r].phase \in {"forwarding", "inflight"}
  /\ ~IsUpload(r)
  /\ Observe(r, "UpstreamError", "done")

\* Mutant of LoseHandler: the end of the handler is reported as a cancellation.
LoseHandlerCancels(r) ==
  /\ handler[r].phase \in {"forwarding", "inflight"}
  /\ Observe(r, "Cancelled", "done")

\* The handler ends without a response: ResponseWatch, or an upload that fails.
LoseHandler(r) ==
  /\ handler[r].phase \in {"forwarding", "inflight"}
  /\ Observe(r, "Unknown", "done")

\* The end of a watched body: errors in it, a failed read, or neither.
BodyEnds(r, status) ==
  /\ handler[r].phase = "body"
  /\ Unlocked
  /\ recent' = Detailed(recent, r, status)
  /\ Go(r, "done")
  /\ UNCHANGED <<identity, stamp, pending, answer, deciding, row, now, sent, agreed, revoked>>

-----------------------------------------------------------------------------
(* The guest, the host and the clock *)

\* The guest that still is the incarnation which uploaded the file.
Owns(r) ==
  /\ handler[r].phase # "idle"
  /\ IsUpload(r)
  /\ identity[handler[r].guest].peers # {}
  /\ identity[handler[r].guest].instance = handler[r].instance

QueueOnly ==
  UNCHANGED <<identity, stamp, handler, answer, deciding, row, now, sent, agreed, revoked>>

CancelUpload(r) ==
  /\ Unlocked
  /\ r \in DOMAIN pending
  /\ Owns(r)
  /\ Archive(r, "Cancelled")
  /\ QueueOnly

\* Of the retained reviews, each of a different request, the one found goes.
RemoveUpload(r) ==
  /\ Unlocked
  /\ Owns(r)
  /\ \E i \in DOMAIN recent :
       /\ recent[i].id = r
       /\ recent[i].status \notin Active
       /\ recent' = SubSeq(recent, 1, i - 1) \o SubSeq(recent, i + 1, Len(recent))
  /\ UNCHANGED pending
  /\ QueueOnly

\* The orders in which a set can be visited.
Orders(S) == {s \in [1 .. Cardinality(S) -> S] : \A x \in S : \E i \in DOMAIN s : s[i] = x}

\* cancel_container: the guest's waiting reviews, in the order of a hash map.
CancelContainer(n) ==
  LET ids == DOMAIN pending \cap Served(n)
  IN /\ pending' = Without(pending, ids)
     /\ \E order \in Orders(ids) :
          recent' = Retained(recent \o [i \in DOMAIN order |->
                                          [id |-> order[i], status |-> "Cancelled"]])

\* update_policy changes a guest's authority: its reviews are cancelled before
\* any handler can see the new policy.
PolicyChange(n) ==
  /\ stamp < MaxStamp
  /\ Unlocked
  /\ In({"automatic"}) = {}
  /\ Change(n)
  /\ CancelContainer(n)
  /\ revoked' = revoked \cup (In(BeforeAdmission) \cap Served(n))
  /\ UNCHANGED <<handler, answer, deciding, row, now, sent, agreed>>

Tick ==
  /\ now < MaxNow
  /\ now' = now + 1
  /\ UNCHANGED <<identity, stamp, pending, recent, handler, answer, deciding, row, sent, agreed,
                 revoked>>

-----------------------------------------------------------------------------
(* The specification *)

Init ==
  /\ identity \in [Names -> {[instance |-> 0, epoch |-> 0, peers |-> IPs, durable |-> TRUE]}]
  /\ stamp = 1
  /\ pending = [r \in {} |-> 0]
  /\ recent = <<>>
  /\ handler = [r \in Requests |-> IdleHandler]
  /\ answer = [r \in Requests |-> None]
  /\ deciding = None
  /\ row = [r \in Requests |-> None]
  /\ now = 0
  /\ sent = {}
  /\ agreed = {}
  /\ revoked = {}

\* What a handler does by itself until its request is forwarded or given up.
LocalStep(r) ==
  \/ Refuse(r)
  \/ AdmitRead(r)
  \/ Enqueue(r)
  \/ Automatic(r)
  \/ Wake(r)
  \/ TimeOut(r)
  \/ DropTicket(r)
  \/ AdmitUpload(r)
  \/ LookupFails(r)
  \/ AdmitReview(r)
  \/ End(r)

UpstreamStep(r) ==
  \/ SubstitutionBlocks(r)
  \/ Send(r)
  \/ \E json \in BOOLEAN : Respond(r, json)
  \/ UpstreamFails(r)
  \/ LoseHandler(r)
  \/ \E status \in Refined \cup {"ResponseReceived"} : BodyEnds(r, status)

GuestStep(r) ==
  \/ \E kind \in Kinds, n \in Names, peer \in IPs : Begin(r, kind, n, peer)
  \/ Disconnect(r)
  \/ CancelUpload(r)
  \/ RemoveUpload(r)

HostStep ==
  \/ \E r \in Requests, approve \in BOOLEAN : DecideStart(r, approve)
  \/ DecideFinish
  \/ \E n \in Names : PolicyChange(n)

Next ==
  \/ \E r \in Requests : LocalStep(r) \/ UpstreamStep(r) \/ GuestStep(r)
  \/ HostStep
  \/ Tick

Spec == Init /\ [][Next]_vars

(***************************************************************************)
(* Handlers are tasks of a running executor, a body ends within 10 seconds *)
(* (60 for a file) and a lookup within a minute, and a decision holds the  *)
(* lock for no longer than its code takes.  Nothing is assumed of whether  *)
(* the host decides, of the guest or of the upstream.                      *)
(***************************************************************************)
Fairness ==
  /\ \A r \in Requests : WF_vars(LocalStep(r))
  /\ WF_vars(DecideFinish)
  /\ WF_vars(Tick)

FairSpec == Spec /\ Fairness

-----------------------------------------------------------------------------
(* Properties *)

TypeOK ==
  /\ AuthorityTypeOK
  /\ DOMAIN pending \subseteq Requests
  /\ \A r \in DOMAIN pending : pending[r] \in Nat
  /\ recent \in Seq(Review)
  /\ Len(recent) <= History
  /\ handler \in [Requests -> Handler]
  /\ answer \in [Requests -> {None, "Approve", "Deny"}]
  /\ deciding \in {None} \cup [id : DOMAIN pending, approve : BOOLEAN]
  /\ row \in [Requests -> {None, "Pending", "Allowed", "Blocked"}]
  /\ now \in Nat
  /\ sent \subseteq Requests
  /\ agreed \subseteq Requests
  /\ revoked \subseteq Requests

(***************************************************************************)
(* "A cancelled HTTP handler must not leave an apparently live review"     *)
(* (ReviewLogGuard): whatever the host is shown as waiting has a handler   *)
(* that waits for it, whatever is shown as approved or being sent has a    *)
(* handler that has not ended, and each review is shown once.              *)
(***************************************************************************)
NoGhostReviews ==
  /\ \A r \in DOMAIN pending :
       handler[r].phase \in {"automatic", "waiting", "leaving", "expiring"} /\ ~IsRecent(r)
  /\ \A i \in DOMAIN recent :
       /\ recent[i].status \in Active => handler[recent[i].id].phase \notin {"idle", "done"}
       /\ \A j \in DOMAIN recent : recent[i].id = recent[j].id => i = j

(***************************************************************************)
(* What a review or its row in the request log calls not sent was not      *)
(* sent: no race of a decision with a timeout, a disconnection or a policy *)
(* change, and no failure after admission, makes a sent request look safe  *)
(* to retry.                                                               *)
(***************************************************************************)
NotSentIsTrue ==
  /\ \A i \in DOMAIN recent : recent[i].status \in NotSent => recent[i].id \notin sent
  /\ \A r \in Requests : row[r] = "Blocked" => r \notin sent

(***************************************************************************)
(* Only what the host approved is sent, apart from reads and, under        *)
(* allow-all, GitHub uploads: a timeout, a cancellation or an error of the *)
(* channel is never taken for an approval (await_review, upload).          *)
(***************************************************************************)
SentWasApproved ==
  \A r \in sent : \/ r \in agreed
                  \/ handler[r].kind = "read"
                  \/ handler[r].kind = "github" /\ AllowAll

(***************************************************************************)
(* A request whose guest was killed, moved or removed after the handler    *)
(* captured its epoch and before its admission is never sent, even if the  *)
(* host approved it and even if the authority was given back.              *)
(***************************************************************************)
RevokedNeverSent == revoked \cap sent = {}

(***************************************************************************)
(* "Late callbacks or cleanup cannot turn Denied/Expired into Approved or  *)
(* erase a response" (observe): a settled review changes only from a       *)
(* response to what its body said, and is otherwise kept until it ages out *)
(* or its guest removes it.                                                *)
(***************************************************************************)
SettledStays ==
  [][\A i \in DOMAIN recent : \A j \in DOMAIN recent' :
       recent[i].id = recent'[j].id /\ recent[i].status \notin Active =>
         \/ recent'[j] = recent[i]
         \/ recent[i].status = "ResponseReceived" /\ recent'[j].status \in Refined]_vars

(***************************************************************************)
(* A handler in possession of a body, a slot or a review does not keep it: *)
(* whether or not the host decides, the request is forwarded or given up.  *)
(***************************************************************************)
ReviewsEnd ==
  \A r \in Requests : handler[r].phase \in BeforeAdmission \cup Ending
                        ~> handler[r].phase \in Upstream \cup {"done"}
=============================================================================
