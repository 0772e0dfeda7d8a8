# Friendzone: TLA+ models, checks and proofs

Friendzone (`fz`) is a broker between untrusted guests (containers running
coding agents) and the services they use. It intercepts guest HTTPS traffic,
lets reads through, holds writes until the host approves them, and keeps the
real credentials on its own side. This directory models the part of it that
decides *whether, when and how often* something leaves the broker on behalf of
a guest, and what the broker says about it afterwards.

Paths below are relative to the repository; `src/src/state.rs:318` is line 318
of that file.

## 1. The system

### Components, their state and operations

| Component | State | Operations |
|---|---|---|
| Guest registry (`state.rs`, `storage.rs`) | per name: approved, pinned address, epoch, incarnation, grants, Cline access; the kill set; `containers.json` | register, approve, pin, remove, reset, kill/resume, grant, revoke; announcement by a guest; `authorize*`, `async_identity`, `admit_*` |
| Asynchronous GraphQL jobs (`jobs.rs`) | `jobs.json` and its copy in memory; the worker's position | submit, cancel, acknowledge, delete, decide, the worker's tick, load |
| Git publication (`pushes.rs`) | `git-push-jobs.json`, one directory with a bundle per publication, the remote branch | submit, prepare, decide, publish under a lease, verify, delete, prune, load |
| Review queue (`review.rs`) | pending reviews with deadlines and channels, the last 100 outcomes | enqueue, decide, wait, cancel, observe, response detail |
| Proxy handler (`proxy.rs`) | one task per request with its drop guards | capture epoch, collect body, await review, admit, substitute, forward, observe |
| Uploads (`uploads.rs`) | one task per upload | review, repository lookup, admission, upload, record the outcome |
| Settings and vault (`settings.rs`, `secret_store.rs`) | escrow entries, secrets in an OS store written in generations | save, load, migrate, substitute |
| OAuth (`oauth.rs`, `mcp_oauth.rs`), MCP (`mcp.rs`) | tokens, sessions, configured servers | connect, refresh, disconnect, forward |
| HTTP API (`web.rs`) | none of its own | the host's and the guests' way to the operations above |
| Pure policy (`policy.rs`, `graphql.rs`, `lfs.rs`, `routing.rs`, `infrastructure.rs`) | none | classify a request or a destination |
| Bootstrap, guest plugin, CA, telemetry, UI, command line | configuration on disk | set-up and display |

### How they interact

* Everything rests on the **registry**. A handler captures `(incarnation,
  epoch)` of its guest, awaits something, and asks the registry to admit it
  with what it captured. The registry changes the epoch whenever approval, kill
  or pin changes, under a lock that admission takes too.
* **Synchronous reviews** live in memory. A policy change cancels a guest's
  pending reviews while it holds the registry's lock.
* **Durable work** (GraphQL jobs, publications) outlives its request. A single
  worker re-checks the registry, makes the status `Sending` durable, acts on
  the outside world, and records what it learned. A restart never repeats work.
* Credentials are looked up when they are used; a job is bound to the
  credential it was reviewed with.

### What is hard

Nothing here is hard step by step. The difficulty is in orders and failures: a
kill between approval and sending; a decision that races a timeout or a
disconnection, in code whose clean-up runs in destructors; a file replaced
and the process gone before memory follows; an answer received and not
recordable; a `git push` whose report is lost; a store that fills up while a
request is in flight; recovery code that must accept every state the rest of
the code can leave behind; a token refreshed while its login is replaced; a
permission revoked while a target is looked up; a document that means more
than its review shows. `PROJECT.json` lists these under `hazards`, each at
its line, with the properties that would catch it going wrong.

### What makes each component correct

* Registry: host decisions are durable and take effect for work already begun;
  an address belongs to one guest; nobody gains access by moving an address.
* Jobs and publications: at most once, across crashes; a status never lies;
  revoked work is not sent; nothing unfinished is thrown away; nothing waits
  forever; the broker starts again from what it wrote.
* Escrow and OAuth: an account's token leaves only through its gate and only
  for the server it was issued for; a login that was replaced or ended does
  not come back; a session in service spends a refresh token once.
* Comment permissions: given from a fresh look, used only while in force and
  for what the node is now.
* GraphQL analysis and policy: what passes unasked only reads; what the host is
  shown is what the request does.
* Display lookups: true, recent, and seen with the request's own credential.
* Vault: an atomic register of whole snapshots, whatever fails; no secret is
  lost by the migration or left behind in an entry nobody knows of.
* Review queue: the host sees exactly the live reviews; only approved requests
  leave; settled outcomes stay; every handler ends.

## 2. Modules

| Module | Models | Composed with |
|---|---|---|
| `GuestAuthority` | abstract: what the registry promises to those who hold a captured identity | extended by `AsyncJobs`, `GitPushes`, `ReviewQueue`; implemented by `GuestPolicy` |
| `GuestPolicy` | the registry and `containers.json` in full, with one handler | INSTANCEs `GuestAuthority` |
| `GuestPolicy_proofs` | proofs about `GuestPolicy` | |
| `AsyncJobs` | `jobs.rs` | `GuestAuthority` |
| `AsyncJobs_proofs` | proofs about `AsyncJobs` | |
| `PushBundle` | what the broker derives from a bundle (`prepare_remote`), as operators | extended by `GitPushes` |
| `GitPushes` | `pushes.rs`, the bundle directories and the remote branch | `GuestAuthority`, `PushBundle` |
| `GitPushes_proofs` | proofs about `PushBundle` and `GitPushes` | |
| `ReviewQueue` | `review.rs`, `await_review` and its guards, the upload client | `GuestAuthority` |
| `ReviewQueue_proofs` | proofs about `ReviewQueue` | |
| `SecretRegister` | abstract: the register of snapshots that `Settings` relies on | implemented by `SecretVault` |
| `SecretVault` | `secret_store.rs` and `Secrets::save` | INSTANCEs `SecretRegister` |
| `SecretVault_proofs` | proofs about `SecretVault` | |
| `ClineEscrow` | escrow entries and values in `settings.rs`, `oauth.rs` and their handlers | extended by `CommentGrants` |
| `CommentGrants` | comment permissions: resolving, saving, revoking, using | extended by `ProxyRequest` |
| `ProxyRequest` | `handle_from_peer_traced` with substitution and accounting | the three together are one state machine |
| `ProxyRequest_proofs` | proofs about the three | |
| `McpOauth` | `mcp_oauth.rs` | extended by `McpForwards` |
| `McpForwards` | `mcp.rs`, `mcp_import.rs` and their handlers | |
| `McpForwards_proofs` | proofs about `McpOauth` and `McpForwards` | |
| `Filters` | a sequence filtered by index | extended by `GraphqlSummary`, `DisplayTargets` |
| `GraphqlDocument`, `GraphqlSummary` | envelopes, documents, variables, the comment plan; summaries and facts, as operators (`graphql.rs`) | extended by `GraphqlReview` |
| `RequestPolicy` | `policy.rs`, `lfs.rs`, destinations, `read_transport`, as operators | extended by `GraphqlReview` |
| `GraphqlReview` | the decision on one request, with the traversals of `graphql.rs` | |
| `DisplayTargets` | display lookups and their cache (`github.rs`), the pages that show them | |
| `HostReview_proofs` | proofs about `GraphqlReview` and `DisplayTargets` | |
| `MC*` | instances for TLC | |

The composition is by contract. `GuestAuthority` says that a guest's identity
is an incarnation, an epoch, the addresses it may use and whether the
incarnation is on disk; that every change of authority brings a fresh epoch;
and that a restart keeps exactly the incarnations on disk. `GuestPolicy` is
checked and proved to implement it (`ImplementsAuthority`); the three modules of
work extend it and so face every registry that keeps the contract.
`SecretRegister` is the same for secrets: `SecretVault` is checked and proved to
implement it (`ImplementsRegister`), and
`ClineEscrow` and `McpOauth` use its promise, that a save replaces all values at
once and that one which fails may have taken effect.

Conventions. A UUID is the number of the step that drew it (`stamp`): equal
UUIDs are the same UUID, and nothing else is ever asked of one. Text, payloads
and digests are left out, or are sizes where a limit is about them. A lock held
over several statements with no await between them is one step; a lock that
another task can be seen to wait for (the queue's mutex inside `decide`) is a
variable. Each `await`, and each write to disk that can be the last thing the
process does, separates two steps. History variables are marked as such and
are only read by properties. Operators whose comment says *Mutant of X* are
not part of any specification: they are plausible wrong versions of X, against
which the properties are tested.

### GuestPolicy

`containers`, `killed` are `StateData`, `disk` is `containers.json`. Every
writer goes through `UpdatePolicy`, the translation of `update_policy`: the
new registry is computed, the managed entries are written, changed guests get
new epochs, the registry is published; a crash can come after the write, which
is the whole of what a restart sees. The first boot draws its UUIDs as
step 1; step 0 stands for the UUIDs that an older file brings along. A
guest's announcement and a proxied request change the registry in memory only.
A handler (`work`) captures an identity, and is admitted or refused later.

### AsyncJobs

`jobs` is the store: `transaction` replaces `async-jobs.json` before it publishes
the same map in memory, so a write that fails leaves both alone, and one after
which the broker stops has the effect of the write followed by a restart. A
submission is three steps
(`BeginSubmit`, `PersistSubmit`, `FinishSubmit`), because the identity is
captured before it is made durable and the job is stored afterwards. The
worker follows `tick`: it copies the list of jobs and then handles each copy,
with a step for the revocation check, the credential, the admission
(durable `Sending` under the registry's lock), the request, the answer and the
record. Any write may fail, which ends the tick as `?` does. Sizes are units:
a job is 1, its answer `ResultSize`, and the reserve for answers in flight is
what `storage_usage` adds.

### GitPushes

As above, with the bundle directories (`artifacts`) as a second store that
cannot change together with the metadata, and the remote: the tip of the branch,
which may be missing, and the commits the repository has. `WorkerPush` may move
the branch and lose the report. Nothing in the code refuses a head that is the
branch's tip already; its push is up to date (which Git decides before it looks
at the lease), moves nothing, and is recorded as a response like any other.
`pushed` therefore counts the pushes that left the branch at the head. `ForeignPush`
is somebody else who moves the branch, to that head perhaps, or deletes it.
`LoadAccepts` is the consistency check of `load`; `up` is
whether the broker runs.

`PushBundle` is `prepare_remote`: the header, the import into a repository that
holds the prerequisite alone, the ancestry, the objects outside the reviewed
range, the linear list of commits and the files each one changes. Objects are
commits with their trees, and contents. Git is external and answers from
`History`, or fails. What can be reached from a commit (`Reach`) is the least set
that holds it and the parents of its members; `HistoryAssumption` says that
histories are finite and acyclic, which the hashes that name commits guarantee.
The reference (`Shows`) does not use the shallow repository, and measures from
the tip that the guest expects, which need not be the base: after a rebase
(`ASYNC-GRAPHQL.md:213`) the branch gains commits below the base as well. These are
not listed; what `Shows` says of them is that they are history of the displayed
base and that the repository has them, so that no commit new to it goes unlisted.
The commits that a rebase takes off the branch are not listed either. The page
shows the OIDs of tip, base and head.

### ReviewQueue

A request is its handler, in one of the phases of its task: `collecting`
(the body), `automatic` (allow-all decides inside `enqueue_review`), `waiting`,
`leaving` and `expiring` (inside `Ticket`'s drop and timeout, before the queue's
lock is got), `admitting`, `lookup` (an upload asks GitHub for the repository),
`forwarding`, `inflight`, `body` (a reviewed GraphQL response is read), and the
two ends of a request that is not forwarded: `failing` (a drop guard reports)
and `blocking` (the code reports). The five kinds of request are the branches
of `await_review` and `upload`.

Two branches of `review.rs` have no counterpart, because they cannot be
reached: the closed-channel cases of `decide` would need a dropped receiver
with an entry in the queue, and a ticket removes its entry before the receiver
is dropped.

### ClineEscrow, CommentGrants, ProxyRequest

`entries` and `disk` are the escrow entries and `escrow.json`, which is written
in place and so may be torn; `secrets` and `vault` the values in memory and on
disk. A sign-in is the flow of `ClineFlows` with a step per await; a refresh is
the loop of `main.rs`. Tokens carry the login they descend from. A comment
permission starts with `resolve_github_target`, which reads the guest's epoch and
revision, awaits GitHub, and stores what it found in the review;
`add_comment_permission` compares both again. A request goes through the gates,
`await_review` with the lookup under a permission, `substitute`, and the
lifecycle whose owners (the handler, the response, its body) all may finish it.
Gate and substitution are two steps since other threads run between them;
`moved` marks the requests during which the entry they present (or whether it has a
session) changed, where no order is promised. What one step still merges is the
copy of the entries and the questions about their sessions in
`is_cline_credential_host`, and the same in `substitute`.

`real_value` is not one read: it asks for the session under one lock
(`src/src/settings.rs:195`) and for the value under another (`:196`). A task that is about
to ask, when a session comes or goes, may already have asked for the session:
`ReadEarly` lets any such request, or the host's page, go on with the sessions
there were (`early`) and the values there will be. Both halves of a credential are
then from different times: a request that straddles `set_secret` may send the
static key with the prefix `workos:`, and one that straddles the end of a sign-in
the token without it. The comment at `src/src/settings.rs:149-151` is
not true of that window; `PrefixTellsTheTruth` is about every other request, and
says that no history of edits, sign-ins, refreshes, failed saves and starts leaves
a store from which a wrong prefix is sent. For a comment the mixed credential is
compared with the binding of the permission like any other.

### McpOauth, McpForwards

A `Session` object has a generation (its login), a connection epoch and a
`retired` flag; `flight` is the refresh lock, held over the request to the token
endpoint; `record` and `vault` are the token record in memory and on disk, kept
under the forward's name and so shared by successive sessions. A message holds
the forward it looked up, takes the session's lock, initializes the connection
if the epoch moved, and retries once after a 401. `Publish` holds the forwards' write
lock and is one step: it retires every session that was replaced, or fails with any
of them retired and the old map in place. The sessions that it retires one after the
other share nothing but the map. Authorization servers, upstreams and Cline's
settings are external. The refresh lock belongs to the `Session` object, not to
the name: a message of a retired session that has passed its check and not yet
loaded the record may load, and spend, the refresh token of its successor's login
(`src/src/mcp_oauth.rs:203`). Its answer is refused by `store`. `SpendsFresh`
therefore speaks of sessions in service; the message of the retired session takes
four acts of the host to appear, more than the run's bound. A rotated refresh token whose answer is lost, with the
message that asked for it, is not recovered; no document promises that it is.

### GraphqlDocument, GraphqlSummary, RequestPolicy, GraphqlReview

Documents are parsed ones: selections are numbered, and `syntax` says whether
the parser accepts. `GraphqlReview` runs the recursions of `graphql.rs` as
explicit stacks: `validate_fragments` over a set iterated in any order, the
directive scan, the expander with its depth, step, field and byte limits. The
references are not traversals: `Derivations` are the ways down from an operation,
selection by selection, `MeantFields` what they stand for; `Met` is the least set
of selections an operation holds and `MeansRead` what a server would do with the
body, whichever operation it picks; fragments are `Cyclic` when some of them go on
spreading each other, and too deep when there is a chain of them (`HasChain`).
`InputsAssumption` says what the parser makes of any text (`IsDocument`): finitely
many selections, each in the set that holds it. The enumerated requests are
families in `MCGraphqlReview`: nested, shared, cyclic and undefined fragments,
directives in all places, every summarised mutation with odd inputs, comments
with near misses, envelopes, transports and LFS batches.

### DisplayTargets

`cache` is `display_cache`, oldest first. A reader is a `review_request` handler:
it reads the review and the credential, runs its lookups concurrently under two
limits and a deadline, then reads credential and review again. These two reads
(`src/src/web.rs:1729`, `src/src/web.rs:1734`) are one step: no await lies between
them, and a credential that changes there changes as if right after the page was
made. `ListReviews`
is `permission_state_view`, which shows cached answers only. `past` is the history
of what GitHub would have said, against which what is shown is compared. `TargetAssumption`
is about GitHub: the ID it gives for a node, asked for again, is that node's.
`Keep`, in `Filters`, is the `retain` of the cache and the `filter` of the
summaries.

### SecretVault

`manifest` and `chunks` are entries of the operating system's credential store,
`legacy` and `marker` the files `secrets.json` and `os-secret-store.json`,
`lock` is `secret-store.lock`. A broker's process is a program counter with the
local variables of `migrate`, `load` and `save`; each entry that is written or
deleted is a step, which may fail, and may fail after it took effect (`ok =
FALSE`). `Aborted` is where an error leads: to the end of a starting broker, to
Settings, or, in the cleanup after a commit, nowhere. The value of the register
is the file's content while there is a file, and otherwise the snapshot the
manifest selects. With the marker written and the file still there, both agree;
after a migration that stopped earlier the file may be changed by a broker in
file mode, and then the next one in OS mode refuses to start, as documented
(`README.md`, "Conflicting OS/file values are never silently merged").

## 3. Runs

| Run | Question | Bounds |
|---|---|---|
| `guest_policy` | does no step make two guests share a pin, and does the registry keep decisions durable, admissions current, and the contract? | 2 guests that share a pin in the first file, 2 addresses, 1 handler, 3 policy changes, restarts or join requests after the first boot |
| `async_jobs` | is a job sent at most once, truthfully, never when revoked, and still its owner's after a restart? | 2 jobs, both active at once, 1 guest, 1 policy change or restart after the first boot, all failures |
| `job_limits` | does the answer in flight always fit, is only finished work dropped to make room, and does every waiting job end? | 3 jobs in a store with room for one active and one finished job; no policy change and no restart, which `async_jobs` has |
| `git_pushes` | is a publication pushed at most once, over the tip the guest saw, with what its review shows, is its status true, and is its bundle kept? | 2 publications of the same head, 4 kinds of bundle, a history of 1, 2 tips that others push any number of times, 1 policy change or restart after the first boot |
| `push_restart` | does the broker always start again from its own store? **violated**, see below | 2 publications |
| `review_queue` | is the queue free of ghosts, are settled outcomes kept, is only approved and authorised work sent, and does every handler let go of its body, slot and review? | 2 requests of all 5 kinds |
| `secret_vault` | is the active snapshot always complete, no entry orphaned, and the store a register through failures, crashes and migration? | 2 brokers, 3 snapshots of 1 or 2 chunks, 5 generations |
| `static_key` | does a static key end the Cline session it replaces? **violated**, see below | 1 entry, 1 sign-in |
| `proxy_request` | does Cline's account leave only through its gate, is what is sent prefixed as it should be, do comments pass only under a permission in force, are permissions fresh and counters exact? | 2 requests, each resolved once, 1 entry on 3 hosts, which may begin with a session about to be refreshed, 1 permission, 1 failure, 1 act of the host or the clock (edit, sign-in, expiry, start, revocation, transfer) |
| `mcp_forwards` | does a session in service spend a refresh token once, is no ended login revived, no token sent elsewhere, no connection shared between logins? | 1 forward, 2 upstreams, 2 messages, 2 logins, 1 refresh each, 1 failure, 3 acts |
| `graphql_review` | does only a read pass unasked, and is the review the request? | 7935 requests, depth 4, 5 steps, 4 fields, 2 facts |
| `display_targets` | is what the host is shown of a node true? | 2 reviews, 2 pages, a node with two IDs in 3 successive states, 1 rotation or decision |

Why the bounds are enough. The state that matters to a property is that of one
guest and one job or request, together with what can get in its way: another
owner of the address (hence two guests and two addresses in the registry),
another job in the store or on the branch (two or three), another review in
the queue or its history (two), another message or login that shares the
token (two), another page that shares the cache (two). `MaxStamp` bounds the steps
that draw a UUID, boots among them: `guest_policy` and `push_restart` have three and two
after the first boot, which covers revocation and restoration in one life;
`async_jobs`, `git_pushes` and `review_queue` have one, which revokes, kills,
re-pins or restarts once at any point, and `job_limits` none. That a change which is
undone is still seen is proved for any number of them (section 5), since every
change draws a new epoch. The clock has just the ticks to pass each deadline. `History = 1` makes
every second outcome evict the first. Limits are constants. Those of
`graphql_review` are exceeded by some of its requests and not by others; in
`job_limits` the store is full with two jobs; in `display_targets` the slots of a page
and of the process bind (one lookup at a time), the number of targets does
not. `AllowAll = TRUE` in the review run exercises
both automatic decisions (GitHub uploads) and manual ones (all others).

Deadlock checking is off: every model has a finite supply of submissions,
stamps and ticks and stops when it is used up.

Each property of a passing run has a mutant in `PROJECT.json`: a plausible
mistake in a named definition with which TLC finds the property violated. The
type invariants are not among the runs' properties: those of the modules with
proofs are theorems or conjuncts of the inductive invariants of section 5.

### Finding: a publication can keep the broker from starting

`push_restart` shows it. A publication whose 24 hours pass while it is
`Preparing` becomes `Expired` without a review. `load` accepts a missing review
only for `Preparing`, `Blocked` and `Cancelled` (`src/src/pushes.rs:397`), so the
next start fails. `ASYNC-GRAPHQL.md:253` promises that completed outcomes
remain retrievable over a restart.

### Finding: a refresh under way undoes the switch to a static key

`static_key` shows it. `refresh_cline` (`src/src/oauth.rs:247`) reads the session,
awaits the token endpoint, and stores the answer. `set_secret` removes the session
in the same write as it stores the key, "so neither background refresh nor the
`workos:` prefix can outlive the switch to a static key"
(`src/src/settings.rs:149-151`); but a refresh that read the session before puts
it back afterwards, over the key. MCP sessions do not have this: `store` compares
the generation (`NoRevival`). The prefix itself can outlive the switch in
a second way, with no refresh: in a request between the two reads of `real_value`
(section 2).

## 4. Fairness

* `job_limits`: weak fairness of the worker and the clock: the worker's task
  loops forever and its HTTP client has a timeout of 90 seconds. Strong fairness
  of the worker's writes: a disk may fail again and again, but not at every
  attempt from some time on. Nothing is assumed of the guest, the host, or
  restarts. `WaitingEnds` is about jobs that wait; a job in `Sending` whose
  record could not be written stays there until a restart, as
  `ASYNC-GRAPHQL.md:290` says.
* `review_queue`: weak fairness of a handler's own steps (a body must end
  within 10 seconds, a file within 60, a lookup within 60), of the end of a
  decision that holds the lock, and of the clock. The host may never decide,
  the client may never leave, the upstream may never answer.

The safety properties of these two runs do not depend on fairness; all other
runs assume none.

## 5. Proofs

TLAPS checks the following for all values of the constants: any sets of guests,
addresses, jobs, requests, brokers and sessions, any limits, any number of
restarts and failures. Each module proves that an inductive invariant
holds in every reachable state (`Invariance`, of `IInv` or `Inv`; `HostReview_proofs`
has one for each stage of the analysis, and `DisplayInv`) and draws the others from it. An action
property follows from the invariant and a look at each action; a refinement also
needs the initial states to map to initial states.

### `GuestPolicy_proofs`

| Theorem | Establishes |
|---|---|
| `TypeCorrect`, `AuthorityIsDurable`, `AdmissionIsCurrent` | `TypeOK`, `DurableAuthority`, `AdmittedUnchanged` |
| `AccessIsGiven` | `AccessGrowsByNameOnly` |
| `PinsAreNotShared` | `UniquePins`: no step makes two guests share a pin |
| `PinsStayUnique` | no two guests ever share one, where the first file has no shared pin |
| `AuthorityImplemented` | the refinement of `GuestAuthority` |

Assumptions: the constants' types, and that the first `containers.json` is one
`load` accepts; two of its guests may hold one pin, which `load` does not check.
`Inv` is the three invariants and `EpochsPast`: every epoch in the
registry or in a handler was drawn before now, and a handler whose guest's
authority changed holds an epoch that is no longer the registry's. That no pin is
shared anew needs `DurableAuthority`, because a restart takes the pins from the
file; admission is not inductive alone, because without
the freshness of epochs a change could bring back an old one. `EditOK` collects
what all policy writers guarantee of the edits they hand to `update_policy`, and
`Narrow` which guests an edit can let through from a new address, so that the
invariant, the action property and the refinement each argue about
`update_policy` once (`Commits`). The refinement is shown guest by guest: after
each step a guest is a successor, in the contract's sense, of what it was
(`Follows`). The attempt to prove it led to the numbering of the first boot: were
the first file's missing UUIDs drawn as step 0, an unapproved guest without an
incarnation in an old file would have looked like an absent one.

### `AsyncJobs_proofs`

| Theorem | Establishes |
|---|---|
| `TypeCorrect`, `SentAtMostOnce`, `StatusIsHonest`, `RevokedWorkIsNotSent` | `TypeOK`, `AtMostOnce`, `HonestStatus`, `RevokedNeverSent` |
| `ResultsAlwaysFit` | `RecordFits` |
| `NoJobIsLost`, `OwnersSurvive` | `NothingLost`, `OwnerSurvivesRestart` |

Assumptions: the constants' types, and that the reserve for one answer is at least
its size (`storage_usage` reserves six times the largest answer and 4096
bytes). `Inv` is the type invariant; `Numbered` (jobs are drawn in order);
`DraftBound` (a submission's identity is from the past); `AtMostOnce`;
`HonestStatus`; `FirstSend` (the job the worker is about to send has not been
sent and is durably `Sending`); `EpochsPast`; `CopiesAgree` (the worker's copy of a
job has the job's identity); and `RevokedStuck` (a job whose guest's authority
changed can no longer match it). `AtMostOnce` needs `FirstSend`, since it is the
durable status and not the worker's copy which says that nothing was sent. Two
more invariants stand on it: `Small`, that the store with its reserves is
within its limit, from which the answer of the job in flight fits because its
reserve is released by the same write; and `OwnersHeld`, that `containers.json`
has the incarnation of each guest that may use an address and owns a job or a
persisted submission.

### `ReviewQueue_proofs`

| Theorem | Establishes |
|---|---|
| `TypeCorrect`, `NoGhosts`, `NotSentIsHonest` | `TypeOK`, `NoGhostReviews`, `NotSentIsTrue` |
| `ApprovedBeforeSent`, `RevokedIsNotSent` | `SentWasApproved`, `RevokedNeverSent` |
| `SettledReviewsStay` | `SettledStays` |

Assumption: the constants' types (`QueueAssumption`). The retained reviews are a
sequence that every actor adds to and that loses its oldest members; the
invariant speaks of one request instead, of what its handler's phase, the answer
on its channel, its entry in the queue and the statuses shown of it can be
together (`Request`). A step of one request leaves the others' part alone
(`Frame`). `RevokedPart` says where a revoked request is stuck: before its
admission, with an epoch that is history.

### `SecretVault_proofs`

| Theorem | Establishes |
|---|---|
| `TypeCorrect`, `SnapshotSurvives`, `EntriesAreNamed` | `TypeOK`, `SnapshotIntact`, `NoOrphans` |
| `RegisterImplemented` | the refinement of `SecretRegister` |

Assumptions: the constants' types, and that `None` is not a value. Neither
invariant is inductive: what makes them so is what the process that holds the
lock knows at each of its steps (`ProcessOK`): that the manifest in its hand
is the stored one, that what it deletes is named as pending or retired and not as
current, that what it writes is named as pending, and whose snapshot it commits.
The last is what the refinement needs: the register changes where the manifest or
the file is written, and the end of a migration, which removes the file, leaves
it as it was.

### `GitPushes_proofs`

| Theorem | Establishes |
|---|---|
| `ReviewShows` | a review that `prepare_remote` derives shows what a push of the bundle brings, over any tip, for every history and bundle |
| `TypeCorrect`, `BundlesAreThere`, `StatusIsHonest` | `TypeOK`, `BundlesStay`, `HonestPublication` |
| `ReviewedBeforeSent` | `SentWasReviewed`, by `ReviewShows` |
| `LeaseProtects` | `NothingOverwritten` |

Assumptions: the constants' types, finite acyclic histories, and that a
repository has the parents of its commits. The examination sees the history cut
off at the base; what it lists is proved to be the ancestry of the head without
that of the base. They agree because the commits reviewed form one line
from the base: a commit on it that was older than the base would be its own
ancestor. The invariant of `GitPushes` relates the four copies of a publication:
metadata (`JobsOK`), directories (`StoreOK`), the worker's list and snapshot
(`BatchOK`, `WorkerOK`) and the submission (`DraftOK`). From the admission to the
record the publication is in the metadata as `Sending`, which only the worker
and a restart change; before the push it has not been pushed, and what it pushes
is the head of the stored review, since both reviews are that of the bundle.

### `ProxyRequest_proofs`

| Theorem | Establishes |
|---|---|
| `TruthOfPrefix`, `AccountGated`, `CountersExact` | `PrefixTellsTheTruth`, `AccountIsGated`, `ActiveIsExact` |
| `PermissionsAreFresh`, `PermissionsAreUsedAsGiven` | `GrantsAreFresh`, `CommentsAreGranted` |

Assumptions: the constants' types, and that keys, logins and `None` differ. The
invariant has a part per module, each with its types: `EscrowOK` (a session and
its mirrored token are stored together, in memory and on disk); `GrantOK`
(identifiers are drawn in order, and a revision still in force was read after
the last withdrawal); `EarlyOK` (a type); `HandlersOK` (the gate's answer is still
right unless the entry the request presents changed, and permissions looked up are
for the request's own credential); `CountersOK` (a host's counter is the number of its unfinished
lifecycles, which the three owners of a lifecycle share).
`PrefixTellsTheTruth` is about a step: whichever takes a value to send (`Sent`)
reads it from a store in which session and token agree, and read its sessions
there too unless `early` says otherwise. `AccountIsGated` needs that only the
entry a request presents is substituted for it, so that what the gate saw of that
entry (`GateHolds`) is all that counts, whatever happens to others.

### `McpForwards_proofs`

| Theorem | Establishes |
|---|---|
| `CancelledStaysCancelled`, `SingleFlight` | `NoRevival`, `SpendsFresh` |
| `CredentialsGoHome`, `ConnectionsAreOwn`, `StatusTellsTheTruth` | `TokenGoesHome`, `ConnectionIsOwn`, `ConnectedIsTrue` |

Assumptions: the constants' types, that `None` is none of the values, and that
there are sessions enough for a start. Two facts carry the invariant: a session
that is not retired is the published one of its name (`SessionsOK`), and
generations are drawn once (`LoginsOK`), so that an equal generation means that
nothing was stored or cancelled meanwhile. From them: the holder of the refresh
lock has the stored record, or a generation with which it may no longer store
(`MessagesOK`); a stored refresh token is newer than all replaced ones of its
login (`RecordsOK`). The attempt to prove `SpendsFresh` of all sessions failed
for the reason given in section 2.

### `HostReview_proofs`

| Theorem | Establishes |
|---|---|
| `ReadsPass` | `ReadExactly` |
| `ReviewsAreComplete`, `SummariesAreComplete`, `PlansAreExact` | `ReviewComplete`, `SummaryComplete`, `CommentPlanExact` |
| `PagesAreTrue` | `DisplayIsTrue` |

Assumptions: the parser's documents (`InputsAssumption`), an order of the
fragments' names (`OrderAssumption`), the limits (`LimitAssumption`,
`FactsAssumption`, `DisplayAssumption`) and GitHub's IDs (`TargetAssumption`).

The walks of `GraphqlReview` are compared with what documents mean, and some of
what they mean is defined by recursive functions (`Levels`, `Ways`, `FlattenSeq`).
The library's induction takes the property as an operator, which the
provers cannot instantiate; here it is a set of numbers instead (`Least`,
`Induct`), and that a recursive function exists at all is proved from its
finite beginnings (`Iterate`). With that:

* `ReadInv`: the stack of `validate_fragments` is a chain of fragments that
  spread each other, what it is done with spreads only what was done before
  (`WalkDone`), and what the directive scan has passed carries no unknown
  directive. A fragment met again on the stack makes the document `Cyclic`, a
  full stack is a chain as long as the limit, and an empty one leaves every
  fragment in an order in which none spreads a later one.
* `ReviewInv`: in the expander a way down from the operation is either still on the
  stack of frames (`Remaining`) or done, and each field on a done way is listed
  once (`Covers`), with what the way stands for (`FieldsOK`, `FramesOK`). At the
  end nothing remains. That all ways are among the `Derivations`, which are no longer
  than there are selections, is the pigeonhole: a longer way goes round, and then
  there would be ways longer than the depth limit, which the expander would not
  have finished (`WaysAreShort`).
* `SummariesAreComplete` follows from `ReviewInv` and lemmas about the overview: the
  writes come first in it (`OrderedFacts`), the operations left out are as many as
  it says (`UnseenCounted`), pushing facts leaves its operations alone
  (`FactsKeep`), and a summary covers each member of the input or warns of it
  (`InputReported`).
* `PlanOK`: a plan is what `comment_plan` made of this request, and such a request
  has one way down to a field.
* `DisplayInv`: an entry of the cache is what GitHub said of the node to the
  credential with that binding, at most a deadline before the entry was made
  (`EntryOK`), and what a page holds was said to the credential it read
  (`ReadersOK`); its second look then makes that the one in force.

The attempts led to the references as they are now: `Cyclic` says what makes a
document endless and not which walk would find it, and `Met` does not repeat the
walk it is compared with.

### Only model-checked

* Liveness (`WaitingEnds`, `ReviewsEnd`): fairness and `ENABLED` are out of the
  prover's reach.
* The two violated properties are not invariants.

## 6. Not modelled

* Characters: the GraphQL lexer and parser, JSON, header and URL syntax, patches
  and the wording of summaries. Whether a text parses is an input.
* Git, GitHub, Linear, WorkOS, Cline, upstream MCP servers and authorization
  servers: external, modelled by how the code uses them, with every answer and
  failure the code distinguishes.
* The answers of upload providers (`uploads.rs`) are one outcome; OAuth discovery
  and client registration (`mcp_oauth.rs`) are one step.
* The archive of version 1 stores of publications.
* Sockets, tunnels, TLS, event streams, the pages of the request log.
* The guest plugin, which runs in the guest: the broker's side of
  acknowledgement is in `AsyncJobs`.
* Limits that cannot be reached because another binds first: 32 active jobs
  do not fit the reserve of `storage_usage`, which allows about ten.
* Telemetry, the certificate authority, the UI, bootstrap scripts and the
  command line: they decide nothing.

## 7. Plan

What is there is modelled and checked, and every safety and action property of
the passing runs is proved. Only liveness is left to the runs.

To model, if the code around them grows: the plugin's checkpoints against
`AsyncJobs`, the parsing of upload providers' answers, the listener's restart.
