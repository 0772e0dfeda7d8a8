-------------------------- MODULE DisplayTargets --------------------------
(***************************************************************************)
(* What the host sees of the GitHub nodes a request names: lookups with    *)
(* the escrow credential of the request, and their cache                   *)
(* (src/src/github.rs), the bounded resolution of one review               *)
(* (Detail::resolve_display in src/src/review.rs), and the two handlers    *)
(* that show it (review_request and permission_state_view in               *)
(* src/src/web.rs).                                                        *)
(*                                                                         *)
(* A handler reads the review, the credential and the cache, then waits    *)
(* for GitHub; meanwhile the credential is rotated, the review is decided  *)
(* or forgotten, nodes move and other handlers fill the cache.  Titles and *)
(* branch names are left out.                                              *)
(***************************************************************************)
EXTENDS Filters, FiniteSets

CONSTANTS
  Nil,          \* an absent value
  Reviews,      \* requests under review
  TargetsOf,    \* review -> sequence of distinct [id, type]
  Presented,    \* review -> the fake credential its request carries
  Entries,      \* supported escrow entries of api.github.com
  FakeOf,       \* entry -> its fake
  Secrets,      \* values a secret may have
  NodeOf,       \* ID -> the node it identifies (old and new IDs of one node)
  Snapshots,    \* node -> the answers GitHub gives for it, one after the other
  Readers,      \* requests of the host's page
  Lifetime,     \* DISPLAY_CACHE_TTL (60 s)
  Deadline,     \* time for one review's lookups (8 s)
  CacheLimit,   \* DISPLAY_CACHE_LIMIT (256)
  MaxTargets,   \* targets looked up for one review (32)
  Concurrent,   \* lookups of one review at a time (4)
  Slots,        \* lookups in all at a time (4)
  MaxNow,       \* bound on the clock
  MaxChanges    \* bound on the host's changes

ASSUME DisplayAssumption ==
  {Lifetime, Deadline, CacheLimit, MaxTargets, Concurrent, Slots, MaxNow,
   MaxChanges} \subseteq Nat \ {0}

\* The requests name nodes; the ID that GitHub gives for a node is one of that
\* node.
ASSUME TargetAssumption ==
  /\ \A v \in Reviews : Len(TargetsOf[v]) \in Nat /\ DOMAIN TargetsOf[v] = 1 .. Len(TargetsOf[v])
  /\ \A v \in Reviews : \A i \in DOMAIN TargetsOf[v] : TargetsOf[v][i].id \in DOMAIN NodeOf
  /\ \A id \in DOMAIN NodeOf :
       /\ NodeOf[id] \in DOMAIN NodeOf /\ NodeOf[NodeOf[id]] = NodeOf[id]
       /\ NodeOf[id] \in DOMAIN Snapshots

VARIABLES
  escrow,   \* entry -> its secret, or Nil
  reviews,  \* review -> [status, binding]
  nodes,    \* node -> which of its answers GitHub gives now
  cache,    \* display_cache, oldest first
  reader,   \* reader -> its handler
  page,     \* what the host is shown in this step: a set of reviews
  now,      \* the clock
  past,     \* history: <<time, node, answer>>
  changes   \* how much of it is used

displayVars == <<escrow, reviews, nodes, cache, reader, page, now, past, changes>>

-----------------------------------------------------------------------------
(* Credentials *)

\* Credential::from_entry: the binding names the entry and digests its secret.
FromEntry(e) == IF escrow[e] = Nil THEN Nil ELSE [entry |-> e, digest |-> escrow[e]]

\* Credential::current: the binding, if it is still the entry's.
Current(binding) ==
  IF binding # Nil /\ FromEntry(binding.entry) = binding THEN binding ELSE Nil

\* display_credential: only a fake that one entry has.
DisplayCredential(v) ==
  LET matching == {e \in Entries : FakeOf[e] = Presented[v]}
  IN IF Cardinality(matching) = 1 THEN FromEntry(CHOOSE e \in matching : TRUE) ELSE Nil

-----------------------------------------------------------------------------
(* What GitHub answers *)

\* A node is [kind, repository, number, url]; url is the tuple it is made of.
OfPullRequest ==
  {"PullRequest", "PullRequestReview", "PullRequestReviewThread", "PullRequestReviewComment"}

Segment(kind) == IF kind = "Issue" THEN "issues" ELSE "pull"

\* display_metadata: a supported type whose URL is that of its identity.  The
\* credential of the lookup, by, is history.
DisplayMetadata(id, node, by) ==
  LET repository == node.kind = "Repository"
      url == IF repository THEN <<node.repository>>
             ELSE <<node.repository, Segment(node.kind), node.number>>
  IN IF node.kind \in OfPullRequest \cup {"Issue", "Repository"} /\ node.url = url
     THEN [node |-> id, kind |-> node.kind, repository |-> node.repository,
           number |-> IF repository THEN Nil ELSE node.number, url |-> node.url, at |-> now,
           by |-> by]
     ELSE Nil

CheckDisplayType(kind, expected) ==
  \/ kind = expected
  \/ expected = "Node (unknown type)"
  \/ expected = "Issue or PullRequest" /\ kind \in {"Issue", "PullRequest"}

-----------------------------------------------------------------------------
(* The cache *)

Young(c) == Keep(c, {i \in DOMAIN c : now < c[i].inserted + Lifetime})

Matches(entry, id, binding) ==
  entry.binding = binding /\ (entry.requested = id \/ entry.lookup.node = id)

\* cached_display: the first entry under the credential, if its type fits.
CachedDisplay(target, binding) ==
  LET young == Young(cache)
      found == {i \in DOMAIN young : Matches(young[i], target.id, binding)}
      lookup == young[CHOOSE i \in found : \A j \in found : i <= j].lookup
  IN IF found # {} /\ CheckDisplayType(lookup.kind, target.type) THEN lookup ELSE Nil

\* resolve_display: a new entry replaces the one of the same request, and the
\* oldest ones make room.
Cached(id, binding, lookup) ==
  LET young == Young(cache)
      kept == Keep(young, {i \in DOMAIN young :
                             ~(young[i].binding = binding /\ young[i].requested = id)})
      room == IF Len(kept) < CacheLimit THEN kept
              ELSE SubSeq(kept, Len(kept) - CacheLimit + 2, Len(kept))
  IN Append(room, [binding |-> binding, requested |-> id, inserted |-> now, lookup |-> lookup])

-----------------------------------------------------------------------------
(* review_request *)

Retained == {v \in DOMAIN reviews : reviews[v].status # "forgotten"}

IdleReader == [phase |-> "idle"]
Waiting == "waiting"
Failed == "failed"

Busy == {r \in Readers : reader[r].phase = "resolving"}
InFlight(r) == {i \in DOMAIN reader[r].lookups : reader[r].lookups[i].step \in {"asked", "read"}}
Lookup(step, value) == [step |-> step, value |-> value]
Target(r, i) == TargetsOf[reader[r].review][i]
Put(r, i, lookup) == reader' = [reader EXCEPT ![r].lookups[i] = lookup]

\* The review and its credential are read; without one nothing is looked up.
Inspect(r, v) ==
  LET credential == Current(reviews[v].binding)
      some == IF credential = Nil THEN 0
              ELSE IF Len(TargetsOf[v]) < MaxTargets THEN Len(TargetsOf[v]) ELSE MaxTargets
  IN /\ reader[r] = IdleReader
     /\ reader' = [reader EXCEPT ![r] =
          [phase |-> "resolving", review |-> v, credential |-> credential, start |-> now,
           lookups |-> [i \in 1 .. some |-> Lookup(Waiting, Nil)]]]
     /\ UNCHANGED <<escrow, reviews, nodes, cache, now, past, changes>>

\* The next lookup of a review is polled up to its first await: the cache, then
\* a slot, then the request.
Ask(r, i) ==
  LET hit == CachedDisplay(Target(r, i), reader[r].credential)
  IN /\ r \in Busy
     /\ reader[r].lookups[i].step = Waiting
     /\ \A j \in 1 .. i - 1 : reader[r].lookups[j].step # Waiting
     /\ Cardinality(InFlight(r)) < Concurrent
     /\ cache' = Young(cache)
     /\ Put(r, i, IF hit # Nil THEN Lookup("done", hit)
                  ELSE IF Cardinality(UNION {InFlight(s) \X {s} : s \in Busy}) >= Slots
                  THEN Lookup(Failed, Nil)
                  ELSE Lookup("asked", Nil))
     /\ UNCHANGED <<escrow, reviews, nodes, now, past, changes>>

\* GitHub answers, from what it knows then.
GithubAnswers(r, i) ==
  /\ r \in Busy
  /\ reader[r].lookups[i].step = "asked"
  /\ LET n == NodeOf[Target(r, i).id] IN Put(r, i, Lookup("read", Snapshots[n][nodes[n]]))
  /\ UNCHANGED <<escrow, reviews, nodes, cache, now, past, changes>>

\* The answer arrives, is checked and cached.
Arrive(r, i) ==
  LET t == Target(r, i)
      lookup == DisplayMetadata(NodeOf[t.id], reader[r].lookups[i].value, reader[r].credential)
  IN /\ r \in Busy
     /\ reader[r].lookups[i].step = "read"
     /\ IF lookup # Nil /\ CheckDisplayType(lookup.kind, t.type)
        THEN /\ Put(r, i, Lookup("done", lookup))
             /\ cache' = Cached(t.id, reader[r].credential, lookup)
        ELSE Put(r, i, Lookup(Failed, Nil)) /\ UNCHANGED cache
     /\ UNCHANGED <<escrow, reviews, nodes, now, past, changes>>

\* No connection, an HTTP status, GraphQL errors, a large or partial answer.
LookupFails(r, i) ==
  /\ r \in Busy
  /\ reader[r].lookups[i].step = "asked"
  /\ Put(r, i, Lookup(Failed, Nil))
  /\ UNCHANGED <<escrow, reviews, nodes, cache, now, past, changes>>

\* What a page shows of a review.
Page(v, shown) ==
  [review |-> v, status |-> reviews[v].status, shown |-> shown]
Nothing(v) == [i \in DOMAIN TargetsOf[v] |-> Nil]

\* Mutant of StillCurrent: the credential was current when the page was asked for.
StillCurrentAtFirst(credential) == credential # Nil

\* The credential is looked at again after the lookups.
StillCurrent(credential) == Current(credential) # Nil

\* All lookups are there or the time is up, which drops the others.  The
\* review's own state is read again.
Answer(r) ==
  LET v == reader[r].review
      found == reader[r].lookups
      shown == [i \in DOMAIN TargetsOf[v] |->
                  IF i \in DOMAIN found /\ found[i].step = "done" THEN found[i].value ELSE Nil]
  IN /\ r \in Busy
     /\ \/ \A i \in DOMAIN found : found[i].step \in {"done", Failed}
        \/ reader[r].start + Deadline <= now
     /\ reader' = [reader EXCEPT ![r] = IdleReader]
     /\ page' = IF v \notin Retained THEN {}
                ELSE {Page(v, IF StillCurrent(reader[r].credential) THEN shown ELSE Nothing(v))}
     /\ UNCHANGED <<escrow, reviews, nodes, cache, now, past, changes>>

\* permission_state_view: every review, from the cache alone.
ListReviews ==
  LET shown(v) ==
        LET credential == Current(reviews[v].binding)
        IN IF credential = Nil THEN Nothing(v)
           ELSE [i \in DOMAIN TargetsOf[v] |-> CachedDisplay(TargetsOf[v][i], credential)]
  IN /\ page' = {Page(v, shown(v)) : v \in Retained}
     /\ cache' = Young(cache)
     /\ UNCHANGED <<escrow, reviews, nodes, reader, now, past, changes>>

-----------------------------------------------------------------------------
(* The rest of the broker, and GitHub *)

\* await_review binds a review to the credential of its request.
Enqueue(v) ==
  /\ v \notin DOMAIN reviews
  /\ reviews' = [x \in DOMAIN reviews \cup {v} |->
                   IF x = v THEN [status |-> "pending", binding |-> DisplayCredential(v)]
                   ELSE reviews[x]]
  /\ UNCHANGED <<escrow, nodes, cache, reader, now, past, changes>>

SettleReview(v) ==
  /\ reviews[v].status = "pending"
  /\ changes < MaxChanges
  /\ changes' = changes + 1
  /\ reviews' = [reviews EXCEPT ![v].status = "settled"]
  /\ UNCHANGED <<escrow, nodes, cache, reader, now, past>>

\* The history limit is reached.
Forget(v) ==
  /\ reviews[v].status = "settled"
  /\ changes < MaxChanges
  /\ changes' = changes + 1
  /\ reviews' = [reviews EXCEPT ![v].status = "forgotten"]
  /\ UNCHANGED <<escrow, nodes, cache, reader, now, past>>

SetSecret(e, secret) ==
  /\ escrow[e] # secret
  /\ changes < MaxChanges
  /\ changes' = changes + 1
  /\ escrow' = [escrow EXCEPT ![e] = secret]
  /\ UNCHANGED <<reviews, nodes, cache, reader, now, past>>

Transfer(n) ==
  /\ nodes[n] < Len(Snapshots[n])
  /\ nodes' = [nodes EXCEPT ![n] = @ + 1]
  /\ past' = past \cup {<<now, n, nodes[n] + 1>>}
  /\ UNCHANGED <<escrow, reviews, cache, reader, now, changes>>

\* A timer that is due fires before the clock moves on.
Tick ==
  /\ now < MaxNow
  /\ \A r \in Busy : now < reader[r].start + Deadline
  /\ now' = now + 1
  /\ past' = past \cup {<<now + 1, n, nodes[n]>> : n \in DOMAIN nodes}
  /\ UNCHANGED <<escrow, reviews, nodes, cache, reader, changes>>

-----------------------------------------------------------------------------
(* The specification *)

DisplayInit ==
  /\ escrow \in [Entries -> Secrets]
  /\ reviews = [v \in {} |-> Nil]
  /\ nodes = [n \in DOMAIN Snapshots |-> 1]
  /\ cache = <<>>
  /\ reader = [r \in Readers |-> IdleReader]
  /\ page = {}
  /\ now = 0
  /\ changes = 0
  /\ past = {<<0, n, nodes[n]>> : n \in DOMAIN nodes}

ReaderStep ==
  \E r \in Readers :
    \/ \E v \in Retained : Inspect(r, v)
    \/ r \in Busy /\ \E i \in DOMAIN reader[r].lookups :
         Ask(r, i) \/ GithubAnswers(r, i) \/ Arrive(r, i) \/ LookupFails(r, i)

BrokerStep ==
  \/ \E v \in Reviews : Enqueue(v)
  \/ \E v \in Retained : SettleReview(v) \/ Forget(v)
  \/ \E e \in Entries, secret \in Secrets \cup {Nil} : SetSecret(e, secret)

Quiet ==
  \/ ReaderStep
  \/ BrokerStep
  \/ \E n \in DOMAIN Snapshots : Transfer(n)
  \/ Tick

DisplayNext ==
  \/ Quiet /\ page' = {}
  \/ \E r \in Readers : Answer(r)
  \/ ListReviews

DisplaySpec == DisplayInit /\ [][DisplayNext]_displayVars

-----------------------------------------------------------------------------
(* Properties *)

\* What is shown of a target is true: it is of the node the request names and
\* of the expected type; GitHub said so at the time given, up to the length of
\* a lookup; and that is not longer ago than an entry lives and a page takes.
Accurate(target, l) ==
  /\ l.node = NodeOf[target.id]
  /\ CheckDisplayType(l.kind, target.type)
  /\ \E h \in past :
       /\ h[2] = l.node /\ h[1] <= l.at /\ l.at <= h[1] + Deadline
       /\ LET said == Snapshots[l.node][h[3]]
          IN said.kind = l.kind /\ said.repository = l.repository /\ said.url = l.url
  /\ now <= l.at + Lifetime + Deadline

(***************************************************************************)
(* What a page shows the host of the nodes a request names is accurate,    *)
(* although lookups, the cache and other pages overlap with transfers; it  *)
(* is what the request's own credential can see, and shown only while that *)
(* credential is in force, though it may be rotated during the lookups;    *)
(* and the page has the review's present status, not the one it had before *)
(* them (review_request, resolve_display, cached_display).                 *)
(***************************************************************************)
DisplayIsTrue ==
  \A p \in page :
    /\ p.status = reviews[p.review].status
    /\ \A i \in DOMAIN p.shown :
         p.shown[i] # Nil =>
           /\ Current(reviews[p.review].binding) # Nil
           /\ p.shown[i].by = reviews[p.review].binding
           /\ Accurate(TargetsOf[p.review][i], p.shown[i])
=============================================================================
