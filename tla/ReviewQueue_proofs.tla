------------------------- MODULE ReviewQueue_proofs -------------------------
(***************************************************************************)
(* Proofs about ReviewQueue, for any number of requests, guests and        *)
(* addresses, any limits and any length of the retained history.           *)
(*                                                                         *)
(* The properties speak of the retained reviews, which every actor adds to *)
(* and which age out.  The inductive invariant is stated request by        *)
(* request instead: what the phase of a handler, the answer on its channel *)
(* and its entries in the queue can be together.  A step that concerns one *)
(* request leaves the others' part alone (Frame); only a change of policy  *)
(* concerns several at once.                                               *)
(***************************************************************************)
EXTENDS ReviewQueue, TLAPS, FiniteSetTheorems, SequenceTheorems

Ticketed == {"automatic", "waiting", "leaving", "expiring"}

\* The statuses under which a sequence of reviews shows a request.
StatusesIn(s, r) == {s[i].status : i \in {k \in DOMAIN s : s[k].id = r}}
Shown(r) == StatusesIn(recent, r)

\* Each review is shown once.
Unique(s) == \A i, j \in DOMAIN s : s[i].id = s[j].id => i = j

\* What may be sent without the host, and what the host agreed to.
Entitled(r) ==
  \/ r \in agreed
  \/ handler[r].kind = "read"
  \/ handler[r].kind = "github" /\ AllowAll

\* A waiting review has not been answered and is not retained.
PendingPart(r) ==
  r \in DOMAIN pending =>
    handler[r].phase \in Ticketed /\ Shown(r) = {} /\ answer[r] = None

\* Before its review is enqueued a request has left no trace.
FreshPart(r) ==
  handler[r].phase \in {"idle", "collecting"} => Shown(r) = {} /\ answer[r] = None

\* An approval, and what it leads to, is the host's or that of allow-all.
AnswerPart(r) ==
  /\ handler[r].phase = "automatic" => handler[r].kind = "github" /\ AllowAll
  /\ answer[r] = "Approve" => Entitled(r)
  /\ handler[r].phase \in {"admitting", "lookup"} \cup Upstream => Entitled(r)
  /\ r \in sent => Entitled(r)

\* The retained review of an approved request is active until its handler ends.
ShownPart(r) ==
  /\ answer[r] = "Approve" /\ handler[r].phase \in {"waiting", "leaving", "expiring"}
       => Shown(r) \subseteq Active
  /\ handler[r].phase \in {"admitting", "lookup", "forwarding", "inflight"}
       => Shown(r) \subseteq Active
  /\ handler[r].phase \in {"body", "done"} => Shown(r) \cap Active = {}
  /\ r \in sent => Shown(r) \cap NotSent = {}

SentPart(r) ==
  /\ r \in sent => handler[r].phase \in {"inflight", "body", "done"}
  /\ row[r] = "Blocked" => handler[r].phase = "done" /\ r \notin sent

\* A revoked request is stuck before its admission: its epoch is history.
RevokedPart(r) ==
  r \in revoked =>
    /\ handler[r].phase \notin Upstream \cup {"idle"}
    /\ handler[r].phase \in BeforeAdmission => ~Current(r)
    /\ r \notin sent

Request(r) ==
  /\ PendingPart(r) /\ FreshPart(r) /\ AnswerPart(r) /\ ShownPart(r) /\ SentPart(r)
  /\ RevokedPart(r)

EpochsPast == \A r \in Requests : handler[r].phase # "idle" => handler[r].epoch < stamp

IInv ==
  /\ TypeOK
  /\ Unique(recent)
  /\ IsFiniteSet(DOMAIN pending)
  /\ EpochsPast
  /\ \A n \in Names : identity[n].epoch < stamp
  /\ \A r \in Requests : Request(r)

-----------------------------------------------------------------------------
(* The retained reviews *)

\* What is shown of a request, element by element.
LEMMA ShownElement ==
  ASSUME NEW s, NEW r
  PROVE  /\ \A i \in DOMAIN s : s[i].id = r => s[i].status \in StatusesIn(s, r)
         /\ \A st \in StatusesIn(s, r) : \E i \in DOMAIN s : s[i].id = r /\ s[i].status = st
  BY DEF StatusesIn

\* A sequence each element of which comes from another, at an index of its own,
\* shows no more.
LEMMA ShownFewer ==
  ASSUME NEW s, NEW t, NEW k,
         \A i \in DOMAIN t : k[i] \in DOMAIN s /\ t[i] = s[k[i]],
         \A i, j \in DOMAIN t : k[i] = k[j] => i = j
  PROVE  /\ Unique(s) => Unique(t)
         /\ \A q : StatusesIn(t, q) \subseteq StatusesIn(s, q)
<1>1. Unique(s) => Unique(t)
  BY DEF Unique
<1>2. ASSUME NEW q, NEW st \in StatusesIn(t, q) PROVE st \in StatusesIn(s, q)
  <2>1. PICK i \in DOMAIN t : t[i].id = q /\ t[i].status = st
    BY ShownElement
  <2> QED  BY <2>1, ShownElement
<1> QED  BY <1>1, <1>2

\* Dropping the oldest reviews.
LEMMA RetainedShape ==
  ASSUME NEW s \in Seq(Review)
  PROVE  /\ Retained(s) \in Seq(Review)
         /\ Len(Retained(s)) <= History
         /\ Unique(s) => Unique(Retained(s))
         /\ \A q : StatusesIn(Retained(s), q) \subseteq StatusesIn(s, q)
<1>0. History \in Nat
  BY QueueAssumption
<1>1. CASE Len(s) <= History
  BY <1>0, <1>1 DEF Retained
<1>2. CASE Len(s) > History
  <2> DEFINE t == SubSeq(s, Len(s) - History + 1, Len(s))
             k == [i \in 1 .. History |-> i + Len(s) - History]
  <2>1. Retained(s) = t
    BY <1>2 DEF Retained
  <2>2. t \in Seq(Review) /\ Len(t) = History
    BY <1>0, <1>2
  <2>3. DOMAIN t = 1 .. History
    BY <1>0, <2>2
  <2>4. \A i \in DOMAIN t : k[i] \in DOMAIN s /\ t[i] = s[k[i]]
    BY <1>0, <1>2, <2>3
  <2>5. \A i, j \in DOMAIN t : k[i] = k[j] => i = j
    BY <1>0, <2>3
  <2>6. (Unique(s) => Unique(t)) /\ \A q : StatusesIn(t, q) \subseteq StatusesIn(s, q)
    <3> HIDE DEF t, k
    <3> QED  BY <2>4, <2>5, ShownFewer
  <2> QED  BY <2>1, <2>2, <2>6, <1>0
<1> QED  BY <1>0, <1>1, <1>2

\* archive: the review is shown once, under its new status.
LEMMA ArchivedShape ==
  ASSUME NEW s \in Seq(Review), Unique(s), NEW r \in Requests, NEW st \in Status,
         StatusesIn(s, r) = {}
  PROVE  LET t == Retained(Append(s, [id |-> r, status |-> st]))
         IN /\ t \in Seq(Review)
            /\ Len(t) <= History
            /\ Unique(t)
            /\ \A q : q # r => StatusesIn(t, q) \subseteq StatusesIn(s, q)
            /\ StatusesIn(t, r) \subseteq {st}
<1> DEFINE e == [id |-> r, status |-> st]
           a == Append(s, e)
<1>1. e \in Review /\ e.id = r /\ e.status = st
  BY DEF Review
<1>2. /\ a \in Seq(Review) /\ DOMAIN a = 1 .. Len(s) + 1 /\ DOMAIN s = 1 .. Len(s)
      /\ \A i \in 1 .. Len(s) : a[i] = s[i]
      /\ a[Len(s) + 1] = e
  BY <1>1
<1>3. \A i \in DOMAIN s : s[i].id # r
  BY ShownElement
<1> HIDE DEF e, a
<1>4. \A i \in DOMAIN a : i = Len(s) + 1 \/ i \in DOMAIN s
  BY <1>2
<1>5. Unique(a)
  BY <1>1, <1>2, <1>3, <1>4 DEF Unique
<1>6. ASSUME NEW q, q # r, NEW x \in StatusesIn(a, q) PROVE x \in StatusesIn(s, q)
  <2>1. PICK i \in DOMAIN a : a[i].id = q /\ a[i].status = x
    BY ShownElement
  <2>2. i \in DOMAIN s /\ a[i] = s[i]
    BY <1>1, <1>2, <1>4, <1>6, <2>1
  <2> QED  BY <2>1, <2>2, ShownElement
<1>7. ASSUME NEW x \in StatusesIn(a, r) PROVE x = st
  <2>1. PICK i \in DOMAIN a : a[i].id = r /\ a[i].status = x
    BY ShownElement
  <2>2. i = Len(s) + 1
    BY <1>2, <1>3, <1>4, <2>1
  <2> QED  BY <1>1, <1>2, <2>1, <2>2
<1>8. /\ Retained(a) \in Seq(Review) /\ Len(Retained(a)) <= History /\ Unique(Retained(a))
      /\ \A q : StatusesIn(Retained(a), q) \subseteq StatusesIn(a, q)
  BY <1>2, <1>5, RetainedShape
<1> QED  BY <1>6, <1>7, <1>8 DEF e, a

\* observe and response_detail change statuses of one request in place: those
\* in From become st.
Changed(s, t, r, From, st) ==
  /\ DOMAIN t = DOMAIN s
  /\ \A i \in DOMAIN s :
       t[i] = IF s[i].id = r /\ s[i].status \in From
              THEN [s[i] EXCEPT !.status = st] ELSE s[i]

LEMMA ChangedShape ==
  ASSUME NEW s \in Seq(Review), NEW t, NEW r \in Requests, NEW From, NEW st \in Status,
         Changed(s, t, r, From, st), t = [i \in DOMAIN s |-> t[i]]
  PROVE  /\ t \in Seq(Review)
         /\ Len(t) = Len(s)
         /\ \A i \in DOMAIN s : t[i].id = s[i].id
         /\ Unique(s) => Unique(t)
         /\ \A q : q # r => StatusesIn(t, q) \subseteq StatusesIn(s, q)
         /\ StatusesIn(t, r) \subseteq (StatusesIn(s, r) \ From) \cup {st}
         /\ StatusesIn(s, r) = {} => StatusesIn(t, r) = {}
<1>1. \A i \in DOMAIN s : s[i] \in Review
  OBVIOUS
<1>2. \A i \in DOMAIN s : t[i] \in Review /\ t[i].id = s[i].id
  BY <1>1 DEF Changed, Review
<1>3. DOMAIN s = 1 .. Len(s) /\ Len(s) \in Nat
  OBVIOUS
<1>4. t \in [1 .. Len(s) -> Review]
  BY <1>2, <1>3
<1>5. t \in Seq(Review) /\ Len(t) = Len(s)
  BY <1>3, <1>4
<1>6. Unique(s) => Unique(t)
  BY <1>2 DEF Unique, Changed
<1>7. ASSUME NEW q, NEW x \in StatusesIn(t, q)
      PROVE  /\ x \in StatusesIn(s, q) \/ (q = r /\ x = st)
             /\ q = r => x \notin From \/ x = st
             /\ StatusesIn(s, q) # {}
  <2>1. PICK i \in DOMAIN t : t[i].id = q /\ t[i].status = x
    BY ShownElement
  <2>2. i \in DOMAIN s /\ s[i].id = q /\ s[i] \in Review
    BY <1>1, <1>2, <2>1 DEF Changed
  <2>3. s[i].status \in StatusesIn(s, q)
    BY <2>2, ShownElement
  <2>4. CASE q = r /\ s[i].status \in From
    <3>1. t[i] = [s[i] EXCEPT !.status = st]
      BY <2>2, <2>4 DEF Changed
    <3>2. x = st
      BY <2>1, <2>2, <3>1 DEF Review
    <3> QED  BY <2>3, <2>4, <3>2
  <2>5. CASE ~(q = r /\ s[i].status \in From)
    <3>1. t[i] = s[i]
      BY <2>2, <2>5 DEF Changed
    <3> QED  BY <2>1, <2>3, <2>5, <3>1
  <2> QED  BY <2>4, <2>5
<1> QED  BY <1>2, <1>5, <1>6, <1>7

LEMMA ChangedNothing ==
  ASSUME NEW s, NEW t, NEW r, NEW From, NEW st,
         Changed(s, t, r, From, st), StatusesIn(s, r) \cap From = {}
  PROVE  StatusesIn(t, r) \subseteq StatusesIn(s, r)
<1> SUFFICES ASSUME NEW x \in StatusesIn(t, r) PROVE x \in StatusesIn(s, r)
  OBVIOUS
<1>1. PICK i \in DOMAIN t : t[i].id = r /\ t[i].status = x
  BY ShownElement
<1>2. i \in DOMAIN s /\ (s[i].id = r => s[i].status \notin From)
  BY ShownElement DEF Changed
<1>3. t[i] = s[i]
  BY <1>2 DEF Changed
<1> QED  BY <1>1, <1>2, <1>3, ShownElement

LEMMA ObservedShape ==
  ASSUME NEW s \in Seq(Review), NEW r \in Requests, NEW st \in Status
  PROVE  LET t == Observed(s, r, st)
         IN /\ t \in Seq(Review)
            /\ Len(t) = Len(s)
            /\ Unique(s) => Unique(t)
            /\ \A q : q # r => StatusesIn(t, q) \subseteq StatusesIn(s, q)
            /\ StatusesIn(t, r) \subseteq (StatusesIn(s, r) \ Active) \cup {st}
            /\ StatusesIn(s, r) = {} => StatusesIn(t, r) = {}
            /\ StatusesIn(s, r) \cap Active = {} => StatusesIn(t, r) \subseteq StatusesIn(s, r)
<1> DEFINE t == Observed(s, r, st)
<1>1. Changed(s, t, r, Active, st) /\ t = [i \in DOMAIN s |-> t[i]]
  BY DEF Observed, Changed
<1> HIDE DEF t
<1>2. /\ t \in Seq(Review) /\ Len(t) = Len(s) /\ (Unique(s) => Unique(t))
      /\ \A q : q # r => StatusesIn(t, q) \subseteq StatusesIn(s, q)
      /\ StatusesIn(t, r) \subseteq (StatusesIn(s, r) \ Active) \cup {st}
      /\ StatusesIn(s, r) = {} => StatusesIn(t, r) = {}
  BY <1>1, ChangedShape
<1>3. StatusesIn(s, r) \cap Active = {} => StatusesIn(t, r) \subseteq StatusesIn(s, r)
  BY <1>1, ChangedNothing, Zenon
<1> QED  BY <1>2, <1>3 DEF t

LEMMA DetailedShape ==
  ASSUME NEW s \in Seq(Review), NEW r \in Requests, NEW st \in Status
  PROVE  LET t == Detailed(s, r, st)
         IN /\ t \in Seq(Review)
            /\ Len(t) = Len(s)
            /\ Unique(s) => Unique(t)
            /\ \A q : q # r => StatusesIn(t, q) \subseteq StatusesIn(s, q)
            /\ StatusesIn(t, r) \subseteq StatusesIn(s, r) \cup {st}
            /\ StatusesIn(s, r) = {} => StatusesIn(t, r) = {}
            /\ "ResponseReceived" \notin StatusesIn(s, r) =>
                 StatusesIn(t, r) \subseteq StatusesIn(s, r)
<1> DEFINE t == Detailed(s, r, st)
           From == {"ResponseReceived"}
<1>1. Changed(s, t, r, From, st) /\ t = [i \in DOMAIN s |-> t[i]]
  BY DEF Detailed, Changed
<1> HIDE DEF t, From
<1>2. /\ t \in Seq(Review) /\ Len(t) = Len(s) /\ (Unique(s) => Unique(t))
      /\ \A q : q # r => StatusesIn(t, q) \subseteq StatusesIn(s, q)
      /\ StatusesIn(t, r) \subseteq (StatusesIn(s, r) \ From) \cup {st}
      /\ StatusesIn(s, r) = {} => StatusesIn(t, r) = {}
  BY <1>1, ChangedShape
<1>3. StatusesIn(s, r) \cap From = {} => StatusesIn(t, r) \subseteq StatusesIn(s, r)
  BY <1>1, ChangedNothing, Zenon
<1>4. "ResponseReceived" \notin StatusesIn(s, r) => StatusesIn(t, r) \subseteq StatusesIn(s, r)
  BY <1>3 DEF From
<1> QED  BY <1>2, <1>4 DEF t

\* A review is removed.
LEMMA RemovedShape ==
  ASSUME NEW s \in Seq(Review), NEW k \in DOMAIN s
  PROVE  LET t == SubSeq(s, 1, k - 1) \o SubSeq(s, k + 1, Len(s))
         IN /\ t \in Seq(Review)
            /\ Len(t) <= Len(s)
            /\ Unique(s) => Unique(t)
            /\ \A q : StatusesIn(t, q) \subseteq StatusesIn(s, q)
<1> DEFINE a == SubSeq(s, 1, k - 1)
           b == SubSeq(s, k + 1, Len(s))
           t == a \o b
           m == [i \in 1 .. Len(s) - 1 |-> IF i < k THEN i ELSE i + 1]
<1>1. k \in 1 .. Len(s) /\ DOMAIN s = 1 .. Len(s) /\ Len(s) \in Nat
  OBVIOUS
<1>2. a \in Seq(Review) /\ Len(a) = k - 1 /\ \A i \in 1 .. k - 1 : a[i] = s[i]
  BY <1>1
<1>3. b \in Seq(Review) /\ Len(b) = Len(s) - k /\ \A i \in 1 .. Len(s) - k : b[i] = s[k + i]
  BY <1>1
<1> HIDE DEF a, b
<1>4. /\ t \in Seq(Review) /\ Len(t) = Len(s) - 1
      /\ \A i \in 1 .. Len(s) - 1 : t[i] = IF i <= k - 1 THEN a[i] ELSE b[i - (k - 1)]
  <2>1. Len(a) + Len(b) = Len(s) - 1
    BY <1>1, <1>2, <1>3
  <2>2. /\ t \in Seq(Review) /\ Len(t) = Len(a) + Len(b)
        /\ \A i \in 1 .. Len(a) + Len(b) : t[i] = IF i <= Len(a) THEN a[i] ELSE b[i - Len(a)]
    BY <1>2, <1>3, ConcatProperties
  <2> HIDE DEF t
  <2> QED  BY <1>2, <2>1, <2>2
<1> HIDE DEF t
<1>5. DOMAIN t = 1 .. Len(s) - 1
  BY <1>1, <1>4
<1>6. ASSUME NEW i \in DOMAIN t PROVE m[i] \in DOMAIN s /\ t[i] = s[m[i]]
  <2>1. CASE i <= k - 1
    BY <1>1, <1>2, <1>4, <1>5, <2>1
  <2>2. CASE ~(i <= k - 1)
    <3>1. i - (k - 1) \in 1 .. Len(s) - k /\ k + (i - (k - 1)) = i + 1
      BY <1>1, <1>5, <2>2
    <3>2. m[i] = i + 1 /\ i + 1 \in 1 .. Len(s)
      BY <1>1, <1>5, <2>2
    <3>3. t[i] = b[i - (k - 1)]
      BY <1>4, <1>5, <2>2
    <3> QED  BY <1>1, <1>3, <3>1, <3>2, <3>3
  <2> QED  BY <2>1, <2>2
<1>7. \A i, j \in DOMAIN t : m[i] = m[j] => i = j
  BY <1>1, <1>5
<1>8. (Unique(s) => Unique(t)) /\ \A q : StatusesIn(t, q) \subseteq StatusesIn(s, q)
  <2> HIDE DEF m
  <2> QED  BY <1>6, <1>7, ShownFewer
<1>9. Len(t) <= Len(s)
  BY <1>1, <1>4
<1> QED  BY <1>4, <1>8, <1>9 DEF t, a, b

\* An order visits each element once.
LEMMA OrderOnce ==
  ASSUME NEW S, IsFiniteSet(S), NEW order \in Orders(S)
  PROVE  /\ Cardinality(S) \in Nat
         /\ DOMAIN order = 1 .. Cardinality(S)
         /\ \A i \in DOMAIN order : order[i] \in S
         /\ \A i, j \in DOMAIN order : order[i] = order[j] => i = j
<1> DEFINE D == 1 .. Cardinality(S)
<1>1. Cardinality(S) \in Nat
  BY FS_CardinalityType
<1>2. IsFiniteSet(D) /\ Cardinality(D) = Cardinality(S)
  BY <1>1, FS_Interval
<1>3. order \in [D -> S] /\ \A x \in S : \E i \in DOMAIN order : order[i] = x
  BY DEF Orders
<1> HIDE DEF D
<1>4. order \in Surjection(D, S)
  BY <1>3 DEF Surjection
<1>5. order \in Injection(D, S)
  BY <1>2, <1>4, FS_SurjSameCardinalityImpliesInj
<1>6. \A i, j \in D : order[i] = order[j] => i = j
  BY <1>5 DEF Injection, IsInjective
<1> QED  BY <1>1, <1>3, <1>6 DEF D

\* cancel_container: several reviews are archived together.
LEMMA CancelledShape ==
  ASSUME NEW s \in Seq(Review), Unique(s), NEW ids \in SUBSET Requests, IsFiniteSet(ids),
         NEW order \in Orders(ids), \A r \in ids : StatusesIn(s, r) = {}
  PROVE  LET t == Retained(s \o [i \in DOMAIN order |->
                                   [id |-> order[i], status |-> "Cancelled"]])
         IN /\ t \in Seq(Review)
            /\ Len(t) <= History
            /\ Unique(t)
            /\ \A q : q \notin ids => StatusesIn(t, q) \subseteq StatusesIn(s, q)
            /\ \A q \in ids : StatusesIn(t, q) \subseteq {"Cancelled"}
<1> DEFINE N == Cardinality(ids)
           b == [i \in DOMAIN order |-> [id |-> order[i], status |-> "Cancelled"]]
           a == s \o b
<1>1. /\ N \in Nat /\ DOMAIN order = 1 .. N
      /\ \A i \in DOMAIN order : order[i] \in ids
      /\ \A i, j \in DOMAIN order : order[i] = order[j] => i = j
  BY OrderOnce
<1> HIDE DEF N
<1>2. /\ b \in [1 .. N -> Review]
      /\ \A i \in 1 .. N : b[i].id = order[i] /\ b[i].status = "Cancelled"
  BY <1>1 DEF Review, Status, NotSent
<1> HIDE DEF b
<1>3. b \in Seq(Review) /\ Len(b) = N
  BY <1>1, <1>2
<1>4. /\ a \in Seq(Review) /\ Len(a) = Len(s) + Len(b)
      /\ \A i \in 1 .. Len(s) + Len(b) : a[i] = IF i <= Len(s) THEN s[i] ELSE b[i - Len(s)]
  BY <1>3, ConcatProperties
<1> HIDE DEF a
<1>5. DOMAIN a = 1 .. Len(s) + N /\ DOMAIN s = 1 .. Len(s) /\ Len(s) \in Nat
  BY <1>1, <1>3, <1>4
<1>6. ASSUME NEW i \in DOMAIN a
      PROVE  \/ i \in DOMAIN s /\ a[i] = s[i] /\ a[i].id \notin ids
             \/ /\ i \notin DOMAIN s /\ i - Len(s) \in 1 .. N
                /\ a[i].id = order[i - Len(s)] /\ a[i].id \in ids
                /\ a[i].status = "Cancelled"
  <2>1. CASE i <= Len(s)
    <3>1. i \in DOMAIN s /\ a[i] = s[i]
      BY <1>3, <1>4, <1>5, <2>1
    <3>2. s[i].id \notin ids
      BY <3>1, ShownElement
    <3> QED  BY <3>1, <3>2
  <2>2. CASE ~(i <= Len(s))
    <3>1. i \notin DOMAIN s /\ i - Len(s) \in 1 .. N
      BY <1>1, <1>5, <2>2
    <3>2. a[i] = b[i - Len(s)]
      BY <1>3, <1>4, <1>5, <2>2
    <3> QED  BY <1>1, <1>2, <3>1, <3>2
  <2> QED  BY <2>1, <2>2
<1>7. Unique(a)
  <2> SUFFICES ASSUME NEW i \in DOMAIN a, NEW j \in DOMAIN a, a[i].id = a[j].id PROVE i = j
    BY DEF Unique
  <2>1. CASE i \in DOMAIN s
    BY <1>6, <2>1 DEF Unique
  <2>2. CASE i \notin DOMAIN s
    <3>1. order[i - Len(s)] = order[j - Len(s)] /\ {i - Len(s), j - Len(s)} \subseteq 1 .. N
      BY <1>6, <2>2
    <3>2. i - Len(s) = j - Len(s)
      BY <1>1, <3>1
    <3> QED  BY <1>1, <1>5, <3>2
  <2> QED  BY <2>1, <2>2
<1>8. ASSUME NEW q, NEW x \in StatusesIn(a, q)
      PROVE  IF q \in ids THEN x = "Cancelled" ELSE x \in StatusesIn(s, q)
  <2>1. PICK i \in DOMAIN a : a[i].id = q /\ a[i].status = x
    BY ShownElement
  <2> QED  BY <1>6, <2>1, ShownElement
<1>9. /\ Retained(a) \in Seq(Review) /\ Len(Retained(a)) <= History /\ Unique(Retained(a))
      /\ \A q : StatusesIn(Retained(a), q) \subseteq StatusesIn(a, q)
  BY <1>4, <1>7, RetainedShape
<1> QED  BY <1>8, <1>9 DEF a, b

-----------------------------------------------------------------------------
(* Handlers *)

\* A phase change keeps the rest of the handler.
LEMMA GoShape ==
  ASSUME handler \in [Requests -> Handler], NEW r \in Requests, handler[r].phase # "idle",
         NEW ph \in Phases \ {"idle"}, Go(r, ph)
  PROVE  /\ handler' \in [Requests -> Handler]
         /\ handler'[r].phase = ph
         /\ handler'[r].kind = handler[r].kind
         /\ handler'[r].guest = handler[r].guest
         /\ handler'[r].peer = handler[r].peer
         /\ handler'[r].instance = handler[r].instance
         /\ handler'[r].epoch = handler[r].epoch
         /\ \A q \in Requests : q # r => handler'[q] = handler[q]
<1> DEFINE h == handler[r]
<1>1. h \in [phase : Phases \ {"idle"}, kind : Kinds, guest : Names, peer : IPs,
             instance : Nat, epoch : Nat]
  BY DEF Handler, IdleHandler
<1>2. handler'[r] = [h EXCEPT !.phase = ph]
  BY DEF Go
<1>3. \A q \in Requests : q # r => handler'[q] = handler[q]
  BY DEF Go
<1> HIDE DEF h
<1>4. /\ handler'[r] \in Handler
      /\ handler'[r].phase = ph
      /\ handler'[r].kind = h.kind /\ handler'[r].guest = h.guest /\ handler'[r].peer = h.peer
      /\ handler'[r].instance = h.instance /\ handler'[r].epoch = h.epoch
  BY <1>1, <1>2 DEF Handler
<1>5. handler' \in [Requests -> Handler]
  BY <1>3, <1>4 DEF Go
<1> QED  BY <1>3, <1>4, <1>5 DEF h

\* What is known of a request survives a step that only takes a waiting review
\* of it away, lets retained ones age out, or takes its authority.
LEMMA Frame ==
  ASSUME NEW q \in Requests, Request(q),
         handler'[q] = handler[q], answer'[q] = answer[q], row'[q] = row[q],
         q \in DOMAIN pending' => q \in DOMAIN pending,
         q \in sent' <=> q \in sent, q \in agreed <=> q \in agreed', q \in revoked' => q \in revoked,
         Current(q)' => Current(q),
         StatusesIn(recent', q) \subseteq StatusesIn(recent, q)
  PROVE  Request(q)'
  BY DEF Request, PendingPart, FreshPart, AnswerPart, ShownPart, SentPart, RevokedPart, Shown,
     Entitled

\* A step that concerns the request r leaves the others as they are, except
\* that their retained reviews may age out.
Others(r) ==
  \A q \in Requests : q # r =>
    /\ handler'[q] = handler[q] /\ answer'[q] = answer[q] /\ row'[q] = row[q]
    /\ q \in DOMAIN pending' => q \in DOMAIN pending
    /\ q \in sent' <=> q \in sent
    /\ q \in agreed' <=> q \in agreed
    /\ StatusesIn(recent', q) \subseteq StatusesIn(recent, q)

LEMMA LocalInv ==
  ASSUME IInv, NEW r \in Requests,
         UNCHANGED <<identity, stamp, now, revoked>>,
         DOMAIN pending' \subseteq Requests, \A q \in DOMAIN pending' : pending'[q] \in Nat,
         IsFiniteSet(DOMAIN pending'),
         recent' \in Seq(Review), Len(recent') <= History, Unique(recent'),
         handler' \in [Requests -> Handler],
         answer' \in [Requests -> {None, "Approve", "Deny"}],
         deciding' \in {None} \cup [id : DOMAIN pending', approve : BOOLEAN],
         row' \in [Requests -> {None, "Pending", "Allowed", "Blocked"}],
         sent' \subseteq Requests, agreed' \subseteq Requests,
         Others(r),
         handler'[r].phase # "idle" => handler'[r].epoch < stamp,
         Request(r)'
  PROVE  IInv'
<1>1. TypeOK'
  BY DEF IInv, TypeOK, AuthorityTypeOK
<1>2. ASSUME NEW q \in Requests, q # r PROVE Request(q)'
  <2>1. Current(q)' => Current(q)
    BY <1>2 DEF Current, AsyncIdentity, Others
  <2>2. Request(q)
    BY DEF IInv
  <2>3. /\ handler'[q] = handler[q] /\ answer'[q] = answer[q] /\ row'[q] = row[q]
        /\ q \in DOMAIN pending' => q \in DOMAIN pending
        /\ q \in sent' <=> q \in sent
        /\ q \in agreed' <=> q \in agreed
        /\ q \in revoked' => q \in revoked
        /\ StatusesIn(recent', q) \subseteq StatusesIn(recent, q)
    BY <1>2 DEF Others
  <2> QED  BY <2>1, <2>2, <2>3, Frame
<1>3. EpochsPast'
  BY DEF EpochsPast, IInv, Others
<1>4. \A n \in Names : identity'[n].epoch < stamp'
  BY DEF IInv
<1>5. \A q \in Requests : Request(q)'
  BY <1>2
<1> QED  BY <1>1, <1>3, <1>4, <1>5 DEF IInv

\* A handler goes on; its retained review, its row and its answer to the
\* upstream may change with it.
LEMMA HandlerInv ==
  ASSUME IInv, NEW r \in Requests, handler[r].phase # "idle",
         NEW ph \in Phases \ {"idle"}, Go(r, ph),
         UNCHANGED <<identity, stamp, now, revoked, pending, answer, deciding, agreed>>,
         recent' \in Seq(Review), Len(recent') <= History, Unique(recent'),
         \A q : q # r => StatusesIn(recent', q) \subseteq StatusesIn(recent, q),
         row' = row \/ \E v \in {"Pending", "Allowed", "Blocked"} : row' = [row EXCEPT ![r] = v],
         sent' \in {sent, sent \cup {r}},
         Request(r)'
  PROVE  IInv'
<1>0. TypeOK /\ EpochsPast
  BY DEF IInv
<1>1. /\ handler' \in [Requests -> Handler]
      /\ handler'[r].epoch = handler[r].epoch
      /\ \A q \in Requests : q # r => handler'[q] = handler[q]
  BY <1>0, GoShape DEF TypeOK
<1>2. row' \in [Requests -> {None, "Pending", "Allowed", "Blocked"}]
  BY <1>0 DEF TypeOK
<1>3. \A q \in Requests : q # r => row'[q] = row[q]
  BY <1>0 DEF TypeOK
<1>4. Others(r)
  BY <1>1, <1>3 DEF Others
<1>5. handler'[r].phase # "idle" => handler'[r].epoch < stamp
  BY <1>0, <1>1 DEF EpochsPast
<1>6. IsFiniteSet(DOMAIN pending)
  BY DEF IInv
<1> QED  BY <1>0, <1>1, <1>2, <1>4, <1>5, <1>6, LocalInv DEF TypeOK

\* The request of a handler that goes on is still current, or still not.
LEMMA GoCurrent ==
  ASSUME TypeOK, NEW r \in Requests, handler[r].phase # "idle",
         NEW ph \in Phases \ {"idle"}, Go(r, ph), UNCHANGED identity
  PROVE  /\ handler'[r].phase = ph
         /\ handler'[r].kind = handler[r].kind
         /\ Current(r)' <=> Current(r)
<1>1. handler \in [Requests -> Handler]
  BY DEF TypeOK
<1> QED  BY <1>1, GoShape DEF Current, AsyncIdentity

\* archive, of a review that waits.
LEMMA ArchiveShape ==
  ASSUME IInv, NEW r \in DOMAIN pending, NEW st \in Status, Archive(r, st)
  PROVE  /\ r \in Requests
         /\ DOMAIN pending' = DOMAIN pending \ {r}
         /\ \A q \in DOMAIN pending' : pending'[q] \in Nat
         /\ IsFiniteSet(DOMAIN pending')
         /\ recent' \in Seq(Review) /\ Len(recent') <= History /\ Unique(recent')
         /\ \A q : q # r => StatusesIn(recent', q) \subseteq StatusesIn(recent, q)
         /\ StatusesIn(recent', r) \subseteq {st}
<1>1. r \in Requests /\ Request(r) /\ recent \in Seq(Review) /\ Unique(recent)
  BY DEF IInv, TypeOK
<1>2. StatusesIn(recent, r) = {}
  BY <1>1 DEF Request, PendingPart, Shown
<1>3. DOMAIN pending' = DOMAIN pending \ {r} /\ \A q \in DOMAIN pending' : pending'[q] \in Nat
  BY DEF Archive, Without, IInv, TypeOK
<1>4. IsFiniteSet(DOMAIN pending \ {r})
  BY FS_RemoveElement DEF IInv
<1>5. recent' = Retained(Append(recent, [id |-> r, status |-> st]))
  BY DEF Archive
<1> QED  BY <1>1, <1>2, <1>3, <1>4, <1>5, ArchivedShape

-----------------------------------------------------------------------------
(* The host's decisions *)

\* An entry leaves the queue unanswered: too late, or cancelled by its guest.
LEMMA DismissInv ==
  ASSUME IInv, Unlocked, NEW r \in DOMAIN pending, NEW st \in NotSent, Archive(r, st),
         UNCHANGED <<identity, stamp, handler, answer, deciding, row, now, sent, agreed, revoked>>
  PROVE  IInv'
<1>0. TypeOK /\ EpochsPast /\ r \in Requests /\ Request(r) /\ st \in Status
  BY DEF IInv, TypeOK, Status
<1>1. /\ DOMAIN pending' = DOMAIN pending \ {r}
      /\ \A q \in DOMAIN pending' : pending'[q] \in Nat
      /\ IsFiniteSet(DOMAIN pending')
      /\ recent' \in Seq(Review) /\ Len(recent') <= History /\ Unique(recent')
      /\ \A q : q # r => StatusesIn(recent', q) \subseteq StatusesIn(recent, q)
      /\ StatusesIn(recent', r) \subseteq {st}
  BY <1>0, ArchiveShape
<1>2. Request(r)'
  <2>1. handler[r].phase \in Ticketed /\ answer[r] = None
    BY <1>0 DEF Request, PendingPart
  <2>2. Current(r)' <=> Current(r)
    BY DEF Current, AsyncIdentity
  <2>3. None # "Approve"
    BY QueueAssumption
  <2> QED  BY <1>0, <1>1, <2>1, <2>2, <2>3 DEF Request, PendingPart, FreshPart, AnswerPart,
              ShownPart, SentPart, RevokedPart, Shown, Entitled, Ticketed, NotSent, Active, Upstream
<1>3. Others(r)
  BY <1>1 DEF Others
<1>4. deciding' = None
  BY DEF Unlocked
<1> QED  BY <1>0, <1>1, <1>2, <1>3, <1>4, LocalInv DEF TypeOK, EpochsPast

LEMMA DecideStartInv ==
  ASSUME IInv, NEW r \in Requests, NEW approve \in BOOLEAN, DecideStart(r, approve)
  PROVE  IInv'
<1>1. CASE pending[r] <= now
  BY <1>1, DismissInv DEF DecideStart, NotSent
<1>2. CASE ~(pending[r] <= now)
  <2>0. TypeOK /\ EpochsPast /\ Request(r) /\ IsFiniteSet(DOMAIN pending) /\ Unique(recent)
    BY DEF IInv
  <2>1. /\ deciding' = [id |-> r, approve |-> approve] /\ r \in DOMAIN pending
        /\ UNCHANGED <<pending, recent>>
        /\ UNCHANGED <<identity, stamp, handler, answer, row, now, sent, agreed, revoked>>
    BY <1>2 DEF DecideStart
  <2>2. Request(r)'
    <3>1. Current(r)' <=> Current(r)
      BY <2>1 DEF Current, AsyncIdentity
    <3> QED  BY <2>0, <2>1, <3>1, Frame
  <2>3. Others(r)
    BY <2>1 DEF Others
  <2> QED  BY <2>0, <2>1, <2>2, <2>3, LocalInv DEF TypeOK, EpochsPast
<1> QED  BY <1>1, <1>2

LEMMA DecideFinishInv ==
  ASSUME IInv, DecideFinish
  PROVE  IInv'
<1>0. TypeOK /\ EpochsPast /\ deciding \in [id : DOMAIN pending, approve : BOOLEAN]
  BY DEF IInv, TypeOK, DecideFinish
<1>a. PICK r \in DOMAIN pending, approve \in BOOLEAN : deciding.id = r /\ deciding.approve = approve
  BY <1>0
<1> DEFINE st == IF approve THEN "Approved" ELSE "Denied"
           an == IF approve THEN "Approve" ELSE "Deny"
<1>1. /\ r \in DOMAIN pending /\ r \in Requests /\ Request(r) /\ Archive(r, st)
      /\ answer' = [answer EXCEPT ![r] = an]
      /\ agreed' = IF approve THEN agreed \cup {r} ELSE agreed
      /\ deciding' = None
      /\ UNCHANGED <<identity, stamp, handler, row, now, sent, revoked>>
      /\ st \in Status
  BY <1>a DEF IInv, TypeOK, DecideFinish, Status, Active, NotSent
<1>2. an = "Approve" => r \in agreed' /\ st = "Approved"
  BY <1>1
<1>3. an \in {"Approve", "Deny"}
  OBVIOUS
<1>4. \A q : q # r => (q \in agreed' <=> q \in agreed)
  BY <1>1
<1>5. agreed' \subseteq Requests /\ (r \in agreed => r \in agreed')
  BY <1>0, <1>1 DEF TypeOK
<1> HIDE DEF st, an
<1>6. /\ DOMAIN pending' = DOMAIN pending \ {r}
      /\ \A q \in DOMAIN pending' : pending'[q] \in Nat
      /\ IsFiniteSet(DOMAIN pending')
      /\ recent' \in Seq(Review) /\ Len(recent') <= History /\ Unique(recent')
      /\ \A q : q # r => StatusesIn(recent', q) \subseteq StatusesIn(recent, q)
      /\ StatusesIn(recent', r) \subseteq {st}
  BY <1>1, ArchiveShape
<1>7. /\ answer' \in [Requests -> {None, "Approve", "Deny"}]
      /\ answer'[r] = an
      /\ \A q \in Requests : q # r => answer'[q] = answer[q]
  BY <1>0, <1>1, <1>3 DEF TypeOK
<1>8. Request(r)'
  <2>1. handler[r].phase \in Ticketed /\ r \notin sent
    BY <1>1 DEF Request, PendingPart, SentPart, Ticketed
  <2>2. Current(r)' <=> Current(r)
    BY <1>1 DEF Current, AsyncIdentity
  <2> QED  BY <1>1, <1>2, <1>5, <1>6, <1>7, <2>1, <2>2 DEF Request, PendingPart, FreshPart,
              AnswerPart, ShownPart, SentPart, RevokedPart, Shown, Entitled, Ticketed, Active,
              Upstream
<1>9. Others(r)
  BY <1>1, <1>4, <1>6, <1>7 DEF Others
<1> QED  BY <1>0, <1>1, <1>5, <1>6, <1>7, <1>8, <1>9, LocalInv DEF TypeOK, EpochsPast

-----------------------------------------------------------------------------
(* A handler, up to its admission *)

LEMMA BeginInv ==
  ASSUME IInv, NEW r \in Requests, NEW kind \in Kinds, NEW n \in Names, NEW peer \in IPs,
         Begin(r, kind, n, peer)
  PROVE  IInv'
<1> DEFINE h == [phase |-> "collecting", kind |-> kind, guest |-> n, peer |-> peer,
                 instance |-> identity[n].instance, epoch |-> identity[n].epoch]
           v == IF kind \in Uploads THEN None ELSE "Pending"
<1>0. TypeOK /\ EpochsPast /\ Request(r) /\ IsFiniteSet(DOMAIN pending) /\ Unique(recent)
  BY DEF IInv
<1>1. /\ handler' = [handler EXCEPT ![r] = h] /\ row' = [row EXCEPT ![r] = v]
      /\ UNCHANGED <<identity, stamp, pending, recent, answer, deciding, now, sent, agreed, revoked>>
      /\ handler[r] = IdleHandler
  BY DEF Begin
<1>2. identity[n] \in Identity /\ identity[n].epoch < stamp
  BY <1>0 DEF IInv, TypeOK, AuthorityTypeOK
<1>3. h \in Handler /\ h.phase = "collecting" /\ h.epoch < stamp
  BY <1>2 DEF Handler, Identity, Phases, BeforeAdmission
<1>4. v \in {None, "Pending"}
  OBVIOUS
<1> HIDE DEF h, v
<1>5. /\ handler' \in [Requests -> Handler] /\ handler'[r] = h
      /\ \A q \in Requests : q # r => handler'[q] = handler[q]
  BY <1>0, <1>1, <1>3 DEF TypeOK
<1>6. /\ row' \in [Requests -> {None, "Pending", "Allowed", "Blocked"}] /\ row'[r] # "Blocked"
      /\ \A q \in Requests : q # r => row'[q] = row[q]
  BY <1>0, <1>1, <1>4, QueueAssumption DEF TypeOK
<1>7. Request(r)'
  <2>1. /\ r \notin DOMAIN pending /\ Shown(r) = {} /\ answer[r] = None /\ r \notin sent
        /\ r \notin revoked
    BY <1>0, <1>1 DEF Request, PendingPart, FreshPart, SentPart, RevokedPart, IdleHandler, Ticketed
  <2>2. None # "Approve"
    BY QueueAssumption
  <2> QED  BY <1>1, <1>3, <1>5, <1>6, <2>1, <2>2 DEF Request, PendingPart, FreshPart, AnswerPart,
              ShownPart, SentPart, RevokedPart, Shown, Upstream
<1>8. Others(r)
  BY <1>1, <1>5, <1>6 DEF Others
<1> QED  BY <1>0, <1>1, <1>3, <1>5, <1>6, <1>7, <1>8, LocalInv DEF TypeOK

\* The steps of a handler that change nothing else.
LEMMA MoveInv ==
  ASSUME IInv, NEW r \in Requests, handler[r].phase # "idle",
         NEW ph \in Phases \ {"idle", "collecting", "automatic"}, Go(r, ph), HandlerOnly,
         r \in DOMAIN pending => ph \in Ticketed,
         ph \in {"waiting", "leaving", "expiring"} =>
           handler[r].phase \in {"waiting", "leaving", "expiring"},
         ph \in {"admitting", "lookup"} => Shown(r) \subseteq Active /\ Entitled(r),
         ph # "done",
         ph \notin Upstream,
         ph \in BeforeAdmission => handler[r].phase \in BeforeAdmission,
         handler[r].phase \notin {"inflight", "body", "done"}
  PROVE  IInv'
<1>0. TypeOK /\ Request(r) /\ Unique(recent)
  BY DEF IInv
<1>1. /\ handler'[r].phase = ph /\ handler'[r].kind = handler[r].kind
      /\ Current(r)' <=> Current(r)
  BY <1>0, GoCurrent DEF HandlerOnly
<1>2. UNCHANGED <<identity, stamp, pending, recent, answer, deciding, row, now, sent, agreed, revoked>>
  BY DEF HandlerOnly
<1>3. Request(r)'
  <2>1. PendingPart(r)' /\ FreshPart(r)' /\ SentPart(r)'
    BY <1>0, <1>1, <1>2 DEF Request, PendingPart, FreshPart, SentPart, Shown, Ticketed
  <2>2. AnswerPart(r)'
    BY <1>0, <1>1, <1>2 DEF Request, AnswerPart, Entitled, Upstream, Phases
  <2>3. ShownPart(r)'
    BY <1>0, <1>1, <1>2 DEF Request, ShownPart, Shown, Upstream
  <2>4. RevokedPart(r)'
    BY <1>0, <1>1, <1>2 DEF Request, RevokedPart
  <2> QED  BY <2>1, <2>2, <2>3, <2>4 DEF Request
<1> QED  BY <1>0, <1>2, <1>3, HandlerInv DEF TypeOK

\* What the provers need to know of the names of phases.
LEMMA PhaseFacts ==
  /\ {"failing", "blocking", "admitting", "lookup", "waiting", "leaving", "expiring"}
       \subseteq Phases \ {"idle", "collecting", "automatic"}
  /\ {"automatic", "forwarding", "inflight", "body", "done"} \subseteq Phases \ {"idle"}
  BY DEF Phases, BeforeAdmission, Ending, Upstream

LEMMA QuietInv ==
  ASSUME IInv, NEW r \in Requests,
         \/ Refuse(r) \/ Wake(r) \/ TimeOut(r) \/ Disconnect(r)
         \/ AdmitUpload(r) \/ LookupFails(r) \/ SubstitutionBlocks(r)
  PROVE  IInv'
<1>0. TypeOK /\ Request(r)
  BY DEF IInv
<1>1. CASE Refuse(r)
  <2>1. r \notin DOMAIN pending
    BY <1>0, <1>1 DEF Request, PendingPart, Ticketed, Refuse
  <2> QED  BY <1>1, <2>1, MoveInv, PhaseFacts DEF Refuse, Upstream, BeforeAdmission
<1>2. CASE Wake(r)
  <2>1. CASE answer[r] = "Approve"
    <3>1. Shown(r) \subseteq Active /\ Entitled(r)
      BY <1>0, <1>2, <2>1 DEF Wake, Request, AnswerPart, ShownPart
    <3> QED  BY <1>2, <2>1, <3>1, MoveInv, PhaseFacts DEF Wake, Upstream, BeforeAdmission
  <2>2. CASE answer[r] # "Approve"
    BY <1>2, <2>2, MoveInv, PhaseFacts DEF Wake, Upstream, BeforeAdmission
  <2> QED  BY <2>1, <2>2
<1>3. CASE TimeOut(r)
  BY <1>3, MoveInv, PhaseFacts DEF TimeOut, Upstream, BeforeAdmission, Ticketed
<1>4. CASE Disconnect(r)
  BY <1>4, MoveInv, PhaseFacts DEF Disconnect, Upstream, BeforeAdmission, Ticketed
<1>5. CASE AdmitUpload(r)
  <2>1. r \notin DOMAIN pending /\ Shown(r) \subseteq Active /\ Entitled(r)
    BY <1>0, <1>5 DEF Request, PendingPart, AnswerPart, ShownPart, Ticketed, AdmitUpload
  <2> QED  BY <1>5, <2>1, MoveInv, PhaseFacts DEF AdmitUpload, Upstream, BeforeAdmission
<1>6. CASE LookupFails(r)
  <2>1. r \notin DOMAIN pending
    BY <1>0, <1>6 DEF Request, PendingPart, Ticketed, LookupFails
  <2> QED  BY <1>6, <2>1, MoveInv, PhaseFacts DEF LookupFails, Upstream, BeforeAdmission
<1>7. CASE SubstitutionBlocks(r)
  <2>1. r \notin DOMAIN pending
    BY <1>0, <1>7 DEF Request, PendingPart, Ticketed, SubstitutionBlocks
  <2> QED  BY <1>7, <2>1, MoveInv, PhaseFacts DEF SubstitutionBlocks, Upstream, BeforeAdmission
<1> QED  BY <1>1, <1>2, <1>3, <1>4, <1>5, <1>6, <1>7

LEMMA AdmitReadInv ==
  ASSUME IInv, NEW r \in Requests, AdmitRead(r)
  PROVE  IInv'
<1>0. TypeOK /\ Request(r) /\ Unique(recent)
  BY DEF IInv
<1>1. /\ handler[r].phase = "collecting" /\ handler[r].kind = "read"
      /\ UNCHANGED <<identity, stamp, pending, recent, answer, deciding, now, sent, agreed, revoked>>
  BY DEF AdmitRead
<1>2. /\ Shown(r) = {} /\ answer[r] = None /\ r \notin DOMAIN pending /\ r \notin sent
      /\ row[r] # "Blocked" /\ (r \in revoked => ~Current(r))
  BY <1>0, <1>1 DEF Request, FreshPart, PendingPart, SentPart, RevokedPart, Ticketed,
     BeforeAdmission
<1>3. CASE Current(r)
  <2>1. Go(r, "forwarding") /\ row' = [row EXCEPT ![r] = "Allowed"]
    BY <1>3 DEF AdmitRead
  <2>2. handler'[r].phase = "forwarding" /\ handler'[r].kind = "read"
    BY <1>0, <1>1, <2>1, GoCurrent, PhaseFacts
  <2>3. row'[r] = "Allowed"
    BY <1>0, <2>1 DEF TypeOK
  <2>4. Request(r)'
    BY <1>1, <1>2, <1>3, <2>2, <2>3, QueueAssumption DEF Request, PendingPart, FreshPart,
       AnswerPart, ShownPart, SentPart, RevokedPart, Shown, Entitled
  <2> QED  BY <1>0, <1>1, <2>1, <2>4, HandlerInv, PhaseFacts DEF TypeOK
<1>4. CASE ~Current(r)
  <2>1. Go(r, "failing") /\ UNCHANGED row
    BY <1>4 DEF AdmitRead
  <2> QED  BY <1>1, <1>2, <2>1, MoveInv, PhaseFacts DEF HandlerOnly, Upstream, BeforeAdmission
<1> QED  BY <1>3, <1>4

LEMMA EnqueueInv ==
  ASSUME IInv, NEW r \in Requests, Enqueue(r)
  PROVE  IInv'
<1> DEFINE ph == IF handler[r].kind = "github" /\ AllowAll THEN "automatic" ELSE "waiting"
<1>0. TypeOK /\ EpochsPast /\ Request(r) /\ Unique(recent) /\ IsFiniteSet(DOMAIN pending)
  BY DEF IInv
<1>1. /\ handler[r].phase = "collecting" /\ Go(r, ph) /\ Unlocked /\ Current(r)
      /\ DOMAIN pending' = DOMAIN pending \cup {r}
      /\ \A p \in DOMAIN pending' : pending'[p] = IF p = r THEN now + WaitTime ELSE pending[p]
      /\ UNCHANGED <<identity, stamp, recent, answer, deciding, row, now, sent, agreed, revoked>>
  BY DEF Enqueue
<1>2. /\ Shown(r) = {} /\ answer[r] = None /\ r \notin DOMAIN pending /\ r \notin sent
      /\ row[r] # "Blocked" /\ r \notin revoked
  BY <1>0, <1>1 DEF Request, FreshPart, PendingPart, SentPart, RevokedPart, Ticketed,
     BeforeAdmission
<1>3. \A p \in DOMAIN pending' : pending'[p] \in Nat
  BY <1>0, <1>1, QueueAssumption DEF TypeOK
<1>4. IsFiniteSet(DOMAIN pending')
  BY <1>0, <1>1, FS_AddElement
<1>5. /\ ph \in {"automatic", "waiting"}
      /\ ph = "automatic" => handler[r].kind = "github" /\ AllowAll
  OBVIOUS
<1>6. PICK p \in {"automatic", "waiting"} : p = ph
  BY <1>5
<1>7. /\ Go(r, p) /\ p \in Phases \ {"idle"} /\ p \in Ticketed
      /\ p = "automatic" => handler[r].kind = "github" /\ AllowAll
  BY <1>1, <1>5, <1>6, PhaseFacts DEF Ticketed
<1> HIDE DEF ph
<1>8. /\ handler' \in [Requests -> Handler] /\ handler'[r].phase = p
      /\ handler'[r].kind = handler[r].kind /\ handler'[r].epoch = handler[r].epoch
      /\ \A q \in Requests : q # r => handler'[q] = handler[q]
  BY <1>0, <1>1, <1>7, GoShape DEF TypeOK
<1>9. Request(r)'
  BY <1>1, <1>2, <1>6, <1>7, <1>8, QueueAssumption DEF Request, PendingPart, FreshPart,
     AnswerPart, ShownPart, SentPart, RevokedPart, Shown, Entitled, Upstream
<1>10. Others(r)
  BY <1>1, <1>8 DEF Others
<1>11. deciding' = None
  BY <1>1 DEF Unlocked
<1> QED  BY <1>0, <1>1, <1>3, <1>4, <1>8, <1>9, <1>10, <1>11, LocalInv DEF TypeOK, EpochsPast

\* A handler gives its review up, or allow-all approves it.
LEMMA LeaveInv ==
  ASSUME IInv, NEW r \in DOMAIN pending, Unlocked, NEW st \in Status, Archive(r, st),
         NEW ph \in {"waiting", "failing"}, Go(r, ph),
         \/ answer' = answer /\ st \in NotSent
         \/ answer' = [answer EXCEPT ![r] = "Approve"] /\ st = "Approved" /\ Entitled(r),
         UNCHANGED <<identity, stamp, deciding, row, now, sent, agreed, revoked>>
  PROVE  IInv'
<1>0. TypeOK /\ EpochsPast /\ r \in Requests /\ Request(r) /\ Unique(recent)
  BY DEF IInv, TypeOK
<1>1. handler[r].phase \in Ticketed /\ answer[r] = None /\ handler[r].phase # "idle" /\ r \notin sent
  BY <1>0 DEF Request, PendingPart, Ticketed, SentPart
<1>2. /\ DOMAIN pending' = DOMAIN pending \ {r}
      /\ \A q \in DOMAIN pending' : pending'[q] \in Nat
      /\ IsFiniteSet(DOMAIN pending')
      /\ recent' \in Seq(Review) /\ Len(recent') <= History /\ Unique(recent')
      /\ \A q : q # r => StatusesIn(recent', q) \subseteq StatusesIn(recent, q)
      /\ StatusesIn(recent', r) \subseteq {st}
  BY ArchiveShape
<1>3. /\ handler' \in [Requests -> Handler] /\ handler'[r].phase = ph
      /\ handler'[r].kind = handler[r].kind /\ handler'[r].epoch = handler[r].epoch
      /\ \A q \in Requests : q # r => handler'[q] = handler[q]
  BY <1>0, <1>1, GoShape, PhaseFacts DEF TypeOK
<1>4. /\ answer' \in [Requests -> {None, "Approve", "Deny"}]
      /\ \A q \in Requests : q # r => answer'[q] = answer[q]
      /\ answer'[r] = "Approve" => st = "Approved" /\ Entitled(r)
  BY <1>0, <1>1, QueueAssumption DEF TypeOK
<1>5. Current(r)' <=> Current(r)
  BY <1>0, <1>1, GoCurrent, PhaseFacts
<1>6. Request(r)'
  <2>1. PendingPart(r)' /\ FreshPart(r)' /\ SentPart(r)'
    BY <1>0, <1>1, <1>2, <1>3 DEF Request, PendingPart, FreshPart, SentPart, Ticketed
  <2>2. AnswerPart(r)'
    BY <1>0, <1>1, <1>3, <1>4 DEF Request, AnswerPart, Entitled, Upstream
  <2>3. ShownPart(r)'
    BY <1>0, <1>1, <1>2, <1>3, <1>4 DEF Request, ShownPart, Shown, Active
  <2>4. RevokedPart(r)'
    BY <1>0, <1>1, <1>3, <1>5 DEF Request, RevokedPart, Upstream, BeforeAdmission, Ticketed
  <2> QED  BY <2>1, <2>2, <2>3, <2>4 DEF Request
<1>7. Others(r)
  BY <1>2, <1>3, <1>4 DEF Others
<1>8. deciding' = None
  BY DEF Unlocked
<1> QED  BY <1>0, <1>1, <1>2, <1>3, <1>4, <1>6, <1>7, <1>8, LocalInv DEF TypeOK, EpochsPast

LEMMA AutomaticInv ==
  ASSUME IInv, NEW r \in Requests, Automatic(r)
  PROVE  IInv'
<1>0. Request(r) /\ handler[r].phase = "automatic" /\ Unlocked
  BY DEF IInv, Automatic
<1>1. Entitled(r)
  BY <1>0 DEF Request, AnswerPart, Entitled
<1>2. CASE r \in DOMAIN pending /\ pending[r] > now
  BY <1>0, <1>1, <1>2, LeaveInv DEF Automatic, Status, Active
<1>3. CASE r \in DOMAIN pending /\ ~(pending[r] > now)
  BY <1>0, <1>3, LeaveInv DEF Automatic, Status, NotSent
<1>4. CASE r \notin DOMAIN pending
  BY <1>0, <1>4, MoveInv, PhaseFacts DEF Automatic, HandlerOnly, Upstream, BeforeAdmission
<1> QED  BY <1>2, <1>3, <1>4

LEMMA DropTicketInv ==
  ASSUME IInv, NEW r \in Requests, DropTicket(r)
  PROVE  IInv'
<1>1. CASE r \in DOMAIN pending
  <2>1. PICK st \in {"Expired", "Cancelled"} : Archive(r, st)
    BY <1>1 DEF DropTicket
  <2> QED  BY <1>1, <2>1, LeaveInv DEF DropTicket, Status, NotSent
<1>2. CASE r \notin DOMAIN pending
  BY <1>2, MoveInv, PhaseFacts DEF DropTicket, HandlerOnly, Upstream, BeforeAdmission
<1> QED  BY <1>1, <1>2

LEMMA AdmitReviewInv ==
  ASSUME IInv, NEW r \in Requests, AdmitReview(r)
  PROVE  IInv'
<1>0. TypeOK /\ Request(r) /\ Unique(recent) /\ recent \in Seq(Review) /\ Len(recent) <= History
  BY DEF IInv, TypeOK
<1>1. /\ handler[r].phase \in {"lookup", "admitting"}
      /\ UNCHANGED <<identity, stamp, pending, answer, deciding, now, sent, agreed, revoked>>
  BY DEF AdmitReview, AtAdmission
<1>2. /\ Shown(r) \subseteq Active /\ Entitled(r) /\ r \notin DOMAIN pending /\ r \notin sent
      /\ row[r] # "Blocked" /\ (r \in revoked => ~Current(r))
  BY <1>0, <1>1 DEF Request, ShownPart, AnswerPart, PendingPart, SentPart, RevokedPart, Ticketed,
     BeforeAdmission
<1>3. CASE Current(r)
  <2>1. /\ Go(r, "forwarding") /\ recent' = Observed(recent, r, "Sending")
        /\ row' = row \/ row' = [row EXCEPT ![r] = "Allowed"]
    BY <1>3 DEF AdmitReview
  <2>2. handler'[r].phase = "forwarding" /\ handler'[r].kind = handler[r].kind
    BY <1>0, <1>1, <2>1, GoCurrent, PhaseFacts
  <2>3. row'[r] # "Blocked"
    BY <1>0, <1>2, <2>1 DEF TypeOK
  <2>4. /\ recent' \in Seq(Review) /\ Len(recent') = Len(recent) /\ Unique(recent')
        /\ \A q : q # r => StatusesIn(recent', q) \subseteq StatusesIn(recent, q)
        /\ StatusesIn(recent', r) \subseteq (StatusesIn(recent, r) \ Active) \cup {"Sending"}
    BY <1>0, <2>1, ObservedShape DEF Status, Active
  <2>5. Shown(r)' \subseteq Active
    BY <1>2, <2>4 DEF Shown, Active
  <2>6. Request(r)'
    BY <1>0, <1>1, <1>2, <1>3, <2>2, <2>3, <2>5 DEF Request, PendingPart, FreshPart, AnswerPart,
       ShownPart, SentPart, RevokedPart, Entitled
  <2> QED  BY <1>0, <1>1, <2>1, <2>4, <2>6, HandlerInv, PhaseFacts
<1>4. CASE ~Current(r)
  <2>1. UNCHANGED <<recent, row>> /\ (Go(r, "blocking") \/ Go(r, "failing"))
    BY <1>4 DEF AdmitReview
  <2>2. CASE Go(r, "blocking")
    BY <1>1, <1>2, <2>1, <2>2, MoveInv, PhaseFacts DEF HandlerOnly, Upstream, BeforeAdmission
  <2>3. CASE Go(r, "failing")
    BY <1>1, <1>2, <2>1, <2>3, MoveInv, PhaseFacts DEF HandlerOnly, Upstream, BeforeAdmission
  <2> QED  BY <2>1, <2>2, <2>3
<1> QED  BY <1>3, <1>4

LEMMA EndInv ==
  ASSUME IInv, NEW r \in Requests, End(r)
  PROVE  IInv'
<1>0. TypeOK /\ Request(r) /\ Unique(recent) /\ recent \in Seq(Review) /\ Len(recent) <= History
  BY DEF IInv, TypeOK
<1>1. PICK st \in {"Cancelled", "Blocked"} : recent' = Observed(recent, r, st)
  BY DEF End
<1>2. /\ handler[r].phase \in Ending /\ Go(r, "done")
      /\ row' = row \/ row' = [row EXCEPT ![r] = "Blocked"]
      /\ UNCHANGED <<identity, stamp, pending, answer, deciding, now, sent, agreed, revoked>>
  BY DEF End
<1>3. r \notin DOMAIN pending /\ r \notin sent
  BY <1>0, <1>2 DEF Request, PendingPart, SentPart, Ticketed, Ending
<1>4. handler'[r].phase = "done" /\ handler'[r].kind = handler[r].kind
  BY <1>0, <1>2, GoCurrent, PhaseFacts DEF Ending
<1>5. /\ recent' \in Seq(Review) /\ Len(recent') = Len(recent) /\ Unique(recent')
      /\ \A q : q # r => StatusesIn(recent', q) \subseteq StatusesIn(recent, q)
      /\ StatusesIn(recent', r) \subseteq (StatusesIn(recent, r) \ Active) \cup {st}
  BY <1>0, <1>1, ObservedShape DEF Status, NotSent
<1>6. Shown(r)' \cap Active = {}
  BY <1>5 DEF Shown, Active
<1>7. Request(r)'
  BY <1>0, <1>2, <1>3, <1>4, <1>6 DEF Request, PendingPart, FreshPart, AnswerPart, ShownPart,
     SentPart, RevokedPart, Entitled, Upstream, BeforeAdmission
<1> QED  BY <1>0, <1>2, <1>5, <1>7, HandlerInv, PhaseFacts DEF Ending

-----------------------------------------------------------------------------
(* A handler, after its admission *)

LEMMA SendInv ==
  ASSUME IInv, NEW r \in Requests, Send(r)
  PROVE  IInv'
<1>0. TypeOK /\ Request(r) /\ Unique(recent) /\ recent \in Seq(Review) /\ Len(recent) <= History
  BY DEF IInv, TypeOK
<1>1. /\ handler[r].phase = "forwarding" /\ sent' = sent \cup {r} /\ Go(r, "inflight")
      /\ UNCHANGED <<identity, stamp, pending, recent, answer, deciding, row, now, agreed, revoked>>
  BY DEF Send
<1>2. handler'[r].phase = "inflight" /\ handler'[r].kind = handler[r].kind
  BY <1>0, <1>1, GoCurrent, PhaseFacts
<1>3. /\ Shown(r) \subseteq Active /\ Entitled(r) /\ r \notin DOMAIN pending /\ row[r] # "Blocked"
      /\ r \notin revoked
  BY <1>0, <1>1 DEF Request, ShownPart, AnswerPart, PendingPart, SentPart, RevokedPart, Ticketed,
     Upstream
<1>4. Request(r)'
  BY <1>0, <1>1, <1>2, <1>3 DEF Request, PendingPart, FreshPart, AnswerPart, ShownPart, SentPart,
     RevokedPart, Entitled, Shown, Active, NotSent
<1> QED  BY <1>0, <1>1, <1>4, HandlerInv, PhaseFacts

\* What becomes of an admitted request is never taken for not sent.
LEMMA ObserveInv ==
  ASSUME IInv, NEW r \in Requests, handler[r].phase \in {"forwarding", "inflight"},
         NEW st \in Status \ (Active \cup NotSent), NEW ph \in {"body", "done"},
         Observe(r, st, ph)
  PROVE  IInv'
<1>0. TypeOK /\ Request(r) /\ Unique(recent) /\ recent \in Seq(Review) /\ Len(recent) <= History
  BY DEF IInv, TypeOK
<1>1. /\ recent' = Observed(recent, r, st) /\ Go(r, ph)
      /\ UNCHANGED <<identity, stamp, pending, answer, deciding, row, now, sent, agreed, revoked>>
  BY DEF Observe
<1>2. handler'[r].phase = ph /\ handler'[r].kind = handler[r].kind
  BY <1>0, <1>1, GoCurrent, PhaseFacts
<1>3. /\ Shown(r) \subseteq Active /\ Entitled(r) /\ r \notin DOMAIN pending /\ row[r] # "Blocked"
      /\ r \notin revoked
  BY <1>0 DEF Request, ShownPart, AnswerPart, PendingPart, SentPart, RevokedPart, Ticketed,
     Upstream
<1>4. /\ recent' \in Seq(Review) /\ Len(recent') = Len(recent) /\ Unique(recent')
      /\ \A q : q # r => StatusesIn(recent', q) \subseteq StatusesIn(recent, q)
      /\ StatusesIn(recent', r) \subseteq (StatusesIn(recent, r) \ Active) \cup {st}
  BY <1>0, <1>1, ObservedShape
<1>5. Shown(r)' \cap (Active \cup NotSent) = {}
  BY <1>3, <1>4 DEF Shown
<1>6. Request(r)'
  BY <1>0, <1>1, <1>2, <1>3, <1>5 DEF Request, PendingPart, FreshPart, AnswerPart, ShownPart,
     SentPart, RevokedPart, Entitled
<1> QED  BY <1>0, <1>1, <1>4, <1>6, HandlerInv, PhaseFacts

LEMMA BodyEndsInv ==
  ASSUME IInv, NEW r \in Requests, NEW st \in Refined \cup {"ResponseReceived"}, BodyEnds(r, st)
  PROVE  IInv'
<1>0. TypeOK /\ Request(r) /\ Unique(recent) /\ recent \in Seq(Review) /\ Len(recent) <= History
  BY DEF IInv, TypeOK
<1>1. /\ handler[r].phase = "body" /\ recent' = Detailed(recent, r, st) /\ Go(r, "done")
      /\ UNCHANGED <<identity, stamp, pending, answer, deciding, row, now, sent, agreed, revoked>>
  BY DEF BodyEnds
<1>2. handler'[r].phase = "done" /\ handler'[r].kind = handler[r].kind
  BY <1>0, <1>1, GoCurrent, PhaseFacts
<1>3. /\ Entitled(r) /\ r \notin DOMAIN pending /\ row[r] # "Blocked" /\ r \notin revoked
      /\ Shown(r) \cap Active = {} /\ (r \in sent => Shown(r) \cap NotSent = {})
  BY <1>0, <1>1 DEF Request, ShownPart, AnswerPart, PendingPart, SentPart, RevokedPart, Ticketed,
     Upstream
<1>4. /\ recent' \in Seq(Review) /\ Len(recent') = Len(recent) /\ Unique(recent')
      /\ \A q : q # r => StatusesIn(recent', q) \subseteq StatusesIn(recent, q)
      /\ StatusesIn(recent', r) \subseteq StatusesIn(recent, r) \cup {st}
  BY <1>0, <1>1, DetailedShape DEF Status
<1>5. Shown(r)' \cap Active = {} /\ (r \in sent => Shown(r)' \cap NotSent = {})
  BY <1>3, <1>4 DEF Shown, Active, NotSent, Refined
<1>6. Request(r)'
  BY <1>0, <1>1, <1>2, <1>3, <1>5 DEF Request, PendingPart, FreshPart, AnswerPart, ShownPart,
     SentPart, RevokedPart, Entitled
<1> QED  BY <1>0, <1>1, <1>4, <1>6, HandlerInv, PhaseFacts

LEMMA UpstreamInv ==
  ASSUME IInv, NEW r \in Requests, UpstreamStep(r)
  PROVE  IInv'
<1>1. CASE SubstitutionBlocks(r)
  BY <1>1, QuietInv
<1>2. CASE Send(r)
  BY <1>2, SendInv
<1>3. ASSUME NEW json \in BOOLEAN, Respond(r, json) PROVE IInv'
  <2>1. PICK ph \in {"body", "done"} : Observe(r, "ResponseReceived", ph)
    BY <1>3 DEF Respond
  <2> QED  BY <1>3, <2>1, ObserveInv DEF Respond, Status, Active, NotSent
<1>4. CASE UpstreamFails(r)
  BY <1>4, ObserveInv DEF UpstreamFails, Status, Active, NotSent
<1>5. CASE LoseHandler(r)
  BY <1>5, ObserveInv DEF LoseHandler, Status, Active, NotSent, Refined
<1>6. ASSUME NEW st \in Refined \cup {"ResponseReceived"}, BodyEnds(r, st) PROVE IInv'
  BY <1>6, BodyEndsInv
<1> QED  BY <1>1, <1>2, <1>3, <1>4, <1>5, <1>6 DEF UpstreamStep

-----------------------------------------------------------------------------
(* The guest, the host's policy and the clock *)

LEMMA RemoveUploadInv ==
  ASSUME IInv, NEW r \in Requests, RemoveUpload(r)
  PROVE  IInv'
<1>0. /\ TypeOK /\ EpochsPast /\ Request(r) /\ Unique(recent) /\ recent \in Seq(Review)
      /\ Len(recent) <= History /\ IsFiniteSet(DOMAIN pending)
  BY DEF IInv, TypeOK
<1>1. PICK k \in DOMAIN recent :
        recent' = SubSeq(recent, 1, k - 1) \o SubSeq(recent, k + 1, Len(recent))
  BY DEF RemoveUpload
<1>2. UNCHANGED <<identity, stamp, pending, handler, answer, deciding, row, now, sent, agreed, revoked>>
  BY DEF RemoveUpload, QueueOnly
<1>3. /\ recent' \in Seq(Review) /\ Len(recent') <= Len(recent) /\ Unique(recent')
      /\ \A q : StatusesIn(recent', q) \subseteq StatusesIn(recent, q)
  BY <1>0, <1>1, RemovedShape
<1>4. Len(recent') <= History
  BY <1>0, <1>3, QueueAssumption
<1>5. Others(r)
  BY <1>2, <1>3 DEF Others
<1>6. Current(r)' <=> Current(r)
  BY <1>2 DEF Current, AsyncIdentity
<1>7. Request(r)'
  BY <1>0, <1>2, <1>3, <1>6, Frame
<1> QED  BY <1>0, <1>2, <1>3, <1>4, <1>5, <1>7, LocalInv DEF TypeOK, EpochsPast

\* After a change no request of the guest that began before is current.
LEMMA ChangeRevokes ==
  ASSUME IInv, NEW n \in Names, Change(n)
  PROVE  /\ AuthorityTypeOK'
         /\ stamp' = stamp + 1 /\ stamp \in Nat
         /\ \A m \in Names : identity'[m].epoch < stamp'
         /\ \A m \in Names : m # n => identity'[m] = identity[m]
         /\ identity'[n].peers = {} \/ identity'[n].epoch = stamp
<1>1. PICK i \in Renewed(identity[n]) \cup {Absent} : identity' = [identity EXCEPT ![n] = i]
  BY DEF Change
<1>2. identity \in [Names -> Identity] /\ stamp \in Nat /\ stamp' = stamp + 1
  BY DEF IInv, TypeOK, AuthorityTypeOK, Change
<1>3. i \in Identity /\ (i.peers = {} \/ i.epoch = stamp) /\ i.epoch < stamp + 1
  <2>0. identity[n] \in Identity
    BY <1>2
  <2>1. CASE i = Absent
    BY <1>2, <2>1 DEF Absent, Identity
  <2>2. CASE i \in Renewed(identity[n])
    <3>1. /\ i.instance \in {stamp, identity[n].instance} /\ i.epoch = stamp
          /\ i.peers \in SUBSET IPs /\ i.durable \in BOOLEAN
          /\ i = [instance |-> i.instance, epoch |-> i.epoch, peers |-> i.peers,
                  durable |-> i.durable]
      BY <2>0, <2>2 DEF Renewed, Identity
    <3>2. identity[n].instance \in Nat
      BY <2>0 DEF Identity
    <3> QED  BY <1>2, <3>1, <3>2 DEF Identity
  <2> QED  BY <2>1, <2>2
<1>4. \A m \in Names : identity[m].epoch \in Nat /\ identity[m].epoch < stamp
  BY <1>2 DEF Identity, IInv
<1>5. /\ identity' \in [Names -> Identity] /\ identity'[n] = i
      /\ \A m \in Names : m # n => identity'[m] = identity[m]
  BY <1>1, <1>2, <1>3
<1>6. \A m \in Names : identity'[m].epoch < stamp'
  BY <1>2, <1>3, <1>4, <1>5
<1> QED  BY <1>2, <1>3, <1>5, <1>6 DEF AuthorityTypeOK

LEMMA PolicyChangeInv ==
  ASSUME IInv, NEW n \in Names, PolicyChange(n)
  PROVE  IInv'
<1>0. /\ TypeOK /\ EpochsPast /\ Unique(recent) /\ recent \in Seq(Review)
      /\ IsFiniteSet(DOMAIN pending) /\ handler \in [Requests -> Handler]
      /\ \A r \in Requests : Request(r)
  BY DEF IInv, TypeOK
<1>1. /\ Change(n) /\ CancelContainer(n) /\ Unlocked
      /\ revoked' = revoked \cup (In(BeforeAdmission) \cap Served(n))
      /\ UNCHANGED <<handler, answer, deciding, row, now, sent, agreed>>
  BY DEF PolicyChange
<1>2. PICK ids \in SUBSET Requests : ids = DOMAIN pending \cap Served(n)
  BY <1>0 DEF TypeOK
<1>3. PICK order \in Orders(ids) :
        recent' = Retained(recent \o [i \in DOMAIN order |->
                                        [id |-> order[i], status |-> "Cancelled"]])
  BY <1>1, <1>2 DEF CancelContainer
<1>4. IsFiniteSet(ids)
  BY <1>0, <1>2, FS_Subset
<1>5. \A r \in ids : StatusesIn(recent, r) = {}
  BY <1>0, <1>2 DEF Request, PendingPart, Shown
<1>6. /\ recent' \in Seq(Review) /\ Len(recent') <= History /\ Unique(recent')
      /\ \A q : q \notin ids => StatusesIn(recent', q) \subseteq StatusesIn(recent, q)
      /\ \A q \in ids : StatusesIn(recent', q) \subseteq {"Cancelled"}
  BY <1>0, <1>3, <1>4, <1>5, CancelledShape
<1>7. /\ DOMAIN pending' = DOMAIN pending \ ids
      /\ \A q \in DOMAIN pending' : pending'[q] \in Nat
  BY <1>0, <1>1, <1>2 DEF CancelContainer, Without, TypeOK
<1>8. IsFiniteSet(DOMAIN pending')
  BY <1>0, <1>7, FS_Subset
<1>9. /\ AuthorityTypeOK'
      /\ stamp' = stamp + 1 /\ stamp \in Nat
      /\ \A m \in Names : identity'[m].epoch < stamp'
      /\ \A m \in Names : m # n => identity'[m] = identity[m]
      /\ identity'[n].peers = {} \/ identity'[n].epoch = stamp
  BY <1>1, ChangeRevokes
<1>10. ASSUME NEW q \in Requests, handler[q].phase # "idle"
       PROVE  /\ handler[q].guest \in Names /\ handler[q].epoch \in Nat /\ handler[q].epoch < stamp
              /\ handler[q].guest = n => ~Current(q)'
              /\ Current(q)' => Current(q)
  <2>1. handler[q] \in [phase : Phases \ {"idle"}, kind : Kinds, guest : Names, peer : IPs,
                        instance : Nat, epoch : Nat]
    BY <1>0, <1>10 DEF Handler, IdleHandler
  <2>2. handler[q].guest \in Names /\ handler[q].epoch \in Nat /\ handler[q].epoch < stamp
    BY <1>0, <1>10, <2>1 DEF EpochsPast
  <2>3. handler[q].guest = n => ~Current(q)'
    BY <1>1, <1>9, <2>2 DEF Current, AsyncIdentity
  <2>4. Current(q)' => Current(q)
    BY <1>1, <1>9, <2>2, <2>3 DEF Current, AsyncIdentity
  <2> QED  BY <2>2, <2>3, <2>4
<1>11. TypeOK'
  BY <1>0, <1>1, <1>6, <1>7, <1>9 DEF TypeOK, Unlocked, In
<1>12. EpochsPast'
  BY <1>1, <1>9, <1>10 DEF EpochsPast
<1>13. ASSUME NEW q \in Requests PROVE Request(q)'
  <2>0. Request(q)
    BY <1>0
  <2>1. q \in DOMAIN pending' => q \in DOMAIN pending /\ q \notin ids
    BY <1>7
  <2>2. q \in ids => /\ q \in DOMAIN pending /\ handler[q].phase \in Ticketed
                     /\ answer[q] = None /\ q \notin sent
    BY <1>2, <2>0 DEF Request, PendingPart, SentPart, Ticketed
  <2>3. PendingPart(q)'
    BY <1>1, <1>6, <2>0, <2>1 DEF Request, PendingPart, Shown
  <2>4. FreshPart(q)' /\ SentPart(q)' /\ AnswerPart(q)'
    BY <1>1, <1>6, <2>0, <2>2 DEF Request, FreshPart, SentPart, AnswerPart, Shown, Ticketed, Entitled
  <2>5. ShownPart(q)'
    <3>1. CASE q \in ids
      BY <1>1, <2>2, <3>1, QueueAssumption DEF ShownPart, Ticketed
    <3>2. CASE q \notin ids
      BY <1>1, <1>6, <2>0, <3>2 DEF Request, ShownPart, Shown
    <3> QED  BY <3>1, <3>2
  <2>6. RevokedPart(q)'
    <3>1. CASE q \in In(BeforeAdmission) \cap Served(n)
      <4>1. handler[q].phase \in BeforeAdmission /\ handler[q].phase # "idle" /\ handler[q].guest = n
        BY <3>1 DEF In, Served, BeforeAdmission
      <4>2. q \notin sent
        BY <2>0, <4>1 DEF Request, SentPart, BeforeAdmission
      <4> QED  BY <1>1, <1>10, <4>1, <4>2 DEF RevokedPart, BeforeAdmission, Upstream
    <3>2. CASE q \notin In(BeforeAdmission) \cap Served(n)
      <4>1. q \in revoked' => q \in revoked
        BY <1>1, <3>2
      <4> QED  BY <1>1, <1>10, <2>0, <4>1 DEF Request, RevokedPart
    <3> QED  BY <3>1, <3>2
  <2> QED  BY <2>3, <2>4, <2>5, <2>6 DEF Request
<1> QED  BY <1>6, <1>8, <1>9, <1>11, <1>12, <1>13 DEF IInv

LEMMA TickInv ==
  ASSUME IInv, Tick \/ UNCHANGED vars
  PROVE  IInv'
<1>1. UNCHANGED <<identity, stamp, pending, recent, handler, answer, deciding, row, sent, agreed, revoked>>
  BY DEF Tick, vars, queueVars
<1>2. now' \in Nat
  BY DEF IInv, TypeOK, Tick, vars, queueVars
<1>3. TypeOK'
  BY <1>1, <1>2 DEF IInv, TypeOK, AuthorityTypeOK
<1>4. ASSUME NEW q \in Requests PROVE Request(q)'
  <2>1. Current(q)' <=> Current(q)
    BY <1>1 DEF Current, AsyncIdentity
  <2> QED  BY <1>1, <2>1, Frame DEF IInv
<1> QED  BY <1>1, <1>3, <1>4 DEF IInv, EpochsPast, Unique

-----------------------------------------------------------------------------
(* The theorems *)

LEMMA InitInv == Init => IInv
<1> SUFFICES ASSUME Init PROVE IInv
  OBVIOUS
<1>1. /\ identity \in [Names -> Identity] /\ stamp = 1
      /\ \A n \in Names : identity[n].epoch < stamp
  <2> DEFINE first == [instance |-> 0, epoch |-> 0, peers |-> IPs, durable |-> TRUE]
  <2>1. first \in Identity /\ first.epoch = 0
    BY DEF Identity
  <2>2. identity \in [Names -> {first}] /\ stamp = 1
    BY DEF Init
  <2> HIDE DEF first
  <2>3. \A n \in Names : identity[n] = first
    BY <2>2
  <2> QED  BY <2>1, <2>2, <2>3
<1>2. /\ DOMAIN pending = {} /\ recent = <<>> /\ sent = {} /\ revoked = {} /\ agreed = {}
      /\ \A r \in Requests : /\ handler[r] = IdleHandler /\ handler[r].phase = "idle"
                             /\ answer[r] = None /\ row[r] = None
  BY DEF Init, IdleHandler
<1>3. TypeOK
  <2>1. handler \in [Requests -> Handler]
    BY DEF Init, Handler
  <2>2. recent \in Seq(Review) /\ Len(recent) <= History
    BY <1>2, QueueAssumption
  <2> QED  BY <1>1, <1>2, <2>1, <2>2 DEF Init, TypeOK, AuthorityTypeOK
<1>4. IsFiniteSet(DOMAIN pending)
  BY <1>2, FS_EmptySet
<1>5. Unique(recent) /\ \A r : StatusesIn(recent, r) = {}
  BY <1>2 DEF Unique, StatusesIn
<1>6. \A r \in Requests : Request(r)
  BY <1>2, <1>5, QueueAssumption DEF Request, PendingPart, FreshPart, AnswerPart, ShownPart,
     SentPart, RevokedPart, Shown, Upstream
<1> QED  BY <1>1, <1>2, <1>3, <1>4, <1>5, <1>6 DEF IInv, EpochsPast

\* Every step of the guests, the host, the handlers and the clock preserves the
\* invariant.
LEMMA StepInv == IInv /\ [Next]_vars => IInv'
<1> SUFFICES ASSUME IInv, [Next]_vars PROVE IInv'
  OBVIOUS
<1>1. ASSUME NEW r \in Requests, LocalStep(r) PROVE IInv'
  BY <1>1, QuietInv, AdmitReadInv, EnqueueInv, AutomaticInv, DropTicketInv, AdmitReviewInv, EndInv
  DEF LocalStep
<1>2. ASSUME NEW r \in Requests, UpstreamStep(r) PROVE IInv'
  BY <1>2, UpstreamInv
<1>3. ASSUME NEW r \in Requests, GuestStep(r) PROVE IInv'
  <2>1. ASSUME CancelUpload(r) PROVE IInv'
    BY <2>1, DismissInv DEF CancelUpload, QueueOnly, NotSent
  <2> QED  BY <1>3, <2>1, BeginInv, QuietInv, RemoveUploadInv DEF GuestStep
<1>4. CASE HostStep
  BY <1>4, DecideStartInv, DecideFinishInv, PolicyChangeInv DEF HostStep
<1>5. CASE Tick \/ UNCHANGED vars
  BY <1>5, TickInv
<1> QED  BY <1>1, <1>2, <1>3, <1>4, <1>5 DEF Next

(***************************************************************************)
(* The inductive invariant holds in every state of every behaviour.        *)
(***************************************************************************)
THEOREM Invariance == Spec => []IInv
  BY InitInv, StepInv, PTL DEF Spec

(***************************************************************************)
(* The queue, its history, the handlers and the log keep their types.      *)
(***************************************************************************)
THEOREM TypeCorrect == Spec => []TypeOK
<1>1. IInv => TypeOK
  BY DEF IInv
<1> QED  BY <1>1, Invariance, PTL

(***************************************************************************)
(* However handlers are dropped and decisions race with them, the host is  *)
(* shown no review whose handler is gone, and none twice (ReviewLogGuard). *)
(***************************************************************************)
THEOREM NoGhosts == Spec => []NoGhostReviews
<1>1. ASSUME IInv PROVE NoGhostReviews
  <2>0. (\A r \in Requests : Request(r)) /\ \A i \in DOMAIN recent : recent[i].id \in Requests
    <3>1. recent \in Seq(Review) /\ \A r \in Requests : Request(r)
      BY <1>1 DEF IInv, TypeOK
    <3>2. \A i \in DOMAIN recent : recent[i] \in Review
      BY <3>1
    <3> QED  BY <3>1, <3>2 DEF Review
  <2>1. ASSUME NEW r \in DOMAIN pending
        PROVE  handler[r].phase \in {"automatic", "waiting", "leaving", "expiring"} /\ ~IsRecent(r)
    <3>1. r \in Requests
      BY <1>1 DEF IInv, TypeOK
    <3>2. handler[r].phase \in Ticketed /\ StatusesIn(recent, r) = {}
      BY <2>0, <3>1 DEF Request, PendingPart, Shown
    <3> QED  BY <3>2, ShownElement DEF IsRecent, Ticketed
  <2>2. ASSUME NEW i \in DOMAIN recent, recent[i].status \in Active
        PROVE  handler[recent[i].id].phase \notin {"idle", "done"}
    <3>1. PICK r \in Requests : recent[i].id = r
      BY <2>0
    <3>2. recent[i].status \in StatusesIn(recent, r)
      BY <3>1, ShownElement
    <3> QED  BY <2>0, <2>2, <3>1, <3>2 DEF Request, FreshPart, ShownPart, Shown
  <2>3. Unique(recent)
    BY <1>1 DEF IInv
  <2> QED  BY <2>1, <2>2, <2>3 DEF NoGhostReviews, Unique
<1> QED  BY <1>1, Invariance, PTL

(***************************************************************************)
(* What a review or the request log calls not sent was not sent.           *)
(***************************************************************************)
THEOREM NotSentIsHonest == Spec => []NotSentIsTrue
<1>1. ASSUME IInv PROVE NotSentIsTrue
  <2>0. (\A r \in Requests : Request(r)) /\ \A i \in DOMAIN recent : recent[i].id \in Requests
    <3>1. recent \in Seq(Review) /\ \A r \in Requests : Request(r)
      BY <1>1 DEF IInv, TypeOK
    <3>2. \A i \in DOMAIN recent : recent[i] \in Review
      BY <3>1
    <3> QED  BY <3>1, <3>2 DEF Review
  <2>1. ASSUME NEW i \in DOMAIN recent, recent[i].status \in NotSent
        PROVE  recent[i].id \notin sent
    <3>1. PICK r \in Requests : recent[i].id = r
      BY <2>0
    <3>2. recent[i].status \in StatusesIn(recent, r)
      BY <3>1, ShownElement
    <3> QED  BY <2>0, <2>1, <3>1, <3>2 DEF Request, ShownPart, Shown
  <2>2. \A r \in Requests : row[r] = "Blocked" => r \notin sent
    BY <2>0 DEF Request, SentPart
  <2> QED  BY <2>1, <2>2 DEF NotSentIsTrue
<1> QED  BY <1>1, Invariance, PTL

(***************************************************************************)
(* A request that needs the host's approval is sent only with it.          *)
(***************************************************************************)
THEOREM ApprovedBeforeSent == Spec => []SentWasApproved
<1>1. IInv => SentWasApproved
  BY DEF IInv, TypeOK, Request, AnswerPart, Entitled, SentWasApproved
<1> QED  BY <1>1, Invariance, PTL

(***************************************************************************)
(* A request whose guest lost or changed its authority before admission is *)
(* never sent (admit_review, admit_graphql_read).                          *)
(***************************************************************************)
THEOREM RevokedIsNotSent == Spec => []RevokedNeverSent
<1>1. IInv => RevokedNeverSent
  BY DEF IInv, TypeOK, Request, RevokedPart, RevokedNeverSent
<1> QED  BY <1>1, Invariance, PTL

-----------------------------------------------------------------------------
(* Settled reviews *)

Settled(s, t) ==
  \A i \in DOMAIN s : \A j \in DOMAIN t :
    s[i].id = t[j].id /\ s[i].status \notin Active =>
      \/ t[j] = s[i]
      \/ s[i].status = "ResponseReceived" /\ t[j].status \in Refined

\* What is shown of a settled request is what was shown, or refines it.
LEMMA SettledShape ==
  ASSUME NEW s \in Seq(Review), NEW t \in Seq(Review), Unique(s),
         \A q \in Requests :
           \/ StatusesIn(t, q) \subseteq StatusesIn(s, q)
           \/ StatusesIn(s, q) \subseteq Active
           \/ /\ "ResponseReceived" \in StatusesIn(s, q)
              /\ StatusesIn(t, q) \subseteq {"ResponseReceived"} \cup Refined
  PROVE  Settled(s, t)
<1> SUFFICES ASSUME NEW i \in DOMAIN s, NEW j \in DOMAIN t,
                    s[i].id = t[j].id, s[i].status \notin Active
             PROVE  \/ t[j] = s[i]
                    \/ s[i].status = "ResponseReceived" /\ t[j].status \in Refined
  BY DEF Settled
<1>1. s[i] \in Review /\ t[j] \in Review
  OBVIOUS
<1>2. PICK q \in Requests : s[i].id = q
  BY <1>1 DEF Review
<1>3. s[i].status \in StatusesIn(s, q) /\ t[j].status \in StatusesIn(t, q)
  BY <1>2, ShownElement
<1>4. \A x \in StatusesIn(s, q) : x = s[i].status
  BY <1>2, ShownElement DEF Unique
<1>5. t[j].status = s[i].status => t[j] = s[i]
  BY <1>1 DEF Review
<1> QED  BY <1>3, <1>4, <1>5

\* How a step changes the retained reviews.
LEMMA RecentSteps ==
  ASSUME IInv, [Next]_vars
  PROVE  \/ UNCHANGED recent
         \/ \E r \in DOMAIN pending, st \in Status : Archive(r, st)
         \/ \E r \in Requests, st \in Status : recent' = Observed(recent, r, st)
         \/ \E r \in Requests, st \in Refined \cup {"ResponseReceived"} :
               recent' = Detailed(recent, r, st)
         \/ \E k \in DOMAIN recent :
               recent' = SubSeq(recent, 1, k - 1) \o SubSeq(recent, k + 1, Len(recent))
         \/ \E n \in Names : CancelContainer(n)
<1>1. ASSUME NEW r \in Requests, LocalStep(r)
      PROVE  \/ UNCHANGED recent
             \/ r \in DOMAIN pending /\ \E st \in Status : Archive(r, st)
             \/ \E st \in Status : recent' = Observed(recent, r, st)
  BY <1>1 DEF LocalStep, Refuse, AdmitRead, Enqueue, Automatic, Wake, TimeOut, DropTicket,
     AdmitUpload, LookupFails, AdmitReview, End, HandlerOnly, Status, Active, NotSent
<1>2. ASSUME NEW r \in Requests, UpstreamStep(r)
      PROVE  \/ UNCHANGED recent
             \/ \E st \in Status : recent' = Observed(recent, r, st)
             \/ \E st \in Refined \cup {"ResponseReceived"} : recent' = Detailed(recent, r, st)
  BY <1>2 DEF UpstreamStep, SubstitutionBlocks, Send, Respond, UpstreamFails, LoseHandler, BodyEnds,
     Observe, HandlerOnly, Status, Refined
<1>3. ASSUME NEW r \in Requests, GuestStep(r)
      PROVE  \/ UNCHANGED recent
             \/ r \in DOMAIN pending /\ \E st \in Status : Archive(r, st)
             \/ \E k \in DOMAIN recent :
                   recent' = SubSeq(recent, 1, k - 1) \o SubSeq(recent, k + 1, Len(recent))
  BY <1>3 DEF GuestStep, Begin, Disconnect, CancelUpload, RemoveUpload, HandlerOnly, Status, NotSent
<1>4. ASSUME DecideFinish PROVE \E r \in DOMAIN pending, st \in Status : Archive(r, st)
  <2>1. deciding.id \in DOMAIN pending
    BY <1>4 DEF IInv, TypeOK, DecideFinish
  <2> QED  BY <1>4, <2>1 DEF DecideFinish, Status, Active, NotSent
<1>5. ASSUME NEW r \in Requests, NEW approve \in BOOLEAN, DecideStart(r, approve)
      PROVE  \/ UNCHANGED recent
             \/ r \in DOMAIN pending /\ \E st \in Status : Archive(r, st)
  <2>1. r \in DOMAIN pending /\ "Expired" \in Status
    BY <1>5 DEF DecideStart, Status, NotSent
  <2>2. CASE pending[r] <= now
    BY <1>5, <2>1, <2>2 DEF DecideStart
  <2>3. CASE ~(pending[r] <= now)
    BY <1>5, <2>3 DEF DecideStart
  <2> QED  BY <2>2, <2>3
<1>6. ASSUME NEW n \in Names, PolicyChange(n) PROVE CancelContainer(n)
  BY <1>6 DEF PolicyChange
<1>7. CASE Tick \/ UNCHANGED vars
  BY <1>7 DEF Tick, vars, queueVars
<1> QED  BY <1>1, <1>2, <1>3, <1>4, <1>5, <1>6, <1>7 DEF Next, HostStep

LEMMA SettledStep ==
  ASSUME IInv, [Next]_vars
  PROVE  Settled(recent, recent')
<1>0. /\ recent \in Seq(Review) /\ recent' \in Seq(Review) /\ Unique(recent)
      /\ \A r \in DOMAIN pending : r \in Requests /\ StatusesIn(recent, r) = {}
  <2>1. IInv'
    BY StepInv
  <2> QED  BY <2>1 DEF IInv, TypeOK, Request, PendingPart, Shown
<1>1. CASE UNCHANGED recent
  BY <1>0, <1>1, SettledShape
<1>2. ASSUME NEW r \in DOMAIN pending, NEW st \in Status, Archive(r, st)
      PROVE  Settled(recent, recent')
  <2>1. \A q : q # r => StatusesIn(recent', q) \subseteq StatusesIn(recent, q)
    BY <1>2, ArchiveShape
  <2> QED  BY <1>0, <2>1, SettledShape
<1>3. ASSUME NEW r \in Requests, NEW st \in Status, recent' = Observed(recent, r, st)
      PROVE  Settled(recent, recent')
  <2>1. /\ \A q : q # r => StatusesIn(recent', q) \subseteq StatusesIn(recent, q)
        /\ StatusesIn(recent, r) \cap Active = {} =>
             StatusesIn(recent', r) \subseteq StatusesIn(recent, r)
    BY <1>0, <1>3, ObservedShape
  <2>2. StatusesIn(recent, r) \cap Active = {} \/ StatusesIn(recent, r) \subseteq Active
    <3>1. \A x, y \in StatusesIn(recent, r) : x = y
      BY <1>0, ShownElement DEF Unique
    <3> QED  BY <3>1
  <2> QED  BY <1>0, <2>1, <2>2, SettledShape
<1>4. ASSUME NEW r \in Requests, NEW st \in Refined \cup {"ResponseReceived"},
             recent' = Detailed(recent, r, st)
      PROVE  Settled(recent, recent')
  <2>1. /\ \A q : q # r => StatusesIn(recent', q) \subseteq StatusesIn(recent, q)
        /\ StatusesIn(recent', r) \subseteq StatusesIn(recent, r) \cup {st}
        /\ "ResponseReceived" \notin StatusesIn(recent, r) =>
             StatusesIn(recent', r) \subseteq StatusesIn(recent, r)
    BY <1>0, <1>4, DetailedShape DEF Status
  <2>2. \A x, y \in StatusesIn(recent, r) : x = y
    BY <1>0, ShownElement DEF Unique
  <2> QED  BY <1>0, <2>1, <2>2, SettledShape
<1>5. ASSUME NEW k \in DOMAIN recent,
             recent' = SubSeq(recent, 1, k - 1) \o SubSeq(recent, k + 1, Len(recent))
      PROVE  Settled(recent, recent')
  <2>1. \A q : StatusesIn(recent', q) \subseteq StatusesIn(recent, q)
    BY <1>0, <1>5, RemovedShape
  <2> QED  BY <1>0, <2>1, SettledShape
<1>6. ASSUME NEW n \in Names, CancelContainer(n) PROVE Settled(recent, recent')
  <2>1. PICK ids \in SUBSET Requests : ids = DOMAIN pending \cap Served(n)
    BY <1>0
  <2>2. PICK order \in Orders(ids) :
          recent' = Retained(recent \o [i \in DOMAIN order |->
                                          [id |-> order[i], status |-> "Cancelled"]])
    BY <1>6, <2>1 DEF CancelContainer
  <2>3. IsFiniteSet(ids)
    BY <2>1, FS_Subset DEF IInv
  <2>4. \A q : q \notin ids => StatusesIn(recent', q) \subseteq StatusesIn(recent, q)
    BY <1>0, <2>1, <2>2, <2>3, CancelledShape
  <2> QED  BY <1>0, <2>1, <2>4, SettledShape
<1> QED  BY <1>1, <1>2, <1>3, <1>4, <1>5, <1>6, RecentSteps

(***************************************************************************)
(* No late callback or cleanup changes a settled review, except that the   *)
(* body of a response refines what is said of it (Queue::observe).         *)
(***************************************************************************)
THEOREM SettledReviewsStay == Spec => SettledStays
<1>1. IInv /\ [Next]_vars => [Settled(recent, recent')]_vars
  BY SettledStep
<1>2. [][Settled(recent, recent')]_vars <=> SettledStays
  BY PTL DEF SettledStays, Settled
<1> QED  BY <1>1, <1>2, Invariance, PTL DEF Spec
=============================================================================
