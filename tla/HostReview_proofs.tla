------------------------ MODULE HostReview_proofs ------------------------
(***************************************************************************)
(* Proofs about GraphqlReview and DisplayTargets, for every document,      *)
(* every review and every limit.                                           *)
(***************************************************************************)
EXTENDS GraphqlReview, DisplayTargets, FiniteSetTheorems, SequenceTheorems,
        WellFoundedInduction, TLAPS

-----------------------------------------------------------------------------
(* Induction, with a set of numbers for the property *)

Less == {ss \in Nat \X Nat : ss[1] < ss[2]}

\* A set of numbers has a least one.
LEMMA Least ==
  ASSUME NEW S \in SUBSET Nat, S # {}
  PROVE  \E m \in S : \A k \in S : m <= k
<1>1. IsWellFoundedOn(Less, Nat)
  BY NatLessThanWellFounded DEF OpToRel, Less
<1>2. PICK m \in S : \A k \in S : ~(<<k, m>> \in Less)
  BY <1>1, WFMin
<1>3. \A k \in S : ~(k < m)
  BY <1>2 DEF Less
<1> QED  BY <1>3

\* A set that holds 0 and with a number the next one holds them all.
LEMMA Induct ==
  ASSUME NEW S, 0 \in S, \A n \in Nat : n \in S => n + 1 \in S
  PROVE  Nat \subseteq S
<1> SUFFICES ASSUME Nat \ S # {} PROVE FALSE
  OBVIOUS
<1>1. PICK m \in Nat \ S : \A k \in Nat \ S : m <= k
  BY Least
<1>2. m - 1 \in Nat /\ m - 1 \in S
  BY <1>1
<1> QED  BY <1>1, <1>2

\* n steps from a start, step i by the function F[i].
Runs(V, A, F, n) ==
  {g \in [0 .. n -> V] : g[0] = A /\ \A i \in 0 .. n : i # n => g[i + 1] = F[i][g[i]]}

LEMMA RunExists ==
  ASSUME NEW V, NEW A \in V, NEW F \in [Nat -> [V -> V]], NEW n \in Nat
  PROVE  Runs(V, A, F, n) # {}
<1> DEFINE S == {k \in Nat : Runs(V, A, F, k) # {}}
<1>1. 0 \in S
  <2>1. [i \in 0 .. 0 |-> A] \in Runs(V, A, F, 0)
    BY DEF Runs
  <2> QED  BY <2>1
<1>2. ASSUME NEW k \in Nat, k \in S PROVE k + 1 \in S
  <2>1. PICK g : g \in Runs(V, A, F, k)
    BY <1>2
  <2> DEFINE h == [i \in 0 .. k + 1 |-> IF i = k + 1 THEN F[k][g[k]] ELSE g[i]]
  <2>2. h \in [0 .. k + 1 -> V]
    BY <2>1 DEF Runs
  <2>3. h[0] = A
    BY <2>1 DEF Runs
  <2>4. ASSUME NEW i \in 0 .. k + 1, i # k + 1 PROVE h[i + 1] = F[i][h[i]]
    BY <2>1, <2>4 DEF Runs
  <2>5. h \in Runs(V, A, F, k + 1)
    BY <2>2, <2>3, <2>4 DEF Runs
  <2> QED  BY <2>5
<1> HIDE DEF S
<1>3. Nat \subseteq S
  BY <1>1, <1>2, Induct
<1> QED  BY <1>3 DEF S

LEMMA RunsAgree ==
  ASSUME NEW V, NEW A \in V, NEW F \in [Nat -> [V -> V]], NEW n \in Nat, NEW m \in Nat,
         NEW g \in Runs(V, A, F, n), NEW h \in Runs(V, A, F, m), NEW i \in Nat,
         i <= n, i <= m
  PROVE  g[i] = h[i]
<1> DEFINE S == {k \in Nat : k <= n /\ k <= m => g[k] = h[k]}
<1>1. 0 \in S
  BY DEF Runs
<1>2. ASSUME NEW k \in Nat, k \in S PROVE k + 1 \in S
  <2> SUFFICES ASSUME k + 1 <= n, k + 1 <= m PROVE g[k + 1] = h[k + 1]
    OBVIOUS
  <2>1. g[k] = h[k]
    BY <1>2
  <2>2. g[k + 1] = F[k][g[k]] /\ h[k + 1] = F[k][h[k]]
    BY DEF Runs
  <2> QED  BY <2>1, <2>2
<1> HIDE DEF S
<1>3. Nat \subseteq S
  BY <1>1, <1>2, Induct
<1> QED  BY <1>3 DEF S

\* The function on all numbers that a recursion defines.
IsIteration(f, V, A, F) ==
  f \in [Nat -> V] /\ f[0] = A /\ \A n \in Nat : f[n + 1] = F[n][f[n]]

LEMMA Iterate ==
  ASSUME NEW V, NEW A \in V, NEW F \in [Nat -> [V -> V]]
  PROVE  \E f : IsIteration(f, V, A, F)
<1> DEFINE run(n) == CHOOSE g : g \in Runs(V, A, F, n)
           f == [n \in Nat |-> run(n)[n]]
<1>1. ASSUME NEW n \in Nat PROVE run(n) \in Runs(V, A, F, n)
  BY RunExists
<1>2. f \in [Nat -> V]
  <2> HIDE DEF run
  <2>1. \A n \in Nat : run(n)[n] \in V
    BY <1>1 DEF Runs
  <2> QED  BY <2>1
<1>3. f[0] = A
  BY <1>1 DEF Runs
<1>4. ASSUME NEW n \in Nat PROVE f[n + 1] = F[n][f[n]]
  <2>1. run(n) \in Runs(V, A, F, n) /\ run(n + 1) \in Runs(V, A, F, n + 1)
    BY <1>1
  <2> HIDE DEF run
  <2>2. run(n)[n] = run(n + 1)[n]
    BY <2>1, RunsAgree
  <2>3. run(n + 1)[n + 1] = F[n][run(n + 1)[n]]
    BY <2>1 DEF Runs
  <2> QED  BY <2>2, <2>3
<1>5. IsIteration(f, V, A, F)
  BY <1>2, <1>3, <1>4 DEF IsIteration
<1> QED  BY <1>5

-----------------------------------------------------------------------------
(* The selections below a selection set *)

Widened(doc) ==
  [X \in SUBSET DOMAIN doc.sel |-> X \cup UNION {Elems(doc.sel[n].kids) : n \in X}]

LEMMA KidsInside ==
  ASSUME NEW doc, IsDocument(doc), NEW n \in DOMAIN doc.sel
  PROVE  Elems(doc.sel[n].kids) \subseteq DOMAIN doc.sel
<1>1. doc.sel[n].kids \in Seq(DOMAIN doc.sel)
  BY DEF IsDocument
<1> QED  BY <1>1 DEF Elems

LEMMA LevelsRecursion ==
  ASSUME NEW doc, IsDocument(doc), NEW kids \in Seq(DOMAIN doc.sel)
  PROVE  LET f == Levels(doc, kids)
         IN /\ f[0] = Elems(kids)
            /\ \A n \in Nat : f[n + 1] = f[n] \cup UNION {Elems(doc.sel[m].kids) : m \in f[n]}
<1>1. Elems(kids) \in SUBSET DOMAIN doc.sel
  BY DEF Elems
<1> DEFINE F == [i \in Nat |-> Widened(doc)]
<1>2. F \in [Nat -> [SUBSET DOMAIN doc.sel -> SUBSET DOMAIN doc.sel]]
  BY KidsInside DEF Widened
<1>3. PICK f : IsIteration(f, SUBSET DOMAIN doc.sel, Elems(kids), F)
  <2> HIDE DEF F
  <2> QED  BY <1>1, <1>2, Iterate
<1> DEFINE G(g) == [i \in Nat |->
                      IF i = 0 THEN Elems(kids)
                      ELSE g[i - 1] \cup UNION {Elems(doc.sel[n].kids) : n \in g[i - 1]}]
<1>4. f = G(f)
  <2>1. ASSUME NEW i \in Nat PROVE f[i] = G(f)[i]
    <3>1. CASE i = 0
      BY <1>3, <3>1 DEF IsIteration
    <3>2. CASE i # 0
      <4>1. PICK k \in Nat : i = k + 1
        <5>1. i - 1 \in Nat /\ i = (i - 1) + 1
          BY <3>2
        <5> QED  BY <5>1
      <4>2. f[k + 1] = Widened(doc)[f[k]]
        BY <1>3 DEF IsIteration
      <4>3. f[k] \in SUBSET DOMAIN doc.sel
        BY <1>3 DEF IsIteration
      <4>4. f[k + 1] = f[k] \cup UNION {Elems(doc.sel[n].kids) : n \in f[k]}
        BY <4>2, <4>3 DEF Widened
      <4>5. i - 1 = k
        BY <4>1
      <4> QED  BY <4>1, <4>4, <4>5, <3>2
    <3> QED  BY <3>1, <3>2
  <2> QED  BY <2>1, <1>3 DEF IsIteration
<1>5. Levels(doc, kids) = CHOOSE g : g = G(g)
  BY DEF Levels
<1>6. Levels(doc, kids) = G(Levels(doc, kids))
  BY <1>4, <1>5
<1> QED  BY <1>6

Closed(doc, X) == \A n \in X : Elems(doc.sel[n].kids) \subseteq X

\* The levels grow until they are closed.
LEMMA LevelsGrow ==
  ASSUME NEW doc, IsDocument(doc), NEW kids \in Seq(DOMAIN doc.sel), NEW n \in Nat
  PROVE  LET f == Levels(doc, kids)
         IN /\ f[n] \subseteq DOMAIN doc.sel
            /\ Elems(kids) \subseteq f[n]
            /\ Closed(doc, f[n]) \/ Cardinality(f[n]) >= n
<1> DEFINE f == Levels(doc, kids)
           D == DOMAIN doc.sel
           S == {k \in Nat : /\ f[k] \subseteq D /\ Elems(kids) \subseteq f[k]
                             /\ Closed(doc, f[k]) \/ Cardinality(f[k]) >= k}
<1>1. /\ f[0] = Elems(kids)
      /\ \A k \in Nat : f[k + 1] = f[k] \cup UNION {Elems(doc.sel[m].kids) : m \in f[k]}
  BY LevelsRecursion
<1> HIDE DEF f
<1>f. IsFiniteSet(D)
  BY DEF IsDocument
<1>2. 0 \in S
  <2>1. f[0] \subseteq D
    BY <1>1 DEF Elems
  <2>2. Cardinality(f[0]) \in Nat
    BY <2>1, <1>f, FS_Subset, FS_CardinalityType
  <2> QED  BY <2>1, <2>2, <1>1
<1>3. ASSUME NEW k \in Nat, k \in S PROVE k + 1 \in S
  <2>1. f[k] \subseteq D /\ Elems(kids) \subseteq f[k]
    BY <1>3
  <2>2. f[k] \subseteq f[k + 1] /\ f[k + 1] \subseteq D
    BY <2>1, <1>1, KidsInside
  <2>3. CASE Closed(doc, f[k])
    <3>1. UNION {Elems(doc.sel[m].kids) : m \in f[k]} \subseteq f[k]
      BY <2>3 DEF Closed
    <3>2. f[k + 1] = f[k]
      BY <3>1, <1>1
    <3> QED  BY <3>2, <2>1, <2>3
  <2>4. CASE ~Closed(doc, f[k])
    <3>1. f[k + 1] # f[k]
      BY <2>4, <1>1 DEF Closed
    <3>2. IsFiniteSet(f[k + 1]) /\ Cardinality(f[k + 1]) \in Nat /\ Cardinality(f[k]) \in Nat
      BY <2>1, <2>2, <1>f, FS_Subset, FS_CardinalityType
    <3>3. Cardinality(f[k]) < Cardinality(f[k + 1])
      BY <3>1, <3>2, <2>2, FS_Subset
    <3>4. Cardinality(f[k]) >= k
      BY <1>3, <2>4
    <3>5. Cardinality(f[k + 1]) >= k + 1
      BY <3>2, <3>3, <3>4
    <3> QED  BY <3>5, <2>1, <2>2
  <2> QED  BY <2>3, <2>4
<1>4. Nat \subseteq S
  <2> HIDE DEF S
  <2> QED  BY <1>2, <1>3, Induct
<1> QED  BY <1>4 DEF f

\* What is below a selection set holds its members, and what they hold.
LEMMA BelowClosed ==
  ASSUME NEW doc, IsDocument(doc), NEW kids \in Seq(DOMAIN doc.sel)
  PROVE  /\ Below(doc, kids) \subseteq DOMAIN doc.sel
         /\ Elems(kids) \subseteq Below(doc, kids)
         /\ Closed(doc, Below(doc, kids))
<1> DEFINE f == Levels(doc, kids)
           N == Cardinality(DOMAIN doc.sel)
<1>1. IsFiniteSet(DOMAIN doc.sel) /\ N \in Nat
  BY FS_CardinalityType DEF IsDocument
<1>2. /\ f[N] \subseteq DOMAIN doc.sel
      /\ Elems(kids) \subseteq f[N]
      /\ Closed(doc, f[N]) \/ Cardinality(f[N]) >= N
  BY <1>1, LevelsGrow
<1>3. Closed(doc, f[N])
  <2>1. CASE Cardinality(f[N]) >= N
    <3>1. Cardinality(f[N]) \in Nat /\ Cardinality(f[N]) <= N
      BY <1>1, <1>2, FS_Subset, FS_CardinalityType
    <3>2. f[N] = DOMAIN doc.sel
      BY <3>1, <2>1, <1>1, <1>2, FS_Subset
    <3> QED  BY <3>2, KidsInside DEF Closed
  <2> QED  BY <2>1, <1>2
<1> QED  BY <1>2, <1>3 DEF Below

-----------------------------------------------------------------------------
(* What holds on the way to a decision *)

\* The body is one document, all of whose fragments are defined.
Resolved ==
  /\ IsGraphql(Req) /\ ~Req.query
  /\ EnvelopeParses(Req.body, MediaOf(Req))
  /\ DocumentParses(Doc)
  /\ AllReferences(Doc) \subseteq FragmentNames(Doc)

\* What the gates let through.
Gated ==
  pc # "gate" /\ pc # "end" =>
    /\ Classify(Req, input.allowAll) = "review"
    /\ Req.host \in ClineHosts \cup {"api.cline.bot"} => ~IsApiKeyManagement(Req.path)

\* Fragments none of which leads back to itself.
Founded(doc, done) ==
  \A S \in SUBSET done : S # {} => \E f \in S : Edges(doc, f) \cap S = {}

\* The walk: what is done is closed and founded; a call on the stack was made
\* by the one below it, and has every edge done, to do or on top of it; the
\* last one calls what is in last.
WalkTyped(w, names) ==
  w \in [stack : Seq([name : names, todo : SUBSET names]), done : SUBSET names]
WalkDone(doc, w) ==
  /\ Founded(doc, w.done)
  /\ \A f \in w.done : Edges(doc, f) \subseteq w.done
After(w, i, last) == IF i < Len(w.stack) THEN {w.stack[i + 1].name} ELSE last
CallOK(doc, call, done, after) ==
  /\ call.name \notin done
  /\ call.todo \cup after \subseteq Edges(doc, call.name)
  /\ Edges(doc, call.name) \subseteq done \cup call.todo \cup after
WalkStack(doc, w, last) ==
  \A i \in DOMAIN w.stack : CallOK(doc, w.stack[i], w.done, After(w, i, last))
WalkNames(w) ==
  \A i, j \in DOMAIN w.stack : w.stack[i].name = w.stack[j].name => i = j
Walking(doc, w) ==
  /\ WalkTyped(w, FragmentNames(doc)) /\ Len(w.stack) <= MaxDepth + 1
  /\ WalkDone(doc, w) /\ WalkStack(doc, w, {}) /\ WalkNames(w)
WalkOK == pc = "fragments" => Walking(Doc, walk)

\* The scan: P is what was looked at.  What it holds is in it or pending.
Looked(doc, op, sc, P) ==
  LET seen == P \cup Elems(sc.pending)
  IN /\ Elems(op.kids) \subseteq seen
     /\ \A n \in P :
          /\ SupportedDirectives(doc.sel[n].dirs)
          /\ doc.sel[n].k # "spread" => Elems(doc.sel[n].kids) \subseteq seen
          /\ doc.sel[n].k = "spread" => doc.sel[n].name \in sc.visited
     /\ \A f \in sc.visited :
          /\ FragmentOf(doc, f).dirs = <<>>
          /\ Elems(FragmentOf(doc, f).kids) \subseteq seen
Scanning(doc, op, sc) ==
  /\ sc \in [pending : Seq(Met(doc, op)), visited : SUBSET FragmentNames(doc)]
  /\ \E P \in SUBSET Met(doc, op) : Looked(doc, op, sc, P)
ScanOK == pc = "directives" => Op.kind = "query" /\ Scanning(Doc, Op, scan)

\* What is known of the document after each stage.
StageOK ==
  /\ pc \in {"fragments", "directives", "analyze", "expand"} => Resolved
  /\ pc \in {"directives", "analyze", "expand"} => ~Cyclic(Doc) /\ OpIndex # None
  /\ read => Resolved /\ ~Cyclic(Doc) /\ OpIndex # None /\ PlainQuery(Doc, Op)
  /\ pc \in {"analyze", "expand", "decide"} /\ ~read =>
       ~MeansRead(Req) \/ HasChain(Doc, MaxDepth + 1)

ReadInv ==
  /\ input \in Inputs
  /\ pc \in {"gate", "body", "fragments", "directives", "analyze", "expand", "decide", "end"}
  /\ read \in BOOLEAN
  /\ walk = NoWalk \/ pc = "fragments"
  /\ Gated /\ WalkOK /\ ScanOK /\ StageOK /\ ReadExactly

-----------------------------------------------------------------------------
(* The walk over the fragments *)

EdgesInside(doc) ==
  \A f \in FragmentNames(doc) : Edges(doc, f) \subseteq FragmentNames(doc)

\* A walk that is about to visit name.
Visiting(doc, w, name) ==
  /\ WalkTyped(w, FragmentNames(doc)) /\ Len(w.stack) <= MaxDepth + 1
  /\ WalkDone(doc, w) /\ WalkStack(doc, w, {name}) /\ WalkNames(w)
  /\ name \in FragmentNames(doc)

LEMMA StackAt ==
  ASSUME NEW doc, NEW w, NEW last, WalkTyped(w, FragmentNames(doc)), WalkStack(doc, w, last)
  PROVE  /\ Len(w.stack) \in Nat /\ DOMAIN w.stack = 1 .. Len(w.stack)
         /\ \A i \in 1 .. Len(w.stack) :
              /\ w.stack[i].name \in FragmentNames(doc)
              /\ w.stack[i].todo \subseteq FragmentNames(doc)
              /\ i < Len(w.stack) => w.stack[i + 1].name \in Edges(doc, w.stack[i].name)
              /\ i = Len(w.stack) => last \subseteq Edges(doc, w.stack[i].name)
<1> DEFINE L == Len(w.stack)
<1>1. /\ w.stack \in Seq([name : FragmentNames(doc), todo : SUBSET FragmentNames(doc)])
      /\ L \in Nat /\ DOMAIN w.stack = 1 .. L
  BY DEF WalkTyped
<1>2. ASSUME NEW i \in 1 .. L
      PROVE  /\ w.stack[i].name \in FragmentNames(doc)
             /\ w.stack[i].todo \subseteq FragmentNames(doc)
             /\ i < L => w.stack[i + 1].name \in Edges(doc, w.stack[i].name)
             /\ i = L => last \subseteq Edges(doc, w.stack[i].name)
  <2>1. w.stack[i] \in [name : FragmentNames(doc), todo : SUBSET FragmentNames(doc)]
    BY <1>1, ElementOfSeq
  <2>2. After(w, i, last) \subseteq Edges(doc, w.stack[i].name)
    BY <1>1 DEF WalkStack, CallOK
  <2>3. i < L => After(w, i, last) = {w.stack[i + 1].name}
    BY DEF After
  <2>4. i = L => After(w, i, last) = last
    BY <1>1 DEF After
  <2> QED  BY <2>1, <2>2, <2>3, <2>4
<1> QED  BY <1>1, <1>2

\* visit gives up at a depth that the fragments really have.
LEMMA DepthIsThere ==
  ASSUME NEW doc, NEW w, NEW name, Visiting(doc, w, name), Len(w.stack) > MaxDepth
  PROVE  HasChain(doc, MaxDepth + 1)
<1> DEFINE n == MaxDepth + 1
           c == [i \in 1 .. n + 1 |-> IF i = n + 1 THEN name ELSE w.stack[i].name]
<1>1. Len(w.stack) = n /\ n \in Nat /\ name \in FragmentNames(doc)
  BY StackAt, LimitAssumption DEF Visiting
<1>2. \A i \in 1 .. n :
        /\ w.stack[i].name \in FragmentNames(doc)
        /\ i < n => w.stack[i + 1].name \in Edges(doc, w.stack[i].name)
        /\ i = n => {name} \subseteq Edges(doc, w.stack[i].name)
  BY <1>1, StackAt DEF Visiting
<1> HIDE DEF n
<1>3. c \in [1 .. n + 1 -> FragmentNames(doc)]
  BY <1>1, <1>2
<1>4. \A i \in 1 .. n : c[i + 1] \in Edges(doc, c[i])
  BY <1>1, <1>2
<1>5. HasChain(doc, n)
  BY <1>3, <1>4 DEF HasChain
<1> QED  BY <1>5 DEF n

\* A fragment that is met again while it is open is on a cycle.
LEMMA CycleIsThere ==
  ASSUME NEW doc, NEW w, NEW name, Visiting(doc, w, name), name \in Active(w)
  PROVE  Cyclic(doc)
<1> DEFINE L == Len(w.stack)
<1>1. L \in Nat /\ DOMAIN w.stack = 1 .. L
  BY StackAt DEF Visiting
<1>a. \A i \in 1 .. L :
        /\ w.stack[i].name \in FragmentNames(doc)
        /\ i < L => w.stack[i + 1].name \in Edges(doc, w.stack[i].name)
        /\ i = L => {name} \subseteq Edges(doc, w.stack[i].name)
  BY StackAt DEF Visiting
<1>2. PICK k \in 1 .. L : w.stack[k].name = name
  BY <1>1 DEF Active
<1> HIDE DEF L
<1> DEFINE S == {w.stack[i].name : i \in k .. L}
<1>b. \A i \in k .. L : i \in 1 .. L /\ w.stack[i].name \in S
  BY <1>1
<1>c. k \in k .. L
  BY <1>1
<1>3. S \in SUBSET FragmentNames(doc) /\ name \in S
  BY <1>a, <1>b, <1>c, <1>2
<1>4. ASSUME NEW f \in S PROVE Edges(doc, f) \cap S # {}
  <2>1. PICK i \in k .. L : f = w.stack[i].name
    BY <1>4
  <2>2. CASE i < L
    <3>1. w.stack[i + 1].name \in Edges(doc, f)
      BY <1>1, <1>a, <2>1, <2>2
    <3>2. w.stack[i + 1].name \in S
      BY <1>1, <2>2
    <3> QED  BY <3>1, <3>2
  <2>3. CASE i = L
    <3>1. name \in Edges(doc, f)
      BY <1>1, <1>a, <2>1, <2>3
    <3> QED  BY <3>1, <1>3
  <2> QED  BY <1>1, <2>2, <2>3
<1> QED  BY <1>3, <1>4 DEF Cyclic

\* A call that is made has all its edges to do.
LEMMA CallMade ==
  ASSUME NEW doc, NEW w, NEW name, Visiting(doc, w, name), EdgesInside(doc),
         Len(w.stack) <= MaxDepth, name \notin w.done, name \notin Active(w),
         NEW v, v = [w EXCEPT !.stack = Append(@, [name |-> name, todo |-> Edges(doc, name)])]
  PROVE  /\ WalkTyped(v, FragmentNames(doc)) /\ Len(v.stack) <= MaxDepth + 1
         /\ WalkDone(doc, v) /\ WalkStack(doc, v, {}) /\ WalkNames(v)
<1> DEFINE names == FragmentNames(doc)
           calls == [name : names, todo : SUBSET names]
           L == Len(w.stack)
           call == [name |-> name, todo |-> Edges(doc, name)]
<1>1. /\ w \in [stack : Seq(calls), done : SUBSET names]
      /\ w.stack \in Seq(calls) /\ L \in Nat /\ DOMAIN w.stack = 1 .. L /\ name \in names
  BY DEF Visiting, WalkTyped
<1>2. call \in calls
  BY <1>1 DEF EdgesInside
<1> HIDE DEF calls, call
<1>3. v.stack = Append(w.stack, call) /\ v.done = w.done
  BY <1>1 DEF call
<1>4. /\ v.stack \in Seq(calls) /\ Len(v.stack) = L + 1 /\ DOMAIN v.stack = 1 .. L + 1
      /\ v.stack[L + 1] = call /\ \A i \in 1 .. L : v.stack[i] = w.stack[i]
  BY <1>1, <1>2, <1>3
<1>5. v \in [stack : Seq(calls), done : SUBSET names]
  <2>1. v = [stack |-> Append(w.stack, call), done |-> w.done]
    BY <1>1 DEF call
  <2> QED  BY <2>1, <1>1, <1>3, <1>4
<1>6. call.name = name /\ call.todo = Edges(doc, name)
  BY DEF call
<1>7. WalkStack(doc, v, {})
  <2> SUFFICES ASSUME NEW i \in 1 .. L + 1
               PROVE  CallOK(doc, v.stack[i], v.done, After(v, i, {}))
    BY <1>4 DEF WalkStack
  <2>1. CASE i = L + 1
    <3>1. After(v, i, {}) = {} /\ v.stack[i] = call
      BY <2>1, <1>4, <1>1 DEF After
    <3> QED  BY <3>1, <1>3, <1>6 DEF CallOK
  <2>2. CASE i # L + 1
    <3>1. i \in 1 .. L /\ v.stack[i] = w.stack[i]
      BY <2>2, <1>1, <1>4
    <3>2. After(v, i, {}) = After(w, i, {name})
      <4>1. CASE i = L
        <5>1. After(v, i, {}) = {v.stack[L + 1].name}
          BY <4>1, <1>1, <1>4 DEF After
        <5>2. After(w, i, {name}) = {name}
          BY <4>1, <1>1 DEF After
        <5> QED  BY <5>1, <5>2, <1>4, <1>6
      <4>2. CASE i < L
        BY <4>2, <1>1, <1>4 DEF After
      <4> QED  BY <4>1, <4>2, <3>1, <1>1
    <3>3. CallOK(doc, w.stack[i], w.done, After(w, i, {name}))
      BY <3>1, <1>1 DEF Visiting, WalkStack
    <3> QED  BY <3>1, <3>2, <3>3, <1>3
  <2> QED  BY <2>1, <2>2
<1>8. WalkNames(v)
  <2> SUFFICES ASSUME NEW i \in 1 .. L + 1, NEW j \in 1 .. L + 1,
                      v.stack[i].name = v.stack[j].name
               PROVE  i = j
    BY <1>4 DEF WalkNames
  <2>1. \A k \in 1 .. L : w.stack[k].name # name
    BY <1>1 DEF Active
  <2>2. CASE i = L + 1
    BY <2>1, <2>2, <1>1, <1>4, <1>6
  <2>3. CASE j = L + 1
    BY <2>1, <2>3, <1>1, <1>4, <1>6
  <2>4. CASE i # L + 1 /\ j # L + 1
    BY <2>4, <1>1, <1>4 DEF Visiting, WalkNames
  <2> QED  BY <2>2, <2>3, <2>4
<1>9. WalkDone(doc, v)
  BY <1>3 DEF Visiting, WalkDone
<1>10. Len(v.stack) <= MaxDepth + 1
  BY <1>1, <1>4, LimitAssumption
<1> QED  BY <1>5, <1>7, <1>8, <1>9, <1>10 DEF WalkTyped, calls

\* A fragment that is done needs no visit.
LEMMA DoneAlready ==
  ASSUME NEW doc, NEW w, NEW name, Visiting(doc, w, name), name \in w.done
  PROVE  Walking(doc, w)
<1>1. ASSUME NEW i \in DOMAIN w.stack
      PROVE  CallOK(doc, w.stack[i], w.done, After(w, i, {}))
  <2>1. CallOK(doc, w.stack[i], w.done, After(w, i, {name}))
    BY DEF Visiting, WalkStack
  <2>2. CASE i < Len(w.stack)
    BY <2>1, <2>2 DEF After
  <2>3. CASE ~(i < Len(w.stack))
    <3>1. After(w, i, {}) = {} /\ After(w, i, {name}) = {name}
      BY <2>3 DEF After
    <3> QED  BY <2>1, <3>1 DEF CallOK
  <2> QED  BY <2>2, <2>3
<1> QED  BY <1>1 DEF Visiting, Walking, WalkStack

\* The first call of a walk.
LEMMA FirstCall ==
  ASSUME NEW doc, NEW w, NEW name \in FragmentNames(doc), Walking(doc, w), w.stack = <<>>
  PROVE  Visiting(doc, w, name)
<1>1. DOMAIN w.stack = {}
  OBVIOUS
<1> QED  BY <1>1 DEF Visiting, Walking, WalkStack

\* A child is taken from what the call on top has to do.
LEMMA ChildTaken ==
  ASSUME NEW doc, NEW w, Walking(doc, w), w.stack # <<>>,
         NEW child \in Top(w.stack).todo,
         NEW v, v = [w EXCEPT !.stack[Len(w.stack)].todo = @ \ {child}]
  PROVE  Visiting(doc, v, child)
<1> DEFINE names == FragmentNames(doc)
           calls == [name : names, todo : SUBSET names]
           L == Len(w.stack)
           top == w.stack[L]
           left == [top EXCEPT !.todo = @ \ {child}]
<1>1. /\ w \in [stack : Seq(calls), done : SUBSET names]
      /\ w.stack \in Seq(calls) /\ L \in Nat /\ DOMAIN w.stack = 1 .. L
      /\ L # 0
  BY DEF Walking, WalkTyped
<1>2. L \in 1 .. L /\ top \in calls /\ child \in top.todo
  <2> HIDE DEF calls
  <2>1. L \in 1 .. L
    BY <1>1
  <2>2. top \in calls
    BY <1>1, <2>1, ElementOfSeq
  <2> QED  BY <2>1, <2>2 DEF Top
<1>3. left \in calls /\ left.name = top.name /\ left.todo = top.todo \ {child}
  BY <1>2
<1> HIDE DEF calls, left
<1>4. v = [stack |-> [w.stack EXCEPT ![L] = left], done |-> w.done]
  BY <1>1 DEF left
<1>5. /\ v.stack = [w.stack EXCEPT ![L] = left] /\ v.done = w.done
  BY <1>1 DEF left
<1>6. /\ v.stack \in Seq(calls) /\ Len(v.stack) = L /\ DOMAIN v.stack = 1 .. L
      /\ v.stack[L] = left /\ \A i \in 1 .. L : i # L => v.stack[i] = w.stack[i]
  <2>1. v.stack \in Seq(calls)
    <3> HIDE DEF L
    <3>1. L \in 1 .. Len(w.stack)
      BY <1>2 DEF L
    <3>2. [w.stack EXCEPT ![L] = left] \in Seq(calls)
      BY <1>1, <1>3, <3>1, ExceptSeq
    <3> QED  BY <3>2, <1>5
  <2>2. DOMAIN v.stack = 1 .. L
    BY <1>1, <1>5
  <2>3. Len(v.stack) = L
    BY <1>1, <2>1, <2>2
  <2>4. v.stack[L] = left /\ \A i \in 1 .. L : i # L => v.stack[i] = w.stack[i]
    BY <1>1, <1>2, <1>5
  <2> QED  BY <2>1, <2>2, <2>3, <2>4
<1>7. WalkTyped(v, names)
  BY <1>1, <1>4, <1>5, <1>6 DEF WalkTyped, calls
<1>8. \A i \in 1 .. L : v.stack[i].name = w.stack[i].name
  BY <1>3, <1>6
<1>9. WalkNames(v)
  BY <1>1, <1>6, <1>8 DEF Walking, WalkNames
<1>10. WalkStack(doc, v, {child})
  <2> SUFFICES ASSUME NEW i \in 1 .. L
               PROVE  CallOK(doc, v.stack[i], v.done, After(v, i, {child}))
    BY <1>6 DEF WalkStack
  <2>1. CallOK(doc, w.stack[i], w.done, After(w, i, {}))
    BY <1>1 DEF Walking, WalkStack
  <2>2. CASE i = L
    <3>1. After(v, i, {child}) = {child} /\ After(w, i, {}) = {}
      BY <2>2, <1>1, <1>6 DEF After
    <3>2. CallOK(doc, top, w.done, {}) /\ v.stack[i] = left
      BY <2>1, <2>2, <3>1, <1>6
    <3>3. CallOK(doc, left, w.done, {child})
      BY <3>2, <1>2, <1>3 DEF CallOK
    <3> QED  BY <3>1, <3>2, <3>3, <1>5
  <2>3. CASE i # L
    <3>a. i < L /\ i + 1 \in 1 .. L
      BY <2>3, <1>1
    <3>b. v.stack[i + 1].name = w.stack[i + 1].name
      BY <3>a, <1>8
    <3>1. After(v, i, {child}) = After(w, i, {})
      BY <3>a, <3>b, <1>6 DEF After
    <3> QED  BY <3>1, <2>1, <2>3, <1>5, <1>6
  <2> QED  BY <2>2, <2>3
<1>11. child \in names
  BY <1>2 DEF calls
<1> QED  BY <1>5, <1>6, <1>7, <1>9, <1>10, <1>11 DEF Visiting, Walking, WalkDone

\* A call that has nothing to do returns, and its fragment is done.
LEMMA CallReturned ==
  ASSUME NEW doc, NEW w, Walking(doc, w), w.stack # <<>>, Top(w.stack).todo = {},
         NEW v, v = [stack |-> Pop(w.stack), done |-> w.done \cup {Top(w.stack).name}]
  PROVE  Walking(doc, v)
<1> DEFINE names == FragmentNames(doc)
           calls == [name : names, todo : SUBSET names]
           L == Len(w.stack)
           top == w.stack[L]
<1>1. /\ w \in [stack : Seq(calls), done : SUBSET names]
      /\ w.stack \in Seq(calls) /\ L \in Nat /\ DOMAIN w.stack = 1 .. L
      /\ L # 0
  BY DEF Walking, WalkTyped
<1>2. L \in 1 .. L /\ top \in calls /\ top.todo = {} /\ top = Top(w.stack)
  <2> HIDE DEF calls
  <2>1. L \in 1 .. L
    BY <1>1
  <2>2. top \in calls
    BY <1>1, <2>1, ElementOfSeq
  <2> QED  BY <2>1, <2>2 DEF Top
<1>3. v.stack = SubSeq(w.stack, 1, L - 1) /\ v.done = w.done \cup {top.name}
  BY <1>2 DEF Pop
<1>t. top.name \in names
  BY <1>2
<1>e. CallOK(doc, top, w.done, {})
  <2>1. CallOK(doc, w.stack[L], w.done, After(w, L, {}))
    BY <1>1, <1>2 DEF Walking, WalkStack
  <2>2. After(w, L, {}) = {}
    BY <1>1 DEF After
  <2> QED  BY <2>1, <2>2
<1> HIDE DEF calls, top
<1>4. /\ v.stack \in Seq(calls) /\ Len(v.stack) = L - 1 /\ DOMAIN v.stack = 1 .. L - 1
      /\ \A i \in 1 .. L - 1 : v.stack[i] = w.stack[i]
  BY <1>1, <1>3
<1>5. WalkTyped(v, names)
  <2>1. v = [stack |-> v.stack, done |-> v.done] /\ v.done \in SUBSET names
    BY <1>1, <1>3, <1>t
  <2> QED  BY <2>1, <1>4 DEF WalkTyped, calls
<1>6. Edges(doc, top.name) \subseteq w.done /\ top.name \notin w.done
  BY <1>e, <1>2 DEF CallOK
<1>7. WalkNames(v)
  <2>1. \A i \in 1 .. L - 1 : i \in 1 .. L /\ v.stack[i].name = w.stack[i].name
    BY <1>1, <1>4
  <2> SUFFICES ASSUME NEW i \in 1 .. L - 1, NEW j \in 1 .. L - 1,
                      v.stack[i].name = v.stack[j].name
               PROVE  i = j
    BY <1>4 DEF WalkNames
  <2>2. i \in DOMAIN w.stack /\ j \in DOMAIN w.stack /\ w.stack[i].name = w.stack[j].name
    BY <2>1, <1>1
  <2> QED  BY <2>2 DEF Walking, WalkNames
<1>8. \A i \in 1 .. L - 1 : w.stack[i].name # top.name
  BY <1>1, <1>2 DEF Walking, WalkNames, top
<1>9. WalkStack(doc, v, {})
  <2> SUFFICES ASSUME NEW i \in 1 .. L - 1
               PROVE  CallOK(doc, v.stack[i], v.done, After(v, i, {}))
    BY <1>4 DEF WalkStack
  <2>1. CallOK(doc, w.stack[i], w.done, After(w, i, {}))
    BY <1>1 DEF Walking, WalkStack
  <2>2. CASE i = L - 1
    <3>1. After(v, i, {}) = {} /\ After(w, i, {}) = {top.name}
      BY <2>2, <1>1, <1>4 DEF After, top
    <3> QED  BY <3>1, <2>1, <1>3, <1>4, <1>8 DEF CallOK
  <2>3. CASE i # L - 1
    <3>a. i < L - 1 /\ i < L /\ i + 1 \in 1 .. L - 1
      BY <2>3, <1>1
    <3>1. After(v, i, {}) = After(w, i, {})
      BY <3>a, <1>4 DEF After
    <3> QED  BY <3>1, <2>1, <1>3, <1>4, <1>8 DEF CallOK
  <2> QED  BY <2>2, <2>3
<1>10. WalkDone(doc, v)
  <2>1. \A f \in v.done : Edges(doc, f) \subseteq v.done
    BY <1>3, <1>6 DEF Walking, WalkDone
  <2>2. ASSUME NEW S \in SUBSET v.done, S # {}
        PROVE  \E f \in S : Edges(doc, f) \cap S = {}
    <3> DEFINE R == S \ {top.name}
    <3>1. R \in SUBSET w.done
      BY <1>3
    <3>2. CASE R = {}
      <4>1. S = {top.name}
        BY <2>2, <3>2
      <4> QED  BY <4>1, <1>6
    <3>3. CASE R # {}
      <4>1. PICK f \in R : Edges(doc, f) \cap R = {}
        BY <3>1, <3>3 DEF Walking, WalkDone, Founded
      <4>2. Edges(doc, f) \subseteq w.done
        BY <3>1 DEF Walking, WalkDone
      <4>3. Edges(doc, f) \cap S = {}
        BY <4>1, <4>2, <1>6
      <4> QED  BY <4>3
    <3> QED  BY <3>2, <3>3
  <2> QED  BY <2>1, <2>2 DEF WalkDone, Founded
<1>11. Len(v.stack) <= MaxDepth + 1
  BY <1>1, <1>4, LimitAssumption DEF Walking
<1> QED  BY <1>5, <1>7, <1>9, <1>10, <1>11 DEF Walking

\* When every fragment is done there is no cycle.
LEMMA AllDone ==
  ASSUME NEW doc, NEW w, Walking(doc, w), FragmentNames(doc) \subseteq w.done
  PROVE  ~Cyclic(doc)
BY DEF Walking, WalkDone, Founded, Cyclic

-----------------------------------------------------------------------------
(* What an operation holds *)

LEMMA FragmentThere ==
  ASSUME NEW doc, IsDocument(doc), NEW f \in FragmentNames(doc)
  PROVE  /\ FragmentOf(doc, f) \in Elems(doc.frags)
         /\ FragmentOf(doc, f).name = f
         /\ FragmentOf(doc, f).kids \in Seq(DOMAIN doc.sel)
<1> DEFINE i == CHOOSE k \in DOMAIN doc.frags : doc.frags[k].name = f
<1>1. i \in DOMAIN doc.frags /\ doc.frags[i].name = f
  BY DEF FragmentNames, Elems, NamesOf
<1>2. FragmentOf(doc, f) = doc.frags[i]
  BY DEF FragmentOf
<1>3. doc.frags[i] \in Elems(doc.frags)
  BY <1>1 DEF Elems
<1> QED  BY <1>1, <1>2, <1>3 DEF IsDocument

LEMMA ReferencesHold ==
  ASSUME NEW doc
  PROVE  /\ \A o \in Elems(doc.ops) : Spreads(doc, o.kids) \subseteq AllReferences(doc)
         /\ \A f \in FragmentNames(doc) : Edges(doc, f) \subseteq AllReferences(doc)
<1>1. ASSUME NEW o \in Elems(doc.ops) PROVE Spreads(doc, o.kids) \subseteq AllReferences(doc)
  <2>1. Spreads(doc, o.kids) \in {Spreads(doc, x.kids) : x \in Elems(doc.ops)}
    OBVIOUS
  <2> QED  BY <2>1, Zenon DEF AllReferences
<1>2. ASSUME NEW f \in FragmentNames(doc) PROVE Edges(doc, f) \subseteq AllReferences(doc)
  <2>1. Edges(doc, f) \in {Edges(doc, x) : x \in FragmentNames(doc)}
    OBVIOUS
  <2> QED  BY <2>1, Zenon DEF AllReferences
<1> QED  BY <1>1, <1>2

LEMMA EdgesAreReferences ==
  ASSUME NEW doc, AllReferences(doc) \subseteq FragmentNames(doc)
  PROVE  EdgesInside(doc)
BY ReferencesHold DEF EdgesInside

\* The selections of all definitions.
Everything(doc) ==
  {n \in DOMAIN doc.sel : \/ \E o \in Elems(doc.ops) : n \in Below(doc, o.kids)
                          \/ \E f \in Elems(doc.frags) : n \in Below(doc, f.kids)}

\* The name of a spread is that of a fragment.
LEMMA SpreadDefined ==
  ASSUME NEW doc, IsDocument(doc), DocumentParses(doc),
         AllReferences(doc) \subseteq FragmentNames(doc),
         NEW n \in Everything(doc), doc.sel[n].k = "spread"
  PROVE  doc.sel[n].name \in FragmentNames(doc)
<1>1. ASSUME NEW kids, n \in Below(doc, kids) PROVE doc.sel[n].name \in Spreads(doc, kids)
  BY <1>1 DEF Spreads
<1>2. CASE \E o \in Elems(doc.ops) : n \in Below(doc, o.kids)
  BY <1>1, <1>2, ReferencesHold
<1>3. CASE \E f \in Elems(doc.frags) : n \in Below(doc, f.kids)
  <2>1. PICK f \in Elems(doc.frags) : n \in Below(doc, f.kids)
    BY <1>3
  <2>2. PICK k \in DOMAIN doc.frags : f = doc.frags[k]
    BY DEF Elems
  <2>3. f.name \in FragmentNames(doc)
    BY <2>2 DEF FragmentNames, Elems, NamesOf
  <2>4. FragmentOf(doc, f.name) = f
    <3>1. PICK j \in DOMAIN doc.frags : FragmentOf(doc, f.name) = doc.frags[j]
      BY <2>3, FragmentThere DEF Elems
    <3>2. doc.frags[j].name = f.name
      BY <3>1, <2>3, FragmentThere
    <3>3. j = k
      BY <3>2, <2>2 DEF DocumentParses, Distinct, NamesOf
    <3> QED  BY <3>1, <3>3, <2>2
  <2>5. doc.sel[n].name \in Edges(doc, f.name)
    BY <2>1, <2>4, <1>1 DEF Edges
  <2> QED  BY <2>3, <2>5, ReferencesHold
<1> QED  BY <1>2, <1>3 DEF Everything

LEMMA EverythingHolds ==
  ASSUME NEW doc, IsDocument(doc), DocumentParses(doc),
         AllReferences(doc) \subseteq FragmentNames(doc), NEW op \in Elems(doc.ops)
  PROVE  Everything(doc) \subseteq DOMAIN doc.sel /\ Holds(doc, op, Everything(doc))
<1>1. /\ \A o \in Elems(doc.ops) : o.kids \in Seq(DOMAIN doc.sel)
      /\ \A f \in Elems(doc.frags) : f.kids \in Seq(DOMAIN doc.sel)
  BY DEF IsDocument
<1>2. Everything(doc) \subseteq DOMAIN doc.sel
  BY DEF Everything
<1>3. Elems(op.kids) \subseteq Everything(doc)
  BY <1>1, BelowClosed DEF Everything
<1>4. ASSUME NEW n \in Everything(doc) PROVE Elems(Children(doc, n)) \subseteq Everything(doc)
  <2>1. CASE doc.sel[n].k = "spread"
    <3> DEFINE fragment == FragmentOf(doc, doc.sel[n].name)
    <3>1. fragment \in Elems(doc.frags) /\ fragment.kids \in Seq(DOMAIN doc.sel)
      BY <2>1, SpreadDefined, FragmentThere
    <3>2. Elems(fragment.kids) \subseteq Below(doc, fragment.kids)
      BY <3>1, BelowClosed
    <3>3. Children(doc, n) = fragment.kids
      BY <2>1 DEF Children
    <3>4. Below(doc, fragment.kids) \subseteq DOMAIN doc.sel
      BY <3>1, BelowClosed
    <3> HIDE DEF fragment
    <3> QED  BY <3>1, <3>2, <3>3, <3>4 DEF Everything
  <2>2. CASE doc.sel[n].k # "spread"
    <3>1. Children(doc, n) = doc.sel[n].kids
      BY <2>2 DEF Children
    <3>2. \A kids \in Seq(DOMAIN doc.sel) :
            n \in Below(doc, kids) => Elems(doc.sel[n].kids) \subseteq Below(doc, kids)
      BY BelowClosed DEF Closed
    <3>3. Elems(doc.sel[n].kids) \subseteq DOMAIN doc.sel
      BY <1>2, KidsInside
    <3> QED  BY <1>1, <3>1, <3>2, <3>3 DEF Everything
  <2> QED  BY <2>1, <2>2
<1> QED  BY <1>2, <1>3, <1>4 DEF Holds

\* Met is the least set of selections that holds the operation's own.
LEMMA MetLeast ==
  ASSUME NEW doc, NEW op, NEW S \in SUBSET DOMAIN doc.sel, Holds(doc, op, S)
  PROVE  Met(doc, op) \subseteq S
BY DEF Met

LEMMA MetClosed ==
  ASSUME NEW doc, IsDocument(doc), DocumentParses(doc),
         AllReferences(doc) \subseteq FragmentNames(doc), NEW op \in Elems(doc.ops)
  PROVE  /\ Met(doc, op) \subseteq DOMAIN doc.sel
         /\ Holds(doc, op, Met(doc, op))
         /\ \A n \in Met(doc, op) :
              doc.sel[n].k = "spread" => doc.sel[n].name \in FragmentNames(doc)
<1>1. Everything(doc) \in SUBSET DOMAIN doc.sel /\ Holds(doc, op, Everything(doc))
  BY EverythingHolds
<1>2. Met(doc, op) \subseteq Everything(doc)
  BY <1>1, MetLeast
<1>3. \A n \in Met(doc, op) :
        doc.sel[n].k = "spread" => doc.sel[n].name \in FragmentNames(doc)
  BY <1>2, SpreadDefined
<1>4. Elems(op.kids) \subseteq Met(doc, op)
  BY <1>1 DEF Met, Holds
<1>5. ASSUME NEW n \in Met(doc, op), NEW c \in Elems(Children(doc, n)) PROVE c \in Met(doc, op)
  <2>1. c \in DOMAIN doc.sel
    BY <1>1, <1>2 DEF Holds
  <2>2. \A S \in SUBSET DOMAIN doc.sel : Holds(doc, op, S) => c \in S
    BY MetLeast DEF Holds
  <2> QED  BY <2>1, <2>2 DEF Met
<1> QED  BY <1>1, <1>2, <1>3, <1>4, <1>5 DEF Holds

-----------------------------------------------------------------------------
(* The operation that is meant *)

LEMMA SelectedThere ==
  ASSUME NEW doc, IsDocument(doc), NEW requested, Selected(doc, requested) # None
  PROVE  /\ Selected(doc, requested) \in DOMAIN doc.ops
         /\ doc.ops[Selected(doc, requested)] \in Elems(doc.ops)
         /\ doc.ops[Selected(doc, requested)] \in Meant(doc, requested)
<1> DEFINE i == Selected(doc, requested)
<1>1. i \in DOMAIN doc.ops
      /\ IF requested = None THEN Len(doc.ops) = 1 ELSE doc.ops[i].name = requested
  <2>1. CASE requested = None
    <3>1. i = 1 /\ Len(doc.ops) = 1
      BY <2>1 DEF Selected
    <3>2. doc.ops \in Seq(Elems(doc.ops))
      BY DEF IsDocument, IsSequence
    <3> QED  BY <3>1, <3>2, <2>1
  <2>2. CASE requested # None
    BY <2>2 DEF Selected
  <2> QED  BY <2>1, <2>2
<1>2. doc.ops[i] \in Elems(doc.ops)
  BY <1>1 DEF Elems
<1> QED  BY <1>1, <1>2 DEF Meant

LEMMA OneMeant ==
  ASSUME NEW doc, IsDocument(doc), DocumentParses(doc), NEW requested,
         NEW o \in Meant(doc, requested)
  PROVE  Selected(doc, requested) # None /\ o = doc.ops[Selected(doc, requested)]
<1>1. doc.ops \in Seq(Elems(doc.ops)) /\ DOMAIN doc.ops = 1 .. Len(doc.ops) /\ Len(doc.ops) \in Nat
  BY DEF IsDocument, IsSequence
<1>2. PICK k \in DOMAIN doc.ops : o = doc.ops[k]
  BY DEF Meant, Elems
<1>3. CASE requested = None
  <2>1. Len(doc.ops) = 1
    BY <1>3 DEF Meant
  <2>2. Selected(doc, requested) = 1 /\ k = 1
    BY <2>1, <1>1, <1>2, <1>3 DEF Selected
  <2> QED  BY <2>2, <1>2, OrderAssumption
<1>4. CASE requested # None
  <2> DEFINE named == {i \in DOMAIN doc.ops : doc.ops[i].name = requested}
  <2>1. k \in named
    BY <1>2, <1>4 DEF Meant
  <2>2. Selected(doc, requested) \in named
    BY <2>1, <1>4 DEF Selected
  <2>3. Selected(doc, requested) = k
    BY <2>1, <2>2, <1>4 DEF DocumentParses
  <2> QED  BY <2>2, <2>3, <1>1, <1>2, OrderAssumption
<1> QED  BY <1>3, <1>4

-----------------------------------------------------------------------------
(* The steps *)

LEMMA SameInput ==
  ASSUME input' = input
  PROVE  /\ Req' = Req /\ Doc' = Doc /\ OpIndex' = OpIndex /\ Op' = Op
         /\ Resolved' <=> Resolved
         /\ PlainQuery(Doc, Op)' <=> PlainQuery(Doc, Op)
         /\ Cyclic(Doc)' <=> Cyclic(Doc)
         /\ MeansRead(Req)' <=> MeansRead(Req)
         /\ HasChain(Doc, MaxDepth + 1)' <=> HasChain(Doc, MaxDepth + 1)
<1>1. Req' = Req /\ Doc' = Doc
  BY DEF Req, Doc
<1>2. OpIndex' = OpIndex
  BY <1>1 DEF OpIndex
<1>3. Op' = Op
  BY <1>1, <1>2 DEF Op
<1>4. Resolved' <=> Resolved
  BY <1>1 DEF Resolved
<1> QED  BY <1>1, <1>2, <1>3, <1>4

Middle == {"body", "fragments", "directives", "analyze", "expand", "decide"}

\* A step from one stage to another.
LEMMA StageStep ==
  ASSUME ReadInv, input' = input, pc \in Middle, pc' \in Middle, read' \in BOOLEAN,
         walk' = NoWalk \/ pc' = "fragments", WalkOK', ScanOK', StageOK'
  PROVE  ReadInv'
<1>1. Req' = Req
  BY SameInput
<1>2. Gated'
  BY <1>1 DEF ReadInv, Gated, Middle
<1>3. ReadExactly'
  BY DEF ReadExactly, Middle
<1> QED  BY <1>2, <1>3 DEF ReadInv, Middle

\* A request that is settled.
LEMMA SettleStep ==
  ASSUME ReadInv, input' = input, read' = read, NEW v, Settle(v), ReadExactly'
  PROVE  ReadInv'
<1>1. pc' = "end" /\ walk' = NoWalk
  BY DEF Settle
<1>2. Gated' /\ WalkOK' /\ ScanOK'
  BY <1>1 DEF Gated, WalkOK, ScanOK
<1>3. StageOK'
  BY <1>1, SameInput DEF ReadInv, StageOK
<1> QED  BY <1>1, <1>2, <1>3 DEF ReadInv

LEMMA ReadInit ==
  ASSUME Init
  PROVE  ReadInv
BY DEF Init, ReadInv, Gated, WalkOK, ScanOK, StageOK, ReadExactly

LEMMA GateStep ==
  ASSUME ReadInv, Gate
  PROVE  ReadInv'
<1>1. input' = input /\ read' = read /\ pc = "gate"
  BY DEF Gate
<1>2. Req' = Req /\ input.allowAll' = input.allowAll
  BY <1>1, SameInput
<1>3. Req.host \in ClineHosts \cup {"api.cline.bot"} /\ Req.method # "CONNECT"
        /\ ClineVerdict(Req, input.access) # "deny" => ~IsApiKeyManagement(Req.path)
  BY DEF ClineVerdict
<1>4. CASE \E v \in {"refuse", "tunnel", "answer"} : Settle(v)
  <2>1. PICK v \in {"refuse", "tunnel", "answer"} : Settle(v)
    BY <1>4
  <2>2. ReadExactly'
    BY <2>1 DEF ReadExactly, Settle
  <2> QED  BY <2>1, <2>2, <1>1, SettleStep
<1>5. CASE /\ Settle("forward") /\ Req.method # "CONNECT"
           /\ ClineVerdict(Req, input.access) # "deny"
           /\ Classify(Req, input.allowAll) # "review"
  <2>1. \/ Req.host \notin GithubHosts \cup {"api.linear.app"}
        \/ input.allowAll
        \/ Req.method \in ReadMethods
        \/ LastOf(Req.path) = "git-upload-pack"
    BY <1>5 DEF Classify, GithubReads
  <2>2. ReadExactly'
    BY <1>5, <1>2, <1>1, <1>3, <2>1 DEF ReadExactly, Settle
  <2> QED  BY <2>2, <1>1, <1>5, SettleStep
<1>6. CASE /\ pc' = "body" /\ UNCHANGED <<verdict, walk, scan>> /\ Req.method # "CONNECT"
           /\ ClineVerdict(Req, input.access) # "deny"
           /\ Classify(Req, input.allowAll) = "review"
  <2>1. Gated'
    BY <1>1, <1>2, <1>3, <1>6 DEF Gated
  <2>2. WalkOK' /\ ScanOK' /\ ReadExactly'
    BY <1>6 DEF WalkOK, ScanOK, ReadExactly
  <2>3. StageOK'
    BY <1>1, <1>6, SameInput DEF ReadInv, StageOK
  <2> QED  BY <1>1, <1>6, <2>1, <2>2, <2>3 DEF ReadInv
<1> QED  BY <1>4, <1>5, <1>6 DEF Gate

\* A review that is ready to be decided about.
LEMMA DecideStep ==
  ASSUME ReadInv, input' = input, read' = read, pc \in Middle, pc' = "decide", walk' = NoWalk,
         ~read => ~MeansRead(Req) \/ HasChain(Doc, MaxDepth + 1)
  PROVE  ReadInv'
<1>1. WalkOK' /\ ScanOK'
  BY DEF WalkOK, ScanOK
<1>2. StageOK'
  BY SameInput DEF ReadInv, StageOK
<1>3. pc' \in Middle /\ read' \in BOOLEAN
  BY DEF Middle, ReadInv
<1> QED  BY <1>1, <1>2, <1>3, StageStep

LEMMA CollectStep ==
  ASSUME ReadInv, Collect
  PROVE  ReadInv'
<1>1. input' = input /\ read' = read /\ pc = "body" /\ walk = NoWalk
  BY DEF Collect, ReadInv
<1>2. Req' = Req /\ pc \in Middle
  BY <1>1, SameInput DEF Middle
<1>3. CASE Settle("refuse")
  <2>1. ReadExactly'
    BY <1>3 DEF ReadExactly, Settle
  <2> QED  BY <2>1, <1>1, <1>3, SettleStep
<1>4. CASE Settle("forward") /\ IsDownload(Req)
  <2>1. Req.body.type = "batch" /\ Req.body.operation = "download"
    BY <1>4 DEF IsDownload
  <2>2. Req.host \in ClineHosts \cup {"api.cline.bot"} => ~IsApiKeyManagement(Req.path)
    BY <1>1 DEF ReadInv, Gated
  <2>3. ReadExactly'
    BY <1>2, <1>4, <2>1, <2>2 DEF ReadExactly, Settle
  <2> QED  BY <2>3, <1>1, <1>4, SettleStep
<1>5. CASE /\ pc' = "decide" /\ UNCHANGED <<verdict, walk, scan>>
           /\ \/ ~IsGraphql(Req) \/ Req.query
              \/ ~(EnvelopeParses(Req.body, MediaOf(Req)) /\ DocumentParses(Doc))
              \/ ~(AllReferences(Doc) \subseteq FragmentNames(Doc))
  <2>1. ~MeansRead(Req)
    BY <1>5 DEF MeansRead, ReadTransport, IsGraphql, WellFormed, Doc
  <2> QED  BY <2>1, <1>1, <1>2, <1>5, DecideStep
<1>6. CASE /\ pc' = "fragments" /\ UNCHANGED <<verdict, review, walk, scan>>
           /\ IsGraphql(Req) /\ ~Req.query
           /\ EnvelopeParses(Req.body, MediaOf(Req)) /\ DocumentParses(Doc)
           /\ AllReferences(Doc) \subseteq FragmentNames(Doc)
  <2>1. Resolved
    BY <1>6 DEF Resolved
  <2>2. walk' = NoWalk
    BY <1>1, <1>6
  <2>3. WalkOK'
    <3>1. NoWalk.stack = <<>> /\ NoWalk.done = {}
      BY DEF NoWalk
    <3>2. NoWalk \in [stack : Seq([name : FragmentNames(Doc'), todo : SUBSET FragmentNames(Doc')]),
                      done : SUBSET FragmentNames(Doc')]
      BY DEF NoWalk
    <3>3. DOMAIN NoWalk.stack = {} /\ Len(NoWalk.stack) = 0
      BY <3>1
    <3>4. Walking(Doc', NoWalk)
      BY <3>1, <3>2, <3>3, LimitAssumption
         DEF Walking, WalkTyped, WalkDone, WalkStack, WalkNames, Founded
    <3> QED  BY <2>2, <3>4 DEF WalkOK
  <2>4. StageOK' /\ ScanOK'
    BY <2>1, <1>1, <1>6, SameInput DEF ReadInv, StageOK, ScanOK
  <2>5. pc' \in Middle /\ read' \in BOOLEAN
    BY <1>1, <1>6 DEF Middle, ReadInv
  <2> QED  BY <1>1, <1>2, <2>2, <2>3, <2>4, <2>5, StageStep
<1> QED  BY <1>3, <1>4, <1>5, <1>6 DEF Collect

\* A visit of a fragment, from the outside or from the call on top.
LEMMA VisitNodeStep ==
  ASSUME ReadInv, input' = input, read' = read, pc = "fragments", NEW w, NEW name,
         Visiting(Doc, w, name), VisitNode(w, name)
  PROVE  ReadInv'
<1>1. Resolved /\ pc \in Middle /\ read \in BOOLEAN
  BY DEF ReadInv, StageOK, Middle
<1>2. EdgesInside(Doc)
  BY <1>1, EdgesAreReferences DEF Resolved
<1>3. CASE Len(w.stack) > MaxDepth
  <2>1. HasChain(Doc, MaxDepth + 1)
    BY <1>3, DepthIsThere
  <2>2. pc' = "decide" /\ walk' = NoWalk
    BY <1>3 DEF VisitNode, ToDecide
  <2> QED  BY <2>1, <2>2, <1>1, DecideStep
<1> DEFINE stays == Walking(Doc, walk') /\ pc' = pc
<1>4. ASSUME stays PROVE ReadInv'
  <2>1. Doc' = Doc
    BY SameInput
  <2>2. WalkOK' /\ ScanOK'
    BY <1>4, <2>1 DEF WalkOK, ScanOK
  <2>3. StageOK'
    BY <1>4, SameInput DEF ReadInv, StageOK
  <2>4. pc' \in Middle /\ pc' = "fragments"
    BY <1>4 DEF Middle
  <2> QED  BY <1>1, <2>2, <2>3, <2>4, StageStep
<1>5. CASE Len(w.stack) <= MaxDepth /\ name \in w.done
  <2>1. walk' = w /\ pc' = pc
    BY <1>5, LimitAssumption, StackAt DEF VisitNode, Visiting
  <2> QED  BY <2>1, <1>4, <1>5, DoneAlready
<1>6. CASE Len(w.stack) <= MaxDepth /\ name \notin w.done /\ name \in Active(w)
  <2>1. pc' = "decide" /\ walk' = NoWalk
    BY <1>6, LimitAssumption, StackAt DEF VisitNode, ToDecide, Visiting
  <2>2. ~MeansRead(Req)
    BY <1>6, CycleIsThere DEF MeansRead, WellFormed, Doc
  <2> QED  BY <2>1, <2>2, <1>1, DecideStep
<1>7. CASE Len(w.stack) <= MaxDepth /\ name \notin w.done /\ name \notin Active(w)
  <2>1. /\ walk' = [w EXCEPT !.stack = Append(@, [name |-> name, todo |-> Edges(Doc, name)])]
        /\ pc' = pc
    BY <1>7, LimitAssumption, StackAt DEF VisitNode, Visiting, Call
  <2>2. Walking(Doc, walk')
    BY <2>1, <1>2, <1>7, CallMade DEF Walking
  <2> QED  BY <2>1, <2>2, <1>4
<1> QED  BY <1>3, <1>5, <1>6, <1>7, LimitAssumption, StackAt DEF Visiting

LEMMA VisitRootStep ==
  ASSUME ReadInv, VisitRoot
  PROVE  ReadInv'
<1>1. /\ input' = input /\ read' = read /\ pc = "fragments" /\ walk.stack = <<>>
  BY DEF VisitRoot
<1>2. PICK i \in Roots : VisitNode(walk, FragmentOrder[i])
  BY DEF VisitRoot
<1>3. FragmentOrder[i] \in FragmentNames(Doc)
  BY <1>2 DEF Roots
<1>4. Walking(Doc, walk)
  BY <1>1 DEF ReadInv, WalkOK
<1> QED  BY <1>1, <1>2, <1>3, <1>4, FirstCall, VisitNodeStep

LEMMA VisitStep ==
  ASSUME ReadInv, Visit
  PROVE  ReadInv'
<1>1. /\ input' = input /\ read' = read /\ pc = "fragments" /\ walk.stack # <<>>
  BY DEF Visit
<1>2. Walking(Doc, walk)
  BY <1>1 DEF ReadInv, WalkOK
<1>3. CASE /\ Top(walk.stack).todo = {}
           /\ walk' = [stack |-> Pop(walk.stack), done |-> walk.done \cup {Top(walk.stack).name}]
           /\ UNCHANGED <<review, pc, scan>>
  <2>1. Walking(Doc, walk')
    BY <1>1, <1>2, <1>3, CallReturned
  <2>2. Doc' = Doc
    BY <1>1, SameInput
  <2>3. WalkOK' /\ ScanOK'
    BY <1>1, <1>3, <2>1, <2>2 DEF WalkOK, ScanOK
  <2>4. StageOK'
    BY <1>1, <1>3, SameInput DEF ReadInv, StageOK
  <2>5. pc \in Middle /\ pc' \in Middle /\ pc' = "fragments" /\ read' \in BOOLEAN
    BY <1>1, <1>3 DEF Middle, ReadInv
  <2> QED  BY <1>1, <2>3, <2>4, <2>5, StageStep
<1>4. CASE \E child \in Top(walk.stack).todo :
             VisitNode([walk EXCEPT !.stack[Len(walk.stack)].todo = @ \ {child}], child)
  <2>1. PICK child \in Top(walk.stack).todo :
          VisitNode([walk EXCEPT !.stack[Len(walk.stack)].todo = @ \ {child}], child)
    BY <1>4
  <2> DEFINE w == [walk EXCEPT !.stack[Len(walk.stack)].todo = @ \ {child}]
  <2>2. Visiting(Doc, w, child)
    BY <1>1, <1>2, ChildTaken
  <2>3. VisitNode(w, child)
    BY <2>1
  <2> HIDE DEF w
  <2> QED  BY <1>1, <2>2, <2>3, VisitNodeStep
<1> QED  BY <1>3, <1>4 DEF Visit

LEMMA DocumentThere ==
  ASSUME ReadInv, Resolved
  PROVE  IsDocument(Doc) /\ FragmentNames(Doc) \subseteq Elems(FragmentOrder)
BY InputsAssumption DEF ReadInv, Resolved, EnvelopeParses, Doc, Req

\* A request that means a read means the query that is selected.
LEMMA MeansPlain ==
  ASSUME ReadInv, Resolved, MeansRead(Req)
  PROVE  OpIndex # None /\ PlainQuery(Doc, Op)
<1>1. IsDocument(Doc) /\ DocumentParses(Doc)
  BY DocumentThere DEF Resolved
<1>2. PICK o \in Meant(Doc, Requested(Req.body, MediaOf(Req))) : PlainQuery(Doc, o)
  BY DEF MeansRead, Doc
<1> QED  BY <1>1, <1>2, OneMeant DEF OpIndex, Op

LEMMA OperationThere ==
  ASSUME ReadInv, Resolved, OpIndex # None
  PROVE  /\ Op \in Elems(Doc.ops)
         /\ Op \in Meant(Doc, Requested(Req.body, MediaOf(Req)))
         /\ Op.kids \in Seq(DOMAIN Doc.sel)
<1>1. IsDocument(Doc)
  BY DocumentThere
<1>2. Op \in Elems(Doc.ops) /\ Op \in Meant(Doc, Requested(Req.body, MediaOf(Req)))
  BY <1>1, SelectedThere DEF OpIndex, Op
<1> QED  BY <1>1, <1>2 DEF IsDocument

LEMMA MetFacts ==
  ASSUME ReadInv, Resolved, OpIndex # None
  PROVE  /\ Met(Doc, Op) \subseteq DOMAIN Doc.sel
         /\ Holds(Doc, Op, Met(Doc, Op))
         /\ \A n \in Met(Doc, Op) :
              Doc.sel[n].k = "spread" => Doc.sel[n].name \in FragmentNames(Doc)
BY DocumentThere, OperationThere, MetClosed DEF Resolved

\* A sequence over a set, by its elements.
LEMMA SeqNarrow ==
  ASSUME NEW S, NEW s \in Seq(S), NEW T, Elems(s) \subseteq T
  PROVE  s \in Seq(T)
<1>1. \A i \in 1 .. Len(s) : s[i] \in T
  BY DEF Elems
<1>2. s = [i \in 1 .. Len(s) |-> s[i]] /\ Len(s) \in Nat
  OBVIOUS
<1> QED  BY <1>1, <1>2

LEMMA SelectStep ==
  ASSUME ReadInv, SelectOperation
  PROVE  ReadInv'
<1>1. /\ input' = input /\ read' = read /\ pc = "fragments" /\ pc \in Middle /\ read \in BOOLEAN
  BY DEF SelectOperation, Middle, ReadInv
<1>2. Resolved /\ Walking(Doc, walk)
  BY <1>1 DEF ReadInv, StageOK, WalkOK
<1>3. ~Cyclic(Doc)
  <2>1. FragmentNames(Doc) \subseteq Elems(FragmentOrder)
    BY <1>2, DocumentThere
  <2>2. FragmentNames(Doc) \subseteq walk.done
    BY <2>1 DEF SelectOperation, Roots, Elems
  <2> QED  BY <2>2, <1>2, AllDone
<1>4. CASE OpIndex = None
  <2>1. pc' = "decide" /\ walk' = NoWalk
    BY <1>4 DEF SelectOperation, ToDecide
  <2>2. ~MeansRead(Req)
    BY <1>2, <1>4, MeansPlain
  <2> QED  BY <1>1, <2>1, <2>2, DecideStep
<1>5. CASE OpIndex # None /\ Op.kind = "query"
  <2>1. /\ pc' = "directives" /\ walk' = NoWalk
        /\ scan' = [NoScan EXCEPT !.pending = Op.kids]
    BY <1>5 DEF SelectOperation
  <2>2. scan' = [pending |-> Op.kids, visited |-> {}]
    BY <2>1 DEF NoScan
  <2>3. Elems(Op.kids) \subseteq Met(Doc, Op)
    BY <1>2, <1>5, MetFacts DEF Holds
  <2>4. Op.kids \in Seq(Met(Doc, Op))
    BY <1>2, <1>5, <2>3, OperationThere, SeqNarrow
  <2>5. Looked(Doc, Op, scan', {})
    BY <2>2 DEF Looked
  <2>6. Scanning(Doc, Op, scan')
    BY <2>2, <2>4, <2>5 DEF Scanning
  <2>7. ScanOK' /\ WalkOK'
    BY <1>1, <1>5, <2>1, <2>6, SameInput DEF ScanOK, WalkOK
  <2>8. StageOK'
    BY <1>1, <1>2, <1>3, <1>5, <2>1, SameInput DEF ReadInv, StageOK
  <2> QED  BY <1>1, <2>1, <2>7, <2>8, StageStep DEF Middle
<1>6. CASE OpIndex # None /\ Op.kind # "query"
  <2>1. pc' = "analyze" /\ walk' = NoWalk
    BY <1>6 DEF SelectOperation
  <2>2. ~MeansRead(Req)
    BY <1>2, <1>6, MeansPlain DEF PlainQuery
  <2>3. ScanOK' /\ WalkOK'
    BY <2>1 DEF ScanOK, WalkOK
  <2>4. StageOK'
    BY <1>1, <1>2, <1>3, <1>6, <2>1, <2>2, SameInput DEF ReadInv, StageOK
  <2> QED  BY <1>1, <2>1, <2>3, <2>4, StageStep DEF Middle
<1> QED  BY <1>4, <1>5, <1>6

\* The scan ends with a verdict.
LEMMA ScannedStep ==
  ASSUME ReadInv, pc = "directives", input' = input, walk' = walk, NEW r \in BOOLEAN, Scanned(r),
         r <=> PlainQuery(Doc, Op)
  PROVE  ReadInv'
<1>1. pc' = "analyze" /\ read' = r /\ walk' = NoWalk /\ pc \in Middle /\ pc' \in Middle
  BY DEF Scanned, Middle, ReadInv
<1>2. Resolved /\ ~Cyclic(Doc) /\ OpIndex # None
  BY DEF ReadInv, StageOK
<1>3. ~r => ~MeansRead(Req)
  BY <1>2, MeansPlain
<1>4. ScanOK' /\ WalkOK'
  BY <1>1 DEF ScanOK, WalkOK
<1>5. StageOK'
  BY <1>1, <1>2, <1>3, SameInput DEF StageOK
<1> QED  BY <1>1, <1>4, <1>5, StageStep

\* When nothing is pending, everything was looked at.
LEMMA ScanComplete ==
  ASSUME ReadInv, pc = "directives", scan.pending = <<>>, Op.dirs = <<>>,
         \A v \in Elems(Op.vars) : v.dirs = <<>>
  PROVE  PlainQuery(Doc, Op)
<1>1. Resolved /\ OpIndex # None /\ Op.kind = "query" /\ Scanning(Doc, Op, scan)
  BY DEF ReadInv, StageOK, ScanOK
<1>2. PICK P \in SUBSET Met(Doc, Op) : Looked(Doc, Op, scan, P)
  BY <1>1 DEF Scanning
<1>3. P \cup Elems(scan.pending) = P
  BY DEF Elems
<1>4. Holds(Doc, Op, P)
  <2>1. Elems(Op.kids) \subseteq P
    BY <1>2, <1>3 DEF Looked
  <2>2. ASSUME NEW n \in P PROVE Elems(Children(Doc, n)) \subseteq P
    <3>1. CASE Doc.sel[n].k = "spread"
      <4>1. Doc.sel[n].name \in scan.visited
        BY <1>2, <3>1 DEF Looked
      <4>2. Elems(FragmentOf(Doc, Doc.sel[n].name).kids) \subseteq P
        BY <1>2, <1>3, <4>1 DEF Looked
      <4> QED  BY <4>2, <3>1 DEF Children
    <3>2. CASE Doc.sel[n].k # "spread"
      <4>1. Elems(Doc.sel[n].kids) \subseteq P
        BY <1>2, <1>3, <3>2 DEF Looked
      <4> QED  BY <4>1, <3>2 DEF Children
    <3> QED  BY <3>1, <3>2
  <2> QED  BY <2>1, <2>2 DEF Holds
<1>5. P = Met(Doc, Op)
  BY <1>1, <1>4, MetFacts, MetLeast
<1>6. \A n \in Met(Doc, Op) : SupportedDirectives(Doc.sel[n].dirs)
  BY <1>2, <1>5 DEF Looked
<1>7. \A n \in Met(Doc, Op) :
        Doc.sel[n].k = "spread" => FragmentOf(Doc, Doc.sel[n].name).dirs = <<>>
  BY <1>2, <1>5 DEF Looked
<1> QED  BY <1>1, <1>6, <1>7 DEF PlainQuery

\* A selection that is looked at makes its own selections pending.
LEMMA LookFurther ==
  ASSUME NEW doc, NEW op, NEW met, NEW sc, NEW n \in met, NEW v, NEW more,
         NEW P \in SUBSET met, Looked(doc, op, sc, P),
         SupportedDirectives(doc.sel[n].dirs),
         Elems(sc.pending) \subseteq {n} \cup Elems(v.pending),
         more \subseteq Elems(v.pending),
         sc.visited \subseteq v.visited,
         doc.sel[n].k # "spread" => Elems(doc.sel[n].kids) \subseteq more,
         doc.sel[n].k = "spread" => doc.sel[n].name \in v.visited,
         \A f \in v.visited : f \notin sc.visited =>
           FragmentOf(doc, f).dirs = <<>> /\ Elems(FragmentOf(doc, f).kids) \subseteq more
  PROVE  \E Q \in SUBSET met : Looked(doc, op, v, Q)
<1> DEFINE Q == P \cup {n}
           was == P \cup Elems(sc.pending)
           seen == Q \cup Elems(v.pending)
<1>1. was \subseteq seen /\ more \subseteq seen
  OBVIOUS
<1>2. Elems(op.kids) \subseteq seen
  BY <1>1 DEF Looked
<1>3. ASSUME NEW m \in Q
      PROVE  /\ SupportedDirectives(doc.sel[m].dirs)
             /\ doc.sel[m].k # "spread" => Elems(doc.sel[m].kids) \subseteq seen
             /\ doc.sel[m].k = "spread" => doc.sel[m].name \in v.visited
  <2>1. CASE m = n
    BY <2>1, <1>1
  <2>2. CASE m \in P
    BY <2>2, <1>1 DEF Looked
  <2> QED  BY <2>1, <2>2
<1>4. ASSUME NEW f \in v.visited
      PROVE  FragmentOf(doc, f).dirs = <<>> /\ Elems(FragmentOf(doc, f).kids) \subseteq seen
  <2>1. CASE f \in sc.visited
    BY <2>1, <1>1 DEF Looked
  <2> QED  BY <2>1, <1>1
<1>5. Looked(doc, op, v, Q)
  BY <1>2, <1>3, <1>4 DEF Looked
<1> QED  BY <1>5

\* The selections that are left, and those that are added.
LEMMA Pending ==
  ASSUME NEW met, NEW s \in Seq(met), s # <<>>, NEW t \in Seq(met)
  PROVE  /\ Top(s) \in met
         /\ Pop(s) \in Seq(met) /\ Pop(s) \o t \in Seq(met)
         /\ Elems(s) \subseteq {Top(s)} \cup Elems(Pop(s))
         /\ Elems(s) \subseteq {Top(s)} \cup Elems(Pop(s) \o t)
         /\ Elems(t) \subseteq Elems(Pop(s) \o t)
<1> DEFINE L == Len(s)
           p == Pop(s)
<1>1. L \in Nat /\ L # 0 /\ DOMAIN s = 1 .. L
  OBVIOUS
<1>2. p = SubSeq(s, 1, L - 1)
  BY DEF Pop
<1>3. p \in Seq(met) /\ Len(p) = L - 1 /\ DOMAIN p = 1 .. L - 1 /\ \A i \in 1 .. L - 1 : p[i] = s[i]
  BY <1>1, <1>2
<1>4. Top(s) \in met
  BY <1>1 DEF Top
<1>5. Elems(s) \subseteq {Top(s)} \cup Elems(p)
  <2> SUFFICES ASSUME NEW i \in 1 .. L, i # L PROVE s[i] \in Elems(p)
    BY <1>1, Zenon DEF Elems, Top
  <2> HIDE DEF p, L
  <2>a. i \in 1 .. L - 1
    BY <1>1
  <2>1. i \in DOMAIN p /\ s[i] = p[i]
    BY <2>a, <1>3
  <2> QED  BY <2>1 DEF Elems
<1> HIDE DEF p
<1>6. /\ p \o t \in Seq(met) /\ Len(p \o t) = Len(p) + Len(t)
      /\ \A i \in 1 .. Len(p) + Len(t) :
           (p \o t)[i] = IF i <= Len(p) THEN p[i] ELSE t[i - Len(p)]
  BY <1>3, ConcatProperties
<1>7. Elems(p) \subseteq Elems(p \o t)
  <2> SUFFICES ASSUME NEW i \in DOMAIN p PROVE p[i] \in Elems(p \o t)
    BY DEF Elems
  <2>1. i \in 1 .. Len(p) + Len(t) /\ i <= Len(p)
    BY <1>3
  <2>2. (p \o t)[i] = p[i] /\ i \in DOMAIN (p \o t)
    BY <2>1, <1>6
  <2> QED  BY <2>2 DEF Elems
<1>8. Elems(t) \subseteq Elems(p \o t)
  <2> SUFFICES ASSUME NEW i \in DOMAIN t PROVE t[i] \in Elems(p \o t)
    BY DEF Elems
  <2> DEFINE j == i + Len(p)
  <2>1. j \in 1 .. Len(p) + Len(t) /\ ~(j <= Len(p)) /\ j - Len(p) = i
    BY <1>3
  <2> HIDE DEF j
  <2>2. (p \o t)[j] = t[i] /\ j \in DOMAIN (p \o t)
    BY <2>1, <1>6
  <2> QED  BY <2>2 DEF Elems
<1> QED  BY <1>3, <1>4, <1>5, <1>6, <1>7, <1>8 DEF p

LEMMA EnterStep ==
  ASSUME ReadInv, pc = "directives", input' = input, walk' = walk, scan.pending # <<>>,
         SupportedDirectives(Doc.sel[Top(scan.pending)].dirs),
         Enter(Doc.sel[Top(scan.pending)])
  PROVE  ReadInv'
<1> DEFINE met == Met(Doc, Op)
           n == Top(scan.pending)
           s == Doc.sel[n]
<1>1. Resolved /\ OpIndex # None /\ Op.kind = "query" /\ Scanning(Doc, Op, scan)
  BY DEF ReadInv, StageOK, ScanOK
<1>2. /\ scan \in [pending : Seq(met), visited : SUBSET FragmentNames(Doc)]
      /\ scan.pending \in Seq(met) /\ scan.visited \in SUBSET FragmentNames(Doc)
  BY <1>1 DEF Scanning
<1>3. PICK P \in SUBSET met : Looked(Doc, Op, scan, P)
  BY <1>1 DEF Scanning
<1>4. /\ met \subseteq DOMAIN Doc.sel /\ Holds(Doc, Op, met)
      /\ s.k = "spread" => s.name \in FragmentNames(Doc)
      /\ n \in met
  BY <1>1, <1>2, MetFacts, Pending
<1>5. Children(Doc, n) \in Seq(met)
  <2>1. Elems(Children(Doc, n)) \subseteq met
    BY <1>4 DEF Holds
  <2>2. Children(Doc, n) \in Seq(DOMAIN Doc.sel)
    BY <1>1, <1>4, DocumentThere, FragmentThere DEF Children, IsDocument
  <2> QED  BY <2>1, <2>2, SeqNarrow
<1> DEFINE goes(v) == /\ v \in [pending : Seq(met), visited : SUBSET FragmentNames(Doc)]
                      /\ \E Q \in SUBSET met : Looked(Doc, Op, v, Q)
<1>6. ASSUME goes(scan'), pc' = pc, read' = read PROVE ReadInv'
  <2>1. ScanOK' /\ WalkOK'
    BY <1>1, <1>6, SameInput DEF ScanOK, WalkOK, Scanning
  <2>2. StageOK'
    BY <1>6, SameInput DEF ReadInv, StageOK
  <2> QED  BY <1>6, <2>1, <2>2, StageStep DEF ReadInv, Middle
<1>7. CASE s.k # "spread"
  <2>1. scan' = [scan EXCEPT !.pending = Pop(@) \o s.kids] /\ read' = read /\ pc' = pc
    BY <1>7 DEF Enter
  <2>2. s.kids \in Seq(met)
    BY <1>5, <1>7 DEF Children
  <2>3. scan'.pending = Pop(scan.pending) \o s.kids /\ scan'.visited = scan.visited
    BY <2>1, <1>2
  <2>4. /\ scan'.pending \in Seq(met)
        /\ Elems(scan.pending) \subseteq {n} \cup Elems(scan'.pending)
        /\ Elems(s.kids) \subseteq Elems(scan'.pending)
    <3> DEFINE left == Pop(scan.pending) \o s.kids
    <3> HIDE DEF met
    <3>1. /\ left \in Seq(met) /\ Elems(scan.pending) \subseteq {n} \cup Elems(left)
          /\ Elems(s.kids) \subseteq Elems(left)
      BY <1>2, <2>2, Pending
    <3> HIDE DEF left
    <3> QED  BY <3>1, <2>3 DEF left
  <2>5. scan' \in [pending : Seq(met), visited : SUBSET FragmentNames(Doc)]
    BY <1>2, <2>1, <2>3, <2>4
  <2>6. \E Q \in SUBSET met : Looked(Doc, Op, scan', Q)
    BY <1>3, <1>4, <1>7, <2>3, <2>4, LookFurther
  <2> QED  BY <2>1, <2>5, <2>6, <1>6
<1>8. CASE s.k = "spread" /\ s.name \in scan.visited
  <2>1. scan' = [scan EXCEPT !.pending = Pop(@)] /\ read' = read /\ pc' = pc
    BY <1>8 DEF Enter
  <2>3. scan'.pending = Pop(scan.pending) /\ scan'.visited = scan.visited
    BY <2>1, <1>2
  <2>4. /\ scan'.pending \in Seq(met)
        /\ Elems(scan.pending) \subseteq {n} \cup Elems(scan'.pending)
    BY <1>2, <1>5, <2>3, Pending
  <2>5. scan' \in [pending : Seq(met), visited : SUBSET FragmentNames(Doc)]
    BY <1>2, <2>1, <2>3, <2>4
  <2>6. \E Q \in SUBSET met : Looked(Doc, Op, scan', Q)
    BY <1>3, <1>4, <1>8, <2>3, <2>4, LookFurther
  <2> QED  BY <2>1, <2>5, <2>6, <1>6
<1> DEFINE fragment == FragmentOf(Doc, s.name)
<1>9. CASE s.k = "spread" /\ s.name \notin scan.visited /\ fragment.dirs # <<>>
  <2>1. Scanned(FALSE)
    BY <1>9 DEF Enter
  <2>2. ~PlainQuery(Doc, Op)
    BY <1>9, <1>4 DEF PlainQuery
  <2> QED  BY <2>1, <2>2, ScannedStep
<1>10. CASE s.k = "spread" /\ s.name \notin scan.visited /\ fragment.dirs = <<>>
  <2>1. /\ scan' = [pending |-> Pop(scan.pending) \o fragment.kids,
                    visited |-> scan.visited \cup {s.name}]
        /\ read' = read /\ pc' = pc
    BY <1>10, Zenon DEF Enter
  <2>2. fragment.kids \in Seq(met)
    BY <1>5, <1>10 DEF Children
  <2>3. /\ scan'.pending = Pop(scan.pending) \o fragment.kids
        /\ scan'.visited = scan.visited \cup {s.name}
    BY <2>1, Zenon
  <2>4. /\ scan'.pending \in Seq(met)
        /\ Elems(scan.pending) \subseteq {n} \cup Elems(scan'.pending)
        /\ Elems(fragment.kids) \subseteq Elems(scan'.pending)
    <3> DEFINE left == Pop(scan.pending) \o fragment.kids
    <3> HIDE DEF met
    <3>1. /\ left \in Seq(met) /\ Elems(scan.pending) \subseteq {n} \cup Elems(left)
          /\ Elems(fragment.kids) \subseteq Elems(left)
      BY <1>2, <2>2, Pending
    <3> HIDE DEF left
    <3> QED  BY <3>1, <2>3 DEF left
  <2>5. scan' \in [pending : Seq(met), visited : SUBSET FragmentNames(Doc)]
    BY <1>2, <1>4, <1>10, <2>1, <2>3, <2>4, Zenon
  <2>6. \E Q \in SUBSET met : Looked(Doc, Op, scan', Q)
    BY <1>3, <1>4, <1>10, <2>3, <2>4, LookFurther
  <2> QED  BY <2>1, <2>5, <2>6, <1>6, Zenon
<1> QED  BY <1>7, <1>8, <1>9, <1>10

LEMMA ScanStep ==
  ASSUME ReadInv, Scan
  PROVE  ReadInv'
<1>1. pc = "directives" /\ input' = input /\ walk' = walk
  BY DEF Scan
<1>2. CASE Op.dirs # <<>> \/ \E v \in Elems(Op.vars) : v.dirs # <<>>
  <2>1. Scanned(FALSE) /\ ~PlainQuery(Doc, Op)
    BY <1>2 DEF Scan, PlainQuery
  <2> QED  BY <2>1, <1>1, ScannedStep
<1>3. CASE ~(Op.dirs # <<>> \/ \E v \in Elems(Op.vars) : v.dirs # <<>>) /\ scan.pending = <<>>
  <2>1. Scanned(TRUE) /\ PlainQuery(Doc, Op)
    BY <1>1, <1>3, ScanComplete DEF Scan
  <2> QED  BY <2>1, <1>1, ScannedStep
<1>4. CASE /\ ~(Op.dirs # <<>> \/ \E v \in Elems(Op.vars) : v.dirs # <<>>)
           /\ scan.pending # <<>>
  <2> DEFINE n == Top(scan.pending)
  <2>1. CASE SupportedDirectives(Doc.sel[n].dirs)
    <3>1. Enter(Doc.sel[n])
      BY <1>4, <2>1 DEF Scan
    <3> QED  BY <3>1, <2>1, <1>1, <1>4, EnterStep
  <2>2. CASE ~SupportedDirectives(Doc.sel[n].dirs)
    <3>1. Scanned(FALSE)
      BY <1>4, <2>2 DEF Scan
    <3>2. n \in Met(Doc, Op)
      BY <1>1, <1>4, Pending DEF ReadInv, ScanOK, Scanning
    <3>3. ~PlainQuery(Doc, Op)
      BY <3>2, <2>2 DEF PlainQuery
    <3> QED  BY <3>1, <3>3, <1>1, ScannedStep
  <2> QED  BY <2>1, <2>2
<1> QED  BY <1>2, <1>3, <1>4

\* The analysis says nothing about what the request means.
LEMMA AnalysisStep ==
  ASSUME ReadInv, Analyze \/ Expand \/ Exhausted \/ Return
  PROVE  ReadInv'
<1>1. pc \in {"analyze", "expand"} /\ UNCHANGED <<input, verdict, read, walk, scan>>
  BY DEF Analyze, Expand, Exhausted, Return
<1>2. pc' \in {"expand", "decide"}
  <2>1. CASE Analyze
    BY <2>1 DEF Analyze, Fail
  <2>2. CASE Expand
    BY <2>2, Zenon DEF Expand, ExpandField, ExpandInline, ExpandSpread, Deeper, Fail
  <2>3. CASE Exhausted
    BY <2>3 DEF Exhausted, Fail
  <2>4. CASE Return
    BY <2>4 DEF Return
  <2> QED  BY <2>1, <2>2, <2>3, <2>4
<1>3. pc \in Middle /\ pc' \in Middle /\ read' \in BOOLEAN /\ walk' = NoWalk
  BY <1>1, <1>2 DEF Middle, ReadInv
<1>4. WalkOK' /\ ScanOK'
  BY <1>2 DEF WalkOK, ScanOK
<1>5. StageOK'
  BY <1>1, <1>2, SameInput DEF ReadInv, StageOK
<1> QED  BY <1>1, <1>3, <1>4, <1>5, StageStep

LEMMA VerdictStep ==
  ASSUME ReadInv, Decide
  PROVE  ReadInv'
<1>1. pc = "decide" /\ input' = input /\ read' = read /\ read \in BOOLEAN
  BY DEF Decide, ReadInv
<1>2. Req' = Req /\ Doc' = Doc
  BY <1>1, SameInput
<1>3. CASE read /\ ReadTransport(Req)
  <2>1. Settle("forward")
    BY <1>3 DEF Decide
  <2>2. Resolved /\ ~Cyclic(Doc) /\ OpIndex # None /\ PlainQuery(Doc, Op)
    BY <1>3 DEF ReadInv, StageOK
  <2>3. Op \in Meant(Doc, Requested(Req.body, MediaOf(Req)))
    BY <2>2, OperationThere
  <2>4. MeansRead(Req) /\ Req.body.type = "graphql"
    BY <1>3, <2>2, <2>3 DEF MeansRead, WellFormed, Resolved, EnvelopeParses, Doc
  <2>5. Req.host \in ClineHosts \cup {"api.cline.bot"} => ~IsApiKeyManagement(Req.path)
    BY <1>1 DEF ReadInv, Gated
  <2>6. ReadExactly'
    BY <1>2, <2>1, <2>4, <2>5 DEF ReadExactly, Settle
  <2> QED  BY <1>1, <2>1, <2>6, SettleStep
<1>4. CASE ~(read /\ ReadTransport(Req))
  <2>1. Settle("review")
    BY <1>4 DEF Decide
  <2>2. ~MeansRead(Req) \/ HasChain(Doc, MaxDepth + 1)
    BY <1>1, <1>4 DEF ReadInv, StageOK, MeansRead
  <2>3. ReadExactly'
    BY <1>2, <2>1, <2>2 DEF ReadExactly, Settle
  <2> QED  BY <1>1, <2>1, <2>3, SettleStep
<1> QED  BY <1>3, <1>4

LEMMA ReadStutter ==
  ASSUME ReadInv, UNCHANGED vars
  PROVE  ReadInv'
<1>1. /\ input' = input /\ pc' = pc /\ verdict' = verdict /\ read' = read
      /\ walk' = walk /\ scan' = scan
  BY DEF vars
<1>2. Req' = Req /\ Doc' = Doc /\ Op' = Op
  BY <1>1, SameInput
<1>3. Gated' /\ WalkOK' /\ ScanOK'
  BY <1>1, <1>2 DEF ReadInv, Gated, WalkOK, ScanOK
<1>4. StageOK'
  BY <1>1, SameInput DEF ReadInv, StageOK
<1>5. ReadExactly'
  BY <1>1, <1>2, SameInput DEF ReadInv, ReadExactly
<1> QED  BY <1>1, <1>3, <1>4, <1>5 DEF ReadInv

LEMMA ReadNext ==
  ASSUME ReadInv, [Next]_vars
  PROVE  ReadInv'
BY GateStep, CollectStep, VisitRootStep, VisitStep, SelectStep, ScanStep, AnalysisStep,
   VerdictStep, ReadStutter DEF Next

(***************************************************************************)
(* For every document, every order of the walks and every limit: what      *)
(* passes without the host reads, and a GraphQL request that reads passes  *)
(* unless its fragments nest deeper than MAX_DEPTH (handle_from_peer_traced, *)
(* await_review, inspect_with_limit, validate_fragments,                   *)
(* query_directives_supported).                                            *)
(***************************************************************************)
THEOREM ReadsPass == Spec => []ReadExactly
<1>1. Init => ReadInv
  BY ReadInit
<1>2. ReadInv /\ [Next]_vars => ReadInv'
  BY ReadNext
<1>3. ReadInv => ReadExactly
  BY DEF ReadInv
<1> QED  BY <1>1, <1>2, <1>3, PTL DEF Spec

-----------------------------------------------------------------------------
(* The ways down from an operation *)

IsWay(doc, op, d) ==
  /\ d \in Seq(Met(doc, op)) /\ d # <<>>
  /\ d[1] \in Elems(op.kids)
  /\ \A j \in 1 .. Len(d) - 1 : d[j + 1] \in Elems(Children(doc, d[j]))

NonEmptySeq(S) == {d \in Seq(S) : d # <<>>}
Longer(doc, X) == UNION {{Append(d, c) : c \in Elems(Children(doc, Top(d)))} : d \in X}

LEMMA LongerAre ==
  ASSUME NEW doc, NEW X, NEW e
  PROVE  e \in Longer(doc, X) <=> \E d \in X : \E c \in Elems(Children(doc, Top(d))) : e = Append(d, c)
BY DEF Longer

LEMMA WaysRecursion ==
  ASSUME NEW doc, NEW op, Holds(doc, op, Met(doc, op))
  PROVE  LET f == Ways(doc, op)
         IN /\ f[0] = {<<n>> : n \in Elems(op.kids)}
            /\ \A n \in Nat : f[n + 1] = Longer(doc, f[n])
<1> DEFINE met == Met(doc, op)
           V == SUBSET NonEmptySeq(met)
           A == {<<n>> : n \in Elems(op.kids)}
           F == [i \in Nat |-> [X \in V |-> Longer(doc, X)]]
<1>1. A \in V
  <2>1. ASSUME NEW n \in Elems(op.kids) PROVE <<n>> \in NonEmptySeq(met)
    <3>1. n \in met
      BY DEF Holds
    <3> HIDE DEF met
    <3>2. <<n>> \in Seq(met) /\ Len(<<n>>) = 1
      BY <3>1
    <3> QED  BY <3>2 DEF NonEmptySeq
  <2> HIDE DEF met
  <2> QED  BY <2>1
<1>2. F \in [Nat -> [V -> V]]
  <2> SUFFICES ASSUME NEW X \in V PROVE Longer(doc, X) \in V
    OBVIOUS
  <2> SUFFICES ASSUME NEW e \in Longer(doc, X) PROVE e \in NonEmptySeq(met)
    OBVIOUS
  <2>1. PICK d \in X : \E c \in Elems(Children(doc, Top(d))) : e = Append(d, c)
    BY LongerAre
  <2>2. PICK c \in Elems(Children(doc, Top(d))) : e = Append(d, c)
    BY <2>1
  <2>3. d \in Seq(met) /\ d # <<>>
    BY DEF NonEmptySeq
  <2>4. Top(d) \in met
    BY <2>3 DEF Top
  <2>5. c \in met
    BY <2>2, <2>4 DEF Holds
  <2> HIDE DEF met
  <2> QED  BY <2>2, <2>3, <2>5 DEF NonEmptySeq
<1>3. PICK f : IsIteration(f, V, A, F)
  <2> HIDE DEF V, A, F
  <2> QED  BY <1>1, <1>2, Iterate
<1> DEFINE G(g) == [i \in Nat |->
                      IF i = 0 THEN {<<n>> : n \in Elems(op.kids)} ELSE Longer(doc, g[i - 1])]
<1>4. f = G(f)
  <2>1. ASSUME NEW i \in Nat PROVE f[i] = G(f)[i]
    <3>1. CASE i = 0
      BY <1>3, <3>1 DEF IsIteration
    <3>2. CASE i # 0
      <4>1. PICK k \in Nat : i = k + 1
        <5>1. i - 1 \in Nat /\ i = (i - 1) + 1
          BY <3>2
        <5> QED  BY <5>1
      <4>2. f[k + 1] = F[k][f[k]] /\ f[k] \in V
        <5> HIDE DEF V, A, F
        <5> QED  BY <1>3 DEF IsIteration
      <4>3. f[k + 1] = Longer(doc, f[k])
        BY <4>2
      <4>4. i - 1 = k
        BY <4>1
      <4> QED  BY <4>1, <4>3, <4>4, <3>2
    <3> QED  BY <3>1, <3>2
  <2>2. f \in [Nat -> V]
    BY <1>3 DEF IsIteration
  <2> QED  BY <2>1, <2>2
<1>5. Ways(doc, op) = CHOOSE g : g = G(g)
  BY DEF Ways, Longer
<1>6. Ways(doc, op) = G(Ways(doc, op))
  BY <1>4, <1>5
<1> QED  BY <1>6

\* The ways of one length are the sequences that go down step by step.
LEMMA WaysAre ==
  ASSUME NEW doc, NEW op, Holds(doc, op, Met(doc, op)), NEW i \in Nat
  PROVE  \A d : d \in Ways(doc, op)[i] <=> IsWay(doc, op, d) /\ Len(d) = i + 1
<1> DEFINE met == Met(doc, op)
           f == Ways(doc, op)
           S == {k \in Nat : \A d : d \in f[k] <=> IsWay(doc, op, d) /\ Len(d) = k + 1}
<1>1. f[0] = {<<n>> : n \in Elems(op.kids)} /\ \A n \in Nat : f[n + 1] = Longer(doc, f[n])
  BY WaysRecursion
<1> HIDE DEF f
<1>2. 0 \in S
  <2>1. ASSUME NEW d, d \in f[0] PROVE IsWay(doc, op, d) /\ Len(d) = 1
    <3>1. PICK n \in Elems(op.kids) : d = <<n>>
      BY <1>1, <2>1
    <3>2. n \in met
      BY DEF Holds
    <3> QED  BY <3>1, <3>2 DEF IsWay
  <2>2. ASSUME NEW d, IsWay(doc, op, d), Len(d) = 1 PROVE d \in f[0]
    <3>1. d = <<d[1]>> /\ d[1] \in Elems(op.kids)
      BY <2>2 DEF IsWay
    <3> QED  BY <3>1, <1>1
  <2> QED  BY <2>1, <2>2
<1>3. ASSUME NEW k \in Nat, k \in S PROVE k + 1 \in S
  <2>1. ASSUME NEW e, e \in f[k + 1] PROVE IsWay(doc, op, e) /\ Len(e) = (k + 1) + 1
    <3>0. e \in Longer(doc, f[k])
      BY <1>1, <2>1
    <3>1. PICK d \in f[k] : \E c \in Elems(Children(doc, Top(d))) : e = Append(d, c)
      BY <3>0, LongerAre
    <3>2. PICK c \in Elems(Children(doc, Top(d))) : e = Append(d, c)
      BY <3>1
    <3>3. IsWay(doc, op, d) /\ Len(d) = k + 1
      BY <1>3
    <3>4. d \in Seq(met) /\ d # <<>> /\ Top(d) = d[k + 1] /\ Top(d) \in met
      BY <3>3 DEF IsWay, Top
    <3>5. c \in met
      BY <3>2, <3>4 DEF Holds
    <3> HIDE DEF met
    <3>6. /\ e \in Seq(met) /\ e # <<>> /\ Len(e) = k + 2 /\ e[k + 2] = c
          /\ \A j \in 1 .. k + 1 : e[j] = d[j]
      BY <3>2, <3>3, <3>4, <3>5
    <3>7. e[1] \in Elems(op.kids)
      BY <3>3, <3>6 DEF IsWay
    <3>8. ASSUME NEW j \in 1 .. Len(e) - 1 PROVE e[j + 1] \in Elems(Children(doc, e[j]))
      <4>1. CASE j = k + 1
        BY <4>1, <3>2, <3>4, <3>6
      <4>2. CASE j # k + 1
        <5>1. j \in 1 .. Len(d) - 1 /\ j \in 1 .. k + 1 /\ j + 1 \in 1 .. k + 1
          BY <4>2, <3>3, <3>6
        <5>2. d[j + 1] \in Elems(Children(doc, d[j]))
          BY <5>1, <3>3 DEF IsWay
        <5>3. e[j + 1] = d[j + 1] /\ e[j] = d[j]
          BY <5>1, <3>6
        <5> QED  BY <5>2, <5>3
      <4> QED  BY <4>1, <4>2
    <3> QED  BY <3>6, <3>7, <3>8 DEF IsWay, met
  <2>2. ASSUME NEW e, IsWay(doc, op, e), Len(e) = (k + 1) + 1 PROVE e \in f[k + 1]
    <3> DEFINE d == SubSeq(e, 1, k + 1)
               c == e[k + 2]
    <3>1. e \in Seq(met) /\ e # <<>>
      BY <2>2 DEF IsWay
    <3> HIDE DEF met
    <3>2. /\ d \in Seq(met) /\ Len(d) = k + 1 /\ d # <<>> /\ e = Append(d, c)
          /\ \A j \in 1 .. k + 1 : d[j] = e[j]
      <4>1. d \in Seq(met) /\ Len(d) = k + 1 /\ \A j \in 1 .. k + 1 : d[j] = e[j]
        BY <3>1, <2>2
      <4>2. d # <<>> /\ e = Append(d, c)
        BY <3>1, <4>1, <2>2
      <4> QED  BY <4>1, <4>2
    <3> HIDE DEF d
    <3>3. IsWay(doc, op, d)
      <4>1. d[1] \in Elems(op.kids)
        BY <3>2, <2>2 DEF IsWay
      <4>2. ASSUME NEW j \in 1 .. Len(d) - 1 PROVE d[j + 1] \in Elems(Children(doc, d[j]))
        <5>1. j \in 1 .. Len(e) - 1 /\ j \in 1 .. k + 1 /\ j + 1 \in 1 .. k + 1
          BY <3>2, <2>2
        <5>2. e[j + 1] \in Elems(Children(doc, e[j]))
          BY <5>1, <2>2 DEF IsWay
        <5> QED  BY <5>1, <5>2, <3>2
      <4> QED  BY <3>2, <4>1, <4>2 DEF IsWay, met
    <3>4. d \in f[k]
      BY <3>2, <3>3, <1>3
    <3>5. c \in Elems(Children(doc, Top(d)))
      <4>1. k + 1 \in 1 .. Len(e) - 1
        BY <2>2
      <4>2. e[(k + 1) + 1] \in Elems(Children(doc, e[k + 1]))
        BY <4>1, <2>2 DEF IsWay
      <4>3. Top(d) = e[k + 1]
        BY <3>2 DEF Top
      <4> QED  BY <4>2, <4>3
    <3> HIDE DEF c
    <3>6. e \in Longer(doc, f[k])
      BY <3>2, <3>4, <3>5, LongerAre
    <3> QED  BY <3>6, <1>1
  <2> QED  BY <2>1, <2>2
<1>4. Nat \subseteq S
  <2> HIDE DEF S
  <2> QED  BY <1>2, <1>3, Induct
<1> QED  BY <1>4 DEF f

LEMMA DerivationsAre ==
  ASSUME NEW doc, NEW op, IsDocument(doc), Holds(doc, op, Met(doc, op)), NEW d
  PROVE  d \in Derivations(doc, op) <=>
           IsWay(doc, op, d) /\ Len(d) <= Cardinality(DOMAIN doc.sel) + 1
<1> DEFINE N == Cardinality(DOMAIN doc.sel)
<1>1. N \in Nat
  BY FS_CardinalityType DEF IsDocument
<1> HIDE DEF N
<1>2. d \in Derivations(doc, op) <=> \E i \in 0 .. N : d \in Ways(doc, op)[i]
  BY Zenon DEF Derivations, N
<1>3. \A i \in 0 .. N : d \in Ways(doc, op)[i] <=> IsWay(doc, op, d) /\ Len(d) = i + 1
  BY <1>1, WaysAre
<1>4. IsWay(doc, op, d) => Len(d) \in Nat \ {0}
  BY DEF IsWay
<1>5. IsWay(doc, op, d) /\ Len(d) <= N + 1 => Len(d) - 1 \in 0 .. N /\ Len(d) = (Len(d) - 1) + 1
  BY <1>1, <1>4
<1>6. \A i \in 0 .. N : i + 1 <= N + 1
  BY <1>1
<1>7. ASSUME d \in Derivations(doc, op) PROVE IsWay(doc, op, d) /\ Len(d) <= N + 1
  BY <1>2, <1>3, <1>6, <1>7
<1>8. ASSUME IsWay(doc, op, d), Len(d) <= N + 1 PROVE d \in Derivations(doc, op)
  BY <1>2, <1>3, <1>5, <1>8
<1> QED  BY <1>7, <1>8 DEF N

-----------------------------------------------------------------------------
(* The plan of a comment *)

\* A plan is made when the operation is analysed, and is not changed.
PlanOK ==
  plan # None =>
    /\ pc \in {"expand", "decide", "end"}
    /\ Resolved /\ OpIndex # None
    /\ plan = CommentPlan(Doc, Op, Raw, Given)

\* A comment has one way down to a field: the field itself.
LEMMA OneRoot ==
  ASSUME NEW doc, NEW op, IsDocument(doc), DocumentParses(doc),
         AllReferences(doc) \subseteq FragmentNames(doc), op \in Elems(doc.ops),
         IsOneComment(doc, op)
  PROVE  LET roots == {d \in Derivations(doc, op) :
                         /\ doc.sel[Top(d)].k = "field"
                         /\ Cardinality({i \in DOMAIN d : doc.sel[d[i]].k = "field"}) = 1}
         IN roots = {<<op.kids[1]>>}
<1> DEFINE n == op.kids[1]
           fields(d) == {i \in DOMAIN d : doc.sel[d[i]].k = "field"}
<1>1. /\ op.kids \in Seq(DOMAIN doc.sel) /\ Len(op.kids) = 1 /\ doc.sel[n].k = "field"
  BY DEF IsDocument, IsOneComment
<1>2. Elems(op.kids) = {n}
  BY <1>1 DEF Elems
<1>3. Holds(doc, op, Met(doc, op)) /\ n \in Met(doc, op)
  BY <1>2, MetClosed DEF Holds
<1> HIDE DEF n
<1>4. <<n>> \in Derivations(doc, op)
  <2>1. IsWay(doc, op, <<n>>) /\ Len(<<n>>) = 1
    BY <1>2, <1>3 DEF IsWay
  <2>2. 1 <= Cardinality(DOMAIN doc.sel) + 1
    BY FS_CardinalityType DEF IsDocument
  <2> QED  BY <2>1, <2>2, <1>3, DerivationsAre
<1>5. Cardinality(fields(<<n>>)) = 1 /\ doc.sel[Top(<<n>>)].k = "field"
  <2>1. fields(<<n>>) = {1}
    BY <1>1 DEF n
  <2>2. Cardinality({1}) = 1
    BY FS_Singleton
  <2>3. Top(<<n>>) = n
    BY DEF Top
  <2> QED  BY <2>1, <2>2, <2>3, <1>1
<1>6. ASSUME NEW d \in Derivations(doc, op), doc.sel[Top(d)].k = "field",
             Cardinality(fields(d)) = 1
      PROVE  d = <<n>>
  <2>1. IsWay(doc, op, d)
    BY <1>3, DerivationsAre
  <2>2. d \in Seq(Met(doc, op)) /\ d # <<>> /\ d[1] = n
    BY <2>1, <1>2 DEF IsWay
  <2>3. Len(d) \in Nat /\ DOMAIN d = 1 .. Len(d) /\ 1 \in DOMAIN d /\ Len(d) \in DOMAIN d
    BY <2>2
  <2>4. IsFiniteSet(fields(d))
    <3>1. IsFiniteSet(1 .. Len(d))
      BY <2>3, FS_Interval
    <3>2. fields(d) \subseteq 1 .. Len(d)
      BY <2>3
    <3> HIDE DEF fields
    <3> QED  BY <3>1, <3>2, FS_Subset
  <2>5. PICK x : fields(d) = {x}
    BY <2>4, <1>6, FS_Singleton
  <2>6. 1 \in fields(d) /\ Len(d) \in fields(d)
    BY <2>2, <2>3, <1>1, <1>6 DEF Top, n
  <2>7. Len(d) = 1
    BY <2>5, <2>6
  <2> QED  BY <2>2, <2>7
<1> QED  BY <1>4, <1>5, <1>6 DEF n

\* The same value that the plan resolves, whatever its declared type.
LEMMA TypedValue ==
  ASSUME NEW op, NEW raw, NEW v, NEW type, ResolveTyped(op, raw, v, type) # None
  PROVE  v # None /\ ResolveTyped(op, raw, v, type) = IF v.t = "var" THEN raw[v.name] ELSE v
BY DEF ResolveTyped

\* What a plan says is what the values of the argument are.
ArgumentSays(doc, n, raw, p) ==
  LET s == doc.sel[n]
      value(v) == IF v.t = "var" THEN raw[v.name] ELSE v
      m == [k \in DOMAIN value(s.args["input"]).m |-> value(value(s.args["input"]).m[k])]
  IN /\ DOMAIN s.args = {"input"} /\ value(s.args["input"]).t = "obj"
     /\ m["subjectId"].t = "str" /\ m["subjectId"].v = p.subject
     /\ m["body"].t = "str" /\ m["body"].v = p.body
     /\ Get(m, "clientMutationId") = p.client
     /\ DOMAIN m \subseteq CommentKeys
PlanSays(doc, op, raw, p) ==
  IsOneComment(doc, op) /\ ArgumentSays(doc, op.kids[1], raw, p)

LEMMA PlanMeans ==
  ASSUME NEW doc, NEW op, NEW raw, NEW given, CommentPlan(doc, op, raw, given) # None
  PROVE  PlanSays(doc, op, raw, CommentPlan(doc, op, raw, given))
<1> DEFINE s == doc.sel[op.kids[1]]
           arg == Get(s.args, "input")
           in == ResolveTyped(op, raw, arg, "AddCommentInput")
           part(key, type) == ResolveTyped(op, raw, Member(in, key), type)
           subject == part("subjectId", "ID")
           body == part("body", "String")
           client == part("clientMutationId", "String")
           value(v) == IF v.t = "var" THEN raw[v.name] ELSE v
           m == [k \in DOMAIN in.m |-> value(in.m[k])]
           p == CommentPlan(doc, op, raw, given)
<1>1. /\ IsOneComment(doc, op)
      /\ in # None /\ in.t = "obj" /\ DOMAIN in.m \subseteq CommentKeys
      /\ PlanTexts(subject, body)
      /\ "clientMutationId" \in DOMAIN in.m => client # None
      /\ p = [subject |-> subject.v, body |-> body.v, client |-> client]
  BY Zenon DEF CommentPlan
<1> HIDE DEF p
<1>2. arg # None /\ in = value(arg)
  <2> DEFINE known == ResolveTyped(op, raw, arg, "AddCommentInput")
  <2>1. known # None
    BY <1>1
  <2> HIDE DEF arg
  <2> QED  BY ONLY <2>1, TypedValue
<1>3. DOMAIN s.args = {"input"} /\ arg = s.args["input"]
  <2>1. "input" \in DOMAIN s.args /\ arg = s.args["input"]
    BY <1>2 DEF Get
  <2>2. \E key \in DOMAIN s.args : DOMAIN s.args = {key}
    BY <1>1 DEF IsOneComment
  <2> QED  BY <2>1, <2>2
<1> HIDE DEF in
<1>4. ASSUME NEW key, NEW type, part(key, type) # None
      PROVE  key \in DOMAIN in.m /\ part(key, type) = m[key]
  <2>1. Member(in, key) # None /\ part(key, type) = value(Member(in, key))
    BY <1>4, TypedValue
  <2>2. Member(in, key) = Get(in.m, key)
    BY <1>1 DEF Member
  <2>3. key \in DOMAIN in.m /\ Member(in, key) = in.m[key]
    BY <2>1, <2>2 DEF Get
  <2> QED  BY <2>1, <2>3
<1>5. subject # None /\ subject.t = "str" /\ body # None /\ body.t = "str"
  BY <1>1 DEF PlanTexts
<1>6. m["subjectId"] = subject /\ m["body"] = body
  BY <1>4, <1>5
<1>7. Get(m, "clientMutationId") = client
  <2>1. CASE "clientMutationId" \in DOMAIN in.m
    <3>1. client = m["clientMutationId"]
      BY <1>1, <1>4, <2>1
    <3> QED  BY <2>1, <3>1 DEF Get
  <2>2. CASE "clientMutationId" \notin DOMAIN in.m
    <3>1. Get(m, "clientMutationId") = None
      BY <2>2 DEF Get
    <3>2. client = None
      BY <1>4, <2>2
    <3> QED  BY <3>1, <3>2
  <2> QED  BY <2>1, <2>2
<1>8. p.subject = subject.v /\ p.body = body.v /\ p.client = client
  <2> HIDE DEF subject, body, client
  <2> QED  BY <1>1
<1>9. in = value(s.args["input"])
  BY <1>2, <1>3
<1>10. DOMAIN m \subseteq CommentKeys
  BY <1>1
<1> HIDE DEF subject, body, client
<1> QED  BY <1>1, <1>3, <1>5, <1>6, <1>7, <1>8, <1>9, <1>10, Zenon DEF p, PlanSays, ArgumentSays

LEMMA PlanStep ==
  ASSUME ReadInv, PlanOK, [Next]_vars
  PROVE  PlanOK'
<1>1. input' = input
  BY DEF Next, Gate, Collect, VisitRoot, Visit, SelectOperation, Scan, Analyze, Expand,
         Exhausted, Return, Decide, vars
<1>2. /\ Op' = Op /\ Doc' = Doc /\ OpIndex' = OpIndex /\ (Resolved' <=> Resolved) /\ Req' = Req
  BY <1>1, SameInput
<1>3. Given' = Given /\ Raw' = Raw
  BY <1>2 DEF Given, Raw
<1>4. CASE plan' = plan /\ pc' \in {"expand", "decide", "end"}
  BY <1>2, <1>3, <1>4 DEF PlanOK
<1>5. CASE plan' = None
  BY <1>5 DEF PlanOK
<1>6. CASE Gate \/ Collect \/ VisitRoot \/ Visit \/ SelectOperation \/ Scan
  <2>1. plan' = plan /\ pc \notin {"expand", "decide", "end"}
    BY <1>6 DEF Gate, Collect, VisitRoot, Visit, SelectOperation, Scan
  <2> QED  BY <2>1, <1>5 DEF PlanOK
<1>7. CASE Analyze
  <2>1. CASE plan' = CommentPlan(Doc, Op, Raw, Given) /\ pc' = "expand"
    <3>1. Resolved /\ OpIndex # None
      BY <1>7 DEF Analyze, ReadInv, StageOK
    <3> QED  BY <2>1, <3>1, <1>2, <1>3 DEF PlanOK
  <2> QED  BY <2>1, <1>5, <1>7 DEF Analyze, Fail
<1>8. CASE Expand
  <2>1. plan' = None \/ (plan' = plan /\ pc' = pc /\ pc = "expand")
    BY <1>8, Zenon DEF Expand, ExpandField, ExpandInline, ExpandSpread, Deeper, Fail
  <2> QED  BY <2>1, <1>4, <1>5
<1>9. CASE Exhausted
  BY <1>5, <1>9 DEF Exhausted, Fail
<1>10. CASE Return
  BY <1>4, <1>10 DEF Return
<1>11. CASE Decide
  BY <1>4, <1>11 DEF Decide, Settle
<1>12. CASE UNCHANGED vars
  <2>1. plan' = plan /\ pc' = pc
    BY <1>12 DEF vars
  <2> QED  BY <2>1, <1>2, <1>3 DEF PlanOK
<1> QED  BY <1>6, <1>7, <1>8, <1>9, <1>10, <1>11, <1>12 DEF Next

LEMMA PlanExact ==
  ASSUME ReadInv, PlanOK
  PROVE  CommentPlanExact
<1> SUFFICES ASSUME plan # None PROVE CommentPlanExact
  BY Zenon DEF CommentPlanExact
<1>1. Resolved /\ OpIndex # None /\ plan = CommentPlan(Doc, Op, Raw, Given)
  BY DEF PlanOK
<1>2. IsDocument(Doc) /\ Op \in Elems(Doc.ops)
  BY <1>1, DocumentThere, OperationThere
<1> DEFINE s == Doc.sel[Op.kids[1]]
           roots == {d \in Derivations(Doc, Op) :
                       /\ Doc.sel[Top(d)].k = "field"
                       /\ Cardinality({i \in DOMAIN d : Doc.sel[d[i]].k = "field"}) = 1}
<1>3. IsOneComment(Doc, Op) /\ ArgumentSays(Doc, Op.kids[1], Raw, plan)
  BY <1>1, PlanMeans DEF PlanSays
<1>4. roots = {<<Op.kids[1]>>}
  BY <1>1, <1>2, <1>3, OneRoot DEF Resolved
<1>5. Op.kind = "mutation" /\ s.name = "addComment" /\ s.dirs = <<>> /\ Op.dirs = <<>>
  BY <1>3 DEF IsOneComment
<1>6. \A o \in Elems(Doc.ops) : o = Op
  <2>1. Doc.ops \in Seq(Elems(Doc.ops)) /\ Len(Doc.ops) = 1
    BY <1>2, <1>3 DEF IsOneComment, IsDocument, IsSequence
  <2>2. Elems(Doc.ops) = {Doc.ops[1]}
    BY <2>1 DEF Elems
  <2> QED  BY <2>2, <1>2
<1> DEFINE d == <<Op.kids[1]>>
<1>7. d \in roots /\ roots = {d} /\ Len(d) = 1 /\ d[1] = Op.kids[1]
  BY <1>4
<1> HIDE DEF d, roots
<1>8. ArgumentSays(Doc, d[1], Raw, plan)
  BY <1>3, <1>7
<1>9. \E x \in roots :
        /\ roots = {x} /\ Len(x) = 1
        /\ Doc.sel[x[1]].name = "addComment" /\ Doc.sel[x[1]].dirs = <<>> /\ Op.dirs = <<>>
        /\ ArgumentSays(Doc, x[1], Raw, plan)
  <2>1. Doc.sel[d[1]] = s
    BY <1>7
  <2> HIDE DEF s
  <2> QED  BY <1>5, <1>7, <1>8, <2>1
<1> QED  BY <1>5, <1>6, <1>9, Zenon DEF CommentPlanExact, ArgumentSays, roots

(***************************************************************************)
(* For every document and every value of its variables: a plan of a        *)
(* comment is the whole meaning of the request that it replaces: one       *)
(* unconditional addComment with that subject, body and client mutation    *)
(* id, and no other field (comment_plan).                                  *)
(***************************************************************************)
THEOREM PlansAreExact == Spec => []CommentPlanExact
<1>1. Init => ReadInv /\ PlanOK
  <2>1. Init => PlanOK
    BY DEF Init, PlanOK
  <2> QED  BY <2>1, ReadInit
<1>2. ReadInv /\ PlanOK /\ [Next]_vars => (ReadInv /\ PlanOK)'
  BY ReadNext, PlanStep
<1>3. ReadInv /\ PlanOK => CommentPlanExact
  BY PlanExact
<1> QED  BY <1>1, <1>2, <1>3, PTL DEF Spec

-----------------------------------------------------------------------------
(* Sequences put together *)

\* f[i] is the first i sequences, put together.
IsFlattening(f, S, ss) ==
  /\ f \in [1 .. Len(ss) -> Seq(S)]
  /\ f[1] = ss[1]
  /\ \A i \in 1 .. Len(ss) : i # 1 => f[i] = f[i - 1] \o ss[i]

LEMMA FlattenSteps ==
  ASSUME NEW S, NEW ss \in Seq(Seq(S)), Len(ss) # 0
  PROVE  \E f : IsFlattening(f, S, ss) /\ FlattenSeq(ss) = f[Len(ss)]
<1> DEFINE n == Len(ss)
           V == Seq(S)
           A == ss[1]
           F == [k \in Nat |-> [X \in V |-> IF k + 2 \in 1 .. n THEN X \o ss[k + 2] ELSE X]]
           G(h) == [i \in 1 .. n |-> IF i = 1 THEN ss[i] ELSE h[i - 1] \o ss[i]]
<1>1. n \in Nat /\ 1 \in 1 .. n /\ ss \in [1 .. n -> V]
  OBVIOUS
<1> HIDE DEF n
<1>2. A \in V
  BY <1>1
<1>3. F \in [Nat -> [V -> V]]
  <2> SUFFICES ASSUME NEW k \in Nat, NEW X \in V, k + 2 \in 1 .. n PROVE X \o ss[k + 2] \in V
    OBVIOUS
  <2>1. ss[k + 2] \in Seq(S)
    BY <1>1
  <2> QED  BY <2>1, ConcatProperties
<1>4. PICK g : IsIteration(g, V, A, F)
  <2> HIDE DEF V, A, F
  <2> QED  BY <1>2, <1>3, Iterate
<1> DEFINE f == [i \in 1 .. n |-> g[i - 1]]
<1>5. \A k \in Nat : g[k] \in V
  BY <1>4 DEF IsIteration
<1>6. f \in [1 .. n -> V]
  <2>1. \A i \in 1 .. n : i - 1 \in Nat
    BY <1>1
  <2> HIDE DEF V
  <2> QED  BY <1>5, <2>1
<1>7. f[1] = ss[1]
  BY <1>1, <1>4 DEF IsIteration
<1>8. ASSUME NEW i \in 1 .. n, i # 1 PROVE f[i] = f[i - 1] \o ss[i]
  <2>1. PICK k \in Nat : i = k + 2
    <3>1. i - 2 \in Nat /\ i = (i - 2) + 2
      BY <1>1, <1>8
    <3> QED  BY <3>1
  <2>2. g[k + 1] = F[k][g[k]] /\ g[k] \in V
    <3> HIDE DEF V, A, F
    <3> QED  BY <1>4 DEF IsIteration
  <2>3. g[k + 1] = g[k] \o ss[k + 2]
    BY <2>1, <2>2
  <2>4. i - 1 = k + 1 /\ (i - 1) - 1 = k /\ i - 1 \in 1 .. n
    BY <1>1, <2>1
  <2> QED  BY <2>1, <2>3, <2>4
<1> HIDE DEF f
<1>9. f = G(f)
  <2>1. \A i \in 1 .. n : f[i] = G(f)[i]
    BY <1>7, <1>8
  <2> QED  BY <2>1, <1>6
<1> DEFINE flatten == CHOOSE h : h = G(h)
<1>10. flatten = G(flatten)
  BY <1>9, Zenon
<1>11. FlattenSeq(ss) = flatten[n]
  BY DEF FlattenSeq, n
<1> HIDE DEF flatten
<1> DEFINE N == {k \in Nat : k + 1 \in 1 .. n => flatten[k + 1] = f[k + 1]}
<1>12. 0 \in N
  <2>1. flatten[1] = ss[1]
    BY <1>1, <1>10
  <2> QED  BY <2>1, <1>7
<1>13. ASSUME NEW k \in Nat, k \in N PROVE k + 1 \in N
  <2> SUFFICES ASSUME (k + 1) + 1 \in 1 .. n PROVE flatten[(k + 1) + 1] = f[(k + 1) + 1]
    OBVIOUS
  <2>1. k + 1 \in 1 .. n /\ (k + 1) + 1 # 1 /\ ((k + 1) + 1) - 1 = k + 1
    BY <1>1
  <2>2. flatten[k + 1] = f[k + 1]
    BY <1>13, <2>1
  <2>3. flatten[(k + 1) + 1] = flatten[k + 1] \o ss[(k + 1) + 1]
    BY <1>10, <2>1
  <2>4. f[(k + 1) + 1] = f[k + 1] \o ss[(k + 1) + 1]
    BY <1>8, <2>1
  <2> QED  BY <2>2, <2>3, <2>4
<1>14. Nat \subseteq N
  <2> HIDE DEF N
  <2> QED  BY <1>12, <1>13, Induct
<1>15. flatten[n] = f[n]
  <2>1. n - 1 \in Nat /\ (n - 1) + 1 = n /\ n \in 1 .. n
    BY <1>1
  <2> QED  BY <2>1, <1>14
<1>16. IsFlattening(f, S, ss)
  BY <1>6, <1>7, <1>8 DEF IsFlattening, n
<1> QED  BY <1>11, <1>15, <1>16 DEF n

LEMMA FlattenAppend ==
  ASSUME NEW S, NEW ss \in Seq(Seq(S)), NEW s \in Seq(S)
  PROVE  FlattenSeq(ss) \in Seq(S) /\ FlattenSeq(Append(ss, s)) = FlattenSeq(ss) \o s
<1> DEFINE tt == Append(ss, s)
           n == Len(ss)
<1>1. /\ n \in Nat /\ tt \in Seq(Seq(S)) /\ Len(tt) = n + 1 /\ tt[n + 1] = s
      /\ \A i \in 1 .. n : tt[i] = ss[i]
  <2> DEFINE T == Seq(S)
  <2> HIDE DEF T
  <2>1. ss \in Seq(T) /\ s \in T
    BY DEF T
  <2>2. /\ n \in Nat /\ tt \in Seq(T) /\ Len(tt) = n + 1 /\ tt[n + 1] = s
        /\ \A i \in 1 .. n : tt[i] = ss[i]
    BY <2>1
  <2> QED  BY <2>2 DEF T
<1> HIDE DEF tt
<1>2. PICK h : IsFlattening(h, S, tt) /\ FlattenSeq(tt) = h[n + 1]
  <2>1. Len(tt) # 0
    BY <1>1
  <2>2. \E f : IsFlattening(f, S, tt) /\ FlattenSeq(tt) = f[Len(tt)]
    BY <1>1, <2>1, FlattenSteps
  <2> QED  BY <1>1, <2>2
<1>3. CASE n = 0
  <2>1. ss = <<>> /\ FlattenSeq(ss) = ss
    BY <1>3 DEF FlattenSeq
  <2>2. h[1] = s
    BY <1>1, <1>2, <1>3 DEF IsFlattening
  <2>3. <<>> \o s = s
    BY ConcatEmptySeq
  <2>4. FlattenSeq(tt) = h[1]
    BY <1>2, <1>3
  <2>5. FlattenSeq(ss) \o s = s /\ FlattenSeq(ss) \in Seq(S)
    <3>1. FlattenSeq(ss) = <<>>
      BY <2>1
    <3>2. <<>> \in Seq(S)
      OBVIOUS
    <3> QED  BY <3>1, <3>2, <2>3, Zenon
  <2> QED  BY <2>2, <2>4, <2>5 DEF tt
<1>4. CASE n # 0
  <2>1. PICK f : IsFlattening(f, S, ss) /\ FlattenSeq(ss) = f[n]
    BY <1>4, FlattenSteps
  <2> DEFINE N == {k \in Nat : k + 1 \in 1 .. n => h[k + 1] = f[k + 1]}
  <2>2. 0 \in N
    BY <1>1, <1>2, <2>1 DEF IsFlattening
  <2>3. ASSUME NEW k \in Nat, k \in N PROVE k + 1 \in N
    <3> SUFFICES ASSUME (k + 1) + 1 \in 1 .. n PROVE h[(k + 1) + 1] = f[(k + 1) + 1]
      OBVIOUS
    <3>1. k + 1 \in 1 .. n /\ (k + 1) + 1 # 1 /\ ((k + 1) + 1) - 1 = k + 1 /\ (k + 1) + 1 \in 1 .. n + 1
      BY <1>1
    <3>2. h[k + 1] = f[k + 1]
      BY <2>3, <3>1
    <3>3. h[(k + 1) + 1] = h[k + 1] \o ss[(k + 1) + 1]
      BY <1>1, <1>2, <3>1 DEF IsFlattening
    <3>4. f[(k + 1) + 1] = f[k + 1] \o ss[(k + 1) + 1]
      BY <2>1, <3>1 DEF IsFlattening
    <3> QED  BY <3>2, <3>3, <3>4
  <2>4. Nat \subseteq N
    <3> HIDE DEF N
    <3> QED  BY <2>2, <2>3, Induct
  <2>5. n - 1 \in Nat /\ (n - 1) + 1 = n /\ n \in 1 .. n /\ n + 1 # 1 /\ (n + 1) - 1 = n
        /\ n + 1 \in 1 .. n + 1
    BY <1>1, <1>4
  <2>6. h[n] = f[n]
    BY <2>4, <2>5
  <2>7. h[n + 1] = h[n] \o s
    BY <1>1, <1>2, <2>5 DEF IsFlattening
  <2>8. f[n] \in Seq(S)
    BY <2>1, <2>5 DEF IsFlattening
  <2> QED  BY <1>2, <2>1, <2>6, <2>7, <2>8 DEF tt
<1> QED  BY <1>3, <1>4

\* What the members of a sequence add up to.
Along(own, d) == FlattenSeq([i \in DOMAIN d |-> own[d[i]]])

LEMMA AlongEmpty ==
  ASSUME NEW own
  PROVE  Along(own, <<>>) = <<>>
<1>1. [i \in DOMAIN <<>> |-> own[<<>>[i]]] = <<>>
  OBVIOUS
<1> QED  BY <1>1 DEF Along, FlattenSeq

LEMMA AlongAppend ==
  ASSUME NEW M, NEW S, NEW own, \A n \in M : own[n] \in Seq(S), NEW d \in Seq(M), NEW c \in M
  PROVE  Along(own, d) \in Seq(S) /\ Along(own, Append(d, c)) = Along(own, d) \o own[c]
<1> DEFINE T == Seq(S)
           n == Len(d)
           ss == [i \in DOMAIN d |-> own[d[i]]]
           e == Append(d, c)
           tt == [i \in DOMAIN e |-> own[e[i]]]
<1>1. /\ n \in Nat /\ DOMAIN d = 1 .. n /\ \A i \in 1 .. n : d[i] \in M
      /\ e \in Seq(M) /\ DOMAIN e = 1 .. n + 1 /\ e[n + 1] = c /\ \A i \in 1 .. n : e[i] = d[i]
  OBVIOUS
<1> HIDE DEF T
<1>2. \A m \in M : own[m] \in T
  BY DEF T
<1> HIDE DEF n, e
<1>3. ss \in Seq(T)
  <2>1. ss = [i \in 1 .. n |-> own[d[i]]]
    BY <1>1
  <2>2. ss \in [1 .. n -> T]
    BY <1>1, <1>2, <2>1
  <2> HIDE DEF ss
  <2> QED  BY <1>1, <2>2
<1>4. tt = Append(ss, own[c])
  <2>1. Len(ss) = n /\ \A i \in 1 .. n : ss[i] = own[d[i]]
    BY <1>1, <1>3
  <2>2. tt = [i \in 1 .. n + 1 |-> own[e[i]]]
    BY <1>1
  <2>3. own[c] \in T
    BY <1>2
  <2> HIDE DEF ss, tt
  <2>4. /\ Append(ss, own[c]) \in Seq(T) /\ Len(Append(ss, own[c])) = n + 1
        /\ Append(ss, own[c])[n + 1] = own[c]
        /\ \A i \in 1 .. n : Append(ss, own[c])[i] = ss[i]
    BY <1>3, <2>1, <2>3, AppendProperties
  <2>5. tt \in Seq(T) /\ Len(tt) = n + 1
    <3>1. \A i \in 1 .. n + 1 : e[i] \in M
      BY <1>1
    <3>2. \A i \in 1 .. n + 1 : own[e[i]] \in T
      BY <1>2, <3>1
    <3>3. PICK m \in Nat : m = n + 1
      BY <1>1
    <3>4. tt \in [1 .. m -> T]
      BY <2>2, <3>2, <3>3
    <3>5. tt \in Seq(T)
      BY <3>4
    <3>6. tt = [i \in 1 .. m |-> own[e[i]]]
      BY <2>2, <3>3
    <3>7. Len(tt) = m
      BY <3>6
    <3> QED  BY <3>3, <3>5, <3>7
  <2>6. ASSUME NEW i \in 1 .. n + 1 PROVE tt[i] = Append(ss, own[c])[i]
    <3>1. CASE i = n + 1
      BY <3>1, <1>1, <2>2, <2>4
    <3>2. CASE i # n + 1
      <4>1. i \in 1 .. n
        BY <1>1, <3>2
      <4> QED  BY <4>1, <1>1, <2>1, <2>2, <2>4
    <3> QED  BY <3>1, <3>2
  <2> QED  BY <2>4, <2>5, <2>6, SeqEqual
<1>5. own[c] \in Seq(S) /\ ss \in Seq(Seq(S))
  BY <1>3 DEF T
<1> HIDE DEF ss, tt
<1>6. FlattenSeq(ss) \in Seq(S) /\ FlattenSeq(tt) = FlattenSeq(ss) \o own[c]
  BY <1>4, <1>5, FlattenAppend
<1> QED  BY <1>6 DEF Along, ss, tt, e

-----------------------------------------------------------------------------
(* The expansion: what is left of it *)

\* p is the selection that each frame but the first was made for.
KidsAt(doc, op, p, j) == IF j = 1 THEN op.kids ELSE Children(doc, p[j - 1])

\* A way down that is not met yet: it leaves p for a selection to be done.
Remaining(fr, p, d) ==
  \E j \in 1 .. Len(fr) :
    /\ j <= Len(d) /\ d[j] \in Elems(fr[j].todo)
    /\ \A k \in 1 .. j - 1 : d[k] = p[k]

TodoOK(doc, op, fr, p, j) ==
  /\ fr[j].todo \in Seq(Met(doc, op)) /\ Distinct(fr[j].todo)
  /\ Elems(fr[j].todo) \subseteq Elems(KidsAt(doc, op, p, j))
StackOK(doc, op, fr, p) ==
  /\ p \in Seq(Met(doc, op)) /\ Len(fr) = Len(p) + 1
  /\ \A j \in 1 .. Len(fr) : TodoOK(doc, op, fr, p, j)
  /\ \A j \in 1 .. Len(p) :
       p[j] \in Elems(KidsAt(doc, op, p, j)) /\ p[j] \notin Elems(fr[j].todo)

\* The frame on top goes on to its next selection, whose frame is on top of it.
Opens(doc, fr, c, fr2) ==
  /\ Len(fr2) = Len(fr) + 1
  /\ \A j \in 1 .. Len(fr) - 1 : fr2[j].todo = fr[j].todo
  /\ fr2[Len(fr)].todo = Tail(fr[Len(fr)].todo)
  /\ fr2[Len(fr) + 1].todo = Children(doc, c)

Opening(doc, op, fr, p, c, fr2) ==
  /\ Holds(doc, op, Met(doc, op)) /\ StackOK(doc, op, fr, p)
  /\ fr[Len(fr)].todo # <<>> /\ c = Head(fr[Len(fr)].todo) /\ Opens(doc, fr, c, fr2)

\* The children of a selection of the operation.
LEMMA ChildrenThere ==
  ASSUME NEW doc, NEW op, IsDocument(doc), DocumentParses(doc),
         AllReferences(doc) \subseteq FragmentNames(doc), op \in Elems(doc.ops),
         NEW n \in Met(doc, op)
  PROVE  /\ Children(doc, n) \in Seq(Met(doc, op)) /\ Distinct(Children(doc, n))
         /\ n \in DOMAIN doc.sel
         /\ doc.sel[n].k = "spread" => FragmentOf(doc, doc.sel[n].name) \in Elems(doc.frags)
<1>1. /\ n \in DOMAIN doc.sel /\ Elems(Children(doc, n)) \subseteq Met(doc, op)
      /\ doc.sel[n].k = "spread" => doc.sel[n].name \in FragmentNames(doc)
  BY MetClosed DEF Holds
<1>2. doc.sel[n].k = "spread" => FragmentOf(doc, doc.sel[n].name) \in Elems(doc.frags)
  BY <1>1, FragmentThere DEF IsDocument
<1>3. Children(doc, n) \in Seq(DOMAIN doc.sel) /\ Distinct(Children(doc, n))
  BY <1>1, <1>2 DEF Children, IsDocument
<1> QED  BY <1>1, <1>2, <1>3, SeqNarrow

\* The first member of a sequence without repetition, and the others.
LEMMA FirstAndRest ==
  ASSUME NEW M, NEW s \in Seq(M), s # <<>>, Distinct(s)
  PROVE  /\ Head(s) \in M /\ Head(s) \in Elems(s)
         /\ Tail(s) \in Seq(M) /\ Distinct(Tail(s))
         /\ Elems(Tail(s)) \subseteq Elems(s) /\ Head(s) \notin Elems(Tail(s))
         /\ Elems(s) \subseteq Elems(Tail(s)) \cup {Head(s)}
<1> DEFINE L == Len(s)
           t == Tail(s)
<1>1. L \in Nat /\ L # 0 /\ DOMAIN s = 1 .. L /\ Head(s) = s[1]
  OBVIOUS
<1>2. t \in Seq(M) /\ Len(t) = L - 1 /\ DOMAIN t = 1 .. L - 1 /\ \A i \in 1 .. L - 1 : t[i] = s[i + 1]
  BY <1>1
<1> HIDE DEF t, L
<1>3. 1 \in DOMAIN s /\ Head(s) \in M
  BY <1>1 DEF L
<1>4. Head(s) \in Elems(s)
  BY <1>1, <1>3 DEF Elems
<1>5. ASSUME NEW i \in DOMAIN t PROVE i + 1 \in DOMAIN s /\ t[i] = s[i + 1] /\ i + 1 # 1 /\ i \in Nat
  BY <1>1, <1>2
<1>6. Elems(t) \subseteq Elems(s)
  BY <1>5 DEF Elems
<1>7. Head(s) \notin Elems(t)
  <2> SUFFICES ASSUME NEW i \in DOMAIN t, t[i] = s[1] PROVE FALSE
    BY <1>1 DEF Elems
  <2>1. i + 1 = 1
    BY <1>3, <1>5 DEF Distinct
  <2> QED  BY <2>1, <1>5
<1>8. Distinct(t)
  <2> SUFFICES ASSUME NEW i \in DOMAIN t, NEW j \in DOMAIN t, t[i] = t[j] PROVE i = j
    BY DEF Distinct
  <2>1. i + 1 = j + 1
    BY <1>5 DEF Distinct
  <2> QED  BY <2>1, <1>5
<1>9. Elems(s) \subseteq Elems(t) \cup {Head(s)}
  <2> SUFFICES ASSUME NEW i \in 1 .. L, i # 1 PROVE s[i] \in Elems(t)
    BY <1>1 DEF Elems
  <2>1. i - 1 \in 1 .. L - 1 /\ (i - 1) + 1 = i
    BY <1>1
  <2>2. i - 1 \in DOMAIN t /\ t[i - 1] = s[i]
    BY <2>1, <1>2
  <2> QED  BY <2>2 DEF Elems
<1> QED  BY <1>2, <1>3, <1>4, <1>6, <1>7, <1>8, <1>9 DEF t

\* p itself is a way, and so is p with a selection that is left.
LEMMA OpenedWay ==
  ASSUME NEW doc, NEW op, Holds(doc, op, Met(doc, op)), NEW fr, NEW p, StackOK(doc, op, fr, p),
         NEW c \in Elems(fr[Len(fr)].todo)
  PROVE  /\ IsWay(doc, op, Append(p, c)) /\ Remaining(fr, p, Append(p, c))
         /\ Append(p, c) \in Seq(Met(doc, op)) /\ Len(Append(p, c)) = Len(fr)
         /\ Append(p, c)[Len(fr)] = c /\ c \in Met(doc, op)
         /\ \A k \in 1 .. Len(p) : Append(p, c)[k] = p[k]
<1> DEFINE M == Met(doc, op)
           d == Append(p, c)
           L == Len(fr)
<1>1. p \in Seq(M) /\ L = Len(p) + 1 /\ L \in Nat /\ L >= 1 /\ L \in 1 .. L /\ Len(p) = L - 1
  BY DEF StackOK
<1>2. TodoOK(doc, op, fr, p, L)
  BY <1>1 DEF StackOK
<1>3. c \in M
  BY <1>2 DEF TodoOK, Elems
<1> HIDE DEF M
<1>4. d \in Seq(M) /\ Len(d) = L /\ d[L] = c /\ \A k \in 1 .. Len(p) : d[k] = p[k]
  BY <1>1, <1>3
<1> HIDE DEF d, L
<1>5. ASSUME NEW j \in 1 .. L PROVE d[j] \in Elems(KidsAt(doc, op, p, j))
  <2>1. CASE j = L
    BY <1>2, <1>4, <2>1 DEF TodoOK, L
  <2>2. CASE j # L
    <3>1. j \in 1 .. Len(p)
      BY <1>1, <2>2
    <3> QED  BY <3>1, <1>4 DEF StackOK
  <2> QED  BY <2>1, <2>2
<1>6. IsWay(doc, op, d)
  <2>1. d # <<>>
    BY <1>1, <1>4
  <2>2. d[1] \in Elems(op.kids)
    <3>1. 1 \in 1 .. L
      BY <1>1
    <3> QED  BY <1>5, <3>1 DEF KidsAt
  <2>3. ASSUME NEW j \in 1 .. Len(d) - 1 PROVE d[j + 1] \in Elems(Children(doc, d[j]))
    <3>1. j + 1 \in 1 .. L /\ j + 1 # 1 /\ (j + 1) - 1 = j /\ j \in 1 .. Len(p)
      BY <1>1, <1>4
    <3>2. d[j + 1] \in Elems(Children(doc, p[j]))
      BY <1>5, <3>1 DEF KidsAt
    <3> QED  BY <3>1, <3>2, <1>4
  <2> QED  BY <1>4, <2>1, <2>2, <2>3 DEF IsWay, M
<1>7. Remaining(fr, p, d)
  <2>1. \A k \in 1 .. L - 1 : d[k] = p[k]
    BY <1>1, <1>4
  <2>2. L \in 1 .. Len(fr) /\ L <= Len(d) /\ d[L] \in Elems(fr[L].todo)
    BY <1>1, <1>4 DEF L
  <2> QED  BY <2>1, <2>2 DEF Remaining
<1> QED  BY <1>3, <1>4, <1>6, <1>7 DEF d, L, M

\* A frame is opened: one way fewer remains.
LEMMA RemainingFewer ==
  ASSUME NEW doc, NEW op, NEW fr, NEW p, NEW c, NEW fr2, Opening(doc, op, fr, p, c, fr2),
         NEW d, IsWay(doc, op, d)
  PROVE  Remaining(fr2, Append(p, c), d) <=> Remaining(fr, p, d) /\ d # Append(p, c)
<1> DEFINE M == Met(doc, op)
           L == Len(fr)
           e == Append(p, c)
           todo == fr[L].todo
<1>0. /\ Holds(doc, op, Met(doc, op)) /\ StackOK(doc, op, fr, p)
      /\ todo # <<>> /\ c = Head(todo) /\ Opens(doc, fr, c, fr2)
  BY DEF Opening
<1>1. p \in Seq(M) /\ L = Len(p) + 1 /\ L \in Nat /\ L >= 1 /\ L \in 1 .. L
  BY <1>0 DEF StackOK
<1>2. todo \in Seq(M) /\ Distinct(todo) /\ todo # <<>>
  BY <1>0, <1>1 DEF StackOK, TodoOK
<1>3. /\ c \in Elems(todo) /\ c \in M /\ c \notin Elems(Tail(todo))
      /\ Elems(Tail(todo)) \subseteq Elems(todo) /\ Elems(todo) \subseteq Elems(Tail(todo)) \cup {c}
  BY <1>0, <1>2, FirstAndRest
<1>4. e \in Seq(M) /\ Len(e) = L /\ e[L] = c /\ \A k \in 1 .. L - 1 : e[k] = p[k]
  BY <1>0, <1>1, <1>3, OpenedWay
<1>5. /\ Len(fr2) = L + 1 /\ \A j \in 1 .. L - 1 : fr2[j].todo = fr[j].todo
      /\ fr2[L].todo = Tail(todo) /\ fr2[L + 1].todo = Children(doc, c)
  BY <1>0 DEF Opens
<1>6. d \in Seq(M) /\ Len(d) \in Nat /\ \A j \in 1 .. Len(d) - 1 : d[j + 1] \in Elems(Children(doc, d[j]))
  BY DEF IsWay
<1>7. \A j \in 1 .. Len(p) : p[j] \notin Elems(fr[j].todo)
  BY <1>0 DEF StackOK
<1> HIDE DEF M, L, e, todo
<1>8. ASSUME Remaining(fr, p, d), d # e PROVE Remaining(fr2, e, d)
  <2>1. PICK j \in 1 .. L : /\ j <= Len(d) /\ d[j] \in Elems(fr[j].todo)
                            /\ \A k \in 1 .. j - 1 : d[k] = p[k]
    BY <1>8 DEF Remaining, L
  <2>2. \A k \in 1 .. j - 1 : d[k] = e[k]
    BY <1>1, <1>4, <2>1
  <2>3. CASE j # L \/ d[j] \in Elems(Tail(todo))
    <3>0. j \in 1 .. L + 1 /\ (j # L => j \in 1 .. L - 1)
      BY <1>1
    <3>1. d[j] \in Elems(fr2[j].todo) /\ j \in 1 .. L + 1
      <4>1. CASE j # L
        BY <1>5, <2>1, <3>0, <4>1
      <4>2. CASE j = L
        BY <1>5, <2>3, <3>0, <4>2
      <4> QED  BY <4>1, <4>2
    <3> QED  BY <1>5, <2>1, <2>2, <3>1 DEF Remaining
  <2>4. CASE j = L /\ d[j] \notin Elems(Tail(todo))
    <3>1. d[L] = c
      BY <1>3, <2>1, <2>4 DEF todo
    <3>2. \A k \in 1 .. L : d[k] = e[k]
      BY <1>1, <1>4, <2>2, <2>4, <3>1
    <3>3. Len(d) # L
      BY <1>4, <1>6, <1>8, <3>2, SeqEqual
    <3>4. L + 1 \in 1 .. L + 1 /\ L + 1 <= Len(d) /\ L \in 1 .. Len(d) - 1 /\ (L + 1) - 1 = L
      BY <1>1, <1>6, <2>1, <2>4, <3>3
    <3>5. d[L + 1] \in Elems(fr2[L + 1].todo)
      BY <1>5, <1>6, <3>1, <3>4
    <3>6. \A k \in 1 .. (L + 1) - 1 : d[k] = e[k]
      BY <3>2, <3>4
    <3> QED  BY <1>5, <3>4, <3>5, <3>6 DEF Remaining
  <2> QED  BY <2>3, <2>4
<1>9. ASSUME Remaining(fr2, e, d) PROVE Remaining(fr, p, d) /\ d # e
  <2>1. PICK j \in 1 .. L + 1 : /\ j <= Len(d) /\ d[j] \in Elems(fr2[j].todo)
                                /\ \A k \in 1 .. j - 1 : d[k] = e[k]
    BY <1>5, <1>9 DEF Remaining
  <2>2. CASE j \in 1 .. L
    <3>1. \A k \in 1 .. j - 1 : d[k] = p[k]
      BY <1>1, <1>4, <2>1, <2>2
    <3>2. d[j] \in Elems(fr[j].todo)
      <4>1. CASE j = L
        BY <1>3, <1>5, <2>1, <4>1 DEF todo
      <4>2. CASE j # L
        <5>1. j \in 1 .. L - 1
          BY <1>1, <2>2, <4>2
        <5> QED  BY <1>5, <2>1, <5>1
      <4> QED  BY <4>1, <4>2
    <3>3. Remaining(fr, p, d)
      BY <2>1, <2>2, <3>1, <3>2 DEF Remaining, L
    <3>4. d # e
      <4> SUFFICES ASSUME d = e PROVE FALSE
        OBVIOUS
      <4>1. CASE j = L
        BY <1>3, <1>4, <1>5, <2>1, <4>1
      <4>2. CASE j # L
        <5>1. j \in 1 .. L - 1 /\ j \in 1 .. Len(p)
          BY <1>1, <2>2, <4>2
        <5> QED  BY <1>4, <1>7, <3>2, <5>1
      <4> QED  BY <4>1, <4>2
    <3> QED  BY <3>3, <3>4
  <2>3. CASE j = L + 1
    <3>1. d[L] = c /\ \A k \in 1 .. L - 1 : d[k] = p[k]
      BY <1>1, <1>4, <2>1, <2>3
    <3>2. L \in 1 .. Len(fr) /\ L <= Len(d) /\ d[L] \in Elems(fr[L].todo)
      BY <1>1, <1>3, <1>6, <2>1, <2>3, <3>1 DEF L, todo
    <3>3. Remaining(fr, p, d)
      BY <3>1, <3>2 DEF Remaining
    <3>4. d # e
      BY <1>1, <1>4, <1>6, <2>1, <2>3
    <3> QED  BY <3>3, <3>4
  <2> QED  BY <1>1, <2>1, <2>2, <2>3
<1> QED  BY <1>8, <1>9 DEF e

LEMMA StackOpens ==
  ASSUME NEW doc, NEW op, NEW fr, NEW p, NEW c, NEW fr2, Opening(doc, op, fr, p, c, fr2),
         Children(doc, c) \in Seq(Met(doc, op)), Distinct(Children(doc, c))
  PROVE  StackOK(doc, op, fr2, Append(p, c))
<1> DEFINE M == Met(doc, op)
           L == Len(fr)
           e == Append(p, c)
           todo == fr[L].todo
<1>0. /\ Holds(doc, op, Met(doc, op)) /\ StackOK(doc, op, fr, p)
      /\ todo # <<>> /\ c = Head(todo) /\ Opens(doc, fr, c, fr2)
  BY DEF Opening
<1>1. p \in Seq(M) /\ L = Len(p) + 1 /\ L \in Nat /\ L >= 1 /\ L \in 1 .. L
  BY <1>0 DEF StackOK
<1>2. TodoOK(doc, op, fr, p, L) /\ todo \in Seq(M) /\ Distinct(todo) /\ todo # <<>>
  BY <1>0, <1>1 DEF StackOK, TodoOK
<1>3. /\ c \in Elems(todo) /\ c \in M /\ c \notin Elems(Tail(todo))
      /\ Tail(todo) \in Seq(M) /\ Distinct(Tail(todo)) /\ Elems(Tail(todo)) \subseteq Elems(todo)
  BY <1>0, <1>2, FirstAndRest
<1>4. e \in Seq(M) /\ Len(e) = L /\ e[L] = c /\ \A k \in 1 .. L - 1 : e[k] = p[k]
  BY <1>0, <1>1, <1>3, OpenedWay
<1>5. /\ Len(fr2) = L + 1 /\ \A j \in 1 .. L - 1 : fr2[j].todo = fr[j].todo
      /\ fr2[L].todo = Tail(todo) /\ fr2[L + 1].todo = Children(doc, c)
  BY <1>0 DEF Opens
<1> HIDE DEF L, e, todo
<1>6. ASSUME NEW j \in 1 .. L PROVE KidsAt(doc, op, e, j) = KidsAt(doc, op, p, j)
  <2>1. CASE j = 1
    BY <2>1 DEF KidsAt
  <2>2. CASE j # 1
    <3>1. j - 1 \in 1 .. L - 1
      BY <1>1, <2>2
    <3> QED  BY <1>4, <2>2, <3>1 DEF KidsAt
  <2> QED  BY <2>1, <2>2
<1>7. KidsAt(doc, op, e, L + 1) = Children(doc, c)
  <2>1. L + 1 # 1 /\ (L + 1) - 1 = L
    BY <1>1
  <2> QED  BY <1>4, <2>1 DEF KidsAt
<1>8. ASSUME NEW j \in 1 .. L + 1 PROVE TodoOK(doc, op, fr2, e, j)
  <2>1. CASE j = L + 1
    BY <1>5, <1>7, <2>1 DEF TodoOK
  <2>2. CASE j = L
    <3>1. Elems(Tail(todo)) \subseteq Elems(KidsAt(doc, op, p, L))
      BY <1>2, <1>3 DEF TodoOK, todo
    <3> QED  BY <1>1, <1>3, <1>5, <1>6, <2>2, <3>1 DEF TodoOK
  <2>3. CASE j \in 1 .. L - 1
    <3>1. j \in 1 .. L
      BY <1>1, <2>3
    <3>2. TodoOK(doc, op, fr, p, j)
      BY <1>0, <3>1 DEF StackOK, L
    <3> QED  BY <1>5, <1>6, <2>3, <3>1, <3>2 DEF TodoOK
  <2> QED  BY <1>1, <2>1, <2>2, <2>3
<1>9. ASSUME NEW j \in 1 .. Len(e)
      PROVE  e[j] \in Elems(KidsAt(doc, op, e, j)) /\ e[j] \notin Elems(fr2[j].todo)
  <2>0. j \in 1 .. L
    BY <1>4
  <2>1. CASE j = L
    <3>1. c \in Elems(KidsAt(doc, op, p, L))
      BY <1>2, <1>3 DEF TodoOK, todo
    <3> QED  BY <1>3, <1>4, <1>5, <1>6, <2>0, <2>1, <3>1
  <2>2. CASE j # L
    <3>1. j \in 1 .. Len(p) /\ j \in 1 .. L - 1
      BY <1>1, <2>0, <2>2
    <3>2. p[j] \in Elems(KidsAt(doc, op, p, j)) /\ p[j] \notin Elems(fr[j].todo)
      BY <1>0, <3>1 DEF StackOK
    <3> QED  BY <1>4, <1>5, <1>6, <2>0, <3>1, <3>2
  <2> QED  BY <2>1, <2>2
<1>10. Len(fr2) = Len(e) + 1
  BY <1>4, <1>5
<1> QED  BY <1>4, <1>5, <1>8, <1>9, <1>10 DEF StackOK, e

LEMMA PopParts ==
  ASSUME NEW S, NEW s \in Seq(S), s # <<>>
  PROVE  /\ Pop(s) \in Seq(S) /\ Len(Pop(s)) = Len(s) - 1 /\ Len(s) \in Nat \ {0}
         /\ \A j \in 1 .. Len(s) - 1 : Pop(s)[j] = s[j]
<1>1. Len(s) \in Nat \ {0}
  OBVIOUS
<1>2. /\ 1 \in 1 .. Len(s) + 1 /\ Len(s) - 1 \in 0 .. Len(s) /\ Len(s) - 1 \in Nat
      /\ 1 \in Int
  BY <1>1
<1>3. Pop(s) = [j \in 1 .. Len(s) - 1 |-> s[j]]
  BY <1>1 DEF Pop
<1>4. \A j \in 1 .. Len(s) - 1 : s[j] \in S
  BY <1>1
<1> QED  BY <1>1, <1>2, <1>3, <1>4

\* The frame on top is done.
LEMMA StackReturns ==
  ASSUME NEW doc, NEW op, NEW F, NEW fr \in Seq(F), NEW p, StackOK(doc, op, fr, p), Len(fr) # 1,
         fr # <<>>, fr[Len(fr)].todo = <<>>
  PROVE  /\ StackOK(doc, op, Pop(fr), Pop(p))
         /\ \A d : Remaining(Pop(fr), Pop(p), d) <=> Remaining(fr, p, d)
<1> DEFINE M == Met(doc, op)
           L == Len(fr)
           fr2 == Pop(fr)
           q == Pop(p)
<1>1. p \in Seq(M) /\ L = Len(p) + 1 /\ L \in Nat /\ L > 1
  BY DEF StackOK
<1> HIDE DEF M
<1>2. Len(fr2) = L - 1 /\ \A j \in 1 .. L - 1 : fr2[j] = fr[j]
  BY PopParts
<1>3. q \in Seq(M) /\ Len(q) = L - 2 /\ \A j \in 1 .. L - 2 : q[j] = p[j]
  <2>1. p # <<>> /\ Len(p) - 1 = L - 2
    BY <1>1
  <2> QED  BY <1>1, <2>1, PopParts, Zenon
<1> HIDE DEF L, fr2, q
<1>4. ASSUME NEW j \in 1 .. L - 1 PROVE KidsAt(doc, op, q, j) = KidsAt(doc, op, p, j)
  <2>1. CASE j = 1
    BY <2>1 DEF KidsAt
  <2>2. CASE j # 1
    <3>1. j - 1 \in 1 .. L - 2
      BY <1>1, <2>2
    <3> QED  BY <1>3, <2>2, <3>1 DEF KidsAt
  <2> QED  BY <2>1, <2>2
<1>5. StackOK(doc, op, fr2, q)
  <2>1. Len(fr2) = Len(q) + 1
    BY <1>1, <1>2, <1>3
  <2>2. ASSUME NEW j \in 1 .. Len(fr2) PROVE TodoOK(doc, op, fr2, q, j)
    <3>1. j \in 1 .. L /\ j \in 1 .. L - 1
      BY <1>1, <1>2
    <3>2. TodoOK(doc, op, fr, p, j)
      BY <3>1 DEF StackOK, L
    <3> QED  BY <1>2, <1>4, <3>1, <3>2 DEF TodoOK
  <2>3. ASSUME NEW j \in 1 .. Len(q)
        PROVE  q[j] \in Elems(KidsAt(doc, op, q, j)) /\ q[j] \notin Elems(fr2[j].todo)
    <3>1. j \in 1 .. L - 1 /\ j \in 1 .. Len(p) /\ j \in 1 .. L - 2
      BY <1>1, <1>3
    <3>2. p[j] \in Elems(KidsAt(doc, op, p, j)) /\ p[j] \notin Elems(fr[j].todo)
      BY <3>1 DEF StackOK
    <3> QED  BY <1>2, <1>3, <1>4, <3>1, <3>2
  <2> QED  BY <1>3, <2>1, <2>2, <2>3 DEF StackOK, M
<1>6. ASSUME NEW d, Remaining(fr2, q, d) PROVE Remaining(fr, p, d)
  <2>1. PICK j \in 1 .. L - 1 : /\ j <= Len(d) /\ d[j] \in Elems(fr2[j].todo)
                                /\ \A k \in 1 .. j - 1 : d[k] = q[k]
    BY <1>2, <1>6 DEF Remaining
  <2>2. j \in 1 .. L /\ \A k \in 1 .. j - 1 : k \in 1 .. L - 2
    BY <1>1
  <2>3. d[j] \in Elems(fr[j].todo) /\ \A k \in 1 .. j - 1 : d[k] = p[k]
    BY <1>2, <1>3, <2>1, <2>2
  <2> QED  BY <2>1, <2>2, <2>3 DEF Remaining, L
<1>7. ASSUME NEW d, Remaining(fr, p, d) PROVE Remaining(fr2, q, d)
  <2>1. PICK j \in 1 .. L : /\ j <= Len(d) /\ d[j] \in Elems(fr[j].todo)
                            /\ \A k \in 1 .. j - 1 : d[k] = p[k]
    BY <1>7 DEF Remaining, L
  <2>2. j # L
    BY <2>1 DEF L, Elems
  <2>3. j \in 1 .. L - 1 /\ \A k \in 1 .. j - 1 : k \in 1 .. L - 2
    BY <1>1, <2>2
  <2>4. d[j] \in Elems(fr2[j].todo) /\ \A k \in 1 .. j - 1 : d[k] = q[k]
    BY <1>2, <1>3, <2>1, <2>3
  <2> QED  BY <1>2, <2>1, <2>3, <2>4 DEF Remaining
<1> QED  BY <1>5, <1>6, <1>7 DEF fr2, q

-----------------------------------------------------------------------------
(* The expansion: what a way down stands for *)

LEMMA Sequences ==
  ASSUME NEW s, NEW t, NEW u, NEW x, IsSequence(s), IsSequence(t), IsSequence(u)
  PROVE  /\ IsSequence(s \o t) /\ (s \o t) \o u = s \o (t \o u)
         /\ IsSequence(Append(t, x)) /\ Append(s \o t, x) = s \o Append(t, x)
         /\ s \o <<>> = s /\ <<>> \o s = s
         /\ IsSequence(<<>>) /\ IsSequence(<<x>>)
<1> DEFINE S == Elems(s) \cup Elems(t) \cup Elems(u) \cup {x}
<1>1. s \in Seq(S) /\ t \in Seq(S) /\ u \in Seq(S) /\ x \in S
  BY SeqMonotonic DEF IsSequence
<1> HIDE DEF S
<1>2. ASSUME NEW r \in Seq(S) PROVE IsSequence(r)
  BY SeqNarrow DEF IsSequence
<1>3. s \o t \in Seq(S) /\ Append(t, x) \in Seq(S) /\ <<>> \in Seq(S) /\ <<x>> \in Seq(S)
  BY <1>1
<1>4. (s \o t) \o u = s \o (t \o u)
  BY <1>1, ConcatAssociative
<1>5. s \o <<>> = s /\ <<>> \o s = s
  BY <1>1, ConcatEmptySeq
<1>6. Append(s \o t, x) = s \o Append(t, x)
  <2>1. \A r \in Seq(S) : Append(r, x) = r \o <<x>>
    BY <1>1, AppendIsConcat
  <2>2. (s \o t) \o <<x>> = s \o (t \o <<x>>)
    BY <1>1, <1>3, ConcatAssociative
  <2> QED  BY <1>1, <1>3, <2>1, <2>2
<1> QED  BY <1>2, <1>3, <1>4, <1>5, <1>6

LEMMA SmallSequences ==
  /\ IsSequence(<<>>)
  /\ \A x : IsSequence(<<x>>)
  /\ \A s, x : IsSequence(s) => IsSequence(Append(s, x))
  /\ \A s, t : IsSequence(s) /\ IsSequence(t) => IsSequence(s \o t)
<1>1. IsSequence(<<>>)
  BY DEF IsSequence
<1>2. ASSUME NEW s, NEW x, IsSequence(s) PROVE IsSequence(Append(s, x)) /\ IsSequence(<<x>>)
  BY <1>2, Sequences
<1>3. ASSUME NEW s, NEW t, IsSequence(s), IsSequence(t) PROVE IsSequence(s \o t)
  BY <1>3, Sequences
<1> QED  BY <1>1, <1>2, <1>3

Named(doc, op) ==
  [n \in Met(doc, op) |->
     IF doc.sel[n].k = "field" THEN <<ResponseName(doc.sel[n])>> ELSE <<>>]

\* The conditions of directives, of a selection and of all on a way.
Conds(values, dirs) ==
  [i \in DOMAIN dirs |->
     [kind |-> "directive", name |-> dirs[i].name, args |-> ResolveArgs(values, dirs[i].args)]]
Extra(doc, values, n) ==
  LET s == doc.sel[n]
      fragment == FragmentOf(doc, s.name)
  IN IF s.k = "inline" /\ s.on # None THEN <<TypeCondition(s.on)>>
     ELSE IF s.k = "spread"
     THEN Append(Conds(values, fragment.dirs), FragmentCondition(fragment))
     ELSE <<>>
Owned(doc, op, values) ==
  [n \in Met(doc, op) |-> Conds(values, doc.sel[n].dirs) \o Extra(doc, values, n)]

PathOf(doc, op, d) == Along(Named(doc, op), d)
CondsOf(doc, op, values, d) == Conds(values, op.dirs) \o Along(Owned(doc, op, values), d)
ViewOf(doc, op, values, d) ==
  [field |-> doc.sel[Top(d)].name, path |-> PathOf(doc, op, d),
   args |-> ResolveArgs(values, doc.sel[Top(d)].args), conditions |-> CondsOf(doc, op, values, d)]

LEMMA CondsSequence ==
  ASSUME NEW values, NEW dirs, IsSequence(dirs)
  PROVE  IsSequence(Conds(values, dirs))
<1> DEFINE c == Conds(values, dirs)
           n == Len(dirs)
<1>1. n \in Nat /\ DOMAIN dirs = 1 .. n
  BY DEF IsSequence
<1>2. DOMAIN c = 1 .. n /\ c = [i \in 1 .. n |-> c[i]]
  BY <1>1 DEF Conds
<1> HIDE DEF c, n
<1>3. c \in [1 .. n -> Elems(c)]
  BY <1>2 DEF Elems
<1> QED  BY <1>1, <1>3 DEF IsSequence, c

\* A document whose operation is expanded.
Fit(doc, op) ==
  /\ IsDocument(doc) /\ DocumentParses(doc)
  /\ AllReferences(doc) \subseteq FragmentNames(doc) /\ op \in Elems(doc.ops)

LEMMA ExtraSequence ==
  ASSUME NEW doc, NEW op, NEW values, Fit(doc, op), NEW n \in Met(doc, op)
  PROVE  /\ IsSequence(Extra(doc, values, n)) /\ IsSequence(Conds(values, doc.sel[n].dirs))
         /\ doc.sel[n].k = "spread" =>
              IsSequence(Conds(values, FragmentOf(doc, doc.sel[n].name).dirs))
<1>1. n \in DOMAIN doc.sel /\ (doc.sel[n].k = "spread" => FragmentOf(doc, doc.sel[n].name) \in Elems(doc.frags))
  BY ChildrenThere DEF Fit
<1>2. doc.sel[n].k = "spread" => IsSequence(Conds(values, FragmentOf(doc, doc.sel[n].name).dirs))
  BY <1>1, CondsSequence DEF Fit, IsDocument
<1>3. IsSequence(Conds(values, doc.sel[n].dirs))
  BY <1>1, CondsSequence DEF Fit, IsDocument
<1>4. IsSequence(Extra(doc, values, n))
  BY <1>2, SmallSequences DEF Extra
<1> QED  BY <1>2, <1>3, <1>4

LEMMA AddsUp ==
  ASSUME NEW M, NEW own, \A n \in M : IsSequence(own[n]),
         NEW d \in Seq(M)
  PROVE  /\ IsSequence(Along(own, d))
         /\ \A c \in M : Along(own, Append(d, c)) = Along(own, d) \o own[c]
<1> DEFINE S == UNION {Elems(own[n]) : n \in M}
<1>1. ASSUME NEW n \in M PROVE own[n] \in Seq(S)
  <2>1. Elems(own[n]) \subseteq S
    OBVIOUS
  <2> QED  BY <2>1, SeqMonotonic DEF IsSequence
<1> HIDE DEF S
<1>3. ASSUME NEW c \in M
      PROVE  Along(own, d) \in Seq(S) /\ Along(own, Append(d, c)) = Along(own, d) \o own[c]
  BY <1>1, AlongAppend
<1>4. CASE M = {}
  <2>1. d = <<>>
    BY <1>4
  <2> QED  BY <1>4, <2>1, AlongEmpty, SmallSequences
<1>5. CASE M # {}
  <2>1. Along(own, d) \in Seq(S)
    BY <1>3, <1>5
  <2> QED  BY <1>3, <2>1, SeqNarrow DEF IsSequence
<1> QED  BY <1>4, <1>5

\* One selection further down.
LEMMA OneFurther ==
  ASSUME NEW doc, NEW op, NEW values, Fit(doc, op), NEW d \in Seq(Met(doc, op)), NEW c \in Met(doc, op)
  PROVE  LET s == doc.sel[c]
             own == Conds(values, s.dirs)
         IN /\ IsSequence(PathOf(doc, op, d)) /\ IsSequence(CondsOf(doc, op, values, d))
            /\ PathOf(doc, op, Append(d, c)) =
                 IF s.k = "field" THEN Append(PathOf(doc, op, d), ResponseName(s))
                 ELSE PathOf(doc, op, d)
            /\ CondsOf(doc, op, values, Append(d, c)) =
                 (CondsOf(doc, op, values, d) \o own) \o Extra(doc, values, c)
<1> DEFINE M == Met(doc, op)
           s == doc.sel[c]
           named == Named(doc, op)
           owned == Owned(doc, op, values)
           first == Conds(values, op.dirs)
           own == Conds(values, s.dirs)
           extra == Extra(doc, values, c)
<1>1. IsSequence(first)
  BY CondsSequence DEF Fit, IsDocument
<1>2. IsSequence(own) /\ IsSequence(extra)
  BY ExtraSequence
<1>3. \A n \in M : IsSequence(named[n])
  BY SmallSequences DEF Named
<1>4. \A n \in M : IsSequence(owned[n])
  <2>1. \A n \in M : owned[n] = Conds(values, doc.sel[n].dirs) \o Extra(doc, values, n)
    BY DEF Owned
  <2> QED  BY <2>1, ExtraSequence, SmallSequences DEF M
<1>5. owned[c] = own \o extra /\ named[c] = IF s.k = "field" THEN <<ResponseName(s)>> ELSE <<>>
  BY DEF Owned, Named
<1> HIDE DEF M, named, owned, first, own, extra
<1>6. /\ IsSequence(Along(named, d)) /\ Along(named, Append(d, c)) = Along(named, d) \o named[c]
      /\ IsSequence(Along(owned, d)) /\ Along(owned, Append(d, c)) = Along(owned, d) \o owned[c]
  <2>1. d \in Seq(M) /\ c \in M
    BY DEF M
  <2>2. IsSequence(Along(named, d)) /\ Along(named, Append(d, c)) = Along(named, d) \o named[c]
    BY ONLY <1>3, <2>1, AddsUp
  <2>3. IsSequence(Along(owned, d)) /\ Along(owned, Append(d, c)) = Along(owned, d) \o owned[c]
    BY ONLY <1>4, <2>1, AddsUp
  <2> QED  BY <2>2, <2>3
<1> DEFINE path == Along(named, d)
           conds == Along(owned, d)
<1> HIDE DEF path, conds
<1>7. path \o named[c] = IF s.k = "field" THEN Append(path, ResponseName(s)) ELSE path
  <2>1. path \o <<>> = path /\ path \o <<ResponseName(s)>> = Append(path, ResponseName(s))
    BY <1>6, Sequences, AppendIsConcat DEF path, IsSequence
  <2> QED  BY <1>5, <2>1
<1>8. first \o (conds \o (own \o extra)) = ((first \o conds) \o own) \o extra
  <2>1. IsSequence(first \o conds) /\ IsSequence(conds \o own)
    BY <1>1, <1>2, <1>6, Sequences DEF conds
  <2>2. conds \o (own \o extra) = (conds \o own) \o extra
    BY <1>1, <1>2, <1>6, Sequences DEF conds
  <2>3. first \o ((conds \o own) \o extra) = (first \o (conds \o own)) \o extra
    BY <1>1, <1>2, <2>1, Sequences
  <2>4. first \o (conds \o own) = (first \o conds) \o own
    BY <1>1, <1>2, <1>6, Sequences DEF conds
  <2> QED  BY <2>2, <2>3, <2>4
<1>9. IsSequence(first \o conds)
  BY <1>1, <1>6, Sequences DEF conds
<1> QED  BY <1>5, <1>6, <1>7, <1>8, <1>9, Zenon DEF PathOf, CondsOf, named, owned, path, conds, first, own, extra

-----------------------------------------------------------------------------
(* The expansion: what is done of it *)

Prefix(p, k) == [i \in 1 .. k |-> p[i]]

\* A frame is for the way to it, and its parent is the last field on that way.
FrameOK(doc, op, values, fields, f, q) ==
  /\ f = [todo |-> f.todo, parent |-> f.parent, path |-> f.path, conditions |-> f.conditions]
  /\ f.path = PathOf(doc, op, q) /\ f.conditions = CondsOf(doc, op, values, q)
  /\ IF f.path = <<>> THEN f.parent = 0
     ELSE f.parent \in 1 .. Len(fields) /\ fields[f.parent].path = f.path
FramesOK(doc, op, values, fr, fields, p) ==
  \A j \in 1 .. Len(fr) : FrameOK(doc, op, values, fields, fr[j], Prefix(p, j - 1))

\* Field i stands for the way b[i].
ShownAs(f) == [field |-> f.field, path |-> f.path, args |-> f.args, conditions |-> f.conditions]
ParentOK(fields, i) ==
  LET f == fields[i]
  IN IF Len(f.path) = 1 THEN f.parent = 0
     ELSE f.parent \in 1 .. i - 1 /\ fields[f.parent].path = Pop(f.path)
FieldsOK(doc, op, values, fields, b) ==
  /\ IsSequence(fields) /\ IsSequence(b) /\ Len(fields) = Len(b)
  /\ \A i \in 1 .. Len(b) :
       ShownAs(fields[i]) = ViewOf(doc, op, values, b[i]) /\ ParentOK(fields, i)

\* b lists, once each, the fields on the ways that do not remain.
Done(doc, op, fr, p, d) == IsWay(doc, op, d) /\ ~Remaining(fr, p, d)
IsFieldWay(doc, d) == doc.sel[Top(d)].k = "field"
Covers(doc, op, fr, p, b) ==
  Distinct(b) /\ \A d : d \in Elems(b) <=> Done(doc, op, fr, p, d) /\ IsFieldWay(doc, d)
DeepOK(doc, op, fr, p) == \A d : Done(doc, op, fr, p, d) => Len(d) <= MaxDepth

Expanding(doc, op, values, fr, fields, p, b) ==
  /\ IsSequence(fr) /\ StackOK(doc, op, fr, p)
  /\ FramesOK(doc, op, values, fr, fields, p) /\ FieldsOK(doc, op, values, fields, b)
  /\ Covers(doc, op, fr, p, b) /\ DeepOK(doc, op, fr, p)

LEMMA PrefixFacts ==
  ASSUME NEW M, NEW p \in Seq(M), NEW c \in M
  PROVE  /\ Prefix(p, Len(p)) = p
         /\ \A k \in 0 .. Len(p) : Prefix(Append(p, c), k) = Prefix(p, k)
<1>1. Len(p) \in Nat /\ \A i \in 1 .. Len(p) : Append(p, c)[i] = p[i]
  BY AppendProperties
<1>2. Prefix(p, Len(p)) = p
  BY DEF Prefix
<1>3. ASSUME NEW k \in 0 .. Len(p) PROVE Prefix(Append(p, c), k) = Prefix(p, k)
  <2>1. \A i \in 1 .. k : Append(p, c)[i] = p[i]
    BY <1>1
  <2> QED  BY <2>1 DEF Prefix
<1> QED  BY <1>2, <1>3

\* The frame on top goes on, and f is put on it.
Onward(f) == [f EXCEPT !.todo = Tail(@)]
Pushed(fr, f) == Append([fr EXCEPT ![Len(fr)].todo = Tail(@)], f)

LEMMA FramesAfter ==
  ASSUME NEW fr, IsSequence(fr), fr # <<>>, NEW f, NEW fr2,
         fr2 = Pushed(fr, f)
  PROVE  /\ IsSequence(fr2) /\ Len(fr2) = Len(fr) + 1 /\ Len(fr) \in Nat \ {0}
         /\ \A j \in 1 .. Len(fr) - 1 : fr2[j] = fr[j]
         /\ fr2[Len(fr)] = Onward(fr[Len(fr)])
         /\ fr2[Len(fr) + 1] = f
<1> DEFINE L == Len(fr)
           top == [fr[L] EXCEPT !.todo = Tail(@)]
           S == Elems(fr) \cup {top, f}
           mid == [fr EXCEPT ![L] = top]
<1>1. fr \in Seq(S) /\ top \in S /\ f \in S
  BY SeqMonotonic DEF IsSequence
<1>2. L \in Nat \ {0} /\ L \in 1 .. L
  BY DEF IsSequence
<1>3. fr2 = Append(mid, f)
  BY DEF Pushed
<1> HIDE DEF top, S
<1>4. mid \in Seq(S) /\ Len(mid) = L /\ \A j \in 1 .. L : mid[j] = IF j = L THEN top ELSE fr[j]
  BY <1>1, <1>2, ExceptSeq
<1> HIDE DEF L, mid
<1>5. fr2 \in Seq(S) /\ Len(fr2) = L + 1 /\ fr2[L + 1] = f /\ \A j \in 1 .. L : fr2[j] = mid[j]
  <2>1. /\ Append(mid, f) \in Seq(S) /\ Len(Append(mid, f)) = Len(mid) + 1
        /\ \A j \in 1 .. Len(mid) : Append(mid, f)[j] = mid[j]
        /\ Append(mid, f)[Len(mid) + 1] = f
    BY <1>1, <1>4, AppendProperties
  <2>2. Append(mid, f)[L + 1] = f /\ \A j \in 1 .. L : Append(mid, f)[j] = mid[j]
    BY <1>4, <2>1
  <2> QED  BY <1>3, <1>4, <2>1, <2>2
<1>6. ASSUME NEW j \in 1 .. L - 1 PROVE fr2[j] = fr[j]
  <2>1. j \in 1 .. L /\ j # L
    BY <1>2
  <2> QED  BY <1>4, <1>5, <2>1
<1>7. fr2[L] = top
  BY <1>2, <1>4, <1>5
<1>8. IsSequence(fr2)
  BY <1>5, SeqNarrow DEF IsSequence
<1> QED  BY <1>2, <1>5, <1>6, <1>7, <1>8 DEF L, top, Onward

LEMMA FrameGrows ==
  ASSUME NEW doc, NEW op, NEW values, NEW fields, NEW f, NEW q, FrameOK(doc, op, values, fields, f, q),
         NEW fields2, Len(fields) \in Nat, Len(fields2) \in Nat, Len(fields) <= Len(fields2),
         \A i \in 1 .. Len(fields) : fields2[i] = fields[i]
  PROVE  FrameOK(doc, op, values, fields2, f, q)
<1>1. ASSUME f.path # <<>> PROVE f.parent \in 1 .. Len(fields2) /\ fields2[f.parent].path = f.path
  <2>1. f.parent \in 1 .. Len(fields) /\ fields[f.parent].path = f.path
    BY <1>1 DEF FrameOK
  <2> QED  BY <2>1
<1> QED  BY <1>1 DEF FrameOK

LEMMA FrameAdvances ==
  ASSUME NEW doc, NEW op, NEW values, NEW fields, NEW f, NEW q, FrameOK(doc, op, values, fields, f, q)
  PROVE  FrameOK(doc, op, values, fields, Onward(f), q) /\ Onward(f).todo = Tail(f.todo)
<1> DEFINE g == Onward(f)
<1>1. g = [todo |-> Tail(f.todo), parent |-> f.parent, path |-> f.path, conditions |-> f.conditions]
  <2>1. PICK t, parent, path, conds :
          f = [todo |-> t, parent |-> parent, path |-> path, conditions |-> conds]
    BY DEF FrameOK
  <2>2. f.todo = t /\ f.parent = parent /\ f.path = path /\ f.conditions = conds
    BY ONLY <2>1
  <2>3. Onward(f) = [todo |-> Tail(t), parent |-> parent, path |-> path, conditions |-> conds]
    <3>1. PICK x : x = Tail(f.todo)
      OBVIOUS
    <3>2. Onward(f) = [f EXCEPT !.todo = x]
      BY ONLY <3>1 DEF Onward
    <3>3. Onward(f) = [todo |-> x, parent |-> parent, path |-> path, conditions |-> conds]
      BY ONLY <2>1, <3>2
    <3> QED  BY ONLY <2>2, <3>1, <3>3
  <2> QED  BY <2>2, <2>3
<1> HIDE DEF g
<1>2. /\ g.todo = Tail(f.todo) /\ g.parent = f.parent /\ g.path = f.path
      /\ g.conditions = f.conditions
  BY <1>1
<1>3. g = [todo |-> g.todo, parent |-> g.parent, path |-> g.path, conditions |-> g.conditions]
  BY <1>1, <1>2
<1> QED  BY <1>2, <1>3 DEF FrameOK, g

\* A frame is opened for selection c.
LEMMA FramesOpen ==
  ASSUME NEW doc, NEW op, NEW values, NEW fr, NEW fields, NEW p,
         IsSequence(fr), StackOK(doc, op, fr, p), FramesOK(doc, op, values, fr, fields, p),
         NEW c \in Met(doc, op), NEW f, NEW fr2,
         fr2 = Pushed(fr, f),
         f.todo = Children(doc, c), NEW fields2,
         Len(fields) \in Nat, Len(fields2) \in Nat, Len(fields) <= Len(fields2),
         \A i \in 1 .. Len(fields) : fields2[i] = fields[i],
         FrameOK(doc, op, values, fields2, f, Append(p, c))
  PROVE  /\ IsSequence(fr2) /\ Opens(doc, fr, c, fr2)
         /\ FramesOK(doc, op, values, fr2, fields2, Append(p, c))
<1> DEFINE L == Len(fr)
           M == Met(doc, op)
           e == Append(p, c)
<1>1. p \in Seq(M) /\ L = Len(p) + 1 /\ Len(p) \in Nat /\ c \in M /\ fr # <<>>
  BY DEF StackOK
<1>2. IsSequence(fr) /\ fr2 = Pushed(fr, f)
  OBVIOUS
<1>3. /\ IsSequence(fr2) /\ Len(fr2) = L + 1 /\ L \in Nat \ {0}
      /\ \A j \in 1 .. L - 1 : fr2[j] = fr[j]
      /\ fr2[L] = Onward(fr[L]) /\ fr2[L + 1] = f
  <2>1. fr # <<>>
    BY <1>1
  <2>2. /\ IsSequence(fr2) /\ Len(fr2) = Len(fr) + 1 /\ Len(fr) \in Nat \ {0}
        /\ \A j \in 1 .. Len(fr) - 1 : fr2[j] = fr[j]
        /\ fr2[Len(fr)] = Onward(fr[Len(fr)])
        /\ fr2[Len(fr) + 1] = f
    BY ONLY <1>2, <2>1, FramesAfter
  <2> QED  BY ONLY <2>2 DEF L
<1> HIDE DEF M
<1>4. L \in 1 .. L /\ Len(p) = L - 1
  BY <1>1, <1>3
<1>5. FrameOK(doc, op, values, fields, fr[L], Prefix(p, L - 1))
  BY <1>4 DEF FramesOK
<1> HIDE DEF L
<1>6. /\ FrameOK(doc, op, values, fields, fr2[L], Prefix(p, L - 1))
      /\ fr2[L].todo = Tail(fr[L].todo)
  BY <1>3, <1>5, FrameAdvances
<1>8. Opens(doc, fr, c, fr2)
  BY <1>3, <1>6 DEF Opens, L
<1>9. /\ Prefix(p, L - 1) = p /\ \A k \in 0 .. L - 1 : Prefix(e, k) = Prefix(p, k)
      /\ Prefix(e, L) = e
  <2>1. e \in Seq(M) /\ Len(e) = L
    BY <1>1, <1>4, AppendProperties
  <2>2. Prefix(p, Len(p)) = p /\ \A k \in 0 .. Len(p) : Prefix(e, k) = Prefix(p, k)
    BY <1>1, PrefixFacts
  <2> HIDE DEF e
  <2>3. Prefix(e, Len(e)) = e
    BY <1>1, <2>1, PrefixFacts
  <2> QED  BY <1>4, <2>1, <2>2, <2>3
<1> HIDE DEF e
<1>10. ASSUME NEW j \in 1 .. L + 1 PROVE FrameOK(doc, op, values, fields2, fr2[j], Prefix(e, j - 1))
  <2>1. CASE j = L + 1
    <3>1. j - 1 = L
      BY <1>3, <2>1
    <3> QED  BY <1>3, <1>9, <2>1, <3>1 DEF e
  <2>2. CASE j = L
    <3>1. j - 1 = L - 1 /\ L - 1 \in 0 .. L - 1
      BY <1>3, <2>2
    <3>2. FrameOK(doc, op, values, fields2, fr2[L], Prefix(p, L - 1))
      BY <1>6, FrameGrows
    <3> QED  BY <1>9, <2>2, <3>1, <3>2
  <2>3. CASE j \in 1 .. L - 1
    <3>1. j \in 1 .. L /\ j - 1 \in 0 .. L - 1
      BY <1>3, <2>3
    <3>2. FrameOK(doc, op, values, fields, fr[j], Prefix(p, j - 1))
      BY <3>1 DEF FramesOK, L
    <3>3. FrameOK(doc, op, values, fields2, fr[j], Prefix(p, j - 1))
      BY <3>2, FrameGrows
    <3> QED  BY <1>3, <1>9, <2>3, <3>1, <3>3
  <2> QED  BY <1>3, <2>1, <2>2, <2>3
<1> QED  BY <1>3, <1>8, <1>10 DEF FramesOK, e

\* A field is added for the way d.
OneMore(doc, op, values, fields, b, d, fields2, b2) ==
  /\ \E v : fields2 = Append(fields, v) /\ ShownAs(v) = ViewOf(doc, op, values, d)
  /\ b2 = Append(b, d) /\ ParentOK(fields2, Len(fields2))

LEMMA FieldsGrow ==
  ASSUME NEW doc, NEW op, NEW values, NEW fields, NEW b, FieldsOK(doc, op, values, fields, b),
         NEW d, NEW fields2, NEW b2, OneMore(doc, op, values, fields, b, d, fields2, b2)
  PROVE  /\ FieldsOK(doc, op, values, fields2, b2)
         /\ Elems(b2) = Elems(b) \cup {d}
         /\ Distinct(b) /\ d \notin Elems(b) => Distinct(b2)
<1>0. PICK v : fields2 = Append(fields, v) /\ ShownAs(v) = ViewOf(doc, op, values, d)
  BY DEF OneMore
<1> DEFINE n == Len(b)
           S == Elems(fields) \cup {v}
           T == Elems(b) \cup {d}
<1>1. fields \in Seq(S) /\ v \in S /\ b \in Seq(T) /\ d \in T /\ Len(fields) = n
  BY SeqMonotonic DEF FieldsOK, IsSequence
<1>8. fields2 = Append(fields, v) /\ b2 = Append(b, d) /\ ParentOK(fields2, Len(fields2))
  BY <1>0 DEF OneMore
<1> HIDE DEF S, T
<1>2. /\ n \in Nat /\ fields2 \in Seq(S) /\ b2 \in Seq(T) /\ DOMAIN b = 1 .. n
      /\ Len(fields2) = n + 1 /\ Len(b2) = n + 1 /\ DOMAIN b2 = 1 .. n + 1
      /\ fields2[n + 1] = v /\ b2[n + 1] = d
      /\ \A i \in 1 .. n : fields2[i] = fields[i] /\ b2[i] = b[i]
  BY <1>1, <1>8, AppendProperties, LenProperties
<1>3. IsSequence(fields2) /\ IsSequence(b2)
  BY <1>2, SeqNarrow DEF IsSequence
<1> HIDE DEF n
<1>4. ASSUME NEW i \in 1 .. n + 1
      PROVE  ShownAs(fields2[i]) = ViewOf(doc, op, values, b2[i]) /\ ParentOK(fields2, i)
  <2>1. CASE i = n + 1
    BY <1>0, <1>2, <1>8, <2>1
  <2>2. CASE i # n + 1
    <3>1. i \in 1 .. n
      BY <1>2, <2>2
    <3>2. ShownAs(fields[i]) = ViewOf(doc, op, values, b[i]) /\ ParentOK(fields, i)
      BY <3>1 DEF FieldsOK, n
    <3>3. fields2[i] = fields[i] /\ b2[i] = b[i]
      BY <1>2, <3>1
    <3>4. \A k \in 1 .. i - 1 : k \in 1 .. n
      BY <1>2, <3>1
    <3>5. \A k \in 1 .. i - 1 : fields2[k] = fields[k]
      BY <1>2, <3>4
    <3>6. ParentOK(fields2, i)
      BY <3>2, <3>3, <3>5 DEF ParentOK
    <3> QED  BY <3>2, <3>3, <3>6
  <2> QED  BY <2>1, <2>2
<1>5. FieldsOK(doc, op, values, fields2, b2)
  BY <1>2, <1>3, <1>4 DEF FieldsOK
<1>6. Elems(b2) = Elems(b) \cup {d}
  <2>1. ASSUME NEW i \in 1 .. n + 1 PROVE b2[i] \in Elems(b) \cup {d}
    <3>1. i = n + 1 \/ i \in 1 .. n
      BY <1>2
    <3> QED  BY <1>2, <3>1 DEF Elems
  <2>2. \A i \in 1 .. n : i \in 1 .. n + 1
    BY <1>2
  <2>3. n + 1 \in 1 .. n + 1
    BY <1>2
  <2> QED  BY <1>2, <2>1, <2>2, <2>3 DEF Elems
<1>7. ASSUME Distinct(b), d \notin Elems(b) PROVE Distinct(b2)
  <2> SUFFICES ASSUME NEW i \in 1 .. n + 1, NEW j \in 1 .. n + 1, b2[i] = b2[j] PROVE i = j
    BY <1>2 DEF Distinct
  <2>1. (i = n + 1 \/ i \in 1 .. n) /\ (j = n + 1 \/ j \in 1 .. n)
    BY <1>2
  <2>2. \A k \in 1 .. n : b[k] # d
    BY <1>2, <1>7 DEF Elems
  <2> QED  BY <1>2, <1>7, <2>1, <2>2 DEF Distinct
<1> QED  BY <1>5, <1>6, <1>7

\* Opening a frame for c does the way to c.
LEMMA DoneMore ==
  ASSUME NEW doc, NEW op, NEW fr, NEW p, NEW c, NEW fr2, Opening(doc, op, fr, p, c, fr2)
  PROVE  /\ \A d : Done(doc, op, fr2, Append(p, c), d) <=> Done(doc, op, fr, p, d) \/ d = Append(p, c)
         /\ ~Done(doc, op, fr, p, Append(p, c)) /\ Top(Append(p, c)) = c
         /\ Len(Append(p, c)) = Len(fr) /\ c \in Met(doc, op)
<1> DEFINE M == Met(doc, op)
           L == Len(fr)
           e == Append(p, c)
           todo == fr[L].todo
<1>0. /\ Holds(doc, op, Met(doc, op)) /\ StackOK(doc, op, fr, p)
      /\ todo # <<>> /\ c = Head(todo)
  BY DEF Opening
<1>1. p \in Seq(M) /\ L = Len(p) + 1 /\ L \in Nat /\ L >= 1 /\ L \in 1 .. L
  BY <1>0 DEF StackOK
<1>2. todo \in Seq(M) /\ Distinct(todo) /\ todo # <<>>
  BY <1>0, <1>1 DEF StackOK, TodoOK
<1>3. c \in Elems(todo)
  BY <1>0, <1>2, FirstAndRest
<1>4. /\ IsWay(doc, op, e) /\ Remaining(fr, p, e) /\ Len(e) = L /\ e[L] = c /\ c \in M
  BY <1>0, <1>3, OpenedWay
<1>5. ASSUME NEW d PROVE Done(doc, op, fr2, e, d) <=> Done(doc, op, fr, p, d) \/ d = e
  <2>1. CASE IsWay(doc, op, d)
    <3>1. Remaining(fr2, e, d) <=> Remaining(fr, p, d) /\ d # e
      BY <2>1, RemainingFewer
    <3> QED  BY <2>1, <3>1 DEF Done
  <2>2. CASE ~IsWay(doc, op, d)
    BY <1>4, <2>2 DEF Done
  <2> QED  BY <2>1, <2>2
<1> QED  BY <1>4, <1>5 DEF Done, Top

\* The step of a selection, its frame and perhaps its field.
Adds(doc, op, values, fields, b, p, c, fields2, b2) ==
  IF doc.sel[c].k = "field"
  THEN OneMore(doc, op, values, fields, b, Append(p, c), fields2, b2)
  ELSE fields2 = fields /\ b2 = b

LEMMA ExpandingOpens ==
  ASSUME NEW doc, NEW op, Fit(doc, op), NEW values, NEW fr, NEW fields, NEW p, NEW b,
         Expanding(doc, op, values, fr, fields, p, b),
         fr[Len(fr)].todo # <<>>, NEW c, c = Head(fr[Len(fr)].todo), Len(fr) <= MaxDepth,
         NEW f, NEW fr2, fr2 = Pushed(fr, f), f.todo = Children(doc, c),
         NEW fields2, NEW b2, Adds(doc, op, values, fields, b, p, c, fields2, b2),
         FrameOK(doc, op, values, fields2, f, Append(p, c))
  PROVE  Expanding(doc, op, values, fr2, fields2, Append(p, c), b2)
<1> DEFINE e == Append(p, c)
<1>1. /\ IsSequence(fr) /\ StackOK(doc, op, fr, p)
      /\ FramesOK(doc, op, values, fr, fields, p) /\ FieldsOK(doc, op, values, fields, b)
      /\ Covers(doc, op, fr, p, b) /\ DeepOK(doc, op, fr, p)
  BY DEF Expanding
<1>2. Holds(doc, op, Met(doc, op))
  BY MetClosed DEF Fit
<1>3. c \in Met(doc, op)
  <2>1. Len(fr) \in 1 .. Len(fr)
    BY <1>1 DEF StackOK
  <2>2. fr[Len(fr)].todo \in Seq(Met(doc, op)) /\ Distinct(fr[Len(fr)].todo)
    BY <1>1, <2>1 DEF StackOK, TodoOK
  <2> QED  BY <2>2, FirstAndRest
<1>4. Children(doc, c) \in Seq(Met(doc, op)) /\ Distinct(Children(doc, c))
  BY <1>3, ChildrenThere DEF Fit
<1>5. /\ Len(fields) \in Nat /\ Len(fields2) \in Nat /\ Len(fields) <= Len(fields2)
      /\ \A i \in 1 .. Len(fields) : fields2[i] = fields[i]
  <2>1. IsSequence(fields)
    BY <1>1 DEF FieldsOK
  <2>2. Len(fields) \in Nat
    BY <2>1 DEF IsSequence
  <2>3. CASE fields2 = fields
    BY <2>2, <2>3
  <2>4. ASSUME NEW v, fields2 = Append(fields, v)
        PROVE  Len(fields2) = Len(fields) + 1 /\ \A i \in 1 .. Len(fields) : fields2[i] = fields[i]
    <3>1. fields \in Seq(Elems(fields) \cup {v}) /\ v \in Elems(fields) \cup {v}
      BY <2>1, SeqMonotonic DEF IsSequence
    <3> QED  BY <2>4, <3>1, AppendProperties
  <2> QED  BY <2>2, <2>3, <2>4 DEF Adds, OneMore
<1>6. IsSequence(fr2) /\ Opens(doc, fr, c, fr2) /\ FramesOK(doc, op, values, fr2, fields2, e)
  BY <1>1, <1>3, <1>5, FramesOpen
<1> HIDE DEF e
<1>12. Opening(doc, op, fr, p, c, fr2)
  BY <1>1, <1>2, <1>6 DEF Opening
<1>7. StackOK(doc, op, fr2, e)
  BY <1>4, <1>12, StackOpens DEF e
<1>8. /\ \A d : Done(doc, op, fr2, e, d) <=> Done(doc, op, fr, p, d) \/ d = e
      /\ ~Done(doc, op, fr, p, e) /\ Top(e) = c /\ Len(e) = Len(fr)
  BY <1>12, DoneMore DEF e
<1>9. DeepOK(doc, op, fr2, e)
  BY <1>1, <1>8 DEF DeepOK
<1>10. CASE doc.sel[c].k = "field"
  <2>1. OneMore(doc, op, values, fields, b, e, fields2, b2)
    BY <1>10 DEF Adds, e
  <2>3. /\ FieldsOK(doc, op, values, fields2, b2) /\ Elems(b2) = Elems(b) \cup {e}
        /\ Distinct(b) /\ e \notin Elems(b) => Distinct(b2)
    BY <1>1, <2>1, FieldsGrow
  <2>4. Covers(doc, op, fr2, e, b2)
    BY <1>1, <1>8, <1>10, <2>3 DEF Covers, IsFieldWay
  <2> QED  BY <1>6, <1>7, <1>9, <2>3, <2>4 DEF Expanding, e
<1>11. CASE doc.sel[c].k # "field"
  <2>1. fields2 = fields /\ b2 = b
    BY <1>11 DEF Adds
  <2>2. Covers(doc, op, fr2, e, b2)
    BY <1>1, <1>8, <1>11, <2>1 DEF Covers, IsFieldWay
  <2> QED  BY <1>1, <1>6, <1>7, <1>9, <2>1, <2>2 DEF Expanding, e
<1> QED  BY <1>10, <1>11

LEMMA PrefixPop ==
  ASSUME NEW M, NEW p \in Seq(M), p # <<>>
  PROVE  \A k \in 0 .. Len(p) - 1 : Prefix(Pop(p), k) = Prefix(p, k)
<1>1. Len(p) \in Nat \ {0} /\ \A i \in 1 .. Len(p) - 1 : Pop(p)[i] = p[i]
  BY PopParts
<1>2. ASSUME NEW k \in 0 .. Len(p) - 1 PROVE Prefix(Pop(p), k) = Prefix(p, k)
  <2>1. \A i \in 1 .. k : Pop(p)[i] = p[i]
    BY <1>1
  <2> QED  BY <2>1 DEF Prefix
<1> QED  BY <1>2

\* A call of expand ends, and leaves others.
LEMMA ExpandingReturns ==
  ASSUME NEW doc, NEW op, NEW values, NEW fr, NEW fields, NEW p, NEW b,
         Expanding(doc, op, values, fr, fields, p, b), Len(fr) # 1, fr # <<>>,
         fr[Len(fr)].todo = <<>>
  PROVE  Expanding(doc, op, values, Pop(fr), fields, Pop(p), b)
<1> DEFINE L == Len(fr)
           M == Met(doc, op)
           fr2 == Pop(fr)
           q == Pop(p)
<1>1. /\ IsSequence(fr) /\ StackOK(doc, op, fr, p)
      /\ FramesOK(doc, op, values, fr, fields, p) /\ FieldsOK(doc, op, values, fields, b)
      /\ Covers(doc, op, fr, p, b) /\ DeepOK(doc, op, fr, p)
  BY DEF Expanding
<1>2. fr \in Seq(Elems(fr)) /\ p \in Seq(M) /\ L = Len(p) + 1
  BY <1>1 DEF IsSequence, StackOK
<1>3. StackOK(doc, op, fr2, q) /\ \A d : Remaining(fr2, q, d) <=> Remaining(fr, p, d)
  BY <1>1, <1>2, StackReturns
<1>4. fr2 \in Seq(Elems(fr)) /\ Len(fr2) = L - 1 /\ L \in Nat \ {0} /\ \A j \in 1 .. L - 1 : fr2[j] = fr[j]
  BY <1>2, PopParts
<1>5. p # <<>> /\ Len(p) = L - 1
  BY <1>2, <1>4
<1>6. \A k \in 0 .. Len(p) - 1 : Prefix(q, k) = Prefix(p, k)
  BY <1>2, <1>5, PrefixPop
<1>7. IsSequence(fr2)
  BY <1>4, SeqNarrow DEF IsSequence
<1> HIDE DEF L, M, fr2, q
<1>8. FramesOK(doc, op, values, fr2, fields, q)
  <2> SUFFICES ASSUME NEW j \in 1 .. L - 1 PROVE FrameOK(doc, op, values, fields, fr2[j], Prefix(q, j - 1))
    BY <1>4 DEF FramesOK
  <2>1. j \in 1 .. L /\ j - 1 \in 0 .. Len(p) - 1
    BY <1>4, <1>5
  <2>2. FrameOK(doc, op, values, fields, fr[j], Prefix(p, j - 1))
    BY <1>1, <2>1 DEF FramesOK, L
  <2> QED  BY <1>4, <1>6, <2>1, <2>2
<1>9. \A d : Done(doc, op, fr2, q, d) <=> Done(doc, op, fr, p, d)
  BY <1>3 DEF Done
<1>10. Covers(doc, op, fr2, q, b) /\ DeepOK(doc, op, fr2, q)
  BY <1>1, <1>9 DEF Covers, DeepOK
<1> QED  BY <1>1, <1>3, <1>7, <1>8, <1>10 DEF Expanding, fr2, q

\* The expansion of an operation starts with a call for its selections.
LEMMA ExpandingStarts ==
  ASSUME NEW doc, NEW op, Fit(doc, op), NEW values, NEW f,
         f = [todo |-> op.kids, parent |-> 0, path |-> <<>>, conditions |-> Conds(values, op.dirs)]
  PROVE  Expanding(doc, op, values, <<f>>, <<>>, <<>>, <<>>)
<1> DEFINE fr == <<f>>
           M == Met(doc, op)
<1>1. IsSequence(fr) /\ IsSequence(<<>>) /\ Len(fr) = 1 /\ fr[1] = f
  BY SmallSequences
<1>2. f.todo = op.kids /\ f.parent = 0 /\ f.path = <<>> /\ f.conditions = Conds(values, op.dirs)
  OBVIOUS
<1>3. op.kids \in Seq(M) /\ Distinct(op.kids)
  <2>1. op.kids \in Seq(DOMAIN doc.sel) /\ Distinct(op.kids)
    BY DEF Fit, IsDocument
  <2>2. Elems(op.kids) \subseteq M
    BY MetClosed DEF Fit, Holds
  <2> QED  BY <2>1, <2>2, SeqNarrow
<1> HIDE DEF fr, M
<1>4. StackOK(doc, op, fr, <<>>)
  <2>1. <<>> \in Seq(M) /\ Len(<<>>) = 0 /\ \A j \in 1 .. 1 : j = 1
    OBVIOUS
  <2>2. TodoOK(doc, op, fr, <<>>, 1)
    BY <1>1, <1>2, <1>3 DEF TodoOK, KidsAt, M
  <2> QED  BY <1>1, <2>1, <2>2 DEF StackOK, M
<1>5. FrameOK(doc, op, values, <<>>, f, <<>>)
  <2>1. PathOf(doc, op, <<>>) = <<>>
    BY AlongEmpty DEF PathOf
  <2>2. CondsOf(doc, op, values, <<>>) = Conds(values, op.dirs)
    <3>1. IsSequence(Conds(values, op.dirs))
      BY CondsSequence DEF Fit, IsDocument
    <3> QED  BY <3>1, AlongEmpty, ConcatEmptySeq DEF CondsOf, IsSequence
  <2> QED  BY <1>2, <2>1, <2>2 DEF FrameOK
<1>6. FramesOK(doc, op, values, fr, <<>>, <<>>)
  <2>1. Prefix(<<>>, 1 - 1) = <<>>
    BY DEF Prefix
  <2>2. \A j \in 1 .. 1 : j = 1
    OBVIOUS
  <2> QED  BY <1>1, <1>5, <2>1, <2>2 DEF FramesOK
<1>7. FieldsOK(doc, op, values, <<>>, <<>>)
  BY <1>1 DEF FieldsOK
<1>8. ASSUME NEW d PROVE ~Done(doc, op, fr, <<>>, d)
  <2> SUFFICES ASSUME IsWay(doc, op, d) PROVE Remaining(fr, <<>>, d)
    BY DEF Done
  <2>1. d[1] \in Elems(op.kids) /\ d \in Seq(M) /\ d # <<>>
    BY DEF IsWay, M
  <2>2. 1 <= Len(d) /\ 1 \in 1 .. 1 /\ \A k \in 1 .. 1 - 1 : FALSE
    BY <2>1
  <2> QED  BY <1>1, <1>2, <2>1, <2>2 DEF Remaining
<1>9. Covers(doc, op, fr, <<>>, <<>>) /\ DeepOK(doc, op, fr, <<>>)
  <2>1. Elems(<<>>) = {} /\ Distinct(<<>>)
    BY DEF Elems, Distinct
  <2> QED  BY <1>8, <2>1 DEF Covers, DeepOK
<1> QED  BY <1>1, <1>4, <1>6, <1>7, <1>9 DEF Expanding, fr

\* Ways that are longer than there are selections go round, and on and on.
LEMMA WaysAreShort ==
  ASSUME NEW doc, NEW op, IsDocument(doc), Holds(doc, op, Met(doc, op)),
         Met(doc, op) \subseteq DOMAIN doc.sel,
         NEW limit \in Nat, \A d : IsWay(doc, op, d) => Len(d) <= limit,
         NEW w, IsWay(doc, op, w)
  PROVE  Len(w) <= Cardinality(DOMAIN doc.sel) + 1
<1> DEFINE M == Met(doc, op)
           n == Len(w)
           card == Cardinality(DOMAIN doc.sel)
<1>1. w \in Seq(M) /\ n \in Nat \ {0} /\ \A j \in 1 .. n - 1 : w[j + 1] \in Elems(Children(doc, w[j]))
  BY DEF IsWay
<1>2. IsFiniteSet(DOMAIN doc.sel) /\ card \in Nat
  BY FS_CardinalityType DEF IsDocument
<1> SUFFICES ASSUME n > card PROVE FALSE
  BY <1>1, <1>2
<1>3. PICK i \in 1 .. n, j \in 1 .. n : i < j /\ w[i] = w[j]
  <2> SUFFICES ASSUME \A i, j \in 1 .. n : w[i] = w[j] => i = j PROVE FALSE
    BY <1>1
  <2>1. w \in [1 .. n -> DOMAIN doc.sel]
    BY <1>1
  <2>2. w \in Injection(1 .. n, DOMAIN doc.sel)
    BY <2>1 DEF Injection, IsInjective
  <2>3. Cardinality(1 .. n) <= card
    BY <1>2, <2>2, FS_Injection
  <2>4. Cardinality(1 .. n) = n
    BY <1>1, FS_Interval
  <2> QED  BY <1>1, <1>2, <2>3, <2>4
<1> DEFINE C == {w[k] : k \in i .. j - 1}
           N == {m \in Nat : \E d : IsWay(doc, op, d) /\ d[Len(d)] \in C /\ Len(d) >= m}
<1>4. ASSUME NEW x \in C PROVE \E y \in C : y \in Elems(Children(doc, x))
  <2>1. PICK k \in i .. j - 1 : x = w[k]
    OBVIOUS
  <2>2. k \in 1 .. n - 1 /\ k + 1 \in i .. j /\ i \in i .. j - 1 /\ (k + 1 # j => k + 1 \in i .. j - 1)
    BY <1>1, <1>3
  <2>3. w[k + 1] \in Elems(Children(doc, x)) /\ w[k + 1] \in C
    <3>1. CASE k + 1 = j
      BY <1>1, <1>3, <2>1, <2>2, <3>1
    <3>2. CASE k + 1 # j
      BY <1>1, <2>1, <2>2, <3>2
    <3> QED  BY <3>1, <3>2
  <2> QED  BY <2>3
<1>5. \E d : IsWay(doc, op, d) /\ d[Len(d)] \in C
  <2> DEFINE d == [k \in 1 .. i |-> w[k]]
  <2>1. i \in Nat \ {0} /\ i <= n /\ i \in i .. j - 1 /\ i \in 1 .. i
    BY <1>1, <1>3
  <2>2. d \in Seq(M) /\ Len(d) = i
    <3>1. \A k \in 1 .. i : w[k] \in M
      BY <1>1, <2>1
    <3>2. d \in [1 .. i -> M]
      BY <3>1
    <3> QED  BY <2>1, <3>2
  <2>3. 1 \in 1 .. i /\ \A k \in 1 .. i - 1 : k \in 1 .. n - 1 /\ k + 1 \in 1 .. i /\ k \in 1 .. i
    BY <2>1
  <2>4. \A k \in 1 .. i : d[k] = w[k]
    OBVIOUS
  <2> HIDE DEF d, M
  <2>5. d # <<>>
    BY <2>1, <2>2
  <2>6. IsWay(doc, op, d)
    BY <1>1, <2>2, <2>3, <2>4, <2>5 DEF IsWay, M
  <2> QED  BY <2>1, <2>2, <2>4, <2>6
<1>6. 0 \in N
  <2>1. PICK d : IsWay(doc, op, d) /\ d[Len(d)] \in C
    BY <1>5
  <2>2. Len(d) >= 0
    BY <2>1 DEF IsWay
  <2> QED  BY <2>1, <2>2
<1>7. ASSUME NEW m \in Nat, m \in N PROVE m + 1 \in N
  <2>1. PICK d : IsWay(doc, op, d) /\ d[Len(d)] \in C /\ Len(d) >= m
    BY <1>7
  <2>2. PICK y \in C : y \in Elems(Children(doc, d[Len(d)]))
    BY <1>4, <2>1
  <2> HIDE DEF C
  <2> DEFINE e == Append(d, y)
             k == Len(d)
  <2>3. /\ d \in Seq(M) /\ k \in Nat \ {0} /\ d[1] \in Elems(op.kids)
        /\ \A l \in 1 .. k - 1 : d[l + 1] \in Elems(Children(doc, d[l]))
    BY <2>1 DEF IsWay
  <2>4. y \in M
    <3>1. d[k] \in M
      BY <2>3
    <3> QED  BY <2>2, <3>1 DEF Holds
  <2>5. e \in Seq(M) /\ Len(e) = k + 1 /\ e[k + 1] = y /\ \A l \in 1 .. k : e[l] = d[l]
    BY <2>3, <2>4, AppendProperties
  <2> HIDE DEF e, k, M
  <2>6. ASSUME NEW l \in 1 .. k PROVE e[l + 1] \in Elems(Children(doc, e[l]))
    <3>1. CASE l = k
      BY <2>2, <2>3, <2>5, <3>1 DEF k
    <3>2. CASE l # k
      <4>1. l \in 1 .. k - 1 /\ l + 1 \in 1 .. k
        BY <2>3, <3>2
      <4> QED  BY <2>3, <2>5, <4>1
    <3> QED  BY <3>1, <3>2
  <2>7. e # <<>> /\ 1 \in 1 .. k /\ Len(e) - 1 = k /\ Len(e) >= m + 1
    BY <2>1, <2>3, <2>5 DEF k
  <2>8. IsWay(doc, op, e)
    BY <2>3, <2>5, <2>6, <2>7 DEF IsWay, M
  <2> QED  BY <2>2, <2>5, <2>7, <2>8
<1>8. Nat \subseteq N
  <2> HIDE DEF N
  <2> QED  BY <1>6, <1>7, Induct
<1>9. limit + 1 \in N
  <2>1. limit + 1 \in Nat
    OBVIOUS
  <2> HIDE DEF N
  <2> QED  BY <1>8, <2>1
<1>10. PICK d : IsWay(doc, op, d) /\ Len(d) >= limit + 1
  BY <1>9
<1>11. Len(d) \in Nat
  BY <1>10 DEF IsWay
<1> QED  BY <1>10, <1>11

LEMMA TopFrame ==
  ASSUME NEW doc, NEW op, NEW values, NEW fr, NEW fields, NEW p, NEW b,
         Expanding(doc, op, values, fr, fields, p, b)
  PROVE  /\ FrameOK(doc, op, values, fields, Top(fr), p) /\ p \in Seq(Met(doc, op))
         /\ Top(fr).todo # <<>> => Head(Top(fr).todo) \in Met(doc, op)
<1> DEFINE L == Len(fr)
<1>1. StackOK(doc, op, fr, p) /\ FramesOK(doc, op, values, fr, fields, p)
  BY DEF Expanding
<1>2. p \in Seq(Met(doc, op)) /\ L = Len(p) + 1 /\ L \in 1 .. L /\ L - 1 = Len(p)
  BY <1>1 DEF StackOK
<1>3. FrameOK(doc, op, values, fields, fr[L], Prefix(p, L - 1)) /\ TodoOK(doc, op, fr, p, L)
  BY <1>1, <1>2 DEF FramesOK, StackOK
<1>4. Prefix(p, Len(p)) = p
  BY <1>2 DEF Prefix
<1>5. fr[L].todo # <<>> => Head(fr[L].todo) \in Met(doc, op)
  BY <1>3, FirstAndRest DEF TodoOK
<1> QED  BY <1>2, <1>3, <1>4, <1>5 DEF Top

\* A frame for a selection that is no field.
OtherFrame(doc, op, values, fields, g, p, c, f) ==
  /\ Fit(doc, op) /\ p \in Seq(Met(doc, op)) /\ FrameOK(doc, op, values, fields, g, p)
  /\ c \in Met(doc, op) /\ doc.sel[c].k # "field"
  /\ f = Frame(Children(doc, c), g.parent, g.path,
               (g.conditions \o Conds(values, doc.sel[c].dirs)) \o Extra(doc, values, c))

LEMMA OtherAdds ==
  ASSUME NEW doc, NEW op, NEW values, NEW fields, NEW b, NEW g, NEW p, NEW c, NEW f,
         OtherFrame(doc, op, values, fields, g, p, c, f)
  PROVE  /\ Adds(doc, op, values, fields, b, p, c, fields, b)
         /\ FrameOK(doc, op, values, fields, f, Append(p, c)) /\ f.todo = Children(doc, c)
<1>0. /\ Fit(doc, op) /\ p \in Seq(Met(doc, op)) /\ FrameOK(doc, op, values, fields, g, p)
      /\ c \in Met(doc, op) /\ doc.sel[c].k # "field"
      /\ f = Frame(Children(doc, c), g.parent, g.path,
                   (g.conditions \o Conds(values, doc.sel[c].dirs)) \o Extra(doc, values, c))
  BY DEF OtherFrame
<1> DEFINE conds == (g.conditions \o Conds(values, doc.sel[c].dirs)) \o Extra(doc, values, c)
<1>1. f.todo = Children(doc, c) /\ f.parent = g.parent /\ f.path = g.path /\ f.conditions = conds
  BY <1>0 DEF Frame
<1>2. f = [todo |-> f.todo, parent |-> f.parent, path |-> f.path, conditions |-> f.conditions]
  BY <1>0, <1>1 DEF Frame
<1>3. /\ PathOf(doc, op, Append(p, c)) = PathOf(doc, op, p)
      /\ CondsOf(doc, op, values, Append(p, c)) =
           (CondsOf(doc, op, values, p) \o Conds(values, doc.sel[c].dirs)) \o Extra(doc, values, c)
  BY <1>0, OneFurther
<1> HIDE DEF conds
<1>4. g.path = PathOf(doc, op, p) /\ g.conditions = CondsOf(doc, op, values, p)
  BY <1>0 DEF FrameOK
<1>5. conds = CondsOf(doc, op, values, Append(p, c))
  BY <1>3, <1>4 DEF conds
<1>6. FrameOK(doc, op, values, fields, f, Append(p, c))
  BY <1>0, <1>1, <1>2, <1>3, <1>5 DEF FrameOK
<1> QED  BY <1>0, <1>1, <1>6 DEF Adds

\* A field and its frame.
FieldFrame(doc, op, values, fields, g, p, c, v, fields2, f) ==
  /\ Fit(doc, op) /\ p \in Seq(Met(doc, op)) /\ FrameOK(doc, op, values, fields, g, p)
  /\ IsSequence(fields) /\ c \in Met(doc, op) /\ doc.sel[c].k = "field"
  /\ v.field = doc.sel[c].name /\ v.path = Append(g.path, ResponseName(doc.sel[c]))
  /\ v.parent = g.parent /\ v.args = ResolveArgs(values, doc.sel[c].args)
  /\ v.conditions = g.conditions \o Conds(values, doc.sel[c].dirs)
  /\ fields2 = Append(fields, v)
  /\ f = Frame(doc.sel[c].kids, Len(fields2), v.path, v.conditions)

LEMMA FieldAdds ==
  ASSUME NEW doc, NEW op, NEW values, NEW fields, NEW b, NEW g, NEW p, NEW c, NEW v, NEW fields2,
         NEW f, FieldFrame(doc, op, values, fields, g, p, c, v, fields2, f)
  PROVE  /\ Adds(doc, op, values, fields, b, p, c, fields2, Append(b, Append(p, c)))
         /\ FrameOK(doc, op, values, fields2, f, Append(p, c)) /\ f.todo = Children(doc, c)
<1>0. /\ Fit(doc, op) /\ p \in Seq(Met(doc, op)) /\ FrameOK(doc, op, values, fields, g, p)
      /\ IsSequence(fields) /\ c \in Met(doc, op) /\ doc.sel[c].k = "field"
      /\ v.field = doc.sel[c].name /\ v.path = Append(g.path, ResponseName(doc.sel[c]))
      /\ v.parent = g.parent /\ v.args = ResolveArgs(values, doc.sel[c].args)
      /\ v.conditions = g.conditions \o Conds(values, doc.sel[c].dirs)
      /\ fields2 = Append(fields, v)
      /\ f = Frame(doc.sel[c].kids, Len(fields2), v.path, v.conditions)
  BY DEF FieldFrame
<1> DEFINE own == Conds(values, doc.sel[c].dirs)
           e == Append(p, c)
           n == Len(fields)
           name == ResponseName(doc.sel[c])
<1>1. f.todo = Children(doc, c) /\ f.parent = Len(fields2) /\ f.path = v.path /\ f.conditions = v.conditions
  BY <1>0 DEF Frame, Children
<1>2. f = [todo |-> f.todo, parent |-> f.parent, path |-> f.path, conditions |-> f.conditions]
  BY <1>0, <1>1 DEF Frame
<1>3. /\ PathOf(doc, op, e) = Append(PathOf(doc, op, p), name) /\ IsSequence(PathOf(doc, op, p))
      /\ CondsOf(doc, op, values, e) = (CondsOf(doc, op, values, p) \o own) \o Extra(doc, values, c)
      /\ IsSequence(CondsOf(doc, op, values, p))
  <2>1. /\ IsSequence(PathOf(doc, op, p)) /\ IsSequence(CondsOf(doc, op, values, p))
        /\ PathOf(doc, op, Append(p, c)) = Append(PathOf(doc, op, p), ResponseName(doc.sel[c]))
        /\ CondsOf(doc, op, values, Append(p, c)) =
             (CondsOf(doc, op, values, p) \o Conds(values, doc.sel[c].dirs)) \o Extra(doc, values, c)
    <3>1. Fit(doc, op) /\ p \in Seq(Met(doc, op)) /\ c \in Met(doc, op) /\ doc.sel[c].k = "field"
      BY <1>0
    <3> QED  BY ONLY <3>1, OneFurther
  <2> QED  BY <2>1
<1>4. Extra(doc, values, c) = <<>> /\ IsSequence(own)
  BY <1>0, ExtraSequence DEF Extra
<1>5. CondsOf(doc, op, values, e) = CondsOf(doc, op, values, p) \o own
  <2>1. IsSequence(CondsOf(doc, op, values, p) \o own)
    BY <1>3, <1>4, SmallSequences
  <2> QED  BY <1>3, <1>4, <2>1, ConcatEmptySeq DEF IsSequence
<1> HIDE DEF own, e, n, name
<1>6. g.path = PathOf(doc, op, p) /\ g.conditions = CondsOf(doc, op, values, p)
  BY <1>0 DEF FrameOK
<1>7. /\ v.path = PathOf(doc, op, e) /\ v.conditions = CondsOf(doc, op, values, e)
      /\ v.path = Append(g.path, name) /\ IsSequence(g.path)
  BY <1>0, <1>3, <1>5, <1>6 DEF name, own
<1>8. /\ Len(fields2) = n + 1 /\ n \in Nat /\ fields2[n + 1] = v
      /\ \A i \in 1 .. n : fields2[i] = fields[i]
  <2>1. fields \in Seq(Elems(fields) \cup {v}) /\ v \in Elems(fields) \cup {v}
    BY <1>0, SeqMonotonic DEF IsSequence
  <2> QED  BY <1>0, <2>1, AppendProperties, LenProperties DEF n
<1>9. /\ Len(v.path) = Len(g.path) + 1 /\ Len(g.path) \in Nat /\ v.path # <<>>
      /\ Pop(v.path) = g.path /\ (Len(g.path) = 0 <=> g.path = <<>>)
  <2> DEFINE S == Elems(g.path) \cup {name}
             h == v.path
             k == Len(g.path)
  <2>1. g.path \in Seq(S) /\ name \in S
    BY <1>7, SeqMonotonic DEF IsSequence
  <2> HIDE DEF S, h
  <2>2. /\ h \in Seq(S) /\ Len(h) = k + 1 /\ k \in Nat /\ h # <<>>
        /\ \A i \in 1 .. k : h[i] = g.path[i]
    <3>1. h = Append(g.path, name) /\ k \in Nat
      BY <1>7, <2>1, LenProperties DEF h
    <3> HIDE DEF k
    <3>2. /\ Append(g.path, name) \in Seq(S) /\ Len(Append(g.path, name)) = k + 1
          /\ Append(g.path, name) # <<>>
          /\ \A i \in 1 .. k : Append(g.path, name)[i] = g.path[i]
      BY <2>1, AppendProperties DEF k
    <3> QED  BY <3>1, <3>2 DEF k
  <2>3. Pop(h) \in Seq(S) /\ Len(Pop(h)) = Len(h) - 1 /\ \A i \in 1 .. Len(h) - 1 : Pop(h)[i] = h[i]
    BY <2>2, PopParts
  <2>4. Len(Pop(h)) = k /\ \A i \in 1 .. k : Pop(h)[i] = g.path[i]
    BY <2>2, <2>3
  <2>5. Pop(h) = g.path
    BY <2>1, <2>3, <2>4, SeqEqual
  <2> QED  BY <2>1, <2>2, <2>5 DEF h
<1>10. ParentOK(fields2, Len(fields2))
  <2>1. CASE g.path = <<>>
    <3>1. g.parent = 0 /\ Len(v.path) = 1
      BY <1>0, <1>9, <2>1 DEF FrameOK
    <3> QED  BY <1>0, <1>8, <3>1 DEF ParentOK
  <2>2. CASE g.path # <<>>
    <3>1. g.parent \in 1 .. n /\ fields[g.parent].path = g.path /\ Len(v.path) # 1
      BY <1>0, <1>9, <2>2 DEF FrameOK, n
    <3>2. g.parent \in 1 .. (n + 1) - 1 /\ fields2[g.parent].path = Pop(v.path)
      BY <1>0, <1>8, <1>9, <3>1
    <3> QED  BY <1>0, <1>8, <3>1, <3>2 DEF ParentOK
  <2> QED  BY <2>1, <2>2
<1>11. ShownAs(v) = ViewOf(doc, op, values, e)
  <2>1. Top(e) = c
    BY <1>0, AppendProperties DEF Top, e
  <2> QED  BY <1>0, <1>7, <2>1 DEF ShownAs, ViewOf
<1>12. Adds(doc, op, values, fields, b, p, c, fields2, Append(b, e))
  BY <1>0, <1>10, <1>11 DEF Adds, OneMore, e
<1>13. FrameOK(doc, op, values, fields2, f, e)
  <2>1. Len(fields2) \in 1 .. Len(fields2) /\ fields2[Len(fields2)] = v
    BY <1>0, <1>8
  <2> QED  BY <1>0, <1>1, <1>2, <1>7, <1>9, <2>1 DEF FrameOK
<1> QED  BY <1>1, <1>12, <1>13 DEF e

\* What the fields are in the end.
Expanded(doc, op, values, fields, b) ==
  /\ FieldsOK(doc, op, values, fields, b) /\ Distinct(b)
  /\ \A d : d \in Elems(b) <=> d \in Derivations(doc, op) /\ IsFieldWay(doc, d)

LEMMA ExpandingEnds ==
  ASSUME NEW doc, NEW op, Fit(doc, op), NEW values, NEW fr, NEW fields, NEW p, NEW b,
         Expanding(doc, op, values, fr, fields, p, b), Len(fr) = 1, Top(fr).todo = <<>>
  PROVE  Expanded(doc, op, values, fields, b)
<1>1. /\ FieldsOK(doc, op, values, fields, b)
      /\ Covers(doc, op, fr, p, b) /\ DeepOK(doc, op, fr, p)
  BY DEF Expanding
<1>2. IsDocument(doc) /\ Holds(doc, op, Met(doc, op)) /\ Met(doc, op) \subseteq DOMAIN doc.sel
  BY MetClosed DEF Fit
<1>3. \A d : ~Remaining(fr, p, d)
  <2>1. \A j \in 1 .. Len(fr) : j = 1
    OBVIOUS
  <2>2. Elems(fr[1].todo) = {}
    BY DEF Top, Elems
  <2> QED  BY <2>1, <2>2 DEF Remaining
<1>4. \A d : Done(doc, op, fr, p, d) <=> IsWay(doc, op, d)
  BY <1>3 DEF Done
<1>5. \A d : IsWay(doc, op, d) => Len(d) <= MaxDepth
  BY <1>1, <1>4 DEF DeepOK
<1>6. ASSUME NEW d PROVE IsWay(doc, op, d) <=> d \in Derivations(doc, op)
  <2>1. IsWay(doc, op, d) => Len(d) <= Cardinality(DOMAIN doc.sel) + 1
    BY <1>2, <1>5, LimitAssumption, WaysAreShort
  <2> QED  BY <1>2, <2>1, DerivationsAre
<1> QED  BY <1>1, <1>4, <1>6 DEF Expanded, Covers

\* f is g along b.
Image(f, S) == {f[x] : x \in S}
Times(f, S, v) == Cardinality({x \in S : f[x] = v})
IsAlong(b, f, g) == \A i \in DOMAIN b : f[i] = g[b[i]]

\* A sequence without repetition counts the members of its set.
LEMMA SameCount ==
  ASSUME NEW b, IsSequence(b), Distinct(b), NEW D, D = Elems(b), NEW f, NEW g,
         IsAlong(b, f, g)
  PROVE  Image(f, DOMAIN b) = Image(g, D) /\ \A v : Times(f, DOMAIN b, v) = Times(g, D, v)
<1>0. \A i \in DOMAIN b : f[i] = g[b[i]]
  BY DEF IsAlong
<1>1. {f[i] : i \in DOMAIN b} = {g[d] : d \in D}
  BY <1>0 DEF Elems
<1>2. ASSUME NEW v
      PROVE  Cardinality({i \in DOMAIN b : f[i] = v}) = Cardinality({d \in D : g[d] = v})
  <2> DEFINE S == {i \in DOMAIN b : f[i] = v}
             T == {d \in D : g[d] = v}
             h == [i \in S |-> b[i]]
  <2>1. IsFiniteSet(S)
    <3>1. Len(b) \in Nat /\ DOMAIN b = 1 .. Len(b)
      BY DEF IsSequence
    <3>2. IsFiniteSet(1 .. Len(b))
      BY <3>1, FS_Interval
    <3> QED  BY <3>1, <3>2, FS_Subset
  <2>2. h \in [S -> T]
    BY <1>0 DEF Elems
  <2>3. \A i, j \in S : h[i] = h[j] => i = j
    BY DEF Distinct
  <2>4. \A d \in T : \E i \in S : h[i] = d
    BY <1>0 DEF Elems
  <2> HIDE DEF S, T, h
  <2>5. h \in Bijection(S, T)
    BY <2>2, <2>3, <2>4 DEF Bijection, Injection, Surjection, IsInjective
  <2>6. ExistsBijection(S, T)
    BY <2>5 DEF ExistsBijection
  <2>7. Cardinality(S) = Cardinality(T)
    BY <2>1, <2>6, FS_Bijection
  <2> QED  BY <2>7 DEF S, T
<1> QED  BY <1>1, <1>2 DEF Image, Times

\* The fields that are meant, and that they are what is shown.
Shown(doc, op, values) ==
  [d \in {e \in Derivations(doc, op) : IsFieldWay(doc, e)} |-> ViewOf(doc, op, values, d)]
ShowsAll(fields, meant) ==
  LET views == {ShownAs(f) : f \in Elems(fields)}
  IN /\ views = {meant[d] : d \in DOMAIN meant}
     /\ \A v \in views :
          Cardinality({i \in DOMAIN fields : ShownAs(fields[i]) = v}) =
            Cardinality({d \in DOMAIN meant : meant[d] = v})
     /\ \A i \in DOMAIN fields : ParentOK(fields, i)

LEMMA FieldsComplete ==
  ASSUME NEW doc, NEW op, NEW values, NEW fields, NEW b, Expanded(doc, op, values, fields, b),
         NEW meant, meant = Shown(doc, op, values)
  PROVE  ShowsAll(fields, meant)
<1> DEFINE n == Len(b)
           D == DOMAIN meant
           f == [i \in DOMAIN b |-> ShownAs(fields[i])]
<1>1. IsSequence(b) /\ IsSequence(fields) /\ Len(fields) = n /\ Distinct(b)
  BY DEF Expanded, FieldsOK
<1>2. DOMAIN b = 1 .. n /\ DOMAIN fields = 1 .. n
  BY <1>1 DEF IsSequence
<1>3. D = Elems(b)
  BY DEF Expanded, Shown
<1>4. ASSUME NEW i \in DOMAIN b PROVE f[i] = meant[b[i]] /\ ParentOK(fields, i)
  <2>1. b[i] \in D
    BY <1>3 DEF Elems
  <2>2. meant[b[i]] = ViewOf(doc, op, values, b[i])
    BY <2>1 DEF Shown
  <2> QED  BY <1>2, <2>2 DEF Expanded, FieldsOK
<1> HIDE DEF D, n
<1>5. /\ Image(f, DOMAIN b) = Image(meant, D)
      /\ \A v : Times(f, DOMAIN b, v) = Times(meant, D, v)
  <2> HIDE DEF f
  <2>1. IsAlong(b, f, meant)
    BY <1>4 DEF IsAlong
  <2> QED  BY ONLY <1>1, <1>3, <2>1, SameCount
<1>6. {ShownAs(g) : g \in Elems(fields)} = Image(f, DOMAIN b)
  BY <1>2 DEF Elems, Image
<1>7. ASSUME NEW v
      PROVE  Cardinality({i \in DOMAIN fields : ShownAs(fields[i]) = v}) = Times(f, DOMAIN b, v)
  <2>1. {i \in DOMAIN fields : ShownAs(fields[i]) = v} = {i \in DOMAIN b : f[i] = v}
    BY <1>2
  <2> QED  BY <2>1 DEF Times
<1>8. ASSUME NEW v PROVE Cardinality({d \in D : meant[d] = v}) = Times(meant, D, v)
  BY DEF Times
<1>9. {meant[d] : d \in D} = Image(meant, D)
  BY DEF Image
<1>10. \A i \in DOMAIN fields : ParentOK(fields, i)
  BY <1>2, <1>4
<1> HIDE DEF f
<1>11. {ShownAs(g) : g \in Elems(fields)} = {meant[d] : d \in DOMAIN meant}
  BY <1>5, <1>6, <1>9 DEF D
<1>12. ASSUME NEW v
       PROVE  Cardinality({i \in DOMAIN fields : ShownAs(fields[i]) = v}) =
                Cardinality({d \in DOMAIN meant : meant[d] = v})
  <2>1. Cardinality({i \in DOMAIN fields : ShownAs(fields[i]) = v}) = Times(f, DOMAIN b, v)
    BY <1>7
  <2>2. Times(f, DOMAIN b, v) = Times(meant, D, v)
    BY <1>5
  <2>3. Times(meant, D, v) = Cardinality({d \in DOMAIN meant : meant[d] = v})
    BY DEF Times, D
  <2> QED  BY <2>1, <2>2, <2>3
<1> QED  BY <1>10, <1>11, <1>12, Zenon DEF ShowsAll

LEMMA MeantIs ==
  ASSUME ReadInv, Resolved, OpIndex # None
  PROVE  MeantFields = Shown(Doc, Op, Values)
<1> DEFINE isField(n) == Doc.sel[n].k = "field"
           named(n) == IF isField(n) THEN <<ResponseName(Doc.sel[n])>> ELSE <<>>
           own(n) == LET s == Doc.sel[n]
                         fragment == FragmentOf(Doc, s.name)
                     IN Conditions(s.dirs, <<>>)
                        \o IF s.k = "inline" /\ s.on # None THEN <<TypeCondition(s.on)>>
                           ELSE IF s.k = "spread"
                           THEN Append(Conditions(fragment.dirs, <<>>), FragmentCondition(fragment))
                           ELSE <<>>
           M == Met(Doc, Op)
<1>1. Fit(Doc, Op)
  BY DocumentThere, OperationThere DEF Fit, Resolved
<1>2. ASSUME NEW dirs, IsSequence(dirs) PROVE Conditions(dirs, <<>>) = Conds(Values, dirs)
  <2>1. IsSequence(Conds(Values, dirs))
    BY <1>2, CondsSequence
  <2> QED  BY <2>1, ConcatEmptySeq DEF IsSequence, Conditions, Conds
<1>3. Conditions(Op.dirs, <<>>) = Conds(Values, Op.dirs)
  BY <1>1, <1>2 DEF Fit, IsDocument
<1>4. ASSUME NEW n \in M PROVE named(n) = Named(Doc, Op)[n] /\ own(n) = Owned(Doc, Op, Values)[n]
  <2>1. /\ n \in DOMAIN Doc.sel
        /\ Doc.sel[n].k = "spread" => FragmentOf(Doc, Doc.sel[n].name) \in Elems(Doc.frags)
    BY <1>1, ChildrenThere DEF Fit
  <2>2. Conditions(Doc.sel[n].dirs, <<>>) = Conds(Values, Doc.sel[n].dirs)
    BY <1>1, <1>2, <2>1 DEF Fit, IsDocument
  <2>3. Doc.sel[n].k = "spread" =>
          Conditions(FragmentOf(Doc, Doc.sel[n].name).dirs, <<>>)
            = Conds(Values, FragmentOf(Doc, Doc.sel[n].name).dirs)
    BY <1>1, <1>2, <2>1 DEF Fit, IsDocument
  <2> QED  BY <2>2, <2>3, Zenon DEF Named, Owned, Extra
<1>5. ASSUME NEW d \in Derivations(Doc, Op)
      PROVE  /\ FlattenSeq([i \in DOMAIN d |-> named(d[i])]) = PathOf(Doc, Op, d)
             /\ Conditions(Op.dirs, <<>>) \o FlattenSeq([i \in DOMAIN d |-> own(d[i])])
                  = CondsOf(Doc, Op, Values, d)
  <2>1. IsDocument(Doc) /\ Holds(Doc, Op, M)
    BY <1>1, MetClosed DEF Fit
  <2>2. d \in Seq(M)
    BY <2>1, DerivationsAre DEF IsWay
  <2>3. \A i \in DOMAIN d : d[i] \in M
    BY <2>2
  <2> HIDE DEF named, own, M
  <2>4. [i \in DOMAIN d |-> named(d[i])] = [i \in DOMAIN d |-> Named(Doc, Op)[d[i]]]
    BY <1>4, <2>3
  <2>5. [i \in DOMAIN d |-> own(d[i])] = [i \in DOMAIN d |-> Owned(Doc, Op, Values)[d[i]]]
    BY <1>4, <2>3
  <2> QED  BY <1>3, <2>4, <2>5 DEF PathOf, CondsOf, Along
<1>6. MeantFields = [d \in {e \in Derivations(Doc, Op) : isField(Top(e))} |->
        [field |-> Doc.sel[Top(d)].name,
         path |-> FlattenSeq([i \in DOMAIN d |-> named(d[i])]),
         args |-> ResolveArgs(Values, Doc.sel[Top(d)].args),
         conditions |-> Conditions(Op.dirs, <<>>) \o FlattenSeq([i \in DOMAIN d |-> own(d[i])])]]
  BY DEF MeantFields
<1> HIDE DEF named, own
<1> QED  BY <1>5, <1>6 DEF Shown, ViewOf, IsFieldWay

-----------------------------------------------------------------------------
(* The expansion: its steps *)

ExpanderIs(e, frames, steps, fields) == e = [frames |-> frames, steps |-> steps, fields |-> fields]

\* The frames expand the operation; what was parsed is its expansion.
ReviewInv ==
  /\ review.why = "cycle" => Cyclic(Doc)
  /\ pc = "expand" =>
       /\ ExpanderIs(expander, expander.frames, expander.steps, expander.fields)
       /\ \E p, b : Expanding(Doc, Op, Values, expander.frames, expander.fields, p, b)
  /\ review.status = "parsed" =>
       /\ pc \in {"decide", "end"} /\ Resolved /\ ~Cyclic(Doc) /\ OpIndex # None
       /\ \E b : Expanded(Doc, Op, Values, expander.fields, b)

LEMMA SameValues ==
  ASSUME input' = input
  PROVE  /\ Doc' = Doc /\ Op' = Op /\ Values' = Values /\ OpIndex' = OpIndex
         /\ Resolved' <=> Resolved
         /\ Cyclic(Doc)' <=> Cyclic(Doc)
<1>1. Req' = Req /\ Op' = Op
  BY SameInput
<1>2. Raw' = Raw
  BY <1>1 DEF Raw, Given
<1>3. Values' = Values
  BY <1>2 DEF Values
<1> QED  BY <1>3, SameInput

\* A step that leaves no analysis.
LEMMA UnparsedStep ==
  ASSUME input' = input, pc' # "expand", review'.status # "parsed",
         review'.why = "cycle" => Cyclic(Doc)
  PROVE  ReviewInv'
BY SameValues DEF ReviewInv

LEMMA FailStep ==
  ASSUME input' = input, NEW why, why # "cycle", Fail(why)
  PROVE  ReviewInv'
<1>1. pc' = "decide" /\ review'.status = "unavailable" /\ review'.why = why
  BY DEF Fail, Unavailable
<1> QED  BY <1>1, UnparsedStep

\* The steps before the analysis.
LEMMA EarlierStep ==
  ASSUME ReadInv, ReviewInv, Gate \/ Collect \/ VisitRoot \/ Visit \/ SelectOperation \/ Scan
  PROVE  ReviewInv'
<1>1. input' = input /\ pc \notin {"expand", "decide", "end"}
  BY DEF Gate, Collect, VisitRoot, Visit, SelectOperation, Scan
<1>2. review.status # "parsed"
  BY <1>1 DEF ReviewInv
<1>3. ASSUME review' = review, pc' # "expand" PROVE ReviewInv'
  BY <1>1, <1>2, <1>3, UnparsedStep DEF ReviewInv
<1>4. ASSUME NEW why, why # "cycle" \/ Cyclic(Doc), review' = Unavailable(why), pc' = "decide"
      PROVE  ReviewInv'
  <2>1. review'.status = "unavailable" /\ review'.why = why
    BY <1>4 DEF Unavailable
  <2> QED  BY <1>1, <1>4, <2>1, UnparsedStep
<1>5. CASE Gate
  BY <1>3, <1>5 DEF Gate, Settle
<1>6. CASE Collect
  <2>1. CASE review' = review
    BY <1>3, <1>6, <2>1 DEF Collect, Settle
  <2>2. CASE review' = NoReview /\ pc' = "decide"
    BY <1>1, <2>2, UnparsedStep DEF NoReview
  <2>3. CASE \E why \in {"parse", "undefined"} : review' = Unavailable(why) /\ pc' = "decide"
    BY <1>4, <2>3
  <2> QED  BY <1>6, <2>1, <2>2, <2>3 DEF Collect
<1>7. ASSUME NEW w, NEW name, Visiting(Doc, w, name), VisitNode(w, name), pc = "fragments"
      PROVE  ReviewInv'
  <2>1. CASE review' = review /\ pc' = pc
    BY <1>1, <1>3, <2>1
  <2>2. CASE review' = Unavailable("depth") /\ pc' = "decide"
    BY <1>4, <2>2
  <2>3. CASE review' = Unavailable("cycle") /\ pc' = "decide" /\ name \in Active(w)
    <3>1. Cyclic(Doc)
      BY <1>7, <2>3, CycleIsThere
    <3> QED  BY <1>4, <2>3, <3>1
  <2> QED  BY <1>7, <2>1, <2>2, <2>3 DEF VisitNode, ToDecide
<1>8. CASE VisitRoot
  <2>1. pc = "fragments" /\ walk.stack = <<>>
    BY <1>8 DEF VisitRoot
  <2>2. PICK i \in Roots : VisitNode(walk, FragmentOrder[i])
    BY <1>8 DEF VisitRoot
  <2>3. FragmentOrder[i] \in FragmentNames(Doc) /\ Walking(Doc, walk)
    BY <2>1, <2>2 DEF Roots, ReadInv, WalkOK
  <2> QED  BY <1>7, <2>1, <2>2, <2>3, FirstCall
<1>9. CASE Visit
  <2>1. pc = "fragments" /\ walk.stack # <<>> /\ Walking(Doc, walk)
    BY <1>9 DEF Visit, ReadInv, WalkOK
  <2>2. CASE review' = review /\ pc' = pc
    BY <1>3, <2>1, <2>2
  <2>3. ASSUME NEW child \in Top(walk.stack).todo,
               VisitNode([walk EXCEPT !.stack[Len(walk.stack)].todo = @ \ {child}], child)
        PROVE  ReviewInv'
    <3> DEFINE w == [walk EXCEPT !.stack[Len(walk.stack)].todo = @ \ {child}]
    <3>1. Visiting(Doc, w, child)
      BY <2>1, ChildTaken
    <3>2. VisitNode(w, child)
      BY <2>3
    <3> HIDE DEF w
    <3> QED  BY <1>7, <2>1, <3>1, <3>2
  <2> QED  BY <1>9, <2>2, <2>3 DEF Visit
<1>10. CASE SelectOperation
  <2>1. CASE review' = Unavailable("select") /\ pc' = "decide"
    BY <1>4, <2>1
  <2>2. CASE review' = review /\ pc' \in {"directives", "analyze"}
    BY <1>3, <2>2
  <2> QED  BY <1>10, <2>1, <2>2 DEF SelectOperation, ToDecide
<1>11. CASE Scan
  <2>1. review' = review /\ pc' # "expand"
    BY <1>1, <1>11, Zenon DEF Scan, Scanned, Enter
  <2> QED  BY <1>3, <2>1
<1> QED  BY <1>5, <1>6, <1>8, <1>9, <1>10, <1>11

LEMMA OperationFits ==
  ASSUME ReadInv, Resolved, OpIndex # None
  PROVE  Fit(Doc, Op)
BY DocumentThere, OperationThere DEF Fit, Resolved

LEMMA AnalyzeStep ==
  ASSUME ReadInv, ReviewInv, Analyze
  PROVE  ReviewInv'
<1>1. input' = input /\ pc = "analyze"
  BY DEF Analyze
<1>2. Fit(Doc, Op)
  BY <1>1, OperationFits DEF ReadInv, StageOK
<1>3. CASE Fail("required variable") \/ Fail("undefined variable")
  BY <1>1, <1>3, FailStep
<1>4. CASE /\ pc' = "expand" /\ review' = review
           /\ expander' = [NoExpansion EXCEPT !.frames =
                             <<Frame(Op.kids, 0, <<>>, Conditions(Op.dirs, <<>>))>>]
  <2> DEFINE f == [todo |-> Op.kids, parent |-> 0, path |-> <<>>,
                   conditions |-> Conds(Values, Op.dirs)]
  <2>1. Conditions(Op.dirs, <<>>) = Conds(Values, Op.dirs)
    <3>1. IsSequence(Conds(Values, Op.dirs))
      BY <1>2, CondsSequence DEF Fit, IsDocument
    <3> QED  BY <3>1, ConcatEmptySeq DEF IsSequence, Conditions, Conds
  <2>2. Frame(Op.kids, 0, <<>>, Conditions(Op.dirs, <<>>)) = f
    BY <2>1 DEF Frame
  <2>3. Expanding(Doc, Op, Values, <<f>>, <<>>, <<>>, <<>>)
    BY <1>2, ExpandingStarts
  <2> HIDE DEF f
  <2>4. expander' = [frames |-> <<f>>, steps |-> 0, fields |-> <<>>]
    BY <1>4, <2>2 DEF NoExpansion
  <2>5. /\ expander'.frames = <<f>> /\ expander'.steps = 0 /\ expander'.fields = <<>>
    BY <2>4
  <2>6. \E p, b : Expanding(Doc', Op', Values', expander'.frames, expander'.fields, p, b)
    BY <1>1, <2>3, <2>5, SameValues
  <2>7. ExpanderIs(expander', expander'.frames, expander'.steps, expander'.fields)
    BY <2>4, <2>5 DEF ExpanderIs
  <2>8. review.status # "parsed"
    BY <1>1 DEF ReviewInv
  <2> QED  BY <1>1, <1>4, <2>6, <2>7, <2>8, SameValues DEF ReviewInv
<1> QED  BY <1>3, <1>4 DEF Analyze

\* A selection is visited and its frame is put on the others.
LEMMA DeeperIs ==
  ASSUME NEW frames, IsSequence(frames), frames # <<>>, NEW steps, NEW fields, NEW e,
         ExpanderIs(e, frames, steps, fields), NEW f
  PROVE  /\ Len(Advanced(e).frames) = Len(frames) /\ Advanced(e).fields = fields
         /\ ExpanderIs([Advanced(e) EXCEPT !.frames = Append(@, f)],
                       Pushed(frames, f), steps + 1, fields)
<1> DEFINE L == Len(frames)
<1>1. PICK mid : mid = [frames EXCEPT ![L].todo = Tail(@)]
  OBVIOUS
<1>2. e.frames = frames /\ e.steps = steps /\ e.fields = fields
  BY DEF ExpanderIs
<1>3. Advanced(e) = [frames |-> mid, steps |-> steps + 1, fields |-> fields]
  <2>1. Advanced(e) = [e EXCEPT !.steps = steps + 1, !.frames = mid]
    BY <1>1, <1>2 DEF Advanced
  <2> QED  BY <2>1 DEF ExpanderIs
<1>4. Len(mid) = L
  <2>1. PICK top : top = [frames[L] EXCEPT !.todo = Tail(@)]
    OBVIOUS
  <2>2. mid = [frames EXCEPT ![L] = top]
    BY <1>1, <2>1
  <2>3. frames \in Seq(Elems(frames) \cup {top}) /\ top \in Elems(frames) \cup {top} /\ L \in 1 .. L
    BY SeqMonotonic DEF IsSequence
  <2> QED  BY <2>2, <2>3, ExceptSeq
<1>5. Append(mid, f) = Pushed(frames, f)
  BY <1>1 DEF Pushed
<1> HIDE DEF L
<1>6. PICK a : a = Advanced(e)
  OBVIOUS
<1>7. a = [frames |-> mid, steps |-> steps + 1, fields |-> fields]
  BY <1>3, <1>6
<1>8. [a EXCEPT !.frames = Append(@, f)]
        = [frames |-> Append(mid, f), steps |-> steps + 1, fields |-> fields]
  BY <1>7
<1>9. [a EXCEPT !.frames = Append(@, f)]
        = [frames |-> Pushed(frames, f), steps |-> steps + 1, fields |-> fields]
  BY <1>5, <1>8
<1>10. ExpanderIs([Advanced(e) EXCEPT !.frames = Append(@, f)],
                  Pushed(frames, f), steps + 1, fields)
  BY ONLY <1>6, <1>9, Zenon DEF ExpanderIs
<1>11. Len(a.frames) = L /\ a.fields = fields
  BY <1>4, <1>7
<1> QED  BY <1>6, <1>10, <1>11 DEF L

\* What a call for the next selection does.
CallFor(doc, op, values, e, p, b, c, f, fields2, b2) ==
  /\ f.todo = Children(doc, c) /\ Adds(doc, op, values, e.fields, b, p, c, fields2, b2)
  /\ FrameOK(doc, op, values, fields2, f, Append(p, c))

LEMMA CallStep ==
  ASSUME ReadInv, ReviewInv, pc = "expand", input' = input, expander.frames # <<>>,
         Top(expander.frames).todo # <<>>,
         NEW p, NEW b, Expanding(Doc, Op, Values, expander.frames, expander.fields, p, b),
         NEW f, NEW fields2, NEW b2,
         CallFor(Doc, Op, Values, expander, p, b, Head(Top(expander.frames).todo), f, fields2, b2),
         NEW e, ExpanderIs(e, expander.frames, expander.steps, fields2), Deeper(Advanced(e), f)
  PROVE  ReviewInv'
<1>1. PICK frames, steps, fields, doc, op, values, c :
        /\ frames = expander.frames /\ steps = expander.steps /\ fields = expander.fields
        /\ doc = Doc /\ op = Op /\ values = Values /\ c = Head(Top(expander.frames).todo)
  OBVIOUS
<1>2. Expanding(doc, op, values, frames, fields, p, b) /\ IsSequence(frames) /\ frames # <<>>
  BY <1>1 DEF Expanding
<1>3. ExpanderIs(e, frames, steps, fields2)
  BY <1>1
<1>4. /\ Len(Advanced(e).frames) = Len(frames)
      /\ ExpanderIs([Advanced(e) EXCEPT !.frames = Append(@, f)],
                    Pushed(frames, f), steps + 1, fields2)
  BY ONLY <1>2, <1>3, DeeperIs
<1>5. CASE Fail("depth")
  BY <1>5, FailStep
<1>6. CASE /\ Len(frames) <= MaxDepth /\ review' = review /\ pc' = pc
           /\ ExpanderIs(expander', Pushed(frames, f), steps + 1, fields2)
  <2>1. Fit(doc, op)
    BY <1>1, OperationFits DEF ReadInv, StageOK
  <2>2. /\ frames[Len(frames)].todo # <<>> /\ c = Head(frames[Len(frames)].todo)
        /\ f.todo = Children(doc, c) /\ Adds(doc, op, values, fields, b, p, c, fields2, b2)
        /\ FrameOK(doc, op, values, fields2, f, Append(p, c))
    BY <1>1 DEF Top, CallFor
  <2>3. PICK frames2 : frames2 = Pushed(frames, f)
    OBVIOUS
  <2>4. Len(frames) <= MaxDepth
    BY <1>6
  <2>5. Expanding(doc, op, values, frames2, fields2, Append(p, c), b2)
    BY ONLY <1>2, <2>1, <2>2, <2>3, <2>4, ExpandingOpens
  <2>6. expander' = [frames |-> frames2, steps |-> steps + 1, fields |-> fields2]
    BY <1>6, <2>3 DEF ExpanderIs
  <2>7. expander'.frames = frames2 /\ expander'.steps = steps + 1 /\ expander'.fields = fields2
    BY <2>6
  <2>8. Doc' = doc /\ Op' = op /\ Values' = values
    BY <1>1, SameValues
  <2>9. \E q, a : Expanding(Doc', Op', Values', expander'.frames, expander'.fields, q, a)
    BY <2>5, <2>7, <2>8
  <2>10. ExpanderIs(expander', expander'.frames, expander'.steps, expander'.fields)
    BY <2>6, <2>7 DEF ExpanderIs
  <2>11. review'.status # "parsed" /\ (review'.why = "cycle" => Cyclic(Doc'))
    BY <1>6, SameValues DEF ReviewInv
  <2> QED  BY <2>9, <2>10, <2>11 DEF ReviewInv
<1> QED
  <2>1. Len(frames) \in Nat
    BY <1>2 DEF IsSequence
  <2> QED  BY <1>4, <1>5, <1>6, <2>1, LimitAssumption DEF Deeper

LEMMA ExhaustedStep ==
  ASSUME ReviewInv, Exhausted
  PROVE  ReviewInv'
BY FailStep DEF Exhausted

LEMMA ReturnStep ==
  ASSUME ReadInv, ReviewInv, Return
  PROVE  ReviewInv'
<1>1. /\ input' = input /\ pc = "expand" /\ expander.frames # <<>>
      /\ Top(expander.frames).todo = <<>>
  BY DEF Return
<1>2. PICK frames, steps, fields, doc, op, values :
        /\ frames = expander.frames /\ steps = expander.steps /\ fields = expander.fields
        /\ doc = Doc /\ op = Op /\ values = Values
  OBVIOUS
<1>3. PICK p, b : Expanding(doc, op, values, frames, fields, p, b)
  BY <1>1, <1>2 DEF ReviewInv
<1>4. Fit(doc, op) /\ Resolved /\ ~Cyclic(Doc) /\ OpIndex # None
  BY <1>1, <1>2, OperationFits DEF ReadInv, StageOK
<1>5. Doc' = doc /\ Op' = op /\ Values' = values
  BY <1>1, <1>2, SameValues
<1>6. PICK k : expander' = [frames |-> Pop(frames), steps |-> k, fields |-> fields]
  <2>1. expander = [frames |-> frames, steps |-> steps, fields |-> fields]
    BY <1>1, <1>2 DEF ReviewInv, ExpanderIs
  <2>2. PICK k : k = IF Len(expander.frames) = 1 THEN 0 ELSE expander.steps
    OBVIOUS
  <2>3. expander' = [expander EXCEPT !.frames = Pop(@), !.steps = k]
    BY <2>2 DEF Return
  <2> QED  BY <2>1, <2>3
<1>7. expander'.frames = Pop(frames) /\ expander'.steps = k /\ expander'.fields = fields
  BY <1>6
<1>8. CASE Len(frames) = 1
  <2>1. review' = Parsed /\ pc' = "decide"
    BY <1>2, <1>8 DEF Return
  <2>2. Top(frames).todo = <<>>
    BY <1>1, <1>2
  <2>3. Expanded(doc, op, values, fields, b)
    BY ONLY <1>3, <1>4, <1>8, <2>2, LimitAssumption, ExpandingEnds
  <2>4. \E a : Expanded(Doc', Op', Values', expander'.fields, a)
    BY <1>5, <1>7, <2>3
  <2>5. review'.why # "cycle"
    BY <2>1 DEF Parsed
  <2> QED  BY <1>1, <1>4, <2>1, <2>4, <2>5, SameValues DEF ReviewInv
<1>9. CASE Len(frames) # 1
  <2>1. review' = review /\ pc' = pc
    BY <1>2, <1>9 DEF Return
  <2>2. frames # <<>> /\ frames[Len(frames)].todo = <<>>
    BY <1>1, <1>2 DEF Top
  <2>3. Expanding(doc, op, values, Pop(frames), fields, Pop(p), b)
    BY ONLY <1>3, <1>9, <2>2, ExpandingReturns
  <2>4. \E q, a : Expanding(Doc', Op', Values', expander'.frames, expander'.fields, q, a)
    BY <1>5, <1>7, <2>3
  <2>5. ExpanderIs(expander', expander'.frames, expander'.steps, expander'.fields)
    BY <1>6, <1>7 DEF ExpanderIs
  <2>6. review'.status # "parsed" /\ (review'.why = "cycle" => Cyclic(Doc'))
    BY <1>1, <2>1, SameValues DEF ReviewInv
  <2> QED  BY <2>4, <2>5, <2>6 DEF ReviewInv
<1> QED  BY <1>8, <1>9

LEMMA SettledStep ==
  ASSUME ReviewInv, Decide \/ UNCHANGED vars
  PROVE  ReviewInv'
<1>1. /\ input' = input /\ review' = review /\ expander' = expander
      /\ (pc' = pc \/ (pc = "decide" /\ pc' = "end"))
  BY DEF Decide, Settle, vars
<1>2. PICK doc, op, values : doc = Doc /\ op = Op /\ values = Values
  OBVIOUS
<1>3. Doc' = doc /\ Op' = op /\ Values' = values
  BY <1>1, <1>2, SameValues
<1>4. \A p, b : Expanding(Doc, Op, Values, expander.frames, expander.fields, p, b) =>
               Expanding(Doc', Op', Values', expander'.frames, expander'.fields, p, b)
  BY <1>1, <1>2, <1>3
<1>5. \A b : Expanded(Doc, Op, Values, expander.fields, b) =>
            Expanded(Doc', Op', Values', expander'.fields, b)
  BY <1>1, <1>2, <1>3
<1>6. /\ review'.why = "cycle" => Cyclic(Doc')
      /\ review'.status = "parsed" =>
           pc' \in {"decide", "end"} /\ Resolved' /\ ~Cyclic(Doc)' /\ OpIndex' # None
  BY <1>1, SameValues DEF ReviewInv
<1>7. pc' = "expand" => ExpanderIs(expander', expander'.frames, expander'.steps, expander'.fields)
  BY <1>1 DEF ReviewInv
<1>8. pc' = "expand" => pc = "expand"
  BY <1>1
<1> QED  BY <1>1, <1>4, <1>5, <1>6, <1>7, <1>8 DEF ReviewInv

\* A field and its selections.
LEMMA FieldStep ==
  ASSUME ReadInv, ReviewInv, pc = "expand", input' = input, expander.frames # <<>>,
         Top(expander.frames).todo # <<>>, NEW c, c = Head(Top(expander.frames).todo),
         Doc.sel[c].k = "field", ExpandField(Top(expander.frames), Doc.sel[c])
  PROVE  ReviewInv'
<1> DEFINE frame == Top(expander.frames)
           s == Doc.sel[c]
           view == View(frame, s)
<1>1. CASE Fail("fields") \/ Fail("undefined variable")
  BY <1>1, FailStep
<1>2. ASSUME NEW e, e = [expander EXCEPT !.fields = Append(@, view)],
             Deeper(Advanced(e), Frame(s.kids, Len(Advanced(e).fields), view.path, view.conditions))
      PROVE  ReviewInv'
  <2>1. PICK p, b : Expanding(Doc, Op, Values, expander.frames, expander.fields, p, b)
    BY DEF ReviewInv
  <2>2. PICK g, v, doc, op, values, fields :
          /\ g = frame /\ v = view /\ doc = Doc /\ op = Op /\ values = Values
          /\ fields = expander.fields
    OBVIOUS
  <2>3. Fit(doc, op)
    BY <2>2, OperationFits DEF ReadInv, StageOK
  <2>4. FrameOK(doc, op, values, fields, g, p) /\ p \in Seq(Met(doc, op)) /\ c \in Met(doc, op)
    BY <2>1, <2>2, TopFrame
  <2>5. IsSequence(fields) /\ IsSequence(expander.frames)
    BY <2>1, <2>2 DEF Expanding, FieldsOK
  <2>6. /\ v.field = doc.sel[c].name /\ v.path = Append(g.path, ResponseName(doc.sel[c]))
        /\ v.parent = g.parent /\ v.args = ResolveArgs(values, doc.sel[c].args)
        /\ v.conditions = g.conditions \o Conds(values, doc.sel[c].dirs)
    BY <2>2, Zenon DEF View, Conditions, Conds
  <2>7. PICK fields2 : fields2 = Append(fields, v)
    OBVIOUS
  <2>8. PICK f : f = Frame(doc.sel[c].kids, Len(fields2), v.path, v.conditions)
    OBVIOUS
  <2>9. doc.sel[c].k = "field"
    BY <2>2
  <2>10. /\ Adds(doc, op, values, fields, b, p, c, fields2, Append(b, Append(p, c)))
         /\ FrameOK(doc, op, values, fields2, f, Append(p, c)) /\ f.todo = Children(doc, c)
    <3>1. FieldFrame(doc, op, values, fields, g, p, c, v, fields2, f)
      BY <2>3, <2>4, <2>5, <2>6, <2>7, <2>8, <2>9, Zenon DEF FieldFrame
    <3> QED  BY ONLY <3>1, FieldAdds
  <2>11. ExpanderIs(e, expander.frames, expander.steps, fields2)
    <3>1. expander = [frames |-> expander.frames, steps |-> expander.steps, fields |-> fields]
      BY <2>2 DEF ReviewInv, ExpanderIs
    <3>2. PICK frames, steps : frames = expander.frames /\ steps = expander.steps
      OBVIOUS
    <3>3. PICK x : x = expander
      OBVIOUS
    <3>4. x = [frames |-> frames, steps |-> steps, fields |-> fields]
      BY <3>1, <3>2, <3>3
    <3>5. e = [x EXCEPT !.fields = Append(@, v)]
      BY <1>2, <2>2, <3>3, Zenon
    <3>6. e = [frames |-> frames, steps |-> steps, fields |-> fields2]
      BY <2>7, <3>4, <3>5
    <3> QED  BY <3>2, <3>6 DEF ExpanderIs
  <2>12. Advanced(e).fields = fields2
    BY <2>5, <2>11, DeeperIs
  <2>13. Frame(s.kids, Len(Advanced(e).fields), view.path, view.conditions) = f
    BY <2>2, <2>8, <2>12
  <2>14. Deeper(Advanced(e), f)
    BY <1>2, <2>13, Zenon
  <2>15. CallFor(Doc, Op, Values, expander, p, b, Head(Top(expander.frames).todo), f, fields2,
                 Append(b, Append(p, c)))
    BY <2>2, <2>10 DEF CallFor
  <2> QED  BY <2>1, <2>11, <2>14, <2>15, CallStep
<1> QED
  <2>1. CASE Len(expander.fields) >= MaxFields
    BY <1>1, <2>1 DEF ExpandField
  <2>2. CASE ~(Len(expander.fields) >= MaxFields) /\
             ~Defined(ArgVars(s.args) \cup DirectiveVars(s.dirs))
    BY <1>1, <2>2 DEF ExpandField
  <2>3. CASE ~(Len(expander.fields) >= MaxFields) /\
             Defined(ArgVars(s.args) \cup DirectiveVars(s.dirs))
    <3>1. PICK e : e = [expander EXCEPT !.fields = Append(@, view)]
      OBVIOUS
    <3>2. Deeper(Advanced(e), Frame(s.kids, Len(Advanced(e).fields), view.path, view.conditions))
      BY <2>3, <3>1, Zenon DEF ExpandField
    <3> QED  BY <1>2, <3>1, <3>2, Zenon
  <2> QED  BY <2>1, <2>2, <2>3

\* A selection that is no field: its conditions come on top of the frame's.
LEMMA OtherStep ==
  ASSUME ReadInv, ReviewInv, pc = "expand", input' = input, expander.frames # <<>>,
         Top(expander.frames).todo # <<>>, NEW c, c = Head(Top(expander.frames).todo),
         Doc.sel[c].k # "field", NEW conditions,
         LET g == Top(expander.frames)
             given == (g.conditions \o Conds(Values, Doc.sel[c].dirs)) \o Extra(Doc, Values, c)
         IN conditions = given /\
            Deeper(Advanced(expander), Frame(Children(Doc, c), g.parent, g.path, conditions))
  PROVE  ReviewInv'
<1>1. PICK p, b : Expanding(Doc, Op, Values, expander.frames, expander.fields, p, b)
  BY Zenon DEF ReviewInv
<1>2. PICK g, doc, op, values, fields :
        /\ g = Top(expander.frames) /\ doc = Doc /\ op = Op /\ values = Values
        /\ fields = expander.fields
  BY Zenon
<1>3. Fit(doc, op)
  BY <1>2, OperationFits, Zenon DEF ReadInv, StageOK
<1>4. FrameOK(doc, op, values, fields, g, p) /\ p \in Seq(Met(doc, op)) /\ c \in Met(doc, op)
  BY <1>1, <1>2, TopFrame, Zenon
<1>5. PICK f : f = Frame(Children(doc, c), g.parent, g.path,
                         (g.conditions \o Conds(values, doc.sel[c].dirs)) \o Extra(doc, values, c))
  BY Zenon
<1>6. doc.sel[c].k # "field"
  BY <1>2, Zenon
<1>7. /\ Adds(doc, op, values, fields, b, p, c, fields, b)
      /\ FrameOK(doc, op, values, fields, f, Append(p, c)) /\ f.todo = Children(doc, c)
  <2>1. OtherFrame(doc, op, values, fields, g, p, c, f)
    BY <1>3, <1>4, <1>5, <1>6, Zenon DEF OtherFrame
  <2> QED  BY ONLY <2>1, OtherAdds
<1>8. Deeper(Advanced(expander), f)
  BY <1>2, <1>5, Zenon
<1>9. ExpanderIs(expander, expander.frames, expander.steps, fields)
  BY <1>2, Zenon DEF ReviewInv
<1>10. CallFor(Doc, Op, Values, expander, p, b, Head(Top(expander.frames).todo), f, fields, b)
  BY <1>2, <1>7, Zenon DEF CallFor
<1> QED  BY <1>1, <1>8, <1>9, <1>10, CallStep, Zenon

LEMMA InlineStep ==
  ASSUME ReadInv, ReviewInv, pc = "expand", input' = input, expander.frames # <<>>,
         Top(expander.frames).todo # <<>>, NEW c, c = Head(Top(expander.frames).todo),
         Doc.sel[c].k = "inline", ExpandInline(Top(expander.frames), Doc.sel[c])
  PROVE  ReviewInv'
<1> DEFINE g == Top(expander.frames)
           s == Doc.sel[c]
           on == IF s.on = None THEN <<>> ELSE <<TypeCondition(s.on)>>
<1>1. Conditions(s.dirs, g.conditions) = g.conditions \o Conds(Values, s.dirs)
  BY DEF Conditions, Conds
<1>2. Extra(Doc, Values, c) = on /\ Children(Doc, c) = s.kids
  BY DEF Extra, Children
<1>3. CASE Fail("undefined variable")
  BY <1>3, FailStep
<1>4. CASE Deeper(Advanced(expander), Frame(s.kids, g.parent, g.path,
                                            Conditions(s.dirs, g.conditions) \o on))
  <2>1. PICK conditions :
          conditions = (g.conditions \o Conds(Values, s.dirs)) \o Extra(Doc, Values, c)
    BY Zenon
  <2>2. conditions = Conditions(s.dirs, g.conditions) \o on
    BY <1>1, <1>2, <2>1, Zenon
  <2>3. Deeper(Advanced(expander), Frame(Children(Doc, c), g.parent, g.path, conditions))
    BY <1>2, <1>4, <2>2, Zenon
  <2> QED  BY <2>1, <2>3, OtherStep, Zenon
<1> QED  BY <1>3, <1>4 DEF ExpandInline

LEMMA SpreadStep ==
  ASSUME ReadInv, ReviewInv, pc = "expand", input' = input, expander.frames # <<>>,
         Top(expander.frames).todo # <<>>, NEW c, c = Head(Top(expander.frames).todo),
         Doc.sel[c].k = "spread", ExpandSpread(Top(expander.frames), Doc.sel[c])
  PROVE  ReviewInv'
<1> DEFINE g == Top(expander.frames)
           s == Doc.sel[c]
           fragment == FragmentOf(Doc, s.name)
           outer == g.conditions \o Conds(Values, s.dirs)
           inner == Conds(Values, fragment.dirs)
           last == FragmentCondition(fragment)
<1>1. Conditions(fragment.dirs, Conditions(s.dirs, g.conditions)) = outer \o inner
  BY DEF Conditions, Conds
<1>2. Extra(Doc, Values, c) = Append(inner, last) /\ Children(Doc, c) = fragment.kids
  BY DEF Extra, Children
<1>3. IsSequence(outer) /\ IsSequence(inner)
  <2>1. PICK p, b : Expanding(Doc, Op, Values, expander.frames, expander.fields, p, b)
    BY DEF ReviewInv
  <2>2. Fit(Doc, Op)
    BY OperationFits DEF ReadInv, StageOK
  <2>3. /\ FrameOK(Doc, Op, Values, expander.fields, g, p) /\ p \in Seq(Met(Doc, Op))
        /\ c \in Met(Doc, Op)
    BY <2>1, TopFrame
  <2>4. IsSequence(g.conditions)
    BY <2>2, <2>3, OneFurther DEF FrameOK
  <2>5. IsSequence(Conds(Values, s.dirs)) /\ IsSequence(inner)
    BY <2>2, <2>3, ExtraSequence
  <2> QED  BY <2>4, <2>5, SmallSequences, Zenon
<1>4. CASE Fail("undefined variable")
  BY <1>4, FailStep
<1>5. CASE Deeper(Advanced(expander),
                  Frame(fragment.kids, g.parent, g.path,
                        Append(Conditions(fragment.dirs, Conditions(s.dirs, g.conditions)), last)))
  <2>1. PICK conditions : conditions = outer \o Extra(Doc, Values, c)
    BY Zenon
  <2>2. Append(outer \o inner, last) = outer \o Append(inner, last)
    <3> HIDE DEF outer, inner, last
    <3> QED  BY <1>3, Sequences
  <2>3. conditions = Append(Conditions(fragment.dirs, Conditions(s.dirs, g.conditions)), last)
    BY <1>1, <1>2, <2>1, <2>2, Zenon
  <2>4. Deeper(Advanced(expander), Frame(Children(Doc, c), g.parent, g.path, conditions))
    BY <1>2, <1>5, <2>3, Zenon
  <2> QED  BY <2>1, <2>4, OtherStep, Zenon
<1> QED  BY <1>4, <1>5, Zenon DEF ExpandSpread

LEMMA ExpandStep ==
  ASSUME ReadInv, ReviewInv, Expand
  PROVE  ReviewInv'
<1>1. /\ input' = input /\ pc = "expand" /\ expander.frames # <<>>
      /\ Top(expander.frames).todo # <<>>
  BY DEF Expand
<1>2. CASE Fail("steps")
  BY <1>1, <1>2, FailStep
<1>3. ASSUME NEW c, c = Head(Top(expander.frames).todo),
             \/ Doc.sel[c].k = "field" /\ ExpandField(Top(expander.frames), Doc.sel[c])
             \/ Doc.sel[c].k = "inline" /\ ExpandInline(Top(expander.frames), Doc.sel[c])
             \/ Doc.sel[c].k = "spread" /\ ExpandSpread(Top(expander.frames), Doc.sel[c])
      PROVE  ReviewInv'
  BY <1>1, <1>3, FieldStep, InlineStep, SpreadStep
<1> QED  BY <1>2, <1>3 DEF Expand

LEMMA ReviewNext ==
  ASSUME ReadInv, ReviewInv, [Next]_vars
  PROVE  ReviewInv'
BY EarlierStep, AnalyzeStep, ExpandStep, ExhaustedStep, ReturnStep, SettledStep DEF Next

LEMMA ReviewIsComplete ==
  ASSUME ReadInv, ReviewInv
  PROVE  ReviewComplete
<1>1. ASSUME review.status = "parsed"
      PROVE  WellFormed(Doc) /\ ShowsAll(expander.fields, MeantFields)
  <2>1. Resolved /\ ~Cyclic(Doc) /\ OpIndex # None
    BY <1>1 DEF ReviewInv
  <2>2. PICK b : Expanded(Doc, Op, Values, expander.fields, b)
    BY <1>1 DEF ReviewInv
  <2>3. WellFormed(Doc)
    BY <2>1 DEF WellFormed, Resolved
  <2>4. MeantFields = Shown(Doc, Op, Values)
    BY <2>1, MeantIs
  <2> QED  BY <2>2, <2>3, <2>4, FieldsComplete
<1>2. review.why = "cycle" => Cyclic(Doc)
  BY DEF ReviewInv
<1> QED  BY <1>1, <1>2 DEF ReviewComplete, ShowsAll, ShownAs, ParentOK

LEMMA ReviewInvHolds == Spec => [](ReadInv /\ ReviewInv)
<1>1. Init => ReadInv /\ ReviewInv
  <2>1. Init => ReviewInv
    BY DEF Init, ReviewInv, NoReview
  <2> QED  BY <2>1, ReadInit
<1>2. ReadInv /\ ReviewInv /\ [Next]_vars => (ReadInv /\ ReviewInv)'
  BY ReadNext, ReviewNext
<1> QED  BY <1>1, <1>2, PTL DEF Spec

(***************************************************************************)
(* For every document, every order of the walks and every limit: what the  *)
(* host reviews is the operation, each field once for every way down to    *)
(* it, with its arguments, all conditions on the way and the field that    *)
(* holds it, and a document is called cyclic only when it is               *)
(* (Expander::expand, validate_fragments).                                 *)
(***************************************************************************)
THEOREM ReviewsAreComplete == Spec => []ReviewComplete
<1>1. ReadInv /\ ReviewInv => ReviewComplete
  BY ReviewIsComplete
<1> QED  BY <1>1, ReviewInvHolds, PTL

-----------------------------------------------------------------------------
(* Filtered sequences *)

\* q lists the indices once each, and the filter follows it.
Lists(q, indices) == q \in Seq(indices) /\ Distinct(q) /\ Elems(q) = indices

LEMMA KeepPicks ==
  ASSUME NEW S, NEW c \in Seq(S), NEW indices \in SUBSET DOMAIN c
  PROVE  \E q : Lists(q, indices) /\ Keep(c, indices) = [j \in DOMAIN q |-> c[q[j]]]
<1> DEFINE V == Seq(Nat)
           A == <<>>
           F == [n \in Nat |-> [X \in V |-> IF n + 1 \in indices THEN Append(X, n + 1) ELSE X]]
           G(g) == [i \in Nat |->
                      IF i = 0 THEN <<>>
                      ELSE IF i \in indices THEN Append(g[i - 1], c[i]) ELSE g[i - 1]]
           picked(q) == [j \in DOMAIN q |-> c[q[j]]]
<1>1. A \in V /\ F \in [Nat -> [V -> V]]
  OBVIOUS
<1> HIDE DEF V
<1>2. PICK f : IsIteration(f, V, A, F)
  <2> HIDE DEF A, F
  <2> QED  BY <1>1, Iterate
<1>3. ASSUME NEW n \in Nat
      PROVE  f[n] \in V /\ f[n + 1] = IF n + 1 \in indices THEN Append(f[n], n + 1) ELSE f[n]
  <2>1. f[n + 1] = F[n][f[n]] /\ f[n] \in V
    <3> HIDE DEF A, F
    <3> QED  BY <1>2 DEF IsIteration
  <2> QED  BY <2>1
<1>4. f[0] = <<>>
  BY <1>2 DEF IsIteration
<1> HIDE DEF A, F
\* What is listed after n members.
<1> DEFINE I(n) == {i \in indices : i <= n}
           N == {n \in Nat : f[n] \in Seq(Nat) /\ Distinct(f[n]) /\ Elems(f[n]) = I(n)}
<1>5. indices \subseteq 1 .. Len(c) /\ Len(c) \in Nat
  OBVIOUS
<1>6. 0 \in N
  <2>1. I(0) = {}
    BY <1>5
  <2>2. DOMAIN <<>> = {} /\ <<>> \in Seq(Nat)
    OBVIOUS
  <2>3. Elems(<<>>) = {} /\ Distinct(<<>>)
    BY <2>2 DEF Elems, Distinct
  <2> HIDE DEF I
  <2> QED  BY <1>4, <2>1, <2>2, <2>3
<1>7. ASSUME NEW n \in Nat, n \in N PROVE n + 1 \in N
  <2>1. CASE n + 1 \notin indices
    <3>1. f[n + 1] = f[n]
      BY <1>3, <2>1
    <3>2. I(n + 1) = I(n)
      BY <1>5, <2>1
    <3> QED  BY <1>7, <3>1, <3>2
  <2>2. CASE n + 1 \in indices
    <3>1. PICK q, r : q = f[n] /\ r = f[n + 1]
      OBVIOUS
    <3>2. r = Append(q, n + 1) /\ q \in Seq(Nat) /\ Distinct(q) /\ Elems(q) = I(n)
      BY <1>3, <1>7, <2>2, <3>1
    <3>3. PICK k \in Nat : k = Len(q)
      BY <3>2
    <3>4. /\ r \in Seq(Nat) /\ DOMAIN q = 1 .. k /\ DOMAIN r = 1 .. k + 1
          /\ r[k + 1] = n + 1 /\ \A i \in 1 .. k : r[i] = q[i]
      BY <3>2, <3>3
    <3>5. \A i \in 1 .. k : q[i] \in I(n) /\ q[i] # n + 1
      <4>1. \A i \in 1 .. k : q[i] \in Elems(q)
        BY <3>4 DEF Elems
      <4>2. \A i \in I(n) : i # n + 1
        BY <1>5
      <4> HIDE DEF I
      <4> QED  BY <3>2, <4>1, <4>2
    <3>6. I(n + 1) = I(n) \cup {n + 1}
      BY <1>5, <2>2
    <3>7. Elems(r) = I(n + 1)
      <4>1. \A i \in 1 .. k + 1 : i \in 1 .. k \/ i = k + 1
        BY <3>3
      <4>2. k + 1 \in 1 .. k + 1 /\ \A i \in 1 .. k : i \in 1 .. k + 1
        BY <3>3
      <4> HIDE DEF I
      <4> QED  BY <3>2, <3>4, <3>6, <4>1, <4>2 DEF Elems
    <3>8. Distinct(r)
      <4> SUFFICES ASSUME NEW i \in 1 .. k + 1, NEW j \in 1 .. k + 1, r[i] = r[j] PROVE i = j
        BY <3>4 DEF Distinct
      <4>1. (i \in 1 .. k \/ i = k + 1) /\ (j \in 1 .. k \/ j = k + 1)
        BY <3>3
      <4> HIDE DEF I
      <4> QED  BY <3>2, <3>4, <3>5, <4>1 DEF Distinct
    <3> QED  BY <3>1, <3>4, <3>7, <3>8
  <2> QED  BY <2>1, <2>2
<1>8. Nat \subseteq N
  <2> HIDE DEF N
  <2> QED  BY <1>6, <1>7, Induct
<1> DEFINE h == [n \in Nat |-> picked(f[n])]
<1>9. h[0] = <<>>
  BY <1>4
<1> HIDE DEF picked
<1>10. ASSUME NEW n \in Nat
       PROVE  h[n + 1] = IF n + 1 \in indices THEN Append(h[n], c[n + 1]) ELSE h[n]
  <2>1. CASE n + 1 \notin indices
    BY <1>3, <2>1
  <2>2. CASE n + 1 \in indices
    <3>1. PICK q, r : q = f[n] /\ r = f[n + 1]
      OBVIOUS
    <3>2. r = Append(q, n + 1) /\ q \in Seq(Nat)
      BY <1>3, <2>2, <3>1 DEF V
    <3>3. PICK k \in Nat : k = Len(q)
      BY <3>2
    <3>4. /\ DOMAIN q = 1 .. k /\ DOMAIN r = 1 .. k + 1
          /\ r[k + 1] = n + 1 /\ \A i \in 1 .. k : r[i] = q[i]
      BY <3>2, <3>3
    <3>5. PICK a, b : a = picked(q) /\ b = picked(r)
      OBVIOUS
    <3>6. a = [j \in 1 .. k |-> c[q[j]]] /\ b = [j \in 1 .. k + 1 |-> c[r[j]]]
      BY <3>4, <3>5 DEF picked
    <3>7. b = Append(a, c[n + 1])
      <4> DEFINE T == {c[q[j]] : j \in 1 .. k} \cup {c[n + 1]}
      <4>0. (\A j \in 1 .. k : c[q[j]] \in T) /\ c[n + 1] \in T
        OBVIOUS
      <4> HIDE DEF T
      <4>1. a \in Seq(T) /\ Len(a) = k
        BY <3>6, <4>0
      <4>2. b = [j \in 1 .. k + 1 |-> IF j = k + 1 THEN c[n + 1] ELSE a[j]]
        BY <3>4, <3>6
      <4>3. PICK m \in Nat : m = k + 1
        OBVIOUS
      <4>4. b \in Seq(T) /\ Len(b) = m
        <5>1. \A j \in 1 .. m : b[j] \in T
          <6> SUFFICES ASSUME NEW j \in 1 .. k + 1 PROVE b[j] \in T
            BY <4>3
          <6>1. j = k + 1 \/ j \in 1 .. k
            OBVIOUS
          <6> QED  BY <3>6, <4>0, <4>2, <6>1
        <5>2. b = [j \in 1 .. m |-> b[j]]
          BY <4>2, <4>3
        <5> QED  BY <5>1, <5>2
      <4>5. /\ Append(a, c[n + 1]) \in Seq(T) /\ Len(Append(a, c[n + 1])) = k + 1
            /\ Append(a, c[n + 1])[k + 1] = c[n + 1]
            /\ \A j \in 1 .. k : Append(a, c[n + 1])[j] = a[j]
        BY <4>0, <4>1, AppendProperties
      <4>6. ASSUME NEW j \in 1 .. k + 1 PROVE b[j] = Append(a, c[n + 1])[j]
        <5>1. j = k + 1 \/ j \in 1 .. k
          OBVIOUS
        <5> QED  BY <4>2, <4>5, <5>1
      <4> QED  BY <4>3, <4>4, <4>5, <4>6, SeqEqual
    <3>8. h[n] = picked(f[n]) /\ h[n + 1] = picked(f[n + 1])
      BY DEF h
    <3>9. h[n] = a /\ h[n + 1] = b
      BY <3>1, <3>5, <3>8
    <3> QED  BY <2>2, <3>7, <3>9
  <2> QED  BY <2>1, <2>2
<1> HIDE DEF h
<1>11. h = G(h)
  <2>1. ASSUME NEW i \in Nat PROVE h[i] = G(h)[i]
    <3>1. CASE i = 0
      BY <1>9, <3>1
    <3>2. CASE i # 0
      <4>1. PICK k \in Nat : i = k + 1
        <5>1. i - 1 \in Nat /\ i = (i - 1) + 1
          BY <3>2
        <5> QED  BY <5>1
      <4>2. i - 1 = k
        BY <4>1
      <4> QED  BY <1>10, <3>2, <4>1, <4>2
    <3> QED  BY <3>1, <3>2
  <2>2. h = [n \in Nat |-> h[n]]
    BY DEF h
  <2> QED  BY <2>1, <2>2
<1> DEFINE upTo == CHOOSE g : g = G(g)
<1>12. upTo = G(upTo)
  BY <1>11, Zenon
<1>13. Keep(c, indices) = upTo[Len(c)]
  BY DEF Keep
<1> HIDE DEF upTo
<1> DEFINE M == {i \in Nat : upTo[i] = h[i]}
<1>14. 0 \in M
  BY <1>9, <1>12
<1>15. ASSUME NEW k \in Nat, k \in M PROVE k + 1 \in M
  <2>1. (k + 1) - 1 = k /\ k + 1 # 0 /\ k + 1 \in Nat
    OBVIOUS
  <2>2. upTo[k + 1] = IF k + 1 \in indices THEN Append(upTo[k], c[k + 1]) ELSE upTo[k]
    BY <1>12, <2>1
  <2> QED  BY <2>2, <1>10, <1>15
<1>16. Nat \subseteq M
  <2> HIDE DEF M
  <2> QED  BY <1>14, <1>15, Induct
<1>17. Keep(c, indices) = picked(f[Len(c)])
  BY <1>5, <1>13, <1>16 DEF h
<1>18. I(Len(c)) = indices
  BY <1>5
<1>19. PICK q : q = f[Len(c)]
  OBVIOUS
<1>20. q \in Seq(Nat) /\ Distinct(q) /\ Elems(q) = indices
  <2>1. Len(c) \in N
    BY <1>5, <1>8
  <2> QED  BY <1>18, <1>19, <2>1
<1>21. q \in Seq(indices)
  BY <1>20, SeqNarrow
<1> QED  BY <1>17, <1>19, <1>20, <1>21 DEF Lists, picked

LEMMA ListLength ==
  ASSUME NEW indices, NEW q, Lists(q, indices)
  PROVE  IsFiniteSet(indices) /\ Len(q) = Cardinality(indices)
<1> DEFINE n == Len(q)
<1>1. q \in [1 .. n -> indices] /\ n \in Nat /\ DOMAIN q = 1 .. n
  BY DEF Lists
<1>2. \A i, j \in 1 .. n : q[i] = q[j] => i = j
  BY <1>1 DEF Lists, Distinct
<1>3. \A x \in indices : \E i \in 1 .. n : q[i] = x
  BY <1>1 DEF Lists, Elems
<1> HIDE DEF n
<1>4. q \in Bijection(1 .. n, indices)
  BY <1>1, <1>2, <1>3 DEF Bijection, Injection, Surjection, IsInjective
<1>5. ExistsBijection(1 .. n, indices)
  BY <1>4 DEF ExistsBijection
<1>6. IsFiniteSet(1 .. n) /\ Cardinality(1 .. n) = n
  BY <1>1, FS_Interval
<1>7. IsFiniteSet(indices) /\ Cardinality(indices) = Cardinality(1 .. n)
  BY <1>5, <1>6, FS_Bijection
<1> QED  BY <1>6, <1>7 DEF n

LEMMA KeepFacts ==
  ASSUME NEW S, NEW c \in Seq(S), NEW indices \in SUBSET DOMAIN c
  PROVE  /\ Keep(c, indices) \in Seq({c[i] : i \in indices})
         /\ Elems(Keep(c, indices)) = {c[i] : i \in indices}
         /\ IsFiniteSet(indices) /\ Len(Keep(c, indices)) = Cardinality(indices)
<1>1. PICK q : Lists(q, indices) /\ Keep(c, indices) = [j \in DOMAIN q |-> c[q[j]]]
  BY KeepPicks
<1>2. PICK k, n : k = Keep(c, indices) /\ n = Len(q)
  OBVIOUS
<1>3. n \in Nat /\ DOMAIN q = 1 .. n /\ \A j \in 1 .. n : q[j] \in indices
  BY <1>1, <1>2 DEF Lists
<1>4. k = [j \in 1 .. n |-> c[q[j]]]
  BY <1>1, <1>2, <1>3
<1> DEFINE T == {c[i] : i \in indices}
<1>5. \A j \in 1 .. n : k[j] \in T
  BY <1>3, <1>4
<1>6. Elems(k) = T
  <2>1. \A i \in indices : \E j \in 1 .. n : q[j] = i
    BY <1>1, <1>3 DEF Lists, Elems
  <2> QED  BY <2>1, <1>3, <1>4 DEF Elems
<1> HIDE DEF T
<1>7. k \in Seq(T) /\ Len(k) = n
  <2>1. k \in [1 .. n -> T]
    BY <1>4, <1>5
  <2> QED  BY <2>1, <1>3, <1>4
<1>8. IsFiniteSet(indices) /\ n = Cardinality(indices)
  BY <1>1, <1>2, ListLength
<1> QED  BY <1>2, <1>6, <1>7, <1>8 DEF T

-----------------------------------------------------------------------------
(* The overview: its operations *)

\* The first w are the writes, all of them, and the rest are reads.
WritesFirst(ord, ops, w) ==
  /\ w \in 0 .. Len(ops)
  /\ \A k \in 1 .. w : ~ord[k].read
  /\ \A j \in 1 .. Len(ops) : ~ops[j].read => \E k \in 1 .. w : ord[k] = ops[j]

LEMMA OrderedFacts ==
  ASSUME NEW ops, IsSequence(ops)
  PROVE  /\ Ordered(ops) \in Seq(Elems(ops)) /\ Len(Ordered(ops)) = Len(ops)
         /\ \E w : WritesFirst(Ordered(ops), ops, w)
<1> DEFINE n == Len(ops)
           reads == {j \in DOMAIN ops : ops[j].read}
           writes == DOMAIN ops \ reads
           S == Elems(ops)
<1>1. ops \in Seq(S) /\ n \in Nat /\ DOMAIN ops = 1 .. n
  BY DEF IsSequence
<1>2. PICK a, b : a = Keep(ops, writes) /\ b = Keep(ops, reads)
  OBVIOUS
<1>3. Ordered(ops) = a \o b
  BY <1>2 DEF Ordered
<1>4. /\ a \in Seq({ops[i] : i \in writes}) /\ Elems(a) = {ops[i] : i \in writes}
      /\ IsFiniteSet(writes) /\ Len(a) = Cardinality(writes)
  <2> HIDE DEF S, reads
  <2> QED  BY <1>1, <1>2, KeepFacts
<1>5. /\ b \in Seq({ops[i] : i \in reads}) /\ IsFiniteSet(reads) /\ Len(b) = Cardinality(reads)
  <2>1. reads \in SUBSET DOMAIN ops
    OBVIOUS
  <2> HIDE DEF S, reads
  <2> QED  BY <1>1, <1>2, <2>1, KeepFacts
<1>6. a \in Seq(S) /\ b \in Seq(S)
  <2>1. Elems(a) \subseteq S /\ Elems(b) \subseteq S
    <3>1. Elems(b) \subseteq {ops[i] : i \in reads}
      BY <1>5 DEF Elems
    <3> QED  BY <1>4, <3>1 DEF Elems
  <2> QED  BY <1>4, <1>5, <2>1, SeqNarrow
<1>7. Len(a) + Len(b) = n
  <2>1. writes \cup reads = 1 .. n /\ writes \cap reads = {}
    BY <1>1
  <2>2. IsFiniteSet(1 .. n) /\ Cardinality(1 .. n) = n
    BY <1>1, FS_Interval
  <2>3. IsFiniteSet(writes \cap reads) /\ Cardinality(writes \cap reads) = 0
    BY <2>1, FS_EmptySet
  <2>4. Cardinality(writes) \in Nat /\ Cardinality(reads) \in Nat
    BY <1>4, <1>5, FS_CardinalityType
  <2>5. Cardinality(writes \cup reads)
          = Cardinality(writes) + Cardinality(reads) - Cardinality(writes \cap reads)
    BY <1>4, <1>5, FS_Union
  <2> HIDE DEF n, writes, reads
  <2>6. Cardinality(writes \cup reads) = n
    BY ONLY <2>1, <2>2, Zenon
  <2>7. PICK x, y, z : /\ x = Cardinality(writes) /\ y = Cardinality(reads)
                       /\ z = Cardinality(writes \cap reads)
    OBVIOUS
  <2>8. n = x + y - z /\ z = 0 /\ x \in Nat /\ y \in Nat
    BY ONLY <2>3, <2>4, <2>5, <2>6, <2>7
  <2>9. n = x + y
    BY ONLY <2>8
  <2>10. Len(a) = x /\ Len(b) = y
    BY ONLY <1>4, <1>5, <2>7
  <2> QED  BY ONLY <2>9, <2>10
<1>8. PICK ord : ord = a \o b
  OBVIOUS
<1> HIDE DEF S, n
<1>9. PICK w : w = Len(a)
  OBVIOUS
<1>10. /\ ord \in Seq(S) /\ Len(ord) = n /\ w \in Nat /\ w <= n
       /\ DOMAIN a = 1 .. w /\ \A k \in 1 .. w : ord[k] = a[k]
  <2>1. Len(a) \in Nat /\ Len(b) \in Nat /\ DOMAIN a = 1 .. Len(a)
    BY <1>6
  <2>2. a \o b \in Seq(S) /\ Len(a \o b) = Len(a) + Len(b) /\ \A k \in 1 .. Len(a) : (a \o b)[k] = a[k]
    BY <1>6, ConcatProperties
  <2> QED  BY <1>1, <1>7, <1>8, <1>9, <2>1, <2>2
<1>11. \A k \in 1 .. w : ~ord[k].read
  <2>1. \A k \in 1 .. w : a[k] \in {ops[i] : i \in writes}
    BY <1>4, <1>9
  <2>2. \A i \in writes : ~ops[i].read
    OBVIOUS
  <2> HIDE DEF writes
  <2> QED  BY <1>10, <2>1, <2>2
<1>12. ASSUME NEW j \in 1 .. n, ~ops[j].read PROVE \E k \in 1 .. w : ord[k] = ops[j]
  <2>1. j \in writes
    BY <1>1, <1>12
  <2> HIDE DEF writes
  <2>2. ops[j] \in Elems(a)
    BY <1>4, <2>1
  <2> QED  BY <1>10, <2>2 DEF Elems
<1>13. WritesFirst(ord, ops, w)
  BY <1>10, <1>11, <1>12 DEF WritesFirst, n
<1> QED  BY <1>3, <1>8, <1>10, <1>13 DEF S, n

-----------------------------------------------------------------------------
(* The overview: what a summary reports *)

MembersOf(f) ==
  IF "input" \in DOMAIN f.args /\ f.args["input"].t = "obj"
  THEN DOMAIN f.args["input"].m \ {"clientMutationId"} ELSE {}
Reported(o) ==
  {t.path : t \in o.targets} \cup o.effects \cup {w.key : w \in o.warnings}
    \cup IF o.action \in ReviewEvents THEN {"event"} ELSE {}
Vague(o) == \E w \in o.warnings : w.what \in {"inspect every argument", "input unavailable"}

LEMMA EventIsReviews ==
  ASSUME NEW field \in DOMAIN Allowed, "event" \in Allowed[field]
  PROVE  field \in {"addPullRequestReview", "submitPullRequestReview"}
BY DEF Allowed

LEMMA InputReported ==
  ASSUME NEW f, NEW given, f.field \in DOMAIN Allowed, NEW o, o = InputSummary(f, given)
  PROVE  ((DOMAIN given.m \ {"clientMutationId"}) \cup (DOMAIN f.args \ {"input"})) \subseteq Reported(o)
<1> DEFINE allowed == Allowed[f.field]
           named == NodeKeys(given, allowed)
           targets == {[path |-> k, id |-> TextOf(given.m[k]), type |-> IdKeys[k]] :
                         k \in {x \in named : Resolvable(given.m[x])}}
           isReview == f.field \in {"addPullRequestReview", "submitPullRequestReview"}
           event == TextOf(Get(given.m, "event"))
           arguments == {Warning("argument", k) : k \in DOMAIN f.args \ {"input"}}
           others == {Warning("not summarized", k) :
                        k \in DOMAIN given.m \ (allowed \cup {"clientMutationId"})}
           badNodes == {Warning("not a node ID", k) : k \in {x \in named : ~Resolvable(given.m[x])}}
           noEvent == IF isReview /\ event \notin ReviewEvents
                      THEN {Warning("event", "event")} ELSE {}
           noTarget == IF targets = {} /\ f.field # "createCommitOnBranch"
                       THEN {Warning("no target", None)} ELSE {}
<1>1. o = [action |-> IF isReview /\ event \in ReviewEvents THEN event ELSE f.field,
           targets |-> targets, effects |-> Effects(given, allowed, targets),
           warnings |-> arguments \cup others \cup badNodes \cup noEvent \cup noTarget]
  BY DEF InputSummary
<1> HIDE DEF targets, arguments, others, badNodes, noEvent, noTarget, named, isReview, event, allowed
<1>2. /\ o.action = IF isReview /\ event \in ReviewEvents THEN event ELSE f.field
      /\ o.targets = targets /\ o.effects = Effects(given, allowed, targets)
      /\ o.warnings = arguments \cup others \cup badNodes \cup noEvent \cup noTarget
  BY <1>1
<1>3. \A w \in o.warnings : w.key \in Reported(o)
  BY DEF Reported
<1>4. ASSUME NEW k \in DOMAIN f.args \ {"input"} PROVE k \in Reported(o)
  <2>1. Warning("argument", k) \in o.warnings
    BY <1>2 DEF arguments
  <2> QED  BY <1>3, <2>1 DEF Warning
<1>5. ASSUME NEW k \in DOMAIN given.m, k # "clientMutationId" PROVE k \in Reported(o)
  <2>1. CASE k \notin allowed
    <3>1. Warning("not summarized", k) \in o.warnings
      BY <1>2, <1>5, <2>1 DEF others
    <3> QED  BY <1>3, <3>1 DEF Warning
  <2>2. CASE k \in allowed /\ k \in {t.path : t \in targets}
    BY <1>2, <2>2 DEF Reported
  <2>3. CASE k \in allowed /\ k = "event"
    <3>1. isReview
      BY <2>3, EventIsReviews DEF allowed, isReview
    <3>2. CASE event \in ReviewEvents
      BY <1>2, <2>3, <3>1, <3>2 DEF Reported
    <3>3. CASE event \notin ReviewEvents
      <4>1. Warning("event", "event") \in o.warnings
        BY <1>2, <3>1, <3>3 DEF noEvent
      <4> QED  BY <1>3, <2>3, <4>1 DEF Warning
    <3> QED  BY <3>2, <3>3
  <2>4. CASE k \in allowed /\ k \notin {t.path : t \in targets} /\ k # "event"
    BY <1>2, <2>4 DEF Effects, Reported
  <2> QED  BY <2>1, <2>2, <2>3, <2>4
<1> QED  BY <1>4, <1>5

\* The summary of a write leaves nothing out, or says that it does.
SaysAll(fields, i, o) ==
  /\ o.index = i /\ o.read = FALSE /\ (o.conditional <=> fields[i].conditions # <<>>)
  /\ Vague(o) \/ (MembersOf(fields[i]) \cup (DOMAIN fields[i].args \ {"input"})) \subseteq Reported(o)

LEMMA WriteReported ==
  ASSUME NEW fields, NEW i, NEW o, o = WriteSummary(fields, i)
  PROVE  SaysAll(fields, i, o)
<1> DEFINE f == fields[i]
           given == Get(f.args, "input")
           bare(what) == [action |-> f.field, targets |-> {}, effects |-> {},
                          warnings |-> {Warning(what, None)}]
           shown == IF f.field \notin DOMAIN Allowed THEN bare("inspect every argument")
                    ELSE IF given = None \/ given.t # "obj" THEN bare("input unavailable")
                    ELSE InputSummary(f, given)
<1>1. o = [index |-> i, field |-> f.field, action |-> shown.action, read |-> FALSE,
           conditional |-> f.conditions # <<>>, warnings |-> shown.warnings,
           targets |-> shown.targets, effects |-> shown.effects]
  BY DEF WriteSummary
<1> HIDE DEF shown, given
<1>2. /\ o.index = i /\ o.read = FALSE /\ (o.conditional <=> f.conditions # <<>>)
      /\ o.action = shown.action /\ o.warnings = shown.warnings
      /\ o.targets = shown.targets /\ o.effects = shown.effects
  <2>1. PICK c : c = (f.conditions # <<>>)
    OBVIOUS
  <2>2. o = [index |-> i, field |-> f.field, action |-> shown.action, read |-> FALSE,
             conditional |-> c, warnings |-> shown.warnings,
             targets |-> shown.targets, effects |-> shown.effects]
    BY <1>1, <2>1
  <2>3. /\ o.index = i /\ o.read = FALSE /\ o.conditional = c
        /\ o.action = shown.action /\ o.warnings = shown.warnings
        /\ o.targets = shown.targets /\ o.effects = shown.effects
    BY ONLY <2>2
  <2> QED  BY <2>1, <2>3
<1>3. ASSUME NEW what \in {"inspect every argument", "input unavailable"}, shown = bare(what)
      PROVE  Vague(o)
  <2>1. Warning(what, None) \in o.warnings
    BY <1>2, <1>3
  <2> QED  BY <2>1 DEF Vague, Warning
<1>4. CASE f.field \in DOMAIN Allowed /\ given # None /\ given.t = "obj"
  <2>1. shown = InputSummary(f, given)
    BY <1>4 DEF shown
  <2>2. "input" \in DOMAIN f.args /\ given = f.args["input"]
    BY <1>4 DEF given, Get
  <2>3. MembersOf(f) = DOMAIN given.m \ {"clientMutationId"}
    BY <1>4, <2>2 DEF MembersOf
  <2>4. (MembersOf(f) \cup (DOMAIN f.args \ {"input"})) \subseteq Reported(shown)
    BY <1>4, <2>1, <2>3, InputReported
  <2>5. Reported(o) = Reported(shown)
    BY <1>2 DEF Reported
  <2> QED  BY <1>2, <2>4, <2>5 DEF SaysAll
<1>5. CASE ~(f.field \in DOMAIN Allowed /\ given # None /\ given.t = "obj")
  <2>1. \E what \in {"inspect every argument", "input unavailable"} : shown = bare(what)
    BY <1>5 DEF shown
  <2> QED  BY <1>2, <1>3, <2>1 DEF SaysAll
<1> QED  BY <1>4, <1>5

\* What the code calls a write, and the operations of the overview.
Writes(kind, fields) ==
  {i \in DOMAIN fields : kind = "mutation" /\ Len(fields[i].path) = 1
                           /\ fields[i].field # "__typename"}
OperationOK(kind, fields, o) ==
  /\ o.index \in DOMAIN fields
  /\ o.conditional <=> fields[o.index].conditions # <<>>
  /\ o.index \in Writes(kind, fields) =>
       /\ ~o.read
       /\ Vague(o) \/ (MembersOf(fields[o.index]) \cup (DOMAIN fields[o.index].args \ {"input"}))
                        \subseteq Reported(o)

LEMMA OperationsOK ==
  ASSUME NEW kind, NEW fields, IsSequence(fields), \A i \in DOMAIN fields : ParentOK(fields, i),
         NEW ops, ops = OperationSummaries(kind, fields)
  PROVE  /\ IsSequence(ops) /\ \A o \in Elems(ops) : OperationOK(kind, fields, o)
         /\ \A i \in Writes(kind, fields) : \E j \in 1 .. Len(ops) : ops[j].index = i
<1> DEFINE n == Len(fields)
           ids == [i \in DOMAIN fields |-> i]
           shown == {i \in DOMAIN fields : \/ fields[i].parent = 0
                                           \/ DOMAIN fields[i].args # {}
                                           \/ fields[i].target # None}
           indices == Keep(ids, shown)
           summary(i) == IF IsRead(kind, fields[i]) THEN ReadSummary(fields, i)
                         ELSE WriteSummary(fields, i)
<1>1. n \in Nat /\ DOMAIN fields = 1 .. n
  BY DEF IsSequence
<1>2. ids \in Seq(Nat) /\ DOMAIN ids = 1 .. n /\ \A i \in 1 .. n : ids[i] = i
  <2>1. ids = [i \in 1 .. n |-> i]
    BY <1>1
  <2> QED  BY <1>1, <2>1
<1>3. shown \in SUBSET DOMAIN ids /\ shown \subseteq 1 .. n
  BY <1>1, <1>2
<1>4. ops = [j \in DOMAIN indices |-> summary(indices[j])]
  BY DEF OperationSummaries
<1> HIDE DEF ids, n
<1>5. {ids[i] : i \in shown} = shown
  BY <1>2, <1>3
<1>6. indices \in Seq(shown) /\ Elems(indices) = shown
  <2> HIDE DEF shown
  <2>1. /\ Keep(ids, shown) \in Seq({ids[i] : i \in shown})
        /\ Elems(Keep(ids, shown)) = {ids[i] : i \in shown}
    <3>1. ids \in Seq(Nat) /\ shown \in SUBSET DOMAIN ids
      BY <1>2, <1>3
    <3> QED  BY ONLY <3>1, KeepFacts
  <2> QED  BY <1>5, <2>1
<1>7. ASSUME NEW i \in 1 .. n
      PROVE  summary(i).index = i /\ OperationOK(kind, fields, summary(i))
  <2>1. PICK o : o = summary(i)
    OBVIOUS
  <2>2. CASE IsRead(kind, fields[i])
    <3>1. o.index = i /\ (o.conditional <=> fields[i].conditions # <<>>)
      BY <2>1, <2>2 DEF ReadSummary
    <3>2. i \notin Writes(kind, fields)
      <4>1. ParentOK(fields, i)
        BY <1>1
      <4> QED  BY <2>2, <4>1 DEF Writes, IsRead, ParentOK
    <3> QED  BY <1>1, <2>1, <3>1, <3>2 DEF OperationOK
  <2>3. CASE ~IsRead(kind, fields[i])
    <3>1. o = WriteSummary(fields, i)
      BY <2>1, <2>3
    <3>2. SaysAll(fields, i, o)
      BY ONLY <3>1, WriteReported
    <3>3. o.index = i /\ OperationOK(kind, fields, o)
      BY <1>1, <3>2 DEF OperationOK, SaysAll
    <3> QED  BY ONLY <2>1, <3>3
  <2> QED  BY <2>2, <2>3
<1> HIDE DEF summary, indices
<1>8. PICK m \in Nat : m = Len(indices) /\ DOMAIN indices = 1 .. m
  BY <1>6
<1>9. /\ \A j \in 1 .. m : indices[j] \in shown /\ ops[j] = summary(indices[j])
      /\ ops = [j \in 1 .. m |-> ops[j]]
  BY <1>4, <1>6, <1>8
<1>10. IsSequence(ops) /\ DOMAIN ops = 1 .. m /\ Len(ops) = m
  <2>1. \A j \in 1 .. m : ops[j] \in Elems(ops)
    BY <1>9 DEF Elems
  <2>2. ops \in [1 .. m -> Elems(ops)]
    BY <1>9, <2>1
  <2>3. PICK T : T = Elems(ops)
    OBVIOUS
  <2>4. ops \in Seq(T) /\ DOMAIN ops = 1 .. m /\ Len(ops) = m
    BY <2>2, <2>3
  <2> QED  BY <2>3, <2>4 DEF IsSequence
<1>11. \A o \in Elems(ops) : OperationOK(kind, fields, o)
  <2>1. \A j \in 1 .. m : OperationOK(kind, fields, ops[j])
    BY <1>3, <1>7, <1>9
  <2> QED  BY <1>10, <2>1 DEF Elems
<1>12. ASSUME NEW i \in Writes(kind, fields) PROVE \E j \in 1 .. m : ops[j].index = i
  <2>1. i \in 1 .. n /\ fields[i].parent = 0
    <3>1. i \in DOMAIN fields /\ Len(fields[i].path) = 1
      BY DEF Writes
    <3> QED  BY <1>1, <3>1 DEF ParentOK
  <2>2. i \in shown
    BY <1>1, <2>1
  <2>3. PICK j \in 1 .. m : indices[j] = i
    BY <1>6, <1>8, <2>2 DEF Elems
  <2> QED  BY <1>7, <1>9, <2>1, <2>3
<1> QED  BY <1>10, <1>11, <1>12

-----------------------------------------------------------------------------
(* The overview: its lists *)

FactLists == {"fields", "repositories", "targets", "artifacts"}
FactList(s) == IsSequence(s) /\ \A x \in Elems(s) : x[1] \in FactLists

LEMMA FactListsJoin ==
  ASSUME NEW s, NEW t, FactList(s), FactList(t)
  PROVE  FactList(s \o t)
<1> DEFINE S == Elems(s) \cup Elems(t)
<1>1. s \in Seq(S) /\ t \in Seq(S)
  BY SeqMonotonic DEF FactList, IsSequence
<1>2. \A x \in S : x[1] \in FactLists
  BY DEF FactList
<1> HIDE DEF S
<1>3. s \o t \in Seq(S)
  BY <1>1, ConcatProperties
<1>4. Elems(s \o t) \subseteq S
  BY <1>3 DEF Elems
<1>5. IsSequence(s \o t)
  BY <1>1, <1>3, SeqNarrow DEF IsSequence
<1> QED  BY <1>2, <1>4, <1>5 DEF FactList

LEMMA FactListsSmall ==
  /\ FactList(<<>>)
  /\ \A l \in FactLists : \A v : FactList(<< <<l, v>> >>)
  /\ \A k, l, m \in FactLists : \A u, v, w : FactList(<< <<k, u>>, <<l, v>>, <<m, w>> >>)
<1>1. FactList(<<>>)
  BY SmallSequences DEF FactList, Elems
<1>2. ASSUME NEW l \in FactLists, NEW v PROVE FactList(<< <<l, v>> >>)
  <2>1. PICK x : x = <<l, v>>
    OBVIOUS
  <2>2. x[1] = l /\ IsSequence(<<x>>) /\ Elems(<<x>>) = {x}
    BY <2>1, SmallSequences DEF Elems
  <2> QED  BY <2>1, <2>2 DEF FactList
<1>3. ASSUME NEW k \in FactLists, NEW l \in FactLists, NEW m \in FactLists, NEW u, NEW v, NEW w
      PROVE  FactList(<< <<k, u>>, <<l, v>>, <<m, w>> >>)
  <2>1. PICK x, y, z : x = <<k, u>> /\ y = <<l, v>> /\ z = <<m, w>>
    OBVIOUS
  <2>2. x[1] = k /\ y[1] = l /\ z[1] = m
    BY <2>1
  <2>3. PICK s : s = <<x, y, z>>
    OBVIOUS
  <2>4. s \in Seq({x, y, z}) /\ Elems(s) \subseteq {x, y, z}
    BY <2>3 DEF Elems
  <2>5. IsSequence(s)
    BY <2>4, SeqNarrow DEF IsSequence
  <2> QED  BY <2>1, <2>2, <2>3, <2>4, <2>5 DEF FactList
<1> QED  BY <1>1, <1>2, <1>3

LEMMA FieldFactsListed ==
  ASSUME NEW kind, NEW f
  PROVE  FactList(FieldFacts(kind, f))
<1> DEFINE branch == Member(Get(f.args, "input"), "branch")
           owner == StringOf(Get(f.args, "owner"))
           name == StringOf(Get(f.args, "name"))
           commit == kind = "mutation" /\ f.parent = 0 /\ f.field = "createCommitOnBranch"
           repository == StringOf(Member(branch, "repositoryNameWithOwner"))
           head == StringOf(Member(branch, "branchName"))
           t == f.target
           a == IF f.parent = 0 THEN <<<<"fields", f.field>>>> ELSE <<>>
           b == IF kind = "query" /\ f.parent = 0 /\ f.field = "repository"
                   /\ owner # None /\ name # None
                THEN <<<<"repositories", <<owner, name>>>>>> ELSE <<>>
           c == IF commit /\ repository # None THEN <<<<"repositories", <<repository>>>>>> ELSE <<>>
           d == IF commit /\ head # None THEN <<<<"targets", <<"branch", head>>>>>> ELSE <<>>
           e == IF t = None THEN <<>>
                ELSE IF t.kind = "node" THEN <<<<"targets", <<t.type, t.id>>>>>>
                ELSE <<<<"repositories", <<t.owner, t.repository>>>>, <<"targets", <<"#", t.number>>>>,
                       <<"artifacts", <<t.owner, t.repository, t.number, t.type>>>>>>
<1>1. FieldFacts(kind, f) = (((a \o b) \o c) \o d) \o e
  BY DEF FieldFacts
<1>2. /\ "fields" \in FactLists /\ "repositories" \in FactLists
      /\ "targets" \in FactLists /\ "artifacts" \in FactLists
  BY DEF FactLists
<1> HIDE DEF branch, owner, name, commit, repository, head, t
<1>3. FactList(a) /\ FactList(b) /\ FactList(c) /\ FactList(d)
  BY <1>2, FactListsSmall
<1>4. FactList(e)
  <2>1. CASE t = None
    BY <2>1, FactListsSmall
  <2>2. CASE t # None /\ t.kind = "node"
    BY <1>2, <2>2, FactListsSmall
  <2>3. CASE t # None /\ t.kind # "node"
    <3>1. FactList(<< <<"repositories", <<t.owner, t.repository>>>>, <<"targets", <<"#", t.number>>>>,
                     <<"artifacts", <<t.owner, t.repository, t.number, t.type>>>> >>)
      BY ONLY <1>2, FactListsSmall
    <3> QED  BY <2>3, <3>1
  <2> QED  BY <2>1, <2>2, <2>3
<1> HIDE DEF a, b, c, d, e
<1> QED  BY <1>1, <1>3, <1>4, FactListsJoin

LEMMA PushesListed ==
  ASSUME NEW kind, NEW fields, IsSequence(fields)
  PROVE  FactList(FlattenSeq([i \in DOMAIN fields |-> FieldFacts(kind, fields[i])]))
<1> DEFINE ss == [i \in DOMAIN fields |-> FieldFacts(kind, fields[i])]
           S == UNION {Elems(FieldFacts(kind, fields[i])) : i \in DOMAIN fields}
           T == Seq(S)
<1>1. PICK n \in Nat : DOMAIN fields = 1 .. n
  BY DEF IsSequence
<1>2. \A x \in S : x[1] \in FactLists
  BY FieldFactsListed DEF FactList
<1>3. ASSUME NEW i \in 1 .. n PROVE FieldFacts(kind, fields[i]) \in T
  <2>1. IsSequence(FieldFacts(kind, fields[i])) /\ Elems(FieldFacts(kind, fields[i])) \subseteq S
    BY <1>1, FieldFactsListed DEF FactList
  <2> QED  BY <2>1, SeqMonotonic DEF IsSequence
<1> HIDE DEF T, S
<1>4. ss \in Seq(T)
  <2>1. ss \in [1 .. n -> T]
    BY <1>1, <1>3
  <2> HIDE DEF ss
  <2> QED  BY <2>1
<1>5. ss \in Seq(Seq(S)) /\ <<>> \in Seq(S)
  BY <1>4 DEF T
<1> HIDE DEF ss
<1>6. PICK p : p = FlattenSeq(ss)
  OBVIOUS
<1>7. p \in Seq(S)
  BY <1>5, <1>6, FlattenAppend
<1>8. Elems(p) \subseteq S
  BY <1>7 DEF Elems
<1>9. IsSequence(p)
  BY <1>7, SeqNarrow DEF IsSequence
<1>10. FactList(p)
  BY <1>2, <1>8, <1>9 DEF FactList
<1> QED  BY <1>6, <1>10 DEF ss

\* The overview while facts are pushed: its operations do not change.
Overviews(shown, omitted, U) ==
  {v \in [operations : {shown}, omitted : {omitted}, more : BOOLEAN, fields : Seq(U),
          repositories : Seq(U), targets : Seq(U), artifacts : Seq(U)] :
     omitted > 0 => v.more = TRUE}

LEMMA PushKeeps ==
  ASSUME NEW shown, NEW omitted, NEW U, NEW v \in Overviews(shown, omitted, U),
         NEW l \in FactLists, NEW x \in U
  PROVE  PushFact(v, l, x) \in Overviews(shown, omitted, U)
<1> DEFINE V == Seq(U)
           R == [operations : {shown}, omitted : {omitted}, more : BOOLEAN, fields : V,
                 repositories : V, targets : V, artifacts : V]
<1>1. v \in R /\ (omitted > 0 => v.more = TRUE)
  BY DEF Overviews
<1>2. \A s \in V : Append(s, x) \in V
  OBVIOUS
<1>3. Overviews(shown, omitted, U) = {w \in R : omitted > 0 => w.more = TRUE}
  BY DEF Overviews
<1> HIDE DEF V
<1>4. [v EXCEPT !.more = TRUE] \in R /\ [v EXCEPT !.more = TRUE].more = TRUE
  BY <1>1
<1>5. v[l] \in V
  BY <1>1 DEF FactLists
<1>6. PICK y \in V : y = Append(v[l], x)
  BY <1>2, <1>5
<1>7. [v EXCEPT ![l] = Append(@, x)] = [v EXCEPT ![l] = y]
  BY <1>6
<1>8. [v EXCEPT ![l] = y] \in R /\ [v EXCEPT ![l] = y].more = v.more
  <2>1. CASE l = "fields"
    <3>1. [v EXCEPT ![l] = y] = [v EXCEPT !.fields = y]
      BY <2>1
    <3>2. [v EXCEPT !.fields = y] \in R /\ [v EXCEPT !.fields = y].more = v.more
      BY <1>1
    <3> QED  BY <3>1, <3>2
  <2>2. CASE l = "repositories"
    <3>1. [v EXCEPT ![l] = y] = [v EXCEPT !.repositories = y]
      BY <2>2
    <3>2. [v EXCEPT !.repositories = y] \in R /\ [v EXCEPT !.repositories = y].more = v.more
      BY <1>1
    <3> QED  BY <3>1, <3>2
  <2>3. CASE l = "targets"
    <3>1. [v EXCEPT ![l] = y] = [v EXCEPT !.targets = y]
      BY <2>3
    <3>2. [v EXCEPT !.targets = y] \in R /\ [v EXCEPT !.targets = y].more = v.more
      BY <1>1
    <3> QED  BY <3>1, <3>2
  <2>4. CASE l = "artifacts"
    <3>1. [v EXCEPT ![l] = y] = [v EXCEPT !.artifacts = y]
      BY <2>4
    <3>2. [v EXCEPT !.artifacts = y] \in R /\ [v EXCEPT !.artifacts = y].more = v.more
      BY <1>1
    <3> QED  BY <3>1, <3>2
  <2> QED  BY <2>1, <2>2, <2>3, <2>4 DEF FactLists
<1> HIDE DEF R
<1> QED  BY <1>1, <1>3, <1>4, <1>7, <1>8 DEF PushFact

\* The values that pushes add.
PushedValues(pushes) == {p[2] : p \in Elems(pushes)}

LEMMA FactsKeep ==
  ASSUME NEW kind, NEW fields, IsSequence(fields),
         NEW ops, ops = OperationSummaries(kind, fields),
         NEW shown, shown = SubSeq(Ordered(ops), 1,
                                   IF Len(ops) < MaxFacts THEN Len(ops) ELSE MaxFacts),
         NEW omitted, omitted = Len(ops) - Len(shown)
  PROVE  \E U : Facts(kind, fields) \in Overviews(shown, omitted, U)
<1> DEFINE pushes == FlattenSeq([i \in DOMAIN fields |-> FieldFacts(kind, fields[i])])
           L == Len(pushes)
           U == PushedValues(pushes)
           V == Overviews(shown, omitted, U)
           start == [operations |-> shown, omitted |-> omitted, more |-> omitted > 0,
                     fields |-> <<>>, repositories |-> <<>>, targets |-> <<>>, artifacts |-> <<>>]
           G(g) == [n \in 0 .. L |->
                      IF n = 0 THEN start
                      ELSE PushFact(g[n - 1], pushes[n][1], pushes[n][2])]
           after == CHOOSE g : g = G(g)
           F == [n \in Nat |-> [X \in V |->
                   IF n + 1 \in 1 .. L THEN PushFact(X, pushes[n + 1][1], pushes[n + 1][2]) ELSE X]]
<1>1. FactList(pushes)
  BY PushesListed
<1>2. Facts(kind, fields) = after[L]
  BY DEF Facts, FactsOf, Overview, Listed
<1>3. start \in V
  <2>1. PICK c : c = (omitted > 0)
    OBVIOUS
  <2>2. start = [operations |-> shown, omitted |-> omitted, more |-> c,
                 fields |-> <<>>, repositories |-> <<>>, targets |-> <<>>, artifacts |-> <<>>]
    BY <2>1
  <2>3. c \in BOOLEAN /\ (omitted > 0 => c = TRUE)
    <3>1. (omitted > 0) \in BOOLEAN
      OBVIOUS
    <3>2. c \in BOOLEAN
      BY ONLY <2>1, <3>1, Zenon
    <3>3. ASSUME omitted > 0 PROVE c = TRUE
      BY ONLY <2>1, <3>2, <3>3, Zenon
    <3> QED  BY <3>2, <3>3
  <2>4. <<>> \in Seq(U)
    OBVIOUS
  <2> HIDE DEF start, U
  <2>5. start.more = c
    BY ONLY <2>2
  <2> QED  BY <2>2, <2>3, <2>4, <2>5 DEF Overviews
<1> HIDE DEF start, pushes
<1>4. L \in Nat /\ DOMAIN pushes = 1 .. L
  BY <1>1 DEF FactList, IsSequence
<1>5. ASSUME NEW X \in V, NEW n \in 1 .. L
      PROVE  PushFact(X, pushes[n][1], pushes[n][2]) \in V
  <2>1. pushes[n] \in Elems(pushes)
    BY <1>4 DEF Elems
  <2>2. pushes[n][1] \in FactLists /\ pushes[n][2] \in U
    BY <1>1, <2>1 DEF FactList, PushedValues
  <2> HIDE DEF U
  <2> QED  BY <2>2, PushKeeps
<1> HIDE DEF V, U
<1>6. F \in [Nat -> [V -> V]]
  BY <1>5
<1> HIDE DEF L
<1>7. PICK f : IsIteration(f, V, start, F)
  <2> HIDE DEF F
  <2> QED  BY <1>3, <1>6, Iterate
<1>8. f[0] = start /\ \A n \in Nat : f[n] \in V /\ f[n + 1] = F[n][f[n]]
  <2> HIDE DEF F
  <2> QED  BY <1>7 DEF IsIteration
<1> DEFINE h == [n \in 0 .. L |-> f[n]]
<1>9. h = G(h)
  <2>1. ASSUME NEW i \in 0 .. L PROVE h[i] = G(h)[i]
    <3>1. CASE i = 0
      BY <1>4, <1>8, <3>1
    <3>2. CASE i # 0
      <4>1. PICK k \in Nat : i = k + 1
        <5>1. i - 1 \in Nat /\ i = (i - 1) + 1
          BY <1>4, <3>2
        <5> QED  BY <5>1
      <4>2. i - 1 = k /\ k \in 0 .. L /\ k + 1 \in 1 .. L
        BY <1>4, <4>1
      <4>3. f[k + 1] = PushFact(f[k], pushes[k + 1][1], pushes[k + 1][2])
        BY <1>8, <4>2
      <4> QED  BY <3>2, <4>1, <4>2, <4>3
    <3> QED  BY <3>1, <3>2
  <2> QED  BY <2>1
<1>10. after = G(after)
  BY <1>9
<1> HIDE DEF after
<1> DEFINE N == {n \in Nat : n <= L => after[n] \in V}
<1>11. 0 \in N
  BY <1>3, <1>4, <1>10
<1>12. ASSUME NEW n \in Nat, n \in N PROVE n + 1 \in N
  <2> SUFFICES ASSUME n + 1 <= L PROVE after[n + 1] \in V
    OBVIOUS
  <2>1. n <= L /\ n + 1 \in 1 .. L /\ n + 1 \in 0 .. L /\ (n + 1) - 1 = n /\ n + 1 # 0
    BY <1>4
  <2>2. after[n] \in V
    BY <1>12, <2>1
  <2>3. after[n + 1] = PushFact(after[n], pushes[n + 1][1], pushes[n + 1][2])
    BY <1>10, <2>1
  <2> QED  BY <1>5, <2>1, <2>2, <2>3
<1>13. Nat \subseteq N
  <2> HIDE DEF N
  <2> QED  BY <1>11, <1>12, Induct
<1>14. after[L] \in V
  BY <1>4, <1>13
<1> QED  BY <1>2, <1>14 DEF V

(* What of the operations is shown. *)
LEMMA UnseenCounted ==
  ASSUME NEW kind, NEW fields, IsSequence(fields), \A i \in DOMAIN fields : ParentOK(fields, i),
         NEW ops, ops = OperationSummaries(kind, fields),
         NEW shown, shown = SubSeq(Ordered(ops), 1,
                                   IF Len(ops) < MaxFacts THEN Len(ops) ELSE MaxFacts),
         NEW omitted, omitted = Len(ops) - Len(shown),
         NEW unseen, unseen = Writes(kind, fields) \ {o.index : o \in Elems(shown)}
  PROVE  /\ \A o \in Elems(shown) : OperationOK(kind, fields, o)
         /\ unseen # {} =>
              /\ omitted > 0 /\ omitted >= Cardinality(unseen)
              /\ \A o \in Elems(shown) : ~o.read
<1> DEFINE n == Len(ops)
           m == IF n < MaxFacts THEN n ELSE MaxFacts
           ord == Ordered(ops)
<1>1. /\ IsSequence(ops) /\ \A o \in Elems(ops) : OperationOK(kind, fields, o)
      /\ \A i \in Writes(kind, fields) : \E j \in 1 .. n : ops[j].index = i
  BY OperationsOK
<1>2. ord \in Seq(Elems(ops)) /\ Len(ord) = n
  BY <1>1, OrderedFacts
<1>3. PICK w : WritesFirst(ord, ops, w)
  BY <1>1, OrderedFacts
<1> HIDE DEF ord
<1>4. n \in Nat /\ MaxFacts \in Nat /\ DOMAIN ord = 1 .. n
  BY <1>2, FactsAssumption
<1>5. m \in 0 .. n
  BY <1>4
<1>6. shown = SubSeq(ord, 1, m)
  BY DEF ord
<1> HIDE DEF n
<1>7. DOMAIN shown = 1 .. m /\ Len(shown) = m /\ \A k \in 1 .. m : shown[k] = ord[k]
  <2> HIDE DEF m
  <2> QED  BY <1>2, <1>4, <1>5, <1>6
<1>8. \A k \in 1 .. n : ord[k] \in Elems(ops)
  BY <1>2, <1>4
<1>9. \A o \in Elems(shown) : \E k \in 1 .. m : k \in 1 .. n /\ o = ord[k]
  BY <1>4, <1>5, <1>7 DEF Elems
<1>10. \A o \in Elems(shown) : OperationOK(kind, fields, o)
  <2> HIDE DEF m
  <2> QED  BY <1>1, <1>8, <1>9
<1>11. ASSUME NEW i \in unseen PROVE \E k \in m + 1 .. n : k <= w /\ ord[k].index = i
  <2>1. i \in Writes(kind, fields)
    OBVIOUS
  <2>2. PICK j \in 1 .. n : ops[j].index = i
    BY <1>1, <2>1
  <2>3. ops[j] \in Elems(ops)
    BY <1>1, <2>2 DEF Elems, IsSequence, n
  <2>4. ~ops[j].read
    BY <1>1, <2>1, <2>2, <2>3 DEF OperationOK
  <2>5. PICK k \in 1 .. w : ord[k] = ops[j]
    BY <1>3, <2>2, <2>4 DEF WritesFirst, n
  <2>6. k \in 1 .. n
    BY <1>3, <1>4, <2>5 DEF WritesFirst, n
  <2>7. k \notin 1 .. m
    <3>1. ASSUME k \in 1 .. m PROVE FALSE
      <4>1. ord[k] \in Elems(shown)
        BY <1>7, <3>1 DEF Elems
      <4> QED  BY <2>2, <2>5, <4>1
    <3> QED  BY <3>1
  <2>8. k \in m + 1 .. n /\ k <= w
    BY <1>4, <1>5, <2>5, <2>6, <2>7
  <2> QED  BY <2>2, <2>5, <2>8
<1>12. omitted = n - m
  BY <1>7 DEF n
<1>13. ASSUME unseen # {}
       PROVE  /\ omitted > 0 /\ omitted >= Cardinality(unseen)
              /\ \A o \in Elems(shown) : ~o.read
  <2>1. PICK k \in m + 1 .. n : k <= w
    BY <1>11, <1>13
  <2>2. w \in 0 .. n
    BY <1>3 DEF WritesFirst, n
  <2>3. omitted > 0 /\ \A l \in 1 .. m : l \in 1 .. w
    <3> HIDE DEF m
    <3> QED  BY <1>4, <1>5, <1>12, <2>1, <2>2
  <2>4. \A o \in Elems(shown) : ~o.read
    <3> HIDE DEF m
    <3> QED  BY <1>3, <1>9, <2>3 DEF WritesFirst
  <2> DEFINE R == m + 1 .. n
             I == {ord[l].index : l \in R}
  <2>5. unseen \subseteq I
    BY <1>11
  <2>6. IsFiniteSet(R) /\ Cardinality(R) = n - m
    <3> HIDE DEF m
    <3>1. m + 1 \in Int /\ n \in Int /\ n - (m + 1) + 1 = n - m /\ ~(m + 1 > n)
      BY <1>4, <1>5, <2>1
    <3> QED  BY <3>1, FS_Interval
  <2> HIDE DEF R
  <2>7. IsFiniteSet(I) /\ Cardinality(I) <= Cardinality(R)
    <3>1. [l \in R |-> ord[l].index] \in Surjection(R, I)
      BY DEF Surjection
    <3> HIDE DEF I
    <3> QED  BY <2>6, <3>1, FS_Surjection
  <2>8. Cardinality(unseen) <= Cardinality(I)
    BY <2>5, <2>7, FS_Subset
  <2>9. Cardinality(unseen) \in Nat /\ Cardinality(I) \in Nat
    BY <2>5, <2>7, FS_Subset, FS_CardinalityType
  <2>10. omitted >= Cardinality(unseen)
    <3> HIDE DEF m, I
    <3> QED  BY <1>4, <1>5, <1>12, <2>6, <2>7, <2>8, <2>9
  <2> QED  BY <2>3, <2>4, <2>10
<1> QED  BY <1>10, <1>13

\* What the property says of the fields and their overview.
SummaryOK(kind, fields, facts) ==
  LET shown == Elems(facts.operations)
      unseen == Writes(kind, fields) \ {o.index : o \in shown}
  IN /\ unseen # {} =>
          facts.more /\ facts.omitted >= Cardinality(unseen) /\ \A o \in shown : ~o.read
     /\ \A o \in shown : OperationOK(kind, fields, o)

LEMMA FactsComplete ==
  ASSUME NEW kind, NEW fields, IsSequence(fields), \A i \in DOMAIN fields : ParentOK(fields, i)
  PROVE  SummaryOK(kind, fields, Facts(kind, fields))
<1>1. PICK ops : ops = OperationSummaries(kind, fields)
  OBVIOUS
<1>2. PICK shown : shown = SubSeq(Ordered(ops), 1, IF Len(ops) < MaxFacts THEN Len(ops)
                                                    ELSE MaxFacts)
  OBVIOUS
<1>3. PICK omitted : omitted = Len(ops) - Len(shown)
  OBVIOUS
<1>4. PICK unseen : unseen = Writes(kind, fields) \ {o.index : o \in Elems(shown)}
  OBVIOUS
<1>5. PICK facts, U : facts = Facts(kind, fields) /\ facts \in Overviews(shown, omitted, U)
  BY <1>1, <1>2, <1>3, FactsKeep
<1>6. /\ facts.operations = shown /\ facts.omitted = omitted
      /\ omitted > 0 => facts.more = TRUE
  BY <1>5 DEF Overviews
<1>7. /\ \A o \in Elems(shown) : OperationOK(kind, fields, o)
      /\ unseen # {} =>
           /\ omitted > 0 /\ omitted >= Cardinality(unseen)
           /\ \A o \in Elems(shown) : ~o.read
  BY <1>1, <1>2, <1>3, <1>4, UnseenCounted
<1>8. SummaryOK(kind, fields, facts)
  BY <1>4, <1>6, <1>7 DEF SummaryOK
<1> QED  BY <1>5, <1>8

LEMMA SummaryIsComplete ==
  ASSUME ReviewInv
  PROVE  SummaryComplete
<1> SUFFICES ASSUME pc = "end", review.status = "parsed" PROVE SummaryComplete
  BY DEF SummaryComplete
<1>1. PICK kind, fields : kind = Op.kind /\ fields = expander.fields
  OBVIOUS
<1>2. IsSequence(fields) /\ \A i \in DOMAIN fields : ParentOK(fields, i)
  <2>1. PICK b : Expanded(Doc, Op, Values, fields, b)
    BY <1>1 DEF ReviewInv
  <2>2. /\ IsSequence(fields) /\ IsSequence(b) /\ Len(fields) = Len(b)
        /\ \A i \in 1 .. Len(b) : ParentOK(fields, i)
    BY <2>1 DEF Expanded, FieldsOK
  <2> QED  BY <2>2 DEF IsSequence
<1>3. PICK facts : facts = Facts(kind, fields)
  OBVIOUS
<1>4. SummaryOK(kind, fields, facts)
  BY <1>2, <1>3, FactsComplete
<1> QED  BY <1>1, <1>3, <1>4 DEF SummaryComplete, SummaryOK, OperationOK, Writes, MembersOf,
           Reported, Vague

(***************************************************************************)
(* For every document, every variable and every limit of the overview: the *)
(* summary of a write the host is shown names every member of its input    *)
(* and every argument, or says that it does not, and a write it is not     *)
(* shown is counted among the omitted, comes after no read and makes the   *)
(* overview say that there is more (operation_summaries, Review::facts).   *)
(***************************************************************************)
THEOREM SummariesAreComplete == Spec => []SummaryComplete
<1>1. ReadInv /\ ReviewInv => SummaryComplete
  BY SummaryIsComplete
<1> QED  BY <1>1, ReviewInvHolds, PTL

-----------------------------------------------------------------------------
(* What the pages show of the nodes *)

\* A lookup under a credential that GitHub answered in time.
Truthful(l, id, by, hist) ==
  /\ l # Nil /\ l.node = NodeOf[id] /\ l.by = by /\ l.at \in Nat
  /\ \E h \in hist :
       /\ h[2] = l.node /\ h[1] <= l.at /\ l.at <= h[1] + Deadline
       /\ LET said == Snapshots[l.node][h[3]]
          IN said.kind = l.kind /\ said.repository = l.repository /\ said.url = l.url

\* An entry of the cache is as old as its lookup.
EntryOK(e, hist) ==
  /\ e.requested \in DOMAIN NodeOf
  /\ e.inserted = e.lookup.at
  /\ Truthful(e.lookup, e.requested, e.binding, hist)
CacheOK(c, hist) == IsSequence(c) /\ \A i \in DOMAIN c : EntryOK(c[i], hist)

\* A lookup of a page: what was read was said since the page was asked for, and
\* what is done was fresh then.
ReadSince(value, n, start, hist, time) ==
  \E h \in hist : /\ h[2] = n /\ h[1] \in Nat /\ start <= h[1] /\ h[1] <= time
                  /\ value = Snapshots[n][h[3]]
FoundOK(f, t, credential, start, hist, time) ==
  /\ f.step = "read" => ReadSince(f.value, NodeOf[t.id], start, hist, time)
  /\ f.step = "done" =>
       /\ Truthful(f.value, t.id, credential, hist)
       /\ CheckDisplayType(f.value.kind, t.type)
       /\ start <= f.value.at + Lifetime

\* A page that is being made, for a review under the review's own credential.
IsPage(q) ==
  /\ q = [phase |-> "resolving", review |-> q.review, credential |-> q.credential,
          start |-> q.start, lookups |-> q.lookups]
  /\ q.lookups = [i \in DOMAIN q.lookups |-> q.lookups[i]]
PageOK(q, revs, hist, time) ==
  /\ IsPage(q)
  /\ q.review \in DOMAIN revs
  /\ q.credential # Nil => q.credential = revs[q.review].binding
  /\ q.start \in Nat /\ q.start <= time /\ time <= q.start + Deadline
  /\ DOMAIN q.lookups \subseteq DOMAIN TargetsOf[q.review]
  /\ \A i \in DOMAIN q.lookups :
       FoundOK(q.lookups[i], TargetsOf[q.review][i], q.credential, q.start, hist, time)
ReaderOK(q, revs, hist, time) == q = IdleReader \/ PageOK(q, revs, hist, time)
ReadersOK ==
  /\ reader = [r \in Readers |-> reader[r]]
  /\ \A r \in Readers : ReaderOK(reader[r], reviews, past, now)

\* The history has what GitHub knows at present.
HistoryOK ==
  /\ now \in Nat
  /\ nodes = [n \in DOMAIN Snapshots |-> nodes[n]]
  /\ \A n \in DOMAIN Snapshots : <<now, n, nodes[n]>> \in past

ReviewsOK ==
  /\ DOMAIN reviews \subseteq Reviews
  /\ reviews = [v \in DOMAIN reviews |-> reviews[v]]
  /\ \A v \in DOMAIN reviews :
       reviews[v] = [status |-> reviews[v].status, binding |-> reviews[v].binding]

DisplayInv ==
  HistoryOK /\ ReviewsOK /\ CacheOK(cache, past) /\ ReadersOK /\ DisplayIsTrue

LEMMA DisplayLimits == {Lifetime, Deadline, CacheLimit, MaxTargets} \subseteq Nat \ {0}
BY DisplayAssumption

-----------------------------------------------------------------------------
(* The cache *)

LEMMA KeepMembers ==
  ASSUME NEW S, NEW c \in Seq(S), NEW indices \in SUBSET DOMAIN c
  PROVE  Keep(c, indices) \in Seq({c[i] : i \in indices})
BY KeepFacts

LEMMA KeptOK ==
  ASSUME NEW hist, NEW c, CacheOK(c, hist), NEW indices \in SUBSET DOMAIN c
  PROVE  /\ CacheOK(Keep(c, indices), hist)
         /\ \A i \in DOMAIN Keep(c, indices) : \E j \in indices : Keep(c, indices)[i] = c[j]
<1> DEFINE k == Keep(c, indices)
           S == {c[i] : i \in indices}
<1>1. k \in Seq(S)
  BY KeepMembers DEF CacheOK, IsSequence
<1> HIDE DEF k
<1>2. ASSUME NEW i \in DOMAIN k PROVE \E j \in indices : k[i] = c[j]
  <2>1. k[i] \in S
    BY <1>1
  <2> QED  BY <2>1
<1>3. IsSequence(k)
  BY <1>1, SeqNarrow DEF IsSequence
<1>4. \A i \in DOMAIN k : EntryOK(k[i], hist)
  BY <1>2 DEF CacheOK
<1> QED  BY <1>2, <1>3, <1>4 DEF k, CacheOK

LEMMA YoungOK ==
  ASSUME CacheOK(cache, past)
  PROVE  /\ CacheOK(Young(cache), past)
         /\ \A i \in DOMAIN Young(cache) : now < Young(cache)[i].inserted + Lifetime
BY KeptOK DEF Young

LEMMA HitOK ==
  ASSUME CacheOK(cache, past), NEW t, NEW binding, t.id \in DOMAIN NodeOf,
         CachedDisplay(t, binding) # Nil
  PROVE  LET l == CachedDisplay(t, binding)
         IN /\ Truthful(l, t.id, binding, past)
            /\ CheckDisplayType(l.kind, t.type)
            /\ now < l.at + Lifetime
<1> DEFINE young == Young(cache)
           found == {i \in DOMAIN young : Matches(young[i], t.id, binding)}
           first == CHOOSE i \in found : \A j \in found : i <= j
           l == CachedDisplay(t, binding)
<1>1. found # {} /\ l = young[first].lookup /\ CheckDisplayType(l.kind, t.type)
  BY DEF CachedDisplay
<1>2. CacheOK(young, past) /\ \A i \in DOMAIN young : now < young[i].inserted + Lifetime
  BY YoungOK
<1> HIDE DEF young, l
<1>3. first \in found
  <2>1. found \subseteq Nat
    BY <1>2 DEF CacheOK, IsSequence
  <2> HIDE DEF found
  <2>2. \E i \in found : \A j \in found : i <= j
    BY <1>1, <2>1, Least
  <2> QED  BY <2>2
<1>4. PICK e : e = young[first]
  OBVIOUS
<1>5. EntryOK(e, past) /\ Matches(e, t.id, binding) /\ now < e.inserted + Lifetime /\ l = e.lookup
  BY <1>1, <1>2, <1>3, <1>4 DEF CacheOK
<1>6. NodeOf[e.requested] = NodeOf[t.id] /\ e.binding = binding
  <2>1. CASE e.requested = t.id
    BY <2>1, <1>5 DEF Matches
  <2>2. CASE e.lookup.node = t.id
    <3>1. e.lookup.node = NodeOf[e.requested] /\ e.requested \in DOMAIN NodeOf
      BY <1>5 DEF EntryOK, Truthful
    <3>2. NodeOf[NodeOf[e.requested]] = NodeOf[e.requested]
      BY <3>1, TargetAssumption
    <3> QED  BY <3>1, <3>2, <2>2, <1>5 DEF Matches
  <2> QED  BY <2>1, <2>2, <1>5 DEF Matches
<1>7. Truthful(l, t.id, binding, past)
  BY <1>5, <1>6 DEF EntryOK, Truthful
<1> QED  BY <1>1, <1>5, <1>7 DEF l, EntryOK

LEMMA CachedOK ==
  ASSUME CacheOK(cache, past), NEW id \in DOMAIN NodeOf, NEW binding, NEW lookup,
         Truthful(lookup, id, binding, past), lookup.at = now
  PROVE  CacheOK(Cached(id, binding, lookup), past)
<1> DEFINE young == Young(cache)
           kept == Keep(young, {i \in DOMAIN young :
                                  ~(young[i].binding = binding /\ young[i].requested = id)})
           room == IF Len(kept) < CacheLimit THEN kept
                   ELSE SubSeq(kept, Len(kept) - CacheLimit + 2, Len(kept))
           e == [binding |-> binding, requested |-> id, inserted |-> now, lookup |-> lookup]
<1>1. CacheOK(young, past)
  BY YoungOK
<1>2. CacheOK(kept, past)
  <2> HIDE DEF young
  <2> QED  BY <1>1, KeptOK
<1>3. EntryOK(e, past)
  BY DEF EntryOK
<1>4. Cached(id, binding, lookup) = Append(room, e)
  BY DEF Cached
<1> HIDE DEF kept, e
<1> DEFINE S == Elems(kept) \cup {e}
<1>5. \A x \in S : EntryOK(x, past)
  BY <1>2, <1>3 DEF CacheOK, Elems
<1>6. kept \in Seq(S)
  <2>1. kept \in Seq(Elems(kept))
    BY <1>2 DEF CacheOK, IsSequence
  <2> QED  BY <2>1, SeqNarrow
<1> HIDE DEF S
<1>7. room \in Seq(S)
  <2>1. CASE Len(kept) < CacheLimit
    BY <1>6, <2>1
  <2>2. CASE ~(Len(kept) < CacheLimit)
    <3>1. Len(kept) - CacheLimit + 2 \in 1 .. Len(kept) + 1 \/ Len(kept) - CacheLimit + 2 > Len(kept)
      BY <1>6, <2>2, DisplayLimits
    <3>2. SubSeq(kept, Len(kept) - CacheLimit + 2, Len(kept)) \in Seq(S)
      BY <1>6, <2>2, DisplayLimits
    <3> QED  BY <3>2, <2>2
  <2> QED  BY <2>1, <2>2
<1> HIDE DEF room
<1>8. Append(room, e) \in Seq(S)
  BY <1>7 DEF S
<1> DEFINE a == Append(room, e)
<1> HIDE DEF a
<1>9. IsSequence(a) /\ \A i \in DOMAIN a : EntryOK(a[i], past)
  <2>1. a \in Seq(S)
    BY <1>8 DEF a
  <2>2. \A i \in DOMAIN a : a[i] \in S
    BY <2>1
  <2>3. IsSequence(a)
    BY <2>1, SeqNarrow DEF IsSequence
  <2> QED  BY <2>2, <2>3, <1>5
<1> QED  BY <1>4, <1>9 DEF CacheOK, a
-----------------------------------------------------------------------------
(* The handlers *)

\* What holds of a page goes on holding while the history grows and its time is
\* not up.
LEMMA PageLater ==
  ASSUME NEW q, NEW revs, NEW hist, NEW time \in Nat, PageOK(q, revs, hist, time),
         NEW revs2, NEW hist2, NEW time2 \in Nat,
         hist \subseteq hist2, time <= time2, time2 <= q.start + Deadline,
         DOMAIN revs \subseteq DOMAIN revs2,
         \A v \in DOMAIN revs : revs2[v].binding = revs[v].binding
  PROVE  PageOK(q, revs2, hist2, time2)
<1>1. q.start <= time2
  BY DEF PageOK
<1>2. ASSUME NEW i \in DOMAIN q.lookups
      PROVE  FoundOK(q.lookups[i], TargetsOf[q.review][i], q.credential, q.start, hist2, time2)
  <2> DEFINE f == q.lookups[i]
             t == TargetsOf[q.review][i]
  <2>1. FoundOK(f, t, q.credential, q.start, hist, time)
    BY DEF PageOK
  <2> HIDE DEF f, t
  <2>2. f.step = "read" => ReadSince(f.value, NodeOf[t.id], q.start, hist2, time2)
    <3> SUFFICES ASSUME f.step = "read"
                 PROVE  ReadSince(f.value, NodeOf[t.id], q.start, hist2, time2)
      OBVIOUS
    <3>1. PICK h \in hist : /\ h[2] = NodeOf[t.id] /\ h[1] \in Nat /\ q.start <= h[1] /\ h[1] <= time
                            /\ f.value = Snapshots[NodeOf[t.id]][h[3]]
      BY <2>1 DEF FoundOK, ReadSince
    <3>2. h \in hist2 /\ h[1] <= time2
      BY <3>1
    <3> QED  BY <3>1, <3>2 DEF ReadSince
  <2>3. f.step = "done" => Truthful(f.value, t.id, q.credential, hist2)
    BY <2>1 DEF FoundOK, Truthful
  <2> QED  BY <2>1, <2>2, <2>3 DEF FoundOK, f, t
<1> QED  BY <1>1, <1>2 DEF PageOK

LEMMA CacheLater ==
  ASSUME NEW c, NEW hist, CacheOK(c, hist), NEW hist2, hist \subseteq hist2
  PROVE  CacheOK(c, hist2)
BY DEF CacheOK, EntryOK, Truthful

\* A reader that waits is on a page.
LEMMA BusyPage ==
  ASSUME ReadersOK, NEW r \in Busy
  PROVE  r \in Readers /\ PageOK(reader[r], reviews, past, now)
BY DEF Busy, ReadersOK, ReaderOK, IdleReader

\* Everything but the readers stays.
LEMMA PutOK ==
  ASSUME ReadersOK, ReviewsOK, NEW r \in Busy, NEW i \in DOMAIN reader[r].lookups, NEW f,
         FoundOK(f, Target(r, i), reader[r].credential, reader[r].start, past, now),
         Put(r, i, f), UNCHANGED <<reviews, past, now>>
  PROVE  ReadersOK'
<1>1. PICK q : q = reader[r]
  OBVIOUS
<1>2. r \in Readers /\ PageOK(q, reviews, past, now)
  BY <1>1, BusyPage
<1> DEFINE ls == [q.lookups EXCEPT ![i] = f]
           q2 == [phase |-> "resolving", review |-> q.review, credential |-> q.credential,
                  start |-> q.start, lookups |-> ls]
<1>3. /\ q = [phase |-> "resolving", review |-> q.review, credential |-> q.credential,
              start |-> q.start, lookups |-> q.lookups]
      /\ q.lookups = [j \in DOMAIN q.lookups |-> q.lookups[j]]
  BY <1>2 DEF PageOK, IsPage
<1>4. reader' = [reader EXCEPT ![r] = [q EXCEPT !.lookups = ls]]
  BY <1>1 DEF Put
<1>5. [q EXCEPT !.lookups = ls] = q2
  BY <1>3
<1>6. reader' = [reader EXCEPT ![r] = q2]
  BY <1>4, <1>5
<1>7. DOMAIN ls = DOMAIN q.lookups /\ ls[i] = f /\ \A j \in DOMAIN q.lookups : j # i => ls[j] = q.lookups[j]
  BY <1>1
<1>8. ls = [j \in DOMAIN ls |-> ls[j]]
  OBVIOUS
<1> HIDE DEF ls
<1>9. /\ q2.phase = "resolving" /\ q2.review = q.review /\ q2.credential = q.credential
      /\ q2.start = q.start /\ q2.lookups = ls
  OBVIOUS
<1>10. IsPage(q2)
  BY <1>8 DEF IsPage
<1> HIDE DEF q2
<1>11. PageOK(q2, reviews, past, now)
  <2>1. \A j \in DOMAIN ls :
          FoundOK(ls[j], TargetsOf[q.review][j], q.credential, q.start, past, now)
    BY <1>1, <1>2, <1>7 DEF PageOK, Target
  <2> QED  BY <1>2, <1>7, <1>9, <1>10, <2>1 DEF PageOK
<1>12. reader = [x \in Readers |-> reader[x]]
  BY DEF ReadersOK
<1>13. /\ reader' = [x \in Readers |-> reader'[x]]
       /\ reader'[r] = q2 /\ \A x \in Readers : x # r => reader'[x] = reader[x]
  BY <1>2, <1>6, <1>12
<1> QED  BY <1>11, <1>13 DEF ReadersOK, ReaderOK

LEMMA NoPage ==
  ASSUME page' = {}
  PROVE  DisplayIsTrue'
BY DEF DisplayIsTrue

\* The node a target names.
LEMMA TargetThere ==
  ASSUME ReadersOK, ReviewsOK, NEW r \in Busy, NEW i \in DOMAIN reader[r].lookups
  PROVE  /\ Target(r, i) = TargetsOf[reader[r].review][i]
         /\ Target(r, i).id \in DOMAIN NodeOf
         /\ NodeOf[Target(r, i).id] \in DOMAIN Snapshots
<1>1. reader[r].review \in Reviews /\ i \in DOMAIN TargetsOf[reader[r].review]
  BY BusyPage DEF PageOK, ReviewsOK
<1> QED  BY <1>1, TargetAssumption DEF Target

LEMMA InspectStep ==
  ASSUME DisplayInv, NEW r \in Readers, NEW v \in Retained, Inspect(r, v), page' = {}
  PROVE  DisplayInv'
<1> DEFINE credential == Current(reviews[v].binding)
           some == IF credential = Nil THEN 0
                   ELSE IF Len(TargetsOf[v]) < MaxTargets THEN Len(TargetsOf[v]) ELSE MaxTargets
           q == [phase |-> "resolving", review |-> v, credential |-> credential, start |-> now,
                 lookups |-> [i \in 1 .. some |-> Lookup(Waiting, Nil)]]
<1>1. /\ UNCHANGED <<escrow, reviews, nodes, cache, now, past, changes>>
      /\ reader' = [reader EXCEPT ![r] = q]
  BY DEF Inspect
<1>2. v \in DOMAIN reviews /\ v \in Reviews /\ now \in Nat
  BY DEF Retained, DisplayInv, ReviewsOK, HistoryOK
<1>3. credential # Nil => credential = reviews[v].binding
  BY DEF Current
<1>4. 1 .. some \subseteq DOMAIN TargetsOf[v]
  <2>1. Len(TargetsOf[v]) \in Nat /\ DOMAIN TargetsOf[v] = 1 .. Len(TargetsOf[v])
    BY <1>2, TargetAssumption
  <2>2. some \in Nat /\ some <= Len(TargetsOf[v])
    BY <2>1, DisplayLimits
  <2> HIDE DEF some
  <2> QED  BY <2>1, <2>2
<1> HIDE DEF credential, some
<1>5. /\ q.review = v /\ q.credential = credential /\ q.start = now /\ DOMAIN q.lookups = 1 .. some
      /\ \A i \in 1 .. some : q.lookups[i].step = "waiting"
      /\ IsPage(q)
  BY DEF Lookup, Waiting, IsPage
<1> HIDE DEF q
<1>6. PageOK(q, reviews, past, now)
  <2>1. \A i \in DOMAIN q.lookups :
          FoundOK(q.lookups[i], TargetsOf[v][i], q.credential, q.start, past, now)
    BY <1>5 DEF FoundOK
  <2>2. now <= now + Deadline
    BY <1>2, DisplayLimits
  <2> QED  BY <1>2, <1>3, <1>4, <1>5, <2>1, <2>2 DEF PageOK
<1>7. ReadersOK'
  <2>1. reader = [x \in Readers |-> reader[x]]
    BY DEF DisplayInv, ReadersOK
  <2>2. /\ reader' = [x \in Readers |-> reader'[x]]
        /\ reader'[r] = q /\ \A x \in Readers : x # r => reader'[x] = reader[x]
    BY <1>1, <2>1
  <2> QED  BY <1>1, <1>6, <2>2 DEF DisplayInv, ReadersOK, ReaderOK
<1> QED  BY <1>1, <1>7, NoPage DEF DisplayInv, HistoryOK, ReviewsOK

LEMMA AskStep ==
  ASSUME DisplayInv, NEW r \in Busy, NEW i \in DOMAIN reader[r].lookups, Ask(r, i), page' = {}
  PROVE  DisplayInv'
<1> DEFINE hit == CachedDisplay(Target(r, i), reader[r].credential)
<1>1. /\ UNCHANGED <<escrow, reviews, nodes, now, past, changes>> /\ cache' = Young(cache)
      /\ \/ hit # Nil /\ Put(r, i, Lookup("done", hit))
         \/ Put(r, i, Lookup(Failed, Nil))
         \/ Put(r, i, Lookup("asked", Nil))
  BY DEF Ask
<1>2. ReadersOK /\ ReviewsOK /\ CacheOK(cache, past) /\ now \in Nat
  BY DEF DisplayInv, HistoryOK
<1>3. Target(r, i).id \in DOMAIN NodeOf
  BY <1>2, TargetThere
<1>4. reader[r].start \in Nat /\ reader[r].start <= now
  BY <1>2, BusyPage DEF PageOK
<1>5. CASE hit # Nil /\ Put(r, i, Lookup("done", hit))
  <2>1. /\ Truthful(hit, Target(r, i).id, reader[r].credential, past)
        /\ CheckDisplayType(hit.kind, Target(r, i).type)
        /\ now < hit.at + Lifetime
    BY <1>2, <1>3, <1>5, HitOK
  <2> HIDE DEF hit
  <2>2. reader[r].start <= hit.at + Lifetime
    BY <1>2, <1>4, <2>1, DisplayLimits DEF Truthful
  <2>3. FoundOK(Lookup("done", hit), Target(r, i), reader[r].credential, reader[r].start, past, now)
    BY <2>1, <2>2 DEF FoundOK, Lookup
  <2> QED  BY <1>1, <1>2, <1>5, <2>3, PutOK, YoungOK, NoPage DEF DisplayInv, HistoryOK, ReviewsOK
<1>6. ASSUME NEW step \in {Failed, "asked"}, Put(r, i, Lookup(step, Nil)) PROVE DisplayInv'
  <2>1. FoundOK(Lookup(step, Nil), Target(r, i), reader[r].credential, reader[r].start, past, now)
    BY DEF FoundOK, Lookup, Failed
  <2> QED  BY <1>1, <1>2, <1>6, <2>1, PutOK, YoungOK, NoPage DEF DisplayInv, HistoryOK, ReviewsOK
<1> QED  BY <1>1, <1>5, <1>6

LEMMA AnswersStep ==
  ASSUME DisplayInv, NEW r \in Busy, NEW i \in DOMAIN reader[r].lookups, GithubAnswers(r, i),
         page' = {}
  PROVE  DisplayInv'
<1> DEFINE n == NodeOf[Target(r, i).id]
           f == Lookup("read", Snapshots[n][nodes[n]])
<1>1. /\ UNCHANGED <<escrow, reviews, nodes, cache, now, past, changes>> /\ Put(r, i, f)
  BY DEF GithubAnswers
<1>2. ReadersOK /\ ReviewsOK /\ now \in Nat
  BY DEF DisplayInv, HistoryOK
<1>3. n \in DOMAIN Snapshots
  BY <1>2, TargetThere
<1>4. reader[r].start \in Nat /\ reader[r].start <= now
  BY <1>2, BusyPage DEF PageOK
<1>5. ReadSince(Snapshots[n][nodes[n]], n, reader[r].start, past, now)
  <2> HIDE DEF n
  <2> DEFINE h == <<now, n, nodes[n]>>
  <2>1. h \in past /\ h[1] = now /\ h[2] = n /\ h[3] = nodes[n]
    BY <1>3 DEF DisplayInv, HistoryOK
  <2> HIDE DEF h
  <2> QED  BY <2>1, <1>2, <1>4 DEF ReadSince
<1>6. FoundOK(f, Target(r, i), reader[r].credential, reader[r].start, past, now)
  BY <1>5 DEF FoundOK, Lookup
<1> HIDE DEF f
<1>7. ReadersOK'
  BY <1>1, <1>2, <1>6, PutOK
<1> QED  BY <1>1, <1>7, NoPage DEF DisplayInv, HistoryOK, ReviewsOK

LEMMA ArriveStep ==
  ASSUME DisplayInv, NEW r \in Busy, NEW i \in DOMAIN reader[r].lookups, Arrive(r, i), page' = {}
  PROVE  DisplayInv'
<1> DEFINE t == Target(r, i)
           value == reader[r].lookups[i].value
           by == reader[r].credential
           l == DisplayMetadata(NodeOf[t.id], value, by)
<1>1. /\ UNCHANGED <<escrow, reviews, nodes, now, past, changes>>
      /\ reader[r].lookups[i].step = "read"
      /\ \/ /\ l # Nil /\ CheckDisplayType(l.kind, t.type)
            /\ Put(r, i, Lookup("done", l)) /\ cache' = Cached(t.id, by, l)
         \/ Put(r, i, Lookup(Failed, Nil)) /\ UNCHANGED cache
  BY DEF Arrive
<1>2. ReadersOK /\ ReviewsOK /\ CacheOK(cache, past) /\ now \in Nat
  BY DEF DisplayInv, HistoryOK
<1>3. t.id \in DOMAIN NodeOf
  BY <1>2, TargetThere
<1>4. CASE /\ l # Nil /\ CheckDisplayType(l.kind, t.type)
           /\ Put(r, i, Lookup("done", l)) /\ cache' = Cached(t.id, by, l)
  <2>1. PICK q : q = reader[r]
    OBVIOUS
  <2>2. /\ q.start \in Nat /\ q.start <= now /\ now <= q.start + Deadline
        /\ FoundOK(q.lookups[i], t, by, q.start, past, now)
    BY <1>2, <2>1, BusyPage DEF PageOK, Target
  <2>3. PICK h \in past : /\ h[2] = NodeOf[t.id] /\ h[1] \in Nat /\ q.start <= h[1] /\ h[1] <= now
                          /\ value = Snapshots[NodeOf[t.id]][h[3]]
    BY <2>1, <2>2, <1>1 DEF FoundOK, ReadSince
  <2>4. /\ l.node = NodeOf[t.id] /\ l.by = by /\ l.at = now
        /\ l.kind = value.kind /\ l.repository = value.repository /\ l.url = value.url
    BY <1>4, Zenon DEF DisplayMetadata
  <2> HIDE DEF l, value
  <2>5. h[1] <= l.at /\ l.at <= h[1] + Deadline
    BY <1>2, <2>2, <2>3, <2>4, DisplayLimits
  <2>6. Truthful(l, t.id, by, past)
    BY <1>2, <1>4, <2>3, <2>4, <2>5, Zenon DEF Truthful
  <2>7. q.start <= l.at + Lifetime
    BY <1>2, <2>2, <2>4, DisplayLimits
  <2>8. FoundOK(Lookup("done", l), t, by, q.start, past, now)
    BY <1>4, <2>6, <2>7 DEF FoundOK, Lookup
  <2>9. ReadersOK'
    BY <1>1, <1>2, <1>4, <2>1, <2>8, PutOK
  <2>10. CacheOK(cache', past)
    BY <1>2, <1>3, <1>4, <2>4, <2>6, CachedOK
  <2> QED  BY <1>1, <2>9, <2>10, NoPage DEF DisplayInv, HistoryOK, ReviewsOK
<1>5. CASE Put(r, i, Lookup(Failed, Nil)) /\ UNCHANGED cache
  <2>1. FoundOK(Lookup(Failed, Nil), t, by, reader[r].start, past, now)
    BY DEF FoundOK, Lookup, Failed
  <2>2. ReadersOK'
    BY <1>1, <1>2, <1>5, <2>1, PutOK
  <2> QED  BY <1>1, <1>5, <2>2, NoPage DEF DisplayInv, HistoryOK, ReviewsOK
<1> QED  BY <1>1, <1>4, <1>5

LEMMA FailsStep ==
  ASSUME DisplayInv, NEW r \in Busy, NEW i \in DOMAIN reader[r].lookups, LookupFails(r, i),
         page' = {}
  PROVE  DisplayInv'
<1>1. UNCHANGED <<escrow, reviews, nodes, cache, now, past, changes>> /\ Put(r, i, Lookup(Failed, Nil))
  BY DEF LookupFails
<1>2. FoundOK(Lookup(Failed, Nil), Target(r, i), reader[r].credential, reader[r].start, past, now)
  BY DEF FoundOK, Lookup, Failed
<1>3. ReadersOK'
  BY <1>1, <1>2, PutOK DEF DisplayInv
<1> QED  BY <1>1, <1>3, NoPage DEF DisplayInv, HistoryOK, ReviewsOK

LEMMA AnswerStep ==
  ASSUME DisplayInv, NEW r \in Readers, Answer(r)
  PROVE  DisplayInv'
<1>1. r \in Busy
  BY DEF Answer
<1>2. PICK q : q = reader[r]
  OBVIOUS
<1>3. PageOK(q, reviews, past, now)
  BY <1>1, <1>2, BusyPage DEF DisplayInv
<1> DEFINE v == q.review
           shown == [i \in DOMAIN TargetsOf[v] |->
                       IF i \in DOMAIN q.lookups /\ q.lookups[i].step = "done"
                       THEN q.lookups[i].value ELSE Nil]
           show == IF StillCurrent(q.credential) THEN shown ELSE Nothing(v)
<1>4. /\ UNCHANGED <<escrow, reviews, nodes, cache, now, past, changes>>
      /\ reader' = [reader EXCEPT ![r] = IdleReader]
      /\ page' = {} \/ page' = {Page(v, show)}
  BY <1>2 DEF Answer
<1>5. ReadersOK'
  <2>1. reader = [x \in Readers |-> reader[x]]
    BY DEF DisplayInv, ReadersOK
  <2>2. /\ reader' = [x \in Readers |-> reader'[x]]
        /\ reader'[r] = IdleReader /\ \A x \in Readers : x # r => reader'[x] = reader[x]
    BY <1>4, <2>1
  <2> QED  BY <1>4, <2>2 DEF DisplayInv, ReadersOK, ReaderOK
<1>6. CASE page' = {}
  BY <1>4, <1>5, <1>6, NoPage DEF DisplayInv, HistoryOK, ReviewsOK
<1>7. CASE page' = {Page(v, show)}
  <2>1. ASSUME NEW i \in DOMAIN show, show[i] # Nil
        PROVE  /\ Current(reviews[v].binding) # Nil
               /\ show[i].by = reviews[v].binding
               /\ Accurate(TargetsOf[v][i], show[i])
    <3>1. StillCurrent(q.credential) /\ show = shown
      BY <2>1 DEF Nothing
    <3>2. i \in DOMAIN q.lookups /\ q.lookups[i].step = "done" /\ show[i] = q.lookups[i].value
      BY <2>1, <3>1
    <3> HIDE DEF show
    <3>3. q.credential = reviews[v].binding /\ Current(q.credential) # Nil
      BY <3>1, <1>3 DEF StillCurrent, Current, PageOK
    <3>4. PICK l : l = show[i]
      OBVIOUS
    <3>5. /\ Truthful(l, TargetsOf[v][i].id, q.credential, past)
          /\ CheckDisplayType(l.kind, TargetsOf[v][i].type)
          /\ q.start <= l.at + Lifetime /\ now <= q.start + Deadline /\ q.start \in Nat
      BY <1>3, <3>2, <3>4 DEF PageOK, FoundOK
    <3>6. now <= l.at + Lifetime + Deadline
      <4>1. now \in Nat /\ l.at \in Nat
        BY <3>5, Zenon DEF Truthful, DisplayInv, HistoryOK
      <4>2. Lifetime \in Nat /\ Deadline \in Nat
        BY DisplayLimits
      <4> QED  BY <3>5, <4>1, <4>2
    <3>7. Accurate(TargetsOf[v][i], l)
      BY <3>5, <3>6, Zenon DEF Accurate, Truthful
    <3>8. l.by = q.credential
      BY <3>5, Zenon DEF Truthful
    <3> QED  BY <3>3, <3>4, <3>7, <3>8
  <2> HIDE DEF show
  <2>2. PICK p : p = Page(v, show)
    OBVIOUS
  <2>3. p.review = v /\ p.status = reviews[v].status /\ p.shown = show
    BY <2>2 DEF Page
  <2>4. page' = {p}
    BY <1>7, <2>2
  <2>5. \A x : Current(x)' = Current(x)
    BY <1>4 DEF Current, FromEntry
  <2>6. \A x, y : Accurate(x, y)' <=> Accurate(x, y)
    BY <1>4 DEF Accurate
  <2>7. reviews' = reviews
    BY <1>4
  <2>8. DisplayIsTrue'
    BY <2>1, <2>3, <2>4, <2>5, <2>6, <2>7 DEF DisplayIsTrue
  <2> QED  BY <1>4, <1>5, <2>8 DEF DisplayInv, HistoryOK, ReviewsOK
<1> QED  BY <1>4, <1>6, <1>7

LEMMA ListStep ==
  ASSUME DisplayInv, ListReviews
  PROVE  DisplayInv'
<1> DEFINE shown(v) == LET credential == Current(reviews[v].binding)
                       IN IF credential = Nil THEN Nothing(v)
                          ELSE [i \in DOMAIN TargetsOf[v] |->
                                  CachedDisplay(TargetsOf[v][i], credential)]
<1>1. /\ UNCHANGED <<escrow, reviews, nodes, reader, now, past, changes>>
      /\ cache' = Young(cache)
      /\ page' = {Page(v, shown(v)) : v \in Retained}
  BY DEF ListReviews
<1>2. ASSUME NEW v \in Retained, NEW i \in DOMAIN shown(v), shown(v)[i] # Nil
      PROVE  /\ Current(reviews[v].binding) # Nil
             /\ shown(v)[i].by = reviews[v].binding
             /\ Accurate(TargetsOf[v][i], shown(v)[i])
  <2>1. Current(reviews[v].binding) # Nil
    BY <1>2 DEF Nothing
  <2>2. Current(reviews[v].binding) = reviews[v].binding
    BY <2>1 DEF Current
  <2>3. /\ i \in DOMAIN TargetsOf[v]
        /\ shown(v)[i] = CachedDisplay(TargetsOf[v][i], reviews[v].binding)
    BY <2>1, <2>2
  <2>4. PICK l : l = shown(v)[i]
    OBVIOUS
  <2>5. TargetsOf[v][i].id \in DOMAIN NodeOf
    BY <2>3, TargetAssumption DEF Retained, DisplayInv, ReviewsOK
  <2> HIDE DEF shown
  <2>6. /\ Truthful(l, TargetsOf[v][i].id, reviews[v].binding, past)
        /\ CheckDisplayType(l.kind, TargetsOf[v][i].type)
        /\ now < l.at + Lifetime
    BY <1>2, <2>3, <2>4, <2>5, HitOK DEF DisplayInv
  <2>7. now <= l.at + Lifetime + Deadline
    BY <2>6, DisplayLimits DEF Truthful, DisplayInv, HistoryOK
  <2>8. Accurate(TargetsOf[v][i], l) /\ l.by = reviews[v].binding
    BY <2>6, <2>7, Zenon DEF Accurate, Truthful
  <2> QED  BY <2>1, <2>4, <2>8
<1> HIDE DEF shown
<1>3. \A x : Current(x)' = Current(x)
  BY <1>1 DEF Current, FromEntry
<1>4. \A x, y : Accurate(x, y)' <=> Accurate(x, y)
  BY <1>1 DEF Accurate
<1>5. DisplayIsTrue'
  <2> SUFFICES ASSUME NEW p \in page'
               PROVE  /\ p.status = reviews'[p.review].status
                      /\ \A i \in DOMAIN p.shown :
                           p.shown[i] # Nil =>
                             /\ Current(reviews[p.review].binding)' # Nil
                             /\ p.shown[i].by = reviews'[p.review].binding
                             /\ Accurate(TargetsOf[p.review][i], p.shown[i])'
    BY DEF DisplayIsTrue
  <2>1. PICK v \in Retained : p = Page(v, shown(v))
    BY <1>1
  <2>2. p.review = v /\ p.status = reviews[v].status /\ p.shown = shown(v)
    BY <2>1 DEF Page
  <2>3. reviews' = reviews
    BY <1>1
  <2>4. Current(reviews[v].binding)' = Current(reviews[v].binding)
    BY <1>3, <2>3
  <2> QED  BY <1>2, <1>4, <2>2, <2>3, <2>4
<1>6. ReadersOK' /\ CacheOK(cache', past)
  BY <1>1, YoungOK DEF DisplayInv, ReadersOK
<1> QED  BY <1>1, <1>5, <1>6 DEF DisplayInv, HistoryOK, ReviewsOK
-----------------------------------------------------------------------------
(* The broker, GitHub and the clock *)

\* A step that leaves the cache and the readers alone.
LEMMA OutsideStep ==
  ASSUME DisplayInv, UNCHANGED <<cache, reader>>, page' = {}, HistoryOK', ReviewsOK',
         past \subseteq past', now <= now',
         \A r \in Busy : now' <= reader[r].start + Deadline,
         DOMAIN reviews \subseteq DOMAIN reviews',
         \A v \in DOMAIN reviews : reviews'[v].binding = reviews[v].binding
  PROVE  DisplayInv'
<1>1. now \in Nat /\ now' \in Nat
  BY DEF DisplayInv, HistoryOK
<1>2. ASSUME NEW r \in Readers PROVE ReaderOK(reader[r], reviews', past', now')
  <2>1. CASE reader[r] = IdleReader
    BY <2>1 DEF ReaderOK
  <2>2. CASE PageOK(reader[r], reviews, past, now)
    <3>1. r \in Busy
      <4>1. reader[r].phase = "resolving"
        BY <2>2 DEF PageOK, IsPage
      <4> QED  BY <4>1 DEF Busy
    <3>2. now' <= reader[r].start + Deadline
      BY <3>1
    <3> QED  BY <1>1, <2>2, <3>2, PageLater DEF ReaderOK
  <2> QED  BY <2>1, <2>2 DEF DisplayInv, ReadersOK, ReaderOK
<1>3. ReadersOK'
  BY <1>2 DEF DisplayInv, ReadersOK
<1>4. CacheOK(cache', past')
  BY CacheLater DEF DisplayInv
<1> QED  BY <1>3, <1>4, NoPage DEF DisplayInv

\* Only the reviews change.
LEMMA ReviewStep ==
  ASSUME DisplayInv, page' = {}, UNCHANGED <<nodes, cache, reader, now, past>>, ReviewsOK',
         DOMAIN reviews \subseteq DOMAIN reviews',
         \A v \in DOMAIN reviews : reviews'[v].binding = reviews[v].binding
  PROVE  DisplayInv'
<1>1. HistoryOK' /\ now \in Nat
  BY DEF DisplayInv, HistoryOK
<1>2. \A r \in Busy : now' <= reader[r].start + Deadline
  BY BusyPage DEF DisplayInv, PageOK
<1> QED  BY <1>1, <1>2, OutsideStep

LEMMA EnqueueStep ==
  ASSUME DisplayInv, NEW v \in Reviews, Enqueue(v), page' = {}
  PROVE  DisplayInv'
<1> DEFINE new == [status |-> "pending", binding |-> DisplayCredential(v)]
<1>1. /\ v \notin DOMAIN reviews /\ UNCHANGED <<escrow, nodes, cache, reader, now, past, changes>>
      /\ reviews' = [x \in DOMAIN reviews \cup {v} |-> IF x = v THEN new ELSE reviews[x]]
  BY DEF Enqueue
<1>2. new = [status |-> new.status, binding |-> new.binding]
  OBVIOUS
<1> HIDE DEF new
<1>3. /\ DOMAIN reviews' = DOMAIN reviews \cup {v} /\ reviews'[v] = new
      /\ \A x \in DOMAIN reviews : reviews'[x] = reviews[x]
      /\ reviews' = [x \in DOMAIN reviews' |-> reviews'[x]]
  BY <1>1
<1>4. ReviewsOK'
  BY <1>2, <1>3 DEF DisplayInv, ReviewsOK
<1> QED  BY <1>1, <1>3, <1>4, ReviewStep

\* A review keeps its binding.
LEMMA StatusStep ==
  ASSUME DisplayInv, NEW v \in Retained, NEW status, page' = {},
         reviews' = [reviews EXCEPT ![v].status = status],
         UNCHANGED <<escrow, nodes, cache, reader, now, past>>
  PROVE  DisplayInv'
<1>1. v \in DOMAIN reviews /\ ReviewsOK
  BY DEF Retained, DisplayInv
<1>2. /\ reviews = [x \in DOMAIN reviews |-> reviews[x]]
      /\ reviews[v] = [status |-> reviews[v].status, binding |-> reviews[v].binding]
  BY <1>1 DEF ReviewsOK
<1> DEFINE new == [reviews[v] EXCEPT !.status = status]
<1>3. new = [status |-> status, binding |-> reviews[v].binding]
  BY <1>2
<1>4. reviews' = [reviews EXCEPT ![v] = new]
  OBVIOUS
<1>5. new = [status |-> new.status, binding |-> new.binding] /\ new.binding = reviews[v].binding
  BY <1>3
<1> HIDE DEF new
<1>6. /\ DOMAIN reviews' = DOMAIN reviews /\ reviews'[v] = new
      /\ \A x \in DOMAIN reviews : x # v => reviews'[x] = reviews[x]
      /\ reviews' = [x \in DOMAIN reviews' |-> reviews'[x]]
  BY <1>1, <1>2, <1>4
<1>7. ReviewsOK'
  BY <1>1, <1>5, <1>6 DEF ReviewsOK
<1>8. \A x \in DOMAIN reviews : reviews'[x].binding = reviews[x].binding
  BY <1>5, <1>6
<1> QED  BY <1>6, <1>7, <1>8, ReviewStep

LEMMA SecretStep ==
  ASSUME DisplayInv, NEW e \in Entries, NEW secret, SetSecret(e, secret), page' = {}
  PROVE  DisplayInv'
<1>1. UNCHANGED <<reviews, nodes, cache, reader, now, past>>
  BY DEF SetSecret
<1>2. ReviewsOK'
  BY <1>1 DEF DisplayInv, ReviewsOK
<1> QED  BY <1>1, <1>2, ReviewStep

LEMMA TransferStep ==
  ASSUME DisplayInv, NEW n \in DOMAIN Snapshots, Transfer(n), page' = {}
  PROVE  DisplayInv'
<1>1. /\ nodes' = [nodes EXCEPT ![n] = nodes[n] + 1]
      /\ past' = past \cup {<<now, n, nodes[n] + 1>>}
      /\ UNCHANGED <<escrow, reviews, cache, reader, now, changes>>
  BY DEF Transfer
<1>2. nodes = [m \in DOMAIN Snapshots |-> nodes[m]] /\ now \in Nat
  BY DEF DisplayInv, HistoryOK
<1>3. /\ nodes' = [m \in DOMAIN Snapshots |-> nodes'[m]] /\ nodes'[n] = nodes[n] + 1
      /\ \A m \in DOMAIN Snapshots : m # n => nodes'[m] = nodes[m]
  BY <1>1, <1>2
<1>4. HistoryOK'
  BY <1>1, <1>2, <1>3 DEF DisplayInv, HistoryOK
<1>5. ReviewsOK' /\ reviews' = reviews
  BY <1>1 DEF DisplayInv, ReviewsOK
<1>6. \A r \in Busy : now' <= reader[r].start + Deadline
  BY <1>1, BusyPage DEF DisplayInv, PageOK
<1>7. past \subseteq past' /\ now <= now'
  BY <1>1, <1>2
<1> QED  BY <1>1, <1>4, <1>5, <1>6, <1>7, OutsideStep

LEMMA TickStep ==
  ASSUME DisplayInv, Tick, page' = {}
  PROVE  DisplayInv'
<1>1. /\ now' = now + 1 /\ past' = past \cup {<<now + 1, n, nodes[n]>> : n \in DOMAIN nodes}
      /\ \A r \in Busy : now < reader[r].start + Deadline
      /\ UNCHANGED <<escrow, reviews, nodes, cache, reader, changes>>
  BY DEF Tick
<1>2. nodes = [m \in DOMAIN Snapshots |-> nodes[m]] /\ now \in Nat
  BY DEF DisplayInv, HistoryOK
<1>3. HistoryOK'
  BY <1>1, <1>2 DEF DisplayInv, HistoryOK
<1>4. ReviewsOK' /\ reviews' = reviews
  BY <1>1 DEF DisplayInv, ReviewsOK
<1>5. ASSUME NEW r \in Busy PROVE now' <= reader[r].start + Deadline
  <2>1. reader[r].start \in Nat
    BY BusyPage DEF DisplayInv, PageOK
  <2> QED  BY <1>1, <1>2, <2>1, DisplayLimits
<1>6. past \subseteq past' /\ now <= now'
  BY <1>1, <1>2
<1> QED  BY <1>1, <1>3, <1>4, <1>5, <1>6, OutsideStep

LEMMA DisplayFirst ==
  ASSUME DisplayInit
  PROVE  DisplayInv
<1>1. HistoryOK
  BY DEF DisplayInit, HistoryOK
<1>2. ReviewsOK
  BY DEF DisplayInit, ReviewsOK
<1>3. CacheOK(cache, past)
  BY DEF DisplayInit, CacheOK, IsSequence
<1>4. ReadersOK
  BY DEF DisplayInit, ReadersOK, ReaderOK
<1> QED  BY <1>1, <1>2, <1>3, <1>4 DEF DisplayInit, DisplayInv, DisplayIsTrue

LEMMA DisplayStutter ==
  ASSUME DisplayInv, UNCHANGED displayVars
  PROVE  DisplayInv'
<1>1. UNCHANGED <<escrow, reviews, nodes, cache, reader, page, now, past, changes>>
  BY DEF displayVars
<1>2. \A x : Current(x)' = Current(x)
  BY <1>1 DEF Current, FromEntry
<1>3. \A x, y : Accurate(x, y)' <=> Accurate(x, y)
  BY <1>1 DEF Accurate
<1>4. DisplayIsTrue'
  BY <1>1, <1>2, <1>3 DEF DisplayInv, DisplayIsTrue
<1> QED  BY <1>1, <1>4 DEF DisplayInv, HistoryOK, ReviewsOK, ReadersOK

LEMMA DisplayStep ==
  ASSUME DisplayInv, [DisplayNext]_displayVars
  PROVE  DisplayInv'
<1>1. CASE Quiet /\ page' = {}
  <2>1. CASE ReaderStep
    <3>1. PICK r \in Readers :
            \/ \E v \in Retained : Inspect(r, v)
            \/ r \in Busy /\ \E i \in DOMAIN reader[r].lookups :
                 Ask(r, i) \/ GithubAnswers(r, i) \/ Arrive(r, i) \/ LookupFails(r, i)
      BY <2>1 DEF ReaderStep
    <3> QED  BY <1>1, <3>1, InspectStep, AskStep, AnswersStep, ArriveStep, FailsStep
  <2>2. CASE BrokerStep
    <3>1. CASE \E v \in Reviews : Enqueue(v)
      BY <1>1, <3>1, EnqueueStep
    <3>2. CASE \E v \in Retained : SettleReview(v) \/ Forget(v)
      <4>1. PICK v \in Retained : SettleReview(v) \/ Forget(v)
        BY <3>2
      <4>2. \E status : /\ reviews' = [reviews EXCEPT ![v].status = status]
                        /\ UNCHANGED <<escrow, nodes, cache, reader, now, past>>
        BY <4>1 DEF SettleReview, Forget
      <4> QED  BY <1>1, <4>2, StatusStep
    <3>3. CASE \E e \in Entries, secret \in Secrets \cup {Nil} : SetSecret(e, secret)
      BY <1>1, <3>3, SecretStep
    <3> QED  BY <2>2, <3>1, <3>2, <3>3 DEF BrokerStep
  <2>3. CASE \E n \in DOMAIN Snapshots : Transfer(n)
    BY <1>1, <2>3, TransferStep
  <2>4. CASE Tick
    BY <1>1, <2>4, TickStep
  <2> QED  BY <1>1, <2>1, <2>2, <2>3, <2>4 DEF Quiet
<1> QED  BY <1>1, AnswerStep, ListStep, DisplayStutter DEF DisplayNext

(***************************************************************************)
(* For every request, node, number of pages, lifetime and limit: whatever  *)
(* a page shows of a node GitHub said of that node, no longer ago than an  *)
(* entry lives and a page takes, to the request's own credential, which is *)
(* in force when it is shown (review_request, permission_state_view,       *)
(* resolve_display, cached_display).                                       *)
(***************************************************************************)
THEOREM PagesAreTrue == DisplaySpec => []DisplayIsTrue
<1>1. DisplayInit => DisplayInv
  BY DisplayFirst
<1>2. DisplayInv /\ [DisplayNext]_displayVars => DisplayInv'
  BY DisplayStep
<1>3. DisplayInv => DisplayIsTrue
  BY DEF DisplayInv
<1> QED  BY <1>1, <1>2, <1>3, PTL DEF DisplaySpec
=============================================================================
