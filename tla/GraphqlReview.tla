--------------------------- MODULE GraphqlReview ---------------------------
(***************************************************************************)
(* The broker decides what becomes of one request of a guest: the gates on *)
(* its transport (handle_from_peer_traced, await_review and                *)
(* Detail::from_request), and for a GraphQL request the walk over its      *)
(* fragments, the scan of its directives and the expansion that the host   *)
(* reviews (inspect_with_limit in src/src/graphql.rs).                     *)
(*                                                                         *)
(* The recursions of the code are stacks here, one step per call or pop.   *)
(* A HashSet is iterated in any order.  The byte budget of the expansion   *)
(* may run out at any field.                                               *)
(***************************************************************************)
EXTENDS GraphqlSummary, RequestPolicy

CONSTANTS
  Inputs,         \* the requests that arrive, each [req, access, allowAll]
  FragmentOrder,  \* the names of fragments, sorted
  MaxDepth,       \* MAX_DEPTH
  MaxSteps,       \* selections an expansion may visit (1024)
  MaxFields       \* MAX_FIELDS

ASSUME LimitAssumption == MaxDepth \in Nat /\ MaxSteps \in Nat /\ MaxFields \in Nat

IsSequence(s) == s \in Seq(Elems(s))

\* What the parser makes of a text: numbered selections, each in the set of
\* the one that holds it, and definitions of operations and fragments.
IsDocument(doc) ==
  LET members(kids) == kids \in Seq(DOMAIN doc.sel) /\ Distinct(kids)
  IN /\ IsFiniteSet(DOMAIN doc.sel)
     /\ IsSequence(doc.ops) /\ IsSequence(doc.frags)
     /\ \A o \in Elems(doc.ops) : members(o.kids) /\ IsSequence(o.vars) /\ IsSequence(o.dirs)
     /\ \A f \in Elems(doc.frags) : members(f.kids) /\ IsSequence(f.dirs)
     /\ \A n \in DOMAIN doc.sel :
          /\ doc.sel[n].k \in {"field", "inline", "spread"}
          /\ members(doc.sel[n].kids) /\ IsSequence(doc.sel[n].dirs)

ASSUME InputsAssumption ==
  \A in \in Inputs :
    in.req.body.type = "graphql" =>
      /\ IsDocument(in.req.body.doc)
      /\ FragmentNames(in.req.body.doc) \subseteq Elems(FragmentOrder)

ASSUME OrderAssumption == IsSequence(FragmentOrder) /\ None \notin Nat

VARIABLES
  input,    \* the request, with the guest's access and the session's policy
  pc,       \* what is done next
  verdict,  \* what becomes of the request
  read,     \* the read_only of inspect_with_limit
  review,   \* the Review: its status and, where there is none, why
  plan,     \* the CommentPlan
  walk,     \* validate_fragments: the calls of visit, and done
  scan,     \* query_directives_supported: pending and visited
  expander  \* Expander: the calls of expand, steps and fields

vars == <<input, pc, verdict, read, review, plan, walk, scan, expander>>

Req == input.req
Doc == Req.body.doc
OpIndex == Selected(Doc, Requested(Req.body, MediaOf(Req)))
Op == Doc.ops[OpIndex]
Given == Supplied(Req.body, MediaOf(Req))
Raw == Effective(Op, Given)
Values == [n \in DOMAIN Raw |-> Compact(Raw[n])]

NoWalk == [stack |-> <<>>, done |-> {}]
NoScan == [pending |-> <<>>, visited |-> {}]
NoExpansion == [frames |-> <<>>, steps |-> 0, fields |-> <<>>]
NoReview == [status |-> "none", why |-> "none"]
Parsed == [status |-> "parsed", why |-> "none"]
Unavailable(why) == [status |-> "unavailable", why |-> why]

\* The request is settled, and the walks are forgotten.
Settle(v) ==
  /\ verdict' = v
  /\ pc' = "end"
  /\ walk' = NoWalk
  /\ scan' = NoScan

-----------------------------------------------------------------------------
(* The gates *)

\* handle_from_peer_traced, of a guest that is known and not killed.
Gate ==
  /\ pc = "gate"
  /\ LET cline == ClineVerdict(Req, input.access)
     IN IF BrokerDenies(Req) \/ DestinationDenies(Req) \/ cline = "deny" THEN Settle("refuse")
        ELSE IF Req.method = "CONNECT" THEN Settle("tunnel")
        ELSE IF cline = "synthetic" THEN Settle("answer")
        ELSE IF Classify(Req, input.allowAll) # "review" THEN Settle("forward")
        ELSE pc' = "body" /\ UNCHANGED <<verdict, walk, scan>>
  /\ UNCHANGED <<input, read, review, plan, expander>>

\* Detail::from_request: what the inbox can show at all.
Reviewable(req) ==
  /\ req.body.text
  /\ req.body.type # "empty" =>
       MediaOf(req) \in {"application/json", "application/graphql", "text/plain"}

IsGraphql(req) == req.host = "api.github.com" /\ req.path = <<"graphql">>

\* The names of the fragments a selection set spreads, at any depth.
Levels(doc, kids) ==
  LET level[i \in Nat] ==
        IF i = 0 THEN Elems(kids)
        ELSE LET above == level[i - 1]
             IN above \cup UNION {Elems(doc.sel[n].kids) : n \in above}
  IN level
Below(doc, kids) == Levels(doc, kids)[Cardinality(DOMAIN doc.sel)]
Spreads(doc, kids) ==
  {doc.sel[n].name : n \in {m \in Below(doc, kids) : doc.sel[m].k = "spread"}}

Edges(doc, name) == Spreads(doc, FragmentOf(doc, name).kids)
AllReferences(doc) ==
  (UNION {Spreads(doc, o.kids) : o \in Elems(doc.ops)})
  \cup (UNION {Edges(doc, f) : f \in FragmentNames(doc)})

\* The body is collected.  Git LFS downloads pass; a GraphQL request is
\* parsed up to its fragments, and anything else is for the host to see.
Collect ==
  /\ pc = "body"
  /\ LET blocked == \/ Header(Req, "content-encoding") # None
                    \/ LastOf(Req.path) = "git-receive-pack"
                    \/ ~Req.body.size
         batch == IsBatchRoute(Req)
         parses == EnvelopeParses(Req.body, MediaOf(Req)) /\ DocumentParses(Doc)
         show(r) == review' = r /\ pc' = "decide" /\ UNCHANGED <<verdict, walk, scan>>
     IN IF blocked \/ (batch /\ ~IsDownload(Req)) THEN Settle("refuse") /\ UNCHANGED review
        ELSE IF batch THEN Settle("forward") /\ UNCHANGED review
        ELSE IF ~Reviewable(Req) THEN Settle("refuse") /\ UNCHANGED review
        ELSE IF ~IsGraphql(Req) THEN show(NoReview)
        ELSE IF Req.query \/ ~parses THEN show(Unavailable("parse"))
        ELSE IF ~(AllReferences(Doc) \subseteq FragmentNames(Doc))
        THEN show(Unavailable("undefined"))
        ELSE pc' = "fragments" /\ UNCHANGED <<verdict, review, walk, scan>>
  /\ UNCHANGED <<input, read, plan, expander>>

-----------------------------------------------------------------------------
(* validate_fragments *)

ToDecide(r) == review' = r /\ pc' = "decide" /\ walk' = NoWalk /\ scan' = NoScan

Top(stack) == stack[Len(stack)]
Pop(stack) == SubSeq(stack, 1, Len(stack) - 1)
Call(name) == [name |-> name, todo |-> Edges(Doc, name)]
Active(w) == {w.stack[i].name : i \in DOMAIN w.stack}

\* Mutant of VisitNode: a fragment met a second time is taken for a cycle.
VisitNodeOnce(w, name) ==
  IF Len(w.stack) > MaxDepth THEN ToDecide(Unavailable("depth"))
  ELSE IF name \in Active(w) \cup w.done THEN ToDecide(Unavailable("cycle"))
  ELSE /\ walk' = [w EXCEPT !.stack = Append(@, Call(name))]
       /\ UNCHANGED <<review, pc, scan>>

\* visit: the depth, then what is done, then what is open.
VisitNode(w, name) ==
  IF Len(w.stack) > MaxDepth THEN ToDecide(Unavailable("depth"))
  ELSE IF name \in w.done THEN walk' = w /\ UNCHANGED <<review, pc, scan>>
  ELSE IF name \in Active(w) THEN ToDecide(Unavailable("cycle"))
  ELSE /\ walk' = [w EXCEPT !.stack = Append(@, Call(name))]
       /\ UNCHANGED <<review, pc, scan>>

\* The indices of the fragments that are not done, in the order of names.
Roots == {i \in DOMAIN FragmentOrder : FragmentOrder[i] \in FragmentNames(Doc) \ walk.done}

\* The next fragment, in the order of their names.
VisitRoot ==
  /\ pc = "fragments"
  /\ walk.stack = <<>>
  /\ \E i \in Roots : (\A j \in Roots : i <= j) /\ VisitNode(walk, FragmentOrder[i])
  /\ UNCHANGED <<input, verdict, read, plan, expander>>

\* A child of the fragment on top, in any order, or its end.
Visit ==
  /\ pc = "fragments"
  /\ walk.stack # <<>>
  /\ LET top == Top(walk.stack)
     IN \/ /\ top.todo = {}
           /\ walk' = [stack |-> Pop(walk.stack), done |-> walk.done \cup {top.name}]
           /\ UNCHANGED <<review, pc, scan>>
        \/ \E child \in top.todo :
             VisitNode([walk EXCEPT !.stack[Len(walk.stack)].todo = @ \ {child}], child)
  /\ UNCHANGED <<input, verdict, read, plan, expander>>

\* Every fragment is done; the operation is selected.
SelectOperation ==
  /\ pc = "fragments"
  /\ walk.stack = <<>>
  /\ Roots = {}
  /\ IF OpIndex = None THEN ToDecide(Unavailable("select"))
     ELSE /\ pc' = IF Op.kind = "query" THEN "directives" ELSE "analyze"
          /\ scan' = IF Op.kind = "query" THEN [NoScan EXCEPT !.pending = Op.kids] ELSE NoScan
          /\ walk' = NoWalk
          /\ UNCHANGED review
  /\ UNCHANGED <<input, verdict, read, plan, expander>>

-----------------------------------------------------------------------------
(* query_directives_supported *)

SupportedDirectives(dirs) ==
  \A d \in Elems(dirs) :
    /\ d.name \in {"skip", "include"}
    /\ DOMAIN d.args = {"if"}
    /\ d.args["if"].t \in {"bool", "var"}

Scanned(r) == read' = r /\ pc' = "analyze" /\ scan' = NoScan

\* Mutant of Enter: the directives of a fragment's definition are not looked at.
EnterAnyway(s) ==
  IF s.k # "spread"
  THEN scan' = [scan EXCEPT !.pending = Pop(@) \o s.kids] /\ UNCHANGED <<read, pc>>
  ELSE IF s.name \in scan.visited
  THEN scan' = [scan EXCEPT !.pending = Pop(@)] /\ UNCHANGED <<read, pc>>
  ELSE scan' = [pending |-> Pop(scan.pending) \o FragmentOf(Doc, s.name).kids,
                visited |-> scan.visited \cup {s.name}] /\ UNCHANGED <<read, pc>>

\* The selections of a supported one are pending, those of a fragment once.
Enter(s) ==
  IF s.k # "spread"
  THEN scan' = [scan EXCEPT !.pending = Pop(@) \o s.kids] /\ UNCHANGED <<read, pc>>
  ELSE IF s.name \in scan.visited
  THEN scan' = [scan EXCEPT !.pending = Pop(@)] /\ UNCHANGED <<read, pc>>
  ELSE LET fragment == FragmentOf(Doc, s.name)
       IN IF fragment.dirs # <<>> THEN Scanned(FALSE)
          ELSE /\ scan' = [pending |-> Pop(scan.pending) \o fragment.kids,
                           visited |-> scan.visited \cup {s.name}]
               /\ UNCHANGED <<read, pc>>

Scan ==
  /\ pc = "directives"
  /\ IF Op.dirs # <<>> \/ \E v \in Elems(Op.vars) : v.dirs # <<>> THEN Scanned(FALSE)
     ELSE IF scan.pending = <<>> THEN Scanned(TRUE)
     ELSE LET s == Doc.sel[Top(scan.pending)]
          IN IF SupportedDirectives(s.dirs) THEN Enter(s) ELSE Scanned(FALSE)
  /\ UNCHANGED <<input, verdict, review, plan, walk, expander>>

-----------------------------------------------------------------------------
(* analyze_parsed *)

DirectiveVars(dirs) == UNION {ArgVars(d.args) : d \in Elems(dirs)}
Defined(names) == names \subseteq DOMAIN Raw

\* conditions: those of the parent, then one per directive.
Conditions(dirs, parent) ==
  parent \o [i \in DOMAIN dirs |->
               [kind |-> "directive", name |-> dirs[i].name,
                args |-> ResolveArgs(Values, dirs[i].args)]]
TypeCondition(on) == [kind |-> "type", name |-> on]
FragmentCondition(fragment) ==
  [kind |-> "fragment", name |-> fragment.name, on |-> fragment.on]

Frame(kids, parent, path, conditions) ==
  [todo |-> kids, parent |-> parent, path |-> path, conditions |-> conditions]

\* An analysis that fails leaves no plan; whether it reads is settled before.
Fail(why) ==
  /\ review' = Unavailable(why)
  /\ pc' = "decide"
  /\ plan' = None
  /\ expander' = NoExpansion

\* The variables, the plan of a comment, and the first call of expand.
Analyze ==
  /\ pc = "analyze"
  /\ IF ~RequiredAreThere(Op, Given) THEN Fail("required variable")
     ELSE IF ~Defined(DirectiveVars(Op.dirs)) THEN Fail("undefined variable")
     ELSE /\ plan' = CommentPlan(Doc, Op, Raw, Given)
          /\ expander' = [NoExpansion EXCEPT !.frames =
                            <<Frame(Op.kids, 0, <<>>, Conditions(Op.dirs, <<>>))>>]
          /\ pc' = "expand"
          /\ UNCHANGED review
  /\ UNCHANGED <<input, verdict, read, walk, scan>>

\* The frame on top, one selection further.
Advanced(e) ==
  [e EXCEPT !.steps = @ + 1, !.frames[Len(e.frames)].todo = Tail(@)]

\* A call of expand, one deeper.
Deeper(e, frame) ==
  IF Len(e.frames) > MaxDepth THEN Fail("depth")
  ELSE /\ expander' = [e EXCEPT !.frames = Append(@, frame)]
       /\ UNCHANGED <<review, pc, plan>>

View(frame, s) ==
  LET args == ResolveArgs(Values, s.args)
      parent == IF frame.parent = 0 THEN None ELSE expander.fields[frame.parent]
  IN [field |-> s.name, path |-> Append(frame.path, ResponseName(s)), parent |-> frame.parent,
      args |-> args, conditions |-> Conditions(s.dirs, frame.conditions),
      target |-> TargetFor(Op.kind, s.name, args, parent),
      inputs |-> IF frame.parent = 0 /\ Op.kind = "mutation"
                 THEN MutationInputs(s.name, args) ELSE {}]

ExpandField(frame, s) ==
  IF Len(expander.fields) >= MaxFields THEN Fail("fields")
  ELSE IF ~Defined(ArgVars(s.args) \cup DirectiveVars(s.dirs)) THEN Fail("undefined variable")
  ELSE LET view == View(frame, s)
           e == Advanced([expander EXCEPT !.fields = Append(@, view)])
       IN Deeper(e, Frame(s.kids, Len(e.fields), view.path, view.conditions))

ExpandInline(frame, s) ==
  IF ~Defined(DirectiveVars(s.dirs)) THEN Fail("undefined variable")
  ELSE Deeper(Advanced(expander),
              Frame(s.kids, frame.parent, frame.path,
                    Conditions(s.dirs, frame.conditions)
                      \o IF s.on = None THEN <<>> ELSE <<TypeCondition(s.on)>>))

ExpandSpread(frame, s) ==
  LET fragment == FragmentOf(Doc, s.name)
      conditions == Conditions(fragment.dirs, Conditions(s.dirs, frame.conditions))
  IN IF ~Defined(DirectiveVars(s.dirs) \cup DirectiveVars(fragment.dirs))
     THEN Fail("undefined variable")
     ELSE Deeper(Advanced(expander),
                 Frame(fragment.kids, frame.parent, frame.path,
                       Append(conditions, FragmentCondition(fragment))))

Expand ==
  /\ pc = "expand"
  /\ expander.frames # <<>>
  /\ Top(expander.frames).todo # <<>>
  /\ LET frame == Top(expander.frames)
         s == Doc.sel[Head(frame.todo)]
     IN IF expander.steps >= MaxSteps THEN Fail("steps")
        ELSE \/ s.k = "field" /\ ExpandField(frame, s)
             \/ s.k = "inline" /\ ExpandInline(frame, s)
             \/ s.k = "spread" /\ ExpandSpread(frame, s)
  /\ UNCHANGED <<input, verdict, read, walk, scan>>

\* charge: the byte budget runs out at a field.
Exhausted ==
  /\ pc = "expand"
  /\ expander.frames # <<>>
  /\ Top(expander.frames).todo # <<>>
  /\ Doc.sel[Head(Top(expander.frames).todo)].k = "field"
  /\ Fail("budget")
  /\ UNCHANGED <<input, verdict, read, walk, scan>>

\* A call of expand returns; with the last one the analysis is there.
Return ==
  /\ pc = "expand"
  /\ expander.frames # <<>>
  /\ Top(expander.frames).todo = <<>>
  /\ expander' = [expander EXCEPT !.frames = Pop(@),
                                  !.steps = IF Len(expander.frames) = 1 THEN 0 ELSE @]
  /\ IF Len(expander.frames) = 1 THEN review' = Parsed /\ pc' = "decide"
     ELSE UNCHANGED <<review, pc>>
  /\ UNCHANGED <<input, verdict, read, plan, walk, scan>>

-----------------------------------------------------------------------------
(* The specification *)

\* await_review: a read passes when its transport is plain, and everything
\* else waits for the host.
Decide ==
  /\ pc = "decide"
  /\ Settle(IF read /\ ReadTransport(Req) THEN "forward" ELSE "review")
  /\ UNCHANGED <<input, read, review, plan, expander>>

Init ==
  /\ input \in Inputs
  /\ pc = "gate"
  /\ verdict = "none"
  /\ read = FALSE
  /\ review = NoReview
  /\ plan = None
  /\ walk = NoWalk
  /\ scan = NoScan
  /\ expander = NoExpansion

Next ==
  \/ Gate \/ Collect
  \/ VisitRoot \/ Visit \/ SelectOperation
  \/ Scan
  \/ Analyze \/ Expand \/ Exhausted \/ Return
  \/ Decide

Spec == Init /\ [][Next]_vars

-----------------------------------------------------------------------------
(* What the document means, without walks, stacks or limits *)

Children(doc, n) ==
  LET s == doc.sel[n]
  IN IF s.k = "spread" THEN FragmentOf(doc, s.name).kids ELSE s.kids

\* Every way down from an operation to a selection, through the fragments.
Ways(doc, op) ==
  LET down[i \in Nat] ==
        IF i = 0 THEN {<<n>> : n \in Elems(op.kids)}
        ELSE UNION {{Append(d, c) : c \in Elems(Children(doc, Top(d)))} : d \in down[i - 1]}
  IN down
Derivations(doc, op) == UNION {Ways(doc, op)[i] : i \in 0 .. Cardinality(DOMAIN doc.sel)}

\* There are n + 1 fragments, each of which spreads the next.
HasChain(doc, n) ==
  \E c \in [1 .. n + 1 -> FragmentNames(doc)] : \A i \in 1 .. n : c[i + 1] \in Edges(doc, c[i])

\* Fragments that go on spreading each other.
Cyclic(doc) ==
  \E S \in SUBSET FragmentNames(doc) : S # {} /\ \A f \in S : Edges(doc, f) \cap S # {}

WellFormed(doc) ==
  /\ DocumentParses(doc)
  /\ AllReferences(doc) \subseteq FragmentNames(doc)
  /\ ~Cyclic(doc)

\* The operations a server could take the request to ask for.
Meant(doc, requested) ==
  {o \in Elems(doc.ops) : IF requested = None THEN Len(doc.ops) = 1 ELSE o.name = requested}

\* The selections of an operation: the least set that holds its own and those
\* below what it holds.
Holds(doc, op, S) ==
  Elems(op.kids) \subseteq S /\ \A n \in S : Elems(Children(doc, n)) \subseteq S
Met(doc, op) ==
  LET holding == {S \in SUBSET DOMAIN doc.sel : Holds(doc, op, S)}
  IN {n \in DOMAIN doc.sel : \A S \in holding : n \in S}

\* A query none of whose parts carries a directive of unknown meaning.
PlainQuery(doc, op) ==
  LET met == Met(doc, op)
      spread == {doc.sel[n].name : n \in {m \in met : doc.sel[m].k = "spread"}}
  IN /\ op.kind = "query"
     /\ op.dirs = <<>> /\ \A v \in Elems(op.vars) : v.dirs = <<>>
     /\ \A n \in met : SupportedDirectives(doc.sel[n].dirs)
     /\ \A f \in spread : FragmentOf(doc, f).dirs = <<>>

MeansRead(req) ==
  /\ ReadTransport(req)
  /\ EnvelopeParses(req.body, MediaOf(req))
  /\ WellFormed(req.body.doc)
  /\ \E o \in Meant(req.body.doc, Requested(req.body, MediaOf(req))) : PlainQuery(req.body.doc, o)

\* The fields of the operation: path, arguments and the conditions met on the
\* way down, in their order.
MeantFields ==
  LET isField(n) == Doc.sel[n].k = "field"
      named(n) == IF isField(n) THEN <<ResponseName(Doc.sel[n])>> ELSE <<>>
      own(n) == LET s == Doc.sel[n]
                    fragment == FragmentOf(Doc, s.name)
                IN Conditions(s.dirs, <<>>)
                   \o IF s.k = "inline" /\ s.on # None THEN <<TypeCondition(s.on)>>
                      ELSE IF s.k = "spread"
                      THEN Append(Conditions(fragment.dirs, <<>>), FragmentCondition(fragment))
                      ELSE <<>>
  IN [d \in {e \in Derivations(Doc, Op) : isField(Top(e))} |->
        [field |-> Doc.sel[Top(d)].name,
         path |-> FlattenSeq([i \in DOMAIN d |-> named(d[i])]),
         args |-> ResolveArgs(Values, Doc.sel[Top(d)].args),
         conditions |-> Conditions(Op.dirs, <<>>)
                          \o FlattenSeq([i \in DOMAIN d |-> own(d[i])])]]

-----------------------------------------------------------------------------
(* Properties *)

(***************************************************************************)
(* A request to a policed host passes without the host's decision exactly  *)
(* when it reads: what passes reads by its method, its Git protocol or the *)
(* only operation its body can mean, and a GraphQL read passes however     *)
(* large its expansion is and in whatever order its fragments are walked,  *)
(* unless they nest too deep ("Display expansion limits must not turn a    *)
(* large read into an approval prompt").  API keys of Cline never pass     *)
(* (classify, cline_verdict, inspect_with_limit, read_transport,           *)
(* is_download).                                                           *)
(***************************************************************************)
ReadExactly ==
  pc = "end" =>
    /\ verdict = "forward" =>
         \/ Req.host \notin GithubHosts \cup {"api.linear.app"}
         \/ input.allowAll
         \/ Req.method \in ReadMethods
         \/ LastOf(Req.path) = "git-upload-pack"
         \/ Req.body.type = "batch" /\ Req.body.operation = "download"
         \/ Req.body.type = "graphql" /\ MeansRead(Req)
    /\ verdict = "forward" /\ Req.host \in ClineHosts \cup {"api.cline.bot"} =>
         ~IsApiKeyManagement(Req.path)
    /\ verdict = "review" /\ Req.body.type = "graphql" =>
         ~MeansRead(Req) \/ HasChain(Doc, MaxDepth + 1)

(***************************************************************************)
(* What the host reviews is the operation: every occurrence of a field,    *)
(* through inline fragments and spreads, once, with its arguments and all  *)
(* conditions on the way to it, below the field that holds it.  A document *)
(* is analysed only when its fragments are defined and acyclic, and it is  *)
(* called cyclic only when it is (Expander::expand, validate_fragments).   *)
(***************************************************************************)
ReviewComplete ==
  /\ review.why = "cycle" => Cyclic(Doc)
  /\ pc = "end" /\ review.status = "parsed" =>
       /\ WellFormed(Doc)
       /\ LET fields == expander.fields
              shown(f) == [field |-> f.field, path |-> f.path, args |-> f.args,
                           conditions |-> f.conditions]
              views == {shown(f) : f \in Elems(fields)}
              meant == MeantFields
          IN /\ views = {meant[d] : d \in DOMAIN meant}
             /\ \A v \in views :
                  Cardinality({i \in DOMAIN fields : shown(fields[i]) = v}) =
                    Cardinality({d \in DOMAIN meant : meant[d] = v})
             /\ \A i \in DOMAIN fields :
                  LET f == fields[i]
                  IN IF Len(f.path) = 1 THEN f.parent = 0
                     ELSE f.parent \in 1 .. i - 1 /\ fields[f.parent].path = Pop(f.path)

(***************************************************************************)
(* The overview hides no effect: every field a mutation executes is in it  *)
(* or counted as omitted, no read takes the place of one, every argument   *)
(* and input member of a summarised mutation shows as its action, a        *)
(* target, an effect or a warning, and what is conditional says so         *)
(* (operation_summaries, Review::facts).                                   *)
(***************************************************************************)
SummaryComplete ==
  pc = "end" /\ review.status = "parsed" =>
    LET fields == expander.fields
        facts == Facts(Op.kind, fields)
        shown == Elems(facts.operations)
        writes == {i \in DOMAIN fields :
                     Op.kind = "mutation" /\ Len(fields[i].path) = 1
                       /\ fields[i].field # "__typename"}
        unseen == writes \ {o.index : o \in shown}
        members(f) == IF "input" \in DOMAIN f.args /\ f.args["input"].t = "obj"
                      THEN DOMAIN f.args["input"].m \ {"clientMutationId"} ELSE {}
        reported(o) == {t.path : t \in o.targets} \cup o.effects
                         \cup {w.key : w \in o.warnings}
                         \cup IF o.action \in ReviewEvents THEN {"event"} ELSE {}
        vague(o) == \E w \in o.warnings : w.what \in {"inspect every argument", "input unavailable"}
    IN /\ unseen # {} =>
            facts.more /\ facts.omitted >= Cardinality(unseen) /\ \A o \in shown : ~o.read
       /\ \A o \in shown :
            LET f == fields[o.index]
            IN /\ o.conditional <=> f.conditions # <<>>
               /\ o.index \in writes =>
                    /\ ~o.read
                    /\ vague(o) \/ (members(f) \cup (DOMAIN f.args \ {"input"})) \subseteq reported(o)

(***************************************************************************)
(* A plan of a comment is the whole meaning of the request it replaces: a  *)
(* server that runs the guest's document, with its variables and defaults, *)
(* executes one unconditional addComment with that subject, that body and  *)
(* that client mutation id, and nothing else (comment_plan).               *)
(***************************************************************************)
CommentPlanExact ==
  pc = "end" /\ plan # None =>
    LET roots == {d \in Derivations(Doc, Op) :
                    /\ Doc.sel[Top(d)].k = "field"
                    /\ Cardinality({i \in DOMAIN d : Doc.sel[d[i]].k = "field"}) = 1}
        value(v) == IF v.t = "var" THEN Raw[v.name] ELSE v
        members(v) == [k \in DOMAIN v.m |-> value(v.m[k])]
    IN /\ Op.kind = "mutation"
       /\ \A o \in Elems(Doc.ops) : o = Op
       /\ \E d \in roots :
            LET s == Doc.sel[d[1]]
            IN /\ roots = {d} /\ Len(d) = 1
               /\ s.name = "addComment" /\ s.dirs = <<>> /\ Op.dirs = <<>>
               /\ DOMAIN s.args = {"input"} /\ value(s.args["input"]).t = "obj"
               /\ LET m == members(value(s.args["input"]))
                  IN /\ m["subjectId"].t = "str" /\ m["subjectId"].v = plan.subject
                     /\ m["body"].t = "str" /\ m["body"].v = plan.body
                     /\ Get(m, "clientMutationId") = plan.client
                     /\ DOMAIN m \subseteq CommentKeys
=============================================================================
