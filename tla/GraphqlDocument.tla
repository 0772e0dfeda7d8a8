-------------------------- MODULE GraphqlDocument --------------------------
(***************************************************************************)
(* A GraphQL request as the broker parses it (src/src/graphql.rs): the     *)
(* envelope, the document, the operation it selects, the values of its     *)
(* variables, and the plan of a comment that may be sent under a saved     *)
(* permission.                                                             *)
(*                                                                         *)
(* The selections of a document are numbered: doc.sel maps a number to a   *)
(* field, an inline fragment or a spread, and a selection set is the       *)
(* sequence of its members' numbers.  Characters and tokens are left out;  *)
(* doc.syntax says whether the parser gets through them.                   *)
(***************************************************************************)
EXTENDS Naturals, Sequences, FiniteSets

CONSTANTS
  None,        \* an absent value
  LargeTexts,  \* texts over 4096 bytes, shown by reference
  LongTexts    \* texts over 512 bytes, too long for a node ID

ASSUME TextAssumption == LargeTexts \subseteq LongTexts /\ "" \notin LongTexts

Elems(s) == {s[i] : i \in DOMAIN s}
Distinct(s) == \A i, j \in DOMAIN s : s[i] = s[j] => i = j
Empty == [k \in {} |-> None]

-----------------------------------------------------------------------------
(* Values *)

Var(name) == [t |-> "var", name |-> name]
Missing(name) == [t |-> "missing", name |-> name]
Str(text) == [t |-> "str", v |-> text]
Enum(text) == [t |-> "enum", v |-> text]
Number(text) == [t |-> "int", v |-> text]
Bool(text) == [t |-> "bool", v |-> text]
Reference(text) == [t |-> "ref", v |-> text]
Null == [t |-> "null"]
List(n) == [t |-> "list", n |-> n]
Object(m) == [t |-> "obj", m |-> m]

Get(m, key) == IF key \in DOMAIN m THEN m[key] ELSE None
Member(value, key) == IF value # None /\ value.t = "obj" THEN Get(value.m, key) ELSE None
StringOf(value) == IF value # None /\ value.t = "str" THEN value.v ELSE None

\* Objects nest at most three deep here; Leaf is applied to what is no object.
Members(Leaf(_), value) ==
  IF value.t = "obj" THEN Object([k \in DOMAIN value.m |-> Leaf(value.m[k])]) ELSE Leaf(value)

\* compact_value: a large text is replaced by a reference, at any depth.
CompactLeaf(value) ==
  IF value.t = "str" /\ value.v \in LargeTexts THEN Reference(value.v) ELSE value
CompactTwo(value) == Members(CompactLeaf, value)
Compact(value) == Members(CompactTwo, value)

\* The variables of a value.
LeafVars(value) == IF value.t = "var" THEN {value.name} ELSE {}
VarsTwo(value) ==
  IF value.t = "obj" THEN UNION {LeafVars(value.m[k]) : k \in DOMAIN value.m} ELSE LeafVars(value)
VarsOf(value) ==
  IF value.t = "obj" THEN UNION {VarsTwo(value.m[k]) : k \in DOMAIN value.m} ELSE LeafVars(value)

\* A value with its variables replaced by their (compacted) values.
Resolve(vars, value) ==
  LET leaf(v) == IF v.t = "var" THEN vars[v.name] ELSE CompactLeaf(v)
      two(v) == Members(leaf, v)
  IN Members(two, value)

ResolveArgs(vars, args) == [k \in DOMAIN args |-> Resolve(vars, args[k])]
ArgVars(args) == UNION {VarsOf(args[k]) : k \in DOMAIN args}

-----------------------------------------------------------------------------
(* Documents *)

\* Selections have every field, used or not.
Field(name, alias, args, dirs, kids) ==
  [k |-> "field", name |-> name, alias |-> alias, args |-> args, dirs |-> dirs,
   on |-> None, kids |-> kids]
Inline(on, dirs, kids) ==
  [k |-> "inline", name |-> None, alias |-> None, args |-> Empty, dirs |-> dirs,
   on |-> on, kids |-> kids]
Spread(name, dirs) ==
  [k |-> "spread", name |-> name, alias |-> None, args |-> Empty, dirs |-> dirs,
   on |-> None, kids |-> <<>>]

Directive(name, args) == [name |-> name, args |-> args]
Variable(name, type, required, default, dirs) ==
  [name |-> name, type |-> type, required |-> required, default |-> default, dirs |-> dirs]
Operation(kind, name, vars, dirs, kids) ==
  [kind |-> kind, name |-> name, vars |-> vars, dirs |-> dirs, kids |-> kids]
Fragment(name, on, dirs, kids) == [name |-> name, on |-> on, dirs |-> dirs, kids |-> kids]

NamesOf(defs) == [i \in DOMAIN defs |-> defs[i].name]

\* Parser::document: what the parser refuses beyond syntax.
DocumentParses(doc) ==
  /\ doc.syntax
  /\ Distinct(NamesOf(doc.frags))
  /\ \A i, j \in DOMAIN doc.ops :
       doc.ops[i].name = doc.ops[j].name /\ doc.ops[i].name # None => i = j
  /\ \A o \in Elems(doc.ops) : Distinct(NamesOf(o.vars))
  /\ doc.ops # <<>>
  /\ Len(doc.ops) > 1 => \A o \in Elems(doc.ops) : o.name # None

FragmentNames(doc) == Elems(NamesOf(doc.frags))
FragmentOf(doc, name) == doc.frags[CHOOSE i \in DOMAIN doc.frags : doc.frags[i].name = name]

-----------------------------------------------------------------------------
(* The envelope *)

\* parse_request_with_limit up to the document: the operation asked for and
\* the variables supplied, or None where there is no one meaning.
\* A body of type "graphql" is [unique, extra, typed, requested, supplied, doc]:
\* no key twice, a key beyond the three, each member of its type.
EnvelopeParses(body, media) ==
  /\ body.type = "graphql"
  /\ \/ media = "application/graphql"
     \/ /\ media = "application/json"
        /\ body.unique
        /\ ~body.extra
        /\ body.typed

Requested(body, media) == IF media = "application/json" THEN body.requested ELSE None
Supplied(body, media) == IF media = "application/json" THEN body.supplied ELSE Empty

\* The operation of the document that is selected; none is guessed.
Selected(doc, requested) ==
  LET named == {i \in DOMAIN doc.ops : doc.ops[i].name = requested}
  IN IF requested # None THEN (IF named = {} THEN None ELSE CHOOSE i \in named : TRUE)
     ELSE IF Len(doc.ops) = 1 THEN 1 ELSE None

-----------------------------------------------------------------------------
(* Variables *)

\* The value of a declared variable: supplied, default or missing.
EffectiveOf(variable, supplied) ==
  IF variable.name \in DOMAIN supplied THEN supplied[variable.name]
  ELSE IF variable.default # None THEN variable.default
  ELSE Missing(variable.name)

\* effective_variables of analyze_parsed.
Effective(op, supplied) ==
  [n \in Elems(NamesOf(op.vars)) |->
     EffectiveOf(op.vars[CHOOSE i \in DOMAIN op.vars : op.vars[i].name = n], supplied)]

RequiredAreThere(op, supplied) ==
  \A v \in Elems(op.vars) : v.required => EffectiveOf(v, supplied).t \notin {"missing", "null"}

-----------------------------------------------------------------------------
(* comment_plan *)

\* resolve of comment_plan: a variable must be declared with the type.
ResolveTyped(op, vars, value, type) ==
  IF value = None THEN None
  ELSE IF value.t # "var" THEN value
  ELSE IF \E d \in Elems(op.vars) : d.name = value.name /\ d.type = type
       THEN vars[value.name] ELSE None

\* What may be selected of the answer, and the kind of value that holds it.
ResponseFields ==
  [payload |-> [subject |-> "subject", commentEdge |-> "edge", clientMutationId |-> "leaf"],
   edge |-> [node |-> "comment"],
   subject |-> [id |-> "leaf"],
   comment |-> [id |-> "leaf", url |-> "leaf", body |-> "leaf"]]

ResponseKind(parent, name) ==
  IF name = "__typename" THEN "leaf" ELSE Get(ResponseFields[parent], name)

ResponseName(s) == IF s.alias # None THEN s.alias ELSE s.name

\* response of comment_plan, one level of selections at a time: a set of the
\* numbers and kinds that are still to be looked into, or None.
ResponseLevel(doc, kids, parent) ==
  LET sels == [i \in DOMAIN kids |-> doc.sel[kids[i]]]
      plain(s) == /\ s.k = "field" /\ DOMAIN s.args = {} /\ s.dirs = <<>>
                  /\ ResponseKind(parent, s.name) # None
                  /\ (ResponseKind(parent, s.name) = "leaf") => s.kids = <<>>
  IN IF kids # <<>> /\ Distinct([i \in DOMAIN sels |-> ResponseName(sels[i])])
        /\ \A s \in Elems(sels) : plain(s)
     THEN {<<s.kids, ResponseKind(parent, s.name)>> :
             s \in {x \in Elems(sels) : ResponseKind(parent, x.name) # "leaf"}}
     ELSE None

\* The kinds nest three deep: payload, edge or subject, comment.
ResponseFits(doc, kids) ==
  LET one == ResponseLevel(doc, kids, "payload")
      two(p) == ResponseLevel(doc, p[1], p[2])
  IN /\ one # None
     /\ \A p \in one : two(p) # None /\ \A q \in two(p) : two(q) # None

\* Mutant of IsOneComment: the directives of the field do not matter.
IsOneCommentIfAny(doc, op) ==
  /\ Len(doc.ops) = 1 /\ doc.frags = <<>> /\ op.kind = "mutation" /\ op.dirs = <<>>
  /\ \A v \in Elems(op.vars) : v.dirs = <<>>
  /\ Len(op.kids) = 1
  /\ LET s == doc.sel[op.kids[1]]
     IN /\ s.k = "field" /\ s.name = "addComment"
        /\ \E key \in DOMAIN s.args : DOMAIN s.args = {key}

\* One operation, a mutation of a single unconditional addComment.
IsOneComment(doc, op) ==
  /\ Len(doc.ops) = 1 /\ doc.frags = <<>> /\ op.kind = "mutation" /\ op.dirs = <<>>
  /\ \A v \in Elems(op.vars) : v.dirs = <<>>
  /\ Len(op.kids) = 1
  /\ LET s == doc.sel[op.kids[1]]
     IN /\ s.k = "field" /\ s.name = "addComment" /\ s.dirs = <<>>
        /\ \E key \in DOMAIN s.args : DOMAIN s.args = {key}

\* The variables comment_plan uses: of the argument, and of the input's members.
PlanUses(arg, input) ==
  LeafVars(arg) \cup UNION {LeafVars(input.m[k]) : k \in DOMAIN input.m}

CommentKeys == {"subjectId", "body", "clientMutationId"}

\* The body of a plan is not blank, the subject is a node ID.
PlanTexts(subject, body) ==
  /\ subject # None /\ subject.t = "str" /\ subject.v # "" /\ subject.v \notin LongTexts
  /\ body # None /\ body.t = "str" /\ body.v \notin {"", " "}

\* vars are the variables' values before they are compacted.
CommentPlan(doc, op, vars, supplied) ==
  IF ~IsOneComment(doc, op) \/ ~(DOMAIN supplied \subseteq DOMAIN vars) THEN None
  ELSE
    LET s == doc.sel[op.kids[1]]
        arg == Get(s.args, "input")
        input == ResolveTyped(op, vars, arg, "AddCommentInput")
        part(key, type) == ResolveTyped(op, vars, Member(input, key), type)
        subject == part("subjectId", "ID")
        body == part("body", "String")
        client == part("clientMutationId", "String")
        ok == /\ input # None /\ input.t = "obj" /\ DOMAIN input.m \subseteq CommentKeys
              /\ PlanTexts(subject, body)
              /\ "clientMutationId" \in DOMAIN input.m =>
                   client # None /\ client.t \in {"str", "null"}
              /\ PlanUses(arg, input) = Elems(NamesOf(op.vars))
              /\ ResponseFits(doc, s.kids)
    IN IF ok THEN [subject |-> subject.v, body |-> body.v, client |-> client] ELSE None
=============================================================================
