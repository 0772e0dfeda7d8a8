--------------------------- MODULE GraphqlSummary ---------------------------
(***************************************************************************)
(* What the host is shown of an analysed GraphQL request (target_for,      *)
(* mutation_inputs, operation_summaries and Review::facts in               *)
(* src/src/graphql.rs).  Wording is left out: an effect or a warning is    *)
(* named by the input key it is about.                                     *)
(***************************************************************************)
EXTENDS GraphqlDocument, Filters, SequencesExt

CONSTANTS
  MaxFacts  \* how many operations, fields and targets the overview lists (8)

ASSUME FactsAssumption == MaxFacts \in Nat \ {0}

\* A field of the expanded operation: its name, response path, the index of
\* the field it is selected in (0: none), resolved arguments, conditions and
\* target.

NodeId(path, id, type) == [kind |-> "node", path |-> path, id |-> id, type |-> type]
RepositoryNumber(owner, repository, number, type) ==
  [kind |-> "number", owner |-> owner, repository |-> repository, number |-> number,
   type |-> type]

-----------------------------------------------------------------------------
(* target_for *)

\* The input member that names the target of a mutation, and its type.
TargetRule ==
  [addComment |-> <<"subjectId", "Issue or PullRequest">>,
   updateIssue |-> <<"id", "Issue">>,
   closeIssue |-> <<"issueId", "Issue">>,
   reopenIssue |-> <<"issueId", "Issue">>,
   addPullRequestReview |-> <<"pullRequestId", "PullRequest">>,
   updatePullRequest |-> <<"pullRequestId", "PullRequest">>,
   createPullRequest |-> <<"repositoryId", "Repository">>,
   addPullRequestReviewThreadReply |->
     <<"pullRequestReviewThreadId", "PullRequestReviewThread">>]

\* Mutations that may name one of several; two of them are not guessed about.
Candidates ==
  {<<"pullRequestId", "PullRequest">>, <<"pullRequestReviewId", "PullRequestReview">>,
   <<"inReplyTo", "PullRequestReviewComment">>}
Ambiguous ==
  {"addPullRequestReviewComment", "addPullRequestReviewThread", "submitPullRequestReview"}

RuleFor(field, args) ==
  LET input == Get(args, "input")
      provided == {c \in Candidates : Member(input, c[1]) \notin {None, Null}}
  IN IF field \in Ambiguous
     THEN (IF Cardinality(provided) = 1 THEN CHOOSE c \in provided : TRUE ELSE None)
     ELSE Get(TargetRule, field)

NonEmpty(text) == text # None /\ text # ""

\* The type of a numbered child of a repository.
NumberedType ==
  [issue |-> "Issue", pullRequest |-> "PullRequest",
   issueOrPullRequest |-> "Issue or PullRequest"]

\* A number the GraphQL Int of the field can hold.
Positive(value) == value # None /\ value.t = "int" /\ value.v \notin {"0", "-1", "2147483648"}

TargetFor(kind, field, args, parent) ==
  LET rule == IF kind = "mutation" /\ parent = None THEN RuleFor(field, args) ELSE None
      id == IF rule = None THEN None ELSE StringOf(Member(Get(args, "input"), rule[1]))
      owner == StringOf(Get(parent.args, "owner"))
      name == StringOf(Get(parent.args, "name"))
  IN IF rule # None THEN (IF NonEmpty(id) THEN NodeId(rule[1], id, rule[2]) ELSE None)
     ELSE IF kind # "query" THEN None
     ELSE IF parent = None
     THEN IF field = "node" /\ NonEmpty(StringOf(Get(args, "id")))
          THEN NodeId("id", StringOf(Get(args, "id")), "Node (unknown type)") ELSE None
     ELSE IF /\ parent.parent = 0 /\ parent.field = "repository"
             /\ field \in DOMAIN NumberedType
             /\ NonEmpty(owner) /\ NonEmpty(name) /\ Positive(Get(args, "number"))
          THEN RepositoryNumber(owner, name, args["number"].v, NumberedType[field])
          ELSE None

\* Mutations whose input is also listed member by member, and those members
\* that have a label of their own; the others are "additional".
LabelledMutations ==
  {"createPullRequest", "addPullRequestReview", "addPullRequestReviewComment",
   "addPullRequestReviewThread", "addPullRequestReviewThreadReply", "submitPullRequestReview"}

MutationInputs(field, args) ==
  LET input == Get(args, "input")
  IN IF field \in LabelledMutations /\ input # None /\ input.t = "obj"
     THEN DOMAIN input.m ELSE {}

-----------------------------------------------------------------------------
(* operation_summaries *)

\* The mutations that are summarised, and the input members a summary covers.
Allowed ==
  [addComment |-> {"subjectId", "body"},
   addPullRequestReview |->
     {"pullRequestId", "event", "body", "commitOID", "comments", "threads"},
   submitPullRequestReview |-> {"pullRequestId", "pullRequestReviewId", "event", "body"},
   addPullRequestReviewThread |->
     {"pullRequestId", "pullRequestReviewId", "body", "path", "line", "startLine", "side",
      "startSide", "subjectType"},
   addPullRequestReviewThreadReply |->
     {"pullRequestReviewThreadId", "pullRequestReviewId", "body"},
   addPullRequestReviewComment |->
     {"pullRequestId", "pullRequestReviewId", "inReplyTo", "body", "path", "position",
      "commitOID"},
   updatePullRequest |->
     {"pullRequestId", "baseRefName", "title", "body", "state", "maintainerCanModify",
      "assigneeIds", "milestoneId", "labelIds", "projectIds"},
   createPullRequest |->
     {"repositoryId", "headRepositoryId", "headRefName", "baseRefName", "title", "body",
      "draft", "maintainerCanModify"},
   updateIssue |->
     {"id", "title", "body", "state", "stateReason", "assigneeIds", "milestoneId", "labelIds",
      "projectIds"},
   closeIssue |-> {"issueId", "stateReason", "duplicateIssueId"},
   reopenIssue |-> {"issueId"},
   createCommitOnBranch |-> {"branch", "expectedHeadOid", "message", "fileChanges"}]

\* The input members that are node IDs, and what they identify.
IdKeys ==
  [subjectId |-> "Issue or PullRequest", pullRequestId |-> "PullRequest",
   pullRequestReviewId |-> "PullRequestReview",
   pullRequestReviewThreadId |-> "PullRequestReviewThread",
   inReplyTo |-> "PullRequestReviewComment", repositoryId |-> "Repository",
   headRepositoryId |-> "Repository", issueId |-> "Issue", duplicateIssueId |-> "Issue",
   id |-> "Issue"]

ReviewEvents == {"APPROVE", "REQUEST_CHANGES", "COMMENT"}

\* summary_text: a reference stands for its text.
TextOf(value) ==
  IF value # None /\ value.t \in {"str", "enum", "ref"} THEN value.v ELSE None

IsRead(kind, field) == kind # "mutation" \/ field.parent # 0 \/ field.field = "__typename"

Warning(what, key) == [what |-> what, key |-> key]

ReadSummary(fields, i) ==
  LET f == fields[i]
      children == {fields[c].field : c \in {c \in DOMAIN fields : fields[c].parent = i}}
  IN [index |-> i, field |-> f.field, action |-> "READ", read |-> TRUE,
      conditional |-> f.conditions # <<>>, warnings |-> {},
      targets |-> IF f.target # None /\ f.target.kind = "node"
                  THEN {[path |-> f.target.path, id |-> f.target.id, type |-> f.target.type]}
                  ELSE {},
      effects |-> DOMAIN f.args \cup IF f.field = "repository" THEN children ELSE {}]

\* The members of an input that name a node; the others are warned about.
NodeKeys(input, allowed) ==
  {k \in DOMAIN IdKeys \cap allowed \cap DOMAIN input.m : input.m[k] # Null}
Resolvable(value) == NonEmpty(TextOf(value)) /\ TextOf(value) \notin LongTexts

\* Mutant of Effects: a node ID that is null is taken for a target.
EffectsWithoutIds(input, allowed, targets) ==
  (DOMAIN input.m \cap allowed) \ (DOMAIN IdKeys \cup {"event"})

Effects(input, allowed, targets) ==
  (DOMAIN input.m \cap allowed) \ ({t.path : t \in targets} \cup {"event"})

InputSummary(f, input) ==
  LET allowed == Allowed[f.field]
      named == NodeKeys(input, allowed)
      targets == {[path |-> k, id |-> TextOf(input.m[k]), type |-> IdKeys[k]] :
                    k \in {x \in named : Resolvable(input.m[x])}}
      isReview == f.field \in {"addPullRequestReview", "submitPullRequestReview"}
      event == TextOf(Get(input.m, "event"))
  IN [action |-> IF isReview /\ event \in ReviewEvents THEN event ELSE f.field,
      targets |-> targets,
      effects |-> Effects(input, allowed, targets),
      warnings |->
        {Warning("argument", k) : k \in DOMAIN f.args \ {"input"}}
        \cup {Warning("not summarized", k) :
                k \in DOMAIN input.m \ (allowed \cup {"clientMutationId"})}
        \cup {Warning("not a node ID", k) : k \in {x \in named : ~Resolvable(input.m[x])}}
        \cup (IF isReview /\ event \notin ReviewEvents THEN {Warning("event", "event")} ELSE {})
        \cup (IF targets = {} /\ f.field # "createCommitOnBranch"
              THEN {Warning("no target", None)} ELSE {})]

WriteSummary(fields, i) ==
  LET f == fields[i]
      input == Get(f.args, "input")
      bare(what) == [action |-> f.field, targets |-> {}, effects |-> {},
                     warnings |-> {Warning(what, None)}]
      shown == IF f.field \notin DOMAIN Allowed THEN bare("inspect every argument")
               ELSE IF input = None \/ input.t # "obj" THEN bare("input unavailable")
               ELSE InputSummary(f, input)
  IN [index |-> i, field |-> f.field, action |-> shown.action, read |-> FALSE,
      conditional |-> f.conditions # <<>>, warnings |-> shown.warnings,
      targets |-> shown.targets, effects |-> shown.effects]

OperationSummaries(kind, fields) ==
  LET shown == {i \in DOMAIN fields : \/ fields[i].parent = 0
                                      \/ DOMAIN fields[i].args # {}
                                      \/ fields[i].target # None}
      summary(i) == IF IsRead(kind, fields[i]) THEN ReadSummary(fields, i)
                    ELSE WriteSummary(fields, i)
      indices == Keep([i \in DOMAIN fields |-> i], shown)
  IN [j \in DOMAIN indices |-> summary(indices[j])]

-----------------------------------------------------------------------------
(* facts: the bounded overview *)

\* push_fact: a new value is listed while there is room, or there is more.
PushFact(facts, list, value) ==
  IF value \in Elems(facts[list]) THEN facts
  ELSE IF Len(facts[list]) < MaxFacts THEN [facts EXCEPT ![list] = Append(@, value)]
  ELSE [facts EXCEPT !.more = TRUE]

\* What a field adds to the lists, in order.
FieldFacts(kind, f) ==
  LET branch == Member(Get(f.args, "input"), "branch")
      owner == StringOf(Get(f.args, "owner"))
      name == StringOf(Get(f.args, "name"))
      commit == kind = "mutation" /\ f.parent = 0 /\ f.field = "createCommitOnBranch"
      repository == StringOf(Member(branch, "repositoryNameWithOwner"))
      head == StringOf(Member(branch, "branchName"))
      t == f.target
  IN (IF f.parent = 0 THEN <<<<"fields", f.field>>>> ELSE <<>>)
     \o (IF kind = "query" /\ f.parent = 0 /\ f.field = "repository"
            /\ owner # None /\ name # None
         THEN <<<<"repositories", <<owner, name>>>>>> ELSE <<>>)
     \o (IF commit /\ repository # None THEN <<<<"repositories", <<repository>>>>>> ELSE <<>>)
     \o (IF commit /\ head # None THEN <<<<"targets", <<"branch", head>>>>>> ELSE <<>>)
     \o (IF t = None THEN <<>>
         ELSE IF t.kind = "node" THEN <<<<"targets", <<t.type, t.id>>>>>>
         ELSE <<<<"repositories", <<t.owner, t.repository>>>>, <<"targets", <<"#", t.number>>>>,
                <<"artifacts", <<t.owner, t.repository, t.number, t.type>>>>>>)

\* Writes first, then reads.
Ordered(operations) ==
  LET reads == {j \in DOMAIN operations : operations[j].read}
  IN Keep(operations, DOMAIN operations \ reads) \o Keep(operations, reads)

\* The operations there is room for.
Listed(operations) ==
  SubSeq(Ordered(operations), 1, IF Len(operations) < MaxFacts THEN Len(operations) ELSE MaxFacts)

\* The overview of these operations and more that are omitted.
Overview(shown, omitted, pushes) ==
  LET start == [operations |-> shown, omitted |-> omitted, more |-> omitted > 0,
                fields |-> <<>>, repositories |-> <<>>, targets |-> <<>>, artifacts |-> <<>>]
      after[n \in 0 .. Len(pushes)] ==
        IF n = 0 THEN start ELSE PushFact(after[n - 1], pushes[n][1], pushes[n][2])
  IN after[Len(pushes)]

FactsOf(operations, pushes) ==
  Overview(Listed(operations), Len(operations) - Len(Listed(operations)), pushes)

Facts(kind, fields) ==
  FactsOf(OperationSummaries(kind, fields),
          FlattenSeq([i \in DOMAIN fields |-> FieldFacts(kind, fields[i])]))
=============================================================================
