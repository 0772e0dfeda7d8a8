-------------------------- MODULE MCGraphqlReview --------------------------
(***************************************************************************)
(* Families of requests for GraphqlReview: the shapes of documents         *)
(* (fragments, directives, nesting), the mutations that are summarised,    *)
(* comments, envelopes, and transports.                                    *)
(***************************************************************************)
EXTENDS GraphqlReview

JsonType == [media |-> "application/json", charset |-> None]
Plain == <<<<"host", "api.github.com">>, <<"content-type", JsonType>>>>

Post(body) ==
  [method |-> "POST", scheme |-> "https", host |-> "api.github.com", address |-> "elsewhere",
   port |-> None, path |-> <<"graphql">>, query |-> FALSE, headers |-> Plain, body |-> body]

Body(doc) ==
  [type |-> "graphql", size |-> TRUE, text |-> TRUE, unique |-> TRUE, extra |-> FALSE,
   typed |-> TRUE, requested |-> None, supplied |-> Empty, doc |-> doc]

Arrives(req) == [req |-> req, access |-> "basic", allowAll |-> FALSE]

Document(ops, frags, sel) == [syntax |-> TRUE, ops |-> ops, frags |-> frags, sel |-> sel]
Anonymous(kind, kids) == Operation(kind, None, <<>>, <<>>, kids)
Leaf(name) == Field(name, None, Empty, <<>>, <<>>)

Skip == <<Directive("skip", [if |-> Bool("true")])>>
SkipVar == <<Directive("include", [if |-> Var("v")])>>
SkipBad == <<Directive("skip", [if |-> Str("x")])>>
Live == <<Directive("live", Empty)>>

-----------------------------------------------------------------------------
(* Shapes: the operation selects 1 and perhaps 2, which may hold 3; fragment
   F holds 4 and 5, G holds 6 and 7, H holds 8. *)

Firsts ==
  ({Leaf("viewer"), Field("viewer", None, Empty, Live, <<>>), Field("viewer", None, Empty, SkipBad, <<>>),
    Spread("F", <<>>), Spread("F", Skip), Spread("F", SkipBad)} \X {Leaf("id")})
  \cup ({Field("viewer", "a", Empty, Skip, <<3>>), Inline("T", <<>>, <<3>>), Inline(None, Skip, <<3>>),
         Inline(None, Live, <<3>>)} \X {Leaf("id"), Spread("G", Skip)})
Seconds == {Leaf("viewer"), Spread("G", <<>>), Spread("F", Live), Field("node", None, Empty, SkipVar, <<>>)}
Tops == {<<<<1>>, f[1], Leaf("id"), f[2]>> : f \in Firsts}
        \cup {<<<<1, 2>>, f[1], two, f[2]>> : f \in Firsts, two \in Seconds}

InF == {Leaf("id"), Spread("G", <<>>), Spread("F", <<>>), Field("id", None, Empty, Live, <<>>)}
InG == {Leaf("name"), Spread("F", <<>>), Spread("H", <<>>)}
InH == {Leaf("end"), Spread("G", <<>>)}
Second == {Leaf("end"), Spread("H", <<>>)}
FragmentSets ==
  LET F(dirs) == Fragment("F", "T", dirs, <<4, 5>>)
      G == Fragment("G", "U", <<>>, <<6, 7>>)
      H == Fragment("H", "U", <<>>, <<8>>)
      end == Leaf("end")
  IN {<<<<>>, end, end, end, end, end>>, <<<<G, F(<<>>), G>>, end, end, end, end, end>>}
     \cup {<<<<F(<<>>)>>, four, end, end, end, end>> : four \in InF}
     \cup {<<<<F(dirs), G>>, four, end, six, end, end>> :
             dirs \in {<<>>, Live}, four \in InF, six \in InG}
     \cup {<<<<F(<<>>), G, H>>, four, five, six, Leaf("name"), eight>> :
             four \in InF, five \in Second, six \in InG, eight \in InH}

Shape(kind, t, f) ==
  Arrives(Post(Body(Document(<<Anonymous(kind, t[1])>>, f[1],
                             <<t[2], t[3], t[4], f[2], f[3], f[4], f[5], f[6]>>))))
Shapes ==
  {Shape("query", t, f) : t \in Tops, f \in FragmentSets}
  \cup {Shape("mutation", t, f) : t \in Tops, f \in {g \in FragmentSets : Len(g[1]) = 1}}

\* Six fragments, each of which spreads the next and some the one after it,
\* in the order of their names and in the other one.
Chain == <<"F", "G", "H", "I", "J", "K">>
Deep ==
  LET doc(names, jumps) ==
        Document(<<Anonymous("query", <<1>>)>>,
                 [i \in 1 .. 6 |-> Fragment(names[i], "T", <<>>,
                                            IF i \in jumps THEN <<2 * i, 2 * i + 1>> ELSE <<2 * i>>)],
                 [n \in 1 .. 13 |->
                    IF n = 1 THEN Spread(names[1], <<>>)
                    ELSE LET to == (n \div 2) + 1 + (n % 2)
                         IN IF to > 6 THEN Leaf("id") ELSE Spread(names[to], <<>>)])
  IN {Arrives(Post(Body(doc(names, jumps)))) :
        names \in {Chain, [i \in 1 .. 6 |-> Chain[7 - i]]}, jumps \in SUBSET {1, 3, 4}}

\* Directives on the operation or a variable, and variables that are missing.
Flag(required, default, dirs) == Variable("v", "Boolean", required, default, dirs)
Declared ==
  {Arrives(Post([Body(Document(<<Operation(kind, None, vs, dirs, <<1>>)>>, <<>>,
                       <<Field("viewer", None, Empty, SkipVar, <<>>)>>))
            EXCEPT !.supplied = supplied])) :
     kind \in {"query", "mutation", "subscription"}, dirs \in {<<>>, Live, SkipVar},
     vs \in {<<>>, <<Flag(FALSE, None, <<>>)>>, <<Flag(TRUE, None, <<>>)>>,
             <<Flag(TRUE, Bool("true"), <<>>)>>, <<Flag(FALSE, None, Live)>>,
             <<Flag(FALSE, None, <<>>), Flag(FALSE, None, <<>>)>>},
     supplied \in {Empty, [v |-> Bool("true")], [v |-> Null], [w |-> Null]}}

-----------------------------------------------------------------------------
(* Mutations *)

Input(m) == [input |-> Object(m)]
Big == Str("large")
MutationArgs ==
  {<<"addComment", Input([subjectId |-> Str("id1"), body |-> Big])>>,
   <<"addComment", Input([subjectId |-> Str(""), body |-> Str("b"), other |-> Null])>>,
   <<"addComment", [input |-> Var("i")]>>,
   <<"addPullRequestReview", Input([pullRequestId |-> Str("id1"), event |-> Enum("APPROVE")])>>,
   <<"addPullRequestReview", Input([pullRequestId |-> Null, event |-> Enum("DISMISS"),
                                   comments |-> List(2)])>>,
   <<"submitPullRequestReview", Input([pullRequestId |-> Str("id1"),
                                      pullRequestReviewId |-> Str("id2"), body |-> Str("b")])>>,
   <<"submitPullRequestReview", Input([pullRequestReviewId |-> Str("long"), event |-> Null])>>,
   <<"closeIssue", Input([issueId |-> Str("id1"), duplicateIssueId |-> Null,
                         clientMutationId |-> Str("c")])>>,
   <<"updateIssue", [input |-> Object([id |-> Str("id1"), title |-> Big]), extra |-> Null]>>,
   <<"createCommitOnBranch",
     Input([branch |-> Object([repositoryNameWithOwner |-> Str("o/r"), branchName |-> Str("main")]),
            fileChanges |-> List(1)])>>,
   <<"mergePullRequest", Input([pullRequestId |-> Str("id1")])>>,
   <<"__typename", Empty>>}

Mutations ==
  LET call(p, dirs, kids) == Field(p[1], None, p[2], dirs, kids)
      i == Variable("i", "AddCommentInput", FALSE, None, <<>>)
      doc(kids, one, two, three) ==
        Document(<<Operation("mutation", None, <<i>>, <<>>, kids)>>, <<>>, <<one, two, three, Leaf("id")>>)
  IN {Arrives(Post(Body(doc(<<1, 2>>, call(p, Skip, <<4>>), call(q, <<>>, <<4>>), Leaf("id"))))) :
        p \in MutationArgs, q \in MutationArgs}
     \cup {Arrives(Post(Body(doc(<<1, 2, 3>>, Leaf("__typename"), call(p, <<>>, <<4>>),
                                 call(q, <<>>, <<4>>))))) :
             p \in MutationArgs, q \in MutationArgs}

Queries ==
  LET repo(owner, kids) == Field("repository", None, [owner |-> owner, name |-> Str("r")], <<>>, kids)
      item(name, number) == Field(name, None, [number |-> number], <<>>, <<>>)
  IN {Arrives(Post(Body(Document(<<Anonymous("query", <<1, 3>>)>>, <<>>,
                       <<repo(owner, <<2>>), item(name, number),
                         Field("node", None, [id |-> id], <<>>, <<>>)>>)))) :
        owner \in {Str("o"), Str("")}, name \in {"issue", "pullRequest", "labels"},
        number \in {Number("7"), Number("0"), Str("7")}, id \in {Str("id1"), Str(""), Big}}

-----------------------------------------------------------------------------
(* Comments *)

Answer == <<Leaf("__typename"), Field("commentEdge", None, Empty, <<>>, <<4>>),
            Field("node", None, Empty, <<>>, <<5>>), Leaf("url")>>
CommentInputs ==
  {Object([subjectId |-> s, body |-> b]) :
     s \in {Str("id1"), Str(""), Str("long"), Var("s")}, b \in {Str("b"), Str(" "), Big, Var("b")}}
  \cup {Object([subjectId |-> Str("id1"), body |-> Str("b"), clientMutationId |-> c]) :
          c \in {Null, Str("c"), Var("b"), List(1)}}
  \cup {Object([subjectId |-> Str("id1"), body |-> Str("b"), other |-> Null]), Var("i"),
        Object([body |-> Str("b")])}
CommentVars ==
  {<<>>, <<Variable("s", "ID", TRUE, None, <<>>), Variable("b", "String", FALSE, Str("d"), <<>>)>>,
   <<Variable("b", "String", FALSE, None, <<>>)>>, <<Variable("b", "ID", FALSE, None, <<>>)>>,
   <<Variable("i", "AddCommentInput", TRUE, None, <<>>)>>}
CommentSupplied ==
  {Empty, [s |-> Str("id2"), b |-> Str("b")], [b |-> Str("b")], [s |-> Str("id2")],
   [i |-> Object([subjectId |-> Str("id1"), body |-> Str("b")])]}

Comment(arg, vs, supplied, dirs, kids, five) ==
  Arrives(Post([Body(Document(<<Operation("mutation", None, vs, <<>>, <<1>>)>>, <<>>,
              <<Field("addComment", "a", [input |-> arg], dirs, kids)>> \o Answer \o <<five>>))
        EXCEPT !.supplied = supplied]))

Comments ==
  {Comment(arg, vs, supplied, <<>>, <<2>>, Leaf("id")) :
     arg \in CommentInputs, vs \in CommentVars, supplied \in CommentSupplied}
  \cup {Comment(Object([subjectId |-> Str("id1"), body |-> Str("b")]), <<>>, Empty, dirs, kids, five) :
          dirs \in {<<>>, Skip}, kids \in {<<>>, <<2>>, <<3>>, <<2, 6>>},
          five \in {Leaf("clientMutationId"), Leaf("__typename"), Leaf("viewerCanUpdate"), Inline("T", <<>>, <<2>>)}}

-----------------------------------------------------------------------------
(* Envelopes and transports *)

QueryDoc == Document(<<Anonymous("query", <<1>>)>>, <<>>, <<Leaf("viewer")>>)
MutationDoc == Document(<<Anonymous("mutation", <<1>>)>>, <<>>, <<Leaf("mergePullRequest")>>)
TwoDocs ==
  Document(<<Operation("query", "A", <<>>, <<>>, <<1>>), Operation("mutation", "B", <<>>, <<>>, <<2>>)>>,
           <<>>, <<Leaf("viewer"), Leaf("mergePullRequest")>>)
Docs ==
  {QueryDoc, MutationDoc, TwoDocs, [QueryDoc EXCEPT !.ops = <<>>], [QueryDoc EXCEPT !.syntax = FALSE],
   [TwoDocs EXCEPT !.ops[2].name = "A"], [TwoDocs EXCEPT !.ops[1].name = None]}

Envelopes ==
  {Arrives(Post([Body(doc) EXCEPT !.requested = name, !.extra = bad = "extra",
                                  !.unique = bad # "twice", !.typed = bad # "type",
                                  !.size = bad # "size", !.text = bad # "text"])) :
     doc \in Docs, name \in {None, "A", "B", "C"},
     bad \in {"nothing", "extra", "twice", "type", "size", "text"}}

Batch ==
  [type |-> "batch", size |-> TRUE, text |-> TRUE, strict |-> TRUE, operation |-> "download",
   transfers |-> <<"basic">>, ref |-> "main", hash |-> None,
   objects |-> <<[oid |-> "o1", plain |-> TRUE]>>]
Batches ==
  {Batch, [Batch EXCEPT !.operation = "upload"], [Batch EXCEPT !.strict = FALSE],
   [Batch EXCEPT !.objects = <<>>], [Batch EXCEPT !.objects = @ \o @],
   [Batch EXCEPT !.transfers = None], [Batch EXCEPT !.transfers = <<"basic", "basic">>],
   [Batch EXCEPT !.hash = "sha1"], [Batch EXCEPT !.ref = ""],
   [Batch EXCEPT !.objects[1].plain = FALSE]}
LfsType == [media |-> LfsMedia, charset |-> "utf-8"]
Lfs(body) ==
  [Post(body) EXCEPT !.host = "github.com",
     !.path = <<"o", "repo.git", "info", "lfs", "objects", "batch">>,
     !.headers = <<<<"accept", <<JsonType, LfsType>>>>, <<"content-type", LfsType>>>>]

Text == [type |-> "text", size |-> TRUE, text |-> TRUE]
Nothing == [Text EXCEPT !.type = "empty"]

HeaderSets ==
  {Plain, Plain \o Plain, <<<<"content-type", JsonType>>, <<"x-http-method-override", "GET">>>>,
   Plain \o <<<<"graphql-features", "merge_queue">>>>, Plain \o <<<<"graphql-features", "other">>>>,
   Plain \o <<<<"connection", "upgrade">>>>, Plain \o <<<<"content-encoding", "gzip">>>>,
   <<<<"host", "other.example">>, <<"content-type", JsonType>>>>, <<>>,
   <<<<"content-type", [JsonType EXCEPT !.charset = "latin1"]>>>>,
   <<<<"content-type", [JsonType EXCEPT !.media = "application/graphql"]>>>>,
   <<<<"content-type", [JsonType EXCEPT !.media = "text/plain"]>>>>,
   <<<<"content-type", [JsonType EXCEPT !.media = "image/png"]>>>>}

GithubCalls ==
  {[Post(body) EXCEPT !.headers = headers] : body \in {Body(QueryDoc), Body(MutationDoc)}, headers \in HeaderSets}
  \cup {[Post(Body(doc)) EXCEPT !.query = query, !.port = port, !.scheme = scheme] :
          doc \in {QueryDoc, MutationDoc}, query \in BOOLEAN, port \in {None, 443, 8443},
          scheme \in {"https", "http"}}
  \cup {Lfs(body) : body \in Batches \cup {Text}}
  \cup {[Lfs(Batch) EXCEPT !.headers = headers] : headers \in HeaderSets}
  \cup {[Post(body) EXCEPT !.host = host, !.path = path, !.method = method] :
          body \in {Text, Nothing}, host \in {"github.com", "api.github.com", "api.linear.app", "elsewhere.example"},
          path \in {<<"o", "r", "git-upload-pack">>, <<"o", "r", "git-receive-pack">>, <<"graphql">>},
          method \in {"GET", "POST", "DELETE", "CONNECT"}}

Addressed ==
  {[Post(Nothing) EXCEPT !.method = method, !.host = "host", !.address = address, !.port = port] :
     method \in {"GET", "CONNECT"}, address \in Addresses,
     port \in {None, ManagementPort, BootstrapPort, ProxyPort}}

ClinePaths ==
  {<<"">>, <<"api", "v1", "api-keys">>, <<"api", "v1", "api-keys", "k">>,
   <<"api", "v1", "organizations", "o", "api-keys">>, <<"api", "v1", "organizations", "o", "api-keys", "k">>,
   <<"api", "v1", "organizations", "o">>, <<"api", "v1", "organizations", "">>,
   <<"api", "v1", "organizations", "o", "members", "m", "usages">>,
   <<"api", "v1", "organizations", "o", "plans">>, <<"api", "v1", "users", "u", "balance">>,
   <<"api", "v1", "users", "me">>, <<"api", "v1", "users", "active-account">>,
   <<"api", "v1", "chat", "completions">>, <<"api", "v1", "session">>}
ClineCalls ==
  {[Post(Nothing) EXCEPT !.host = host, !.path = path, !.method = method, !.headers = headers] :
     host \in {"api.cline.bot", "pinned.example"}, path \in ClinePaths,
     method \in {"GET", "POST", "PUT", "CONNECT"},
     headers \in {<<>>, <<<<"upgrade", "websocket">>>>}}

Transports ==
  {[req |-> req, access |-> access, allowAll |-> allowAll] :
     req \in GithubCalls \cup Addressed, access \in {"basic"}, allowAll \in BOOLEAN}
  \cup {[req |-> req, access |-> access, allowAll |-> FALSE] :
          req \in ClineCalls, access \in {"basic", "full"}}

MCInputs == Shapes \cup Deep \cup Declared \cup Mutations \cup Queries \cup Comments \cup Envelopes \cup Transports
MCFragmentOrder == Chain
=============================================================================
