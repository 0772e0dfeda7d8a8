--------------------------- MODULE RequestPolicy ---------------------------
(***************************************************************************)
(* What the broker decides about a guest's HTTP request from its           *)
(* transport: the destinations that are never reached (destination_denial  *)
(* and broker_destination_denial in src/src/proxy.rs), the gate of the     *)
(* Cline API and the policed hosts (src/src/policy.rs), the shape in which *)
(* a GraphQL request means what it says (read_transport in                 *)
(* src/src/github.rs) and Git LFS downloads (src/src/lfs.rs).              *)
(*                                                                         *)
(* A request is [method, scheme, host, address, port, path, query,         *)
(* headers, body].  address is the kind of host the name or literal        *)
(* denotes, a path is the sequence of its segments (a final slash is an    *)
(* empty one), headers are <<name, value>> pairs in order.                 *)
(***************************************************************************)
EXTENDS GraphqlDocument

CONSTANTS
  ManagementPort, BootstrapPort, ProxyPort,  \* the broker's listeners
  ClineHosts  \* is_cline_credential_host: hosts a Cline entry is pinned to

-----------------------------------------------------------------------------
(* Destinations *)

\* "elsewhere", "loopback", "infrastructure", or "broker" for its own address.
Addresses == {"elsewhere", "loopback", "infrastructure", "broker"}

\* The port of a URL, or the default of its scheme.
PortOf(req) ==
  IF req.port # None THEN req.port
  ELSE IF req.scheme = "http" THEN 80 ELSE IF req.scheme = "https" THEN 443 ELSE None

BrokerDenies(req) ==
  \/ PortOf(req) = ProxyPort
  \/ req.address = "broker" /\ PortOf(req) # BootstrapPort

DestinationDenies(req) ==
  \/ PortOf(req) = ManagementPort
  \/ req.address = "infrastructure"
  \/ req.address = "loopback" /\ (BootstrapPort = 0 \/ PortOf(req) # BootstrapPort)

-----------------------------------------------------------------------------
(* Headers *)

Header(req, name) ==
  LET at == {i \in DOMAIN req.headers : req.headers[i][1] = name}
  IN IF at = {} THEN None
     ELSE req.headers[CHOOSE i \in at : \A j \in at : i <= j][2]

HeaderNames(req) == [i \in DOMAIN req.headers |-> req.headers[i][1]]

\* Every header once, and none that is not known.
PlainHeaders(req, known) ==
  Distinct(HeaderNames(req)) /\ Elems(HeaderNames(req)) \subseteq known

CommonHeaders ==
  {"authorization", "content-type", "content-length", "transfer-encoding", "host",
   "user-agent", "accept", "accept-encoding", "connection"}

\* The URL's authority again, and no header named by Connection.
PlainRouting(req, hosts) ==
  /\ Header(req, "host") \in {None} \cup hosts
  /\ Header(req, "connection") \in {None, "keep-alive", "close"}

\* A media type is [media, charset]; utf-8 is the one parameter let through.
MediaIs(value, media) == value # None /\ value.media \in media /\ value.charset \in {None, "utf-8"}

MediaOf(req) == IF Header(req, "content-type") = None THEN ""
                ELSE Header(req, "content-type").media

-----------------------------------------------------------------------------
(* The Cline API *)

ReadMethods == {"GET", "HEAD", "OPTIONS"}

LastOf(path) == path[Len(path)]
StartsWith(path, prefix) == Len(path) >= Len(prefix) /\ SubSeq(path, 1, Len(prefix)) = prefix

IsApiKeyManagement(path) ==
  \/ StartsWith(path, <<"api", "v1", "api-keys">>)
  \/ /\ StartsWith(path, <<"api", "v1", "organizations">>)
     /\ Len(path) >= 5 /\ path[5] = "api-keys"

\* The paths basic access lists, with the methods it lists them for.
BasicPaths ==
  {<<<<"">>, {"HEAD"}>>,
   <<<<"banners", "v2", "messages">>, {"GET"}>>,
   <<<<"api", "v1", "users", "me", "remote-config">>, {"GET"}>>,
   <<<<"api", "v1", "chat", "completions">>, {"POST"}>>,
   <<<<"api", "v1", "images">>, {"POST"}>>,
   <<<<"api", "v1", "search", "websearch">>, {"POST"}>>,
   <<<<"api", "v1", "search", "webfetch">>, {"POST"}>>,
   <<<<"api", "v1", "ai", "cline", "recommended-models">>, ReadMethods>>,
   <<<<"api", "v1", "users", "me">>, ReadMethods>>,
   <<<<"api", "v1", "users", "me", "plan">>, ReadMethods>>,
   <<<<"api", "v1", "users", "active-account">>, {"PUT"}>>}

\* Paths with an identifier in them, all reads.
BasicPatterns(path) ==
  \/ /\ StartsWith(path, <<"api", "v1", "users">>) /\ Len(path) = 5
     /\ path[4] \notin {"", "me"} /\ path[5] \in {"balance", "usages", "payments"}
  \/ /\ StartsWith(path, <<"api", "v1", "organizations">>) /\ Len(path) >= 4 /\ path[4] # ""
     /\ \/ Len(path) = 4
        \/ Len(path) = 5 /\ path[5] = "balance"
        \/ Len(path) = 7 /\ path[5] = "members" /\ path[6] # "" /\ path[7] = "usages"

BasicAllows(method, path) ==
  LET listed == {b \in BasicPaths : b[1] = path}
  IN IF listed # {} THEN \E b \in listed : method \in b[2]
     ELSE method \in ReadMethods /\ BasicPatterns(path)

\* cline_verdict; an empty session list is answered by the broker.
ClineVerdict(req, access) ==
  LET governed == req.host = "api.cline.bot" \/ req.host \in ClineHosts
      session == req.path \in {<<"api", "v1", "session">>, <<"api", "v1", "session", "">>}
  IN IF req.method = "CONNECT" \/ ~governed THEN "allow"
     ELSE IF IsApiKeyManagement(req.path) THEN "deny"
     ELSE IF access = "full" THEN "allow"
     ELSE IF Header(req, "upgrade") = "websocket" THEN "deny"
     ELSE IF session /\ req.method \in {"GET", "HEAD"} THEN "synthetic"
     ELSE IF BasicAllows(req.method, req.path) THEN "allow" ELSE "deny"

-----------------------------------------------------------------------------
(* The policed hosts *)

GithubHosts ==
  {"github.com", "api.github.com", "codeload.github.com", "raw.githubusercontent.com",
   "objects.githubusercontent.com", "uploads.github.com"}

\* github_access: a fetch of the smart HTTP protocol is a POST that reads.
GithubReads(req) ==
  \/ req.method \in ReadMethods
  \/ req.method = "POST" /\ LastOf(req.path) = "git-upload-pack"

Classify(req, allowAll) ==
  IF req.method = "CONNECT" THEN "unpoliced"
  ELSE IF req.host = "api.linear.app"
  THEN (IF req.method \in ReadMethods THEN "read" ELSE "review")
  ELSE IF req.host \notin GithubHosts THEN "unpoliced"
  ELSE IF allowAll THEN "allow all"
  ELSE IF GithubReads(req) THEN "read" ELSE "review"

-----------------------------------------------------------------------------
(* Bodies that are known to read *)

ReadHeaders ==
  CommonHeaders \cup {"x-github-next-global-id", "x-github-api-version", "time-zone",
                      "cache-control", "graphql-features"}

\* read_transport: nothing but the body says what the request does.
ReadTransport(req) ==
  /\ req.method = "POST" /\ req.scheme = "https" /\ req.host = "api.github.com"
  /\ req.port \in {None, 443} /\ req.path = <<"graphql">> /\ ~req.query
  /\ PlainHeaders(req, ReadHeaders)
  /\ Header(req, "graphql-features") \in {None, "merge_queue"}
  /\ PlainRouting(req, {"api.github.com", "api.github.com:443"})
  /\ MediaIs(Header(req, "content-type"), {"application/json", "application/graphql"})

LfsMedia == "application/vnd.git-lfs+json"

IsBatchRoute(req) ==
  /\ req.method = "POST" /\ req.scheme = "https" /\ req.host = "github.com"
  /\ req.port \in {None, 443} /\ ~req.query
  /\ Len(req.path) >= 5
  /\ SubSeq(req.path, Len(req.path) - 4, Len(req.path)) =
       <<"repo.git", "info", "lfs", "objects", "batch">>

\* accept is a sequence of media types, one of them LFS.
DownloadTransport(req) ==
  LET accept == Header(req, "accept")
  IN /\ IsBatchRoute(req)
     /\ Header(req, "content-encoding") = None
     /\ PlainHeaders(req, CommonHeaders)
     /\ PlainRouting(req, {"github.com", "github.com:443"})
     /\ MediaIs(Header(req, "content-type"), {LfsMedia})
     /\ accept # None /\ \E a \in Elems(accept) : MediaIs(a, {LfsMedia})

\* A batch is [strict, operation, transfers, ref, hash, objects]: no unknown or
\* repeated member, an object is [oid, plain] with an identifier and a size.
\* Its counts are within the limits of the code, which are not reached here.
IsDownload(req) ==
  LET batch == req.body
  IN /\ DownloadTransport(req)
     /\ batch.type = "batch" /\ batch.strict
     /\ batch.operation = "download"
     /\ batch.objects # <<>>
     /\ batch.hash \in {None, "sha256"}
     /\ batch.transfers = None \/ (batch.transfers # <<>> /\ Distinct(batch.transfers))
     /\ batch.ref # ""
     /\ \A o \in Elems(batch.objects) : o.plain
     /\ Distinct([i \in DOMAIN batch.objects |-> batch.objects[i].oid])
=============================================================================
