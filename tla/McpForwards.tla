---------------------------- MODULE McpForwards ----------------------------
(***************************************************************************)
(* The registry of MCP forwards and the messages guests send through them  *)
(* (src/src/mcp.rs), the link to the host's Cline settings                 *)
(* (src/src/mcp_import.rs) and the host's handlers (src/src/web.rs).       *)
(*                                                                         *)
(* A message holds the Forward it looked up until it ends.  A save writes  *)
(* mcp-forwards.json and then publishes: a forward whose upstream did not  *)
(* change keeps its session, and the sessions of all others are retired    *)
(* one by one before the new map replaces the old one.                     *)
(*                                                                         *)
(* A config's scope stands for its bearer_env too.  Upstreams, the file    *)
(* editor and Cline are external.                                          *)
(***************************************************************************)
EXTENDS McpOauth

CONSTANTS
  Guests,
  Tools,
  Scopes,
  Files,    \* the valid contents of mcp-forwards.json: name -> config, or None
  FirstFiles,
  Bad,      \* a mcp-forwards.json that does not parse or validate
  MaxActs   \* bound on what the host, Cline and guests do

Configs ==
  [url : Urls, scope : Scopes, tools : SUBSET Tools, guests : SUBSET Guests,
   oauth : BOOLEAN, cline : BOOLEAN]

\* A Session object of its own for each of these names.
OneEach(names, sessions) ==
  {f \in [names -> sessions] : \A m, n \in names : f[m] = f[n] => m = n}

ASSUME ForwardsAssumption ==
  /\ MaxActs \in Nat
  /\ FirstFiles \subseteq Files
  /\ Files \subseteq [Names -> Configs \cup {None}]
  /\ None \notin Configs \cup [config : Configs, session : Sessions]
  /\ OneEach(Names, Sessions) # {}

VARIABLES
  forwards,  \* name -> its published Forward, or None
  file,      \* mcp-forwards.json
  saving,    \* a writer between the file and the publication, or None
  cline,     \* the url of the linked server in Cline's settings, or None
  acts

forwardVars == <<forwards, file, saving, cline, acts>>
vars == <<oauthVars, request, forwardVars>>

Act == acts < MaxActs /\ acts' = acts + 1

-----------------------------------------------------------------------------
(* Forward *)

Allows(c, tool) == tool \in c.tools
AllowsGuest(c, guest) == guest \in c.guests

SameUpstream(c, d) ==
  c.url = d.url /\ c.scope = d.scope /\ c.cline = d.cline /\ c.oauth = d.oauth

-----------------------------------------------------------------------------
(* ForwardRegistry *)

ConfigsOf == [n \in Names |-> IF forwards[n] = None THEN None ELSE forwards[n].config]

\* A session object nothing refers to.
Unused ==
  {s \in Sessions :
     /\ \A n \in Names : forwards[n] # None => forwards[n].session # s
     /\ \A r \in Requests : request[r] # Idle => request[r].session # s
     /\ \A l \in Logins : login[l] # NoLogin => login[l].session # s}

Kept(new, n) ==
  /\ forwards[n] # None
  /\ new[n] # None
  /\ SameUpstream(forwards[n].config, new[n])

Dropped(new) == {n \in Names : forwards[n] # None /\ ~Kept(new, n)}
Added(new) == {n \in Names : new[n] # None /\ ~Kept(new, n)}

\* Each forward with the session it has after a publication.
Rebuilt(new, fresh) ==
  [n \in Names |->
     IF new[n] = None THEN None
     ELSE [config |-> new[n],
           session |-> IF Kept(new, n) THEN forwards[n].session ELSE fresh[n]]]

\* Session::retire of the forwards of gone; removing the secrets of stuck fails.
Retire(gone, stuck) ==
  LET removed(f, names) == [n \in Names |-> IF n \in names THEN None ELSE f[n]]
  IN /\ record' = removed(record, gone)
     /\ vault' \in {removed(vault, gone), removed(vault, gone \cup stuck)}
     /\ floor' = [n \in Names |-> IF n \in gone THEN drawn + 1 ELSE floor[n]]

Retired(s, gone) ==
  IF \E n \in gone : forwards[n].session = s
  THEN [session[s] EXCEPT !.retired = TRUE, !.generation = 0] ELSE session[s]

\* The sessions after a publication: new ones, retired ones and the others.
Renewed(new, fresh) ==
  [s \in Sessions |->
     IF \E n \in Added(new) : fresh[n] = s
     THEN LET n == CHOOSE m \in Added(new) : fresh[m] = s IN NewSession(n, new[n].url)
     ELSE Retired(s, Dropped(new))]

\* publish: a session that cannot be retired ends it, after some others were
\* retired and with the old map still in place.
Publish(ok) ==
  /\ saving # None
  /\ LET new == saving.configs
         fresh == CHOOSE f \in OneEach(Added(new), Unused) : TRUE
     IN \/ /\ ok
           /\ OneEach(Added(new), Unused) # {}
           /\ Retire(Dropped(new), {})
           /\ session' = Renewed(new, fresh)
           /\ forwards' = Rebuilt(new, fresh)
           /\ UNCHANGED faults
        \/ /\ ~ok
           /\ faults < MaxFaults
           /\ faults' = faults + 1
           /\ \E bad \in Dropped(new) : \E gone \in SUBSET (Dropped(new) \ {bad}) :
                /\ Retire(gone, {bad})
                /\ session' = [s \in Sessions |-> Retired(s, gone)]
           /\ UNCHANGED forwards
  \* oauth_start goes on with the session the registry has now.
  /\ login' = IF saving.login = None THEN login
              ELSE [login EXCEPT ![saving.login] =
                      IF ok THEN [pc |-> "begin", generation |-> 0,
                                  session |-> forwards'[saving.name].session]
                      ELSE NoLogin]
  /\ saving' = None
  /\ UNCHANGED <<flight, status, request, drawn, replaced, file, cline, acts>>

\* A writer has the update lock; a file that cannot be written changes nothing.
WriteFile(new, n, l) ==
  /\ Act
  /\ saving = None
  /\ file' = new
  /\ saving' = [configs |-> new, name |-> n, login |-> l]
  /\ UNCHANGED <<oauthVars, request, forwards, cline>>

Save(new) == new # ConfigsOf /\ WriteFile(new, None, None)

\* enable_oauth, for the login l.
OauthStart(n, scope, l) ==
  /\ forwards[n] # None
  /\ login[l] = NoLogin
  /\ WriteFile([ConfigsOf EXCEPT ![n].oauth = TRUE, ![n].scope = scope], n, l)

\* The file is edited by other means.
EditFile(new) ==
  /\ Act
  /\ file' = new
  /\ UNCHANGED <<oauthVars, request, forwards, saving, cline>>

Reload ==
  /\ saving = None
  /\ file \notin {Bad, ConfigsOf}
  /\ saving' = [configs |-> file, name |-> None, login |-> None]
  /\ UNCHANGED <<oauthVars, request, forwards, file, cline, acts>>

OauthDisconnect(n, ok) ==
  /\ Act
  /\ forwards[n] # None
  /\ Disconnect(forwards[n].session, ok)
  /\ UNCHANGED <<forwards, file, saving, cline>>

\* Cline writes its settings: the linked server moves or is removed.
ClineMoves(url) ==
  /\ Act
  /\ cline # url
  /\ cline' = url
  /\ UNCHANGED <<oauthVars, request, forwards, file, saving>>

-----------------------------------------------------------------------------
(* A message on its way upstream *)

\* The next post of r: its credential first.
Post(q, stage) ==
  [q EXCEPT !.pc = IF q.oauth THEN "token" ELSE "headers", !.stage = stage,
            !.generation = 0, !.rejected = None, !.cred = None]

\* handle_message of a tools/list or tools/call, and the host's validation.
\* Whatever else a guest sends, or may not send, is answered on the spot.
Arrive(r, n, guest, call) ==
  /\ Act
  /\ request[r] = Idle
  /\ forwards[n] # None
  /\ LET c == forwards[n].config
     IN /\ guest = None => c.oauth /\ call = "list"
        /\ guest # None => AllowsGuest(c, guest)
        /\ call # "list" => Allows(c, call)
        /\ request' = [request EXCEPT ![r] =
             [pc |-> "lock", session |-> forwards[n].session, oauth |-> c.oauth,
              cline |-> c.cline, stage |-> None, epoch |-> 0, generation |-> 0,
              rejected |-> None, rec |-> None, cred |-> None, logins |-> {}]]
  /\ UNCHANGED <<oauthVars, forwards, file, saving, cline>>

\* A connection serves one epoch.
Connected(s) == session[s].conn # None /\ session[s].conn.epoch = session[s].epoch

\* call_upstream: the connection is made first when there is none for the
\* current epoch, with the forward's session lock held.
LockConn(r) ==
  /\ request[r].pc = "lock"
  /\ LET s == Q(r)
     IN /\ session[s].holder = None
        /\ IF Connected(s)
           THEN request' = [request EXCEPT ![r] = Post(@, "message")] /\ UNCHANGED session
           ELSE /\ session' = [session EXCEPT ![s].holder = r]
                /\ request' = [request EXCEPT ![r] =
                     [Post(@, "initialize") EXCEPT !.epoch = session[s].epoch]]
  /\ UNCHANGED <<flight, record, vault, login, status, drawn, faults, floor, replaced, forwardVars>>

\* authenticate without OAuth: Cline's headers as they are now, if the linked
\* server is still where the forward points; else a static key.
Headers(r) ==
  /\ request[r].pc = "headers"
  /\ LET home == IF request[r].cline THEN cline ELSE None
     IN IF request[r].cline /\ cline # session[Q(r)].url
        THEN Released(r)
        ELSE /\ request' = [request EXCEPT ![r].pc = "sent",
                              ![r].cred = [home |-> home, token |-> None]]
             /\ UNCHANGED <<session, flight>>
  /\ UNCHANGED <<record, vault, login, status, drawn, faults, floor, replaced, forwardVars>>

\* The upstream answers a post.
Answered(r) ==
  /\ request[r].pc = "sent"
  /\ LET q == IF request[r].oauth
              THEN [request[r] EXCEPT !.logins = @ \cup {request[r].cred.token[1]}]
              ELSE request[r]
         s == Q(r)
     IN CASE q.stage = "initialize" ->
               /\ request' = [request EXCEPT ![r] = Post(q, "initialized")]
               /\ UNCHANGED <<session, flight>>
          [] q.stage = "initialized" ->
               /\ request' = [request EXCEPT ![r] =
                    [Post(q, "message") EXCEPT !.epoch = 0, !.logins = {}]]
               /\ session' = [session EXCEPT ![s].holder = None,
                                ![s].conn = [epoch |-> q.epoch, logins |-> q.logins]]
               /\ UNCHANGED flight
          [] q.stage = "message" -> Released(r)
  /\ UNCHANGED <<record, vault, login, status, drawn, faults, floor, replaced, forwardVars>>

\* A 401 to a token is answered by one more post.
Unauthorized(r) ==
  /\ request[r].pc = "sent"
  /\ request[r].oauth
  /\ request[r].rejected = None
  /\ request' = [request EXCEPT ![r].pc = "token", ![r].rejected = request[r].cred.token,
                                ![r].cred = None]
  /\ UNCHANGED <<oauthVars, forwardVars>>

\* Any request that fails, the host's time limit on a validation, and a guest
\* that leaves end the message where it waits.
MessageEnds(r) ==
  /\ request[r] # Idle
  /\ Released(r)
  /\ UNCHANGED <<record, vault, login, status, drawn, faults, floor, replaced, forwardVars>>

-----------------------------------------------------------------------------

\* ForwardRegistry::load: a session of its own for every forward.
Slot == CHOOSE f \in OneEach(Names, Sessions) : TRUE

Loaded(configs) ==
  [n \in Names |-> IF configs[n] = None THEN None
                   ELSE [config |-> configs[n], session |-> Slot[n]]]

LoadedSessions(configs) ==
  [s \in Sessions |->
     IF \E n \in Names : configs[n] # None /\ Slot[n] = s
     THEN LET n == CHOOSE m \in Names : Slot[m] = s IN NewSession(n, configs[n].url)
     ELSE None]

\* The tokens of an earlier run are those of login 0.
FirstRecords(c) ==
  {None} \cup
  IF c = None THEN {} ELSE {[login |-> 0, uses |-> 0, refresh |-> 0, url |-> c.url]}

Init ==
  /\ file \in FirstFiles
  /\ vault \in {v \in [Names -> UNION {FirstRecords(file[n]) : n \in Names}] :
                  \A n \in Names : v[n] \in FirstRecords(file[n])}
  /\ cline \in {None} \cup {c.url : c \in {file[n] : n \in Names} \ {None}}
  /\ forwards = Loaded(file)
  /\ session = LoadedSessions(file)
  /\ record = vault
  /\ flight = [s \in Sessions |-> None]
  /\ login = [l \in Logins |-> NoLogin]
  /\ status = [n \in Names |-> None]
  /\ request = [r \in Requests |-> Idle]
  /\ saving = None
  /\ floor = [n \in Names |-> 0]
  /\ replaced = {}
  /\ drawn = 0 /\ faults = 0 /\ acts = 0

\* The broker stops, and starts with the file and the secrets it finds.
Restart ==
  /\ Act
  /\ file # Bad
  /\ forwards' = Loaded(file)
  /\ session' = LoadedSessions(file)
  /\ record' = vault
  /\ flight' = [s \in Sessions |-> None]
  /\ login' = [l \in Logins |-> NoLogin]
  /\ status' = [n \in Names |-> None]
  /\ request' = [r \in Requests |-> Idle]
  /\ saving' = None
  /\ UNCHANGED <<vault, file, cline, floor, replaced, drawn, faults>>

HostStep ==
  \/ \E new \in Files : Save(new)
  \/ \E new \in Files \cup {Bad} : EditFile(new)
  \/ Reload
  \/ \E ok \in BOOLEAN : Publish(ok)
  \/ \E n \in Names, scope \in Scopes, l \in Logins : OauthStart(n, scope, l)
  \/ \E n \in Names, ok \in BOOLEAN : OauthDisconnect(n, ok)
  \/ \E url \in Urls \cup {None} : ClineMoves(url)

MessageStep(r) ==
  \/ \E n \in Names, guest \in Guests \cup {None}, call \in Tools \cup {"list"} :
       Arrive(r, n, guest, call)
  \/ LockConn(r)
  \/ Headers(r)
  \/ Answered(r)
  \/ Unauthorized(r)
  \/ MessageEnds(r)

OauthStep ==
  \/ \E r \in Requests : TokenStep(r)
  \/ \E l \in Logins : LoginStep(l)

Next ==
  \/ HostStep
  \/ \E r \in Requests : MessageStep(r)
  \/ OauthStep /\ UNCHANGED forwardVars
  \/ Restart

Spec == Init /\ [][Next]_vars

-----------------------------------------------------------------------------
(* Properties *)

\* A credential travels only to the server it was issued for or linked to,
\* also after a forward was pointed elsewhere and the broker stopped between
\* the file and the removal of the tokens (Session::token, mcp_import::headers).
TokenGoesHome ==
  \A r \in Requests :
    request[r].pc = "sent" /\ request[r].cred.home # None =>
      request[r].cred.home = session[Q(r)].url

\* The connection that messages would use was made with tokens of the login
\* they would use: a new login or a disconnect, even one in the middle of an
\* initialization, never leaves the previous account's connection in service
\* (Forward::call_upstream, connection_epoch).
ConnectionIsOwn ==
  \A n \in Names :
    (forwards[n] # None /\ forwards[n].config.oauth /\ record[n] # None) =>
      LET s == forwards[n].session
      IN (~session[s].retired /\ Connected(s)) =>
           session[s].conn.logins = {record[n].login}

\* The host is shown "connected" only while the tokens of that login are the
\* stored ones, whatever cancelled or replaced it meanwhile (OauthFlows::status).
ConnectedIsTrue ==
  \A n \in Names :
    (/\ forwards[n] # None
     /\ status[n] # None
     /\ status[n].state = "connected"
     /\ status[n].generation = session[forwards[n].session].generation) =>
       record[n] # None /\ record[n].login = status[n].generation

=============================================================================
