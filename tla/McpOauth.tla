------------------------------ MODULE McpOauth ------------------------------
(***************************************************************************)
(* The broker's OAuth sessions with MCP servers (src/src/mcp_oauth.rs).    *)
(*                                                                         *)
(* A Session is shared by every Forward of a name while its upstream stays *)
(* the same.  Its lifecycle (generation, connection epoch, retired) is     *)
(* behind a short lock; its refresh lock is held across requests to the    *)
(* token endpoint.  The record of tokens is kept in the settings under the *)
(* forward's name, so a session and its successor share it.                *)
(*                                                                         *)
(* A generation identifies the login it was drawn for; 0 is that of a new  *)
(* or retired session.  A token is <<login, refreshes>>.  A save or        *)
(* removal of a secret that fails may have reached the disk.  The browser, *)
(* the authorization server and the clock are external: every answer, its  *)
(* loss, and every expiry is possible.                                     *)
(***************************************************************************)
EXTENDS Naturals, FiniteSets

CONSTANTS
  None,
  Names,         \* names of forwards
  Urls,          \* upstreams
  Requests,      \* MCP messages under way
  Logins,        \* OAuth logins under way
  Sessions,      \* Session objects
  MaxGeneration, \* bound on the generations drawn
  MaxRefreshes,  \* bound on the refreshes of one login
  MaxFaults      \* bound on secrets that cannot be written

ASSUME OauthAssumption ==
  /\ {MaxGeneration, MaxRefreshes, MaxFaults} \subseteq Nat
  /\ None \notin Names \cup Urls \cup Requests \cup Logins \cup Sessions
  /\ Requests \cap Logins = {}

\* A token record as it is stored in the settings.
TokenRecord ==
  [login : Nat, uses : Nat, refresh : Nat \cup {None}, url : Urls]

Connection == [epoch : Nat, logins : SUBSET Nat]

SessionObject ==
  [name : Names, url : Urls, generation : Nat, epoch : Nat, retired : BOOLEAN,
   conn : Connection \cup {None}, holder : Requests \cup {None}]

ASSUME RecordAssumption == None \notin TokenRecord /\ None \notin SessionObject

VARIABLES
  session,  \* the Session objects; None when not in use
  flight,   \* session -> who holds its refresh lock, or None
  record,   \* name -> the TokenRecord in memory, or None
  vault,    \* name -> the one a start would load
  login,    \* the logins: started, pending in OauthFlows, finishing
  status,   \* OauthFlows: name -> the last status, with its generation
  request,  \* the MCP messages
  drawn,    \* the last generation drawn
  faults,
  floor,    \* history: name -> the earliest login whose tokens may be stored
  replaced  \* history: the refresh tokens whose successor was stored

oauthVars == <<session, flight, record, vault, login, status, drawn, faults, floor, replaced>>

NewSession(n, url) ==
  [name |-> n, url |-> url, generation |-> 0, epoch |-> 0, retired |-> FALSE,
   conn |-> None, holder |-> None]

NoLogin == [pc |-> "none"]
Idle == [pc |-> "idle"]

-----------------------------------------------------------------------------
(* The record of tokens *)

\* One secret is set or removed.
SetSecret(n, value, ok) ==
  \/ /\ ok
     /\ record' = [record EXCEPT ![n] = value]
     /\ vault' = [vault EXCEPT ![n] = value]
     /\ UNCHANGED faults
  \/ /\ ~ok
     /\ faults < MaxFaults
     /\ faults' = faults + 1
     /\ vault' \in {vault, [vault EXCEPT ![n] = value]}
     /\ UNCHANGED record

-----------------------------------------------------------------------------
(* The lifecycle of a session *)

Check(s, generation) == ~session[s].retired /\ session[s].generation = generation

Draw == drawn < MaxGeneration /\ drawn' = drawn + 1

\* Mutant of MayStore: a generation that was superseded may still store.
MayStoreUnlessRetired(s, generation) == ~session[s].retired

MayStore(s, generation) == Check(s, generation)

\* Session::store: ok is FALSE when it is refused or the secret is not saved.
Store(s, generation, tokens, ok) ==
  IF MayStore(s, generation) THEN SetSecret(session[s].name, tokens, ok)
  ELSE ~ok /\ UNCHANGED <<record, vault, faults>>

\* Mutant of Cancelled: disconnecting keeps the generation.
CancelledSameGeneration(s) == [session[s] EXCEPT !.epoch = drawn + 1]

Cancelled(s) == [session[s] EXCEPT !.generation = drawn + 1, !.epoch = drawn + 1]

\* The generation moves before the secret is removed, so a disconnect that
\* cannot remove it still cancels what is under way.
Disconnect(s, ok) ==
  /\ ~session[s].retired
  /\ Draw
  /\ session' = [session EXCEPT ![s] = Cancelled(s)]
  /\ SetSecret(session[s].name, None, ok)
  /\ floor' = IF ok THEN [floor EXCEPT ![session[s].name] = drawn + 1] ELSE floor
  /\ UNCHANGED <<flight, login, status, request, replaced>>

-----------------------------------------------------------------------------
(* Session::token, which a message calls with the token a 401 rejected *)

Q(r) == request[r].session

Tokens(rec) == <<rec.login, rec.uses>>

\* The message ends; whatever it held is released.
Released(r) ==
  /\ flight' = [s \in Sessions |-> IF flight[s] = r THEN None ELSE flight[s]]
  /\ session' = [s \in Sessions |->
       IF session[s] # None /\ session[s].holder = r THEN [session[s] EXCEPT !.holder = None]
       ELSE session[s]]
  /\ request' = [request EXCEPT ![r] = Idle]

\* Mutant of TokenLock: the refresh is not single-flight.
TokenWithoutLock(r) ==
  /\ request[r].pc = "token"
  /\ IF session[Q(r)].retired THEN Released(r)
     ELSE /\ request' = [request EXCEPT ![r].pc = "load",
                                        ![r].generation = session[Q(r)].generation]
          /\ UNCHANGED <<session, flight>>
  /\ UNCHANGED <<record, vault, login, status, drawn, faults, floor, replaced>>

\* The refresh lock is free; the generation is read and checked.
TokenLock(r) ==
  /\ request[r].pc = "token"
  /\ flight[Q(r)] = None
  /\ IF session[Q(r)].retired THEN Released(r)
     ELSE /\ request' = [request EXCEPT ![r].pc = "load",
                                        ![r].generation = session[Q(r)].generation]
          /\ flight' = [flight EXCEPT ![Q(r)] = r]
          /\ UNCHANGED session
  /\ UNCHANGED <<record, vault, login, status, drawn, faults, floor, replaced>>

\* Mutant of BoundTo: a record is used whatever server it was issued for.
BoundToAny(rec, s) == TRUE

BoundTo(rec, s) == rec.url = session[s].url

\* The record is loaded.  A token that is neither expiring nor the rejected
\* one is used as it is; soon says that it is expiring.
Load(r, soon) ==
  /\ request[r].pc = "load"
  /\ LET rec == record[session[Q(r)].name]
         usable == rec # None /\ BoundTo(rec, Q(r))
         asIs == usable /\ ~soon /\ request[r].rejected # Tokens(rec)
         refresh == usable /\ ~asIs /\ rec.refresh # None
     IN CASE asIs ->
               /\ request' = [request EXCEPT ![r].pc = "sent", ![r].generation = 0,
                    ![r].cred = [home |-> rec.url, token |-> Tokens(rec)]]
               /\ flight' = [flight EXCEPT ![Q(r)] = None]
               /\ UNCHANGED session
          [] refresh ->
               /\ request' = [request EXCEPT ![r].pc = "refresh", ![r].rec = rec]
               /\ UNCHANGED <<flight, session>>
          [] OTHER -> Released(r)
  /\ UNCHANGED <<record, vault, login, status, drawn, faults, floor, replaced>>

\* The refresh token a refresh under way spends.
Spent(r) == <<session[Q(r)].name, request[r].rec.login, request[r].rec.refresh>>

\* The token endpoint answers, with or without a new refresh token.
Refreshed(r, rotated, ok) ==
  /\ request[r].pc = "refresh"
  /\ LET old == request[r].rec
         uses == old.uses + 1
         new == [old EXCEPT !.uses = uses, !.refresh = IF rotated THEN uses ELSE @]
     IN /\ uses <= MaxRefreshes
        /\ Store(Q(r), request[r].generation, new, ok)
        /\ IF ok
           THEN /\ request' = [request EXCEPT ![r].pc = "sent", ![r].generation = 0,
                     ![r].rec = None, ![r].cred = [home |-> new.url, token |-> Tokens(new)]]
                /\ flight' = [flight EXCEPT ![Q(r)] = None]
                /\ replaced' = IF rotated THEN replaced \cup {Spent(r)} ELSE replaced
                /\ UNCHANGED session
           ELSE Released(r) /\ UNCHANGED replaced
  /\ UNCHANGED <<login, status, drawn, floor>>

-----------------------------------------------------------------------------
(* OauthFlows: a login from its start to the browser's callback *)

At(l, pc) == login' = [login EXCEPT ![l].pc = pc]
Gone(l) == login' = [login EXCEPT ![l] = NoLogin]
Current(l) == Check(login[l].session, login[l].generation)
NameOf(l) == session[login[l].session].name

\* set_status, which a superseded login does not reach.
SetStatus(l, state) ==
  status' = IF Current(l)
            THEN [status EXCEPT ![NameOf(l)] =
                    [generation |-> login[l].generation, state |-> state]]
            ELSE status

\* Session::begin waits for the refresh lock and draws the generation.
Begin(l) ==
  /\ login[l].pc = "begin"
  /\ LET s == login[l].session
     IN /\ flight[s] = None
        /\ IF session[s].retired THEN Gone(l) /\ UNCHANGED <<session, drawn>>
           ELSE /\ Draw
                /\ session' = [session EXCEPT ![s].generation = drawn + 1]
                /\ login' = [login EXCEPT ![l].pc = "discover", ![l].generation = drawn + 1]
  /\ UNCHANGED <<flight, record, vault, status, request, faults, floor, replaced>>

\* Discovery and registration are done: the login becomes the only pending
\* one of its name.  It fails when superseded, or at the limit on logins.
Registered(l, ok) ==
  /\ login[l].pc = "discover"
  /\ ok => Current(l)
  /\ IF ok
     THEN /\ login' = [k \in Logins |->
               IF k = l THEN [login[l] EXCEPT !.pc = "pending"]
               ELSE IF login[k].pc = "pending" /\ NameOf(k) = NameOf(l) THEN NoLogin
               ELSE login[k]]
          /\ SetStatus(l, "waiting")
     ELSE Gone(l) /\ SetStatus(l, "failed")
  /\ UNCHANGED <<session, flight, record, vault, request, drawn, faults, floor, replaced>>

\* OauthFlows::status finds the login past its deadline.
Expired(l) ==
  /\ login[l].pc = "pending"
  /\ session[login[l].session].generation = login[l].generation
  /\ Gone(l)
  /\ status' = [status EXCEPT ![NameOf(l)] =
                   [generation |-> login[l].generation, state |-> "failed"]]
  /\ UNCHANGED <<session, flight, record, vault, request, drawn, faults, floor, replaced>>

\* The callback takes the login out of the pending ones.
Callback(l) ==
  /\ login[l].pc = "pending"
  /\ At(l, "finish")
  /\ UNCHANGED <<session, flight, record, vault, status, request, drawn, faults, floor, replaced>>

\* finish_inner up to the exchange of the code; granted says that the user
\* agreed and the login is within its deadline.
FinishLock(l, granted) ==
  /\ login[l].pc = "finish"
  /\ flight[login[l].session] = None
  /\ IF granted /\ Current(l)
     THEN /\ At(l, "exchange")
          /\ flight' = [flight EXCEPT ![login[l].session] = l]
     ELSE At(l, "failed") /\ UNCHANGED flight
  /\ UNCHANGED <<session, record, vault, status, request, drawn, faults, floor, replaced>>

\* Mutant of NewEpoch: a new login keeps the connection epoch.
SameEpoch(s, generation) == session[s].epoch

NewEpoch(s, generation) == generation

\* The answer to the exchange is stored as a new login; answered is FALSE when
\* it is an error or does not come.
Exchanged(l, answered, refreshable, ok) ==
  /\ login[l].pc = "exchange"
  /\ ok => answered
  /\ LET s == login[l].session
         g == login[l].generation
         tokens == [login |-> g, uses |-> 0, refresh |-> IF refreshable THEN 0 ELSE None,
                    url |-> session[s].url]
     IN /\ IF answered THEN Store(s, g, tokens, ok) ELSE UNCHANGED <<record, vault, faults>>
        /\ session' = [session EXCEPT ![s].epoch = IF ok THEN NewEpoch(s, g) ELSE @]
        /\ floor' = IF ok THEN [floor EXCEPT ![session[s].name] = g] ELSE floor
        /\ flight' = [flight EXCEPT ![s] = None]
  /\ At(l, IF ok THEN "connected" ELSE "failed")
  /\ UNCHANGED <<status, request, drawn, replaced>>

\* finish reports the outcome.
Report(l) ==
  /\ login[l].pc \in {"connected", "failed"}
  /\ SetStatus(l, login[l].pc)
  /\ Gone(l)
  /\ UNCHANGED <<session, flight, record, vault, request, drawn, faults, floor, replaced>>

\* The browser leaves: the handler of the start or of the callback is dropped.
LoginDropped(l) ==
  /\ login[l].pc \in {"begin", "discover", "finish", "exchange"}
  /\ Gone(l)
  /\ flight' = [s \in Sessions |-> IF flight[s] = l THEN None ELSE flight[s]]
  /\ UNCHANGED <<session, record, vault, status, request, drawn, faults, floor, replaced>>

TokenStep(r) ==
  \/ TokenLock(r)
  \/ \E soon \in BOOLEAN : Load(r, soon)
  \/ \E rotated, ok \in BOOLEAN : Refreshed(r, rotated, ok)

LoginStep(l) ==
  \/ Begin(l)
  \/ \E ok \in BOOLEAN : Registered(l, ok)
  \/ Expired(l)
  \/ Callback(l)
  \/ \E granted \in BOOLEAN : FinishLock(l, granted)
  \/ \E answered, refreshable, ok \in BOOLEAN : Exchanged(l, answered, refreshable, ok)
  \/ Report(l)
  \/ LoginDropped(l)

-----------------------------------------------------------------------------
(* Properties *)

\* Once a disconnect or the retirement of a server has removed a login's
\* tokens, or a later login has replaced them, nothing brings them back: not
\* an exchange or a refresh that was under way, a save that failed, or a
\* restart (Session::store, disconnect and retire).
NoRevival ==
  \A n \in Names : \A rec \in {record[n], vault[n]} \ {None} : rec.login >= floor[n]

\* A session in service spends no refresh token whose successor was stored:
\* the message that waited for the refresh uses its result (Session::token,
\* "rather than spending the same refresh token twice").
SpendsFresh ==
  \A r \in Requests :
    request[r].pc = "refresh" /\ ~session[Q(r)].retired => Spent(r) \notin replaced

=============================================================================
