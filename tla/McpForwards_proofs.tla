------------------------- MODULE McpForwards_proofs -------------------------
(***************************************************************************)
(* Proofs about McpForwards and McpOauth, for any names, servers, sessions,*)
(* messages, logins and bounds: no cancelled login's tokens come back, no  *)
(* refresh token is spent twice by a session in service, a credential goes *)
(* to the server it is for, a connection in service is the account's, and  *)
(* "connected" is true.                                                    *)
(*                                                                         *)
(* The inductive invariant says of each session, name, message and login   *)
(* what it relies on.  Two facts carry the rest: a session not retired is  *)
(* the published one of its name, and generations are drawn once, so that  *)
(* a check of the generation tells what happened since it was read.        *)
(***************************************************************************)
EXTENDS McpForwards, TLAPS

-----------------------------------------------------------------------------
(* The invariant *)

Token == Nat \X Nat
Cred == [home : Urls \cup {None}, token : Token \cup {None}]
Message ==
  [pc : {"lock", "token", "load", "refresh", "headers", "sent"}, session : Sessions,
   oauth : BOOLEAN, cline : BOOLEAN, stage : {None, "initialize", "initialized", "message"},
   epoch : Nat, generation : Nat, rejected : Token \cup {None},
   rec : TokenRecord \cup {None}, cred : Cred \cup {None}, logins : SUBSET Nat]

Pending == {"discover", "pending", "finish", "exchange"}
Login ==
  [pc : {"begin", "connected", "failed"} \cup Pending, generation : Nat, session : Sessions]
Status == [generation : Nat, state : {"waiting", "failed", "connected"}]
Forward == [config : Configs, session : Sessions]
Contents == [Names -> Configs \cup {None}]
Saving == [configs : Contents, name : Names \cup {None}, login : Logins \cup {None}]

TypeOK ==
  /\ session \in [Sessions -> SessionObject \cup {None}]
  /\ flight \in [Sessions -> Requests \cup Logins \cup {None}]
  /\ record \in [Names -> TokenRecord \cup {None}]
  /\ vault \in [Names -> TokenRecord \cup {None}]
  /\ login \in [Logins -> Login \cup {NoLogin}]
  /\ status \in [Names -> Status \cup {None}]
  /\ request \in [Requests -> Message \cup {Idle}]
  /\ drawn \in Nat
  /\ floor \in [Names -> Nat]
  /\ replaced \in SUBSET (Names \X Nat \X Nat)
  /\ forwards \in [Names -> Forward \cup {None}]
  /\ file \in Contents \cup {Bad}
  /\ saving \in Saving \cup {None}

\* Every refresh token of login l that was replaced is older than this one.
Newest(n, l, refresh) ==
  \A t \in replaced : t[1] = n /\ t[2] = l => t[3] < refresh

Refreshable(n, rec) ==
  rec.refresh # None => rec.refresh <= rec.uses /\ Newest(n, rec.login, rec.refresh)

RecordFits(n, rec) ==
  rec # None => floor[n] <= rec.login /\ rec.login <= drawn /\ Refreshable(n, rec)

RecordsOK ==
  /\ \A n \in Names :
       floor[n] <= drawn + 1 /\ RecordFits(n, record[n]) /\ RecordFits(n, vault[n])
  /\ \A t \in replaced : t[2] <= drawn

ForwardsOK ==
  \A n \in Names : forwards[n] # None =>
    LET s == forwards[n].session IN session[s] # None /\ session[s].name = n

\* A connection of the epoch in force was made with the stored tokens' login.
OwnConn(x, conn) ==
  forwards[x.name].config.oauth /\ record[x.name] # None /\ conn # None /\ conn.epoch = x.epoch
    => conn.logins = {record[x.name].login}

ConnFits(x, conn) == (conn # None => conn.epoch <= x.epoch) /\ OwnConn(x, conn)

SessionFits(s, x) ==
  /\ x.generation <= drawn /\ x.epoch <= drawn
  /\ ~x.retired =>
       /\ forwards[x.name] # None /\ forwards[x.name].session = s
       /\ x.epoch <= x.generation
       /\ x.generation = 0 \/ floor[x.name] <= x.generation
       /\ ConnFits(x, x.conn)

SessionsOK == \A s \in Sessions : session[s] # None => SessionFits(s, session[s])

RefreshFits(m, x) ==
  m.pc = "refresh" =>
    /\ m.rec # None /\ m.rec.refresh # None /\ m.rec.url = x.url
    /\ ~x.retired => Refreshable(x.name, m.rec)
    /\ ~x.retired /\ x.generation = m.generation => record[x.name] = m.rec

SentFits(m, x) ==
  m.pc = "sent" =>
    /\ m.cred \in Cred /\ (m.cred.home # None => m.cred.home = x.url)
    /\ m.oauth => m.cred.token \in Token

\* The initialization of a connection for the epoch in force.
OwnInit(m, x) ==
  ( /\ m.oauth /\ m.stage \in {"initialize", "initialized"} /\ m.epoch = x.epoch
    /\ record[x.name] # None ) =>
    /\ m.logins \subseteq {record[x.name].login}
    /\ m.pc = "sent" => m.cred.token[1] = record[x.name].login

MessageFits(m, x) ==
  /\ x # None
  /\ m.generation <= drawn
  /\ m.pc \in {"token", "load", "refresh"} => m.oauth
  /\ m.pc = "headers" => ~m.oauth
  /\ m.pc = "lock" => m.logins = {}
  /\ m.pc # "lock" => m.stage \in {"initialize", "initialized", "message"}
  /\ RefreshFits(m, x)
  /\ SentFits(m, x)
  /\ ~x.retired =>
       m.oauth = forwards[x.name].config.oauth /\ m.epoch <= x.epoch /\ OwnInit(m, x)

Holding == {"load", "refresh"}

MessagesOK ==
  \A r \in Requests : request[r] # Idle =>
    /\ MessageFits(request[r], session[request[r].session])
    /\ request[r].pc \in Holding => flight[request[r].session] = r

LoginFits(k, x) ==
  /\ x # None
  /\ k.generation <= drawn
  /\ k.pc # "begin" => k.generation > 0
  /\ k.pc \in Pending =>
       /\ ~x.retired /\ x.generation = k.generation => x.epoch < k.generation
       /\ \A n \in Names : record[n] # None => record[n].login # k.generation
       /\ \A t \in replaced : t[2] # k.generation
  /\ k.pc = "connected" /\ ~x.retired /\ x.generation = k.generation =>
       record[x.name] # None /\ record[x.name].login = k.generation

LoginsOK ==
  \A l \in Logins : login[l] # NoLogin =>
    /\ LoginFits(login[l], session[login[l].session])
    /\ login[l].pc = "exchange" => flight[login[l].session] = l
    /\ \A k \in Logins : k # l /\ login[k] # NoLogin /\ login[k].generation = login[l].generation
         => login[l].generation = 0

StatusFits(n, v) ==
  /\ 0 < v.generation /\ v.generation <= drawn
  /\ ( /\ forwards[n] # None /\ v.state = "connected"
       /\ session[forwards[n].session].generation = v.generation ) =>
       record[n] # None /\ record[n].login = v.generation

StatusOK == \A n \in Names : status[n] # None => StatusFits(n, status[n])

SavingOK ==
  saving # None /\ saving.login # None => saving.name # None /\ saving.configs[saving.name] # None

IInv ==
  /\ TypeOK
  /\ RecordsOK /\ ForwardsOK /\ SessionsOK
  /\ MessagesOK /\ LoginsOK /\ StatusOK /\ SavingOK

-----------------------------------------------------------------------------
(* What a step has to leave of a part of the invariant *)

LEMMA RecordKept ==
  ASSUME NEW n \in Names, NEW rec \in TokenRecord \cup {None}, RecordFits(n, rec),
         drawn \in Nat, drawn' \in Nat, drawn <= drawn', floor'[n] = floor[n],
         \A t \in replaced' : t \in replaced \/ t[1] # n
  PROVE  /\ record'[n] = rec => RecordFits(n, record[n])'
         /\ vault'[n] = rec => RecordFits(n, vault[n])'
<1>1. rec # None => rec.login \in Nat
  BY DEF TokenRecord
<1> QED  BY <1>1 DEF RecordFits, Refreshable, Newest

LEMMA SessionKept ==
  ASSUME NEW s \in Sessions, NEW x \in SessionObject, NEW y \in SessionObject, session'[s] = y,
         SessionFits(s, x), drawn' \in Nat, y.name = x.name,
         y.generation <= drawn', y.epoch <= drawn',
         ~y.retired =>
           /\ ~x.retired /\ ConnFits(x, y.conn)
           /\ forwards'[x.name] # None /\ forwards'[x.name].session = s
           /\ forwards'[x.name].config.oauth = forwards[x.name].config.oauth
           /\ x.epoch <= y.epoch /\ y.epoch <= y.generation
           /\ y.generation = 0 \/ floor'[x.name] <= y.generation
           /\ record'[x.name] # None /\ y.epoch = x.epoch =>
                record[x.name] # None /\ record'[x.name].login = record[x.name].login
  PROVE  SessionFits(s, session[s])'
<1>1. x.epoch \in Nat /\ y.epoch \in Nat /\ (y.conn # None => y.conn.epoch \in Nat)
  BY DEF SessionObject, Connection
<1>2. ~y.retired => (y.conn # None => y.conn.epoch <= y.epoch)
  BY <1>1 DEF ConnFits
<1>3. ASSUME ~y.retired, forwards'[y.name].config.oauth, record'[y.name] # None, y.conn # None,
             y.conn.epoch = y.epoch
      PROVE  y.conn.logins = {record'[y.name].login}
  <2>1. y.conn.epoch <= x.epoch /\ OwnConn(x, y.conn)
    BY <1>3 DEF ConnFits
  <2>a. x.epoch <= y.epoch
    BY <1>3
  <2>b. y.conn.epoch = y.epoch
    BY <1>3
  <2>2. y.epoch = x.epoch
    BY <1>1, <2>1, <2>a, <2>b
  <2>3. record[x.name] # None /\ record'[x.name].login = record[x.name].login
    BY <1>3, <2>2
  <2>4. forwards[x.name].config.oauth
    BY <1>3
  <2> QED  BY <1>3, <2>1, <2>2, <2>3, <2>4 DEF OwnConn
<1> QED  BY <1>2, <1>3 DEF SessionFits, ConnFits, OwnConn

LEMMA MessageKept ==
  ASSUME NEW k \in Requests, NEW m \in Message, NEW x \in SessionObject, NEW y \in SessionObject,
         request'[k] = m, session'[m.session] = y, MessageFits(m, x),
         drawn \in Nat, drawn' \in Nat, drawn <= drawn',
         y.name = x.name, y.url = x.url, x.retired => y.retired,
         ~y.retired =>
           /\ x.epoch <= y.epoch
           /\ forwards'[x.name].config.oauth = forwards[x.name].config.oauth
           /\ record'[x.name] # None /\ y.epoch = x.epoch =>
                record[x.name] # None /\ record'[x.name].login = record[x.name].login
           /\ m.pc = "refresh" =>
                /\ \A t \in replaced' : t \in replaced \/ t[1] # x.name
                /\ y.generation = m.generation =>
                     x.generation = m.generation /\ record'[x.name] = record[x.name]
  PROVE  MessageFits(request[k], session[request[k].session])'
<1>1. m.generation \in Nat /\ m.epoch \in Nat /\ x.epoch \in Nat /\ y.epoch \in Nat
  BY DEF Message, SessionObject
<1>2. y # None
  BY RecordAssumption
<1>3. m.pc = "refresh" =>
        /\ m.rec # None /\ m.rec.refresh # None /\ m.rec.url = y.url
        /\ ~y.retired => Refreshable(x.name, m.rec)
        /\ ~y.retired /\ y.generation = m.generation => record'[y.name] = m.rec
  BY DEF MessageFits, RefreshFits
<1>4. RefreshFits(request[k], session[request[k].session])'
  BY <1>3 DEF RefreshFits, Refreshable, Newest
<1>5. SentFits(request[k], session[request[k].session])'
  BY DEF MessageFits, SentFits
<1>6. ~y.retired => m.epoch <= y.epoch /\ m.oauth = forwards'[y.name].config.oauth
  BY <1>1 DEF MessageFits
<1>7. ASSUME ~y.retired, m.oauth, m.stage \in {"initialize", "initialized"}, m.epoch = y.epoch,
             record'[y.name] # None
      PROVE  /\ m.logins \subseteq {record'[y.name].login}
             /\ m.pc = "sent" => m.cred.token[1] = record'[y.name].login
  <2>1. m.epoch <= x.epoch /\ OwnInit(m, x)
    BY <1>7 DEF MessageFits
  <2>2. m.epoch = x.epoch
    BY <1>1, <1>7, <2>1
  <2>3. record[x.name] # None /\ record'[x.name].login = record[x.name].login
    BY <1>1, <1>7, <2>2
  <2> QED  BY <1>7, <2>1, <2>2, <2>3 DEF OwnInit
<1>8. ~y.retired => OwnInit(request[k], session[request[k].session])'
  BY <1>7 DEF OwnInit
<1> QED  BY <1>1, <1>2, <1>4, <1>5, <1>6, <1>8 DEF MessageFits

LEMMA LoginKept ==
  ASSUME NEW l \in Logins, NEW k \in Login, NEW x \in SessionObject, NEW y \in SessionObject,
         login'[l] = k, session'[k.session] = y, LoginFits(k, x),
         drawn \in Nat, drawn' \in Nat, drawn <= drawn', y.name = x.name, x.retired => y.retired,
         ~y.retired /\ y.generation = k.generation =>
           /\ x.generation = k.generation
           /\ k.pc \in Pending => y.epoch = x.epoch
           /\ k.pc = "connected" /\ record[x.name] # None =>
                record'[x.name] # None /\ record'[x.name].login = record[x.name].login,
         k.pc \in Pending =>
           /\ \A n \in Names : record'[n] # None => record'[n].login # k.generation
           /\ \A t \in replaced' : t[2] # k.generation
  PROVE  LoginFits(login[l], session[login[l].session])'
<1>1. k.generation \in Nat /\ y # None
  BY RecordAssumption DEF Login
<1> QED  BY <1>1 DEF LoginFits

LEMMA StatusKept ==
  ASSUME NEW n \in Names, NEW v \in Status, status'[n] = v, StatusFits(n, v),
         drawn \in Nat, drawn' \in Nat, drawn <= drawn',
         forwards'[n] # None /\ session'[forwards'[n].session].generation = v.generation =>
           /\ forwards[n] # None /\ session[forwards[n].session].generation = v.generation
           /\ record[n] # None =>
                record'[n] # None /\ record'[n].login = record[n].login
  PROVE  StatusFits(n, status[n])'
<1>1. v.generation \in Nat
  BY DEF Status
<1> QED  BY <1>1 DEF StatusFits

-----------------------------------------------------------------------------
(* The steps of a message and of a login *)

\* A session the step leaves in its place, but for a connection that fits it.
Alike(x, y) ==
  /\ x = None => y = None
  /\ x # None =>
       /\ y # None
       /\ y.name = x.name /\ y.url = x.url /\ y.retired = x.retired
       /\ y.generation = x.generation /\ y.epoch = x.epoch
       /\ ~x.retired => y.conn = x.conn \/ ConnFits(x, y.conn)

\* A secret whose save failed may have reached the disk.
VaultFits ==
  /\ vault' \in [Names -> TokenRecord \cup {None}]
  /\ \A n \in Names : vault'[n] = vault[n] \/ RecordFits(n, vault'[n])

LEMMA SameVault ==
  ASSUME IInv, vault' = vault
  PROVE  VaultFits
BY DEF IInv, TypeOK, VaultFits

LEMMA MessageFrame ==
  ASSUME IInv, NEW r \in Requests, NEW m \in Message \cup {Idle},
         request' = [request EXCEPT ![r] = m],
         session' \in [Sessions -> SessionObject \cup {None}],
         flight' \in [Sessions -> Requests \cup Logins \cup {None}],
         \A s \in Sessions : Alike(session[s], session'[s]),
         \A s \in Sessions : flight'[s] = flight[s] \/ flight[s] \in {None, r},
         m # Idle => MessageFits(m, session[m.session]),
         m # Idle /\ m.pc \in Holding => flight'[m.session] = r,
         VaultFits,
         UNCHANGED <<record, login, status, drawn, floor, replaced, forwards, file, saving>>
  PROVE  IInv'
<1> USE DEF IInv
<1>1. TypeOK'
  BY DEF TypeOK, VaultFits
<1>2. RecordsOK'
  <2>1. ASSUME NEW n \in Names  PROVE RecordFits(n, vault[n])'
    <3>1. PICK rec : rec = vault'[n]
      OBVIOUS
    <3>2. RecordFits(n, rec)
      BY <3>1 DEF RecordsOK, VaultFits
    <3> QED  BY <3>1, <3>2 DEF RecordFits, Refreshable, Newest
  <2> QED  BY <2>1 DEF RecordsOK, RecordFits, Refreshable, Newest
<1>3. ForwardsOK'
  BY DEF ForwardsOK, Alike, TypeOK, Forward
<1>4. drawn \in Nat /\ drawn' \in Nat /\ drawn <= drawn'
  BY DEF TypeOK
<1>5. SessionsOK'
  <2>1. SUFFICES ASSUME NEW s \in Sessions, session'[s] # None
                 PROVE  SessionFits(s, session[s])'
    BY DEF SessionsOK
  <2>2. PICK x : x = session[s]
    OBVIOUS
  <2>3. PICK y : y = session'[s]
    OBVIOUS
  <2>4. Alike(x, y) /\ x # None /\ y # None
    BY <2>1, <2>2, <2>3 DEF Alike
  <2>5. x \in SessionObject /\ y \in SessionObject
    BY <2>2, <2>3, <2>4 DEF TypeOK
  <2>6. SessionFits(s, x)
    BY <2>2, <2>4 DEF SessionsOK
  <2>7. y.name = x.name /\ y.generation = x.generation /\ y.epoch = x.epoch /\ y.retired = x.retired
    BY <2>4 DEF Alike
  <2>8. ~y.retired => ~x.retired /\ ConnFits(x, y.conn)
    BY <2>4, <2>6, <2>7 DEF Alike, SessionFits
  <2>9. x.epoch \in Nat /\ x.generation \in Nat
    BY <2>5 DEF SessionObject
  <2> QED  BY <1>4, <2>3, <2>5, <2>6, <2>7, <2>8, <2>9, SessionKept DEF SessionFits
<1>6. MessagesOK'
  <2>1. SUFFICES ASSUME NEW k \in Requests, request'[k] # Idle
                 PROVE  /\ MessageFits(request[k], session[request[k].session])'
                        /\ (request[k].pc \in Holding => flight[request[k].session] = k)'
    BY DEF MessagesOK
  <2>2. PICK q : q = request'[k]
    OBVIOUS
  <2>3. q # Idle /\ q \in Message
    BY <2>1, <2>2 DEF TypeOK
  <2>4. MessageFits(q, session[q.session])
    BY <2>2, <2>3 DEF MessagesOK, TypeOK
  <2>5. q.session \in Sessions
    BY <2>3 DEF Message
  <2>6. PICK x : x = session[q.session]
    OBVIOUS
  <2>7. PICK y : y = session'[q.session]
    OBVIOUS
  <2>8. x # None /\ Alike(x, y)
    BY <2>4, <2>5, <2>6, <2>7 DEF MessageFits
  <2>9. x \in SessionObject /\ y \in SessionObject
    BY <2>5, <2>6, <2>7, <2>8 DEF TypeOK, Alike
  <2>10. y.name = x.name /\ y.url = x.url /\ y.retired = x.retired
         /\ y.generation = x.generation /\ y.epoch = x.epoch
    BY <2>8 DEF Alike
  <2>11. x.epoch \in Nat
    BY <2>9 DEF SessionObject
  <2>12. MessageFits(request[k], session[request[k].session])'
    BY <1>4, <2>2, <2>3, <2>4, <2>6, <2>7, <2>9, <2>10, <2>11, MessageKept
  <2>13. ASSUME q.pc \in Holding  PROVE flight'[q.session] = k
    <3>1. CASE k = r
      BY <2>2, <2>3, <2>13, <3>1 DEF TypeOK
    <3>2. CASE k # r
      <4>1. q = request[k]
        BY <2>2, <3>2 DEF TypeOK
      <4>2. flight[q.session] = k
        BY <2>3, <2>13, <4>1 DEF MessagesOK
      <4> QED  BY <2>5, <3>2, <4>2, OauthAssumption
    <3> QED  BY <3>1, <3>2
  <2> QED  BY <2>2, <2>12, <2>13
<1>7. LoginsOK'
  <2>1. SUFFICES ASSUME NEW l \in Logins, login[l] # NoLogin
                 PROVE  /\ LoginFits(login[l], session[login[l].session])'
                        /\ (login[l].pc = "exchange" => flight[login[l].session] = l)'
    BY DEF LoginsOK
  <2>2. PICK k : k = login[l]
    OBVIOUS
  <2>3. k \in Login /\ k.session \in Sessions /\ LoginFits(k, session[k.session])
    BY <2>1, <2>2 DEF TypeOK, LoginsOK, Login
  <2>4. PICK x : x = session[k.session]
    OBVIOUS
  <2>5. PICK y : y = session'[k.session]
    OBVIOUS
  <2>6. x # None /\ Alike(x, y)
    BY <2>3, <2>4, <2>5 DEF LoginFits
  <2>7. x \in SessionObject /\ y \in SessionObject
    BY <2>3, <2>4, <2>5, <2>6 DEF TypeOK, Alike
  <2>8. y.name = x.name /\ y.retired = x.retired /\ y.generation = x.generation /\ y.epoch = x.epoch
    BY <2>6 DEF Alike
  <2>9. LoginFits(login[l], session[login[l].session])'
    <3>1. login'[l] = k /\ record' = record /\ replaced' = replaced
      BY <2>2
    <3>2. LoginFits(k, x) /\ session'[k.session] = y
      BY <2>3, <2>4, <2>5
    <3>3. k.pc \in Pending =>
            /\ \A n \in Names : record'[n] # None => record'[n].login # k.generation
            /\ \A t \in replaced' : t[2] # k.generation
      BY <3>1, <3>2 DEF LoginFits
    <3> QED  BY <1>4, <2>3, <2>7, <2>8, <3>1, <3>2, <3>3, LoginKept
  <2>10. k.pc = "exchange" => flight'[k.session] = l
    BY <2>1, <2>2, <2>3, OauthAssumption DEF LoginsOK
  <2> QED  BY <2>2, <2>9, <2>10
<1>8. StatusOK'
  <2>1. SUFFICES ASSUME NEW n \in Names, status[n] # None
                 PROVE  StatusFits(n, status[n])'
    BY DEF StatusOK
  <2>2. PICK v : v = status[n]
    OBVIOUS
  <2>3. v \in Status /\ StatusFits(n, v) /\ status'[n] = v
    BY <2>1, <2>2 DEF TypeOK, StatusOK
  <2>4. forwards[n] # None =>
          forwards[n].session \in Sessions /\ session[forwards[n].session] # None
    BY DEF ForwardsOK, TypeOK, Forward
  <2>5. forwards[n] # None =>
          session'[forwards[n].session].generation = session[forwards[n].session].generation
    BY <2>4 DEF Alike
  <2> QED  BY <1>4, <2>3, <2>5, StatusKept
<1>9. SavingOK'
  BY DEF SavingOK
<1> QED  BY <1>1, <1>2, <1>3, <1>5, <1>6, <1>7, <1>8, <1>9

\* What a step on message r relies on.
LEMMA MessageFacts ==
  ASSUME IInv, NEW r \in Requests, request[r] # Idle
  PROVE  /\ request[r] \in Message /\ Q(r) \in Sessions /\ session[Q(r)] \in SessionObject
         /\ session[Q(r)] # None /\ session[Q(r)].name \in Names
         /\ MessageFits(request[r], session[Q(r)]) /\ SessionFits(Q(r), session[Q(r)])
         /\ request[r].pc \in Holding => flight[Q(r)] = r
<1>1. request[r] \in Message
  BY DEF IInv, TypeOK
<1>2. Q(r) \in Sessions
  BY <1>1 DEF Message, Q
<1>3. MessageFits(request[r], session[Q(r)]) /\ (request[r].pc \in Holding => flight[Q(r)] = r)
  BY DEF IInv, MessagesOK, Q
<1>4. session[Q(r)] # None /\ session[Q(r)] \in SessionObject
  BY <1>2, <1>3 DEF IInv, TypeOK, MessageFits
<1> QED  BY <1>1, <1>2, <1>3, <1>4 DEF IInv, SessionsOK, SessionObject

LEMMA ReleasedKept ==
  ASSUME IInv, NEW r \in Requests, Released(r), VaultFits,
         UNCHANGED <<record, login, status, drawn, floor, replaced, forwards, file, saving>>
  PROVE  IInv'
<1>1. session' \in [Sessions -> SessionObject \cup {None}]
  <2>1. \A s \in Sessions : session[s] # None =>
          [session[s] EXCEPT !.holder = None] \in SessionObject
    BY DEF IInv, TypeOK, SessionObject
  <2> QED  BY <2>1 DEF Released, IInv, TypeOK
<1>2. \A s \in Sessions : Alike(session[s], session'[s])
  <2>1. SUFFICES ASSUME NEW s \in Sessions  PROVE Alike(session[s], session'[s])
    OBVIOUS
  <2>2. CASE session'[s] = session[s]
    BY <2>2 DEF Alike
  <2>3. CASE session[s] # None /\ session'[s] = [session[s] EXCEPT !.holder = None]
    <3>1. session[s] \in SessionObject /\ session'[s] \in SessionObject
      BY <2>3 DEF IInv, TypeOK, SessionObject
    <3>2. session'[s] # None
      BY <3>1, RecordAssumption
    <3> QED  BY <2>3, <3>1, <3>2 DEF Alike, SessionObject
  <2> QED  BY <2>2, <2>3 DEF Released
<1>3. flight' \in [Sessions -> Requests \cup Logins \cup {None}]
  BY DEF Released, IInv, TypeOK
<1>4. \A s \in Sessions : flight'[s] = flight[s] \/ flight[s] \in {None, r}
  BY DEF Released
<1>5. request' = [request EXCEPT ![r] = Idle]
  BY DEF Released
<1> QED  BY <1>1, <1>2, <1>3, <1>4, <1>5, MessageFrame

LEMMA StaySame ==
  ASSUME IInv, UNCHANGED <<session, flight>>, NEW r
  PROVE  /\ session' \in [Sessions -> SessionObject \cup {None}]
         /\ flight' \in [Sessions -> Requests \cup Logins \cup {None}]
         /\ \A s \in Sessions : Alike(session[s], session'[s])
         /\ \A s \in Sessions : flight'[s] = flight[s] \/ flight[s] \in {None, r}
BY DEF IInv, TypeOK, Alike

LEMMA TokenLockKept ==
  ASSUME IInv, NEW r \in Requests, TokenLock(r), UNCHANGED forwardVars
  PROVE  IInv'
<1> USE DEF forwardVars
<1>1. request[r] # Idle
  BY DEF TokenLock, Idle
<1>2. CASE session[Q(r)].retired
  BY <1>2, SameVault, ReleasedKept DEF TokenLock
<1>3. CASE ~session[Q(r)].retired
  <2> DEFINE m == [request[r] EXCEPT !.pc = "load", !.generation = session[Q(r)].generation]
  <2>1. request' = [request EXCEPT ![r] = m] /\ flight' = [flight EXCEPT ![Q(r)] = r]
        /\ session' = session
    BY <1>3 DEF TokenLock
  <2>2. session[Q(r)].generation \in Nat /\ session[Q(r)].generation <= drawn
    BY <1>1, MessageFacts DEF SessionFits, SessionObject
  <2>3. m \in Message /\ m.session = Q(r)
    <3>1. request[r] \in Message
      BY <1>1, MessageFacts
    <3> QED  BY <2>2, <3>1 DEF Message, Q
  <2>4. MessageFits(m, session[m.session])
    BY <1>1, <2>2, <2>3, MessageFacts DEF MessageFits, RefreshFits, SentFits, OwnInit, Message, TokenLock
  <2>5. session' \in [Sessions -> SessionObject \cup {None}]
        /\ \A s \in Sessions : Alike(session[s], session'[s])
    BY <2>1 DEF IInv, TypeOK, Alike
  <2>6. flight' \in [Sessions -> Requests \cup Logins \cup {None}]
        /\ \A s \in Sessions : flight'[s] = flight[s] \/ flight[s] \in {None, r}
    BY <2>1 DEF IInv, TypeOK, TokenLock
  <2>7. flight'[m.session] = r
    BY <1>1, <2>1, <2>3, MessageFacts DEF IInv, TypeOK
  <2>8. UNCHANGED <<record, vault, login, status, drawn, floor, replaced, forwards, file, saving>>
    BY DEF TokenLock
  <2> HIDE DEF m
  <2> QED  BY <2>1, <2>3, <2>4, <2>5, <2>6, <2>7, <2>8, SameVault, MessageFrame
<1> QED  BY <1>2, <1>3

LEMMA LoadKept ==
  ASSUME IInv, NEW r \in Requests, NEW soon \in BOOLEAN, Load(r, soon), UNCHANGED forwardVars
  PROVE  IInv'
<1> USE DEF forwardVars
<1> DEFINE rec == record[session[Q(r)].name]
           usable == rec # None /\ BoundTo(rec, Q(r))
           asIs == usable /\ ~soon /\ request[r].rejected # Tokens(rec)
           refresh == usable /\ ~asIs /\ rec.refresh # None
<1>1. request[r] # Idle /\ request[r].pc = "load"
  BY DEF Load, Idle
<1>2. request[r] \in Message /\ Q(r) \in Sessions /\ session[Q(r)] \in SessionObject
  BY <1>1, MessageFacts
<1>3. MessageFits(request[r], session[Q(r)]) /\ flight[Q(r)] = r /\ session[Q(r)].name \in Names
  BY <1>1, MessageFacts DEF Holding
<1>4. UNCHANGED <<record, vault, login, status, drawn, floor, replaced, forwards, file, saving>>
  BY DEF Load
<1>5. usable => rec \in TokenRecord /\ rec.url = session[Q(r)].url /\ RecordFits(session[Q(r)].name, rec)
  BY <1>3 DEF IInv, TypeOK, BoundTo, RecordsOK
<1>6. CASE asIs
  <2> DEFINE m == [request[r] EXCEPT !.pc = "sent", !.generation = 0,
                      !.cred = [home |-> rec.url, token |-> Tokens(rec)]]
  <2>1. /\ request' = [request EXCEPT ![r] = m] /\ flight' = [flight EXCEPT ![Q(r)] = None]
        /\ session' = session
    BY <1>6 DEF Load
  <2>2. [home |-> rec.url, token |-> Tokens(rec)] \in Cred
    BY <1>5, <1>6 DEF TokenRecord, Cred, Token, Tokens
  <2>3. m \in Message /\ m.session = Q(r) /\ m.pc = "sent" /\ m.generation = 0
        /\ m.cred = [home |-> rec.url, token |-> Tokens(rec)]
        /\ m.oauth = request[r].oauth /\ m.stage = request[r].stage /\ m.epoch = request[r].epoch
        /\ m.logins = request[r].logins
    BY <1>2, <2>2 DEF Message, Q
  <2> HIDE DEF m
  <2>4. SentFits(m, session[m.session])
    <3>1. Tokens(rec) \in Token
      BY <1>5, <1>6 DEF TokenRecord, Token, Tokens
    <3> QED  BY <1>5, <1>6, <2>2, <2>3, <3>1 DEF SentFits
  <2>5. ~session[Q(r)].retired => OwnInit(m, session[Q(r)])
    <3>1. m.cred.token[1] = rec.login
      BY <2>3 DEF Tokens
    <3> QED  BY <1>3, <2>3, <3>1 DEF MessageFits, OwnInit
  <2>6. MessageFits(m, session[m.session])
    BY <1>1, <1>3, <2>3, <2>4, <2>5 DEF MessageFits, RefreshFits, IInv, TypeOK
  <2>7. m.pc \notin Holding
    BY <2>3 DEF Holding
  <2>8. session' \in [Sessions -> SessionObject \cup {None}]
        /\ \A s \in Sessions : Alike(session[s], session'[s])
    BY <2>1 DEF IInv, TypeOK, Alike
  <2>9. flight' \in [Sessions -> Requests \cup Logins \cup {None}]
        /\ \A s \in Sessions : flight'[s] = flight[s] \/ flight[s] \in {None, r}
    BY <1>3, <2>1 DEF IInv, TypeOK
  <2> QED  BY <1>4, <2>1, <2>3, <2>6, <2>7, <2>8, <2>9, SameVault, MessageFrame
<1>7. CASE ~asIs /\ refresh
  <2> DEFINE m == [request[r] EXCEPT !.pc = "refresh", !.rec = rec]
  <2>1. request' = [request EXCEPT ![r] = m] /\ UNCHANGED <<flight, session>>
    BY <1>7 DEF Load
  <2>2. m \in Message /\ m.session = Q(r) /\ m.pc = "refresh" /\ m.rec = rec
        /\ m.oauth = request[r].oauth /\ m.stage = request[r].stage /\ m.epoch = request[r].epoch
        /\ m.logins = request[r].logins /\ m.generation = request[r].generation
    BY <1>2, <1>5, <1>7 DEF Message, Q
  <2> HIDE DEF m
  <2>3. RefreshFits(m, session[m.session])
    BY <1>5, <1>7, <2>2 DEF RefreshFits, RecordFits
  <2>4. MessageFits(m, session[m.session])
    BY <1>1, <1>3, <2>2, <2>3 DEF MessageFits, SentFits, OwnInit
  <2> QED  BY <1>3, <1>4, <2>1, <2>2, <2>4, StaySame, SameVault, MessageFrame
<1>8. CASE ~asIs /\ ~refresh
  BY <1>4, <1>8, SameVault, ReleasedKept DEF Load
<1> QED  BY <1>6, <1>7, <1>8

LEMMA PostIs ==
  ASSUME NEW q \in Message, NEW stage \in {"initialize", "initialized", "message"}
  PROVE  LET m == Post(q, stage)
         IN /\ m \in Message /\ m.session = q.session /\ m.pc \in {"token", "headers"}
            /\ m.pc = "token" => m.oauth
            /\ m.pc = "headers" => ~m.oauth
            /\ m.oauth = q.oauth /\ m.stage = stage /\ m.epoch = q.epoch
            /\ m.logins = q.logins /\ m.generation = 0
<1>1. PICK pc : pc = IF q.oauth THEN "token" ELSE "headers"
  OBVIOUS
<1>2. Post(q, stage) = [q EXCEPT !.pc = pc, !.stage = stage, !.generation = 0, !.rejected = None,
                                 !.cred = None]
  BY <1>1 DEF Post
<1>3. pc \in {"token", "headers"}
  BY <1>1
<1>4. (pc = "token" => q.oauth) /\ (pc = "headers" => ~q.oauth)
  BY <1>1
<1> DEFINE m == Post(q, stage)
<1>5. m \in Message
  <2>1. [q EXCEPT !.pc = pc, !.stage = stage] \in Message
    BY <1>3 DEF Message
  <2>2. PICK p : p = [q EXCEPT !.pc = pc, !.stage = stage]
    OBVIOUS
  <2>3. m = [p EXCEPT !.generation = 0, !.rejected = None, !.cred = None]
    BY <1>2, <2>2 DEF Message
  <2> HIDE DEF m
  <2>4. p \in Message
    BY <2>1, <2>2
  <2> QED  BY <2>3, <2>4 DEF Message
<1>6. m.session = q.session /\ m.pc = pc /\ m.stage = stage /\ m.epoch = q.epoch
      /\ m.logins = q.logins /\ m.generation = 0
  BY <1>2 DEF Message
<1>7. m.oauth = q.oauth
  BY <1>2 DEF Message
<1> HIDE DEF m
<1>8. (m.pc = "token" => m.oauth) /\ (m.pc = "headers" => ~m.oauth)
  BY <1>4, <1>6, <1>7
<1> QED  BY <1>3, <1>5, <1>6, <1>7, <1>8 DEF m

LEMMA LockConnKept ==
  ASSUME IInv, NEW r \in Requests, LockConn(r)
  PROVE  IInv'
<1> USE DEF forwardVars
<1>1. request[r] # Idle /\ request[r].pc = "lock"
  BY DEF LockConn, Idle
<1>2. request[r] \in Message /\ Q(r) \in Sessions /\ session[Q(r)] \in SessionObject
  BY <1>1, MessageFacts
<1>3. /\ MessageFits(request[r], session[Q(r)]) /\ session[Q(r)].name \in Names
      /\ session[Q(r)] # None /\ SessionFits(Q(r), session[Q(r)])
  BY <1>1, MessageFacts
<1>4. UNCHANGED <<record, vault, login, status, drawn, floor, replaced, forwards, file, saving>>
  BY DEF LockConn
<1>5. CASE Connected(Q(r))
  <2> DEFINE m == Post(request[r], "message")
  <2>1. request' = [request EXCEPT ![r] = m] /\ UNCHANGED <<flight, session>>
    BY <1>5 DEF LockConn
  <2>2. m \in Message /\ m.session = Q(r) /\ m.pc \in {"token", "headers"}
        /\ (m.pc = "token" => m.oauth) /\ (m.pc = "headers" => ~m.oauth)
        /\ m.oauth = request[r].oauth /\ m.stage = "message" /\ m.epoch = request[r].epoch
        /\ m.logins = request[r].logins /\ m.generation = 0
    BY <1>2, PostIs DEF Q
  <2> HIDE DEF m
  <2>a. drawn \in Nat
    BY DEF IInv, TypeOK
  <2>3. MessageFits(m, session[m.session])
    <3>1. RefreshFits(m, session[m.session]) /\ SentFits(m, session[m.session])
          /\ OwnInit(m, session[m.session])
      BY <2>2 DEF RefreshFits, SentFits, OwnInit
    <3> QED  BY <1>3, <2>2, <2>a, <3>1 DEF MessageFits
  <2>4. m.pc \notin Holding
    BY <2>2 DEF Holding
  <2> QED  BY <1>4, <2>1, <2>2, <2>3, <2>4, StaySame, SameVault, MessageFrame
<1>6. CASE ~Connected(Q(r))
  <2> DEFINE m == [Post(request[r], "initialize") EXCEPT !.epoch = session[Q(r)].epoch]
  <2>1. request' = [request EXCEPT ![r] = m] /\ session' = [session EXCEPT ![Q(r)].holder = r]
        /\ flight' = flight
    BY <1>6 DEF LockConn
  <2>2. m \in Message /\ m.session = Q(r) /\ m.pc \in {"token", "headers"}
        /\ (m.pc = "token" => m.oauth) /\ (m.pc = "headers" => ~m.oauth)
        /\ m.oauth = request[r].oauth /\ m.stage = "initialize" /\ m.epoch = session[Q(r)].epoch
        /\ m.logins = request[r].logins /\ m.generation = 0
    <3> DEFINE p == Post(request[r], "initialize")
    <3>1. /\ p \in Message /\ p.session = Q(r) /\ p.oauth = request[r].oauth
          /\ p.pc = "token" => p.oauth
          /\ p.pc = "headers" => ~p.oauth
          /\ p.pc \in {"token", "headers"} /\ p.stage = "initialize" /\ p.generation = 0
          /\ p.logins = request[r].logins
      BY <1>2, PostIs DEF Q
    <3>2. session[Q(r)].epoch \in Nat
      BY <1>2 DEF SessionObject
    <3> HIDE DEF p
    <3> QED  BY <3>1, <3>2 DEF Message, p
  <2> HIDE DEF m
  <2>a. drawn \in Nat
    BY DEF IInv, TypeOK
  <2>3. session[Q(r)].epoch \in Nat
    BY <1>2 DEF SessionObject
  <2>4. MessageFits(m, session[m.session])
    <3>1. RefreshFits(m, session[m.session]) /\ SentFits(m, session[m.session])
      BY <2>2 DEF RefreshFits, SentFits
    <3>2. request[r].logins = {}
      BY <1>1, <1>3 DEF MessageFits
    <3>3. OwnInit(m, session[m.session])
      BY <2>2, <3>2 DEF OwnInit
    <3> QED  BY <1>3, <2>2, <2>3, <2>a, <3>1, <3>3 DEF MessageFits
  <2>5. m.pc \notin Holding
    BY <2>2 DEF Holding
  <2>6. [session[Q(r)] EXCEPT !.holder = r] \in SessionObject
    BY <1>2 DEF SessionObject
  <2>7. session' \in [Sessions -> SessionObject \cup {None}]
    BY <2>1, <2>6 DEF IInv, TypeOK
  <2>8. \A s \in Sessions : Alike(session[s], session'[s])
    <3>1. Alike(session[Q(r)], session'[Q(r)])
      BY <1>2, <1>3, <2>1, <2>6, RecordAssumption DEF IInv, TypeOK, Alike, SessionObject
    <3>2. \A s \in Sessions : s # Q(r) => session'[s] = session[s]
      BY <2>1 DEF IInv, TypeOK
    <3> QED  BY <3>1, <3>2 DEF Alike
  <2>9. flight' \in [Sessions -> Requests \cup Logins \cup {None}]
    BY <2>1 DEF IInv, TypeOK
  <2> QED  BY <1>4, <2>1, <2>2, <2>4, <2>5, <2>7, <2>8, <2>9, SameVault, MessageFrame
<1> QED  BY <1>5, <1>6

LEMMA HeadersKept ==
  ASSUME IInv, NEW r \in Requests, Headers(r)
  PROVE  IInv'
<1> USE DEF forwardVars
<1>1. request[r] # Idle /\ request[r].pc = "headers"
  BY DEF Headers, Idle
<1>2. request[r] \in Message /\ Q(r) \in Sessions /\ MessageFits(request[r], session[Q(r)])
  BY <1>1, MessageFacts
<1>3. UNCHANGED <<record, vault, login, status, drawn, floor, replaced, forwards, file, saving>>
  BY DEF Headers
<1>4. CASE request[r].cline /\ cline # session[Q(r)].url
  BY <1>3, <1>4, SameVault, ReleasedKept DEF Headers
<1>5. CASE ~(request[r].cline /\ cline # session[Q(r)].url)
  <2>1. PICK home : home = IF request[r].cline THEN cline ELSE None
    OBVIOUS
  <2> DEFINE cred == [home |-> home, token |-> None]
             m == [request[r] EXCEPT !.pc = "sent", !.cred = cred]
  <2>2. request' = [request EXCEPT ![r] = m] /\ UNCHANGED <<flight, session>>
    BY <1>5, <2>1 DEF Headers
  <2>3. home # None => home = session[Q(r)].url
    BY <1>5, <2>1
  <2>4. cred \in Cred
    <3>1. session[Q(r)].url \in Urls
      BY <1>1, MessageFacts DEF SessionObject
    <3> QED  BY <2>3, <3>1 DEF Cred
  <2>5. m \in Message /\ m.session = Q(r) /\ m.pc = "sent" /\ m.cred = cred
        /\ m.oauth = request[r].oauth /\ m.stage = request[r].stage /\ m.epoch = request[r].epoch
        /\ m.generation = request[r].generation
    BY <1>2, <2>4 DEF Message, Q
  <2>6. cred.home = home
    OBVIOUS
  <2> HIDE DEF m, cred
  <2>7. MessageFits(m, session[m.session])
    BY <1>1, <1>2, <2>3, <2>4, <2>5, <2>6 DEF MessageFits, SentFits, OwnInit, RefreshFits
  <2>8. m.pc \notin Holding
    BY <2>5 DEF Holding
  <2> QED  BY <1>3, <2>2, <2>5, <2>7, <2>8, StaySame, SameVault, MessageFrame
<1> QED  BY <1>4, <1>5

LEMMA AnsweredKept ==
  ASSUME IInv, NEW r \in Requests, Answered(r)
  PROVE  IInv'
<1> USE DEF forwardVars
<1>1. request[r] # Idle /\ request[r].pc = "sent"
  BY DEF Answered, Idle
<1>2. request[r] \in Message /\ Q(r) \in Sessions /\ session[Q(r)] \in SessionObject
  BY <1>1, MessageFacts
<1>3. /\ MessageFits(request[r], session[Q(r)]) /\ session[Q(r)].name \in Names
      /\ session[Q(r)] # None /\ drawn \in Nat
  BY <1>1, MessageFacts DEF IInv, TypeOK
<1>4. UNCHANGED <<record, vault, login, status, drawn, floor, replaced, forwards, file, saving>>
  BY DEF Answered
<1>5. PICK q : q = IF request[r].oauth
                   THEN [request[r] EXCEPT !.logins = @ \cup {request[r].cred.token[1]}]
                   ELSE request[r]
  OBVIOUS
<1>6. /\ q \in Message /\ q.session = Q(r) /\ q.oauth = request[r].oauth
      /\ q.stage = request[r].stage /\ q.epoch = request[r].epoch
      /\ request[r].oauth => q.logins = request[r].logins \cup {request[r].cred.token[1]}
  <2>1. CASE request[r].oauth
    <3>1. request[r].cred.token \in Token
      BY <1>1, <1>3, <2>1 DEF MessageFits, SentFits
    <3>2. request[r].cred.token[1] \in Nat
      BY <3>1 DEF Token
    <3>3. q = [request[r] EXCEPT !.logins = @ \cup {request[r].cred.token[1]}]
      BY <1>5, <2>1
    <3> QED  BY <1>2, <3>2, <3>3 DEF Message, Q
  <2>2. CASE ~request[r].oauth
    BY <1>2, <1>5, <2>2 DEF Q
  <2> QED  BY <2>1, <2>2
<1>7. request[r].stage \in {"initialize", "initialized", "message"}
  BY <1>1, <1>3 DEF MessageFits
<1>a. session[Q(r)].epoch \in Nat /\ q.epoch \in Nat
  BY <1>2, <1>6 DEF SessionObject, Message
<1>b. ASSUME request[r].stage \in {"initialize", "initialized"}, ~session[Q(r)].retired,
             q.oauth, q.epoch = session[Q(r)].epoch, record[session[Q(r)].name] # None
      PROVE  q.logins = {record[session[Q(r)].name].login}
  BY <1>1, <1>3, <1>6, <1>b DEF MessageFits, OwnInit
<1>8. CASE request[r].stage = "initialize"
  <2> DEFINE m == Post(q, "initialized")
  <2>1. request' = [request EXCEPT ![r] = m] /\ UNCHANGED <<session, flight>>
    BY <1>5, <1>6, <1>8 DEF Answered
  <2>2. /\ m \in Message /\ m.session = Q(r) /\ m.pc \in {"token", "headers"}
        /\ m.pc = "token" => m.oauth
        /\ m.pc = "headers" => ~m.oauth
        /\ m.oauth = q.oauth /\ m.stage = "initialized" /\ m.epoch = q.epoch
        /\ m.logins = q.logins /\ m.generation = 0
    BY <1>6, PostIs
  <2> HIDE DEF m
  <2>3. MessageFits(m, session[m.session])
    <3>1. RefreshFits(m, session[m.session]) /\ SentFits(m, session[m.session])
      BY <2>2 DEF RefreshFits, SentFits
    <3>2. ~session[Q(r)].retired => OwnInit(m, session[m.session])
      BY <1>8, <1>b, <2>2 DEF OwnInit
    <3> QED  BY <1>3, <1>6, <2>2, <3>1, <3>2 DEF MessageFits
  <2> QED  BY <1>4, <2>1, <2>2, <2>3, StaySame, SameVault, MessageFrame DEF Holding
<1>9. CASE request[r].stage = "initialized"
  <2> DEFINE m == [Post(q, "message") EXCEPT !.epoch = 0, !.logins = {}]
             conn == [epoch |-> q.epoch, logins |-> q.logins]
  <2>1. /\ request' = [request EXCEPT ![r] = m] /\ flight' = flight
        /\ session' = [session EXCEPT ![Q(r)].holder = None, ![Q(r)].conn = conn]
    BY <1>5, <1>6, <1>9 DEF Answered
  <2>2. /\ m \in Message /\ m.session = Q(r) /\ m.pc \in {"token", "headers"}
        /\ m.pc = "token" => m.oauth
        /\ m.pc = "headers" => ~m.oauth
        /\ m.oauth = q.oauth /\ m.stage = "message" /\ m.epoch = 0 /\ m.generation = 0
    <3> DEFINE p == Post(q, "message")
    <3>1. /\ p \in Message /\ p.session = Q(r) /\ p.pc \in {"token", "headers"}
          /\ p.pc = "token" => p.oauth
          /\ p.pc = "headers" => ~p.oauth
          /\ p.oauth = q.oauth /\ p.stage = "message" /\ p.generation = 0
      BY <1>6, PostIs
    <3> HIDE DEF p
    <3> QED  BY <3>1 DEF Message, p
  <2>3. conn \in Connection
    BY <1>6 DEF Message, Connection
  <2> HIDE DEF m
  <2>4. MessageFits(m, session[m.session])
    <3>1. RefreshFits(m, session[m.session]) /\ SentFits(m, session[m.session])
          /\ OwnInit(m, session[m.session])
      BY <2>2 DEF RefreshFits, SentFits, OwnInit
    <3> QED  BY <1>3, <1>6, <1>a, <2>2, <3>1 DEF MessageFits
  <2>5. ~session[Q(r)].retired => ConnFits(session[Q(r)], conn)
    <3>1. SUFFICES ASSUME ~session[Q(r)].retired  PROVE ConnFits(session[Q(r)], conn)
      OBVIOUS
    <3>2. q.epoch <= session[Q(r)].epoch
          /\ q.oauth = forwards[session[Q(r)].name].config.oauth
      BY <1>3, <1>6, <3>1 DEF MessageFits
    <3>3. OwnConn(session[Q(r)], conn)
      BY <1>9, <1>b, <3>1, <3>2 DEF OwnConn
    <3> QED  BY <3>2, <3>3 DEF ConnFits
  <2> DEFINE y == [session[Q(r)] EXCEPT !.holder = None, !.conn = conn]
  <2>6. y \in SessionObject
    BY <1>2, <2>3 DEF SessionObject
  <2>7. session' = [session EXCEPT ![Q(r)] = y]
    BY <1>2, <2>1 DEF IInv, TypeOK
  <2>8. session' \in [Sessions -> SessionObject \cup {None}]
    BY <2>6, <2>7 DEF IInv, TypeOK
  <2>9. Alike(session[Q(r)], y)
    <3>1. y # None
      BY <2>6, RecordAssumption
    <3>2. y.conn = conn
      BY <1>2 DEF SessionObject
    <3> QED  BY <1>2, <1>3, <2>5, <3>1, <3>2 DEF Alike, SessionObject
  <2> HIDE DEF y
  <2>10. \A s \in Sessions : Alike(session[s], session'[s])
    BY <1>2, <2>7, <2>9 DEF IInv, TypeOK, Alike
  <2>11. flight' \in [Sessions -> Requests \cup Logins \cup {None}]
    BY <2>1 DEF IInv, TypeOK
  <2> QED  BY <1>4, <2>1, <2>2, <2>4, <2>8, <2>10, <2>11, SameVault, MessageFrame DEF Holding
<1>10. CASE request[r].stage = "message"
  BY <1>4, <1>5, <1>6, <1>10, SameVault, ReleasedKept DEF Answered
<1> QED  BY <1>7, <1>8, <1>9, <1>10

LEMMA UnauthorizedKept ==
  ASSUME IInv, NEW r \in Requests, Unauthorized(r)
  PROVE  IInv'
<1> USE DEF forwardVars, oauthVars
<1>1. request[r] # Idle /\ request[r].pc = "sent" /\ request[r].oauth
  BY DEF Unauthorized, Idle
<1>2. request[r] \in Message /\ Q(r) \in Sessions /\ MessageFits(request[r], session[Q(r)])
  BY <1>1, MessageFacts
<1> DEFINE m == [request[r] EXCEPT !.pc = "token", !.rejected = request[r].cred.token, !.cred = None]
<1>3. request' = [request EXCEPT ![r] = m] /\ UNCHANGED <<flight, session>>
  BY <1>1 DEF Unauthorized
<1>4. request[r].cred.token \in Token
  BY <1>1, <1>2 DEF MessageFits, SentFits
<1>5. /\ m \in Message /\ m.session = Q(r) /\ m.pc = "token" /\ m.oauth = request[r].oauth
      /\ m.stage = request[r].stage /\ m.epoch = request[r].epoch
      /\ m.generation = request[r].generation /\ m.logins = request[r].logins
  BY <1>2, <1>4 DEF Message, Q
<1> HIDE DEF m
<1>6. MessageFits(m, session[m.session])
  BY <1>1, <1>2, <1>5 DEF MessageFits, RefreshFits, SentFits, OwnInit
<1>7. UNCHANGED <<record, vault, login, status, drawn, floor, replaced, forwards, file, saving>>
  BY DEF Unauthorized
<1> QED  BY <1>3, <1>5, <1>6, <1>7, StaySame, SameVault, MessageFrame DEF Holding

LEMMA ArriveKept ==
  ASSUME IInv, NEW r \in Requests, NEW n \in Names, NEW guest, NEW call, Arrive(r, n, guest, call)
  PROVE  IInv'
<1> USE DEF forwardVars, oauthVars
<1> DEFINE c == forwards[n].config
           m == [pc |-> "lock", session |-> forwards[n].session, oauth |-> c.oauth,
                 cline |-> c.cline, stage |-> None, epoch |-> 0, generation |-> 0,
                 rejected |-> None, rec |-> None, cred |-> None, logins |-> {}]
<1>1. request' = [request EXCEPT ![r] = m] /\ UNCHANGED <<flight, session>>
  BY DEF Arrive
<1>2. forwards[n] \in Forward /\ session[forwards[n].session] # None
      /\ session[forwards[n].session].name = n
  BY DEF IInv, TypeOK, ForwardsOK, Arrive
<1>3. /\ m \in Message /\ m.session = forwards[n].session /\ m.oauth = c.oauth
      /\ m.pc = "lock" /\ m.epoch = 0 /\ m.generation = 0 /\ m.logins = {}
      /\ m.stage = None
  BY <1>2 DEF Message, Forward, Configs
<1>4. session[m.session] \in SessionObject
  BY <1>2, <1>3 DEF IInv, TypeOK, Message
<1> HIDE DEF m
<1>5. MessageFits(m, session[m.session])
  <2>1. session[m.session].epoch \in Nat /\ drawn \in Nat
    BY <1>4 DEF SessionObject, IInv, TypeOK
  <2>2. OwnInit(m, session[m.session])
    BY <1>3 DEF OwnInit
  <2> QED  BY <1>2, <1>3, <2>1, <2>2 DEF MessageFits, RefreshFits, SentFits
<1>6. UNCHANGED <<record, vault, login, status, drawn, floor, replaced, forwards, file, saving>>
  BY DEF Arrive
<1> QED  BY <1>1, <1>3, <1>5, <1>6, StaySame, SameVault, MessageFrame DEF Holding

\* A step of login l: it becomes k, others may be dropped, and the session is
\* left as it is.
LEMMA LoginFrame ==
  ASSUME IInv, NEW l \in Logins, login[l] # NoLogin, NEW k \in Login \cup {NoLogin},
         login' \in [Logins -> Login \cup {NoLogin}], login'[l] = k,
         \A j \in Logins : j # l => login'[j] \in {login[j], NoLogin},
         k # NoLogin => /\ LoginFits(k, session[k.session]) /\ k.generation = login[l].generation
                        /\ k.pc = "exchange" => flight'[k.session] = l,
         status' \in [Names -> Status \cup {None}],
         \A n \in Names : status'[n] = status[n] \/ StatusFits(n, status'[n]),
         flight' \in [Sessions -> Requests \cup Logins \cup {None}],
         \A s \in Sessions : flight'[s] = flight[s] \/ flight[s] \in {None, l},
         VaultFits,
         UNCHANGED <<session, record, request, drawn, floor, replaced, forwards, file, saving>>
  PROVE  IInv'
<1> USE DEF IInv
<1>1. TypeOK'
  BY DEF TypeOK, VaultFits
<1>2. RecordsOK'
  <2>1. ASSUME NEW n \in Names  PROVE RecordFits(n, vault[n])'
    <3>1. PICK rec : rec = vault'[n]
      OBVIOUS
    <3>2. RecordFits(n, rec)
      BY <3>1 DEF RecordsOK, VaultFits
    <3> QED  BY <3>1, <3>2 DEF RecordFits, Refreshable, Newest
  <2> QED  BY <2>1 DEF RecordsOK, RecordFits, Refreshable, Newest
<1>3. ForwardsOK' /\ SavingOK'
  BY DEF ForwardsOK, SavingOK
<1>4. SessionsOK'
  BY DEF SessionsOK, SessionFits, ConnFits, OwnConn
<1>5. MessagesOK'
  <2>1. SUFFICES ASSUME NEW r \in Requests, request[r] # Idle
                 PROVE  /\ MessageFits(request[r], session[request[r].session])'
                        /\ (request[r].pc \in Holding => flight[request[r].session] = r)'
    BY DEF MessagesOK
  <2>2. MessageFits(request[r], session[Q(r)]) /\ Q(r) \in Sessions
        /\ (request[r].pc \in Holding => flight[Q(r)] = r)
    BY <2>1, MessageFacts
  <2>3. MessageFits(request[r], session[request[r].session])'
    BY <2>2 DEF MessageFits, RefreshFits, SentFits, OwnInit, Refreshable, Newest, Q
  <2>4. request[r].pc \in Holding => flight'[Q(r)] = r
    BY <2>2, OauthAssumption
  <2> QED  BY <2>3, <2>4 DEF Q
<1>6. LoginsOK'
  <2>1. SUFFICES ASSUME NEW j \in Logins, login'[j] # NoLogin
                 PROVE  /\ LoginFits(login[j], session[login[j].session])'
                        /\ (login[j].pc = "exchange" => flight[login[j].session] = j)'
                        /\ \A i \in Logins :
                             i # j /\ login'[i] # NoLogin /\ login'[i].generation = login'[j].generation
                               => login'[j].generation = 0
    BY DEF LoginsOK
  <2>2. \A i \in Logins : login'[i] # NoLogin =>
          login[i] # NoLogin /\ login'[i].generation = login[i].generation
    OBVIOUS
  <2>3. \A i \in Logins :
          i # j /\ login'[i] # NoLogin /\ login'[i].generation = login'[j].generation
            => login'[j].generation = 0
    BY <2>1, <2>2 DEF LoginsOK
  <2>4. PICK c : c = login'[j]
    OBVIOUS
  <2>5. LoginFits(c, session[c.session]) /\ (c.pc = "exchange" => flight'[c.session] = j)
    <3>1. CASE j = l
      BY <2>1, <2>4, <3>1
    <3>2. CASE j # l
      <4>1. c = login[j] /\ c.session \in Sessions
        BY <2>1, <2>4, <3>2 DEF TypeOK, Login
      <4> QED  BY <2>1, <2>4, <3>2, <4>1, OauthAssumption DEF LoginsOK
    <3> QED  BY <3>1, <3>2
  <2>6. LoginFits(login[j], session[login[j].session])'
    BY <2>4, <2>5 DEF LoginFits
  <2> QED  BY <2>3, <2>4, <2>5, <2>6
<1>7. StatusOK'
  <2>1. SUFFICES ASSUME NEW n \in Names, status'[n] # None
                 PROVE  StatusFits(n, status[n])'
    BY DEF StatusOK
  <2>2. PICK v : v = status'[n]
    OBVIOUS
  <2>3. StatusFits(n, v)
    BY <2>1, <2>2 DEF StatusOK
  <2> QED  BY <2>2, <2>3 DEF StatusFits
<1> QED  BY <1>1, <1>2, <1>3, <1>4, <1>5, <1>6, <1>7

LEMMA LoginFacts ==
  ASSUME IInv, NEW l \in Logins, login[l] # NoLogin
  PROVE  /\ login[l] \in Login /\ login[l].session \in Sessions /\ login[l].generation \in Nat
         /\ session[login[l].session] \in SessionObject /\ session[login[l].session] # None
         /\ NameOf(l) \in Names
         /\ LoginFits(login[l], session[login[l].session])
         /\ SessionFits(login[l].session, session[login[l].session])
<1>1. login[l] \in Login
  BY DEF IInv, TypeOK
<1>2. login[l].session \in Sessions /\ login[l].generation \in Nat
  BY <1>1 DEF Login
<1>3. LoginFits(login[l], session[login[l].session])
  BY DEF IInv, LoginsOK
<1>4. session[login[l].session] # None /\ session[login[l].session] \in SessionObject
  BY <1>2, <1>3 DEF IInv, TypeOK, LoginFits
<1> QED  BY <1>1, <1>2, <1>3, <1>4 DEF IInv, SessionsOK, SessionObject, NameOf

LEMMA StatusSet ==
  ASSUME IInv, NEW l \in Logins, login[l] # NoLogin, login[l].pc # "begin",
         NEW state \in {"waiting", "failed", "connected"},
         state = "connected" => login[l].pc = "connected" /\ Current(l),
         NEW v, v = [generation |-> login[l].generation, state |-> state]
  PROVE  v \in Status /\ StatusFits(NameOf(l), v)
<1>1. v \in Status
  BY LoginFacts DEF Status
<1>2. 0 < v.generation /\ v.generation <= drawn
  BY LoginFacts DEF LoginFits
<1>3. state = "connected" => record[NameOf(l)] # None /\ record[NameOf(l)].login = v.generation
  BY LoginFacts DEF LoginFits, Current, Check, NameOf
<1> QED  BY <1>1, <1>2, <1>3 DEF StatusFits

LEMMA SetStatusFits ==
  ASSUME IInv, NEW l \in Logins, login[l] # NoLogin, login[l].pc # "begin",
         NEW state \in {"waiting", "failed", "connected"},
         state = "connected" => login[l].pc = "connected", SetStatus(l, state)
  PROVE  /\ status' \in [Names -> Status \cup {None}]
         /\ \A n \in Names : status'[n] = status[n] \/ StatusFits(n, status'[n])
<1>1. status \in [Names -> Status \cup {None}]
  BY DEF IInv, TypeOK
<1>2. CASE Current(l)
  <2>1. PICK v : v = [generation |-> login[l].generation, state |-> state]
    OBVIOUS
  <2>2. v \in Status /\ StatusFits(NameOf(l), v)
    BY <1>2, <2>1, StatusSet
  <2>3. status' = [status EXCEPT ![NameOf(l)] = v]
    BY <1>2, <2>1 DEF SetStatus
  <2> QED  BY <1>1, <2>2, <2>3
<1>3. CASE ~Current(l)
  BY <1>1, <1>3 DEF SetStatus
<1> QED  BY <1>2, <1>3

LEMMA PcMoves ==
  ASSUME IInv, NEW l \in Logins, login[l] # NoLogin, NEW pc \in Pending \cup {"failed"},
         pc \in Pending => login[l].pc \in Pending, login[l].pc # "begin"
  PROVE  LET k == [login[l] EXCEPT !.pc = pc]
         IN /\ k \in Login /\ k.session = login[l].session /\ k.generation = login[l].generation
            /\ k.pc = pc /\ LoginFits(k, session[k.session])
<1> DEFINE k == [login[l] EXCEPT !.pc = pc]
<1>1. login[l] \in Login /\ LoginFits(login[l], session[login[l].session])
  BY LoginFacts
<1>2. k \in Login /\ k.session = login[l].session /\ k.generation = login[l].generation /\ k.pc = pc
  BY <1>1 DEF Login
<1>3. pc # "connected" /\ pc # "begin"
  BY DEF Pending
<1> HIDE DEF k
<1>4. LoginFits(k, session[k.session])
  BY <1>1, <1>2, <1>3 DEF LoginFits
<1> QED  BY <1>2, <1>4 DEF k

LEMMA RegisteredKept ==
  ASSUME IInv, NEW l \in Logins, NEW ok \in BOOLEAN, Registered(l, ok), UNCHANGED forwardVars
  PROVE  IInv'
<1> USE DEF forwardVars
<1>1. login[l] # NoLogin /\ login[l].pc = "discover" /\ login[l].pc \in Pending
  BY DEF Registered, NoLogin, Pending
<1>2. /\ status' \in [Names -> Status \cup {None}]
      /\ \A n \in Names : status'[n] = status[n] \/ StatusFits(n, status'[n])
  BY <1>1, SetStatusFits DEF Registered
<1>3. login \in [Logins -> Login \cup {NoLogin}]
  BY DEF IInv, TypeOK
<1>4. UNCHANGED <<session, flight, record, vault, request, drawn, floor, replaced, forwards, file, saving>>
  BY DEF Registered
<1>a. flight' \in [Sessions -> Requests \cup Logins \cup {None}]
  BY <1>4 DEF IInv, TypeOK
<1>5. CASE ok
  <2> DEFINE k == [login[l] EXCEPT !.pc = "pending"]
  <2>1. k \in Login /\ k.generation = login[l].generation /\ k.pc = "pending"
        /\ LoginFits(k, session[k.session])
    BY <1>1, PcMoves DEF Pending
  <2>2. login' = [j \in Logins |->
               IF j = l THEN k
               ELSE IF login[j].pc = "pending" /\ NameOf(j) = NameOf(l) THEN NoLogin
               ELSE login[j]]
    BY <1>5 DEF Registered
  <2> HIDE DEF k
  <2>3. login' \in [Logins -> Login \cup {NoLogin}]
    BY <1>3, <2>1, <2>2
  <2>4. login'[l] = k /\ \A j \in Logins : j # l => login'[j] \in {login[j], NoLogin}
    BY <2>2
  <2> QED  BY <1>1, <1>2, <1>4, <1>a, <2>1, <2>3, <2>4, SameVault, LoginFrame
<1>6. CASE ~ok
  <2>1. login' = [login EXCEPT ![l] = NoLogin]
    BY <1>6 DEF Registered, Gone
  <2> QED  BY <1>1, <1>2, <1>3, <1>4, <1>a, <2>1, SameVault, LoginFrame
<1> QED  BY <1>5, <1>6

LEMMA ExpiredKept ==
  ASSUME IInv, NEW l \in Logins, Expired(l), UNCHANGED forwardVars
  PROVE  IInv'
<1> USE DEF forwardVars
<1>1. login[l] # NoLogin /\ login[l].pc = "pending"
  BY DEF Expired, NoLogin
<1>2. /\ status' \in [Names -> Status \cup {None}]
      /\ \A n \in Names : status'[n] = status[n] \/ StatusFits(n, status'[n])
  <2>1. PICK v : v = [generation |-> login[l].generation, state |-> "failed"]
    OBVIOUS
  <2>2. v \in Status /\ StatusFits(NameOf(l), v)
    BY <1>1, <2>1, StatusSet
  <2>3. status' = [status EXCEPT ![NameOf(l)] = v]
    BY <2>1 DEF Expired
  <2> QED  BY <2>2, <2>3 DEF IInv, TypeOK
<1>3. login' = [login EXCEPT ![l] = NoLogin] /\ login \in [Logins -> Login \cup {NoLogin}]
  BY DEF Expired, Gone, IInv, TypeOK
<1>4. UNCHANGED <<session, flight, record, vault, request, drawn, floor, replaced, forwards, file, saving>>
  BY DEF Expired
<1>5. flight' \in [Sessions -> Requests \cup Logins \cup {None}]
  BY <1>4 DEF IInv, TypeOK
<1> QED  BY <1>1, <1>2, <1>3, <1>4, <1>5, SameVault, LoginFrame

LEMMA CallbackKept ==
  ASSUME IInv, NEW l \in Logins, Callback(l), UNCHANGED forwardVars
  PROVE  IInv'
<1> USE DEF forwardVars
<1>1. login[l] # NoLogin /\ login[l].pc = "pending"
  BY DEF Callback, NoLogin
<1> DEFINE k == [login[l] EXCEPT !.pc = "finish"]
<1>2. k \in Login /\ k.generation = login[l].generation /\ k.pc = "finish"
      /\ LoginFits(k, session[k.session])
  BY <1>1, PcMoves DEF Pending
<1>3. login' = [login EXCEPT ![l] = k] /\ login \in [Logins -> Login \cup {NoLogin}]
  BY DEF Callback, At, IInv, TypeOK
<1> HIDE DEF k
<1>4. UNCHANGED <<session, flight, record, vault, status, request, drawn, floor, replaced, forwards, file, saving>>
  BY DEF Callback
<1>5. flight' \in [Sessions -> Requests \cup Logins \cup {None}]
      /\ status' \in [Names -> Status \cup {None}]
  BY <1>4 DEF IInv, TypeOK
<1> QED  BY <1>1, <1>2, <1>3, <1>4, <1>5, SameVault, LoginFrame

LEMMA FinishLockKept ==
  ASSUME IInv, NEW l \in Logins, NEW granted \in BOOLEAN, FinishLock(l, granted), UNCHANGED forwardVars
  PROVE  IInv'
<1> USE DEF forwardVars
<1>1. login[l] # NoLogin /\ login[l].pc = "finish" /\ login[l].session \in Sessions
  BY LoginFacts DEF FinishLock, NoLogin
<1>2. UNCHANGED <<session, record, vault, status, request, drawn, floor, replaced, forwards, file, saving>>
  BY DEF FinishLock
<1>3. status' \in [Names -> Status \cup {None}] /\ login \in [Logins -> Login \cup {NoLogin}]
      /\ flight \in [Sessions -> Requests \cup Logins \cup {None}]
  BY <1>2 DEF IInv, TypeOK
<1>4. CASE granted /\ Current(l)
  <2> DEFINE k == [login[l] EXCEPT !.pc = "exchange"]
  <2>1. k \in Login /\ k.generation = login[l].generation /\ k.session = login[l].session
        /\ LoginFits(k, session[k.session])
    BY <1>1, PcMoves DEF Pending
  <2>2. login' = [login EXCEPT ![l] = k] /\ flight' = [flight EXCEPT ![login[l].session] = l]
    BY <1>4 DEF FinishLock, At
  <2>3. \A s \in Sessions : flight'[s] = flight[s] \/ flight[s] \in {None, l}
    BY <1>1, <1>3, <2>2 DEF FinishLock
  <2> HIDE DEF k
  <2> QED  BY <1>1, <1>2, <1>3, <2>1, <2>2, <2>3, SameVault, LoginFrame
<1>5. CASE ~(granted /\ Current(l))
  <2> DEFINE k == [login[l] EXCEPT !.pc = "failed"]
  <2>1. k \in Login /\ k.generation = login[l].generation /\ k.pc = "failed"
        /\ LoginFits(k, session[k.session])
    BY <1>1, PcMoves DEF Pending
  <2>2. login' = [login EXCEPT ![l] = k] /\ flight' = flight
    BY <1>5 DEF FinishLock, At
  <2> HIDE DEF k
  <2> QED  BY <1>1, <1>2, <1>3, <2>1, <2>2, SameVault, LoginFrame
<1> QED  BY <1>4, <1>5

LEMMA ReportKept ==
  ASSUME IInv, NEW l \in Logins, Report(l), UNCHANGED forwardVars
  PROVE  IInv'
<1> USE DEF forwardVars
<1>1. login[l] # NoLogin /\ login[l].pc \in {"connected", "failed"}
  BY DEF Report, NoLogin
<1>2. /\ status' \in [Names -> Status \cup {None}]
      /\ \A n \in Names : status'[n] = status[n] \/ StatusFits(n, status'[n])
  BY <1>1, SetStatusFits DEF Report
<1>3. login' = [login EXCEPT ![l] = NoLogin] /\ login \in [Logins -> Login \cup {NoLogin}]
  BY DEF Report, Gone, IInv, TypeOK
<1>4. UNCHANGED <<session, flight, record, vault, request, drawn, floor, replaced, forwards, file, saving>>
  BY DEF Report
<1>5. flight' \in [Sessions -> Requests \cup Logins \cup {None}]
  BY <1>4 DEF IInv, TypeOK
<1> QED  BY <1>1, <1>2, <1>3, <1>4, <1>5, SameVault, LoginFrame

LEMMA LoginDroppedKept ==
  ASSUME IInv, NEW l \in Logins, LoginDropped(l), UNCHANGED forwardVars
  PROVE  IInv'
<1> USE DEF forwardVars
<1>1. login[l] # NoLogin
  BY DEF LoginDropped, NoLogin
<1>2. login' = [login EXCEPT ![l] = NoLogin] /\ login \in [Logins -> Login \cup {NoLogin}]
  BY DEF LoginDropped, Gone, IInv, TypeOK
<1>3. UNCHANGED <<session, record, vault, status, request, drawn, floor, replaced, forwards, file, saving>>
  BY DEF LoginDropped
<1>4. flight' \in [Sessions -> Requests \cup Logins \cup {None}]
      /\ \A s \in Sessions : flight'[s] = flight[s] \/ flight[s] \in {None, l}
  BY DEF LoginDropped, IInv, TypeOK
<1>5. status' \in [Names -> Status \cup {None}]
  BY <1>3 DEF IInv, TypeOK
<1> QED  BY <1>1, <1>2, <1>3, <1>4, <1>5, SameVault, LoginFrame

-----------------------------------------------------------------------------
(* The steps that change what is stored *)

\* The record a refresh would store follows the one in place.
Follows(s, n, old, new, rotated) ==
  /\ old \in TokenRecord /\ n \in Names /\ record[n] = old
  /\ new \in TokenRecord /\ new.login = old.login /\ new.uses = old.uses + 1 /\ new.url = old.url
  /\ rotated => new.refresh = old.uses + 1
  /\ ~rotated => new.refresh = old.refresh
  /\ old.refresh # None /\ Newest(n, old.login, old.refresh)
  /\ old.refresh \in Nat /\ old.refresh <= old.uses /\ old.login <= drawn
  /\ RecordFits(n, new)
  /\ forwards[n] # None /\ forwards[n].session = s

LEMMA RefreshFacts ==
  ASSUME IInv, NEW r \in Requests, request[r].pc = "refresh",
         NEW old, old = request[r].rec, NEW n, n = session[Q(r)].name,
         NEW rotated \in BOOLEAN, NEW new,
         new = [old EXCEPT !.uses = old.uses + 1, !.refresh = IF rotated THEN old.uses + 1 ELSE @],
         MayStore(Q(r), request[r].generation)
  PROVE  Follows(Q(r), n, old, new, rotated)
<1>1. request[r] # Idle
  BY DEF Idle
<1>2. old \in TokenRecord /\ old.refresh # None /\ old.refresh \in Nat /\ record[n] = old
  BY <1>1, MessageFacts DEF MessageFits, RefreshFits, Message, MayStore, Check, TokenRecord
<1>3. n \in Names /\ RecordFits(n, old)
  BY <1>1, <1>2, MessageFacts DEF IInv, RecordsOK
<1>4. new \in TokenRecord /\ new.login = old.login /\ new.uses = old.uses + 1 /\ new.url = old.url
      /\ new.refresh = IF rotated THEN old.uses + 1 ELSE old.refresh
  <2>1. PICK v : v = IF rotated THEN old.uses + 1 ELSE old.refresh
    OBVIOUS
  <2>2. PICK u : u = old.uses + 1
    OBVIOUS
  <2>3. u \in Nat /\ v \in Nat
    BY <1>2, <2>1, <2>2 DEF TokenRecord
  <2>4. new = [old EXCEPT !.uses = u, !.refresh = v]
    BY <2>1, <2>2
  <2>5. new \in TokenRecord
    BY <1>2, <2>3, <2>4 DEF TokenRecord
  <2>6. new.login = old.login /\ new.uses = u /\ new.url = old.url /\ new.refresh = v
    BY <1>2, <2>4 DEF TokenRecord
  <2> QED  BY <2>1, <2>2, <2>5, <2>6
<1>5. old \in TokenRecord => old.uses \in Nat /\ old.login \in Nat
  BY DEF TokenRecord
<1>6. old # None
  BY <1>2, RecordAssumption
<1>7. old.refresh <= old.uses /\ old.login <= drawn /\ floor[n] <= old.login
      /\ Newest(n, old.login, old.refresh)
  BY <1>2, <1>3, <1>6 DEF RecordFits, Refreshable
<1>8. Newest(n, new.login, new.refresh)
  <2>1. SUFFICES ASSUME NEW t \in replaced, t[1] = n, t[2] = old.login  PROVE t[3] < new.refresh
    BY <1>4 DEF Newest
  <2>2. t[3] < old.refresh /\ t[3] \in Nat
    BY <1>7, <2>1 DEF Newest, IInv, TypeOK
  <2> QED  BY <1>2, <1>4, <1>5, <1>7, <2>2
<1>9. new.refresh <= new.uses
  BY <1>2, <1>4, <1>5, <1>7
<1>10. RecordFits(n, new)
  BY <1>4, <1>7, <1>8, <1>9 DEF RecordFits, Refreshable
<1>11. forwards[n] # None /\ forwards[n].session = Q(r)
  BY <1>1, MessageFacts DEF SessionFits, MayStore, Check
<1> QED  BY <1>2, <1>3, <1>4, <1>7, <1>10, <1>11 DEF Follows

LEMMA RefreshedKept ==
  ASSUME IInv, NEW r \in Requests, NEW rotated \in BOOLEAN, NEW ok \in BOOLEAN,
         Refreshed(r, rotated, ok), UNCHANGED forwardVars
  PROVE  IInv'
<1> USE DEF forwardVars
<1>1. PICK old : old = request[r].rec
  OBVIOUS
<1>2. PICK n : n = session[Q(r)].name
  OBVIOUS
<1>3. PICK new : new = [old EXCEPT !.uses = old.uses + 1, !.refresh = IF rotated THEN old.uses + 1 ELSE @]
  OBVIOUS
<1>4. request[r].pc = "refresh" /\ request[r] # Idle
  BY DEF Refreshed, Idle
<1>5. Store(Q(r), request[r].generation, new, ok)
  BY <1>1, <1>3 DEF Refreshed
<1>6. request[r] \in Message /\ Q(r) \in Sessions /\ session[Q(r)] \in SessionObject /\ n \in Names
      /\ MessageFits(request[r], session[Q(r)]) /\ flight[Q(r)] = r
  BY <1>2, <1>4, MessageFacts DEF Holding
<1>7. CASE ~ok
  <2>1. Released(r) /\ UNCHANGED <<login, status, drawn, floor, replaced, forwards, file, saving>>
    BY <1>7 DEF Refreshed
  <2>2. CASE MayStore(Q(r), request[r].generation)
    <3>1. record' = record /\ vault' \in {vault, [vault EXCEPT ![n] = new]}
      BY <1>2, <1>5, <1>7, <2>2 DEF Store, SetSecret
    <3>2. Follows(Q(r), n, old, new, rotated)
      BY <1>1, <1>2, <1>3, <1>4, <2>2, RefreshFacts
    <3>3. VaultFits
      BY <1>6, <3>1, <3>2 DEF Follows, VaultFits, IInv, TypeOK
    <3> QED  BY <2>1, <3>1, <3>3, ReleasedKept
  <2>3. CASE ~MayStore(Q(r), request[r].generation)
    BY <1>5, <2>1, <2>3, SameVault, ReleasedKept DEF Store
  <2> QED  BY <2>2, <2>3
<1>8. CASE ok
  <2>1. MayStore(Q(r), request[r].generation)
    BY <1>5, <1>8 DEF Store
  <2>2. record' = [record EXCEPT ![n] = new] /\ vault' = [vault EXCEPT ![n] = new]
    BY <1>2, <1>5, <1>8, <2>1 DEF Store, SetSecret
  <2>3. /\ old \in TokenRecord /\ n \in Names /\ record[n] = old
        /\ new \in TokenRecord /\ new.login = old.login /\ new.uses = old.uses + 1 /\ new.url = old.url
        /\ rotated => new.refresh = old.uses + 1
        /\ ~rotated => new.refresh = old.refresh
        /\ old.refresh # None /\ Newest(n, old.login, old.refresh)
        /\ old.refresh \in Nat /\ old.refresh <= old.uses /\ old.login <= drawn
        /\ RecordFits(n, new)
        /\ forwards[n] # None /\ forwards[n].session = Q(r)
    <3>1. Follows(Q(r), n, old, new, rotated)
      BY <1>1, <1>2, <1>3, <1>4, <2>1, RefreshFacts
    <3> QED  BY <3>1 DEF Follows
  <2>4. old # None /\ new # None
    BY <2>3, RecordAssumption
  <2> DEFINE m == [request[r] EXCEPT !.pc = "sent", !.generation = 0, !.rec = None,
                      !.cred = [home |-> new.url, token |-> Tokens(new)]]
  <2>5. /\ request' = [request EXCEPT ![r] = m] /\ flight' = [flight EXCEPT ![Q(r)] = None]
        /\ replaced' = (IF rotated THEN replaced \cup {Spent(r)} ELSE replaced)
        /\ UNCHANGED <<session, login, status, drawn, floor, forwards, file, saving>>
    BY <1>1, <1>3, <1>8 DEF Refreshed
  <2>6. Spent(r) = <<n, old.login, old.refresh>>
    BY <1>1, <1>2 DEF Spent
  <2>7. \A t \in replaced' : t \in replaced \/ (rotated /\ t = <<n, old.login, old.refresh>>)
    BY <2>5, <2>6
  <2>8. old.uses \in Nat /\ old.login \in Nat /\ new.uses \in Nat
    BY <2>3 DEF TokenRecord
  <2>9. replaced' \in SUBSET (Names \X Nat \X Nat) /\ \A t \in replaced' : t[2] <= drawn
    BY <1>6, <2>3, <2>5, <2>6, <2>8 DEF IInv, TypeOK, RecordsOK
  <2>10. [home |-> new.url, token |-> Tokens(new)] \in Cred
    BY <2>3 DEF TokenRecord, Cred, Token, Tokens
  <2>11. /\ m \in Message /\ m.session = Q(r) /\ m.pc = "sent" /\ m.generation = 0
         /\ m.cred = [home |-> new.url, token |-> Tokens(new)]
         /\ m.oauth = request[r].oauth /\ m.stage = request[r].stage /\ m.epoch = request[r].epoch
         /\ m.logins = request[r].logins
    BY <1>6, <2>10 DEF Message, Q
  <2> HIDE DEF m
  <2>12. m.cred.token \in Token /\ m.cred.token[1] = record[n].login
    BY <2>3, <2>11 DEF TokenRecord, Token, Tokens
  <2>13. MessageFits(m, session[m.session])
    <3>1. SentFits(m, session[m.session])
      BY <1>1, <1>4, <1>6, <2>3, <2>10, <2>11, <2>12 DEF SentFits, MessageFits, RefreshFits
    <3>2. RefreshFits(m, session[m.session])
      BY <2>11 DEF RefreshFits
    <3>3. ~session[Q(r)].retired => OwnInit(m, session[Q(r)])
      BY <1>2, <1>6, <2>11, <2>12 DEF MessageFits, OwnInit
    <3>4. drawn \in Nat
      BY DEF IInv, TypeOK
    <3> QED  BY <1>4, <1>6, <2>11, <3>1, <3>2, <3>3, <3>4 DEF MessageFits
  <2>14. record'[n] = new /\ \A i \in Names : i # n => record'[i] = record[i] /\ vault'[i] = vault[i]
    BY <1>6, <2>2 DEF IInv, TypeOK
  <2>15. \A i \in Names : record[i] # None <=> record'[i] # None
    BY <2>3, <2>4, <2>14
  <2>16. \A i \in Names : record[i] # None => record'[i].login = record[i].login
    BY <2>3, <2>14
  <2>a. drawn \in Nat /\ drawn' = drawn
    BY <2>5 DEF IInv, TypeOK
  <2>17. TypeOK'
    BY <1>6, <2>2, <2>3, <2>5, <2>9, <2>11 DEF IInv, TypeOK
  <2>18. RecordsOK'
    <3>1. ASSUME NEW i \in Names, i # n  PROVE RecordFits(i, record[i])' /\ RecordFits(i, vault[i])'
      <4>1. PICK rec : rec = record[i]
        OBVIOUS
      <4>2. PICK old2 : old2 = vault[i]
        OBVIOUS
      <4>3. RecordFits(i, rec) /\ RecordFits(i, old2)
        BY <4>1, <4>2 DEF IInv, RecordsOK
      <4>4. rec \in TokenRecord \cup {None} /\ old2 \in TokenRecord \cup {None}
        BY <4>1, <4>2 DEF IInv, TypeOK
      <4>5. record'[i] = rec /\ vault'[i] = old2 /\ floor'[i] = floor[i]
        BY <2>5, <2>14, <3>1, <4>1, <4>2
      <4>6. \A t \in replaced' : t \in replaced \/ t[1] # i
        BY <2>7, <3>1
      <4> QED  BY <2>a, <4>3, <4>4, <4>5, <4>6, RecordKept
    <3>2. RecordFits(n, record[n])' /\ RecordFits(n, vault[n])'
      <4>1. ASSUME NEW t \in replaced', t[1] = n, t[2] = new.login  PROVE t[3] < new.refresh
        <5>1. CASE t \in replaced
          <6>1. t[3] < old.refresh /\ t[3] \in Nat
            BY <2>3, <4>1, <5>1 DEF Newest, IInv, TypeOK
          <6>2. CASE rotated
            BY <2>3, <2>8, <6>1, <6>2
          <6>3. CASE ~rotated
            BY <2>3, <6>1, <6>3
          <6> QED  BY <6>2, <6>3
        <5>2. CASE rotated /\ t = <<n, old.login, old.refresh>>
          BY <2>3, <2>8, <5>2
        <5> QED  BY <2>7, <5>1, <5>2
      <4>2. record'[n] = new /\ vault'[n] = new /\ floor'[n] = floor[n]
        BY <1>6, <2>2, <2>5 DEF IInv, TypeOK
      <4> QED  BY <2>3, <2>4, <2>a, <4>1, <4>2 DEF RecordFits, Refreshable, Newest
    <3>3. \A i \in Names : floor'[i] <= drawn' + 1
      BY <2>5 DEF IInv, RecordsOK
    <3>4. \A t \in replaced' : t[2] <= drawn'
      BY <2>9, <2>a
    <3> QED  BY <3>1, <3>2, <3>3, <3>4 DEF RecordsOK
  <2>19. ForwardsOK' /\ SavingOK'
    BY <2>5 DEF IInv, ForwardsOK, SavingOK
  <2>20. SessionsOK'
    <3>1. SUFFICES ASSUME NEW s \in Sessions, session[s] # None  PROVE SessionFits(s, session[s])'
      BY <2>5 DEF SessionsOK
    <3>2. PICK x : x = session[s]
      OBVIOUS
    <3>3. x \in SessionObject /\ SessionFits(s, x) /\ x.name \in Names
      BY <3>1, <3>2 DEF IInv, TypeOK, SessionsOK, SessionObject
    <3> QED  BY <2>5, <2>15, <2>16, <2>a, <3>2, <3>3, SessionKept DEF SessionFits, SessionObject
  <2>21. MessagesOK'
    <3>1. SUFFICES ASSUME NEW k \in Requests, request'[k] # Idle
                   PROVE  /\ MessageFits(request[k], session[request[k].session])'
                          /\ (request[k].pc \in Holding => flight[request[k].session] = k)'
      BY DEF MessagesOK
    <3>2. PICK q : q = request'[k]
      OBVIOUS
    <3>3. PICK x : x = session[q.session]
      OBVIOUS
    <3>4. q \in Message /\ q.session \in Sessions
      BY <2>17, <3>1, <3>2 DEF TypeOK, Message
    <3>5. MessageFits(q, x)
      BY <2>5, <2>13, <3>1, <3>2, <3>3 DEF IInv, TypeOK, MessagesOK
    <3>6. x # None /\ x \in SessionObject /\ session'[q.session] = x /\ x.name \in Names
      BY <2>5, <3>3, <3>4, <3>5 DEF IInv, TypeOK, MessageFits, SessionObject
    <3>7. k # r => q = request[k] /\ (q.pc \in Holding => flight[q.session] = k /\ q.session # Q(r))
      BY <1>6, <2>5, <3>1, <3>2 DEF IInv, TypeOK, MessagesOK
    <3>8. q.pc = "refresh" /\ ~x.retired => x.name # n
      <4>1. SUFFICES ASSUME q.pc = "refresh", ~x.retired, x.name = n  PROVE FALSE
        OBVIOUS
      <4>2. k # r
        BY <2>5, <2>11, <3>2, <4>1 DEF IInv, TypeOK
      <4>3. forwards[n].session = q.session
        BY <3>3, <3>4, <3>6, <4>1 DEF IInv, SessionsOK, SessionFits
      <4> QED  BY <2>3, <3>7, <4>1, <4>2, <4>3 DEF Holding
    <3>9. MessageFits(request[k], session[request[k].session])'
      <4>1. x.epoch \in Nat
        BY <3>6 DEF SessionObject
      <4>2. q.pc = "refresh" /\ ~x.retired =>
              /\ \A t \in replaced' : t \in replaced \/ t[1] # x.name
              /\ record'[x.name] = record[x.name]
        BY <2>7, <2>14, <3>6, <3>8
      <4>3. record'[x.name] # None => record[x.name] # None /\ record'[x.name].login = record[x.name].login
        BY <2>15, <2>16, <3>6
      <4> QED  BY <2>5, <2>a, <3>2, <3>3, <3>4, <3>5, <3>6, <4>1, <4>2, <4>3, MessageKept
    <3>10. q.pc \in Holding => flight'[q.session] = k
      <4>1. CASE k = r
        BY <2>5, <2>11, <3>2, <4>1 DEF IInv, TypeOK, Holding
      <4>2. CASE k # r
        BY <2>5, <3>4, <3>7, <4>2 DEF IInv, TypeOK
      <4> QED  BY <4>1, <4>2
    <3> QED  BY <3>2, <3>9, <3>10
  <2>22. LoginsOK'
    <3>1. SUFFICES ASSUME NEW l \in Logins, login[l] # NoLogin
                   PROVE  /\ LoginFits(login[l], session[login[l].session])'
                          /\ (login[l].pc = "exchange" => flight[login[l].session] = l)'
      BY <2>5 DEF IInv, LoginsOK
    <3>2. PICK k : k = login[l]
      OBVIOUS
    <3>3. PICK x : x = session[k.session]
      OBVIOUS
    <3>4. k \in Login /\ k.session \in Sessions /\ x \in SessionObject /\ LoginFits(k, x)
          /\ x.name \in Names
      BY <3>1, <3>2, <3>3, LoginFacts DEF NameOf
    <3>5. LoginFits(login[l], session[login[l].session])'
      <4>1. k.pc \in Pending =>
              /\ \A i \in Names : record'[i] # None => record'[i].login # k.generation
              /\ \A t \in replaced' : t[2] # k.generation
        <5>1. SUFFICES ASSUME k.pc \in Pending
                       PROVE  /\ \A i \in Names : record'[i] # None => record'[i].login # k.generation
                              /\ \A t \in replaced' : t[2] # k.generation
          OBVIOUS
        <5>2. /\ \A i \in Names : record[i] # None => record[i].login # k.generation
              /\ \A t \in replaced : t[2] # k.generation
          BY <3>4, <5>1 DEF LoginFits
        <5>3. old.login # k.generation
          BY <1>6, <2>3, <2>4, <5>2
        <5> QED  BY <2>7, <2>15, <2>16, <5>2, <5>3
      <4>2. k.pc = "connected" /\ record[x.name] # None =>
              record'[x.name] # None /\ record'[x.name].login = record[x.name].login
        BY <2>15, <2>16, <3>4
      <4> QED  BY <2>5, <2>a, <3>2, <3>3, <3>4, <4>1, <4>2, LoginKept
    <3>6. k.pc = "exchange" => flight'[k.session] = l
      <4>1. k.pc = "exchange" => flight[k.session] = l
        BY <3>1, <3>2 DEF IInv, LoginsOK
      <4> QED  BY <1>6, <2>5, <3>4, <4>1, OauthAssumption DEF IInv, TypeOK
    <3> QED  BY <2>5, <3>2, <3>5, <3>6
  <2>23. StatusOK'
    <3>1. SUFFICES ASSUME NEW i \in Names, status[i] # None  PROVE StatusFits(i, status[i])'
      BY <2>5 DEF StatusOK
    <3>2. PICK v : v = status[i]
      OBVIOUS
    <3>3. v \in Status /\ StatusFits(i, v)
      BY <3>1, <3>2 DEF IInv, TypeOK, StatusOK
    <3> QED  BY <2>5, <2>15, <2>16, <2>a, <3>2, <3>3, StatusKept
  <2> QED  BY <2>17, <2>18, <2>19, <2>20, <2>21, <2>22, <2>23 DEF IInv
<1> QED  BY <1>7, <1>8

LEMMA BeginKept ==
  ASSUME IInv, NEW l \in Logins, Begin(l), UNCHANGED forwardVars
  PROVE  IInv'
<1> USE DEF forwardVars
<1>1. login[l] # NoLogin /\ login[l].pc = "begin"
  BY DEF Begin, NoLogin
<1>2. PICK s : s = login[l].session
  OBVIOUS
<1>3. PICK x : x = session[s]
  OBVIOUS
<1>4. /\ login[l] \in Login /\ s \in Sessions /\ x \in SessionObject /\ x # None /\ x.name \in Names
      /\ SessionFits(s, x)
  BY <1>1, <1>2, <1>3, LoginFacts DEF NameOf
<1>5. UNCHANGED <<flight, record, vault, status, request, floor, replaced, forwards, file, saving>>
  BY DEF Begin
<1>6. CASE x.retired
  <2>1. login' = [login EXCEPT ![l] = NoLogin] /\ session' = session /\ drawn' = drawn
    BY <1>2, <1>3, <1>6 DEF Begin, Gone
  <2>2. /\ login \in [Logins -> Login \cup {NoLogin}] /\ status' \in [Names -> Status \cup {None}]
        /\ flight' \in [Sessions -> Requests \cup Logins \cup {None}]
    BY <1>5 DEF IInv, TypeOK
  <2> QED  BY <1>1, <1>5, <2>1, <2>2, SameVault, LoginFrame
<1>7. CASE ~x.retired
  <2> DEFINE y == [x EXCEPT !.generation = drawn + 1]
             c == [login[l] EXCEPT !.pc = "discover", !.generation = drawn + 1]
  <2>1. /\ session' = [session EXCEPT ![s] = y] /\ login' = [login EXCEPT ![l] = c]
        /\ drawn' = drawn + 1
    BY <1>2, <1>3, <1>7 DEF Begin, Draw
  <2>2. drawn \in Nat /\ drawn' \in Nat /\ drawn <= drawn'
    BY <2>1 DEF IInv, TypeOK
  <2>3. /\ y \in SessionObject /\ y.name = x.name /\ y.url = x.url /\ y.retired = x.retired
        /\ y.epoch = x.epoch /\ y.conn = x.conn /\ y.generation = drawn + 1
    BY <1>4, <2>2 DEF SessionObject
  <2>4. c \in Login /\ c.pc = "discover" /\ c.generation = drawn + 1 /\ c.session = s
    <3>1. PICK g : g = drawn + 1
      OBVIOUS
    <3>2. g \in Nat /\ c = [login[l] EXCEPT !.pc = "discover", !.generation = g]
      BY <2>2, <3>1
    <3> HIDE DEF c
    <3> QED  BY <1>2, <1>4, <3>1, <3>2 DEF Login, Pending
  <2> HIDE DEF y, c
  <2>5. TypeOK'
    BY <1>4, <1>5, <2>1, <2>2, <2>3, <2>4 DEF IInv, TypeOK
  <2>6. /\ session'[s] = y /\ \A i \in Sessions : i # s => session'[i] = session[i]
        /\ login'[l] = c /\ \A j \in Logins : j # l => login'[j] = login[j]
    BY <1>4, <2>1 DEF IInv, TypeOK
  <2>7. x.epoch \in Nat /\ x.generation \in Nat /\ y # None
    BY <1>4, <2>3, RecordAssumption DEF SessionObject
  <2>8. RecordsOK'
    <3>1. ASSUME NEW n \in Names  PROVE RecordFits(n, record[n])' /\ RecordFits(n, vault[n])'
      <4>1. PICK rec : rec = record[n]
        OBVIOUS
      <4>2. PICK old : old = vault[n]
        OBVIOUS
      <4>3. RecordFits(n, rec) /\ RecordFits(n, old)
            /\ rec \in TokenRecord \cup {None} /\ old \in TokenRecord \cup {None}
        BY <4>1, <4>2 DEF IInv, RecordsOK, TypeOK
      <4> QED  BY <1>5, <2>2, <4>1, <4>2, <4>3, RecordKept
    <3>2. \A n \in Names : floor'[n] <= drawn' + 1
      BY <1>5, <2>1, <2>2 DEF IInv, TypeOK, RecordsOK
    <3>3. \A t \in replaced' : t[2] <= drawn'
      BY <1>5, <2>1, <2>2 DEF IInv, TypeOK, RecordsOK
    <3> QED  BY <3>1, <3>2, <3>3 DEF RecordsOK
  <2>9. ForwardsOK' /\ SavingOK'
    BY <1>3, <1>5, <2>3, <2>6, <2>7 DEF IInv, ForwardsOK, SavingOK, TypeOK, Forward
  <2>10. SessionsOK'
    <3>1. SUFFICES ASSUME NEW i \in Sessions, session'[i] # None  PROVE SessionFits(i, session[i])'
      BY DEF SessionsOK
    <3>2. PICK a : a = session[i]
      OBVIOUS
    <3>3. PICK b : b = session'[i]
      OBVIOUS
    <3>4. CASE i = s
      <4>1. floor[x.name] <= drawn + 1 /\ x.epoch <= drawn
        BY <1>4 DEF IInv, RecordsOK, SessionFits
      <4>2. ~x.retired => ConnFits(x, y.conn) /\ forwards'[x.name] # None /\ forwards'[x.name].session = s
        BY <1>4, <1>5, <2>3 DEF SessionFits
      <4> QED  BY <1>4, <1>5, <1>7, <2>1, <2>2, <2>3, <2>6, <2>7, <3>4, <4>1, <4>2, SessionKept
    <3>5. CASE i # s
      <4>1. a \in SessionObject /\ SessionFits(i, a) /\ session'[i] = a /\ a.name \in Names
        BY <2>6, <3>1, <3>2, <3>5 DEF IInv, TypeOK, SessionsOK, SessionObject
      <4>2. a.generation \in Nat /\ a.epoch \in Nat
        BY <4>1 DEF SessionObject
      <4> QED  BY <1>5, <2>2, <4>1, <4>2, SessionKept DEF SessionFits
    <3> QED  BY <3>4, <3>5
  <2>11. MessagesOK'
    <3>1. SUFFICES ASSUME NEW k \in Requests, request[k] # Idle
                   PROVE  /\ MessageFits(request[k], session[request[k].session])'
                          /\ (request[k].pc \in Holding => flight[request[k].session] = k)'
      BY <1>5 DEF MessagesOK
    <3>2. PICK m : m = request[k]
      OBVIOUS
    <3>3. PICK a : a = session[m.session]
      OBVIOUS
    <3>4. PICK b : b = session'[m.session]
      OBVIOUS
    <3>5. m \in Message /\ m.session \in Sessions /\ a \in SessionObject /\ MessageFits(m, a)
          /\ a.name \in Names /\ (m.pc \in Holding => flight[m.session] = k)
      BY <3>1, <3>2, <3>3, MessageFacts DEF Q
    <3>6. m.generation \in Nat /\ m.generation <= drawn /\ a.epoch \in Nat
      BY <3>5 DEF Message, MessageFits, SessionObject
    <3>7. b \in SessionObject /\ b.name = a.name /\ b.url = a.url /\ b.retired = a.retired
          /\ b.epoch = a.epoch /\ (b.generation = m.generation => b = a)
      BY <1>3, <2>2, <2>3, <2>6, <3>3, <3>4, <3>5, <3>6
    <3>8. MessageFits(request[k], session[request[k].session])'
      BY <1>5, <2>2, <3>2, <3>4, <3>5, <3>6, <3>7, MessageKept
    <3> QED  BY <1>5, <3>2, <3>5, <3>8
  <2>12. LoginsOK'
    <3>1. \A j \in Logins : login[j] # NoLogin => login[j].generation <= drawn
                                                 /\ login[j].generation \in Nat
      BY LoginFacts DEF LoginFits
    <3>2. LoginFits(login[l], session[login[l].session])'
      <4>1. x.epoch < drawn + 1
        BY <1>4, <2>2, <2>7 DEF SessionFits
      <4>2. \A n \in Names : record[n] # None => record[n].login # drawn + 1
        <5>1. ASSUME NEW n \in Names, record[n] # None  PROVE record[n].login # drawn + 1
          <6>1. record[n] \in TokenRecord /\ record[n].login <= drawn
            BY <5>1 DEF IInv, TypeOK, RecordsOK, RecordFits
          <6> QED  BY <2>2, <6>1 DEF TokenRecord
        <5> QED  BY <5>1
      <4>3. \A t \in replaced : t[2] # drawn + 1
        BY <2>2 DEF IInv, TypeOK, RecordsOK
      <4> QED  BY <1>5, <2>1, <2>2, <2>3, <2>4, <2>6, <2>7, <4>1, <4>2, <4>3 DEF LoginFits, Pending
    <3>3. ASSUME NEW j \in Logins, j # l, login[j] # NoLogin
          PROVE  LoginFits(login[j], session[login[j].session])'
      <4>1. PICK k : k = login[j]
        OBVIOUS
      <4>2. PICK a : a = session[k.session]
        OBVIOUS
      <4>3. PICK b : b = session'[k.session]
        OBVIOUS
      <4>4. k \in Login /\ k.session \in Sessions /\ a \in SessionObject /\ LoginFits(k, a)
            /\ a.name \in Names /\ k.generation \in Nat /\ k.generation <= drawn
        BY <3>1, <3>3, <4>1, <4>2, LoginFacts DEF NameOf
      <4>5. b \in SessionObject /\ b.name = a.name /\ b.retired = a.retired
            /\ (b.generation = k.generation => b = a)
        BY <1>3, <2>2, <2>3, <2>6, <4>2, <4>3, <4>4
      <4>6. login'[j] = k
        BY <2>6, <3>3, <4>1
      <4>7. k.pc \in Pending =>
              /\ \A n \in Names : record'[n] # None => record'[n].login # k.generation
              /\ \A t \in replaced' : t[2] # k.generation
        BY <1>5, <4>4 DEF LoginFits
      <4> QED  BY <1>5, <2>2, <4>3, <4>4, <4>5, <4>6, <4>7, LoginKept
    <3>4. \A j \in Logins : login'[j] # NoLogin /\ login'[j].pc = "exchange" =>
            flight'[login'[j].session] = j
      BY <1>5, <2>4, <2>6 DEF IInv, LoginsOK
    <3>5. \A i, j \in Logins :
            i # j /\ login'[i] # NoLogin /\ login'[j] # NoLogin
            /\ login'[i].generation = login'[j].generation => login'[j].generation = 0
      BY <2>2, <2>4, <2>6, <3>1 DEF IInv, LoginsOK
    <3> QED  BY <2>6, <3>2, <3>3, <3>4, <3>5 DEF LoginsOK
  <2>13. StatusOK'
    <3>1. SUFFICES ASSUME NEW n \in Names, status[n] # None  PROVE StatusFits(n, status[n])'
      BY <1>5 DEF StatusOK
    <3>2. PICK v : v = status[n]
      OBVIOUS
    <3>3. v \in Status /\ StatusFits(n, v) /\ v.generation \in Nat /\ v.generation <= drawn
      BY <3>1, <3>2 DEF IInv, TypeOK, StatusOK, StatusFits, Status
    <3>4. forwards[n] # None /\ session'[forwards[n].session].generation = v.generation =>
            session[forwards[n].session].generation = v.generation
      BY <2>2, <2>3, <2>6, <3>3 DEF IInv, TypeOK, Forward
    <3> QED  BY <1>5, <2>2, <3>2, <3>3, <3>4, StatusKept
  <2> QED  BY <2>5, <2>8, <2>9, <2>10, <2>11, <2>12, <2>13 DEF IInv
<1> QED  BY <1>6, <1>7

LEMMA DisconnectKept ==
  ASSUME IInv, NEW n \in Names, NEW ok \in BOOLEAN, OauthDisconnect(n, ok)
  PROVE  IInv'
<1>1. PICK s : s = forwards[n].session
  OBVIOUS
<1>2. PICK x : x = session[s]
  OBVIOUS
<1>3. /\ s \in Sessions /\ x \in SessionObject /\ x # None /\ x.name = n /\ SessionFits(s, x)
      /\ forwards[n] # None /\ ~x.retired
  BY <1>1, <1>2 DEF OauthDisconnect, Disconnect, IInv, TypeOK, ForwardsOK, SessionsOK, Forward
<1>4. UNCHANGED <<flight, login, status, request, replaced, forwards, file, saving>>
  BY DEF OauthDisconnect, Disconnect
<1> DEFINE y == [x EXCEPT !.generation = drawn + 1, !.epoch = drawn + 1]
<1>5. session' = [session EXCEPT ![s] = y] /\ drawn' = drawn + 1
  BY <1>1, <1>2 DEF OauthDisconnect, Disconnect, Cancelled, Draw
<1>6. SetSecret(n, None, ok) /\ floor' = (IF ok THEN [floor EXCEPT ![n] = drawn + 1] ELSE floor)
  BY <1>1, <1>2, <1>3 DEF OauthDisconnect, Disconnect
<1>7. drawn \in Nat /\ drawn' \in Nat /\ drawn <= drawn'
  BY <1>5 DEF IInv, TypeOK
<1>8. /\ y \in SessionObject /\ y.name = n /\ y.url = x.url /\ y.retired = x.retired
      /\ y.epoch = drawn + 1 /\ y.conn = x.conn /\ y.generation = drawn + 1
  <2>1. PICK g : g = drawn + 1
    OBVIOUS
  <2>2. g \in Nat /\ y = [x EXCEPT !.generation = g, !.epoch = g]
    BY <1>7, <2>1
  <2> HIDE DEF y
  <2> QED  BY <1>3, <2>1, <2>2 DEF SessionObject
<1> HIDE DEF y
<1>9. /\ record' \in [Names -> TokenRecord \cup {None}] /\ vault' \in [Names -> TokenRecord \cup {None}]
      /\ floor' \in [Names -> Nat]
      /\ \A i \in Names : i # n => /\ record'[i] = record[i] /\ vault'[i] = vault[i]
                                   /\ floor'[i] = floor[i]
      /\ record'[n] \in {None, record[n]} /\ vault'[n] \in {None, vault[n]}
      /\ \/ floor'[n] = floor[n]
         \/ record'[n] = None /\ vault'[n] = None /\ floor'[n] = drawn + 1
  <2>1. CASE ok
    BY <1>6, <1>7, <2>1 DEF SetSecret, IInv, TypeOK
  <2>2. CASE ~ok
    <3>1. record' = record /\ floor' = floor
      BY <1>6, <2>2 DEF SetSecret
    <3>2. vault' = vault \/ vault' = [vault EXCEPT ![n] = None]
      BY <1>6, <2>2 DEF SetSecret
    <3>3. /\ vault' \in [Names -> TokenRecord \cup {None}] /\ vault'[n] \in {None, vault[n]}
          /\ \A i \in Names : i # n => vault'[i] = vault[i]
      BY <3>2 DEF IInv, TypeOK
    <3>4. record' \in [Names -> TokenRecord \cup {None}] /\ floor' \in [Names -> Nat]
      BY <3>1 DEF IInv, TypeOK
    <3>5. \A i \in Names : record'[i] = record[i] /\ floor'[i] = floor[i]
      BY <3>1
    <3> QED  BY <3>3, <3>4, <3>5
  <2> QED  BY <2>1, <2>2
<1>10. /\ session'[s] = y /\ \A i \in Sessions : i # s => session'[i] = session[i]
  BY <1>3, <1>5 DEF IInv, TypeOK
<1>11. x.epoch \in Nat /\ x.generation \in Nat /\ y # None /\ x.epoch <= drawn
  BY <1>3, <1>8, RecordAssumption DEF SessionObject, SessionFits
<1>12. TypeOK'
  BY <1>3, <1>4, <1>5, <1>7, <1>8, <1>9 DEF IInv, TypeOK
<1>13. RecordsOK'
  <2>1. ASSUME NEW i \in Names  PROVE RecordFits(i, record[i])' /\ RecordFits(i, vault[i])'
    <3>1. RecordFits(i, None)
      BY DEF RecordFits
    <3>2. PICK rec : rec = record'[i]
      OBVIOUS
    <3>3. PICK old : old = vault'[i]
      OBVIOUS
    <3>4. RecordFits(i, rec) /\ RecordFits(i, old)
          /\ rec \in TokenRecord \cup {None} /\ old \in TokenRecord \cup {None}
      BY <1>9, <3>1, <3>2, <3>3 DEF IInv, RecordsOK, TypeOK
    <3>5. CASE floor'[i] = floor[i]
      BY <1>4, <1>7, <3>2, <3>3, <3>4, <3>5, RecordKept
    <3>6. CASE record'[i] = None /\ vault'[i] = None
      BY <3>6 DEF RecordFits
    <3> QED  BY <1>9, <3>5, <3>6
  <2>2. \A i \in Names : floor'[i] <= drawn' + 1
    BY <1>5, <1>7, <1>9 DEF IInv, TypeOK, RecordsOK
  <2>3. \A t \in replaced' : t[2] <= drawn'
    BY <1>4, <1>5, <1>7 DEF IInv, TypeOK, RecordsOK
  <2> QED  BY <2>1, <2>2, <2>3 DEF RecordsOK
<1>14. ForwardsOK' /\ SavingOK'
  BY <1>2, <1>3, <1>4, <1>8, <1>10, <1>11 DEF IInv, ForwardsOK, SavingOK, TypeOK, Forward
<1>15. \A i \in Sessions : session[i] # None /\ i # s /\ ~session[i].retired =>
         session[i].name \in Names /\ session[i].name # n
  <2>1. SUFFICES ASSUME NEW i \in Sessions, session[i] # None, i # s, ~session[i].retired
                 PROVE  session[i].name \in Names /\ session[i].name # n
    OBVIOUS
  <2> QED  BY <1>1, <2>1 DEF IInv, TypeOK, SessionsOK, SessionFits, SessionObject
<1>16. SessionsOK'
  <2>1. SUFFICES ASSUME NEW i \in Sessions, session'[i] # None  PROVE SessionFits(i, session[i])'
    BY DEF SessionsOK
  <2>2. PICK a : a = session[i]
    OBVIOUS
  <2>3. CASE i = s
    <3>1. floor'[n] <= drawn + 1
      BY <1>7, <1>9 DEF IInv, TypeOK, RecordsOK
    <3>2. ConnFits(x, y.conn)
      BY <1>3, <1>8 DEF SessionFits
    <3>3. x.epoch <= drawn + 1 /\ drawn + 1 # x.epoch
      BY <1>7, <1>11
    <3> QED  BY <1>1, <1>3, <1>4, <1>5, <1>7, <1>8, <1>10, <1>11, <2>3, <3>1, <3>2, <3>3, SessionKept
  <2>4. CASE i # s
    <3>1. a \in SessionObject /\ SessionFits(i, a) /\ session'[i] = a /\ a.name \in Names
      BY <1>10, <2>1, <2>2, <2>4 DEF IInv, TypeOK, SessionsOK, SessionObject
    <3>2. a.generation \in Nat /\ a.epoch \in Nat
      BY <3>1 DEF SessionObject
    <3>3. ~a.retired => record'[a.name] = record[a.name] /\ floor'[a.name] = floor[a.name]
      BY <1>9, <1>10, <1>15, <2>1, <2>2, <2>4
    <3> QED  BY <1>4, <1>7, <3>1, <3>2, <3>3, SessionKept DEF SessionFits
  <2> QED  BY <2>3, <2>4
<1>17. MessagesOK'
  <2>1. SUFFICES ASSUME NEW k \in Requests, request[k] # Idle
                 PROVE  /\ MessageFits(request[k], session[request[k].session])'
                        /\ (request[k].pc \in Holding => flight[request[k].session] = k)'
    BY <1>4 DEF MessagesOK
  <2>2. PICK m : m = request[k]
    OBVIOUS
  <2>3. PICK a : a = session[m.session]
    OBVIOUS
  <2>4. PICK b : b = session'[m.session]
    OBVIOUS
  <2>5. m \in Message /\ m.session \in Sessions /\ a \in SessionObject /\ a # None /\ MessageFits(m, a)
        /\ a.name \in Names /\ (m.pc \in Holding => flight[m.session] = k)
    BY <2>1, <2>2, <2>3, MessageFacts DEF Q
  <2>6. m.generation \in Nat /\ m.generation <= drawn /\ a.epoch \in Nat
    BY <2>5 DEF Message, MessageFits, SessionObject
  <2>7. /\ b \in SessionObject /\ b.name = a.name /\ b.url = a.url /\ b.retired = a.retired
        /\ ~b.retired =>
             /\ a.epoch <= b.epoch
             /\ b.epoch = a.epoch \/ b.generation = m.generation =>
                  b = a /\ record'[a.name] = record[a.name]
    <3>1. CASE m.session = s
      <4>1. a = x /\ b = y
        BY <1>2, <1>10, <2>3, <2>4, <3>1
      <4>2. b.epoch # a.epoch /\ b.generation # m.generation /\ a.epoch <= b.epoch
        BY <1>7, <1>8, <1>11, <2>6, <4>1
      <4> QED  BY <1>3, <1>8, <4>1, <4>2
    <3>2. CASE m.session # s
      BY <1>9, <1>10, <1>15, <2>3, <2>4, <2>5, <2>6, <3>2
    <3> QED  BY <3>1, <3>2
  <2>8. MessageFits(request[k], session[request[k].session])'
    BY <1>4, <1>7, <2>2, <2>4, <2>5, <2>6, <2>7, MessageKept
  <2> QED  BY <1>4, <2>2, <2>5, <2>8
<1>18. LoginsOK'
  <2>1. SUFFICES ASSUME NEW j \in Logins, login[j] # NoLogin
                 PROVE  LoginFits(login[j], session[login[j].session])'
    BY <1>4 DEF LoginsOK, IInv
  <2>2. PICK k : k = login[j]
    OBVIOUS
  <2>3. PICK a : a = session[k.session]
    OBVIOUS
  <2>4. PICK b : b = session'[k.session]
    OBVIOUS
  <2>5. k \in Login /\ k.session \in Sessions /\ a \in SessionObject /\ a # None /\ LoginFits(k, a)
        /\ a.name \in Names /\ k.generation \in Nat /\ k.generation <= drawn
    BY <2>1, <2>2, <2>3, LoginFacts DEF NameOf, LoginFits
  <2>6. b \in SessionObject /\ b.name = a.name /\ b.retired = a.retired
        /\ (~b.retired /\ b.generation = k.generation => b = a /\ record'[a.name] = record[a.name])
    <3>1. CASE k.session = s
      <4>1. a = x /\ b = y
        BY <1>2, <1>10, <2>3, <2>4, <3>1
      <4> QED  BY <1>3, <1>7, <1>8, <2>5, <4>1
    <3>2. CASE k.session # s
      BY <1>9, <1>10, <1>15, <2>3, <2>4, <2>5, <3>2
    <3> QED  BY <3>1, <3>2
  <2>7. k.pc \in Pending =>
          /\ \A i \in Names : record'[i] # None => record'[i].login # k.generation
          /\ \A t \in replaced' : t[2] # k.generation
    BY <1>4, <1>9, <2>5 DEF LoginFits
  <2> QED  BY <1>4, <1>7, <2>2, <2>4, <2>5, <2>6, <2>7, LoginKept
<1>19. StatusOK'
  <2>1. SUFFICES ASSUME NEW i \in Names, status[i] # None  PROVE StatusFits(i, status[i])'
    BY <1>4 DEF StatusOK
  <2>2. PICK v : v = status[i]
    OBVIOUS
  <2>3. v \in Status /\ StatusFits(i, v) /\ v.generation \in Nat /\ v.generation <= drawn
    BY <2>1, <2>2 DEF IInv, TypeOK, StatusOK, StatusFits, Status
  <2>4. forwards[i] # None /\ session'[forwards[i].session].generation = v.generation =>
          session[forwards[i].session].generation = v.generation /\ i # n
    BY <1>1, <1>7, <1>8, <1>10, <2>3 DEF IInv, TypeOK, Forward
  <2> QED  BY <1>4, <1>7, <1>9, <2>2, <2>3, <2>4, StatusKept
<1> QED  BY <1>12, <1>13, <1>14, <1>16, <1>17, <1>18, <1>19 DEF IInv

LEMMA ExchangedKept ==
  ASSUME IInv, NEW l \in Logins, NEW answered \in BOOLEAN, NEW refreshable \in BOOLEAN,
         NEW ok \in BOOLEAN, Exchanged(l, answered, refreshable, ok), UNCHANGED forwardVars
  PROVE  IInv'
<1> USE DEF forwardVars
<1>1. login[l] # NoLogin /\ login[l].pc = "exchange" /\ login[l].pc \in Pending
  BY DEF Exchanged, NoLogin, Pending
<1>2. PICK s : s = login[l].session
  OBVIOUS
<1>3. PICK x : x = session[s]
  OBVIOUS
<1>4. PICK g : g = login[l].generation
  OBVIOUS
<1>5. PICK n : n = x.name
  OBVIOUS
<1>6. PICK rec : rec = [login |-> g, uses |-> 0, refresh |-> IF refreshable THEN 0 ELSE None, url |-> x.url]
  OBVIOUS
<1>7. /\ login[l] \in Login /\ s \in Sessions /\ x \in SessionObject /\ x # None /\ n \in Names
      /\ SessionFits(s, x) /\ LoginFits(login[l], x)
  BY <1>1, <1>2, <1>3, <1>5, LoginFacts DEF NameOf
<1>8. /\ g \in Nat /\ 0 < g /\ g <= drawn /\ drawn \in Nat /\ drawn' = drawn
      /\ \A i \in Names : record[i] # None => record[i].login # g
      /\ \A t \in replaced : t[2] # g
      /\ ~x.retired /\ x.generation = g => x.epoch < g
  BY <1>1, <1>4, <1>7 DEF Login, LoginFits, IInv, TypeOK, Pending, Exchanged
<1>9. UNCHANGED <<status, request, replaced, forwards, file, saving>>
  BY DEF Exchanged
<1>10. flight' = [flight EXCEPT ![s] = None] /\ flight[s] = l
  BY <1>1, <1>2, <1>3, <1>4 DEF Exchanged, IInv, LoginsOK
<1>11. /\ flight' \in [Sessions -> Requests \cup Logins \cup {None}]
       /\ \A i \in Sessions : flight'[i] = flight[i] \/ flight[i] \in {None, l}
       /\ \A i \in Sessions : i # s => flight'[i] = flight[i]
  BY <1>7, <1>10 DEF IInv, TypeOK
<1>12. IF answered THEN Store(s, g, rec, ok) ELSE UNCHANGED <<record, vault, faults>>
  BY <1>2, <1>3, <1>4, <1>6 DEF Exchanged
<1>13. MayStore(s, g) => rec \in TokenRecord /\ rec.login = g /\ RecordFits(n, rec)
  <2>1. SUFFICES ASSUME MayStore(s, g)  PROVE rec \in TokenRecord /\ rec.login = g /\ RecordFits(n, rec)
    OBVIOUS
  <2>2. PICK v : v = IF refreshable THEN 0 ELSE None
    OBVIOUS
  <2>3. v \in {0, None} /\ rec = [login |-> g, uses |-> 0, refresh |-> v, url |-> x.url]
    BY <1>6, <2>2
  <2>4. rec \in TokenRecord /\ rec.login = g /\ rec.uses = 0 /\ rec.refresh = v
    BY <1>7, <1>8, <2>3 DEF TokenRecord, SessionObject
  <2>5. floor[n] <= g
    BY <1>3, <1>5, <1>7, <1>8, <2>1 DEF MayStore, Check, SessionFits
  <2>6. Newest(n, g, v)
    BY <1>8 DEF Newest
  <2> QED  BY <1>8, <2>3, <2>4, <2>5, <2>6 DEF RecordFits, Refreshable
<1>14. CASE ~ok
  <2> DEFINE k == [login[l] EXCEPT !.pc = "failed"]
  <2>1. k \in Login /\ k.generation = login[l].generation /\ k.pc = "failed"
        /\ LoginFits(k, session[k.session])
    BY <1>1, PcMoves
  <2>2. login' = [login EXCEPT ![l] = k] /\ login \in [Logins -> Login \cup {NoLogin}]
    BY <1>14 DEF Exchanged, At, IInv, TypeOK
  <2> HIDE DEF k
  <2>3. session' = session
    <3>1. session' = [session EXCEPT ![s].epoch = @]
      BY <1>2, <1>4, <1>14 DEF Exchanged
    <3>2. [x EXCEPT !.epoch = x.epoch] = x
      BY <1>7 DEF SessionObject
    <3> QED  BY <1>3, <1>7, <3>1, <3>2 DEF IInv, TypeOK
  <2>4. record' = record /\ VaultFits
    <3>1. CASE answered /\ MayStore(s, g)
      <4>1. record' = record /\ (vault' = vault \/ vault' = [vault EXCEPT ![n] = rec])
        BY <1>3, <1>5, <1>12, <1>14, <3>1 DEF Store, SetSecret
      <4> QED  BY <1>7, <1>13, <3>1, <4>1 DEF VaultFits, IInv, TypeOK
    <3>2. CASE ~(answered /\ MayStore(s, g))
      BY <1>12, <3>2, SameVault DEF Store
    <3> QED  BY <3>1, <3>2
  <2>5. floor' = floor /\ status' \in [Names -> Status \cup {None}]
    BY <1>9, <1>14 DEF Exchanged, IInv, TypeOK
  <2> QED  BY <1>1, <1>8, <1>9, <1>11, <2>1, <2>2, <2>3, <2>4, <2>5, LoginFrame
<1>15. CASE ok
  <2>1. answered /\ MayStore(s, g)
    BY <1>12, <1>15 DEF Store, Exchanged
  <2>2. ~x.retired /\ x.generation = g /\ forwards[n] # None /\ forwards[n].session = s /\ x.epoch < g
    BY <1>3, <1>5, <1>7, <1>8, <2>1 DEF MayStore, Check, SessionFits
  <2>3. rec \in TokenRecord /\ rec.login = g /\ RecordFits(n, rec) /\ rec # None
    BY <1>13, <2>1, RecordAssumption
  <2>4. record' = [record EXCEPT ![n] = rec] /\ vault' = [vault EXCEPT ![n] = rec]
    BY <1>3, <1>5, <1>12, <1>15, <2>1 DEF Store, SetSecret
  <2> DEFINE y == [x EXCEPT !.epoch = g]
             c == [login[l] EXCEPT !.pc = "connected"]
  <2>5. /\ session' = [session EXCEPT ![s] = y] /\ login' = [login EXCEPT ![l] = c]
        /\ floor' = [floor EXCEPT ![n] = g]
    BY <1>2, <1>3, <1>4, <1>5, <1>15 DEF Exchanged, NewEpoch, At
  <2>6. /\ y \in SessionObject /\ y.name = n /\ y.url = x.url /\ y.retired = x.retired
        /\ y.epoch = g /\ y.conn = x.conn /\ y.generation = g
    BY <1>5, <1>7, <1>8, <2>2 DEF SessionObject
  <2>7. c \in Login /\ c.pc = "connected" /\ c.generation = g /\ c.session = s
    BY <1>2, <1>4, <1>7 DEF Login
  <2> HIDE DEF y, c
  <2>8. y # None /\ x.epoch \in Nat
    BY <1>7, <2>6, RecordAssumption DEF SessionObject
  <2>9. TypeOK'
    BY <1>7, <1>8, <1>9, <1>11, <2>3, <2>4, <2>5, <2>6, <2>7 DEF IInv, TypeOK
  <2>10. /\ session'[s] = y /\ \A i \in Sessions : i # s => session'[i] = session[i]
         /\ login'[l] = c /\ \A j \in Logins : j # l => login'[j] = login[j]
         /\ record'[n] = rec /\ vault'[n] = rec /\ floor'[n] = g
         /\ \A i \in Names : i # n => /\ record'[i] = record[i] /\ vault'[i] = vault[i]
                                      /\ floor'[i] = floor[i]
    BY <1>7, <2>4, <2>5 DEF IInv, TypeOK
  <2>11. RecordsOK'
    <3>1. ASSUME NEW i \in Names, i # n  PROVE RecordFits(i, record[i])' /\ RecordFits(i, vault[i])'
      <4>1. PICK p : p = record[i]
        OBVIOUS
      <4>2. PICK q : q = vault[i]
        OBVIOUS
      <4>3. RecordFits(i, p) /\ RecordFits(i, q)
            /\ p \in TokenRecord \cup {None} /\ q \in TokenRecord \cup {None}
        BY <4>1, <4>2 DEF IInv, RecordsOK, TypeOK
      <4> QED  BY <1>8, <1>9, <2>10, <3>1, <4>1, <4>2, <4>3, RecordKept
    <3>2. RecordFits(n, record[n])' /\ RecordFits(n, vault[n])'
      BY <1>8, <1>9, <2>3, <2>10 DEF RecordFits, Refreshable, Newest
    <3>3. ASSUME NEW i \in Names  PROVE floor'[i] <= drawn' + 1
      <4>1. floor[i] \in Nat /\ floor[i] <= drawn + 1
        BY DEF IInv, RecordsOK, TypeOK
      <4> QED  BY <1>8, <2>10, <4>1
    <3>4. \A t \in replaced' : t[2] <= drawn'
      BY <1>8, <1>9 DEF IInv, RecordsOK
    <3> QED  BY <3>1, <3>2, <3>3, <3>4 DEF RecordsOK
  <2>12. ForwardsOK' /\ SavingOK'
    BY <1>3, <1>5, <1>9, <2>6, <2>8, <2>10 DEF IInv, ForwardsOK, SavingOK, TypeOK, Forward
  <2>13. \A i \in Sessions : session[i] # None /\ i # s /\ ~session[i].retired =>
           session[i].name \in Names /\ session[i].name # n
    <3>1. SUFFICES ASSUME NEW i \in Sessions, session[i] # None, i # s, ~session[i].retired
                   PROVE  session[i].name \in Names /\ session[i].name # n
      OBVIOUS
    <3> QED  BY <2>2, <3>1 DEF IInv, TypeOK, SessionsOK, SessionFits, SessionObject
  <2>14. SessionsOK'
    <3>1. SUFFICES ASSUME NEW i \in Sessions, session'[i] # None  PROVE SessionFits(i, session[i])'
      BY DEF SessionsOK
    <3>2. PICK a : a = session[i]
      OBVIOUS
    <3>3. CASE i = s
      <4>1. ConnFits(x, y.conn)
        BY <1>7, <2>2, <2>6 DEF SessionFits
      <4>2. x.epoch <= g /\ g # x.epoch
        BY <1>8, <2>2, <2>8
      <4> QED  BY <1>5, <1>7, <1>8, <1>9, <2>2, <2>6, <2>10, <3>3, <4>1, <4>2, SessionKept
    <3>4. CASE i # s
      <4>1. a \in SessionObject /\ SessionFits(i, a) /\ session'[i] = a /\ a.name \in Names
        BY <2>10, <3>1, <3>2, <3>4 DEF IInv, TypeOK, SessionsOK, SessionObject
      <4>2. a.generation \in Nat /\ a.epoch \in Nat
        BY <4>1 DEF SessionObject
      <4>3. ~a.retired => record'[a.name] = record[a.name] /\ floor'[a.name] = floor[a.name]
        BY <2>10, <2>13, <3>1, <3>2, <3>4
      <4> QED  BY <1>8, <1>9, <4>1, <4>2, <4>3, SessionKept DEF SessionFits
    <3> QED  BY <3>3, <3>4
  <2>15. MessagesOK'
    <3>1. SUFFICES ASSUME NEW k \in Requests, request[k] # Idle
                   PROVE  /\ MessageFits(request[k], session[request[k].session])'
                          /\ (request[k].pc \in Holding => flight[request[k].session] = k)'
      BY <1>9 DEF MessagesOK
    <3>2. PICK m : m = request[k]
      OBVIOUS
    <3>3. PICK a : a = session[m.session]
      OBVIOUS
    <3>4. PICK b : b = session'[m.session]
      OBVIOUS
    <3>5. m \in Message /\ m.session \in Sessions /\ a \in SessionObject /\ a # None /\ MessageFits(m, a)
          /\ a.name \in Names /\ (m.pc \in Holding => flight[m.session] = k)
      BY <3>1, <3>2, <3>3, MessageFacts DEF Q
    <3>6. m.pc \in Holding => m.session # s /\ flight'[m.session] = k
      BY <1>10, <1>11, <3>5, OauthAssumption
    <3>7. a.epoch \in Nat
      BY <3>5 DEF SessionObject
    <3>8. /\ b \in SessionObject /\ b.name = a.name /\ b.url = a.url /\ b.retired = a.retired
          /\ ~b.retired =>
               /\ a.epoch <= b.epoch
               /\ b.epoch = a.epoch \/ m.pc = "refresh" => b = a /\ record'[a.name] = record[a.name]
      <4>1. CASE m.session = s
        <5>1. a = x /\ b = y /\ m.pc # "refresh"
          BY <1>3, <2>10, <3>3, <3>4, <3>6, <4>1 DEF Holding
        <5> QED  BY <1>5, <1>8, <2>2, <2>6, <2>8, <5>1
      <4>2. CASE m.session # s
        BY <2>10, <2>13, <3>3, <3>4, <3>5, <3>7, <4>2
      <4> QED  BY <4>1, <4>2
    <3>9. MessageFits(request[k], session[request[k].session])'
      BY <1>8, <1>9, <3>2, <3>4, <3>5, <3>7, <3>8, MessageKept
    <3> QED  BY <1>9, <3>2, <3>6, <3>9
  <2>16. LoginsOK'
    <3>1. \A j \in Logins : j # l /\ login[j] # NoLogin => login[j].generation # g
      BY <1>1, <1>4, <1>8 DEF IInv, LoginsOK
    <3>2. LoginFits(login[l], session[login[l].session])'
      BY <1>5, <1>8, <1>9, <2>3, <2>6, <2>7, <2>8, <2>10 DEF LoginFits, Pending
    <3>3. ASSUME NEW j \in Logins, j # l, login[j] # NoLogin
          PROVE  LoginFits(login[j], session[login[j].session])'
      <4>1. PICK k : k = login[j]
        OBVIOUS
      <4>2. PICK a : a = session[k.session]
        OBVIOUS
      <4>3. PICK b : b = session'[k.session]
        OBVIOUS
      <4>4. k \in Login /\ k.session \in Sessions /\ a \in SessionObject /\ a # None /\ LoginFits(k, a)
            /\ a.name \in Names /\ k.generation # g
        BY <3>1, <3>3, <4>1, <4>2, LoginFacts DEF NameOf
      <4>5. b \in SessionObject /\ b.name = a.name /\ b.retired = a.retired
            /\ (~b.retired /\ b.generation = k.generation => b = a /\ record'[a.name] = record[a.name])
        <5>1. CASE k.session = s
          <6>1. a = x /\ b = y
            BY <1>3, <2>10, <4>2, <4>3, <5>1
          <6> QED  BY <1>5, <2>6, <4>4, <6>1
        <5>2. CASE k.session # s
          BY <2>10, <2>13, <4>2, <4>3, <4>4, <5>2
        <5> QED  BY <5>1, <5>2
      <4>6. login'[j] = k
        BY <2>10, <3>3, <4>1
      <4>7. k.pc \in Pending =>
              /\ \A i \in Names : record'[i] # None => record'[i].login # k.generation
              /\ \A t \in replaced' : t[2] # k.generation
        BY <1>9, <2>3, <2>10, <4>4 DEF LoginFits
      <4> QED  BY <1>8, <4>3, <4>4, <4>5, <4>6, <4>7, LoginKept
    <3>4. ASSUME NEW j \in Logins, login'[j] # NoLogin, login'[j].pc = "exchange"
          PROVE  flight'[login'[j].session] = j
      <4>1. j # l /\ login'[j] = login[j]
        BY <2>7, <2>10, <3>4
      <4>2. flight[login[j].session] = j /\ login[j].session \in Sessions
        BY <3>4, <4>1, LoginFacts DEF IInv, LoginsOK
      <4> QED  BY <1>10, <1>11, <4>1, <4>2
    <3>5. \A i, j \in Logins :
            i # j /\ login'[i] # NoLogin /\ login'[j] # NoLogin
            /\ login'[i].generation = login'[j].generation => login'[j].generation = 0
      BY <2>7, <2>10, <3>1 DEF IInv, LoginsOK
    <3> QED  BY <2>10, <3>2, <3>3, <3>4, <3>5 DEF LoginsOK
  <2>17. StatusOK'
    <3>1. SUFFICES ASSUME NEW i \in Names, status[i] # None  PROVE StatusFits(i, status[i])'
      BY <1>9 DEF StatusOK
    <3>2. PICK v : v = status[i]
      OBVIOUS
    <3>3. v \in Status /\ StatusFits(i, v)
      BY <3>1, <3>2 DEF IInv, TypeOK, StatusOK
    <3>4. CASE i = n
      <4>1. session'[forwards'[n].session].generation = g
        BY <1>9, <2>2, <2>6, <2>10
      <4> QED  BY <1>8, <1>9, <2>3, <2>10, <3>2, <3>3, <3>4, <4>1 DEF StatusFits
    <3>5. CASE i # n
      <4>1. forwards[i] # None => session'[forwards[i].session] = session[forwards[i].session]
        BY <1>3, <1>5, <2>10, <3>5 DEF IInv, TypeOK, ForwardsOK, Forward
      <4> QED  BY <1>8, <1>9, <2>10, <3>2, <3>3, <3>5, <4>1, StatusKept
    <3> QED  BY <3>4, <3>5
  <2> QED  BY <2>9, <2>11, <2>12, <2>14, <2>15, <2>16, <2>17 DEF IInv
<1> QED  BY <1>14, <1>15

-----------------------------------------------------------------------------
(* Saves and publications *)

LEMMA QuietKept ==
  ASSUME IInv, UNCHANGED <<oauthVars, request, forwards>>,
         file' \in Contents \cup {Bad}, saving' \in Saving \cup {None}, SavingOK'
  PROVE  IInv'
<1> USE DEF oauthVars
<1>1. TypeOK' /\ RecordsOK' /\ ForwardsOK'
  BY DEF IInv, TypeOK, RecordsOK, ForwardsOK, RecordFits, Refreshable, Newest
<1>2. SessionsOK' /\ StatusOK'
  BY DEF IInv, SessionsOK, SessionFits, ConnFits, OwnConn, StatusOK, StatusFits
<1>3. MessagesOK'
  BY DEF IInv, MessagesOK, MessageFits, RefreshFits, SentFits, OwnInit, Refreshable, Newest
<1>4. LoginsOK'
  BY DEF IInv, LoginsOK, LoginFits
<1> QED  BY <1>1, <1>2, <1>3, <1>4 DEF IInv

LEMMA ConfigsOfIs ==
  ASSUME IInv
  PROVE  ConfigsOf \in Contents
BY DEF ConfigsOf, IInv, TypeOK, Contents, Forward

LEMMA WriteFileKept ==
  ASSUME IInv, NEW new \in Contents, NEW n \in Names \cup {None}, NEW l \in Logins \cup {None},
         WriteFile(new, n, l), l # None => n # None /\ new[n] # None
  PROVE  IInv'
<1>1. PICK v : v = [configs |-> new, name |-> n, login |-> l]
  OBVIOUS
<1>2. v \in Saving /\ v.login = l /\ v.name = n /\ v.configs = new
  BY <1>1 DEF Saving
<1>3. saving' = v /\ file' = new /\ UNCHANGED <<oauthVars, request, forwards>>
  BY <1>1 DEF WriteFile
<1>4. SavingOK'
  BY <1>2, <1>3 DEF SavingOK
<1> QED  BY <1>2, <1>3, <1>4, QuietKept

LEMMA HostKept ==
  ASSUME IInv
  PROVE  /\ \A new \in Files : Save(new) => IInv'
         /\ \A new \in Files \cup {Bad} : EditFile(new) => IInv'
         /\ Reload => IInv'
         /\ \A n \in Names, scope \in Scopes, l \in Logins : OauthStart(n, scope, l) => IInv'
         /\ \A url \in Urls \cup {None} : ClineMoves(url) => IInv'
<1>1. Files \subseteq Contents
  BY ForwardsAssumption DEF Contents
<1>2. file \in Contents \cup {Bad} /\ saving \in Saving \cup {None} /\ SavingOK
  BY DEF IInv, TypeOK
<1>3. \A new \in Files : Save(new) => IInv'
  BY <1>1, WriteFileKept DEF Save
<1>4. \A new \in Files \cup {Bad} : EditFile(new) => IInv'
  BY <1>1, <1>2, QuietKept DEF EditFile, SavingOK
<1>5. Reload => IInv'
  <2>1. SUFFICES ASSUME Reload  PROVE IInv'
    OBVIOUS
  <2>2. PICK v : v = [configs |-> file, name |-> None, login |-> None]
    OBVIOUS
  <2>3. v \in Saving /\ v.login = None
    BY <1>2, <2>1, <2>2 DEF Saving, Reload
  <2>4. saving' = v /\ file' = file /\ UNCHANGED <<oauthVars, request, forwards>>
    BY <2>1, <2>2 DEF Reload
  <2>5. SavingOK'
    BY <2>3, <2>4 DEF SavingOK
  <2> QED  BY <1>2, <2>3, <2>4, <2>5, QuietKept
<1>6. ASSUME NEW n \in Names, NEW scope \in Scopes, NEW l \in Logins, OauthStart(n, scope, l)
      PROVE  IInv'
  <2>1. forwards[n] # None /\ forwards[n] \in Forward
    BY <1>6 DEF OauthStart, IInv, TypeOK
  <2>2. ConfigsOf \in Contents /\ ConfigsOf[n] = forwards[n].config
    BY <2>1, ConfigsOfIs DEF ConfigsOf
  <2> DEFINE c == [ConfigsOf[n] EXCEPT !.oauth = TRUE, !.scope = scope]
             new == [ConfigsOf EXCEPT ![n] = c]
  <2>3. c \in Configs
    <3>1. ConfigsOf[n] \in Configs
      BY <2>1, <2>2 DEF Forward
    <3> QED  BY <3>1 DEF Configs
  <2>4. c # None
    BY <2>3, ForwardsAssumption
  <2>5. WriteFile(new, n, l)
    BY <1>6, <2>2 DEF OauthStart, Contents
  <2> HIDE DEF c
  <2>6. new \in Contents /\ new[n] = c
    BY <2>2, <2>3 DEF Contents
  <2> HIDE DEF new
  <2>7. n # None /\ l # None
    BY OauthAssumption
  <2> QED  BY <2>4, <2>5, <2>6, <2>7, WriteFileKept
<1>7. \A url \in Urls \cup {None} : ClineMoves(url) => IInv'
  BY <1>2, QuietKept DEF ClineMoves, SavingOK
<1> QED  BY <1>3, <1>4, <1>5, <1>6, <1>7

\* A session that a publication does not retire was not of a name that is gone.
LEMMA RetiredIs ==
  ASSUME IInv, NEW gone, \A n \in gone : n \in Names /\ forwards[n] # None,
         NEW s \in Sessions, NEW x, x = session[s], NEW y, y = Retired(s, gone)
  PROVE  /\ x = None => y = None
         /\ x # None =>
              /\ y \in SessionObject /\ y # None
              /\ y.name = x.name /\ y.url = x.url /\ y.epoch = x.epoch /\ (x.retired => y.retired)
              /\ y.generation \in {0, x.generation}
              /\ ~y.retired => y = x /\ x.name \in Names /\ x.name \notin gone
              /\ y.generation # 0 => y = x /\ \A n \in gone : forwards[n].session # s
<1>1. CASE \E n \in gone : forwards[n].session = s
  <2>1. x # None /\ x \in SessionObject
    BY <1>1 DEF IInv, ForwardsOK, TypeOK
  <2>2. y = [x EXCEPT !.retired = TRUE, !.generation = 0]
    BY <1>1 DEF Retired
  <2>a. PICK yes : yes = TRUE
    OBVIOUS
  <2>b. y = [x EXCEPT !.retired = yes, !.generation = 0] /\ yes \in BOOLEAN
    BY <2>2, <2>a
  <2>3. y \in SessionObject
    <3>1. PICK z : z = [x EXCEPT !.generation = 0]
      OBVIOUS
    <3>2. z \in SessionObject
      BY <2>1, <3>1 DEF SessionObject
    <3>3. y = [z EXCEPT !.retired = yes]
      BY <2>1, <2>b, <3>1 DEF SessionObject
    <3>4. yes \in BOOLEAN
      BY <2>a
    <3> QED  BY <3>2, <3>3, <3>4 DEF SessionObject
  <2>4. y.name = x.name /\ y.url = x.url /\ y.epoch = x.epoch /\ y.generation = 0
    BY <2>1, <2>b DEF SessionObject
  <2>5. y.retired = yes
    BY <2>1, <2>b DEF SessionObject
  <2>6. y.retired = TRUE
    BY <2>5, <2>a
  <2> QED  BY <2>1, <2>3, <2>4, <2>6, RecordAssumption
<1>2. CASE ~\E n \in gone : forwards[n].session = s
  <2>1. y = x
    BY <1>2 DEF Retired
  <2>2. x # None => x \in SessionObject /\ x.name \in Names
    BY DEF IInv, TypeOK, SessionObject
  <2>3. x # None /\ ~x.retired => forwards[x.name].session = s
    BY DEF IInv, SessionsOK, SessionFits
  <2> QED  BY <1>2, <2>1, <2>2, <2>3
<1> QED  BY <1>1, <1>2

\* A new session, published under its name.
Fresh(s) ==
  LET y == session'[s]
  IN /\ y \in SessionObject /\ y.generation = 0 /\ y.epoch = 0 /\ y.conn = None
     /\ forwards'[y.name] # None /\ forwards'[y.name].session = s

\* What the two outcomes of a publication, which retires the sessions of the
\* names gone, have in common.
LEMMA PublishFrame ==
  ASSUME IInv, NEW gone, \A n \in gone : n \in Names /\ forwards[n] # None,
         record' = [n \in Names |-> IF n \in gone THEN None ELSE record[n]],
         floor' = [n \in Names |-> IF n \in gone THEN drawn + 1 ELSE floor[n]],
         vault' \in [Names -> TokenRecord \cup {None}],
         \A n \in Names : vault'[n] \in {None, vault[n]} /\ (n \in gone => vault'[n] = None),
         forwards' \in [Names -> Forward \cup {None}],
         session' \in [Sessions -> SessionObject \cup {None}],
         login' \in [Logins -> Login \cup {NoLogin}],
         \A s \in Sessions \ Unused : session'[s] = Retired(s, gone),
         \A s \in Sessions : session'[s] = Retired(s, gone) \/ Fresh(s),
         \A n \in Names : forwards[n] # None /\ n \notin gone =>
           /\ forwards'[n] # None /\ forwards'[n].session = forwards[n].session
           /\ forwards'[n].config.oauth = forwards[n].config.oauth,
         \A n \in Names : forwards'[n] # None =>
           \/ forwards[n] # None /\ forwards'[n].session = forwards[n].session
           \/ Fresh(forwards'[n].session) /\ session'[forwards'[n].session].name = n,
         \A l \in Logins : login'[l] # NoLogin =>
           \/ login'[l] = login[l]
           \/ /\ login'[l].pc = "begin" /\ login'[l].generation = 0
              /\ session'[login'[l].session] # None,
         UNCHANGED <<flight, status, request, drawn, replaced, file>>, saving' = None
  PROVE  IInv'
<1>1. drawn \in Nat /\ drawn' = drawn
  BY DEF IInv, TypeOK
<1>2. \A n \in Names : /\ n \in gone => record'[n] = None /\ vault'[n] = None /\ floor'[n] = drawn + 1
                       /\ n \notin gone => record'[n] = record[n] /\ floor'[n] = floor[n]
  OBVIOUS
<1>3. record' \in [Names -> TokenRecord \cup {None}] /\ floor' \in [Names -> Nat]
  BY <1>1 DEF IInv, TypeOK
<1>4. TypeOK'
  BY <1>1, <1>3 DEF IInv, TypeOK
<1>5. SavingOK'
  BY DEF SavingOK
<1>6. RecordsOK'
  <2>1. ASSUME NEW n \in Names  PROVE RecordFits(n, record[n])' /\ RecordFits(n, vault[n])'
    <3>1. CASE n \in gone
      BY <1>2, <3>1 DEF RecordFits
    <3>2. CASE n \notin gone
      <4>1. PICK p : p = record'[n]
        OBVIOUS
      <4>2. PICK q : q = vault'[n]
        OBVIOUS
      <4>3. RecordFits(n, None)
        BY DEF RecordFits
      <4>4. RecordFits(n, p) /\ RecordFits(n, q)
            /\ p \in TokenRecord \cup {None} /\ q \in TokenRecord \cup {None}
        BY <1>2, <1>3, <3>2, <4>1, <4>2, <4>3 DEF IInv, RecordsOK
      <4> QED  BY <1>1, <1>2, <3>2, <4>1, <4>2, <4>4, RecordKept
    <3> QED  BY <3>1, <3>2
  <2>2. ASSUME NEW n \in Names  PROVE floor'[n] <= drawn' + 1
    <3>1. floor[n] <= drawn + 1
      BY DEF IInv, RecordsOK
    <3> QED  BY <1>1, <1>2, <3>1
  <2>3. \A t \in replaced' : t[2] <= drawn'
    BY DEF IInv, RecordsOK
  <2> QED  BY <2>1, <2>2, <2>3 DEF RecordsOK
<1>7. ASSUME NEW n \in Names, forwards[n] # None
      PROVE  /\ forwards[n].session \in Sessions \ Unused
             /\ session[forwards[n].session] # None /\ session[forwards[n].session].name = n
  BY <1>7 DEF Unused, IInv, TypeOK, Forward, ForwardsOK
<1>8. ForwardsOK'
  <2>1. SUFFICES ASSUME NEW n \in Names, forwards'[n] # None
                 PROVE  /\ session'[forwards'[n].session] # None
                        /\ session'[forwards'[n].session].name = n
    BY DEF ForwardsOK
  <2>2. CASE forwards[n] # None /\ forwards'[n].session = forwards[n].session
    <3>1. PICK s : s = forwards[n].session
      OBVIOUS
    <3>2. PICK y : y = Retired(s, gone)
      OBVIOUS
    <3>3. s \in Sessions \ Unused /\ session[s] # None /\ session[s].name = n
      BY <1>7, <2>2, <3>1
    <3>4. y # None /\ y.name = session[s].name
      BY <3>2, <3>3, RetiredIs
    <3> QED  BY <2>2, <3>1, <3>2, <3>3, <3>4
  <2>3. CASE Fresh(forwards'[n].session) /\ session'[forwards'[n].session].name = n
    BY <2>3, RecordAssumption DEF Fresh
  <2> QED  BY <2>1, <2>2, <2>3
<1>9. SessionsOK'
  <2>1. SUFFICES ASSUME NEW s \in Sessions, session'[s] # None  PROVE SessionFits(s, session[s])'
    BY DEF SessionsOK
  <2>2. PICK y : y = session'[s]
    OBVIOUS
  <2>3. CASE Fresh(s)
    <3>1. SessionFits(s, session[s])' <=>
            /\ y.generation <= drawn' /\ y.epoch <= drawn'
            /\ ~y.retired =>
                 /\ forwards'[y.name] # None /\ forwards'[y.name].session = s
                 /\ y.epoch <= y.generation
                 /\ y.generation = 0 \/ floor'[y.name] <= y.generation
                 /\ ConnFits(session[s], session[s].conn)'
      BY <2>2 DEF SessionFits
    <3>2. y.generation = 0 /\ y.epoch = 0 /\ y.conn = None
          /\ forwards'[y.name] # None /\ forwards'[y.name].session = s
      BY <2>2, <2>3 DEF Fresh
    <3>3. ConnFits(session[s], session[s].conn)'
      BY <2>2, <3>2 DEF ConnFits, OwnConn
    <3> QED  BY <1>1, <3>1, <3>2, <3>3
  <2>4. CASE session'[s] = Retired(s, gone)
    <3>1. PICK x : x = session[s]
      OBVIOUS
    <3>2. /\ x # None
          /\ y \in SessionObject /\ y # None
          /\ y.name = x.name /\ y.url = x.url /\ y.epoch = x.epoch /\ (x.retired => y.retired)
          /\ y.generation \in {0, x.generation}
          /\ ~y.retired => y = x /\ x.name \in Names /\ x.name \notin gone
      BY <2>1, <2>2, <2>4, <3>1, RetiredIs
    <3>3. x \in SessionObject /\ SessionFits(s, x)
      BY <3>1, <3>2 DEF IInv, TypeOK, SessionsOK
    <3>4. x.generation \in Nat /\ x.epoch \in Nat /\ x.generation <= drawn /\ x.epoch <= drawn
      BY <3>3 DEF SessionObject, SessionFits
    <3>5. ~y.retired =>
            /\ ~x.retired /\ ConnFits(x, y.conn)
            /\ forwards[x.name] # None /\ forwards[x.name].session = s
            /\ y.epoch <= y.generation /\ (y.generation = 0 \/ floor'[x.name] <= y.generation)
            /\ record'[x.name] = record[x.name]
      BY <1>2, <3>2, <3>3 DEF SessionFits
    <3>6. ~y.retired =>
            /\ forwards'[x.name] # None /\ forwards'[x.name].session = s
            /\ forwards'[x.name].config.oauth = forwards[x.name].config.oauth
      BY <3>2, <3>5
    <3>7. y.generation <= drawn' /\ y.epoch <= drawn'
      BY <1>1, <3>2, <3>4
    <3> QED  BY <1>1, <2>2, <3>2, <3>3, <3>4, <3>5, <3>6, <3>7, SessionKept
  <2> QED  BY <2>3, <2>4
<1>10. MessagesOK'
  <2>1. SUFFICES ASSUME NEW k \in Requests, request[k] # Idle
                 PROVE  /\ MessageFits(request[k], session[request[k].session])'
                        /\ (request[k].pc \in Holding => flight[request[k].session] = k)'
    BY DEF MessagesOK
  <2>2. PICK m : m = request[k]
    OBVIOUS
  <2>3. PICK x : x = session[m.session]
    OBVIOUS
  <2>4. PICK y : y = session'[m.session]
    OBVIOUS
  <2>5. m \in Message /\ m.session \in Sessions /\ x \in SessionObject /\ x # None /\ MessageFits(m, x)
        /\ SessionFits(m.session, x) /\ (m.pc \in Holding => flight[m.session] = k)
    BY <2>1, <2>2, <2>3, MessageFacts DEF Q
  <2>6. y = Retired(m.session, gone)
    BY <2>1, <2>2, <2>4, <2>5 DEF Unused
  <2>7. /\ y \in SessionObject
        /\ y.name = x.name /\ y.url = x.url /\ y.epoch = x.epoch /\ (x.retired => y.retired)
        /\ ~y.retired => y = x /\ x.name \in Names /\ x.name \notin gone
    BY <2>3, <2>5, <2>6, RetiredIs
  <2>8. ~y.retired =>
          /\ forwards'[x.name].config.oauth = forwards[x.name].config.oauth
          /\ record'[x.name] = record[x.name]
    BY <1>2, <2>5, <2>7 DEF SessionFits
  <2>9. x.epoch \in Nat
    BY <2>5 DEF SessionObject
  <2>10. MessageFits(request[k], session[request[k].session])'
    BY <1>1, <2>2, <2>4, <2>5, <2>7, <2>8, <2>9, MessageKept
  <2> QED  BY <2>2, <2>5, <2>10
<1>11. LoginsOK'
  <2>1. ASSUME NEW j \in Logins, login'[j] # NoLogin, login'[j] = login[j]
        PROVE  LoginFits(login[j], session[login[j].session])'
    <3>1. PICK k : k = login[j]
      OBVIOUS
    <3>2. PICK x : x = session[k.session]
      OBVIOUS
    <3>3. PICK y : y = session'[k.session]
      OBVIOUS
    <3>4. k \in Login /\ k.session \in Sessions /\ x \in SessionObject /\ x # None /\ LoginFits(k, x)
          /\ x.name \in Names
      BY <2>1, <3>1, <3>2, LoginFacts DEF NameOf
    <3>5. y = Retired(k.session, gone)
      BY <2>1, <3>1, <3>3, <3>4 DEF Unused
    <3>6. /\ y \in SessionObject /\ y.name = x.name /\ (x.retired => y.retired)
          /\ ~y.retired => y = x /\ x.name \notin gone
      BY <3>2, <3>4, <3>5, RetiredIs
    <3>7. k.pc \in Pending =>
            /\ \A i \in Names : record'[i] # None => record'[i].login # k.generation
            /\ \A t \in replaced' : t[2] # k.generation
      BY <1>2, <3>4 DEF LoginFits
    <3>8. ~y.retired => record'[x.name] = record[x.name]
      BY <1>2, <3>4, <3>6
    <3> QED  BY <1>1, <2>1, <3>1, <3>3, <3>4, <3>6, <3>7, <3>8, LoginKept
  <2>2. ASSUME NEW j \in Logins, login'[j].pc = "begin", login'[j].generation = 0,
               session'[login'[j].session] # None
        PROVE  LoginFits(login[j], session[login[j].session])'
    BY <1>1, <2>2 DEF LoginFits, Pending
  <2>3. ASSUME NEW j \in Logins, login'[j] # NoLogin, login'[j].pc = "exchange"
        PROVE  flight'[login'[j].session] = j
    <3>1. login'[j] = login[j]
      BY <2>3
    <3> QED  BY <2>3, <3>1 DEF IInv, LoginsOK
  <2>4. ASSUME NEW i \in Logins, NEW j \in Logins, i # j, login'[i] # NoLogin, login'[j] # NoLogin,
               login'[i].generation = login'[j].generation
        PROVE  login'[j].generation = 0
    <3>1. CASE login'[i] = login[i] /\ login'[j] = login[j]
      BY <2>4, <3>1 DEF IInv, LoginsOK
    <3> QED  BY <2>4, <3>1
  <2> QED  BY <2>1, <2>2, <2>3, <2>4 DEF LoginsOK
<1>12. StatusOK'
  <2>1. SUFFICES ASSUME NEW n \in Names, status[n] # None  PROVE StatusFits(n, status[n])'
    BY DEF StatusOK
  <2>2. PICK v : v = status[n]
    OBVIOUS
  <2>3. v \in Status /\ StatusFits(n, v) /\ v.generation \in Nat /\ 0 < v.generation
    BY <2>1, <2>2 DEF IInv, TypeOK, StatusOK, StatusFits, Status
  <2>4. ASSUME forwards'[n] # None, session'[forwards'[n].session].generation = v.generation
        PROVE  /\ forwards[n] # None /\ session[forwards[n].session].generation = v.generation
               /\ record'[n] = record[n]
    <3>1. ~Fresh(forwards'[n].session)
      BY <2>3, <2>4 DEF Fresh
    <3>2. forwards[n] # None /\ forwards'[n].session = forwards[n].session
      BY <2>4, <3>1
    <3>3. PICK s : s = forwards[n].session
      OBVIOUS
    <3>4. PICK y : y = Retired(s, gone)
      OBVIOUS
    <3>5. s \in Sessions \ Unused /\ session[s] # None
      BY <1>7, <3>2, <3>3
    <3>6. session'[s] = y /\ y.generation = v.generation /\ y.generation # 0
      BY <2>3, <2>4, <3>2, <3>3, <3>4, <3>5
    <3>7. y = session[s] /\ \A i \in gone : forwards[i].session # s
      BY <3>4, <3>5, <3>6, RetiredIs
    <3>8. n \notin gone
      BY <3>3, <3>7
    <3> QED  BY <1>2, <3>2, <3>3, <3>6, <3>7, <3>8
  <2> QED  BY <1>1, <2>2, <2>3, <2>4, StatusKept
<1> QED  BY <1>4, <1>5, <1>6, <1>8, <1>9, <1>10, <1>11, <1>12 DEF IInv

LEMMA RetireIs ==
  ASSUME IInv, NEW gone, NEW stuck, Retire(gone, stuck)
  PROVE  /\ record' = [n \in Names |-> IF n \in gone THEN None ELSE record[n]]
         /\ floor' = [n \in Names |-> IF n \in gone THEN drawn + 1 ELSE floor[n]]
         /\ vault' \in [Names -> TokenRecord \cup {None}]
         /\ \A n \in Names : vault'[n] \in {None, vault[n]} /\ (n \in gone => vault'[n] = None)
<1>1. /\ record' = [n \in Names |-> IF n \in gone THEN None ELSE record[n]]
      /\ floor' = [n \in Names |-> IF n \in gone THEN drawn + 1 ELSE floor[n]]
  BY DEF Retire
<1>2. vault \in [Names -> TokenRecord \cup {None}]
  BY DEF IInv, TypeOK
<1>3. CASE vault' = [n \in Names |-> IF n \in gone THEN None ELSE vault[n]]
  BY <1>1, <1>2, <1>3
<1>4. CASE vault' = [n \in Names |-> IF n \in gone \cup stuck THEN None ELSE vault[n]]
  BY <1>1, <1>2, <1>4
<1> QED  BY <1>3, <1>4 DEF Retire

LEMMA PublishFailedKept ==
  ASSUME IInv, Publish(FALSE)
  PROVE  IInv'
<1>1. PICK new : new = saving.configs
  OBVIOUS
<1>2. PICK bad \in Dropped(new), gone \in SUBSET Dropped(new) :
        /\ Retire(gone, {bad})
        /\ session' = [s \in Sessions |-> Retired(s, gone)]
  BY <1>1 DEF Publish
<1>3. \A n \in gone : n \in Names /\ forwards[n] # None
  BY <1>2 DEF Dropped
<1>4. /\ forwards' = forwards /\ saving' = None
      /\ UNCHANGED <<flight, status, request, drawn, replaced, file>>
  BY DEF Publish
<1>5. \A s \in Sessions : session'[s] = Retired(s, gone)
  BY <1>2
<1>6. session' \in [Sessions -> SessionObject \cup {None}]
  <2>1. ASSUME NEW s \in Sessions  PROVE Retired(s, gone) \in SessionObject \cup {None}
    <3>1. PICK y : y = Retired(s, gone)
      OBVIOUS
    <3>2. PICK x : x = session[s]
      OBVIOUS
    <3>3. (x = None => y = None) /\ (x # None => y \in SessionObject)
      BY <1>3, <3>1, <3>2, RetiredIs
    <3> QED  BY <3>1, <3>3
  <2> QED  BY <1>2, <2>1
<1>7. /\ login' \in [Logins -> Login \cup {NoLogin}]
      /\ \A l \in Logins : login'[l] # NoLogin => login'[l] = login[l]
  <2>1. login' = login \/ login' = [login EXCEPT ![saving.login] = NoLogin]
    BY DEF Publish
  <2> QED  BY <2>1 DEF IInv, TypeOK
<1>8. forwards' \in [Names -> Forward \cup {None}]
  BY <1>4 DEF IInv, TypeOK
<1>9. /\ record' = [n \in Names |-> IF n \in gone THEN None ELSE record[n]]
      /\ floor' = [n \in Names |-> IF n \in gone THEN drawn + 1 ELSE floor[n]]
      /\ vault' \in [Names -> TokenRecord \cup {None}]
      /\ \A n \in Names : vault'[n] \in {None, vault[n]} /\ (n \in gone => vault'[n] = None)
  BY <1>2, RetireIs
<1> QED  BY <1>3, <1>4, <1>5, <1>6, <1>7, <1>8, <1>9, PublishFrame

LEMMA NewSessionIs ==
  ASSUME NEW n \in Names, NEW url \in Urls
  PROVE  LET y == NewSession(n, url)
         IN /\ y \in SessionObject /\ y.name = n /\ y.generation = 0 /\ y.epoch = 0 /\ y.conn = None
BY DEF NewSession, SessionObject

LEMMA PublishedKept ==
  ASSUME IInv, Publish(TRUE)
  PROVE  IInv'
<1>1. PICK new : new = saving.configs
  OBVIOUS
<1>2. new \in Contents /\ saving # None /\ saving \in Saving
  BY <1>1 DEF Publish, IInv, TypeOK, Saving
<1>3. PICK gone : gone = Dropped(new)
  OBVIOUS
<1>4. PICK fresh : fresh = CHOOSE f \in OneEach(Added(new), Unused) : TRUE
  OBVIOUS
<1>5. fresh \in OneEach(Added(new), Unused)
  BY <1>1, <1>4 DEF Publish
<1>6. Retire(gone, {}) /\ session' = Renewed(new, fresh) /\ forwards' = Rebuilt(new, fresh)
  BY <1>1, <1>3, <1>4 DEF Publish
<1>7. /\ fresh \in [Added(new) -> Unused]
      /\ \A m, n \in Added(new) : fresh[m] = fresh[n] => m = n
  BY <1>5 DEF OneEach
<1>8. \A n \in gone : n \in Names /\ forwards[n] # None
  BY <1>3 DEF Dropped
<1>9. saving' = None /\ UNCHANGED <<flight, status, request, drawn, replaced, file>>
  BY DEF Publish
<1>10. ASSUME NEW n \in Added(new)
       PROVE  /\ n \in Names /\ new[n] \in Configs /\ new[n].url \in Urls /\ ~Kept(new, n)
              /\ fresh[n] \in Sessions /\ fresh[n] \in Unused
  BY <1>2, <1>7, <1>10 DEF Added, Contents, Configs, Unused
<1>11. ASSUME NEW s \in Sessions, ~\E n \in Added(new) : fresh[n] = s
       PROVE  session'[s] = Retired(s, gone)
  BY <1>3, <1>6, <1>11 DEF Renewed
<1>12. ASSUME NEW n \in Added(new)
       PROVE  session'[fresh[n]] = NewSession(n, new[n].url)
  <2>1. (CHOOSE m \in Added(new) : fresh[m] = fresh[n]) = n
    BY <1>7
  <2> QED  BY <1>6, <1>10, <2>1 DEF Renewed
<1>13. ASSUME NEW n \in Names, new[n] # None
       PROVE  /\ forwards'[n] \in Forward /\ forwards'[n] # None /\ forwards'[n].config = new[n]
              /\ Kept(new, n) => forwards'[n].session = forwards[n].session
              /\ ~Kept(new, n) => forwards'[n].session = fresh[n]
  <2>1. new[n] \in Configs
    BY <1>2, <1>13 DEF Contents
  <2>2. PICK t : t = IF Kept(new, n) THEN forwards[n].session ELSE fresh[n]
    OBVIOUS
  <2>3. t \in Sessions
    BY <1>10, <1>13, <2>2 DEF Kept, Added, IInv, TypeOK, Forward
  <2>4. forwards'[n] = [config |-> new[n], session |-> t]
    BY <1>6, <1>13, <2>2 DEF Rebuilt
  <2>5. forwards'[n] \in Forward /\ forwards'[n].config = new[n] /\ forwards'[n].session = t
    BY <2>1, <2>3, <2>4 DEF Forward
  <2> QED  BY <2>2, <2>5, ForwardsAssumption DEF Forward
<1>14. \A n \in Names : new[n] = None => forwards'[n] = None
  BY <1>6 DEF Rebuilt
<1>15. forwards' \in [Names -> Forward \cup {None}]
  <2>1. forwards' = [n \in Names |-> forwards'[n]]
    BY <1>6 DEF Rebuilt
  <2> QED  BY <1>13, <1>14, <2>1
<1>16. ASSUME NEW n \in Added(new)
       PROVE  Fresh(fresh[n]) /\ session'[fresh[n]].name = n
  <2>1. PICK y : y = session'[fresh[n]]
    OBVIOUS
  <2>2. y \in SessionObject /\ y.name = n /\ y.generation = 0 /\ y.epoch = 0 /\ y.conn = None
    BY <1>10, <1>12, <2>1, NewSessionIs
  <2>3. forwards'[n] # None /\ forwards'[n].session = fresh[n]
    BY <1>10, <1>13 DEF Added
  <2> QED  BY <2>1, <2>2, <2>3 DEF Fresh
<1>17. \A s \in Sessions : session'[s] = Retired(s, gone) \/ Fresh(s)
  BY <1>11, <1>16
<1>18. \A s \in Sessions \ Unused : session'[s] = Retired(s, gone)
  BY <1>10, <1>11
<1>19. session' \in [Sessions -> SessionObject \cup {None}]
  <2>1. ASSUME NEW s \in Sessions  PROVE session'[s] \in SessionObject \cup {None}
    <3>1. PICK y : y = Retired(s, gone)
      OBVIOUS
    <3>2. PICK x : x = session[s]
      OBVIOUS
    <3>3. (x = None => y = None) /\ (x # None => y \in SessionObject)
      BY <1>8, <3>1, <3>2, RetiredIs
    <3>4. Fresh(s) => session'[s] \in SessionObject
      BY DEF Fresh
    <3> QED  BY <1>17, <3>1, <3>3, <3>4
  <2>2. session' = [s \in Sessions |-> session'[s]]
    BY <1>6 DEF Renewed
  <2> QED  BY <2>1, <2>2
<1>20. ASSUME NEW n \in Names, forwards[n] # None, n \notin gone
       PROVE  /\ forwards'[n] # None /\ forwards'[n].session = forwards[n].session
              /\ forwards'[n].config.oauth = forwards[n].config.oauth
  <2>1. Kept(new, n) /\ new[n] # None /\ new[n].oauth = forwards[n].config.oauth
    BY <1>3, <1>20 DEF Dropped, Kept, SameUpstream
  <2> QED  BY <1>13, <2>1
<1>21. ASSUME NEW n \in Names, forwards'[n] # None
       PROVE  \/ forwards[n] # None /\ forwards'[n].session = forwards[n].session
              \/ Fresh(forwards'[n].session) /\ session'[forwards'[n].session].name = n
  <2>1. new[n] # None
    BY <1>14, <1>21
  <2>2. CASE Kept(new, n)
    BY <1>13, <2>1, <2>2 DEF Kept
  <2>3. CASE ~Kept(new, n)
    <3>1. n \in Added(new)
      BY <2>1, <2>3 DEF Added
    <3> QED  BY <1>13, <1>16, <2>1, <2>3, <3>1
  <2> QED  BY <2>2, <2>3
<1>22. /\ login' \in [Logins -> Login \cup {NoLogin}]
       /\ \A l \in Logins : login'[l] # NoLogin =>
             \/ login'[l] = login[l]
             \/ /\ login'[l].pc = "begin" /\ login'[l].generation = 0
                /\ session'[login'[l].session] # None
  <2>1. CASE saving.login = None
    <3>1. login' = login
      BY <2>1 DEF Publish
    <3> QED  BY <3>1 DEF IInv, TypeOK
  <2>2. CASE saving.login # None
    <3>1. PICK n : n = saving.name
      OBVIOUS
    <3>2. PICK j : j = saving.login
      OBVIOUS
    <3>3. n \in Names /\ new[n] # None /\ j \in Logins
      BY <1>1, <1>2, <2>2, <3>1, <3>2 DEF IInv, SavingOK, Saving
    <3>4. PICK t : t = forwards'[n].session
      OBVIOUS
    <3>5. PICK c : c = [pc |-> "begin", generation |-> 0, session |-> t]
      OBVIOUS
    <3>6. login' = [login EXCEPT ![j] = c]
      BY <2>2, <3>1, <3>2, <3>4, <3>5 DEF Publish
    <3>7. forwards'[n] # None /\ t \in Sessions
      BY <1>13, <3>3, <3>4 DEF Forward
    <3>8. c \in Login /\ c.pc = "begin" /\ c.generation = 0 /\ c.session = t
      BY <3>5, <3>7 DEF Login
    <3>9. session'[t] # None
      <4>1. CASE forwards[n] # None /\ t = forwards[n].session
        <5>1. t \in Sessions \ Unused /\ session[t] # None
          BY <3>3, <3>7, <4>1 DEF Unused, IInv, ForwardsOK
        <5>2. PICK y : y = Retired(t, gone)
          OBVIOUS
        <5>3. y # None
          BY <1>8, <5>1, <5>2, RetiredIs
        <5> QED  BY <1>18, <5>1, <5>2, <5>3
      <4>2. CASE Fresh(t)
        BY <4>2, RecordAssumption DEF Fresh
      <4> QED  BY <1>21, <3>3, <3>4, <3>7, <4>1, <4>2
    <3> QED  BY <3>3, <3>6, <3>8, <3>9 DEF IInv, TypeOK
  <2> QED  BY <2>1, <2>2
<1>23. /\ record' = [n \in Names |-> IF n \in gone THEN None ELSE record[n]]
       /\ floor' = [n \in Names |-> IF n \in gone THEN drawn + 1 ELSE floor[n]]
       /\ vault' \in [Names -> TokenRecord \cup {None}]
       /\ \A n \in Names : vault'[n] \in {None, vault[n]} /\ (n \in gone => vault'[n] = None)
  BY <1>6, RetireIs
<1> QED  BY <1>8, <1>9, <1>15, <1>17, <1>18, <1>19, <1>20, <1>21, <1>22, <1>23, PublishFrame

-----------------------------------------------------------------------------
(* The start *)

Started ==
  /\ drawn \in Nat /\ floor \in [Names -> Nat] /\ replaced \in SUBSET (Names \X Nat \X Nat)
  /\ vault \in [Names -> TokenRecord \cup {None}] /\ record = vault /\ RecordsOK
  /\ file \in Contents /\ forwards = Loaded(file) /\ session = LoadedSessions(file)
  /\ flight = [s \in Sessions |-> None]
  /\ login = [l \in Logins |-> NoLogin]
  /\ status = [n \in Names |-> None]
  /\ request = [r \in Requests |-> Idle]
  /\ saving = None

LEMMA StartedFits ==
  Started => IInv
<1> SUFFICES ASSUME Started  PROVE IInv
  OBVIOUS
<1>1. PICK slot : slot = Slot
  OBVIOUS
<1>2. slot \in [Names -> Sessions] /\ \A m, n \in Names : slot[m] = slot[n] => m = n
  <2>1. Slot \in OneEach(Names, Sessions)
    BY ForwardsAssumption DEF Slot
  <2> QED  BY <1>1, <2>1 DEF OneEach
<1>3. ASSUME NEW n \in Names, file[n] # None
      PROVE  /\ forwards[n] \in Forward /\ forwards[n] # None /\ forwards[n].session = slot[n]
             /\ session[slot[n]] = NewSession(n, file[n].url)
             /\ session[slot[n]] \in SessionObject /\ session[slot[n]].name = n
             /\ session[slot[n]].generation = 0 /\ session[slot[n]].epoch = 0
             /\ session[slot[n]].conn = None
  <2>1. file[n] \in Configs /\ file[n].url \in Urls
    BY <1>3 DEF Started, Contents, Configs
  <2>2. forwards[n] = [config |-> file[n], session |-> slot[n]]
    BY <1>1, <1>3 DEF Started, Loaded
  <2>3. forwards[n] \in Forward /\ forwards[n].session = slot[n]
    BY <1>2, <2>1, <2>2 DEF Forward
  <2>4. forwards[n] # None
    BY <2>3, ForwardsAssumption DEF Forward
  <2>5. (CHOOSE m \in Names : slot[m] = slot[n]) = n
    BY <1>2
  <2>6. session[slot[n]] = NewSession(n, file[n].url)
    <3>1. slot[n] \in Sessions
      BY <1>2
    <3> QED  BY <1>1, <1>3, <2>5, <3>1 DEF Started, LoadedSessions
  <2> QED  BY <2>1, <2>3, <2>4, <2>6, NewSessionIs
<1>4. ASSUME NEW n \in Names, file[n] = None  PROVE forwards[n] = None
  BY <1>4 DEF Started, Loaded
<1>5. ASSUME NEW s \in Sessions, session[s] # None
      PROVE  \E n \in Names : file[n] # None /\ slot[n] = s
  BY <1>1, <1>5 DEF Started, LoadedSessions
<1>6. forwards \in [Names -> Forward \cup {None}]
  <2>1. forwards = [n \in Names |-> forwards[n]]
    BY DEF Started, Loaded
  <2> QED  BY <1>3, <1>4, <2>1
<1>7. session \in [Sessions -> SessionObject \cup {None}]
  <2>1. session = [s \in Sessions |-> session[s]]
    BY DEF Started, LoadedSessions
  <2> QED  BY <1>3, <1>5, <2>1
<1>8. TypeOK
  BY <1>6, <1>7 DEF Started, TypeOK
<1>9. ForwardsOK
  BY <1>3, <1>4, RecordAssumption DEF ForwardsOK
<1>10. SessionsOK
  <2>1. SUFFICES ASSUME NEW s \in Sessions, session[s] # None  PROVE SessionFits(s, session[s])
    BY DEF SessionsOK
  <2>2. PICK n \in Names : file[n] # None /\ slot[n] = s
    BY <1>5, <2>1
  <2>3. PICK x : x = session[s]
    OBVIOUS
  <2>4. x.name = n /\ x.generation = 0 /\ x.epoch = 0 /\ x.conn = None
    BY <1>3, <2>2, <2>3
  <2>5. forwards[n] # None /\ forwards[n].session = s /\ drawn \in Nat
    BY <1>3, <2>2 DEF Started
  <2>6. SessionFits(s, x)
    BY <2>4, <2>5 DEF SessionFits, ConnFits, OwnConn
  <2> QED  BY <2>3, <2>6
<1>11. MessagesOK /\ LoginsOK /\ StatusOK /\ SavingOK
  BY DEF Started, MessagesOK, LoginsOK, StatusOK, SavingOK
<1> QED  BY <1>8, <1>9, <1>10, <1>11 DEF Started, IInv

LEMMA InitFits ==
  Init => IInv
<1> SUFFICES ASSUME Init  PROVE IInv
  OBVIOUS
<1>1. file \in Contents
  BY ForwardsAssumption DEF Init, Contents
<1>2. ASSUME NEW n \in Names
      PROVE  \/ vault[n] = None
             \/ /\ vault[n] \in TokenRecord
                /\ vault[n].login = 0 /\ vault[n].uses = 0 /\ vault[n].refresh = 0
  <2>1. vault[n] \in FirstRecords(file[n])
    BY DEF Init
  <2>2. CASE file[n] = None
    BY <2>1, <2>2 DEF FirstRecords
  <2>3. CASE file[n] # None
    <3>1. file[n].url \in Urls
      BY <1>1, <2>3 DEF Contents, Configs
    <3>2. vault[n] = None \/ vault[n] = [login |-> 0, uses |-> 0, refresh |-> 0, url |-> file[n].url]
      BY <2>1, <2>3 DEF FirstRecords
    <3> QED  BY <3>1, <3>2 DEF TokenRecord
  <2> QED  BY <2>2, <2>3
<1>3. vault \in [Names -> TokenRecord \cup {None}]
  <2>1. vault = [n \in Names |-> vault[n]]
    BY DEF Init
  <2> QED  BY <1>2, <2>1
<1>4. RecordsOK
  BY <1>2 DEF RecordsOK, RecordFits, Refreshable, Newest, Init
<1> QED  BY <1>1, <1>3, <1>4, StartedFits DEF Init, Started

LEMMA RestartKept ==
  ASSUME IInv, Restart
  PROVE  IInv'
<1>1. RecordsOK'
  BY DEF Restart, IInv, RecordsOK, RecordFits, Refreshable, Newest
<1>2. file' \in Contents
  BY DEF Restart, IInv, TypeOK
<1>3. Started'
  BY <1>1, <1>2 DEF Restart, Started, IInv, TypeOK
<1>4. (Started => IInv)'
  BY StartedFits, PTL
<1> QED  BY <1>3, <1>4

-----------------------------------------------------------------------------
(* The theorems *)

LEMMA StutterKept ==
  ASSUME IInv, UNCHANGED vars
  PROVE  IInv'
<1>1. UNCHANGED <<oauthVars, request, forwards>> /\ UNCHANGED <<file, saving>>
  BY DEF vars, forwardVars
<1>2. SavingOK'
  BY <1>1 DEF IInv, SavingOK
<1> QED  BY <1>1, <1>2, QuietKept DEF IInv, TypeOK

LEMMA MessageStepKept ==
  ASSUME IInv, NEW r \in Requests, MessageStep(r)
  PROVE  IInv'
<1>1. CASE \E n \in Names, guest \in Guests \cup {None}, call \in Tools \cup {"list"} :
             Arrive(r, n, guest, call)
  BY <1>1, ArriveKept
<1>2. CASE LockConn(r)
  BY <1>2, LockConnKept
<1>3. CASE Headers(r)
  BY <1>3, HeadersKept
<1>4. CASE Answered(r)
  BY <1>4, AnsweredKept
<1>5. CASE Unauthorized(r)
  BY <1>5, UnauthorizedKept
<1>6. CASE MessageEnds(r)
  BY <1>6, SameVault, ReleasedKept DEF MessageEnds, forwardVars
<1> QED  BY <1>1, <1>2, <1>3, <1>4, <1>5, <1>6 DEF MessageStep

LEMMA OauthStepKept ==
  ASSUME IInv, OauthStep, UNCHANGED forwardVars
  PROVE  IInv'
<1>1. ASSUME NEW r \in Requests, TokenStep(r)  PROVE IInv'
  BY <1>1, TokenLockKept, LoadKept, RefreshedKept DEF TokenStep
<1>2. ASSUME NEW l \in Logins, LoginStep(l)  PROVE IInv'
  <2>1. CASE Begin(l)
    BY <2>1, BeginKept
  <2>2. CASE \E ok \in BOOLEAN : Registered(l, ok)
    BY <2>2, RegisteredKept
  <2>3. CASE Expired(l)
    BY <2>3, ExpiredKept
  <2>4. CASE Callback(l)
    BY <2>4, CallbackKept
  <2>5. CASE \E granted \in BOOLEAN : FinishLock(l, granted)
    BY <2>5, FinishLockKept
  <2>6. CASE \E answered, refreshable, ok \in BOOLEAN : Exchanged(l, answered, refreshable, ok)
    BY <2>6, ExchangedKept
  <2>7. CASE Report(l)
    BY <2>7, ReportKept
  <2>8. CASE LoginDropped(l)
    BY <2>8, LoginDroppedKept
  <2> QED  BY <1>2, <2>1, <2>2, <2>3, <2>4, <2>5, <2>6, <2>7, <2>8 DEF LoginStep
<1> QED  BY <1>1, <1>2 DEF OauthStep

LEMMA HostStepKept ==
  ASSUME IInv, HostStep
  PROVE  IInv'
<1>1. ASSUME NEW ok \in BOOLEAN, Publish(ok)  PROVE IInv'
  <2>1. CASE ok = TRUE
    BY <1>1, <2>1, PublishedKept
  <2>2. CASE ok = FALSE
    BY <1>1, <2>2, PublishFailedKept
  <2> QED  BY <2>1, <2>2
<1> QED  BY <1>1, HostKept, DisconnectKept DEF HostStep

\* The invariant holds in every state the broker reaches, whatever logins,
\* messages, saves, publications, failures to write and restarts do.
THEOREM Invariance ==
  Spec => []IInv
<1>1. IInv /\ [Next]_vars => IInv'
  <2> SUFFICES ASSUME IInv, [Next]_vars  PROVE IInv'
    OBVIOUS
  <2>1. CASE HostStep
    BY <2>1, HostStepKept
  <2>2. CASE \E r \in Requests : MessageStep(r)
    BY <2>2, MessageStepKept
  <2>3. CASE OauthStep /\ UNCHANGED forwardVars
    BY <2>3, OauthStepKept
  <2>4. CASE Restart
    BY <2>4, RestartKept
  <2>5. CASE UNCHANGED vars
    BY <2>5, StutterKept
  <2> QED  BY <2>1, <2>2, <2>3, <2>4, <2>5 DEF Next
<1> QED  BY <1>1, InitFits, PTL DEF Spec

\* No tokens of a login that was disconnected, retired or replaced are stored
\* again, in memory or on disk: not by an exchange or a refresh that was under
\* way, a save that failed or a restart (Session::store, disconnect, retire).
THEOREM CancelledStaysCancelled ==
  Spec => []NoRevival
<1>1. IInv => NoRevival
  <2> SUFFICES ASSUME IInv, NEW n \in Names, NEW rec \in {record[n], vault[n]} \ {None}
               PROVE  rec.login >= floor[n]
    BY DEF NoRevival
  <2>1. rec \in TokenRecord /\ floor[n] \in Nat
    BY DEF IInv, TypeOK
  <2>2. floor[n] <= rec.login
    BY DEF IInv, RecordsOK, RecordFits
  <2> QED  BY <2>1, <2>2 DEF TokenRecord
<1> QED  BY <1>1, Invariance, PTL

\* A session in service never spends a refresh token that another message has
\* replaced: the refresh lock makes the refresh single-flight, and the record
\* is read under it (Session::token).
THEOREM SingleFlight ==
  Spec => []SpendsFresh
<1>1. IInv => SpendsFresh
  <2> SUFFICES ASSUME IInv, NEW r \in Requests, request[r].pc = "refresh", ~session[Q(r)].retired,
                      Spent(r) \in replaced
               PROVE  FALSE
    BY DEF SpendsFresh
  <2>1. request[r] # Idle
    BY DEF Idle
  <2>2. PICK rec : rec = request[r].rec
    OBVIOUS
  <2>3. rec \in TokenRecord /\ rec.refresh # None /\ Refreshable(session[Q(r)].name, rec)
    BY <2>1, <2>2, MessageFacts DEF MessageFits, RefreshFits, Message
  <2>4. rec.refresh \in Nat
    BY <2>3 DEF TokenRecord
  <2>5. rec.refresh < rec.refresh
    BY <2>2, <2>3 DEF Refreshable, Newest, Spent
  <2> QED  BY <2>4, <2>5
<1> QED  BY <1>1, Invariance, PTL

\* A token or a Cline header is sent only to the server it was issued for or
\* linked to, whatever was saved and wherever the broker stopped meanwhile
\* (Session::token, mcp_import::headers).
THEOREM CredentialsGoHome ==
  Spec => []TokenGoesHome
<1>1. IInv => TokenGoesHome
  <2> SUFFICES ASSUME IInv, NEW r \in Requests, request[r].pc = "sent"
               PROVE  request[r].cred.home # None => request[r].cred.home = session[Q(r)].url
    BY DEF TokenGoesHome
  <2>1. request[r] # Idle
    BY DEF Idle
  <2> QED  BY <2>1, MessageFacts DEF MessageFits, SentFits
<1> QED  BY <1>1, Invariance, PTL

\* The connection that the messages of a forward use was made with tokens of
\* the login they use (Forward::call_upstream and the connection epoch).
THEOREM ConnectionsAreOwn ==
  Spec => []ConnectionIsOwn
<1>1. IInv => ConnectionIsOwn
  <2> SUFFICES ASSUME IInv, NEW n \in Names, forwards[n] # None, forwards[n].config.oauth,
                      record[n] # None, NEW s, s = forwards[n].session,
                      ~session[s].retired, Connected(s)
               PROVE  session[s].conn.logins = {record[n].login}
    BY DEF ConnectionIsOwn
  <2>1. s \in Sessions /\ session[s] # None /\ session[s].name = n
    BY DEF IInv, TypeOK, Forward, ForwardsOK
  <2>2. OwnConn(session[s], session[s].conn)
    BY <2>1 DEF IInv, SessionsOK, SessionFits, ConnFits
  <2> QED  BY <2>1, <2>2 DEF OwnConn, Connected
<1> QED  BY <1>1, Invariance, PTL

\* The host is shown "connected" only while that login's tokens are stored
\* (OauthFlows::status and set_status, against begin, disconnect and retire).
THEOREM StatusTellsTheTruth ==
  Spec => []ConnectedIsTrue
<1>1. IInv => ConnectedIsTrue
  BY DEF IInv, StatusOK, StatusFits, ConnectedIsTrue
<1> QED  BY <1>1, Invariance, PTL

=============================================================================
