------------------------ MODULE ProxyRequest_proofs ------------------------
(***************************************************************************)
(* Proofs about ProxyRequest and the modules it is made of, ClineEscrow    *)
(* and CommentGrants, for any entries, hosts, requests, calls and bounds:  *)
(* a value is sent with the prefix of an OAuth token exactly when it is    *)
(* one, the account's value leaves only through its gate, a permission is  *)
(* saved from a fresh look and used as it was given, and the counters are  *)
(* exact.                                                                  *)
(*                                                                         *)
(* The inductive invariant has a part per module.  What a request may do   *)
(* is stated of its handler alone (HandlersOK); the gate's answer is held  *)
(* as long as the entry the request presents stays as the gate saw it,     *)
(* which is what "moved" tells.                                            *)
(***************************************************************************)
EXTENDS ProxyRequest, FiniteSetTheorems, TLAPS

-----------------------------------------------------------------------------
(* The escrow's part *)

Session == [refresh : Logins, soon : BOOLEAN]
Value == Keys \cup Logins \cup {None}
Secrets == [key : [Names -> Value], session : [Names -> Session \cup {None}]]
Entry == [hosts : SUBSET Hosts, fake : Nat]
Entries == [Names -> Entry \cup {None}]

Serving == {"requested", "polling", "registering"}
Task == [pc : Serving, entry : Names] \cup [pc : {"unused", "ended"}, entry : Names \cup {None}]

Rest == [todo : SUBSET Names, entry : {None}, token : {None}]
Refresher == Rest \cup [todo : SUBSET Names, entry : Names, token : Logins]

EscrowTypeOK ==
  /\ entries \in Entries
  /\ disk \in Entries \cup {Torn}
  /\ secrets \in Secrets /\ vault \in Secrets
  /\ setting \in (Names \X Keys) \cup {None}
  /\ logins \in [Logins -> Task]
  /\ refresher \in Refresher
  /\ acts \in Nat /\ faults \in Nat

\* A session and its mirrored token are there together.
Truthful(s) == \A n \in Names : s.session[n] # None <=> s.key[n] \in Logins

EscrowOK == EscrowTypeOK /\ Truthful(secrets) /\ Truthful(vault)

\* A value with the prefix it should have.
Honest(v) == v.oauth <=> v.value \in Logins

-----------------------------------------------------------------------------
(* The permissions' part *)

Real == [oauth : BOOLEAN, value : Value]
Binding == [entry : Names, fake : Nat, real : Real]
Grant == [id : Nat, target : Targets, binding : Binding \cup {None}, seen : SUBSET Nat]
Guest ==
  [epoch : Nat, revision : Nat, grants : SUBSET Grant, access : {"basic", "full"},
   killed : BOOLEAN]
Review ==
  [binding : Binding \cup {None}, epoch : Nat, revision : Nat, target : Targets \cup {None},
   resolution : Nat, seen : SUBSET Nat]
Page ==
  [pc : {"resolving"}, request : Requests, binding : Binding \cup {None}, revision : Nat,
   withdrawn : SUBSET Nat]
    \cup [pc : {"granting"}, request : Requests, binding : Binding \cup {None},
          resolution : Nat \ {0}, target : Targets \cup {None}]

GrantTypeOK ==
  /\ guest \in Guest \cup {None}
  /\ node \in Targets
  /\ review \in [Requests -> Review \cup {None}]
  /\ ui \in Page \cup {None}
  /\ stamp \in Nat
  /\ withdrawn \in SUBSET Nat

\* Identifiers are drawn in order, and never again.
Drawn ==
  /\ \A i \in withdrawn : i < stamp
  /\ guest # None => guest.revision < stamp /\ \A g \in guest.grants : g.id < stamp
  /\ \A r \in Requests : review[r] # None => review[r].revision < stamp
  /\ ui # None /\ ui.pc = "resolving" => ui.revision < stamp

InForce(revision) == guest # None /\ guest.revision = revision

\* A revision still in force was read after the last withdrawal.
Seen ==
  /\ \A r \in Requests :
       review[r] # None /\ review[r].resolution > 0 /\ InForce(review[r].revision) =>
         review[r].seen = withdrawn
  /\ ui # None /\ ui.pc = "resolving" /\ InForce(ui.revision) => ui.withdrawn = withdrawn

\* A permission of the guest was not withdrawn, nor was another one of its name.
Held ==
  guest # None =>
    /\ \A g \in guest.grants : g.id \notin withdrawn
    /\ \A g, h \in guest.grants : g.id = h.id => g = h

GrantOK == GrantTypeOK /\ Drawn /\ Seen /\ Held

\* The sessions a task read before they changed.
Loaded == (SUBSET Names) \cup {None}

EarlyOK == early \in [Tasks -> Loaded]

-----------------------------------------------------------------------------
(* The handlers' part *)

Before == {"review", "collect", "lookup", "waiting", "admit", "substitute"}
Life == [owners : SUBSET {"handler", "body", "response"}, finished : BOOLEAN]
Handler ==
  [pc : Before \cup {"forwarded"}, host : Hosts, op : Ops, fake : Nat \cup {None},
   epoch : Nat \cup {None}, access : {"basic", "full"}, binding : Binding \cup {None},
   grants : SUBSET Grant, used : Grant \cup {None}, value : Real \cup {None},
   account : BOOLEAN, life : Life]

Covered(q) == q.op # "keys" /\ (q.access = "full" \/ q.op = "read")

\* What is left of the gate's answer as long as the entry is what it was.
GateHolds(q) ==
  IF q.pc = "forwarded" THEN q.account => Covered(q)
  ELSE \A n \in Matched(q.fake) : IsClineAccount(n) /\ q.host \in entries[n].hosts => Covered(q)

\* The permissions looked up are for the credential the request is rebuilt with.
LookupOK(q) ==
  q.pc = "lookup" => q.binding # None /\ \A g \in q.grants : g.binding = q.binding

HandlersOK ==
  /\ request \in [Requests -> Handler \cup {Idle, Done}]
  /\ \A r \in Requests : request[r] \in Handler =>
       LookupOK(request[r]) /\ (r \notin moved => GateHolds(request[r]))

Live(q) == q.pc = "forwarded" /\ ~q.life.finished
LiveAt(h) == {r \in Requests : Live(request[r]) /\ request[r].host = h}

CountersOK ==
  /\ active \in [Hosts -> Nat]
  /\ \A h \in Hosts : active[h] = Cardinality(LiveAt(h))

IInv == EscrowOK /\ GrantOK /\ EarlyOK /\ HandlersOK /\ CountersOK

-----------------------------------------------------------------------------
(* The escrow *)

LEMMA WithKeyOK ==
  ASSUME secrets \in Secrets, Truthful(secrets), NEW n \in Names, NEW key \in Keys \cup {None}
  PROVE  LET new == [secrets EXCEPT !.key[n] = key, !.session[n] = None]
         IN new \in Secrets /\ Truthful(new)
<1> DEFINE new == [secrets EXCEPT !.key[n] = key, !.session[n] = None]
<1>1. key \in Value /\ key \notin Logins
  BY EscrowAssumption DEF Value
<1>2. new \in Secrets
  BY <1>1 DEF Secrets
<1>3. \A m \in Names : m # n => new.session[m] = secrets.session[m] /\ new.key[m] = secrets.key[m]
  BY DEF Secrets
<1>4. new.session[n] = None /\ new.key[n] = key
  BY DEF Secrets
<1>5. Truthful(new)
  BY <1>1, <1>3, <1>4 DEF Truthful
<1> QED  BY <1>2, <1>5

LEMMA StoredOK ==
  ASSUME secrets \in Secrets, Truthful(secrets), NEW n \in Names, NEW token \in Logins,
         NEW refresh \in Logins
  PROVE  Stored(n, token, refresh) \in Secrets /\ Truthful(Stored(n, token, refresh))
<1>1. PICK new : new = Stored(n, token, refresh)
  OBVIOUS
<1>2. PICK x : x = [refresh |-> refresh, soon |-> FALSE]
  OBVIOUS
<1>3. x \in Session /\ x # None /\ token \in Value
  <2>1. x \in Session
    BY <1>2 DEF Session
  <2>2. None \notin Session
    BY EscrowAssumption DEF Session
  <2> QED  BY <2>1, <2>2 DEF Value
<1>4. new = [secrets EXCEPT !.session[n] = x, !.key[n] = token]
  BY <1>1, <1>2 DEF Stored
<1>5. new \in Secrets
  BY <1>3, <1>4 DEF Secrets
<1>6. \A m \in Names : m # n => new.session[m] = secrets.session[m] /\ new.key[m] = secrets.key[m]
  BY <1>4 DEF Secrets
<1>7. new.session[n] = x /\ new.key[n] = token
  BY <1>4 DEF Secrets
<1>8. Truthful(new)
  BY <1>3, <1>6, <1>7 DEF Truthful
<1> QED  BY <1>1, <1>5, <1>8

LEMMA SaveOK ==
  ASSUME EscrowOK, NEW new \in Secrets, Truthful(new), NEW ok, Save(new, ok)
  PROVE  secrets' \in Secrets /\ vault' \in Secrets /\ Truthful(secrets') /\ Truthful(vault')
BY DEF EscrowOK, EscrowTypeOK, Save

LEMMA FaultOK ==
  ASSUME faults \in Nat, NEW bad, Fault(bad)
  PROVE  faults' \in Nat
BY DEF Fault

LEMMA WriteOK ==
  ASSUME disk \in Entries \cup {Torn}, NEW new \in Entries, NEW how \in Writes, Write(new, how)
  PROVE  disk' \in Entries \cup {Torn}
<1>1. how = "done" \/ how = "kept" \/ how = "torn"
  BY DEF Writes
<1>2. CASE how = "done"
  BY <1>2 DEF Write
<1>3. CASE how = "kept"
  BY <1>3 DEF Write
<1>4. CASE how = "torn"
  BY <1>4 DEF Write
<1> QED  BY <1>1, <1>2, <1>3, <1>4

\* What the parts of a step have to give.
LEMMA EscrowParts ==
  ASSUME EscrowOK, entries' \in Entries, disk' \in Entries \cup {Torn},
         secrets' \in Secrets, vault' \in Secrets, Truthful(secrets'), Truthful(vault'),
         setting' \in (Names \X Keys) \cup {None}, logins' \in [Logins -> Task],
         refresher' \in Refresher, acts' \in Nat, faults' \in Nat
  PROVE  EscrowOK'
BY DEF EscrowOK, EscrowTypeOK, Truthful

LEMMA PutEntryOK ==
  ASSUME EscrowOK, NEW n \in Names, NEW e \in Entry, NEW real \in Keys \cup {None},
         NEW how \in Writes, PutEntry(n, e, real, how)
  PROVE  EscrowOK'
<1>1. entries' \in Entries
  BY DEF EscrowOK, EscrowTypeOK, PutEntry, Entries
<1>2. disk' \in Entries \cup {Torn}
  BY <1>1, WriteOK DEF EscrowOK, EscrowTypeOK, PutEntry
<1>3. setting' \in (Names \X Keys) \cup {None}
  BY DEF PutEntry
<1>4. acts' \in Nat /\ faults' \in Nat
  BY FaultOK DEF PutEntry, Act, EscrowOK, EscrowTypeOK
<1>5. UNCHANGED <<secrets, vault, logins, refresher>>
  BY DEF PutEntry
<1> QED  BY <1>1, <1>2, <1>3, <1>4, <1>5, EscrowParts DEF EscrowOK, EscrowTypeOK

LEMMA EditOK ==
  ASSUME EscrowOK, EditStep
  PROVE  EscrowOK'
<1>0. /\ entries \in Entries /\ disk \in Entries \cup {Torn} /\ secrets \in Secrets
      /\ setting \in (Names \X Keys) \cup {None} /\ logins \in [Logins -> Task]
      /\ refresher \in Refresher /\ acts \in Nat /\ faults \in Nat /\ Truthful(secrets)
  BY DEF EscrowOK, EscrowTypeOK
<1>1. ASSUME NEW n \in Names, NEW hosts \in Pins, NEW real \in Keys \cup {None},
             NEW how \in Writes, AddEscrow(n, hosts, real, how) \/ UpdateEscrow(n, hosts, real, how)
      PROVE  EscrowOK'
  <2>1. hosts \in SUBSET Hosts
    BY EscrowAssumption
  <2>2. [hosts |-> hosts, fake |-> acts] \in Entry
    BY <1>0, <2>1 DEF Entry
  <2>3. entries[n] # None => [entries[n] EXCEPT !.hosts = hosts] \in Entry
    <3>1. entries[n] \in Entry \cup {None}
      BY <1>0 DEF Entries
    <3> QED  BY <2>1, <3>1 DEF Entry
  <2> QED  BY <1>1, <2>2, <2>3, PutEntryOK DEF AddEscrow, UpdateEscrow
<1>2. ASSUME NEW n \in Names, NEW key \in Keys, NEW ok \in BOOLEAN, SetSecret(n, key, ok),
             acts' \in Nat, setting' \in (Names \X Keys) \cup {None}
      PROVE  EscrowOK'
  <2>1. PICK new : new = WithKey(n, key) /\ new \in Secrets /\ Truthful(new)
    BY <1>0, WithKeyOK DEF WithKey
  <2>2. secrets' \in Secrets /\ vault' \in Secrets /\ Truthful(secrets') /\ Truthful(vault')
    BY <1>2, <2>1, SaveOK DEF SetSecret
  <2>3. faults' \in Nat
    BY <1>0, <1>2, FaultOK DEF SetSecret
  <2>4. UNCHANGED <<entries, disk, logins, refresher>>
    BY <1>2 DEF SetSecret
  <2> QED  BY <1>0, <1>2, <2>2, <2>3, <2>4, EscrowParts
<1>3. ASSUME NEW n \in Names, NEW ok \in BOOLEAN, NEW how \in Writes, RemoveEscrow(n, ok, how)
      PROVE  EscrowOK'
  <2>1. PICK new : /\ new = [secrets EXCEPT !.key[n] = None, !.session[n] = None]
                   /\ new \in Secrets /\ Truthful(new)
    BY <1>0, WithKeyOK
  <2>2. secrets' \in Secrets /\ vault' \in Secrets /\ Truthful(secrets') /\ Truthful(vault')
    BY <1>3, <2>1, SaveOK DEF RemoveEscrow
  <2>3. PICK less \in Entries : less = [entries EXCEPT ![n] = None]
    <3>1. [entries EXCEPT ![n] = None] \in Entries
      BY <1>0 DEF Entries
    <3> QED  BY <3>1
  <2>4. entries' \in {entries, less} /\ disk' \in Entries \cup {Torn}
    BY <1>0, <1>3, <2>3, WriteOK DEF RemoveEscrow
  <2>5. faults' \in Nat /\ acts' \in Nat
    BY <1>0, <1>3, FaultOK DEF RemoveEscrow, Act
  <2>6. UNCHANGED <<setting, logins, refresher>>
    BY <1>3 DEF RemoveEscrow
  <2> QED  BY <1>0, <2>2, <2>3, <2>4, <2>5, <2>6, EscrowParts
<1>4. ASSUME NEW ok \in BOOLEAN, StoreKey(ok)
      PROVE  EscrowOK'
  <2>1. PICK n \in Names, key \in Keys : setting = <<n, key>>
    BY <1>0, <1>4 DEF StoreKey
  <2> QED  BY <1>0, <1>2, <1>4, <2>1 DEF StoreKey
<1>5. ASSUME NEW n \in Names, NEW key \in Keys, NEW ok \in BOOLEAN, SetEscrowSecret(n, key, ok)
      PROVE  EscrowOK'
  BY <1>0, <1>2, <1>5 DEF SetEscrowSecret, Act
<1> QED  BY <1>1, <1>3, <1>4, <1>5 DEF EditStep

\* A session that is stored, by a sign-in or a refresh.
LEMMA StoreSessionOK ==
  ASSUME EscrowOK, NEW n \in Names, NEW token \in Logins, NEW rotated \in BOOLEAN,
         NEW ok \in BOOLEAN, StoreClineSession(n, token, rotated, ok)
  PROVE  /\ secrets' \in Secrets /\ vault' \in Secrets /\ Truthful(secrets') /\ Truthful(vault')
         /\ faults' \in Nat
<1>1. secrets \in Secrets /\ Truthful(secrets) /\ faults \in Nat
  BY DEF EscrowOK, EscrowTypeOK
<1>2. PICK refresh : refresh = RefreshToken(n, token, rotated) /\ refresh # None
  BY DEF StoreClineSession
<1>3. refresh \in Logins
  <2>1. secrets.session[n] \in Session \cup {None}
    BY <1>1 DEF Secrets
  <2> QED  BY <1>2, <2>1 DEF RefreshToken, Session
<1>4. PICK new : new = Stored(n, token, refresh) /\ new \in Secrets /\ Truthful(new)
  BY <1>1, <1>3, StoredOK
<1>5. Save(new, ok) /\ Fault(~ok)
  BY <1>2, <1>4 DEF StoreClineSession
<1> QED  BY <1>1, <1>4, <1>5, SaveOK, FaultOK

LEMMA SignInOK ==
  ASSUME EscrowOK, LoginStep
  PROVE  EscrowOK'
<1>0. /\ entries \in Entries /\ disk \in Entries \cup {Torn}
      /\ secrets \in Secrets /\ vault \in Secrets /\ Truthful(secrets) /\ Truthful(vault)
      /\ setting \in (Names \X Keys) \cup {None} /\ logins \in [Logins -> Task]
      /\ refresher \in Refresher /\ acts \in Nat /\ faults \in Nat
  BY DEF EscrowOK, EscrowTypeOK
<1>1. ASSUME NEW l \in Logins, NEW pc \in Serving \cup {"ended"}, Move(l, pc), logins[l].pc \in Serving
      PROVE  logins[l].entry \in Names /\ logins' \in [Logins -> Task]
  BY <1>0, <1>1 DEF Move, Task, Serving
<1>2. ASSUME NEW l \in Logins, NEW n \in Names, RequestDevice(l, n)
      PROVE  EscrowOK'
  <2>1. logins' \in [Logins -> Task]
    BY <1>0, <1>2 DEF RequestDevice, Task, Serving
  <2> QED  BY <1>0, <1>2, <2>1, EscrowParts DEF RequestDevice, Act
<1>3. ASSUME NEW l \in Logins, NEW ok \in BOOLEAN,
             DeviceAnswered(l, ok) \/ Polled(l, ok) \/ RegisterFails(l)
      PROVE  EscrowOK'
  <2>1. UNCHANGED <<entries, disk, secrets, vault, setting, refresher, acts, faults>>
    BY <1>3 DEF DeviceAnswered, Polled, RegisterFails
  <2>2. \E pc \in Serving \cup {"ended"} : Move(l, pc) /\ logins[l].pc \in Serving
    BY <1>3 DEF DeviceAnswered, Polled, RegisterFails, Serving
  <2>3. logins' \in [Logins -> Task]
    BY <1>1, <2>2
  <2> QED  BY <1>0, <2>1, <2>3, EscrowParts
<1>4. ASSUME NEW l \in Logins, NEW rotated \in BOOLEAN, NEW ok \in BOOLEAN, Register(l, rotated, ok)
      PROVE  EscrowOK'
  <2>1. Move(l, "ended") /\ logins[l].pc \in Serving
    BY <1>4 DEF Register, Serving
  <2>2. logins[l].entry \in Names /\ logins' \in [Logins -> Task]
    BY <1>1, <2>1
  <2>3. /\ secrets' \in Secrets /\ vault' \in Secrets /\ Truthful(secrets') /\ Truthful(vault')
        /\ faults' \in Nat
    BY <1>4, <2>2, StoreSessionOK DEF Register
  <2> QED  BY <1>0, <1>4, <2>2, <2>3, EscrowParts DEF Register
<1> QED  BY <1>2, <1>3, <1>4 DEF LoginStep

LEMMA RefresherShape ==
  ASSUME NEW x \in Refresher
  PROVE  /\ x.todo \in SUBSET Names
         /\ x.token # None => x.entry \in Names /\ x.token \in Logins
         /\ x.token = None => x.entry = None
         /\ [x EXCEPT !.entry = None, !.token = None] \in Refresher
         /\ x.token = None => \A todo \in SUBSET Names : [x EXCEPT !.todo = todo] \in Refresher
<1>1. None \notin Logins
  BY EscrowAssumption
<1>2. CASE x \in Rest
  BY <1>2 DEF Refresher, Rest
<1>3. CASE x \in [todo : SUBSET Names, entry : Names, token : Logins]
  BY <1>1, <1>3 DEF Refresher, Rest
<1> QED  BY <1>2, <1>3 DEF Refresher

LEMMA RefreshOK ==
  ASSUME EscrowOK, RefreshStep
  PROVE  EscrowOK'
<1>0. /\ entries \in Entries /\ disk \in Entries \cup {Torn}
      /\ secrets \in Secrets /\ vault \in Secrets /\ Truthful(secrets) /\ Truthful(vault)
      /\ setting \in (Names \X Keys) \cup {None} /\ logins \in [Logins -> Task]
      /\ refresher \in Refresher /\ acts \in Nat /\ faults \in Nat
  BY DEF EscrowOK, EscrowTypeOK
<1>1. ASSUME NEW n \in Names, ExpiresSoon(n)
      PROVE  EscrowOK'
  <2>1. ASSUME NEW s \in Secrets, Truthful(s), NEW t, t = [s EXCEPT !.session[n].soon = TRUE],
               s.session[n] # None
        PROVE  t \in Secrets /\ Truthful(t)
    <3>1. PICK x : x = [s.session[n] EXCEPT !.soon = TRUE]
      OBVIOUS
    <3>2. s.session[n] \in Session
      BY <2>1 DEF Secrets
    <3>3. x \in Session
      BY <3>1, <3>2 DEF Session
    <3>4. x # None
      BY <3>3, EscrowAssumption DEF Session
    <3>5. /\ t \in Secrets /\ t.key = s.key /\ t.session[n] = x
          /\ \A m \in Names : m # n => t.session[m] = s.session[m]
      <4>1. t = [s EXCEPT !.session = [s.session EXCEPT ![n] = x]]
        BY <2>1, <3>1
      <4> QED  BY <3>3, <4>1 DEF Secrets
    <3> QED  BY <2>1, <3>4, <3>5 DEF Truthful
  <2>2. secrets' \in Secrets /\ Truthful(secrets')
    BY <1>0, <1>1, <2>1 DEF ExpiresSoon
  <2>3. vault' \in Secrets /\ Truthful(vault')
    BY <1>0, <1>1, <2>1 DEF ExpiresSoon
  <2> QED  BY <1>0, <1>1, <2>2, <2>3, EscrowParts DEF ExpiresSoon, Act
<1>2. ASSUME refresher' \in Refresher,
             UNCHANGED <<entries, disk, secrets, vault, setting, logins, acts, faults>>
      PROVE  EscrowOK'
  BY <1>0, <1>2, EscrowParts
<1>3. CASE RefreshRound
  <2>1. refresher' \in Refresher
    BY <1>3 DEF RefreshRound, Resting, Refresher, Rest
  <2> QED  BY <1>2, <1>3, <2>1 DEF RefreshRound
<1>4. ASSUME NEW n \in Names, RefreshStart(n)
      PROVE  EscrowOK'
  <2>1. CASE secrets.session[n] # None
    <3>1. secrets.session[n].refresh \in Logins
      BY <1>0, <2>1 DEF Secrets, Session
    <3>2. \/ refresher' = [todo |-> refresher.todo \ {n}, entry |-> n, token |-> secrets.session[n].refresh]
          \/ refresher' = [refresher EXCEPT !.todo = refresher.todo \ {n}]
      BY <1>4 DEF RefreshStart
    <3>3. refresher' \in Refresher
      BY <1>0, <1>4, <3>1, <3>2, RefresherShape DEF RefreshStart, Refresher
    <3> QED  BY <1>2, <1>4, <3>3 DEF RefreshStart
  <2>2. CASE secrets.session[n] = None
    <3>1. refresher' = [refresher EXCEPT !.todo = refresher.todo \ {n}] /\ refresher.token = None
      BY <1>4, <2>2 DEF RefreshStart
    <3>2. refresher' \in Refresher
      BY <1>0, <3>1, RefresherShape
    <3> QED  BY <1>2, <1>4, <3>2 DEF RefreshStart
  <2> QED  BY <2>1, <2>2
<1>5. CASE RefreshFails
  <2>1. refresher' \in Refresher
    BY <1>0, <1>5, RefresherShape DEF RefreshFails, RefreshDone
  <2> QED  BY <1>2, <1>5, <2>1 DEF RefreshFails
<1>6. ASSUME NEW rotated \in BOOLEAN, NEW ok \in BOOLEAN, RefreshAnswered(rotated, ok)
      PROVE  EscrowOK'
  <2>1. refresher.entry \in Names /\ refresher.token \in Logins
    BY <1>0, <1>6, RefresherShape DEF RefreshAnswered
  <2>2. /\ secrets' \in Secrets /\ vault' \in Secrets /\ Truthful(secrets') /\ Truthful(vault')
        /\ faults' \in Nat
    BY <1>6, <2>1, StoreSessionOK DEF RefreshAnswered
  <2>3. refresher' \in Refresher
    BY <1>0, <1>6, RefresherShape DEF RefreshAnswered, RefreshDone
  <2> QED  BY <1>0, <1>6, <2>2, <2>3, EscrowParts DEF RefreshAnswered
<1> QED  BY <1>1, <1>3, <1>4, <1>5, <1>6 DEF RefreshStep

LEMMA RestartOK ==
  ASSUME EscrowOK, RestartSettings
  PROVE  EscrowOK'
<1>1. entries' \in Entries /\ disk' \in Entries \cup {Torn}
  BY DEF RestartSettings, EscrowOK, EscrowTypeOK
<1>2. logins' \in [Logins -> Task]
  <2>1. ASSUME NEW l \in Logins, logins[l] # Unused
        PROVE  [logins[l] EXCEPT !.pc = "ended"] \in Task
    BY DEF EscrowOK, EscrowTypeOK, Task, Serving
  <2>2. Unused \in Task
    BY DEF Unused, Task
  <2> QED  BY <2>1, <2>2 DEF RestartSettings
<1>3. refresher' \in Refresher
  BY DEF RestartSettings, Resting, Refresher, Rest
<1> QED  BY <1>1, <1>2, <1>3, EscrowParts DEF RestartSettings, EscrowOK, EscrowTypeOK, Act

LEMMA EscrowInitOK == EscrowInit => EscrowOK
<1> SUFFICES ASSUME EscrowInit PROVE EscrowOK
  OBVIOUS
<1>1. PICK hosts \in FirstHosts, key \in FirstKeys \cup {None}, soon \in BOOLEAN :
        /\ entries = [n \in Names |-> IF hosts = None THEN None
                                      ELSE [hosts |-> hosts, fake |-> MaxActs]]
        /\ secrets = [key |-> [n \in Names |-> key],
                      session |-> [n \in Names |-> IF key = 0 THEN FirstSession(soon) ELSE None]]
  <2>1. PICK hosts \in FirstHosts, key \in FirstKeys, soon \in BOOLEAN :
          /\ entries = [n \in Names |-> IF hosts = None THEN None
                                        ELSE [hosts |-> hosts, fake |-> MaxActs]]
          /\ secrets = FirstSecrets(IF hosts = None THEN None ELSE key, soon)
    BY DEF EscrowInit
  <2>2. CASE hosts = None
    BY <2>1, <2>2 DEF FirstSecrets
  <2>3. CASE hosts # None
    BY <2>1, <2>3 DEF FirstSecrets
  <2> QED  BY <2>2, <2>3
<1>2. entries \in Entries
  <2>1. hosts # None => hosts \in SUBSET Hosts
    BY EscrowAssumption
  <2>2. hosts # None => [hosts |-> hosts, fake |-> MaxActs] \in Entry
    BY <2>1, EscrowAssumption DEF Entry
  <2> QED  BY <1>1, <2>2 DEF Entries
<1>3. FirstSession(soon) \in Session /\ FirstSession(soon) # None /\ 0 \in Logins
  <2>1. 0 \in Logins
    BY EscrowAssumption DEF Logins
  <2>2. FirstSession(soon) \in Session
    BY <2>1 DEF FirstSession, Session
  <2> QED  BY <2>1, <2>2, EscrowAssumption DEF Session
<1>4. secrets \in Secrets
  <2>1. key \in Value
    BY <1>3, EscrowAssumption DEF Value
  <2> QED  BY <1>1, <1>3, <2>1 DEF Secrets
<1>5. Truthful(secrets)
  <2>1. key = 0 <=> key \in Logins
    BY <1>3, EscrowAssumption
  <2> QED  BY <1>1, <1>3, <2>1 DEF Truthful
<1>6. logins \in [Logins -> Task] /\ refresher \in Refresher
  BY DEF EscrowInit, Unused, Task, Resting, Refresher, Rest
<1> QED  BY <1>2, <1>4, <1>5, <1>6 DEF EscrowInit, EscrowOK, EscrowTypeOK

LEMMA EscrowStep == EscrowOK /\ [EscrowNext]_escrowVars => EscrowOK'
<1>1. ASSUME EscrowOK, UNCHANGED settingsVars, acts' \in Nat PROVE EscrowOK'
  BY <1>1 DEF settingsVars, EscrowOK, EscrowTypeOK, Truthful
<1>2. ASSUME EscrowOK, UNCHANGED escrowVars PROVE EscrowOK'
  BY <1>1, <1>2 DEF escrowVars, EscrowOK, EscrowTypeOK
<1> QED  BY <1>2, EditOK, SignInOK, RefreshOK, RestartOK DEF EscrowNext

LEMMA CountedStep == EscrowOK /\ Act /\ UNCHANGED settingsVars => EscrowOK'
BY DEF settingsVars, Act, EscrowOK, EscrowTypeOK, Truthful

-----------------------------------------------------------------------------
(* The permissions *)

LEMMA CredentialOK ==
  ASSUME EscrowOK, NEW n \in Names, NEW loaded
  PROVE  Credential(n, loaded) \in Binding \cup {None}
<1>1. entries[n] \in Entry \cup {None} /\ secrets.key[n] \in Value
  BY DEF EscrowOK, EscrowTypeOK, Entries, Secrets
<1>2. RealValue(n, loaded) \in Real
  BY <1>1 DEF RealValue, Real
<1>3. CASE entries[n] # None
  BY <1>1, <1>2, <1>3 DEF Credential, Binding, Entry
<1>4. CASE entries[n] = None
  BY <1>4 DEF Credential
<1> QED  BY <1>3, <1>4

\* A value that is read between two changes of the sessions.
LEMMA ValueIsHonest ==
  ASSUME EscrowOK, NEW n \in Names, NEW t, early[t] = None
  PROVE  Honest(RealValue(n, SessionsFor(t)))
<1>1. n \in SessionsFor(t) <=> secrets.session[n] # None
  BY DEF SessionsFor, Sessions
<1> QED  BY <1>1 DEF EscrowOK, Truthful, RealValue, Honest

\* One waiting review is taken back, or a new one waits: no look at it yet.
LEMMA ReviewMoves ==
  ASSUME GrantOK, NEW r \in Requests, NEW v \in Review \cup {None},
         review' = [review EXCEPT ![r] = v],
         v # None => v.revision < stamp /\ v.resolution = 0,
         UNCHANGED <<guest, node, ui, stamp, withdrawn>>
  PROVE  GrantOK'
<1>1. review'[r] = v /\ \A k \in Requests : k # r => review'[k] = review[k]
  BY DEF GrantOK, GrantTypeOK
<1>2. GrantTypeOK'
  BY DEF GrantOK, GrantTypeOK
<1>3. Drawn'
  BY <1>1 DEF GrantOK, Drawn
<1>4. Seen'
  BY <1>1 DEF GrantOK, Seen, InForce
<1>5. Held'
  BY DEF GrantOK, Held
<1> QED  BY <1>2, <1>3, <1>4, <1>5 DEF GrantOK

LEMMA NoReviews ==
  ASSUME CancelReviews
  PROVE  review' \in [Requests -> {None}]
BY DEF CancelReviews

LEMMA AddGuestOK ==
  ASSUME GrantOK, AddGuest
  PROVE  GrantOK'
<1>0. /\ guest = None /\ stamp' = stamp + 1 /\ UNCHANGED <<node, review, ui, withdrawn>>
      /\ stamp \in Nat
  BY DEF AddGuest, Draw, GrantOK, GrantTypeOK
<1>1. /\ guest' \in Guest /\ guest'.revision = stamp /\ guest'.grants = {}
  BY <1>0 DEF AddGuest, Fresh, Guest
<1>2. GrantTypeOK'
  BY <1>0, <1>1 DEF GrantOK, GrantTypeOK
<1>3. Drawn'
  BY <1>0, <1>1 DEF GrantOK, GrantTypeOK, Drawn, Review, Page
<1>4. Seen'
  BY <1>0, <1>1 DEF GrantOK, Drawn, Seen, InForce
<1>5. Held'
  BY <1>1 DEF Held
<1> QED  BY <1>2, <1>3, <1>4, <1>5 DEF GrantOK

LEMMA RemoveGuestOK ==
  ASSUME GrantOK, RemoveGuest
  PROVE  GrantOK'
<1>0. /\ guest' = None /\ review' \in [Requests -> {None}] /\ UNCHANGED <<node, ui, stamp>>
      /\ guest \in Guest
      /\ withdrawn' = withdrawn \cup {g.id : g \in guest.grants}
  BY NoReviews DEF RemoveGuest, GrantOK, GrantTypeOK
<1>1. guest.grants \in SUBSET Grant /\ \A g \in guest.grants : g.id \in Nat /\ g.id < stamp
  BY DEF RemoveGuest, GrantOK, GrantTypeOK, Drawn, Guest, Grant
<1>2. GrantTypeOK'
  <2>1. withdrawn' \in SUBSET Nat
    BY <1>0, <1>1 DEF GrantOK, GrantTypeOK
  <2> QED  BY <1>0, <2>1 DEF GrantOK, GrantTypeOK
<1>3. Drawn'
  BY <1>0, <1>1 DEF GrantOK, Drawn
<1>4. Seen' /\ Held'
  BY <1>0 DEF Seen, InForce, Held
<1> QED  BY <1>2, <1>3, <1>4 DEF GrantOK

\* The guest's record changes in what no permission depends on.
LEMMA GuestMoves ==
  ASSUME GrantOK, guest # None, guest \in Guest, guest' \in Guest, guest'.grants = guest.grants,
         guest'.revision = guest.revision, stamp' \in {stamp, stamp + 1},
         review' = review \/ review' \in [Requests -> {None}], UNCHANGED <<node, ui, withdrawn>>
  PROVE  GrantOK'
<1>0. /\ stamp \in Nat /\ guest.revision \in Nat /\ \A i \in withdrawn : i \in Nat
      /\ \A g \in guest.grants : g.id \in Nat
      /\ \A r \in Requests : review[r] # None => review[r].revision \in Nat
      /\ ui # None /\ ui.pc = "resolving" => ui.revision \in Nat
  BY DEF GrantOK, GrantTypeOK, Guest, Grant, Review, Page
<1>1. GrantTypeOK'
  BY <1>0 DEF GrantOK, GrantTypeOK
<1>2. Drawn'
  BY <1>0 DEF GrantOK, Drawn
<1>3. Seen'
  BY DEF GrantOK, Seen, InForce
<1>4. Held'
  BY DEF GrantOK, Held
<1> QED  BY <1>1, <1>2, <1>3, <1>4 DEF GrantOK

LEMMA GuestIs ==
  ASSUME GrantOK, guest # None
  PROVE  /\ guest \in Guest /\ guest.grants \in SUBSET Grant
         /\ guest.epoch \in Nat /\ guest.revision \in Nat /\ guest.revision < stamp
         /\ \A g \in guest.grants : g.id \in Nat /\ g.id < stamp /\ g.id \notin withdrawn
         /\ stamp \in Nat
BY DEF GrantOK, GrantTypeOK, Drawn, Held, Guest, Grant

LEMMA SetKilledOK ==
  ASSUME GrantOK, NEW killed \in BOOLEAN, SetKilled(killed)
  PROVE  GrantOK'
<1>1. /\ guest # None /\ stamp' = stamp + 1 /\ review' \in [Requests -> {None}]
      /\ UNCHANGED <<node, ui, withdrawn>>
  BY NoReviews DEF SetKilled, Draw
<1>2. guest' = [guest EXCEPT !.killed = killed, !.epoch = stamp]
  BY DEF SetKilled
<1>3. guest' \in Guest /\ guest'.grants = guest.grants /\ guest'.revision = guest.revision
  BY <1>1, <1>2, GuestIs DEF Guest
<1> QED  BY <1>1, <1>3, GuestIs, GuestMoves

LEMMA SetClineAccessOK ==
  ASSUME GrantOK, NEW access \in {"basic", "full"}, SetClineAccess(access)
  PROVE  GrantOK'
<1>1. guest # None /\ UNCHANGED <<node, review, ui, stamp, withdrawn>>
  BY DEF SetClineAccess
<1>2. guest' = [guest EXCEPT !.access = access]
  BY DEF SetClineAccess
<1>3. guest' \in Guest /\ guest'.grants = guest.grants /\ guest'.revision = guest.revision
  BY <1>1, <1>2, GuestIs DEF Guest
<1> QED  BY <1>1, <1>3, GuestIs, GuestMoves

LEMMA RevokeOK ==
  ASSUME GrantOK, guest # None, NEW g \in guest.grants, RevokeCommentPermission(g)
  PROVE  GrantOK'
<1>0. stamp' = stamp + 1 /\ withdrawn' = withdrawn \cup {g.id} /\ UNCHANGED <<node, review, ui>>
  BY DEF RevokeCommentPermission, Draw
<1>1. /\ guest' \in Guest /\ guest'.grants = guest.grants \ {g} /\ guest'.revision = stamp
  BY GuestIs DEF RevokeCommentPermission, Guest
<1>2. GrantTypeOK'
  <2>1. g.id \in Nat /\ stamp \in Nat
    BY GuestIs
  <2>2. withdrawn \in SUBSET Nat
    BY DEF GrantOK, GrantTypeOK
  <2>3. \A i \in withdrawn' : i \in Nat
    BY <1>0, <2>1, <2>2
  <2>4. withdrawn' \in SUBSET Nat /\ stamp' \in Nat
    BY <1>0, <2>1, <2>3
  <2> QED  BY <1>0, <1>1, <2>4 DEF GrantOK, GrantTypeOK
<1>3. Drawn'
  <2>1. /\ \A r \in Requests : review[r] # None => review[r].revision \in Nat
        /\ ui # None /\ ui.pc = "resolving" => ui.revision \in Nat
        /\ \A i \in withdrawn : i \in Nat
    BY DEF GrantOK, GrantTypeOK, Review, Page
  <2> QED  BY <1>0, <1>1, <2>1, GuestIs DEF GrantOK, Drawn
<1>4. Seen'
  <2>1. \A r \in Requests : review[r] # None => review[r].revision # stamp
    BY GuestIs DEF GrantOK, GrantTypeOK, Drawn, Review
  <2>2. ui # None /\ ui.pc = "resolving" => ui.revision # stamp
    BY GuestIs DEF GrantOK, GrantTypeOK, Drawn, Page
  <2> QED  BY <1>0, <1>1, <2>1, <2>2 DEF Seen, InForce
<1>5. Held'
  BY <1>0, <1>1 DEF GrantOK, Held
<1> QED  BY <1>2, <1>3, <1>4, <1>5 DEF GrantOK

LEMMA TransferOK ==
  ASSUME GrantOK, NEW t \in Targets, Transfer(t)
  PROVE  GrantOK'
<1>1. node' = t /\ UNCHANGED <<guest, review, ui, stamp, withdrawn>>
  BY DEF Transfer
<1> QED  BY <1>1 DEF GrantOK, GrantTypeOK, Drawn, Seen, InForce, Held

LEMMA PageMoves ==
  ASSUME GrantOK, UNCHANGED <<guest, node, review, stamp, withdrawn>>, ui' \in Page \cup {None},
         ui' # None /\ ui'.pc = "resolving" =>
           /\ guest # None /\ ui'.revision = guest.revision /\ ui'.withdrawn = withdrawn
  PROVE  GrantOK'
<1>1. GrantTypeOK' /\ Drawn'
  BY DEF GrantOK, GrantTypeOK, Drawn
<1>2. Seen' /\ Held'
  BY DEF GrantOK, Seen, InForce, Held
<1> QED  BY <1>1, <1>2 DEF GrantOK

LEMMA ReviewIs ==
  ASSUME GrantOK, NEW r \in Requests, review[r] # None
  PROVE  review[r] \in Review
BY DEF GrantOK, GrantTypeOK

LEMMA ResolveStartOK ==
  ASSUME GrantOK, NEW r \in Requests, ResolveStart(r)
  PROVE  GrantOK'
<1>1. /\ guest # None /\ UNCHANGED <<guest, node, review, stamp, withdrawn>> /\ review[r] # None
      /\ ui' = [pc |-> "resolving", request |-> r, binding |-> review[r].binding,
                revision |-> guest.revision, withdrawn |-> withdrawn]
  BY DEF ResolveStart
<1>2. review[r].binding \in Binding \cup {None} /\ withdrawn \in SUBSET Nat
  BY <1>1, ReviewIs DEF Review, GrantOK, GrantTypeOK
<1>3. ui' \in Page /\ ui'.revision = guest.revision /\ ui'.withdrawn = withdrawn
  BY <1>1, <1>2, GuestIs DEF Page
<1> QED  BY <1>1, <1>3, PageMoves

LEMMA GrantStartOK ==
  ASSUME GrantOK, NEW r \in Requests, GrantStart(r)
  PROVE  GrantOK'
<1>1. /\ UNCHANGED <<guest, node, review, stamp, withdrawn>> /\ review[r] # None
      /\ review[r].resolution > 0
      /\ ui' = [pc |-> "granting", request |-> r, binding |-> review[r].binding,
                resolution |-> review[r].resolution, target |-> review[r].target]
  BY DEF GrantStart
<1>2. ui' \in Page /\ ui'.pc = "granting"
  BY <1>1, ReviewIs DEF Page, Review
<1> QED  BY <1>1, <1>2, PageMoves

LEMMA ResolveEndOK ==
  ASSUME GrantOK, ResolveEnd
  PROVE  GrantOK'
<1>1. /\ ui # None /\ ui.pc = "resolving" /\ ui' = None
      /\ UNCHANGED <<guest, node, stamp, withdrawn>>
  BY DEF ResolveEnd, UiDone
<1>2. /\ ui.request \in Requests /\ ui.revision \in Nat /\ ui.withdrawn \in SUBSET Nat
      /\ node \in Targets /\ ui.revision < stamp
      /\ InForce(ui.revision) => ui.withdrawn = withdrawn
  BY <1>1 DEF GrantOK, GrantTypeOK, Drawn, Seen, Page
<1>3. CASE review' = review
  BY <1>1, <1>3, PageMoves
<1>4. CASE /\ review[ui.request] # None
           /\ review' = [review EXCEPT ![ui.request] = Resolved(ui.request, node)]
  <2>1. PICK r \in Requests : r = ui.request
    BY <1>2
  <2>2. PICK v : v = Resolved(r, node)
    OBVIOUS
  <2>3. PICK context \in Review : context = review[r]
    BY <1>4, <2>1, ReviewIs
  <2>4. v \in Review /\ v.revision = ui.revision /\ v.seen = ui.withdrawn
    <3>1. v = [context EXCEPT !.target = node, !.resolution = context.resolution + 1,
                              !.revision = ui.revision, !.seen = ui.withdrawn]
      BY <2>2, <2>3 DEF Resolved
    <3>2. context.resolution + 1 \in Nat
      BY <2>3 DEF Review
    <3> QED  BY <1>2, <3>1, <3>2 DEF Review
  <2>5. review'[r] = v /\ \A k \in Requests : k # r => review'[k] = review[k]
    BY <1>4, <2>1, <2>2 DEF GrantOK, GrantTypeOK
  <2>6. GrantTypeOK'
    BY <1>1, <1>4, <2>1, <2>2, <2>4 DEF GrantOK, GrantTypeOK
  <2>7. Drawn'
    BY <1>1, <1>2, <2>4, <2>5 DEF GrantOK, Drawn
  <2>8. Seen'
    BY <1>1, <1>2, <2>4, <2>5 DEF GrantOK, Seen, InForce
  <2>9. Held'
    BY <1>1 DEF GrantOK, Held
  <2> QED  BY <2>6, <2>7, <2>8, <2>9 DEF GrantOK
<1> QED  BY <1>3, <1>4 DEF ResolveEnd

\* What the host saw when it looked is what is saved.
LEMMA GrantEndOK ==
  ASSUME GrantOK, GrantEnd
  PROVE  /\ GrantOK'
         /\ \/ guest' = guest
            \/ guest # None /\ \A g \in guest'.grants \ guest.grants : g.seen = withdrawn
<1>1. /\ ui # None /\ ui.pc = "granting" /\ ui' = None /\ UNCHANGED <<node, review, withdrawn>>
  BY DEF GrantEnd, UiDone
<1>2. CASE UNCHANGED <<guest, stamp>>
  BY <1>1, <1>2, PageMoves
<1>3. CASE ~UNCHANGED <<guest, stamp>>
  <2>1. PICK r \in Requests : r = ui.request /\ ui.resolution \in Nat \ {0}
    BY <1>1 DEF GrantOK, GrantTypeOK, Page
  <2>2. PICK context : context = review[r]
    OBVIOUS
  <2>3. /\ node = ui.target /\ context # None /\ context.resolution = ui.resolution
        /\ Grantable(context) /\ Draw
        /\ guest' = [guest EXCEPT
             !.revision = stamp,
             !.grants = {g \in guest.grants : g.binding # context.binding}
               \cup {[id |-> stamp, target |-> node, binding |-> context.binding,
                      seen |-> context.seen]}]
    BY <1>3, <2>1, <2>2 DEF GrantEnd
  <2>4. PICK new : new = [id |-> stamp, target |-> node, binding |-> context.binding,
                          seen |-> context.seen]
    OBVIOUS
  <2>5. guest # None /\ context \in Review /\ node \in Targets /\ stamp' = stamp + 1
    BY <2>2, <2>3, ReviewIs DEF Grantable, Draw, GrantOK, GrantTypeOK
  <2>6. new \in Grant /\ new.id = stamp /\ new.seen = context.seen
    BY <2>4, <2>5, GuestIs DEF Grant, Review
  <2>7. context.seen = withdrawn
    BY <2>1, <2>2, <2>3, <2>5 DEF GrantOK, Seen, InForce, Grantable, Review
  <2>8. PICK kept : /\ kept \in SUBSET guest.grants
                    /\ guest' = [guest EXCEPT !.revision = stamp, !.grants = kept \cup {new}]
    BY <2>3, <2>4
  <2>9. /\ guest' \in Guest /\ guest'.grants = kept \cup {new} /\ guest'.revision = stamp
    BY <2>5, <2>6, <2>8, GuestIs DEF Guest
  <2>10. GrantTypeOK'
    BY <1>1, <2>5, <2>9, GuestIs DEF GrantOK, GrantTypeOK
  <2>11. Drawn'
    <3>1. /\ \A k \in Requests : review[k] # None => review[k].revision \in Nat
          /\ \A i \in withdrawn : i \in Nat
      BY DEF GrantOK, GrantTypeOK, Review
    <3> QED  BY <1>1, <2>5, <2>6, <2>8, <2>9, <3>1, GuestIs DEF GrantOK, Drawn
  <2>12. Seen'
    <3>1. \A k \in Requests : review[k] # None => review[k].revision # stamp
      BY <2>5, GuestIs DEF GrantOK, GrantTypeOK, Drawn, Review
    <3> QED  BY <1>1, <2>9, <3>1 DEF Seen, InForce
  <2>13. Held'
    <3>1. \A g \in kept : g.id # stamp /\ g.id \notin withdrawn
      BY <2>5, <2>8, GuestIs
    <3>2. stamp \notin withdrawn
      BY <2>5, GuestIs DEF GrantOK, Drawn
    <3>3. \A g, h \in kept : g.id = h.id => g = h
      BY <2>5, <2>8 DEF GrantOK, Held
    <3> QED  BY <1>1, <2>6, <2>9, <3>1, <3>2, <3>3 DEF Held
  <2>14. guest # None /\ \A g \in guest'.grants \ guest.grants : g.seen = withdrawn
    BY <2>5, <2>6, <2>7, <2>8, <2>9
  <2> QED  BY <2>10, <2>11, <2>12, <2>13, <2>14 DEF GrantOK
<1> QED  BY <1>2, <1>3

LEMMA UiFailsOK ==
  ASSUME GrantOK, UiFails
  PROVE  GrantOK'
BY PageMoves DEF UiFails, UiDone

LEMMA GrantStepOK ==
  ASSUME GrantOK, GrantStep
  PROVE  GrantOK'
<1>1. CASE PolicyStep
  BY <1>1, RemoveGuestOK, SetKilledOK, SetClineAccessOK, RevokeOK DEF PolicyStep
<1>2. CASE \E t \in Targets : Transfer(t)
  BY <1>2, TransferOK
<1>3. CASE ReturnStep
  BY <1>3, AddGuestOK, SetKilledOK DEF ReturnStep
<1>4. CASE PageStep
  BY <1>4, ResolveStartOK, GrantStartOK, ResolveEndOK, GrantEndOK, UiFailsOK DEF PageStep
<1> QED  BY <1>1, <1>2, <1>3, <1>4 DEF GrantStep

LEMMA EarlyStep ==
  ASSUME EarlyOK, NEW tasks, ReadEarly(tasks) \/ ReadsDone(tasks) \/ UNCHANGED early
  PROVE  EarlyOK'
<1>1. Sessions \in Loaded /\ None \in Loaded
  BY DEF Sessions, Loaded
<1>2. CASE ReadEarly(tasks)
  <2>1. PICK some : early' = [t \in Tasks |-> IF t \in some THEN Sessions ELSE early[t]]
    BY <1>2 DEF ReadEarly
  <2> QED  BY <1>1, <2>1 DEF EarlyOK
<1>3. CASE ReadsDone(tasks)
  BY <1>1, <1>3 DEF ReadsDone, EarlyOK
<1>4. CASE UNCHANGED early
  BY <1>4 DEF EarlyOK
<1> QED  BY <1>2, <1>3, <1>4

LEMMA GrantsUnchanged == GrantOK /\ UNCHANGED grantVars => GrantOK'
BY DEF grantVars, GrantOK, GrantTypeOK, Drawn, Seen, InForce, Held

LEMMA GrantInitOK == GrantInit => GrantOK /\ EarlyOK
<1> SUFFICES ASSUME GrantInit PROVE GrantOK /\ EarlyOK
  OBVIOUS
<1>1. /\ guest \in Guest /\ guest.revision = 1 /\ guest.grants = {} /\ stamp = 2 /\ withdrawn = {}
      /\ ui = None /\ \A r \in Requests : review[r] = None
  BY DEF GrantInit, Guest
<1>2. GrantTypeOK
  BY <1>1 DEF GrantInit, GrantTypeOK
<1>3. EarlyOK
  <2>1. early = [t \in Tasks |-> None]
    BY DEF GrantInit
  <2>2. None \in Loaded
    BY DEF Loaded
  <2> QED  BY <2>1, <2>2 DEF EarlyOK
<1> QED  BY <1>1, <1>2, <1>3 DEF GrantOK, Drawn, Seen, Held

-----------------------------------------------------------------------------
(* The handlers *)

\* Whatever is used of a permission is what was given.
Granted(p, q) ==
  q.used # None =>
    \/ p.used = q.used
    \/ /\ q.used.id \notin withdrawn /\ q.used.target = node
       /\ q.used.binding.real = q.value

\* Whatever value it takes to send has the prefix it should have, unless its
\* sessions were read early.
Sent(r, p, q) == q.value # None /\ p.value = None /\ early[r] = None => Honest(q.value)

\* Handler r goes on as q: what it has to know of the step.
Goes(r, q) ==
  LET p == request[r]
  IN /\ q \in Handler \cup {Done}
     /\ request' = [request EXCEPT ![r] = q]
     /\ q # Done => /\ p # Done /\ LookupOK(q) /\ Granted(p, q) /\ Sent(r, p, q)
                    /\ r \notin moved => GateHolds(q)
     /\ \/ active' = active /\ (Live(q) <=> Live(p)) /\ (Live(p) => q.host = p.host)
        \/ Live(q) /\ ~Live(p) /\ active' = [active EXCEPT ![q.host] = @ + 1]
        \/ /\ Live(p) /\ ~Live(q)
           /\ active' = [active EXCEPT ![p.host] = IF @ = 0 THEN 0 ELSE @ - 1]

Steps(r) == \E q : Goes(r, q)

LEMMA Phases ==
  /\ \A q \in Handler : q # Idle /\ q # Done /\ q.pc \in Before \cup {"forwarded"}
  /\ Idle # Done /\ ~Live(Idle) /\ ~Live(Done)
BY DEF Handler, Before, Idle, Done, Live

\* A handler that ends before it counts.
LEMMA Ends ==
  ASSUME HandlersOK, NEW r \in Requests, End(r), UNCHANGED active, ~Live(request[r])
  PROVE  Steps(r)
BY Phases DEF End, Goes, Steps

LEMMA GateSteps ==
  ASSUME IInv, NEW r \in Requests, NEW call \in Calls, NEW fake \in Fakes,
         Gate(r, call[1], call[2], fake)
  PROVE  Steps(r)
<1>1. request[r] = Idle /\ UNCHANGED active /\ call[1] \in Hosts /\ call[2] \in Ops
  BY CallAssumption DEF Gate
<1>2. fake \in Nat \cup {None}
  BY DEF Fakes, IInv, EscrowOK, EscrowTypeOK, Entries, Entry
<1>3. CASE End(r)
  BY <1>1, <1>3, Phases, Ends DEF IInv
<1>4. CASE ~End(r)
  <2>1. guest # None /\ ClineAllows(call[1], call[2], guest.access)
    BY <1>4 DEF Gate
  <2>a. PICK pc \in {"review", "substitute"} :
          request' = [request EXCEPT ![r] =
            [pc |-> pc, host |-> call[1], op |-> call[2], fake |-> fake, epoch |-> None,
             access |-> guest.access, binding |-> None, grants |-> {}, used |-> None,
             value |-> None, account |-> FALSE, life |-> Unstarted]]
    BY <1>4 DEF Gate
  <2>2. PICK q :
          /\ q = [pc |-> pc, host |-> call[1], op |-> call[2], fake |-> fake, epoch |-> None,
                  access |-> guest.access, binding |-> None, grants |-> {}, used |-> None,
                  value |-> None, account |-> FALSE, life |-> Unstarted]
          /\ request' = [request EXCEPT ![r] = q]
    BY <2>a
  <2>3. guest.access \in {"basic", "full"}
    BY <2>1, GuestIs DEF Guest, IInv
  <2>4. Unstarted \in Life
    BY DEF Unstarted, Life
  <2>5. q \in Handler
    BY <1>1, <1>2, <2>2, <2>3, <2>4 DEF Handler, Before
  <2>6. /\ q.pc \in {"review", "substitute"} /\ q.host = call[1] /\ q.op = call[2]
        /\ q.access = guest.access /\ q.used = None /\ q.value = None
    BY <2>2
  <2>7. LookupOK(q) /\ ~Live(q) /\ Granted(request[r], q) /\ Sent(r, request[r], q)
    BY <2>6 DEF LookupOK, Live, Granted, Sent
  <2>8. GateHolds(q)
    BY <2>1, <2>6 DEF GateHolds, Matched, ClineAllows, IsClineCredentialHost, Covered
  <2> QED  BY <1>1, <2>2, <2>5, <2>7, <2>8, Phases DEF Goes, Steps
<1> QED  BY <1>3, <1>4

\* The handler waits in the proxy, and goes on waiting there.
LEMMA Waits ==
  ASSUME IInv, NEW r \in Requests, request[r].pc \in Before, NEW q \in Handler,
         request' = [request EXCEPT ![r] = q], UNCHANGED active, q.pc \in Before,
         q.host = request[r].host, q.op = request[r].op, q.access = request[r].access,
         q.fake = request[r].fake \/ q.fake = None,
         LookupOK(q), Granted(request[r], q), Sent(r, request[r], q)
  PROVE  Steps(r)
<1>1. request[r] \in Handler /\ request[r].pc # "forwarded" /\ q.pc # "forwarded"
  BY DEF IInv, HandlersOK, Idle, Done, Before
<1>a. Matched(None) = {}
  BY EscrowAssumption DEF Matched, IInv, EscrowOK, EscrowTypeOK, Entries, Entry
<1>2. r \notin moved => GateHolds(q)
  BY <1>1, <1>a DEF IInv, HandlersOK, GateHolds, Covered
<1>3. ~Live(request[r]) /\ ~Live(q) /\ request[r] # Done
  BY <1>1, Phases DEF Live
<1> QED  BY <1>2, <1>3 DEF Goes, Steps

LEMMA Waiting ==
  ASSUME IInv, NEW r \in Requests, request[r].pc \in Before
  PROVE  request[r] \in Handler /\ ~Live(request[r]) /\ HandlersOK
BY DEF IInv, HandlersOK, Idle, Done, Before, Live

LEMMA CaptureEpochSteps ==
  ASSUME IInv, NEW r \in Requests, CaptureEpoch(r)
  PROVE  Steps(r)
<1>1. PICK p \in Handler : p = request[r] /\ p.pc = "review" /\ ~Live(p)
  BY Waiting DEF CaptureEpoch, Before
<1>2. UNCHANGED active /\ request[r].pc \in Before
  BY <1>1 DEF CaptureEpoch, Before
<1>3. CASE End(r)
  BY <1>1, <1>2, <1>3, Waiting, Ends
<1>4. CASE ~End(r)
  <2>1. PICK q : q = [p EXCEPT !.pc = "collect", !.epoch = guest.epoch]
    OBVIOUS
  <2>2. guest # None /\ request' = [request EXCEPT ![r] = q]
    BY <1>1, <1>4, <2>1 DEF CaptureEpoch
  <2>3. guest.epoch \in Nat
    BY <2>2, GuestIs DEF IInv
  <2>4. /\ q \in Handler /\ q.pc = "collect" /\ q.host = p.host /\ q.op = p.op /\ q.access = p.access
        /\ q.used = p.used /\ q.value = p.value /\ q.fake = p.fake
    BY <1>1, <2>1, <2>3 DEF Handler, Before
  <2>5. LookupOK(q) /\ Granted(p, q) /\ Sent(r, p, q) /\ q.pc \in Before
    BY <2>4 DEF LookupOK, Granted, Sent, Before
  <2> QED  BY <1>1, <1>2, <2>2, <2>4, <2>5, Waits
<1> QED  BY <1>3, <1>4

LEMMA EnqueueSteps ==
  ASSUME IInv, NEW r \in Requests, request[r].pc \in Before, NEW binding, Enqueue(r, binding)
  PROVE  Steps(r)
<1>1. PICK p \in Handler : p = request[r] /\ ~Live(p)
  BY Waiting
<1>2. CASE End(r)
  BY <1>1, <1>2, Waiting, Ends DEF Enqueue
<1>3. CASE ~End(r)
  <2>1. PICK q : q = [p EXCEPT !.pc = "waiting", !.grants = {}, !.binding = None]
    OBVIOUS
  <2>2. request' = [request EXCEPT ![r] = q] /\ UNCHANGED active
    BY <1>1, <1>3, <2>1 DEF Enqueue
  <2>3. /\ q \in Handler /\ q.pc = "waiting" /\ q.host = p.host /\ q.op = p.op
        /\ q.access = p.access /\ q.used = p.used /\ q.value = p.value /\ q.fake = p.fake
    BY <1>1, <2>1 DEF Handler, Before
  <2>4. LookupOK(q) /\ Granted(p, q) /\ Sent(r, p, q) /\ q.pc \in Before
    BY <2>3 DEF LookupOK, Granted, Sent, Before
  <2> QED  BY <1>1, <2>2, <2>3, <2>4, Waits
<1> QED  BY <1>2, <1>3

LEMMA CollectedSteps ==
  ASSUME IInv, NEW r \in Requests, Collected(r)
  PROVE  Steps(r)
<1>1. PICK p \in Handler : p = request[r] /\ p.pc = "collect" /\ ~Live(p)
  BY Waiting DEF Collected, Before
<1>2. request[r].pc \in Before
  BY <1>1 DEF Before
<1>3. CASE \E binding : Enqueue(r, binding)
  BY <1>2, <1>3, EnqueueSteps
<1>4. CASE ~\E binding : Enqueue(r, binding)
  <2>1. PICK binding, grants : binding = CommentCredential(r) /\ grants = PermissionsFor(binding)
    OBVIOUS
  <2>2. PICK q : q = [p EXCEPT !.pc = "lookup", !.binding = binding, !.grants = grants]
    OBVIOUS
  <2>3. binding # None /\ UNCHANGED active /\ request' = [request EXCEPT ![r] = q] /\ grants # {}
    BY <1>1, <1>4, <2>1, <2>2 DEF Collected
  <2>4. binding \in Binding
    <3>1. Matched(p.fake) # {} /\ binding = Credential(Presented(p.fake), SessionsFor(r))
      BY <1>1, <2>1, <2>3 DEF CommentCredential
    <3>2. Presented(p.fake) \in Names
      BY <3>1 DEF Presented, Matched
    <3> QED  BY <2>3, <3>1, <3>2, CredentialOK DEF IInv
  <2>5. grants \in SUBSET Grant /\ \A g \in grants : g.binding = binding
    <3>1. guest # None /\ grants = {g \in guest.grants : g.binding = binding}
      BY <2>1, <2>3 DEF PermissionsFor
    <3> QED  BY <3>1, GuestIs DEF IInv
  <2>6. /\ q \in Handler /\ q.pc = "lookup" /\ q.host = p.host /\ q.op = p.op
        /\ q.access = p.access /\ q.used = p.used /\ q.value = p.value /\ q.fake = p.fake
        /\ q.binding = binding /\ q.grants = grants
    BY <1>1, <2>2, <2>4, <2>5 DEF Handler, Before
  <2>7. LookupOK(q) /\ Granted(p, q) /\ Sent(r, p, q) /\ q.pc \in Before
    BY <2>3, <2>5, <2>6 DEF LookupOK, Granted, Sent, Before
  <2> QED  BY <1>1, <1>2, <2>3, <2>6, <2>7, Waits
<1> QED  BY <1>3, <1>4

LEMMA LookedUpSteps ==
  ASSUME IInv, NEW r \in Requests, NEW found \in BOOLEAN, LookedUp(r, found)
  PROVE  Steps(r)
<1>1. PICK p \in Handler : p = request[r] /\ p.pc = "lookup" /\ ~Live(p)
  BY Waiting DEF LookedUp, Before
<1>2. request[r].pc \in Before
  BY <1>1 DEF Before
<1>3. CASE \E binding : Enqueue(r, binding)
  BY <1>2, <1>3, EnqueueSteps
<1>4. CASE ~\E binding : Enqueue(r, binding)
  <2>1. PICK g \in p.grants :
          /\ AdmitComment(p.epoch, g, node) /\ UNCHANGED active
          /\ Current(p.binding, SessionsFor(r))
          /\ request' = [request EXCEPT ![r].pc = "substitute", ![r].used = g,
                           ![r].value = p.binding.real, ![r].fake = None]
    BY <1>1, <1>4 DEF LookedUp
  <2>2. PICK q : q = [p EXCEPT !.pc = "substitute", !.used = g, !.value = p.binding.real, !.fake = None]
    OBVIOUS
  <2>3. request' = [request EXCEPT ![r] = q]
    BY <1>1, <2>1, <2>2
  <2>4. /\ g.target = node /\ g.id \notin withdrawn /\ g.binding = p.binding
        /\ p.binding \in Binding /\ p.binding # None /\ g \in Grant
    <3>1. LookupOK(p)
      BY <1>1 DEF IInv, HandlersOK
    <3> QED  BY <1>1, <2>1, <3>1, GuestIs DEF AdmitComment, IInv, LookupOK, Handler
  <2>5. p.binding.real \in Real
    BY <2>4 DEF Binding
  <2>6. /\ q \in Handler /\ q.pc = "substitute" /\ q.host = p.host /\ q.op = p.op
        /\ q.access = p.access /\ q.used = g /\ q.value = p.binding.real /\ q.fake = None
    BY <1>1, <2>2, <2>4, <2>5 DEF Handler, Before
  <2>7. LookupOK(q) /\ Granted(p, q) /\ q.pc \in Before
    BY <2>4, <2>6 DEF LookupOK, Granted, Before
  <2>8. Sent(r, p, q)
    <3>1. PICK n \in Names : n = p.binding.entry /\ p.binding = Credential(n, SessionsFor(r))
      BY <2>1, <2>4 DEF Current, Binding
    <3>2. p.binding.real = RealValue(n, SessionsFor(r))
      BY <2>4, <3>1 DEF Credential
    <3> QED  BY <2>6, <3>2, ValueIsHonest DEF Sent, IInv
  <2> QED  BY <1>1, <1>2, <2>1, <2>3, <2>6, <2>7, <2>8, Waits
<1> QED  BY <1>3, <1>4

LEMMA Proceeds ==
  ASSUME IInv, NEW r \in Requests, request[r].pc \in Before, UNCHANGED active,
         NEW pc \in {"admit", "substitute"}, Go(r, pc) \/ End(r)
  PROVE  Steps(r)
<1>1. PICK p \in Handler : p = request[r] /\ ~Live(p)
  BY Waiting
<1>2. CASE End(r)
  BY <1>1, <1>2, Waiting, Ends
<1>3. CASE Go(r, pc)
  <2>1. PICK q : q = [p EXCEPT !.pc = pc] /\ request' = [request EXCEPT ![r] = q]
    BY <1>1, <1>3 DEF Go
  <2>2. /\ q \in Handler /\ q.pc = pc /\ q.host = p.host /\ q.op = p.op
        /\ q.access = p.access /\ q.used = p.used /\ q.value = p.value /\ q.fake = p.fake
    BY <1>1, <2>1 DEF Handler, Before
  <2>3. LookupOK(q) /\ Granted(p, q) /\ Sent(r, p, q) /\ q.pc \in Before
    BY <2>2 DEF LookupOK, Granted, Sent, Before
  <2> QED  BY <1>1, <2>1, <2>2, <2>3, Waits
<1> QED  BY <1>2, <1>3

LEMMA ReviewSteps ==
  ASSUME IInv, NEW r \in Requests, ReviewStep(r)
  PROVE  Steps(r)
<1>1. ASSUME NEW approved \in BOOLEAN, Decided(r, approved)
      PROVE  Steps(r)
  BY <1>1, Proceeds DEF Decided, Before
<1>2. CASE AdmitReview(r)
  BY <1>2, Proceeds DEF AdmitReview, Before
<1>3. CASE HandlerDropped(r)
  BY <1>3, Proceeds DEF HandlerDropped, Before
<1> QED  BY <1>1, <1>2, <1>3, CaptureEpochSteps, CollectedSteps, LookedUpSteps DEF ReviewStep

-----------------------------------------------------------------------------
(* Substitution and what follows *)

LEMMA SubstituteSteps ==
  ASSUME IInv, NEW r \in Requests, NEW body \in BOOLEAN, Substitute(r, body)
  PROVE  Steps(r)
<1>1. PICK p \in Handler : p = request[r] /\ p.pc = "substitute" /\ ~Live(p)
  BY Waiting DEF Substitute, Before
<1>2. PICK how : how = Substitution(p.host, p.fake)
  OBVIOUS
<1>3. CASE how = "block"
  BY <1>1, <1>2, <1>3, Ends DEF Substitute, IInv
<1>4. CASE how # "block"
  <2>1. PICK n, value, account :
          /\ n = Presented(p.fake)
          /\ value = IF how = "replace" THEN RealValue(n, SessionsFor(r)) ELSE p.value
          /\ account = IF how = "replace" THEN IsClineAccount(n) ELSE FALSE
    OBVIOUS
  <2>2. PICK q : q = [p EXCEPT !.pc = "forwarded", !.fake = None, !.epoch = None, !.binding = None,
                               !.grants = {}, !.value = value, !.account = account,
                               !.life = Started(body)]
    OBVIOUS
  <2>3. request' = [request EXCEPT ![r] = q] /\ active' = [active EXCEPT ![p.host] = @ + 1]
    <3>1. how = Substitution(request[r].host, request[r].fake) /\ how # "block"
      BY <1>1, <1>2, <1>4
    <3>2. request' = [request EXCEPT ![r].pc = "forwarded", ![r].fake = None, ![r].epoch = None,
             ![r].binding = None, ![r].grants = {}, ![r].value = value, ![r].account = account,
             ![r].life = Started(body)]
      <4>1. CASE how = "replace"
        <5>1. /\ value = RealValue(Presented(request[r].fake), SessionsFor(r))
              /\ account = IsClineAccount(Presented(request[r].fake))
          BY <1>1, <2>1, <4>1
        <5> QED  BY <3>1, <4>1, <5>1 DEF Substitute
      <4>2. CASE how # "replace"
        <5>1. value = request[r].value /\ account = FALSE
          BY <1>1, <2>1, <4>2
        <5> QED  BY <3>1, <4>2, <5>1 DEF Substitute
      <4> QED  BY <4>1, <4>2
    <3>3. active' = [active EXCEPT ![p.host] = @ + 1]
      BY <1>1, <3>1 DEF Substitute
    <3> QED  BY <1>1, <2>2, <3>2, <3>3
  <2>4. how = "replace" => n \in Names /\ n \in Matched(p.fake) /\ p.host \in entries[n].hosts
    <3>1. how = "replace" => Matched(p.fake) # {}
      BY <1>2 DEF Substitution
    <3>2. how = "replace" => n \in Matched(p.fake)
      BY <2>1, <3>1 DEF Presented
    <3>3. how = "replace" => p.host \in entries[n].hosts
      BY <1>1, <1>2, <2>1, <3>1 DEF Substitution
    <3> QED  BY <3>2, <3>3 DEF Matched
  <2>5. value \in Real \cup {None} /\ account \in BOOLEAN /\ Started(body) \in Life
    <3>1. how = "replace" => RealValue(n, SessionsFor(r)) \in Real
      BY <2>4 DEF RealValue, Real, IInv, EscrowOK, EscrowTypeOK, Secrets
    <3>2. p.value \in Real \cup {None}
      BY <1>1 DEF Handler
    <3>3. Started(body) \in Life
      BY DEF Started, Life
    <3>4. IsClineAccount(n) \in BOOLEAN
      BY DEF IsClineAccount
    <3> QED  BY <1>1, <2>1, <3>1, <3>2, <3>3, <3>4
  <2>6. /\ q \in Handler /\ q.pc = "forwarded" /\ q.host = p.host /\ q.op = p.op
        /\ q.access = p.access /\ q.used = p.used /\ q.account = account /\ q.life = Started(body)
        /\ q.value = value
    BY <1>1, <2>2, <2>5 DEF Handler
  <2>7. Live(q) /\ LookupOK(q) /\ Granted(p, q)
    BY <2>6 DEF Live, Started, LookupOK, Granted
  <2>8. r \notin moved => GateHolds(q)
    <3>1. ASSUME r \notin moved, account PROVE Covered(q)
      <4>1. GateHolds(p)
        BY <1>1, <3>1 DEF IInv, HandlersOK
      <4>2. IsClineAccount(n) /\ n \in Matched(p.fake) /\ p.host \in entries[n].hosts
        BY <2>1, <2>4, <3>1
      <4> QED  BY <1>1, <2>6, <4>1, <4>2 DEF GateHolds, Covered
    <3> QED  BY <2>6, <3>1 DEF GateHolds
  <2>9. Sent(r, p, q)
    BY <2>1, <2>4, <2>6, ValueIsHonest DEF Sent, IInv
  <2> QED  BY <1>1, <2>3, <2>6, <2>7, <2>8, <2>9, Phases DEF Goes, Steps
<1> QED  BY <1>3, <1>4

LEMMA FinishSteps ==
  ASSUME IInv, NEW r \in Requests, request[r].pc = "forwarded",
         NEW owners \in SUBSET {"handler", "body", "response"}, NEW ends \in BOOLEAN,
         Finish(r, owners, ends)
  PROVE  Steps(r)
<1>1. PICK p \in Handler : p = request[r] /\ p.pc = "forwarded" /\ p # Done
  BY Phases DEF IInv, HandlersOK, Idle, Done
<1>2. PICK now \in BOOLEAN : now = (p.life.finished \/ ends \/ owners = {})
  BY <1>1 DEF Handler, Life
<1>3. active' = IF now /\ ~p.life.finished
                THEN [active EXCEPT ![p.host] = IF @ = 0 THEN 0 ELSE @ - 1] ELSE active
  BY <1>1, <1>2 DEF Finish
<1>4. CASE owners = {}
  <2>1. request' = [request EXCEPT ![r] = Done] /\ now
    BY <1>2, <1>4 DEF Finish, End
  <2>2. Live(p) <=> ~p.life.finished
    BY <1>1 DEF Live
  <2> QED  BY <1>1, <1>3, <2>1, <2>2, Phases DEF Goes, Steps
<1>5. CASE owners # {}
  <2>1. PICK q : q = [p EXCEPT !.life = [owners |-> owners, finished |-> now]]
    OBVIOUS
  <2>2. request' = [request EXCEPT ![r] = q]
    BY <1>1, <1>2, <1>5, <2>1 DEF Finish
  <2>3. /\ q \in Handler /\ q.pc = "forwarded" /\ q.host = p.host /\ q.op = p.op
        /\ q.access = p.access /\ q.used = p.used /\ q.account = p.account
        /\ q.value = p.value /\ q.life.finished = now
    BY <1>1, <1>2, <2>1 DEF Handler, Life
  <2>4. LookupOK(q) /\ Granted(p, q) /\ Sent(r, p, q)
    BY <2>3 DEF LookupOK, Granted, Sent
  <2>5. r \notin moved => GateHolds(q)
    BY <1>1, <2>3 DEF IInv, HandlersOK, GateHolds, Covered
  <2>6. (Live(p) <=> ~p.life.finished) /\ (Live(q) <=> ~now) /\ (p.life.finished => now)
    BY <1>1, <1>2, <2>3 DEF Live
  <2> QED  BY <1>1, <1>3, <2>2, <2>3, <2>4, <2>5, <2>6 DEF Goes, Steps
<1> QED  BY <1>4, <1>5

LEMMA UpstreamSteps ==
  ASSUME IInv, NEW r \in Requests, UpstreamStep(r)
  PROVE  Steps(r)
<1>1. CASE \E b \in BOOLEAN : Substitute(r, b)
  BY <1>1, SubstituteSteps
<1>2. CASE ~\E b \in BOOLEAN : Substitute(r, b)
  <2>1. PICK owners \in SUBSET (Owners(r) \cup {"response"}), ends \in BOOLEAN :
          Finish(r, owners, ends) /\ Owners(r) # {}
    <3>1. CASE BodySent(r) \/ HandleResponse(r)
      BY <3>1 DEF BodySent, HandleResponse
    <3>2. ASSUME NEW error \in BOOLEAN, HandlerEnds(r, error)
          PROVE  /\ Finish(r, Owners(r) \ {"handler"}, error) /\ Owners(r) # {}
      BY <3>2 DEF HandlerEnds
    <3>3. ASSUME NEW dropped \in BOOLEAN, ResponseEnds(r, dropped)
          PROVE  /\ Finish(r, Owners(r) \ {"response"}, TRUE) \/ Finish(r, Owners(r), TRUE)
                 /\ Owners(r) # {}
      BY <3>3 DEF ResponseEnds
    <3> QED  BY <1>2, <3>1, <3>2, <3>3 DEF UpstreamStep
  <2>2. request[r].pc = "forwarded" /\ Owners(r) = request[r].life.owners
    BY <2>1 DEF Owners
  <2>3. owners \in SUBSET {"handler", "body", "response"}
    <3>1. request[r] \in Handler
      BY <2>2 DEF IInv, HandlersOK, Idle, Done
    <3> QED  BY <2>1, <2>2, <3>1 DEF Handler, Life
  <2> QED  BY <2>1, <2>2, <2>3, FinishSteps
<1> QED  BY <1>1, <1>2

-----------------------------------------------------------------------------
(* What a step leaves of the gate's answers and of the counters *)

LEMMA GateKept ==
  ASSUME NEW r \in Requests, NEW q, request'[r] = q, ~Touched(q.fake), GateHolds(q)
  PROVE  GateHolds(request[r])'
<1>1. ASSUME NEW n \in Names, entries'[n] # None, entries'[n].fake = q.fake
      PROVE  entries'[n] = entries[n] /\ (n \in Sessions' <=> n \in Sessions)
  BY <1>1 DEF Touched
<1>2. ASSUME NEW n \in Names, entries'[n] # None, entries'[n].fake = q.fake
      PROVE  n \in Matched(q.fake) /\ (IsClineAccount(n)' <=> IsClineAccount(n))
  BY <1>1, <1>2 DEF Matched, IsClineAccount, IsClineEntry, Sessions
<1> QED  BY <1>1, <1>2 DEF GateHolds, Covered, Matched

LEMMA NothingTouched ==
  ASSUME UNCHANGED <<entries, secrets>>, NEW fake
  PROVE  ~Touched(fake)
BY DEF Touched, Sessions

LEMMA HandlersFrame ==
  ASSUME HandlersOK, UNCHANGED request, RecordMoves
  PROVE  HandlersOK'
<1>1. ASSUME NEW r \in Requests, request[r] \in Handler
      PROVE  LookupOK(request[r])' /\ (r \notin moved' => GateHolds(request[r])')
  <2>1. PICK q : q = request[r] /\ request'[r] = q
    OBVIOUS
  <2>2. LookupOK(q) /\ (r \notin moved => GateHolds(q))
    BY <1>1, <2>1 DEF HandlersOK
  <2>3. LookupOK(request[r])'
    BY <2>1, <2>2 DEF LookupOK
  <2>4. ASSUME r \notin moved' PROVE GateHolds(request[r])'
    <3>1. r \notin moved /\ ~Touched(q.fake)
      BY <1>1, <2>1, <2>4, Phases DEF RecordMoves, Touched
    <3> QED  BY <2>1, <2>2, <3>1, GateKept
  <2> QED  BY <2>3, <2>4
<1> QED  BY <1>1 DEF HandlersOK

LEMMA HandlersGo ==
  ASSUME IInv, NEW r \in Requests, NEW q, Goes(r, q), UNCHANGED escrowVars, RecordMoves
  PROVE  HandlersOK'
<1>1. request \in [Requests -> Handler \cup {Idle, Done}]
  BY DEF IInv, HandlersOK
<1>2. q \in Handler \cup {Done} /\ request' = [request EXCEPT ![r] = q]
  BY DEF Goes
<1>3. request'[r] = q /\ \A k \in Requests : k # r => request'[k] = request[k]
  BY <1>1, <1>2
<1>4. /\ UNCHANGED <<entries, secrets>>
      /\ \A k \in moved \cap Requests : request'[k] \in {Idle, Done} \/ k \in moved'
  BY DEF RecordMoves, escrowVars, settingsVars
<1>5. ASSUME NEW k \in Requests, request'[k] \in Handler
      PROVE  LookupOK(request[k])' /\ (k \notin moved' => GateHolds(request[k])')
  <2>1. PICK x : x = request'[k] /\ x # Done
    BY <1>5, Phases
  <2>2. LookupOK(x) /\ (k \notin moved => GateHolds(x))
    <3>1. CASE k = r
      BY <1>3, <2>1, <3>1 DEF Goes
    <3>2. CASE k # r
      BY <1>3, <1>5, <2>1, <3>2 DEF IInv, HandlersOK
    <3> QED  BY <3>1, <3>2
  <2>3. LookupOK(request[k])'
    BY <2>1, <2>2 DEF LookupOK
  <2>4. k \notin moved' => k \notin moved
    BY <1>4, <1>5, Phases
  <2> QED  BY <1>4, <2>1, <2>2, <2>3, <2>4, GateKept, NothingTouched
<1>6. request' \in [Requests -> Handler \cup {Idle, Done}]
  BY <1>1, <1>2
<1> QED  BY <1>5, <1>6 DEF HandlersOK

LEMMA LiveIsFinite ==
  ASSUME NEW h
  PROVE  IsFiniteSet(LiveAt(h)) /\ Cardinality(LiveAt(h)) \in Nat
<1>1. IsFiniteSet(LiveAt(h))
  BY GrantAssumption, FS_Subset DEF LiveAt
<1> QED  BY <1>1, FS_CardinalityType

LEMMA CountersGo ==
  ASSUME IInv, NEW r \in Requests, NEW q, Goes(r, q)
  PROVE  CountersOK'
<1>1. /\ request \in [Requests -> Handler \cup {Idle, Done}]
      /\ active \in [Hosts -> Nat] /\ \A h \in Hosts : active[h] = Cardinality(LiveAt(h))
  BY DEF IInv, HandlersOK, CountersOK
<1>2. PICK p : p = request[r]
  OBVIOUS
<1>3. request'[r] = q /\ \A k \in Requests : k # r => request'[k] = request[k]
  BY <1>1 DEF Goes
<1>4. ASSUME NEW h \in Hosts
      PROVE  \A k : k \in LiveAt(h)' <=> IF k = r THEN Live(q) /\ q.host = h ELSE k \in LiveAt(h)
  BY <1>3 DEF LiveAt, Live
<1>5. ASSUME NEW h \in Hosts
      PROVE  r \in LiveAt(h) <=> Live(p) /\ p.host = h
  BY <1>2 DEF LiveAt
<1>6. (Live(p) => p.host \in Hosts) /\ (Live(q) => q.host \in Hosts)
  BY <1>1, <1>2, Phases DEF Goes, Handler
<1>7. CASE active' = active /\ (Live(q) <=> Live(p)) /\ (Live(p) => q.host = p.host)
  <2>1. \A h \in Hosts : LiveAt(h)' = LiveAt(h)
    BY <1>4, <1>5, <1>7
  <2> QED  BY <1>1, <1>7, <2>1 DEF CountersOK
<1>8. CASE Live(q) /\ ~Live(p) /\ active' = [active EXCEPT ![q.host] = @ + 1]
  <2>1. LiveAt(q.host)' = LiveAt(q.host) \cup {r} /\ r \notin LiveAt(q.host)
    BY <1>4, <1>5, <1>6, <1>8
  <2>2. Cardinality(LiveAt(q.host)') = Cardinality(LiveAt(q.host)) + 1
    BY <2>1, LiveIsFinite, FS_AddElement
  <2>3. \A h \in Hosts : h # q.host => LiveAt(h)' = LiveAt(h)
    BY <1>4, <1>5, <1>8
  <2>4. active' \in [Hosts -> Nat] /\ active'[q.host] = active[q.host] + 1
    BY <1>1, <1>6, <1>8
  <2>5. \A h \in Hosts : h # q.host => active'[h] = active[h]
    BY <1>1, <1>8
  <2>6. \A h \in Hosts : active'[h] = Cardinality(LiveAt(h)')
    BY <1>1, <2>2, <2>3, <2>4, <2>5
  <2> QED  BY <2>4, <2>6 DEF CountersOK
<1>9. CASE /\ Live(p) /\ ~Live(q)
           /\ active' = [active EXCEPT ![p.host] = IF @ = 0 THEN 0 ELSE @ - 1]
  <2>1. LiveAt(p.host)' = LiveAt(p.host) \ {r} /\ r \in LiveAt(p.host)
    BY <1>4, <1>5, <1>6, <1>9
  <2>2. Cardinality(LiveAt(p.host)') = Cardinality(LiveAt(p.host)) - 1
    BY <2>1, LiveIsFinite, FS_RemoveElement
  <2>3. \A h \in Hosts : h # p.host => LiveAt(h)' = LiveAt(h)
    BY <1>4, <1>5, <1>9
  <2>4. active[p.host] # 0
    <3>1. LiveAt(p.host) # {}
      BY <2>1
    <3> QED  BY <1>1, <1>6, <1>9, <3>1, LiveIsFinite, FS_EmptySet
  <2>5. active' \in [Hosts -> Nat] /\ active'[p.host] = active[p.host] - 1
    BY <1>1, <1>6, <1>9, <2>4
  <2>6. \A h \in Hosts : h # p.host => active'[h] = active[h]
    BY <1>1, <1>9
  <2>7. \A h \in Hosts : active'[h] = Cardinality(LiveAt(h)')
    BY <1>1, <2>2, <2>3, <2>5, <2>6
  <2> QED  BY <2>5, <2>7 DEF CountersOK
<1> QED  BY <1>2, <1>7, <1>8, <1>9 DEF Goes

-----------------------------------------------------------------------------
(* What a handler does to the waiting reviews *)

LEMMA EnqueueGrants ==
  ASSUME IInv, NEW r \in Requests, NEW binding \in Binding \cup {None}, Enqueue(r, binding)
  PROVE  GrantOK'
<1>1. /\ review' = [review EXCEPT ![r] = Enqueued(r, binding)]
      /\ UNCHANGED <<guest, node, ui, stamp, withdrawn>>
  BY DEF Enqueue
<1>2. CASE guest = None \/ guest.killed \/ guest.epoch # request[r].epoch
  BY <1>1, <1>2, ReviewMoves DEF Enqueued, IInv
<1>3. CASE ~(guest = None \/ guest.killed \/ guest.epoch # request[r].epoch)
  <2>1. PICK v : v = [binding |-> binding, epoch |-> request[r].epoch, revision |-> guest.revision,
                      target |-> None, resolution |-> 0, seen |-> {}]
    OBVIOUS
  <2>2. request[r].epoch \in Nat /\ guest.revision \in Nat /\ guest.revision < stamp
    BY <1>3, GuestIs DEF IInv
  <2>3. v \in Review /\ v.revision < stamp /\ v.resolution = 0
    BY <2>1, <2>2 DEF Review
  <2>4. review' = [review EXCEPT ![r] = v]
    BY <1>1, <1>3, <2>1 DEF Enqueued
  <2> QED  BY <1>1, <2>3, <2>4, ReviewMoves DEF IInv
<1> QED  BY <1>2, <1>3

LEMMA CommentCredentialOK ==
  ASSUME IInv, NEW r \in Requests
  PROVE  CommentCredential(r) \in Binding \cup {None}
<1>1. CASE request[r].op # "comment" \/ Matched(request[r].fake) = {}
  BY <1>1 DEF CommentCredential
<1>2. CASE ~(request[r].op # "comment" \/ Matched(request[r].fake) = {})
  <2>1. Presented(request[r].fake) \in Names
    BY <1>2 DEF Presented, Matched
  <2> QED  BY <1>2, <2>1, CredentialOK DEF CommentCredential, IInv
<1> QED  BY <1>1, <1>2

LEMMA TakenBack ==
  ASSUME IInv, NEW r \in Requests, review' = [review EXCEPT ![r] = None],
         UNCHANGED <<guest, node, ui, stamp, withdrawn>>
  PROVE  GrantOK'
BY ReviewMoves DEF IInv

LEMMA ReviewGrants ==
  ASSUME IInv, NEW r \in Requests, ReviewStep(r)
  PROVE  GrantOK' /\ UNCHANGED guest
<1>0. ASSUME UNCHANGED grantVars PROVE GrantOK' /\ UNCHANGED guest
  BY <1>0, GrantsUnchanged DEF IInv, grantVars
<1>1. CASE CaptureEpoch(r)
  BY <1>0, <1>1 DEF CaptureEpoch
<1>2. CASE Collected(r)
  <2>1. UNCHANGED grantVars \/ Enqueue(r, CommentCredential(r))
    BY <1>2 DEF Collected
  <2>2. ASSUME Enqueue(r, CommentCredential(r)) PROVE GrantOK' /\ UNCHANGED guest
    BY <2>2, CommentCredentialOK, EnqueueGrants DEF Enqueue
  <2> QED  BY <1>0, <2>1, <2>2
<1>3. CASE AdmitReview(r)
  BY <1>0, <1>3 DEF AdmitReview
<1>4. CASE HandlerDropped(r)
  BY <1>4, TakenBack DEF HandlerDropped
<1>5. ASSUME NEW found \in BOOLEAN, LookedUp(r, found)
      PROVE  GrantOK' /\ UNCHANGED guest
  <2>1. request[r].pc = "lookup" /\ (UNCHANGED grantVars \/ Enqueue(r, request[r].binding))
    BY <1>5 DEF LookedUp
  <2>2. request[r].binding \in Binding \cup {None}
    <3>1. request[r] \in Handler
      BY <2>1, Waiting DEF Before
    <3> QED  BY <3>1 DEF Handler
  <2>3. ASSUME Enqueue(r, request[r].binding) PROVE GrantOK' /\ UNCHANGED guest
    BY <2>2, <2>3, EnqueueGrants DEF Enqueue
  <2> QED  BY <1>0, <2>1, <2>3
<1>6. ASSUME NEW approved \in BOOLEAN, Decided(r, approved)
      PROVE  GrantOK' /\ UNCHANGED guest
  BY <1>6, TakenBack DEF Decided
<1> QED  BY <1>1, <1>2, <1>3, <1>4, <1>5, <1>6 DEF ReviewStep

LEMMA UpstreamGrants ==
  ASSUME IInv, NEW r \in Requests, UpstreamStep(r)
  PROVE  UNCHANGED grantVars
BY DEF UpstreamStep, Substitute, BodySent, HandleResponse, HandlerEnds, ResponseEnds

LEMMA HandlerStepOK ==
  ASSUME IInv, NEW r \in Requests, HandlerStep(r)
  PROVE  GrantOK' /\ UNCHANGED guest /\ Steps(r)
<1>0. ASSUME UNCHANGED grantVars PROVE GrantOK' /\ UNCHANGED guest
  BY <1>0, GrantsUnchanged DEF IInv, grantVars
<1>2. CASE ReviewStep(r)
  BY <1>2, ReviewGrants, ReviewSteps
<1>3. CASE UpstreamStep(r)
  BY <1>0, <1>3, UpstreamGrants, UpstreamSteps
<1>4. CASE /\ \E call \in Calls, fake \in Fakes : Gate(r, call[1], call[2], fake)
           /\ UNCHANGED grantVars
  BY <1>0, <1>4, GateSteps
<1> QED  BY <1>2, <1>3, <1>4 DEF HandlerStep

-----------------------------------------------------------------------------
(* A start of the broker *)

LEMMA RestartGrants ==
  ASSUME IInv, Restart
  PROVE  GrantOK'
<1>1. /\ stamp' = stamp + 1 /\ ui' = None /\ review' \in [Requests -> {None}]
      /\ UNCHANGED <<node, withdrawn>>
  BY NoReviews DEF Restart, Draw, UiDone
<1>2. CASE guest = None
  <2>1. guest' = None /\ stamp \in Nat /\ \A i \in withdrawn : i \in Nat /\ i < stamp
    BY <1>2 DEF Restart, IInv, GrantOK, GrantTypeOK, Drawn
  <2>2. GrantTypeOK' /\ Drawn'
    BY <1>1, <2>1 DEF IInv, GrantOK, GrantTypeOK, Drawn
  <2> QED  BY <1>1, <2>1, <2>2 DEF GrantOK, Seen, Held
<1>3. CASE guest # None
  <2>1. guest' = [guest EXCEPT !.epoch = stamp, !.revision = stamp]
    BY <1>3 DEF Restart
  <2>2. guest' \in Guest /\ guest'.grants = guest.grants /\ guest'.revision = stamp
    BY <1>3, <2>1, GuestIs DEF Guest, IInv
  <2>3. GrantTypeOK'
    BY <1>1, <1>3, <2>2, GuestIs DEF IInv, GrantOK, GrantTypeOK
  <2>4. Drawn'
    <3>1. \A i \in withdrawn : i \in Nat
      BY DEF IInv, GrantOK, GrantTypeOK
    <3> QED  BY <1>1, <1>3, <2>2, <3>1, GuestIs DEF IInv, GrantOK, Drawn
  <2>5. Seen'
    BY <1>1 DEF Seen
  <2>6. Held'
    BY <1>1, <1>3, <2>2 DEF IInv, GrantOK, Held
  <2> QED  BY <2>3, <2>4, <2>5, <2>6 DEF GrantOK
<1> QED  BY <1>2, <1>3

LEMMA RestartEmpties ==
  ASSUME IInv, Restart
  PROVE  HandlersOK' /\ CountersOK'
<1>1. request' \in [Requests -> {Idle, Done}] /\ active' = [h \in Hosts |-> 0]
  BY DEF Restart
<1>2. HandlersOK'
  BY <1>1, Phases DEF HandlersOK
<1>3. ASSUME NEW h \in Hosts
      PROVE  LiveAt(h)' = {}
  <2>1. \A r \in Requests : ~Live(request'[r])
    BY <1>1, Phases
  <2> QED  BY <2>1 DEF LiveAt, Live
<1>4. \A h \in Hosts : active'[h] = Cardinality(LiveAt(h)')
  BY <1>1, <1>3, FS_EmptySet
<1>5. active' \in [Hosts -> Nat]
  BY <1>1
<1> QED  BY <1>2, <1>4, <1>5 DEF CountersOK

-----------------------------------------------------------------------------
(* The theorems *)

LEMMA InitInv == Init => IInv
<1> SUFFICES ASSUME Init PROVE IInv
  OBVIOUS
<1>1. request = [r \in Requests |-> Idle] /\ active = [h \in Hosts |-> 0]
  BY DEF Init
<1>2. HandlersOK
  BY <1>1, Phases DEF HandlersOK
<1>3. \A h \in Hosts : LiveAt(h) = {}
  BY <1>1, Phases DEF LiveAt
<1>4. CountersOK
  BY <1>1, <1>3, FS_EmptySet DEF CountersOK
<1> QED  BY <1>2, <1>4, EscrowInitOK, GrantInitOK DEF Init, IInv

\* Steps that leave the handlers alone.
LEMMA QuietStep ==
  ASSUME IInv, UNCHANGED <<request, active>>, RecordMoves, EscrowOK', GrantOK', EarlyOK'
  PROVE  IInv'
<1>1. HandlersOK'
  BY HandlersFrame DEF IInv
<1>2. CountersOK'
  BY DEF IInv, CountersOK, LiveAt, Live
<1> QED  BY <1>1, <1>2 DEF IInv

LEMMA StepInv == IInv /\ [Next]_vars => IInv'
<1> SUFFICES ASSUME IInv, [Next]_vars PROVE IInv'
  OBVIOUS
<1>1. CASE UNCHANGED vars
  BY <1>1, GrantsUnchanged, EscrowStep
     DEF vars, proxyVars, IInv, HandlersOK, CountersOK, LiveAt, Live, LookupOK, GateHolds, Covered,
         Matched, IsClineAccount, IsClineEntry, escrowVars, settingsVars, EarlyOK
<1>2. CASE /\ RecordMoves /\ SettingsStep /\ ReadEarly(Reading)
           /\ UNCHANGED <<grantVars, request, active>>
  <2>1. EscrowOK' /\ GrantOK' /\ EarlyOK'
    BY <1>2, EscrowStep, GrantsUnchanged, EarlyStep DEF SettingsStep, EscrowNext, IInv
  <2> QED  BY <1>2, <2>1, QuietStep
<1>3. CASE RecordMoves /\ GrantStep /\ UNCHANGED <<settingsVars, request, active>>
  <2>1. Act \/ UNCHANGED acts
    BY <1>3 DEF GrantStep
  <2>2. EscrowOK'
    BY <1>3, <2>1, CountedStep, EscrowStep DEF IInv, escrowVars
  <2>3. GrantOK'
    BY <1>3, GrantStepOK DEF IInv
  <2>4. EarlyOK'
    BY <1>3, EarlyStep DEF GrantStep, IInv
  <2> QED  BY <1>3, <2>2, <2>3, <2>4, QuietStep
<1>4. ASSUME NEW r \in Requests, RecordMoves, HandlerStep(r), ReadsDone({r}), UNCHANGED escrowVars
      PROVE  IInv'
  <2>1. EscrowOK' /\ EarlyOK'
    BY <1>4, EscrowStep, EarlyStep DEF IInv
  <2>2. PICK q : Goes(r, q) /\ GrantOK'
    BY <1>4, HandlerStepOK DEF Steps
  <2>3. HandlersOK' /\ CountersOK'
    BY <1>4, <2>2, HandlersGo, CountersGo
  <2> QED  BY <2>1, <2>2, <2>3 DEF IInv
<1>5. CASE Restart
  BY <1>5, RestartOK, RestartGrants, RestartEmpties, EarlyStep DEF Restart, IInv
<1> QED  BY <1>1, <1>2, <1>3, <1>4, <1>5 DEF Next

THEOREM Invariance == Spec => []IInv
BY InitInv, StepInv, PTL DEF Spec

\* What a step does to the requests.
LEMMA RequestStep ==
  ASSUME IInv, Next
  PROVE  \/ UNCHANGED request
         \/ \E k \in Requests : \E q :
              /\ Goes(k, q) /\ request'[k] = q
              /\ \A r \in Requests : r # k => request'[r] = request[r]
         \/ \A r \in Requests : request'[r] \in {Idle, Done}
<1>1. ASSUME NEW k \in Requests, HandlerStep(k)
      PROVE  \E q : /\ Goes(k, q) /\ request'[k] = q
                    /\ \A r \in Requests : r # k => request'[r] = request[r]
  <2>1. PICK q : Goes(k, q)
    BY <1>1, HandlerStepOK DEF Steps
  <2>2. request'[k] = q /\ \A r \in Requests : r # k => request'[r] = request[r]
    BY <2>1 DEF Goes, IInv, HandlersOK
  <2> QED  BY <2>1, <2>2
<1>2. CASE Restart
  BY <1>2 DEF Restart
<1> QED  BY <1>1, <1>2 DEF Next

(***************************************************************************)
(* What is sent carries the prefix of an OAuth token exactly when it is    *)
(* one, whatever save failed, was lost or took effect late, unless a       *)
(* session came or went between the two reads of its value.                *)
(***************************************************************************)
THEOREM TruthOfPrefix == Spec => PrefixTellsTheTruth
<1> DEFINE A == \A r \in Requests :
                  ( /\ request'[r] \notin {Idle, Done}
                    /\ request'[r].value # None
                    /\ request[r].value = None
                    /\ early[r] = None ) =>
                    (request'[r].value.oauth <=> request'[r].value.value \in Logins)
<1>1. IInv /\ [Next]_vars => [A]_vars
  <2> SUFFICES ASSUME IInv, Next PROVE A
    OBVIOUS
  <2>1. ASSUME NEW k \in Requests, NEW q, Goes(k, q), request'[k] = q,
               \A r \in Requests : r # k => request'[r] = request[r]
        PROVE  A
    <3>1. q # Done => Sent(k, request[k], q)
      BY <2>1 DEF Goes
    <3> QED  BY <2>1, <3>1 DEF Sent, Honest
  <2> QED  BY <2>1, RequestStep
<1> QED  BY <1>1, Invariance, PTL DEF Spec, PrefixTellsTheTruth

(***************************************************************************)
(* The account's value leaves only with a request that the guest's access  *)
(* covers, for any entries, hosts and number of requests in the proxy.     *)
(***************************************************************************)
THEOREM AccountGated == Spec => []AccountIsGated
<1>1. IInv => AccountIsGated
  <2> SUFFICES ASSUME IInv, NEW r \in In({"forwarded"}) \ moved, request[r].account
               PROVE  Covered(request[r])
    BY DEF AccountIsGated, Covered
  <2>1. r \in Requests /\ request[r].pc = "forwarded"
    BY DEF In
  <2>2. request[r] \in Handler
    BY <2>1 DEF IInv, HandlersOK, Idle, Done
  <2> QED  BY <2>1, <2>2 DEF IInv, HandlersOK, GateHolds
<1> QED  BY <1>1, Invariance, PTL

(***************************************************************************)
(* The counter of each host is the number of requests under way to it:     *)
(* however the handler, the bodies, their errors and drops interleave,     *)
(* each lifecycle is counted up once and down once.                        *)
(***************************************************************************)
THEOREM CountersExact == Spec => []ActiveIsExact
<1>1. IInv => ActiveIsExact
  <2>1. \A h \in Hosts :
          LiveAt(h) = {r \in In({"forwarded"}) : request[r].host = h /\ ~request[r].life.finished}
    BY DEF LiveAt, Live, In
  <2> QED  BY <2>1 DEF IInv, CountersOK, ActiveIsExact
<1> QED  BY <1>1, Invariance, PTL

\* What a step may do to the permissions of the guest.
LEMMA PermissionsStep ==
  ASSUME IInv, Next
  PROVE  \/ guest' = guest \/ guest' = None \/ guest'.grants = {}
         \/ guest # None /\ \A g \in guest'.grants \ guest.grants : g.seen = withdrawn
<1>1. CASE GrantStep
  <2>1. CASE AddGuest
    BY <2>1 DEF AddGuest, Fresh
  <2>2. ASSUME NEW killed \in BOOLEAN, SetKilled(killed)
        PROVE  guest # None /\ guest'.grants = guest.grants
    BY <2>2, GuestIs DEF SetKilled, IInv, Guest
  <2>3. ASSUME NEW access, SetClineAccess(access)
        PROVE  guest # None /\ guest'.grants = guest.grants
    BY <2>3, GuestIs DEF SetClineAccess, IInv, Guest
  <2>4. ASSUME NEW g, RevokeCommentPermission(g)
        PROVE  guest # None /\ guest'.grants = guest.grants \ {g}
    BY <2>4, GuestIs DEF RevokeCommentPermission, IInv, Guest
  <2>5. CASE PolicyStep \/ ReturnStep
    BY <2>1, <2>2, <2>3, <2>4, <2>5 DEF PolicyStep, ReturnStep, RemoveGuest
  <2>6. CASE \E t \in Targets : Transfer(t)
    BY <2>6 DEF Transfer
  <2>7. CASE PageStep
    <3>1. CASE GrantEnd
      BY <3>1, GrantEndOK DEF IInv
    <3>2. CASE ~GrantEnd
      BY <2>7, <3>2 DEF PageStep, ResolveStart, GrantStart, ResolveEnd, UiFails
    <3> QED  BY <3>1, <3>2
  <2> QED  BY <1>1, <2>5, <2>6, <2>7 DEF GrantStep
<1>2. CASE \E r \in Requests : HandlerStep(r)
  BY <1>2, HandlerStepOK
<1>3. CASE Restart
  <2>1. guest # None => guest' = [guest EXCEPT !.epoch = stamp, !.revision = stamp]
    BY <1>3 DEF Restart
  <2>2. guest # None => guest'.grants = guest.grants
    BY <2>1, GuestIs DEF IInv, Guest
  <2> QED  BY <1>3, <2>2 DEF Restart
<1> QED  BY <1>1, <1>2, <1>3 DEF Next, grantVars

(***************************************************************************)
(* A permission comes only from a look at the target that began after the  *)
(* last withdrawal, whatever pages, revocations and starts came between.   *)
(***************************************************************************)
THEOREM PermissionsAreFresh == Spec => GrantsAreFresh
<1> DEFINE A == \A g \in IF guest' = None THEN {} ELSE guest'.grants :
                  (guest = None \/ g \notin guest.grants) => g.seen = withdrawn
<1>1. IInv /\ [Next]_vars => [A]_<<guest, withdrawn>>
  BY PermissionsStep DEF vars, grantVars
<1> QED  BY <1>1, Invariance, PTL DEF Spec, GrantsAreFresh

(***************************************************************************)
(* A comment that no one looks at is admitted only under a permission in   *)
(* force, for what the node is, and leaves with the credential the         *)
(* permission was given for.                                               *)
(***************************************************************************)
THEOREM PermissionsAreUsedAsGiven == Spec => CommentsAreGranted
<1> DEFINE A == \A r \in Requests :
                  ( /\ request'[r] \notin {Idle, Done}
                    /\ request'[r].used # None
                    /\ request[r].used = None ) =>
                    LET g == request'[r].used
                    IN g.id \notin withdrawn /\ g.target = node /\ g.binding.real = request'[r].value
<1>1. IInv /\ [Next]_vars => [A]_vars
  <2> SUFFICES ASSUME IInv, Next PROVE A
    OBVIOUS
  <2>1. ASSUME NEW k \in Requests, NEW q, Goes(k, q), request'[k] = q,
               \A r \in Requests : r # k => request'[r] = request[r]
        PROVE  A
    <3>1. q # Done => Granted(request[k], q)
      BY <2>1 DEF Goes
    <3> QED  BY <2>1, <3>1 DEF Granted
  <2> QED  BY <2>1, RequestStep
<1> QED  BY <1>1, Invariance, PTL DEF Spec, CommentsAreGranted
=============================================================================
