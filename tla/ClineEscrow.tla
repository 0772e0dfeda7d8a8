---------------------------- MODULE ClineEscrow ----------------------------
(***************************************************************************)
(* The escrow settings (src/src/settings.rs), the Cline account sign-in    *)
(* and its background refresh (src/src/oauth.rs), and the host's handlers  *)
(* that edit them (src/src/web.rs).                                        *)
(*                                                                         *)
(* An entry pins a fake value to hosts; its real value is a key the host   *)
(* typed or the access token of a Cline session.  All real values are one  *)
(* register (SecretRegister): a save changes them together, and one that   *)
(* fails may have taken effect.  escrow.json is written in place: a write  *)
(* that fails, or in which the broker stops, may leave it torn, and no     *)
(* broker starts from a torn file.                                         *)
(*                                                                         *)
(* A token is identified with the sign-in it descends from.  WorkOS and    *)
(* Cline's token endpoint are external: any request to them may fail.      *)
(***************************************************************************)
EXTENDS Naturals, FiniteSets

CONSTANTS
  None,
  Torn,       \* escrow.json when it cannot be parsed
  Names,      \* names of entries
  Hosts,
  ClineHost,  \* api.cline.bot
  Keys,       \* static keys
  Pins,       \* the sets of hosts an entry can be pinned to
  FirstHosts, \* the ones it is pinned to at first; None stands for no entry
  FirstKeys,  \* the values an entry can have at first
  MaxLogins,  \* bound on sign-ins
  MaxActs,    \* bound on what the host and the clock do
  MaxFaults   \* bound on saves and writes that fail

\* Sign-in 0 is one of an earlier run of the broker.
Logins == 0 .. MaxLogins

ASSUME EscrowAssumption ==
  /\ ClineHost \in Hosts
  /\ Pins \subseteq SUBSET Hosts
  /\ FirstHosts \subseteq Pins \cup {None}
  /\ FirstKeys \subseteq Keys \cup {0, None}
  /\ {MaxLogins, MaxActs, MaxFaults} \subseteq Nat
  /\ None \notin Keys \cup Hosts \cup Names \cup Logins /\ None \notin Nat
  /\ None \notin [refresh : Logins, soon : BOOLEAN]
  /\ Keys \cap Logins = {}

VARIABLES
  entries,    \* name -> its entry, or None
  disk,       \* escrow.json
  secrets,    \* the real values and sessions in memory
  vault,      \* the ones a start would load
  setting,    \* the key an edit has yet to store, or None
  logins,     \* sign-in -> the task that serves it
  flows,      \* ClineFlows: name -> the state shown to the host
  refresher,  \* the background refresh
  acts,       \* edits, sign-ins, expiries and restarts so far
  faults,     \* failed saves and writes so far
  choice      \* history: name -> how the host last gave the entry its value

settingsVars ==
  <<entries, disk, secrets, vault, setting, logins, flows, refresher, faults, choice>>
escrowVars == <<settingsVars, acts>>

FirstSession(soon) == [refresh |-> 0, soon |-> soon]
Unused == [pc |-> "unused", entry |-> None]
Resting == [todo |-> {}, entry |-> None, token |-> None]

-----------------------------------------------------------------------------
(* The two stores *)

Save(new, ok) ==
  \/ ok /\ secrets' = new /\ vault' = new
  \/ ~ok /\ vault' \in {vault, new} /\ UNCHANGED secrets

\* write_json: done, not begun, or begun and not finished.
Write(new, how) ==
  disk' = CASE how = "done" -> new [] how = "kept" -> disk [] how = "torn" -> Torn

Writes == {"done", "kept", "torn"}

Fault(bad) ==
  IF bad THEN faults < MaxFaults /\ faults' = faults + 1 ELSE UNCHANGED faults

-----------------------------------------------------------------------------
(* What an entry's value is *)

Sessions == {n \in Names : secrets.session[n] # None}

\* real_value asks for the session under one lock and for the value under
\* another: `loaded' are the names that had a session when it was asked for.
RealValue(n, loaded) == [oauth |-> n \in loaded, value |-> secrets.key[n]]

IsClineEntry(e) == ClineHost \in e.hosts

\* The value of entry n is the account's.
IsClineAccount(n) == IsClineEntry(entries[n]) \/ secrets.session[n] # None

\* Mutant of IsClineCredentialHost: the gate looks at the entry's hosts only.
IsClineHostOnly(host) ==
  \E n \in Names :
    /\ entries[n] # None
    /\ IsClineEntry(entries[n])
    /\ host \in entries[n].hosts

\* The hosts toward which the account's token would be substituted.
IsClineCredentialHost(host) ==
  \E n \in Names :
    /\ entries[n] # None
    /\ IsClineAccount(n)
    /\ host \in entries[n].hosts

-----------------------------------------------------------------------------
(* Edits by the host.  add_escrow and update_escrow change the entry, then *)
(* store the key that came with it, if the first step succeeded.           *)

\* What the host does and what time brings is counted, for the bound only.
Act == acts < MaxActs /\ acts' = acts + 1

\* The entry in memory is changed before the file is, and stays changed when
\* the write fails.
PutEntry(n, e, real, how) ==
  /\ Act
  /\ setting = None
  /\ entries' = [entries EXCEPT ![n] = e]
  /\ Write(entries', how)
  /\ Fault(how # "done")
  /\ setting' = IF how = "done" /\ real # None THEN <<n, real>> ELSE None
  /\ UNCHANGED <<secrets, vault, logins, flows, refresher, choice>>

AddEscrow(n, hosts, real, how) ==
  /\ entries[n] = None
  /\ PutEntry(n, [hosts |-> hosts, fake |-> acts], real, how)

\* The fake is kept: guests keep the environment they have.
UpdateEscrow(n, hosts, real, how) ==
  /\ entries[n] # None
  /\ PutEntry(n, [entries[n] EXCEPT !.hosts = hosts], real, how)

\* Mutant of WithKey: a static key is stored beside the session it replaces.
WithKeyAndSession(n, key) == [secrets EXCEPT !.key[n] = key]

\* set_secret: the session goes in the same write.
WithKey(n, key) == [secrets EXCEPT !.key[n] = key, !.session[n] = None]

SetSecret(n, key, ok) ==
  /\ Save(WithKey(n, key), ok)
  /\ Fault(~ok)
  /\ choice' = IF ok THEN [choice EXCEPT ![n] = "static"] ELSE choice
  /\ UNCHANGED <<entries, disk, logins, flows, refresher>>

\* The second half of add_escrow and update_escrow.
StoreKey(ok) ==
  /\ setting # None
  /\ SetSecret(setting[1], setting[2], ok)
  /\ setting' = None
  /\ UNCHANGED acts

\* set_escrow_secret does not ask whether there is such an entry.
SetEscrowSecret(n, key, ok) ==
  /\ Act
  /\ SetSecret(n, key, ok)
  /\ UNCHANGED setting

\* remove_entry, under both locks: the credentials first, then the entry.
RemoveEscrow(n, ok, how) ==
  /\ Act
  /\ Save([secrets EXCEPT !.key[n] = None, !.session[n] = None], ok)
  /\ IF ok
       THEN /\ Write([entries EXCEPT ![n] = None], how)
            /\ entries' = IF how = "done" THEN [entries EXCEPT ![n] = None] ELSE entries
            /\ choice' = [choice EXCEPT ![n] = None]
       ELSE how = "kept" /\ UNCHANGED <<entries, disk, choice>>
  /\ Fault(~ok \/ how # "done")
  /\ UNCHANGED <<setting, logins, flows, refresher>>

-----------------------------------------------------------------------------
(* The device-code sign-in: ClineFlows::start and its poller *)

\* Only an entry pinned to Cline's API host can be signed in.
RequestDevice(l, n) ==
  /\ Act
  /\ logins[l] = Unused
  /\ \A k \in 0 .. l - 1 : logins[k] # Unused
  /\ entries[n] # None
  /\ IsClineEntry(entries[n])
  /\ logins' = [logins EXCEPT ![l] = [pc |-> "requested", entry |-> n]]
  /\ UNCHANGED <<entries, disk, secrets, vault, setting, flows, refresher, faults, choice>>

Move(l, pc) == logins' = [logins EXCEPT ![l].pc = pc]
Show(l, state) == flows' = [flows EXCEPT ![logins[l].entry] = state]

DeviceAnswered(l, ok) ==
  /\ logins[l].pc = "requested"
  /\ \/ ok /\ Move(l, "polling") /\ Show(l, "waiting")
     \/ ~ok /\ Move(l, "ended") /\ UNCHANGED flows
  /\ UNCHANGED <<entries, disk, secrets, vault, setting, refresher, acts, faults, choice>>

\* A poll that is answered: the user confirmed the code, or refused it, or the
\* device code is too old.
Polled(l, confirmed) ==
  /\ logins[l].pc = "polling"
  /\ \/ confirmed /\ Move(l, "registering") /\ UNCHANGED flows
     \/ ~confirmed /\ Move(l, "ended") /\ Show(l, "failed")
  /\ UNCHANGED <<entries, disk, secrets, vault, setting, refresher, acts, faults, choice>>

\* set_cline_session: the session and its access token in one write.
Stored(n, token, refresh) ==
  [secrets EXCEPT !.session[n] = [refresh |-> refresh, soon |-> FALSE], !.key[n] = token]

\* "Rotation optional: keep the old refresh token when absent": the one that
\* is stored by now.
RefreshToken(n, token, rotated) ==
  IF rotated THEN token
  ELSE IF secrets.session[n] # None THEN secrets.session[n].refresh ELSE None

\* Neither of the two callers looks again whether the entry still exists or
\* still has a session.
StoreClineSession(n, token, rotated, ok) ==
  LET refresh == RefreshToken(n, token, rotated)
  IN refresh # None /\ Save(Stored(n, token, refresh), ok) /\ Fault(~ok)

\* poll_and_register after the user confirmed.
Register(l, rotated, ok) ==
  /\ logins[l].pc = "registering"
  /\ StoreClineSession(logins[l].entry, l, rotated, ok)
  /\ Move(l, "ended")
  /\ Show(l, IF ok THEN "connected" ELSE "failed")
  /\ choice' = [choice EXCEPT ![logins[l].entry] = "oauth"]
  /\ UNCHANGED <<entries, disk, setting, refresher, acts>>

RegisterFails(l) ==
  /\ logins[l].pc = "registering"
  /\ Move(l, "ended")
  /\ Show(l, "failed")
  /\ UNCHANGED <<entries, disk, secrets, vault, setting, refresher, acts, faults, choice>>

-----------------------------------------------------------------------------
(* refresh_expiring_cline_sessions, every minute *)

\* Five minutes before the session expires.
ExpiresSoon(n) ==
  /\ Act
  /\ secrets.session[n] # None
  /\ ~secrets.session[n].soon
  /\ secrets' = [secrets EXCEPT !.session[n].soon = TRUE]
  /\ vault' = IF vault.session[n] = None THEN vault
              ELSE [vault EXCEPT !.session[n].soon = TRUE]
  /\ UNCHANGED <<entries, disk, setting, logins, flows, refresher, faults, choice>>

\* The rounds that find something to do.
RefreshRound ==
  /\ refresher = Resting
  /\ \E n \in Names : secrets.session[n] # None /\ secrets.session[n].soon
  /\ refresher' = [Resting EXCEPT !.todo = {n \in Names : entries[n] # None}]
  /\ UNCHANGED <<entries, disk, secrets, vault, setting, logins, flows, acts, faults, choice>>

\* refresh_cline up to its await.
RefreshStart(n) ==
  /\ refresher.token = None
  /\ n \in refresher.todo
  /\ refresher' =
       IF secrets.session[n] # None /\ secrets.session[n].soon
       THEN [todo |-> refresher.todo \ {n}, entry |-> n, token |-> secrets.session[n].refresh]
       ELSE [refresher EXCEPT !.todo = @ \ {n}]
  /\ UNCHANGED <<entries, disk, secrets, vault, setting, logins, flows, acts, faults, choice>>

RefreshDone == refresher' = [refresher EXCEPT !.entry = None, !.token = None]

RefreshAnswered(rotated, ok) ==
  /\ refresher.token # None
  /\ StoreClineSession(refresher.entry, refresher.token, rotated, ok)
  /\ RefreshDone
  /\ UNCHANGED <<entries, disk, setting, logins, flows, acts, choice>>

RefreshFails ==
  /\ refresher.token # None
  /\ RefreshDone
  /\ UNCHANGED <<entries, disk, secrets, vault, setting, logins, flows, acts, faults, choice>>

-----------------------------------------------------------------------------
(* The specification *)

\* load_with_mode: the broker stopped, and every task with it.
RestartSettings ==
  /\ Act
  /\ disk # Torn
  /\ entries' = disk
  /\ secrets' = vault
  /\ setting' = None
  /\ logins' = [l \in Logins |-> IF logins[l] = Unused THEN Unused
                                 ELSE [logins[l] EXCEPT !.pc = "ended"]]
  /\ flows' = [n \in Names |-> None]
  /\ refresher' = Resting
  /\ UNCHANGED <<disk, vault, faults, choice>>

FirstSecrets(key, soon) ==
  [key |-> [n \in Names |-> key],
   session |-> [n \in Names |-> IF key = 0 THEN FirstSession(soon) ELSE None]]

EscrowInit ==
  /\ \E hosts \in FirstHosts, key \in FirstKeys, soon \in BOOLEAN :
       /\ entries = [n \in Names |-> IF hosts = None THEN None
                                     ELSE [hosts |-> hosts, fake |-> MaxActs]]
       /\ secrets = FirstSecrets(IF hosts = None THEN None ELSE key, soon)
  /\ disk = entries
  /\ vault = secrets
  /\ setting = None
  /\ logins = [l \in Logins |-> IF l = 0 THEN [Unused EXCEPT !.pc = "ended"] ELSE Unused]
  /\ flows = [n \in Names |-> None]
  /\ refresher = Resting
  /\ acts = 0
  /\ faults = 0
  /\ choice = [n \in Names |-> None]

EditStep ==
  \/ \E n \in Names, hosts \in Pins, real \in Keys \cup {None}, how \in Writes :
       AddEscrow(n, hosts, real, how) \/ UpdateEscrow(n, hosts, real, how)
  \/ \E n \in Names, key \in Keys, ok \in BOOLEAN : SetEscrowSecret(n, key, ok)
  \/ \E n \in Names, ok \in BOOLEAN, how \in Writes : RemoveEscrow(n, ok, how)
  \/ \E ok \in BOOLEAN : StoreKey(ok)

LoginStep ==
  \E l \in Logins :
    \/ \E n \in Names : RequestDevice(l, n)
    \/ \E ok \in BOOLEAN :
         \/ DeviceAnswered(l, ok) \/ Polled(l, ok)
         \/ \E rotated \in BOOLEAN : Register(l, rotated, ok)
    \/ RegisterFails(l)

RefreshStep ==
  \/ \E n \in Names : ExpiresSoon(n) \/ RefreshStart(n)
  \/ RefreshRound \/ RefreshFails
  \/ \E rotated, ok \in BOOLEAN : RefreshAnswered(rotated, ok)

EscrowNext == EditStep \/ LoginStep \/ RefreshStep \/ RestartSettings

EscrowSpec == EscrowInit /\ [][EscrowNext]_escrowVars

-----------------------------------------------------------------------------
(* A property *)

(***************************************************************************)
(* "Setting a static secret on an entry replaces any broker-owned Cline    *)
(* OAuth session in the same write, so neither background refresh nor the  *)
(* `workos:` prefix can outlive the switch to a static key": an entry the  *)
(* host gave a static key has no session until the host signs in again     *)
(* (set_secret, refresh_cline).                                            *)
(***************************************************************************)
StaticKeyStays ==
  \A n \in Names : choice[n] = "static" => secrets.session[n] = None
=============================================================================
