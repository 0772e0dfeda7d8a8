--------------------------- MODULE SecretRegister ---------------------------
(***************************************************************************)
(* What Settings (src/src/settings.rs) relies on: the secrets are a        *)
(* register of whole snapshots.  One broker at a time serves it, from a    *)
(* cache that changes only after a save has taken effect.  A save takes    *)
(* effect at once or not at all; one that fails may still have taken       *)
(* effect, and the next start then finds the snapshot that was being saved.*)
(***************************************************************************)
CONSTANTS None, Brokers, Snapshots

VARIABLES
  value,   \* the snapshot a start would serve
  cache,   \* broker -> the snapshot it serves, or None
  saving   \* broker -> the snapshot it is saving, or None

registerVars == <<value, cache, saving>>

RegisterInit ==
  /\ value \in Snapshots
  /\ cache = [b \in Brokers |-> None]
  /\ saving = [b \in Brokers |-> None]

Open(b) ==
  /\ \A other \in Brokers : cache[other] = None
  /\ cache' = [cache EXCEPT ![b] = value]
  /\ UNCHANGED <<value, saving>>

Begin(b, v) ==
  /\ cache[b] # None
  /\ saving[b] = None
  /\ saving' = [saving EXCEPT ![b] = v]
  /\ UNCHANGED <<value, cache>>

Commit(b) ==
  /\ saving[b] # None
  /\ value' = saving[b]
  /\ UNCHANGED <<cache, saving>>

Succeed(b) ==
  /\ saving[b] # None
  /\ value = saving[b]
  /\ cache' = [cache EXCEPT ![b] = saving[b]]
  /\ saving' = [saving EXCEPT ![b] = None]
  /\ UNCHANGED value

\* The save fails, before it took effect or with it.
Fail(b) ==
  /\ saving[b] # None
  /\ value' \in {value, saving[b]}
  /\ saving' = [saving EXCEPT ![b] = None]
  /\ UNCHANGED cache

\* The broker stops, possibly inside a save.
Close(b) ==
  /\ cache[b] # None
  /\ cache' = [cache EXCEPT ![b] = None]
  /\ saving' = [saving EXCEPT ![b] = None]
  /\ UNCHANGED value

RegisterNext ==
  \E b \in Brokers :
    \/ Open(b) \/ Commit(b) \/ Succeed(b) \/ Fail(b) \/ Close(b)
    \/ \E v \in Snapshots : Begin(b, v)

RegisterSpec == RegisterInit /\ [][RegisterNext]_registerVars
=============================================================================
