---------------------------- MODULE SecretVault ----------------------------
(***************************************************************************)
(* The secret store (src/src/secret_store.rs): snapshots of all secrets in *)
(* the credential store of the operating system, cut into chunks and       *)
(* selected by one manifest, or in secrets.json; the lock on the data      *)
(* directory; the migration from the file to the operating system.         *)
(*                                                                         *)
(* The credential store is external.  It changes one entry at a time, any  *)
(* call to it may fail, and a failed change may have been made.  A file is *)
(* replaced or left alone.  A broker can stop between any two steps.       *)
(*                                                                         *)
(* A generation's digest and the bytes of its chunks stand for the         *)
(* snapshot they were made from.                                           *)
(***************************************************************************)
EXTENDS Naturals, Sequences

CONSTANTS
  None,
  Brokers,         \* processes started on one data directory
  Snapshots,       \* maps of all secrets
  Empty,           \* the empty map
  Chunks,          \* snapshot -> number of entries its encoding takes
  MaxChunks,       \* MAX_CHUNKS (4096)
  Legacies,        \* contents of secrets.json found at first, or None
  MaxGenerations   \* bound on the generations written

ASSUME VaultAssumption ==
  /\ Empty \in Snapshots
  /\ None \notin Snapshots \cup Brokers
  /\ Chunks \in [Snapshots -> Nat \ {0}]
  /\ Legacies \subseteq Snapshots \cup {None}
  /\ {MaxChunks, MaxGenerations} \subseteq Nat

VARIABLES
  lock,      \* the broker that holds secret-store.lock, or None
  legacy,    \* secrets.json, or None
  marker,    \* os-secret-store.json exists
  manifest,  \* the manifest entry
  chunks,    \* key of an entry -> the snapshot it holds a part of
  broker,    \* broker -> its process
  nextId     \* the generations so far, plus one

vars == <<lock, legacy, marker, manifest, chunks, broker, nextId>>

Generation == [id : Nat, snapshot : Snapshots]

NoManifest == [current |-> None, pending |-> None, retired |-> None]
Manifest == [current : Generation \cup {None}, pending : Generation \cup {None},
             retired : Generation \cup {None}]

\* A generation's entries, in the order in which they are written and deleted.
KeysOf(g) == IF g = None THEN <<>> ELSE [i \in 1 .. Chunks[g.snapshot] |-> <<g.id, i>>]
Keys(g) == IF g = None THEN {} ELSE {<<g.id, i>> : i \in 1 .. Chunks[g.snapshot]}

\* manifest: the generations it names are different ones.
Valid(m) ==
  \A f, h \in DOMAIN m : f # h /\ m[f] # None /\ m[h] # None => m[f].id # m[h].id

\* bytes: all the chunks are there, and have the digest.
Readable(g) == \A k \in Keys(g) : k \in DOMAIN chunks /\ chunks[k] = g.snapshot

(***************************************************************************)
(* A process: its program counter; the task the store works on (the first  *)
(* load of migrate, the save in it, the load that confirms it, or a save   *)
(* for Settings); the secrets Settings serves; the snapshot to be saved or *)
(* served next; the manifest and generation in hand; what load read; and   *)
(* the entries yet to be deleted or written.                               *)
(***************************************************************************)
Off == [pc |-> "off", mode |-> None, task |-> None, cache |-> None, goal |-> None,
        local |-> NoManifest, gen |-> None, got |-> None, todo |-> <<>>]

Counters == {"off", "read", "sweep", "stage", "write", "commit", "return", "migrate",
             "marker", "unlink", "file", "serving"}
Tasks == {"open", "init", "confirm", "update"}
Loading == {"open", "confirm"}

Process ==
  [pc : Counters, mode : {"os", "file", None}, task : Tasks \cup {None},
   cache : Snapshots \cup {None}, goal : Snapshots \cup {None}, local : Manifest,
   gen : Generation \cup {None}, got : Snapshots \cup {None}, todo : Seq(Nat \X Nat)]

\* None is no generation, no task and no mode.
ASSUME NoneAssumption ==
  /\ None \notin Generation
  /\ None \notin Tasks \cup {"os", "file"}

Serving(mode, values) == [Off EXCEPT !.pc = "serving", !.mode = mode, !.cache = values]

\* A new load or save.
Called(p, task, goal) ==
  [p EXCEPT !.pc = "read", !.task = task, !.goal = goal,
            !.local = NoManifest, !.gen = None, !.got = None, !.todo = <<>>]

\* A step that fails: ignored by the cleanup after a commit, reported by a
\* save for Settings, the end of a broker that is still starting.
Aborted(p) ==
  IF p.pc = "sweep" /\ p.gen # None THEN [p EXCEPT !.pc = "return"]
  ELSE IF p.task = "update" THEN Serving(p.mode, p.cache)
  ELSE Off

\* The process goes on as p; the lock is the process's.
Continue(b, p) ==
  /\ broker' = [broker EXCEPT ![b] = p]
  /\ lock' = IF p.pc = "off" THEN None ELSE b

Files == <<legacy, marker>>
Store == <<manifest, chunks>>

-----------------------------------------------------------------------------
(* Start *)

\* lock_directory: no other broker holds it.
Unlocked == lock = None

\* open with Mode::Os, up to the load in migrate.
OpenOs(b) ==
  /\ broker[b] = Off
  /\ Unlocked
  /\ Continue(b, Called([Off EXCEPT !.mode = "os"], "open", None))
  /\ UNCHANGED <<Files, Store, nextId>>

\* open with Mode::File.
OpenFile(b) ==
  /\ broker[b] = Off
  /\ Unlocked
  /\ ~marker
  /\ Continue(b, Serving("file", IF legacy = None THEN Empty ELSE legacy))
  /\ UNCHANGED <<Files, Store, nextId>>

\* Mutant of Migrate: the credential store is preferred to a file that differs.
MigrateUnchecked(b) ==
  /\ broker[b].pc = "migrate"
  /\ LET p == broker[b] IN
       Continue(b,
         IF p.task = "confirm" THEN [p EXCEPT !.pc = "marker"]
         ELSE IF marker /\ p.got = None THEN Off
         ELSE IF p.got = None THEN Called(p, "init", IF legacy = None THEN Empty ELSE legacy)
         ELSE IF legacy = None THEN [p EXCEPT !.pc = "marker", !.goal = p.got]
         ELSE Called(p, "confirm", p.got))
  /\ UNCHANGED <<Files, Store, nextId>>

\* migrate, after each of its loads: what the store and the file hold decides.
Migrate(b) ==
  /\ broker[b].pc = "migrate"
  /\ LET p == broker[b] IN
       Continue(b,
         IF p.task = "confirm" THEN IF p.got = p.goal THEN [p EXCEPT !.pc = "marker"] ELSE Off
         ELSE IF marker /\ p.got = None THEN Off
         ELSE IF p.got = None THEN Called(p, "init", IF legacy = None THEN Empty ELSE legacy)
         ELSE IF legacy = None THEN [p EXCEPT !.pc = "marker", !.goal = p.got]
         ELSE IF legacy = p.got THEN Called(p, "confirm", legacy)
         ELSE Off)
  /\ UNCHANGED <<Files, Store, nextId>>

WriteMarker(b) ==
  /\ broker[b].pc = "marker"
  /\ marker' = TRUE
  /\ Continue(b, [broker[b] EXCEPT !.pc = "unlink"])
  /\ UNCHANGED <<legacy, Store, nextId>>

\* secrets.json is removed, if there is one, and the broker serves.
Unlink(b) ==
  /\ broker[b].pc = "unlink"
  /\ legacy' = None
  /\ Continue(b, Serving("os", broker[b].goal))
  /\ UNCHANGED <<marker, Store, nextId>>

-----------------------------------------------------------------------------
(* Vault::load and Vault::save.  A change of the store that reports an     *)
(* error although it was made has ok = FALSE.                              *)

After(b, ok, p) == Continue(b, IF ok THEN p ELSE Aborted(broker[b]))

\* The manifest is read, and by load the snapshot it selects.
ReadManifest(b) ==
  /\ broker[b].pc = "read"
  /\ LET p == broker[b]
         loaded == manifest.current # None /\ p.task \in Loading
     IN Continue(b,
          IF Valid(manifest) /\ (loaded => Readable(manifest.current))
          THEN [p EXCEPT !.pc = "sweep", !.local = manifest,
                         !.got = IF loaded THEN manifest.current.snapshot ELSE None,
                         !.todo = KeysOf(manifest.pending) \o KeysOf(manifest.retired)]
          ELSE Aborted(p))
  /\ UNCHANGED <<Files, Store, nextId>>

\* cleanup deletes the entries of a generation no longer wanted.
DeleteChunk(b, ok) ==
  /\ broker[b].pc = "sweep"
  /\ broker[b].todo # <<>>
  /\ chunks' = [k \in DOMAIN chunks \ {Head(broker[b].todo)} |-> chunks[k]]
  /\ After(b, ok, [broker[b] EXCEPT !.todo = Tail(@)])
  /\ UNCHANGED <<Files, manifest, nextId>>

\* cleanup publishes that they are gone.
EndCleanup(b, ok) ==
  /\ broker[b].pc = "sweep"
  /\ broker[b].todo = <<>>
  /\ LET p == broker[b]
         cleared == [p.local EXCEPT !.pending = None, !.retired = None]
         next == IF p.task \in Loading THEN "migrate"
                 ELSE IF p.gen = None THEN "stage" ELSE "return"
     IN /\ manifest' = cleared
        /\ cleared = p.local => ok
        /\ After(b, ok, [p EXCEPT !.pc = next, !.local = cleared])
  /\ UNCHANGED <<Files, chunks, nextId>>

\* Mutant of Stage: the chunks are written before the manifest names them.
StageUnjournalled(b, ok) ==
  /\ broker[b].pc = "stage"
  /\ nextId <= MaxGenerations
  /\ Chunks[broker[b].goal] <= MaxChunks
  /\ LET p == broker[b]
         g == [id |-> nextId, snapshot |-> p.goal]
     IN After(b, ok, [p EXCEPT !.pc = "write", !.gen = g, !.todo = KeysOf(g)])
  /\ nextId' = nextId + 1
  /\ UNCHANGED <<Files, Store>>

\* The whole allocation is journalled.
Stage(b, ok) ==
  /\ broker[b].pc = "stage"
  /\ nextId <= MaxGenerations
  /\ Chunks[broker[b].goal] <= MaxChunks
  /\ LET p == broker[b]
         g == [id |-> nextId, snapshot |-> p.goal]
         staged == [p.local EXCEPT !.pending = g]
     IN /\ manifest' = staged
        /\ After(b, ok, [p EXCEPT !.pc = "write", !.gen = g, !.local = staged,
                                  !.todo = KeysOf(g)])
  /\ nextId' = nextId + 1
  /\ UNCHANGED <<Files, chunks>>

WriteChunk(b, ok) ==
  /\ broker[b].pc = "write"
  /\ broker[b].todo # <<>>
  /\ LET key == Head(broker[b].todo)
     IN chunks' = [k \in DOMAIN chunks \cup {key} |->
                     IF k = key THEN broker[b].goal ELSE chunks[k]]
  /\ After(b, ok, [broker[b] EXCEPT !.todo = Tail(@)])
  /\ UNCHANGED <<Files, manifest, nextId>>

\* The chunks are read back.
Verify(b) ==
  /\ broker[b].pc = "write"
  /\ broker[b].todo = <<>>
  /\ Continue(b, IF Readable(broker[b].gen) THEN [broker[b] EXCEPT !.pc = "commit"]
                                            ELSE Aborted(broker[b]))
  /\ UNCHANGED <<Files, Store, nextId>>

\* Mutant of Commit: the new generation is still listed as staging.
CommitKeepsPending(b, ok) ==
  /\ broker[b].pc = "commit"
  /\ LET p == broker[b]
         committed == [current |-> p.gen, pending |-> p.gen, retired |-> p.local.current]
     IN /\ manifest' = committed
        /\ After(b, ok, [p EXCEPT !.pc = "sweep", !.local = committed,
                                  !.todo = KeysOf(committed.pending) \o KeysOf(committed.retired)])
  /\ UNCHANGED <<Files, chunks, nextId>>

\* "This single entry replacement is the persistence consistency boundary."
Commit(b, ok) ==
  /\ broker[b].pc = "commit"
  /\ LET p == broker[b]
         committed == [current |-> p.gen, pending |-> None, retired |-> p.local.current]
     IN /\ manifest' = committed
        /\ After(b, ok, [p EXCEPT !.pc = "sweep", !.local = committed,
                                  !.todo = KeysOf(committed.retired)])
  /\ UNCHANGED <<Files, chunks, nextId>>

\* save returns: Settings publishes its cache, or migrate goes on.
Return(b) ==
  /\ broker[b].pc = "return"
  /\ LET p == broker[b] IN
       Continue(b, IF p.task = "update" THEN Serving(p.mode, p.goal)
                   ELSE IF legacy = None THEN [p EXCEPT !.pc = "marker"]
                   ELSE Called(p, "confirm", p.goal))
  /\ UNCHANGED <<Files, Store, nextId>>

-----------------------------------------------------------------------------
(* Settings and failures *)

\* Secrets::save, under the write lock of Settings.
Save(b, v) ==
  /\ broker[b].pc = "serving"
  /\ Continue(b, IF broker[b].mode = "os" THEN Called(broker[b], "update", v)
                 ELSE [broker[b] EXCEPT !.pc = "file", !.task = "update", !.goal = v])
  /\ UNCHANGED <<Files, Store, nextId>>

\* FileStore::save.
WriteFile(b) ==
  /\ broker[b].pc = "file"
  /\ legacy' = broker[b].goal
  /\ Continue(b, [broker[b] EXCEPT !.pc = "return"])
  /\ UNCHANGED <<marker, Store, nextId>>

\* A call to the credential store or to the file system fails without effect.
Fail(b) ==
  /\ broker[b].pc \notin {"off", "serving", "return", "migrate"}
  /\ Continue(b, Aborted(broker[b]))
  /\ UNCHANGED <<Files, Store, nextId>>

\* The broker stops.
Crash(b) ==
  /\ broker[b].pc # "off"
  /\ Continue(b, Off)
  /\ UNCHANGED <<Files, Store, nextId>>

-----------------------------------------------------------------------------
(* The specification *)

Init ==
  /\ lock = None
  /\ legacy \in Legacies
  /\ marker = FALSE
  /\ manifest = NoManifest
  /\ chunks = [k \in {} |-> None]
  /\ broker = [b \in Brokers |-> Off]
  /\ nextId = 1

StartStep(b) == OpenOs(b) \/ OpenFile(b) \/ Migrate(b) \/ WriteMarker(b) \/ Unlink(b)

VaultStep(b) ==
  \/ ReadManifest(b) \/ Verify(b) \/ Return(b)
  \/ \E ok \in BOOLEAN :
       DeleteChunk(b, ok) \/ EndCleanup(b, ok) \/ Stage(b, ok) \/ WriteChunk(b, ok) \/ Commit(b, ok)

SettingsStep(b) == WriteFile(b) \/ \E v \in Snapshots : Save(b, v)

Next ==
  \E b \in Brokers :
    StartStep(b) \/ VaultStep(b) \/ SettingsStep(b) \/ Fail(b) \/ Crash(b)

Spec == Init /\ [][Next]_vars

-----------------------------------------------------------------------------
(* Properties *)

\* The types, and that a process that runs holds the lock.
TypeOK ==
  /\ lock \in Brokers \cup {None}
  /\ legacy \in Snapshots \cup {None}
  /\ marker \in BOOLEAN
  /\ manifest \in Manifest
  /\ DOMAIN chunks \subseteq Nat \X Nat
  /\ \A k \in DOMAIN chunks : chunks[k] \in Snapshots
  /\ broker \in [Brokers -> Process]
  /\ \A b \in Brokers : broker[b] # Off <=> lock = b
  /\ nextId \in Nat \ {0}

(***************************************************************************)
(* Whatever fails and wherever a broker stops, the manifest is one that    *)
(* load accepts and the snapshot it selects is complete: no cleanup ever   *)
(* deletes a part of it (Vault::cleanup, Vault::save).                     *)
(***************************************************************************)
SnapshotIntact == Valid(manifest) /\ Readable(manifest.current)

(***************************************************************************)
(* "Journal the whole allocation before writing chunks.  Startup can       *)
(* delete staging after error, cancellation, or process termination": no   *)
(* entry with a part of the secrets exists that the manifest does not      *)
(* name, so that every one of them is deleted in the end (Vault::save).    *)
(***************************************************************************)
NoOrphans ==
  DOMAIN chunks \subseteq
    Keys(manifest.current) \cup Keys(manifest.pending) \cup Keys(manifest.retired)

\* The snapshot a start serves: the file's as long as there is one.
Value ==
  IF legacy # None THEN legacy
  ELSE IF manifest.current # None THEN manifest.current.snapshot ELSE Empty

Register ==
  INSTANCE SecretRegister WITH
    value <- Value,
    cache <- [b \in Brokers |-> broker[b].cache],
    saving <- [b \in Brokers |-> IF broker[b].task = "update" THEN broker[b].goal ELSE None]

(***************************************************************************)
(* The store is the register Settings takes it for.  In particular no      *)
(* crash, failure or change of mode during a migration loses or mixes up   *)
(* the secrets, the cache shows what was committed, and a failed save      *)
(* leaves either snapshot and nothing else (open, migrate, Secrets::save). *)
(***************************************************************************)
ImplementsRegister == Register!RegisterSpec
=============================================================================
