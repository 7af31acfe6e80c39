---------------------------- MODULE StorageKeys ----------------------------
(***************************************************************************)
(* Opening the encrypted store of one domain: StoragePool::get_or_open,    *)
(* StorageEngine::open, derive_or_create_key, fail_if_desync and open_db   *)
(* (crates/core/src/core/storage).                                         *)
(*                                                                         *)
(* The blocking threads of a process share its pool and open engines under *)
(* the pool's mutex.  Nothing keeps two processes of the browser apart but *)
(* the file lock redb takes when the database is opened.  The OS keyring   *)
(* and redb are external.  MIZU_MASTER_KEY is not set.                     *)
(***************************************************************************)
EXTENDS Integers

CONSTANTS
  Processes, Threads,
  ProcessOf,       \* the process a thread belongs to
  None,
  MaxGenerated     \* bound: keys generated

ASSUME KeysAssumption ==
  /\ ProcessOf \in [Threads -> Processes]
  /\ None \notin Processes \cup Threads \cup Nat
  /\ MaxGenerated \in Nat

VARIABLES
  keyring,     \* the domain's key in the OS keyring, or None
  store,       \* keys the records of the storage file are encrypted under
  exists,      \* whether the storage file exists
  flock,       \* the process that has the database open, or None
  engines,     \* per process, the key of the cached engine, or None
  mutex,       \* per process, the thread inside get_or_open, or None
  pc, key,     \* per thread, where it is and the key it holds
  generated

keysVars == <<keyring, store, exists, flock, engines, mutex, pc, key, generated>>

\* Inside get_or_open, with the pool locked.
Opening(h) == pc[h] \in {"get", "desync", "set", "open"}

KeysTypeOK ==
  /\ keyring \in Nat \cup {None} /\ store \subseteq Nat /\ exists \in BOOLEAN
  /\ flock \in Processes \cup {None}
  /\ engines \in [Processes -> Nat \cup {None}]
  /\ mutex \in [Processes -> Threads \cup {None}]
  /\ pc \in [Threads -> {"idle", "get", "desync", "set", "open", "write"}]
  /\ key \in [Threads -> Nat \cup {None}]
  /\ generated \in 0..MaxGenerated
  /\ \A h \in Threads : Opening(h) <=> mutex[ProcessOf[h]] = h

KeysInit ==
  /\ keyring = None /\ store = {} /\ exists = FALSE /\ flock = None
  /\ engines = [p \in Processes |-> None]
  /\ mutex = [p \in Processes |-> None]
  /\ pc = [h \in Threads |-> "idle"]
  /\ key = [h \in Threads |-> None]
  /\ generated = 0

-----------------------------------------------------------------------------

Goto(h, label) == pc' = [pc EXCEPT ![h] = label]
Hold(h, k) == key' = [key EXCEPT ![h] = k]

\* get_or_open returns an error: the pool is unlocked, nothing is cached.
Fail(h) ==
  /\ mutex' = [mutex EXCEPT ![ProcessOf[h]] = None]
  /\ Goto(h, "idle")
  /\ Hold(h, None)
  /\ UNCHANGED <<keyring, store, exists, flock, engines, generated>>

\* A flush asks for the engine: cached, or to be opened with the pool locked.
get_or_open(h) ==
  LET p == ProcessOf[h] IN
  /\ pc[h] = "idle" /\ mutex[p] = None
  /\ IF engines[p] # None
     THEN Goto(h, "write") /\ Hold(h, engines[p]) /\ UNCHANGED mutex
     ELSE /\ Goto(h, "get") /\ Hold(h, None)
          /\ mutex' = [mutex EXCEPT ![p] = h]
  /\ UNCHANGED <<keyring, store, exists, flock, engines, generated>>

get_password(h) ==
  /\ pc[h] = "get"
  /\ IF keyring = None THEN Goto(h, "desync") /\ UNCHANGED key
                       ELSE Goto(h, "open") /\ Hold(h, keyring)
  /\ UNCHANGED <<keyring, store, exists, flock, engines, mutex, generated>>

\* No key but a file: refused.  Otherwise a key is generated.
fail_if_desync(h) ==
  /\ pc[h] = "desync"
  /\ IF exists THEN Fail(h)
     ELSE /\ generated < MaxGenerated /\ generated' = generated + 1
          /\ Goto(h, "set") /\ Hold(h, generated)
          /\ UNCHANGED <<keyring, store, exists, flock, engines, mutex>>

\* Mutation: the key is used before it is saved.
password_unsaved(h) ==
  /\ pc[h] = "set"
  /\ Goto(h, "open")
  /\ UNCHANGED <<keyring, store, exists, flock, engines, mutex, key, generated>>

set_password(h) ==
  /\ pc[h] = "set"
  /\ keyring' = key[h]
  /\ Goto(h, "open")
  /\ UNCHANGED <<store, exists, flock, engines, mutex, key, generated>>

\* redb::Database::create locks the file or fails with DatabaseAlreadyOpen.
open_db(h) ==
  LET p == ProcessOf[h] IN
  /\ pc[h] = "open"
  /\ IF flock # None THEN Fail(h)
     ELSE /\ flock' = p /\ exists' = TRUE
          /\ engines' = [engines EXCEPT ![p] = key[h]]
          /\ mutex' = [mutex EXCEPT ![p] = None]
          /\ Goto(h, "write")
          /\ UNCHANGED <<keyring, store, key, generated>>

\* The keyring or the file system refuses.
OpenFails(h) == pc[h] \in {"get", "set", "open"} /\ Fail(h)

commit_batch(h) ==
  /\ pc[h] = "write"
  /\ store' = store \cup {key[h]}
  /\ Goto(h, "idle") /\ Hold(h, None)
  /\ UNCHANGED <<keyring, exists, flock, engines, mutex, generated>>

\* The process ends at any point; the OS drops its locks.
Exit(p) ==
  /\ engines' = [engines EXCEPT ![p] = None]
  /\ mutex' = [mutex EXCEPT ![p] = None]
  /\ flock' = IF flock = p THEN None ELSE flock
  /\ pc' = [h \in Threads |-> IF ProcessOf[h] = p THEN "idle" ELSE pc[h]]
  /\ key' = [h \in Threads |-> IF ProcessOf[h] = p THEN None ELSE key[h]]
  /\ UNCHANGED <<keyring, store, exists, generated>>

Step(h) ==
  \/ get_or_open(h) \/ get_password(h) \/ fail_if_desync(h) \/ set_password(h)
  \/ open_db(h) \/ OpenFails(h) \/ commit_batch(h)

KeysNext == (\E h \in Threads : Step(h)) \/ (\E p \in Processes : Exit(p))

KeysSpec == KeysInit /\ [][KeysNext]_keysVars

-----------------------------------------------------------------------------
(* Properties *)

\* A crash or a failure between two steps never leaves a store no process
\* can open again: a storage file always has a key in the keyring.
NeverLockedOut == exists => keyring # None

\* open_db: opening the same domain twice "fails safely", "never silent
\* corruption": what is at rest can be decrypted with the domain's key.
\* Holds for the threads of one process; refuted for two processes.
StoreDecryptable == store \subseteq {keyring}

\* The store of a domain of one browser process: one thread at a time inside
\* get_or_open, never a file without its key, never a record under another.
KeysInv == KeysTypeOK /\ NeverLockedOut /\ StoreDecryptable

=============================================================================
