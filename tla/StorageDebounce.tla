--------------------------- MODULE StorageDebounce ---------------------------
(***************************************************************************)
(* Debounced, per-domain batched writes of the network worker              *)
(* (src/network/worker/storage_debounce.rs) into the stores that           *)
(* core/storage keeps, one per domain.                                     *)
(*                                                                         *)
(* submit runs on the dispatch loop.  Every timer is a task of its own and *)
(* every flush runs on its own thread of the blocking pool, so timers fire *)
(* and flushes commit in any order.                                        *)
(***************************************************************************)
EXTENDS Integers, FiniteSets

CONSTANTS
  Domains,          \* validated domains, the names of the encrypted stores
  Keys, Values,
  Unstorable,       \* values to_json refuses: those that hold a FileHandle
  max_keys,         \* STORAGE_BATCH_MAX_KEYS
  EngineMayFail,    \* the keyring, the file or the transaction may fail
  MaxWrites         \* bound: submissions of one behaviour

ASSUME DebounceAssumption ==
  /\ Unstorable \subseteq Values
  /\ max_keys \in Nat /\ MaxWrites \in Nat
  /\ EngineMayFail \in BOOLEAN

VARIABLES
  pending,   \* per domain, the writes buffered
  timers,    \* per domain, the timer tasks that have not fired
  flushes,   \* batches handed to the blocking pool and not finished
  db,        \* per domain, what is committed
  latest,    \* per domain, the last storable write of each key
  dropped,   \* per domain, keys a failed flush took with it since
  writes, taken    \* submissions and batches so far

debounceVars == <<pending, timers, flushes, db, latest, dropped, writes, taken>>

-----------------------------------------------------------------------------

\* A map of some of the keys.
Records == UNION {[ks -> Values] : ks \in SUBSET Keys}
NoRecords == [k \in {} |-> k]
Overlay(f, g) == [k \in DOMAIN f \cup DOMAIN g |-> IF k \in DOMAIN g THEN g[k] ELSE f[k]]
insert(f, key, value) == Overlay(f, [k \in {key} |-> value])

Batch == [id : Nat, domain : Domains, records : Records]

DebounceTypeOK ==
  /\ pending \in [Domains -> Records]
  /\ \A d \in Domains : pending[d] = NoRecords \/ Cardinality(DOMAIN pending[d]) < max_keys
  /\ db \in [Domains -> Records] /\ latest \in [Domains -> Records]
  /\ timers \in [Domains -> Nat] /\ dropped \in [Domains -> SUBSET Keys]
  /\ \A f \in flushes : f \in Batch /\ f.id < taken
  /\ writes \in 0..MaxWrites /\ taken \in Nat

DebounceInit ==
  /\ pending = [d \in Domains |-> NoRecords]
  /\ timers = [d \in Domains |-> 0]
  /\ flushes = {}
  /\ db = [d \in Domains |-> NoRecords]
  /\ latest = [d \in Domains |-> NoRecords]
  /\ dropped = [d \in Domains |-> {}]
  /\ writes = 0 /\ taken = 0

-----------------------------------------------------------------------------

spawn_flush(d, records) ==
  /\ flushes' = flushes \cup {[id |-> taken, domain |-> d, records |-> records]}
  /\ taken' = taken + 1

\* immediate_flush.
Full(entry) == Cardinality(DOMAIN entry) >= max_keys

\* should_spawn_timer: only the write that opens a batch starts a timer.
OpensBatch(entry) == entry = NoRecords

submit(d, key, value) ==
  /\ writes < MaxWrites /\ writes' = writes + 1
  /\ LET entry == insert(pending[d], key, value)
     IN  IF Full(entry)
         THEN /\ pending' = [pending EXCEPT ![d] = NoRecords]
              /\ spawn_flush(d, entry)
              /\ UNCHANGED timers
         ELSE /\ pending' = [pending EXCEPT ![d] = entry]
              /\ timers' = [timers EXCEPT ![d] = IF OpensBatch(pending[d]) THEN @ + 1 ELSE @]
              /\ UNCHANGED <<flushes, taken>>
  /\ latest' = IF value \in Unstorable THEN latest
               ELSE [latest EXCEPT ![d] = insert(@, key, value)]
  /\ dropped' = [dropped EXCEPT ![d] = @ \ {key}]
  /\ UNCHANGED db

\* Mutation: a timer waits for a full batch.
timer_waits(d) ==
  /\ timers[d] > 0
  /\ Full(pending[d])
  /\ timers' = [timers EXCEPT ![d] = @ - 1]
  /\ pending' = [pending EXCEPT ![d] = NoRecords]
  /\ spawn_flush(d, pending[d])
  /\ UNCHANGED <<db, latest, dropped, writes>>

\* A timer takes whatever is buffered now, which may be a later batch than
\* the one that started it, or nothing.
TimerFires(d) ==
  /\ timers[d] > 0
  /\ timers' = [timers EXCEPT ![d] = @ - 1]
  /\ pending' = [pending EXCEPT ![d] = NoRecords]
  /\ IF pending[d] # NoRecords THEN spawn_flush(d, pending[d]) ELSE UNCHANGED <<flushes, taken>>
  /\ UNCHANGED <<db, latest, dropped, writes>>

\* StorageEngine::write_batch: one transaction, aborted by the first value
\* that cannot be encoded.
Encodes(f) == \A k \in DOMAIN f.records : f.records[k] \notin Unstorable

\* Mutation: the batch replaces the store.
batch_replaces(f) ==
  /\ f \in flushes
  /\ Encodes(f)
  /\ db' = [db EXCEPT ![f.domain] = f.records]
  /\ flushes' = flushes \ {f}
  /\ UNCHANGED <<pending, timers, latest, dropped, writes, taken>>

write_batch(f) ==
  /\ f \in flushes
  /\ Encodes(f)
  /\ db' = [db EXCEPT ![f.domain] = Overlay(@, f.records)]
  /\ flushes' = flushes \ {f}
  /\ UNCHANGED <<pending, timers, latest, dropped, writes, taken>>

\* The batch is logged and dropped.
FlushFails(f) ==
  /\ f \in flushes
  /\ EngineMayFail \/ ~Encodes(f)
  /\ flushes' = flushes \ {f}
  /\ dropped' = [dropped EXCEPT ![f.domain] = @ \cup DOMAIN f.records]
  /\ UNCHANGED <<pending, timers, db, latest, writes, taken>>

\* The process ends: only what is committed survives.
Crash ==
  /\ pending' = [d \in Domains |-> NoRecords]
  /\ timers' = [d \in Domains |-> 0]
  /\ flushes' = {}
  /\ latest' = db /\ dropped' = [d \in Domains |-> {}]
  /\ UNCHANGED <<db, writes, taken>>

Worker ==
  \/ \E d \in Domains : TimerFires(d)
  \/ \E f \in flushes : write_batch(f)
  \/ \E f \in flushes : FlushFails(f)

DebounceNext ==
  \/ \E d \in Domains, k \in Keys, v \in Values : submit(d, k, v)
  \/ Worker \/ Crash

DebounceSpec == DebounceInit /\ [][DebounceNext]_debounceVars

\* While the process runs, tokio runs every timer it has armed and every
\* blocking task it has queued.
DebounceFairSpec ==
  /\ DebounceSpec
  /\ \A d \in Domains : WF_debounceVars(TimerFires(d))
  /\ WF_debounceVars(\E f \in flushes : write_batch(f) \/ FlushFails(f))

-----------------------------------------------------------------------------
(* Properties *)

\* A buffered write is never stranded: some timer is still to fire for its
\* domain, although timers and batches do not correspond one to one.
BufferedHasTimer == \A d \in Domains : pending[d] # NoRecords => timers[d] > 0

\* S2: "eventually durable": a write that store_local accepted reaches the
\* store sooner or later, unless a crash or a failed flush takes it.
EventuallyDurable ==
  \A d \in Domains, k \in Keys :
     k \in DOMAIN latest[d] ~> k \in DOMAIN db[d] \cup dropped[d] \/ k \notin DOMAIN latest[d]

\* storage_debounce: repeated writes to the same key "must collapse to
\* last-write-wins".  Refuted: two flushes of a domain commit in any order.
LastWriteWins ==
  (\A d \in Domains : pending[d] = NoRecords) /\ flushes = {} =>
     \A d \in Domains : \A k \in DOMAIN latest[d] \cap DOMAIN db[d] : db[d][k] = latest[d][k]

\* Only a crash or a failed flush loses a write: until then every key written
\* is in the buffer, in a flush under way or in the store.
NothingLost ==
  \A d \in Domains : \A k \in DOMAIN latest[d] :
     \/ k \in DOMAIN pending[d] \cup DOMAIN db[d] \cup dropped[d]
     \/ \E f \in flushes : f.domain = d /\ k \in DOMAIN f.records

\* What the debouncer keeps up between a write and its commit: batches below
\* their limit, a timer for each, and no accepted write missing.
DebounceInv == DebounceTypeOK /\ BufferedHasTimer /\ NothingLost

=============================================================================
