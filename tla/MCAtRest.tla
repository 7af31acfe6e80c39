------------------------------ MODULE MCAtRest ------------------------------
(***************************************************************************)
(* What the browser keeps on disk: the batched writes of the stores        *)
(* (StorageDebounce), the key of a store (StorageKeys) and the history     *)
(* (HistoryLog).  The three share no state, so a behaviour exercises one   *)
(* of them, chosen at the start, and leaves the others as they were.       *)
(***************************************************************************)
EXTENDS StorageDebounce, StorageKeys, HistoryLog
CONSTANTS p1, h1, h2, h3, u1, u2, t1
VARIABLE part

OneProcess == [h \in Threads |-> p1]

\* The text typed starts u1 and lies inside u2.
MCHitsUrl(q, u) == IF u = u1 THEN "prefix" ELSE "inside"
MCHitsTitle(q, t) == FALSE

atRestVars == <<debounceVars, keysVars, hvars, part>>

AtRestInit ==
  /\ DebounceInit /\ KeysInit /\ HistoryInit
  /\ part \in {"debounce", "keys", "history"}

AtRestNext ==
  /\ UNCHANGED part
  /\ \/ part = "debounce" /\ DebounceNext /\ UNCHANGED <<keysVars, hvars>>
     \/ part = "keys" /\ KeysNext /\ UNCHANGED <<debounceVars, hvars>>
     \/ part = "history" /\ HistoryNext /\ UNCHANGED <<debounceVars, keysVars>>

\* The fairness of DebounceFairSpec.
AtRestSpec ==
  /\ AtRestInit /\ [][AtRestNext]_atRestVars
  /\ \A d \in Domains : WF_debounceVars(TimerFires(d))
  /\ WF_debounceVars(\E f \in flushes : write_batch(f) \/ FlushFails(f))
=============================================================================
