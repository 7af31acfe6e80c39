---------------------------- MODULE AtRestProofs ----------------------------
(***************************************************************************)
(* What is kept on disk: the key and the file of a domain's store, for any *)
(* number of threads and processes; the history's file, for any number of  *)
(* visits, any cap on the log, any keyring and any number of crashes and   *)
(* faults; and the stores with their quota (StorageDebounce and            *)
(* LocalStorage), for any number of domains, keys, tabs and writes.        *)
(***************************************************************************)
EXTENDS StorageKeys, HistoryLog, LocalStorage, SequenceTheorems, FiniteSetTheorems, SumTheorems, TLAPS

-----------------------------------------------------------------------------
(* StorageKeys *)

Labels == {"idle", "get", "desync", "set", "open", "write"}

\* The types without the bound on generated, and mutual exclusion inside
\* get_or_open.
Types ==
  /\ keyring \in Nat \cup {None} /\ store \subseteq Nat /\ exists \in BOOLEAN
  /\ flock \in Processes \cup {None}
  /\ engines \in [Processes -> Nat \cup {None}]
  /\ mutex \in [Processes -> Threads \cup {None}]
  /\ pc \in [Threads -> Labels]
  /\ key \in [Threads -> Nat \cup {None}]
  /\ generated \in 0..MaxGenerated

Exclusion == \A h \in Threads : Opening(h) <=> mutex[ProcessOf[h]] = h

LEMMA TypesMeanTypeOK == Types /\ Exclusion <=> KeysTypeOK
BY DEF Types, Exclusion, KeysTypeOK, Labels

\* A thread that has or is about to save a key holds one.
HoldsKey == \A h \in Threads : pc[h] \in {"set", "open", "write"} => key[h] # None

LEMMA InitInvariants == KeysInit => Types /\ Exclusion /\ HoldsKey
<1> SUFFICES ASSUME KeysInit PROVE Types /\ Exclusion /\ HoldsKey OBVIOUS
<1> USE KeysAssumption DEF KeysInit
<1>1. generated \in 0..MaxGenerated OBVIOUS
<1>2. Types BY <1>1, Zenon DEF Types, Labels
<1>3. Exclusion BY DEF Exclusion, Opening
<1>4. HoldsKey BY DEF HoldsKey
<1> QED BY <1>2, <1>3, <1>4

LEMMA StepTypes ==
  ASSUME Types, HoldsKey, NEW h \in Threads, Step(h)
  PROVE  Types'
<1> USE KeysAssumption DEF Types, Goto, Hold, Labels
<1>0. ASSUME Fail(h) PROVE Types' BY <1>0 DEF Fail
<1>1. CASE get_or_open(h) BY <1>1 DEF get_or_open
<1>2. CASE get_password(h) BY <1>2 DEF get_password
<1>3. CASE fail_if_desync(h)
  <2>1. CASE exists BY <1>0, <1>3, <2>1 DEF fail_if_desync
  <2>2. CASE ~exists
    <3>1. generated < MaxGenerated /\ generated' = generated + 1 /\ generated \in Nat
      BY <1>3, <2>2 DEF fail_if_desync
    <3>2. generated' \in 0..MaxGenerated BY <3>1
    <3>3. pc' \in [Threads -> Labels] /\ key' \in [Threads -> Nat \cup {None}]
      BY <1>3, <2>2, <3>1 DEF fail_if_desync
    <3>4. UNCHANGED <<keyring, store, exists, flock, engines, mutex>>
      BY <1>3, <2>2 DEF fail_if_desync
    <3> QED BY <3>2, <3>3, <3>4
  <2> QED BY <2>1, <2>2
<1>4. CASE set_password(h) BY <1>4 DEF set_password
<1>5. CASE open_db(h)
  <2>1. CASE flock # None BY <1>0, <1>5, <2>1 DEF open_db
  <2>2. CASE flock = None
    <3>1. flock' = ProcessOf[h] /\ flock' \in Processes BY <1>5, <2>2 DEF open_db
    <3>2. exists' BY <1>5, <2>2, Zenon DEF open_db
    <3>3. exists' \in BOOLEAN BY <1>5, <2>2, Zenon DEF open_db
    <3>4. engines' \in [Processes -> Nat \cup {None}] /\ mutex' \in [Processes -> Threads \cup {None}]
      BY <1>5, <2>2 DEF open_db
    <3>5. pc' \in [Threads -> Labels] BY <1>5, <2>2 DEF open_db
    <3>6. UNCHANGED <<keyring, store, key, generated>> BY <1>5, <2>2 DEF open_db
    <3> QED BY <3>1, <3>3, <3>4, <3>5, <3>6
  <2> QED BY <2>1, <2>2
<1>6. CASE OpenFails(h) BY <1>0, <1>6 DEF OpenFails
<1>7. CASE commit_batch(h)
  <2>1. key[h] \in Nat BY <1>7 DEF commit_batch, HoldsKey
  <2> QED BY <1>7, <2>1 DEF commit_batch
<1> QED BY <1>1, <1>2, <1>3, <1>4, <1>5, <1>6, <1>7 DEF Step

LEMMA StepExclusion ==
  ASSUME Types, Exclusion, NEW h \in Threads, Step(h)
  PROVE  Exclusion'
<1> SUFFICES ASSUME NEW i \in Threads PROVE Opening(i)' <=> mutex'[ProcessOf[i]] = i
  BY DEF Exclusion
<1>a. (Opening(i) <=> mutex[ProcessOf[i]] = i) /\ (Opening(h) <=> mutex[ProcessOf[h]] = h)
  BY DEF Exclusion
<1> USE KeysAssumption, <1>a DEF Types, Goto, Hold, Opening
<1>0. ASSUME Fail(h), Opening(h) PROVE Opening(i)' <=> mutex'[ProcessOf[i]] = i
  BY <1>0 DEF Fail
<1>1. CASE get_or_open(h) BY <1>1 DEF get_or_open
<1>2. CASE get_password(h) BY <1>2 DEF get_password
<1>3. CASE fail_if_desync(h)
  <2>1. CASE exists BY <1>0, <1>3, <2>1 DEF fail_if_desync
  <2>2. CASE ~exists BY <1>3, <2>2 DEF fail_if_desync
  <2> QED BY <2>1, <2>2
<1>4. CASE set_password(h) BY <1>4 DEF set_password
<1>5. CASE open_db(h)
  <2>1. CASE flock # None BY <1>0, <1>5, <2>1 DEF open_db
  <2>2. CASE flock = None BY <1>5, <2>2 DEF open_db
  <2> QED BY <2>1, <2>2
<1>6. CASE OpenFails(h) BY <1>0, <1>6 DEF OpenFails
<1>7. CASE commit_batch(h) BY <1>7 DEF commit_batch
<1> QED BY <1>1, <1>2, <1>3, <1>4, <1>5, <1>6, <1>7 DEF Step

LEMMA StepHoldsKey ==
  ASSUME Types, HoldsKey, NEW h \in Threads, Step(h)
  PROVE  HoldsKey'
<1> USE KeysAssumption DEF Types, HoldsKey, Goto, Hold
<1>0. ASSUME Fail(h) PROVE HoldsKey' BY <1>0 DEF Fail
<1>1. CASE get_or_open(h) BY <1>1 DEF get_or_open
<1>2. CASE get_password(h) BY <1>2 DEF get_password
<1>3. CASE fail_if_desync(h)
  <2>1. CASE exists BY <1>0, <1>3, <2>1 DEF fail_if_desync
  <2>2. CASE ~exists BY <1>3, <2>2 DEF fail_if_desync
  <2> QED BY <2>1, <2>2
<1>4. CASE set_password(h) BY <1>4 DEF set_password
<1>5. CASE open_db(h)
  <2>1. CASE flock # None BY <1>0, <1>5, <2>1 DEF open_db
  <2>2. CASE flock = None BY <1>5, <2>2 DEF open_db
  <2> QED BY <2>1, <2>2
<1>6. CASE OpenFails(h) BY <1>0, <1>6 DEF OpenFails
<1>7. CASE commit_batch(h) BY <1>7 DEF commit_batch
<1> QED BY <1>1, <1>2, <1>3, <1>4, <1>5, <1>6, <1>7 DEF Step

LEMMA ExitInvariants ==
  ASSUME Types, Exclusion, HoldsKey, NEW p \in Processes, Exit(p)
  PROVE  Types' /\ Exclusion' /\ HoldsKey'
<1> USE KeysAssumption DEF Exit
<1>1. Types' BY DEF Types, Labels
<1>2. Exclusion' BY DEF Types, Exclusion, Opening
<1>3. HoldsKey' BY DEF Types, HoldsKey
<1> QED BY <1>1, <1>2, <1>3

-----------------------------------------------------------------------------

Basic == Types /\ Exclusion /\ HoldsKey

LEMMA BasicInductive == Basic /\ [KeysNext]_keysVars => Basic'
<1> SUFFICES ASSUME Basic, [KeysNext]_keysVars PROVE Basic' OBVIOUS
<1> USE DEF Basic
<1>1. ASSUME NEW h \in Threads, Step(h) PROVE Basic'
  BY <1>1, StepTypes, StepExclusion, StepHoldsKey
<1>2. ASSUME NEW p \in Processes, Exit(p) PROVE Basic' BY <1>2, ExitInvariants
<1>3. CASE UNCHANGED keysVars BY <1>3 DEF keysVars, Types, Exclusion, HoldsKey, Opening
<1> QED BY <1>1, <1>2, <1>3 DEF KeysNext

\* The types of StorageKeys, and that at most one thread of a process is
\* inside get_or_open at any time.
THEOREM TypeCorrect == KeysSpec => []KeysTypeOK
<1>1. KeysInit => Basic BY InitInvariants DEF Basic
<1>2. Basic => KeysTypeOK BY TypesMeanTypeOK DEF Basic
<1> QED BY <1>1, <1>2, BasicInductive, PTL DEF KeysSpec

-----------------------------------------------------------------------------

\* The key is in the keyring before the database is opened.
SavedFirst == \A h \in Threads : pc[h] = "open" => keyring # None

LEMMA LockedOutInductive ==
  ASSUME Basic, SavedFirst, NeverLockedOut, [KeysNext]_keysVars
  PROVE  (SavedFirst /\ NeverLockedOut)'
<1> USE KeysAssumption DEF SavedFirst, NeverLockedOut, Basic, Types, HoldsKey, Goto, Hold
<1>1. ASSUME NEW h \in Threads, Step(h) PROVE (SavedFirst /\ NeverLockedOut)'
  <2>0. ASSUME Fail(h) PROVE (SavedFirst /\ NeverLockedOut)' BY <2>0 DEF Fail
  <2>1. CASE get_or_open(h) BY <2>1 DEF get_or_open
  <2>2. CASE get_password(h) BY <2>2 DEF get_password
  <2>3. CASE fail_if_desync(h)
    <3>1. CASE exists BY <2>0, <2>3, <3>1 DEF fail_if_desync
    <3>2. CASE ~exists BY <2>3, <3>2 DEF fail_if_desync
    <3> QED BY <3>1, <3>2
  <2>4. CASE set_password(h) BY <2>4 DEF set_password
  <2>5. CASE open_db(h)
    <3>1. CASE flock # None BY <2>0, <2>5, <3>1 DEF open_db
    <3>2. CASE flock = None BY <2>5, <3>2 DEF open_db
    <3> QED BY <3>1, <3>2
  <2>6. CASE OpenFails(h) BY <2>0, <2>6 DEF OpenFails
  <2>7. CASE commit_batch(h) BY <2>7 DEF commit_batch
  <2> QED BY <1>1, <2>1, <2>2, <2>3, <2>4, <2>5, <2>6, <2>7 DEF Step
<1>2. ASSUME NEW p \in Processes, Exit(p) PROVE (SavedFirst /\ NeverLockedOut)'
  BY <1>2 DEF Exit
<1>3. CASE UNCHANGED keysVars BY <1>3 DEF keysVars
<1> QED BY <1>1, <1>2, <1>3 DEF KeysNext

\* However threads and processes interleave, fail and exit, a storage file has
\* a key in the keyring: fail_if_desync never meets a file of its own making.
THEOREM NoLockOut == KeysSpec => []NeverLockedOut
<1>1. KeysInit => Basic /\ SavedFirst /\ NeverLockedOut
  BY InitInvariants DEF Basic, KeysInit, SavedFirst, NeverLockedOut
<1>2. Basic /\ SavedFirst /\ NeverLockedOut /\ [KeysNext]_keysVars
        => (Basic /\ SavedFirst /\ NeverLockedOut)'
  BY BasicInductive, LockedOutInductive
<1> QED BY <1>1, <1>2, PTL DEF KeysSpec

-----------------------------------------------------------------------------

\* With one process: a key in use is the keyring's, and while a thread is
\* between finding no key and saving one, there is none.
OneKey ==
  /\ \A h \in Threads : pc[h] \in {"open", "write"} => key[h] = keyring
  /\ \A h \in Threads : pc[h] \in {"desync", "set"} => keyring = None
  /\ \A p \in Processes : engines[p] # None => engines[p] = keyring
  /\ StoreDecryptable

LEMMA OneKeyInductive ==
  ASSUME \A h, i \in Threads : ProcessOf[h] = ProcessOf[i],
         Basic, OneKey, [KeysNext]_keysVars
  PROVE  OneKey'
<1> USE KeysAssumption DEF OneKey, StoreDecryptable, Basic, Types, HoldsKey, Goto, Hold
<1>1. ASSUME NEW h \in Threads, Step(h) PROVE OneKey'
  <2>0. ASSUME Fail(h) PROVE OneKey' BY <2>0 DEF Fail
  <2>1. CASE get_or_open(h) BY <2>1 DEF get_or_open
  <2>2. CASE get_password(h) BY <2>2 DEF get_password
  <2>3. CASE fail_if_desync(h)
    <3>1. CASE exists BY <2>0, <2>3, <3>1 DEF fail_if_desync
    <3>2. CASE ~exists BY <2>3, <3>2 DEF fail_if_desync
    <3> QED BY <3>1, <3>2
  <2>4. CASE set_password(h)
    \* No other thread is inside get_or_open, and nothing is in use yet.
    <3>1. keyring = None /\ store = {} BY <2>4 DEF set_password
    <3>2. \A i \in Threads : pc[i] \notin {"open", "write"} BY <3>1
    <3>3. \A i \in Threads \ {h} : pc[i] \notin {"desync", "set"}
      BY <2>4 DEF set_password, Exclusion, Opening
    <3>4. \A p \in Processes : engines[p] = None BY <3>1
    <3> QED BY <2>4, <3>1, <3>2, <3>3, <3>4 DEF set_password
  <2>5. CASE open_db(h)
    <3>1. CASE flock # None BY <2>0, <2>5, <3>1 DEF open_db
    <3>2. CASE flock = None BY <2>5, <3>2 DEF open_db
    <3> QED BY <3>1, <3>2
  <2>6. CASE OpenFails(h) BY <2>0, <2>6 DEF OpenFails
  <2>7. CASE commit_batch(h) BY <2>7 DEF commit_batch
  <2> QED BY <1>1, <2>1, <2>2, <2>3, <2>4, <2>5, <2>6, <2>7 DEF Step
<1>2. ASSUME NEW p \in Processes, Exit(p) PROVE OneKey' BY <1>2 DEF Exit
<1>3. CASE UNCHANGED keysVars BY <1>3 DEF keysVars
<1> QED BY <1>1, <1>2, <1>3 DEF KeysNext

\* The threads of one process, however many, never write a record under a key
\* other than the one the keyring holds.
THEOREM OneProcessDecryptable ==
  ASSUME \A h, i \in Threads : ProcessOf[h] = ProcessOf[i]
  PROVE  KeysSpec => []StoreDecryptable
<1>1. KeysInit => Basic /\ OneKey
  BY InitInvariants DEF Basic, KeysInit, OneKey, StoreDecryptable
<1>2. Basic /\ OneKey /\ [KeysNext]_keysVars => (Basic /\ OneKey)'
  BY BasicInductive, OneKeyInductive
<1>3. OneKey => StoreDecryptable BY DEF OneKey
<1> QED BY <1>1, <1>2, <1>3, PTL DEF KeysSpec

\* THEOREM: KeysInv, the three together, for the threads of one browser process.
THEOREM KeysSafe ==
  ASSUME \A h, i \in Threads : ProcessOf[h] = ProcessOf[i]
  PROVE  KeysSpec => []KeysInv
<1>1. KeysSpec => []StoreDecryptable BY OneProcessDecryptable
<1>2. KeysTypeOK /\ NeverLockedOut /\ StoreDecryptable => KeysInv BY DEF KeysInv
<1> QED BY <1>1, <1>2, TypeCorrect, NoLockOut, PTL

-----------------------------------------------------------------------------
(* HistoryLog.  Nothing is assumed of the keyring's answers: the argument is
   about which log the file holds, never about which key sealed it. *)

VisitRecords == [url : Pages, title : Titles, at : Nat]
Logs == {log \in Seq(VisitRecords) : Len(log) <= MAX_LOG_ENTRIES}
HistoryKeys == Nat \cup {HNone}
Blobs == [is : {"blob"}, key : HistoryKeys, log : Logs]
Contents == {NoFile, Torn} \cup Blobs

HistoryTypes ==
  /\ hlog \in Logs /\ dirty \in BOOLEAN
  /\ hpc \in {"run", "key", "tmp", "rename", "down"}
  /\ leaving \in BOOLEAN /\ clearing \subseteq Nat /\ hkey \in HistoryKeys
  /\ file \in Contents
  /\ hgenerated \in Nat /\ now \in Nat /\ faults \in Nat
  /\ cleared \subseteq Nat

-----------------------------------------------------------------------------
(* The operations on a log *)

LEMMA ContentsDisjoint ==
  /\ Torn # NoFile
  /\ \A b \in Blobs : b.is = "blob" /\ b # Torn /\ b # NoFile
  /\ \A b \in Contents : b.is = "blob" => b \in Blobs
<1>1. NoFile.is = "none" /\ Torn.is = "torn" BY DEF NoFile, Torn
<1>2. \A b \in Blobs : b.is = "blob" BY DEF Blobs
<1> QED BY <1>1, <1>2 DEF Contents

LEMMA SealedLog ==
  ASSUME NEW k \in HistoryKeys, NEW log \in Logs
  PROVE  encrypt_blob(k, log) \in Blobs /\ encrypt_blob(k, log).log = log
BY DEF encrypt_blob, Blobs

\* The records of a log, newest first.
NewestFirst(log) == \A i, j \in 1..Len(log) : i < j => log[i].at > log[j].at

\* A visit enters at the head, in the place of a record of the same URL or
\* with the oldest ones cut off.
LEMMA PushProperties ==
  ASSUME NEW log \in Logs, NEW r \in VisitRecords
  PROVE  /\ push(log, r) \in Logs /\ Visits(push(log, r)) \subseteq Visits(log) \cup {r.at}
         /\ NewestFirst(log) /\ (\A v \in Visits(log) : v < r.at) => NewestFirst(push(log, r))
<1> USE HistoryAssumption
<1>0. log \in Seq(VisitRecords) /\ Len(log) \in Nat /\ Len(log) <= MAX_LOG_ENTRIES
  BY DEF Logs
<1>1. <<r>> \in Seq(VisitRecords) /\ Len(<<r>>) = 1 /\ <<r>>[1] = r OBVIOUS
<1>a. r.at \in Nat /\ \A i \in 1..Len(log) : log[i].at \in Nat
  <2>1. \A i \in 1..Len(log) : log[i] \in VisitRecords BY <1>0
  <2> QED BY <2>1 DEF VisitRecords
<1>2. CASE log # <<>> /\ Head(log).url = r.url
  <2> DEFINE new == <<r>> \o Tail(log)
  <2>1. push(log, r) = new BY <1>2 DEF push
  <2>2. /\ Tail(log) \in Seq(VisitRecords) /\ Len(Tail(log)) = Len(log) - 1
        /\ \A i \in 1..Len(Tail(log)) : Tail(log)[i] = log[i + 1]
    BY <1>0, <1>2, HeadTailProperties
  <2>3. /\ new \in Seq(VisitRecords) /\ Len(new) = Len(log)
        /\ \A i \in 1..Len(new) : new[i] = IF i = 1 THEN r ELSE log[i]
    <3>1. new \in Seq(VisitRecords) /\ Len(new) = 1 + Len(Tail(log))
      BY <1>1, <2>2, ConcatProperties
    <3>2. \A i \in 1..Len(new) : new[i] = IF i <= 1 THEN <<r>>[i] ELSE Tail(log)[i - 1]
      BY <1>1, <2>2, ConcatProperties
    <3>3. ASSUME NEW i \in 1..Len(new) PROVE new[i] = IF i = 1 THEN r ELSE log[i]
      <4>1. CASE i = 1 BY <3>2, <4>1, <1>1
      <4>2. CASE i # 1
        <5>1. i - 1 \in 1..Len(Tail(log)) BY <3>1, <4>2, <2>2, <1>0
        <5>2. new[i] = Tail(log)[i - 1] BY <3>2, <4>2
        <5> QED BY <5>1, <5>2, <2>2, <4>2
      <4> QED BY <4>1, <4>2
    <3> QED BY <3>1, <3>3, <2>2, <1>0
  <2>4. \A i \in 1..Len(new) : new[i].at \in Visits(log) \cup {r.at}
    BY <2>3, <1>0 DEF Visits
  <2> HIDE DEF new
  <2>5. DOMAIN new = 1..Len(new) BY <2>3
  <2>6. ASSUME NewestFirst(log), \A v \in Visits(log) : v < r.at PROVE NewestFirst(new)
    <3>1. \A i \in 1..Len(log) : log[i].at < r.at BY <2>6, <1>0 DEF Visits
    <3> QED BY <1>a, <2>3, <2>6, <3>1 DEF NewestFirst
  <2> QED BY <2>1, <2>3, <2>4, <2>5, <2>6, <1>0 DEF Logs, Visits
<1>3. CASE ~(log # <<>> /\ Head(log).url = r.url)
  <2> DEFINE all == <<r>> \o log
             n == IF Len(log) + 1 > MAX_LOG_ENTRIES THEN MAX_LOG_ENTRIES ELSE Len(log) + 1
             new == SubSeq(all, 1, n)
  <2>1. push(log, r) = new BY <1>3 DEF push
  <2>2. /\ all \in Seq(VisitRecords) /\ Len(all) = 1 + Len(log)
        /\ \A i \in 1..Len(all) : all[i] = IF i <= 1 THEN <<r>>[i] ELSE log[i - 1]
    BY <1>0, <1>1, ConcatProperties
  <2>3. n \in Nat /\ 1 <= n /\ n <= Len(all) /\ n <= MAX_LOG_ENTRIES BY <1>0, <2>2
  <2>4. \A i \in 1..n : all[i] \in VisitRecords /\ all[i].at \in Visits(log) \cup {r.at}
    <3> SUFFICES ASSUME NEW i \in 1..n
                 PROVE all[i] \in VisitRecords /\ all[i].at \in Visits(log) \cup {r.at}
      OBVIOUS
    <3>1. i \in 1..Len(all) BY <2>2, <2>3, <1>0
    <3>2. CASE i = 1 BY <3>1, <3>2, <2>2, <1>1
    <3>3. CASE i # 1
      <4>1. i - 1 \in 1..Len(log) BY <3>1, <3>3, <2>2, <1>0
      <4>2. all[i] = log[i - 1] BY <3>1, <3>3, <2>2
      <4> HIDE DEF all
      <4> QED BY <4>1, <4>2, <1>0 DEF Visits
    <3> QED BY <3>2, <3>3
  <2> HIDE DEF all, n
  <2>5. /\ new \in Seq(VisitRecords) /\ Len(new) = n
        /\ \A i \in 1..n : new[i] = all[i]
    BY <2>3, <2>4, SubSeqProperties
  <2> HIDE DEF new
  <2>6. DOMAIN new = 1..n BY <2>5
  <2>7. ASSUME NewestFirst(log), \A v \in Visits(log) : v < r.at PROVE NewestFirst(new)
    <3>1. \A i \in 1..Len(log) : log[i].at < r.at BY <2>7, <1>0 DEF Visits
    <3>2. \A i \in 1..n : i # 1 => i - 1 \in 1..Len(log) /\ new[i] = log[i - 1]
      <4> SUFFICES ASSUME NEW i \in 1..n, i # 1
                   PROVE  i - 1 \in 1..Len(log) /\ new[i] = log[i - 1]
        OBVIOUS
      <4>1. i \in 1..Len(all) /\ ~(i <= 1) /\ i - 1 \in 1..Len(log) BY <1>0, <2>2, <2>3
      <4> QED BY <2>2, <2>5, <4>1
    <3>3. new[1] = r
      <4>1. 1 \in 1..n /\ 1 \in 1..Len(all) BY <1>0, <2>2, <2>3
      <4>2. all[1] = IF 1 <= 1 THEN <<r>>[1] ELSE log[1 - 1] BY <2>2, <4>1
      <4>3. all[1] = r BY <1>1, <4>2
      <4> QED BY <2>5, <4>1, <4>3
    <3> SUFFICES ASSUME NEW i \in 1..n, NEW j \in 1..n, i < j PROVE new[i].at > new[j].at
      BY <2>5 DEF NewestFirst
    <3>4. j # 1 /\ j - 1 \in 1..Len(log) /\ new[j] = log[j - 1] BY <2>3, <3>2
    <3>5. CASE i = 1 BY <1>a, <3>1, <3>3, <3>4, <3>5
    <3>6. CASE i # 1
      <4>1. i - 1 \in 1..Len(log) /\ new[i] = log[i - 1] /\ i - 1 < j - 1 BY <3>2, <3>6
      <4> QED BY <2>7, <3>4, <4>1 DEF NewestFirst
    <3> QED BY <3>5, <3>6
  <2> QED BY <2>1, <2>3, <2>4, <2>5, <2>6, <2>7 DEF Logs, Visits
<1> QED BY <1>2, <1>3

LEMMA EmptyLog == <<>> \in Logs /\ Visits(<<>>) = {} /\ NewestFirst(<<>>)
BY HistoryAssumption DEF Logs, Visits, NewestFirst

\* The log that was saved is read back whole.
LEMMA LoadedWhole ==
  ASSUME NEW log \in Logs
  PROVE  from_newest_first(log) = log
<1>1. log \in Seq(VisitRecords) /\ Len(log) \in Nat /\ Len(log) <= MAX_LOG_ENTRIES
  BY DEF Logs
<1>2. from_newest_first(log) = SubSeq(log, 1, Len(log))
  BY <1>1, HistoryAssumption DEF from_newest_first
<1> QED BY <1>1, <1>2, SubSeqFull

LEMMA VisitsAreTimes == \A log \in Logs : Visits(log) \subseteq Nat
<1> SUFFICES ASSUME NEW log \in Logs, NEW i \in DOMAIN log PROVE log[i].at \in Nat
  BY DEF Visits
<1>1. log \in Seq(VisitRecords) BY DEF Logs
<1>2. log[i] \in VisitRecords BY <1>1
<1> QED BY <1>2 DEF VisitRecords

-----------------------------------------------------------------------------
(* The file and the log in memory *)

FileVisits == IF file.is = "blob" THEN Visits(file.log) ELSE {}
Saving == hpc \in {"key", "tmp", "rename"}

\* Every visit known is in the past, so that a new one is none of the cleared.
VisitsPast == \A v \in Visits(hlog) \cup FileVisits \cup cleared \cup clearing : v < now

\* A save in progress: of a dirty log, the one in memory, which is empty when
\* the save is that of a Clear.
SaveInProgress ==
  /\ Saving => dirty
  /\ hpc = "rename" => tmp = encrypt_blob(hkey, hlog)
  /\ clearing # {} => Saving /\ hlog = <<>>

HistoryIInv ==
  /\ HistoryTypes /\ VisitsPast /\ SaveInProgress
  /\ NeverTorn /\ CleanMeansSaved /\ ClearSurvives

LEMMA HistoryInitial == HistoryInit => HistoryIInv
<1> SUFFICES ASSUME HistoryInit PROVE HistoryIInv OBVIOUS
<1> USE EmptyLog, ContentsDisjoint DEF HistoryInit
<1>1. file.is # "blob" BY DEF NoFile
<1>2. HistoryTypes BY DEF HistoryTypes, Contents, HistoryKeys
<1>3. VisitsPast BY <1>1 DEF VisitsPast, FileVisits
<1>4. SaveInProgress BY DEF SaveInProgress, Saving
<1>5. NeverTorn /\ CleanMeansSaved /\ ClearSurvives
  BY <1>1 DEF NeverTorn, CleanMeansSaved, ClearSurvives
<1> QED BY <1>2, <1>3, <1>4, <1>5 DEF HistoryIInv

\* Time passes, the panel moves, the keyring is used: the log, its file and the
\* save in progress stay as they are.
LEMMA QuietStep ==
  ASSUME HistoryIInv, now' \in Nat, now' >= now, hgenerated' \in Nat,
         UNCHANGED <<hlog, dirty, Saver, Files, faults, cleared, unread>>
  PROVE  HistoryIInv'
<1> USE DEF Saver, Files
<1>1. HistoryTypes' BY DEF HistoryIInv, HistoryTypes
<1>2. VisitsPast'
  <2>1. \A v \in Visits(hlog) \cup FileVisits \cup cleared \cup clearing : v \in Nat
    BY ContentsDisjoint, VisitsAreTimes DEF HistoryIInv, HistoryTypes, FileVisits, Blobs
  <2>2. (Visits(hlog) \cup FileVisits \cup cleared \cup clearing)'
          = Visits(hlog) \cup FileVisits \cup cleared \cup clearing
    BY DEF Visits, FileVisits
  <2> QED BY <2>1, <2>2 DEF HistoryIInv, HistoryTypes, VisitsPast
<1>3. SaveInProgress' BY DEF HistoryIInv, SaveInProgress, Saving, encrypt_blob
<1>4. (NeverTorn /\ CleanMeansSaved /\ ClearSurvives)'
  BY DEF HistoryIInv, NeverTorn, CleanMeansSaved, ClearSurvives, Running, Visits, Torn
<1> QED BY <1>1, <1>2, <1>3, <1>4 DEF HistoryIInv

\* A save begins, goes on or is given up; the log and its file do not change.
LEMMA SaverStep ==
  ASSUME HistoryIInv, UNCHANGED <<hlog, dirty, file, now, faults, cleared, unread>>,
         hpc' \in {"run", "key", "tmp", "rename", "down"}, leaving' \in BOOLEAN,
         hkey' \in HistoryKeys, hgenerated' \in Nat, clearing' \in {clearing, {}},
         hpc' = "rename" => tmp' = encrypt_blob(hkey', hlog),
         Saving' => dirty,
         clearing' # {} => Saving',
         Running' => dirty \/ Running
  PROVE  HistoryIInv'
<1>1. HistoryTypes' BY DEF HistoryIInv, HistoryTypes
<1>2. VisitsPast' BY DEF HistoryIInv, VisitsPast, FileVisits, Visits
<1>3. SaveInProgress' BY DEF HistoryIInv, SaveInProgress, Saving, encrypt_blob
<1>4. (NeverTorn /\ CleanMeansSaved /\ ClearSurvives)'
  BY DEF HistoryIInv, NeverTorn, CleanMeansSaved, ClearSurvives, Running, Visits, Torn
<1> QED BY <1>1, <1>2, <1>3, <1>4 DEF HistoryIInv

LEMMA VisitStep ==
  ASSUME HistoryIInv, NEW u \in Pages, NEW t \in Titles, Visit(u, t)
  PROVE  HistoryIInv'
<1> DEFINE r == [url |-> u, title |-> t, at |-> now]
<1> USE DEF Saver, Files, Keyring
<1>1. r \in VisitRecords /\ r.at = now BY DEF HistoryIInv, HistoryTypes, VisitRecords
<1>2. hlog' = push(hlog, r) /\ dirty' = TRUE /\ now' = now + 1 /\ hpc = "run" /\ hpc' = "run"
  BY DEF Visit, Running
<1>3. hlog' \in Logs /\ Visits(hlog)' \subseteq Visits(hlog) \cup {now}
  <2>1. hlog \in Logs BY DEF HistoryIInv, HistoryTypes
  <2> HIDE DEF r
  <2>2. Visits(push(hlog, r)) = Visits(hlog)' BY <1>2 DEF Visits
  <2> QED BY <1>1, <1>2, <2>1, <2>2, PushProperties
<1>4. clearing = {} /\ clearing' = {} BY <1>2 DEF Visit, HistoryIInv, SaveInProgress, Saving
<1>5. FileVisits' = FileVisits BY DEF Visit, FileVisits, Visits
<1>6. cleared' = cleared /\ file' = file /\ faults' = faults /\ tmp' = tmp BY DEF Visit
<1>7. Visits(hlog) \cup FileVisits \cup cleared \subseteq Nat
  BY ContentsDisjoint, VisitsAreTimes DEF HistoryIInv, HistoryTypes, FileVisits, Blobs
<1>8. now \in Nat /\ \A v \in Visits(hlog) \cup FileVisits \cup cleared : v < now
  BY DEF HistoryIInv, HistoryTypes, VisitsPast
<1>9. HistoryTypes' BY <1>2, <1>3, <1>4 DEF Visit, HistoryIInv, HistoryTypes
<1>10. VisitsPast' BY <1>2, <1>3, <1>4, <1>5, <1>6, <1>7, <1>8 DEF VisitsPast
<1>11. SaveInProgress' BY <1>2, <1>4 DEF SaveInProgress, Saving
<1>12. NeverTorn' BY <1>6 DEF HistoryIInv, NeverTorn, Torn
<1>13. CleanMeansSaved' BY <1>2 DEF CleanMeansSaved
<1>14. ClearSurvives'
  <2>1. cleared \cap (Visits(hlog) \cup FileVisits) = {}
    BY DEF HistoryIInv, ClearSurvives, FileVisits
  <2>2. now \notin cleared BY <1>8
  <2>3. (cleared \cap (Visits(hlog) \cup FileVisits))' = {} BY <1>3, <1>5, <1>6, <2>1, <2>2
  <2> QED BY <2>3 DEF ClearSurvives, FileVisits
<1> QED BY <1>9, <1>10, <1>11, <1>12, <1>13, <1>14 DEF HistoryIInv

LEMMA SaveKeyStep ==
  ASSUME HistoryIInv, SaveKey
  PROVE  HistoryIInv'
<1>1. hpc = "key" /\ dirty BY DEF SaveKey, HistoryIInv, SaveInProgress, Saving
<1>2. PICK k \in {HNone} \cup 0..hgenerated :
        /\ get_or_create_history_key(k)
        /\ IF k = HNone THEN SaveReturns
           ELSE hpc' = "tmp" /\ hkey' = k /\ UNCHANGED <<leaving, clearing>>
  BY DEF SaveKey
<1>3. hgenerated' \in Nat /\ k \in HistoryKeys
  BY <1>2 DEF get_or_create_history_key, Keyring, HistoryKeys, HistoryIInv, HistoryTypes
<1>4. UNCHANGED <<hlog, dirty, file, now, faults, cleared, unread>> BY DEF SaveKey, Files
<1>5. CASE k = HNone
  BY <1>1, <1>2, <1>3, <1>4, <1>5, SaverStep DEF SaveReturns, Saving, Running, HistoryKeys, HistoryIInv, HistoryTypes
<1>6. CASE k # HNone
  BY <1>1, <1>2, <1>3, <1>4, <1>6, SaverStep DEF Saving, Running, HistoryIInv, HistoryTypes
<1> QED BY <1>5, <1>6

LEMMA WriteTmpStep ==
  ASSUME HistoryIInv, WriteTmp
  PROVE  HistoryIInv'
<1>1. hpc = "tmp" /\ dirty BY DEF WriteTmp, HistoryIInv, SaveInProgress, Saving
<1>2. UNCHANGED <<hlog, dirty, file, now, faults, cleared, unread, hgenerated>> BY DEF WriteTmp, Keyring
<1>3. CASE tmp' = encrypt_blob(hkey, hlog) /\ hpc' = "rename" /\ UNCHANGED <<leaving, clearing, hkey>>
  BY <1>1, <1>2, <1>3, SaverStep DEF Saving, Running, HistoryIInv, HistoryTypes
<1>4. CASE SaveReturns
  BY <1>1, <1>2, <1>4, SaverStep DEF SaveReturns, Saving, Running, HistoryKeys, HistoryIInv, HistoryTypes
<1> QED BY <1>3, <1>4 DEF WriteTmp

\* The rename puts the log in memory on disk, or changes nothing but the
\* temporary file.
LEMMA RenameTmpStep ==
  ASSUME HistoryIInv, RenameTmp
  PROVE  HistoryIInv'
<1>1. hpc = "rename" /\ dirty /\ tmp = encrypt_blob(hkey, hlog)
  BY DEF RenameTmp, HistoryIInv, SaveInProgress, Saving
<1>2. /\ UNCHANGED <<hlog, now, faults, hgenerated>>
      /\ hpc' \in {"run", "down"} /\ leaving' = FALSE /\ clearing' = {} /\ hkey' = HNone
  BY DEF RenameTmp, SaveReturns, Keyring
<1>3. CASE UNCHANGED <<file, dirty, last_save, cleared, unread>>
  BY <1>1, <1>2, <1>3, SaverStep DEF Saving, Running, HistoryKeys, HistoryIInv, HistoryTypes
<1>4. CASE file' = tmp /\ dirty' = FALSE /\ cleared' = cleared \cup clearing
  <2>1. tmp \in Blobs /\ tmp.log = hlog
    BY <1>1, SealedLog DEF HistoryIInv, HistoryTypes
  <2>2. file' \in Contents /\ file'.is = "blob" /\ file'.log = hlog' /\ file' # Torn
    BY <1>2, <1>4, <2>1, ContentsDisjoint DEF Contents
  <2>3. FileVisits' = Visits(hlog) /\ Visits(hlog)' = Visits(hlog)
    BY <1>2, <2>2 DEF FileVisits, Visits
  <2>4. HistoryTypes' BY <1>2, <1>4, <2>2 DEF HistoryIInv, HistoryTypes, HistoryKeys
  <2>5. VisitsPast' BY <1>2, <1>4, <2>3 DEF HistoryIInv, VisitsPast
  <2>6. SaveInProgress' BY <1>2 DEF SaveInProgress, Saving
  <2>7. NeverTorn' BY <2>2 DEF NeverTorn, Torn
  <2>8. CleanMeansSaved' BY <2>2 DEF CleanMeansSaved
  <2>9. ClearSurvives'
    <3>1. cleared \cap Visits(hlog) = {} BY DEF HistoryIInv, ClearSurvives
    <3>2. clearing \cap Visits(hlog) = {}
      BY EmptyLog DEF HistoryIInv, SaveInProgress
    <3>3. (cleared \cap (Visits(hlog) \cup FileVisits))' = {} BY <1>4, <2>3, <3>1, <3>2
    <3> QED BY <3>3 DEF ClearSurvives, FileVisits
  <2> QED BY <2>4, <2>5, <2>6, <2>7, <2>8, <2>9 DEF HistoryIInv
<1> QED BY <1>3, <1>4 DEF RenameTmp

\* The idle handler's save, and the one on the way out.
LEMMA BeginSaveStep ==
  ASSUME HistoryIInv, autosave \/ Leave
  PROVE  HistoryIInv'
<1>1. hpc = "run" /\ UNCHANGED <<hlog, dirty, file, now, faults, cleared, unread, hgenerated, hkey>>
  BY DEF autosave, Leave, Running, Files, Keyring, BeginSave
<1>2. dirty \in BOOLEAN /\ hkey \in HistoryKeys /\ hgenerated \in Nat BY DEF HistoryIInv, HistoryTypes
<1>3. CASE autosave BY <1>1, <1>2, <1>3, SaverStep DEF autosave, BeginSave, Saving, Running
<1>4. CASE Leave BY <1>1, <1>2, <1>4, SaverStep DEF Leave, BeginSave, Saving, Running
<1> QED BY <1>3, <1>4

LEMMA CrashStep ==
  ASSUME HistoryIInv, HistoryCrash
  PROVE  HistoryIInv'
BY SaverStep DEF HistoryCrash, Keyring, Saving, Running, HistoryKeys, HistoryIInv, HistoryTypes

LEMMA ClickClearStep ==
  ASSUME HistoryIInv, ClickClear
  PROVE  HistoryIInv'
<1>1. /\ hlog' = <<>> /\ dirty' = TRUE /\ hpc' = "key" /\ leaving' = FALSE
      /\ clearing' = Visits(hlog) /\ cleared' = cleared
      /\ UNCHANGED <<hkey, file, now, faults, hgenerated>>
  BY DEF ClickClear, clear, BeginSave, Files, Keyring
<1>2. Visits(hlog)' = {} /\ FileVisits' = FileVisits BY <1>1, EmptyLog DEF FileVisits, Visits
<1>3. HistoryTypes' BY <1>1, EmptyLog, VisitsAreTimes DEF HistoryIInv, HistoryTypes
<1>4. VisitsPast' BY <1>1, <1>2 DEF HistoryIInv, VisitsPast
<1>5. SaveInProgress' BY <1>1 DEF SaveInProgress, Saving
<1>6. NeverTorn' /\ CleanMeansSaved'
  BY <1>1 DEF HistoryIInv, NeverTorn, CleanMeansSaved, Torn
<1>7. ClearSurvives' BY <1>1, <1>2 DEF HistoryIInv, ClearSurvives, FileVisits
<1> QED BY <1>3, <1>4, <1>5, <1>6, <1>7 DEF HistoryIInv

LEMMA FaultStep ==
  ASSUME HistoryIInv, Fault
  PROVE  HistoryIInv'
<1>1. /\ hpc = "down" /\ faults' = faults + 1 /\ file' \in {file, Torn}
      /\ UNCHANGED <<hlog, dirty, hpc, leaving, clearing, hkey, hgenerated, now, cleared>>
  BY DEF Fault, Saver
<1>2. clearing = {} BY <1>1 DEF HistoryIInv, SaveInProgress, Saving
<1>3. FileVisits' \subseteq FileVisits /\ Visits(hlog)' = Visits(hlog)
  BY <1>1 DEF FileVisits, Visits, Torn
<1>4. HistoryTypes' BY <1>1 DEF HistoryIInv, HistoryTypes, Contents
<1>5. VisitsPast' BY <1>1, <1>3 DEF HistoryIInv, VisitsPast
<1>6. SaveInProgress' BY <1>1, <1>2 DEF SaveInProgress, Saving
<1>7. NeverTorn' /\ CleanMeansSaved'
  BY <1>1 DEF HistoryIInv, HistoryTypes, NeverTorn, CleanMeansSaved, Running
<1>8. ClearSurvives' BY <1>1, <1>3 DEF HistoryIInv, ClearSurvives, FileVisits
<1> QED BY <1>4, <1>5, <1>6, <1>7, <1>8 DEF HistoryIInv

\* A launch takes over what the file holds, or starts empty and knows when it
\* left a file unread.
LEMMA LoadStep ==
  ASSUME HistoryIInv, load_from_disk
  PROVE  HistoryIInv'
<1> USE DEF Files
<1>1. /\ hpc = "down" /\ hpc' = "run" /\ dirty' = FALSE
      /\ UNCHANGED <<leaving, clearing, hkey, now, faults, cleared>>
  BY DEF load_from_disk
<1>2. PICK k \in {HNone} \cup 0..hgenerated :
       /\ get_or_create_history_key(k)
       /\ \/ /\ k = HNone \/ file = NoFile
             /\ StartEmpty /\ unread' = (file # NoFile) /\ UNCHANGED Files
          \/ /\ k # HNone /\ decrypt_blob(k, file) # HNone
             /\ hlog' = from_newest_first(decrypt_blob(k, file))
             /\ unread' = FALSE /\ UNCHANGED Files
          \/ /\ k # HNone /\ file # NoFile /\ decrypt_blob(k, file) = HNone
             /\ StartEmpty
             /\ \/ bad' = file /\ file' = NoFile /\ unread' = FALSE /\ UNCHANGED tmp
                \/ unread' = TRUE /\ UNCHANGED Files
  BY DEF load_from_disk
<1>3. hgenerated' \in Nat
  BY <1>2 DEF get_or_create_history_key, Keyring, HistoryIInv, HistoryTypes
<1>4. clearing = {} BY <1>1 DEF HistoryIInv, SaveInProgress, Saving
<1>5. file \in Contents /\ NoFile.is # "blob" BY DEF HistoryIInv, HistoryTypes, NoFile
<1>6. /\ hlog' \in Logs /\ file' \in {file, NoFile}
      /\ Visits(hlog)' \subseteq FileVisits /\ CleanMeansSaved'
  <2>1. CASE /\ k = HNone \/ file = NoFile
             /\ StartEmpty /\ unread' = (file # NoFile) /\ UNCHANGED Files
    BY <2>1, <1>5, EmptyLog DEF StartEmpty, Visits, CleanMeansSaved
  <2>2. CASE /\ k # HNone /\ decrypt_blob(k, file) # HNone
             /\ hlog' = from_newest_first(decrypt_blob(k, file))
             /\ unread' = FALSE /\ UNCHANGED Files
    <3>1. file.is = "blob" /\ decrypt_blob(k, file) = file.log BY <2>2 DEF decrypt_blob
    <3>2. file.log \in Logs BY <3>1, <1>5, ContentsDisjoint DEF Blobs
    <3>3. hlog' = file.log BY <2>2, <3>1, <3>2, LoadedWhole
    <3>4. Visits(hlog)' = Visits(file.log) BY <3>3 DEF Visits
    <3> QED BY <2>2, <3>1, <3>2, <3>3, <3>4 DEF FileVisits, CleanMeansSaved
  <2>3. CASE StartEmpty /\ file' = NoFile
    BY <2>3, <1>5, EmptyLog DEF StartEmpty, Visits, CleanMeansSaved
  <2>4. CASE StartEmpty /\ unread' = TRUE /\ UNCHANGED Files
    BY <2>4, EmptyLog DEF StartEmpty, Visits, CleanMeansSaved
  <2> QED BY <1>2, <2>1, <2>2, <2>3, <2>4
<1>7. FileVisits' \subseteq FileVisits BY <1>5, <1>6 DEF FileVisits, Visits
<1>8. HistoryTypes' BY <1>1, <1>3, <1>4, <1>6 DEF HistoryIInv, HistoryTypes, Contents
<1>9. VisitsPast' BY <1>1, <1>6, <1>7 DEF HistoryIInv, VisitsPast
<1>10. SaveInProgress' BY <1>1, <1>4 DEF SaveInProgress, Saving
<1>11. NeverTorn' BY <1>1, <1>6, ContentsDisjoint DEF HistoryIInv, NeverTorn, Torn, NoFile
<1>12. ClearSurvives' BY <1>1, <1>6, <1>7 DEF HistoryIInv, ClearSurvives, FileVisits
<1> QED BY <1>6, <1>8, <1>9, <1>10, <1>11, <1>12 DEF HistoryIInv

LEMMA HistoryInductive ==
  ASSUME HistoryIInv, [HistoryNext]_hvars
  PROVE  HistoryIInv'
<1>0. now \in Nat /\ hgenerated \in Nat BY DEF HistoryIInv, HistoryTypes
<1>1. ASSUME NEW u \in Pages, NEW t \in Titles, Visit(u, t) PROVE HistoryIInv'
  BY <1>1, VisitStep
<1>2. CASE Elapse BY <1>0, <1>2, QuietStep DEF Elapse, Keyring
<1>3. CASE autosave \/ Leave BY <1>3, BeginSaveStep
<1>4. CASE SaveKey BY <1>4, SaveKeyStep
<1>5. CASE WriteTmp BY <1>5, WriteTmpStep
<1>6. CASE RenameTmp BY <1>6, RenameTmpStep
<1>7. CASE load_from_disk BY <1>7, LoadStep
<1>8. CASE Hover \/ Wheel \/ toggle
  BY <1>0, <1>8, QuietStep DEF Hover, Wheel, toggle, Keyring
<1>9. CASE ClickClear BY <1>9, ClickClearStep
<1>10. CASE Fault BY <1>10, FaultStep
<1>11. CASE HistoryCrash BY <1>11, CrashStep
<1>12. CASE UNCHANGED hvars
  BY <1>0, <1>12, QuietStep DEF hvars, Saver, Files
<1> QED BY <1>1, <1>2, <1>3, <1>4, <1>5, <1>6, <1>7, <1>8, <1>9, <1>10, <1>11, <1>12
        DEF HistoryNext, HistoryStep

\* log.rs, save_to_disk and load_from_disk: whatever steps fail, wherever the
\* process dies and however the keyring answers, history.bin is a whole log
\* unless something outside damaged it, a log in memory that counts as saved is
\* the one in it, and no visit that a saved Clear dropped comes back.
THEOREM HistoryOnDisk == HistorySpec => []DiskHoldsTheLog
<1>1. HistoryIInv => DiskHoldsTheLog BY DEF HistoryIInv, DiskHoldsTheLog
<1> QED BY <1>1, HistoryInitial, HistoryInductive, PTL DEF HistorySpec

-----------------------------------------------------------------------------
(* The panel *)

LEMMA GroupsGrow ==
  ASSUME NEW log, NEW i \in Nat, NEW j \in Nat, i <= j
  PROVE  Groups(log, i) \in Nat /\ Groups(log, i) <= Groups(log, j)
<1> DEFINE S(k) == {n \in 1..k : StartsGroup(log, n)}
<1>1. ASSUME NEW k \in Nat PROVE IsFiniteSet(S(k))
  <2>1. IsFiniteSet(1..k) BY FS_Interval
  <2>2. S(k) \in SUBSET (1..k) OBVIOUS
  <2> HIDE DEF S
  <2> QED BY <2>1, <2>2, FS_Subset
<1>2. S(i) \subseteq S(j) OBVIOUS
<1>3. Groups(log, i) = Cardinality(S(i)) /\ Groups(log, j) = Cardinality(S(j)) BY DEF Groups
<1> HIDE DEF S
<1> QED BY <1>1, <1>2, <1>3, FS_Subset, FS_CardinalityType

LEMMA GrowsWith ==
  ASSUME NEW a \in Nat, NEW b \in Nat, NEW m \in Nat, a <= b
  PROVE  a * m \in Nat /\ a * m <= b * m
<1>1. PICK d \in Nat : b = a + d
  <2>1. b - a \in Nat /\ b = a + (b - a) OBVIOUS
  <2> QED BY <2>1
<1>2. b * m = a * m + d * m /\ d * m \in Nat /\ a * m \in Nat BY <1>1
<1> QED BY <1>2

\* The rows follow one another from the top, each in its own stripe.
LEMMA RowsApart ==
  ASSUME NEW log, NEW i \in Nat, NEW j \in Nat, 1 <= i, i < j
  PROVE  EntryTop(log, i) \in Nat /\ EntryTop(log, j) \in Nat /\ EntryTop(log, i) + ROW_H <= EntryTop(log, j)
<1> USE HistoryAssumption
<1> DEFINE gi == Groups(log, i) * GROUP_ROW_H  gj == Groups(log, j) * GROUP_ROW_H
           ri == (i - 1) * ROW_H  rj == (j - 1) * ROW_H
<1>1. gi \in Nat /\ gj \in Nat /\ gi <= gj BY GroupsGrow, GrowsWith
<1>2. i - 1 \in Nat /\ j - 1 \in Nat /\ i <= j - 1 OBVIOUS
<1>3. ri \in Nat /\ rj \in Nat /\ i * ROW_H <= rj BY <1>2, GrowsWith
<1>4. i * ROW_H = ri + ROW_H
  <2>1. \A n, m \in Nat : (n + 1) * m = n * m + m OBVIOUS
  <2> QED BY <1>2, <2>1
<1>5. EntryTop(log, i) = gi + ri /\ EntryTop(log, j) = gj + rj BY DEF EntryTop
<1> HIDE DEF gi, gj, ri, rj
<1> QED BY <1>1, <1>3, <1>4, <1>5

\* history_sidebar_hit finds the one row under the pointer.
LEMMA HitIsExact ==
  ASSUME NEW log \in Logs, NEW i \in DOMAIN log, NEW y \in Nat, NEW offset \in Nat,
         y >= HEADER_HEIGHT, y - HEADER_HEIGHT + offset = EntryTop(log, i)
  PROVE  hit(y, log, offset) = i
<1> USE HistoryAssumption
<1> DEFINE doc == y - HEADER_HEIGHT + offset
           on == {n \in DOMAIN log : doc \in EntryTop(log, n)..(EntryTop(log, n) + ROW_H - 1)}
<1>1. DOMAIN log = 1..Len(log) /\ Len(log) \in Nat BY DEF Logs
<1>2. EntryTop(log, i) \in Nat BY <1>1, RowsApart
<1>3. i \in on BY <1>2
<1>4. ASSUME NEW n \in on PROVE n = i
  <2>1. n \in Nat /\ 1 <= n /\ i \in Nat /\ 1 <= i BY <1>1
  <2>2. ~(n < i) BY <1>2, <2>1, RowsApart
  <2>3. ~(i < n) BY <1>2, <2>1, RowsApart
  <2> QED BY <2>1, <2>2, <2>3
<1>5. on # {} /\ (CHOOSE n \in on : TRUE) = i BY <1>3, <1>4
<1>6. hit(y, log, offset) = IF on = {} THEN 0 ELSE CHOOSE n \in on : TRUE
  BY DEF hit
<1> QED BY <1>5, <1>6

\* A panel with any room below its header reaches every row of any log.
LEMMA EveryRowReachable ==
  ASSUME NEW log \in Logs, NEW i \in DOMAIN log, WindowHeight > HEADER_HEIGHT
  PROVE  \E offset \in 0..total_content_height(log) :
           /\ offset = clamp_scroll(offset, log)
           /\ \E y \in 0..(WindowHeight - 1) : hit(y, log, offset) = i
<1> USE HistoryAssumption
<1> DEFINE total == total_content_height(log)
           top == EntryTop(log, i)
           room == WindowHeight - HEADER_HEIGHT
           most == IF total - room > 0 THEN total - room ELSE 0
           offset == IF top > most THEN most ELSE top
           y == HEADER_HEIGHT + top - offset
<1>1. DOMAIN log = 1..Len(log) /\ Len(log) \in Nat /\ log # <<>> BY DEF Logs
<1>2. top \in Nat /\ EntryTop(log, Len(log)) \in Nat BY <1>1, RowsApart
<1>3. total = EntryTop(log, Len(log)) + ROW_H BY <1>1 DEF total_content_height
<1>4. top + ROW_H <= total
  <2>1. CASE i = Len(log) BY <1>2, <1>3, <2>1
  <2>2. CASE i < Len(log) BY <1>1, <1>2, <1>3, <2>2, RowsApart
  <2> QED BY <1>1, <2>1, <2>2
<1>5. visible_height = room /\ room \in Nat /\ room > 0 BY DEF visible_height
<1> HIDE DEF total, top, room
<1>6. total \in Nat BY <1>2, <1>3
<1>7. most \in Nat /\ offset \in Nat /\ offset <= most /\ offset <= total BY <1>2, <1>4, <1>5, <1>6
<1>8. y \in 0..(WindowHeight - 1) /\ y >= HEADER_HEIGHT /\ y - HEADER_HEIGHT + offset = top
  <2>1. WindowHeight = room + HEADER_HEIGHT BY DEF room
  <2>2. top - offset \in 0..(room - 1)
    <3>1. CASE top > most BY <1>2, <1>4, <1>5, <1>6, <3>1
    <3>2. CASE ~(top > most) BY <1>2, <1>5, <3>2
    <3> QED BY <3>1, <3>2
  <2> HIDE DEF offset
  <2> QED BY <1>2, <1>5, <1>7, <2>1, <2>2
<1>9. clamp_scroll(offset, log) = offset
  BY <1>5, <1>6, <1>7 DEF clamp_scroll, total
<1> HIDE DEF offset, y, most
<1>10. hit(y, log, offset) = i BY <1>7, <1>8, HitIsExact DEF top
<1> QED BY <1>6, <1>7, <1>8, <1>9, <1>10 DEF total

-----------------------------------------------------------------------------
(* The suggestions *)

OrderStep(S, f, k) ==
  IF k = 0 THEN <<>> ELSE IF k \in S THEN Append(f[k - 1], k) ELSE f[k - 1]

Ordering(S, n) == CHOOSE f : f = [k \in 0..n |-> OrderStep(S, f, k)]

\* The recursion of InOrder has a solution, which it therefore takes.
LEMMA OrderUnfolds ==
  ASSUME NEW S, NEW n \in Nat
  PROVE  /\ InOrder(S, n) = Ordering(S, n)[n]
         /\ \A k \in 0..n : Ordering(S, n)[k] = OrderStep(S, Ordering(S, n), k)
<1> DEFINE Is(m, f) == f = [k \in 0..m |-> OrderStep(S, f, k)]
           T == {m \in Nat : ~\E f : Is(m, f)}
<1>1. T = {}
  <2> SUFFICES ASSUME T # {} PROVE FALSE OBVIOUS
  <2>0. T \in SUBSET Nat OBVIOUS
  <2> HIDE DEF T
  <2>1. PICK m \in T : \A k \in T : m <= k BY <2>0, LeastNat
  <2> USE DEF T
  <2>2. m # 0
    <3> DEFINE f == [k \in 0..0 |-> <<>>]
    <3>1. Is(0, f) BY DEF OrderStep
    <3> QED BY <3>1
  <2>3. m \in Nat /\ m - 1 \in Nat BY <2>2
  <2>4. m - 1 \in T => m <= m - 1 BY <2>1
  <2>5. m - 1 \notin T BY <2>3, <2>4
  <2>6. PICK f : Is(m - 1, f) BY <2>3, <2>5
  <2> DEFINE g == [k \in 0..m |-> OrderStep(S, f, k)]
  <2>7. \A k \in 0..(m - 1) : g[k] = f[k]
    <3>1. \A k \in 0..(m - 1) : k \in 0..m BY <2>3
    <3> QED BY <2>6, <3>1
  <2>8. \A k \in 0..m : OrderStep(S, g, k) = OrderStep(S, f, k)
    <3> SUFFICES ASSUME NEW k \in 0..m PROVE OrderStep(S, g, k) = OrderStep(S, f, k)
      OBVIOUS
    <3>1. k # 0 => k - 1 \in 0..(m - 1) BY <2>3
    <3> HIDE DEF g
    <3> QED BY <2>7, <3>1 DEF OrderStep
  <2>9. Is(m, g)
    <3>1. g = [k \in 0..m |-> OrderStep(S, f, k)] OBVIOUS
    <3> HIDE DEF g
    <3> QED BY <2>8, <3>1
  <2> HIDE DEF g
  <2> QED BY <2>9
<1>2. \E f : Is(n, f) BY <1>1
<1> DEFINE h == Ordering(S, n)
<1>3. h = [k \in 0..n |-> OrderStep(S, h, k)] BY <1>2 DEF Ordering
<1>4. InOrder(S, n) = h[n] BY DEF InOrder, Ordering, OrderStep
<1> HIDE DEF h
<1>5. \A k \in 0..n : h[k] = OrderStep(S, h, k) BY <1>3
<1> QED BY <1>4, <1>5 DEF h

\* s lists the members of S up to n, each once and in increasing order.
Lists(S, n, s) ==
  /\ s \in Seq(Nat)
  /\ \A i \in 1..Len(s) : s[i] \in S /\ s[i] \in 1..n
  /\ \A i, j \in 1..Len(s) : i < j => s[i] < s[j]
  /\ \A x \in S : x \in 1..n => \E i \in 1..Len(s) : s[i] = x

LEMMA ListsMore ==
  ASSUME NEW S, NEW k \in Nat \ {0}, NEW s, Lists(S, k - 1, s)
  PROVE  Lists(S, k, IF k \in S THEN Append(s, k) ELSE s)
<1> USE DEF Lists
<1>0. s \in Seq(Nat) /\ Len(s) \in Nat OBVIOUS
<1>1. CASE k \notin S
  <2>1. \A x \in 1..k : x # k => x \in 1..(k - 1) OBVIOUS
  <2>2. \A x \in 1..(k - 1) : x \in 1..k OBVIOUS
  <2> QED BY <1>1, <2>1, <2>2, <1>0
<1>2. CASE k \in S
  <2> DEFINE t == Append(s, k)
  <2>1. /\ t \in Seq(Nat) /\ Len(t) = Len(s) + 1 /\ t[Len(s) + 1] = k
        /\ \A i \in 1..Len(s) : t[i] = s[i]
    BY <1>0, AppendProperties
  <2> HIDE DEF t
  <2>2. \A i \in 1..Len(t) : i = Len(s) + 1 \/ i \in 1..Len(s) BY <1>0, <2>1
  <2>3. \A i \in 1..Len(s) : i \in 1..Len(t) /\ i < Len(s) + 1 BY <1>0, <2>1
  <2>4. \A i \in 1..Len(t) : t[i] \in S /\ t[i] \in 1..k
    <3>1. \A x \in 1..(k - 1) : x \in 1..k OBVIOUS
    <3>2. k \in 1..k OBVIOUS
    <3> QED BY <1>2, <2>1, <2>2, <3>1, <3>2
  <2>5. ASSUME NEW i \in 1..Len(t), NEW j \in 1..Len(t), i < j PROVE t[i] < t[j]
    <3>1. i \in 1..Len(s) BY <2>1, <2>5, <1>0
    <3>2. CASE j = Len(s) + 1
      <4>1. s[i] \in 1..(k - 1) BY <3>1
      <4> QED BY <2>1, <3>1, <3>2, <4>1
    <3>3. CASE j \in 1..Len(s) BY <2>1, <2>5, <3>1, <3>3
    <3> QED BY <2>2, <3>2, <3>3
  <2>6. ASSUME NEW x \in S, x \in 1..k PROVE \E i \in 1..Len(t) : t[i] = x
    <3>1. CASE x = k
      <4>1. Len(s) + 1 \in 1..Len(t) BY <1>0, <2>1
      <4> QED BY <2>1, <3>1, <4>1
    <3>2. CASE x # k
      <4>1. x \in 1..(k - 1) BY <2>6, <3>2
      <4>2. PICK i \in 1..Len(s) : s[i] = x BY <4>1
      <4> QED BY <2>1, <2>3, <4>2
    <3> QED BY <3>1, <3>2
  <2>7. Lists(S, k, t) BY <2>1, <2>4, <2>5, <2>6
  <2> QED BY <1>2, <2>7 DEF t
<1> QED BY <1>1, <1>2

LEMMA InOrderLists ==
  ASSUME NEW S, NEW n \in Nat
  PROVE  Lists(S, n, InOrder(S, n))
<1> DEFINE h == Ordering(S, n)
           B == {k \in Nat : k <= n /\ ~Lists(S, k, h[k])}
<1>1. InOrder(S, n) = h[n] /\ \A k \in 0..n : h[k] = OrderStep(S, h, k)
  BY OrderUnfolds
<1> HIDE DEF h
<1>2. B = {}
  <2> SUFFICES ASSUME B # {} PROVE FALSE OBVIOUS
  <2>0. B \in SUBSET Nat OBVIOUS
  <2> HIDE DEF B
  <2>1. PICK k \in B : \A m \in B : k <= m BY <2>0, LeastNat
  <2>2. k \in Nat /\ k <= n /\ ~Lists(S, k, h[k]) BY <2>1 DEF B
  <2>3. h[k] = OrderStep(S, h, k) BY <1>1, <2>2
  <2>4. CASE k = 0
    <3>1. h[k] = <<>> BY <2>3, <2>4 DEF OrderStep
    <3>2. Lists(S, 0, <<>>) BY DEF Lists
    <3> QED BY <2>2, <2>4, <3>1, <3>2
  <2>5. CASE k # 0
    <3>1. k - 1 \in Nat /\ k - 1 <= n /\ k \in Nat \ {0} BY <2>2, <2>5
    <3>2. k - 1 \notin B BY <2>1, <2>2, <3>1
    <3>3. Lists(S, k - 1, h[k - 1]) BY <3>1, <3>2 DEF B
    <3>4. h[k] = IF k \in S THEN Append(h[k - 1], k) ELSE h[k - 1]
      BY <2>3, <2>5 DEF OrderStep
    <3> QED BY <2>2, <3>1, <3>3, <3>4, ListsMore
  <2> QED BY <2>4, <2>5
<1>3. n \notin B BY <1>2
<1> QED BY <1>1, <1>3

\* Whether a record's URL, or what follows its scheme, starts with the query.
Leads(q, log, i) == HitsUrl(q, log[i].url) = "prefix"

\* The ranking lists every hit once, prefixes first and in the log's order
\* within a rank.
LEMMA RankedLists ==
  ASSUME NEW log, Len(log) \in Nat, DOMAIN log = 1..Len(log), NEW q
  PROVE  /\ Ranked(log, q) \in Seq(Nat)
         /\ \A i \in 1..Len(Ranked(log, q)) : Ranked(log, q)[i] \in Hits(log, q)
         /\ \A i, j \in 1..Len(Ranked(log, q)) : i < j =>
              LET a == Ranked(log, q)[i]  b == Ranked(log, q)[j]
              IN \/ (Leads(q, log, a) <=> Leads(q, log, b)) /\ a < b
                 \/ Leads(q, log, a) /\ ~Leads(q, log, b)
         /\ \A x \in Hits(log, q) : \E i \in 1..Len(Ranked(log, q)) : Ranked(log, q)[i] = x
<1> DEFINE n == Len(log)
           hits == Hits(log, q)
           first == {i \in hits : Leads(q, log, i)}
           rest == hits \ first
           A == InOrder(first, n)
           B == InOrder(rest, n)
           R == Ranked(log, q)
<1>1. R = A \o B BY DEF Ranked, Leads
<1>2. Lists(first, n, A) /\ Lists(rest, n, B) BY InOrderLists
<1>3. \A x \in hits : x \in 1..n BY DEF Hits
<1>4. \A x \in first : x \in hits /\ Leads(q, log, x) OBVIOUS
<1>5. \A x \in rest : x \in hits /\ ~Leads(q, log, x) OBVIOUS
<1>6. \A x \in hits : x \in first \/ x \in rest OBVIOUS
<1> HIDE DEF A, B, first, rest, hits, n
<1> USE DEF Lists
<1>7. A \in Seq(Nat) /\ B \in Seq(Nat) /\ Len(A) \in Nat /\ Len(B) \in Nat BY <1>2
<1>8. /\ R \in Seq(Nat) /\ Len(R) = Len(A) + Len(B)
      /\ \A i \in 1..Len(R) : R[i] = IF i <= Len(A) THEN A[i] ELSE B[i - Len(A)]
  BY <1>1, <1>7, ConcatProperties
<1> HIDE DEF R
<1>9. \A i \in 1..Len(R) : \/ i \in 1..Len(A) /\ R[i] = A[i]
                           \/ i > Len(A) /\ i - Len(A) \in 1..Len(B) /\ R[i] = B[i - Len(A)]
  BY <1>7, <1>8
<1>10. \A i \in 1..Len(A) : i \in 1..Len(R) /\ R[i] = A[i] BY <1>7, <1>8
<1>11. \A i \in 1..Len(B) : i + Len(A) \in 1..Len(R) /\ R[i + Len(A)] = B[i]
  <2> SUFFICES ASSUME NEW i \in 1..Len(B)
               PROVE  i + Len(A) \in 1..Len(R) /\ R[i + Len(A)] = B[i]
    OBVIOUS
  <2>1. i + Len(A) \in 1..Len(R) /\ ~(i + Len(A) <= Len(A)) /\ i + Len(A) - Len(A) = i
    BY <1>7, <1>8
  <2> QED BY <1>8, <2>1
<1>12. \A i \in 1..Len(R) : R[i] \in hits BY <1>2, <1>4, <1>5, <1>9
<1>13. ASSUME NEW i \in 1..Len(R), NEW j \in 1..Len(R), i < j
       PROVE  \/ (Leads(q, log, R[i]) <=> Leads(q, log, R[j])) /\ R[i] < R[j]
              \/ Leads(q, log, R[i]) /\ ~Leads(q, log, R[j])
  <2>1. CASE i \in 1..Len(A) /\ j \in 1..Len(A)
    <3>1. R[i] = A[i] /\ R[j] = A[j] /\ A[i] \in first /\ A[j] \in first
      BY <1>2, <1>10, <2>1
    <3>2. A[i] < A[j] BY <1>2, <1>13, <2>1
    <3> QED BY <1>4, <3>1, <3>2
  <2>2. CASE i \in 1..Len(A) /\ j > Len(A)
    <3>1. R[i] = A[i] /\ A[i] \in first BY <1>2, <1>10, <2>2
    <3>0. j \notin 1..Len(A) BY <1>7, <2>2
    <3>2. j - Len(A) \in 1..Len(B) /\ R[j] = B[j - Len(A)] BY <1>9, <3>0
    <3>3. R[j] \in rest BY <1>2, <3>2
    <3> QED BY <1>4, <1>5, <3>1, <3>3
  <2>3. CASE i > Len(A) /\ j > Len(A)
    <3>1. i - Len(A) \in 1..Len(B) /\ R[i] = B[i - Len(A)] BY <1>7, <1>9, <2>3
    <3>2. j - Len(A) \in 1..Len(B) /\ R[j] = B[j - Len(A)] BY <1>7, <1>9, <2>3
    <3>3. i - Len(A) < j - Len(A) BY <1>7, <1>13
    <3>4. R[i] \in rest /\ R[j] \in rest BY <1>2, <3>1, <3>2
    <3>5. R[i] < R[j] BY <1>2, <3>1, <3>2, <3>3
    <3> QED BY <1>5, <3>4, <3>5
  <2> QED BY <1>7, <1>9, <1>13, <2>1, <2>2, <2>3
<1>14. ASSUME NEW x \in hits PROVE \E i \in 1..Len(R) : R[i] = x
  <2>1. x \in 1..n BY <1>3
  <2>2. CASE x \in first
    <3>1. PICK i \in 1..Len(A) : A[i] = x BY <1>2, <2>1, <2>2
    <3> QED BY <1>10, <3>1
  <2>3. CASE x \in rest
    <3>1. PICK i \in 1..Len(B) : B[i] = x BY <1>2, <2>1, <2>3
    <3> QED BY <1>11, <3>1
  <2> QED BY <1>6, <2>2, <2>3
<1> QED BY <1>8, <1>12, <1>13, <1>14 DEF R, hits

\* Every matching record has a hit of its URL that is at least as new.
LEMMA HitOfUrl ==
  ASSUME NEW log, Len(log) \in Nat, DOMAIN log = 1..Len(log), NEW q,
         NEW k \in DOMAIN log, Matches(q, log[k])
  PROVE  \E m \in Hits(log, q) : m <= k /\ log[m].url = log[k].url
<1> DEFINE T == {m \in 1..k : log[m].url = log[k].url /\ Matches(q, log[m])}
<1>1. T \in SUBSET Nat /\ k \in T OBVIOUS
<1> HIDE DEF T
<1>2. PICK m \in T : \A j \in T : m <= j BY <1>1, LeastNat
<1>3. m \in 1..k /\ log[m].url = log[k].url /\ Matches(q, log[m]) BY DEF T
<1>4. ASSUME NEW j \in 1..(m - 1), log[j].url = log[m].url, Matches(q, log[j])
      PROVE  FALSE
  <2>1. j \in 1..k /\ ~(m <= j) BY <1>3
  <2>2. j \in T BY <2>1, <1>3, <1>4 DEF T
  <2> QED BY <1>2, <2>1, <2>2
<1>5. m \in DOMAIN log BY <1>3
<1>6. m \in Hits(log, q) BY <1>3, <1>4, <1>5 DEF Hits
<1> QED BY <1>3, <1>6

\* autocomplete on a log that is newest first.
LEMMA SuggestionsOfLog ==
  ASSUME hlog \in Logs, NewestFirst(hlog)
  PROVE  SuggestionsRanked
<1> SUFFICES ASSUME NEW q \in Queries, NEW limit \in 1..MaxSuggestions
             PROVE  LET s == autocomplete(hlog, q, limit)
                        rank(r) == HitsUrl(q, r.url) = "prefix"
                        Before(r, t) == IF rank(r) = rank(t) THEN r.at > t.at ELSE rank(r)
                    IN /\ \A i, j \in DOMAIN s : i < j => s[i].url # s[j].url /\ Before(s[i], s[j])
                       /\ \A k \in DOMAIN hlog : Matches(q, hlog[k]) =>
                            \/ \E i \in DOMAIN s : s[i].url = hlog[k].url /\ s[i].at >= hlog[k].at
                            \/ Len(s) = limit /\ \A i \in DOMAIN s : Before(s[i], hlog[k])
  BY DEF SuggestionsRanked
<1> DEFINE R == Ranked(hlog, q)
           n == IF limit < Len(R) THEN limit ELSE Len(R)
           s == autocomplete(hlog, q, limit)
           rank(r) == HitsUrl(q, r.url) = "prefix"
           Before(r, t) == IF rank(r) = rank(t) THEN r.at > t.at ELSE rank(r)
<1>1. /\ Len(hlog) \in Nat /\ DOMAIN hlog = 1..Len(hlog)
      /\ \A i \in 1..Len(hlog) : hlog[i].at \in Nat
  <2>1. hlog \in Seq(VisitRecords) BY DEF Logs
  <2>2. \A i \in 1..Len(hlog) : hlog[i] \in VisitRecords BY <2>1
  <2> QED BY <2>1, <2>2 DEF VisitRecords
<1>a. /\ R \in Seq(Nat)
      /\ \A i \in 1..Len(R) : R[i] \in Hits(hlog, q)
      /\ \A i, j \in 1..Len(R) : i < j =>
           \/ (Leads(q, hlog, R[i]) <=> Leads(q, hlog, R[j])) /\ R[i] < R[j]
           \/ Leads(q, hlog, R[i]) /\ ~Leads(q, hlog, R[j])
      /\ \A x \in Hits(hlog, q) : \E i \in 1..Len(R) : R[i] = x
  BY <1>1, RankedLists
<1>b. \A i : Leads(q, hlog, i) <=> rank(hlog[i]) BY DEF Leads
<1> HIDE DEF R
<1>2. /\ R \in Seq(Nat)
      /\ \A i \in 1..Len(R) : R[i] \in Hits(hlog, q)
      /\ \A i, j \in 1..Len(R) : i < j =>
           \/ (rank(hlog[R[i]]) <=> rank(hlog[R[j]])) /\ R[i] < R[j]
           \/ rank(hlog[R[i]]) /\ ~rank(hlog[R[j]])
      /\ \A x \in Hits(hlog, q) : \E i \in 1..Len(R) : R[i] = x
  <2> HIDE DEF rank
  <2> QED BY <1>a, <1>b
<1>3. s = [i \in 1..n |-> hlog[R[i]]] BY DEF autocomplete, R
<1>4. limit \in Nat /\ Len(R) \in Nat BY <1>2, HistoryAssumption
<1>5. n \in Nat /\ n <= Len(R) /\ n <= limit /\ (n = Len(R) \/ n = limit) BY <1>4
<1> HIDE DEF n, s
<1>6. DOMAIN s = 1..n /\ Len(s) = n /\ \A i \in 1..n : s[i] = hlog[R[i]]
  <2>1. DOMAIN s = 1..n /\ \A i \in 1..n : s[i] = hlog[R[i]] BY <1>3
  <2>2. Len(s) = n
    <3>1. s \in [1..n -> {hlog[R[i]] : i \in 1..n}] BY <1>3
    <3>2. s \in Seq({hlog[R[i]] : i \in 1..n}) BY <1>5, <3>1, SeqDef
    <3> QED BY <1>5, <2>1, <3>2, LenProperties
  <2> QED BY <2>1, <2>2
<1>7. \A i \in 1..n : i \in 1..Len(R) BY <1>4, <1>5
<1>8. \A x \in Hits(hlog, q) : x \in 1..Len(hlog) BY <1>1 DEF Hits
<1>9. \A x, y \in 1..Len(hlog) : x < y => hlog[x].at > hlog[y].at BY DEF NewestFirst
<1>10. ASSUME NEW i \in 1..n, NEW j \in 1..n, i < j
       PROVE  s[i].url # s[j].url /\ Before(s[i], s[j])
  <2> DEFINE a == R[i]  b == R[j]
  <2>1. a \in Hits(hlog, q) /\ b \in Hits(hlog, q) BY <1>2, <1>7
  <2>2. a \in 1..Len(hlog) /\ b \in 1..Len(hlog) BY <2>1, <1>8
  <2>3. \/ (rank(hlog[a]) <=> rank(hlog[b])) /\ a < b
        \/ rank(hlog[a]) /\ ~rank(hlog[b])
    BY <1>2, <1>7, <1>10
  <2>4. s[i] = hlog[a] /\ s[j] = hlog[b] BY <1>6
  <2> HIDE DEF a, b
  <2>5. a # b BY <2>2, <2>3
  <2>6. hlog[a].url # hlog[b].url
    <3>1. CASE a < b
      <4>1. a \in 1..(b - 1) BY <2>2, <3>1
      <4> QED BY <2>1, <4>1 DEF Hits
    <3>2. CASE b < a
      <4>1. b \in 1..(a - 1) BY <2>2, <3>2
      <4> QED BY <2>1, <4>1 DEF Hits
    <3> QED BY <2>2, <2>5, <3>1, <3>2
  <2>7. Before(hlog[a], hlog[b]) BY <2>2, <2>3, <1>9
  <2> QED BY <2>4, <2>6, <2>7
<1>11. ASSUME NEW k \in DOMAIN hlog, Matches(q, hlog[k])
       PROVE  \/ \E i \in 1..n : s[i].url = hlog[k].url /\ s[i].at >= hlog[k].at
              \/ n = limit /\ \A i \in 1..n : Before(s[i], hlog[k])
  <2>1. PICK h \in Hits(hlog, q) : h <= k /\ hlog[h].url = hlog[k].url
    BY <1>1, <1>11, HitOfUrl
  <2>2. h \in 1..Len(hlog) /\ k \in 1..Len(hlog) BY <1>1, <1>8
  <2>3. hlog[h].at >= hlog[k].at
    <3>1. CASE h = k BY <3>1, <2>2, <1>1
    <3>2. CASE h < k
      <4>1. hlog[h].at > hlog[k].at BY <2>2, <3>2, <1>9
      <4>2. hlog[h].at \in Nat /\ hlog[k].at \in Nat BY <2>2, <1>1
      <4> QED BY <4>1, <4>2
    <3> QED BY <2>1, <2>2, <3>1, <3>2
  <2>4. PICK m \in 1..Len(R) : R[m] = h BY <1>2
  <2>5. CASE m <= n
    <3>1. m \in 1..n BY <2>5, <1>4, <1>5
    <3>2. s[m] = hlog[h] BY <3>1, <2>4, <1>6
    <3> QED BY <2>1, <2>3, <3>1, <3>2
  <2>6. CASE ~(m <= n)
    <3>1. n = limit BY <2>6, <1>4, <1>5
    <3>2. ASSUME NEW i \in 1..n PROVE Before(s[i], hlog[k])
      <4> DEFINE a == R[i]
      <4>1. i \in 1..Len(R) /\ i < m BY <2>6, <1>4, <1>5, <1>7
      <4>2. a \in 1..Len(hlog) BY <4>1, <1>2, <1>8
      <4>3. \/ (rank(hlog[a]) <=> rank(hlog[h])) /\ a < h
            \/ rank(hlog[a]) /\ ~rank(hlog[h])
        BY <1>2, <4>1, <2>4
      <4>4. s[i] = hlog[a] BY <1>6
      <4> HIDE DEF a
      <4>5. rank(hlog[h]) <=> rank(hlog[k]) BY <2>1
      <4>6. CASE (rank(hlog[a]) <=> rank(hlog[h])) /\ a < h
        <5>1. a < k BY <4>2, <4>6, <2>1, <2>2
        <5>2. hlog[a].at > hlog[k].at BY <5>1, <4>2, <2>2, <1>9
        <5> QED BY <4>4, <4>5, <4>6, <5>2
      <4>7. CASE rank(hlog[a]) /\ ~rank(hlog[h]) BY <4>4, <4>5, <4>7
      <4> QED BY <4>3, <4>6, <4>7
    <3> QED BY <3>1, <3>2
  <2> QED BY <1>4, <1>5, <2>5, <2>6
<1> QED BY <1>1, <1>6, <1>10, <1>11 DEF s

-----------------------------------------------------------------------------

\* The log and the one on disk are newest first.
Ordered == NewestFirst(hlog) /\ (file.is = "blob" => NewestFirst(file.log))

LEMMA OrderedInductive ==
  ASSUME HistoryIInv, Ordered, [HistoryNext]_hvars
  PROVE  Ordered'
<1>0. ASSUME hlog' = hlog, file' = file PROVE Ordered' BY <1>0 DEF Ordered, NewestFirst
<1>1. ASSUME NEW u \in Pages, NEW t \in Titles, Visit(u, t) PROVE Ordered'
  <2> DEFINE r == [url |-> u, title |-> t, at |-> now]
  <2>1. r \in VisitRecords /\ r.at = now BY DEF HistoryIInv, HistoryTypes, VisitRecords
  <2>2. hlog' = push(hlog, r) /\ file' = file BY <1>1 DEF Visit, Files
  <2>3. hlog \in Logs /\ \A v \in Visits(hlog) : v < now
    BY DEF HistoryIInv, HistoryTypes, VisitsPast
  <2> HIDE DEF r
  <2>4. NewestFirst(push(hlog, r)) BY <2>1, <2>3, PushProperties DEF Ordered
  <2> QED BY <2>2, <2>4 DEF Ordered, NewestFirst
<1>2. CASE RenameTmp
  <2>1. CASE UNCHANGED file BY <1>0, <1>2, <2>1 DEF RenameTmp
  <2>2. CASE file' = tmp
    <3>1. hlog' = hlog /\ tmp = encrypt_blob(hkey, hlog)
      BY <1>2 DEF RenameTmp, HistoryIInv, SaveInProgress
    <3>2. tmp.log = hlog BY <3>1 DEF encrypt_blob
    <3> QED BY <2>2, <3>1, <3>2 DEF Ordered, NewestFirst
  <2> QED BY <1>2, <2>1, <2>2 DEF RenameTmp
<1>3. CASE load_from_disk
  <2>0. NewestFirst(<<>>) /\ NoFile.is # "blob" BY EmptyLog DEF NoFile
  <2>1. CASE StartEmpty /\ file' \in {file, NoFile}
    BY <2>0, <2>1 DEF StartEmpty, Ordered, NewestFirst
  <2>2. CASE file' = file /\ \E k : decrypt_blob(k, file) # HNone
                                      /\ hlog' = from_newest_first(decrypt_blob(k, file))
    <3>1. file.is = "blob" /\ hlog' = from_newest_first(file.log) BY <2>2 DEF decrypt_blob
    <3>2. file.log \in Logs
      BY <3>1, ContentsDisjoint DEF HistoryIInv, HistoryTypes, Blobs
    <3>3. hlog' = file.log BY <3>1, <3>2, LoadedWhole
    <3> QED BY <2>2, <3>1, <3>3 DEF Ordered, NewestFirst
  <2> QED BY <1>3, <2>1, <2>2 DEF load_from_disk, Files
<1>4. CASE ClickClear
  <2>1. hlog' = <<>> /\ file' = file BY <1>4 DEF ClickClear, clear, Files
  <2> QED BY <2>1, EmptyLog DEF Ordered, NewestFirst
<1>5. CASE Fault
  <2>1. hlog' = hlog /\ file' \in {file, Torn} BY <1>5 DEF Fault
  <2>2. Torn.is # "blob" BY DEF Torn
  <2> QED BY <2>1, <2>2 DEF Ordered, NewestFirst
<1>6. CASE Elapse \/ autosave \/ SaveKey \/ WriteTmp \/ Leave \/ Hover \/ Wheel \/ toggle
           \/ HistoryCrash \/ UNCHANGED hvars
  BY <1>0, <1>6 DEF Elapse, autosave, SaveKey, WriteTmp, Leave, Hover, Wheel, toggle,
                    HistoryCrash, hvars, Files
<1> QED BY <1>1, <1>2, <1>3, <1>4, <1>5, <1>6 DEF HistoryNext, HistoryStep

\* log.rs, autocomplete, and the history_sidebar: whatever is visited, saved,
\* lost and loaded again, and however many suggestions are asked for, the URL
\* bar offers the newest matching visit of every URL in rank order and leaves
\* one out only for better ones; and in a window taller than the panel's header
\* every visit can be scrolled to and clicked.
THEOREM HistoryIsShown == HistorySpec => [](WindowHeight > HEADER_HEIGHT => HistoryShown)
<1>1. HistoryInit => Ordered
  <2>1. NoFile.is # "blob" BY DEF NoFile
  <2> QED BY <2>1, EmptyLog DEF HistoryInit, Ordered
<1>2. HistoryIInv /\ Ordered => (WindowHeight > HEADER_HEIGHT => HistoryShown)
  BY EveryRowReachable, SuggestionsOfLog
     DEF HistoryIInv, HistoryTypes, Ordered, EveryVisitClickable, HistoryShown
<1>3. HistoryIInv /\ Ordered /\ [HistoryNext]_hvars => (HistoryIInv /\ Ordered)'
  BY HistoryInductive, OrderedInductive
<1> QED BY <1>1, <1>2, <1>3, HistoryInitial, PTL DEF HistorySpec

-----------------------------------------------------------------------------
(* The debouncer *)

\* The inductive invariant: besides what it says of timers and writes, batches
\* are finite, so that counting their keys means something.
Buffered ==
  /\ DebounceTypeOK /\ BufferedHasTimer /\ NothingLost
  /\ \A d \in Domains : IsFiniteSet(DOMAIN pending[d]) /\ IsFiniteSet(DOMAIN db[d])
  /\ IsFiniteSet(flushes) /\ \A f \in flushes : IsFiniteSet(DOMAIN f.records)

\* A set of records is a partial function from keys to values.
LEMMA RecordsType ==
  ASSUME NEW f
  PROVE  f \in Records <=> /\ f = [k \in DOMAIN f |-> f[k]] /\ DOMAIN f \subseteq Keys
                           /\ \A k \in DOMAIN f : f[k] \in Values
BY DEF Records

\* The empty set of records is one.
LEMMA NoRecordsType == NoRecords \in Records /\ DOMAIN NoRecords = {} /\ IsFiniteSet(DOMAIN NoRecords)
<1>1. DOMAIN NoRecords = {} BY DEF NoRecords
<1>2. NoRecords \in Records BY DEF NoRecords, Records
<1> QED BY <1>1, <1>2, FS_EmptySet

\* Laying a batch over stored records gives records over the union of the keys.
LEMMA OverlayType ==
  ASSUME NEW f \in Records, NEW g \in Records
  PROVE  /\ Overlay(f, g) \in Records /\ DOMAIN Overlay(f, g) = DOMAIN f \cup DOMAIN g
         /\ IsFiniteSet(DOMAIN f) /\ IsFiniteSet(DOMAIN g) => IsFiniteSet(DOMAIN Overlay(f, g))
<1>1. DOMAIN Overlay(f, g) = DOMAIN f \cup DOMAIN g BY DEF Overlay
<1>2. \A k \in DOMAIN f \cup DOMAIN g : Overlay(f, g)[k] \in Values
  BY RecordsType DEF Overlay
<1>3. Overlay(f, g) = [k \in DOMAIN Overlay(f, g) |-> Overlay(f, g)[k]] BY DEF Overlay
<1>4. DOMAIN f \subseteq Keys /\ DOMAIN g \subseteq Keys BY RecordsType
<1>5. Overlay(f, g) \in Records
  <2> DEFINE o == Overlay(f, g)
  <2> HIDE DEF o
  <2>1. o = [k \in DOMAIN o |-> o[k]] /\ DOMAIN o \subseteq Keys /\ \A k \in DOMAIN o : o[k] \in Values
    BY <1>1, <1>2, <1>3, <1>4 DEF o
  <2>2. o \in Records BY <2>1, RecordsType
  <2> QED BY <2>2 DEF o
<1> QED BY <1>1, <1>5, FS_Union

\* Inserting one write gives records, with at most one key more.
LEMMA InsertType ==
  ASSUME NEW f \in Records, NEW c \in Keys, NEW v \in Values
  PROVE  /\ insert(f, c, v) \in Records /\ DOMAIN insert(f, c, v) = DOMAIN f \cup {c}
         /\ IsFiniteSet(DOMAIN f) => IsFiniteSet(DOMAIN insert(f, c, v))
<1> DEFINE g == [k \in {c} |-> v]
<1>0. DOMAIN g = {c} /\ \A k \in {c} : g[k] = v OBVIOUS
<1>1. g \in Records /\ DOMAIN g = {c}
  <2>1. g = [k \in DOMAIN g |-> g[k]] OBVIOUS
  <2> HIDE DEF g
  <2> QED BY <1>0, <2>1, RecordsType
<1>2. IsFiniteSet({c}) BY FS_Singleton
<1>3. insert(f, c, v) = Overlay(f, g) BY DEF insert
<1> HIDE DEF g
<1> QED BY <1>1, <1>2, <1>3, OverlayType

\* Batches do not share their identity, and a new one is not there yet.
LEMMA SpawnType ==
  ASSUME Buffered, NEW d \in Domains, NEW r \in Records, IsFiniteSet(DOMAIN r), spawn_flush(d, r)
  PROVE  LET f == [id |-> taken, domain |-> d, records |-> r]
         IN  /\ f \in Batch /\ f \notin flushes /\ flushes' = flushes \cup {f}
             /\ taken' \in Nat /\ \A g \in flushes' : g \in Batch /\ g.id < taken'
             /\ IsFiniteSet(flushes') /\ \A g \in flushes' : IsFiniteSet(DOMAIN g.records)
<1> DEFINE f == [id |-> taken, domain |-> d, records |-> r]
<1>1. taken \in Nat /\ \A g \in flushes : g \in Batch /\ g.id < taken BY DEF Buffered, DebounceTypeOK
<1>2. f \in Batch /\ f.id = taken /\ f.records = r BY <1>1 DEF Batch
<1>3. flushes' = flushes \cup {f} /\ taken' = taken + 1 BY DEF spawn_flush
<1> HIDE DEF f
<1>4. f \notin flushes BY <1>1, <1>2
<1>5. \A g \in flushes : g.id \in Nat BY <1>1 DEF Batch
<1>6. taken' \in Nat /\ \A g \in flushes' : g \in Batch /\ g.id < taken'
  BY <1>1, <1>2, <1>3, <1>5
<1>7. IsFiniteSet(flushes') BY <1>3, FS_AddElement DEF Buffered
<1>8. \A g \in flushes' : IsFiniteSet(DOMAIN g.records) BY <1>2, <1>3 DEF Buffered
<1> QED BY <1>2, <1>3, <1>4, <1>6, <1>7, <1>8 DEF f

\* A submitted write keeps the batches and their bookkeeping in step.
LEMMA SubmitBuffered ==
  ASSUME Buffered, NEW d \in Domains, NEW k \in Keys, NEW v \in Values, submit(d, k, v)
  PROVE  Buffered'
<1> DEFINE entry == insert(pending[d], k, v)
<1>1. /\ pending \in [Domains -> Records] /\ db \in [Domains -> Records] /\ latest \in [Domains -> Records]
      /\ timers \in [Domains -> Nat] /\ dropped \in [Domains -> SUBSET Keys]
      /\ writes \in 0..MaxWrites /\ taken \in Nat
  BY DEF Buffered, DebounceTypeOK
<1>2. /\ entry \in Records /\ DOMAIN entry = DOMAIN pending[d] \cup {k} /\ IsFiniteSet(DOMAIN entry)
  BY <1>1, InsertType DEF Buffered
<1>3. writes' \in 0..MaxWrites /\ db' = db
  BY <1>1, DebounceAssumption DEF submit
<1>4. /\ latest' \in [Domains -> Records]
      /\ \A e \in Domains : DOMAIN latest'[e] \subseteq DOMAIN latest[e] \cup (IF e = d THEN {k} ELSE {})
  <2> DEFINE l == insert(latest[d], k, v)
  <2>1. l \in Records /\ DOMAIN l = DOMAIN latest[d] \cup {k} BY <1>1, InsertType
  <2>2. latest' = latest \/ latest' = [latest EXCEPT ![d] = l] BY DEF submit
  <2> HIDE DEF l
  <2> QED BY <1>1, <2>1, <2>2
<1>5. dropped' = [dropped EXCEPT ![d] = @ \ {k}] BY DEF submit
<1>6. dropped' \in [Domains -> SUBSET Keys] BY <1>1, <1>5
<1> HIDE DEF entry
<1>7. CASE Full(entry)
  <2>1. /\ pending' = [pending EXCEPT ![d] = NoRecords] /\ spawn_flush(d, entry) /\ timers' = timers
    BY <1>7 DEF submit, entry
  <2> DEFINE f == [id |-> taken, domain |-> d, records |-> entry]
  <2>2. /\ flushes' = flushes \cup {f} /\ taken' \in Nat
        /\ \A g \in flushes' : g \in Batch /\ g.id < taken'
        /\ IsFiniteSet(flushes') /\ \A g \in flushes' : IsFiniteSet(DOMAIN g.records)
    BY <1>2, <2>1, SpawnType
  <2>3. f.domain = d /\ f.records = entry OBVIOUS
  <2> HIDE DEF f
  <2>4. /\ pending' \in [Domains -> Records]
        /\ \A e \in Domains : pending'[e] = IF e = d THEN NoRecords ELSE pending[e]
    BY <1>1, <2>1, NoRecordsType
  <2>5. DebounceTypeOK'
    BY <1>1, <1>3, <1>4, <1>6, <2>1, <2>2, <2>4 DEF DebounceTypeOK, Buffered
  <2>6. BufferedHasTimer' BY <2>1, <2>4 DEF Buffered, BufferedHasTimer
  <2>7. NothingLost'
    <3> SUFFICES ASSUME NEW e \in Domains, NEW j \in DOMAIN latest'[e]
                 PROVE  \/ j \in DOMAIN pending'[e] \cup DOMAIN db'[e] \cup dropped'[e]
                        \/ \E g \in flushes' : g.domain = e /\ j \in DOMAIN g.records
      BY DEF NothingLost
    <3>1. CASE e = d /\ j = k BY <1>2, <2>2, <2>3, <3>1
    <3>2. CASE ~(e = d /\ j = k)
      <4>1. j \in DOMAIN latest[e] BY <1>4, <3>2
      <4>2. \/ j \in DOMAIN pending[e] \cup DOMAIN db[e] \cup dropped[e]
            \/ \E g \in flushes : g.domain = e /\ j \in DOMAIN g.records
        BY <4>1 DEF Buffered, NothingLost
      <4>3. dropped'[e] = IF e = d THEN dropped[e] \ {k} ELSE dropped[e] BY <1>1, <1>5
      <4> QED BY <1>2, <1>3, <2>2, <2>3, <2>4, <3>2, <4>2, <4>3
    <3> QED BY <3>1, <3>2
  <2>8. \A e \in Domains : IsFiniteSet(DOMAIN pending'[e]) /\ IsFiniteSet(DOMAIN db'[e])
    BY <1>3, <2>4, NoRecordsType DEF Buffered
  <2> QED BY <2>2, <2>5, <2>6, <2>7, <2>8 DEF Buffered
<1>8. CASE ~Full(entry)
  <2>1. /\ pending' = [pending EXCEPT ![d] = entry] /\ flushes' = flushes /\ taken' = taken
        /\ timers' = [timers EXCEPT ![d] = IF OpensBatch(pending[d]) THEN @ + 1 ELSE @]
    BY <1>8 DEF submit, entry
  <2>2. Cardinality(DOMAIN entry) < max_keys
    <3>1. Cardinality(DOMAIN entry) \in Nat /\ max_keys \in Nat
      BY <1>2, FS_CardinalityType, DebounceAssumption
    <3> QED BY <1>8, <3>1 DEF Full
  <2>3. /\ pending' \in [Domains -> Records]
        /\ \A e \in Domains : pending'[e] = IF e = d THEN entry ELSE pending[e]
    BY <1>1, <1>2, <2>1
  <2>4. timers' \in [Domains -> Nat] BY <1>1, <2>1
  <2>5. DebounceTypeOK'
    BY <1>1, <1>3, <1>4, <1>6, <2>1, <2>2, <2>3, <2>4 DEF DebounceTypeOK, Buffered
  <2>6. BufferedHasTimer' BY <1>1, <2>1, <2>3, <2>4 DEF Buffered, BufferedHasTimer, OpensBatch
  <2>7. NothingLost'
    <3> SUFFICES ASSUME NEW e \in Domains, NEW j \in DOMAIN latest'[e]
                 PROVE  \/ j \in DOMAIN pending'[e] \cup DOMAIN db'[e] \cup dropped'[e]
                        \/ \E g \in flushes' : g.domain = e /\ j \in DOMAIN g.records
      BY DEF NothingLost
    <3>1. CASE e = d /\ j = k BY <1>2, <2>3, <3>1
    <3>2. CASE ~(e = d /\ j = k)
      <4>1. j \in DOMAIN latest[e] BY <1>4, <3>2
      <4>2. \/ j \in DOMAIN pending[e] \cup DOMAIN db[e] \cup dropped[e]
            \/ \E g \in flushes : g.domain = e /\ j \in DOMAIN g.records
        BY <4>1 DEF Buffered, NothingLost
      <4>3. dropped'[e] = IF e = d THEN dropped[e] \ {k} ELSE dropped[e] BY <1>1, <1>5
      <4> QED BY <1>2, <1>3, <2>1, <2>3, <3>2, <4>2, <4>3
    <3> QED BY <3>1, <3>2
  <2>8. \A e \in Domains : IsFiniteSet(DOMAIN pending'[e]) /\ IsFiniteSet(DOMAIN db'[e])
    BY <1>2, <1>3, <2>3 DEF Buffered
  <2> QED BY <2>1, <2>5, <2>6, <2>7, <2>8 DEF Buffered
<1> QED BY <1>7, <1>8

\* So does a timer that fires, which turns the batch into a flush.
LEMMA TimerBuffered ==
  ASSUME Buffered, NEW d \in Domains, TimerFires(d)
  PROVE  Buffered'
<1>1. /\ pending \in [Domains -> Records] /\ db \in [Domains -> Records] /\ latest \in [Domains -> Records]
      /\ timers \in [Domains -> Nat] /\ dropped \in [Domains -> SUBSET Keys]
      /\ writes \in 0..MaxWrites /\ taken \in Nat
  BY DEF Buffered, DebounceTypeOK
<1>2. /\ timers[d] > 0 /\ timers' = [timers EXCEPT ![d] = @ - 1]
      /\ pending' = [pending EXCEPT ![d] = NoRecords]
      /\ db' = db /\ latest' = latest /\ dropped' = dropped /\ writes' = writes
  BY DEF TimerFires
<1>3. timers' \in [Domains -> Nat] BY <1>1, <1>2
<1>4. /\ pending' \in [Domains -> Records]
      /\ \A e \in Domains : pending'[e] = IF e = d THEN NoRecords ELSE pending[e]
  BY <1>1, <1>2, NoRecordsType
<1> DEFINE f == [id |-> taken, domain |-> d, records |-> pending[d]]
<1>5. /\ taken' \in Nat /\ \A g \in flushes' : g \in Batch /\ g.id < taken'
      /\ IsFiniteSet(flushes') /\ \A g \in flushes' : IsFiniteSet(DOMAIN g.records)
      /\ \/ pending[d] = NoRecords /\ flushes' = flushes
         \/ flushes' = flushes \cup {f}
  <2>1. CASE pending[d] # NoRecords
    <3>1. spawn_flush(d, pending[d]) BY <2>1 DEF TimerFires
    <3> QED BY <1>1, <3>1, SpawnType DEF Buffered
  <2>2. CASE pending[d] = NoRecords
    <3>1. flushes' = flushes /\ taken' = taken BY <2>2 DEF TimerFires
    <3> QED BY <1>1, <2>2, <3>1 DEF Buffered, DebounceTypeOK
  <2> QED BY <2>1, <2>2
<1>6. f.domain = d /\ f.records = pending[d] OBVIOUS
<1> HIDE DEF f
<1>7. DebounceTypeOK' BY <1>1, <1>2, <1>3, <1>4, <1>5 DEF DebounceTypeOK, Buffered
<1>8. BufferedHasTimer' BY <1>1, <1>2, <1>4 DEF Buffered, BufferedHasTimer
<1>9. NothingLost'
  <2> SUFFICES ASSUME NEW e \in Domains, NEW j \in DOMAIN latest[e]
               PROVE  \/ j \in DOMAIN pending'[e] \cup DOMAIN db[e] \cup dropped[e]
                      \/ \E g \in flushes' : g.domain = e /\ j \in DOMAIN g.records
    BY <1>2 DEF NothingLost
  <2>1. \/ j \in DOMAIN pending[e] \cup DOMAIN db[e] \cup dropped[e]
        \/ \E g \in flushes : g.domain = e /\ j \in DOMAIN g.records
    BY DEF Buffered, NothingLost
  <2>2. flushes \subseteq flushes' BY <1>5
  <2>3. e = d /\ j \in DOMAIN pending[d] => f \in flushes' BY <1>5, NoRecordsType
  <2> QED BY <1>4, <1>6, <2>1, <2>2, <2>3
<1>10. \A e \in Domains : IsFiniteSet(DOMAIN pending'[e]) /\ IsFiniteSet(DOMAIN db'[e])
  BY <1>2, <1>4, NoRecordsType DEF Buffered
<1> QED BY <1>5, <1>7, <1>8, <1>9, <1>10 DEF Buffered

\* So does a flush, whether the engine takes it or fails.
LEMMA FlushBuffered ==
  ASSUME Buffered, NEW f \in flushes, write_batch(f) \/ FlushFails(f)
  PROVE  Buffered'
<1>1. /\ pending \in [Domains -> Records] /\ db \in [Domains -> Records] /\ latest \in [Domains -> Records]
      /\ timers \in [Domains -> Nat] /\ dropped \in [Domains -> SUBSET Keys]
      /\ writes \in 0..MaxWrites /\ taken \in Nat /\ \A g \in flushes : g \in Batch /\ g.id < taken
  BY DEF Buffered, DebounceTypeOK
<1>2. f.domain \in Domains /\ f.records \in Records /\ IsFiniteSet(DOMAIN f.records)
  BY <1>1 DEF Batch, Buffered
<1>3. /\ flushes' = flushes \ {f} /\ pending' = pending /\ timers' = timers /\ latest' = latest
      /\ writes' = writes /\ taken' = taken
  BY DEF write_batch, FlushFails
<1>4. IsFiniteSet(flushes') BY <1>3, FS_RemoveElement DEF Buffered
<1> DEFINE o == Overlay(db[f.domain], f.records)
<1>5. /\ o \in Records /\ DOMAIN o = DOMAIN db[f.domain] \cup DOMAIN f.records /\ IsFiniteSet(DOMAIN o)
  BY <1>1, <1>2, OverlayType DEF Buffered
<1> HIDE DEF o
<1>6. /\ db' \in [Domains -> Records] /\ dropped' \in [Domains -> SUBSET Keys]
      /\ \A e \in Domains : /\ IsFiniteSet(DOMAIN db'[e])
                            /\ DOMAIN db[e] \cup dropped[e] \subseteq DOMAIN db'[e] \cup dropped'[e]
      /\ DOMAIN f.records \subseteq DOMAIN db'[f.domain] \cup dropped'[f.domain]
  <2>1. CASE write_batch(f)
    <3>1. db' = [db EXCEPT ![f.domain] = o] /\ dropped' = dropped BY <2>1 DEF write_batch, o
    <3> QED BY <1>1, <1>2, <1>5, <3>1 DEF Buffered
  <2>2. CASE FlushFails(f)
    <3>1. dropped' = [dropped EXCEPT ![f.domain] = @ \cup DOMAIN f.records] /\ db' = db
      BY <2>2 DEF FlushFails
    <3>2. DOMAIN f.records \subseteq Keys BY <1>2, RecordsType
    <3> QED BY <1>1, <1>2, <3>1, <3>2 DEF Buffered
  <2> QED BY <2>1, <2>2
<1>7. DebounceTypeOK' BY <1>1, <1>3, <1>6 DEF DebounceTypeOK, Buffered
<1>8. BufferedHasTimer' BY <1>3 DEF Buffered, BufferedHasTimer
<1>9. NothingLost'
  <2> SUFFICES ASSUME NEW e \in Domains, NEW j \in DOMAIN latest[e]
               PROVE  \/ j \in DOMAIN pending[e] \cup DOMAIN db'[e] \cup dropped'[e]
                      \/ \E g \in flushes' : g.domain = e /\ j \in DOMAIN g.records
    BY <1>3 DEF NothingLost
  <2>1. \/ j \in DOMAIN pending[e] \cup DOMAIN db[e] \cup dropped[e]
        \/ \E g \in flushes : g.domain = e /\ j \in DOMAIN g.records
    BY DEF Buffered, NothingLost
  <2> QED BY <1>3, <1>6, <2>1
<1> QED BY <1>3, <1>4, <1>6, <1>7, <1>8, <1>9 DEF Buffered

\* So does a crash, which drops what is in memory.
LEMMA CrashBuffered == Buffered /\ Crash => Buffered'
<1> SUFFICES ASSUME Buffered, Crash PROVE Buffered' OBVIOUS
<1>1. /\ db \in [Domains -> Records] /\ writes \in 0..MaxWrites /\ taken \in Nat
      /\ pending' = [d \in Domains |-> NoRecords] /\ timers' = [d \in Domains |-> 0]
      /\ flushes' = {} /\ latest' = db /\ dropped' = [d \in Domains |-> {}]
      /\ db' = db /\ writes' = writes /\ taken' = taken
  BY DEF Buffered, DebounceTypeOK, Crash
<1>2. DebounceTypeOK' BY <1>1, NoRecordsType DEF DebounceTypeOK
<1>3. BufferedHasTimer' /\ NothingLost' BY <1>1 DEF BufferedHasTimer, NothingLost
<1> QED BY <1>1, <1>2, <1>3, NoRecordsType, FS_EmptySet DEF Buffered

\* Together: every step of the debounce actor preserves Buffered.
LEMMA BufferedInductive ==
  ASSUME Buffered, [DebounceNext]_debounceVars
  PROVE  Buffered'
<1>1. CASE UNCHANGED debounceVars
  BY <1>1 DEF debounceVars, Buffered, DebounceTypeOK, BufferedHasTimer, NothingLost
<1>2. CASE DebounceNext
  BY <1>2, SubmitBuffered, TimerBuffered, FlushBuffered, CrashBuffered DEF DebounceNext, Worker
<1> QED BY <1>1, <1>2

\* Buffered holds at the start.
LEMMA BufferedInit == DebounceInit => Buffered
<1> SUFFICES ASSUME DebounceInit PROVE Buffered OBVIOUS
<1>1. DebounceTypeOK
  BY NoRecordsType, DebounceAssumption DEF DebounceInit, DebounceTypeOK
<1>2. BufferedHasTimer /\ NothingLost
  BY NoRecordsType DEF DebounceInit, BufferedHasTimer, NothingLost
<1> QED BY <1>1, <1>2, NoRecordsType, FS_EmptySet DEF Buffered, DebounceInit

\* storage_debounce.rs for any number of domains and keys, any batch size and any
\* order of timers, flushes, failures and crashes: a buffered batch stays below
\* its limit and has a timer to come, and a key that was written is buffered,
\* under way or in the store unless a failed flush took it.
THEOREM WritesAccountedFor == DebounceSpec => []DebounceInv
<1>1. Buffered => DebounceInv BY DEF Buffered, DebounceInv
<1> QED BY <1>1, BufferedInit, BufferedInductive, PTL DEF DebounceSpec

-----------------------------------------------------------------------------
(* The quota *)

\* A tab's policy was built from some URL: its identity and its tier belong
\* together.
PolicyOfUrl(p) == \E u \in Urls : p.origin_key = DomainOf[u] /\ p.quota_bytes = QuotaOf[u]

Budgeted ==
  /\ tabs \in [Tabs -> Tab]
  /\ \A t \in Tabs : PolicyOfUrl(tabs[t].capability_policy)
  /\ ledger \in [Domains -> Nat]
  /\ LedgerWithinQuota

\* A new tab has the policy of the URL it shows.
LEMMA NewTabType ==
  ASSUME NEW u \in Urls, NEW v \in Urls
  PROVE  NewTab(u, v) \in Tab /\ PolicyOfUrl(NewTab(u, v).capability_policy)
BY StorageAssumption DEF NewTab, Tab, CapabilityPolicy, capability_policy_for, PolicyOfUrl

\* The tabs of a new process are well formed.
LEMMA StartTabsType ==
  ASSUME NEW u \in StartURLs
  PROVE  StartTabs(u) \in [Tabs -> Tab] /\ \A t \in Tabs : PolicyOfUrl(StartTabs(u)[t].capability_policy)
BY NewTabType, StorageAssumption DEF StartTabs

\* No step charges an origin beyond the quota of its tier.
LEMMA BudgetedInductive ==
  ASSUME Budgeted, [Next]_vars
  PROVE  Budgeted'
<1> USE StorageAssumption, DebounceAssumption
<1>1. ASSUME NEW t \in Tabs, NEW url \in Urls, CommitDocument(t, url) PROVE Budgeted'
  <2>1. tabs' = [tabs EXCEPT ![t] = NewTab(url, url)] /\ ledger' = ledger BY <1>1 DEF CommitDocument
  <2> QED BY <2>1, NewTabType DEF Budgeted, LedgerWithinQuota
<1>2. ASSUME NEW t \in Tabs, NEW k \in Keys, NEW v \in Values, StoreLocal(t, k, v) PROVE Budgeted'
  <2> DEFINE p == tabs[t].capability_policy
             bytes == estimate_value_bytes[v]
             Count(c) == [tabs EXCEPT ![t].capability_policy.write_count_this_second = c]
  <2>1. PICK window_expired \in BOOLEAN :
          LET count == IF window_expired THEN 0 ELSE p.write_count_this_second
          IN  IF check_write_budget(p, count, bytes)
              THEN tabs' = Count(count + 1) /\ ledger' = [ledger EXCEPT ![p.origin_key] = @ + bytes]
              ELSE tabs' = Count(count) /\ ledger' = ledger
    BY <1>2 DEF StoreLocal
  <2> DEFINE count == IF window_expired THEN 0 ELSE p.write_count_this_second
  <2>2. p \in CapabilityPolicy /\ count \in Nat /\ bytes \in Nat
    BY DEF Budgeted, Tab, CapabilityPolicy
  <2>3. ASSUME NEW c \in Nat
        PROVE  /\ Count(c) \in [Tabs -> Tab]
               /\ \A s \in Tabs : PolicyOfUrl(Count(c)[s].capability_policy)
    BY DEF Budgeted, Tab, CapabilityPolicy, PolicyOfUrl
  <2>4. CASE check_write_budget(p, count, bytes)
    <3>1. ledger' = [ledger EXCEPT ![p.origin_key] = @ + bytes] /\ tabs' = Count(count + 1)
      BY <2>1, <2>4
    <3>2. PICK u \in Urls : p.origin_key = DomainOf[u] /\ p.quota_bytes = QuotaOf[u]
      BY DEF Budgeted, PolicyOfUrl
    <3>3. ledger' \in [Domains -> Nat] /\ ledger'[p.origin_key] <= QuotaOf[u]
      BY <2>2, <2>4, <3>1, <3>2 DEF check_write_budget, Budgeted
    <3>4. LedgerWithinQuota' BY <2>2, <3>1, <3>2, <3>3 DEF Budgeted, LedgerWithinQuota
    <3>5. count + 1 \in Nat BY <2>2
    <3> HIDE DEF Count, count
    <3>6. tabs' \in [Tabs -> Tab] /\ \A s \in Tabs : PolicyOfUrl(tabs'[s].capability_policy)
      BY <2>3, <3>1, <3>5
    <3> QED BY <3>3, <3>4, <3>6 DEF Budgeted, PolicyOfUrl
  <2>5. CASE ~check_write_budget(p, count, bytes)
    <3>1. ledger' = ledger /\ tabs' = Count(count) BY <2>1, <2>5
    <3> HIDE DEF Count, count
    <3>2. tabs' \in [Tabs -> Tab] /\ \A s \in Tabs : PolicyOfUrl(tabs'[s].capability_policy)
      BY <2>2, <2>3, <3>1
    <3> QED BY <3>1, <3>2 DEF Budgeted, LedgerWithinQuota, PolicyOfUrl
  <2> QED BY <2>4, <2>5
<1>3. CASE UNCHANGED <<tabs, ledger>> BY <1>3 DEF Budgeted, LedgerWithinQuota
<1>4. CASE Restart
  <2>1. PICK u \in StartURLs : tabs' = StartTabs(u) BY <1>4 DEF Restart
  <2>2. ledger' = [d \in Domains |-> 0] BY <1>4 DEF Restart
  <2>3. tabs' \in [Tabs -> Tab] /\ \A t \in Tabs : PolicyOfUrl(tabs'[t].capability_policy)
    BY <2>1, StartTabsType
  <2> QED BY <2>2, <2>3 DEF Budgeted, LedgerWithinQuota, PolicyOfUrl
<1> QED BY <1>1, <1>2, <1>3, <1>4 DEF Next, vars

\* A new process has charged nothing.
LEMMA BudgetedInit == Init => Budgeted
<1> SUFFICES ASSUME Init PROVE Budgeted OBVIOUS
<1>1. tabs \in [Tabs -> Tab] /\ \A t \in Tabs : PolicyOfUrl(tabs[t].capability_policy)
  BY StartTabsType DEF Init
<1> QED BY <1>1 DEF Init, Budgeted, LedgerWithinQuota

\* S4 for any tiers, tabs, navigations and restarts: no origin is charged more
\* than a tier it is reached with.
THEOREM QuotaHolds == Spec => []LedgerWithinQuota
<1>1. Budgeted => LedgerWithinQuota BY DEF Budgeted
<1> QED BY <1>1, BudgetedInit, BudgetedInductive, PTL DEF Spec

-----------------------------------------------------------------------------
(* What is charged.  The bytes of a write are in the buffer, in a batch under  *)
(* way or in the store, at most once in each; the sum of the three is covered  *)
(* by what the process inherited and what was charged since.                   *)

Underway(F, d) == {f \in F : f.domain = d}
Load(F, d) == SumFunction([f \in Underway(F, d) |-> Bytes(f.records)])

Held(p, F, s, d) == Bytes(s[d]) + Bytes(p[d]) + Load(F, d)

\* A tab that shows a document with logic is charged under its own domain,
\* unless it still shows the launch document under the policy built for home.
OwnPolicy ==
  \A t \in Tabs : \/ tabs[t].committed_url = AboutBlank
                  \/ tabs[t].capability_policy.origin_key = DomainOf[tabs[t].committed_url]
                  \/ tabs[t].committed_url = launch /\ tabs[t].capability_policy.origin_key = home

\* What a store has to account for, and what accounts for it.
Debit == [d \in Domains |-> Held(pending, flushes, db, d)]
Credit == [d \in Domains |-> inherited[d] + ledger[d]]

Balanced(held, paid) ==
  \A d \in Domains : IF ChargedElsewhere(d) THEN held[d] + held[home] <= paid[d] + paid[home]
                                            ELSE held[d] <= paid[d]

Charged ==
  /\ Buffered /\ Budgeted /\ OwnPolicy /\ inherited \in [Domains -> Nat]
  /\ Balanced(Debit, Credit)

\* Store e gains at most n; account o is charged n.
Gains(held2, held, e, n) == \A d \in Domains : held2[d] <= held[d] + IF e = d THEN n ELSE 0
Pays(paid2, paid, o, n) == \A d \in Domains : paid2[d] = paid[d] + IF o = d THEN n ELSE 0
PaysFor(o, e) == e = o \/ (ChargedElsewhere(e) /\ o = home)

LEMMA HomeType == home \in Domains
BY StorageAssumption DEF home

\* An account stays balanced when what one store gains is charged to it, or to
\* home for the store that shares home's account.
LEMMA BalancedStep ==
  ASSUME NEW held \in [Domains -> Nat], NEW held2 \in [Domains -> Nat],
         NEW paid \in [Domains -> Nat], NEW paid2 \in [Domains -> Nat],
         NEW n \in Nat, NEW e \in Domains, NEW o \in Domains,
         PaysFor(o, e), Gains(held2, held, e, n), Pays(paid2, paid, o, n), Balanced(held, paid)
  PROVE  Balanced(held2, paid2)
<1> SUFFICES ASSUME NEW d \in Domains
             PROVE  IF ChargedElsewhere(d) THEN held2[d] + held2[home] <= paid2[d] + paid2[home]
                                           ELSE held2[d] <= paid2[d]
  BY DEF Balanced
<1>1. home \in Domains BY HomeType
<1>2. /\ held[d] \in Nat /\ held2[d] \in Nat /\ paid[d] \in Nat /\ paid2[d] \in Nat
      /\ held[home] \in Nat /\ held2[home] \in Nat /\ paid[home] \in Nat /\ paid2[home] \in Nat
  BY <1>1
<1>3. /\ held2[d] <= held[d] + (IF e = d THEN n ELSE 0)
      /\ held2[home] <= held[home] + (IF e = home THEN n ELSE 0)
      /\ paid2[d] = paid[d] + (IF o = d THEN n ELSE 0)
      /\ paid2[home] = paid[home] + (IF o = home THEN n ELSE 0)
  BY <1>1 DEF Gains, Pays
<1>4. IF ChargedElsewhere(d) THEN held[d] + held[home] <= paid[d] + paid[home] ELSE held[d] <= paid[d]
  BY DEF Balanced
<1>5. ~ChargedElsewhere(home) /\ (ChargedElsewhere(d) /\ ChargedElsewhere(e) => d = e)
  BY DEF ChargedElsewhere
<1>6. CASE ChargedElsewhere(d)
  <2>1. d # home BY <1>5, <1>6
  <2>2. held[d] + held[home] <= paid[d] + paid[home] BY <1>4, <1>6
  <2>3. CASE e = o BY <1>2, <1>3, <1>6, <2>1, <2>2, <2>3
  <2>4. CASE ChargedElsewhere(e) /\ o = home BY <1>2, <1>3, <1>5, <1>6, <2>1, <2>2, <2>4
  <2> QED BY <2>3, <2>4 DEF PaysFor
<1>7. CASE ~ChargedElsewhere(d)
  <2>1. held[d] <= paid[d] BY <1>4, <1>7
  <2>2. e = d => o = d BY <1>7 DEF PaysFor
  <2> QED BY <1>2, <1>3, <1>7, <2>1, <2>2
<1> QED BY <1>6, <1>7

\* A batch holds a natural number of bytes.
LEMMA BytesType ==
  ASSUME NEW r \in Records, IsFiniteSet(DOMAIN r)
  PROVE  Bytes(r) \in Nat
<1> DEFINE W == [k \in DOMAIN r |-> estimate_value_bytes[r[k]]]
<1>1. DOMAIN W = DOMAIN r /\ \A k \in DOMAIN r : W[k] \in Nat
  BY RecordsType, StorageAssumption
<1> HIDE DEF W
<1>2. SumFunctionOnSet(W, DOMAIN W) \in Nat BY <1>1, SumType
<1> QED BY <1>2 DEF Bytes, SumFunction, W

\* An empty batch holds none.
LEMMA BytesEmpty == Bytes(NoRecords) = 0
<1> DEFINE W == [k \in DOMAIN NoRecords |-> estimate_value_bytes[NoRecords[k]]]
<1>1. DOMAIN W = {} BY NoRecordsType
<1> HIDE DEF W
<1>2. SumFunctionOnSet(W, DOMAIN W) = 0 BY <1>1, SumEmpty
<1> QED BY <1>2 DEF Bytes, SumFunction, W

\* Writing one batch over another never holds more than the two did.
LEMMA BytesOverlay ==
  ASSUME NEW f \in Records, NEW g \in Records, IsFiniteSet(DOMAIN f), IsFiniteSet(DOMAIN g)
  PROVE  Bytes(Overlay(f, g)) <= Bytes(f) + Bytes(g)
<1> DEFINE A == DOMAIN f
           B == DOMAIN g
           C == A \ B
           D == A \cap B
           U == [k \in A |-> estimate_value_bytes[f[k]]]
           V == [k \in B |-> estimate_value_bytes[g[k]]]
           o == Overlay(f, g)
           W == [k \in DOMAIN o |-> estimate_value_bytes[o[k]]]
<1>1. /\ DOMAIN U = A /\ DOMAIN V = B /\ DOMAIN W = A \cup B
      /\ \A k \in A : U[k] \in Nat
      /\ \A k \in B : V[k] \in Nat /\ W[k] = V[k]
      /\ \A k \in C : W[k] = U[k]
  BY RecordsType, StorageAssumption DEF Overlay
<1>2. /\ IsFiniteSet(C) /\ IsFiniteSet(D) /\ A = C \cup D /\ A \cup B = C \cup B
      /\ C \cap B = {} /\ C \cap D = {} /\ C \subseteq A /\ D \subseteq A
  BY FS_Subset
<1>3. Bytes(f) = SumFunctionOnSet(U, A) /\ Bytes(g) = SumFunctionOnSet(V, B)
      /\ Bytes(o) = SumFunctionOnSet(W, A \cup B)
  BY <1>1 DEF Bytes, SumFunction
<1> HIDE DEF A, B, C, D, U, V, W, o
<1>4. SumFunctionOnSet(W, C \cup B) = SumFunctionOnSet(W, C) + SumFunctionOnSet(W, B)
  <2>1. \A x \in C \cup B : W[x] \in Nat BY <1>1, <1>2
  <2>2. IsFiniteSet(B) BY DEF B
  <2> QED BY <1>2, <2>1, <2>2, SumUnion
<1>5. SumFunctionOnSet(U, C \cup D) = SumFunctionOnSet(U, C) + SumFunctionOnSet(U, D)
  <2>1. \A x \in C \cup D : U[x] \in Nat BY <1>1, <1>2
  <2> QED BY <1>2, <2>1, SumUnion
<1>6. SumFunctionOnSet(W, C) = SumFunctionOnSet(U, C) BY <1>1, <1>2, SumAgree
<1>7. SumFunctionOnSet(W, B) = SumFunctionOnSet(V, B)
  <2>1. IsFiniteSet(B) BY DEF B
  <2> QED BY <1>1, <2>1, SumAgree
<1>8. /\ SumFunctionOnSet(U, C) \in Nat /\ SumFunctionOnSet(U, D) \in Nat
      /\ SumFunctionOnSet(V, B) \in Nat
  <2>1. IsFiniteSet(B) BY DEF B
  <2>2. \A x \in C : U[x] \in Nat BY <1>1, <1>2
  <2>3. \A x \in D : U[x] \in Nat BY <1>1, <1>2
  <2>4. SumFunctionOnSet(U, C) \in Nat BY <1>2, <2>2, SumType
  <2>5. SumFunctionOnSet(U, D) \in Nat BY <1>2, <2>3, SumType
  <2>6. SumFunctionOnSet(V, B) \in Nat BY <1>1, <2>1, SumType
  <2> QED BY <2>4, <2>5, <2>6
<1>9. Bytes(o) <= Bytes(f) + Bytes(g)
  <2>1. Bytes(f) = SumFunctionOnSet(U, C) + SumFunctionOnSet(U, D) BY <1>2, <1>3, <1>5
  <2>2. Bytes(o) = SumFunctionOnSet(U, C) + SumFunctionOnSet(V, B) BY <1>2, <1>3, <1>4, <1>6, <1>7
  <2>3. Bytes(g) = SumFunctionOnSet(V, B) BY <1>3
  <2> QED BY <1>8, <2>1, <2>2, <2>3
<1> QED BY <1>9 DEF o

\* Buffering a write holds at most its bytes more.
LEMMA BytesInsert ==
  ASSUME NEW f \in Records, IsFiniteSet(DOMAIN f), NEW c \in Keys, NEW v \in Values
  PROVE  Bytes(insert(f, c, v)) <= Bytes(f) + estimate_value_bytes[v]
<1> DEFINE g == [k \in {c} |-> v]
           W == [k \in DOMAIN g |-> estimate_value_bytes[g[k]]]
<1>0. DOMAIN g = {c} /\ g[c] = v /\ g = [k \in DOMAIN g |-> g[k]] OBVIOUS
<1>1. DOMAIN W = {c} /\ W[c] = estimate_value_bytes[v] /\ W[c] \in Nat
  BY <1>0, StorageAssumption
<1>2. insert(f, c, v) = Overlay(f, g) BY DEF insert
<1>3. Bytes(g) = SumFunctionOnSet(W, DOMAIN W) BY DEF Bytes, SumFunction
<1> HIDE DEF g, W
<1>4. g \in Records BY <1>0, RecordsType
<1>5. IsFiniteSet({c}) BY FS_Singleton
<1>6. SumFunctionOnSet(W, {c}) = W[c] + SumFunctionOnSet(W, {c} \ {c})
  BY <1>1, <1>5, SumRemove
<1>7. {c} \ {c} = {} OBVIOUS
<1>8. SumFunctionOnSet(W, {c}) = W[c] BY <1>1, <1>6, <1>7, SumEmpty
<1> QED BY <1>0, <1>1, <1>2, <1>3, <1>4, <1>5, <1>8, BytesOverlay

\* The batches under way for a domain: one more, or one fewer.
LEMMA LoadRemove ==
  ASSUME NEW F, IsFiniteSet(F), \A g \in F : g \in Batch /\ IsFiniteSet(DOMAIN g.records),
         NEW f \in F, NEW d \in Domains
  PROVE  /\ Load(F, d) \in Nat /\ Load(F \ {f}, d) \in Nat /\ Bytes(f.records) \in Nat
         /\ Load(F, d) = Load(F \ {f}, d) + IF f.domain = d THEN Bytes(f.records) ELSE 0
<1> DEFINE G == F \ {f}
           S == Underway(F, d)
           R == Underway(G, d)
           W == [g \in S |-> Bytes(g.records)]
           V == [g \in R |-> Bytes(g.records)]
<1>1. /\ IsFiniteSet(S) /\ IsFiniteSet(R) /\ R \subseteq S /\ S \subseteq F
      /\ f.domain = d => f \in S /\ R = S \ {f}
      /\ f.domain # d => R = S
  BY FS_Subset DEF Underway
<1>2. ASSUME NEW g \in F PROVE Bytes(g.records) \in Nat BY BytesType DEF Batch
<1>3. /\ Load(F, d) = SumFunctionOnSet(W, S) /\ Load(G, d) = SumFunctionOnSet(V, R)
      /\ \A g \in S : W[g] \in Nat /\ W[g] = Bytes(g.records)
      /\ \A g \in R : V[g] \in Nat /\ V[g] = W[g]
  BY <1>1, <1>2 DEF Load, SumFunction
<1> HIDE DEF G, S, R, W, V
<1>4. SumFunctionOnSet(W, S) \in Nat BY <1>1, <1>3, SumType
<1>5. SumFunctionOnSet(V, R) \in Nat BY <1>1, <1>3, SumType
<1>6. SumFunctionOnSet(V, R) = SumFunctionOnSet(W, R) BY <1>1, <1>3, SumAgree
<1>7. CASE f.domain = d
  <2>1. SumFunctionOnSet(W, S) = W[f] + SumFunctionOnSet(W, S \ {f}) BY <1>1, <1>3, <1>7, SumRemove
  <2>2. W[f] = Bytes(f.records) /\ Bytes(f.records) \in Nat BY <1>1, <1>2, <1>3, <1>7
  <2>3. SumFunctionOnSet(W, S \ {f}) = SumFunctionOnSet(V, R) BY <1>1, <1>6, <1>7
  <2>4. /\ Load(F, d) = Bytes(f.records) + Load(G, d) /\ Load(F, d) \in Nat /\ Load(G, d) \in Nat
    BY <1>3, <1>4, <1>5, <2>1, <2>2, <2>3
  <2>5. Load(F, d) = Load(G, d) + Bytes(f.records) BY <2>2, <2>4
  <2> QED BY <1>7, <2>2, <2>4, <2>5 DEF G
<1>8. CASE f.domain # d
  <2>1. R = S BY <1>1, <1>8
  <2>2. Load(F, d) = Load(G, d) BY <1>3, <1>6, <2>1
  <2> QED BY <1>2, <1>3, <1>4, <1>5, <1>8, <2>2 DEF G
<1> QED BY <1>7, <1>8

\* With nothing under way there is no load.
LEMMA LoadEmpty == ASSUME NEW d PROVE Load({}, d) = 0
<1> DEFINE W == [f \in Underway({}, d) |-> Bytes(f.records)]
<1>1. DOMAIN W = {} BY DEF Underway
<1> HIDE DEF W
<1>2. SumFunctionOnSet(W, DOMAIN W) = 0 BY <1>1, SumEmpty
<1> QED BY <1>2 DEF Load, SumFunction, W

\* The three parts are natural numbers.
LEMMA HeldType ==
  ASSUME Buffered, NEW d \in Domains
  PROVE  /\ Bytes(db[d]) \in Nat /\ Bytes(pending[d]) \in Nat /\ Load(flushes, d) \in Nat
         /\ pending[d] \in Records /\ db[d] \in Records
<1>1. /\ pending[d] \in Records /\ db[d] \in Records
      /\ IsFiniteSet(DOMAIN pending[d]) /\ IsFiniteSet(DOMAIN db[d])
  BY DEF Buffered, DebounceTypeOK
<1>2. Bytes(db[d]) \in Nat /\ Bytes(pending[d]) \in Nat BY <1>1, BytesType
<1>3. Load(flushes, d) \in Nat
  <2>1. CASE flushes = {} BY <2>1, LoadEmpty
  <2>2. CASE flushes # {}
    <3>1. PICK f \in flushes : TRUE BY <2>2
    <3>2. IsFiniteSet(flushes) /\ \A g \in flushes : g \in Batch /\ IsFiniteSet(DOMAIN g.records)
      BY DEF Buffered, DebounceTypeOK
    <3> QED BY <3>1, <3>2, LoadRemove
  <2> QED BY <2>1, <2>2
<1> QED BY <1>1, <1>2, <1>3

\* A batch handed to the pool leaves the buffer for the load.
LEMMA LoadSpawn ==
  ASSUME Buffered, NEW e \in Domains, NEW r \in Records, IsFiniteSet(DOMAIN r), spawn_flush(e, r),
         NEW d \in Domains
  PROVE  Load(flushes', d) = Load(flushes, d) + IF e = d THEN Bytes(r) ELSE 0
<1> DEFINE f == [id |-> taken, domain |-> e, records |-> r]
<1>1. /\ f \in Batch /\ f \notin flushes /\ flushes' = flushes \cup {f}
      /\ \A g \in flushes' : g \in Batch /\ IsFiniteSet(DOMAIN g.records)
      /\ IsFiniteSet(flushes')
  BY SpawnType
<1>2. f.domain = e /\ f.records = r OBVIOUS
<1> HIDE DEF f
<1>3. f \in flushes' /\ flushes' \ {f} = flushes BY <1>1
<1>4. Load(flushes', d) = Load(flushes' \ {f}, d) + IF f.domain = d THEN Bytes(f.records) ELSE 0
  BY <1>1, <1>3, LoadRemove
<1> QED BY <1>2, <1>3, <1>4

\* A write adds at most its own bytes to what is held for its domain.
LEMMA HeldSubmit ==
  ASSUME Buffered, NEW e \in Domains, NEW k \in Keys, NEW v \in Values, submit(e, k, v),
         NEW d \in Domains
  PROVE  Held(pending', flushes', db', d)
           <= Held(pending, flushes, db, d) + IF e = d THEN estimate_value_bytes[v] ELSE 0
<1> DEFINE entry == insert(pending[e], k, v)
<1>1. /\ pending \in [Domains -> Records] /\ IsFiniteSet(DOMAIN pending[e])
  BY DEF Buffered, DebounceTypeOK
<1>2. entry \in Records /\ IsFiniteSet(DOMAIN entry) BY <1>1, InsertType
<1>3. Bytes(entry) \in Nat BY <1>2, BytesType
<1>4. Bytes(entry) <= Bytes(pending[e]) + estimate_value_bytes[v] BY <1>1, BytesInsert
<1>5. estimate_value_bytes[v] \in Nat BY StorageAssumption
<1>6. /\ Bytes(db[d]) \in Nat /\ Bytes(pending[d]) \in Nat /\ Load(flushes, d) \in Nat
      /\ Bytes(pending[e]) \in Nat
  BY HeldType
<1>7. db' = db BY DEF submit
<1> HIDE DEF entry
<1>8. CASE Full(entry)
  <2>1. pending' = [pending EXCEPT ![e] = NoRecords] /\ spawn_flush(e, entry)
    BY <1>8 DEF submit, entry
  <2>2. Load(flushes', d) = Load(flushes, d) + IF e = d THEN Bytes(entry) ELSE 0
    BY <1>2, <2>1, LoadSpawn
  <2>3. pending'[d] = IF e = d THEN NoRecords ELSE pending[d] BY <1>1, <2>1
  <2>4. CASE e = d
    <3>1. Bytes(pending'[d]) = 0 BY <2>3, <2>4, BytesEmpty
    <3> QED BY <1>3, <1>4, <1>5, <1>6, <1>7, <2>2, <2>4, <3>1 DEF Held
  <2>5. CASE e # d BY <1>5, <1>6, <1>7, <2>2, <2>3, <2>5 DEF Held
  <2> QED BY <2>4, <2>5
<1>9. CASE ~Full(entry)
  <2>1. pending' = [pending EXCEPT ![e] = entry] /\ flushes' = flushes
    BY <1>9 DEF submit, entry
  <2>2. pending'[d] = IF e = d THEN entry ELSE pending[d] BY <1>1, <2>1
  <2>3. CASE e = d BY <1>3, <1>4, <1>5, <1>6, <1>7, <2>1, <2>2, <2>3 DEF Held
  <2>4. CASE e # d BY <1>5, <1>6, <1>7, <2>1, <2>2, <2>4 DEF Held
  <2> QED BY <2>3, <2>4
<1> QED BY <1>8, <1>9

\* Timers, commits and failed flushes never add to it.
LEMMA HeldWorker ==
  ASSUME Buffered, Worker, NEW d \in Domains
  PROVE  Held(pending', flushes', db', d) <= Held(pending, flushes, db, d)
<1>1. /\ pending \in [Domains -> Records] /\ db \in [Domains -> Records]
      /\ \A e \in Domains : IsFiniteSet(DOMAIN pending[e]) /\ IsFiniteSet(DOMAIN db[e])
      /\ IsFiniteSet(flushes) /\ \A g \in flushes : g \in Batch /\ IsFiniteSet(DOMAIN g.records)
  BY DEF Buffered, DebounceTypeOK
<1>2. /\ Bytes(db[d]) \in Nat /\ Bytes(pending[d]) \in Nat /\ Load(flushes, d) \in Nat
  BY HeldType
<1>3. ASSUME NEW e \in Domains, TimerFires(e)
      PROVE  Held(pending', flushes', db', d) <= Held(pending, flushes, db, d)
  <2>1. pending' = [pending EXCEPT ![e] = NoRecords] /\ db' = db BY <1>3 DEF TimerFires
  <2>2. pending'[d] = IF e = d THEN NoRecords ELSE pending[d] BY <1>1, <2>1
  <2>3. Load(flushes', d) = Load(flushes, d) + IF e = d THEN Bytes(pending[e]) ELSE 0
    <3>1. CASE pending[e] # NoRecords
      <4>1. spawn_flush(e, pending[e]) BY <1>3, <3>1 DEF TimerFires
      <4> QED BY <1>1, <4>1, LoadSpawn
    <3>2. CASE pending[e] = NoRecords
      <4>1. flushes' = flushes BY <1>3, <3>2 DEF TimerFires
      <4> QED BY <1>2, <3>2, <4>1, BytesEmpty
    <3> QED BY <3>1, <3>2
  <2>4. CASE e = d
    <3>1. Bytes(pending'[d]) = 0 BY <2>2, <2>4, BytesEmpty
    <3> QED BY <1>2, <2>1, <2>3, <2>4, <3>1 DEF Held
  <2>5. CASE e # d BY <1>2, <2>1, <2>2, <2>3, <2>5 DEF Held
  <2> QED BY <2>4, <2>5
<1>4. ASSUME NEW f \in flushes, write_batch(f) \/ FlushFails(f)
      PROVE  Held(pending', flushes', db', d) <= Held(pending, flushes, db, d)
  <2>1. pending' = pending /\ flushes' = flushes \ {f} BY <1>4 DEF write_batch, FlushFails
  <2>2. /\ Load(flushes \ {f}, d) \in Nat /\ Bytes(f.records) \in Nat
        /\ Load(flushes, d) = Load(flushes \ {f}, d) + IF f.domain = d THEN Bytes(f.records) ELSE 0
    BY <1>1, LoadRemove
  <2>3. f.records \in Records /\ IsFiniteSet(DOMAIN f.records) /\ f.domain \in Domains
    BY <1>1 DEF Batch
  <2> DEFINE o == Overlay(db[f.domain], f.records)
  <2>4. db' = db \/ db' = [db EXCEPT ![f.domain] = o] BY <1>4 DEF write_batch, FlushFails
  <2>5. Bytes(o) <= Bytes(db[f.domain]) + Bytes(f.records) /\ Bytes(o) \in Nat
    <3>1. o \in Records /\ IsFiniteSet(DOMAIN o) BY <1>1, <2>3, OverlayType
    <3> QED BY <1>1, <2>3, <3>1, BytesOverlay, BytesType
  <2> HIDE DEF o
  <2>6. CASE f.domain = d
    <3>1. db'[d] = db[d] \/ db'[d] = o BY <1>1, <2>3, <2>4, <2>6
    <3>2. Bytes(db'[d]) <= Bytes(db[d]) + Bytes(f.records) /\ Bytes(db'[d]) \in Nat
      BY <1>2, <2>2, <2>5, <2>6, <3>1
    <3> QED BY <1>2, <2>1, <2>2, <2>6, <3>2 DEF Held
  <2>7. CASE f.domain # d
    <3>1. db'[d] = db[d] BY <1>1, <2>3, <2>4, <2>7
    <3> QED BY <1>2, <2>1, <2>2, <2>7, <3>1 DEF Held
  <2> QED BY <2>6, <2>7
<1> QED BY <1>3, <1>4 DEF Worker

\* Every step of the tabs is a step of the debouncer, or leaves it alone.
LEMMA DebounceStep ==
  ASSUME tabs \in [Tabs -> Tab], [Next]_vars
  PROVE  [DebounceNext]_debounceVars
<1>1. ASSUME NEW t \in Tabs, NEW url \in Urls, CommitDocument(t, url) PROVE UNCHANGED debounceVars
  BY <1>1 DEF CommitDocument
<1>2. ASSUME NEW t \in Tabs, NEW k \in Keys, NEW v \in Values, StoreLocal(t, k, v)
      PROVE  DebounceNext \/ UNCHANGED debounceVars
  <2>1. DomainOf[tabs[t].committed_url] \in Domains BY StorageAssumption DEF Tab
  <2>2. submit(DomainOf[tabs[t].committed_url], k, v) \/ UNCHANGED debounceVars
    BY <1>2 DEF StoreLocal
  <2> QED BY <2>1, <2>2 DEF DebounceNext
<1>3. CASE Worker BY <1>3 DEF DebounceNext
<1>4. CASE Restart BY <1>4 DEF Restart, DebounceNext
<1>5. CASE UNCHANGED vars BY <1>5 DEF vars
<1> QED BY <1>1, <1>2, <1>3, <1>4, <1>5 DEF Next

\* The same of the next state.
LEMMA HeldPrimed ==
  ASSUME Buffered', NEW d \in Domains
  PROVE  Bytes(db'[d]) \in Nat /\ Bytes(pending'[d]) \in Nat /\ Load(flushes', d) \in Nat
<1>1. /\ pending'[d] \in Records /\ db'[d] \in Records
      /\ IsFiniteSet(DOMAIN pending'[d]) /\ IsFiniteSet(DOMAIN db'[d])
      /\ IsFiniteSet(flushes') /\ \A g \in flushes' : g \in Batch /\ IsFiniteSet(DOMAIN g.records)
  BY DEF Buffered, DebounceTypeOK
<1>2. Bytes(db'[d]) \in Nat /\ Bytes(pending'[d]) \in Nat BY <1>1, BytesType
<1>3. Load(flushes', d) \in Nat
  <2>1. CASE flushes' = {} BY <2>1, LoadEmpty
  <2>2. CASE flushes' # {}
    <3>1. PICK f \in flushes' : TRUE BY <2>2
    <3> QED BY <1>1, <3>1, LoadRemove
  <2> QED BY <2>1, <2>2
<1> QED BY <1>2, <1>3

\* Both sides of the account are natural numbers.
LEMMA AccountType ==
  ASSUME Buffered, Budgeted, inherited \in [Domains -> Nat]
  PROVE  Debit \in [Domains -> Nat] /\ Credit \in [Domains -> Nat]
<1>1. ASSUME NEW d \in Domains PROVE Held(pending, flushes, db, d) \in Nat
  BY HeldType DEF Held
<1>2. ASSUME NEW d \in Domains PROVE inherited[d] + ledger[d] \in Nat BY DEF Budgeted
<1> QED BY <1>1, <1>2 DEF Debit, Credit

LEMMA AccountPrimed ==
  ASSUME Buffered', Budgeted', inherited' \in [Domains -> Nat]
  PROVE  /\ Debit' \in [Domains -> Nat] /\ Credit' \in [Domains -> Nat]
         /\ \A d \in Domains : Debit'[d] = Held(pending', flushes', db', d)
         /\ \A d \in Domains : Credit'[d] = inherited'[d] + ledger'[d]
<1>1. ASSUME NEW d \in Domains PROVE Held(pending', flushes', db', d) \in Nat
  <2>1. Bytes(db'[d]) \in Nat /\ Bytes(pending'[d]) \in Nat /\ Load(flushes', d) \in Nat
    BY HeldPrimed
  <2> QED BY <2>1 DEF Held
<1>2. ASSUME NEW d \in Domains PROVE inherited'[d] + ledger'[d] \in Nat BY DEF Budgeted
<1>3. Debit' = [d \in Domains |-> Held(pending', flushes', db', d)]
  BY DEF Debit, Held, Bytes, Load, Underway
<1>4. Credit' = [d \in Domains |-> inherited'[d] + ledger'[d]] BY DEF Credit
<1> QED BY <1>1, <1>2, <1>3, <1>4

\* Every step keeps the account balanced.
LEMMA ChargedInductive ==
  ASSUME Charged, [Next]_vars
  PROVE  Charged'
<1>1. Buffered /\ Budgeted /\ OwnPolicy /\ inherited \in [Domains -> Nat] /\ Balanced(Debit, Credit)
  BY DEF Charged
<1>2. tabs \in [Tabs -> Tab] /\ ledger \in [Domains -> Nat] BY <1>1 DEF Budgeted
<1>3. Buffered' BY <1>1, <1>2, DebounceStep, BufferedInductive
<1>4. Budgeted' BY <1>1, BudgetedInductive
<1>5. Debit \in [Domains -> Nat] /\ Credit \in [Domains -> Nat] BY <1>1, AccountType
<1>6. ASSUME NEW n \in Nat, NEW e \in Domains, NEW o \in Domains,
             PaysFor(o, e),
             UNCHANGED <<launch, inherited>>, OwnPolicy',
             \A d \in Domains : Held(pending', flushes', db', d)
                                  <= Held(pending, flushes, db, d) + IF e = d THEN n ELSE 0,
             \A d \in Domains : ledger'[d] = ledger[d] + IF o = d THEN n ELSE 0
      PROVE  Charged'
  <2>1. inherited' \in [Domains -> Nat] BY <1>1, <1>6
  <2>2. /\ Debit' \in [Domains -> Nat] /\ Credit' \in [Domains -> Nat]
        /\ \A d \in Domains : Debit'[d] = Held(pending', flushes', db', d)
        /\ \A d \in Domains : Credit'[d] = inherited'[d] + ledger'[d]
    BY <1>3, <1>4, <2>1, AccountPrimed
  <2>3. ASSUME NEW d \in Domains PROVE Debit'[d] <= Debit[d] + IF e = d THEN n ELSE 0
    BY <1>6, <2>2 DEF Debit
  <2>4. ASSUME NEW d \in Domains PROVE Credit'[d] = Credit[d] + IF o = d THEN n ELSE 0
    <3>1. ledger'[d] = ledger[d] + IF o = d THEN n ELSE 0 BY <1>6
    <3>2. ledger[d] \in Nat /\ inherited[d] \in Nat /\ inherited'[d] = inherited[d] BY <1>1, <1>2, <1>6
    <3>3. Credit[d] = inherited[d] + ledger[d] BY DEF Credit
    <3> QED BY <2>2, <3>1, <3>2, <3>3
  <2> DEFINE a == Debit'
             b == Credit'
             x == Debit
             y == Credit
  <2>5. Balanced(a, b)
    <3>1. /\ a \in [Domains -> Nat] /\ b \in [Domains -> Nat]
          /\ x \in [Domains -> Nat] /\ y \in [Domains -> Nat] /\ Balanced(x, y)
      BY <1>1, <1>5, <2>2
    <3>2. Gains(a, x, e, n) /\ Pays(b, y, o, n) BY <2>3, <2>4 DEF Gains, Pays
    <3> HIDE DEF a, b, x, y
    <3> QED BY <1>6, <3>1, <3>2, BalancedStep
  <2>6. Balanced(Debit, Credit)' BY <1>6, <2>5 DEF Balanced, ChargedElsewhere
  <2> QED BY <1>3, <1>4, <1>6, <2>1, <2>6 DEF Charged
<1>7. ASSUME UNCHANGED <<debounceVars, launch, ledger, inherited>>, OwnPolicy' PROVE Charged'
  <2>1. pending' = pending /\ flushes' = flushes /\ db' = db BY <1>7 DEF debounceVars
  <2>2. ASSUME NEW d \in Domains
        PROVE  Held(pending', flushes', db', d) <= Held(pending, flushes, db, d) + IF home = d THEN 0 ELSE 0
    <3>1. Held(pending, flushes, db, d) \in Nat BY <1>1, HeldType DEF Held
    <3>2. Held(pending', flushes', db', d) = Held(pending, flushes, db, d) BY <2>1
    <3> QED BY <3>1, <3>2
  <2>3. ASSUME NEW d \in Domains PROVE ledger'[d] = ledger[d] + IF home = d THEN 0 ELSE 0 BY <1>2, <1>7
  <2>4. UNCHANGED <<launch, inherited>> BY <1>7
  <2>5. home \in Domains /\ 0 \in Nat /\ PaysFor(home, home) BY HomeType DEF PaysFor
  <2> QED BY <1>6, <1>7, <2>2, <2>3, <2>4, <2>5
<1>8. ASSUME NEW t \in Tabs, NEW url \in Urls, CommitDocument(t, url) PROVE Charged'
  <2>1. tabs' = [tabs EXCEPT ![t] = NewTab(url, url)] /\ launch' = launch BY <1>8 DEF CommitDocument
  <2>2. OwnPolicy'
    BY <1>1, <1>2, <2>1 DEF OwnPolicy, NewTab, capability_policy_for
  <2> QED BY <1>7, <1>8, <2>2 DEF CommitDocument
<1>9. ASSUME NEW t \in Tabs, NEW k \in Keys, NEW v \in Values, StoreLocal(t, k, v) PROVE Charged'
  <2> DEFINE p == tabs[t].capability_policy
             bytes == estimate_value_bytes[v]
             e == DomainOf[tabs[t].committed_url]
             Count(c) == [tabs EXCEPT ![t].capability_policy.write_count_this_second = c]
  <2>1. PICK window_expired \in BOOLEAN :
          LET count == IF window_expired THEN 0 ELSE p.write_count_this_second
          IN  IF check_write_budget(p, count, bytes)
              THEN /\ tabs' = Count(count + 1) /\ ledger' = [ledger EXCEPT ![p.origin_key] = @ + bytes]
                   /\ submit(e, k, v)
              ELSE tabs' = Count(count) /\ UNCHANGED <<debounceVars, ledger>>
    BY <1>9 DEF StoreLocal
  <2>2. tabs[t].committed_url # AboutBlank /\ inherited' = inherited /\ launch' = launch
    BY <1>9 DEF StoreLocal
  <2>3. e \in Domains /\ p.origin_key \in Domains /\ bytes \in Nat
    BY <1>2, StorageAssumption DEF Tab, CapabilityPolicy
  <2>4. PaysFor(p.origin_key, e)
    BY <1>1, <2>2 DEF OwnPolicy, ChargedElsewhere, PaysFor
  <2>5. ASSUME NEW c, tabs' = Count(c) PROVE OwnPolicy'
    <3>1. \A s \in Tabs : /\ tabs'[s].committed_url = tabs[s].committed_url
                          /\ tabs'[s].capability_policy.origin_key = tabs[s].capability_policy.origin_key
      BY <1>2, <2>5 DEF Tab, CapabilityPolicy
    <3> QED BY <1>1, <2>2, <3>1 DEF OwnPolicy
  <2>6. OwnPolicy' BY <2>1, <2>5
  <2> HIDE DEF p, bytes, e, Count
  <2>7. \/ UNCHANGED <<debounceVars, ledger>>
        \/ ledger' = [ledger EXCEPT ![p.origin_key] = @ + bytes] /\ submit(e, k, v)
    BY <2>1
  <2>8. CASE UNCHANGED <<debounceVars, ledger>> BY <1>7, <2>2, <2>6, <2>8
  <2>9. CASE ledger' = [ledger EXCEPT ![p.origin_key] = @ + bytes] /\ submit(e, k, v)
    <3>1. ASSUME NEW d \in Domains
          PROVE  Held(pending', flushes', db', d) <= Held(pending, flushes, db, d) + IF e = d THEN bytes ELSE 0
      BY <1>1, <2>3, <2>9, HeldSubmit DEF bytes
    <3>2. ASSUME NEW d \in Domains PROVE ledger'[d] = ledger[d] + IF p.origin_key = d THEN bytes ELSE 0
      BY <1>2, <2>3, <2>9
    <3>3. UNCHANGED <<launch, inherited>> BY <2>2
    <3> QED BY <1>6, <2>3, <2>4, <2>6, <3>1, <3>2, <3>3
  <2> QED BY <2>7, <2>8, <2>9
<1>10. CASE Worker /\ UNCHANGED <<launch, tabs, ledger, inherited, restarts>>
  <2>1. ASSUME NEW d \in Domains
        PROVE  Held(pending', flushes', db', d) <= Held(pending, flushes, db, d) + IF home = d THEN 0 ELSE 0
    <3>1. Held(pending', flushes', db', d) <= Held(pending, flushes, db, d) BY <1>1, <1>10, HeldWorker
    <3>2. Held(pending, flushes, db, d) \in Nat BY <1>1, HeldType DEF Held
    <3> QED BY <3>1, <3>2
  <2>2. ASSUME NEW d \in Domains PROVE ledger'[d] = ledger[d] + IF home = d THEN 0 ELSE 0 BY <1>2, <1>10
  <2>3. OwnPolicy' BY <1>1, <1>10 DEF OwnPolicy
  <2>4. UNCHANGED <<launch, inherited>> BY <1>10
  <2>5. home \in Domains /\ 0 \in Nat /\ PaysFor(home, home) BY HomeType DEF PaysFor
  <2> QED BY <1>6, <2>1, <2>2, <2>3, <2>4, <2>5
<1>11. CASE Restart
  <2>1. /\ pending' = [d \in Domains |-> NoRecords] /\ flushes' = {} /\ db' = db
        /\ launch' \in StartURLs /\ tabs' = StartTabs(launch') /\ ledger' = [d \in Domains |-> 0]
        /\ inherited' = [d \in Domains |-> AtRest(d)]
    BY <1>11 DEF Restart, Crash
  <2>2. OwnPolicy'
    <3>1. ASSUME NEW t \in Tabs
          PROVE  \/ tabs'[t].committed_url = AboutBlank
                 \/ tabs'[t].committed_url = launch' /\ tabs'[t].capability_policy.origin_key = home
      BY <2>1 DEF StartTabs, NewTab, capability_policy_for, home
    <3> QED BY <3>1 DEF OwnPolicy
  <2>3. ASSUME NEW d \in Domains PROVE Bytes(db[d]) \in Nat BY <1>1, HeldType
  <2>4. inherited' \in [Domains -> Nat] BY <2>1, <2>3 DEF AtRest
  <2>5. /\ Debit' \in [Domains -> Nat] /\ Credit' \in [Domains -> Nat]
        /\ \A d \in Domains : Debit'[d] = Held(pending', flushes', db', d)
        /\ \A d \in Domains : Credit'[d] = inherited'[d] + ledger'[d]
    BY <1>3, <1>4, <2>4, AccountPrimed
  <2>6. ASSUME NEW d \in Domains PROVE Debit'[d] = Credit'[d]
    <3>1. Bytes(pending'[d]) = 0 /\ Load(flushes', d) = 0 BY <2>1, BytesEmpty, LoadEmpty
    <3>2. inherited'[d] = Bytes(db'[d]) /\ ledger'[d] = 0 BY <2>1 DEF AtRest
    <3> QED BY <2>1, <2>3, <2>5, <3>1, <3>2 DEF Held
  <2>7. Balanced(Debit, Credit)'
    <3>1. ASSUME NEW d \in Domains PROVE Debit'[d] <= Credit'[d] /\ Debit'[d] \in Nat /\ Credit'[d] \in Nat
      BY <2>5, <2>6
    <3>2. ASSUME NEW d \in Domains PROVE Debit'[d] + Debit'[home] <= Credit'[d] + Credit'[home]
      BY <3>1, HomeType
    <3> QED BY <3>1, <3>2 DEF Balanced
  <2> QED BY <1>3, <1>4, <2>2, <2>4, <2>7 DEF Charged
<1>12. CASE UNCHANGED vars
  <2>1. OwnPolicy' BY <1>1, <1>12 DEF vars, OwnPolicy
  <2> QED BY <1>7, <1>12, <2>1 DEF vars
<1> QED BY <1>8, <1>9, <1>10, <1>11, <1>12 DEF Next

\* S4, the other half, whatever a browser is launched on: every byte a store
\* gained in a process was charged to the identity that names the store, or, for
\* the launch document's, to that identity and home's together, whatever is still
\* buffered or under way, and across any number of restarts.
THEOREM StoresAreCharged == Spec => []StoreCharged
<1>1. Init => Charged
  <2> SUFFICES ASSUME Init PROVE Charged OBVIOUS
  <2>1. Buffered BY BufferedInit DEF Init
  <2>2. Budgeted BY BudgetedInit
  <2>3. OwnPolicy BY DEF Init, OwnPolicy, StartTabs, NewTab, capability_policy_for, home
  <2>4. inherited \in [Domains -> Nat] BY DEF Init
  <2>5. ASSUME NEW d \in Domains PROVE Debit[d] = 0 /\ Credit[d] = 0
    <3>1. Bytes(pending[d]) = 0 /\ Bytes(db[d]) = 0 /\ Load(flushes, d) = 0
      BY BytesEmpty, LoadEmpty DEF Init, DebounceInit
    <3>2. inherited[d] = 0 /\ ledger[d] = 0 BY DEF Init
    <3> QED BY <3>1, <3>2 DEF Debit, Credit, Held
  <2>6. Balanced(Debit, Credit) BY <2>5, HomeType DEF Balanced
  <2> QED BY <2>1, <2>2, <2>3, <2>4, <2>6 DEF Charged
<1>2. Charged => StoreCharged
  <2> SUFFICES ASSUME Charged PROVE StoreCharged OBVIOUS
  <2>1. ASSUME NEW d \in Domains
        PROVE  /\ AtRest(d) \in Nat /\ Debit[d] \in Nat /\ AtRest(d) <= Debit[d]
               /\ inherited[d] \in Nat /\ ledger[d] \in Nat /\ Credit[d] = inherited[d] + ledger[d]
    <3>1. Bytes(db[d]) \in Nat /\ Bytes(pending[d]) \in Nat /\ Load(flushes, d) \in Nat
      BY HeldType DEF Charged
    <3> QED BY <3>1 DEF Debit, Credit, Held, AtRest, Charged, Budgeted
  <2> SUFFICES ASSUME NEW d \in Domains
               PROVE  IF ChargedElsewhere(d)
                      THEN AtRest(d) + AtRest(home)
                             <= inherited[d] + inherited[home] + ledger[d] + ledger[home]
                      ELSE AtRest(d) <= inherited[d] + ledger[d]
    BY DEF StoreCharged
  <2>2. IF ChargedElsewhere(d) THEN Debit[d] + Debit[home] <= Credit[d] + Credit[home]
                               ELSE Debit[d] <= Credit[d]
    BY DEF Charged, Balanced
  <2>3. home \in Domains BY HomeType
  <2> QED BY <2>1, <2>2, <2>3
<1>3. Charged /\ [Next]_vars => Charged' BY ChargedInductive
<1> QED BY <1>1, <1>2, <1>3, PTL DEF Spec

\* The tabs, policies and the quota in front of the debouncer do nothing to it
\* that it does not expect: all that WritesAccountedFor says holds here too.
THEOREM ImplementsDebounce == Spec => DebounceSpec
<1>1. Init => DebounceInit BY DEF Init
<1>2. Budgeted /\ [Next]_vars => [DebounceNext]_debounceVars BY DebounceStep DEF Budgeted
<1> QED BY <1>1, <1>2, BudgetedInit, BudgetedInductive, PTL DEF Spec, DebounceSpec
=============================================================================
