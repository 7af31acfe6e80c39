--------------------------- MODULE NetworkWorker ----------------------------
(***************************************************************************)
(* The network worker: the dispatch loop and its fetch tasks               *)
(* (src/network/worker/mod.rs, fetch), the pool of HTTP/3 connections      *)
(* (h3_pool.rs) and the bearer tokens of the vault (auth, vault).          *)
(*                                                                         *)
(* Tasks run concurrently and interleave at every await and at every call  *)
(* to the keyring.  Servers, the resolver and the transport choose what to *)
(* answer and when a timeout expires; a connection may break at any time,  *)
(* so a pooled one is only what address it goes to.                        *)
(***************************************************************************)
EXTENDS HostPolicy, FiniteSets, FiniteSetsExt, Functions

CONSTANTS
  Commands,                  \* commands of the UI: [id, kind, host, method, payload_ok, headers_ok]
  Workloads,                 \* sets of commands, one of which the UI sends
  HostInfo,                  \* host name -> a host of HostPolicy
  Vaults,                    \* what the keyring may hold from earlier sessions
  DnsAnswers,                \* what a pool may answer to a lookup
  LocalAddresses,            \* IPv4 addresses of this machine and of the networks around it
  Grants,                    \* Mizu-Auth-Set headers: [token, scope, exp], exp = <<>> when absent
  PERMITTED_HTTP_METHODS,
  MAX_TOKEN_TTL_SECS,
  MAX_CONCURRENT_FETCHES, MAX_UI_CHANNEL_CAPACITY,
  MAX_POOL_SIZE, QUIC_MAX_IDLE_TIMEOUT,
  max_redirects,
  MAX_RESPONSE_BODY_BYTES,
  MaxTime                    \* bound on the clock

ASSUME NetworkAssumption ==
  /\ MAX_CONCURRENT_FETCHES \in Nat \ {0} /\ MAX_UI_CHANNEL_CAPACITY \in Nat \ {0}
  /\ MAX_POOL_SIZE \in Nat \ {0} /\ QUIC_MAX_IDLE_TIMEOUT \in Nat \ {0}
  /\ max_redirects \in Nat /\ MAX_RESPONSE_BODY_BYTES \in Nat /\ MAX_TOKEN_TTL_SECS \in Nat /\ MaxTime \in Nat

\* What earlier sessions left was imported by process_mizu_auth_set.
ASSUME VaultsAssumption ==
  \A v \in Vaults : \A h \in DOMAIN v :
    v[h].owner = h /\ v[h].methods \subseteq PERMITTED_HTTP_METHODS

\* Loopback, private and link-local, octet by octet.
ASSUME LocalAddressesAssumption ==
  \A ip \in LocalAddresses :
    /\ ip \in [1..4 -> Octet]
    /\ \/ ip[1] = 10 \/ ip[1] = 127 \/ (ip[1] = 172 /\ ip[2] \in 16..31)
       \/ (ip[1] = 192 /\ ip[2] = 168) \/ (ip[1] = 169 /\ ip[2] = 254)

VARIABLES
  worker,    \* "starting", "running" or "dead"
  rx,        \* commands sent and not yet dispatched
  task,      \* command -> the state of its task
  permits,   \* free permits of the semaphore
  pool,      \* host -> [addr, last_used], the connections map
  lock,      \* the task that holds the map across its handshake, as a set
  vault,     \* host -> VaultEntry
  clock,
  tx,        \* results the UI has not read
  answers,   \* command -> results it was given
  sent       \* command -> the last request put on the wire

netVars == <<worker, rx, task, permits, pool, lock, vault, clock, tx, answers, sent>>

Hosts == DOMAIN HostInfo
IsNavigation(c) == c.kind = "Navigate"
insert(map, host, v) == [h \in DOMAIN map \cup {host} |-> IF h = host THEN v ELSE map[h]]
Idle == [phase |-> "unsent", attempt |-> 1, hop |-> 0, entry |-> <<>>, addr |-> <<>>, conn |-> <<>>, out |-> "none"]

NetInit ==
  /\ worker = "starting" /\ rx = <<>> /\ tx = <<>>
  /\ \E load \in Workloads :
       task = [c \in Commands |-> [Idle EXCEPT !.phase = IF c \in load THEN @ ELSE "never sent"]]
  /\ permits = MAX_CONCURRENT_FETCHES
  /\ pool = <<>> /\ lock = {} /\ vault \in Vaults /\ clock = 0
  /\ answers = [c \in Commands |-> <<>>] /\ sent = [c \in Commands |-> <<>>]

-----------------------------------------------------------------------------
(* The dispatch loop *)

Submit(c) ==
  /\ task[c].phase = "unsent"
  /\ task' = [task EXCEPT ![c].phase = "sent"]
  /\ rx' = Append(rx, c)
  /\ UNCHANGED <<worker, permits, pool, lock, vault, clock, tx, answers, sent>>

\* The runtime, the endpoint and the TLS configuration are built, or the
\* thread reports an error of no tab and ends.
StartWorker(ok) ==
  /\ worker = "starting"
  /\ worker' = IF ok THEN "running" ELSE "dead"
  /\ tx' = IF ok THEN tx ELSE Append(tx, [c |-> <<>>, result |-> "Error"])
  /\ UNCHANGED <<rx, task, permits, pool, lock, vault, clock, answers, sent>>

\* A NetworkRequest is dropped; a StorageStore goes to the debouncer; the
\* others each get a task.
Dispatch ==
  /\ worker = "running" /\ rx # <<>>
  /\ rx' = Tail(rx)
  /\ task' = [task EXCEPT ![Head(rx)].phase =
                IF Head(rx).kind \in {"NetworkRequest", "StorageStore"} THEN "done" ELSE "permit"]
  /\ UNCHANGED <<worker, permits, pool, lock, vault, clock, tx, answers, sent>>

-----------------------------------------------------------------------------
(* What a task answers *)

Move(c, next) == task' = [task EXCEPT ![c] = next]

\* Mutation: a failed navigation reports nothing.
silent_navigation(c, e) ==
  CASE IsNavigation(c) -> "none" [] c.kind = "Fetch" -> "FetchFailed" [] OTHER -> "FetchImageFailed"

Failure(c, e) ==
  CASE IsNavigation(c) -> "Error" [] c.kind = "Fetch" -> "FetchFailed" [] OTHER -> "FetchImageFailed"

Success(c) ==
  CASE IsNavigation(c) -> "NavigateSuccess" [] c.kind = "Fetch" -> "Success" [] OTHER -> "FetchImageSuccess"

Result(t, out) == [t EXCEPT !.phase = "answer", !.out = out]
Fail(c, e) == Result(task[c], Failure(c, e))

\* Mutation: any error is tried again.
retry_any(c, e) ==
  IF task[c].attempt = 1 THEN [task[c] EXCEPT !.phase = "evict"] ELSE Fail(c, e)

\* Only an error of the network class is tried again, and once.
AttemptFailed(c, e) ==
  IF e = "Network" /\ task[c].attempt = 1 THEN [task[c] EXCEPT !.phase = "evict"] ELSE Fail(c, e)

\* A permit is taken before any I/O.  A payload that does not serialise ends
\* the fetch with an Error; a local image is read, decoded or not, and
\* answered without the network.
AcquirePermit(c, read_ok) ==
  /\ task[c].phase = "permit" /\ permits > 0
  /\ permits' = permits - 1
  /\ Move(c, CASE c.kind = "FetchFile" -> Result(task[c], IF read_ok THEN Success(c) ELSE Failure(c, "IoError"))
               [] c.kind = "Fetch" /\ ~c.payload_ok -> Result(task[c], "Error")
               [] OTHER -> [task[c] EXCEPT !.phase = "load"])
  /\ UNCHANGED <<worker, rx, pool, lock, vault, clock, tx, answers, sent>>

\* The result waits for room in the channel to the UI; the permit is held
\* until it is in.
Answer(c) ==
  /\ task[c].phase = "answer" /\ Len(tx) < MAX_UI_CHANNEL_CAPACITY
  /\ tx' = Append(tx, [c |-> <<c>>, result |-> task[c].out])
  /\ answers' = [answers EXCEPT ![c] = Append(@, task[c].out)]
  /\ Move(c, [task[c] EXCEPT !.phase = "done", !.entry = <<>>, !.conn = <<>>])
  /\ permits' = permits + 1
  /\ UNCHANGED <<worker, rx, pool, lock, vault, clock, sent>>

UiReceives ==
  /\ tx # <<>> /\ tx' = Tail(tx)
  /\ UNCHANGED <<worker, rx, task, permits, pool, lock, vault, clock, answers, sent>>

-----------------------------------------------------------------------------
(* The vault *)

is_expired(entry) == entry.exp <= clock
check_scope(entry, method) == method \in entry.methods

\* load_valid_entry: what is read now is used after the next awaits.
LoadEntry(c, keyring_ok) ==
  LET entry == IF c.host \in DOMAIN vault THEN <<vault[c.host]>> ELSE <<>>
      loaded == [task[c] EXCEPT !.entry = entry, !.phase = IF task[c].attempt = 1 THEN "resolve" ELSE "lock"]
  IN  /\ task[c].phase = "load"
      /\ Move(c, CASE ~keyring_ok -> Fail(c, "Network")
                   [] keyring_ok /\ entry = <<>> -> loaded
                   [] keyring_ok /\ entry # <<>> /\ is_expired(entry[1]) -> [task[c] EXCEPT !.phase = "revoke"]
                   [] OTHER -> IF check_scope(entry[1], c.method) THEN loaded ELSE Fail(c, "SecurityViolation"))
      /\ UNCHANGED <<worker, rx, permits, pool, lock, vault, clock, tx, answers, sent>>

\* The expired entry is deleted by name, whatever the name holds by now.
RevokeEntry(c) ==
  /\ task[c].phase = "revoke"
  /\ vault' = Restrict(vault, DOMAIN vault \ {c.host})
  /\ Move(c, Fail(c, "SecurityViolation"))
  /\ UNCHANGED <<worker, rx, permits, pool, lock, clock, tx, answers, sent>>

\* Mutation: the server's scope is taken as it stands.
no_ceiling(grant, host) ==
  IF grant.exp = <<>> THEN Err("SecurityViolation")
  ELSE IF Min({grant.exp[1], clock + MAX_TOKEN_TTL_SECS}) <= clock THEN Err("SecurityViolation")
  ELSE Ok([owner |-> host, token |-> grant.token, methods |-> grant.scope,
           exp |-> Min({grant.exp[1], clock + MAX_TOKEN_TTL_SECS})])

process_mizu_auth_set(grant, host) ==
  LET exp == Min({grant.exp[1], clock + MAX_TOKEN_TTL_SECS})
      methods == grant.scope \cap PERMITTED_HTTP_METHODS
  IN  IF grant.exp = <<>> THEN Err("SecurityViolation")
      ELSE IF exp <= clock \/ methods = {} THEN Err("SecurityViolation")
      ELSE Ok([owner |-> host, token |-> grant.token, methods |-> methods, exp |-> exp])

-----------------------------------------------------------------------------
(* Resolution and the connection pool *)

Resolve(c, primary, opennic) ==
  LET ip == resolve_domain(HostInfo[c.host], primary, opennic, IsNavigation(c))
  IN  /\ task[c].phase = "resolve"
      /\ Move(c, IF ip.ok THEN [task[c] EXCEPT !.phase = "lock", !.addr = ip.v] ELSE Fail(c, ip.e))
      /\ UNCHANGED <<worker, rx, permits, pool, lock, vault, clock, tx, answers, sent>>

\* What make_room may keep: the entries in use lately, and of those the most
\* recently used, one fewer than fit.
make_room(p) ==
  LET live == {h \in DOMAIN p : clock - p[h].last_used < QUIC_MAX_IDLE_TIMEOUT}
  IN  {s \in SUBSET live :
         /\ Cardinality(s) = Min({Cardinality(live), MAX_POOL_SIZE - 1})
         /\ \A h \in s, g \in live \ s : p[g].last_used <= p[h].last_used}

\* get_or_connect up to the handshake: a cached connection is used as it is,
\* however long it was idle; else the map stays locked.
GetOrConnect(c) ==
  /\ task[c].phase = "lock" /\ lock = {}
  /\ \/ /\ c.host \in DOMAIN pool
        /\ pool' = [pool EXCEPT ![c.host].last_used = clock]
        /\ Move(c, [task[c] EXCEPT !.phase = "build", !.conn = <<pool[c.host].addr>>])
        /\ UNCHANGED lock
     \/ /\ c.host \notin DOMAIN pool
        /\ \E keep \in make_room(pool) : pool' = Restrict(pool, keep)
        /\ lock' = {c}
        /\ Move(c, [task[c] EXCEPT !.phase = "handshake"])
  /\ UNCHANGED <<worker, rx, permits, vault, clock, tx, answers, sent>>

\* Mutation: a handshake that fails keeps the map.
lock_leaks(c) == {c}

Unlocked(c) == {}

verify_negotiated_alpn(protocol) == IF protocol = "mizu/3" THEN Ok(protocol) ELSE Err("SecurityViolation")

\* The handshake fails or times out, or the server negotiates another ALPN, or
\* the connection enters the pool.
Handshake(c, protocol) ==
  LET verdict == IF protocol = "timeout" THEN Err("Network") ELSE verify_negotiated_alpn(protocol)
  IN  /\ task[c].phase = "handshake"
      /\ IF verdict.ok
         THEN /\ pool' = insert(pool, c.host, [addr |-> task[c].addr, last_used |-> clock])
              /\ lock' = {}
              /\ Move(c, [task[c] EXCEPT !.phase = "build", !.conn = <<task[c].addr>>])
         ELSE /\ lock' = Unlocked(c)
              /\ Move(c, AttemptFailed(c, verdict.e))
              /\ UNCHANGED pool
      /\ UNCHANGED <<worker, rx, permits, vault, clock, tx, answers, sent>>

\* evict, by name, whichever connection the name holds by now; the vault is
\* read again before the second attempt.
Evict(c) ==
  /\ task[c].phase = "evict" /\ lock = {}
  /\ pool' = Restrict(pool, DOMAIN pool \ {c.host})
  /\ Move(c, [task[c] EXCEPT !.phase = "load", !.attempt = 2, !.entry = <<>>, !.conn = <<>>])
  /\ UNCHANGED <<worker, rx, permits, lock, vault, clock, tx, answers, sent>>

-----------------------------------------------------------------------------
(* One request and its response *)

\* build_h3_request: a header value that is not wire-safe is an error of the
\* network class, after the connection was made.
BuildRequest(c) ==
  /\ task[c].phase = "build"
  /\ Move(c, IF c.headers_ok THEN [task[c] EXCEPT !.phase = "send"] ELSE AttemptFailed(c, "Network"))
  /\ UNCHANGED <<worker, rx, permits, pool, lock, vault, clock, tx, answers, sent>>

SendRequest(c, ok) ==
  /\ task[c].phase = "send"
  /\ Move(c, IF ok THEN [task[c] EXCEPT !.phase = "receive"] ELSE AttemptFailed(c, "Network"))
  /\ sent' = IF ~ok THEN sent
             ELSE [sent EXCEPT ![c] = <<[bearer |-> task[c].entry, addr |-> task[c].conn[1], hop |-> task[c].hop,
                                         attempt |-> task[c].attempt, got |-> "nothing"]>>]
  /\ UNCHANGED <<worker, rx, permits, pool, lock, vault, clock, tx, answers>>

Got(c, what) == sent' = [sent EXCEPT ![c][1].got = what]

check_response_body_budget(len) ==
  IF len > MAX_RESPONSE_BODY_BYTES THEN Err("SecurityViolation") ELSE Ok(len)

\* The stream breaks or the request times out, at any point of the exchange.
ReceiveNothing(c) ==
  /\ task[c].phase = "receive"
  /\ Move(c, AttemptFailed(c, "Network"))
  /\ UNCHANGED <<worker, rx, permits, pool, lock, vault, clock, tx, answers, sent>>

\* A response whose body does not fit, whatever its status.
ReceiveOversized(c, len) ==
  LET verdict == check_response_body_budget(len)
  IN  /\ task[c].phase = "receive" /\ ~verdict.ok
      /\ Move(c, AttemptFailed(c, verdict.e))
      /\ Got(c, "oversized")
      /\ UNCHANGED <<worker, rx, permits, pool, lock, vault, clock, tx, answers>>

\* 2xx: a Mizu-Auth-Set header is imported before the answer; a grant that is
\* refused fails the request.
ReceiveSuccess(c, grants, saved) ==
  LET entry == process_mizu_auth_set(grants[1], c.host)
      granted == grants # <<>> /\ entry.ok /\ saved
  IN  /\ task[c].phase = "receive"
      /\ Move(c, IF grants = <<>> \/ granted THEN Result(task[c], Success(c))
                 ELSE Fail(c, "SecurityViolation"))
      /\ vault' = IF granted THEN insert(vault, c.host, entry.v) ELSE vault
      /\ Got(c, "success")
      /\ UNCHANGED <<worker, rx, permits, pool, lock, clock, tx, answers>>

\* Mutation: a subresource follows wherever the server points.
follow_anywhere(c, target) == target # "none"

SameOrigin(c, target) == target = c.host

\* 3xx: a navigation hands the target back to the UI; a subresource follows it
\* on its own host, max_redirects times, or fails.  An empty target fails.
ReceiveRedirect(c, target) ==
  /\ task[c].phase = "receive"
  /\ Move(c, IF target = "none" THEN Fail(c, "Network")
             ELSE IF IsNavigation(c) THEN Result(task[c], "NavigationRedirect")
             ELSE IF ~SameOrigin(c, target) THEN Fail(c, "SecurityViolation")
             ELSE IF task[c].hop = max_redirects THEN Fail(c, "Network")
             ELSE [Idle EXCEPT !.phase = "load", !.hop = task[c].hop + 1])
  /\ sent' = [sent EXCEPT ![c][1].got = target]
  /\ UNCHANGED <<worker, rx, permits, pool, lock, vault, clock, tx, answers>>

\* 4xx and 5xx, and a body that is no image: an answer, never a retry.
ReceiveError(c) ==
  /\ task[c].phase = "receive"
  /\ Move(c, Fail(c, "Network"))
  /\ Got(c, "error")
  /\ UNCHANGED <<worker, rx, permits, pool, lock, vault, clock, tx, answers>>

-----------------------------------------------------------------------------
(* The environment *)

Tick ==
  /\ clock < MaxTime /\ clock' = clock + 1
  /\ UNCHANGED <<worker, rx, task, permits, pool, lock, vault, tx, answers, sent>>

-----------------------------------------------------------------------------
Step(c) ==
  \/ \E ok \in BOOLEAN : AcquirePermit(c, ok)
  \/ \E ok \in BOOLEAN : LoadEntry(c, ok)
  \/ RevokeEntry(c)
  \/ \E p, o \in DnsAnswers : Resolve(c, p, o)
  \/ GetOrConnect(c)
  \/ \E protocol \in {"timeout", "mizu/3", "h3"} : Handshake(c, protocol)
  \/ Evict(c)
  \/ BuildRequest(c)
  \/ \E ok \in BOOLEAN : SendRequest(c, ok)
  \/ ReceiveNothing(c) \/ ReceiveOversized(c, MAX_RESPONSE_BODY_BYTES + 1)
  \/ \E g \in {<<>>} \cup {<<x>> : x \in Grants}, saved \in BOOLEAN : ReceiveSuccess(c, g, saved)
  \/ \E target \in Hosts \cup {"none"} : ReceiveRedirect(c, target)
  \/ ReceiveError(c)
  \/ Answer(c)

NetNext ==
  \/ \E c \in Commands : Submit(c) \/ Step(c)
  \/ \E ok \in BOOLEAN : StartWorker(ok)
  \/ Dispatch \/ UiReceives \/ Tick

\* The runtime never stops while a task can run, every wait inside a task is
\* under a timeout, and the UI reads its channel.
WorkerRuns ==
  \/ \E ok \in BOOLEAN : StartWorker(ok)
  \/ Dispatch \/ UiReceives
  \/ \E c \in Commands : Step(c)

NetSpec == NetInit /\ [][NetNext]_netVars /\ WF_netVars(WorkerRuns)

-----------------------------------------------------------------------------
(* Properties *)

\* worker/mod.rs: a task that ended gave its command one answer, and holds
\* neither its permit nor the connection map.
OneAnswerEach ==
  LET Running == {c \in Commands : task[c].phase \notin {"never sent", "unsent", "sent", "permit", "done"}}
  IN  /\ \A c \in Commands : task[c].phase = "done" /\ c.kind \notin {"NetworkRequest", "StorageStore"} =>
           Len(answers[c]) = 1 /\ answers[c][1] # "none"
      /\ permits + Cardinality(Running) = MAX_CONCURRENT_FETCHES
      /\ \A c \in lock : task[c].phase = "handshake"

\* auth/mod.rs and vault/mod.rs: a bearer token is sent to the host that
\* granted it, for a method inside both the grant and the client's ceiling,
\* through redirects, retries and grants of other tasks.
TokensStayInScope ==
  \A c \in Commands : sent[c] # <<>> /\ sent[c][1].bearer # <<>> =>
    LET entry == sent[c][1].bearer[1]
    IN  entry.owner = c.host /\ c.method \in entry.methods /\ entry.methods \subseteq PERMITTED_HTTP_METHODS

\* fetch/mod.rs, invariant N1: a data call or an image never becomes a
\* navigation, follows no redirect off its host, and a bounded number on it.
SubresourcesStayOnHost ==
  [][\A c \in Commands : ~IsNavigation(c) =>
       /\ answers'[c] # <<"NavigationRedirect">>
       /\ sent'[c] # <<>> => sent'[c][1].hop <= max_redirects
       /\ sent[c] # <<>> /\ sent'[c][1].hop > sent[c][1].hop => sent[c][1].got = c.host]_netVars

\* fetch/mod.rs: a request is repeated at most once, and what a server has
\* answered, an oversized body included, is not asked again.
AnsweredIsNotRepeated ==
  [][\A c \in Commands : sent[c] # <<>> /\ sent'[c][1].got = "nothing" /\ sent'[c] # sent[c] =>
       \/ sent'[c][1].hop = sent[c][1].hop + 1
       \/ sent[c][1].got = "nothing" /\ sent[c][1].attempt = 1 /\ sent'[c][1].attempt = 2]_netVars

\* dns/mod.rs: every request travels to an address its host may have: a
\* document's own requests to public addresses or, for a loopback name, to this
\* machine, also on a connection that a navigation opened.
RequestsReachVettedAddresses ==
  \A c \in Commands : sent[c] # <<>> =>
    LET ip == sent[c][1].addr
        host == HostInfo[c.host]
    IN  /\ host.lit # <<>> => ip = host.lit[1]
        /\ \/ is_publicly_routable(ip)
           \/ host.local /\ is_loopback(ip)
           \/ host.lit # <<>> /\ IsNavigation(c)

\* security/network: a name never leads inward, in whichever notation the
\* resolver gives the address.
NamesNeverLeadInward ==
  \A c \in Commands : sent[c] # <<>> /\ HostInfo[c.host].lit = <<>> /\ ~HostInfo[c.host].local =>
    \A ip \in LocalAddresses : ~WrittenAs(sent[c][1].addr, ip)

\* dns/mod.rs: where a request may travel, by the code's own classification of
\* addresses and, for the local ones, by what they are.
RequestsStayOutside == RequestsReachVettedAddresses /\ NamesNeverLeadInward

\* h3_pool.rs: never more than MAX_POOL_SIZE connections, whichever tasks
\* insert and evict between the steps of a handshake.
PoolBounded == Cardinality(DOMAIN pool) <= MAX_POOL_SIZE

\* worker/mod.rs and h3_pool.rs: answers, permits, the lock and the pool are
\* accounted for between any two steps of the tasks.
NetworkInv == OneAnswerEach /\ PoolBounded

\* Every command of a worker that started is answered: no server, no handshake
\* and no full channel holds a permit or the map for ever.
EveryCommandAnswered ==
  <>[](worker = "dead" \/ \A c \in Commands : task[c].phase \in {"never sent", "unsent", "done"})

=============================================================================
