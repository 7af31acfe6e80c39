------------------------ MODULE NetworkWorkerProofs -------------------------
(***************************************************************************)
(* What the network worker guarantees for any commands, hosts, vaults,     *)
(* resolver answers and grants, and any interleaving of its tasks.         *)
(***************************************************************************)
EXTENDS NetworkWorker, FiniteSetTheorems, SequenceTheorems, TLAPS

-----------------------------------------------------------------------------
(* Addresses *)

\* Writing an address inside IPv6 and reading its octets back.
LEMMA OctetsReadBack ==
  ASSUME NEW a \in Octet, NEW b \in Octet, NEW lo
  PROVE  Octets(256 * a + b, lo)[1] = a /\ Octets(256 * a + b, lo)[2] = b
<1>1. a \in Int /\ 0 <= a /\ a <= 255 /\ b \in Int /\ 0 <= b /\ b <= 255 BY DEF Octet
<1>2. (256 * a + b) \div 256 = a /\ (256 * a + b) % 256 = b BY <1>1
<1> QED BY <1>2 DEF Octets

LEMMA LocalOctets ==
  ASSUME NEW ip \in LocalAddresses
  PROVE  ip[1] \in Octet /\ ip[1] # 0 /\ ip[2] \in Octet /\ Len(ip) = 4
<1>1. ip \in [1..4 -> Octet] BY LocalAddressesAssumption
<1>2. ip[1] \in Octet /\ ip[2] \in Octet BY <1>1
<1>3. ip[1] # 0 BY LocalAddressesAssumption
<1>4. Len(ip) = 4
  <2>1. SubSeq(ip, 1, 4) = [i \in 1..4 |-> ip[i]] OBVIOUS
  <2>2. SubSeq(ip, 1, 4) = ip BY <1>1, <2>1
  <2>3. Len(SubSeq(ip, 1, 4)) = 4 BY <1>1, SubSeqProperties
  <2> QED BY <2>2, <2>3
<1> QED BY <1>2, <1>3, <1>4

\* The classification of an IPv4 address needs its first two octets only.
LEMMA LocalIsNotPublic ==
  ASSUME NEW ip \in LocalAddresses, NEW x, x[1] = ip[1], x[2] = ip[2]
  PROVE  ~is_publicly_routable_v4(x)
<1>1. \/ x[1] = 10 \/ x[1] = 127 \/ (x[1] = 172 /\ x[2] \in 16..31)
      \/ (x[1] = 192 /\ x[2] = 168) \/ (x[1] = 169 /\ x[2] = 254)
  BY LocalAddressesAssumption
<1> QED BY <1>1, Zenon DEF is_publicly_routable_v4

LEMMA FirstSix ==
  ASSUME NEW a, NEW b, NEW c, NEW d, NEW e, NEW f, NEW g, NEW h
  PROVE  SubSeq(<<a, b, c, d, e, f, g, h>>, 1, 6) = <<a, b, c, d, e, f>>
<1> DEFINE x == <<a, b, c, d, e, f, g, h>>
<1>1. [i \in 1..6 |-> x[i]] = <<a, b, c, d, e, f>> OBVIOUS
<1>2. SubSeq(x, 1, 6) = [i \in 1..6 |-> x[i]] OBVIOUS
<1> QED BY <1>1, <1>2

\* No notation hides a local address from the classification.
LEMMA NotationsDoNotHide ==
  ASSUME NEW ip \in LocalAddresses, NEW addr, WrittenAs(addr, ip)
  PROVE  ~is_publicly_routable(addr)
<1> DEFINE hi == 256 * ip[1] + ip[2]
           lo == 256 * ip[3] + ip[4]
<1>1. ASSUME NEW x PROVE Octets(hi, x)[1] = ip[1] /\ Octets(hi, x)[2] = ip[2]
  BY LocalOctets, OctetsReadBack
<1>2. hi \in Int /\ hi # 0
  <2>1. ip[1] \in Int /\ ip[1] > 0 /\ ip[2] \in Int /\ ip[2] >= 0 BY LocalOctets DEF Octet
  <2> QED BY <2>1
<1> HIDE DEF hi, lo
<1>3. 65535 - (65535 - hi) = hi BY <1>2
<1>4. CASE addr = ip
  BY <1>4, LocalOctets, LocalIsNotPublic DEF is_publicly_routable, IsV4
<1>5. ASSUME Len(addr) = 8, NEW x, embedded_ipv4(addr) = Ok(Octets(hi, x))
      PROVE  ~is_publicly_routable(addr)
  BY <1>1, <1>5, LocalIsNotPublic DEF is_publicly_routable, is_publicly_routable_v6, IsV4, Ok
<1> DEFINE m == 65535
<1>6. m # 0 OBVIOUS
<1> HIDE DEF m
<1>7. CASE addr = <<0, 0, 0, 0, 0, m, hi, lo>> \/ addr = <<0, 0, 0, 0, 0, 0, hi, lo>>
  <2>1. Len(addr) = 8 /\ addr[1] = 0 /\ addr[7] = hi BY <1>7
  <2>2. SubSeq(addr, 1, 6) = <<0, 0, 0, 0, 0, m>> \/ SubSeq(addr, 1, 6) = <<0, 0, 0, 0, 0, 0>>
    BY <1>7, FirstSix
  <2>3. embedded_ipv4(addr) = Ok(Octets(addr[7], addr[8]))
    <3>1. CASE SubSeq(addr, 1, 6) = <<0, 0, 0, 0, 0, m>>
      BY <1>6, <2>1, <3>1 DEF embedded_ipv4, m
    <3>2. CASE SubSeq(addr, 1, 6) = <<0, 0, 0, 0, 0, 0>>
      BY <1>2, <1>6, <2>1, <3>2 DEF embedded_ipv4, m
    <3> QED BY <2>2, <3>1, <3>2
  <2> QED BY <2>1, <2>3, <1>5
<1>8. ASSUME addr[1] # 0, NEW x, SubSeq(addr, 1, 6) = <<0, 0, 0, 0, 0, x>> PROVE FALSE
  <2>1. 1 \in 1..6 - 1 + 1 /\ 1 + 1 - 1 = 1 OBVIOUS
  <2>2. SubSeq(addr, 1, 6)[1] = addr[1] BY <2>1, SubSeqProperties
  <2>3. <<0, 0, 0, 0, 0, x>>[1] = 0 OBVIOUS
  <2> QED BY <1>8, <2>2, <2>3
<1>9. CASE Len(addr) = 8 /\ <<addr[1], addr[2], addr[3]>> = <<8194, hi, lo>>
  <2>1. addr[1] = 8194 /\ addr[2] = hi BY <1>9
  <2>2. embedded_ipv4(addr) = Ok(Octets(addr[2], addr[3])) BY <2>1, <1>8 DEF embedded_ipv4
  <2> QED BY <2>1, <2>2, <1>5, <1>9
<1>10. CASE Len(addr) = 8 /\ <<addr[1], addr[2]>> = <<8193, 0>>
                          /\ <<addr[7], addr[8]>> = <<65535 - hi, 65535 - lo>>
  <2>1. addr[1] = 8193 /\ addr[2] = 0 /\ addr[7] = 65535 - hi BY <1>10
  <2>2. embedded_ipv4(addr) = Ok(Octets(65535 - addr[7], 65535 - addr[8]))
    BY <2>1, <1>8 DEF embedded_ipv4
  <2> QED BY <1>3, <2>1, <2>2, <1>5, <1>10
<1> QED BY <1>4, <1>7, <1>9, <1>10 DEF WrittenAs, hi, lo, m

-----------------------------------------------------------------------------
(* Hosts *)

May(c, ip) == authorize_resolved_address(HostInfo[c.host], ip, IsNavigation(c))

\* What resolve_domain returns has passed authorize_resolved_address.
LEMMA ResolvedIsAuthorised ==
  ASSUME NEW host, NEW p, NEW o, NEW allow, resolve_domain(host, p, o, allow).ok
  PROVE  authorize_resolved_address(host, resolve_domain(host, p, o, allow).v, allow)
<1>1. Err("SecurityViolation").ok = FALSE BY DEF Err
<1> QED BY <1>1 DEF resolve_domain

\* A connection that a navigation opened is fit for a task that resolved the
\* same host itself.
LEMMA PooledIsAuthorised ==
  ASSUME NEW c, NEW ip, NEW own, May(c, own),
         authorize_resolved_address(HostInfo[c.host], ip, TRUE)
  PROVE  May(c, ip)
BY DEF May, authorize_resolved_address

LEMMA AuthorisedForNavigation ==
  ASSUME NEW c, NEW ip, May(c, ip)
  PROVE  authorize_resolved_address(HostInfo[c.host], ip, TRUE)
BY DEF May, authorize_resolved_address

LEMMA AuthorisedIsVetted ==
  ASSUME NEW c, NEW ip, May(c, ip)
  PROVE  LET host == HostInfo[c.host]
         IN  /\ host.lit # <<>> => ip = host.lit[1]
             /\ \/ is_publicly_routable(ip)
                \/ host.local /\ is_loopback(ip)
                \/ host.lit # <<>> /\ IsNavigation(c)
             /\ host.lit = <<>> /\ ~host.local => is_publicly_routable(ip)
BY DEF May, authorize_resolved_address, is_local_host

-----------------------------------------------------------------------------
(* One command: its task t, its last request s, its answers a *)

Early == {"never sent", "unsent", "sent", "permit"}
Unsent == {"load", "revoke", "resolve", "lock", "handshake", "evict", "build", "send"}
Busy == Unsent \cup {"receive", "answer"}
Untasked == {"NetworkRequest", "StorageStore"}

Shape(t, s) ==
  /\ DOMAIN t = {"phase", "attempt", "hop", "entry", "addr", "conn", "out"}
  /\ t.phase \in Early \cup Busy \cup {"done"}
  /\ t.attempt \in {1, 2} /\ t.hop \in Nat /\ t.hop <= max_redirects
  /\ t.phase \in Early => s = <<>> /\ t.attempt = 1
  /\ s # <<>> => /\ s = <<s[1]>> /\ s[1].hop \in Nat /\ s[1].hop <= max_redirects
                 /\ s[1] = [bearer |-> s[1].bearer, addr |-> s[1].addr, hop |-> s[1].hop,
                            attempt |-> s[1].attempt, got |-> s[1].got]

Scoped(c, entry) ==
  entry.owner = c.host /\ c.method \in entry.methods /\ entry.methods \subseteq PERMITTED_HTTP_METHODS

\* The token a task holds, and the one it sent.
Tokens(c, t, s) ==
  /\ t.entry # <<>> => Scoped(c, t.entry[1])
  /\ s # <<>> /\ s[1].bearer # <<>> => Scoped(c, s[1].bearer[1])

\* The address a task resolved, also across its retry, the one its connection
\* goes to, and the one its request went to.
Addressed(c, t, s) ==
  /\ \/ t.phase \in {"lock", "handshake", "build", "send", "receive", "evict"}
     \/ t.phase \in {"load", "revoke"} /\ t.attempt = 2
     => May(c, t.addr)
  /\ t.phase \in {"build", "send"} => May(c, t.conn[1])
  /\ s # <<>> => May(c, s[1].addr)

\* A request that is out is the task's own; one that is being prepared follows
\* a redirect to the same host, or repeats a first attempt without an answer.
Hops(c, t, s) ==
  /\ t.phase = "receive" =>
       s # <<>> /\ s[1].hop = t.hop /\ s[1].attempt = t.attempt /\ s[1].got = "nothing"
  /\ s # <<>> => \/ s[1].hop = t.hop
                 \/ s[1].hop + 1 = t.hop /\ s[1].got = c.host
  /\ s # <<>> /\ s[1].hop = t.hop /\ t.phase \in Unsent =>
       s[1].got = "nothing" /\ s[1].attempt = 1 /\ (t.attempt = 2 \/ t.phase = "evict")

Answered(c, t, a) ==
  /\ c.kind \in Untasked => t.phase \in {"never sent", "unsent", "sent", "done"}
  /\ a = IF t.phase = "done" /\ c.kind \notin Untasked THEN <<t.out>> ELSE <<>>
  /\ t.phase = "answer" \/ (t.phase = "done" /\ c.kind \notin Untasked) => t.out # "none"
  /\ ~IsNavigation(c) => t.out # "NavigationRedirect"

CommandOk(c, t, s, a) ==
  Shape(t, s) /\ Tokens(c, t, s) /\ Addressed(c, t, s) /\ Hops(c, t, s) /\ Answered(c, t, a)

\* A task ends with a result.
LEMMA ResultOk ==
  ASSUME NEW c, NEW t, NEW s, NEW a, CommandOk(c, t, s, a), t.phase \in Busy \cup {"permit"},
         c.kind \notin Untasked, NEW out, out # "none", ~IsNavigation(c) => out # "NavigationRedirect"
  PROVE  CommandOk(c, Result(t, out), s, a)
<1> DEFINE n == Result(t, out)
<1>1. /\ DOMAIN n = DOMAIN t /\ n.phase = "answer" /\ n.out = out /\ n.attempt = t.attempt
      /\ n.hop = t.hop /\ n.entry = t.entry /\ n.addr = t.addr
  BY DEF CommandOk, Shape, Result
<1> HIDE DEF n
<1>2. Shape(n, s) BY <1>1 DEF CommandOk, Shape, Busy, Early, Unsent
<1>3. Tokens(c, n, s) BY <1>1 DEF CommandOk, Tokens
<1>4. Addressed(c, n, s) BY <1>1 DEF CommandOk, Addressed
<1>5. Hops(c, n, s) BY <1>1 DEF CommandOk, Hops, Unsent
<1>6. Answered(c, n, a) BY <1>1 DEF CommandOk, Answered, Busy, Unsent, Untasked
<1> QED BY <1>2, <1>3, <1>4, <1>5, <1>6 DEF CommandOk, n

LEMMA FailureIsAnswer ==
  ASSUME NEW c, NEW e
  PROVE  /\ Failure(c, e) # "none" /\ Failure(c, e) # "NavigationRedirect"
         /\ Success(c) # "none" /\ Success(c) # "NavigationRedirect"
BY DEF Failure, Success

\* A task goes on towards its request: what it holds is scoped and vetted.
LEMMA AdvanceOk ==
  ASSUME NEW c, NEW t, NEW s, NEW a, CommandOk(c, t, s, a), t.phase \in Unsent \ {"evict"},
         NEW n, DOMAIN n = DOMAIN t, n.attempt = t.attempt, n.hop = t.hop, n.out = t.out,
         n.phase \in Unsent, n.entry = t.entry \/ n.entry = <<>> \/ Scoped(c, n.entry[1]),
         Addressed(c, n, s)
  PROVE  CommandOk(c, n, s, a)
<1>1. Shape(n, s) BY DEF CommandOk, Shape, Busy, Early, Unsent
<1>2. Tokens(c, n, s) BY DEF CommandOk, Tokens
<1>3. Hops(c, n, s) BY DEF CommandOk, Hops, Unsent
<1>4. Answered(c, n, a) BY DEF CommandOk, Answered, Unsent, Untasked
<1> QED BY <1>1, <1>2, <1>3, <1>4 DEF CommandOk

\* The first attempt failed before or after its request went out.
LEMMA EvictOk ==
  ASSUME NEW c, NEW t, NEW s, NEW a, CommandOk(c, t, s, a), t.attempt = 1,
         t.phase \in {"handshake", "build", "send", "receive"}
  PROVE  CommandOk(c, [t EXCEPT !.phase = "evict"], s, a)
<1> DEFINE n == [t EXCEPT !.phase = "evict"]
<1>1. /\ DOMAIN n = DOMAIN t /\ n.phase = "evict" /\ n.out = t.out /\ n.attempt = t.attempt
      /\ n.hop = t.hop /\ n.entry = t.entry /\ n.addr = t.addr
  BY DEF CommandOk, Shape
<1> HIDE DEF n
<1>2. Shape(n, s) BY <1>1 DEF CommandOk, Shape, Busy, Early, Unsent
<1>3. Tokens(c, n, s) BY <1>1 DEF CommandOk, Tokens
<1>4. Addressed(c, n, s) BY <1>1 DEF CommandOk, Addressed
<1>5. Hops(c, n, s) BY <1>1 DEF CommandOk, Hops, Unsent
<1>6. Answered(c, n, a) BY <1>1 DEF CommandOk, Answered, Untasked
<1> QED BY <1>2, <1>3, <1>4, <1>5, <1>6 DEF CommandOk, n

LEMMA AttemptFailedOk ==
  ASSUME NEW c, NEW s, NEW a, CommandOk(c, task[c], s, a), NEW e,
         task[c].phase \in {"handshake", "build", "send", "receive"}
  PROVE  CommandOk(c, AttemptFailed(c, e), s, a)
<1>1. c.kind \notin Untasked BY DEF CommandOk, Answered, Untasked
<1>2. CommandOk(c, Fail(c, e), s, a)
  BY <1>1, ResultOk, FailureIsAnswer DEF Fail, Busy, Unsent
<1> QED BY <1>2, EvictOk DEF AttemptFailed

\* The server answered: the request is marked, and the task ends.
LEMMA GotOk ==
  ASSUME NEW c, NEW t, NEW s, NEW a, CommandOk(c, t, s, a), t.phase = "receive", NEW what
  PROVE  LET n == [s EXCEPT ![1].got = what]
         IN  /\ Shape(t, n) /\ Tokens(c, t, n) /\ Addressed(c, t, n)
             /\ n # <<>> /\ n[1].hop = t.hop /\ n[1].attempt = t.attempt /\ n[1].got = what
             /\ what = "nothing" => n = s
<1> DEFINE n == [s EXCEPT ![1].got = what]
           r == [bearer |-> s[1].bearer, addr |-> s[1].addr, hop |-> s[1].hop,
                 attempt |-> s[1].attempt, got |-> what]
<1>1. /\ s # <<>> /\ s = <<s[1]>> /\ s[1].hop = t.hop /\ s[1].attempt = t.attempt /\ s[1].got = "nothing"
      /\ s[1] = [bearer |-> s[1].bearer, addr |-> s[1].addr, hop |-> s[1].hop,
                 attempt |-> s[1].attempt, got |-> s[1].got]
  BY DEF CommandOk, Hops, Shape
<1>2. n = <<r>>
  <2>1. [s[1] EXCEPT !.got = what] = r BY <1>1
  <2>2. n = [s EXCEPT ![1] = [s[1] EXCEPT !.got = what]] OBVIOUS
  <2>3. \A x, y : [<<x>> EXCEPT ![1] = y] = <<y>> OBVIOUS
  <2> QED BY <1>1, <2>1, <2>2, <2>3
<1>3. /\ n # <<>> /\ n[1] = r /\ r.hop = t.hop /\ r.attempt = t.attempt /\ r.got = what
      /\ r.bearer = s[1].bearer /\ r.addr = s[1].addr
  BY <1>1, <1>2
<1>4. what = "nothing" => n = s BY <1>1, <1>2
<1>5. r = [bearer |-> r.bearer, addr |-> r.addr, hop |-> r.hop, attempt |-> r.attempt, got |-> r.got]
  OBVIOUS
<1> HIDE DEF n, r
<1>6. Shape(t, n) BY <1>2, <1>3, <1>5 DEF CommandOk, Shape, Early
<1>7. Tokens(c, t, n) BY <1>1, <1>3 DEF CommandOk, Tokens
<1>8. Addressed(c, t, n) BY <1>1, <1>3 DEF CommandOk, Addressed
<1> QED BY <1>3, <1>4, <1>6, <1>7, <1>8 DEF n

LEMMA GotResultOk ==
  ASSUME NEW c, NEW t, NEW s, NEW a, CommandOk(c, t, s, a), t.phase = "receive", NEW what,
         NEW out, out # "none", ~IsNavigation(c) => out # "NavigationRedirect"
  PROVE  CommandOk(c, Result(t, out), [s EXCEPT ![1].got = what], a)
<1> DEFINE n == Result(t, out)
           q == [s EXCEPT ![1].got = what]
<1>1. /\ DOMAIN n = DOMAIN t /\ n.phase = "answer" /\ n.out = out /\ n.attempt = t.attempt
      /\ n.hop = t.hop /\ n.entry = t.entry /\ n.addr = t.addr
  BY DEF CommandOk, Shape, Result
<1>2. Shape(t, q) /\ Tokens(c, t, q) /\ Addressed(c, t, q) /\ q # <<>> /\ q[1].hop = t.hop
  BY GotOk
<1> HIDE DEF n, q
<1>3. Shape(n, q) BY <1>1, <1>2 DEF CommandOk, Shape, Busy, Early, Unsent
<1>4. Tokens(c, n, q) BY <1>1, <1>2 DEF Tokens
<1>5. Addressed(c, n, q) BY <1>1, <1>2 DEF Addressed
<1>6. Hops(c, n, q) BY <1>1, <1>2 DEF Hops, Unsent
<1>7. Answered(c, n, a) BY <1>1 DEF CommandOk, Answered, Untasked
<1> QED BY <1>3, <1>4, <1>5, <1>6, <1>7 DEF CommandOk, n, q

-----------------------------------------------------------------------------
(* The worker *)

Commanded ==
  /\ DOMAIN task = Commands /\ DOMAIN sent = Commands /\ DOMAIN answers = Commands
  /\ \A c \in Commands : CommandOk(c, task[c], sent[c], answers[c])

\* A command waits in the channel once.
Queue ==
  /\ rx \in Seq(Commands)
  /\ \A i \in 1..Len(rx) : task[rx[i]].phase = "sent"
  /\ \A i, j \in 1..Len(rx) : rx[i] = rx[j] => i = j

Vaulted ==
  \A h \in DOMAIN vault : vault[h].owner = h /\ vault[h].methods \subseteq PERMITTED_HTTP_METHODS

Pooled ==
  \A h \in DOMAIN pool : authorize_resolved_address(HostInfo[h], pool[h].addr, TRUE)

\* The map is locked by the task in its handshake, and then has room for it.
Locked ==
  /\ IsFiniteSet(DOMAIN pool) /\ PoolBounded
  /\ \A c \in Commands : task[c].phase = "handshake" <=> c \in lock
  /\ lock # {} => \E c \in Commands : lock = {c} /\ Cardinality(DOMAIN pool) < MAX_POOL_SIZE

Holding == {c \in Commands : task[c].phase \in Busy}

Permits ==
  IsFiniteSet(Holding) /\ permits \in Int /\ permits + Cardinality(Holding) = MAX_CONCURRENT_FETCHES

NetIInv == Commanded /\ Queue /\ Vaulted /\ Pooled /\ Locked /\ Permits

-----------------------------------------------------------------------------
(* What a step of a task leaves of its command *)

Mine(c) == CommandOk(c, task[c], sent[c], answers[c])

LEMMA MoveFacts ==
  ASSUME Commanded, NEW c \in Commands, NEW n, Move(c, n)
  PROVE  DOMAIN task' = Commands /\ task'[c] = n /\ \A d \in Commands \ {c} : task'[d] = task[d]
BY DEF Commanded, Move

\* The other commands do not notice.
LEMMA OthersKept ==
  ASSUME Commanded, NEW c \in Commands, Mine(c)', DOMAIN task' = Commands,
         DOMAIN sent' = Commands, DOMAIN answers' = Commands,
         \A d \in Commands \ {c} : task'[d] = task[d] /\ sent'[d] = sent[d] /\ answers'[d] = answers[d]
  PROVE  Commanded'
<1> SUFFICES ASSUME NEW d \in Commands PROVE CommandOk(d, task'[d], sent'[d], answers'[d])
  BY DEF Commanded
<1>1. CASE d = c BY <1>1 DEF Mine
<1>2. CASE d # c BY <1>2 DEF Commanded
<1> QED BY <1>1, <1>2

LEMMA QuietMove ==
  ASSUME Commanded, NEW c \in Commands, NEW n, Move(c, n), UNCHANGED <<sent, answers>>,
         CommandOk(c, n, sent[c], answers[c])
  PROVE  Commanded'
<1>1. Mine(c)' BY MoveFacts DEF Mine
<1> QED BY <1>1, MoveFacts, OthersKept DEF Commanded

LEMMA AcquirePermitOk ==
  ASSUME Commanded, NEW c \in Commands, NEW ok \in BOOLEAN, AcquirePermit(c, ok)
  PROVE  Commanded' /\ task'[c].phase \in Busy /\ task'[c].phase # "handshake"
<1> DEFINE t == task[c]
           n == [t EXCEPT !.phase = "load"]
<1>1. CommandOk(c, t, sent[c], answers[c]) /\ t.phase = "permit" BY DEF Commanded, AcquirePermit
<1>2. UNCHANGED <<sent, answers>> BY DEF AcquirePermit
<1>3. c.kind \notin Untasked BY <1>1 DEF CommandOk, Answered, Untasked
<1>4. PICK m : /\ Move(c, m)
               /\ \/ m = n
                  \/ \E out \in {Success(c), Failure(c, "IoError"), "Error"} : m = Result(t, out)
  BY DEF AcquirePermit
<1>5. CASE m = n
  <2>1. /\ DOMAIN n = DOMAIN t /\ n.phase = "load" /\ n.out = t.out /\ n.attempt = t.attempt
        /\ n.hop = t.hop /\ n.entry = t.entry /\ n.addr = t.addr /\ sent[c] = <<>>
    BY <1>1 DEF CommandOk, Shape, Early
  <2> HIDE DEF n
  <2>2. Shape(n, <<>>) /\ Tokens(c, n, <<>>)
    BY <1>1, <2>1 DEF CommandOk, Shape, Tokens, Busy, Early, Unsent
  <2>3. Addressed(c, n, <<>>) /\ Hops(c, n, <<>>)
    BY <1>1, <2>1 DEF CommandOk, Shape, Addressed, Hops, Early, Unsent
  <2>4. Answered(c, n, answers[c]) BY <1>1, <1>3, <2>1 DEF CommandOk, Answered
  <2>5. CommandOk(c, n, sent[c], answers[c]) BY <2>1, <2>2, <2>3, <2>4 DEF CommandOk
  <2> QED BY <1>2, <1>4, <1>5, <2>1, <2>5, QuietMove, MoveFacts DEF Busy, Unsent
<1>6. ASSUME NEW out \in {Success(c), Failure(c, "IoError"), "Error"}, m = Result(t, out)
      PROVE  Commanded' /\ task'[c].phase \in Busy /\ task'[c].phase # "handshake"
  <2>1. CommandOk(c, m, sent[c], answers[c])
    BY <1>1, <1>3, <1>6, ResultOk, FailureIsAnswer DEF Busy
  <2>2. m.phase = "answer" BY <1>1, <1>6 DEF Result, CommandOk, Shape
  <2> QED BY <1>2, <1>4, <2>1, <2>2, QuietMove, MoveFacts DEF Busy
<1> QED BY <1>4, <1>5, <1>6

\* Every other step of a task but Answer keeps its permit.
LEMMA LoadEntryOk ==
  ASSUME Commanded, Vaulted, NEW c \in Commands, NEW ok \in BOOLEAN, LoadEntry(c, ok)
  PROVE  Commanded' /\ task'[c].phase \in Busy /\ task'[c].phase # "handshake"
<1> DEFINE t == task[c]
           entry == IF c.host \in DOMAIN vault THEN <<vault[c.host]>> ELSE <<>>
           loaded == [t EXCEPT !.entry = entry, !.phase = IF t.attempt = 1 THEN "resolve" ELSE "lock"]
           revoke == [t EXCEPT !.phase = "revoke"]
<1>1. CommandOk(c, t, sent[c], answers[c]) /\ t.phase = "load" BY DEF Commanded, LoadEntry
<1>2. UNCHANGED <<sent, answers>> BY DEF LoadEntry
<1>3. c.kind \notin Untasked BY <1>1 DEF CommandOk, Answered, Untasked
<1>4. PICK m : /\ Move(c, m)
               /\ \/ m = loaded /\ (entry # <<>> => check_scope(entry[1], c.method))
                  \/ m = revoke
                  \/ \E e : m = Result(t, Failure(c, e))
  BY DEF LoadEntry, Fail
<1>5. CASE m = loaded /\ (entry # <<>> => check_scope(entry[1], c.method))
  <2>1. /\ DOMAIN loaded = DOMAIN t /\ loaded.out = t.out /\ loaded.attempt = t.attempt
        /\ loaded.hop = t.hop /\ loaded.entry = entry /\ loaded.addr = t.addr
        /\ loaded.phase = IF t.attempt = 1 THEN "resolve" ELSE "lock"
    BY <1>1 DEF CommandOk, Shape
  <2>2. entry # <<>> => Scoped(c, entry[1]) BY <1>5 DEF Vaulted, Scoped, check_scope
  <2> HIDE DEF loaded, entry
  <2>3. Addressed(c, loaded, sent[c]) BY <1>1, <2>1 DEF CommandOk, Shape, Addressed
  <2>4. CommandOk(c, loaded, sent[c], answers[c])
    BY <1>1, <2>1, <2>2, <2>3, AdvanceOk DEF Unsent
  <2> QED BY <1>2, <1>4, <1>5, <2>1, <2>4, QuietMove, MoveFacts DEF Busy, Unsent
<1>6. CASE m = revoke
  <2>1. /\ DOMAIN revoke = DOMAIN t /\ revoke.out = t.out /\ revoke.attempt = t.attempt
        /\ revoke.hop = t.hop /\ revoke.entry = t.entry /\ revoke.addr = t.addr /\ revoke.phase = "revoke"
    BY <1>1 DEF CommandOk, Shape
  <2> HIDE DEF revoke
  <2>2. Addressed(c, revoke, sent[c]) BY <1>1, <2>1 DEF CommandOk, Shape, Addressed
  <2>3. CommandOk(c, revoke, sent[c], answers[c])
    BY <1>1, <2>1, <2>2, AdvanceOk DEF Unsent
  <2> QED BY <1>2, <1>4, <1>6, <2>1, <2>3, QuietMove, MoveFacts DEF Busy, Unsent
<1>7. ASSUME NEW e, m = Result(t, Failure(c, e))
      PROVE  Commanded' /\ task'[c].phase \in Busy /\ task'[c].phase # "handshake"
  <2>1. CommandOk(c, m, sent[c], answers[c])
    BY <1>1, <1>3, <1>7, ResultOk, FailureIsAnswer DEF Busy, Unsent
  <2>2. m.phase = "answer" BY <1>1, <1>7 DEF Result, CommandOk, Shape
  <2> QED BY <1>2, <1>4, <2>1, <2>2, QuietMove, MoveFacts DEF Busy
<1> QED BY <1>4, <1>5, <1>6, <1>7

\* A task that fails without an answer of a server.
LEMMA FailOk ==
  ASSUME Commanded, NEW c \in Commands, task[c].phase \in Busy, NEW e, Move(c, Fail(c, e)),
         UNCHANGED <<sent, answers>>
  PROVE  Commanded' /\ task'[c].phase = "answer"
<1>1. CommandOk(c, task[c], sent[c], answers[c]) BY DEF Commanded
<1>2. c.kind \notin Untasked BY <1>1 DEF CommandOk, Answered, Busy, Unsent, Untasked
<1>3. CommandOk(c, Fail(c, e), sent[c], answers[c])
  BY <1>1, <1>2, ResultOk, FailureIsAnswer DEF Fail
<1>4. Fail(c, e).phase = "answer" BY <1>1 DEF Fail, Result, CommandOk, Shape
<1> QED BY <1>3, <1>4, QuietMove, MoveFacts

LEMMA RetryOk ==
  ASSUME Commanded, NEW c \in Commands, task[c].phase \in {"handshake", "build", "send", "receive"},
         NEW e, Move(c, AttemptFailed(c, e)), UNCHANGED <<sent, answers>>
  PROVE  Commanded' /\ task'[c].phase \in {"evict", "answer"}
<1>1. CommandOk(c, task[c], sent[c], answers[c]) BY DEF Commanded
<1>2. CommandOk(c, AttemptFailed(c, e), sent[c], answers[c]) BY <1>1, AttemptFailedOk
<1>3. AttemptFailed(c, e).phase \in {"evict", "answer"}
  BY <1>1 DEF AttemptFailed, Fail, Result, CommandOk, Shape
<1> QED BY <1>2, <1>3, QuietMove, MoveFacts

LEMMA ResolveOk ==
  ASSUME Commanded, NEW c \in Commands, NEW p, NEW o, Resolve(c, p, o)
  PROVE  Commanded' /\ task'[c].phase \in {"lock", "answer"}
<1> DEFINE t == task[c]
           ip == resolve_domain(HostInfo[c.host], p, o, IsNavigation(c))
           n == [t EXCEPT !.phase = "lock", !.addr = ip.v]
<1>1. CommandOk(c, t, sent[c], answers[c]) /\ t.phase = "resolve" BY DEF Commanded, Resolve
<1>2. UNCHANGED <<sent, answers>> BY DEF Resolve
<1>3. CASE ip.ok
  <2>1. Move(c, n) BY <1>3 DEF Resolve
  <2>2. May(c, ip.v) BY <1>3, ResolvedIsAuthorised DEF May
  <2>3. /\ DOMAIN n = DOMAIN t /\ n.out = t.out /\ n.attempt = t.attempt
        /\ n.hop = t.hop /\ n.entry = t.entry /\ n.addr = ip.v /\ n.phase = "lock"
    BY <1>1 DEF CommandOk, Shape
  <2> HIDE DEF n, ip
  <2>4. Addressed(c, n, sent[c]) BY <1>1, <2>2, <2>3 DEF CommandOk, Addressed
  <2>5. CommandOk(c, n, sent[c], answers[c]) BY <1>1, <2>3, <2>4, AdvanceOk DEF Unsent
  <2> QED BY <1>2, <2>1, <2>3, <2>5, QuietMove, MoveFacts
<1>4. CASE ~ip.ok
  <2>1. Move(c, Fail(c, ip.e)) BY <1>4 DEF Resolve
  <2> QED BY <1>1, <1>2, <2>1, FailOk DEF Busy, Unsent
<1> QED BY <1>3, <1>4

\* A pooled connection is fit for the task, because the task resolved its host.
LEMMA GetOrConnectOk ==
  ASSUME Commanded, Pooled, NEW c \in Commands, GetOrConnect(c)
  PROVE  /\ Commanded'
         /\ \/ task'[c].phase = "build" /\ c.host \in DOMAIN pool
            \/ task'[c].phase = "handshake" /\ c.host \notin DOMAIN pool
<1> DEFINE t == task[c]
           n == [t EXCEPT !.phase = "build", !.conn = <<pool[c.host].addr>>]
           h == [t EXCEPT !.phase = "handshake"]
<1>1. CommandOk(c, t, sent[c], answers[c]) /\ t.phase = "lock" BY DEF Commanded, GetOrConnect
<1>2. UNCHANGED <<sent, answers>> BY DEF GetOrConnect
<1>3. May(c, t.addr) BY <1>1 DEF CommandOk, Addressed
<1>4. CASE c.host \in DOMAIN pool
  <2>1. Move(c, n) BY <1>4 DEF GetOrConnect
  <2>2. May(c, pool[c.host].addr) BY <1>3, <1>4, PooledIsAuthorised DEF Pooled
  <2>3. /\ DOMAIN n = DOMAIN t /\ n.out = t.out /\ n.attempt = t.attempt /\ n.hop = t.hop
        /\ n.entry = t.entry /\ n.addr = t.addr /\ n.phase = "build" /\ n.conn = <<pool[c.host].addr>>
    BY <1>1 DEF CommandOk, Shape
  <2> HIDE DEF n
  <2>4. Addressed(c, n, sent[c]) BY <1>1, <1>3, <2>2, <2>3 DEF CommandOk, Addressed
  <2>5. CommandOk(c, n, sent[c], answers[c]) BY <1>1, <2>3, <2>4, AdvanceOk DEF Unsent
  <2> QED BY <1>2, <1>4, <2>1, <2>3, <2>5, QuietMove, MoveFacts
<1>5. CASE c.host \notin DOMAIN pool
  <2>1. Move(c, h) BY <1>5 DEF GetOrConnect
  <2>2. /\ DOMAIN h = DOMAIN t /\ h.out = t.out /\ h.attempt = t.attempt /\ h.hop = t.hop
        /\ h.entry = t.entry /\ h.addr = t.addr /\ h.phase = "handshake"
    BY <1>1 DEF CommandOk, Shape
  <2> HIDE DEF h
  <2>3. Addressed(c, h, sent[c]) BY <1>1, <1>3, <2>2 DEF CommandOk, Addressed
  <2>4. CommandOk(c, h, sent[c], answers[c]) BY <1>1, <2>2, <2>3, AdvanceOk DEF Unsent
  <2> QED BY <1>2, <1>5, <2>1, <2>2, <2>4, QuietMove, MoveFacts
<1> QED BY <1>4, <1>5

LEMMA HandshakeOk ==
  ASSUME Commanded, NEW c \in Commands, NEW protocol, Handshake(c, protocol)
  PROVE  /\ Commanded' /\ task'[c].phase \in {"build", "evict", "answer"}
         /\ task[c].phase = "handshake" /\ May(c, task[c].addr)
<1> DEFINE t == task[c]
           verdict == IF protocol = "timeout" THEN Err("Network") ELSE verify_negotiated_alpn(protocol)
           n == [t EXCEPT !.phase = "build", !.conn = <<t.addr>>]
<1>1. CommandOk(c, t, sent[c], answers[c]) /\ t.phase = "handshake" BY DEF Commanded, Handshake
<1>2. UNCHANGED <<sent, answers>> BY DEF Handshake
<1>3. May(c, t.addr) BY <1>1 DEF CommandOk, Addressed
<1>4. CASE verdict.ok
  <2>1. Move(c, n) BY <1>4 DEF Handshake
  <2>2. /\ DOMAIN n = DOMAIN t /\ n.out = t.out /\ n.attempt = t.attempt /\ n.hop = t.hop
        /\ n.entry = t.entry /\ n.addr = t.addr /\ n.phase = "build" /\ n.conn = <<t.addr>>
    BY <1>1 DEF CommandOk, Shape
  <2> HIDE DEF n
  <2>3. Addressed(c, n, sent[c]) BY <1>1, <1>3, <2>2 DEF CommandOk, Addressed
  <2>4. CommandOk(c, n, sent[c], answers[c]) BY <1>1, <2>2, <2>3, AdvanceOk DEF Unsent
  <2> QED BY <1>1, <1>2, <1>3, <2>1, <2>2, <2>4, QuietMove, MoveFacts
<1>5. CASE ~verdict.ok
  <2>1. Move(c, AttemptFailed(c, verdict.e)) BY <1>5 DEF Handshake
  <2> QED BY <1>1, <1>2, <1>3, <2>1, RetryOk
<1> QED BY <1>4, <1>5

\* The retry keeps the address, and starts again from the vault.
LEMMA EvictStepOk ==
  ASSUME Commanded, NEW c \in Commands, Evict(c)
  PROVE  Commanded' /\ task'[c].phase = "load"
<1> DEFINE t == task[c]
           s == sent[c]
           n == [t EXCEPT !.phase = "load", !.attempt = 2, !.entry = <<>>, !.conn = <<>>]
<1>1. CommandOk(c, t, s, answers[c]) /\ t.phase = "evict" /\ Move(c, n) BY DEF Commanded, Evict
<1>2. UNCHANGED <<sent, answers>> BY DEF Evict
<1>3. /\ DOMAIN n = DOMAIN t /\ n.out = t.out /\ n.attempt = 2 /\ n.hop = t.hop
      /\ n.entry = <<>> /\ n.addr = t.addr /\ n.phase = "load"
  BY <1>1 DEF CommandOk, Shape
<1> HIDE DEF n
<1>4. Shape(n, s) /\ Tokens(c, n, s)
  BY <1>1, <1>3 DEF CommandOk, Shape, Tokens, Busy, Early, Unsent
<1>5. Addressed(c, n, s) BY <1>1, <1>3 DEF CommandOk, Addressed
<1>6. Hops(c, n, s) BY <1>1, <1>3 DEF CommandOk, Hops, Unsent
<1>7. Answered(c, n, answers[c]) BY <1>1, <1>3 DEF CommandOk, Answered, Untasked
<1>8. CommandOk(c, n, s, answers[c]) BY <1>4, <1>5, <1>6, <1>7 DEF CommandOk
<1> QED BY <1>1, <1>2, <1>3, <1>8, QuietMove, MoveFacts

LEMMA BuildRequestOk ==
  ASSUME Commanded, NEW c \in Commands, BuildRequest(c)
  PROVE  Commanded' /\ task'[c].phase \in {"send", "evict", "answer"}
<1> DEFINE t == task[c]
           n == [t EXCEPT !.phase = "send"]
<1>1. CommandOk(c, t, sent[c], answers[c]) /\ t.phase = "build" BY DEF Commanded, BuildRequest
<1>2. UNCHANGED <<sent, answers>> BY DEF BuildRequest
<1>3. CASE Move(c, n)
  <2>1. /\ DOMAIN n = DOMAIN t /\ n.out = t.out /\ n.attempt = t.attempt /\ n.hop = t.hop
        /\ n.entry = t.entry /\ n.addr = t.addr /\ n.phase = "send" /\ n.conn = t.conn
    BY <1>1 DEF CommandOk, Shape
  <2> HIDE DEF n
  <2>2. Addressed(c, n, sent[c]) BY <1>1, <2>1 DEF CommandOk, Addressed
  <2>3. CommandOk(c, n, sent[c], answers[c]) BY <1>1, <2>1, <2>2, AdvanceOk DEF Unsent
  <2> QED BY <1>2, <1>3, <2>1, <2>3, QuietMove, MoveFacts
<1>4. CASE Move(c, AttemptFailed(c, "Network")) BY <1>1, <1>2, <1>4, RetryOk
<1> QED BY <1>3, <1>4 DEF BuildRequest

\* The request carries what the task holds, on the connection it was given.
LEMMA SendRequestOk ==
  ASSUME Commanded, NEW c \in Commands, NEW ok \in BOOLEAN, SendRequest(c, ok)
  PROVE  Commanded' /\ task'[c].phase \in {"receive", "evict", "answer"}
<1> DEFINE t == task[c]
           n == [t EXCEPT !.phase = "receive"]
           r == [bearer |-> t.entry, addr |-> t.conn[1], hop |-> t.hop, attempt |-> t.attempt, got |-> "nothing"]
<1>1. CommandOk(c, t, sent[c], answers[c]) /\ t.phase = "send" BY DEF Commanded, SendRequest
<1>2. answers' = answers BY DEF SendRequest
<1>3. CASE ok
  <2>1. Move(c, n) /\ sent' = [sent EXCEPT ![c] = <<r>>] BY <1>3 DEF SendRequest
  <2>2. /\ DOMAIN n = DOMAIN t /\ n.out = t.out /\ n.attempt = t.attempt /\ n.hop = t.hop
        /\ n.entry = t.entry /\ n.addr = t.addr /\ n.phase = "receive"
    BY <1>1 DEF CommandOk, Shape
  <2>3. /\ r.bearer = t.entry /\ r.addr = t.conn[1] /\ r.hop = t.hop /\ r.attempt = t.attempt
        /\ r.got = "nothing"
        /\ r = [bearer |-> r.bearer, addr |-> r.addr, hop |-> r.hop, attempt |-> r.attempt, got |-> r.got]
    OBVIOUS
  <2> HIDE DEF n, r
  <2>4. Shape(n, <<r>>) BY <1>1, <2>2, <2>3 DEF CommandOk, Shape, Busy, Early
  <2>5. Tokens(c, n, <<r>>) BY <1>1, <2>2, <2>3 DEF CommandOk, Tokens
  <2>6. Addressed(c, n, <<r>>) BY <1>1, <2>2, <2>3 DEF CommandOk, Addressed
  <2>7. Hops(c, n, <<r>>) BY <2>2, <2>3 DEF Hops, Unsent
  <2>8. Answered(c, n, answers[c]) BY <1>1, <2>2 DEF CommandOk, Answered, Untasked
  <2>9. DOMAIN sent' = Commands /\ sent'[c] = <<r>> /\ \A d \in Commands \ {c} : sent'[d] = sent[d]
    BY <2>1 DEF Commanded
  <2>10. Mine(c)' BY <1>2, <2>1, <2>4, <2>5, <2>6, <2>7, <2>8, <2>9, MoveFacts DEF Mine, CommandOk
  <2> QED BY <1>2, <2>1, <2>2, <2>9, <2>10, MoveFacts, OthersKept DEF Commanded
<1>4. CASE ~ok
  <2>1. Move(c, AttemptFailed(c, "Network")) /\ sent' = sent BY <1>4 DEF SendRequest
  <2> QED BY <1>1, <1>2, <2>1, RetryOk
<1> QED BY <1>3, <1>4

\* An answer of the server ends the task.
LEMMA ReceivedOk ==
  ASSUME Commanded, NEW c \in Commands, task[c].phase = "receive", NEW what, NEW out,
         out # "none", ~IsNavigation(c) => out # "NavigationRedirect",
         Move(c, Result(task[c], out)), sent' = [sent EXCEPT ![c][1].got = what], answers' = answers
  PROVE  Commanded' /\ task'[c].phase = "answer"
<1> DEFINE s == sent[c]
           q == [s EXCEPT ![1].got = what]
<1>1. CommandOk(c, task[c], s, answers[c]) BY DEF Commanded
<1>2. sent' = [sent EXCEPT ![c] = q] OBVIOUS
<1> HIDE DEF q
<1>3. DOMAIN sent' = Commands /\ sent'[c] = q /\ \A d \in Commands \ {c} : sent'[d] = sent[d]
  BY <1>2 DEF Commanded
<1>4. CommandOk(c, Result(task[c], out), q, answers[c]) BY <1>1, GotResultOk DEF q
<1>5. Mine(c)' BY <1>3, <1>4, MoveFacts DEF Mine
<1>6. Result(task[c], out).phase = "answer" BY <1>1 DEF Result, CommandOk, Shape
<1> QED BY <1>3, <1>5, <1>6, MoveFacts, OthersKept DEF Commanded

LEMMA ReceiveOversizedOk ==
  ASSUME Commanded, NEW c \in Commands, NEW len, ReceiveOversized(c, len)
  PROVE  Commanded' /\ task'[c].phase = "answer"
<1>1. check_response_body_budget(len).e = "SecurityViolation"
  BY DEF ReceiveOversized, check_response_body_budget, Ok, Err
<1>2. Move(c, Result(task[c], Failure(c, "SecurityViolation")))
  BY <1>1 DEF ReceiveOversized, AttemptFailed, Fail
<1> QED BY <1>2, ReceivedOk, FailureIsAnswer DEF ReceiveOversized, Got

LEMMA ReceiveSuccessOk ==
  ASSUME Commanded, NEW c \in Commands, NEW grants, NEW saved, ReceiveSuccess(c, grants, saved)
  PROVE  Commanded' /\ task'[c].phase = "answer"
<1>1. PICK out \in {Success(c), Failure(c, "SecurityViolation")} : Move(c, Result(task[c], out))
  BY DEF ReceiveSuccess, Fail
<1> QED BY <1>1, ReceivedOk, FailureIsAnswer DEF ReceiveSuccess, Got

LEMMA ReceiveErrorOk ==
  ASSUME Commanded, NEW c \in Commands, ReceiveError(c)
  PROVE  Commanded' /\ task'[c].phase = "answer"
BY ReceivedOk, FailureIsAnswer DEF ReceiveError, Fail, Got

\* A redirect that is followed: to the same host, within the limit, from the
\* start, the resolution included.
LEMMA ReceiveRedirectOk ==
  ASSUME Commanded, NEW c \in Commands, NEW target, ReceiveRedirect(c, target)
  PROVE  Commanded' /\ task'[c].phase \in {"load", "answer"}
<1> DEFINE t == task[c]
           s == sent[c]
           n == [Idle EXCEPT !.phase = "load", !.hop = t.hop + 1]
           q == [s EXCEPT ![1].got = target]
<1>1. CommandOk(c, t, s, answers[c]) /\ t.phase = "receive" BY DEF Commanded, ReceiveRedirect
<1>2. answers' = answers /\ sent' = [sent EXCEPT ![c][1].got = target] BY DEF ReceiveRedirect
<1>3. \/ \E out : /\ out # "none" /\ (~IsNavigation(c) => out # "NavigationRedirect")
                  /\ Move(c, Result(t, out))
      \/ Move(c, n) /\ SameOrigin(c, target) /\ t.hop # max_redirects
  BY FailureIsAnswer DEF ReceiveRedirect, Fail
<1>4. ASSUME NEW out, out # "none", ~IsNavigation(c) => out # "NavigationRedirect", Move(c, Result(t, out))
      PROVE  Commanded' /\ task'[c].phase = "answer"
  BY <1>1, <1>2, <1>4, ReceivedOk
<1>5. CASE Move(c, n) /\ SameOrigin(c, target) /\ t.hop # max_redirects
  <2>1. /\ DOMAIN n = {"phase", "attempt", "hop", "entry", "addr", "conn", "out"}
        /\ n.phase = "load" /\ n.attempt = 1 /\ n.hop = t.hop + 1 /\ n.entry = <<>> /\ n.out = "none"
    BY DEF Idle
  <2>2. sent' = [sent EXCEPT ![c] = q] BY <1>2
  <2>3. /\ Shape(t, q) /\ Tokens(c, t, q) /\ Addressed(c, t, q)
        /\ q # <<>> /\ q[1].hop = t.hop /\ q[1].got = target
    BY <1>1, GotOk
  <2> HIDE DEF n, q
  <2>4. Shape(n, q) BY <1>1, <1>5, <2>1, <2>3, NetworkAssumption DEF CommandOk, Shape, Busy, Early, Unsent
  <2>5. Tokens(c, n, q) BY <2>1, <2>3 DEF Tokens
  <2>6. Addressed(c, n, q) BY <2>1, <2>3 DEF Addressed
  <2>7. Hops(c, n, q)
    <3>1. t.hop \in Nat BY <1>1 DEF CommandOk, Shape
    <3> QED BY <1>5, <2>1, <2>3, <3>1 DEF Hops, SameOrigin
  <2>8. Answered(c, n, answers[c]) BY <1>1, <2>1 DEF CommandOk, Answered, Untasked
  <2>9. DOMAIN sent' = Commands /\ sent'[c] = q /\ \A d \in Commands \ {c} : sent'[d] = sent[d]
    BY <2>2 DEF Commanded
  <2>10. Mine(c)' BY <1>2, <1>5, <2>4, <2>5, <2>6, <2>7, <2>8, <2>9, MoveFacts DEF Mine, CommandOk
  <2>11. /\ DOMAIN task' = Commands /\ task'[c] = n
         /\ \A d \in Commands \ {c} : task'[d] = task[d]
    BY <1>5, MoveFacts
  <2>12. Commanded' BY <1>2, <2>9, <2>10, <2>11, OthersKept DEF Commanded
  <2> QED BY <2>1, <2>11, <2>12
<1> QED BY <1>3, <1>4, <1>5

LEMMA AnswerOk ==
  ASSUME Commanded, NEW c \in Commands, Answer(c)
  PROVE  Commanded' /\ task'[c].phase = "done"
<1> DEFINE t == task[c]
           n == [t EXCEPT !.phase = "done", !.entry = <<>>, !.conn = <<>>]
<1>1. CommandOk(c, t, sent[c], answers[c]) /\ t.phase = "answer" /\ Move(c, n) /\ sent' = sent
  BY DEF Commanded, Answer
<1>2. /\ DOMAIN n = DOMAIN t /\ n.out = t.out /\ n.attempt = t.attempt /\ n.hop = t.hop
      /\ n.entry = <<>> /\ n.addr = t.addr /\ n.phase = "done"
  BY <1>1 DEF CommandOk, Shape
<1> HIDE DEF n
<1>3. answers[c] = <<>> /\ c.kind \notin Untasked BY <1>1 DEF CommandOk, Answered, Untasked
<1>4. /\ DOMAIN answers' = Commands /\ answers'[c] = <<t.out>>
      /\ \A d \in Commands \ {c} : answers'[d] = answers[d]
  <2>1. answers' = [answers EXCEPT ![c] = Append(answers[c], t.out)] BY DEF Answer
  <2>2. Append(<<>>, t.out) = <<t.out>> OBVIOUS
  <2> QED BY <1>3, <2>1, <2>2 DEF Commanded
<1>5. Shape(n, sent[c]) /\ Tokens(c, n, sent[c])
  BY <1>1, <1>2 DEF CommandOk, Shape, Tokens, Early, Busy, Unsent
<1>6. Addressed(c, n, sent[c]) /\ Hops(c, n, sent[c])
  BY <1>1, <1>2 DEF CommandOk, Addressed, Hops, Unsent
<1>7. Answered(c, n, answers'[c]) BY <1>1, <1>2, <1>3, <1>4 DEF CommandOk, Answered
<1>8. Mine(c)' BY <1>1, <1>5, <1>6, <1>7, MoveFacts DEF Mine, CommandOk
<1> QED BY <1>1, <1>2, <1>4, <1>8, MoveFacts, OthersKept DEF Commanded

LEMMA SubmitOk ==
  ASSUME Commanded, NEW c \in Commands, Submit(c)
  PROVE  /\ Commanded' /\ task'[c].phase = "sent"
         /\ \A d \in Commands \ {c} : task'[d] = task[d]
<1> DEFINE t == task[c]
           n == [t EXCEPT !.phase = "sent"]
<1>1. CommandOk(c, t, sent[c], answers[c]) /\ t.phase = "unsent" /\ Move(c, n) /\ UNCHANGED <<sent, answers>>
  BY DEF Commanded, Submit, Move
<1>2. /\ DOMAIN n = DOMAIN t /\ n.out = t.out /\ n.attempt = t.attempt /\ n.hop = t.hop
      /\ n.entry = t.entry /\ n.addr = t.addr /\ n.phase = "sent"
  BY <1>1 DEF CommandOk, Shape
<1> HIDE DEF n
<1>3. Shape(n, sent[c]) /\ Tokens(c, n, sent[c])
  BY <1>1, <1>2 DEF CommandOk, Shape, Tokens, Early
<1>4. Addressed(c, n, sent[c]) /\ Hops(c, n, sent[c])
  BY <1>1, <1>2 DEF CommandOk, Addressed, Hops, Unsent
<1>5. Answered(c, n, answers[c]) BY <1>1, <1>2 DEF CommandOk, Answered
<1>6. CommandOk(c, n, sent[c], answers[c]) BY <1>3, <1>4, <1>5 DEF CommandOk
<1> QED BY <1>1, <1>2, <1>6, QuietMove, MoveFacts

LEMMA DispatchOk ==
  ASSUME Commanded, Queue, Dispatch
  PROVE  LET c == Head(rx)
         IN  /\ c \in Commands /\ task[c].phase = "sent"
             /\ Commanded' /\ task'[c].phase \in {"done", "permit"}
             /\ \A d \in Commands \ {c} : task'[d] = task[d]
<1> DEFINE c == Head(rx)
           t == task[c]
           p == IF c.kind \in Untasked THEN "done" ELSE "permit"
           n == [t EXCEPT !.phase = p]
<1>0. c \in Commands /\ t.phase = "sent"
  <2>1. rx \in Seq(Commands) /\ rx # <<>> BY DEF Dispatch, Queue
  <2>2. Head(rx) = rx[1] /\ 1 \in 1..Len(rx) BY <2>1
  <2> QED BY <2>1, <2>2 DEF Queue
<1> HIDE DEF c
<1>1. CommandOk(c, t, sent[c], answers[c]) BY <1>0 DEF Commanded
<1>2. Move(c, n) /\ UNCHANGED <<sent, answers>> BY DEF Dispatch, Move, Untasked, c
<1>3. /\ DOMAIN n = DOMAIN t /\ n.out = t.out /\ n.attempt = t.attempt /\ n.hop = t.hop
      /\ n.entry = t.entry /\ n.addr = t.addr /\ n.phase = p /\ sent[c] = <<>>
  BY <1>0, <1>1 DEF CommandOk, Shape, Early
<1>4. p \in {"done", "permit"} OBVIOUS
<1> HIDE DEF n
<1>5. Shape(n, sent[c]) /\ Tokens(c, n, sent[c])
  BY <1>0, <1>1, <1>3 DEF CommandOk, Shape, Tokens, Early
<1>6. Addressed(c, n, sent[c]) /\ Hops(c, n, sent[c])
  BY <1>0, <1>1, <1>3 DEF CommandOk, Addressed, Hops, Unsent
<1>7. Answered(c, n, answers[c]) BY <1>0, <1>1, <1>3 DEF CommandOk, Answered, Untasked
<1>8. CommandOk(c, n, sent[c], answers[c]) BY <1>5, <1>6, <1>7 DEF CommandOk
<1>9. Commanded' BY <1>0, <1>2, <1>8, QuietMove
<1> QED BY <1>0, <1>2, <1>3, <1>4, <1>9, MoveFacts DEF c

-----------------------------------------------------------------------------
(* Steps of the tasks *)

PoolStep(c) ==
  GetOrConnect(c) \/ Evict(c) \/ \E protocol \in {"timeout", "mizu/3", "h3"} : Handshake(c, protocol)
VaultStep(c) ==
  RevokeEntry(c) \/ \E g \in {<<>>} \cup {<<x>> : x \in Grants}, saved \in BOOLEAN : ReceiveSuccess(c, g, saved)

\* What a step of c does to the phases, the permits and the shared state.
Moves(c) ==
  /\ Commanded' /\ rx' = rx
  /\ \A d \in Commands \ {c} : task'[d] = task[d]
  /\ \/ task[c].phase = "permit" /\ task'[c].phase \in Busy /\ permits > 0 /\ permits' = permits - 1
     \/ task[c].phase = "answer" /\ task'[c].phase = "done" /\ permits' = permits + 1
     \/ task[c].phase \in Busy /\ task'[c].phase \in Busy /\ permits' = permits
  /\ PoolStep(c) \/ (UNCHANGED <<pool, lock>> /\ task[c].phase # "handshake" /\ task'[c].phase # "handshake")
  /\ VaultStep(c) \/ UNCHANGED vault

LEMMA StepMoves ==
  ASSUME NetIInv, NEW c \in Commands, Step(c)
  PROVE  Moves(c)
<1> USE DEF Busy, Unsent
<1>0. Commanded /\ Vaulted /\ Pooled BY DEF NetIInv
<1>1. ASSUME NEW ok \in BOOLEAN, AcquirePermit(c, ok) PROVE Moves(c)
  <2>1. \A d \in Commands \ {c} : task'[d] = task[d] BY <1>0, <1>1, MoveFacts DEF AcquirePermit
  <2> QED BY <1>0, <1>1, <2>1, AcquirePermitOk DEF Moves, AcquirePermit
<1>2. ASSUME NEW ok \in BOOLEAN, LoadEntry(c, ok) PROVE Moves(c)
  <2>1. \A d \in Commands \ {c} : task'[d] = task[d] BY <1>0, <1>2, MoveFacts DEF LoadEntry
  <2>2. /\ Commanded' /\ task'[c].phase \in Busy /\ task'[c].phase # "handshake" /\ task[c].phase = "load"
        /\ UNCHANGED <<rx, permits, pool, lock, vault>>
    BY <1>0, <1>2, LoadEntryOk DEF LoadEntry
  <2> QED BY <2>1, <2>2 DEF Moves
<1>3. CASE RevokeEntry(c)
  <2>1. \A d \in Commands \ {c} : task'[d] = task[d] BY <1>0, <1>3, MoveFacts DEF RevokeEntry
  <2> QED BY <1>0, <1>3, <2>1, FailOk DEF Moves, RevokeEntry, VaultStep
<1>4. ASSUME NEW p, NEW o, Resolve(c, p, o) PROVE Moves(c)
  <2>1. \A d \in Commands \ {c} : task'[d] = task[d] BY <1>0, <1>4, MoveFacts DEF Resolve
  <2>2. /\ Commanded' /\ task'[c].phase \in {"lock", "answer"} /\ task[c].phase = "resolve"
        /\ UNCHANGED <<rx, permits, pool, lock, vault>>
    BY <1>0, <1>4, ResolveOk DEF Resolve
  <2> QED BY <2>1, <2>2 DEF Moves
<1>5. CASE GetOrConnect(c)
  <2>1. \A d \in Commands \ {c} : task'[d] = task[d] BY <1>0, <1>5, MoveFacts DEF GetOrConnect
  <2>2. /\ Commanded' /\ task'[c].phase \in Busy /\ task[c].phase = "lock"
        /\ UNCHANGED <<rx, permits, vault>>
    BY <1>0, <1>5, GetOrConnectOk DEF GetOrConnect
  <2> QED BY <1>5, <2>1, <2>2 DEF Moves, PoolStep
<1>6. ASSUME NEW protocol \in {"timeout", "mizu/3", "h3"}, Handshake(c, protocol) PROVE Moves(c)
  <2>1. \A d \in Commands \ {c} : task'[d] = task[d] BY <1>0, <1>6, MoveFacts DEF Handshake
  <2>2. /\ Commanded' /\ task'[c].phase \in Busy /\ task[c].phase = "handshake"
        /\ UNCHANGED <<rx, permits, vault>>
    BY <1>0, <1>6, HandshakeOk DEF Handshake
  <2> QED BY <1>6, <2>1, <2>2 DEF Moves, PoolStep
<1>7. CASE Evict(c)
  <2>1. \A d \in Commands \ {c} : task'[d] = task[d] BY <1>0, <1>7, MoveFacts DEF Evict
  <2> QED BY <1>0, <1>7, <2>1, EvictStepOk DEF Moves, Evict, PoolStep
<1>8. CASE BuildRequest(c)
  <2>1. \A d \in Commands \ {c} : task'[d] = task[d] BY <1>0, <1>8, MoveFacts DEF BuildRequest
  <2> QED BY <1>0, <1>8, <2>1, BuildRequestOk DEF Moves, BuildRequest
<1>9. ASSUME NEW ok \in BOOLEAN, SendRequest(c, ok) PROVE Moves(c)
  <2>1. \A d \in Commands \ {c} : task'[d] = task[d] BY <1>0, <1>9, MoveFacts DEF SendRequest
  <2>2. /\ Commanded' /\ task'[c].phase \in {"receive", "evict", "answer"} /\ task[c].phase = "send"
        /\ UNCHANGED <<rx, permits, pool, lock, vault>>
    BY <1>0, <1>9, SendRequestOk DEF SendRequest
  <2> QED BY <2>1, <2>2 DEF Moves
<1>10. CASE ReceiveNothing(c)
  <2>1. \A d \in Commands \ {c} : task'[d] = task[d] BY <1>0, <1>10, MoveFacts DEF ReceiveNothing
  <2> QED BY <1>0, <1>10, <2>1, RetryOk DEF Moves, ReceiveNothing
<1>11. CASE ReceiveOversized(c, MAX_RESPONSE_BODY_BYTES + 1)
  <2>1. \A d \in Commands \ {c} : task'[d] = task[d] BY <1>0, <1>11, MoveFacts DEF ReceiveOversized
  <2>2. /\ Commanded' /\ task'[c].phase = "answer" /\ task[c].phase = "receive"
        /\ UNCHANGED <<rx, permits, pool, lock, vault>>
    BY <1>0, <1>11, ReceiveOversizedOk DEF ReceiveOversized
  <2> QED BY <2>1, <2>2 DEF Moves
<1>12. ASSUME NEW g \in {<<>>} \cup {<<x>> : x \in Grants}, NEW saved \in BOOLEAN, ReceiveSuccess(c, g, saved)
       PROVE  Moves(c)
  <2>1. \A d \in Commands \ {c} : task'[d] = task[d] BY <1>0, <1>12, MoveFacts DEF ReceiveSuccess
  <2>2. /\ Commanded' /\ task'[c].phase = "answer" /\ task[c].phase = "receive"
        /\ UNCHANGED <<rx, permits, pool, lock>>
    BY <1>0, <1>12, ReceiveSuccessOk DEF ReceiveSuccess
  <2>3. VaultStep(c) BY <1>12 DEF VaultStep
  <2> QED BY <2>1, <2>2, <2>3 DEF Moves
<1>13. ASSUME NEW target, ReceiveRedirect(c, target) PROVE Moves(c)
  <2>1. \A d \in Commands \ {c} : task'[d] = task[d] BY <1>0, <1>13, MoveFacts DEF ReceiveRedirect
  <2>2. /\ Commanded' /\ task'[c].phase \in {"load", "answer"} /\ task[c].phase = "receive"
        /\ UNCHANGED <<rx, permits, pool, lock, vault>>
    BY <1>0, <1>13, ReceiveRedirectOk DEF ReceiveRedirect
  <2> QED BY <2>1, <2>2 DEF Moves
<1>14. CASE ReceiveError(c)
  <2>1. \A d \in Commands \ {c} : task'[d] = task[d] BY <1>0, <1>14, MoveFacts DEF ReceiveError
  <2>2. /\ Commanded' /\ task'[c].phase = "answer" /\ task[c].phase = "receive"
        /\ UNCHANGED <<rx, permits, pool, lock, vault>>
    BY <1>0, <1>14, ReceiveErrorOk DEF ReceiveError
  <2> QED BY <2>1, <2>2 DEF Moves
<1>15. CASE Answer(c)
  <2>1. \A d \in Commands \ {c} : task'[d] = task[d] BY <1>0, <1>15, MoveFacts DEF Answer
  <2> QED BY <1>0, <1>15, <2>1, AnswerOk DEF Moves, Answer
<1> QED BY <1>1, <1>2, <1>3, <1>4, <1>5, <1>6, <1>7, <1>8, <1>9, <1>10, <1>11, <1>12, <1>13, <1>14, <1>15
        DEF Step

LEMMA StepQueue ==
  ASSUME NetIInv, NEW c \in Commands, Moves(c)
  PROVE  Queue'
<1>1. \A i \in 1..Len(rx) : rx[i] \in Commands /\ rx[i] # c
  BY DEF NetIInv, Queue, Moves, Busy, Unsent
<1> QED BY <1>1 DEF NetIInv, Queue, Moves

\* A permit is with a task from before its first I/O until it has answered.
LEMMA StepPermits ==
  ASSUME NetIInv, NEW c \in Commands, Moves(c)
  PROVE  Permits'
<1> USE DEF Busy, Unsent
<1>1. IsFiniteSet(Holding) /\ permits \in Int /\ Cardinality(Holding) \in Nat
      /\ permits + Cardinality(Holding) = MAX_CONCURRENT_FETCHES
  BY FS_CardinalityType DEF NetIInv, Permits
<1>2. CASE task[c].phase = "permit" /\ task'[c].phase \in Busy /\ permits' = permits - 1
  <2>1. Holding' = Holding \cup {c} /\ c \notin Holding BY <1>2 DEF Moves, Holding
  <2> HIDE DEF Busy, Unsent
  <2>2. IsFiniteSet(Holding') /\ Cardinality(Holding') = Cardinality(Holding) + 1
    BY <1>1, <2>1, FS_AddElement
  <2> QED BY <1>1, <1>2, <2>2 DEF Permits
<1>3. CASE task[c].phase = "answer" /\ task'[c].phase = "done" /\ permits' = permits + 1
  <2>1. Holding' = Holding \ {c} /\ c \in Holding BY <1>3 DEF Moves, Holding
  <2> HIDE DEF Busy, Unsent
  <2>2. IsFiniteSet(Holding') /\ Cardinality(Holding') = Cardinality(Holding) - 1
    BY <1>1, <2>1, FS_RemoveElement
  <2> QED BY <1>1, <1>3, <2>2 DEF Permits
<1>4. CASE task[c].phase \in Busy /\ task'[c].phase \in Busy /\ permits' = permits
  <2>1. Holding' = Holding BY <1>4 DEF Moves, Holding
  <2> QED BY <1>1, <1>4, <2>1 DEF Permits
<1> QED BY <1>2, <1>3, <1>4 DEF Moves

\* The vault takes entries of their own host, cut to the client's ceiling.
LEMMA StepVaulted ==
  ASSUME Vaulted, NEW c \in Commands, VaultStep(c)
  PROVE  Vaulted'
<1>1. CASE RevokeEntry(c) BY <1>1 DEF RevokeEntry, Vaulted, Restrict
<1>2. ASSUME NEW g, NEW saved, ReceiveSuccess(c, g, saved) PROVE Vaulted'
  <2> DEFINE entry == process_mizu_auth_set(g[1], c.host)
  <2>1. entry.ok => entry.v.owner = c.host /\ entry.v.methods \subseteq PERMITTED_HTTP_METHODS
    BY DEF process_mizu_auth_set, Ok, Err
  <2> HIDE DEF entry
  <2>2. vault' = vault \/ (entry.ok /\ vault' = insert(vault, c.host, entry.v))
    BY <1>2 DEF ReceiveSuccess, entry
  <2> QED BY <2>1, <2>2 DEF insert, Vaulted
<1> QED BY <1>1, <1>2 DEF VaultStep

LEMMA StepPooled ==
  ASSUME NetIInv, NEW c \in Commands, PoolStep(c)
  PROVE  Pooled'
<1>0. Commanded /\ Pooled BY DEF NetIInv
<1>1. CASE GetOrConnect(c)
  <2>1. CASE pool' = [pool EXCEPT ![c.host].last_used = clock]
    <3>1. DOMAIN pool' = DOMAIN pool /\ \A h \in DOMAIN pool : pool'[h].addr = pool[h].addr BY <2>1
    <3> QED BY <1>0, <3>1 DEF Pooled
  <2>2. ASSUME NEW keep \in make_room(pool), pool' = Restrict(pool, keep) PROVE Pooled'
    <3>1. keep \subseteq DOMAIN pool BY <2>2 DEF make_room
    <3> QED BY <1>0, <2>2, <3>1 DEF Pooled, Restrict
  <2> QED BY <1>1, <2>1, <2>2 DEF GetOrConnect
<1>2. CASE Evict(c) BY <1>0, <1>2 DEF Evict, Pooled, Restrict
<1>3. ASSUME NEW protocol, Handshake(c, protocol) PROVE Pooled'
  <2> DEFINE conn == [addr |-> task[c].addr, last_used |-> clock]
  <2>1. pool' = pool \/ pool' = insert(pool, c.host, conn) BY <1>3 DEF Handshake
  <2>2. authorize_resolved_address(HostInfo[c.host], conn.addr, TRUE)
    BY <1>0, <1>3, HandshakeOk, AuthorisedForNavigation
  <2> HIDE DEF conn
  <2> QED BY <1>0, <2>1, <2>2 DEF insert, Pooled
<1> QED BY <1>1, <1>2, <1>3 DEF PoolStep

LEMMA RoomIsMade ==
  ASSUME NEW p, IsFiniteSet(DOMAIN p), NEW keep \in make_room(p)
  PROVE  IsFiniteSet(keep) /\ Cardinality(keep) < MAX_POOL_SIZE
<1> DEFINE live == {h \in DOMAIN p : clock - p[h].last_used < QUIC_MAX_IDLE_TIMEOUT}
           a == Cardinality(live)
           b == MAX_POOL_SIZE - 1
<1>1. live \in SUBSET DOMAIN p /\ keep \in SUBSET live /\ Cardinality(keep) = Min({a, b})
  BY DEF make_room
<1> HIDE DEF live
<1>2. IsFiniteSet(live) BY <1>1, FS_Subset
<1>3. IsFiniteSet(keep) /\ a \in Nat /\ b \in Int /\ Cardinality(keep) \in Nat
  BY <1>1, <1>2, FS_Subset, FS_CardinalityType, NetworkAssumption
<1> HIDE DEF a, b
<1>4. Min({a, b}) <= b
  <2> DEFINE least == IF a <= b THEN a ELSE b
  <2>1. least \in {a, b} /\ \A y \in {a, b} : least <= y BY <1>3
  <2>2. \A y \in {a, b} : (CHOOSE x \in {a, b} : \A z \in {a, b} : x <= z) <= y BY <2>1
  <2> QED BY <2>2 DEF Min
<1> QED BY <1>1, <1>3, <1>4, NetworkAssumption DEF b

\* Between making room and using it the map is locked, so the room stays.
LEMMA StepLocked ==
  ASSUME NetIInv, NEW c \in Commands, Moves(c)
  PROVE  Locked'
<1>0. Commanded /\ Pooled /\ Locked BY DEF NetIInv
<1>1. IsFiniteSet(DOMAIN pool) /\ Cardinality(DOMAIN pool) \in Nat /\ Cardinality(DOMAIN pool) <= MAX_POOL_SIZE
  BY <1>0, FS_CardinalityType DEF Locked, PoolBounded
<1>2. \A d \in Commands \ {c} : task'[d] = task[d] BY DEF Moves
<1>3. CASE UNCHANGED <<pool, lock>> /\ task[c].phase # "handshake" /\ task'[c].phase # "handshake"
  BY <1>0, <1>2, <1>3 DEF Locked, PoolBounded
<1>4. CASE GetOrConnect(c)
  <2>1. lock = {} /\ task[c].phase = "lock" BY <1>4 DEF GetOrConnect
  <2>2. CASE c.host \in DOMAIN pool
    <3>1. /\ pool' = [pool EXCEPT ![c.host].last_used = clock] /\ lock' = lock
          /\ task'[c].phase = "build"
      BY <1>0, <1>4, <2>2, GetOrConnectOk DEF GetOrConnect
    <3>2. DOMAIN pool' = DOMAIN pool BY <3>1
    <3> QED BY <1>0, <1>2, <2>1, <3>1, <3>2 DEF Locked, PoolBounded
  <2>3. CASE c.host \notin DOMAIN pool
    <3>1. PICK keep \in make_room(pool) : pool' = Restrict(pool, keep) BY <1>4, <2>3 DEF GetOrConnect
    <3>2. lock' = {c} /\ task'[c].phase = "handshake"
      BY <1>0, <1>4, <2>3, GetOrConnectOk DEF GetOrConnect
    <3>3. DOMAIN pool' = keep BY <3>1 DEF Restrict
    <3>4. IsFiniteSet(keep) /\ Cardinality(keep) < MAX_POOL_SIZE BY <1>1, RoomIsMade
    <3>5. Cardinality(keep) \in Nat /\ MAX_POOL_SIZE \in Nat
      BY <3>4, FS_CardinalityType, NetworkAssumption
    <3> QED BY <1>0, <1>2, <2>1, <3>2, <3>3, <3>4, <3>5 DEF Locked, PoolBounded
  <2> QED BY <2>2, <2>3
<1>5. CASE Evict(c)
  <2>1. lock = {} /\ lock' = lock /\ task[c].phase = "evict" /\ task'[c].phase = "load"
    BY <1>0, <1>5, EvictStepOk DEF Evict
  <2>2. DOMAIN pool' = DOMAIN pool \ {c.host} BY <1>5 DEF Evict, Restrict
  <2>3. IsFiniteSet(DOMAIN pool') /\ Cardinality(DOMAIN pool') <= Cardinality(DOMAIN pool)
    BY <1>1, <2>2, FS_Subset
  <2>4. Cardinality(DOMAIN pool') \in Nat /\ MAX_POOL_SIZE \in Nat
    BY <2>3, FS_CardinalityType, NetworkAssumption
  <2> QED BY <1>0, <1>1, <1>2, <2>1, <2>3, <2>4 DEF Locked, PoolBounded
<1>6. ASSUME NEW protocol, Handshake(c, protocol) PROVE Locked'
  <2>1. lock' = {} /\ task[c].phase = "handshake" /\ task'[c].phase # "handshake"
    BY <1>0, <1>6, HandshakeOk DEF Handshake, Unlocked
  <2>2. lock = {c} /\ Cardinality(DOMAIN pool) < MAX_POOL_SIZE BY <1>0, <2>1 DEF Locked
  <2>3. DOMAIN pool' = DOMAIN pool \/ DOMAIN pool' = DOMAIN pool \cup {c.host}
    BY <1>6 DEF Handshake, insert
  <2>4. IsFiniteSet(DOMAIN pool') /\ Cardinality(DOMAIN pool') <= Cardinality(DOMAIN pool) + 1
    BY <1>1, <2>3, FS_AddElement
  <2>5. Cardinality(DOMAIN pool') \in Nat /\ MAX_POOL_SIZE \in Nat
    BY <2>4, FS_CardinalityType, NetworkAssumption
  <2>6. \A d \in Commands : task'[d].phase # "handshake" BY <1>0, <1>2, <2>1, <2>2 DEF Locked
  <2> QED BY <1>1, <2>1, <2>2, <2>4, <2>5, <2>6 DEF Locked, PoolBounded
<1> QED BY <1>3, <1>4, <1>5, <1>6 DEF Moves, PoolStep

-----------------------------------------------------------------------------
(* The inductive invariant *)

LEMMA NetInitial == NetInit => NetIInv
<1> SUFFICES ASSUME NetInit PROVE NetIInv OBVIOUS
<1>1. PICK load \in Workloads :
        task = [c \in Commands |-> [Idle EXCEPT !.phase = IF c \in load THEN @ ELSE "never sent"]]
  BY DEF NetInit
<1>2. \A c \in Commands :
        /\ DOMAIN task[c] = {"phase", "attempt", "hop", "entry", "addr", "conn", "out"}
        /\ task[c].phase \in {"unsent", "never sent"} /\ task[c].attempt = 1 /\ task[c].hop = 0
        /\ task[c].entry = <<>> /\ task[c].out = "none"
  BY <1>1 DEF Idle
<1>3. /\ rx = <<>> /\ permits = MAX_CONCURRENT_FETCHES /\ pool = <<>> /\ lock = {} /\ vault \in Vaults
      /\ answers = [c \in Commands |-> <<>>] /\ sent = [c \in Commands |-> <<>>]
  BY DEF NetInit
<1>4. Commanded
  <2>1. DOMAIN task = Commands /\ DOMAIN sent = Commands /\ DOMAIN answers = Commands
    BY <1>1, <1>3
  <2> SUFFICES ASSUME NEW c \in Commands PROVE CommandOk(c, task[c], <<>>, <<>>)
    BY <1>3, <2>1 DEF Commanded
  <2>2. Shape(task[c], <<>>)
    <3>1. 0 \in Nat /\ 0 <= max_redirects BY NetworkAssumption
    <3>2. task[c].phase \in Early BY <1>2 DEF Early
    <3> QED BY <1>2, <3>1, <3>2 DEF Shape
  <2>3. Tokens(c, task[c], <<>>) BY <1>2 DEF Tokens
  <2>4. Addressed(c, task[c], <<>>) BY <1>2 DEF Addressed
  <2>5. Hops(c, task[c], <<>>) BY <1>2 DEF Hops
  <2>6. Answered(c, task[c], <<>>) BY <1>2 DEF Answered
  <2> QED BY <2>2, <2>3, <2>4, <2>5, <2>6 DEF CommandOk
<1>5. Queue
  <2>1. rx \in Seq(Commands) /\ Len(rx) = 0 BY <1>3
  <2> QED BY <2>1 DEF Queue
<1>6. Vaulted BY <1>3, VaultsAssumption DEF Vaulted
<1>7. DOMAIN pool = {} BY <1>3
<1>8. Pooled BY <1>7 DEF Pooled
<1>9. Locked
  <2>1. IsFiniteSet(DOMAIN pool) /\ Cardinality(DOMAIN pool) = 0 BY <1>7, FS_EmptySet
  <2>2. 0 <= MAX_POOL_SIZE BY NetworkAssumption
  <2>3. \A c \in Commands : task[c].phase # "handshake" BY <1>2
  <2> QED BY <1>3, <2>1, <2>2, <2>3 DEF Locked, PoolBounded
<1>10. Permits
  <2>1. Holding = {} BY <1>2 DEF Holding, Busy, Unsent
  <2>2. IsFiniteSet(Holding) /\ Cardinality(Holding) = 0 BY <2>1, FS_EmptySet
  <2> QED BY <1>3, <2>2, NetworkAssumption DEF Permits
<1> QED BY <1>4, <1>5, <1>6, <1>8, <1>9, <1>10 DEF NetIInv

\* Submit and Dispatch: a command enters the channel once and leaves it in turn.
LEMMA SubmitStep ==
  ASSUME NetIInv, NEW c \in Commands, Submit(c)
  PROVE  NetIInv'
<1>1. /\ Commanded' /\ task[c].phase = "unsent" /\ task'[c].phase = "sent"
      /\ \A d \in Commands \ {c} : task'[d] = task[d]
      /\ rx' = Append(rx, c) /\ UNCHANGED <<permits, pool, lock, vault>>
  BY SubmitOk DEF NetIInv, Submit
<1>2. Queue'
  <2>1. rx \in Seq(Commands) /\ Len(rx) \in Nat BY DEF NetIInv, Queue
  <2>2. /\ rx' \in Seq(Commands) /\ Len(rx') = Len(rx) + 1
        /\ \A i \in 1..Len(rx) : rx'[i] = rx[i]
        /\ rx'[Len(rx) + 1] = c
    BY <1>1, <2>1, AppendProperties
  <2>3. \A i \in 1..Len(rx) : rx[i] \in Commands /\ rx[i] # c /\ task'[rx[i]].phase = "sent"
    BY <1>1, <2>1 DEF NetIInv, Queue
  <2>4. \A i \in 1..Len(rx') : i \in 1..Len(rx) \/ i = Len(rx) + 1 BY <2>1, <2>2
  <2>5. \A i \in 1..Len(rx') : task'[rx'[i]].phase = "sent" BY <1>1, <2>2, <2>3, <2>4
  <2>6. \A i, j \in 1..Len(rx) : rx[i] = rx[j] => i = j BY DEF NetIInv, Queue
  <2>7. \A i, j \in 1..Len(rx') : rx'[i] = rx'[j] => i = j BY <2>2, <2>3, <2>4, <2>6
  <2> QED BY <2>2, <2>5, <2>7 DEF Queue
<1>3. Vaulted' /\ Pooled' BY <1>1 DEF NetIInv, Vaulted, Pooled
<1>4. Locked' BY <1>1 DEF NetIInv, Locked, PoolBounded
<1>5. Permits'
  <2>1. Holding' = Holding BY <1>1 DEF Holding, Busy, Unsent
  <2> QED BY <1>1, <2>1 DEF NetIInv, Permits
<1> QED BY <1>1, <1>2, <1>3, <1>4, <1>5 DEF NetIInv

LEMMA DispatchStep ==
  ASSUME NetIInv, Dispatch
  PROVE  NetIInv'
<1> DEFINE c == Head(rx)
<1>1. /\ c \in Commands /\ task[c].phase = "sent" /\ Commanded' /\ task'[c].phase \in {"done", "permit"}
      /\ \A d \in Commands \ {c} : task'[d] = task[d]
      /\ rx # <<>> /\ rx' = Tail(rx) /\ UNCHANGED <<permits, pool, lock, vault>>
  BY DispatchOk DEF NetIInv, Dispatch
<1>2. Queue'
  <2>1. rx \in Seq(Commands) /\ Len(rx) \in Nat BY DEF NetIInv, Queue
  <2>2. /\ rx' \in Seq(Commands) /\ Len(rx') = Len(rx) - 1
        /\ \A i \in 1..Len(rx') : rx'[i] = rx[i + 1]
    BY <1>1, <2>1, HeadTailProperties
  <2>3. Len(rx) > 0 /\ c = rx[1] BY <1>1, <2>1
  <2> HIDE DEF c
  <2>4. \A i, j \in 1..Len(rx) : rx[i] = rx[j] => i = j BY DEF NetIInv, Queue
  <2>5. \A i \in 1..Len(rx') : i + 1 \in 1..Len(rx) /\ 1 \in 1..Len(rx) /\ i + 1 # 1 BY <2>1, <2>2, <2>3
  <2>6. \A i \in 1..Len(rx') : rx'[i] \in Commands /\ rx'[i] # c /\ task[rx'[i]].phase = "sent"
    BY <2>1, <2>2, <2>3, <2>4, <2>5 DEF NetIInv, Queue
  <2>7. \A i \in 1..Len(rx') : task'[rx'[i]].phase = "sent" BY <1>1, <2>6
  <2>8. \A i, j \in 1..Len(rx') : rx'[i] = rx'[j] => i = j
    <3> SUFFICES ASSUME NEW i \in 1..Len(rx'), NEW j \in 1..Len(rx'), rx'[i] = rx'[j] PROVE i = j
      OBVIOUS
    <3>1. i + 1 = j + 1 BY <2>2, <2>4, <2>5
    <3> QED BY <2>1, <2>2, <3>1
  <2> QED BY <2>2, <2>7, <2>8 DEF Queue
<1> HIDE DEF c
<1>3. Vaulted' /\ Pooled' BY <1>1 DEF NetIInv, Vaulted, Pooled
<1>4. Locked' BY <1>1 DEF NetIInv, Locked, PoolBounded
<1>5. Permits'
  <2>1. Holding' = Holding BY <1>1 DEF Holding, Busy, Unsent
  <2> QED BY <1>1, <2>1 DEF NetIInv, Permits
<1> QED BY <1>1, <1>2, <1>3, <1>4, <1>5 DEF NetIInv

LEMMA TaskStep ==
  ASSUME NetIInv, NEW c \in Commands, Step(c)
  PROVE  NetIInv'
<1>1. Moves(c) BY StepMoves
<1>2. Commanded' BY <1>1 DEF Moves
<1>3. Queue' /\ Permits' /\ Locked' BY <1>1, StepQueue, StepPermits, StepLocked
<1>4. Vaulted'
  <2>1. CASE VaultStep(c) BY <2>1, StepVaulted DEF NetIInv
  <2>2. CASE UNCHANGED vault BY <2>2 DEF NetIInv, Vaulted
  <2> QED BY <1>1, <2>1, <2>2 DEF Moves
<1>5. Pooled'
  <2>1. CASE PoolStep(c) BY <2>1, StepPooled
  <2>2. CASE UNCHANGED pool BY <2>2 DEF NetIInv, Pooled
  <2> QED BY <1>1, <2>1, <2>2 DEF Moves
<1> QED BY <1>2, <1>3, <1>4, <1>5 DEF NetIInv

LEMMA NetInductive ==
  ASSUME NetIInv, [NetNext]_netVars
  PROVE  NetIInv'
<1>1. ASSUME NEW c \in Commands, Submit(c) PROVE NetIInv' BY <1>1, SubmitStep
<1>2. ASSUME NEW c \in Commands, Step(c) PROVE NetIInv' BY <1>2, TaskStep
<1>3. CASE Dispatch BY <1>3, DispatchStep
<1>4. ASSUME UNCHANGED <<rx, task, permits, pool, lock, vault, answers, sent>> PROVE NetIInv'
  BY <1>4 DEF NetIInv, Commanded, Queue, Vaulted, Pooled, Locked, PoolBounded, Permits, Holding
<1>5. ASSUME NEW ok \in BOOLEAN, StartWorker(ok) PROVE NetIInv' BY <1>4, <1>5 DEF StartWorker
<1>6. CASE UiReceives BY <1>4, <1>6 DEF UiReceives
<1>7. CASE Tick BY <1>4, <1>7 DEF Tick
<1>8. CASE UNCHANGED netVars BY <1>4, <1>8 DEF netVars
<1> QED BY <1>1, <1>2, <1>3, <1>5, <1>6, <1>7, <1>8 DEF NetNext

-----------------------------------------------------------------------------
(* What the worker guarantees *)

\* worker/mod.rs and h3_pool.rs: whatever fails, times out or is retried, every
\* task that ended answered its command once, the permits add up, and the pool
\* stays within its bound while handshakes overlap.
THEOREM NetworkAccountedFor == NetSpec => []NetworkInv
<1>1. NetIInv => NetworkInv
  <2> SUFFICES ASSUME NetIInv PROVE NetworkInv OBVIOUS
  <2> DEFINE Running == {c \in Commands : task[c].phase \notin {"never sent", "unsent", "sent", "permit", "done"}}
  <2>1. Running = Holding
    <3>1. \A c \in Commands : task[c].phase \in Early \cup Busy \cup {"done"}
      BY DEF NetIInv, Commanded, CommandOk, Shape
    <3> QED BY <3>1 DEF Holding, Early, Busy, Unsent
  <2>2. ASSUME NEW c \in Commands, task[c].phase = "done", c.kind \notin {"NetworkRequest", "StorageStore"}
        PROVE  Len(answers[c]) = 1 /\ answers[c][1] # "none"
    <3>1. answers[c] = <<task[c].out>> /\ task[c].out # "none"
      BY <2>2 DEF NetIInv, Commanded, CommandOk, Answered, Untasked
    <3> QED BY <3>1
  <2>3. \A c \in lock : task[c].phase = "handshake" BY DEF NetIInv, Locked
  <2> HIDE DEF Running
  <2>4. permits + Cardinality(Running) = MAX_CONCURRENT_FETCHES BY <2>1 DEF NetIInv, Permits
  <2>5. PoolBounded BY DEF NetIInv, Locked
  <2> QED BY <2>2, <2>3, <2>4, <2>5 DEF NetworkInv, OneAnswerEach, Running
<1> QED BY <1>1, NetInitial, NetInductive, PTL DEF NetSpec

\* auth/mod.rs and vault/mod.rs: a bearer token goes to the host that granted
\* it, for a method of its scope inside the client's ceiling, whichever tasks
\* load, revoke, replace and send tokens meanwhile.
THEOREM TokensInScope == NetSpec => []TokensStayInScope
<1>1. NetIInv => TokensStayInScope
  BY DEF NetIInv, Commanded, CommandOk, Tokens, Scoped, TokensStayInScope
<1> QED BY <1>1, NetInitial, NetInductive, PTL DEF NetSpec

\* dns/mod.rs and security/network: every request travels to an address that
\* authorize_resolved_address grants its own command, pooled connections, retries
\* and redirects included, and a name never leads to a local address in any of
\* the notations IPv6 has for it.
THEOREM RequestsVetted == NetSpec => []RequestsStayOutside
<1>1. NetIInv => RequestsStayOutside
  <2> SUFFICES ASSUME NetIInv, NEW c \in Commands, sent[c] # <<>>
               PROVE  LET ip == sent[c][1].addr
                          host == HostInfo[c.host]
                      IN  /\ host.lit # <<>> => ip = host.lit[1]
                          /\ \/ is_publicly_routable(ip)
                             \/ host.local /\ is_loopback(ip)
                             \/ host.lit # <<>> /\ IsNavigation(c)
                          /\ host.lit = <<>> /\ ~host.local =>
                               \A local \in LocalAddresses : ~WrittenAs(ip, local)
    BY DEF RequestsStayOutside, RequestsReachVettedAddresses, NamesNeverLeadInward
  <2>1. May(c, sent[c][1].addr) BY DEF NetIInv, Commanded, CommandOk, Addressed
  <2> QED BY <2>1, AuthorisedIsVetted, NotationsDoNotHide
<1> QED BY <1>1, NetInitial, NetInductive, PTL DEF NetSpec

\* The request of a command changes when the task sends one and when it receives
\* an answer to it.
LEMMA SentChanges ==
  ASSUME NetIInv, [NetNext]_netVars, NEW c \in Commands
  PROVE  \/ sent'[c] = sent[c]
         \/ /\ task[c].phase = "send"
            /\ sent'[c] = <<[bearer |-> task[c].entry, addr |-> task[c].conn[1], hop |-> task[c].hop,
                             attempt |-> task[c].attempt, got |-> "nothing"]>>
         \/ task[c].phase = "receive" /\ \E what : sent'[c] = [sent[c] EXCEPT ![1].got = what]
<1> DEFINE Goal ==
         \/ sent'[c] = sent[c]
         \/ /\ task[c].phase = "send"
            /\ sent'[c] = <<[bearer |-> task[c].entry, addr |-> task[c].conn[1], hop |-> task[c].hop,
                             attempt |-> task[c].attempt, got |-> "nothing"]>>
         \/ task[c].phase = "receive" /\ \E what : sent'[c] = [sent[c] EXCEPT ![1].got = what]
<1>0. DOMAIN sent = Commands BY DEF NetIInv, Commanded
<1>1. ASSUME NEW d \in Commands, task[d].phase = "receive", NEW what, sent' = [sent EXCEPT ![d][1].got = what]
      PROVE  Goal
  <2>1. CASE d = c
    <3>1. sent'[c] = [sent[c] EXCEPT ![1].got = what] BY <1>0, <1>1, <2>1
    <3> QED BY <1>1, <2>1, <3>1
  <2>2. CASE d # c BY <1>0, <1>1, <2>2
  <2> QED BY <2>1, <2>2
<1>2. ASSUME NEW d \in Commands, NEW ok \in BOOLEAN, SendRequest(d, ok) PROVE Goal
  BY <1>0, <1>2 DEF SendRequest
<1>3. ASSUME sent' = sent PROVE Goal BY <1>3
<1> HIDE DEF Goal
<1>4. ASSUME NEW d \in Commands, Step(d) PROVE Goal
  <2>1. ASSUME NEW ok \in BOOLEAN, AcquirePermit(d, ok) PROVE Goal
    <3>1. sent' = sent BY <2>1 DEF AcquirePermit
    <3> QED BY <1>3, <3>1
  <2>2. ASSUME NEW ok \in BOOLEAN, LoadEntry(d, ok) PROVE Goal
    <3>1. sent' = sent BY <2>2 DEF LoadEntry
    <3> QED BY <1>3, <3>1
  <2>3. ASSUME NEW p, NEW o, Resolve(d, p, o) PROVE Goal
    <3>1. sent' = sent BY <2>3 DEF Resolve
    <3> QED BY <1>3, <3>1
  <2>4. ASSUME NEW protocol, Handshake(d, protocol) PROVE Goal
    <3>1. sent' = sent BY <2>4 DEF Handshake
    <3> QED BY <1>3, <3>1
  <2>5. CASE RevokeEntry(d) \/ GetOrConnect(d) \/ Evict(d) \/ BuildRequest(d) \/ ReceiveNothing(d) \/ Answer(d)
    <3>1. sent' = sent
      BY <2>5 DEF RevokeEntry, GetOrConnect, Evict, BuildRequest, ReceiveNothing, Answer
    <3> QED BY <1>3, <3>1
  <2>6. CASE ReceiveOversized(d, MAX_RESPONSE_BODY_BYTES + 1) BY <1>1, <2>6 DEF ReceiveOversized, Got
  <2>7. ASSUME NEW g, NEW saved, ReceiveSuccess(d, g, saved) PROVE Goal
    BY <1>1, <2>7 DEF ReceiveSuccess, Got
  <2>8. ASSUME NEW target, ReceiveRedirect(d, target) PROVE Goal BY <1>1, <2>8 DEF ReceiveRedirect
  <2>9. CASE ReceiveError(d) BY <1>1, <2>9 DEF ReceiveError, Got
  <2> QED BY <1>4, <1>2, <2>1, <2>2, <2>3, <2>4, <2>5, <2>6, <2>7, <2>8, <2>9 DEF Step
<1>5. ASSUME NEW d \in Commands, Submit(d) PROVE Goal
  <2>1. sent' = sent BY <1>5 DEF Submit
  <2> QED BY <1>3, <2>1
<1>6. ASSUME NEW ok \in BOOLEAN, StartWorker(ok) PROVE Goal
  <2>1. sent' = sent BY <1>6 DEF StartWorker
  <2> QED BY <1>3, <2>1
<1>7. ASSUME Dispatch \/ UiReceives \/ Tick PROVE Goal
  <2>1. sent' = sent BY <1>7 DEF Dispatch, UiReceives, Tick
  <2> QED BY <1>3, <2>1
<1>8. ASSUME UNCHANGED netVars PROVE Goal
  <2>1. sent' = sent BY <1>8 DEF netVars
  <2> QED BY <1>3, <2>1
<1>9. Goal BY <1>4, <1>5, <1>6, <1>7, <1>8 DEF NetNext
<1> QED BY <1>9 DEF Goal

\* A request that follows an answered one follows its redirect on the same host;
\* any other repeats a first attempt without an answer.
LEMMA NextRequest ==
  ASSUME NetIInv, [NetNext]_netVars, NEW c \in Commands, sent[c] # <<>>, sent'[c] # sent[c]
  PROVE  \/ /\ sent'[c][1].hop = sent[c][1].hop + 1 /\ sent[c][1].got = c.host
            /\ sent'[c][1].got = "nothing"
         \/ /\ sent'[c][1].hop = sent[c][1].hop /\ sent'[c][1].got = "nothing"
            /\ sent[c][1].got = "nothing" /\ sent[c][1].attempt = 1 /\ sent'[c][1].attempt = 2
         \/ sent'[c][1].hop = sent[c][1].hop /\ sent'[c][1].got # "nothing"
<1>1. CommandOk(c, task[c], sent[c], answers[c]) BY DEF NetIInv, Commanded
<1>2. sent[c][1].hop \in Nat BY <1>1 DEF CommandOk, Shape
<1>3. CASE task[c].phase = "receive" /\ \E what : sent'[c] = [sent[c] EXCEPT ![1].got = what]
  <2>1. PICK what : sent'[c] = [sent[c] EXCEPT ![1].got = what] BY <1>3
  <2>2. /\ sent'[c][1].hop = task[c].hop /\ sent'[c][1].got = what
        /\ what = "nothing" => sent'[c] = sent[c]
    <3>1. sent[c] # <<>> /\ sent[c] = <<sent[c][1]>> /\ sent[c][1].hop = task[c].hop /\ sent[c][1].got = "nothing"
      BY <1>1, <1>3 DEF CommandOk, Hops, Shape
    <3>2. sent[c][1] = [bearer |-> sent[c][1].bearer, addr |-> sent[c][1].addr, hop |-> sent[c][1].hop,
                        attempt |-> sent[c][1].attempt, got |-> sent[c][1].got]
      BY <1>1, <1>3, <3>1 DEF CommandOk, Shape
    <3> DEFINE r == [sent[c][1] EXCEPT !.got = what]
    <3>3. r.hop = task[c].hop /\ r.got = what /\ (what = "nothing" => r = sent[c][1]) BY <3>1, <3>2
    <3>4. sent'[c] = [sent[c] EXCEPT ![1] = r] BY <2>1
    <3> HIDE DEF r
    <3>5. \A x, y : [<<x>> EXCEPT ![1] = y] = <<y>> OBVIOUS
    <3>6. sent'[c] = <<r>> BY <3>1, <3>4, <3>5
    <3> QED BY <3>1, <3>3, <3>6
  <2>3. sent[c][1].hop = task[c].hop BY <1>1, <1>3 DEF CommandOk, Hops
  <2> QED BY <2>2, <2>3
<1>4. CASE /\ task[c].phase = "send"
           /\ sent'[c] = <<[bearer |-> task[c].entry, addr |-> task[c].conn[1], hop |-> task[c].hop,
                            attempt |-> task[c].attempt, got |-> "nothing"]>>
  <2> DEFINE r == [bearer |-> task[c].entry, addr |-> task[c].conn[1], hop |-> task[c].hop,
                   attempt |-> task[c].attempt, got |-> "nothing"]
  <2>1. sent'[c][1].hop = task[c].hop /\ sent'[c][1].attempt = task[c].attempt /\ sent'[c][1].got = "nothing"
    <3>1. r.hop = task[c].hop /\ r.attempt = task[c].attempt /\ r.got = "nothing" OBVIOUS
    <3>2. sent'[c] = <<r>> BY <1>4
    <3> HIDE DEF r
    <3>3. <<r>>[1] = r OBVIOUS
    <3> QED BY <3>1, <3>2, <3>3
  <2>2. \/ sent[c][1].hop = task[c].hop
        \/ sent[c][1].hop + 1 = task[c].hop /\ sent[c][1].got = c.host
    BY <1>1 DEF CommandOk, Hops
  <2>3. sent[c][1].hop = task[c].hop => sent[c][1].got = "nothing" /\ sent[c][1].attempt = 1 /\ task[c].attempt = 2
    BY <1>1, <1>4 DEF CommandOk, Hops, Unsent
  <2> QED BY <2>1, <2>2, <2>3
<1> QED BY <1>3, <1>4, SentChanges

\* fetch/mod.rs, invariant N1: a data call or an image never becomes a
\* navigation, follows no redirect off its host, and a bounded number on it.
THEOREM SubresourcesConfined == NetSpec => SubresourcesStayOnHost
<1>1. ASSUME NetIInv, NetIInv', [NetNext]_netVars, NEW c \in Commands, ~IsNavigation(c)
      PROVE  /\ answers'[c] # <<"NavigationRedirect">>
             /\ sent'[c] # <<>> => sent'[c][1].hop <= max_redirects
             /\ sent[c] # <<>> /\ sent'[c][1].hop > sent[c][1].hop => sent[c][1].got = c.host
  <2>1. CommandOk(c, task[c], sent[c], answers[c])
    BY <1>1 DEF NetIInv, Commanded
  <2>2. CommandOk(c, task'[c], sent'[c], answers'[c])
    BY <1>1 DEF NetIInv, Commanded, CommandOk, Shape, Tokens, Addressed, Hops, Answered, May,
                Scoped, IsNavigation
  <2>3. answers'[c] # <<"NavigationRedirect">>
    <3>1. task'[c].out # "NavigationRedirect" BY <1>1, <2>2 DEF CommandOk, Answered
    <3>2. answers'[c] = <<task'[c].out>> \/ answers'[c] = <<>> BY <2>2 DEF CommandOk, Answered
    <3>3. \A x : x # "NavigationRedirect" => <<x>> # <<"NavigationRedirect">> OBVIOUS
    <3>4. <<>> # <<"NavigationRedirect">> OBVIOUS
    <3> QED BY <3>1, <3>2, <3>3, <3>4
  <2>4. sent'[c] # <<>> => sent'[c][1].hop <= max_redirects
    BY <2>2 DEF CommandOk, Shape
  <2>5. ASSUME sent[c] # <<>>, sent'[c][1].hop > sent[c][1].hop PROVE sent[c][1].got = c.host
    <3>1. sent[c][1].hop \in Nat BY <2>1, <2>5 DEF CommandOk, Shape
    <3>2. ~(sent[c][1].hop > sent[c][1].hop) BY <3>1
    <3>3. sent'[c] # sent[c] BY <2>5, <3>2
    <3> QED BY <1>1, <2>5, <3>2, <3>3, NextRequest
  <2> QED BY <2>3, <2>4, <2>5
<1>2. ASSUME NetIInv, NetIInv', [NetNext]_netVars
      PROVE  [\A c \in Commands : ~IsNavigation(c) =>
                /\ answers'[c] # <<"NavigationRedirect">>
                /\ sent'[c] # <<>> => sent'[c][1].hop <= max_redirects
                /\ sent[c] # <<>> /\ sent'[c][1].hop > sent[c][1].hop => sent[c][1].got = c.host]_netVars
  BY <1>1, <1>2
<1> QED BY <1>2, NetInitial, NetInductive, PTL DEF NetSpec, SubresourcesStayOnHost

\* fetch/mod.rs: a request is repeated at most once, and what a server has
\* answered, an oversized body included, is not asked again.
THEOREM AnswersAreFinal == NetSpec => AnsweredIsNotRepeated
<1>1. ASSUME NetIInv, [NetNext]_netVars, NEW c \in Commands,
             sent[c] # <<>>, sent'[c][1].got = "nothing", sent'[c] # sent[c]
      PROVE  \/ sent'[c][1].hop = sent[c][1].hop + 1
             \/ sent[c][1].got = "nothing" /\ sent[c][1].attempt = 1 /\ sent'[c][1].attempt = 2
  BY <1>1, NextRequest
<1>2. ASSUME NetIInv, [NetNext]_netVars
      PROVE  [\A c \in Commands : sent[c] # <<>> /\ sent'[c][1].got = "nothing" /\ sent'[c] # sent[c] =>
                \/ sent'[c][1].hop = sent[c][1].hop + 1
                \/ sent[c][1].got = "nothing" /\ sent[c][1].attempt = 1 /\ sent'[c][1].attempt = 2]_netVars
  BY <1>1, <1>2
<1> QED BY <1>2, NetInitial, NetInductive, PTL DEF NetSpec, AnsweredIsNotRepeated

=============================================================================
