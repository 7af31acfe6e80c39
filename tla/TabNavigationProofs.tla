------------------------- MODULE TabNavigationProofs -------------------------
(***************************************************************************)
(* Proofs about TabNavigation, for every set of hosts and files, every     *)
(* redirect budget, history cap and bound.                                 *)
(*                                                                         *)
(* The handlers are operators on tabs, so the argument is made once per    *)
(* operator (GoodTab is preserved, the origin moves as TabOrigin allows)   *)
(* and cited by every action that calls it.                                *)
(***************************************************************************)
EXTENDS TabNavigation, SequenceTheorems, TLAPS

\* What must be true of a command in flight for a redirect of it to be safe:
\* the initiator it carries tells whether logic caused it.
CommandOK(c) ==
  /\ c.url.scheme = "mizu" /\ c.url.name \in WellFormed
  /\ c.chain.cause = "logic" => c.initiator.root = "DocumentLogic"
  /\ c.chain.cause = "logic" => is_same_origin(c.from, c.url)

GoodTab(t) ==
  /\ t \in TabState
  /\ Len(t.back) <= MAX_HISTORY_ENTRIES /\ Len(t.forward) <= MAX_HISTORY_ENTRIES
  /\ \A c \in t.inflight : CommandOK(c)

\* A step of the abstract specification, or none.
OriginStep(a, b) ==
  \/ b = a
  \/ b = AboutBlank
  \/ \E f \in Names : a.scheme = "file" /\ <<a.name, f>> \in Sandbox /\ b = File(f)
  \/ \E n \in WellFormed : b = Mizu(n)

\* The inductive invariant.
IInv ==
  /\ GoodTab(tab)
  /\ batches \in Seq(Batch)
  /\ inputs \in 0..MaxInputs /\ events \in 0..MaxEvents

-----------------------------------------------------------------------------
(* Operators *)

\* A push keeps a history stack a stack of entries within its cap.
LEMMA PushCapped ==
  ASSUME NEW s \in Seq(HistoryEntry), NEW e \in HistoryEntry,
         Len(s) <= MAX_HISTORY_ENTRIES
  PROVE  /\ push_capped(s, e) \in Seq(HistoryEntry)
         /\ Len(push_capped(s, e)) <= MAX_HISTORY_ENTRIES
<1>1. /\ Append(s, e) \in Seq(HistoryEntry)
      /\ Len(Append(s, e)) = Len(s) + 1
      /\ Append(s, e) # <<>>
  OBVIOUS
<1>2. /\ Tail(Append(s, e)) \in Seq(HistoryEntry)
      /\ Len(Tail(Append(s, e))) = Len(s)
  BY <1>1
<1>3. MAX_HISTORY_ENTRIES \in Nat
  BY TabAssumption
<1> QED BY <1>1, <1>2, <1>3 DEF push_capped

\* The page being left is a history entry.
LEMMA LeavingType ==
  ASSUME NEW t \in TabState
  PROVE  Leaving(t) \in HistoryEntry
BY DEF Leaving, HistoryEntry, TabState

\* A fresh navigation records the page it leaves and touches nothing else
\* that matters here.
LEMMA RecordNavigation ==
  ASSUME NEW t, GoodTab(t)
  PROVE  /\ GoodTab(record_navigation(t))
         /\ record_navigation(t).committed_url = t.committed_url
<1>1. t \in TabState
  BY DEF GoodTab
<1>2. /\ push_capped(t.back, Leaving(t)) \in Seq(HistoryEntry)
      /\ Len(push_capped(t.back, Leaving(t))) <= MAX_HISTORY_ENTRIES
  <2>1. t.back \in Seq(HistoryEntry) /\ Len(t.back) <= MAX_HISTORY_ENTRIES
    BY DEF GoodTab, TabState
  <2> QED BY <2>1, <1>1, LeavingType, PushCapped
<1>3. <<>> \in Seq(HistoryEntry) /\ Len(<<>>) <= MAX_HISTORY_ENTRIES
  BY TabAssumption
<1> DEFINE b == push_capped(t.back, Leaving(t))
           u == [t EXCEPT !.forward = <<>>, !.back = b]
<1>4. record_navigation(t) = u
  BY <1>1 DEF record_navigation, TabState
<1>5. b \in Seq(HistoryEntry) /\ Len(b) <= MAX_HISTORY_ENTRIES
  BY <1>2
<1> HIDE DEF b
<1>6. u \in TabState
  BY <1>1, <1>3, <1>5 DEF TabState
<1>7. u.back = b /\ u.forward = <<>> /\ u.inflight = t.inflight
      /\ u.committed_url = t.committed_url
  BY <1>1 DEF TabState
<1> QED BY <1>3, <1>4, <1>5, <1>6, <1>7 DEF GoodTab

\* Committing a document, in whichever way it ends, moves the origin to its
\* URL and leaves the commands in flight alone.
LEMMA Success ==
  ASSUME NEW t, GoodTab(t), NEW url \in URL,
         NEW u \in handle_navigate_success(t, url)
  PROVE  GoodTab(u) /\ u.committed_url = url
<1>1. t \in TabState
  BY DEF GoodTab
<1> DEFINE c == Commit(t, url)
           doc == NextLoad(t, url)
<1>2. /\ c \in TabState
      /\ c.committed_url = url /\ c.inflight = t.inflight
      /\ c.back = t.back /\ c.forward = t.forward
  BY <1>1 DEF Commit, TabState
<1>3. doc \in Document
  BY <1>1 DEF NextLoad, TabState, Document
<1>4. 0 \in Scrolls /\ NoScroll \notin Scrolls
  BY TabAssumption
<1> HIDE DEF c, doc
<1>5. u \in {reload_tab_document(c, doc), rejected(c), reload_failed(c, doc)}
  BY DEF handle_navigate_success, c, doc
<1>6. CASE u = reload_tab_document(c, doc)
  <2> DEFINE y == IF c.pending_scroll_restore = NoScroll THEN 0 ELSE c.pending_scroll_restore
  <2>1. y \in Scrolls
    BY <1>2, <1>4 DEF TabState
  <2>2. c.visited \cup {c.committed_url} \in SUBSET URL
    BY <1>2 DEF TabState
  <2> HIDE DEF y
  <2>3. u = [c EXCEPT !.url_registry = doc, !.dom = doc, !.store = {},
                      !.root_scroll_offset_y = y, !.pending_scroll_restore = NoScroll,
                      !.visited = c.visited \cup {c.committed_url}]
    BY <1>6, <1>2 DEF reload_tab_document, TabState, y
  <2>4. u \in TabState
    BY <2>1, <2>2, <2>3, <1>2, <1>3 DEF TabState
  <2>5. /\ u.committed_url = url /\ u.inflight = t.inflight
        /\ u.back = t.back /\ u.forward = t.forward
    BY <2>3, <1>2 DEF TabState
  <2> QED BY <2>4, <2>5 DEF GoodTab
<1>7. CASE u = rejected(c)
  BY <1>2, <1>7 DEF rejected, GoodTab
<1>8. CASE u = reload_failed(c, doc)
  <2>1. u \in TabState
    BY <1>2, <1>3, <1>8 DEF reload_failed, TabState
  <2>2. /\ u.committed_url = url /\ u.inflight = t.inflight
        /\ u.back = t.back /\ u.forward = t.forward
    BY <1>2, <1>8 DEF reload_failed, TabState
  <2> QED BY <2>1, <2>2 DEF GoodTab
<1> QED BY <1>5, <1>6, <1>7, <1>8

\* What an Allow verdict says about the URL it carries.
LEMMA Verdict ==
  ASSUME NEW current \in URL, NEW target \in Target, NEW i \in NavigationInitiator,
         ~(current.scheme = "file" /\ target.scheme = "bare"),
         NEW v \in check_navigation(current, target, i)
  PROVE  \/ /\ v = target /\ v.scheme = "file" /\ current.scheme = "file"
            /\ v \in URL
         \/ /\ v.scheme = "mizu" /\ v.name \in WellFormed /\ v \in URL
            /\ v = Mizu(v.name)
            /\ is_same_origin(current, v) \/ has_user_agency(i)
<1>1. v = Normalised(target)
  BY DEF check_navigation
<1>2. \/ v.scheme = "file" /\ current.scheme = "file"
      \/ /\ v.scheme = "mizu" /\ v.name \in WellFormed
         /\ is_same_origin(current, v) \/ has_user_agency(i)
  BY <1>1 DEF check_navigation
<1>3. CASE target.scheme = "bare"
  <2>1. v = Mizu(target.name)
    BY <1>1, <1>3 DEF Normalised
  <2>2. v.scheme = "mizu" /\ v.name = target.name
    BY <2>1 DEF Mizu
  <2>3. v \in URL
    BY <2>1, <2>2, <1>2, PolicyAssumption DEF URL, Mizu
  <2> QED BY <2>1, <2>2, <2>3, <1>2
<1>4. CASE target.scheme # "bare"
  <2>1. v = target
    BY <1>1, <1>4 DEF Normalised
  <2>2. target # AboutBlank
    BY <2>1, <1>2 DEF AboutBlank
  <2>3. target \in [scheme : {"mizu", "file", "http", "bare", "other"}, name : Names]
    BY <2>2 DEF Target
  <2>4. v.scheme \in {"mizu", "file"}
    BY <1>2
  <2>5. v \in [scheme : {"mizu", "file"}, name : Names]
    BY <2>1, <2>3, <2>4
  <2>6. v \in URL
    BY <2>5 DEF URL
  <2>7. CASE v.scheme = "mizu"
    <3>1. v = Mizu(v.name)
      BY <2>5, <2>7 DEF Mizu
    <3> QED BY <3>1, <2>6, <2>7, <1>2
  <2>8. CASE v.scheme = "file"
    BY <2>1, <2>6, <2>8, <1>2
  <2> QED BY <2>4, <2>7, <2>8
<1> QED BY <1>3, <1>4

\* What the resolution before the verdict says: a local document's target is a
\* file of its directory tree, any other target is passed on as it is.
LEMMA Resolution ==
  ASSUME NEW current \in URL, NEW target \in Target, target # AboutBlank,
         NEW r \in Resolved(current, target)
  PROVE  /\ r \in Target
         /\ ~(current.scheme = "file" /\ r.scheme = "bare")
         /\ current.scheme = "file" /\ r.scheme = "file" =>
              r.name \in Names /\ <<current.name, r.name>> \in Sandbox /\ r = File(r.name)
<1>1. target \in [scheme : {"mizu", "file", "http", "bare", "other"}, name : Names]
  BY DEF Target
<1>2. CASE current.scheme = "file" /\ target.scheme \in {"bare", "file"}
  <2>1. r = File(target.name) /\ <<current.name, target.name>> \in Sandbox
    BY <1>2 DEF Resolved, resolve_navigate_url
  <2>2. r.scheme = "file" /\ r.name = target.name
    BY <2>1 DEF File
  <2>3. r \in Target
    BY <2>1, <1>1 DEF Target, File
  <2> QED BY <2>1, <2>2, <2>3, <1>1
<1>3. CASE ~(current.scheme = "file" /\ target.scheme \in {"bare", "file"})
  BY <1>3 DEF Resolved
<1> QED BY <1>2, <1>3

\* An allowed navigation keeps the tab good and moves the origin, if it moves
\* it at all, to the URL that was allowed.
LEMMA AllowedStep ==
  ASSUME NEW t, GoodTab(t), NEW i \in NavigationInitiator, NEW chain \in Chain,
         chain.cause = "logic" => i.root = "DocumentLogic",
         NEW v \in URL,
         \/ v.scheme = "file"
         \/ /\ v.scheme = "mizu" /\ v.name \in WellFormed
            /\ is_same_origin(t.committed_url, v) \/ has_user_agency(i),
         NEW u \in Allowed(t, v, i, chain)
  PROVE  GoodTab(u) /\ (u.committed_url = t.committed_url \/ (v.scheme = "file" /\ u.committed_url = v))
<1> DEFINE fresh == ~i.redirect
           t1 == IF fresh THEN [t EXCEPT !.redirect_count = 0] ELSE t
           t2 == IF fresh /\ i.root # "HistoryStep" THEN record_navigation(t1) ELSE t1
<1>1. GoodTab(t1) /\ t1.committed_url = t.committed_url
  <2>1. t \in TabState
    BY DEF GoodTab
  <2> DEFINE w == [t EXCEPT !.redirect_count = 0]
  <2>2. /\ w \in TabState /\ w.back = t.back /\ w.forward = t.forward
        /\ w.inflight = t.inflight /\ w.committed_url = t.committed_url
    BY <2>1 DEF TabState
  <2>3. GoodTab(w)
    BY <2>2 DEF GoodTab
  <2> QED BY <2>2, <2>3
<1> HIDE DEF t1
<1>2. GoodTab(t2) /\ t2.committed_url = t.committed_url
  BY <1>1, RecordNavigation
<1> DEFINE d == DispatchNavigate(t2, v, i, chain)
<1>3. \/ v.scheme = "file" /\ (u = t2 \/ u \in handle_navigate_success(t2, v))
      \/ v.scheme # "file" /\ u = d
  BY DEF Allowed, t1
<1> HIDE DEF t2, d
<1>4. CASE v.scheme = "file"
  BY <1>2, <1>3, <1>4, Success
<1>5. CASE v.scheme # "file"
  <2> DEFINE c == [url |-> v, initiator |-> i, chain |-> chain, from |-> t2.committed_url]
  <2>1. t2 \in TabState
    BY <1>2 DEF GoodTab
  <2>2. c \in Command
    BY <2>1 DEF Command, TabState
  <2>3. CommandOK(c)
    <3>1. v.scheme = "mizu" /\ v.name \in WellFormed
      BY <1>5
    <3>2. ASSUME chain.cause = "logic" PROVE is_same_origin(t2.committed_url, v)
      BY <3>1, <3>2, <1>2 DEF has_user_agency
    <3> QED BY <3>1, <3>2 DEF CommandOK
  <2>4. u = [t2 EXCEPT !.loading = TRUE, !.inflight = t2.inflight \cup {c}]
    BY <1>3, <1>5, <2>1 DEF d, DispatchNavigate, TabState
  <2> HIDE DEF c
  <2>5. t2.inflight \cup {c} \in SUBSET Command
    BY <2>1, <2>2 DEF TabState
  <2>6. /\ u \in TabState /\ u.back = t2.back /\ u.forward = t2.forward
        /\ u.inflight = t2.inflight \cup {c} /\ u.committed_url = t2.committed_url
    BY <2>1, <2>4, <2>5 DEF TabState
  <2>7. GoodTab(u)
    BY <2>3, <2>6, <1>2 DEF GoodTab
  <2> QED BY <2>6, <2>7, <1>2
<1> QED BY <1>4, <1>5

\* The choke point: whatever the target and whoever asks, the tab stays good
\* and its origin moves as TabOrigin allows.
LEMMA Navigate ==
  ASSUME NEW t, GoodTab(t), NEW target \in Target, NEW i \in NavigationInitiator,
         NEW chain \in Chain,
         chain.cause = "logic" => i.root = "DocumentLogic",
         NEW u \in navigate_to_url(t, target, i, chain)
  PROVE  GoodTab(u) /\ OriginStep(t.committed_url, u.committed_url)
<1>1. t \in TabState /\ t.committed_url \in URL
  BY DEF GoodTab, TabState
<1> DEFINE t1 == IF i = HistoryStep THEN t ELSE [t EXCEPT !.pending_scroll_restore = NoScroll]
           resolved == Resolved(t.committed_url, target)
           verdict(r) == check_navigation(t.committed_url, r, i)
<1>2. GoodTab(t1) /\ t1.committed_url = t.committed_url
  <2> DEFINE w == [t EXCEPT !.pending_scroll_restore = NoScroll]
  <2>1. /\ w \in TabState /\ w.back = t.back /\ w.forward = t.forward
        /\ w.inflight = t.inflight /\ w.committed_url = t.committed_url
    BY <1>1 DEF TabState
  <2>2. GoodTab(w)
    BY <2>1 DEF GoodTab
  <2> QED BY <2>1, <2>2
<1> HIDE DEF t1
<1>3. CASE target = AboutBlank
  <2>1. u \in handle_navigate_success(t1, AboutBlank)
    BY <1>3 DEF navigate_to_url, t1
  <2>2. AboutBlank \in URL
    BY DEF URL
  <2> QED BY <2>1, <2>2, <1>2, Success DEF OriginStep
<1>4. CASE target # AboutBlank /\ u \in {SandboxEscape(t1), Blocked(t1)}
  <2>1. t1 \in TabState
    BY <1>2 DEF GoodTab
  <2>2. /\ u \in TabState /\ u.back = t1.back /\ u.forward = t1.forward
        /\ u.inflight = t1.inflight /\ u.committed_url = t1.committed_url
    <3>1. CASE u = SandboxEscape(t1)
      BY <3>1, <2>1 DEF SandboxEscape, TabState
    <3>2. CASE u = Blocked(t1)
      BY <3>2, <2>1 DEF Blocked, TabState
    <3> QED BY <3>1, <3>2, <1>4
  <2>3. GoodTab(u)
    BY <2>2, <1>2 DEF GoodTab
  <2> QED BY <2>2, <2>3, <1>2 DEF OriginStep
<1>5. CASE target # AboutBlank /\ u \notin {SandboxEscape(t1), Blocked(t1)}
  <2>1. PICK r \in resolved : \E v \in verdict(r) : u \in Allowed(t1, v, i, chain)
    BY <1>5 DEF navigate_to_url, t1
  <2>2. PICK v \in verdict(r) : u \in Allowed(t1, v, i, chain)
    BY <2>1
  <2>3. /\ r \in Target
        /\ ~(t.committed_url.scheme = "file" /\ r.scheme = "bare")
        /\ t.committed_url.scheme = "file" /\ r.scheme = "file" =>
              r.name \in Names /\ <<t.committed_url.name, r.name>> \in Sandbox
              /\ r = File(r.name)
    BY <2>1, <1>1, <1>5, Resolution
  <2>4. \/ /\ v = r /\ v.scheme = "file" /\ t.committed_url.scheme = "file"
           /\ v \in URL
        \/ /\ v.scheme = "mizu" /\ v.name \in WellFormed /\ v \in URL
           /\ v = Mizu(v.name)
           /\ is_same_origin(t.committed_url, v) \/ has_user_agency(i)
    BY <2>2, <2>3, <1>1, Verdict
  <2>5. /\ GoodTab(u)
        /\ \/ u.committed_url = t1.committed_url
           \/ v.scheme = "file" /\ u.committed_url = v
    BY <2>2, <2>4, <1>2, AllowedStep
  <2>6. OriginStep(t.committed_url, u.committed_url)
    <3>1. CASE u.committed_url = t1.committed_url
      BY <3>1, <1>2 DEF OriginStep
    <3>2. CASE v.scheme = "file" /\ u.committed_url = v
      BY <3>2, <2>3, <2>4 DEF OriginStep
    <3> QED BY <2>5, <3>1, <3>2
  <2> QED BY <2>5, <2>6
<1> QED BY <1>3, <1>4, <1>5

\* A navigation started by an input or an action keeps the tab good.
LEMMA Start ==
  ASSUME NEW t, GoodTab(t), NEW target \in Target, NEW i \in NavigationInitiator,
         NEW cause \in {"user", "logic", "history"},
         cause = "logic" => i.root = "DocumentLogic",
         NEW u \in StartChain(t, target, i, cause)
  PROVE  GoodTab(u) /\ OriginStep(t.committed_url, u.committed_url)
<1> DEFINE t1 == [t EXCEPT !.chains = @ + 1]
           chain == [id |-> t1.chains, cause |-> cause, hops |-> 0]
<1>1. t \in TabState
  BY DEF GoodTab
<1>2. /\ t1 \in TabState /\ t1.back = t.back /\ t1.forward = t.forward
      /\ t1.inflight = t.inflight /\ t1.committed_url = t.committed_url
  BY <1>1 DEF TabState
<1>3. GoodTab(t1)
  BY <1>2 DEF GoodTab
<1>4. chain \in Chain /\ chain.cause = cause
  BY <1>2 DEF Chain, TabState
<1>5. u \in navigate_to_url(t1, target, i, chain)
  BY DEF StartChain
<1> HIDE DEF t1, chain
<1> QED BY <1>2, <1>3, <1>4, <1>5, Navigate

\* Turning the spinner on or off changes nothing else.
LEMMA SpinnerOnly ==
  ASSUME NEW t, GoodTab(t), NEW b \in BOOLEAN
  PROVE  /\ GoodTab([t EXCEPT !.loading = b])
         /\ [t EXCEPT !.loading = b].committed_url = t.committed_url
<1> DEFINE w == [t EXCEPT !.loading = b]
<1>1. t \in TabState
  BY DEF GoodTab
<1>2. /\ w \in TabState /\ w.back = t.back /\ w.forward = t.forward
      /\ w.inflight = t.inflight /\ w.committed_url = t.committed_url
  BY <1>1 DEF TabState
<1> QED BY <1>2 DEF GoodTab

\* Counting a hop changes nothing else.
LEMMA CountRedirect ==
  ASSUME NEW t, GoodTab(t)
  PROVE  GoodTab(register_redirect(t)) /\ register_redirect(t).committed_url = t.committed_url
<1> DEFINE n == t.redirect_count + 1
           w == [t EXCEPT !.redirect_count = n]
<1>1. t \in TabState /\ n \in Nat
  BY DEF GoodTab, TabState
<1>2. register_redirect(t) = w
  BY <1>1 DEF register_redirect, TabState
<1> HIDE DEF n
<1>3. /\ w \in TabState /\ w.back = t.back /\ w.forward = t.forward
      /\ w.inflight = t.inflight /\ w.committed_url = t.committed_url
  BY <1>1 DEF TabState
<1> QED BY <1>2, <1>3 DEF GoodTab

\* An UpdateVariable sent to the running document is owed an answer.
LEMMA UpdateOnly ==
  ASSUME NEW t, GoodTab(t)
  PROVE  GoodTab(UpdateVariable(t)) /\ UpdateVariable(t).committed_url = t.committed_url
<1> DEFINE w == [t EXCEPT !.updates = t.updates \cup {t.dom}]
<1>1. t \in TabState
  BY DEF GoodTab
<1>2. UpdateVariable(t) = w
  BY <1>1 DEF UpdateVariable, TabState
<1>3. t.updates \cup {t.dom} \in SUBSET Document
  BY <1>1 DEF TabState
<1>4. /\ w \in TabState /\ w.back = t.back /\ w.forward = t.forward
      /\ w.inflight = t.inflight /\ w.committed_url = t.committed_url
  BY <1>1, <1>3 DEF TabState
<1> QED BY <1>2, <1>4 DEF GoodTab

\* One action of a batch keeps the tab good.
LEMMA ExecuteStep ==
  ASSUME NEW t, GoodTab(t), NEW a \in Action, NEW g \in BOOLEAN,
         NEW u \in Execute(t, a, g)
  PROVE  GoodTab(u) /\ OriginStep(t.committed_url, u.committed_url)
<1> DEFINE i == IF g THEN UserGesture ELSE DocumentLogic
           cause == IF g THEN "user" ELSE "logic"
<1>1. t \in TabState
  BY DEF GoodTab
<1>2. a.target \in Target
  BY TabAssumption DEF Action, Target
<1>3. \/ u = t
      \/ u = [t EXCEPT !.fetches = @ + 1]
      \/ u \in StartChain(Loading(t), a.target, i, cause)
  BY DEF Execute
<1>4. CASE u = t
  BY <1>4 DEF OriginStep
<1>5. CASE u = [t EXCEPT !.fetches = @ + 1]
  <2>1. /\ u \in TabState /\ u.back = t.back /\ u.forward = t.forward
        /\ u.inflight = t.inflight /\ u.committed_url = t.committed_url
    BY <1>1, <1>5 DEF TabState
  <2> QED BY <2>1 DEF GoodTab, OriginStep
<1>6. CASE u \in StartChain(Loading(t), a.target, i, cause)
  <2>1. GoodTab(Loading(t)) /\ Loading(t).committed_url = t.committed_url
    BY SpinnerOnly DEF Loading
  <2>2. /\ i \in NavigationInitiator
        /\ cause \in {"user", "logic", "history"}
        /\ cause = "logic" => i.root = "DocumentLogic"
    BY DEF NavigationInitiator, Root, UserGesture, DocumentLogic
  <2> HIDE DEF i, cause
  <2> QED BY <1>2, <1>6, <2>1, <2>2, Start
<1> QED BY <1>3, <1>4, <1>5, <1>6

\* Two moves in one batch are one move: no chain of commits gets further
\* than its first and last document allow.
LEMMA OriginStepTransitive ==
  ASSUME NEW a \in URL, NEW b \in URL, NEW c \in URL,
         OriginStep(a, b), OriginStep(b, c)
  PROVE  OriginStep(a, c)
<1>1. CASE c = b \/ c = AboutBlank \/ \E n \in WellFormed : c = Mizu(n)
  BY <1>1 DEF OriginStep
<1>2. CASE \E f \in Names : b.scheme = "file" /\ <<b.name, f>> \in Sandbox /\ c = File(f)
  <2>1. PICK f \in Names : b.scheme = "file" /\ <<b.name, f>> \in Sandbox /\ c = File(f)
    BY <1>2
  <2>2. b # AboutBlank /\ ~(\E n \in WellFormed : b = Mizu(n))
    BY <2>1 DEF AboutBlank, Mizu
  <2>3. CASE b = a
    BY <2>1, <2>3 DEF OriginStep
  <2>4. CASE \E g \in Names : a.scheme = "file" /\ <<a.name, g>> \in Sandbox /\ b = File(g)
    <3>1. PICK g \in Names : a.scheme = "file" /\ <<a.name, g>> \in Sandbox /\ b = File(g)
      BY <2>4
    <3>2. b.name = g
      BY <3>1 DEF File
    <3>3. a.name \in Names
      BY <3>1 DEF URL, AboutBlank
    <3>4. <<a.name, f>> \in Sandbox
      BY <3>1, <3>2, <3>3, <2>1, PolicyAssumption
    <3> QED BY <3>1, <3>4, <2>1 DEF OriginStep
  <2> QED BY <2>2, <2>3, <2>4 DEF OriginStep
<1> QED BY <1>1, <1>2 DEF OriginStep

\* Back and Forward move one entry between the stacks.
LEMMA HistoryMove ==
  ASSUME NEW t, GoodTab(t)
  PROVE  /\ t.back # <<>> => /\ GoodTab(go_back(t))
                             /\ go_back(t).committed_url = t.committed_url
                             /\ Last(t.back).url \in Target
         /\ t.forward # <<>> => /\ GoodTab(go_forward(t))
                                /\ go_forward(t).committed_url = t.committed_url
                                /\ Last(t.forward).url \in Target
<1>1. /\ t \in TabState
      /\ t.back \in Seq(HistoryEntry) /\ t.forward \in Seq(HistoryEntry)
      /\ Len(t.back) <= MAX_HISTORY_ENTRIES /\ Len(t.forward) <= MAX_HISTORY_ENTRIES
  BY DEF GoodTab, TabState
<1>2. MAX_HISTORY_ENTRIES \in Nat
  BY TabAssumption
<1>3. ASSUME NEW s \in Seq(HistoryEntry), s # <<>>, Len(s) <= MAX_HISTORY_ENTRIES
      PROVE  /\ Front(s) \in Seq(HistoryEntry) /\ Len(Front(s)) <= MAX_HISTORY_ENTRIES
             /\ Last(s) \in HistoryEntry
  <2>1. Len(s) \in Nat /\ Len(s) > 0
    BY <1>3
  <2>2. Last(s) \in HistoryEntry
    BY <1>3, <2>1 DEF Last
  <2>3. Front(s) \in Seq(HistoryEntry) /\ Len(Front(s)) = Len(s) - 1
    <3> DEFINE n == Len(s) - 1
               q == SubSeq(s, 1, n)
    <3>1. 1 \in Int /\ n \in Nat /\ n \in Int /\ \A k \in 1..n : s[k] \in HistoryEntry
      BY <1>3, <2>1
    <3>2. Front(s) = q
      BY DEF Front
    <3> HIDE DEF n
    <3>3. q \in Seq(HistoryEntry) /\ Len(q) = IF 1 <= n THEN n - 1 + 1 ELSE 0
      BY <3>1, SubSeqProperties
    <3> HIDE DEF q
    <3>4. Len(q) = n
      BY <3>1, <3>3
    <3> QED BY <3>2, <3>3, <3>4 DEF n
  <2> QED BY <2>1, <2>2, <2>3, <1>2, <1>3
<1>4. ASSUME NEW s \in Seq(HistoryEntry), Len(s) <= MAX_HISTORY_ENTRIES
      PROVE  /\ push_capped(s, Leaving(t)) \in Seq(HistoryEntry)
             /\ Len(push_capped(s, Leaving(t))) <= MAX_HISTORY_ENTRIES
  BY <1>1, <1>4, LeavingType, PushCapped
<1>5. ASSUME NEW e \in HistoryEntry PROVE e.url \in Target /\ e.scroll_y \in Scrolls
  BY DEF HistoryEntry, URL, Target
<1>6. ASSUME NEW b \in Seq(HistoryEntry), NEW f \in Seq(HistoryEntry), NEW y \in Scrolls,
             Len(b) <= MAX_HISTORY_ENTRIES, Len(f) <= MAX_HISTORY_ENTRIES
      PROVE  /\ GoodTab([t EXCEPT !.back = b, !.forward = f, !.pending_scroll_restore = y])
             /\ [t EXCEPT !.back = b, !.forward = f, !.pending_scroll_restore = y].committed_url
                  = t.committed_url
  <2> DEFINE w == [t EXCEPT !.back = b, !.forward = f, !.pending_scroll_restore = y]
  <2>1. /\ w \in TabState /\ w.back = b /\ w.forward = f
        /\ w.inflight = t.inflight /\ w.committed_url = t.committed_url
    BY <1>1, <1>6 DEF TabState
  <2> QED BY <1>6, <2>1 DEF GoodTab
<1>7. ASSUME t.back # <<>>
      PROVE  /\ GoodTab(go_back(t)) /\ go_back(t).committed_url = t.committed_url
             /\ Last(t.back).url \in Target
  <2> DEFINE b == Front(t.back)
             f == push_capped(t.forward, Leaving(t))
             y == Last(t.back).scroll_y
  <2>1. /\ b \in Seq(HistoryEntry) /\ Len(b) <= MAX_HISTORY_ENTRIES
        /\ Last(t.back) \in HistoryEntry
    BY <1>1, <1>3, <1>7
  <2>2. f \in Seq(HistoryEntry) /\ Len(f) <= MAX_HISTORY_ENTRIES
    BY <1>1, <1>4
  <2>3. y \in Scrolls /\ Last(t.back).url \in Target
    BY <2>1, <1>5
  <2>4. go_back(t) = [t EXCEPT !.back = b, !.forward = f, !.pending_scroll_restore = y]
    BY <1>1 DEF go_back, TabState
  <2> HIDE DEF b, f, y
  <2>5. /\ GoodTab([t EXCEPT !.back = b, !.forward = f, !.pending_scroll_restore = y])
        /\ [t EXCEPT !.back = b, !.forward = f, !.pending_scroll_restore = y].committed_url
             = t.committed_url
    BY <2>1, <2>2, <2>3, <1>6
  <2> QED BY <2>3, <2>4, <2>5
<1>8. ASSUME t.forward # <<>>
      PROVE  /\ GoodTab(go_forward(t)) /\ go_forward(t).committed_url = t.committed_url
             /\ Last(t.forward).url \in Target
  <2> DEFINE f == Front(t.forward)
             b == push_capped(t.back, Leaving(t))
             y == Last(t.forward).scroll_y
  <2>1. /\ f \in Seq(HistoryEntry) /\ Len(f) <= MAX_HISTORY_ENTRIES
        /\ Last(t.forward) \in HistoryEntry
    BY <1>1, <1>3, <1>8
  <2>2. b \in Seq(HistoryEntry) /\ Len(b) <= MAX_HISTORY_ENTRIES
    BY <1>1, <1>4
  <2>3. y \in Scrolls /\ Last(t.forward).url \in Target
    BY <2>1, <1>5
  <2>4. go_forward(t) = [t EXCEPT !.back = b, !.forward = f, !.pending_scroll_restore = y]
    BY <1>1 DEF go_forward, TabState
  <2> HIDE DEF b, f, y
  <2>5. /\ GoodTab([t EXCEPT !.back = b, !.forward = f, !.pending_scroll_restore = y])
        /\ [t EXCEPT !.back = b, !.forward = f, !.pending_scroll_restore = y].committed_url
             = t.committed_url
    BY <2>1, <2>2, <2>3, <1>6
  <2> QED BY <2>3, <2>4, <2>5
<1> QED BY <1>7, <1>8

-----------------------------------------------------------------------------
(* The specification *)

\* The first state satisfies the inductive invariant.
LEMMA InitIInv == Init => IInv
<1> SUFFICES ASSUME Init PROVE IInv
  OBVIOUS
<1>1. StartURL \in URL /\ DefaultURL \in URL
  BY TabAssumption DEF URL, File, AboutBlank
<1>2. 0 \in Scrolls /\ MAX_HISTORY_ENTRIES \in Nat /\ MaxInputs \in Nat /\ MaxEvents \in Nat
  BY TabAssumption
<1>3. [load |-> 0, url |-> StartURL] \in Document
  BY <1>1 DEF Document
<1>4. tab \in TabState
  BY <1>1, <1>2, <1>3 DEF Init, TabState
<1>5. tab.back = <<>> /\ tab.forward = <<>> /\ tab.inflight = {}
  BY DEF Init
<1>6. GoodTab(tab)
  BY <1>2, <1>4, <1>5 DEF GoodTab
<1> QED BY <1>2, <1>6 DEF IInv, Init

\* Every step keeps the tab good and moves its origin as TabOrigin allows.
LEMMA NextGood ==
  ASSUME IInv, Next
  PROVE  GoodTab(tab') /\ OriginStep(tab.committed_url, tab'.committed_url)
<1>1. GoodTab(tab) /\ tab \in TabState /\ batches \in Seq(Batch)
  BY DEF IInv, GoodTab
<1>2. Targets \subseteq Target
  BY TabAssumption
<1>3. /\ UserGesture \in NavigationInitiator
      /\ HistoryStep \in NavigationInitiator
  BY DEF UserGesture, HistoryStep, NavigationInitiator, Root
<1>4. GoodTab(Loading(tab)) /\ Loading(tab).committed_url = tab.committed_url
  BY <1>1, SpinnerOnly DEF Loading
<1>5. ASSUME NEW u \in Targets, UserNavigate(u)
      PROVE  GoodTab(tab') /\ OriginStep(tab.committed_url, tab'.committed_url)
  BY <1>2, <1>3, <1>4, <1>5, Start DEF UserNavigate
<1>6. ASSUME NEW u \in Targets, SidebarNavigate(u)
      PROVE  GoodTab(tab') /\ OriginStep(tab.committed_url, tab'.committed_url)
  BY <1>1, <1>2, <1>3, <1>6, Start DEF SidebarNavigate
<1>7. CASE Reload
  <2>1. tab.committed_url \in Target
    BY <1>1 DEF TabState, URL, Target
  <2> QED BY <2>1, <1>3, <1>4, <1>7, Start DEF Reload
<1>8. CASE navigate_back
  BY <1>1, <1>3, <1>8, HistoryMove, Start DEF navigate_back
<1>9. CASE navigate_forward
  BY <1>1, <1>3, <1>9, HistoryMove, Start DEF navigate_forward
<1>10. ASSUME NEW y \in Scrolls, Scroll(y)
       PROVE  GoodTab(tab') /\ OriginStep(tab.committed_url, tab'.committed_url)
  <2>1. /\ tab' \in TabState /\ tab'.back = tab.back /\ tab'.forward = tab.forward
        /\ tab'.inflight = tab.inflight /\ tab'.committed_url = tab.committed_url
    BY <1>1, <1>10 DEF Scroll, TabState
  <2> QED BY <2>1, <1>1 DEF GoodTab, OriginStep
<1>11. ASSUME NEW g \in BOOLEAN, SendEvent(g)
       PROVE  GoodTab(tab') /\ OriginStep(tab.committed_url, tab'.committed_url)
  BY <1>1, <1>11 DEF SendEvent, OriginStep
<1>12. ASSUME NEW a \in Action, NEW b \in Action, drain_logic_worker_results(a, b)
       PROVE  GoodTab(tab') /\ OriginStep(tab.committed_url, tab'.committed_url)
  <2> DEFINE h == Head(batches)
             mutated == [tab EXCEPT !.store = tab.store \cup {h.doc}]
  <2>1. h \in Batch
    BY <1>1, <1>12 DEF drain_logic_worker_results
  <2>2. h.doc \in Document /\ h.gesture \in BOOLEAN
    BY <2>1 DEF Batch
  <2>3. PICK t \in {tab, mutated} : \E u \in Execute(t, a, h.gesture) :
           tab' \in Execute(u, b, h.gesture)
    BY <1>1, <1>12 DEF drain_logic_worker_results, TabState
  <2>4. PICK u \in Execute(t, a, h.gesture) : tab' \in Execute(u, b, h.gesture)
    BY <2>3
  <2>5. GoodTab(mutated) /\ mutated.committed_url = tab.committed_url
    <3> HIDE DEF h
    <3>1. tab.store \cup {h.doc} \in SUBSET Document
      BY <1>1, <2>2 DEF TabState
    <3>2. /\ mutated \in TabState /\ mutated.back = tab.back /\ mutated.forward = tab.forward
          /\ mutated.inflight = tab.inflight /\ mutated.committed_url = tab.committed_url
      BY <1>1, <3>1 DEF TabState
    <3> QED BY <3>2, <1>1 DEF GoodTab
  <2> HIDE DEF h, mutated
  <2>6. GoodTab(t) /\ t.committed_url = tab.committed_url
    BY <1>1, <2>5
  <2>7. GoodTab(u) /\ OriginStep(t.committed_url, u.committed_url)
    BY <2>2, <2>4, <2>6, ExecuteStep
  <2>8. GoodTab(tab') /\ OriginStep(u.committed_url, tab'.committed_url)
    BY <2>2, <2>4, <2>7, ExecuteStep
  <2>9. /\ t.committed_url \in URL /\ u.committed_url \in URL
        /\ tab'.committed_url \in URL
    BY <2>6, <2>7, <2>8 DEF GoodTab, TabState
  <2> QED BY <2>6, <2>7, <2>8, <2>9, OriginStepTransitive
<1>13. ASSUME NEW d \in tab.updates, UpdateAnswered(d)
       PROVE  GoodTab(tab') /\ OriginStep(tab.committed_url, tab'.committed_url)
  <2>1. tab.updates \ {d} \in SUBSET Document /\ tab.store \cup {d} \in SUBSET Document
    BY <1>1, <1>13 DEF TabState
  <2>2. tab' = [tab EXCEPT !.updates = tab.updates \ {d}, !.store = tab.store \cup {d}]
    BY <1>1, <1>13 DEF UpdateAnswered, TabState
  <2>3. /\ tab' \in TabState /\ tab'.back = tab.back /\ tab'.forward = tab.forward
        /\ tab'.inflight = tab.inflight /\ tab'.committed_url = tab.committed_url
    BY <1>1, <2>1, <2>2 DEF TabState
  <2> QED BY <2>3, <1>1 DEF GoodTab, OriginStep
<1>14. ASSUME NEW c \in tab.inflight
       PROVE  /\ GoodTab(Answered(c)) /\ Answered(c).committed_url = tab.committed_url
              /\ c \in Command /\ CommandOK(c)
  <2> DEFINE w == [tab EXCEPT !.inflight = tab.inflight \ {c}]
  <2>1. Answered(c) = w
    BY <1>1 DEF Answered, TabState
  <2>2. tab.inflight \ {c} \in SUBSET Command
    BY <1>1 DEF TabState
  <2>3. /\ w \in TabState /\ w.back = tab.back /\ w.forward = tab.forward
        /\ w.inflight = tab.inflight \ {c} /\ w.committed_url = tab.committed_url
    BY <1>1, <2>2 DEF TabState
  <2>4. c \in Command /\ CommandOK(c)
    BY <1>1, <1>14 DEF GoodTab, TabState
  <2> QED BY <2>1, <2>3, <2>4, <1>1 DEF GoodTab
<1>15. ASSUME NEW c \in tab.inflight, NavigateSuccess(c)
       PROVE  GoodTab(tab') /\ OriginStep(tab.committed_url, tab'.committed_url)
  <2>1. c.url \in URL /\ c.url.scheme = "mizu" /\ c.url.name \in WellFormed
    BY <1>14 DEF Command, CommandOK
  <2>2. c.url = Mizu(c.url.name)
    BY <2>1 DEF URL, Mizu, AboutBlank
  <2>3. GoodTab(tab') /\ tab'.committed_url = c.url
    BY <2>1, <1>14, <1>15, Success DEF NavigateSuccess
  <2> QED BY <2>1, <2>2, <2>3 DEF OriginStep
<1>16. ASSUME NEW c \in tab.inflight, NavigateError(c)
       PROVE  GoodTab(tab') /\ OriginStep(tab.committed_url, tab'.committed_url)
  <2> DEFINE w == [Answered(c) EXCEPT !.loading = FALSE]
  <2>1. GoodTab(w) /\ w.committed_url = tab.committed_url
    <3>1. GoodTab(Answered(c)) /\ Answered(c).committed_url = tab.committed_url
      BY <1>14
    <3> QED BY <3>1, SpinnerOnly
  <2>2. tab' = UpdateVariable(w)
    BY <1>16 DEF NavigateError
  <2> HIDE DEF w
  <2> QED BY <2>1, <2>2, UpdateOnly DEF OriginStep
<1>17. ASSUME NEW c \in tab.inflight, NEW r \in Targets, NavigationRedirect(c, r)
       PROVE  GoodTab(tab') /\ OriginStep(tab.committed_url, tab'.committed_url)
  <2> DEFINE t == register_redirect(Answered(c))
             chain == [c.chain EXCEPT !.hops = CountHop(@)]
             w == [t EXCEPT !.loading = FALSE]
  <2>1. GoodTab(t) /\ t.committed_url = tab.committed_url
    BY <1>14, CountRedirect
  <2>2. /\ redirect_of(c.initiator) \in NavigationInitiator
        /\ redirect_of(c.initiator).root = c.initiator.root
    BY <1>14 DEF redirect_of, Command, NavigationInitiator
  <2>3. chain \in Chain /\ chain.cause = c.chain.cause
    BY <1>14, TabAssumption DEF Command, Chain, CountHop
  <2>4. chain.cause = "logic" => redirect_of(c.initiator).root = "DocumentLogic"
    BY <2>2, <2>3, <1>14 DEF CommandOK
  <2>5. GoodTab(w) /\ w.committed_url = tab.committed_url
    BY <2>1, SpinnerOnly
  <2>6. \/ tab' \in navigate_to_url(t, r, redirect_of(c.initiator), chain)
        \/ tab' = UpdateVariable(w)
    BY <1>17 DEF NavigationRedirect
  <2> HIDE DEF t, chain, w
  <2>7. CASE tab' \in navigate_to_url(t, r, redirect_of(c.initiator), chain)
    BY <1>2, <2>1, <2>2, <2>3, <2>4, <2>7, Navigate
  <2>8. CASE tab' = UpdateVariable(w)
    BY <2>5, <2>8, UpdateOnly DEF OriginStep
  <2> QED BY <2>6, <2>7, <2>8
<1>18. CASE FetchAnswered
  <2>1. PICK b \in {tab.loading, FALSE} :
          tab' = UpdateVariable([tab EXCEPT !.fetches = @ - 1, !.loading = b])
    BY <1>18 DEF FetchAnswered
  <2> DEFINE n == tab.fetches - 1
             w == [tab EXCEPT !.fetches = n, !.loading = b]
  <2>5. tab.fetches \in Nat /\ tab.loading \in BOOLEAN
    BY <1>1 DEF TabState
  <2>6. n \in Nat
    <3>1. tab.fetches > 0
      BY <1>18 DEF FetchAnswered
    <3> QED BY <3>1, <2>5
  <2>7. b \in BOOLEAN
    BY <2>1, <2>5, Zenon
  <2>0. n \in Nat /\ b \in BOOLEAN
    BY <2>6, <2>7, Zenon
  <2>4. tab' = UpdateVariable(w)
    BY <2>1, <1>1 DEF TabState
  <2> HIDE DEF n
  <2>2. /\ w \in TabState /\ w.back = tab.back /\ w.forward = tab.forward
        /\ w.inflight = tab.inflight /\ w.committed_url = tab.committed_url
    BY <1>1, <2>0 DEF TabState
  <2>3. GoodTab(w)
    BY <2>2, <1>1 DEF GoodTab
  <2> HIDE DEF w
  <2> QED BY <2>2, <2>3, <2>4, UpdateOnly DEF OriginStep
<1> QED
  BY <1>5, <1>6, <1>7, <1>8, <1>9, <1>10, <1>11, <1>12, <1>13, <1>15, <1>16, <1>17, <1>18
  DEF Next

\* Every step keeps the inductive invariant and moves the origin as allowed.
LEMMA NextIInv ==
  ASSUME IInv, [Next]_vars
  PROVE  IInv' /\ OriginStep(tab.committed_url, tab'.committed_url)
<1>1. CASE UNCHANGED vars
  BY <1>1 DEF vars, IInv, GoodTab, CommandOK, OriginStep
<1>2. CASE Next
  <2>1. GoodTab(tab') /\ OriginStep(tab.committed_url, tab'.committed_url)
    BY <1>2, NextGood
  <2>2. batches \in Seq(Batch) /\ inputs \in 0..MaxInputs /\ events \in 0..MaxEvents
        /\ MaxInputs \in Nat /\ MaxEvents \in Nat
    BY TabAssumption DEF IInv
  <2>3. inputs' \in 0..MaxInputs
    <3>1. inputs' = inputs \/ (Input)
      BY <1>2, Zenon DEF Next, UserNavigate, SidebarNavigate, Reload, navigate_back,
         navigate_forward, Scroll, SendEvent, drain_logic_worker_results, UpdateAnswered,
         NavigateSuccess, NavigateError, NavigationRedirect, FetchAnswered
    <3> QED BY <2>2, <3>1 DEF Input
  <2>4. events' \in 0..MaxEvents
    <3>1. events' = events \/ (events < MaxEvents /\ events' = events + 1)
      BY <1>2, Zenon DEF Next, UserNavigate, SidebarNavigate, Reload, navigate_back,
         navigate_forward, Scroll, SendEvent, drain_logic_worker_results, UpdateAnswered,
         NavigateSuccess, NavigateError, NavigationRedirect, FetchAnswered
    <3> QED BY <2>2, <3>1
  <2>5. \/ batches' = batches
        \/ \E g \in BOOLEAN : SendEvent(g)
        \/ batches # <<>> /\ batches' = Tail(batches)
    BY <1>2 DEF Next, UserNavigate, SidebarNavigate, Reload, navigate_back,
       navigate_forward, Scroll, drain_logic_worker_results, UpdateAnswered,
       NavigateSuccess, NavigateError, NavigationRedirect, FetchAnswered
  <2>6. batches' \in Seq(Batch)
    <3>1. CASE \E g \in BOOLEAN : SendEvent(g)
      <4>1. PICK g \in BOOLEAN : batches' = Append(batches, [doc |-> tab.dom, gesture |-> g])
        BY <3>1 DEF SendEvent
      <4>2. [doc |-> tab.dom, gesture |-> g] \in Batch
        BY <4>1 DEF IInv, GoodTab, TabState, Batch
      <4> QED BY <2>2, <4>1, <4>2
    <3> QED BY <2>2, <2>5, <3>1
  <2>7. IInv' <=> /\ GoodTab(tab') /\ batches' \in Seq(Batch)
                  /\ inputs' \in 0..MaxInputs /\ events' \in 0..MaxEvents
    BY Zenon DEF IInv, GoodTab, CommandOK
  <2> QED BY <2>1, <2>3, <2>4, <2>6, <2>7
<1> QED BY <1>1, <1>2

\* The inductive invariant holds of every reachable state.
LEMMA Invariance == Spec => []IInv
<1>1. Init => IInv
  BY InitIInv
<1>2. IInv /\ [Next]_vars => IInv'
  BY NextIInv
<1> QED BY <1>1, <1>2, PTL DEF Spec

-----------------------------------------------------------------------------
(* The theorems *)

\* The fields keep their types and no run of navigations, history steps and
\* redirects makes a history stack outgrow MAX_HISTORY_ENTRIES.
THEOREM TypeCorrect == Spec => []TypeOK
<1>1. IInv => TypeOK
  BY DEF IInv, GoodTab, TypeOK
<1> QED BY <1>1, Invariance, PTL

\* A navigation that document logic caused without a gesture is only ever
\* requested from the origin it was authorised from, through any number of
\* server redirects (check_navigation, redirect_of).
THEOREM LogicNavigationsStayHome == Spec => []LogicStaysHome
<1>1. IInv => LogicStaysHome
  BY DEF IInv, GoodTab, CommandOK, LogicStaysHome
<1> QED BY <1>1, Invariance, PTL

\* The network worker is only ever sent mizu:// URLs with a well-formed host.
THEOREM NetworkSeesFetchable == Spec => []OnlyFetchable
<1>1. IInv => OnlyFetchable
  BY DEF IInv, GoodTab, CommandOK, OnlyFetchable
<1> QED BY <1>1, Invariance, PTL

\* The origin of a tab moves as TabOrigin allows: every step of a handler is
\* a step of the abstract specification or leaves the origin alone.
THEOREM ImplementsTabOrigin == Spec => OriginMovesAsAllowed
<1>1. Init => Origin!Init
  BY DEF Init, Origin!Init
<1>2. IInv /\ [Next]_vars => [Origin!Next]_(tab.committed_url)
  <2> SUFFICES ASSUME IInv, [Next]_vars
               PROVE  [Origin!Next]_(tab.committed_url)
    OBVIOUS
  <2>1. OriginStep(tab.committed_url, tab'.committed_url)
    BY NextIInv
  <2> QED BY <2>1 DEF OriginStep, Origin!Next, Origin!GoBlank, Origin!GoLocal,
                      Origin!GoRemote, Origin!AboutBlank, Origin!File, Origin!Mizu,
                      AboutBlank, File, Mizu
<1> QED BY <1>1, <1>2, Invariance, PTL DEF Spec, OriginMovesAsAllowed, Origin!Spec

\* From file to file a tab stays in the directory tree of the document the
\* browser was started on (resolve_navigate_url, file_sandbox_contains), and
\* once it shows anything else it never shows a file again.
THEOREM LocalFilesStayLocal == Spec => []FileStaysInSandbox
<1>1. Init => FileStaysInSandbox
  BY TabAssumption, PolicyAssumption
  DEF Init, FileStaysInSandbox, AboutBlank, File
<1>2. IInv /\ FileStaysInSandbox /\ [Next]_vars => FileStaysInSandbox'
  <2> SUFFICES ASSUME IInv, FileStaysInSandbox, [Next]_vars,
                      tab'.committed_url.scheme = "file"
               PROVE  /\ StartURL.scheme = "file"
                      /\ <<StartURL.name, tab'.committed_url.name>> \in Sandbox
    BY DEF FileStaysInSandbox
  <2>1. OriginStep(tab.committed_url, tab'.committed_url)
    BY NextIInv
  <2>2. CASE tab'.committed_url = tab.committed_url
    BY <2>2 DEF FileStaysInSandbox
  <2>3. CASE \E f \in Names : /\ tab.committed_url.scheme = "file"
                              /\ <<tab.committed_url.name, f>> \in Sandbox
                              /\ tab'.committed_url = File(f)
    <3>1. PICK f \in Names : /\ tab.committed_url.scheme = "file"
                             /\ <<tab.committed_url.name, f>> \in Sandbox
                             /\ tab'.committed_url = File(f)
      BY <2>3
    <3>2. /\ StartURL.scheme = "file"
          /\ <<StartURL.name, tab.committed_url.name>> \in Sandbox
      BY <3>1 DEF FileStaysInSandbox
    <3>3. tab.committed_url.name \in Names /\ StartURL.name \in Names
      BY <3>1, <3>2, TabAssumption, PolicyAssumption
      DEF IInv, GoodTab, TabState, URL, AboutBlank, File
    <3>4. tab'.committed_url.name = f
      BY <3>1 DEF File
    <3>5. <<StartURL.name, f>> \in Sandbox
      BY <3>1, <3>2, <3>3, PolicyAssumption
    <3> QED BY <3>2, <3>4, <3>5
  <2>4. ~ (tab'.committed_url = AboutBlank \/ \E n \in WellFormed : tab'.committed_url = Mizu(n))
    <3>1. AboutBlank.scheme # "file" /\ \A n : Mizu(n).scheme # "file"
      BY DEF AboutBlank, Mizu
    <3> QED BY <3>1, Zenon
  <2> QED BY <2>1, <2>2, <2>3, <2>4 DEF OriginStep
<1> QED BY <1>1, <1>2, Invariance, PTL DEF Spec

\* The three together: what the handlers of a tab keep up, as the runs check it.
THEOREM TabSafe == Spec => []TabInv
BY TypeCorrect, NetworkSeesFetchable, LocalFilesStayLocal, PTL DEF TabInv

-----------------------------------------------------------------------------
(* Chains of redirects, and the scroll offset a history step restores.  Both   *)
(* are kept in fields of the tab that every navigation shares, so the argument *)
(* follows which chain is the latest, and which are still in flight.           *)

\* One navigation started: at most one command is in flight, and the shared
\* counter has counted at least its hops.
LoneTab(t) ==
  /\ t.chains = 0 => t.inflight = {}
  /\ t.chains = 1 => \A c, d \in t.inflight : c = d
  /\ t.chains = 1 => \A c \in t.inflight :
                        c.chain.hops <= t.redirect_count /\ c.chain.hops <= MAX_REDIRECTS

\* A scroll offset that waits belongs to the navigation started last.
ScrollOwned(t) ==
  t.pending_scroll_restore # NoScroll =>
     \A c \in t.inflight : c.chain.id = t.chains => c.chain.cause = "history"

ChainsKnown(t) == \A c \in t.inflight : c.chain.id <= t.chains

ChainTab(t) == GoodTab(t) /\ LoneTab(t) /\ ScrollOwned(t) /\ ChainsKnown(t)

\* The inductive invariant of this part.
ChainIInv == IInv /\ ChainTab(tab)

\* What navigate_to_url does to chains, whatever it decides.
Effect(t, u, i, chain) ==
  /\ u.chains = t.chains
  /\ u.pending_scroll_restore \in {t.pending_scroll_restore, NoScroll}
  /\ i # HistoryStep => u.pending_scroll_restore = NoScroll
  /\ \/ u.inflight = t.inflight
     \/ /\ \E c : c.chain = chain /\ u.inflight = t.inflight \cup {c}
        /\ i.redirect => u.redirect_count = t.redirect_count

\* A commit leaves the commands in flight and the chains alone, and takes the
\* scroll offset that waits or leaves it.
LEMMA SuccessEffect ==
  ASSUME NEW t \in TabState, NEW url \in URL, NEW u \in handle_navigate_success(t, url)
  PROVE  /\ u.chains = t.chains /\ u.inflight = t.inflight
         /\ u.pending_scroll_restore \in {t.pending_scroll_restore, NoScroll}
         /\ u.dom # t.dom /\ u.root_scroll_offset_y # 0 => t.pending_scroll_restore # NoScroll
<1> DEFINE c == Commit(t, url)
           doc == NextLoad(t, url)
<1>1. /\ c \in TabState /\ c.chains = t.chains /\ c.inflight = t.inflight /\ c.dom = t.dom
      /\ c.pending_scroll_restore = t.pending_scroll_restore
  BY DEF Commit, TabState
<1> HIDE DEF c, doc
<1>2. u \in {reload_tab_document(c, doc), rejected(c), reload_failed(c, doc)}
  BY DEF handle_navigate_success, c, doc
<1>3. CASE u = reload_tab_document(c, doc)
  <2>1. /\ u.chains = c.chains /\ u.inflight = c.inflight /\ u.pending_scroll_restore = NoScroll
        /\ c.pending_scroll_restore = NoScroll => u.root_scroll_offset_y = 0
    BY <1>1, <1>3 DEF reload_tab_document, TabState
  <2> QED BY <1>1, <2>1
<1>4. CASE u = rejected(c) BY <1>1, <1>4 DEF rejected
<1>5. CASE u = reload_failed(c, doc) BY <1>1, <1>5 DEF reload_failed, TabState
<1> QED BY <1>2, <1>3, <1>4, <1>5

\* An allowed navigation adds one command of its chain, or none; a redirect keeps
\* the counter.
LEMMA AllowedEffect ==
  ASSUME NEW t, GoodTab(t), NEW i \in NavigationInitiator, NEW chain \in Chain, NEW v \in URL,
         NEW u \in Allowed(t, v, i, chain)
  PROVE  /\ u.chains = t.chains
         /\ u.pending_scroll_restore \in {t.pending_scroll_restore, NoScroll}
         /\ \/ u.inflight = t.inflight
            \/ /\ \E c : c.chain = chain /\ u.inflight = t.inflight \cup {c}
               /\ i.redirect => u.redirect_count = t.redirect_count
         /\ v.scheme # "file" => u.dom = t.dom
<1> DEFINE w == [t EXCEPT !.redirect_count = 0]
           t1 == IF ~i.redirect THEN w ELSE t
           t2 == IF ~i.redirect /\ i.root # "HistoryStep" THEN record_navigation(t1) ELSE t1
<1>0. t \in TabState BY DEF GoodTab
<1>1. /\ w \in TabState /\ w.chains = t.chains /\ w.inflight = t.inflight /\ w.dom = t.dom
      /\ w.pending_scroll_restore = t.pending_scroll_restore
      /\ w.back = t.back /\ w.forward = t.forward
  BY <1>0 DEF TabState
<1>2. /\ GoodTab(t1) /\ t1 \in TabState
      /\ t1.chains = t.chains /\ t1.inflight = t.inflight /\ t1.dom = t.dom
      /\ t1.pending_scroll_restore = t.pending_scroll_restore
      /\ i.redirect => t1.redirect_count = t.redirect_count
  <2> HIDE DEF w
  <2> QED BY <1>0, <1>1 DEF GoodTab
<1> HIDE DEF t1
<1>3. /\ GoodTab(t2)
      /\ t2.chains = t.chains /\ t2.inflight = t.inflight /\ t2.dom = t.dom
      /\ t2.pending_scroll_restore = t.pending_scroll_restore
      /\ i.redirect => t2.redirect_count = t.redirect_count
  <2> DEFINE n == record_navigation(t1)
  <2>1. GoodTab(n) BY <1>2, RecordNavigation
  <2>2. /\ n.chains = t1.chains /\ n.inflight = t1.inflight /\ n.dom = t1.dom
        /\ n.pending_scroll_restore = t1.pending_scroll_restore
    BY <1>2 DEF record_navigation, TabState
  <2> HIDE DEF n
  <2>3. t2 = t1 \/ (~i.redirect /\ t2 = n) BY DEF n
  <2> QED BY <1>2, <2>1, <2>2, <2>3
<1> DEFINE d == DispatchNavigate(t2, v, i, chain)
<1>4. \/ v.scheme = "file" /\ (u = t2 \/ u \in handle_navigate_success(t2, v))
      \/ v.scheme # "file" /\ u = d
  BY DEF Allowed, t1
<1> HIDE DEF t2, d
<1>5. t2 \in TabState BY <1>3 DEF GoodTab
<1>6. CASE v.scheme = "file"
  BY <1>3, <1>4, <1>5, <1>6, SuccessEffect
<1>7. CASE v.scheme # "file"
  <2> DEFINE c == [url |-> v, initiator |-> i, chain |-> chain, from |-> t2.committed_url]
  <2>1. c.chain = chain OBVIOUS
  <2>2. u = [t2 EXCEPT !.loading = TRUE, !.inflight = t2.inflight \cup {c}]
    BY <1>4, <1>5, <1>7 DEF d, DispatchNavigate, TabState
  <2> HIDE DEF c
  <2>3. /\ u.chains = t2.chains /\ u.inflight = t2.inflight \cup {c} /\ u.dom = t2.dom
        /\ u.pending_scroll_restore = t2.pending_scroll_restore
        /\ u.redirect_count = t2.redirect_count
    BY <1>5, <2>2 DEF TabState
  <2> QED BY <1>3, <2>1, <2>3
<1> QED BY <1>6, <1>7

\* The choke point adds one command of the chain it is called for, or none, and
\* only a history step keeps the scroll offset; a server's redirect never changes
\* the document by itself.
LEMMA NavigateEffect ==
  ASSUME NEW t, GoodTab(t), NEW target \in Target, NEW i \in NavigationInitiator,
         NEW chain \in Chain, NEW u \in navigate_to_url(t, target, i, chain)
  PROVE  Effect(t, u, i, chain) /\ (target.scheme \in {"mizu", "http"} => u.dom = t.dom)
<1>1. t \in TabState /\ t.committed_url \in URL
  BY DEF GoodTab, TabState
<1> DEFINE w == [t EXCEPT !.pending_scroll_restore = NoScroll]
           t1 == IF i = HistoryStep THEN t ELSE w
           resolved == Resolved(t.committed_url, target)
           verdict(r) == check_navigation(t.committed_url, r, i)
<1>2. /\ w \in TabState /\ w.chains = t.chains /\ w.inflight = t.inflight /\ w.dom = t.dom
      /\ w.pending_scroll_restore = NoScroll /\ w.redirect_count = t.redirect_count
      /\ w.back = t.back /\ w.forward = t.forward /\ w.committed_url = t.committed_url
  BY <1>1 DEF TabState
<1>3. /\ GoodTab(t1) /\ t1 \in TabState /\ t1.committed_url = t.committed_url
      /\ t1.chains = t.chains /\ t1.inflight = t.inflight /\ t1.dom = t.dom
      /\ t1.pending_scroll_restore \in {t.pending_scroll_restore, NoScroll}
      /\ i # HistoryStep => t1.pending_scroll_restore = NoScroll
      /\ t1.redirect_count = t.redirect_count
  <2> HIDE DEF w
  <2> QED BY <1>1, <1>2 DEF GoodTab
<1> HIDE DEF t1, w
<1>4. CASE target = AboutBlank
  <2>1. u \in handle_navigate_success(t1, AboutBlank) /\ AboutBlank \in URL
    BY <1>4 DEF navigate_to_url, t1, w, URL
  <2>2. target.scheme \notin {"mizu", "http"} BY <1>4 DEF AboutBlank
  <2> QED BY <1>3, <2>1, <2>2, SuccessEffect DEF Effect
<1>5. CASE target # AboutBlank /\ u \in {SandboxEscape(t1), Blocked(t1)}
  <2>1. /\ u.chains = t1.chains /\ u.inflight = t1.inflight /\ u.dom = t1.dom
        /\ u.pending_scroll_restore \in {t1.pending_scroll_restore, NoScroll}
    <3>1. CASE u = SandboxEscape(t1) BY <1>3, <3>1 DEF SandboxEscape, TabState
    <3>2. CASE u = Blocked(t1) BY <1>3, <3>2 DEF Blocked, TabState
    <3> QED BY <1>5, <3>1, <3>2
  <2> QED BY <1>3, <2>1 DEF Effect
<1>6. CASE target # AboutBlank /\ u \notin {SandboxEscape(t1), Blocked(t1)}
  <2>1. PICK r \in resolved : \E v \in verdict(r) : u \in Allowed(t1, v, i, chain)
    BY <1>6 DEF navigate_to_url, t1, w
  <2>2. PICK v \in verdict(r) : u \in Allowed(t1, v, i, chain) BY <2>1
  <2>3. r \in Target /\ ~(t.committed_url.scheme = "file" /\ r.scheme = "bare")
    BY <2>1, <1>1, <1>6, Resolution
  <2>4. v \in URL /\ (v.scheme = "file" => v = r)
    BY <2>2, <2>3, <1>1, Verdict
  <2>5. target.scheme \in {"mizu", "http"} => r = target
    BY <2>1 DEF Resolved
  <2>6. target.scheme \in {"mizu", "http"} => v.scheme # "file"
    BY <2>4, <2>5
  <2>7. /\ u.chains = t1.chains
        /\ u.pending_scroll_restore \in {t1.pending_scroll_restore, NoScroll}
        /\ \/ u.inflight = t1.inflight
           \/ /\ \E c : c.chain = chain /\ u.inflight = t1.inflight \cup {c}
              /\ i.redirect => u.redirect_count = t1.redirect_count
        /\ v.scheme # "file" => u.dom = t1.dom
    BY <1>3, <2>2, <2>4, AllowedEffect
  <2> QED BY <1>3, <2>6, <2>7 DEF Effect
<1> QED BY <1>4, <1>5, <1>6

\* A new chain: whatever scroll offset waited, it is now the new chain's or gone.
LEMMA StartChained ==
  ASSUME NEW t, GoodTab(t), LoneTab(t), ChainsKnown(t),
         NEW target \in Target, NEW i \in NavigationInitiator,
         NEW cause \in {"user", "logic", "history"},
         cause = "logic" => i.root = "DocumentLogic",
         i = HistoryStep => cause = "history", ~i.redirect,
         NEW u \in StartChain(t, target, i, cause)
  PROVE  ChainTab(u) /\ t.inflight \subseteq u.inflight
<1> DEFINE t1 == [t EXCEPT !.chains = @ + 1]
           chain == [id |-> t1.chains, cause |-> cause, hops |-> 0]
<1>1. t \in TabState /\ t.chains \in Nat BY DEF GoodTab, TabState
<1>2. /\ t1 \in TabState /\ t1.back = t.back /\ t1.forward = t.forward
      /\ t1.inflight = t.inflight /\ t1.chains = t.chains + 1
  BY <1>1 DEF TabState
<1>3. GoodTab(t1) BY <1>2 DEF GoodTab
<1>4. chain \in Chain /\ chain.cause = cause /\ chain.id = t.chains + 1 /\ chain.hops = 0
  BY <1>1, <1>2 DEF Chain, TabState
<1>5. u \in navigate_to_url(t1, target, i, chain) BY DEF StartChain
<1>6. GoodTab(u) BY Start
<1> HIDE DEF t1, chain
<1>7. Effect(t1, u, i, chain) BY <1>3, <1>4, <1>5, NavigateEffect
<1>8. u.chains = t.chains + 1 /\ u.redirect_count \in Nat
  BY <1>2, <1>6, <1>7 DEF Effect, GoodTab, TabState
<1>9. ASSUME NEW c \in u.inflight PROVE c \in t.inflight \/ c.chain = chain
  BY <1>2, <1>7 DEF Effect
<1>10. ASSUME NEW c \in t.inflight PROVE c.chain.id <= t.chains /\ c.chain.id \in Nat
  BY <1>1 DEF ChainsKnown, TabState, Command, Chain
<1>11. ChainsKnown(u) BY <1>1, <1>4, <1>8, <1>9, <1>10 DEF ChainsKnown
<1>12. ScrollOwned(u)
  <2> SUFFICES ASSUME u.pending_scroll_restore # NoScroll,
                      NEW c \in u.inflight, c.chain.id = u.chains
               PROVE  c.chain.cause = "history"
    BY DEF ScrollOwned
  <2>1. cause = "history" BY <1>7 DEF Effect
  <2>2. c \notin t.inflight BY <1>1, <1>8, <1>10
  <2> QED BY <1>4, <1>9, <2>1, <2>2
<1>13. LoneTab(u)
  <2>1. CASE t.chains = 0
    <3>1. t1.inflight = {} BY <1>2, <2>1 DEF LoneTab
    <3>2. /\ \A c, d \in u.inflight : c = d
          /\ \A c \in u.inflight : c.chain.hops = 0
      BY <1>4, <1>7, <3>1 DEF Effect
    <3> QED BY <1>8, <2>1, <3>2, TabAssumption DEF LoneTab
  <2>2. CASE t.chains # 0 BY <1>1, <1>8, <2>2 DEF LoneTab
  <2> QED BY <2>1, <2>2
<1>14. t.inflight \subseteq u.inflight BY <1>2, <1>7 DEF Effect
<1> QED BY <1>6, <1>11, <1>12, <1>13, <1>14 DEF ChainTab

\* A step that starts nothing and resets no counter keeps the chains as they are.
LEMMA SameChains ==
  ASSUME NEW t, ChainTab(t), NEW u, GoodTab(u),
         u.chains = t.chains, u.inflight \subseteq t.inflight,
         u.pending_scroll_restore \in {t.pending_scroll_restore, NoScroll},
         u.redirect_count = t.redirect_count \/ \A c \in u.inflight : FALSE
  PROVE  ChainTab(u)
<1>1. ScrollOwned(u) /\ ChainsKnown(u) BY DEF ChainTab, ScrollOwned, ChainsKnown
<1>2. LoneTab(u) BY DEF ChainTab, LoneTab
<1> QED BY <1>1, <1>2 DEF ChainTab

\* One action of a batch: it starts a chain or touches none.
LEMMA ExecuteChained ==
  ASSUME NEW t, ChainTab(t), NEW a \in Action, NEW g \in BOOLEAN, NEW u \in Execute(t, a, g)
  PROVE  ChainTab(u) /\ t.inflight \subseteq u.inflight
<1> DEFINE i == IF g THEN UserGesture ELSE DocumentLogic
           cause == IF g THEN "user" ELSE "logic"
<1>1. GoodTab(t) /\ t \in TabState BY DEF ChainTab, GoodTab
<1>2. a.target \in Target BY TabAssumption DEF Action, Target
<1>3. \/ u = t
      \/ u = [t EXCEPT !.fetches = @ + 1]
      \/ u \in StartChain(Loading(t), a.target, i, cause)
  BY DEF Execute
<1>4. CASE u = t BY <1>4
<1>5. CASE u = [t EXCEPT !.fetches = @ + 1]
  <2>1. GoodTab(u) BY <1>1, ExecuteStep
  <2>2. /\ u.chains = t.chains /\ u.inflight = t.inflight
        /\ u.pending_scroll_restore = t.pending_scroll_restore
        /\ u.redirect_count = t.redirect_count
    BY <1>1, <1>5 DEF TabState
  <2> QED BY <2>1, <2>2, SameChains
<1>6. CASE u \in StartChain(Loading(t), a.target, i, cause)
  <2> DEFINE l == Loading(t)
  <2>1. GoodTab(l) BY <1>1, SpinnerOnly DEF Loading
  <2>2. l.chains = t.chains /\ l.inflight = t.inflight /\ l.redirect_count = t.redirect_count
    BY <1>1 DEF Loading, TabState
  <2>3. LoneTab(l) /\ ChainsKnown(l)
    <3> HIDE DEF l
    <3> QED BY <2>2 DEF ChainTab, LoneTab, ChainsKnown
  <2>4. /\ i \in NavigationInitiator /\ ~i.redirect
        /\ cause \in {"user", "logic", "history"}
        /\ cause = "logic" => i.root = "DocumentLogic"
        /\ i # HistoryStep
    BY DEF NavigationInitiator, Root, UserGesture, DocumentLogic, HistoryStep
  <2> HIDE DEF i, cause, l
  <2>5. u \in StartChain(l, a.target, i, cause) BY <1>6 DEF l
  <2>6. ChainTab(u) /\ l.inflight \subseteq u.inflight
    BY <1>2, <2>1, <2>3, <2>4, <2>5, StartChained
  <2> QED BY <2>2, <2>6
<1> QED BY <1>3, <1>4, <1>5, <1>6

\* An answered command is gone, and nothing else.
LEMMA AnsweredChained ==
  ASSUME ChainIInv, NEW c \in tab.inflight
  PROVE  /\ ChainTab(Answered(c)) /\ Answered(c) \in TabState /\ c \in Command
         /\ Answered(c).inflight = tab.inflight \ {c} /\ Answered(c).chains = tab.chains
         /\ Answered(c).pending_scroll_restore = tab.pending_scroll_restore
         /\ Answered(c).redirect_count = tab.redirect_count /\ Answered(c).dom = tab.dom
         /\ tab.chains = 1 => Answered(c).inflight = {}
<1> DEFINE w == [tab EXCEPT !.inflight = tab.inflight \ {c}]
<1>0. tab \in TabState /\ GoodTab(tab) /\ ChainTab(tab) BY DEF ChainIInv, ChainTab, GoodTab
<1>1. Answered(c) = w BY <1>0 DEF Answered, TabState
<1>2. tab.inflight \ {c} \in SUBSET Command /\ c \in Command BY <1>0 DEF TabState
<1>3. /\ w \in TabState /\ w.back = tab.back /\ w.forward = tab.forward
      /\ w.inflight = tab.inflight \ {c} /\ w.chains = tab.chains /\ w.dom = tab.dom
      /\ w.pending_scroll_restore = tab.pending_scroll_restore
      /\ w.redirect_count = tab.redirect_count
  BY <1>0, <1>2 DEF TabState
<1> HIDE DEF w
<1>4. GoodTab(w) BY <1>0, <1>3 DEF GoodTab
<1>5. ChainTab(w) BY <1>0, <1>3, <1>4, SameChains
<1>6. tab.chains = 1 => tab.inflight \ {c} = {} BY <1>0 DEF ChainTab, LoneTab
<1> QED BY <1>1, <1>2, <1>3, <1>5, <1>6

\* An UpdateVariable touches no chain.
LEMMA UpdateChained ==
  ASSUME NEW t, ChainTab(t)
  PROVE  ChainTab(UpdateVariable(t)) /\ UpdateVariable(t).dom = t.dom
<1> DEFINE w == UpdateVariable(t)
<1>1. GoodTab(t) /\ t \in TabState BY DEF ChainTab, GoodTab
<1>2. GoodTab(w) BY <1>1, UpdateOnly
<1>3. /\ w.chains = t.chains /\ w.inflight = t.inflight /\ w.dom = t.dom
      /\ w.pending_scroll_restore = t.pending_scroll_restore
      /\ w.redirect_count = t.redirect_count
  BY <1>1 DEF UpdateVariable, TabState
<1> HIDE DEF w
<1>4. ChainTab(w) BY <1>2, <1>3, SameChains
<1> QED BY <1>3, <1>4 DEF w

\* A redirect: the chain goes on with one hop more, which the counter has
\* counted too, or is cut; the document stays.
LEMMA RedirectChained ==
  ASSUME ChainIInv, NEW c \in tab.inflight, NEW r \in Targets, NavigationRedirect(c, r)
  PROVE  ChainTab(tab') /\ tab'.dom = tab.dom
<1> DEFINE t == register_redirect(Answered(c))
           chain == [c.chain EXCEPT !.hops = CountHop(@)]
           i == redirect_of(c.initiator)
           w == [t EXCEPT !.loading = FALSE]
<1>1. r \in Target BY TabAssumption
<1>2. /\ Answered(c) \in TabState /\ GoodTab(Answered(c)) /\ ChainTab(Answered(c)) /\ c \in Command
      /\ Answered(c).inflight = tab.inflight \ {c} /\ Answered(c).chains = tab.chains
      /\ Answered(c).redirect_count = tab.redirect_count /\ Answered(c).dom = tab.dom
      /\ tab.chains = 1 => Answered(c).inflight = {}
  BY AnsweredChained DEF ChainTab
<1>3. /\ tab.redirect_count \in Nat /\ tab.chains \in Nat /\ c.chain \in Chain
      /\ c.chain.hops \in Nat /\ c.chain.id \in Nat /\ c.chain.id <= tab.chains
      /\ tab.chains = 1 => c.chain.hops <= tab.redirect_count
  BY <1>2 DEF ChainIInv, ChainTab, GoodTab, LoneTab, ChainsKnown, TabState, Command, Chain
<1>4. GoodTab(t) BY <1>2, CountRedirect
<1>5. /\ t \in TabState /\ t.inflight = tab.inflight \ {c} /\ t.chains = tab.chains
      /\ t.redirect_count = tab.redirect_count + 1 /\ t.dom = tab.dom
      /\ t.pending_scroll_restore = Answered(c).pending_scroll_restore
  BY <1>2, <1>3 DEF register_redirect, TabState
<1>6. /\ i \in NavigationInitiator /\ i.redirect /\ i # HistoryStep
  BY <1>2 DEF redirect_of, Command, NavigationInitiator, HistoryStep
<1>7. /\ chain \in Chain /\ chain.id = c.chain.id
      /\ chain.hops = CountHop(c.chain.hops)
  BY <1>3, TabAssumption DEF Chain, CountHop
<1>8. \/ t.redirect_count <= MAX_REDIRECTS /\ tab' \in navigate_to_url(t, r, i, chain)
      \/ tab' = UpdateVariable(w)
  BY DEF NavigationRedirect
<1>9. r.scheme \in {"mizu", "http"} BY DEF NavigationRedirect
<1>10. GoodTab(tab') BY NextGood DEF ChainIInv, Next
<1> HIDE DEF t, chain, i
<1>11. CASE tab' = UpdateVariable(w)
  <2>1. GoodTab(w) BY <1>4, SpinnerOnly
  <2>2. /\ w.inflight = t.inflight /\ w.chains = t.chains /\ w.dom = t.dom
        /\ w.pending_scroll_restore = t.pending_scroll_restore
    BY <1>5 DEF TabState
  <2> HIDE DEF w
  <2>3. ScrollOwned(w) /\ ChainsKnown(w)
    BY <1>2, <1>5, <2>2 DEF ChainTab, ScrollOwned, ChainsKnown
  <2>4. LoneTab(w) BY <1>2, <1>5, <2>2 DEF ChainTab, LoneTab
  <2>5. ChainTab(w) BY <2>1, <2>3, <2>4 DEF ChainTab
  <2> QED BY <1>5, <1>11, <2>2, <2>5, UpdateChained
<1>12. CASE t.redirect_count <= MAX_REDIRECTS /\ tab' \in navigate_to_url(t, r, i, chain)
  <2>1. Effect(t, tab', i, chain) /\ tab'.dom = t.dom
    BY <1>1, <1>4, <1>6, <1>7, <1>9, <1>12, NavigateEffect
  <2>2. ScrollOwned(tab') BY <1>6, <2>1 DEF Effect, ScrollOwned
  <2>3. ASSUME NEW d \in tab'.inflight PROVE d \in Answered(c).inflight \/ d.chain = chain
    BY <1>2, <1>5, <2>1 DEF Effect
  <2>4. ChainsKnown(tab')
    BY <1>2, <1>3, <1>5, <1>7, <2>1, <2>3 DEF Effect, ChainsKnown, ChainTab
  <2>5. LoneTab(tab')
    <3>1. CASE tab.chains = 0
      <4>1. tab.inflight = {} BY <3>1 DEF ChainIInv, ChainTab, LoneTab
      <4> QED BY <4>1
    <3>2. CASE tab.chains = 1
      <4>1. t.inflight = {} BY <1>2, <1>5, <3>2
      <4>2. CASE tab'.inflight = t.inflight
        BY <1>5, <2>1, <3>2, <4>1, <4>2 DEF Effect, LoneTab
      <4>3. CASE tab'.inflight # t.inflight
        <5>1. /\ \E d : d.chain = chain /\ tab'.inflight = {d}
              /\ tab'.redirect_count = tab.redirect_count + 1
          BY <1>5, <1>6, <2>1, <4>1, <4>3 DEF Effect
        <5>2. chain.hops <= tab.redirect_count + 1 /\ chain.hops <= MAX_REDIRECTS
          BY <1>3, <1>5, <1>7, <1>12, <3>2, TabAssumption DEF CountHop
        <5>3. tab'.chains = 1 BY <1>5, <2>1, <3>2 DEF Effect
        <5> QED BY <5>1, <5>2, <5>3 DEF LoneTab
      <4> QED BY <4>2, <4>3
    <3>3. CASE tab.chains \notin {0, 1}
      BY <1>5, <2>1, <3>3 DEF Effect, LoneTab
    <3> QED BY <3>1, <3>2, <3>3
  <2> QED BY <1>5, <1>10, <2>1, <2>2, <2>4, <2>5 DEF ChainTab
<1> QED BY <1>8, <1>11, <1>12

\* A history move before its chain starts: only the offset is new.
LEMMA MoveChained ==
  ASSUME NEW t, ChainTab(t)
  PROVE  /\ t.back # <<>> => LoneTab(go_back(t)) /\ ChainsKnown(go_back(t))
         /\ t.forward # <<>> => LoneTab(go_forward(t)) /\ ChainsKnown(go_forward(t))
<1>1. t \in TabState BY DEF ChainTab, GoodTab
<1>2. ASSUME NEW w, w = go_back(t) \/ w = go_forward(t) PROVE LoneTab(w) /\ ChainsKnown(w)
  <2>1. w.inflight = t.inflight /\ w.chains = t.chains /\ w.redirect_count = t.redirect_count
    BY <1>1, <1>2 DEF go_back, go_forward, TabState
  <2> QED BY <2>1 DEF ChainTab, LoneTab, ChainsKnown
<1> QED BY <1>2

\* Every step keeps the chains in order; and a command that is answered while the
\* document changes is the one whose document it is.
LEMMA NextChained ==
  ASSUME ChainIInv, Next
  PROVE  /\ ChainTab(tab')
         /\ \/ tab.inflight \subseteq tab'.inflight
            \/ tab'.dom = tab.dom
            \/ tab'.root_scroll_offset_y # 0 => tab.pending_scroll_restore # NoScroll
<1> DEFINE Goal == /\ ChainTab(tab')
                   /\ \/ tab.inflight \subseteq tab'.inflight
                      \/ tab'.dom = tab.dom
                      \/ tab'.root_scroll_offset_y # 0 => tab.pending_scroll_restore # NoScroll
<1>1. /\ ChainTab(tab) /\ GoodTab(tab) /\ tab \in TabState /\ batches \in Seq(Batch)
      /\ LoneTab(tab) /\ ChainsKnown(tab)
  BY DEF ChainIInv, ChainTab, IInv, GoodTab
<1>2. Targets \subseteq Target /\ tab.committed_url \in Target
  BY <1>1, TabAssumption DEF TabState, URL, Target
<1>3. /\ UserGesture \in NavigationInitiator /\ HistoryStep \in NavigationInitiator
      /\ ~UserGesture.redirect /\ ~HistoryStep.redirect /\ UserGesture # HistoryStep
  BY DEF UserGesture, HistoryStep, NavigationInitiator, Root
<1>4. /\ GoodTab(Loading(tab)) /\ LoneTab(Loading(tab)) /\ ChainsKnown(Loading(tab))
      /\ Loading(tab).inflight = tab.inflight
  <2> DEFINE l == Loading(tab)
  <2>1. GoodTab(l) BY <1>1, SpinnerOnly DEF Loading
  <2>2. l.chains = tab.chains /\ l.inflight = tab.inflight /\ l.redirect_count = tab.redirect_count
    BY <1>1 DEF Loading, TabState
  <2> HIDE DEF l
  <2>3. LoneTab(l) /\ ChainsKnown(l) BY <1>1, <2>2 DEF LoneTab, ChainsKnown
  <2> QED BY <2>1, <2>2, <2>3 DEF l
<1>5. GoodTab(tab') BY NextGood DEF ChainIInv
<1> SUFFICES Goal OBVIOUS
<1>6. ASSUME NEW u \in Targets, UserNavigate(u) PROVE Goal
  <2>1. tab' \in StartChain(Loading(tab), u, UserGesture, "user") BY <1>6 DEF UserNavigate
  <2>2. ChainTab(tab') /\ Loading(tab).inflight \subseteq tab'.inflight
    BY <1>2, <1>3, <1>4, <2>1, StartChained
  <2> QED BY <1>4, <2>2
<1>7. ASSUME NEW u \in Targets, SidebarNavigate(u) PROVE Goal
  <2>1. tab' \in StartChain(tab, u, UserGesture, "user") BY <1>7 DEF SidebarNavigate
  <2> QED BY <1>1, <1>2, <1>3, <2>1, StartChained
<1>8. CASE Reload
  <2>1. tab' \in StartChain(Loading(tab), tab.committed_url, UserGesture, "user") BY <1>8 DEF Reload
  <2>2. ChainTab(tab') /\ Loading(tab).inflight \subseteq tab'.inflight
    BY <1>2, <1>3, <1>4, <2>1, StartChained
  <2> QED BY <1>4, <2>2
<1>9. CASE navigate_back
  <2> DEFINE g == go_back(tab)
  <2>1. tab.back # <<>> /\ tab' \in StartChain(g, Last(tab.back).url, HistoryStep, "history")
    BY <1>9 DEF navigate_back
  <2>2. GoodTab(g) /\ LoneTab(g) /\ ChainsKnown(g) /\ Last(tab.back).url \in Target
    BY <1>1, <2>1, HistoryMove, MoveChained
  <2>3. g.inflight = tab.inflight BY <1>1 DEF go_back, TabState
  <2> HIDE DEF g
  <2>4. ChainTab(tab') /\ g.inflight \subseteq tab'.inflight BY <1>3, <2>1, <2>2, StartChained
  <2> QED BY <2>3, <2>4
<1>10. CASE navigate_forward
  <2> DEFINE g == go_forward(tab)
  <2>1. tab.forward # <<>> /\ tab' \in StartChain(g, Last(tab.forward).url, HistoryStep, "history")
    BY <1>10 DEF navigate_forward
  <2>2. GoodTab(g) /\ LoneTab(g) /\ ChainsKnown(g) /\ Last(tab.forward).url \in Target
    BY <1>1, <2>1, HistoryMove, MoveChained
  <2>3. g.inflight = tab.inflight BY <1>1 DEF go_forward, TabState
  <2> HIDE DEF g
  <2>4. ChainTab(tab') /\ g.inflight \subseteq tab'.inflight BY <1>3, <2>1, <2>2, StartChained
  <2> QED BY <2>3, <2>4
<1>11. ASSUME NEW y \in Scrolls, Scroll(y) PROVE Goal
  <2>1. /\ tab'.chains = tab.chains /\ tab'.inflight = tab.inflight
        /\ tab'.pending_scroll_restore = tab.pending_scroll_restore
        /\ tab'.redirect_count = tab.redirect_count
    BY <1>1, <1>11 DEF Scroll, TabState
  <2> QED BY <1>1, <1>5, <2>1, SameChains
<1>12. ASSUME NEW g \in BOOLEAN, SendEvent(g) PROVE Goal
  BY <1>1, <1>12 DEF SendEvent
<1>13. ASSUME NEW a \in Action, NEW b \in Action, drain_logic_worker_results(a, b) PROVE Goal
  <2> DEFINE h == Head(batches)
             m == [tab EXCEPT !.store = tab.store \cup {h.doc}]
  <2>1. h \in Batch BY <1>1, <1>13 DEF drain_logic_worker_results
  <2>2. h.doc \in Document /\ h.gesture \in BOOLEAN BY <2>1 DEF Batch
  <2>3. PICK t \in {tab, m} : \E u \in Execute(t, a, h.gesture) : tab' \in Execute(u, b, h.gesture)
    BY <1>1, <1>13 DEF drain_logic_worker_results, TabState
  <2>4. PICK u \in Execute(t, a, h.gesture) : tab' \in Execute(u, b, h.gesture) BY <2>3
  <2>5. ChainTab(m) /\ m.inflight = tab.inflight
    <3> HIDE DEF h
    <3>1. tab.store \cup {h.doc} \in SUBSET Document BY <1>1, <2>2 DEF TabState
    <3>2. /\ m \in TabState /\ m.back = tab.back /\ m.forward = tab.forward
          /\ m.inflight = tab.inflight /\ m.chains = tab.chains
          /\ m.pending_scroll_restore = tab.pending_scroll_restore
          /\ m.redirect_count = tab.redirect_count
      BY <1>1, <3>1 DEF TabState
    <3> HIDE DEF m
    <3>3. GoodTab(m) BY <1>1, <3>2 DEF GoodTab
    <3> QED BY <1>1, <3>2, <3>3, SameChains
  <2> HIDE DEF h, m
  <2>6. ChainTab(t) /\ t.inflight = tab.inflight BY <1>1, <2>5
  <2>7. ChainTab(u) /\ t.inflight \subseteq u.inflight BY <2>2, <2>4, <2>6, ExecuteChained
  <2>8. ChainTab(tab') /\ u.inflight \subseteq tab'.inflight BY <2>2, <2>4, <2>7, ExecuteChained
  <2> QED BY <2>6, <2>7, <2>8
<1>14. ASSUME NEW d \in tab.updates, UpdateAnswered(d) PROVE Goal
  <2>1. /\ tab'.chains = tab.chains /\ tab'.inflight = tab.inflight
        /\ tab'.pending_scroll_restore = tab.pending_scroll_restore
        /\ tab'.redirect_count = tab.redirect_count
    BY <1>1, <1>14 DEF UpdateAnswered, TabState
  <2> QED BY <1>1, <1>5, <2>1, SameChains
<1>15. ASSUME NEW c \in tab.inflight, NavigateSuccess(c) PROVE Goal
  <2> DEFINE w == Answered(c)
  <2>1. /\ ChainTab(w) /\ w \in TabState /\ c \in Command /\ w.dom = tab.dom
        /\ w.pending_scroll_restore = tab.pending_scroll_restore
        /\ w.chains = tab.chains /\ (tab.chains = 1 => w.inflight = {})
    BY AnsweredChained
  <2>2. c.url \in URL /\ tab' \in handle_navigate_success(w, c.url)
    BY <1>15, <2>1 DEF NavigateSuccess, Command
  <2> HIDE DEF w
  <2>3. /\ tab'.chains = w.chains /\ tab'.inflight = w.inflight
        /\ tab'.pending_scroll_restore \in {w.pending_scroll_restore, NoScroll}
        /\ tab'.dom # w.dom /\ tab'.root_scroll_offset_y # 0 => w.pending_scroll_restore # NoScroll
    BY <2>1, <2>2, SuccessEffect
  <2>4. ScrollOwned(tab') /\ ChainsKnown(tab')
    BY <2>1, <2>3 DEF ChainTab, ScrollOwned, ChainsKnown
  <2>5. LoneTab(tab') BY <2>1, <2>3 DEF ChainTab, LoneTab
  <2>6. ChainTab(tab') BY <1>5, <2>4, <2>5 DEF ChainTab
  <2> QED BY <2>1, <2>3, <2>6
<1>16. ASSUME NEW c \in tab.inflight, NavigateError(c) PROVE Goal
  <2> DEFINE w == [Answered(c) EXCEPT !.loading = FALSE]
  <2>1. ChainTab(Answered(c)) /\ Answered(c) \in TabState /\ Answered(c).dom = tab.dom
    BY AnsweredChained
  <2>2. GoodTab(w) BY <2>1, SpinnerOnly DEF ChainTab
  <2>3. /\ w.chains = Answered(c).chains /\ w.inflight = Answered(c).inflight
        /\ w.pending_scroll_restore = Answered(c).pending_scroll_restore
        /\ w.redirect_count = Answered(c).redirect_count /\ w.dom = tab.dom
    BY <2>1 DEF TabState
  <2>4. tab' = UpdateVariable(w) BY <1>16 DEF NavigateError
  <2> HIDE DEF w
  <2>5. ChainTab(w) BY <2>1, <2>2, <2>3, SameChains
  <2> QED BY <2>3, <2>4, <2>5, UpdateChained
<1>17. ASSUME NEW c \in tab.inflight, NEW r \in Targets, NavigationRedirect(c, r) PROVE Goal
  BY <1>17, RedirectChained
<1>18. CASE FetchAnswered
  <2>1. PICK b \in {tab.loading, FALSE} :
          tab' = UpdateVariable([tab EXCEPT !.fetches = @ - 1, !.loading = b])
    BY <1>18 DEF FetchAnswered
  <2>2. /\ tab'.chains = tab.chains /\ tab'.inflight = tab.inflight
        /\ tab'.pending_scroll_restore = tab.pending_scroll_restore
        /\ tab'.redirect_count = tab.redirect_count
    BY <1>1, <2>1 DEF UpdateVariable, TabState
  <2> QED BY <1>1, <1>5, <2>2, SameChains
<1> HIDE DEF Goal
<1> QED
  BY <1>6, <1>7, <1>8, <1>9, <1>10, <1>11, <1>12, <1>13, <1>14, <1>15, <1>16, <1>17, <1>18
  DEF Next

\* The inductive invariant of this part holds of every reachable state.
LEMMA ChainInvariance == Spec => []ChainIInv
<1>1. Init => ChainIInv
  <2> SUFFICES ASSUME Init PROVE ChainTab(tab) BY InitIInv DEF ChainIInv
  <2>1. tab.inflight = {} BY DEF Init
  <2>2. GoodTab(tab) BY InitIInv DEF IInv
  <2> QED BY <2>1, <2>2 DEF ChainTab, LoneTab, ScrollOwned, ChainsKnown
<1>2. ChainIInv /\ [Next]_vars => ChainIInv'
  <2> SUFFICES ASSUME ChainIInv, [Next]_vars PROVE ChainIInv' OBVIOUS
  <2>1. IInv' BY NextIInv DEF ChainIInv
  <2>2. ChainTab(tab')
    <3>1. CASE Next BY <3>1, NextChained
    <3>2. CASE UNCHANGED vars BY <3>2 DEF vars, ChainIInv
    <3> QED BY <3>1, <3>2
  <2>3. ChainTab(tab)' <=> ChainTab(tab')
    BY Zenon DEF ChainTab, GoodTab, CommandOK, LoneTab, ScrollOwned, ChainsKnown
  <2> QED BY <2>1, <2>2, <2>3 DEF ChainIInv
<1> QED BY <1>1, <1>2, PTL DEF Spec

\* process_network_result: whatever a server answers, the chain of a tab's one
\* navigation is cut after MAX_REDIRECTS hops, for every budget.
THEOREM ChainsAreCut == Spec => []LoneChainWithinBudget
<1>1. ChainIInv => LoneChainWithinBudget
  BY DEF ChainIInv, ChainTab, LoneTab, LoneChainWithinBudget
<1> QED BY <1>1, ChainInvariance, PTL

\* navigate_to_url and handle_navigate_success: the scroll offset of a history
\* step is never applied to the document of a navigation that followed it.
THEOREM ScrollStaysWithItsStep == Spec => ScrollIsOwn
<1> DEFINE Own == \A c \in tab.inflight :
                     /\ c.chain.id = tab.chains /\ c \notin tab'.inflight
                     /\ tab'.dom # tab.dom /\ tab'.root_scroll_offset_y # 0
                     => c.chain.cause = "history"
<1>1. ChainIInv /\ [Next]_vars => [Own]_vars
  <2> SUFFICES ASSUME ChainIInv, Next PROVE Own OBVIOUS
  <2>1. \/ tab.inflight \subseteq tab'.inflight
        \/ tab'.dom = tab.dom
        \/ tab'.root_scroll_offset_y # 0 => tab.pending_scroll_restore # NoScroll
    BY NextChained
  <2> QED BY <2>1 DEF ChainIInv, ChainTab, ScrollOwned
<1>2. ScrollIsOwn <=> [][Own]_vars BY DEF ScrollIsOwn
<1> QED BY <1>1, <1>2, ChainInvariance, PTL DEF Spec

=============================================================================
