---------------------------- MODULE TabNavigation ----------------------------
(***************************************************************************)
(* The navigation lifecycle of one tab: the choke point navigate_to_url,   *)
(* the commit in handle_navigate_success, the answers of the network       *)
(* worker drained by process_network_result, the batches of the logic      *)
(* worker drained by drain_logic_worker_results, the redirect budget and   *)
(* the back/forward stacks (src/render/window/navigate.rs, history/stack.rs,*)
(* event_loop/idle.rs, manager/reload.rs, manager/construct.rs).           *)
(*                                                                         *)
(* All of this runs on the UI thread, so a handler is one step.  What      *)
(* interleaves is the order in which input, network answers and worker     *)
(* batches reach the thread.  A handler that can end in several ways (a    *)
(* file that cannot be read, a document that is rejected) is an operator   *)
(* that maps a tab to the set of tabs it can leave behind.                 *)
(***************************************************************************)
EXTENDS NavigationPolicy, Integers, SequencesExt

CONSTANTS
  StartURL,             \* the document the window starts with (main.rs)
  DefaultURL,           \* default_chrome_url, what TabState::new builds the policy for
  Targets,              \* what users type, documents link and servers redirect to
  ActionKinds,          \* the runtime actions documents use
  Scrolls,              \* scroll offsets
  NoScroll,             \* pending_scroll_restore is None
  MAX_REDIRECTS,
  MAX_HISTORY_ENTRIES,
  SandboxedWorker,      \* logic runs in mizu-worker behind the broker, or in the fallback thread
  MaxInputs,            \* bound: chrome inputs of one behaviour
  MaxEvents             \* bound: clicks and timer ticks of one behaviour

ASSUME TabAssumption ==
  /\ StartURL = AboutBlank \/ \E f \in Names : StartURL = File(f)
  /\ DefaultURL \in URL
  /\ Targets \subseteq Target
  /\ ActionKinds \subseteq {"None", "Fetch", "Navigate"}
  /\ 0 \in Scrolls /\ NoScroll \notin Scrolls
  /\ MAX_REDIRECTS \in Nat /\ MAX_HISTORY_ENTRIES \in Nat \ {0}
  /\ SandboxedWorker \in BOOLEAN
  /\ MaxInputs \in Nat /\ MaxEvents \in Nat

VARIABLES
  tab,      \* TabState, with its commands in flight
  batches,  \* FIFO of the events sent to the logic worker and not drained yet
  inputs,   \* chrome inputs so far
  events    \* clicks and timer ticks so far

vars == <<tab, batches, inputs, events>>

-----------------------------------------------------------------------------
(* State.  A document is named by the URL it was loaded from and a load    *)
(* number.  A command in flight carries, besides its URL and initiator,    *)
(* what the properties speak about: which chain of hops it belongs to, how *)
(* many redirects that chain has followed, whether user or logic caused    *)
(* it, and the origin it was authorised from.                              *)

Document == [load : Nat, url : URL]
HistoryEntry == [url : URL, scroll_y : Scrolls]
Chain == [id : Nat, cause : {"user", "logic", "history"}, hops : Nat]
Command == [url : URL, initiator : NavigationInitiator, chain : Chain, from : URL]
Batch == [doc : Document, gesture : BOOLEAN]

TabState ==
  [committed_url : URL,
   capability_policy : URL,        \* the URL the policy was built for
   dom : Document,                 \* the document that is running
   url_registry : Document,        \* the document whose urls block and timers are installed
   store : SUBSET Document,        \* documents whose mutations the variable store holds
   loading : BOOLEAN,
   redirect_count : Nat,
   back : Seq(HistoryEntry), forward : Seq(HistoryEntry),
   root_scroll_offset_y : Scrolls,
   pending_scroll_restore : Scrolls \cup {NoScroll},
   visited : SUBSET URL,           \* URLs pushed to the window's history_log
   inflight : SUBSET Command,      \* NetworkCmd::Navigate not answered yet
   fetches : Nat,                  \* NetworkCmd::Fetch not answered yet
   updates : SUBSET Document,      \* documents owed an answer to an UpdateVariable
   chains : Nat]                   \* navigation chains started

TypeOK ==
  /\ tab \in TabState
  /\ Len(tab.back) <= MAX_HISTORY_ENTRIES /\ Len(tab.forward) <= MAX_HISTORY_ENTRIES
  /\ batches \in Seq(Batch)
  /\ inputs \in 0..MaxInputs /\ events \in 0..MaxEvents

Init ==
  /\ tab = LET d == [load |-> 0, url |-> StartURL] IN
           [committed_url |-> StartURL, capability_policy |-> DefaultURL,
            dom |-> d, url_registry |-> d, store |-> {},
            loading |-> FALSE, redirect_count |-> 0,
            back |-> <<>>, forward |-> <<>>,
            root_scroll_offset_y |-> 0, pending_scroll_restore |-> NoScroll,
            visited |-> {}, inflight |-> {}, fetches |-> 0, updates |-> {},
            chains |-> 0]
  /\ batches = <<>>
  /\ inputs = 0 /\ events = 0

-----------------------------------------------------------------------------
(* history/stack.rs *)

push_capped(stack, entry) ==
  LET s == Append(stack, entry)
  IN  IF Len(s) > MAX_HISTORY_ENTRIES THEN Tail(s) ELSE s

Leaving(t) == [url |-> t.committed_url, scroll_y |-> t.root_scroll_offset_y]

record_navigation(t) ==
  [t EXCEPT !.forward = <<>>, !.back = push_capped(@, Leaving(t))]

go_back(t) ==
  [t EXCEPT !.back = Front(@), !.forward = push_capped(@, Leaving(t)),
            !.pending_scroll_restore = Last(t.back).scroll_y]

go_forward(t) ==
  [t EXCEPT !.forward = Front(@), !.back = push_capped(@, Leaving(t)),
            !.pending_scroll_restore = Last(t.forward).scroll_y]

-----------------------------------------------------------------------------
(* handle_navigate_success: the origin moves first, then the source is     *)
(* parsed and checked; a document that fails a check is not installed.     *)

Commit(t, url) ==
  [t EXCEPT !.committed_url = url, !.capability_policy = url,
            !.loading = FALSE, !.redirect_count = 0]

NextLoad(t, url) == [load |-> t.url_registry.load + 1, url |-> url]

\* reload_tab_document, then the visit log and the scroll restore.
reload_tab_document(t, doc) ==
  [t EXCEPT !.url_registry = doc, !.dom = doc, !.store = {},
            !.root_scroll_offset_y =
               IF t.pending_scroll_restore = NoScroll THEN 0 ELSE t.pending_scroll_restore,
            !.pending_scroll_restore = NoScroll,
            !.visited = @ \cup {t.committed_url}]

\* The layout bridge failed: registry and timers are new, the document is not.
reload_failed(t, doc) == [t EXCEPT !.url_registry = doc]

\* Splitting, layout, type check or flow check refused the source.
rejected(t) == t

handle_navigate_success(t, url) ==
  LET c == Commit(t, url)
      doc == NextLoad(t, url)
      installed == reload_tab_document(c, doc)
  IN  IF url = AboutBlank THEN {installed}
      ELSE {installed, rejected(c), reload_failed(c, doc)}

-----------------------------------------------------------------------------
(* navigate_to_url, the choke point *)

\* Emits NetworkCmd::Navigate.
DispatchNavigate(t, url, initiator, chain) ==
  [t EXCEPT !.loading = TRUE,
            !.inflight = @ \cup {[url |-> url, initiator |-> initiator,
                                  chain |-> chain, from |-> t.committed_url]}]

Allowed(t, url, initiator, chain) ==
  LET fresh == ~initiator.redirect
      t1 == IF fresh THEN [t EXCEPT !.redirect_count = 0] ELSE t
      t2 == IF fresh /\ initiator.root # "HistoryStep" THEN record_navigation(t1) ELSE t1
  IN  IF url.scheme = "file"
      THEN {t2} \cup handle_navigate_success(t2, url)    \* {t2}: the file cannot be read
      ELSE {DispatchNavigate(t2, url, initiator, chain)}

Blocked(t) == [t EXCEPT !.loading = FALSE, !.pending_scroll_restore = NoScroll]

SandboxEscape(t) == [t EXCEPT !.loading = FALSE]

\* Only a local document's own targets are resolved before the verdict.
Resolved(current, target) ==
  IF current.scheme = "file" /\ target.scheme \in {"bare", "file"}
  THEN resolve_navigate_url(current, target)
  ELSE {target}

\* Mutation: a pending scroll survives a navigation that is no history step.
scroll_kept(t, target, initiator, chain) ==
  LET t1 == t
      resolved == Resolved(t.committed_url, target)
      verdict(u) == check_navigation(t.committed_url, u, initiator)
  IN  IF target = AboutBlank THEN handle_navigate_success(t1, AboutBlank)
      ELSE IF resolved = {} THEN {SandboxEscape(t1)}
      ELSE UNION {IF verdict(u) = {} THEN {Blocked(t1)}
                  ELSE UNION {Allowed(t1, v, initiator, chain) : v \in verdict(u)}
                  : u \in resolved}

navigate_to_url(t, target, initiator, chain) ==
  LET t1 == IF initiator = HistoryStep THEN t
            ELSE [t EXCEPT !.pending_scroll_restore = NoScroll]
      resolved == Resolved(t.committed_url, target)
      verdict(u) == check_navigation(t.committed_url, u, initiator)
  IN  IF target = AboutBlank THEN handle_navigate_success(t1, AboutBlank)
      ELSE IF resolved = {} THEN {SandboxEscape(t1)}
      ELSE UNION {IF verdict(u) = {} THEN {Blocked(t1)}
                  ELSE UNION {Allowed(t1, v, initiator, chain) : v \in verdict(u)}
                  : u \in resolved}

\* A navigation that is not the continuation of another starts a chain.
StartChain(t, target, initiator, cause) ==
  LET t1 == [t EXCEPT !.chains = @ + 1]
  IN  navigate_to_url(t1, target, initiator,
                      [id |-> t1.chains, cause |-> cause, hops |-> 0])

Loading(t) == [t EXCEPT !.loading = TRUE]

-----------------------------------------------------------------------------
(* User input *)

Input == inputs < MaxInputs /\ inputs' = inputs + 1

\* Enter in the URL bar, or an autocomplete suggestion.
UserNavigate(target) ==
  /\ Input
  /\ tab' \in StartChain(Loading(tab), target, UserGesture, "user")
  /\ UNCHANGED <<batches, events>>

Reload ==
  /\ Input
  /\ tab' \in StartChain(Loading(tab), tab.committed_url, UserGesture, "user")
  /\ UNCHANGED <<batches, events>>

\* An entry of the history sidebar: the one caller that leaves the spinner alone.
SidebarNavigate(target) ==
  /\ Input
  /\ tab' \in StartChain(tab, target, UserGesture, "user")
  /\ UNCHANGED <<batches, events>>

navigate_back ==
  /\ Input
  /\ tab.back # <<>>
  /\ tab' \in StartChain(go_back(tab), Last(tab.back).url, HistoryStep, "history")
  /\ UNCHANGED <<batches, events>>

navigate_forward ==
  /\ Input
  /\ tab.forward # <<>>
  /\ tab' \in StartChain(go_forward(tab), Last(tab.forward).url, HistoryStep, "history")
  /\ UNCHANGED <<batches, events>>

Scroll(y) ==
  /\ Input
  /\ y # tab.root_scroll_offset_y
  /\ tab' = [tab EXCEPT !.root_scroll_offset_y = y]
  /\ UNCHANGED <<batches, events>>

-----------------------------------------------------------------------------
(* The logic worker.  Events and Reloads share one FIFO channel, so an     *)
(* event is always executed by the document that was running when it was   *)
(* sent; the batch it produces comes back later.                           *)

\* A click or form submission (gesture), or a root timer tick (no gesture).
SendEvent(gesture) ==
  /\ events < MaxEvents /\ events' = events + 1
  /\ batches' = Append(batches, [doc |-> tab.dom, gesture |-> gesture])
  /\ UNCHANGED <<tab, inputs>>

\* RuntimeAction, as far as it concerns the tab.
Action ==
  {a \in [kind : ActionKinds, target : Targets \cup {AboutBlank}] :
     a.kind # "Navigate" => a.target = AboutBlank}

\* The broker passes a Navigate from a sandboxed worker only with a gesture.
authorize_action(a, gesture) == a.kind = "Navigate" /\ SandboxedWorker => gesture

Execute(t, a, gesture) ==
  IF ~authorize_action(a, gesture) THEN {t}
  ELSE CASE a.kind = "Navigate" ->
              StartChain(Loading(t), a.target,
                         IF gesture THEN UserGesture ELSE DocumentLogic,
                         IF gesture THEN "user" ELSE "logic")
         [] a.kind = "Fetch" -> {[t EXCEPT !.fetches = @ + 1], t}   \* t: blocked by policy
         [] OTHER -> {t}

\* One response: its mutations go to the tab's store, then its actions run.
drain_logic_worker_results(first, second) ==
  /\ batches # <<>>
  /\ LET b == Head(batches)
         mutated == [tab EXCEPT !.store = @ \cup {b.doc}]
     IN  \E t \in {tab, mutated} : \E u \in Execute(t, first, b.gesture) :
            tab' \in Execute(u, second, b.gesture)
  /\ batches' = Tail(batches)
  /\ UNCHANGED <<inputs, events>>

\* The worker's answer to an UpdateVariable: mutations only.
UpdateAnswered(doc) ==
  /\ doc \in tab.updates
  /\ tab' = [tab EXCEPT !.updates = @ \ {doc}, !.store = @ \cup {doc}]
  /\ UNCHANGED <<batches, inputs, events>>

-----------------------------------------------------------------------------
(* Answers of the network worker: process_network_result.  Each command    *)
(* runs in a task of its own, so answers come in any order.                *)

\* UiEvent::UpdateVariable, sent to the document that is running now.
UpdateVariable(t) == [t EXCEPT !.updates = @ \cup {t.dom}]

Answered(c) == [tab EXCEPT !.inflight = @ \ {c}]

NavigateSuccess(c) ==
  /\ c \in tab.inflight
  /\ tab' \in handle_navigate_success(Answered(c), c.url)
  /\ UNCHANGED <<batches, inputs, events>>

NavigateError(c) ==
  /\ c \in tab.inflight
  /\ tab' = UpdateVariable([Answered(c) EXCEPT !.loading = FALSE])
  /\ UNCHANGED <<batches, inputs, events>>

\* Mutation: a hop is not counted.
redirect_uncounted(t) == t

register_redirect(t) == [t EXCEPT !.redirect_count = @ + 1]

\* The hops of a chain are counted up to one more than the budget.
CountHop(n) == IF n > MAX_REDIRECTS THEN n ELSE n + 1

\* parse_http_response hands back mizu:// and http(s):// URLs only.
NavigationRedirect(c, target) ==
  /\ c \in tab.inflight
  /\ target.scheme \in {"mizu", "http"}
  /\ LET t == register_redirect(Answered(c))
     IN  IF t.redirect_count <= MAX_REDIRECTS
         THEN tab' \in navigate_to_url(t, target, redirect_of(c.initiator),
                                       [c.chain EXCEPT !.hops = CountHop(@)])
         ELSE tab' = UpdateVariable([t EXCEPT !.loading = FALSE])
  /\ UNCHANGED <<batches, inputs, events>>

\* Success and FetchFailed leave the spinner alone; Error clears it.
FetchAnswered ==
  /\ tab.fetches > 0
  /\ \E loading \in {tab.loading, FALSE} :
        tab' = UpdateVariable([tab EXCEPT !.fetches = @ - 1, !.loading = loading])
  /\ UNCHANGED <<batches, inputs, events>>

NetworkAnswer ==
  \E c \in tab.inflight :
     NavigateSuccess(c) \/ NavigateError(c) \/ \E u \in Targets : NavigationRedirect(c, u)

-----------------------------------------------------------------------------

Next ==
  \/ \E u \in Targets : UserNavigate(u)
  \/ \E u \in Targets : SidebarNavigate(u)
  \/ Reload
  \/ navigate_back
  \/ navigate_forward
  \/ \E y \in Scrolls : Scroll(y)
  \/ \E g \in BOOLEAN : SendEvent(g)
  \/ \E a, b \in Action : drain_logic_worker_results(a, b)
  \/ \E d \in tab.updates : UpdateAnswered(d)
  \/ \E c \in tab.inflight : NavigateSuccess(c)
  \/ \E c \in tab.inflight : NavigateError(c)
  \/ \E c \in tab.inflight, u \in Targets : NavigationRedirect(c, u)
  \/ FetchAnswered

Spec == Init /\ [][Next]_vars

\* The event loop polls for answers while a tab shows the spinner
\* (schedule_next_wakeup); no other step is certain to happen.
Fairness == WF_vars(tab.loading /\ NetworkAnswer)

FairSpec == Spec /\ Fairness

-----------------------------------------------------------------------------
(* Properties *)

\* N3: a navigation document logic caused without a gesture is only ever
\* requested from the origin it was authorised from, however many server
\* redirects it has followed since.
LogicStaysHome ==
  \A c \in tab.inflight : c.chain.cause = "logic" => is_same_origin(c.from, c.url)

\* N4: whatever the user typed, a document linked or a server redirected to,
\* the network worker is only ever asked for mizu:// URLs it can parse.
OnlyFetchable ==
  \A c \in tab.inflight : c.url.scheme = "mizu" /\ c.url.name \in WellFormed

\* Following links, redirects and history from file to file, a tab never
\* gets out of the directory tree of the document the browser was started on.
FileStaysInSandbox ==
  tab.committed_url.scheme = "file" =>
     /\ StartURL.scheme = "file"
     /\ <<StartURL.name, tab.committed_url.name>> \in Sandbox

\* What the handlers of window/navigate.rs keep up through every input,
\* redirect and answer: capped stacks, fetchable requests, contained files.
TabInv == TypeOK /\ OnlyFetchable /\ FileStaysInSandbox

\* The origin of the tab moves as the abstract specification allows; in
\* particular a tab that has left the local files never returns to them.
Origin == INSTANCE TabOrigin WITH origin <- tab.committed_url
OriginMovesAsAllowed == Origin!Spec

\* A spinner shown for a network navigation goes away, or the navigation
\* does: a server cannot keep a tab loading with an endless redirect chain.
SpinnerStops ==
  (tab.loading /\ tab.inflight # {}) ~> (~tab.loading \/ tab.inflight = {})

\* The redirect budget, while the tab has started one navigation only: its
\* chain is cut after MAX_REDIRECTS hops.  (Every further navigation and every
\* commit starts the tab's one counter afresh for all chains in flight.)
LoneChainWithinBudget ==
  tab.chains = 1 => \A c \in tab.inflight : c.chain.hops <= MAX_REDIRECTS

\* A scroll offset waiting for a history step is not applied to a navigation
\* that follows it: when the navigation started last commits, its document is
\* only scrolled if it was a history step.
ScrollIsOwn ==
  [][\A c \in tab.inflight :
       /\ c.chain.id = tab.chains /\ c \notin tab'.inflight
       /\ tab'.dom # tab.dom /\ tab'.root_scroll_offset_y # 0
       => c.chain.cause = "history"]_vars

\* handle_navigate_success: "the previous document is never left running
\* under the next document's origin".  Refuted: a document that fails a
\* check is not installed, and the origin has moved by then.
DocumentMatchesOrigin == tab.dom.url = tab.committed_url

=============================================================================
