# Mizu Navigator: a TLA+ verification project

Mizu Navigator is a browser for `mizu://` documents: a layout tree, a style
sheet, a `urls` block and a small reactive logic language, fetched over HTTP/3
and rendered by one native window. This directory holds TLA+ models of the parts
of it where order, failure and authority meet, the TLC configurations that check
them on small instances, and TLAPS proofs of what matters most.

## 1. The system

One **UI thread** owns the window, its tabs and every document's variable store.
Everything else talks to it through channels it polls:

```
   user input ──► UI thread ──NetworkCmd──► network worker (tokio) ──► DNS, H3 pool, storage
                     ▲  │  ◄──NetworkResult──┘    one task per command, answers in any order
                     │  └──UiEvent──► worker router ──► one sandboxed logic process per tab
                     └──────LogicResponse── reader ◄──┘   one reader thread per process
```

| Component | State it keeps | Operations | What makes it correct |
|---|---|---|---|
| Navigation policy (`security/navigation`) | none | `check_navigation`, `is_same_origin`, `redirect_of`, `resolve_navigate_url` | N1-N4 of `SECURITY-INVARIANTS.md` |
| Tab navigation (`render/window/navigate.rs`, `history/stack.rs`, `event_loop/idle.rs`, `manager/reload.rs`) | committed URL, policy, DOM, registry, spinner, redirect counter, Back/Forward stacks, pending scroll | user input, network answers, logic batches, redirects, history steps | the origin only moves as the policy allows; commands stay authorised along redirects; a spinner ends |
| Storage quota (`security/quota.rs`, `render/security`) | per-origin ledger, per-tab policy and write window | policy rebuild, check, charge, store | quota per origin across tabs |
| Storage debounce and engine (`storage_debounce.rs`, `core/storage`) | per-domain buffer, flushes under way, database | submit, timer, early flush, commit | buffer bounded, last write wins |
| Worker bridge and broker (`worker_host`, `render/security/broker.rs`) | per-tab process, agency queue, endpoint registry | send, reload, close, reply, crash, refuse | a reply is judged with the agency of its own event |
| Timer admission (`event_loop`, `manager/construct.rs`) | ticks outstanding per tab | tick, batch, reload | bounded, never wedged |
| Logic session (`parser/logic_worker`) | document logic, variables, undo log; their mirror in the UI | event, update, reload, rollback | a failed event leaves no trace; the screen shows the session |
| Language core (`core/types`, `parser/typecheck`, `parser/flow`, `parser/logic`) | none | parse, check, evaluate, recompute | deterministic, bounded; what the checks accept holds at run time |
| Window (`render/window/event_loop`, `manager`) | tabs, active index, layouts, deadlines, shared image downloads | input, resize, redraw, wake, drain | nothing it waits for is slept through; a close moves the focus as shown |
| Address bar (`chrome_vello/state.rs`) | text, cursor, selection, suggestions, completion | keys, clicks, paste | offsets stay on characters |
| Browsing history (`render/window/history`, `history_sidebar`) | log, encrypted file, key, panel | visit, autosave, load, clear, search | never torn; what is cleared stays cleared |
| Network worker (`network/worker`, `dns`, `h3_pool`, `vault`) | tasks, permits, connection pool, tokens | navigate, fetch, image, file, storage | every command answered once; peers authorised; tokens in scope |
| IPC (`crates/ipc`, `crates/worker`) | socket, frames, child process | rendezvous, handshake, confine, send, receive, kill | the peer is the child; nothing runs unconfined; no orphan; what arrives means what was sent |
| Rendering (`render/vello_pipeline`, `layout_bridge`, `text_engine`, `inspector`, ...) | scenes and caches | layout and paint | no protocol state |

### How the parts interact

- **Everything the user sees is changed by one thread.** The UI thread drains the
  network channel and the logic channel between window events
  (`event_loop/idle.rs`). A handler is therefore one step; what interleaves is the
  order in which input, network answers and logic batches reach that thread.
- **Network commands are independent tasks.** `network/worker` spawns one task per
  command; two answers to one tab arrive in either order, and nothing in an answer
  says whether its tab has moved on meanwhile.
- **Logic is somewhere else.** A tab's document logic runs in a sandboxed process
  (`worker_host/bridge.rs`, `crates/worker`) or, where the sandbox is not available,
  on a fallback thread. Events go down a FIFO pipe and replies come back on another;
  the broker judges every reply with the agency (user gesture or not) and the URL
  registry it recorded when the event was sent.
- **Storage is behind the network worker.** A `StoreLocal` is checked and charged on
  the UI thread, buffered per domain in the network worker, and written by a thread
  of the blocking pool into the domain's encrypted database, whose key is in the OS
  keyring.

### What is hard

| Behaviour | Where | Caught by |
|---|---|---|
| Two navigations in flight, answers in either order; redirects of one and commits of the other alternate | `navigate.rs`, `process_network_result` | `LogicStaysHome`, `OriginMovesAsAllowed`, `ScrollIsOwn` |
| A commit is several assignments with checks in between that can refuse the document | `handle_navigate_success` | `DocumentMatchesOrigin` (refuted) |
| A server that redirects for ever | `register_redirect` | `SpinnerStops`, `LoneChainWithinBudget` |
| Batches and timers do not correspond one to one; flushes commit in any order; a flush fails, the process dies | `storage_debounce.rs` | `BufferedHasTimer`, `NothingLost`, `EventuallyDurable`, `LastWriteWins` (refuted) |
| A quota kept per process and per origin, reached through many tabs and navigations | `quota.rs`, `render/security` | `LedgerWithinQuota`, `StoreCharged` |
| Look up, generate and save a key, then create the file, by several threads that may stop anywhere | `storage/keys.rs`, `pool.rs`, `engine.rs` | `NeverLockedOut`, `StoreDecryptable` |
| A save of several steps, a keyring and a disk that fail, a crash between any two steps | `history/log.rs` | `NeverTorn`, `CleanMeansSaved`, `ClearSurvives` |
| Replies without an identity, matched with events by position across no-ops, errors, process deaths and replacements | `bridge.rs` | `GestureIsOwn`, `GesturesAreSpent`, `RegistryNotOlder`, `PendingDrains` |
| A process that is spawned, greeted, confined and ended by four parties, over pipes that fill up | `crates/ipc/src/process`, `crates/worker` | `OnlyOwnChild`, `ConfinedBeforeInput`, `NoWorkerOutlives`, `SendsComplete` |
| A document replaced while events, responses and network answers of the one before are on their way | `session.rs`, `idle.rs` | `UiShowsSession`, `MirrorSpec` (with `NothingLeftQueued`), `CompsAreFresh` |
| Documents and values flattened, sent, checked and rebuilt | `crates/ipc/src/wire` | `SandboxChangesNothing`, `AcceptedTreesAreTotal`, `NothingCutShort` |
| Permits, tokens, a pool and a bounded channel shared by tasks that stop at every await | `network/worker` | `OneAnswerEach`, `EveryCommandAnswered`, `TokensStayInScope`, `PoolBounded`, `AnsweredIsNotRepeated` |
| An event loop that only an input or its own deadline wakes | `event_loop/idle.rs` | `NoTimerOverslept`, `ResizeNotForgotten`, `LoadingAnswersShown`, `TimersKeepTime` (refuted) |
| An image that several tabs wait for and one of them requested | `navigate.rs`, `idle.rs` | `PlaceholdersReplaced`, `ImageOnItsWay` (refuted) |

`PROJECT.json` lists every hazard at its line, with the properties that would catch
it or a note on why none does.

## 2. Modules

```
  NavigationPolicy ──► TabOrigin                 (abstract: which origin may follow which)
        └────────────► TabNavigation ──► TabNavigationProofs        MCTabNavigation
  StorageDebounce ───► LocalStorage                                 MCStorageDebounce, MCLocalStorage
  StorageKeys, HistoryLog, with StorageDebounce                     MCAtRest
     └─ with LocalStorage ──► AtRestProofs
  WorkerBridge ──────► WorkerBridgeProofs
  WorkerProcess ── with WorkerBridge ──► WorkerProcessProofs        MCWorkerBridge
  HostPolicy ────────► NetworkWorker ──► NetworkWorkerProofs        MCNetwork
  Window, UrlBar ────► WindowProofs                                 MCWindow
  SessionMirror ─────► SessionMirrorProofs     (abstract: what the UI relies on)
        └────────────► TabSession
  Values ► Evaluator ► Computed ► StaticChecks ► TabSession ► Wire ► Parser ► Language   MCLanguage
  SumTheorems ──► AtRestProofs, WindowProofs
```

Definitions keep the name of the function they model where TLA+ allows it. An
operator preceded by `Mutation:` is a plausible bug in the definition that follows
it; it is used by no specification and exists to show that a property can fail.

**NavigationPolicy**: the pure part. A URL is a scheme and a name; `HostOf`,
`WellFormed`, `Control` and `Sandbox` say which host a name has, which parse as
`mizu://` URLs, which hold control characters, and which file lies in the directory
tree of which. `check_navigation` is the verdict on a URL, an initiator and the
current origin; `redirect_of` the initiator of a redirect; `resolve_navigate_url`
what a relative reference becomes.

**TabNavigation**: `tab` is `TabState` (committed URL, the URL its capability policy
was built for, running document, installed registry, variable store, spinner,
redirect counter, history stacks, scroll offsets) together with the commands of the
tab in flight. Handlers that can end in several ways are operators from a tab to the
set of tabs they may leave. Actions: `UserNavigate`, `SidebarNavigate`, `Reload`,
`navigate_back`, `navigate_forward`, `Scroll` (window input); `SendEvent`,
`drain_logic_worker_results`, `UpdateAnswered` (logic); `NavigateSuccess`,
`NavigateError`, `NavigationRedirect`, `FetchAnswered` (network). A command carries
besides its own fields what the properties need and the code does not keep: its
chain, what caused the chain, its hops and the origin that authorised it.

**TabOrigin**: the abstract specification. The blank page and well-formed `mizu://`
hosts are reachable from everywhere, a file only from a file whose directory tree
holds it. `TabNavigation` implements it with `origin <- tab.committed_url`.

**StorageDebounce**: the buffers, timers and flushes of `StorageWriteDebouncer` and
the database of each domain. Actions `submit`, `TimerFires`, `write_batch`,
`FlushFails`, `Crash`. `latest` (the last storable write of each key) and `dropped`
(keys a failed flush took) are kept for the properties.

**LocalStorage** composes it with the tabs and the quota ledger: `StoreLocal` checks,
charges and submits; `CommitDocument` rebuilds a tab's policy; `Restart` empties the
ledger and keeps the stores. The FIFO channel between the UI thread and the dispatch
loop is collapsed into the step: nothing observes a command in it.

**StorageKeys**: the opening of one domain by the threads of one or more processes,
one action per step that another process can interleave with: `get_or_open`,
`get_password`, `fail_if_desync`, `set_password`, `open_db`, `OpenFails`,
`write_batch`, `Exit`. The keyring and redb's file lock are external and modelled as
the code uses them. `MIZU_MASTER_KEY` is taken to be unset.

**WorkerBridge**: the UI side of one tab (`UserGesture`, `UpdateVariable`,
`RootTimer`, `Reload`, `close_tab`, `drain_logic_worker_results`), the router thread
(`RouteClose`, `RouteRecord`, `RouteStartFails`, `RouteSend`, `RouteSendFails`:
recording the agency and sending the frame are separate steps, because the reader
can run in between), every process the tab has had (`run`, `Dies`, and `Forges` when
`Compromised`) and the reader of each (`reader_loop`, `ReaderEnds`). A frame names
the event it answers for the properties only; no guard reads it.

**WorkerProcess**: one process from the socket the broker binds to its end, on UNIX.
`broker` is where the router thread is in `spawn_worker` and `start_worker`, `child`
where the process is in `connect_to_broker`, `confine_and_run` and `run`; `backlog`,
`peer`, `inbox` and `outbox` are the socket. `Held` is the rule everything turns on: a
connection stays open while *any* clone of it is held, the reader thread's too. A
stranger may connect first, `Crash` ends the browser without running a destructor,
and a pipe holds `PipeFrames` frames, so that writers wait.

**HistoryLog**: the log in memory, `history.bin`, its temporary and its quarantined
file, the key in the keyring, and the sidebar that lists, scrolls, opens and clears
it. A save is the steps `key`, `tmp`, `rename`; a crash may come between them, and the
keyring or the disk may fail at each. Heights and times are small integers.

**HostPolicy**: addresses and hosts as operators (`is_publicly_routable`,
`embedded_ipv4`, `authorize_resolved_address`, the two resolver pools).
**NetworkWorker** uses them: commands become tasks that wait for a permit, load a
token, resolve, connect through the pool, send, receive, follow redirects, retry and
answer through a bounded channel, one action per step between two awaits. Servers and
the resolver answer as they like; time passes and tokens expire.

**Window**: the tabs with what the event loop knows of each (size of its layout,
spinner, timers, ticks outstanding, image it shows) and the loop itself: asleep,
awake, its deadline. `AboutToWait` is `dispatch_about_to_wait` from the first drain to
the deadline it sets. `Scenes` gives each behaviour the inputs of one question.
**UrlBar**: the text as characters with widths in bytes, and every operation of
`chrome_vello/state.rs` at byte offsets.

**Values**, **Evaluator**, **Computed**, **StaticChecks**: the document language as
operators, bottom up: numbers, order, equality, JSON and interpolation; expressions,
built-in functions, actions, budgets and the undo log; computed variables; flow,
types and purity. Integers are small (`IntMax`, `Scale`) and saturate or fail where
the code's do. **SessionMirror** has the UI's mirror of a session and the two channels
between them, as the code has them, and of the session only a contract: a response
reports every variable that is shown differently from before its event, with the
value it has now; a variable without a value that is not reported still has none; and
nothing stays queued between events. **TabSession** extends it with the session of the
code, which computes its reports from the undo log, and implements the contract
(`MirrorSpec`). **Wire** has the wire form of everything that crosses between them.
**Parser** is the logic block from tokens to definitions. **Language** chooses one
input at a time and states what each operator promises against a reference.

## 3. Runs

Every bound is a constant named `Max...` in the module that uses it. Deadlock is not
checked anywhere: a window without input, a store without writes and a closed tab
may rest.

| Run | Instance | Shows |
|---|---|---|
| `tab_local` | started on a file; targets blank, a file inside and one outside the tree, a host, a malformed host and `http:`; 4 inputs, 1 redirect, history cap 2 | `TabInv` (`TypeOK` with the history caps, `OnlyFetchable`, `FileStaysInSandbox`), `LoneChainWithinBudget`, refinement of `TabOrigin` (`OriginMovesAsAllowed`), `ScrollIsOwn` |
| `tab_logic` | blank start, two pages of one host and a second host; 1 input, 1 event with a batch of two actions, 2 redirects; the fallback worker, which has no broker in front | `LogicStaysHome`, and `SpinnerStops` under fairness |
| `tab_rejected_document` | refuted | `DocumentMatchesOrigin` |
| `storage_quota` | launched on the start page or on a file; 2 tabs, `localhost` and the file, of tiers 4 and 3, values of 1 and 2 bytes, 3 writes, nothing fails, 1 restart | `LedgerWithinQuota`, `StoreCharged` |
| `debounce_order` | 1 domain, 2 values, nothing fails; refuted | `LastWriteWins` |
| `at_rest` | one of three: writes of 2 domains, 2 keys, an unstorable value, limit 2, failing flushes and crashes; 3 threads of a process that open a domain; a history of 2 pages over 4 ticks, cap 2, up to 2 suggestions, one fault, crashes | `DebounceInv` (`DebounceTypeOK`, `BufferedHasTimer`, `NothingLost`), `EventuallyDurable`, `KeysInv` (`KeysTypeOK` with mutual exclusion, `NeverLockedOut`, `StoreDecryptable`), `HistoryShown` (`SuggestionsRanked`, `EveryVisitClickable`), `DiskHoldsTheLog` (`NeverTorn`, `CleanMeansSaved`, `ClearSurvives`) |
| `bridge` | one of three: honest processes, 2 events beside the first document, 2 documents, 3 processes; one that writes anything; one process from spawn to end, pipes of 1 frame, 4 events | `BridgeInv` (`TypeOK` with the tick limit, `RegistryNotOlder`, `GesturesAreSpent`), `GestureIsOwn`, `UntrustedContained` (`GesturesAreSpent` of forgers, `OnlyOwnChild`, `ConfinedBeforeInput`), `PendingDrains`, `NoWorkerOutlives` (with `NoOrphans`), `SendsComplete` |
| `language` | three documents, 4 inputs, every order; or one input of one operator, over these and two more documents | the refinement of `SessionMirror` (`MirrorSpec`), `UiShowsSession`, `CompsAreRight` (`CompsAreFresh`, `IncrementalIsNaive`), `JsonRoundTrips`, `SortFollowsOrder` (`OneOrder`, `SortIsStable`), `LimitsOnlyCut` (`BudgetOnlyTimesOut`, `InterpolationCapped`), `ChecksHoldAtRunTime` (`InferredTypesHold`, `PureQueuesNothing`, `AcceptedFlowsAreSound`), `SandboxChangesNothing`, `FramesAreWhole` (`AcceptedTreesAreTotal`, `NothingCutShort`), `ReadAsWritten` (`ExpressionsFollowGrammar`, `BlocksReadAsWritten`, `ActionsReadAsWritten`) |
| `network` | a name and a local literal, workloads of 2 to 4 commands, 2 permits, pool 1, channel 1, 1 redirect; a lookup answers one public address behind every notation of a local one | `NetworkInv` (`OneAnswerEach`, `PoolBounded`), `EveryCommandAnswered`, `AnsweredIsNotRepeated`, `TokensStayInScope`, `RequestsStayOutside` (`RequestsReachVettedAddresses`, `NamesNeverLeadInward`), `SubresourcesStayOnHost` |
| `window` | scenes of 2 to 3 tabs with timers, images, navigations, resizes; or the bar with texts of 3 characters of 1 to 3 bytes, some of another width in lower case | `WindowInv` (`WindowTypeOK`, `NoTimerOverslept`, `ResizeNotForgotten`), `PlaceholdersReplaced`, `FocusMovesAsShown`, `LoadingAnswersShown`, `BarIsCoherent` (`OffsetsOnCharacters`, `CompletionFitsText`) |
| `image_stranded` | 2 tabs that show one image; refuted | `ImageOnItsWay` |
| `timer_skips` | 1 tab, 1 timer; refuted | `TimersKeepTime` |

A property in the table that is a conjunction has its parts behind it in parentheses;
each part is a definition with its own statement, and `PROJECT.json` names the whole.

A run that is "one of" several things chooses at the start; the parts share no state
and one run checks them because they answer one question about one subsystem.

Why the bounds are enough for what they are used for:

- Two navigations in flight and a history step after them are the smallest
  situation in which an answer can meet a tab that has moved; four inputs give that
  and one more, and exceed the history cap of two. A redirect budget of one or two
  is exceeded by the server at will.
- With a buffer limit of two, three writes produce an early flush and a later batch
  whose timer is not its own; the fourth opens a third batch. Two domains suffice
  because a domain's buffer is only read and written by its own writes.
- A tier of three with writes of one and two bytes has a write that just fits and one
  that just does not; `localhost` has a larger tier so that tiers can be confused, and
  a launch on the file has the one tab whose policy is not that of its document. Flushes
  that fail are left to `at_rest`: a failure only takes bytes away from a store.
- Three threads are one more than a race of two needs, one to run into what the
  others left. Three generated keys exceed what one process can generate without
  an exit.
- Three processes are a dead one still being read, its replacement and the
  replacement of that; with the first document two more events put one in the queue,
  one in the inbox and one in the router's hand. Four events exceed what two pipes of
  one frame and a worker hold.
- Four ticks of history see a visit, an autosave interval, a save and a day boundary;
  two entries at the cap of two make every further visit drop one.
- Permits, pool and channel are at their limit with two tasks, and in every workload
  some task has to wait for another; one redirect and one retry are the budget.
- The three documents have a chain of comps, a comp over a written variable, a form,
  a timer whose action fails after a write, and calls whose answers outlive the
  document. Numbers of `-128..127` with one decimal reach every overflow; depths,
  nodes and budgets are cut at values the inputs exceed by one.
- Scenes are small because the loop treats tabs alike but for the active one: two
  tabs, or three where the order on the strip matters.

### Fairness

- `TabNavigation`: weak fairness of `tab.loading /\ NetworkAnswer`. The event loop
  asks to be polled only while some tab shows its spinner
  (`schedule_next_wakeup`), and the network worker bounds every request by a
  timeout. Nothing is assumed of the user or of the servers, which may redirect for
  ever; `SpinnerStops` holds because the redirect budget cuts the chain.
- `StorageDebounce`: weak fairness of each domain's timer and of the flushes: tokio
  runs the timers it has armed and the blocking tasks it has queued. A flush may end
  by failing, and a crash may come at any moment; `EventuallyDurable` says so.
- `WorkerBridge`: weak fairness of the router thread, of the UI thread's drain and,
  per process, of its message loop and its reader. Each is a thread that blocks only
  on its own channel, and an evaluation ends because it has an instruction budget.
  `WorkerProcess`: the same of its router, worker and reader; a failing `accept`, an
  oversized reply, death, crash and the stranger are free. Nothing is assumed of
  users, timers or crashes.
- `NetworkWorker`: weak fairness of the runtime as a whole. Every wait of a task is
  under a timeout (`CONNECT_TIMEOUT`, `REQUEST_TIMEOUT`) and the UI reads its channel,
  so some task can always go on.
- `Window`: weak fairness of the loop's own steps and of the clock: the operating
  system delivers a redraw that was requested and wakes the loop at its deadline.
  Nothing is assumed of inputs or of the workers.

## 4. Disagreements between the code and what it says of itself

Four runs are refuted, each by a statement of a comment or a test that `PROJECT.json`
quotes:

1. **The origin moves before the document is accepted** (`tab_rejected_document`).
   `handle_navigate_success` assigns `committed_url` and `capability_policy`, then
   parses and checks; a document that fails a check is not installed and the previous
   one stays, under the new origin.
2. **Last write wins is not guaranteed inside one window** (`debounce_order`). Each
   flush is its own blocking task, and the early flush at the key limit and the timer's
   flush after it may commit in the other order.
3. **A closed tab strands an image** (`image_stranded`). The download belongs to the
   tab that asked first; when that tab is closed its answer is dropped, the shared
   entry stays `Loading`, and the tabs that wait for it keep the placeholder.
4. **A timer that changes its document skips** (`timer_skips`). The answer to one tick
   is drained in the pass where the next is due; the layout it causes arms the timer
   anew before it is looked at.

What else the models show, without a run of its own. Most of these are in the models
as the code has them, and the properties are worded around them; those marked (read)
were noticed in code that the models abstract.

*Tabs and navigation.* A late batch of the previous document is applied to the next
one's store. Back and Forward move the stacks before the verdict, so a blocked step
still moves them. The redirect counter is per tab and every commit resets it for all
chains in flight (hence *lone* in `LoneChainWithinBudget`). A scroll offset set by Back
can be taken by an older navigation that commits first (hence *started last* in
`ScrollIsOwn`). A file that cannot be read leaves the spinner on (`navigate.rs:656`).

*Window.* Closing a tab, an image that arrives for a hidden tab and a change of theme
leave layouts stale that `manager/types.rs:158` says are rebuilt; "wake again shortly"
(`idle.rs:410`) is defeated by `idle.rs:324`; an answer for a tab without a spinner
waits for the next input (`idle.rs:436`). Enter clears the suggestions, and the refresh
at the end of `handle_chrome_key` brings them back; `set_displayed_url` leaves old ones.
The inline completion is matched in lower case, and what is painted is cut from the
visited URL as it is, at the byte length of the text as it was typed
(`keyboard.rs:214-231`). Typing `EXA` therefore shows `EXAmple.com` (hence *up to case*
in `CompletionFitsText`). And a character whose lower case takes another number of
bytes, such as the signs of Kelvin (U+212A) and Angstrom (U+212B) or `Ⱥ` (U+023A), in
the text or only in the visited URL, moves the cut: the completion makes the text
another URL, or the cut falls inside a character or behind the end and panics. TLC
reaches all of these in the run `window`: the model has `BPanic` for it, and the
property speaks of texts and URLs that keep their widths. With overflow checks the subtraction
of `keyboard.rs:227` can panic as well.

*Storage and history.* Two browser processes that open a new domain together can lose
a key: both find none, both save one, and the file lock is taken only later
(`keys.rs:118` against `engine.rs:52`); hence the assumption of
`OneProcessDecryptable`. The quota ledger starts empty after a restart (hence
`inherited` in `StoreCharged`). A browser that is launched on a file builds the first
tab, and with it its `capability_policy`, for `mizu://localhost/index.mizu`
(`construct.rs:203`, `:217`) and only then makes the file the tab's committed URL
(`event_loop/mod.rs:167`). Until that tab navigates, what the file's logic writes goes
to the store of the file and is charged to `localhost`, at the tier of `localhost`, though
`render/security/mod.rs:102` says that the quota key is always the current domain. The
run launches both ways, and `StoreCharged` gives the store of a launched file and that
of `localhost` one account; every other store has its own. With the keyring unavailable at launch the log starts empty and the next save
replaces the good file. Autosave runs only when the loop is about to wait, so the half
minute of `log.rs:215` is a lower bound. Clear leaves the quarantined file.

*Worker processes.* A tick is released when a message of its tab is drained; a dead
process and a NoOp release none, so at the limit a document's timers stop until
something else answers (`construct.rs:569`, against "never a wedged document" at
`:584`). The reader thread's clone of the socket keeps the worker from seeing the end
of the stream (`bridge.rs:173` says it exits by itself): the kill in
`ChildGuard::drop` ends it. `accept` has no timeout (`process/mod.rs:292`): a worker
that dies before it connects blocks the router for all tabs. A failed handshake
neither kills nor reaps the child, and leaves the socket file.

*Wire.* Symbols inside expressions are not checked against the table although
`rehydrate.rs:14` says so. A file handle reaches the worker as Null. A JSON answer
deeper than `MAX_VALUE_DEPTH` (128) and within `MAX_JSON_DEPTH` (256) is taken from the
network and refused by the worker. A response that cannot be read is reported as an
error after the session has applied its event. `wire/reload.rs:1` speaks of shared
memory; reloads travel inline (read).

*Session and language.* The parameters that a failed call had bound stay, and shadow
variables of their names (against `session.rs:142`). A form field, an answer or a clock
reading can be written to a computed variable (against `semantics.md:316`). A sum of
strings is typed as a number (`semantics.md:131`). An integer path parameter is
rejected and a decimal one is sent as its scaled integer (`eval.rs:93`). An alias error
never surfaces. Two comps may have one name; the sort by dependencies knows only the
later (`comp.rs:189`), so that the earlier may come after a comp that reads it, and then
the worklist evaluates that comp again where the scan, which `comp.rs:288` says it
equals, does not (hence the different names in `IncrementalIsNaive`).

*Parser.* The name of an interval variable that ends in `s` or `ms` loses its end
(`entry.rs:199`, against `grammar.md:185`). Function names need not be unique, the
later definition wins. Tokens after a complete function body, and lines below a
definition that has its body, are dropped. A comma inside a payload is refused,
commas between arguments may be missing. An assignment to a variable that is spelled
like `get`, `post`, `put` or `delete`, in any case, is refused as a verb in lower case.
Chains of operators of one level do not count
as nesting, so an accepted expression may exceed `MAX_EVAL_DEPTH`.

*Network.* An entry that is evicted for expiry may be a newer one that another task
stored meanwhile (`auth/mod.rs:26` says the stale one). A header value that is not
wire-safe fails after the connection is open (`worker/mod.rs:323` says before any I/O).
A request that timed out is repeated, a POST too. The pool's map is locked during a
handshake, which makes all hosts wait for one.

## 5. Proofs

The theorems hold for every value of the constants that satisfies the named
assumptions, the bounds included: any number of tabs, URLs, domains, keys, threads,
processes, commands, hosts, visits. The assumptions are types and positive limits,
but for these:

- `PolicyAssumption`: `Sandbox`, which file lies in the tree of which, is transitive.
- `VaultsAssumption`: the keyring at launch holds only tokens that an earlier run of
  `process_mizu_auth_set` saved, so each belongs to its host and its methods are
  permitted ones.
- `LocalAddressesAssumption`: the local addresses `NamesNeverLeadInward` speaks of are
  any set of those of 10/8, 127/8, 172.16/12, 192.168/16 and 169.254/16.
- Some theorems have a hypothesis, because the code gives no more: one browser process
  (`KeysSafe`, `OneProcessDecryptable`), workers that are not compromised
  (`AgencyIsOwn`, `RegistryIsCurrent`, `BridgeSafe`), a window taller than the header
  of the panel (`HistoryIsShown`), and `SuggestsTexts` (`BarStaysCoherent`): what the
  history suggests are texts.

**TabNavigationProofs** (`TypeCorrect`, `LogicNavigationsStayHome`,
`NetworkSeesFetchable`, `ImplementsTabOrigin`, `LocalFilesStayLocal`, `TabSafe`,
`ChainsAreCut`, `ScrollStaysWithItsStep`). `LogicStaysHome` is not inductive: a
redirect is judged by the initiator the command carries, so the invariant `IInv` adds,
for every command in flight, that a chain caused by logic carries an initiator rooted
in `DocumentLogic` (`CommandOK`), next to the types and the history caps. Each handler
is an operator on tabs, so there is one lemma per operator (`RecordNavigation`,
`Success`, `AllowedStep`, `Navigate`, `ExecuteStep`, `HistoryMove`, ...), saying that
it keeps a tab good and moves the origin by at most one step of `TabOrigin`. A batch
may navigate twice, which is still one step because the sandbox relation is transitive
(`OriginStepTransitive`). `ImplementsTabOrigin` is the step simulation,
`LocalFilesStayLocal` follows from it and the same transitivity, and `TabSafe` collects
what `tab_local` checks as `TabInv`. For the last two theorems `ChainIInv` adds three
facts: while one navigation has been started at most one command is in flight and the
shared counter is not behind its hops (`LoneTab`); a scroll offset that waits belongs
to the navigation started last (`ScrollOwned`); no chain in flight is newer than the
tab's count (`ChainsKnown`).

**WorkerBridgeProofs** (`AgencyIsOwn`, `BridgeTyped`, `RegistryIsCurrent`,
`GesturesSpentOnce`, `BridgeSafe`). Replies carry no identity, so the argument for
`AgencyIsOwn` is positional: for a living process the queue of agencies is, in order,
those of the frames to be read, of the events in its inbox and of the event the router
has in hand (`Answered`, `Queued`, `Matched`); for a dead one only the first part is
still true, which is all its reader needs; only the current process has an event in
hand (`Lined`). `RegistryNotOlder` needs to know where the Reload of every document
is: `RegistryIInv` says that it has reached the process whose registry is in use, or
is in the channel before every event of its document (`Announced`), so that an event
is never sent to a process that has not been told of its document; and that
documents on the channel do not go backwards (`Past`). `GesturesAreSpent` is a count:
the gestures granted and those unspent, in the channel to the router and in the queues
of all processes, dead ones too, are together no more than the clicks (`SpendIInv`).
It asks nothing of the frames, and so holds for forgers.

**WorkerProcessProofs** (`UntrustedStaysContained`). That a channel in use leads to the
spawned process is inductive: only the frame with the token opens a channel, and only
that process has the token (`OwnHello`). `ConfinedBeforeInput` speaks of a process that
has taken an event; `Confinement` adds the one that waits for it. For the gestures the
module instantiates `WorkerBridgeProofs` with the variables of the tab whose processes
are compromised (`HP`), proves that instance's assumption, and cites what is proved
there of `SpendIInv`; the `Same...` lemmas say that the two instances, of the module
and of its proofs, have the same steps.

**AtRestProofs**, of the keys (`TypeCorrect`, `NoLockOut`, `OneProcessDecryptable`,
`KeysSafe`): `KeysTypeOK` contains mutual exclusion of the pool; `NoLockOut` needs that
a thread about to open the database has a key saved (`SavedFirst`) and holds for any
number of processes. `OneProcessDecryptable` assumes that all threads belong to one
process; its invariant `OneKey` says that every key in use is the saved one and that
while a thread is between finding none and saving one there is none, which is where a
second process breaks it. `KeysSafe` puts the three together.

Of the history (`HistoryOnDisk`, `HistoryIsShown`): `HistoryIInv` says what the
temporary file holds at each step of a save and that a save in progress is of a dirty
log, the one in memory, empty when it is that of a Clear (`SaveInProgress`), and that
every visit known is in the past, so that a new one is none of the cleared
(`VisitsPast`). `HistoryIsShown` needs that the log in memory and the one on disk are
newest first (`Ordered`), which a load from disk relies on. The list of suggestions is
a recursion over the positions of the log, and what it holds is shown for the least
position that would refute it (`RankedLists`, `SuggestionsOfLog`). For the panel the
proof computes an offset and a point that hit a given row (`EveryRowReachable`,
`HitIsExact`).

Of the stores (`WritesAccountedFor`, `QuotaHolds`, `StoresAreCharged`,
`ImplementsDebounce`): `DebounceInv` is inductive once batches are known to be finite
(`Buffered`). `LedgerWithinQuota` needs that the identity and the tier of a tab's
policy come from one URL (`PolicyOfUrl`). `StoreCharged` compares a store with the
ledger, and no step changes both: the invariant `Charged` says that the bytes in a
domain's store, in its buffer and in all of its flushes under way are together covered
by what the process inherited and has charged since (`Balanced`), and that a tab
running a document is charged under that document's identity, or is the first tab with
the launch document, under that of `localhost` (`OwnPolicy`). The store of a launched
file and that of `localhost` are balanced together, all others each by itself; a write
adds to a store no more than to the account that pays for it (`PaysFor`), so one lemma
(`BalancedStep`) serves both launches. A commit moves bytes from one
term to another and may only lose some, where a key is overwritten. What is known of
such sums over sets is proved in `SumTheorems`: `SumFunctionOnSet` is a recursion
over sets, and instead of an induction each fact is shown for a smallest set that
refutes it (`LeastNat`, `SmallestSet`). `ImplementsDebounce`: the
composition is a refinement of the debouncer alone.

**SessionMirrorProofs** (`MirrorShowsSession`). `UiShowsSession` speaks of empty
channels, and what makes it true is on its way in them. `MirrorIInv` says that Reloads
carry rising numbers above the session's, the last one the document shown
(`ReloadsAhead`), and that responses arrive in the order of their loads, none ahead of
the session's (`ResponsesBehind`). Before the session has seen the last load, the store
holds what the load gave it except where a response of an earlier document wrote
(`Waiting`). From then on (`Follows`), for every variable, the last report on its way
brings the value the session holds; when none is, the store shows it already, or the
variable was or will be written by an earlier document and this one has never reported
it, so that it has no value or the load supplied it. There is a lemma for each thing
that may happen to one variable (`FollowsReport`, `FollowsUnreported`, `FollowsFirst`,
`FollowsTail`) and one for each step. Documents, values and what a session computes are
arbitrary; that the session of the code keeps the contract is what `language` checks
on its instance (`MirrorSpec`), because the evaluator behind it is recursive.

**NetworkWorkerProofs** (`NetworkAccountedFor`, `TokensInScope`, `RequestsVetted`,
`SubresourcesConfined`, `AnswersAreFinal`). `NetIInv` says of every command what its
task carries from one await to the next (`CommandOk`): the token it loaded is its
host's and in scope, the address it resolved and the one its connection goes to are
authorised for it, a request being prepared follows a redirect on its host or repeats
a first attempt that got no answer, and its answer is the one outcome of its task. Of
the shared state: every pooled connection is to an address authorised for its host
(`Pooled`), every saved token belongs to its host (`Vaulted`), the map is locked by
the one task in its handshake and then has room for it (`Locked`), and permits and
tasks that hold one add up (`Permits`). The two action properties follow from the same
invariant before the step. `NamesNeverLeadInward` takes an arithmetic lemma for each
notation of an embedded IPv4 address.

**WindowProofs**, of the address bar (`BarStaysCoherent`): cursor and selection are
byte offsets, sums of the widths of the characters before them, so they grow strictly
with the position and determine it. `OffsetConcat` splits the offset of a joined text
at the joint, and `SplicedKeepsBoundaries` says what every edit needs: when a range
between two boundaries is replaced, the end of what is put in its place is a boundary
of the new text. The invariant `BarIInv` adds to `OnText` (the offsets lie on
characters) what is known of the suggestions and of the completion painted after the
text (`Offers`). For that, `CompletionsFit` shows that where lower case keeps the widths
a text and its lower case have the same offsets (`SameWidths`), so that a prefix in
lower case ends on a boundary of the URL as it was visited (`PrefixAgrees`, `SliceAt`),
and what follows it there is, in lower case, what follows it in the lower case.

Of the window (`LoopNeverOversleeps`, `WaitersServed`, `FocusFollows`): `WindowInv`
speaks of a sleeping loop only; what makes it true is arranged while the loop is
awake. `ResizeAhead` therefore also says of a loop that is awake that a layout which
is not that of the window has a resize pending. `PlaceholdersReplaced` depends on the
whole way of an image: `Good` says that ids are unique, that only open tabs wait, that
a tab with a placeholder waits or the image has failed, and that the image is asked
for once; `LoneAnswer` that one answer to that request is under way, so that none
comes after the image is `Ready`. One pass of `dispatch_about_to_wait` takes any
number of results, each of which may add commands, finish the image or replace a
document. `Follows` is what one result may do to the fields; that a drain of the whole
channel does the same is shown for the least prefix that would refute it
(`DrainUnfolds`, `DrainFollows`). `WakeupsCover` says that the deadline set last is no
later than any timer of any tab. There is one lemma per action, and `ClosedStrip`,
which position holds which tab after a close, carries `FocusFollows`.

Only model-checked: the liveness properties (`SpinnerStops`, `EventuallyDurable`,
`PendingDrains`, `NoWorkerOutlives`, `SendsComplete`, `EveryCommandAnswered`,
`LoadingAnswersShown`), which with fairness and `ENABLED` are out of the prover's
reach; and of the run `language` everything but `UiShowsSession`, because `Values`,
`Evaluator`, `Computed`, `StaticChecks`, `Wire`, `Parser` and `Language` walk
expressions, values and trees with `RECURSIVE` operators, which the prover does not
support, and what a recursion over such data computes needs an induction. `TabSession`
extends them, so that its refinement of `SessionMirror` stays with TLC, too. Every other
safety property of the passing runs is a theorem.

## 6. Plan

The models are complete as far as section 7 goes, and every safety property within the
prover's reach is proved. A change of the code should be followed in this order: the
definition that `PROJECT.json` maps to its lines, the run of its component, the lemma
of the action that changed.

## 7. Not modelled

- Painting, layout, text shaping, hit testing and the inspector: state derived from
  what the models keep, and floating-point geometry.
- The splitter, the lexer and the parsers of layout, style and urls: sequential code
  from characters to trees, fuzzed and property-tested in the repository. The logic
  block is modelled from its tokens on.
- Sandbox profiles, shared memory and the Windows pipes of `crates/ipc`, and the
  synchronous host of `worker_host` that only tests use. Confinement is one step that
  may fail.
- QUIC, TLS, DNS servers, redb, the OS keyring: libraries and services, modelled where
  the code depends on them by how it uses them. Certificates, multipart and payload
  encodings are choices: accepted or refused.
- Encryption of records and of the history: a blob opens with its own key only.
- Logging and wording. The clock is a choice or a small counter: rate-limit windows
  may or may not have expired, timers fire when they are armed and due.
