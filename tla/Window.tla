------------------------------- MODULE Window -------------------------------
(***************************************************************************)
(* The browser window (src/render/window): the tabs, the layout each of    *)
(* them was last given, and the event loop that sleeps until an input or   *)
(* a deadline, repaints the tab on screen, and before it sleeps again      *)
(* drains the answers of the network worker and of the logic worker,       *)
(* applies a throttled resize, fires the timers of every document and      *)
(* computes the next deadline.                                             *)
(*                                                                         *)
(* Nothing but an input or its own deadline wakes the loop: the workers    *)
(* only leave their answers in network_rx and logic_rx.  One tick of the   *)
(* clock is 16 ms, the resolution of every deadline; handlers take no time.*)
(* Of a navigation only what the loop sees is here: see TabNavigation.     *)
(***************************************************************************)
EXTENDS Integers, Sequences, FiniteSets, FiniteSetsExt, SequencesExt

CONSTANTS
  WNone,                      \* no deadline, no pending resize, no fetch
  Zero,                       \* the size of a minimised window
  Scenes,                     \* documents and inputs to explore, see Scene
  BACKGROUND_TIMER_MIN,       \* ticks
  MAX_INFLIGHT_TIMER_TICKS

LogicKinds == {"quiet", "mutates", "navigates", "fetches"}
NetworkKinds == {"document", "redirect", "failed", "data", "image", "noimage"}

\* What the documents shown declare, and what the user may do.
Scene == [sizes : SUBSET {"small", "large"}, minimise : BOOLEAN,
          timers : Seq(Nat \ {0}),          \* periods of the root timers
          image : BOOLEAN,                  \* the documents show one image
          targets : SUBSET {"mizu", "file", "unreadable", "blocked"},
          clicks : Nat,                     \* events a tab may have waiting
          answers : SUBSET LogicKinds,
          open_tabs : Nat,                  \* MAX_OPEN_TABS
          \* Bounds: tabs ever opened; messages under way in each direction.
          ids : Nat \ {0}, unread : Nat]

ASSUME WindowAssumption ==
  /\ Scenes \subseteq Scene
  /\ WNone \notin Nat \cup {"small", "large"} /\ Zero \notin {"small", "large"}
  /\ BACKGROUND_TIMER_MIN \in Nat \ {0} /\ MAX_INFLIGHT_TIMER_TICKS \in Nat \ {0}

VARIABLES
  scene,
  tabs, active_tab, next_tab_id,
  window_size,          \* inner_size, the operating system's
  window_logical_size,  \* what resize_viewport was last given
  pending_resize,
  recent_layout,        \* last_layout_time is less than 16 ms ago
  image,                \* the slot of the image in image_cache
  fetching_images,      \* its waiters
  network_cmds,         \* commands the network worker has not answered
  network_rx,
  logic_events,         \* events the logic worker has not answered, by tab
  logic_rx,
  phase,                \* "asleep", "awake", "exited"
  control_flow,         \* ticks to the deadline; WNone for Wait
  redraw_requested,
  steady                \* history: on screen is what the last resize found there

strip == <<tabs, active_tab, next_tab_id>>
geometry == <<window_size, window_logical_size, pending_resize, recent_layout>>
workers == <<network_cmds, network_rx, logic_events, logic_rx>>
pictures == <<image, fetching_images>>
loop == <<phase, control_flow, redraw_requested>>
wvars == <<scene, strip, geometry, pictures, workers, loop, steady>>

-----------------------------------------------------------------------------
(* Tabs *)

Ids == 0..(scene.ids - 1)
Indices == 1..Len(tabs)
Open(ts) == {ts[i].id : i \in 1..Len(ts)}
Active == tabs[active_tab]
IsActive(i) == i = active_tab
Position(ts, id) == CHOOSE i \in 1..Len(ts) : ts[i].id = id

Unarmed == [i \in 1..Len(scene.timers) |-> WNone]

\* TabState::new: a blank page, laid out for the size the window has recorded.
NewTab(id) ==
  [id |-> id, viewport_size |-> window_logical_size, layout_stale |-> FALSE,
   loading |-> FALSE, document |-> FALSE, root_timer_queue |-> Unarmed,
   inflight_timer_ticks |-> 0, typing_layout_dirty |-> FALSE,
   placeholder |-> FALSE]     \* painted, and laid out, without its image

\* resize_tab_viewport
Relayout(tab, size) ==
  IF size = Zero THEN tab
  ELSE [tab EXCEPT !.viewport_size = size, !.layout_stale = FALSE]

\* resize_viewport: the tab on screen at once, the others when they are shown.
resize_viewport(size) ==
  /\ window_logical_size' = size
  /\ tabs' = [i \in Indices |-> IF IsActive(i) THEN Relayout(tabs[i], size)
                                ELSE [tabs[i] EXCEPT !.layout_stale = TRUE]]

\* setup_timers: every deadline counts from now.
setup_timers(tab) ==
  [tab EXCEPT !.root_timer_queue = IF tab.document THEN scene.timers ELSE Unarmed]

\* reload_tab_document
reload_tab_document(tab) ==
  setup_timers([tab EXCEPT !.document = TRUE, !.inflight_timer_ticks = 0, !.placeholder = FALSE])

\* One more event for the logic worker.
Send(events, id) == [events EXCEPT ![id] = @ + 1]

-----------------------------------------------------------------------------
(* Input.  Every handler leaves the loop awake. *)

Handling == phase # "exited" /\ phase' = "awake" /\ UNCHANGED control_flow
Redrawn == redraw_requested' = TRUE

\* dispatch_resized.  At most one layout per 16 ms: a resize that comes too
\* soon is left for the loop.
Resized(size) ==
  /\ Handling
  /\ size # window_size /\ window_size' = size
  /\ IF size = Zero
     THEN UNCHANGED <<tabs, window_logical_size, pending_resize, recent_layout,
                      redraw_requested, steady>>
     ELSE /\ steady' = TRUE
          /\ IF recent_layout
             THEN /\ pending_resize' = size
                  /\ UNCHANGED <<tabs, window_logical_size, recent_layout, redraw_requested>>
             ELSE /\ resize_viewport(size)
                  /\ recent_layout' = TRUE /\ pending_resize' = WNone
                  /\ Redrawn
  /\ UNCHANGED <<scene, active_tab, next_tab_id, pictures, workers>>

\* ThemeChanged: every layout is rebuilt, for the size recorded.
ThemeChanged ==
  /\ Handling /\ Redrawn
  /\ scene.sizes # {}
  /\ resize_viewport(window_logical_size)
  /\ steady' = FALSE
  /\ UNCHANGED <<scene, active_tab, next_tab_id, window_size, pending_resize, recent_layout,
                 pictures, workers>>

\* open_tab followed by switch_to_tab: Ctrl+T and the new-tab button.
open_tab ==
  /\ Handling /\ Redrawn
  /\ Len(tabs) < scene.open_tabs /\ next_tab_id < scene.ids
  /\ tabs' = Append(tabs, NewTab(next_tab_id))
  /\ next_tab_id' = next_tab_id + 1
  /\ active_tab' = Len(tabs')
  /\ steady' = FALSE
  /\ UNCHANGED <<scene, geometry, pictures, workers>>

\* Mutation: a tab closed at the active position counts as one to its left.
steps_left(pos, left) == IF active_tab >= pos THEN Max({active_tab - 1, 1}) ELSE active_tab

\* The index of the tab on screen once the one at pos is gone and left tabs
\* are left (1-based here).
IndexAfterClose(pos, left) ==
  IF active_tab > pos \/ active_tab > left THEN active_tab - 1 ELSE active_tab

\* close_tab: the worker is told, the tab leaves every waiter list, and the
\* tab on its right takes its place.  Closing the last one ends the program.
close_tab(pos) ==
  /\ phase # "exited" /\ UNCHANGED control_flow
  /\ IF Len(tabs) = 1
     THEN phase' = "exited" /\ UNCHANGED <<strip, fetching_images, redraw_requested, steady>>
     ELSE /\ phase' = "awake" /\ Redrawn
          /\ fetching_images' = fetching_images \ {tabs[pos].id}
          /\ tabs' = RemoveAt(tabs, pos)
          /\ active_tab' = IndexAfterClose(pos, Len(tabs) - 1)
          /\ steady' = (steady /\ pos # active_tab)
          /\ UNCHANGED next_tab_id
  /\ UNCHANGED <<scene, geometry, image, workers>>

\* switch_to_tab: a tab whose layout is marked stale is laid out when shown.
switch_to_tab(pos) ==
  /\ Handling /\ Redrawn
  /\ pos # active_tab /\ active_tab' = pos
  /\ tabs' = [tabs EXCEPT ![pos] = IF @.layout_stale THEN Relayout(@, window_logical_size) ELSE @]
  /\ steady' = FALSE
  /\ UNCHANGED <<scene, next_tab_id, geometry, pictures, workers>>

\* F12, and the Escape that closes the inspector.
ToggleInspector ==
  /\ Handling /\ Redrawn
  /\ scene.sizes # {}
  /\ tabs' = [tabs EXCEPT ![active_tab] = Relayout(@, window_size)]
  /\ UNCHANGED <<scene, active_tab, next_tab_id, geometry, pictures, workers, steady>>

\* The address bar, a suggestion, Reload, Back or Forward: a mizu URL is asked
\* of the network worker, a file is read at once, and a file that cannot be
\* read leaves the spinner turning with nothing under way.
Navigate(target) ==
  /\ Handling /\ Redrawn
  /\ target = "mizu" => Len(network_cmds) + Len(network_rx) < scene.unread
  /\ target = "file" => logic_events[Active.id] < scene.unread
  /\ tabs' = [tabs EXCEPT ![active_tab] =
       CASE target \in {"mizu", "unreadable"} -> [@ EXCEPT !.loading = TRUE]
         [] target = "file" -> [reload_tab_document(@) EXCEPT !.loading = FALSE]
         [] target = "blocked" -> [@ EXCEPT !.loading = FALSE]]
  /\ network_cmds' = IF target = "mizu" THEN Append(network_cmds, [tab |-> Active.id, kind |-> "nav"])
                     ELSE network_cmds
  /\ logic_events' = IF target = "file" THEN Send(logic_events, Active.id) ELSE logic_events
  /\ UNCHANGED <<scene, active_tab, next_tab_id, geometry, pictures, network_rx, logic_rx, steady>>

\* A click or a form submission that has an action.
Click ==
  /\ Handling /\ Redrawn
  /\ Active.document /\ logic_events[Active.id] < scene.clicks
  /\ logic_events' = Send(logic_events, Active.id)
  /\ UNCHANGED <<scene, strip, geometry, pictures, network_cmds, network_rx, logic_rx, steady>>

\* A key typed into an input of the document, or a change of focus.
Type ==
  /\ Handling /\ Redrawn
  /\ Active.document /\ scene.clicks > 0
  /\ tabs' = [tabs EXCEPT ![active_tab].typing_layout_dirty = TRUE]
  /\ UNCHANGED <<scene, active_tab, next_tab_id, geometry, pictures, workers, steady>>

\* CloseRequested, and the Escape that has nothing left to dismiss.
CloseRequested ==
  /\ phase # "exited" /\ phase' = "exited"
  /\ UNCHANGED <<scene, strip, geometry, pictures, workers, control_flow, redraw_requested, steady>>

-----------------------------------------------------------------------------
(* Painting *)

\* Mutation: a tab that finds the image in flight does not join the waiters.
requester_only(id) == IF image = "absent" THEN fetching_images \cup {id} ELSE fetching_images

register_image_waiter(id) == fetching_images \cup {id}

\* dispatch_redraw_requested: paint_node asks for the image the first time it
\* meets it, joins the waiters while it is on its way, and shows it once ready.
Redraw ==
  /\ redraw_requested /\ phase # "exited"
  /\ phase' = "awake"
  /\ IF window_size # Zero /\ Active.document /\ scene.image /\ image \in {"absent", "Loading"}
     THEN /\ image' = "Loading"
          /\ fetching_images' = register_image_waiter(Active.id)
          /\ network_cmds' = IF image = "Loading" THEN network_cmds
                             ELSE Append(network_cmds, [tab |-> Active.id, kind |-> "image"])
          /\ tabs' = [tabs EXCEPT ![active_tab].placeholder = TRUE]
     ELSE UNCHANGED <<tabs, pictures, network_cmds>>
  /\ redraw_requested' = (window_size # Zero /\ Active.loading)
  /\ UNCHANGED <<scene, active_tab, next_tab_id, geometry, network_rx, logic_events, logic_rx,
                 control_flow, steady>>

-----------------------------------------------------------------------------
(* Before the loop sleeps.  The parts of dispatch_about_to_wait take and
   return the fields they work on: m = [tabs, cmds, events, image, waiters]. *)

\* Applied by notify_image_waiters to every waiter but the one who asked.
WaiterToldStale(tab) == [tab EXCEPT !.layout_stale = TRUE, !.placeholder = FALSE]

notify_image_waiters(m, requester) ==
  [m EXCEPT !.waiters = {},
            !.tabs = [i \in DOMAIN m.tabs |->
              IF m.tabs[i].id \in m.waiters \ {requester} THEN WaiterToldStale(m.tabs[i])
              ELSE m.tabs[i]]]

\* process_network_result and the relayout that ends it.
process_network_result(m, res) ==
  LET i == Position(m.tabs, res.tab)
      On(tab) == [m EXCEPT !.tabs[i] = Relayout(tab, window_size)]
      t == m.tabs[i]
  IN  CASE res.kind = "document" ->
             [On([reload_tab_document(t) EXCEPT !.loading = FALSE])
                EXCEPT !.events = Send(@, t.id)]
        [] res.kind = "failed" ->
             [On([t EXCEPT !.loading = FALSE]) EXCEPT !.events = Send(@, t.id)]
        [] res.kind = "redirect" ->
             [On([t EXCEPT !.loading = TRUE])
                EXCEPT !.cmds = Append(@, [tab |-> t.id, kind |-> "nav"])]
        [] res.kind = "data" -> [On(t) EXCEPT !.events = Send(@, t.id)]
        [] res.kind = "image" ->
             notify_image_waiters(
               [On([t EXCEPT !.placeholder = FALSE]) EXCEPT !.image = "Ready"], t.id)
        [] res.kind = "noimage" ->
             notify_image_waiters([On(t) EXCEPT !.image = "Failed"], t.id)

\* One response of the logic worker.  A Navigate sets the spinner.
ApplyResponse(m, res) ==
  LET i == Position(m.tabs, res.tab)
      t == [m.tabs[i] EXCEPT !.inflight_timer_ticks = Max({@ - 1, 0})]
  IN  CASE res.kind = "quiet" -> [m EXCEPT !.tabs[i] = t]
        [] res.kind = "mutates" ->
             [m EXCEPT !.tabs[i] = IF IsActive(i) THEN t ELSE [t EXCEPT !.layout_stale = TRUE]]
        [] res.kind = "navigates" ->
             [m EXCEPT !.tabs[i] = [t EXCEPT !.loading = TRUE],
                       !.cmds = Append(@, [tab |-> t.id, kind |-> "nav"])]
        [] res.kind = "fetches" ->
             [m EXCEPT !.tabs[i] = t, !.cmds = Append(@, [tab |-> t.id, kind |-> "fetch"])]

\* One result of either worker: what is for a closed tab is dropped.
TakeResult(m, res) ==
  IF res.tab \notin Open(m.tabs) THEN m
  ELSE IF res.kind \in LogicKinds THEN ApplyResponse(m, res) ELSE process_network_result(m, res)

Drain(m, queue) ==
  LET after[k \in 0..Len(queue)] == IF k = 0 THEN m ELSE TakeResult(after[k - 1], queue[k])
  IN  after[Len(queue)]

\* drain_network_results
DrainNetwork(m) == Drain(m, network_rx)

\* drain_logic_worker_results
DrainLogic(m) == Drain(m, logic_rx)

StateChanged == \E k \in DOMAIN logic_rx : logic_rx[k] = [tab |-> Active.id, kind |-> "mutates"]

\* recompute_dirty_layout, when the tab on screen changed or is being typed
\* in: its timers start over, and it is laid out again if a text changed size.
RecomputeDirty(m, resized) ==
  LET t == m.tabs[active_tab]
      timed == [setup_timers(t) EXCEPT !.typing_layout_dirty = FALSE]
  IN  IF StateChanged \/ t.typing_layout_dirty
      THEN [m EXCEPT !.tabs[active_tab] = IF resized \/ t.typing_layout_dirty
                                          THEN Relayout(timed, window_size) ELSE timed]
      ELSE m

\* Due timers of a tab are sent to the worker while it has room for them,
\* and armed again either way; background_timer_period slows a hidden tab.
Due(tab) == {i \in DOMAIN tab.root_timer_queue : tab.root_timer_queue[i] = 0}

Dispatched(tab) ==
  Min({Cardinality(Due(tab)), Max({MAX_INFLIGHT_TIMER_TICKS - tab.inflight_timer_ticks, 0})})

background_timer_period(ticks) == Max({ticks, BACKGROUND_TIMER_MIN})

Fire(tab, on_screen) ==
  [tab EXCEPT
     !.inflight_timer_ticks = @ + Dispatched(tab),
     !.root_timer_queue = [i \in DOMAIN @ |->
        IF i \notin Due(tab) THEN @[i]
        ELSE IF on_screen THEN scene.timers[i] ELSE background_timer_period(scene.timers[i])]]

FireTimers(m) ==
  [m EXCEPT !.tabs = [i \in DOMAIN m.tabs |-> Fire(m.tabs[i], IsActive(i))],
            !.events = [id \in DOMAIN m.events |->
               IF id \in Open(m.tabs) THEN m.events[id] + Dispatched(m.tabs[Position(m.tabs, id)])
               ELSE m.events[id]]]

Deadlines(tab) == {tab.root_timer_queue[i] : i \in DOMAIN tab.root_timer_queue} \ {WNone}

\* Mutation: only the tab on screen is asked whether it is loading.
active_loading(m) == m.tabs[active_tab].loading

AnyLoading(m) == \E i \in DOMAIN m.tabs : m.tabs[i].loading

\* Mutation: the deadlines of hidden tabs are left out.
no_background(m) == {}

BackgroundDeadlines(m) ==
  UNION {Deadlines(m.tabs[i]) : i \in {j \in DOMAIN m.tabs : ~IsActive(j)}}

\* Mutation: nothing wakes the loop for a resize it put off.
forgets_resize == {}

PendingResizeDeadline == IF pending_resize # WNone /\ recent_layout THEN {1} ELSE {}

\* schedule_next_wakeup: m as it was, and n once the timers have fired.  The
\* deadline that was due when the timers were looked at takes part as well.
NextWakeups(m, n) ==
  LET fired == \E i \in DOMAIN m.tabs : Dispatched(m.tabs[i]) > 0
      due == IF Deadlines(m.tabs[active_tab]) = {} THEN {} ELSE {Min(Deadlines(m.tabs[active_tab]))}
  IN  due \cup Deadlines(n.tabs[active_tab]) \cup BackgroundDeadlines(n)
      \cup PendingResizeDeadline
      \cup (IF AnyLoading(m) \/ fired THEN {1} ELSE {})

\* An open inspector refreshes itself at 2 Hz.
InspectorTicks == IF scene.sizes = {} THEN {{}} ELSE {{}, {2}}

\* dispatch_about_to_wait.  resized: whether a changed text changed its size;
\* inspector: the deadline of an open inspector, if it is open.
AboutToWait(resized, inspector) ==
  /\ phase = "awake"
  /\ LET m0 == [tabs |-> tabs, cmds |-> network_cmds, events |-> logic_events,
                image |-> image, waiters |-> fetching_images]
         m1 == RecomputeDirty(DrainLogic(DrainNetwork(m0)), resized)
         late == pending_resize # WNone /\ ~recent_layout
         m2 == IF late
               THEN [m1 EXCEPT !.tabs[active_tab] =
                                  Relayout(Relayout(@, pending_resize), window_size)]
               ELSE m1
         m3 == FireTimers(m2)
         wakeups == NextWakeups(m2, m3) \cup inspector
     IN  /\ tabs' = m3.tabs /\ network_cmds' = m3.cmds /\ logic_events' = m3.events
         /\ image' = m3.image /\ fetching_images' = m3.waiters
         /\ pending_resize' = IF late THEN WNone ELSE pending_resize
         /\ recent_layout' = (recent_layout \/ late)
         /\ control_flow' = IF wakeups = {} THEN WNone ELSE Min(wakeups)
         /\ redraw_requested' =
              (\/ redraw_requested \/ late
               \/ StateChanged \/ Active.typing_layout_dirty
               \/ \E k \in DOMAIN network_rx : network_rx[k].tab \in Open(tabs))
  /\ network_rx' = <<>> /\ logic_rx' = <<>>
  /\ phase' = "asleep"
  /\ UNCHANGED <<scene, active_tab, next_tab_id, window_size, window_logical_size, steady>>

-----------------------------------------------------------------------------
(* The clock and the workers *)

Asleep == phase = "asleep" /\ ~redraw_requested

Sooner(d) == IF d = WNone THEN WNone ELSE Max({d - 1, 0})

Tick ==
  /\ Asleep /\ control_flow # 0
  /\ \/ control_flow # WNone \/ recent_layout
     \/ \E i \in Indices : Deadlines(tabs[i]) # {}
  /\ control_flow' = Sooner(control_flow)
  /\ recent_layout' = FALSE
  /\ tabs' = [i \in Indices |->
       [tabs[i] EXCEPT !.root_timer_queue = [k \in DOMAIN @ |-> Sooner(@[k])]]]
  /\ UNCHANGED <<scene, active_tab, next_tab_id, window_size, window_logical_size, pending_resize,
                 pictures, workers, phase, redraw_requested, steady>>

\* The deadline is reached, or the user moves the mouse.
Wake ==
  /\ phase = "asleep" /\ phase' = "awake"
  /\ UNCHANGED <<scene, strip, geometry, pictures, workers, control_flow, redraw_requested, steady>>

DeadlineReached == control_flow = 0 /\ Wake

\* The network worker answers a command; see NetworkWorker.
AnswerCommand(k, kind) ==
  /\ kind \in CASE network_cmds[k].kind = "nav" -> {"document", "redirect", "failed"}
                [] network_cmds[k].kind = "fetch" -> {"data"}
                [] network_cmds[k].kind = "image" -> {"image", "noimage"}
  /\ logic_events[network_cmds[k].tab] + Len(network_rx) < scene.unread
  /\ network_rx' = Append(network_rx, [tab |-> network_cmds[k].tab, kind |-> kind])
  /\ network_cmds' = RemoveAt(network_cmds, k)
  /\ UNCHANGED <<scene, strip, geometry, pictures, logic_events, logic_rx, loop, steady>>

\* The logic worker answers an event; see TabSession and WorkerBridge.
AnswerEvent(id, kind) ==
  /\ logic_events[id] > 0
  /\ kind \in {"navigates", "fetches"} => Len(network_cmds) + Len(network_rx) < scene.unread
  /\ Len(logic_rx) < scene.unread
  /\ logic_events' = [logic_events EXCEPT ![id] = @ - 1]
  /\ logic_rx' = Append(logic_rx, [tab |-> id, kind |-> kind])
  /\ UNCHANGED <<scene, strip, geometry, pictures, network_cmds, network_rx, loop, steady>>

-----------------------------------------------------------------------------

\* One tab with the document the program was started on, laid out and armed.
WindowInit ==
  /\ scene \in Scenes
  /\ window_size = "small" /\ window_logical_size = "small"
  /\ pending_resize = WNone /\ recent_layout = FALSE
  /\ tabs = <<setup_timers([id |-> 0, viewport_size |-> "small", layout_stale |-> FALSE,
                            loading |-> FALSE, document |-> TRUE, root_timer_queue |-> Unarmed,
                            inflight_timer_ticks |-> 0, typing_layout_dirty |-> FALSE,
                            placeholder |-> FALSE])>>
  /\ active_tab = 1 /\ next_tab_id = 1
  /\ image = "absent" /\ fetching_images = {}
  /\ network_cmds = <<>> /\ network_rx = <<>>
  /\ logic_events = [id \in Ids |-> 0] /\ logic_rx = <<>>
  /\ phase = "awake" /\ control_flow = WNone /\ redraw_requested = TRUE
  /\ steady = TRUE

WindowNext ==
  \/ \E size \in scene.sizes \cup (IF scene.minimise THEN {Zero} ELSE {}) : Resized(size)
  \/ ThemeChanged
  \/ open_tab
  \/ \E pos \in Indices : close_tab(pos) \/ switch_to_tab(pos)
  \/ ToggleInspector
  \/ \E target \in scene.targets : Navigate(target)
  \/ Click
  \/ Type
  \/ CloseRequested
  \/ Redraw
  \/ \E resized \in BOOLEAN, inspector \in InspectorTicks : AboutToWait(resized, inspector)
  \/ Tick
  \/ Wake
  \/ \E k \in DOMAIN network_cmds, kind \in NetworkKinds : AnswerCommand(k, kind)
  \/ \E id \in Ids, kind \in scene.answers : AnswerEvent(id, kind)

WindowSpec == WindowInit /\ [][WindowNext]_wvars

\* Only AboutToWait puts the loop to sleep, and it may whenever it is awake.
Sleeps == phase = "awake" /\ phase' = "asleep"

\* The loop runs, and the clock goes on.
WindowFairness ==
  WF_phase(Sleeps) /\ WF_wvars(Redraw) /\ WF_wvars(DeadlineReached) /\ WF_wvars(Tick)

-----------------------------------------------------------------------------
(* Properties *)

TabRecord ==
  [id : Ids, viewport_size : {"small", "large"}, layout_stale : BOOLEAN, loading : BOOLEAN,
   document : BOOLEAN, root_timer_queue : [1..Len(scene.timers) -> Nat \cup {WNone}],
   inflight_timer_ticks : 0..MAX_INFLIGHT_TIMER_TICKS, typing_layout_dirty : BOOLEAN,
   placeholder : BOOLEAN]

\* split_active indexes tabs directly: the active index stays in range, and
\* ids are never reused.  L3: a tab never has more ticks in flight than allowed.
WindowTypeOK ==
  /\ tabs \in Seq(TabRecord) /\ active_tab \in Indices
  /\ \A i, j \in Indices : tabs[i].id = tabs[j].id => i = j
  /\ \A i \in Indices : tabs[i].id < next_tab_id
  /\ window_size \in {"small", "large", Zero} /\ window_logical_size \in {"small", "large"}
  /\ pending_resize \in {"small", "large", WNone}
  /\ image \in {"absent", "Loading", "Ready", "Failed"}
  /\ fetching_images \subseteq Open(tabs)
  /\ logic_events \in [Ids -> Nat]
  /\ phase \in {"asleep", "awake", "exited"} /\ control_flow \in Nat \cup {WNone}

\* The loop never sleeps past a timer of any tab, hidden or not
\* (schedule_next_wakeup, fire_background_timers).
NoTimerOverslept ==
  Asleep => \A i \in Indices : \A d \in Deadlines(tabs[i]) :
              control_flow # WNone /\ control_flow <= d

\* A resize put off by the 16 ms throttle is neither lost nor left until the
\* next input: as long as the same tab stays on screen, it is laid out for the
\* window, or the loop wakes within a tick to do it.
ResizeNotForgotten ==
  Asleep /\ steady /\ window_size # Zero =>
    \/ Active.viewport_size = window_size
    \/ pending_resize = window_size /\ control_flow \in 0..1

\* event_loop/idle.rs: the loop sleeps only in good states, and never past what
\* it has put off.
WindowInv == WindowTypeOK /\ NoTimerOverslept /\ ResizeNotForgotten

\* A tab that painted a placeholder is told, once the image has come, to build
\* its layout again, a hidden one when it is next shown, whichever tab had asked
\* for the image (register_image_waiter, notify_image_waiters).
PlaceholdersReplaced ==
  image = "Ready" => \A i \in Indices : ~tabs[i].placeholder

\* What is on screen changes only by showing another tab or closing the one
\* shown, and then the one on its right appears, or the last one (close_tab).
FocusMovesAsShown ==
  [][\A pos \in Indices :
       Len(tabs') = Len(tabs) - 1 /\ tabs[pos].id \notin Open(tabs') =>
         IF pos # active_tab THEN tabs'[active_tab'].id = Active.id
         ELSE tabs'[active_tab'].id = tabs[IF pos = Len(tabs) THEN pos - 1 ELSE pos + 1].id]_wvars

Answered(id) == \E k \in DOMAIN network_rx : network_rx[k].tab = id
IsLoading(id) == \E i \in Indices : tabs[i].id = id /\ tabs[i].loading

\* An answer for a tab that shows its spinner is taken without any input from
\* the user, also when the tab is hidden (the poll of schedule_next_wakeup).
LoadingAnswersShown ==
  \A id \in {0, 1} : (Answered(id) /\ IsLoading(id)) ~> (~Answered(id) \/ phase = "exited")

\* What rebuild_tab_taffy_after_image promises every waiter: while a tab waits
\* for the image, its fetch or the answer to it is on the way.
ImageOnItsWay ==
  image = "Loading" /\ fetching_images # {} =>
    \/ \E k \in DOMAIN network_cmds : network_cmds[k].kind = "image"
    \/ \E k \in DOMAIN network_rx : network_rx[k].kind \in {"image", "noimage"}

=============================================================================
