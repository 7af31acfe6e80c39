---------------------------- MODULE WindowProofs ----------------------------
(***************************************************************************)
(* What the window's event loop guarantees for any documents, any number   *)
(* of tabs, timers and messages under way; and the address bar: for texts  *)
(* of any length, characters of any width and any suggestions, no          *)
(* operation leaves an offset inside a character or a completion that does *)
(* not belong to the text.                                                 *)
(***************************************************************************)
EXTENDS Window, UrlBar, SumTheorems, SequenceTheorems, FiniteSetTheorems, TLAPS

Sizes == {"small", "large"}
Slots == {"absent", "Loading", "Ready", "Failed"}
Command == [tab : Ids, kind : {"nav", "fetch", "image"}]
Answer == [tab : Ids, kind : NetworkKinds]
Response == [tab : Ids, kind : LogicKinds]

\* What dispatch_about_to_wait works on.
Fields == [tabs : Seq(TabRecord), cmds : Seq(Command), events : [Ids -> Nat],
           image : Slots, waiters : SUBSET Ids]

Now == [tabs |-> tabs, cmds |-> network_cmds, events |-> logic_events,
        image |-> image, waiters |-> fetching_images]

Places(m) == 1..Len(m.tabs)
Pictured == {"image", "noimage"}

\* The commands that ask for the image.
Asked(q) == {k \in 1..Len(q) : q[k].kind = "image"}

\* No two tabs have the same id; only open tabs wait for the image; a tab that
\* shows a placeholder waits, or the image could not be had; the image is asked
\* for once, and not any more once it is there or could not be had.
Good(m) ==
  /\ m \in Fields
  /\ \A i, j \in Places(m) : m.tabs[i].id = m.tabs[j].id => i = j
  /\ m.waiters \subseteq Open(m.tabs)
  /\ \A i \in Places(m) : m.tabs[i].placeholder =>
       m.image = "Failed" \/ (m.image \in {"absent", "Loading"} /\ m.tabs[i].id \in m.waiters)
  /\ m.image # "Loading" => Asked(m.cmds) = {}
  /\ \A j, k \in Asked(m.cmds) : j = k

\* The answer to the one request for the image, while it is not taken.
LoneAnswer(m, queue) ==
  /\ \A j \in 1..Len(queue) : queue[j].kind \in Pictured =>
       m.image = "Loading" /\ Asked(m.cmds) = {}
  /\ \A j, k \in 1..Len(queue) :
       queue[j].kind \in Pictured /\ queue[k].kind \in Pictured => j = k

SameStrip(m, n) ==
  /\ Len(n.tabs) = Len(m.tabs)
  /\ \A i \in Places(m) : n.tabs[i].id = m.tabs[i].id

-----------------------------------------------------------------------------
(* Numbers *)

\* The smaller and the larger of two integers.
LEMMA OfTwoInts ==
  ASSUME NEW a \in Int, NEW b \in Int
  PROVE  /\ Min({a, b}) \in {a, b} /\ Min({a, b}) <= a /\ Min({a, b}) <= b
         /\ Max({a, b}) \in {a, b} /\ Max({a, b}) >= a /\ Max({a, b}) >= b
<1>1. \E x \in {a, b} : \A y \in {a, b} : x <= y
  <2>1. CASE a <= b BY <2>1
  <2>2. CASE ~(a <= b) BY <2>2
  <2> QED BY <2>1, <2>2
<1>2. \E x \in {a, b} : \A y \in {a, b} : x >= y
  <2>1. CASE a <= b BY <2>1
  <2>2. CASE ~(a <= b) BY <2>2
  <2> QED BY <2>1, <2>2
<1> QED BY <1>1, <1>2 DEF Min, Max

\* A set of deadlines has a first one.
LEMMA FirstOf ==
  ASSUME NEW S \in SUBSET Nat, S # {}
  PROVE  Min(S) \in S /\ \A d \in S : Min(S) <= d
<1>1. \E x \in S : \A y \in S : x <= y BY LeastNat
<1> QED BY <1>1 DEF Min

-----------------------------------------------------------------------------
(* What is done to one tab *)

\* What a scene declares.
LEMMA SceneTimers ==
  ASSUME scene \in Scenes
  PROVE  /\ scene \in Scene /\ scene.timers \in [1..Len(scene.timers) -> Nat]
         /\ Len(scene.timers) \in Nat /\ scene.ids \in Nat \ {0}
         /\ Unarmed \in [1..Len(scene.timers) -> Nat \cup {WNone}]
<1>1. scene \in Scene BY WindowAssumption
<1>2. scene.timers \in Seq(Nat \ {0}) /\ scene.ids \in Nat \ {0} BY <1>1 DEF Scene
<1> QED BY <1>1, <1>2 DEF Unarmed

\* resize_tab_viewport changes the layout alone, and a window that is not
\* minimised is what it lays out for.
LEMMA RelayoutTab ==
  ASSUME NEW tab \in TabRecord, NEW size \in Sizes \cup {Zero}
  PROVE  /\ Relayout(tab, size) \in TabRecord
         /\ Relayout(tab, size).id = tab.id
         /\ Relayout(tab, size).placeholder = tab.placeholder
         /\ Relayout(tab, size).viewport_size = IF size = Zero THEN tab.viewport_size ELSE size
         /\ Relayout(tab, size).loading = tab.loading
         /\ Relayout(tab, size).root_timer_queue = tab.root_timer_queue
BY WindowAssumption DEF Relayout, TabRecord, Sizes

\* setup_timers changes the timers alone.
LEMMA SetupTab ==
  ASSUME scene \in Scenes, NEW tab \in TabRecord
  PROVE  /\ setup_timers(tab) \in TabRecord
         /\ setup_timers(tab).id = tab.id
         /\ setup_timers(tab).placeholder = tab.placeholder
         /\ setup_timers(tab).viewport_size = tab.viewport_size
BY SceneTimers DEF setup_timers, TabRecord

\* reload_tab_document paints no placeholder.
LEMMA ReloadTab ==
  ASSUME scene \in Scenes, NEW tab \in TabRecord
  PROVE  /\ reload_tab_document(tab) \in TabRecord
         /\ reload_tab_document(tab).id = tab.id
         /\ reload_tab_document(tab).placeholder = FALSE
         /\ reload_tab_document(tab).viewport_size = tab.viewport_size
<1> DEFINE t == [tab EXCEPT !.document = TRUE, !.inflight_timer_ticks = 0, !.placeholder = FALSE]
<1>0. 0 \in 0..MAX_INFLIGHT_TIMER_TICKS BY WindowAssumption
<1>1. /\ t \in TabRecord /\ t.id = tab.id /\ t.placeholder = FALSE
      /\ t.viewport_size = tab.viewport_size
  BY <1>0 DEF TabRecord
<1> QED BY <1>1, SetupTab DEF reload_tab_document

\* No more ticks are sent than there is room for.
LEMMA DispatchedFits ==
  ASSUME scene \in Scenes, NEW tab \in TabRecord
  PROVE  /\ Dispatched(tab) \in Nat
         /\ tab.inflight_timer_ticks + Dispatched(tab) \in 0..MAX_INFLIGHT_TIMER_TICKS
<1> DEFINE c == Cardinality(Due(tab))
           f == tab.inflight_timer_ticks
           r == Max({MAX_INFLIGHT_TIMER_TICKS - f, 0})
<1>1. Due(tab) \subseteq 1..Len(scene.timers) BY DEF Due, TabRecord
<1>2. IsFiniteSet(1..Len(scene.timers)) BY SceneTimers, FS_Interval
<1>3. c \in Nat BY <1>1, <1>2, FS_Subset, FS_CardinalityType
<1>4. f \in 0..MAX_INFLIGHT_TIMER_TICKS /\ MAX_INFLIGHT_TIMER_TICKS \in Nat
  BY WindowAssumption DEF TabRecord
<1> HIDE DEF c, f
<1>5. r = MAX_INFLIGHT_TIMER_TICKS - f BY <1>4, OfTwoInts
<1> HIDE DEF r
<1>a. c \in Int /\ r \in Int BY <1>3, <1>4, <1>5
<1>6. Min({c, r}) \in {c, r} /\ Min({c, r}) <= r BY <1>a, OfTwoInts
<1>7. Dispatched(tab) = Min({c, r}) BY DEF Dispatched, c, r, f
<1>8. Dispatched(tab) \in Nat /\ f + Dispatched(tab) \in 0..MAX_INFLIGHT_TIMER_TICKS
  BY <1>3, <1>4, <1>5, <1>6, <1>7
<1> QED BY <1>8 DEF f

\* Firing the timers of a tab keeps its layout.
LEMMA FireTab ==
  ASSUME scene \in Scenes, NEW tab \in TabRecord, NEW on_screen \in BOOLEAN
  PROVE  /\ Fire(tab, on_screen) \in TabRecord
         /\ Fire(tab, on_screen).id = tab.id
         /\ Fire(tab, on_screen).placeholder = tab.placeholder
         /\ Fire(tab, on_screen).viewport_size = tab.viewport_size
<1> DEFINE q == [i \in DOMAIN tab.root_timer_queue |->
                  IF i \notin Due(tab) THEN tab.root_timer_queue[i]
                  ELSE IF on_screen THEN scene.timers[i]
                       ELSE background_timer_period(scene.timers[i])]
           n == tab.inflight_timer_ticks + Dispatched(tab)
<1>1. \A i \in 1..Len(scene.timers) : scene.timers[i] \in Nat BY SceneTimers
<1>2. ASSUME NEW p \in Nat PROVE background_timer_period(p) \in Nat
  <2>1. p \in Int /\ BACKGROUND_TIMER_MIN \in Nat /\ BACKGROUND_TIMER_MIN \in Int
    BY WindowAssumption
  <2>2. Max({p, BACKGROUND_TIMER_MIN}) \in {p, BACKGROUND_TIMER_MIN} BY <2>1, OfTwoInts
  <2> QED BY <2>1, <2>2 DEF background_timer_period
<1>3. tab.root_timer_queue \in [1..Len(scene.timers) -> Nat \cup {WNone}] BY DEF TabRecord
<1>4. q \in [1..Len(scene.timers) -> Nat \cup {WNone}] BY <1>1, <1>2, <1>3
<1>5. n \in 0..MAX_INFLIGHT_TIMER_TICKS BY DispatchedFits
<1>6. Fire(tab, on_screen) =
        [tab EXCEPT !.inflight_timer_ticks = n, !.root_timer_queue = q]
  BY DEF Fire, TabRecord
<1> HIDE DEF q, n
<1> QED BY <1>4, <1>5, <1>6 DEF TabRecord

\* The deadlines of a tab are numbers of ticks.
LEMMA DeadlinesAreTicks ==
  ASSUME NEW tab \in TabRecord
  PROVE  Deadlines(tab) \subseteq Nat
BY DEF Deadlines, TabRecord

-----------------------------------------------------------------------------
(* What is done to the fields of the loop *)

Put(m, i, tab) == [m EXCEPT !.tabs[i] = tab]

\* One tab is replaced.
LEMMA PutTab ==
  ASSUME NEW m \in Fields, NEW i \in Places(m), NEW tab \in TabRecord,
         tab.id = m.tabs[i].id, NEW n, n = Put(m, i, tab)
  PROVE  /\ n \in Fields /\ SameStrip(m, n)
         /\ n.cmds = m.cmds /\ n.events = m.events /\ n.image = m.image /\ n.waiters = m.waiters
         /\ n.tabs[i] = tab
         /\ \A j \in Places(m) : j # i => n.tabs[j] = m.tabs[j]
<1> DEFINE ts == [m.tabs EXCEPT ![i] = tab]
<1>1. m.tabs \in Seq(TabRecord) BY DEF Fields
<1>2. /\ ts \in Seq(TabRecord) /\ Len(ts) = Len(m.tabs) /\ ts[i] = tab
      /\ \A j \in Places(m) : j # i => ts[j] = m.tabs[j]
  BY <1>1 DEF Places
<1>3. n = [m EXCEPT !.tabs = ts] BY DEF Fields, Put
<1> HIDE DEF ts
<1>4. /\ n \in Fields /\ n.tabs = ts
      /\ n.cmds = m.cmds /\ n.events = m.events /\ n.image = m.image /\ n.waiters = m.waiters
  BY <1>2, <1>3 DEF Fields
<1>5. SameStrip(m, n) BY <1>2, <1>4 DEF SameStrip, Places
<1> QED BY <1>2, <1>4, <1>5

\* A command is sent, or an event.
LEMMA SendMore ==
  ASSUME NEW m \in Fields, NEW cmds \in Seq(Command), NEW events \in [Ids -> Nat], NEW n,
         n = [m EXCEPT !.cmds = cmds] \/ n = [m EXCEPT !.events = events]
  PROVE  /\ n \in Fields /\ SameStrip(m, n)
         /\ n.tabs = m.tabs /\ n.image = m.image /\ n.waiters = m.waiters
         /\ n.cmds \in {m.cmds, cmds}
<1>1. CASE n = [m EXCEPT !.cmds = cmds] BY <1>1 DEF Fields, SameStrip
<1>2. CASE n = [m EXCEPT !.events = events] BY <1>2 DEF Fields, SameStrip
<1> QED BY <1>1, <1>2

\* The same tabs are open.
LEMMA SameOpen ==
  ASSUME NEW m, NEW n, SameStrip(m, n)
  PROVE  Open(n.tabs) = Open(m.tabs) /\ Places(n) = Places(m)
BY DEF SameStrip, Open, Places

\* Steps that show no new placeholder and neither ask for the image nor have it.
LEMMA KeepGood ==
  ASSUME NEW m, Good(m), NEW n, n \in Fields, SameStrip(m, n),
         n.image = m.image, n.waiters = m.waiters, Asked(n.cmds) = Asked(m.cmds),
         \A i \in Places(m) : n.tabs[i].placeholder => m.tabs[i].placeholder
  PROVE  Good(n)
<1>1. Open(n.tabs) = Open(m.tabs) /\ Places(n) = Places(m) BY SameOpen
<1>2. \A i \in Places(m) : n.tabs[i].id = m.tabs[i].id BY DEF SameStrip
<1> QED BY <1>1, <1>2 DEF Good

\* A command that is not for the image.
LEMMA AppendOther ==
  ASSUME NEW q \in Seq(Command), NEW id \in Ids, NEW kind \in {"nav", "fetch"}
  PROVE  /\ Append(q, [tab |-> id, kind |-> kind]) \in Seq(Command)
         /\ Asked(Append(q, [tab |-> id, kind |-> kind])) = Asked(q)
<1> DEFINE c == [tab |-> id, kind |-> kind]
           r == Append(q, c)
<1>1. c \in Command /\ c.kind # "image" BY DEF Command
<1> HIDE DEF c
<1>2. /\ r \in Seq(Command) /\ Len(r) = Len(q) + 1 /\ Len(q) \in Nat
      /\ \A k \in 1..Len(q) : r[k] = q[k] /\ r[Len(q) + 1] = c
  BY <1>1
<1>3. r[Len(q) + 1] = c BY <1>1
<1> HIDE DEF r
<1>4. Asked(r) = Asked(q) BY <1>1, <1>2, <1>3 DEF Asked
<1> QED BY <1>2, <1>4 DEF r, c

\* An event that is sent is one more.
LEMMA SendTyped ==
  ASSUME NEW events \in [Ids -> Nat], NEW id \in Ids
  PROVE  Send(events, id) \in [Ids -> Nat]
BY DEF Send

\* What the loop does keeps the fields good and shows the tab on screen for the
\* size it was shown for or for that of the window.
Follows(m, n) ==
  /\ Good(n) /\ SameStrip(m, n) /\ Asked(n.cmds) = Asked(m.cmds)
  /\ n.tabs[active_tab].viewport_size \in {m.tabs[active_tab].viewport_size, window_size}

\* Replacing one tab by its next state.
LEMMA PutFollows ==
  ASSUME NEW m, Good(m), active_tab \in Places(m), NEW i \in Places(m), NEW tab \in TabRecord,
         tab.id = m.tabs[i].id, tab.placeholder => m.tabs[i].placeholder,
         tab.viewport_size \in {m.tabs[i].viewport_size, window_size},
         NEW n, n = Put(m, i, tab)
  PROVE  Follows(m, n) /\ n.image = m.image
<1>1. m \in Fields BY DEF Good
<1>2. /\ n \in Fields /\ SameStrip(m, n)
      /\ n.cmds = m.cmds /\ n.events = m.events /\ n.image = m.image /\ n.waiters = m.waiters
      /\ n.tabs[i] = tab
      /\ \A j \in Places(m) : j # i => n.tabs[j] = m.tabs[j]
  BY <1>1, PutTab
<1>3. \A j \in Places(m) : n.tabs[j].placeholder => m.tabs[j].placeholder BY <1>2
<1>4. Good(n) BY <1>2, <1>3, KeepGood
<1>5. n.tabs[active_tab].viewport_size \in {m.tabs[active_tab].viewport_size, window_size}
  BY <1>2
<1> QED BY <1>2, <1>4, <1>5 DEF Follows

\* Sending a command other than for the image, or an event.
LEMMA SendFollows ==
  ASSUME NEW m, Good(m), NEW cmds \in Seq(Command), Asked(cmds) = Asked(m.cmds),
         NEW events \in [Ids -> Nat], NEW n,
         n = [m EXCEPT !.cmds = cmds] \/ n = [m EXCEPT !.events = events]
  PROVE  Follows(m, n) /\ n.image = m.image
<1>1. m \in Fields BY DEF Good
<1>2. /\ n \in Fields /\ SameStrip(m, n)
      /\ n.tabs = m.tabs /\ n.image = m.image /\ n.waiters = m.waiters
      /\ n.cmds \in {m.cmds, cmds}
  BY <1>1, SendMore
<1>3. Good(n) BY <1>2, KeepGood
<1> QED BY <1>2, <1>3 DEF Follows

\* One thing after another.
LEMMA FollowsOn ==
  ASSUME NEW m, NEW n, NEW o, active_tab \in Places(m), Follows(m, n), Follows(n, o)
  PROVE  Follows(m, o)
<1>1. SameStrip(m, o) BY DEF Follows, SameStrip, Places
<1> QED BY <1>1 DEF Follows

-----------------------------------------------------------------------------
(* Draining the answers *)

\* An open tab has a position.
LEMMA PositionFound ==
  ASSUME NEW ts, NEW id \in Open(ts)
  PROVE  Position(ts, id) \in 1..Len(ts) /\ ts[Position(ts, id)].id = id
<1>1. \E i \in 1..Len(ts) : ts[i].id = id BY DEF Open
<1> QED BY <1>1 DEF Position

\* A response of the logic worker.
LEMMA ResponseFollows ==
  ASSUME scene \in Scenes, NEW m, Good(m), active_tab \in Places(m), NEW res \in Response,
         res.tab \in Open(m.tabs)
  PROVE  Follows(m, ApplyResponse(m, res)) /\ ApplyResponse(m, res).image = m.image
<1> DEFINE i == Position(m.tabs, res.tab)
           t == [m.tabs[i] EXCEPT !.inflight_timer_ticks = Max({@ - 1, 0})]
<1>1. i \in Places(m) /\ m \in Fields BY PositionFound DEF Places, Good
<1> HIDE DEF i
<1>2. m.tabs[i] \in TabRecord BY <1>1 DEF Fields, Places
<1>3. m.tabs[i].inflight_timer_ticks \in 0..MAX_INFLIGHT_TIMER_TICKS BY <1>2 DEF TabRecord
<1>4. MAX_INFLIGHT_TIMER_TICKS \in Nat BY WindowAssumption
<1>5. Max({m.tabs[i].inflight_timer_ticks - 1, 0}) \in 0..MAX_INFLIGHT_TIMER_TICKS
  <2> DEFINE f == m.tabs[i].inflight_timer_ticks
  <2>1. f - 1 \in Int /\ 0 \in Int BY <1>3
  <2> HIDE DEF f
  <2>2. Max({f - 1, 0}) \in {f - 1, 0} /\ Max({f - 1, 0}) >= 0 BY <2>1, OfTwoInts
  <2>3. f \in 0..MAX_INFLIGHT_TIMER_TICKS BY <1>3 DEF f
  <2>4. Max({f - 1, 0}) \in 0..MAX_INFLIGHT_TIMER_TICKS BY <1>4, <2>2, <2>3
  <2> QED BY <2>4 DEF f
<1> DEFINE x == IF res.kind = "navigates" THEN [t EXCEPT !.loading = TRUE]
                ELSE IF res.kind = "mutates" /\ ~IsActive(i) THEN [t EXCEPT !.layout_stale = TRUE]
                ELSE t
           n == Put(m, i, x)
<1>6. /\ x \in TabRecord /\ x.id = m.tabs[i].id /\ x.placeholder = m.tabs[i].placeholder
      /\ x.viewport_size = m.tabs[i].viewport_size /\ t.id = m.tabs[i].id
  BY <1>2, <1>5 DEF TabRecord
<1>7. Follows(m, n) /\ n.image = m.image
  <2> HIDE DEF x
  <2> QED BY <1>1, <1>6, PutFollows
<1>8. n.cmds = m.cmds /\ n \in Fields /\ Good(n)
  <2> HIDE DEF x
  <2>1. n.cmds = m.cmds BY <1>1, <1>6, PutTab
  <2> QED BY <1>7, <2>1 DEF Follows, Good
<1>9. t.id \in Ids /\ m.cmds \in Seq(Command) /\ m.events \in [Ids -> Nat]
  BY <1>1, <1>2, <1>6 DEF TabRecord, Fields
<1>10. CASE res.kind \in {"quiet", "mutates"}
  <2>1. ApplyResponse(m, res) = n
    <3>1. CASE res.kind = "quiet" BY <3>1 DEF ApplyResponse, i, Put
    <3>2. CASE res.kind = "mutates" BY <3>2 DEF ApplyResponse, i, Put
    <3> QED BY <1>10, <3>1, <3>2
  <2> QED BY <1>7, <2>1
<1>11. CASE res.kind \in {"navigates", "fetches"}
  <2> DEFINE kind == IF res.kind = "navigates" THEN "nav" ELSE "fetch"
             cmds == Append(m.cmds, [tab |-> t.id, kind |-> kind])
             o == [n EXCEPT !.cmds = cmds]
  <2>1. ApplyResponse(m, res) = o
    <3>1. CASE res.kind = "navigates"
      <4>1. ApplyResponse(m, res) =
              [m EXCEPT !.tabs[i] = x, !.cmds = Append(@, [tab |-> t.id, kind |-> "nav"])]
        BY <3>1 DEF ApplyResponse, i
      <4>2. o = [Put(m, i, x) EXCEPT !.cmds = Append(m.cmds, [tab |-> t.id, kind |-> "nav"])]
        BY <3>1
      <4> HIDE DEF x, t
      <4> QED BY <1>1, <4>1, <4>2 DEF Put, Fields
    <3>2. CASE res.kind = "fetches"
      <4>1. ApplyResponse(m, res) =
              [m EXCEPT !.tabs[i] = x, !.cmds = Append(@, [tab |-> t.id, kind |-> "fetch"])]
        BY <3>2 DEF ApplyResponse, i
      <4>2. o = [Put(m, i, x) EXCEPT !.cmds = Append(m.cmds, [tab |-> t.id, kind |-> "fetch"])]
        BY <3>2
      <4> HIDE DEF x, t
      <4> QED BY <1>1, <4>1, <4>2 DEF Put, Fields
    <3> QED BY <1>11, <3>1, <3>2
  <2>2. cmds \in Seq(Command) /\ Asked(cmds) = Asked(m.cmds)
    <3> HIDE DEF t
    <3> QED BY <1>9, AppendOther
  <2> HIDE DEF n, cmds
  <2>3. Follows(n, o) /\ o.image = n.image BY <1>8, <1>9, <2>2, SendFollows
  <2> HIDE DEF o
  <2>4. Follows(m, o) BY <1>7, <2>3, FollowsOn
  <2> QED BY <1>7, <2>1, <2>3, <2>4
<1> QED BY <1>10, <1>11 DEF Response, LogicKinds

Notified(m, i, x, slot) == notify_image_waiters([Put(m, i, x) EXCEPT !.image = slot], x.id)

\* The image has come, or cannot be had: every waiter but the one who asked is
\* told, and it has been dealt with already.
LEMMA NotifyGood ==
  ASSUME NEW m, Good(m), m.image = "Loading", Asked(m.cmds) = {}, NEW i \in Places(m),
         NEW x \in TabRecord, x.id = m.tabs[i].id, NEW slot \in {"Ready", "Failed"},
         slot = "Ready" => ~x.placeholder,
         NEW n, n = Notified(m, i, x, slot)
  PROVE  /\ Good(n) /\ SameStrip(m, n) /\ n.cmds = m.cmds
         /\ \A j \in Places(m) :
              n.tabs[j].viewport_size = (IF j = i THEN x ELSE m.tabs[j]).viewport_size
<1> DEFINE p == Put(m, i, x)
           q == [p EXCEPT !.image = slot]
           told == q.waiters \ {x.id}
           ts == [j \in DOMAIN q.tabs |-> IF q.tabs[j].id \in told THEN WaiterToldStale(q.tabs[j])
                                          ELSE q.tabs[j]]
<1>0. m \in Fields BY DEF Good
<1>1. /\ p \in Fields /\ SameStrip(m, p) /\ p.cmds = m.cmds /\ p.waiters = m.waiters
      /\ p.tabs[i] = x /\ \A j \in Places(m) : j # i => p.tabs[j] = m.tabs[j]
  BY <1>0, PutTab
<1> HIDE DEF p
<1>2. /\ q \in Fields /\ q.tabs = p.tabs /\ q.cmds = m.cmds /\ q.waiters = m.waiters
      /\ q.image = slot
  BY <1>1 DEF Fields, Slots
<1>3. n = [q EXCEPT !.waiters = {}, !.tabs = ts] BY DEF Notified, notify_image_waiters, p
<1> HIDE DEF q
<1>4. q.tabs \in Seq(TabRecord) /\ DOMAIN q.tabs = Places(m) /\ Len(m.tabs) \in Nat
  BY <1>0, <1>1, <1>2 DEF Fields, SameStrip, Places
<1>5. \A j \in Places(m) : q.tabs[j] \in TabRecord BY <1>4
<1> HIDE DEF told
<1>6. ASSUME NEW j \in Places(m)
      PROVE  /\ ts[j] \in TabRecord /\ ts[j].id = q.tabs[j].id
             /\ ts[j].viewport_size = q.tabs[j].viewport_size
             /\ ts[j].placeholder => q.tabs[j].placeholder /\ q.tabs[j].id \notin told
  <2>1. q.tabs[j] \in TabRecord BY <1>5
  <2>2. ts[j] = IF q.tabs[j].id \in told THEN WaiterToldStale(q.tabs[j]) ELSE q.tabs[j] BY <1>4
  <2>3. /\ WaiterToldStale(q.tabs[j]) \in TabRecord
        /\ WaiterToldStale(q.tabs[j]).id = q.tabs[j].id
        /\ WaiterToldStale(q.tabs[j]).viewport_size = q.tabs[j].viewport_size
        /\ ~WaiterToldStale(q.tabs[j]).placeholder
    BY <2>1 DEF WaiterToldStale, TabRecord
  <2> HIDE DEF ts
  <2> QED BY <2>1, <2>2, <2>3
<1>7. ts \in Seq(TabRecord) /\ Len(ts) = Len(m.tabs)
  <2>1. ts \in [1..Len(m.tabs) -> TabRecord] BY <1>4, <1>6 DEF Places
  <2> HIDE DEF ts
  <2> QED BY <1>4, <2>1
<1> HIDE DEF ts
<1>8. /\ n \in Fields /\ n.tabs = ts /\ n.cmds = m.cmds /\ n.waiters = {} /\ n.image = slot
  BY <1>2, <1>3, <1>7 DEF Fields
<1>9. \A j \in Places(m) : q.tabs[j].id = m.tabs[j].id BY <1>1, <1>2 DEF SameStrip
<1>10. SameStrip(m, n) BY <1>6, <1>7, <1>8, <1>9 DEF SameStrip
<1>11. Places(n) = Places(m) BY <1>10, SameOpen
<1>12. ASSUME slot = "Ready", NEW j \in Places(m) PROVE ~ts[j].placeholder
  <2>1. CASE j = i BY <1>1, <1>2, <1>6, <1>12, <2>1
  <2>2. CASE j # i
    <3>1. q.tabs[j] = m.tabs[j] BY <1>1, <1>2, <2>2
    <3>2. m.tabs[j].id # x.id BY <2>2 DEF Good
    <3>3. m.tabs[j].placeholder => m.tabs[j].id \in m.waiters BY DEF Good
    <3>4. m.tabs[j].placeholder => q.tabs[j].id \in told BY <1>2, <3>1, <3>2, <3>3 DEF told
    <3> QED BY <1>6, <3>1, <3>4
  <2> QED BY <2>1, <2>2
<1>13. Good(n)
  <2>1. \A j, k \in Places(n) : n.tabs[j].id = n.tabs[k].id => j = k
    BY <1>10, <1>11 DEF SameStrip, Good
  <2>2. \A j \in Places(n) : n.tabs[j].placeholder => n.image = "Failed"
    BY <1>8, <1>11, <1>12
  <2> QED BY <1>8, <2>1, <2>2 DEF Good
<1>14. \A j \in Places(m) :
         n.tabs[j].viewport_size = (IF j = i THEN x ELSE m.tabs[j]).viewport_size
  BY <1>1, <1>2, <1>6, <1>8
<1> QED BY <1>8, <1>10, <1>13, <1>14

\* An answer of the network worker.
LEMMA AnswerFollows ==
  ASSUME scene \in Scenes, window_size \in Sizes \cup {Zero},
         NEW m, Good(m), active_tab \in Places(m), NEW res \in Answer,
         res.tab \in Open(m.tabs),
         res.kind \in Pictured => m.image = "Loading" /\ Asked(m.cmds) = {}
  PROVE  /\ Follows(m, process_network_result(m, res))
         /\ res.kind \notin Pictured => process_network_result(m, res).image = m.image
<1> DEFINE i == Position(m.tabs, res.tab)
           t == m.tabs[i]
           new == process_network_result(m, res)
<1>1. i \in Places(m) /\ m \in Fields BY PositionFound DEF Places, Good
<1> HIDE DEF i
<1>2. t \in TabRecord BY <1>1 DEF Fields, Places
<1>3. t.id \in Ids /\ m.cmds \in Seq(Command) /\ m.events \in [Ids -> Nat]
  BY <1>1, <1>2 DEF TabRecord, Fields
<1>4. ASSUME NEW y \in TabRecord, y.id = t.id, y.viewport_size = t.viewport_size
      PROVE  LET x == Relayout(y, window_size)
             IN  /\ x \in TabRecord /\ x.id = t.id /\ x.placeholder = y.placeholder
                 /\ x.viewport_size \in {t.viewport_size, window_size}
  BY <1>4, RelayoutTab
<1> HIDE DEF t
\* A tab is laid out again and an event or a command is sent.
<1>5. ASSUME NEW y \in TabRecord, y.id = t.id, y.viewport_size = t.viewport_size,
             y.placeholder => t.placeholder,
             NEW kind \in {"nav", "fetch"}, NEW o,
             \/ o = [Put(m, i, Relayout(y, window_size)) EXCEPT !.events = Send(@, t.id)]
             \/ o = [Put(m, i, Relayout(y, window_size)) EXCEPT
                       !.cmds = Append(@, [tab |-> t.id, kind |-> kind])]
      PROVE  Follows(m, o) /\ o.image = m.image
  <2> DEFINE x == Relayout(y, window_size)
             n == Put(m, i, x)
             cmds == Append(m.cmds, [tab |-> t.id, kind |-> kind])
             events == Send(m.events, t.id)
  <2>1. /\ x \in TabRecord /\ x.id = t.id /\ x.placeholder = y.placeholder
        /\ x.viewport_size \in {t.viewport_size, window_size}
    BY <1>4, <1>5
  <2> HIDE DEF x
  <2>2. x.id = m.tabs[i].id /\ x.viewport_size \in {m.tabs[i].viewport_size, window_size}
        /\ (x.placeholder => m.tabs[i].placeholder)
    BY <1>5, <2>1 DEF t
  <2>3. Follows(m, n) /\ n.image = m.image BY <1>1, <2>1, <2>2, PutFollows
  <2>4. n.cmds = m.cmds /\ n.events = m.events BY <1>1, <2>1, <2>2, PutTab
  <2>5. Good(n) BY <2>3 DEF Follows
  <2>6. cmds \in Seq(Command) /\ Asked(cmds) = Asked(m.cmds) BY <1>3, AppendOther
  <2>7. events \in [Ids -> Nat] BY <1>3, SendTyped
  <2>8. o = [n EXCEPT !.cmds = cmds] \/ o = [n EXCEPT !.events = events]
    BY <1>5, <2>4 DEF x
  <2> HIDE DEF n, cmds, events
  <2>9. Follows(n, o) /\ o.image = n.image BY <2>4, <2>5, <2>6, <2>7, <2>8, SendFollows
  <2>10. Follows(m, o) BY <2>3, <2>9, FollowsOn
  <2> QED BY <2>3, <2>9, <2>10
\* The image has come, or cannot be had.
<1>6. ASSUME res.kind \in Pictured,
             NEW y \in TabRecord, y.id = t.id, y.viewport_size = t.viewport_size,
             NEW slot \in {"Ready", "Failed"}, slot = "Ready" => ~y.placeholder, NEW o,
             o = notify_image_waiters([Put(m, i, Relayout(y, window_size)) EXCEPT !.image = slot],
                                      t.id)
      PROVE  Follows(m, o)
  <2> DEFINE x == Relayout(y, window_size)
  <2>1. /\ x \in TabRecord /\ x.id = t.id /\ x.placeholder = y.placeholder
        /\ x.viewport_size \in {t.viewport_size, window_size}
    BY <1>4, <1>6
  <2>2. o = Notified(m, i, x, slot) BY <1>6, <2>1 DEF Notified
  <2>3. slot = "Ready" => ~x.placeholder BY <1>6, <2>1
  <2> HIDE DEF x
  <2>4. x.id = m.tabs[i].id BY <2>1 DEF t
  <2>5. m.image = "Loading" /\ Asked(m.cmds) = {} BY <1>6
  <2>6. /\ Good(o) /\ SameStrip(m, o) /\ o.cmds = m.cmds
        /\ \A j \in Places(m) :
             o.tabs[j].viewport_size = (IF j = i THEN x ELSE m.tabs[j]).viewport_size
    BY <1>1, <1>6, <2>1, <2>2, <2>3, <2>4, <2>5, NotifyGood
  <2>7. o.tabs[active_tab].viewport_size \in {m.tabs[active_tab].viewport_size, window_size}
    BY <2>1, <2>6 DEF t
  <2> QED BY <2>6, <2>7 DEF Follows
<1>7. CASE res.kind = "document"
  <2> DEFINE y == [reload_tab_document(t) EXCEPT !.loading = FALSE]
  <2>1. reload_tab_document(t) \in TabRecord /\ reload_tab_document(t).id = t.id
        /\ reload_tab_document(t).placeholder = FALSE
        /\ reload_tab_document(t).viewport_size = t.viewport_size
    BY <1>2, ReloadTab
  <2>2. y \in TabRecord /\ y.id = t.id /\ y.viewport_size = t.viewport_size /\ ~y.placeholder
    BY <2>1 DEF TabRecord
  <2>3. new = [Put(m, i, Relayout(y, window_size)) EXCEPT !.events = Send(@, t.id)]
    BY <1>7 DEF process_network_result, Put, i, t
  <2> HIDE DEF y, new
  <2> QED BY <1>5, <2>2, <2>3 DEF new
<1>8. CASE res.kind = "failed"
  <2> DEFINE y == [t EXCEPT !.loading = FALSE]
  <2>2. y \in TabRecord /\ y.id = t.id /\ y.viewport_size = t.viewport_size
        /\ y.placeholder = t.placeholder
    BY <1>2 DEF TabRecord
  <2>3. new = [Put(m, i, Relayout(y, window_size)) EXCEPT !.events = Send(@, t.id)]
    BY <1>8 DEF process_network_result, Put, i, t
  <2> HIDE DEF y, new
  <2> QED BY <1>5, <2>2, <2>3 DEF new
<1>9. CASE res.kind = "redirect"
  <2> DEFINE y == [t EXCEPT !.loading = TRUE]
  <2>2. y \in TabRecord /\ y.id = t.id /\ y.viewport_size = t.viewport_size
        /\ y.placeholder = t.placeholder
    BY <1>2 DEF TabRecord
  <2>3. new = [Put(m, i, Relayout(y, window_size)) EXCEPT
                 !.cmds = Append(@, [tab |-> t.id, kind |-> "nav"])]
    BY <1>9 DEF process_network_result, Put, i, t
  <2> HIDE DEF y, new
  <2> QED BY <1>5, <2>2, <2>3 DEF new
<1>10. CASE res.kind = "data"
  <2>3. new = [Put(m, i, Relayout(t, window_size)) EXCEPT !.events = Send(@, t.id)]
    BY <1>10 DEF process_network_result, Put, i, t
  <2> HIDE DEF new
  <2> QED BY <1>2, <1>5, <2>3 DEF new
<1>11. CASE res.kind = "image"
  <2> DEFINE y == [t EXCEPT !.placeholder = FALSE]
  <2>2. y \in TabRecord /\ y.id = t.id /\ y.viewport_size = t.viewport_size /\ ~y.placeholder
    BY <1>2 DEF TabRecord
  <2>3. new = notify_image_waiters(
                [Put(m, i, Relayout(y, window_size)) EXCEPT !.image = "Ready"], t.id)
    BY <1>11 DEF process_network_result, Put, i, t
  <2>4. res.kind \in Pictured BY <1>11 DEF Pictured
  <2> HIDE DEF y, new
  <2> QED BY <1>6, <2>2, <2>3, <2>4 DEF new
<1>12. CASE res.kind = "noimage"
  <2>3. new = notify_image_waiters(
                [Put(m, i, Relayout(t, window_size)) EXCEPT !.image = "Failed"], t.id)
    BY <1>12 DEF process_network_result, Put, i, t
  <2>4. res.kind \in Pictured BY <1>12 DEF Pictured
  <2> HIDE DEF new
  <2> QED BY <1>2, <1>6, <2>3, <2>4 DEF new
<1> QED BY <1>7, <1>8, <1>9, <1>10, <1>11, <1>12 DEF Answer, NetworkKinds

\* A result of either worker, for a tab that may be closed.
LEMMA TakeFollows ==
  ASSUME scene \in Scenes, window_size \in Sizes \cup {Zero},
         NEW m, Good(m), active_tab \in Places(m), NEW res \in Answer \cup Response,
         res.kind \in Pictured => m.image = "Loading" /\ Asked(m.cmds) = {}
  PROVE  /\ Follows(m, TakeResult(m, res))
         /\ res.kind \notin Pictured => TakeResult(m, res).image = m.image
<1>1. CASE res.tab \notin Open(m.tabs) BY <1>1 DEF TakeResult, Follows, SameStrip
<1>2. CASE res.tab \in Open(m.tabs) /\ res.kind \in LogicKinds
  <2>1. res \in Response BY <1>2 DEF Answer, Response, LogicKinds, NetworkKinds
  <2>2. Follows(m, ApplyResponse(m, res)) /\ ApplyResponse(m, res).image = m.image
    BY <1>2, <2>1, ResponseFollows
  <2> QED BY <1>2, <2>2 DEF TakeResult
<1>3. CASE res.tab \in Open(m.tabs) /\ res.kind \notin LogicKinds
  <2>1. res \in Answer BY <1>3 DEF Answer, Response, LogicKinds, NetworkKinds
  <2>2. /\ Follows(m, process_network_result(m, res))
        /\ res.kind \notin Pictured => process_network_result(m, res).image = m.image
    BY <1>3, <2>1, AnswerFollows
  <2> QED BY <1>3, <2>2 DEF TakeResult
<1> QED BY <1>1, <1>2, <1>3

DrainStep(m, queue, f, k) == IF k = 0 THEN m ELSE TakeResult(f[k - 1], queue[k])
Draining(m, queue) == CHOOSE f : f = [k \in 0..Len(queue) |-> DrainStep(m, queue, f, k)]

\* The loop over a queue takes one result after the other.
LEMMA DrainUnfolds ==
  ASSUME NEW m, NEW queue, Len(queue) \in Nat
  PROVE  /\ Drain(m, queue) = Draining(m, queue)[Len(queue)]
         /\ \A k \in 0..Len(queue) :
              Draining(m, queue)[k] = DrainStep(m, queue, Draining(m, queue), k)
<1> DEFINE Is(n, f) == f = [k \in 0..n |-> DrainStep(m, queue, f, k)]
           T == {n \in Nat : ~\E f : Is(n, f)}
<1>1. T = {}
  <2> SUFFICES ASSUME T # {} PROVE FALSE OBVIOUS
  <2>0. T \in SUBSET Nat OBVIOUS
  <2> HIDE DEF T
  <2>1. PICK n \in T : \A k \in T : n <= k BY <2>0, LeastNat
  <2> USE DEF T
  <2>2. n # 0
    <3> DEFINE f == [k \in 0..0 |-> m]
    <3>1. Is(0, f) BY DEF DrainStep
    <3> QED BY <3>1
  <2>3. n \in Nat /\ n - 1 \in Nat BY <2>2
  <2>4. n - 1 \in T => n <= n - 1 BY <2>1
  <2>5. n - 1 \notin T BY <2>3, <2>4
  <2>6. PICK f : Is(n - 1, f) BY <2>3, <2>5
  <2> DEFINE g == [k \in 0..n |-> DrainStep(m, queue, f, k)]
  <2>7. \A k \in 0..(n - 1) : g[k] = f[k]
    <3>1. \A k \in 0..(n - 1) : k \in 0..n BY <2>3
    <3> QED BY <2>6, <3>1
  <2>8. \A k \in 0..n : DrainStep(m, queue, g, k) = DrainStep(m, queue, f, k)
    <3> SUFFICES ASSUME NEW k \in 0..n
                 PROVE  DrainStep(m, queue, g, k) = DrainStep(m, queue, f, k)
      OBVIOUS
    <3>1. k # 0 => k - 1 \in 0..(n - 1) BY <2>3
    <3> HIDE DEF g
    <3> QED BY <2>7, <3>1 DEF DrainStep
  <2>9. Is(n, g)
    <3>1. g = [k \in 0..n |-> DrainStep(m, queue, f, k)] OBVIOUS
    <3> HIDE DEF g
    <3> QED BY <2>8, <3>1
  <2> HIDE DEF g
  <2> QED BY <2>9
<1>2. \E f : Is(Len(queue), f) BY <1>1
<1> DEFINE h == Draining(m, queue)
<1>3. h = [k \in 0..Len(queue) |-> DrainStep(m, queue, h, k)] BY <1>2 DEF Draining
<1>4. Drain(m, queue) = h[Len(queue)] BY DEF Drain, Draining, DrainStep
<1> HIDE DEF h
<1>5. \A k \in 0..Len(queue) : h[k] = DrainStep(m, queue, h, k) BY <1>3
<1> QED BY <1>4, <1>5 DEF h

\* Draining a queue, which holds at most one answer about the image.
LEMMA DrainFollows ==
  ASSUME scene \in Scenes, window_size \in Sizes \cup {Zero},
         NEW m, Good(m), active_tab \in Places(m), NEW queue \in Seq(Answer \cup Response),
         LoneAnswer(m, queue)
  PROVE  Follows(m, Drain(m, queue))
<1> DEFINE h == Draining(m, queue)
           Left(k) == \E j \in (k + 1)..Len(queue) : queue[j].kind \in Pictured
           P(k) == Follows(m, h[k]) /\ (Left(k) => h[k].image = "Loading")
           B == {k \in Nat : k <= Len(queue) /\ ~P(k)}
<1>0. Len(queue) \in Nat OBVIOUS
<1>1. /\ Drain(m, queue) = h[Len(queue)]
      /\ \A k \in 0..Len(queue) : h[k] = DrainStep(m, queue, h, k)
  BY <1>0, DrainUnfolds
<1> HIDE DEF h
<1>2. B = {}
  <2> SUFFICES ASSUME B # {} PROVE FALSE OBVIOUS
  <2>0. B \in SUBSET Nat OBVIOUS
  <2> HIDE DEF B
  <2>1. PICK n \in B : \A k \in B : n <= k BY <2>0, LeastNat
  <2>2. n \in Nat /\ n <= Len(queue) /\ ~P(n) BY <2>1 DEF B
  <2>3. h[n] = DrainStep(m, queue, h, n) BY <1>0, <1>1, <2>2
  <2>4. CASE n = 0
    <3>1. h[n] = m BY <2>3, <2>4 DEF DrainStep
    <3>2. Follows(m, m) BY DEF Follows, SameStrip
    <3>3. Left(n) => m.image = "Loading" BY <1>0, <2>4 DEF LoneAnswer
    <3> QED BY <2>2, <3>1, <3>2, <3>3
  <2>5. CASE n # 0
    <3>1. n - 1 \in Nat /\ n \in 1..Len(queue) /\ n - 1 <= Len(queue)
      BY <1>0, <2>2, <2>5
    <3>2. n - 1 \notin B BY <2>1, <2>2, <3>1
    <3>3. P(n - 1) BY <3>1, <3>2 DEF B
    <3> DEFINE a == h[n - 1]
               res == queue[n]
    <3>4. h[n] = TakeResult(a, res) BY <2>3, <2>5 DEF DrainStep
    <3>5. res \in Answer \cup Response BY <3>1
    <3>6. Follows(m, a) BY <3>3
    <3>7. Good(a) /\ active_tab \in Places(a) /\ Asked(a.cmds) = Asked(m.cmds)
      BY <3>6, SameOpen DEF Follows
    <3>8. Left(n) => Left(n - 1) BY <1>0, <2>2
    <3>9. res.kind \in Pictured => Left(n - 1)
      <4>1. n \in ((n - 1) + 1)..Len(queue) BY <1>0, <3>1
      <4> QED BY <4>1
    <3>10. res.kind \in Pictured => a.image = "Loading" BY <3>3, <3>9
    <3>11. res.kind \in Pictured => Asked(a.cmds) = {} BY <3>1, <3>7 DEF LoneAnswer
    <3>12. Left(n) => res.kind \notin Pictured
      <4> SUFFICES ASSUME NEW j \in (n + 1)..Len(queue), queue[j].kind \in Pictured,
                          res.kind \in Pictured
                   PROVE  FALSE
        OBVIOUS
      <4>1. j \in 1..Len(queue) /\ j # n BY <1>0, <2>2
      <4> QED BY <3>1, <4>1 DEF LoneAnswer
    <3> HIDE DEF a, res
    <3>13. /\ Follows(a, TakeResult(a, res))
           /\ res.kind \notin Pictured => TakeResult(a, res).image = a.image
      BY <3>5, <3>7, <3>10, <3>11, TakeFollows
    <3>14. Follows(m, h[n]) BY <3>4, <3>6, <3>13, FollowsOn
    <3>15. Left(n) => h[n].image = "Loading" BY <3>3, <3>4, <3>8, <3>12, <3>13 DEF a
    <3> QED BY <2>2, <3>14, <3>15
  <2> QED BY <2>4, <2>5
<1>3. P(Len(queue)) BY <1>0, <1>2
<1> QED BY <1>1, <1>3

-----------------------------------------------------------------------------
(* The rest of the pass *)

\* recompute_dirty_layout
LEMMA RecomputeFollows ==
  ASSUME scene \in Scenes, window_size \in Sizes \cup {Zero},
         NEW m, Good(m), active_tab \in Places(m), NEW resized \in BOOLEAN
  PROVE  Follows(m, RecomputeDirty(m, resized))
<1> DEFINE t == m.tabs[active_tab]
           u == setup_timers(t)
           timed == [u EXCEPT !.typing_layout_dirty = FALSE]
           x == IF resized \/ t.typing_layout_dirty THEN Relayout(timed, window_size) ELSE timed
<1>1. m \in Fields /\ t \in TabRecord BY DEF Good, Fields, Places
<1> HIDE DEF t
<1>2. /\ u \in TabRecord /\ u.id = t.id /\ u.placeholder = t.placeholder
      /\ u.viewport_size = t.viewport_size
  BY <1>1, SetupTab
<1> HIDE DEF u
<1>3. /\ timed \in TabRecord /\ timed.id = t.id /\ timed.placeholder = t.placeholder
      /\ timed.viewport_size = t.viewport_size
  BY <1>2 DEF TabRecord
<1> HIDE DEF timed
<1>4. /\ x \in TabRecord /\ x.id = t.id /\ x.placeholder = t.placeholder
      /\ x.viewport_size \in {t.viewport_size, window_size}
  BY <1>3, RelayoutTab
<1>5. RecomputeDirty(m, resized) = Put(m, active_tab, x) \/ RecomputeDirty(m, resized) = m
  BY DEF RecomputeDirty, Put, x, timed, u, t
<1> HIDE DEF x
<1>6. Follows(m, Put(m, active_tab, x)) BY <1>4, PutFollows DEF t
<1>7. Follows(m, m) BY DEF Follows, SameStrip
<1> QED BY <1>5, <1>6, <1>7

\* A resize that was put off is laid out, for the size the window has by then.
LEMMA LateResize ==
  ASSUME window_size \in Sizes \cup {Zero}, pending_resize \in Sizes,
         NEW m, Good(m), active_tab \in Places(m), NEW n,
         n = Put(m, active_tab, Relayout(Relayout(m.tabs[active_tab], pending_resize), window_size))
  PROVE  /\ Good(n) /\ SameStrip(m, n) /\ Asked(n.cmds) = Asked(m.cmds)
         /\ window_size # Zero => n.tabs[active_tab].viewport_size = window_size
<1> DEFINE t == m.tabs[active_tab]
           u == Relayout(t, pending_resize)
           x == Relayout(u, window_size)
<1>1. m \in Fields /\ t \in TabRecord BY DEF Good, Fields, Places
<1>2. n = Put(m, active_tab, x) OBVIOUS
<1> HIDE DEF t
<1>3. u \in TabRecord /\ u.id = t.id /\ u.placeholder = t.placeholder BY <1>1, RelayoutTab
<1> HIDE DEF u
<1>4. /\ x \in TabRecord /\ x.id = t.id /\ x.placeholder = t.placeholder
      /\ x.viewport_size = IF window_size = Zero THEN u.viewport_size ELSE window_size
  BY <1>3, RelayoutTab
<1> HIDE DEF x
<1>5. /\ n \in Fields /\ SameStrip(m, n)
      /\ n.cmds = m.cmds /\ n.image = m.image /\ n.waiters = m.waiters
      /\ n.tabs[active_tab] = x
      /\ \A j \in Places(m) : j # active_tab => n.tabs[j] = m.tabs[j]
  <2>1. x.id = m.tabs[active_tab].id BY <1>4 DEF t
  <2> QED BY <1>1, <1>2, <1>4, <2>1, PutTab
<1>6. \A j \in Places(m) : n.tabs[j].placeholder => m.tabs[j].placeholder BY <1>4, <1>5 DEF t
<1>7. Good(n) BY <1>5, <1>6, KeepGood
<1> QED BY <1>4, <1>5, <1>7

\* The timers of every tab are fired, and no layout changes.
LEMMA FireGood ==
  ASSUME scene \in Scenes, NEW m, Good(m), NEW n, n = FireTimers(m)
  PROVE  /\ Good(n) /\ SameStrip(m, n) /\ Asked(n.cmds) = Asked(m.cmds)
         /\ \A i \in Places(m) : n.tabs[i].viewport_size = m.tabs[i].viewport_size
<1> DEFINE ts == [i \in DOMAIN m.tabs |-> Fire(m.tabs[i], IsActive(i))]
           es == [id \in DOMAIN m.events |->
                    IF id \in Open(m.tabs)
                    THEN m.events[id] + Dispatched(m.tabs[Position(m.tabs, id)])
                    ELSE m.events[id]]
<1>1. /\ m \in Fields /\ m.tabs \in Seq(TabRecord) /\ m.events \in [Ids -> Nat]
      /\ DOMAIN m.tabs = Places(m) /\ Len(m.tabs) \in Nat
  BY DEF Good, Fields, Places
<1>2. \A i \in Places(m) : m.tabs[i] \in TabRecord BY <1>1
<1>3. ASSUME NEW i \in Places(m)
      PROVE  /\ ts[i] \in TabRecord /\ ts[i].id = m.tabs[i].id
             /\ ts[i].placeholder = m.tabs[i].placeholder
             /\ ts[i].viewport_size = m.tabs[i].viewport_size
  <2>1. IsActive(i) \in BOOLEAN /\ m.tabs[i] \in TabRecord BY <1>2 DEF IsActive
  <2>2. ts[i] = Fire(m.tabs[i], IsActive(i)) BY <1>1
  <2> HIDE DEF ts
  <2> QED BY <2>1, <2>2, FireTab
<1>4. ts \in Seq(TabRecord) /\ Len(ts) = Len(m.tabs)
  <2>1. ts \in [1..Len(m.tabs) -> TabRecord] BY <1>1, <1>3 DEF Places
  <2> HIDE DEF ts
  <2> QED BY <1>1, <2>1
<1>5. es \in [Ids -> Nat]
  <2>1. ASSUME NEW id \in Open(m.tabs) PROVE Dispatched(m.tabs[Position(m.tabs, id)]) \in Nat
    <3>1. Position(m.tabs, id) \in Places(m) BY PositionFound DEF Places
    <3> QED BY <1>2, <3>1, DispatchedFits
  <2> QED BY <1>1, <2>1
<1>6. n = [m EXCEPT !.tabs = ts, !.events = es] BY DEF FireTimers
<1> HIDE DEF ts, es
<1>7. /\ n \in Fields /\ n.tabs = ts /\ n.cmds = m.cmds /\ n.image = m.image
      /\ n.waiters = m.waiters
  BY <1>1, <1>4, <1>5, <1>6 DEF Fields
<1>8. SameStrip(m, n) BY <1>3, <1>4, <1>7 DEF SameStrip
<1>9. Good(n) BY <1>3, <1>7, <1>8, KeepGood
<1> QED BY <1>3, <1>7, <1>8, <1>9

\* schedule_next_wakeup names numbers of ticks, among them the deadline of every
\* timer and that of a resize put off.
LEMMA WakeupsCover ==
  ASSUME NEW m, Good(m), NEW n, Good(n), SameStrip(m, n), active_tab \in Places(m)
  PROVE  /\ NextWakeups(m, n) \subseteq Nat
         /\ \A i \in Places(n) : Deadlines(n.tabs[i]) \subseteq NextWakeups(m, n)
         /\ PendingResizeDeadline \subseteq NextWakeups(m, n)
<1>1. /\ m.tabs \in Seq(TabRecord) /\ n.tabs \in Seq(TabRecord)
      /\ DOMAIN n.tabs = Places(n) /\ Places(n) = Places(m)
  BY SameOpen DEF Good, Fields, Places
<1>2. \A i \in Places(n) : Deadlines(n.tabs[i]) \subseteq Nat
  <2>1. \A i \in Places(n) : n.tabs[i] \in TabRecord BY <1>1 DEF Places
  <2> QED BY <2>1, DeadlinesAreTicks
<1> DEFINE D == Deadlines(m.tabs[active_tab])
           due == IF D = {} THEN {} ELSE {Min(D)}
<1>3. due \subseteq Nat
  <2>1. D \subseteq Nat BY <1>1, DeadlinesAreTicks DEF Places
  <2> HIDE DEF D
  <2> QED BY <2>1, FirstOf
<1>4. BackgroundDeadlines(n) \subseteq Nat BY <1>1, <1>2 DEF BackgroundDeadlines
<1>5. PendingResizeDeadline \subseteq Nat BY DEF PendingResizeDeadline
<1>6. \A i \in Places(n) : ~IsActive(i) => Deadlines(n.tabs[i]) \subseteq BackgroundDeadlines(n)
  BY <1>1 DEF BackgroundDeadlines
<1> DEFINE fired == \E i \in DOMAIN m.tabs : Dispatched(m.tabs[i]) > 0
           poll == IF AnyLoading(m) \/ fired THEN {1} ELSE {}
<1>7. NextWakeups(m, n) = due \cup Deadlines(n.tabs[active_tab]) \cup BackgroundDeadlines(n)
                          \cup PendingResizeDeadline \cup poll
  BY DEF NextWakeups
<1>8. poll \subseteq Nat OBVIOUS
<1> HIDE DEF poll, due
<1>9. \A i \in Places(n) : Deadlines(n.tabs[i]) \subseteq NextWakeups(m, n)
  BY <1>6, <1>7 DEF IsActive
<1>10. NextWakeups(m, n) \subseteq Nat BY <1>1, <1>2, <1>3, <1>4, <1>5, <1>7, <1>8
<1> QED BY <1>7, <1>9, <1>10

-----------------------------------------------------------------------------
(* The inductive invariant *)

Kept ==
  /\ scene \in Scenes
  /\ Good(Now) /\ LoneAnswer(Now, network_rx)
  /\ network_rx \in Seq(Answer) /\ logic_rx \in Seq(Response)
  /\ active_tab \in 1..Len(tabs)
  /\ next_tab_id \in Nat /\ \A i \in 1..Len(tabs) : tabs[i].id < next_tab_id
  /\ window_size \in Sizes \cup {Zero} /\ window_logical_size \in Sizes
  /\ pending_resize \in Sizes \cup {WNone}
  /\ phase \in {"asleep", "awake", "exited"} /\ control_flow \in Nat \cup {WNone}

\* While the loop sleeps, no timer is due before its deadline, also when a
\* redraw is requested.
TimersAhead ==
  phase = "asleep" => \A i \in 1..Len(tabs) : \A d \in Deadlines(tabs[i]) :
                        control_flow # WNone /\ control_flow <= d

\* Awake or asleep, a layout that is not that of the window has a resize pending.
ResizeAhead ==
  steady /\ window_size # Zero =>
    \/ Active.viewport_size = window_size
    \/ pending_resize = window_size /\ (phase = "asleep" => control_flow \in 0..1)

WindowIInv == Kept /\ TimersAhead /\ ResizeAhead

\* The inductive invariant implies what the runs check.
LEMMA InvSafe == WindowIInv => WindowInv /\ PlaceholdersReplaced
<1> SUFFICES ASSUME WindowIInv PROVE WindowInv /\ PlaceholdersReplaced OBVIOUS
<1>1. /\ tabs \in Seq(TabRecord) /\ logic_events \in [Ids -> Nat] /\ image \in Slots
      /\ \A i, j \in 1..Len(tabs) : tabs[i].id = tabs[j].id => i = j
      /\ fetching_images \subseteq Open(tabs)
      /\ \A i \in 1..Len(tabs) : tabs[i].placeholder => image # "Ready"
  BY DEF WindowIInv, Kept, Good, Now, Fields, Places
<1>2. WindowTypeOK BY <1>1 DEF WindowIInv, Kept, WindowTypeOK, Indices, Sizes, Slots
<1>3. NoTimerOverslept BY DEF WindowIInv, TimersAhead, NoTimerOverslept, Asleep, Indices
<1>4. ResizeNotForgotten BY DEF WindowIInv, ResizeAhead, ResizeNotForgotten, Asleep
<1>5. PlaceholdersReplaced BY <1>1 DEF PlaceholdersReplaced, Indices
<1> QED BY <1>2, <1>3, <1>4, <1>5 DEF WindowInv

\* The window a document is opened in.
LEMMA WindowStart == WindowInit => WindowIInv
<1> SUFFICES ASSUME WindowInit PROVE WindowIInv OBVIOUS
<1> DEFINE t == [id |-> 0, viewport_size |-> "small", layout_stale |-> FALSE,
                 loading |-> FALSE, document |-> TRUE, root_timer_queue |-> Unarmed,
                 inflight_timer_ticks |-> 0, typing_layout_dirty |-> FALSE,
                 placeholder |-> FALSE]
           x == setup_timers(t)
<1>1. scene \in Scenes /\ 0 \in Ids /\ Ids \subseteq Nat BY SceneTimers DEF WindowInit, Ids
<1>2. 0 \in 0..MAX_INFLIGHT_TIMER_TICKS BY WindowAssumption
<1>3. t \in TabRecord /\ t.id = 0 /\ ~t.placeholder /\ t.viewport_size = "small"
  BY <1>1, <1>2, SceneTimers DEF TabRecord
<1>4. tabs = <<x>> BY DEF WindowInit
<1> HIDE DEF t
<1>5. x \in TabRecord /\ x.id = 0 /\ ~x.placeholder /\ x.viewport_size = "small"
  BY <1>1, <1>3, SetupTab
<1> HIDE DEF x
<1>6. tabs \in Seq(TabRecord) /\ Len(tabs) = 1 /\ tabs[1] = x BY <1>4, <1>5
<1>7. network_cmds \in Seq(Command) /\ Asked(network_cmds) = {} BY DEF WindowInit, Asked
<1>8. logic_events \in [Ids -> Nat] BY DEF WindowInit
<1>9. Now \in Fields /\ Places(Now) = {1}
  BY <1>6, <1>7, <1>8 DEF WindowInit, Now, Fields, Slots, Places
<1>10. Good(Now) BY <1>5, <1>6, <1>7, <1>9 DEF WindowInit, Good, Now
<1>11. LoneAnswer(Now, network_rx) /\ network_rx \in Seq(Answer) /\ logic_rx \in Seq(Response)
  BY DEF WindowInit, LoneAnswer
<1>12. Kept BY <1>1, <1>5, <1>6, <1>10, <1>11 DEF Kept, WindowInit, Sizes
<1>13. TimersAhead /\ ResizeAhead
  BY <1>5, <1>6 DEF TimersAhead, ResizeAhead, WindowInit, Active
<1> QED BY <1>12, <1>13 DEF WindowIInv

-----------------------------------------------------------------------------
(* Steps *)

\* The parts of Kept, once the fields are known to be good.
LEMMA KeptNext ==
  ASSUME scene \in Scenes, scene' = scene, NEW n, n = Now', Good(n), LoneAnswer(n, network_rx'),
         network_rx' \in Seq(Answer), logic_rx' \in Seq(Response),
         active_tab' \in 1..Len(tabs'),
         next_tab_id' \in Nat, \A i \in 1..Len(tabs') : tabs'[i].id < next_tab_id',
         window_size' \in Sizes \cup {Zero}, window_logical_size' \in Sizes,
         pending_resize' \in Sizes \cup {WNone},
         phase' \in {"asleep", "awake", "exited"}, control_flow' \in Nat \cup {WNone}
  PROVE  Kept'
<1>1. Ids' = Ids /\ TabRecord' = TabRecord BY DEF Ids, TabRecord
<1>2. Command' = Command /\ Answer' = Answer /\ Response' = Response
  BY <1>1 DEF Command, Answer, Response
<1>3. Fields' = Fields BY <1>1, <1>2 DEF Fields
<1>4. Good(Now)' BY <1>3 DEF Good
<1> QED BY <1>2, <1>4 DEF Kept

\* The tabs stay where they are and no new placeholder is painted.
StripSame ==
  /\ tabs' \in Seq(TabRecord) /\ Len(tabs') = Len(tabs)
  /\ \A i \in 1..Len(tabs) : /\ tabs'[i].id = tabs[i].id
                             /\ tabs'[i].placeholder => tabs[i].placeholder

GeometryNext ==
  /\ window_size' \in Sizes \cup {Zero} /\ window_logical_size' \in Sizes
  /\ pending_resize' \in Sizes \cup {WNone}
  /\ phase' \in {"asleep", "awake", "exited"} /\ control_flow' \in Nat \cup {WNone}

\* Steps that keep the strip and do not concern the image.
LEMMA StripKept ==
  ASSUME Kept, UNCHANGED <<scene, image, fetching_images, network_rx, next_tab_id>>, StripSame,
         network_cmds' \in Seq(Command), Asked(network_cmds') = Asked(network_cmds),
         logic_events' \in [Ids -> Nat], logic_rx' \in Seq(Response),
         active_tab' \in 1..Len(tabs), GeometryNext
  PROVE  Kept'
<1> DEFINE m == Now
           n == Now'
<1>1. Good(m) /\ m.tabs = tabs /\ m.cmds = network_cmds /\ m.image = image
      /\ m.waiters = fetching_images
  BY DEF Kept, Now
<1>2. n.tabs = tabs' /\ n.cmds = network_cmds' /\ n.image = image /\ n.waiters = fetching_images
  BY DEF Now
<1>3. n \in Fields
  <2>1. image \in Slots /\ fetching_images \in SUBSET Ids BY <1>1 DEF Good, Fields
  <2> QED BY <2>1 DEF Now, Fields, StripSame
<1>4. SameStrip(m, n) BY <1>1, <1>2 DEF SameStrip, StripSame, Places
<1>5. LoneAnswer(m, network_rx) BY DEF Kept
<1> HIDE DEF m, n
<1>6. \A i \in Places(m) : n.tabs[i].placeholder => m.tabs[i].placeholder
  BY <1>1, <1>2 DEF StripSame, Places
<1>7. Good(n) BY <1>1, <1>2, <1>3, <1>4, <1>6, KeepGood
<1>8. LoneAnswer(n, network_rx') BY <1>1, <1>2, <1>5 DEF LoneAnswer
<1>9. \A i \in 1..Len(tabs') : tabs'[i].id < next_tab_id' BY DEF StripSame, Kept
<1>10. n = Now' BY DEF n
<1> QED BY <1>7, <1>8, <1>9, <1>10, KeptNext DEF Kept, StripSame, GeometryNext

\* One tab changes.
LEMMA OneTab ==
  ASSUME Kept, NEW i \in 1..Len(tabs), NEW x \in TabRecord, x.id = tabs[i].id,
         x.placeholder => tabs[i].placeholder, tabs' = [tabs EXCEPT ![i] = x]
  PROVE  StripSame /\ tabs'[i] = x /\ \A j \in 1..Len(tabs) : j # i => tabs'[j] = tabs[j]
<1>1. tabs \in Seq(TabRecord) BY DEF Kept, Good, Now, Fields
<1> QED BY <1>1 DEF StripSame

\* No tab changes.
LEMMA NoTab ==
  ASSUME Kept, tabs' = tabs
  PROVE  StripSame
<1>1. tabs \in Seq(TabRecord) BY DEF Kept, Good, Now, Fields
<1> QED BY <1>1 DEF StripSame

\* What Kept says of the fields, by their names.
LEMMA KeptFields ==
  ASSUME Kept
  PROVE  /\ tabs \in Seq(TabRecord) /\ network_cmds \in Seq(Command)
         /\ logic_events \in [Ids -> Nat] /\ image \in Slots /\ fetching_images \in SUBSET Ids
         /\ \A i \in 1..Len(tabs) : tabs[i] \in TabRecord
         /\ Active \in TabRecord /\ Active.id \in Ids
<1>1. tabs \in Seq(TabRecord) BY DEF Kept, Good, Now, Fields
<1>2. \A i \in 1..Len(tabs) : tabs[i] \in TabRecord BY <1>1
<1>3. Active \in TabRecord BY <1>2 DEF Kept, Active
<1>4. Active.id \in Ids BY <1>3 DEF TabRecord
<1> QED BY <1>1, <1>2, <1>3, <1>4 DEF Kept, Good, Now, Fields

\* resize_viewport lays out the tab on screen for the new size.
LEMMA ViewportResized ==
  ASSUME Kept, NEW size \in Sizes, resize_viewport(size)
  PROVE  StripSame /\ tabs'[active_tab].viewport_size = size /\ window_logical_size' = size
<1>1. /\ tabs \in Seq(TabRecord) /\ \A i \in 1..Len(tabs) : tabs[i] \in TabRecord
      /\ Len(tabs) \in Nat /\ active_tab \in 1..Len(tabs) /\ size # Zero
  BY KeptFields, WindowAssumption DEF Kept, Sizes
<1> DEFINE x(i) == IF IsActive(i) THEN Relayout(tabs[i], size)
                   ELSE [tabs[i] EXCEPT !.layout_stale = TRUE]
<1>2. tabs' = [i \in 1..Len(tabs) |-> x(i)] /\ window_logical_size' = size
  BY DEF resize_viewport, Indices
<1>3. ASSUME NEW i \in 1..Len(tabs)
      PROVE  /\ x(i) \in TabRecord /\ x(i).id = tabs[i].id
             /\ x(i).placeholder = tabs[i].placeholder
             /\ IsActive(i) => x(i).viewport_size = size
  <2>1. tabs[i] \in TabRecord BY <1>1
  <2>2. CASE IsActive(i) BY <1>1, <2>1, <2>2, RelayoutTab
  <2>3. CASE ~IsActive(i) BY <2>1, <2>3 DEF TabRecord
  <2> QED BY <2>2, <2>3
<1> HIDE DEF x
<1>4. tabs' \in Seq(TabRecord) /\ Len(tabs') = Len(tabs) BY <1>1, <1>2, <1>3
<1>5. \A i \in 1..Len(tabs) : tabs'[i] = x(i) BY <1>2
<1>6. StripSame BY <1>3, <1>4, <1>5 DEF StripSame
<1>7. tabs'[active_tab].viewport_size = size BY <1>1, <1>3, <1>5 DEF IsActive
<1> QED BY <1>2, <1>6, <1>7

\* A resize is laid out, put off, or ignored while the window is minimised.
LEMMA ResizedKeeps ==
  ASSUME WindowIInv, NEW size \in scene.sizes \cup (IF scene.minimise THEN {Zero} ELSE {}),
         Resized(size)
  PROVE  WindowIInv'
<1>0. Kept BY DEF WindowIInv
<1>1. size \in Sizes \cup {Zero}
  <2>1. scene.sizes \subseteq Sizes BY <1>0, SceneTimers DEF Kept, Scene, Sizes
  <2> QED BY <2>1
<1>2. /\ phase' = "awake" /\ window_size' = size /\ control_flow' = control_flow
      /\ UNCHANGED <<scene, image, fetching_images, network_rx, next_tab_id, active_tab,
                     network_cmds, logic_events, logic_rx>>
  BY DEF Resized, Handling, pictures, workers
<1>3. TimersAhead' BY <1>2 DEF TimersAhead
<1>4. network_cmds \in Seq(Command) /\ logic_events \in [Ids -> Nat] BY <1>0, KeptFields
<1>5. CASE size = Zero
  <2>1. UNCHANGED <<tabs, window_logical_size, pending_resize>> BY <1>5 DEF Resized
  <2>2. StripSame BY <1>0, <2>1, NoTab
  <2>3. GeometryNext BY <1>0, <1>1, <1>2, <2>1 DEF GeometryNext, Kept
  <2>4. Kept' BY <1>0, <1>2, <1>4, <2>2, <2>3, StripKept DEF Kept
  <2>5. ResizeAhead' BY <1>2, <1>5 DEF ResizeAhead
  <2> QED BY <1>3, <2>4, <2>5 DEF WindowIInv
<1>6. CASE size # Zero /\ recent_layout
  <2>1. UNCHANGED <<tabs, window_logical_size>> /\ pending_resize' = size
    BY <1>6 DEF Resized
  <2>2. StripSame BY <1>0, <2>1, NoTab
  <2>3. GeometryNext BY <1>0, <1>1, <1>2, <1>6, <2>1 DEF GeometryNext, Kept
  <2>4. Kept' BY <1>0, <1>2, <1>4, <2>2, <2>3, StripKept DEF Kept
  <2>5. ResizeAhead' BY <1>2, <2>1 DEF ResizeAhead
  <2> QED BY <1>3, <2>4, <2>5 DEF WindowIInv
<1>7. CASE size # Zero /\ ~recent_layout
  <2>1. resize_viewport(size) /\ pending_resize' = WNone BY <1>7 DEF Resized
  <2>2. StripSame /\ tabs'[active_tab].viewport_size = size /\ window_logical_size' = size
    BY <1>0, <1>1, <1>7, <2>1, ViewportResized
  <2>3. GeometryNext BY <1>0, <1>1, <1>2, <1>7, <2>1, <2>2 DEF GeometryNext, Kept
  <2>4. Kept' BY <1>0, <1>2, <1>4, <2>2, <2>3, StripKept DEF Kept
  <2>5. ResizeAhead' BY <1>2, <2>2 DEF ResizeAhead, Active
  <2> QED BY <1>3, <2>4, <2>5 DEF WindowIInv
<1> QED BY <1>5, <1>6, <1>7

\* A change of theme lays out again for the size recorded.
LEMMA ThemeKeeps == ASSUME WindowIInv, ThemeChanged PROVE WindowIInv'
<1>0. Kept BY DEF WindowIInv
<1>1. /\ phase' = "awake" /\ control_flow' = control_flow /\ steady' = FALSE
      /\ resize_viewport(window_logical_size)
      /\ UNCHANGED <<scene, image, fetching_images, network_rx, next_tab_id, active_tab,
                     network_cmds, logic_events, logic_rx, window_size, pending_resize>>
  BY DEF ThemeChanged, Handling, pictures, workers
<1>2. StripSame /\ window_logical_size' = window_logical_size
  BY <1>0, <1>1, ViewportResized DEF Kept
<1>3. GeometryNext BY <1>0, <1>1, <1>2 DEF GeometryNext, Kept
<1>4. network_cmds \in Seq(Command) /\ logic_events \in [Ids -> Nat] BY <1>0, KeptFields
<1>5. Kept' BY <1>0, <1>1, <1>2, <1>3, <1>4, StripKept DEF Kept
<1>6. TimersAhead' /\ ResizeAhead' BY <1>1 DEF TimersAhead, ResizeAhead
<1> QED BY <1>5, <1>6 DEF WindowIInv

\* Inputs that change at most the tab on screen, and not its layout unless they
\* lay it out for the window.
LEMMA InputKeeps ==
  ASSUME WindowIInv, Handling,
         UNCHANGED <<scene, image, fetching_images, network_rx, next_tab_id, active_tab, logic_rx,
                     geometry, steady>>,
         network_cmds' \in Seq(Command), Asked(network_cmds') = Asked(network_cmds),
         logic_events' \in [Ids -> Nat],
         NEW x \in TabRecord, x.id = Active.id, x.placeholder => Active.placeholder,
         \/ x.viewport_size = Active.viewport_size
         \/ window_size # Zero => x.viewport_size = window_size,
         tabs' = [tabs EXCEPT ![active_tab] = x]
  PROVE  WindowIInv'
<1>0. Kept BY DEF WindowIInv
<1>1. phase' = "awake" /\ control_flow' = control_flow BY DEF Handling
<1>2. active_tab \in 1..Len(tabs) /\ Active = tabs[active_tab] /\ logic_rx \in Seq(Response)
  BY <1>0 DEF Kept, Active
<1>3. StripSame /\ tabs'[active_tab] = x BY <1>0, <1>2, OneTab
<1>4. GeometryNext BY <1>0, <1>1 DEF GeometryNext, Kept, geometry
<1>5. Kept' BY <1>0, <1>2, <1>3, <1>4, StripKept
<1>6. TimersAhead' BY <1>1 DEF TimersAhead
<1>7. ResizeAhead'
  <2>1. Active' = x BY <1>3 DEF Active
  <2>2. UNCHANGED <<window_size, pending_resize, steady>> BY DEF geometry
  <2>3. ResizeAhead BY DEF WindowIInv
  <2> QED BY <1>1, <2>1, <2>2, <2>3 DEF ResizeAhead
<1> QED BY <1>5, <1>6, <1>7 DEF WindowIInv

\* The inspector lays out the tab on screen for the window.
LEMMA InspectorKeeps == ASSUME WindowIInv, ToggleInspector PROVE WindowIInv'
<1> DEFINE x == Relayout(Active, window_size)
<1>0. Kept BY DEF WindowIInv
<1>1. Active \in TabRecord /\ network_cmds \in Seq(Command) /\ logic_events \in [Ids -> Nat]
  BY <1>0, KeptFields
<1>2. /\ x \in TabRecord /\ x.id = Active.id /\ x.placeholder = Active.placeholder
      /\ x.viewport_size = IF window_size = Zero THEN Active.viewport_size ELSE window_size
  BY <1>0, <1>1, RelayoutTab DEF Kept
<1>3. /\ tabs' = [tabs EXCEPT ![active_tab] = x]
      /\ Handling
      /\ UNCHANGED <<scene, image, fetching_images, network_rx, next_tab_id, active_tab, logic_rx,
                     geometry, steady, network_cmds, logic_events>>
  BY DEF ToggleInspector, Active, pictures, workers
<1> HIDE DEF x
<1> QED BY <1>1, <1>2, <1>3, InputKeeps

\* Typing into the document.
LEMMA TypeKeeps == ASSUME WindowIInv, Type PROVE WindowIInv'
<1> DEFINE x == [Active EXCEPT !.typing_layout_dirty = TRUE]
<1>0. Kept BY DEF WindowIInv
<1>1. /\ Active \in TabRecord /\ network_cmds \in Seq(Command) /\ logic_events \in [Ids -> Nat]
      /\ tabs \in Seq(TabRecord)
  BY <1>0, KeptFields
<1>2. /\ x \in TabRecord /\ x.id = Active.id /\ x.placeholder = Active.placeholder
      /\ x.viewport_size = Active.viewport_size
  BY <1>1 DEF TabRecord
<1>3. /\ tabs' = [tabs EXCEPT ![active_tab] = x]
      /\ Handling
      /\ UNCHANGED <<scene, image, fetching_images, network_rx, next_tab_id, active_tab, logic_rx,
                     geometry, steady, network_cmds, logic_events>>
  BY DEF Type, Active, pictures, workers
<1> HIDE DEF x
<1> QED BY <1>1, <1>2, <1>3, InputKeeps

\* A click sends an event.
LEMMA ClickKeeps == ASSUME WindowIInv, Click PROVE WindowIInv'
<1>0. Kept BY DEF WindowIInv
<1>1. /\ Active \in TabRecord /\ network_cmds \in Seq(Command) /\ logic_events \in [Ids -> Nat]
      /\ Active.id \in Ids /\ tabs \in Seq(TabRecord)
  BY <1>0, KeptFields
<1>2. /\ tabs' = tabs /\ logic_events' = Send(logic_events, Active.id)
      /\ Handling
      /\ UNCHANGED <<scene, image, fetching_images, network_rx, next_tab_id, active_tab, logic_rx,
                     geometry, steady, network_cmds>>
  BY DEF Click, pictures, strip
<1>3. logic_events' \in [Ids -> Nat] BY <1>1, <1>2, SendTyped
<1>4. tabs' = [tabs EXCEPT ![active_tab] = Active] BY <1>1, <1>2 DEF Active
<1> QED BY <1>1, <1>2, <1>3, <1>4, InputKeeps

\* A navigation sends a command, or shows a file at once.
LEMMA NavigateKeeps ==
  ASSUME WindowIInv, NEW target \in scene.targets, Navigate(target)
  PROVE  WindowIInv'
<1> DEFINE x == CASE target \in {"mizu", "unreadable"} -> [Active EXCEPT !.loading = TRUE]
                  [] target = "file" -> [reload_tab_document(Active) EXCEPT !.loading = FALSE]
                  [] target = "blocked" -> [Active EXCEPT !.loading = FALSE]
<1>0. Kept BY DEF WindowIInv
<1>1. /\ Active \in TabRecord /\ network_cmds \in Seq(Command) /\ logic_events \in [Ids -> Nat]
      /\ Active.id \in Ids
  BY <1>0, KeptFields
<1>2. target \in {"mizu", "file", "unreadable", "blocked"}
  BY <1>0, SceneTimers DEF Kept, Scene
<1>3. /\ reload_tab_document(Active) \in TabRecord
      /\ reload_tab_document(Active).id = Active.id
      /\ reload_tab_document(Active).placeholder = FALSE
      /\ reload_tab_document(Active).viewport_size = Active.viewport_size
  BY <1>0, <1>1, ReloadTab DEF Kept
<1>4. /\ x \in TabRecord /\ x.id = Active.id /\ (x.placeholder => Active.placeholder)
      /\ x.viewport_size = Active.viewport_size
  <2>1. CASE target \in {"mizu", "unreadable"} BY <1>1, <2>1 DEF TabRecord
  <2>2. CASE target = "file" BY <1>3, <2>2 DEF TabRecord
  <2>3. CASE target = "blocked" BY <1>1, <2>3 DEF TabRecord
  <2> QED BY <1>2, <2>1, <2>2, <2>3
<1>5. /\ tabs' = [tabs EXCEPT ![active_tab] = x]
      /\ Handling
      /\ UNCHANGED <<scene, image, fetching_images, network_rx, next_tab_id, active_tab, logic_rx,
                     geometry, steady>>
  BY DEF Navigate, Active, pictures
<1> HIDE DEF x
<1>6. network_cmds' \in Seq(Command) /\ Asked(network_cmds') = Asked(network_cmds)
  BY <1>1, AppendOther DEF Navigate
<1>7. logic_events' \in [Ids -> Nat] BY <1>1, SendTyped DEF Navigate
<1> QED BY <1>4, <1>5, <1>6, <1>7, InputKeeps

\* Another tab is shown.
LEMMA SwitchKeeps ==
  ASSUME WindowIInv, NEW pos \in Indices, switch_to_tab(pos)
  PROVE  WindowIInv'
<1> DEFINE x == IF tabs[pos].layout_stale THEN Relayout(tabs[pos], window_logical_size)
                ELSE tabs[pos]
<1>0. Kept BY DEF WindowIInv
<1>1. /\ pos \in 1..Len(tabs) /\ tabs[pos] \in TabRecord
      /\ network_cmds \in Seq(Command) /\ logic_events \in [Ids -> Nat]
  BY <1>0, KeptFields DEF Indices
<1>2. x \in TabRecord /\ x.id = tabs[pos].id /\ x.placeholder = tabs[pos].placeholder
  BY <1>0, <1>1, RelayoutTab DEF Kept
<1>3. /\ tabs' = [tabs EXCEPT ![pos] = x] /\ active_tab' = pos /\ steady' = FALSE
      /\ phase' = "awake" /\ control_flow' = control_flow
      /\ UNCHANGED <<scene, image, fetching_images, network_rx, next_tab_id, logic_rx,
                     geometry, network_cmds, logic_events>>
  BY DEF switch_to_tab, Handling, pictures, workers
<1> HIDE DEF x
<1>4. StripSame BY <1>0, <1>1, <1>2, <1>3, OneTab
<1>5. GeometryNext BY <1>0, <1>3 DEF GeometryNext, Kept, geometry
<1>6. Kept' BY <1>0, <1>1, <1>3, <1>4, <1>5, StripKept DEF Kept
<1>7. TimersAhead' /\ ResizeAhead' BY <1>3 DEF TimersAhead, ResizeAhead
<1> QED BY <1>6, <1>7 DEF WindowIInv

\* A new tab has an id no tab has had.
LEMMA OpenKeeps == ASSUME WindowIInv, open_tab PROVE WindowIInv'
<1> DEFINE x == NewTab(next_tab_id)
           m == Now
           n == Now'
<1>0. Kept BY DEF WindowIInv
<1>1. /\ tabs \in Seq(TabRecord) /\ Len(tabs) \in Nat
      /\ \A i \in 1..Len(tabs) : tabs[i] \in TabRecord
  BY <1>0, KeptFields
<1>2. /\ tabs' = Append(tabs, x) /\ active_tab' = Len(tabs') /\ steady' = FALSE
      /\ next_tab_id < scene.ids /\ next_tab_id' = next_tab_id + 1
      /\ phase' = "awake" /\ control_flow' = control_flow
      /\ UNCHANGED <<scene, image, fetching_images, network_rx, logic_rx,
                     geometry, network_cmds, logic_events>>
  BY DEF open_tab, Handling, pictures, workers
<1>3. x \in TabRecord /\ x.id = next_tab_id /\ ~x.placeholder
  <2>1. next_tab_id \in Ids BY <1>0, <1>2, SceneTimers DEF Ids, Kept
  <2>2. 0 \in 0..MAX_INFLIGHT_TIMER_TICKS BY WindowAssumption
  <2>3. window_logical_size \in {"small", "large"} BY <1>0 DEF Kept, Sizes
  <2>4. Unarmed \in [1..Len(scene.timers) -> Nat \cup {WNone}] BY <1>0, SceneTimers DEF Kept
  <2> QED BY <2>1, <2>2, <2>3, <2>4 DEF NewTab, TabRecord
<1> HIDE DEF x
<1>4. /\ tabs' \in Seq(TabRecord) /\ Len(tabs') = Len(tabs) + 1
      /\ tabs'[Len(tabs) + 1] = x
  BY <1>1, <1>2, <1>3
<1>5. \A i \in 1..Len(tabs) : tabs'[i] = tabs[i] BY <1>1, <1>2
<1>6. Good(m) /\ m.tabs = tabs /\ LoneAnswer(m, network_rx) BY <1>0 DEF Kept, Now
<1>7. /\ n.tabs = tabs' /\ n.cmds = m.cmds /\ n.image = m.image /\ n.waiters = m.waiters
      /\ n \in Fields
  <2>1. m \in Fields BY <1>6 DEF Good
  <2> QED BY <1>2, <1>4, <2>1 DEF Now, Fields
<1> HIDE DEF m, n
<1>8. \A i \in Places(n) : (i \in Places(m) /\ n.tabs[i] = m.tabs[i]) \/ n.tabs[i] = x
  BY <1>1, <1>4, <1>5, <1>6, <1>7 DEF Places
<1>9. \A i \in Places(m) : m.tabs[i].id < next_tab_id BY <1>0, <1>6 DEF Kept, Places
<1>10. Open(m.tabs) \subseteq Open(n.tabs)
  BY <1>1, <1>4, <1>5, <1>6, <1>7 DEF Open
<1>11. \A i, j \in Places(n) : n.tabs[i].id = n.tabs[j].id => i = j
  <2> SUFFICES ASSUME NEW i \in Places(n), NEW j \in Places(n), n.tabs[i].id = n.tabs[j].id
               PROVE  i = j
    OBVIOUS
  <2>1. \A k \in Places(n) : k \in Places(m) \/ k = Len(tabs) + 1
    BY <1>1, <1>4, <1>6, <1>7 DEF Places
  <2>2. n.tabs[Len(tabs) + 1].id = next_tab_id BY <1>3, <1>4, <1>7
  <2>3. \A k \in Places(m) : n.tabs[k] = m.tabs[k] /\ n.tabs[k].id < next_tab_id
    BY <1>5, <1>6, <1>7, <1>9 DEF Places
  <2>4. next_tab_id \in Nat BY <1>0 DEF Kept
  <2>5. ~(next_tab_id < next_tab_id) BY <2>4
  <2> QED BY <1>6, <2>1, <2>2, <2>3, <2>5 DEF Good
<1>12. Good(n) BY <1>3, <1>6, <1>7, <1>8, <1>10, <1>11 DEF Good
<1>13. LoneAnswer(n, network_rx') BY <1>2, <1>6, <1>7 DEF LoneAnswer
<1>14. next_tab_id' \in Nat /\ \A i \in 1..Len(tabs') : tabs'[i].id < next_tab_id'
  <2>1. next_tab_id \in Nat BY <1>0 DEF Kept
  <2> SUFFICES ASSUME NEW i \in 1..Len(tabs') PROVE tabs'[i].id < next_tab_id + 1
    BY <1>2, <2>1
  <2>2. CASE i = Len(tabs) + 1 BY <1>3, <1>4, <2>1, <2>2
  <2>3. CASE i \in 1..Len(tabs)
    <3>1. tabs'[i].id = tabs[i].id /\ tabs[i].id < next_tab_id BY <1>0, <1>5, <2>3 DEF Kept
    <3>2. tabs[i].id \in Int
      <4>1. tabs[i].id \in Ids BY <1>1, <2>3 DEF TabRecord
      <4> QED BY <4>1 DEF Ids
    <3> QED BY <2>1, <3>1, <3>2
  <2> QED BY <1>1, <1>4, <2>2, <2>3
<1>15. n = Now' BY DEF n
<1>16. active_tab' \in 1..Len(tabs') BY <1>1, <1>2, <1>4
<1>17. Kept' BY <1>0, <1>2, <1>12, <1>13, <1>14, <1>15, <1>16, KeptNext DEF Kept, geometry
<1>18. TimersAhead' /\ ResizeAhead' BY <1>2 DEF TimersAhead, ResizeAhead
<1> QED BY <1>17, <1>18 DEF WindowIInv

\* Taking an element out of a sequence.
LEMMA Removed ==
  ASSUME NEW S, NEW s \in Seq(S), NEW pos \in 1..Len(s)
  PROVE  /\ RemoveAt(s, pos) \in Seq(S) /\ Len(RemoveAt(s, pos)) = Len(s) - 1
         /\ \A k \in 1..(Len(s) - 1) :
              RemoveAt(s, pos)[k] = IF k < pos THEN s[k] ELSE s[k + 1]
<1> DEFINE a == SubSeq(s, 1, pos - 1)
           b == SubSeq(s, pos + 1, Len(s))
<1>0. Len(s) \in Nat /\ pos \in Nat /\ 1 <= pos /\ pos <= Len(s) OBVIOUS
<1>1. a \in Seq(S) /\ Len(a) = pos - 1 /\ \A k \in 1..(pos - 1) : a[k] = s[k] BY <1>0
<1>2. b \in Seq(S) /\ Len(b) = Len(s) - pos
      /\ \A k \in 1..(Len(s) - pos) : b[k] = s[pos + k]
  <2>1. CASE pos < Len(s) BY <1>0, <2>1
  <2>2. CASE pos = Len(s)
    <3>1. b = <<>> BY <1>0, <2>2
    <3> QED BY <1>0, <2>2, <3>1
  <2> QED BY <1>0, <2>1, <2>2
<1>3. RemoveAt(s, pos) = a \o b BY DEF RemoveAt
<1> HIDE DEF a, b
<1>4. /\ a \o b \in Seq(S) /\ Len(a \o b) = Len(a) + Len(b)
      /\ \A k \in 1..(Len(a) + Len(b)) :
           (a \o b)[k] = IF k <= Len(a) THEN a[k] ELSE b[k - Len(a)]
  BY <1>1, <1>2, ConcatProperties
<1>5. ASSUME NEW k \in 1..(Len(s) - 1)
      PROVE  (a \o b)[k] = IF k < pos THEN s[k] ELSE s[k + 1]
  <2>1. CASE k < pos BY <1>0, <1>1, <1>2, <1>4, <2>1
  <2>2. CASE k >= pos
    <3>1. k - Len(a) \in 1..(Len(s) - pos) /\ ~(k <= Len(a)) /\ k \in 1..(Len(a) + Len(b))
      BY <1>0, <1>1, <1>2, <2>2
    <3>2. (a \o b)[k] = b[k - Len(a)] BY <1>4, <3>1
    <3>3. b[k - Len(a)] = s[pos + (k - Len(a))] BY <1>2, <3>1
    <3>4. pos + (k - Len(a)) = k + 1 BY <1>0, <1>1
    <3>5. ~(k < pos) BY <1>0, <2>2
    <3>6. (a \o b)[k] = s[k + 1] BY <3>2, <3>3, <3>4, Zenon
    <3> QED BY <3>5, <3>6, Zenon
  <2>3. k < pos \/ k >= pos BY <1>0
  <2> QED BY <2>1, <2>2, <2>3, Zenon
<1> QED BY <1>0, <1>1, <1>2, <1>3, <1>4, <1>5

\* Where the tab at k was before the one at pos was closed.
Before(pos, k) == IF k < pos THEN k ELSE k + 1

\* The strip after a tab was closed: every other tab is still there.
LEMMA ClosedStrip ==
  ASSUME tabs \in Seq(TabRecord), NEW pos \in 1..Len(tabs), tabs' = RemoveAt(tabs, pos)
  PROVE  /\ tabs' \in Seq(TabRecord) /\ Len(tabs') = Len(tabs) - 1
         /\ \A k \in 1..Len(tabs') : tabs'[k] = tabs[Before(pos, k)]
         /\ \A k \in 1..Len(tabs') : Before(pos, k) \in 1..Len(tabs) /\ Before(pos, k) # pos
         /\ \A j, k \in 1..Len(tabs') : Before(pos, j) = Before(pos, k) => j = k
         /\ \A i \in 1..Len(tabs) : i # pos => \E k \in 1..Len(tabs') : Before(pos, k) = i
<1>1. Len(tabs) \in Nat OBVIOUS
<1>2. /\ tabs' \in Seq(TabRecord) /\ Len(tabs') = Len(tabs) - 1
      /\ \A k \in 1..(Len(tabs) - 1) : tabs'[k] = IF k < pos THEN tabs[k] ELSE tabs[k + 1]
  BY Removed
<1>3. \A k \in 1..Len(tabs') : tabs'[k] = tabs[Before(pos, k)] BY <1>1, <1>2 DEF Before
<1>4. /\ \A k \in 1..Len(tabs') : Before(pos, k) \in 1..Len(tabs) /\ Before(pos, k) # pos
      /\ \A j, k \in 1..Len(tabs') : Before(pos, j) = Before(pos, k) => j = k
      /\ \A i \in 1..Len(tabs) : i # pos => \E k \in 1..Len(tabs') : Before(pos, k) = i
  <2>1. \A k \in 1..Len(tabs') : Before(pos, k) \in 1..Len(tabs) /\ Before(pos, k) # pos
    BY <1>1, <1>2 DEF Before
  <2>2. \A j, k \in 1..Len(tabs') : Before(pos, j) = Before(pos, k) => j = k
    BY <1>1, <1>2 DEF Before
  <2>3. ASSUME NEW i \in 1..Len(tabs), i # pos
        PROVE  \E k \in 1..Len(tabs') : Before(pos, k) = i
    <3>1. CASE i < pos
      <4>1. i \in 1..Len(tabs') /\ Before(pos, i) = i BY <1>1, <1>2, <3>1 DEF Before
      <4> QED BY <4>1
    <3>2. CASE i > pos
      <4>1. i - 1 \in 1..Len(tabs') /\ Before(pos, i - 1) = i BY <1>1, <1>2, <3>2 DEF Before
      <4> QED BY <4>1
    <3> QED BY <1>1, <2>3, <3>1, <3>2
  <2> QED BY <2>1, <2>2, <2>3
<1> QED BY <1>2, <1>3, <1>4

\* A tab is closed: it waits for no image any more, and the index of the tab
\* on screen follows its tab.
LEMMA CloseKeeps ==
  ASSUME WindowIInv, NEW pos \in Indices, close_tab(pos)
  PROVE  WindowIInv'
<1> DEFINE m == Now
           n == Now'
<1>0. Kept BY DEF WindowIInv
<1>1. /\ tabs \in Seq(TabRecord) /\ Len(tabs) \in Nat /\ pos \in 1..Len(tabs)
      /\ network_cmds \in Seq(Command) /\ logic_events \in [Ids -> Nat]
  BY <1>0, KeptFields DEF Indices
<1>2. /\ UNCHANGED <<scene, image, network_rx, logic_rx, geometry, network_cmds, logic_events,
                     control_flow, next_tab_id>>
      /\ phase' \in {"awake", "exited"}
  BY DEF close_tab, pictures, workers, strip
<1>3. TimersAhead' BY <1>2 DEF TimersAhead
<1>4. GeometryNext BY <1>0, <1>2 DEF GeometryNext, Kept, geometry
<1>5. CASE Len(tabs) = 1
  <2>1. UNCHANGED <<tabs, active_tab, fetching_images, steady>> BY <1>5 DEF close_tab, strip
  <2>2. StripSame BY <1>0, <2>1, NoTab
  <2>3. Kept' BY <1>0, <1>1, <1>2, <1>4, <2>1, <2>2, StripKept DEF Kept
  <2>4. ResizeAhead'
    <3>1. ResizeAhead BY DEF WindowIInv
    <3> QED BY <1>2, <2>1, <3>1 DEF ResizeAhead, Active, geometry
  <2> QED BY <1>3, <2>3, <2>4 DEF WindowIInv
<1>6. CASE Len(tabs) # 1
  <2>1. /\ fetching_images' = fetching_images \ {tabs[pos].id}
        /\ tabs' = RemoveAt(tabs, pos)
        /\ active_tab' = IndexAfterClose(pos, Len(tabs) - 1)
        /\ steady' = (steady /\ pos # active_tab)
    BY <1>6 DEF close_tab
  <2>2. /\ tabs' \in Seq(TabRecord) /\ Len(tabs') = Len(tabs) - 1 BY <1>1, <2>1, ClosedStrip
  <2>3. \A k \in 1..Len(tabs') : tabs'[k] = tabs[Before(pos, k)] BY <1>1, <2>1, ClosedStrip
  <2>4. /\ \A k \in 1..Len(tabs') : Before(pos, k) \in 1..Len(tabs) /\ Before(pos, k) # pos
        /\ \A j, k \in 1..Len(tabs') : Before(pos, j) = Before(pos, k) => j = k
        /\ \A i \in 1..Len(tabs) : i # pos => \E k \in 1..Len(tabs') : Before(pos, k) = i
    BY <1>1, <2>1, ClosedStrip
  <2>5. Good(m) /\ m.tabs = tabs /\ m.waiters = fetching_images /\ LoneAnswer(m, network_rx)
    BY <1>0 DEF Kept, Now
  <2>6. /\ n.tabs = tabs' /\ n.cmds = m.cmds /\ n.image = m.image
        /\ n.waiters = fetching_images' /\ n \in Fields
    <3>1. m \in Fields BY <2>5 DEF Good
    <3>2. fetching_images \in SUBSET Ids BY <2>5, <3>1 DEF Fields
    <3> QED BY <1>2, <2>1, <2>2, <3>1, <3>2 DEF Now, Fields
  <2> HIDE DEF m, n
  <2>7. \A i, j \in 1..Len(tabs) : tabs[i].id = tabs[j].id => i = j BY <2>5 DEF Good, Places
  <2>8. \A i, j \in Places(n) : n.tabs[i].id = n.tabs[j].id => i = j
    BY <2>3, <2>4, <2>6, <2>7 DEF Places
  <2>9. n.waiters \subseteq Open(n.tabs)
    <3> SUFFICES ASSUME NEW id \in fetching_images, id # tabs[pos].id PROVE id \in Open(tabs')
      BY <2>1, <2>6
    <3>1. id \in Open(tabs) BY <2>5 DEF Good
    <3>2. PICK i \in 1..Len(tabs) : tabs[i].id = id BY <3>1 DEF Open
    <3>3. PICK k \in 1..Len(tabs') : Before(pos, k) = i BY <2>4, <3>2
    <3>4. tabs'[k].id = id BY <2>3, <3>2, <3>3
    <3> QED BY <3>4 DEF Open
  <2>10. \A k \in Places(n) : n.tabs[k].placeholder =>
           n.image = "Failed" \/ (n.image \in {"absent", "Loading"} /\ n.tabs[k].id \in n.waiters)
    <3> SUFFICES ASSUME NEW k \in 1..Len(tabs'), tabs'[k].placeholder
                 PROVE  \/ n.image = "Failed"
                        \/ n.image \in {"absent", "Loading"} /\ tabs'[k].id \in n.waiters
      BY <2>6 DEF Places
    <3> DEFINE i == Before(pos, k)
    <3>1. i \in 1..Len(tabs) /\ i # pos /\ tabs'[k] = tabs[i] BY <2>3, <2>4
    <3> HIDE DEF i
    <3>2. tabs[i].id # tabs[pos].id BY <1>1, <2>7, <3>1
    <3>3. \/ m.image = "Failed"
          \/ m.image \in {"absent", "Loading"} /\ tabs[i].id \in fetching_images
      BY <2>5, <3>1 DEF Good, Places
    <3> QED BY <2>1, <2>6, <3>1, <3>2, <3>3
  <2>11. Good(n) BY <2>5, <2>6, <2>8, <2>9, <2>10 DEF Good
  <2>12. LoneAnswer(n, network_rx') BY <1>2, <2>5, <2>6 DEF LoneAnswer
  <2>13. \A k \in 1..Len(tabs') : tabs'[k].id < next_tab_id' BY <1>0, <1>2, <2>3, <2>4 DEF Kept
  <2>14. active_tab \in 1..Len(tabs) BY <1>0 DEF Kept
  <2>15. active_tab' \in 1..Len(tabs')
    BY <1>1, <1>6, <2>1, <2>2, <2>14 DEF IndexAfterClose
  <2>16. n = Now' BY DEF n
  <2>17. Kept'
    BY <1>0, <1>2, <1>4, <2>11, <2>12, <2>13, <2>15, <2>16, KeptNext DEF Kept, GeometryNext
  <2>18. pos # active_tab => Active' = Active
    <3>1. pos # active_tab => Before(pos, active_tab') = active_tab
      BY <1>1, <1>6, <2>1, <2>2, <2>14 DEF IndexAfterClose, Before
    <3> QED BY <2>3, <2>15, <3>1 DEF Active
  <2>19. ResizeAhead'
    <3>1. ResizeAhead BY DEF WindowIInv
    <3> QED BY <1>2, <2>1, <2>18, <3>1 DEF ResizeAhead, geometry
  <2> QED BY <1>3, <2>17, <2>19 DEF WindowIInv
<1> QED BY <1>5, <1>6

\* Painting asks for the image once, and every tab that paints a placeholder
\* joins the waiters.
LEMMA RedrawKeeps == ASSUME WindowIInv, Redraw PROVE WindowIInv'
<1> DEFINE m == Now
           n == Now'
           asks == /\ window_size # Zero /\ Active.document /\ scene.image
                   /\ image \in {"absent", "Loading"}
<1>0. Kept /\ ResizeAhead BY DEF WindowIInv
<1>1. /\ tabs \in Seq(TabRecord) /\ network_cmds \in Seq(Command)
      /\ logic_events \in [Ids -> Nat] /\ fetching_images \in SUBSET Ids
      /\ Active \in TabRecord /\ Active.id \in Ids
      /\ active_tab \in 1..Len(tabs) /\ Active = tabs[active_tab]
  BY <1>0, KeptFields DEF Kept, Active
<1>2. /\ phase' = "awake" /\ control_flow' = control_flow
      /\ UNCHANGED <<scene, active_tab, next_tab_id, geometry, network_rx, logic_events, logic_rx,
                     steady>>
  BY DEF Redraw
<1>3. GeometryNext BY <1>0, <1>2 DEF GeometryNext, Kept, geometry
<1>4. TimersAhead' BY <1>2 DEF TimersAhead
<1>5. CASE ~asks
  <2>1. UNCHANGED <<tabs, image, fetching_images, network_cmds>> BY <1>5 DEF Redraw, pictures
  <2>2. StripSame BY <1>0, <2>1, NoTab
  <2>3. Kept' BY <1>0, <1>1, <1>2, <1>3, <2>1, <2>2, StripKept DEF Kept
  <2>4. ResizeAhead' BY <1>0, <1>2, <2>1 DEF ResizeAhead, Active, geometry
  <2> QED BY <1>4, <2>3, <2>4 DEF WindowIInv
<1>6. CASE asks
  <2> DEFINE x == [Active EXCEPT !.placeholder = TRUE]
             c == [tab |-> Active.id, kind |-> "image"]
  <2>1. /\ image' = "Loading" /\ fetching_images' = fetching_images \cup {Active.id}
        /\ network_cmds' = IF image = "Loading" THEN network_cmds ELSE Append(network_cmds, c)
        /\ tabs' = [tabs EXCEPT ![active_tab] = x]
    BY <1>1, <1>6 DEF Redraw, register_image_waiter
  <2>2. /\ x \in TabRecord /\ x.id = Active.id /\ x.viewport_size = Active.viewport_size
    BY <1>1 DEF TabRecord
  <2> HIDE DEF x
  <2>3. /\ tabs' \in Seq(TabRecord) /\ Len(tabs') = Len(tabs) /\ tabs'[active_tab] = x
        /\ \A j \in 1..Len(tabs) : j # active_tab => tabs'[j] = tabs[j]
    BY <1>1, <2>1, <2>2
  <2>4. /\ Good(m) /\ m.tabs = tabs /\ m.cmds = network_cmds /\ m.image = image
        /\ m.waiters = fetching_images /\ LoneAnswer(m, network_rx)
    BY <1>0 DEF Kept, Now
  <2>5. c \in Command /\ c.kind = "image" BY <1>1 DEF Command
  <2> HIDE DEF c
  <2>6. network_cmds' \in Seq(Command) BY <1>1, <2>1, <2>5
  <2>7. /\ n.tabs = tabs' /\ n.cmds = network_cmds' /\ n.image = "Loading"
        /\ n.waiters = fetching_images \cup {Active.id} /\ n \in Fields
    BY <1>1, <1>2, <2>1, <2>3, <2>6 DEF Now, Fields, Slots
  <2> HIDE DEF m, n
  <2>8. SameStrip(m, n) BY <1>1, <2>2, <2>3, <2>4, <2>7 DEF SameStrip, Places
  <2>9. Open(n.tabs) = Open(m.tabs) /\ Places(n) = Places(m) BY <2>8, SameOpen
  <2>10. \A i, j \in Places(n) : n.tabs[i].id = n.tabs[j].id => i = j
    BY <2>4, <2>8, <2>9 DEF Good, SameStrip
  <2>11. n.waiters \subseteq Open(n.tabs)
    <3>1. Active.id \in Open(tabs) BY <1>1 DEF Open
    <3> QED BY <2>4, <2>7, <2>9, <3>1 DEF Good
  <2>12. \A i \in Places(n) : n.tabs[i].placeholder => n.tabs[i].id \in n.waiters
    <3> SUFFICES ASSUME NEW i \in Places(m), n.tabs[i].placeholder
                 PROVE  n.tabs[i].id \in n.waiters
      BY <2>9
    <3>1. CASE i = active_tab BY <2>2, <2>3, <2>7, <3>1
    <3>2. CASE i # active_tab
      <4>1. n.tabs[i] = m.tabs[i] BY <2>3, <2>4, <2>7, <3>2 DEF Places
      <4>2. m.image # "Failed" BY <1>6, <2>4
      <4>3. m.tabs[i].id \in m.waiters BY <2>4, <4>1, <4>2 DEF Good
      <4> QED BY <2>4, <2>7, <4>1, <4>3
    <3> QED BY <3>1, <3>2
  <2>13. \A j, k \in Asked(n.cmds) : j = k
    <3>1. CASE image = "Loading" BY <2>1, <2>4, <2>7, <3>1 DEF Good
    <3>2. CASE image # "Loading"
      <4>1. Asked(network_cmds) = {} BY <2>4, <3>2 DEF Good
      <4>2. /\ n.cmds = Append(network_cmds, c) /\ Len(network_cmds) \in Nat
            /\ Len(n.cmds) = Len(network_cmds) + 1
        BY <1>1, <2>1, <2>7, <3>2
      <4>3. \A k \in 1..Len(network_cmds) : n.cmds[k] = network_cmds[k] BY <1>1, <4>2
      <4>4. \A k \in Asked(n.cmds) : k = Len(network_cmds) + 1
        BY <4>1, <4>2, <4>3 DEF Asked
      <4> QED BY <4>4
    <3> QED BY <3>1, <3>2
  <2>14. Good(n) BY <2>7, <2>10, <2>11, <2>12, <2>13 DEF Good
  <2>15. LoneAnswer(n, network_rx')
    <3>1. network_rx' = network_rx BY <1>2
    <3>2. image = "Loading" => n.cmds = m.cmds BY <2>1, <2>4, <2>7
    <3> QED BY <2>4, <2>7, <3>1, <3>2 DEF LoneAnswer
  <2>16. \A i \in 1..Len(tabs') : tabs'[i].id < next_tab_id'
    BY <1>0, <1>1, <1>2, <2>2, <2>3 DEF Kept
  <2>17. n = Now' BY DEF n
  <2>18. Kept'
    BY <1>0, <1>1, <1>2, <1>3, <2>3, <2>14, <2>15, <2>16, <2>17, KeptNext DEF Kept, GeometryNext
  <2>19. ResizeAhead'
    <3>1. Active'.viewport_size = Active.viewport_size BY <1>2, <2>2, <2>3 DEF Active
    <3> QED BY <1>0, <1>2, <3>1 DEF ResizeAhead, geometry
  <2> QED BY <1>4, <2>18, <2>19 DEF WindowIInv
<1> QED BY <1>5, <1>6

\* The clock brings every deadline nearer by the same tick.
LEMMA TickKeeps == ASSUME WindowIInv, Tick PROVE WindowIInv'
<1>0. Kept /\ TimersAhead /\ ResizeAhead BY DEF WindowIInv
<1>1. /\ tabs \in Seq(TabRecord) /\ network_cmds \in Seq(Command) /\ Len(tabs) \in Nat
      /\ logic_events \in [Ids -> Nat] /\ \A i \in 1..Len(tabs) : tabs[i] \in TabRecord
      /\ active_tab \in 1..Len(tabs)
  BY <1>0, KeptFields DEF Kept
<1> DEFINE q(i) == [k \in DOMAIN tabs[i].root_timer_queue |-> Sooner(tabs[i].root_timer_queue[k])]
           x(i) == [tabs[i] EXCEPT !.root_timer_queue = q(i)]
<1>2. /\ phase = "asleep" /\ phase' = phase /\ control_flow # 0
      /\ control_flow' = Sooner(control_flow)
      /\ tabs' = [i \in Indices |-> [tabs[i] EXCEPT
                    !.root_timer_queue = [k \in DOMAIN @ |-> Sooner(@[k])]]]
      /\ UNCHANGED <<scene, active_tab, next_tab_id, window_size, window_logical_size,
                     pending_resize, image, fetching_images, network_cmds, network_rx,
                     logic_events, logic_rx, steady>>
  BY DEF Tick, Asleep, pictures, workers
<1>3. tabs' = [i \in 1..Len(tabs) |-> x(i)] BY <1>1, <1>2 DEF Indices, TabRecord
<1>4. ASSUME NEW d \in Nat \cup {WNone}
      PROVE  /\ Sooner(d) \in Nat \cup {WNone} /\ (Sooner(d) = WNone <=> d = WNone)
             /\ d # WNone => d \in Nat /\ Sooner(d) = IF d = 0 THEN 0 ELSE d - 1
  <2>1. CASE d = WNone BY <2>1 DEF Sooner
  <2>2. CASE d # WNone
    <3>1. d \in Nat /\ d - 1 \in Int /\ 0 \in Int BY <2>2
    <3>2. Max({d - 1, 0}) \in {d - 1, 0} /\ Max({d - 1, 0}) >= d - 1 /\ Max({d - 1, 0}) >= 0
      BY <3>1, OfTwoInts
    <3>3. Sooner(d) = Max({d - 1, 0}) BY <2>2 DEF Sooner
    <3>4. Sooner(d) = IF d = 0 THEN 0 ELSE d - 1 BY <3>1, <3>2, <3>3
    <3>5. Sooner(d) \in Nat BY <3>1, <3>4
    <3>6. WNone \notin Nat BY WindowAssumption
    <3> QED BY <2>2, <3>1, <3>4, <3>5, <3>6
  <2> QED BY <2>1, <2>2
<1>5. ASSUME NEW i \in 1..Len(tabs)
      PROVE  /\ x(i) \in TabRecord /\ x(i).id = tabs[i].id /\ x(i).root_timer_queue = q(i)
             /\ x(i).placeholder = tabs[i].placeholder
             /\ x(i).viewport_size = tabs[i].viewport_size
  <2>1. /\ tabs[i] \in TabRecord
        /\ tabs[i].root_timer_queue \in [1..Len(scene.timers) -> Nat \cup {WNone}]
    BY <1>1 DEF TabRecord
  <2>2. q(i) \in [1..Len(scene.timers) -> Nat \cup {WNone}] BY <1>4, <2>1
  <2> HIDE DEF q
  <2> QED BY <2>1, <2>2 DEF TabRecord
<1> HIDE DEF x, q
<1>6. tabs' \in Seq(TabRecord) /\ Len(tabs') = Len(tabs) BY <1>1, <1>3, <1>5
<1>7. \A i \in 1..Len(tabs) : tabs'[i] = x(i) BY <1>3
<1>8. StripSame BY <1>5, <1>6, <1>7 DEF StripSame
<1>9. control_flow \in Nat \cup {WNone} BY <1>0 DEF Kept
<1>10. GeometryNext
  <2>1. control_flow' \in Nat \cup {WNone} BY <1>2, <1>4, <1>9
  <2> QED BY <1>0, <1>2, <2>1 DEF GeometryNext, Kept
<1>11. Kept' BY <1>0, <1>1, <1>2, <1>8, <1>10, StripKept DEF Kept
<1>12. TimersAhead'
  <2> SUFFICES ASSUME NEW i \in 1..Len(tabs), NEW d \in Deadlines(tabs'[i])
               PROVE  control_flow' # WNone /\ control_flow' <= d
    BY <1>6 DEF TimersAhead, Deadlines
  <2>1. tabs'[i].root_timer_queue = q(i) BY <1>5, <1>7
  <2>2. tabs[i].root_timer_queue \in [1..Len(scene.timers) -> Nat \cup {WNone}]
    BY <1>1 DEF TabRecord
  <2>3. PICK k \in 1..Len(scene.timers) : d = Sooner(tabs[i].root_timer_queue[k]) /\ d # WNone
    BY <2>1, <2>2 DEF Deadlines, q
  <2> DEFINE e == tabs[i].root_timer_queue[k]
  <2>4. e \in Nat \cup {WNone} BY <2>2
  <2>5. e # WNone BY <1>4, <2>3, <2>4
  <2>6. e \in Deadlines(tabs[i]) BY <2>2, <2>5 DEF Deadlines
  <2>7. control_flow # WNone /\ control_flow <= e BY <1>0, <1>2, <2>6 DEF TimersAhead
  <2>8. d = Sooner(e) BY <2>3
  <2> HIDE DEF e
  <2>9. e \in Nat /\ d = IF e = 0 THEN 0 ELSE e - 1 BY <1>4, <2>4, <2>5, <2>8
  <2>10. /\ control_flow \in Nat /\ control_flow' # WNone
         /\ control_flow' = IF control_flow = 0 THEN 0 ELSE control_flow - 1
    BY <1>2, <1>4, <1>9, <2>7
  <2> QED BY <2>7, <2>9, <2>10
<1>13. ResizeAhead'
  <2>1. Active'.viewport_size = Active.viewport_size BY <1>1, <1>2, <1>5, <1>7 DEF Active
  <2>2. control_flow \in 0..1 => control_flow' \in 0..1
    <3> SUFFICES ASSUME control_flow \in 0..1 PROVE control_flow' \in 0..1 OBVIOUS
    <3>1. control_flow \in Nat /\ WNone \notin Nat BY WindowAssumption
    <3>2. control_flow' = IF control_flow = 0 THEN 0 ELSE control_flow - 1
      BY <1>2, <1>4, <3>1
    <3> QED BY <3>2
  <2> QED BY <1>0, <1>2, <2>1, <2>2 DEF ResizeAhead
<1> QED BY <1>11, <1>12, <1>13 DEF WindowIInv

\* The loop wakes, ends or is left alone.
LEMMA IdleKeeps ==
  ASSUME WindowIInv,
         UNCHANGED <<scene, strip, geometry, pictures, workers, control_flow, steady>>,
         phase' \in {"awake", "exited"} \/ phase' = phase
  PROVE  WindowIInv'
<1>0. Kept /\ TimersAhead /\ ResizeAhead BY DEF WindowIInv
<1>1. UNCHANGED <<scene, tabs, active_tab, next_tab_id, window_size, window_logical_size,
                  pending_resize, image, fetching_images, network_cmds, network_rx, logic_events,
                  logic_rx, control_flow, steady>>
  BY DEF strip, geometry, pictures, workers
<1>2. StripSame BY <1>0, <1>1, NoTab
<1>3. GeometryNext BY <1>0, <1>1 DEF GeometryNext, Kept
<1>4. network_cmds \in Seq(Command) /\ logic_events \in [Ids -> Nat] BY <1>0, KeptFields
<1>5. Kept' BY <1>0, <1>1, <1>2, <1>3, <1>4, StripKept DEF Kept
<1>6. TimersAhead' BY <1>0, <1>1 DEF TimersAhead, Deadlines
<1>7. ResizeAhead' BY <1>0, <1>1 DEF ResizeAhead, Active
<1> QED BY <1>5, <1>6, <1>7 DEF WindowIInv

\* The logic worker answers.
LEMMA EventKeeps ==
  ASSUME WindowIInv, NEW id \in Ids, NEW kind \in scene.answers, AnswerEvent(id, kind)
  PROVE  WindowIInv'
<1>0. Kept /\ TimersAhead /\ ResizeAhead BY DEF WindowIInv
<1>1. /\ logic_events[id] > 0 /\ logic_events' = [logic_events EXCEPT ![id] = @ - 1]
      /\ logic_rx' = Append(logic_rx, [tab |-> id, kind |-> kind])
      /\ UNCHANGED <<scene, tabs, active_tab, next_tab_id, window_size, window_logical_size,
                     pending_resize, image, fetching_images, network_cmds, network_rx,
                     phase, control_flow, steady>>
  BY DEF AnswerEvent, strip, geometry, pictures, loop
<1>2. StripSame BY <1>0, <1>1, NoTab
<1>3. GeometryNext BY <1>0, <1>1 DEF GeometryNext, Kept
<1>4. network_cmds \in Seq(Command) /\ logic_events \in [Ids -> Nat] BY <1>0, KeptFields
<1>5. logic_events' \in [Ids -> Nat] BY <1>1, <1>4
<1>6. kind \in LogicKinds BY <1>0, SceneTimers DEF Kept, Scene
<1>7. [tab |-> id, kind |-> kind] \in Response BY <1>6 DEF Response
<1>8. logic_rx' \in Seq(Response) BY <1>0, <1>1, <1>7 DEF Kept
<1>9. Kept' BY <1>0, <1>1, <1>2, <1>3, <1>4, <1>5, <1>8, StripKept DEF Kept
<1>10. TimersAhead' BY <1>0, <1>1 DEF TimersAhead, Deadlines
<1>11. ResizeAhead' BY <1>0, <1>1 DEF ResizeAhead, Active
<1> QED BY <1>9, <1>10, <1>11 DEF WindowIInv

\* The network worker answers: the one answer about the image takes the place
\* of the one command for it.
LEMMA CommandKeeps ==
  ASSUME WindowIInv, NEW c \in DOMAIN network_cmds, NEW kind \in NetworkKinds,
         AnswerCommand(c, kind)
  PROVE  WindowIInv'
<1> DEFINE m == Now
           n == Now'
           res == [tab |-> network_cmds[c].tab, kind |-> kind]
<1>0. Kept /\ TimersAhead /\ ResizeAhead BY DEF WindowIInv
<1>1. /\ network_rx' = Append(network_rx, res) /\ network_cmds' = RemoveAt(network_cmds, c)
      /\ UNCHANGED <<scene, tabs, active_tab, next_tab_id, window_size, window_logical_size,
                     pending_resize, image, fetching_images, logic_events, logic_rx,
                     phase, control_flow, steady>>
  BY DEF AnswerCommand, strip, geometry, pictures, loop
<1>2. network_cmds \in Seq(Command) /\ c \in 1..Len(network_cmds) /\ Len(network_cmds) \in Nat
  BY <1>0, KeptFields
<1>3. network_cmds[c] \in Command BY <1>2
<1>4. res \in Answer BY <1>3 DEF Answer, Command
<1>5. kind \in Pictured <=> network_cmds[c].kind = "image"
  <2>1. network_cmds[c].kind \in {"nav", "fetch", "image"} BY <1>3 DEF Command
  <2>2. kind \in CASE network_cmds[c].kind = "nav" -> {"document", "redirect", "failed"}
                   [] network_cmds[c].kind = "fetch" -> {"data"}
                   [] network_cmds[c].kind = "image" -> {"image", "noimage"}
    BY DEF AnswerCommand
  <2>3. CASE network_cmds[c].kind = "nav" BY <2>2, <2>3 DEF Pictured
  <2>4. CASE network_cmds[c].kind = "fetch" BY <2>2, <2>4 DEF Pictured
  <2>5. CASE network_cmds[c].kind = "image" BY <2>2, <2>5 DEF Pictured
  <2> QED BY <2>1, <2>3, <2>4, <2>5
<1>6. /\ network_cmds' \in Seq(Command) /\ Len(network_cmds') = Len(network_cmds) - 1
      /\ \A k \in 1..(Len(network_cmds) - 1) :
           network_cmds'[k] = IF k < c THEN network_cmds[k] ELSE network_cmds[k + 1]
  BY <1>1, <1>2, Removed
<1>7. \A k \in Asked(network_cmds') : Before(c, k) \in Asked(network_cmds) /\ Before(c, k) # c
  BY <1>2, <1>6 DEF Asked, Before
<1>8. \A j, k \in Asked(network_cmds') : Before(c, j) = Before(c, k) => j = k
  BY <1>2, <1>6 DEF Asked, Before
<1>9. /\ Good(m) /\ m.cmds = network_cmds /\ m.image = image /\ LoneAnswer(m, network_rx)
      /\ m.tabs = tabs /\ m.waiters = fetching_images
  BY <1>0 DEF Kept, Now
<1>10. /\ n.cmds = network_cmds' /\ n.image = m.image /\ n.tabs = m.tabs
       /\ n.waiters = m.waiters /\ n \in Fields
  <2>1. m \in Fields BY <1>9 DEF Good
  <2> QED BY <1>1, <1>6, <2>1 DEF Now, Fields
<1> HIDE DEF m, n
<1>11. \A j, k \in Asked(n.cmds) : j = k BY <1>7, <1>8, <1>9, <1>10 DEF Good
<1>12. Asked(m.cmds) = {} => Asked(n.cmds) = {} BY <1>7, <1>9, <1>10
<1>13. Good(n) BY <1>9, <1>10, <1>11, <1>12 DEF Good, Places
<1>14. network_cmds[c].kind = "image" =>
         /\ image = "Loading" /\ Asked(n.cmds) = {}
         /\ \A j \in 1..Len(network_rx) : network_rx[j].kind \notin Pictured
  <2> SUFFICES ASSUME network_cmds[c].kind = "image"
               PROVE  /\ image = "Loading" /\ Asked(n.cmds) = {}
                      /\ \A j \in 1..Len(network_rx) : network_rx[j].kind \notin Pictured
    OBVIOUS
  <2>1. c \in Asked(m.cmds) BY <1>2, <1>9 DEF Asked
  <2>2. Asked(n.cmds) = {} BY <1>7, <1>9, <1>10, <2>1 DEF Good
  <2> QED BY <1>9, <2>1, <2>2 DEF Good, LoneAnswer
<1>15. network_rx \in Seq(Answer) BY <1>0 DEF Kept
<1>16. /\ network_rx' \in Seq(Answer) /\ Len(network_rx') = Len(network_rx) + 1
       /\ network_rx'[Len(network_rx) + 1].kind = kind /\ Len(network_rx) \in Nat
  <2>1. res.kind = kind OBVIOUS
  <2> HIDE DEF res
  <2> QED BY <1>1, <1>4, <1>15, <2>1
<1>17. \A j \in 1..Len(network_rx) : network_rx'[j] = network_rx[j] BY <1>1, <1>4, <1>15
<1>18. \A j \in 1..Len(network_rx') : j \in 1..Len(network_rx) \/ j = Len(network_rx) + 1
  BY <1>16
<1>19. LoneAnswer(n, network_rx')
  <2>1. ASSUME NEW j \in 1..Len(network_rx'), network_rx'[j].kind \in Pictured
        PROVE  /\ n.image = "Loading" /\ Asked(n.cmds) = {}
               /\ j \in 1..Len(network_rx) => kind \notin Pictured
    <3>1. CASE j \in 1..Len(network_rx)
      <4>1. network_rx[j].kind \in Pictured BY <1>17, <2>1, <3>1
      <4>2. m.image = "Loading" /\ Asked(m.cmds) = {} BY <1>9, <3>1, <4>1 DEF LoneAnswer
      <4>3. kind \notin Pictured BY <1>5, <1>14, <3>1, <4>1
      <4> QED BY <1>10, <1>12, <4>2, <4>3
    <3>2. CASE j = Len(network_rx) + 1
      <4>1. network_cmds[c].kind = "image" BY <1>5, <1>16, <2>1, <3>2
      <4>2. ~(j \in 1..Len(network_rx)) BY <1>16, <3>2
      <4> QED BY <1>9, <1>10, <1>14, <4>1, <4>2
    <3> QED BY <1>18, <3>1, <3>2
  <2>2. ASSUME NEW j \in 1..Len(network_rx'), network_rx'[j].kind \in Pictured,
               NEW k \in 1..Len(network_rx'), network_rx'[k].kind \in Pictured
        PROVE  j = k
    <3>1. CASE j \in 1..Len(network_rx) /\ k \in 1..Len(network_rx)
      BY <1>9, <1>17, <2>2, <3>1 DEF LoneAnswer
    <3>2. CASE j = Len(network_rx) + 1
      <4>1. kind \in Pictured BY <1>16, <2>2, <3>2
      <4> QED BY <1>18, <2>1, <2>2, <3>2, <4>1
    <3>3. CASE k = Len(network_rx) + 1
      <4>1. kind \in Pictured BY <1>16, <2>2, <3>3
      <4> QED BY <1>18, <2>1, <2>2, <3>3, <4>1
    <3> QED BY <1>18, <3>1, <3>2, <3>3
  <2> QED BY <2>1, <2>2 DEF LoneAnswer
<1>20. n = Now' BY DEF n
<1>21. Kept' BY <1>0, <1>1, <1>13, <1>16, <1>19, <1>20, KeptNext DEF Kept
<1>22. TimersAhead' BY <1>0, <1>1 DEF TimersAhead, Deadlines
<1>23. ResizeAhead' BY <1>0, <1>1 DEF ResizeAhead, Active
<1> QED BY <1>21, <1>22, <1>23 DEF WindowIInv

\* The pass before the loop sleeps.
LEMMA WaitKeeps ==
  ASSUME WindowIInv, NEW resized \in BOOLEAN, NEW inspector \in InspectorTicks,
         AboutToWait(resized, inspector)
  PROVE  WindowIInv' /\ Len(tabs') = Len(tabs)
<1> DEFINE m0 == Now
           a == DrainNetwork(m0)
           b == DrainLogic(a)
           m1 == RecomputeDirty(b, resized)
           late == pending_resize # WNone /\ ~recent_layout
           m2 == IF late
                 THEN [m1 EXCEPT !.tabs[active_tab] =
                                    Relayout(Relayout(@, pending_resize), window_size)]
                 ELSE m1
           m3 == FireTimers(m2)
           wakeups == NextWakeups(m2, m3) \cup inspector
<1>0. Kept /\ ResizeAhead BY DEF WindowIInv
<1>1. /\ tabs' = m3.tabs /\ network_cmds' = m3.cmds /\ logic_events' = m3.events
      /\ image' = m3.image /\ fetching_images' = m3.waiters
      /\ pending_resize' = IF late THEN WNone ELSE pending_resize
      /\ control_flow' = IF wakeups = {} THEN WNone ELSE Min(wakeups)
      /\ network_rx' = <<>> /\ logic_rx' = <<>> /\ phase' = "asleep"
      /\ UNCHANGED <<scene, active_tab, next_tab_id, window_size, window_logical_size, steady>>
  BY DEF AboutToWait, Now
<1>2. /\ scene \in Scenes /\ window_size \in Sizes \cup {Zero}
      /\ Good(m0) /\ active_tab \in Places(m0) /\ LoneAnswer(m0, network_rx)
      /\ network_rx \in Seq(Answer) /\ logic_rx \in Seq(Response)
  BY <1>0 DEF Kept, Now, Places
<1>3. m0.tabs = tabs BY DEF Now
<1> HIDE DEF m0
<1>4. Follows(m0, a)
  <2>1. network_rx \in Seq(Answer \cup Response) BY <1>2
  <2>2. Follows(m0, Drain(m0, network_rx)) BY <1>2, <2>1, DrainFollows
  <2> QED BY <2>2 DEF DrainNetwork
<1>5. Good(a) /\ active_tab \in Places(a) BY <1>2, <1>4, SameOpen DEF Follows
<1> HIDE DEF a
<1>6. Follows(a, b)
  <2>1. logic_rx \in Seq(Answer \cup Response) BY <1>2
  <2>2. \A j \in 1..Len(logic_rx) : logic_rx[j].kind \in LogicKinds
    <3>1. \A j \in 1..Len(logic_rx) : logic_rx[j] \in Response BY <1>2
    <3> QED BY <3>1 DEF Response
  <2>3. LogicKinds \cap Pictured = {} BY DEF LogicKinds, Pictured
  <2>4. LoneAnswer(a, logic_rx) BY <2>2, <2>3 DEF LoneAnswer
  <2>5. Follows(a, Drain(a, logic_rx)) BY <1>2, <1>5, <2>1, <2>4, DrainFollows
  <2> QED BY <2>5 DEF DrainLogic
<1>7. Good(b) /\ active_tab \in Places(b) BY <1>5, <1>6, SameOpen DEF Follows
<1> HIDE DEF b
<1>8. Follows(b, m1) BY <1>2, <1>7, RecomputeFollows
<1>9. Good(m1) /\ active_tab \in Places(m1) BY <1>7, <1>8, SameOpen DEF Follows
<1> HIDE DEF m1
<1>10. Follows(m0, m1)
  <2>1. Follows(m0, b) BY <1>2, <1>4, <1>6, FollowsOn
  <2> QED BY <1>2, <1>8, <2>1, FollowsOn
<1>11. /\ Good(m2) /\ SameStrip(m1, m2)
       /\ late /\ window_size # Zero => m2.tabs[active_tab].viewport_size = window_size
       /\ ~late => m2 = m1
  <2>1. CASE ~late BY <1>9, <2>1 DEF SameStrip
  <2>2. CASE late
    <3>1. pending_resize \in Sizes BY <1>0, <2>2 DEF Kept
    <3>2. m2 = Put(m1, active_tab,
                   Relayout(Relayout(m1.tabs[active_tab], pending_resize), window_size))
      BY <2>2 DEF Put
    <3> HIDE DEF m2
    <3>3. /\ Good(m2) /\ SameStrip(m1, m2)
          /\ window_size # Zero => m2.tabs[active_tab].viewport_size = window_size
      BY <1>2, <1>9, <3>1, <3>2, LateResize
    <3> QED BY <2>2, <3>3
  <2> QED BY <2>1, <2>2
<1> HIDE DEF m2
<1>12. active_tab \in Places(m2) BY <1>9, <1>11, SameOpen
<1>13. /\ Good(m3) /\ SameStrip(m2, m3)
       /\ \A i \in Places(m2) : m3.tabs[i].viewport_size = m2.tabs[i].viewport_size
  BY <1>2, <1>11, FireGood
<1> HIDE DEF m3
<1>14. SameStrip(m0, m3)
  <2>1. SameStrip(m0, m1) BY <1>10 DEF Follows
  <2> QED BY <1>11, <1>13, <2>1 DEF SameStrip, Places
<1>15. Places(m3) = Places(m0) BY <1>14, SameOpen
<1>16. /\ NextWakeups(m2, m3) \subseteq Nat
       /\ \A i \in Places(m3) : Deadlines(m3.tabs[i]) \subseteq NextWakeups(m2, m3)
       /\ PendingResizeDeadline \subseteq NextWakeups(m2, m3)
  BY <1>11, <1>12, <1>13, WakeupsCover
<1>17. wakeups \subseteq Nat
  <2>1. inspector \subseteq Nat BY DEF InspectorTicks
  <2> QED BY <1>16, <2>1
<1>18. \A d \in NextWakeups(m2, m3) : d \in wakeups OBVIOUS
<1> HIDE DEF wakeups
<1>19. /\ control_flow' \in Nat \cup {WNone}
       /\ \A d \in wakeups : control_flow' \in Nat /\ control_flow' <= d
  BY <1>1, <1>17, FirstOf
<1>20. WNone \notin Nat BY WindowAssumption
<1>21. TimersAhead'
  <2> SUFFICES ASSUME NEW i \in 1..Len(tabs'), NEW d \in Deadlines(tabs'[i])
               PROVE  control_flow' # WNone /\ control_flow' <= d
    BY DEF TimersAhead, Deadlines
  <2>1. i \in Places(m3) /\ d \in Deadlines(m3.tabs[i]) BY <1>1 DEF Places
  <2> QED BY <1>16, <1>18, <1>19, <1>20, <2>1
<1>22. Kept'
  <2> DEFINE n == Now'
  <2>1. n = m3
    <3>1. m3 \in Fields BY <1>13 DEF Good
    <3> QED BY <1>1, <3>1 DEF Now, Fields
  <2> HIDE DEF n
  <2>2. Good(n) /\ n = Now' BY <1>13, <2>1 DEF n
  <2>3. LoneAnswer(n, network_rx') BY <1>1 DEF LoneAnswer
  <2>4. network_rx' \in Seq(Answer) /\ logic_rx' \in Seq(Response) BY <1>1
  <2>5. active_tab' \in 1..Len(tabs') BY <1>1, <1>2, <1>15 DEF Places
  <2>6. next_tab_id' \in Nat /\ \A i \in 1..Len(tabs') : tabs'[i].id < next_tab_id'
    BY <1>0, <1>1, <1>3, <1>14, <1>15 DEF SameStrip, Places, Kept
  <2>7. pending_resize' \in Sizes \cup {WNone} BY <1>0, <1>1 DEF Kept
  <2>8. window_logical_size' \in Sizes BY <1>0, <1>1 DEF Kept
  <2> QED BY <1>1, <1>2, <1>19, <2>2, <2>3, <2>4, <2>5, <2>6, <2>7, <2>8, KeptNext
<1>23. ResizeAhead'
  <2> SUFFICES ASSUME steady, window_size # Zero
               PROVE  \/ Active'.viewport_size = window_size
                      \/ pending_resize' = window_size /\ control_flow' \in 0..1
    BY <1>1 DEF ResizeAhead
  <2>1. Active' = m3.tabs[active_tab] BY <1>1 DEF Active
  <2>2. Active'.viewport_size = m2.tabs[active_tab].viewport_size BY <1>12, <1>13, <2>1
  <2>3. CASE late BY <1>11, <2>2, <2>3
  <2>4. CASE ~late
    <3>1. Active'.viewport_size \in {Active.viewport_size, window_size}
      BY <1>3, <1>10, <1>11, <2>2, <2>4 DEF Follows, Active
    <3>2. Active.viewport_size = window_size \/ pending_resize = window_size
      BY <1>0 DEF ResizeAhead
    <3>3. ASSUME pending_resize = window_size
          PROVE  pending_resize' = window_size /\ control_flow' \in 0..1
      <4>1. pending_resize # WNone BY <1>2, <3>3, WindowAssumption DEF Sizes
      <4>2. 1 \in PendingResizeDeadline BY <2>4, <4>1 DEF PendingResizeDeadline
      <4>3. control_flow' \in Nat /\ control_flow' <= 1 BY <1>16, <1>18, <1>19, <4>2
      <4> QED BY <1>1, <2>4, <3>3, <4>3
    <3> QED BY <3>1, <3>2, <3>3
  <2> QED BY <2>3, <2>4
<1>24. Len(tabs') = Len(tabs) BY <1>1, <1>3, <1>14 DEF SameStrip
<1> QED BY <1>21, <1>22, <1>23, <1>24 DEF WindowIInv

\* Every step keeps the inductive invariant.
LEMMA WindowStep == WindowIInv /\ [WindowNext]_wvars => WindowIInv'
<1> SUFFICES ASSUME WindowIInv, [WindowNext]_wvars PROVE WindowIInv' OBVIOUS
<1>1. ASSUME NEW size \in scene.sizes \cup (IF scene.minimise THEN {Zero} ELSE {}), Resized(size)
      PROVE  WindowIInv'
  BY <1>1, ResizedKeeps
<1>2. CASE ThemeChanged BY <1>2, ThemeKeeps
<1>3. CASE open_tab BY <1>3, OpenKeeps
<1>4. ASSUME NEW pos \in Indices, close_tab(pos) \/ switch_to_tab(pos) PROVE WindowIInv'
  BY <1>4, CloseKeeps, SwitchKeeps
<1>5. CASE ToggleInspector BY <1>5, InspectorKeeps
<1>6. ASSUME NEW target \in scene.targets, Navigate(target) PROVE WindowIInv'
  BY <1>6, NavigateKeeps
<1>7. CASE Click BY <1>7, ClickKeeps
<1>8. CASE Type BY <1>8, TypeKeeps
<1>9. CASE CloseRequested BY <1>9, IdleKeeps DEF CloseRequested
<1>10. CASE Redraw BY <1>10, RedrawKeeps
<1>11. ASSUME NEW resized \in BOOLEAN, NEW inspector \in InspectorTicks,
              AboutToWait(resized, inspector)
       PROVE  WindowIInv'
  BY <1>11, WaitKeeps
<1>12. CASE Tick BY <1>12, TickKeeps
<1>13. CASE Wake BY <1>13, IdleKeeps DEF Wake
<1>14. ASSUME NEW c \in DOMAIN network_cmds, NEW kind \in NetworkKinds, AnswerCommand(c, kind)
       PROVE  WindowIInv'
  BY <1>14, CommandKeeps
<1>15. ASSUME NEW id \in Ids, NEW kind \in scene.answers, AnswerEvent(id, kind)
       PROVE  WindowIInv'
  BY <1>15, EventKeeps
<1>16. CASE UNCHANGED wvars BY <1>16, IdleKeeps DEF wvars, loop
<1> QED
  BY <1>1, <1>2, <1>3, <1>4, <1>5, <1>6, <1>7, <1>8, <1>9, <1>10, <1>11, <1>12, <1>13, <1>14,
     <1>15, <1>16 DEF WindowNext

\* The inductive invariant always holds.
LEMMA WindowAlways == WindowSpec => []WindowIInv
<1> QED BY WindowStart, WindowStep, PTL DEF WindowSpec

\* The event loop, for any documents, number of tabs and limits: it sleeps only
\* in good states, never past a timer of any tab, and never on a resize that the
\* throttle put off (dispatch_about_to_wait, schedule_next_wakeup).
THEOREM LoopNeverOversleeps == WindowSpec => []WindowInv
BY WindowAlways, InvSafe, PTL

\* Whichever tab asked for a shared image and whichever tabs were opened and
\* closed while it was on its way, no tab is left with a placeholder once it
\* has come (register_image_waiter, notify_image_waiters).
THEOREM WaitersServed == WindowSpec => []PlaceholdersReplaced
BY WindowAlways, InvSafe, PTL

\* Only a close makes the strip shorter.
LEMMA StripShrinks ==
  ASSUME WindowIInv, WindowNext, Len(tabs') = Len(tabs) - 1
  PROVE  \E pos \in Indices : close_tab(pos)
<1>0. Kept BY DEF WindowIInv
<1>1. tabs \in Seq(TabRecord) /\ Len(tabs) \in Nat BY <1>0, KeptFields
<1>2. Len(tabs') # Len(tabs) BY <1>1
<1>3. \A x, i : tabs' = [tabs EXCEPT ![i] = x] => Len(tabs') = Len(tabs) BY <1>1
<1>4. \A size : resize_viewport(size) => Len(tabs') = Len(tabs)
  BY <1>1 DEF resize_viewport, Indices
<1>5. tabs' # tabs BY <1>2
<1>6. ASSUME NEW size, Resized(size) PROVE FALSE BY <1>2, <1>4, <1>5, <1>6 DEF Resized
<1>7. ASSUME ThemeChanged PROVE FALSE BY <1>2, <1>4, <1>7 DEF ThemeChanged
<1>8. ASSUME open_tab PROVE FALSE
  <2>1. Len(tabs') = Len(tabs) + 1 BY <1>1, <1>8 DEF open_tab
  <2> QED BY <1>1, <2>1
<1>9. ASSUME NEW pos, switch_to_tab(pos) PROVE FALSE BY <1>2, <1>3, <1>9 DEF switch_to_tab
<1>10. ASSUME ToggleInspector PROVE FALSE BY <1>2, <1>3, <1>10 DEF ToggleInspector
<1>11. ASSUME NEW target, Navigate(target) PROVE FALSE BY <1>2, <1>3, <1>11 DEF Navigate
<1>12. ASSUME Click \/ CloseRequested \/ Wake PROVE FALSE
  BY <1>5, <1>12 DEF Click, CloseRequested, Wake, strip
<1>13. ASSUME Type PROVE FALSE BY <1>1, <1>2, <1>13 DEF Type
<1>14. ASSUME Redraw PROVE FALSE BY <1>1, <1>2, <1>5, <1>14 DEF Redraw
<1>15. ASSUME NEW resized \in BOOLEAN, NEW inspector \in InspectorTicks,
              AboutToWait(resized, inspector)
       PROVE  FALSE
  BY <1>2, <1>15, WaitKeeps
<1>16. ASSUME Tick PROVE FALSE BY <1>1, <1>2, <1>16 DEF Tick, Indices
<1>17. ASSUME NEW c, NEW kind, AnswerCommand(c, kind) \/ AnswerEvent(c, kind) PROVE FALSE
  BY <1>5, <1>17 DEF AnswerCommand, AnswerEvent, strip
<1> QED
  BY <1>6, <1>7, <1>8, <1>9, <1>10, <1>11, <1>12, <1>13, <1>14, <1>15, <1>16, <1>17
  DEF WindowNext

FocusStep ==
  \A pos \in Indices :
    Len(tabs') = Len(tabs) - 1 /\ tabs[pos].id \notin Open(tabs') =>
      IF pos # active_tab THEN tabs'[active_tab'].id = Active.id
      ELSE tabs'[active_tab'].id = tabs[IF pos = Len(tabs) THEN pos - 1 ELSE pos + 1].id

\* A close shows the right tab.
LEMMA FocusMoves == ASSUME WindowIInv, WindowNext PROVE FocusStep
<1> SUFFICES ASSUME NEW gone \in Indices, Len(tabs') = Len(tabs) - 1,
                    tabs[gone].id \notin Open(tabs')
             PROVE  IF gone # active_tab THEN tabs'[active_tab'].id = Active.id
                    ELSE tabs'[active_tab'].id =
                           tabs[IF gone = Len(tabs) THEN gone - 1 ELSE gone + 1].id
  BY DEF FocusStep
<1>0. Kept /\ Kept' BY WindowStep DEF WindowIInv
<1>1. PICK pos \in Indices : close_tab(pos) BY StripShrinks
<1>2. /\ tabs \in Seq(TabRecord) /\ Len(tabs) \in Nat
      /\ pos \in 1..Len(tabs) /\ gone \in 1..Len(tabs) /\ active_tab \in 1..Len(tabs)
      /\ active_tab' \in 1..Len(tabs')
  BY <1>0, KeptFields DEF Indices, Kept
<1>3. Len(tabs) # 1
  <2>1. Len(tabs) = 1 => tabs' = tabs BY <1>1 DEF close_tab, strip
  <2> QED BY <1>2, <2>1
<1>4. tabs' = RemoveAt(tabs, pos) /\ active_tab' = IndexAfterClose(pos, Len(tabs) - 1)
  BY <1>1, <1>3 DEF close_tab
<1>5. /\ \A k \in 1..Len(tabs') : tabs'[k] = tabs[Before(pos, k)]
      /\ \A i \in 1..Len(tabs) : i # pos => \E k \in 1..Len(tabs') : Before(pos, k) = i
  BY <1>2, <1>4, ClosedStrip
<1>6. gone = pos
  <2> SUFFICES ASSUME gone # pos PROVE FALSE OBVIOUS
  <2>1. PICK k \in 1..Len(tabs') : Before(pos, k) = gone BY <1>2, <1>5
  <2>2. tabs'[k].id = tabs[gone].id BY <1>5, <2>1
  <2> QED BY <2>2 DEF Open
<1>7. tabs'[active_tab'] = tabs[Before(pos, active_tab')] BY <1>2, <1>5
<1>8. CASE gone # active_tab
  <2>1. Before(pos, active_tab') = active_tab
    BY <1>2, <1>3, <1>4, <1>6, <1>8 DEF IndexAfterClose, Before
  <2> QED BY <1>7, <1>8, <2>1 DEF Active
<1>9. CASE gone = active_tab
  <2>1. Before(pos, active_tab') = IF gone = Len(tabs) THEN gone - 1 ELSE gone + 1
    BY <1>2, <1>3, <1>4, <1>6, <1>9 DEF IndexAfterClose, Before
  <2> QED BY <1>7, <1>9, <2>1
<1> QED BY <1>8, <1>9

\* However many tabs are open: closing a hidden tab leaves the same tab on
\* screen, closing the one shown brings up the one on its right, or the last one
\* (close_tab).
THEOREM FocusFollows == WindowSpec => FocusMovesAsShown
<1>1. WindowIInv /\ [WindowNext]_wvars => [FocusStep]_wvars BY FocusMoves
<1> QED BY <1>1, WindowAlways, PTL DEF WindowSpec, FocusMovesAsShown, FocusStep

-----------------------------------------------------------------------------
(* The address bar *)

Text == Seq(BarChars)

-----------------------------------------------------------------------------
(* Offsets *)

Width(s) == [i \in 1..Len(s) |-> WidthOf[s[i]]]

\* An offset is a sum over an initial part of the text.
LEMMA OffsetIsSum ==
  ASSUME NEW s \in Text, NEW k \in 0..Len(s)
  PROVE  Offset(s, k) = SumFunctionOnSet(Width(s), 1..k)
<1> DEFINE W == [i \in 1..k |-> WidthOf[s[i]]]
<1>1. Offset(s, k) = SumFunctionOnSet(W, 1..k) BY DEF Offset, SumFunction
<1>2. Len(s) \in Nat BY DEF Text
<1>3. IsFiniteSet(1..k) BY FS_Interval
<1>4. \A i \in 1..k : W[i] = Width(s)[i] BY <1>2 DEF Width
<1> HIDE DEF W
<1>5. SumFunctionOnSet(W, 1..k) = SumFunctionOnSet(Width(s), 1..k) BY <1>3, <1>4, SumAgree
<1> QED BY <1>1, <1>5

\* Widths are positive.
LEMMA WidthPositive ==
  ASSUME NEW s \in Text, NEW i \in 1..Len(s)
  PROVE  Width(s)[i] = WidthOf[s[i]] /\ WidthOf[s[i]] \in Nat /\ WidthOf[s[i]] > 0
<1>1. s[i] \in BarChars BY DEF Text
<1>2. WidthOf[s[i]] \in 1..4 BY <1>1, BarAssumption
<1> QED BY <1>2 DEF Width

\* Offsets start at 0 and grow by the width of the character passed.
LEMMA OffsetStep ==
  ASSUME NEW s \in Text
  PROVE  /\ Len(s) \in Nat
         /\ Offset(s, 0) = 0
         /\ \A k \in 0..Len(s) : Offset(s, k) \in Nat
         /\ \A k \in 1..Len(s) : Offset(s, k) = Offset(s, k - 1) + WidthOf[s[k]]
<1>0. Len(s) \in Nat BY DEF Text
<1>1. Offset(s, 0) = 0
  <2>1. 1..0 = {} OBVIOUS
  <2>2. Offset(s, 0) = SumFunctionOnSet(Width(s), 1..0) BY <1>0, OffsetIsSum
  <2> QED BY <2>1, <2>2, SumEmpty
<1>2. ASSUME NEW k \in 0..Len(s) PROVE Offset(s, k) \in Nat
  <2>1. IsFiniteSet(1..k) BY <1>0, FS_Interval
  <2>2. \A i \in 1..k : Width(s)[i] \in Nat BY <1>0, WidthPositive
  <2>3. SumFunctionOnSet(Width(s), 1..k) \in Nat BY <2>1, <2>2, SumType
  <2> QED BY <2>3, OffsetIsSum
<1>3. ASSUME NEW k \in 1..Len(s) PROVE Offset(s, k) = Offset(s, k - 1) + WidthOf[s[k]]
  <2>1. IsFiniteSet(1..k) BY <1>0, FS_Interval
  <2>2. \A i \in 1..k : Width(s)[i] \in Nat BY <1>0, WidthPositive
  <2>3. (1..k) \ {k} = 1..(k - 1) /\ k \in 1..k BY <1>0
  <2>4. SumFunctionOnSet(Width(s), 1..k) = Width(s)[k] + SumFunctionOnSet(Width(s), (1..k) \ {k})
    BY <2>1, <2>2, <2>3, SumRemove
  <2>5. k \in 0..Len(s) /\ k - 1 \in 0..Len(s) BY <1>0
  <2>6. Offset(s, k) = SumFunctionOnSet(Width(s), 1..k) BY <2>5, OffsetIsSum
  <2>7. Offset(s, k - 1) = SumFunctionOnSet(Width(s), 1..(k - 1)) BY <2>5, OffsetIsSum
  <2>8. Offset(s, k) = WidthOf[s[k]] + Offset(s, k - 1) BY <2>3, <2>4, <2>6, <2>7, WidthPositive
  <2>9. WidthOf[s[k]] \in Nat /\ Offset(s, k - 1) \in Nat BY <1>2, <2>5, WidthPositive
  <2> QED BY <2>8, <2>9
<1> QED BY <1>0, <1>1, <1>2, <1>3

\* A later character starts later.
LEMMA OffsetGrows ==
  ASSUME NEW s \in Text, NEW j \in 0..Len(s), NEW k \in 0..Len(s), j < k
  PROVE  Offset(s, j) < Offset(s, k)
<1> DEFINE T == {n \in Nat : j < n /\ n <= Len(s) /\ ~(Offset(s, j) < Offset(s, n))}
<1>1. Len(s) \in Nat BY OffsetStep
<1>2. T = {}
  <2> SUFFICES ASSUME T # {} PROVE FALSE OBVIOUS
  <2>0. T \in SUBSET Nat OBVIOUS
  <2> HIDE DEF T
  <2>1. PICK n \in T : \A m \in T : n <= m BY <2>0, LeastNat
  <2> USE DEF T
  <2>2. n \in Nat /\ j < n /\ n <= Len(s) /\ ~(Offset(s, j) < Offset(s, n)) OBVIOUS
  <2>3. n \in 1..Len(s) /\ n - 1 \in 0..Len(s) /\ n - 1 \in Nat BY <1>1, <2>2
  <2>4. Offset(s, n) = Offset(s, n - 1) + WidthOf[s[n]] BY <2>3, OffsetStep
  <2>5. WidthOf[s[n]] \in Nat /\ WidthOf[s[n]] > 0 BY <2>3, WidthPositive
  <2>6. Offset(s, n - 1) \in Nat /\ Offset(s, j) \in Nat /\ Offset(s, n) \in Nat
    <3>1. n \in 0..Len(s) BY <2>3
    <3> QED BY <2>3, <3>1, OffsetStep
  <2>7. n - 1 \in T => n <= n - 1 BY <2>1
  <2>8. n - 1 \notin T BY <2>2, <2>3, <2>7
  <2>9. j = n - 1 \/ j < n - 1 BY <2>2, <2>3
  <2>10. Offset(s, j) <= Offset(s, n - 1)
    <3>1. CASE j = n - 1 BY <3>1, <2>6
    <3>2. CASE j < n - 1
      <4>1. Offset(s, j) < Offset(s, n - 1) BY <3>2, <2>2, <2>3, <2>8, <1>1
      <4> QED BY <4>1, <2>6
    <3> QED BY <2>9, <3>1, <3>2
  <2> HIDE DEF T
  <2> QED BY <2>2, <2>4, <2>5, <2>6, <2>10
<1> QED BY <1>1, <1>2

\* An offset only depends on the characters before it.
LEMMA OffsetAgrees ==
  ASSUME NEW s, NEW t, NEW k, \A i \in 1..k : s[i] = t[i]
  PROVE  Offset(s, k) = Offset(t, k)
<1>1. [i \in 1..k |-> WidthOf[s[i]]] = [i \in 1..k |-> WidthOf[t[i]]] OBVIOUS
<1> QED BY <1>1 DEF Offset

\* Only the widths of those characters count.
LEMMA SameWidths ==
  ASSUME NEW s, NEW t, NEW k, \A i \in 1..k : WidthOf[s[i]] = WidthOf[t[i]]
  PROVE  Offset(s, k) = Offset(t, k)
<1>1. [i \in 1..k |-> WidthOf[s[i]]] = [i \in 1..k |-> WidthOf[t[i]]] OBVIOUS
<1> QED BY <1>1 DEF Offset

\* A text and a text make a text.
LEMMA ConcatTexts ==
  ASSUME NEW a \in Text, NEW b \in Text
  PROVE  /\ a \o b \in Text /\ Len(a \o b) = Len(a) + Len(b)
         /\ \A i \in 1..(Len(a) + Len(b)) : (a \o b)[i] = IF i <= Len(a) THEN a[i] ELSE b[i - Len(a)]
BY ConcatProperties DEF Text

\* Offsets into a concatenation.
LEMMA OffsetConcat ==
  ASSUME NEW a \in Text, NEW b \in Text
  PROVE  /\ a \o b \in Text
         /\ \A k \in 0..Len(a) : Offset(a \o b, k) = Offset(a, k)
         /\ \A k \in 0..Len(b) : Offset(a \o b, Len(a) + k) = Bytes(a) + Offset(b, k)
<1> DEFINE c == a \o b
           T == {n \in Nat : n <= Len(b) /\ Offset(c, Len(a) + n) # Bytes(a) + Offset(b, n)}
<1>1. c \in Text /\ Len(c) = Len(a) + Len(b) /\ Len(a) \in Nat /\ Len(b) \in Nat BY DEF Text
<1>2. \A i \in 1..Len(a) : c[i] = a[i] BY DEF Text
<1>3. \A i \in 1..Len(b) : c[Len(a) + i] = b[i] BY DEF Text
<1> HIDE DEF c
<1>4. ASSUME NEW k \in 0..Len(a) PROVE Offset(c, k) = Offset(a, k)
  <2>1. \A i \in 1..k : c[i] = a[i] BY <1>1, <1>2
  <2> QED BY <2>1, OffsetAgrees
<1>5. T = {}
  <2> SUFFICES ASSUME T # {} PROVE FALSE OBVIOUS
  <2>0. T \in SUBSET Nat OBVIOUS
  <2> HIDE DEF T
  <2>1. PICK n \in T : \A m \in T : n <= m BY <2>0, LeastNat
  <2> USE DEF T
  <2>2. n \in Nat /\ n <= Len(b) /\ Offset(c, Len(a) + n) # Bytes(a) + Offset(b, n) OBVIOUS
  <2>3. n # 0
    <3>1. Offset(b, 0) = 0 BY OffsetStep
    <3>2. Len(a) \in 0..Len(a) /\ Len(a) + 0 = Len(a) BY <1>1
    <3>3. Offset(c, Len(a)) = Bytes(a) BY <1>4, <3>2 DEF Bytes
    <3>4. Bytes(a) \in Nat BY <3>2, OffsetStep DEF Bytes
    <3>5. Bytes(a) + 0 = Bytes(a) BY <3>4
    <3> HIDE DEF T
    <3> QED BY <2>2, <3>1, <3>2, <3>3, <3>5
  <2>4. n \in 1..Len(b) /\ n - 1 \in Nat /\ n - 1 <= Len(b) BY <1>1, <2>2, <2>3
  <2>5. n - 1 \in T => n <= n - 1 BY <2>1
  <2>6. n - 1 \notin T BY <2>2, <2>5
  <2>7. Offset(c, Len(a) + (n - 1)) = Bytes(a) + Offset(b, n - 1) BY <2>4, <2>6
  <2> HIDE DEF T
  <2>8. Len(a) + n \in 1..Len(c) /\ (Len(a) + n) - 1 = Len(a) + (n - 1) BY <1>1, <2>4
  <2>9. Offset(c, Len(a) + n) = Offset(c, (Len(a) + n) - 1) + WidthOf[c[Len(a) + n]]
    BY <1>1, <2>8, OffsetStep
  <2>10. Offset(b, n) = Offset(b, n - 1) + WidthOf[b[n]] BY <2>4, OffsetStep
  <2>11. Offset(b, n - 1) \in Nat /\ WidthOf[b[n]] \in Nat /\ Bytes(a) \in Nat
    <3>1. n - 1 \in 0..Len(b) /\ Len(a) \in 0..Len(a) BY <1>1, <2>4
    <3> QED BY <2>4, <3>1, OffsetStep, WidthPositive DEF Bytes
  <2>12. c[Len(a) + n] = b[n] BY <1>3, <2>4
  <2>13. Offset(c, Len(a) + n) = (Bytes(a) + Offset(b, n - 1)) + WidthOf[b[n]]
    BY <2>7, <2>8, <2>9, <2>12
  <2> QED BY <2>2, <2>10, <2>11, <2>13
<1>6. \A k \in 0..Len(b) : Offset(c, Len(a) + k) = Bytes(a) + Offset(b, k) BY <1>1, <1>5
<1> QED BY <1>1, <1>4, <1>6 DEF c

-----------------------------------------------------------------------------
(* Boundaries *)

\* A boundary lies inside the text, and counts the characters before it.
LEMMA BoundaryIsCount ==
  ASSUME NEW s \in Text, NEW k \in 0..Len(s)
  PROVE  /\ Offset(s, k) \in Boundaries(s) /\ Offset(s, k) \in Nat
         /\ CharsBefore(s, Offset(s, k)) = k
         /\ Offset(s, k) <= Bytes(s)
<1> DEFINE C == {i \in 1..Len(s) : Offset(s, i - 1) < Offset(s, k)}
<1>1. Len(s) \in Nat /\ k \in Nat /\ k <= Len(s) BY OffsetStep
<1>2. \A i \in 0..Len(s) : Offset(s, i) \in Nat BY OffsetStep
<1>3. C = 1..k
  <2>1. ASSUME NEW i \in 1..Len(s), i <= k PROVE Offset(s, i - 1) < Offset(s, k)
    <3>1. i - 1 \in 0..Len(s) /\ i - 1 < k BY <1>1, <2>1
    <3> QED BY <3>1, OffsetGrows
  <2>2. ASSUME NEW i \in 1..Len(s), k < i PROVE ~(Offset(s, i - 1) < Offset(s, k))
    <3>1. i - 1 \in 0..Len(s) /\ (k = i - 1 \/ k < i - 1) BY <1>1, <2>2
    <3>2. Offset(s, k) \in Nat /\ Offset(s, i - 1) \in Nat BY <1>2, <3>1
    <3>3. k < i - 1 => Offset(s, k) < Offset(s, i - 1) BY <3>1, OffsetGrows
    <3> QED BY <3>1, <3>2, <3>3
  <2>3. ASSUME NEW i \in C PROVE i \in 1..k BY <1>1, <2>2
  <2>4. ASSUME NEW i \in 1..k PROVE i \in C
    <3>1. i \in 1..Len(s) /\ i <= k BY <1>1
    <3> QED BY <2>1, <3>1
  <2> QED BY <2>3, <2>4
<1>4. Cardinality(1..k) = k
  <2>1. Cardinality(1..k) = IF 1 > k THEN 0 ELSE (k - 1) + 1 BY <1>1, FS_Interval
  <2> QED BY <1>1, <2>1
<1>5. CharsBefore(s, Offset(s, k)) = k BY <1>3, <1>4 DEF CharsBefore
<1>6. Offset(s, k) <= Bytes(s)
  <2>1. Len(s) \in 0..Len(s) BY <1>1
  <2>2. k < Len(s) => Offset(s, k) < Offset(s, Len(s)) BY <2>1, OffsetGrows
  <2>3. k = Len(s) \/ k < Len(s) BY <1>1
  <2>4. Offset(s, k) \in Nat /\ Offset(s, Len(s)) \in Nat BY <1>2, <2>1
  <2> QED BY <2>2, <2>3, <2>4 DEF Bytes
<1> QED BY <1>2, <1>5, <1>6 DEF Boundaries

\* The two ends of the text are boundaries.
LEMMA EndsAreBoundaries ==
  ASSUME NEW s \in Text
  PROVE  0 \in Boundaries(s) /\ Bytes(s) \in Boundaries(s) /\ Boundaries(s) \in SUBSET Nat
<1>1. Len(s) \in Nat /\ Offset(s, 0) = 0 BY OffsetStep
<1>2. 0 \in 0..Len(s) /\ Len(s) \in 0..Len(s) BY <1>1
<1>3. Boundaries(s) \in SUBSET Nat BY OffsetStep DEF Boundaries
<1> QED BY <1>1, <1>2, <1>3 DEF Boundaries, Bytes

\* replace_range between boundaries leaves a text in which the start of what it
\* put there and its end are boundaries.
LEMMA SplicedKeepsBoundaries ==
  ASSUME NEW s \in Text, NEW lo \in Boundaries(s), NEW hi \in Boundaries(s), lo <= hi,
         NEW text \in Text
  PROVE  /\ Spliced(s, lo, hi, text) \in Text
         /\ lo \in Boundaries(Spliced(s, lo, hi, text))
         /\ lo + Bytes(text) \in Boundaries(Spliced(s, lo, hi, text))
<1>1. PICK j \in 0..Len(s) : lo = Offset(s, j) BY DEF Boundaries
<1>2. PICK k \in 0..Len(s) : hi = Offset(s, k) BY DEF Boundaries
<1>3. CharsBefore(s, lo) = j /\ CharsBefore(s, hi) = k BY <1>1, <1>2, BoundaryIsCount
<1>4. Len(s) \in Nat /\ j \in Nat /\ j <= Len(s) /\ k \in Nat /\ k <= Len(s) BY OffsetStep
<1> DEFINE a == SubSeq(s, 1, j)
           z == SubSeq(s, k + 1, Len(s))
           f == a \o text
           r == f \o z
<1>5. a \in Text /\ Len(a) = j /\ z \in Text
  <2>1. a \in Text /\ Len(a) = j /\ \A i \in 1..j : a[i] = s[i] BY <1>4 DEF Text
  <2>2. z \in Text BY <1>4 DEF Text
  <2> QED BY <2>1, <2>2
<1>6. \A i \in 1..j : a[i] = s[i] BY <1>4 DEF Text
<1>7. Spliced(s, lo, hi, text) = r BY <1>3 DEF Spliced
<1> HIDE DEF a, z
<1>8. Offset(a, j) = lo BY <1>1, <1>6, OffsetAgrees
<1>9. Bytes(a) = lo BY <1>5, <1>8 DEF Bytes
<1>10. f \in Text /\ Len(f) = j + Len(text) /\ Len(text) \in Nat
  <2>1. f \in Text BY <1>5, OffsetConcat
  <2>2. Len(f) = Len(a) + Len(text) /\ Len(text) \in Nat
    BY <1>5, ConcatProperties, LenProperties DEF Text
  <2> QED BY <1>5, <2>1, <2>2
<1>11. /\ Offset(f, j) = lo
       /\ Offset(f, j + Len(text)) = lo + Bytes(text)
  <2>1. j \in 0..Len(a) /\ Len(text) \in 0..Len(text) BY <1>4, <1>5, <1>10
  <2>2. Offset(f, j) = Offset(a, j) BY <1>5, <2>1, OffsetConcat
  <2>3. Offset(f, Len(a) + Len(text)) = Bytes(a) + Offset(text, Len(text)) BY <1>5, <2>1, OffsetConcat
  <2> QED BY <1>5, <1>8, <1>9, <2>2, <2>3 DEF Bytes
<1> HIDE DEF f
<1>12. r \in Text /\ Len(r) \in Nat /\ Len(f) <= Len(r) BY <1>5, <1>10 DEF Text
<1>13. j \in 0..Len(f) /\ Len(f) \in 0..Len(f) BY <1>4, <1>10
<1>14. Offset(r, j) = lo /\ Offset(r, Len(f)) = lo + Bytes(text)
  <2>1. f \in Text /\ z \in Text BY <1>5, <1>10
  <2>2. \A i \in 0..Len(f) : Offset(f \o z, i) = Offset(f, i) BY ONLY <2>1, OffsetConcat
  <2>3. Offset(r, j) = Offset(f, j) /\ Offset(r, Len(f)) = Offset(f, Len(f)) BY <1>13, <2>2
  <2> QED BY <1>10, <1>11, <2>3
<1> HIDE DEF r
<1>15. j \in 0..Len(r) /\ Len(f) \in 0..Len(r) BY <1>4, <1>10, <1>12, <1>13
<1>16. lo \in Boundaries(r) /\ lo + Bytes(text) \in Boundaries(r) BY <1>14, <1>15 DEF Boundaries
<1> QED BY <1>7, <1>12, <1>16

\* Deleting between boundaries leaves the start of the gap a boundary.
LEMMA CutKeepsBoundary ==
  ASSUME NEW s \in Text, NEW lo \in Boundaries(s), NEW hi \in Boundaries(s), lo <= hi
  PROVE  Spliced(s, lo, hi, <<>>) \in Text /\ lo \in Boundaries(Spliced(s, lo, hi, <<>>))
<1>1. <<>> \in Text BY DEF Text
<1> QED BY <1>1, SplicedKeepsBoundaries

\* The smaller and the larger of two numbers.
LEMMA OfTwo ==
  ASSUME NEW a \in Nat, NEW b \in Nat
  PROVE  /\ Min({a, b}) \in {a, b} /\ Min({a, b}) <= a /\ Min({a, b}) <= b
         /\ Max({a, b}) \in {a, b} /\ Max({a, b}) >= a /\ Max({a, b}) >= b
<1>1. \E x \in {a, b} : \A y \in {a, b} : x <= y
  <2>1. CASE a <= b BY <2>1
  <2>2. CASE ~(a <= b) BY <2>2
  <2> QED BY <2>1, <2>2
<1>2. \E x \in {a, b} : \A y \in {a, b} : x >= y
  <2>1. CASE a <= b BY <2>1
  <2>2. CASE ~(a <= b) BY <2>2
  <2> QED BY <2>1, <2>2
<1> QED BY <1>1, <1>2 DEF Min, Max

\* The characters next to the cursor are found.
LEMMA PrevIsBoundary ==
  ASSUME url \in Text, NEW from \in Boundaries(url)
  PROVE  prev_char_boundary(from) \in Boundaries(url) /\ prev_char_boundary(from) <= from
<1> DEFINE B == {b \in Boundaries(url) : b < from} \cup {0}
<1>1. PICK k \in 0..Len(url) : from = Offset(url, k) BY DEF Boundaries
<1>2. B \in SUBSET Boundaries(url) /\ Boundaries(url) \in SUBSET Nat BY EndsAreBoundaries
<1>3. Len(url) \in Nat BY OffsetStep
<1>4. \E x \in B : \A y \in B : x >= y
  <2>1. CASE k = 0
    <3>1. from = 0 BY <1>1, <2>1, OffsetStep
    <3>2. B = {0} BY <1>2, <3>1
    <3> QED BY <3>2
  <2>2. CASE k # 0
    <3>1. k - 1 \in 0..Len(url) /\ k - 1 < k /\ k \in Nat BY <1>3, <2>2
    <3> DEFINE x == Offset(url, k - 1)
    <3>2. x < from BY <1>1, <3>1, OffsetGrows
    <3>3. x \in Boundaries(url) BY <3>1 DEF Boundaries
    <3>4. x \in Nat BY <1>2, <3>3
    <3>5. ASSUME NEW y \in Boundaries(url), y < from PROVE x >= y
      <4>1. PICK j \in 0..Len(url) : y = Offset(url, j) BY DEF Boundaries
      <4>2. ~(k < j)
        <5>1. k < j => from < y BY <1>1, <4>1, OffsetGrows
        <5>2. from \in Nat /\ y \in Nat BY <1>2
        <5> QED BY <3>5, <5>1, <5>2
      <4>3. j # k
        <5>1. from \in Nat /\ y \in Nat BY <1>2
        <5> QED BY <1>1, <3>5, <4>1, <5>1
      <4>4. j = k - 1 \/ j < k - 1 BY <1>3, <4>2, <4>3
      <4>5. j < k - 1 => y < x BY <3>1, <4>1, OffsetGrows
      <4>6. j = k - 1 => y = x BY <4>1
      <4>7. y \in Nat BY <1>2
      <4> HIDE DEF x
      <4> QED BY <3>4, <4>4, <4>5, <4>6, <4>7
    <3> HIDE DEF x
    <3>6. \A y \in B : x >= y BY <3>4, <3>5
    <3> QED BY <3>2, <3>3, <3>6
  <2> QED BY <2>1, <2>2
<1>5. Max(B) \in B BY <1>4 DEF Max
<1>6. from \in Nat BY <1>2
<1>7. \A y \in B : y <= from BY <1>2, <1>6
<1> HIDE DEF B
<1>8. Max(B) \in Boundaries(url) /\ Max(B) <= from BY <1>2, <1>5, <1>7
<1> QED BY <1>8 DEF prev_char_boundary, B

LEMMA NextIsBoundary ==
  ASSUME url \in Text, NEW from \in Boundaries(url)
  PROVE  next_char_boundary(from) \in Boundaries(url) /\ from <= next_char_boundary(from)
<1> DEFINE B == {b \in Boundaries(url) : b > from} \cup {Bytes(url)}
<1>1. PICK k \in 0..Len(url) : from = Offset(url, k) BY DEF Boundaries
<1>2. B \in SUBSET Boundaries(url) /\ Boundaries(url) \in SUBSET Nat /\ Bytes(url) \in Nat
  BY EndsAreBoundaries
<1>3. B \in SUBSET Nat /\ B # {} BY <1>2
<1>4. from <= Bytes(url) /\ from \in Nat BY <1>1, BoundaryIsCount
<1>5. \A y \in B : from <= y BY <1>2, <1>4
<1> HIDE DEF B
<1>6. \E x \in B : \A y \in B : x <= y BY <1>3, LeastNat
<1>7. Min(B) \in B BY <1>6 DEF Min
<1>8. Min(B) \in Boundaries(url) /\ from <= Min(B) BY <1>2, <1>5, <1>7
<1> QED BY <1>8 DEF next_char_boundary, B

-----------------------------------------------------------------------------
(* What is typed, pasted and suggested *)

KeptStep(text, f, n) ==
  IF n = 0 THEN <<>> ELSE IF text[n] \in Overrides THEN f[n - 1] ELSE Append(f[n - 1], text[n])
Purged(text) == CHOOSE f : f = [n \in 0..Len(text) |-> KeptStep(text, f, n)]

\* strip_bidi_overrides leaves a text.
LEMMA StrippedIsText ==
  ASSUME NEW text \in Text
  PROVE  strip_bidi_overrides(text) \in Text
<1> DEFINE Fine(n, f) == f = [i \in 0..n |-> KeptStep(text, f, i)]
           T == {n \in Nat : ~\E f : Fine(n, f)}
<1>0. Len(text) \in Nat BY DEF Text
<1>1. T = {}
  <2> SUFFICES ASSUME T # {} PROVE FALSE OBVIOUS
  <2>0. T \in SUBSET Nat OBVIOUS
  <2> HIDE DEF T
  <2>1. PICK n \in T : \A m \in T : n <= m BY <2>0, LeastNat
  <2> USE DEF T
  <2>2. n # 0
    <3> DEFINE f == [i \in 0..0 |-> <<>>]
    <3>1. Fine(0, f) BY DEF KeptStep
    <3> QED BY <3>1
  <2>3. n \in Nat /\ n - 1 \in Nat BY <2>2
  <2>4. n - 1 \in T => n <= n - 1 BY <2>1
  <2>5. n - 1 \notin T BY <2>3, <2>4
  <2>6. PICK f : Fine(n - 1, f) BY <2>3, <2>5
  <2> DEFINE g == [i \in 0..n |-> KeptStep(text, f, i)]
  <2>7. \A i \in 0..(n - 1) : g[i] = f[i]
    <3>1. \A i \in 0..(n - 1) : i \in 0..n BY <2>3
    <3> QED BY <2>6, <3>1
  <2>8. \A i \in 0..n : KeptStep(text, g, i) = KeptStep(text, f, i)
    <3> SUFFICES ASSUME NEW i \in 0..n PROVE KeptStep(text, g, i) = KeptStep(text, f, i) OBVIOUS
    <3>1. i # 0 => i - 1 \in 0..(n - 1) BY <2>3
    <3> HIDE DEF g
    <3> QED BY <2>7, <3>1 DEF KeptStep
  <2>9. Fine(n, g)
    <3>1. g = [i \in 0..n |-> KeptStep(text, f, i)] OBVIOUS
    <3> HIDE DEF g
    <3> QED BY <2>8, <3>1
  <2> HIDE DEF g
  <2> QED BY <2>9
<1>2. \E f : Fine(Len(text), f) BY <1>0, <1>1
<1> DEFINE h == Purged(text)
           B == {n \in Nat : n <= Len(text) /\ h[n] \notin Text}
<1>3. h = [n \in 0..Len(text) |-> KeptStep(text, h, n)] BY <1>2 DEF Purged
<1>4. strip_bidi_overrides(text) = h[Len(text)] BY DEF strip_bidi_overrides, Purged, KeptStep
<1> HIDE DEF h
<1>5. B = {}
  <2> SUFFICES ASSUME B # {} PROVE FALSE OBVIOUS
  <2>0. B \in SUBSET Nat OBVIOUS
  <2> HIDE DEF B
  <2>1. PICK n \in B : \A m \in B : n <= m BY <2>0, LeastNat
  <2> USE DEF B
  <2>2. n \in Nat /\ n <= Len(text) /\ h[n] \notin Text OBVIOUS
  <2>3. h[n] = KeptStep(text, h, n) BY <1>0, <1>3, <2>2
  <2>4. n # 0 BY <2>2, <2>3 DEF KeptStep, Text
  <2>5. n - 1 \in Nat /\ n \in 1..Len(text) BY <1>0, <2>2, <2>4
  <2>6. n - 1 \in B => n <= n - 1 BY <2>1
  <2>7. n - 1 \notin B BY <2>2, <2>6
  <2>8. h[n - 1] \in Text BY <1>0, <2>2, <2>5, <2>7
  <2>9. text[n] \in BarChars BY <2>5 DEF Text
  <2>10. Append(h[n - 1], text[n]) \in Text BY <2>8, <2>9 DEF Text
  <2> QED BY <2>2, <2>3, <2>4, <2>8, <2>10 DEF KeptStep
<1> QED BY <1>0, <1>4, <1>5

\* A prefix agrees with the text as far as it goes.
LEMMA PrefixAgrees ==
  ASSUME NEW t \in Text, NEW s \in Text, IsPrefix(t, s)
  PROVE  /\ Len(t) \in Nat /\ Len(s) \in Nat /\ Len(t) <= Len(s)
         /\ \A i \in 1..Len(t) : t[i] = s[i]
<1>1. Len(t) \in Nat /\ Len(s) \in Nat BY DEF Text
<1>2. Len(t) <= Len(s) /\ SubSeq(t, 1, Len(t)) = SubSeq(s, 1, Len(t)) BY DEF IsPrefix
<1>3. ASSUME NEW i \in 1..Len(t) PROVE t[i] = s[i]
  <2>1. SubSeq(t, 1, Len(t))[i] = t[i] BY <1>1 DEF Text
  <2>2. SubSeq(s, 1, Len(t))[i] = s[i] BY <1>1, <1>2 DEF Text
  <2> QED BY <1>2, <2>1, <2>2
<1> QED BY <1>1, <1>2, <1>3

\* The rest of a text from its k-th character on.
LEMMA RestIsText ==
  ASSUME NEW s \in Text, NEW k \in 0..Len(s)
  PROVE  /\ SubSeq(s, k + 1, Len(s)) \in Text
         /\ Len(SubSeq(s, k + 1, Len(s))) = Len(s) - k
         /\ \A i \in 1..(Len(s) - k) : SubSeq(s, k + 1, Len(s))[i] = s[k + i]
<1>1. Len(s) \in Nat /\ k \in Nat /\ k <= Len(s) BY DEF Text
<1>2. SubSeq(s, k + 1, Len(s)) \in Text BY <1>1 DEF Text
<1>3. Len(SubSeq(s, k + 1, Len(s))) = Len(s) - k BY <1>1 DEF Text
<1>4. ASSUME NEW i \in 1..(Len(s) - k) PROVE SubSeq(s, k + 1, Len(s))[i] = s[k + i]
  BY <1>1, <1>3 DEF Text
<1> QED BY <1>2, <1>3, <1>4

\* A slice at a character is a text, and nowhere else does it end well.
LEMMA SliceAt ==
  ASSUME NEW s \in Text, NEW k \in 0..Len(s)
  PROVE  /\ Slice(s, Offset(s, k)) = SubSeq(s, k + 1, Len(s))
         /\ Slice(s, Offset(s, k)) \in Text /\ Slice(s, Offset(s, k)) # BPanic
<1>1. Offset(s, k) \in Boundaries(s) /\ CharsBefore(s, Offset(s, k)) = k BY BoundaryIsCount
<1>2. Slice(s, Offset(s, k)) = SubSeq(s, k + 1, Len(s)) BY <1>1 DEF Slice
<1>3. SubSeq(s, k + 1, Len(s)) \in Text BY RestIsText
<1>4. SubSeq(s, k + 1, Len(s)) # BPanic BY <1>3, BarAssumption DEF Text
<1> QED BY <1>2, <1>3, <1>4

LEMMA SliceType ==
  ASSUME NEW s \in Text, NEW from
  PROVE  Slice(s, from) = BPanic \/ Slice(s, from) \in Text
<1>1. CASE from \in Boundaries(s)
  <2>1. PICK k \in 0..Len(s) : from = Offset(s, k) BY <1>1 DEF Boundaries
  <2> QED BY <2>1, SliceAt
<1>2. CASE from \notin Boundaries(s) BY <1>2 DEF Slice
<1> QED BY <1>1, <1>2

-----------------------------------------------------------------------------
(* Lower case *)

LEMMA LowerIsText ==
  ASSUME NEW s \in Text
  PROVE  /\ Lower(s) \in Text /\ Len(Lower(s)) = Len(s) /\ Len(s) \in Nat
         /\ \A i \in 1..Len(s) : Lower(s)[i] = LowerOf[s[i]]
<1>1. Len(s) \in Nat BY DEF Text
<1>2. \A i \in 1..Len(s) : LowerOf[s[i]] \in BarChars BY BarAssumption DEF Text
<1> QED BY <1>1, <1>2 DEF Lower, Text

\* A text that a second one continues in lower case, width for width: what is
\* left of the second after as many characters completes it.
LEMMA CompletedInLower ==
  ASSUME NEW t \in Text, NEW s \in Text, KeepsWidth(t), KeepsWidth(s), IsPrefix(Lower(t), Lower(s))
  PROVE  /\ Len(t) \in 0..Len(s) /\ Bytes(t) = Offset(s, Len(t))
         /\ Lower(t \o SubSeq(s, Len(t) + 1, Len(s))) = Lower(s)
<1>1. /\ Lower(t) \in Text /\ Len(Lower(t)) = Len(t) /\ Len(t) \in Nat
      /\ \A i \in 1..Len(t) : Lower(t)[i] = LowerOf[t[i]]
  BY LowerIsText
<1>2. /\ Lower(s) \in Text /\ Len(Lower(s)) = Len(s) /\ Len(s) \in Nat
      /\ \A i \in 1..Len(s) : Lower(s)[i] = LowerOf[s[i]]
  BY LowerIsText
<1>3. Len(t) <= Len(s) /\ \A i \in 1..Len(t) : Lower(t)[i] = Lower(s)[i]
  BY <1>1, <1>2, PrefixAgrees
<1>4. \A i \in 1..Len(t) : LowerOf[t[i]] = LowerOf[s[i]] BY <1>1, <1>2, <1>3
<1>5. \A i \in 1..Len(t) : WidthOf[t[i]] = WidthOf[s[i]] BY <1>1, <1>2, <1>3, <1>4 DEF KeepsWidth
<1>6. Len(t) \in 0..Len(s) BY <1>1, <1>2, <1>3
<1>7. Bytes(t) = Offset(s, Len(t)) BY <1>5, SameWidths DEF Bytes
<1> DEFINE rest == SubSeq(s, Len(t) + 1, Len(s))
           c == t \o rest
<1>8. /\ rest \in Text /\ Len(rest) = Len(s) - Len(t)
      /\ \A i \in 1..(Len(s) - Len(t)) : rest[i] = s[Len(t) + i]
  BY <1>6, RestIsText
<1> HIDE DEF rest
<1>9. c \in Text /\ Len(c) = Len(s) BY <1>1, <1>2, <1>8 DEF Text
<1>10. ASSUME NEW i \in 1..Len(s) PROVE LowerOf[c[i]] = LowerOf[s[i]]
  <2>1. CASE i <= Len(t)
    <3>1. c[i] = t[i] BY <1>1, <1>8, <2>1 DEF Text
    <3> QED BY <1>1, <1>4, <2>1, <3>1
  <2>2. CASE ~(i <= Len(t))
    <3>1. i - Len(t) \in 1..(Len(s) - Len(t)) /\ Len(t) + (i - Len(t)) = i BY <1>1, <1>2, <2>2
    <3>2. c[i] = rest[i - Len(t)] BY <1>1, <1>2, <1>8, <2>2 DEF Text
    <3> QED BY <1>8, <3>1, <3>2
  <2> QED BY <2>1, <2>2
<1> HIDE DEF c
<1>11. Lower(c) = Lower(s) BY <1>9, <1>10 DEF Lower
<1> QED BY <1>6, <1>7, <1>11 DEF c, rest

\* The same for a second text that starts with a scheme which the first lacks.
LEMMA CompletedWithoutScheme ==
  ASSUME NEW t \in Text, NEW s \in Text, s # <<>>, KeepsWidth(t), KeepsWidth(s),
         IsPrefix(Lower(t), Tail(Lower(s)))
  PROVE  /\ Len(t) + 1 \in 0..Len(s)
         /\ Bytes(s) - Bytes(Tail(Lower(s))) \in Nat
         /\ (Bytes(s) - Bytes(Tail(Lower(s)))) + Bytes(t) = Offset(s, Len(t) + 1)
         /\ Lower(t \o SubSeq(s, (Len(t) + 1) + 1, Len(s))) = Tail(Lower(s))
<1> DEFINE g == Tail(s)
           h == <<s[1]>>
<1>1. /\ Lower(s) \in Text /\ Len(Lower(s)) = Len(s) /\ Len(s) \in Nat
      /\ \A i \in 1..Len(s) : Lower(s)[i] = LowerOf[s[i]]
  BY LowerIsText
<1>2. Len(s) >= 1 BY <1>1 DEF Text
<1>3. /\ g \in Text /\ Len(g) = Len(s) - 1 /\ \A i \in 1..(Len(s) - 1) : g[i] = s[i + 1]
  BY <1>1, <1>2 DEF Text
<1>4. h \in Text /\ Len(h) = 1 /\ h[1] = s[1] BY <1>1, <1>2 DEF Text
<1> HIDE DEF g, h
<1>5. h \o g = s
  <2>1. /\ h \o g \in Text /\ Len(h \o g) = Len(h) + Len(g)
        /\ \A i \in 1..(Len(h) + Len(g)) : (h \o g)[i] = IF i <= Len(h) THEN h[i] ELSE g[i - Len(h)]
    BY <1>3, <1>4, ConcatTexts
  <2> DEFINE c == h \o g
  <2>2. Len(c) = Len(s) BY <1>1, <1>2, <1>3, <1>4, <2>1
  <2> HIDE DEF c
  <2>3. ASSUME NEW i \in 1..Len(s) PROVE c[i] = s[i]
    <3>1. c[i] = IF i <= 1 THEN h[i] ELSE g[i - 1]
      BY <1>1, <1>2, <1>3, <1>4, <2>1 DEF c
    <3>2. CASE i = 1 BY <1>4, <3>1, <3>2
    <3>3. CASE i # 1
      <4>1. i - 1 \in 1..(Len(s) - 1) /\ (i - 1) + 1 = i /\ ~(i <= 1) BY <1>1, <3>3
      <4> QED BY <1>3, <3>1, <4>1
    <3> QED BY <3>2, <3>3
  <2>4. c \in Text BY <2>1 DEF c
  <2>5. c = s BY <2>2, <2>3, <2>4, SeqEqual DEF Text
  <2> QED BY <2>5 DEF c
<1>6. /\ Lower(g) \in Text /\ Len(Lower(g)) = Len(g)
      /\ \A i \in 1..Len(g) : Lower(g)[i] = LowerOf[g[i]]
  BY <1>3, LowerIsText
<1>7. Tail(Lower(s)) = Lower(g)
  <2>1. Tail(Lower(s)) \in Text /\ Len(Tail(Lower(s))) = Len(s) - 1
    BY <1>1, <1>2 DEF Text
  <2>2. ASSUME NEW i \in 1..(Len(s) - 1) PROVE Tail(Lower(s))[i] = Lower(g)[i]
    <3>1. Tail(Lower(s))[i] = Lower(s)[i + 1] BY <1>1, <1>2 DEF Text
    <3>2. i + 1 \in 1..Len(s) BY <1>1
    <3> QED BY <1>1, <1>3, <1>6, <3>1, <3>2
  <2> QED BY <1>3, <1>6, <2>1, <2>2, SeqEqual DEF Text
<1>8. KeepsWidth(g)
  <2> SUFFICES ASSUME NEW i \in 1..Len(g) PROVE WidthOf[LowerOf[g[i]]] = WidthOf[g[i]]
    BY DEF KeepsWidth
  <2>1. i \in 1..(Len(s) - 1) /\ i + 1 \in 1..Len(s) BY <1>1, <1>3
  <2> QED BY <1>3, <2>1 DEF KeepsWidth
<1>9. Bytes(Lower(g)) = Bytes(g)
  <2>1. \A i \in 1..Len(g) : WidthOf[Lower(g)[i]] = WidthOf[g[i]] BY <1>6, <1>8 DEF KeepsWidth
  <2>2. Offset(Lower(g), Len(g)) = Offset(g, Len(g)) BY <2>1, SameWidths
  <2> QED BY <1>6, <2>2 DEF Bytes
<1>10. /\ Len(t) \in 0..Len(g) /\ Bytes(t) = Offset(g, Len(t))
       /\ Lower(t \o SubSeq(g, Len(t) + 1, Len(g))) = Lower(g)
  BY <1>3, <1>7, <1>8, CompletedInLower
<1>11. \A k \in 0..Len(g) : Offset(s, 1 + k) = Bytes(h) + Offset(g, k)
  <2>1. \A k \in 0..Len(g) : Offset(h \o g, Len(h) + k) = Bytes(h) + Offset(g, k)
    BY <1>3, <1>4, OffsetConcat
  <2> QED BY <1>4, <1>5, <2>1
<1>12. Bytes(h) \in Nat /\ Bytes(g) \in Nat /\ Offset(g, Len(t)) \in Nat
  <2>1. Len(g) \in 0..Len(g) /\ Len(h) \in 0..Len(h) BY <1>1, <1>2, <1>3, <1>4
  <2> QED BY <1>3, <1>4, <1>10, <2>1, OffsetStep DEF Bytes
<1>13. Bytes(s) = Bytes(h) + Bytes(g)
  <2>1. Len(g) \in 0..Len(g) /\ 1 + Len(g) = Len(s) BY <1>1, <1>2, <1>3
  <2> QED BY <1>11, <2>1 DEF Bytes
<1>14. Len(t) + 1 \in 0..Len(s) /\ Len(t) + 1 = 1 + Len(t) BY <1>1, <1>2, <1>3, <1>10
<1>15. SubSeq(s, (Len(t) + 1) + 1, Len(s)) = SubSeq(g, Len(t) + 1, Len(g))
  <2> DEFINE a == SubSeq(s, (Len(t) + 1) + 1, Len(s))
             b == SubSeq(g, Len(t) + 1, Len(g))
  <2>1. /\ a \in Text /\ Len(a) = Len(s) - (Len(t) + 1)
        /\ \A i \in 1..(Len(s) - (Len(t) + 1)) : a[i] = s[(Len(t) + 1) + i]
    BY <1>14, RestIsText
  <2>2. /\ b \in Text /\ Len(b) = Len(g) - Len(t)
        /\ \A i \in 1..(Len(g) - Len(t)) : b[i] = g[Len(t) + i]
    BY <1>3, <1>10, RestIsText
  <2> HIDE DEF a, b
  <2>3. Len(a) = Len(b) /\ Len(t) \in Nat BY <1>1, <1>3, <1>10, <2>1, <2>2
  <2>4. ASSUME NEW i \in 1..Len(a) PROVE a[i] = b[i]
    <3>1. /\ i \in 1..(Len(s) - (Len(t) + 1)) /\ i \in 1..(Len(g) - Len(t))
          /\ Len(t) + i \in 1..(Len(s) - 1) /\ (Len(t) + i) + 1 = (Len(t) + 1) + i
      BY <1>1, <1>3, <2>1, <2>2, <2>3
    <3> QED BY <1>3, <2>1, <2>2, <3>1
  <2> QED BY <2>1, <2>2, <2>3, <2>4, SeqEqual DEF Text, a, b
<1>16. Bytes(s) - Bytes(Tail(Lower(s))) = Bytes(h)
  <2>1. Bytes(Tail(Lower(s))) = Bytes(g) BY <1>7, <1>9
  <2> QED BY <1>12, <1>13, <2>1
<1>17. Offset(s, Len(t) + 1) = Bytes(h) + Bytes(t) BY <1>10, <1>11, <1>14
<1> QED BY <1>7, <1>10, <1>12, <1>14, <1>15, <1>16, <1>17

-----------------------------------------------------------------------------
(* Suggestions *)

\* HistoryLog::autocomplete offers URLs.
SuggestsTexts == \A text \in Text : Suggest(text) \in Seq(Text)

\* A text with a scheme, and without the blanks around it.
LEMMA SchemeTexts ==
  ASSUME NEW s \in Text PROVE WithoutScheme(s) \in Text /\ WithScheme(s) \in Text
<1>1. WithoutScheme(s) \in Text BY DEF WithoutScheme, Text
<1>2. <<SchemeChar>> \o s \in Text BY BarAssumption DEF Text
<1> QED BY <1>1, <1>2 DEF WithScheme

\* What a completion is to the text it completes and the first suggestion.
Fits(text, completion, first) ==
  KeepsWidth(text) /\ KeepsWidth(first) =>
    completion # BPanic /\ Lower(text \o completion) \in {Lower(first), WithoutScheme(Lower(first))}

\* What the suggestions, the one selected and the completion are to a text.
Offers(text, completion, found, chosen) ==
  /\ found \in Seq(Text)
  /\ chosen # BNone => chosen \in 1..Len(found)
  /\ completion \notin {BNone, BPanic} => completion \in Text
  /\ completion # BNone => found # <<>> /\ Fits(text, completion, found[1])

\* keyboard.rs: a completion, if there is one, fits.
LEMMA CompletionsFit ==
  ASSUME NEW text \in Text, NEW first \in Text, NEW c \in Completions(text, first), c # BNone
  PROVE  (c = BPanic \/ c \in Text) /\ Fits(text, c, first)
<1> DEFINE lower == Lower(first)
           bare == WithoutScheme(lower)
           scheme_len == Bytes(first) - Bytes(bare)
<1>1. CASE IsPrefix(Lower(text), lower)
  <2>1. c = Slice(first, Bytes(text)) BY <1>1 DEF Completions
  <2>2. ASSUME KeepsWidth(text), KeepsWidth(first) PROVE c # BPanic /\ Lower(text \o c) = lower
    <3>1. /\ Len(text) \in 0..Len(first) /\ Bytes(text) = Offset(first, Len(text))
          /\ Lower(text \o SubSeq(first, Len(text) + 1, Len(first))) = lower
      BY <1>1, <2>2, CompletedInLower
    <3> QED BY <2>1, <3>1, SliceAt
  <2> QED BY <2>1, <2>2, SliceType DEF Fits
<1>2. CASE ~IsPrefix(Lower(text), lower)
  <2>1. IsPrefix(Lower(text), bare) BY <1>2 DEF Completions
  <2>2. c = Slice(first, scheme_len + Bytes(text)) \/ (c = BPanic /\ scheme_len < 0)
    BY <1>2, <2>1 DEF Completions
  <2>3. lower # <<>> /\ bare = Tail(lower) BY <1>2, <2>1 DEF WithoutScheme
  <2>4. first # <<>>
    <3>1. lower \in Text /\ Len(lower) = Len(first) BY LowerIsText
    <3> QED BY <2>3, <3>1 DEF Text
  <2>5. ASSUME KeepsWidth(text), KeepsWidth(first) PROVE c # BPanic /\ Lower(text \o c) = bare
    <3>1. /\ Len(text) + 1 \in 0..Len(first)
          /\ scheme_len \in Nat /\ scheme_len + Bytes(text) = Offset(first, Len(text) + 1)
          /\ Lower(text \o SubSeq(first, (Len(text) + 1) + 1, Len(first))) = bare
      BY <2>1, <2>3, <2>4, <2>5, CompletedWithoutScheme
    <3>2. c = Slice(first, Offset(first, Len(text) + 1)) BY <2>2, <3>1
    <3> QED BY <3>1, <3>2, SliceAt
  <2> QED BY <2>2, <2>5, SliceType DEF Fits
<1> QED BY <1>1, <1>2

LEMMA RefreshedOffers ==
  ASSUME SuggestsTexts, NEW text \in Text, Refreshed(text)
  PROVE  Offers(text, inline_completion', suggestions', selected_suggestion')
<1> DEFINE found == Suggest(text)
<1>1. /\ suggestions' = found /\ selected_suggestion' = BNone
      /\ inline_completion' \in IF found = <<>> THEN {BNone} ELSE Completions(text, found[1])
  BY DEF Refreshed
<1>2. found \in Seq(Text) BY DEF SuggestsTexts
<1> HIDE DEF found
<1>3. CASE found = <<>> BY <1>1, <1>2, <1>3 DEF Offers
<1>4. CASE found # <<>>
  <2>1. found[1] \in Text BY <1>2, <1>4
  <2> DEFINE c == inline_completion'
  <2>2. c \in Completions(text, found[1]) BY <1>1, <1>4
  <2> HIDE DEF c
  <2>3. c # BNone => (c = BPanic \/ c \in Text) /\ Fits(text, c, found[1]) BY <2>1, <2>2, CompletionsFit
  <2> QED BY <1>1, <1>2, <1>4, <2>3 DEF Offers, c
<1> QED BY <1>3, <1>4

-----------------------------------------------------------------------------
(* The bar *)

OnText(text, at, sel) ==
  /\ text \in Text /\ at \in Boundaries(text)
  /\ sel # BNone => sel[1] \in Boundaries(text) /\ sel[2] \in Boundaries(text)

\* The inductive invariant.
BarIInv ==
  /\ OnText(url, cursor, selection)
  /\ Offers(url, inline_completion, suggestions, selected_suggestion)

LEMMA InvIsCoherent == BarIInv => BarIsCoherent
BY DEF BarIInv, OnText, Offers, Fits, BarIsCoherent, OffsetsOnCharacters, CompletionFitsText

LEMMA BarInitial == BarInit => BarIInv
<1> SUFFICES ASSUME BarInit PROVE BarIInv OBVIOUS
<1>1. <<>> \in Text /\ <<>> \in Seq(Text) BY DEF Text
<1>2. 0 \in Boundaries(<<>>) BY <1>1, EndsAreBoundaries
<1> QED BY <1>1, <1>2 DEF BarInit, BarIInv, OnText, Offers

\* A text whose offsets were computed for it keeps the bar coherent.
LEMMA EditOk ==
  ASSUME BarIInv, SuggestsTexts, NEW text \in Text, NEW at \in Boundaries(text), Edit(text, at)
  PROVE  BarIInv'
<1>1. url' = text /\ cursor' = at /\ selection' = BNone BY DEF Edit
<1>2. OnText(url, cursor, selection)' BY <1>1 DEF OnText
<1>3. Offers(text, inline_completion', suggestions', selected_suggestion')
  <2>1. CASE text # url BY <2>1, RefreshedOffers DEF Edit
  <2>2. CASE text = url BY <2>2 DEF Edit, BarIInv
  <2> QED BY <2>1, <2>2
<1> QED BY <1>1, <1>2, <1>3 DEF BarIInv

LEMMA MovedOk ==
  ASSUME BarIInv, NEW to \in Boundaries(url), NEW extend \in BOOLEAN, Moved(to, extend)
  PROVE  BarIInv'
<1>1. /\ url' = url /\ cursor' = to /\ selection' = IF extend THEN <<Anchor, to>> ELSE BNone
      /\ UNCHANGED <<inline_completion, suggestions, selected_suggestion>>
  BY DEF Moved
<1>2. Anchor \in Boundaries(url) BY DEF Anchor, BarIInv, OnText
<1>3. OnText(url, cursor, selection)' BY <1>1, <1>2 DEF OnText, BarIInv
<1> QED BY <1>1, <1>3 DEF BarIInv

\* The ends of a selection in order.
LEMMA SelectionInOrder ==
  ASSUME BarIInv, selection # BNone
  PROVE  Lo \in Boundaries(url) /\ Hi \in Boundaries(url) /\ Lo <= Hi
<1> DEFINE a == selection[1]
           b == selection[2]
<1>1. a \in Boundaries(url) /\ b \in Boundaries(url) /\ url \in Text BY DEF BarIInv, OnText
<1>2. a \in Nat /\ b \in Nat BY <1>1, EndsAreBoundaries
<1>3. Lo = Min({a, b}) /\ Hi = Max({a, b}) BY DEF Lo, Hi
<1> HIDE DEF a, b
<1>4. /\ Min({a, b}) \in {a, b} /\ Min({a, b}) <= a /\ Min({a, b}) <= b
      /\ Max({a, b}) \in {a, b} /\ Max({a, b}) >= a /\ Max({a, b}) >= b
  BY <1>2, OfTwo
<1> QED BY <1>1, <1>2, <1>3, <1>4

\* Deleting the selection.
LEMMA CutOk ==
  ASSUME BarIInv, SuggestsTexts, Selected, Edit(Spliced(url, Lo, Hi, <<>>), Lo)
  PROVE  BarIInv'
<1>1. Lo \in Boundaries(url) /\ Hi \in Boundaries(url) /\ Lo <= Hi BY SelectionInOrder DEF Selected
<1>2. url \in Text BY DEF BarIInv, OnText
<1>3. Spliced(url, Lo, Hi, <<>>) \in Text /\ Lo \in Boundaries(Spliced(url, Lo, Hi, <<>>))
  BY <1>1, <1>2, CutKeepsBoundary
<1> QED BY <1>3, EditOk

LEMMA InsertOk ==
  ASSUME BarIInv, SuggestsTexts, NEW typed \in Text, insert_text(typed)
  PROVE  BarIInv'
<1> DEFINE text == strip_bidi_overrides(typed)
           base == IF Selected THEN Spliced(url, Lo, Hi, <<>>) ELSE url
           start == IF Selected THEN Lo ELSE cursor
           at == Min({start, Bytes(base)})
<1>1. text \in Text BY StrippedIsText
<1>2. base \in Text /\ start \in Boundaries(base)
  <2>1. CASE Selected
    <3>1. Lo \in Boundaries(url) /\ Hi \in Boundaries(url) /\ Lo <= Hi BY <2>1, SelectionInOrder DEF Selected
    <3>2. url \in Text BY DEF BarIInv, OnText
    <3>3. Spliced(url, Lo, Hi, <<>>) \in Text /\ Lo \in Boundaries(Spliced(url, Lo, Hi, <<>>))
      BY <3>1, <3>2, CutKeepsBoundary
    <3> QED BY <2>1, <3>3
  <2>2. CASE ~Selected BY <2>2 DEF BarIInv, OnText
  <2> QED BY <2>1, <2>2
<1>3. Edit(Spliced(base, at, at, text), at + Bytes(text)) BY DEF insert_text
<1> HIDE DEF text, base, start
<1>4. start \in Nat /\ Bytes(base) \in Nat /\ start <= Bytes(base)
  <2>1. PICK k \in 0..Len(base) : start = Offset(base, k) BY <1>2 DEF Boundaries
  <2>2. start <= Bytes(base) BY <1>2, <2>1, BoundaryIsCount
  <2> QED BY <1>2, <2>2, EndsAreBoundaries
<1>5. at = start
  <2>1. at \in {start, Bytes(base)} /\ at <= start /\ at <= Bytes(base) BY <1>4, OfTwo
  <2> QED BY <1>4, <2>1
<1> HIDE DEF at
<1>6. start <= start BY <1>4
<1> DEFINE r == Spliced(base, start, start, text)
<1>7. r \in Text /\ start + Bytes(text) \in Boundaries(r)
  BY <1>1, <1>2, <1>6, SplicedKeepsBoundaries
<1>8. Edit(r, start + Bytes(text)) BY <1>3, <1>5
<1> HIDE DEF r
<1> QED BY <1>7, <1>8, EditOk

LEMMA DeleteOk ==
  ASSUME BarIInv, SuggestsTexts, delete_backward \/ delete_forward \/ cut_text
  PROVE  BarIInv'
<1>0. url \in Text /\ cursor \in Boundaries(url) BY DEF BarIInv, OnText
<1>1. CASE Selected BY <1>1, CutOk DEF delete_backward, delete_forward, cut_text
<1>2. CASE ~Selected /\ delete_backward
  <2> DEFINE prev == prev_char_boundary(cursor)
  <2>1. prev \in Boundaries(url) /\ prev <= cursor BY <1>0, PrevIsBoundary
  <2>2. Edit(Spliced(url, prev, cursor, <<>>), prev) BY <1>2 DEF delete_backward
  <2> HIDE DEF prev
  <2>3. Spliced(url, prev, cursor, <<>>) \in Text /\ prev \in Boundaries(Spliced(url, prev, cursor, <<>>))
    BY <1>0, <2>1, CutKeepsBoundary
  <2> QED BY <2>2, <2>3, EditOk
<1>3. CASE ~Selected /\ delete_forward
  <2> DEFINE next == next_char_boundary(cursor)
  <2>1. next \in Boundaries(url) /\ cursor <= next BY <1>0, NextIsBoundary
  <2>2. Edit(Spliced(url, cursor, next, <<>>), cursor) BY <1>3 DEF delete_forward
  <2> HIDE DEF next
  <2>3. Spliced(url, cursor, next, <<>>) \in Text /\ cursor \in Boundaries(Spliced(url, cursor, next, <<>>))
    BY <1>0, <2>1, CutKeepsBoundary
  <2> QED BY <2>2, <2>3, EditOk
<1>4. CASE ~Selected /\ cut_text BY <1>4 DEF cut_text
<1> QED BY <1>1, <1>2, <1>3, <1>4

LEMMA MoveOk ==
  ASSUME BarIInv, NEW extend \in BOOLEAN,
         move_left(extend) \/ move_right(extend) \/ move_to_start(extend) \/ move_to_end(extend)
  PROVE  BarIInv'
<1>0. url \in Text /\ cursor \in Boundaries(url) BY DEF BarIInv, OnText
<1>1. CASE move_left(extend)
  <2> DEFINE to == IF ~extend /\ selection # BNone THEN Lo ELSE prev_char_boundary(cursor)
  <2>1. to \in Boundaries(url) BY <1>0, SelectionInOrder, PrevIsBoundary
  <2>2. Moved(to, extend) BY <1>1 DEF move_left
  <2> HIDE DEF to
  <2> QED BY <2>1, <2>2, MovedOk
<1>2. CASE move_right(extend)
  <2> DEFINE to == IF ~extend /\ selection # BNone THEN Hi ELSE next_char_boundary(cursor)
  <2>1. to \in Boundaries(url) BY <1>0, SelectionInOrder, NextIsBoundary
  <2>2. Moved(to, extend) BY <1>2 DEF move_right
  <2> HIDE DEF to
  <2> QED BY <2>1, <2>2, MovedOk
<1>3. CASE move_to_start(extend) BY <1>0, <1>3, EndsAreBoundaries, MovedOk DEF move_to_start
<1>4. CASE move_to_end(extend) BY <1>0, <1>4, EndsAreBoundaries, MovedOk DEF move_to_end
<1> QED BY <1>1, <1>2, <1>3, <1>4

LEMMA SelectAllOk ==
  ASSUME BarIInv, select_all
  PROVE  BarIInv'
<1>1. url \in Text BY DEF BarIInv, OnText
<1>2. 0 \in Boundaries(url) /\ Bytes(url) \in Boundaries(url) BY <1>1, EndsAreBoundaries
<1>3. /\ url' = url /\ cursor' = Bytes(url) /\ selection' = <<0, Bytes(url)>>
      /\ UNCHANGED <<inline_completion, suggestions, selected_suggestion>>
  BY DEF select_all
<1>4. OnText(url, cursor, selection)' BY <1>1, <1>2, <1>3 DEF OnText
<1> QED BY <1>3, <1>4 DEF BarIInv

\* Up, Down, Escape and Blur leave the text alone.
LEMMA ArrowOk ==
  ASSUME BarIInv, ArrowUp \/ ArrowDown \/ Escape \/ Blur
  PROVE  BarIInv'
<1>0. suggestions \in Seq(Text) /\ Len(suggestions) \in Nat BY DEF BarIInv, Offers
<1>1. CASE ArrowUp \/ ArrowDown
  <2>1. /\ UNCHANGED <<url, cursor, selection, inline_completion, suggestions>>
        /\ suggestions # <<>>
    BY <1>1 DEF ArrowUp, ArrowDown
  <2>2. Len(suggestions) \in 1..Len(suggestions) /\ 1 \in 1..Len(suggestions) BY <1>0, <2>1
  <2>3. selected_suggestion # BNone => selected_suggestion \in 1..Len(suggestions) BY DEF BarIInv, Offers
  <2>4. selected_suggestion' # BNone => selected_suggestion' \in 1..Len(suggestions)
    <3>1. CASE ArrowUp
      <4>1. CASE selected_suggestion = BNone BY <3>1, <4>1, <2>2 DEF ArrowUp
      <4>2. CASE selected_suggestion # BNone /\ selected_suggestion = 1 BY <3>1, <4>2 DEF ArrowUp
      <4>3. CASE selected_suggestion # BNone /\ selected_suggestion # 1
        <5>1. selected_suggestion' = selected_suggestion - 1 BY <3>1, <4>3 DEF ArrowUp
        <5> QED BY <1>0, <2>3, <4>3, <5>1
      <4> QED BY <4>1, <4>2, <4>3
    <3>2. CASE ArrowDown
      <4>1. CASE selected_suggestion = BNone BY <3>2, <4>1, <2>2 DEF ArrowDown
      <4>2. CASE selected_suggestion # BNone /\ selected_suggestion = Len(suggestions)
        BY <3>2, <4>2 DEF ArrowDown
      <4>3. CASE selected_suggestion # BNone /\ selected_suggestion # Len(suggestions)
        <5>1. selected_suggestion' = selected_suggestion + 1 BY <3>2, <4>3 DEF ArrowDown
        <5> QED BY <1>0, <2>3, <4>3, <5>1
      <4> QED BY <4>1, <4>2, <4>3
    <3> QED BY <1>1, <3>1, <3>2
  <2>5. OnText(url, cursor, selection)' BY <2>1 DEF BarIInv, OnText
  <2>6. Offers(url, inline_completion, suggestions, selected_suggestion)' BY <2>1, <2>4 DEF BarIInv, Offers
  <2> QED BY <2>5, <2>6 DEF BarIInv
<1>2. CASE Escape
  <2>1. /\ UNCHANGED <<url, cursor>> /\ selection' = BNone /\ inline_completion' = BNone
        /\ suggestions' = <<>> /\ selected_suggestion' = BNone
    BY <1>2 DEF Escape
  <2> QED BY <2>1 DEF BarIInv, OnText, Offers
<1>3. CASE Blur BY <1>3 DEF Blur, BarIInv, OnText, Offers
<1> QED BY <1>1, <1>2, <1>3

\* A nonempty set of numbers up to k has a greatest element.
LEMMA GreatestUpTo ==
  ASSUME NEW k \in Nat, NEW T \in SUBSET (0..k), T # {}
  PROVE  Max(T) \in T
<1> DEFINE D == {n \in Nat : k - n \in T}
<1>1. D \in SUBSET Nat /\ D # {}
  <2>1. PICK x \in T : TRUE OBVIOUS
  <2>2. x \in 0..k /\ k - x \in Nat /\ k - (k - x) = x BY <2>1
  <2>3. k - x \in D BY <2>2
  <2> QED BY <2>3
<1> HIDE DEF D
<1>2. PICK n \in D : \A m \in D : n <= m BY <1>1, LeastNat
<1> USE DEF D
<1>3. n \in Nat /\ k - n \in T OBVIOUS
<1>4. ASSUME NEW y \in T PROVE k - n >= y
  <2>1. y \in 0..k /\ k - y \in Nat /\ k - (k - y) = y OBVIOUS
  <2>2. k - y \in D BY <2>1
  <2>3. n <= k - y BY <1>2, <2>2
  <2> QED BY <1>3, <2>1, <2>3
<1> QED BY <1>3, <1>4 DEF Max

\* trim leaves a text.
LEMMA TrimmedIsText ==
  ASSUME NEW s \in Text PROVE Trimmed(s) \in Text
<1> DEFINE kept == {k \in 1..Len(s) : s[k] \notin Spaces}
<1>1. Len(s) \in Nat BY DEF Text
<1>2. CASE kept = {} BY <1>2 DEF Trimmed, Text
<1>3. CASE kept # {}
  <2>1. kept \in SUBSET (0..Len(s)) /\ kept \in SUBSET Nat /\ kept \in SUBSET (1..Len(s)) BY <1>1
  <2>2. Trimmed(s) = SubSeq(s, Min(kept), Max(kept)) BY <1>3 DEF Trimmed
  <2> HIDE DEF kept
  <2>3. Max(kept) \in 1..Len(s) BY <1>1, <1>3, <2>1, GreatestUpTo
  <2>4. Min(kept) \in 1..Len(s)
    <3>1. PICK n \in kept : \A m \in kept : n <= m BY <1>3, <2>1, LeastNat
    <3>2. Min(kept) \in kept BY <3>1 DEF Min
    <3> QED BY <2>1, <3>2
  <2>5. SubSeq(s, Min(kept), Max(kept)) \in Text BY <1>1, <2>3, <2>4 DEF Text
  <2> QED BY <2>2, <2>5
<1> QED BY <1>2, <1>3

LEMMA EnterOk ==
  ASSUME BarIInv, SuggestsTexts, inline_completion # BPanic, Enter
  PROVE  BarIInv'
<1>1. Target \in Text
  <2>1. selected_suggestion # BNone => suggestions[selected_suggestion] \in Text BY DEF BarIInv, Offers
  <2>2. url \in Text BY DEF BarIInv, OnText
  <2>3. inline_completion # BNone => url \o inline_completion \in Text
    BY <2>2, OffsetConcat DEF BarIInv, Offers
  <2> DEFINE t == IF selected_suggestion # BNone THEN suggestions[selected_suggestion]
                  ELSE IF inline_completion # BNone THEN url \o inline_completion ELSE Trimmed(url)
  <2>4. t \in Text BY <2>1, <2>2, <2>3, TrimmedIsText
  <2>5. Target = WithScheme(t) BY DEF Target
  <2> HIDE DEF t
  <2> QED BY <2>4, <2>5, SchemeTexts
<1> DEFINE to == Target
<1>2. /\ url' = to /\ cursor' = Bytes(to) /\ selection' = BNone
      /\ IF to # url THEN Refreshed(to)
         ELSE inline_completion' = BNone /\ suggestions' = <<>> /\ selected_suggestion' = BNone
  BY DEF Enter
<1>3. to \in Text BY <1>1
<1> HIDE DEF to
<1>4. OnText(url, cursor, selection)' BY <1>2, <1>3, EndsAreBoundaries DEF OnText
<1>5. Offers(to, inline_completion', suggestions', selected_suggestion')
  <2>1. CASE to # url BY <1>2, <1>3, <2>1, RefreshedOffers
  <2>2. CASE to = url BY <1>2, <2>2 DEF Offers
  <2> QED BY <2>1, <2>2
<1> QED BY <1>2, <1>4, <1>5 DEF BarIInv

\* The word around a character of the text lies in the text.
LEMMA WordInText ==
  ASSUME url \in Text, NEW k \in 0..Len(url)
  PROVE  WordStart(k) \in 0..Len(url) /\ WordEnd(k) \in 0..Len(url)
<1>1. Len(url) \in Nat /\ k \in Nat /\ k <= Len(url) BY OffsetStep
<1>2. WordStart(k) \in 0..Len(url)
  <2> DEFINE S == {0} \cup {j \in 1..k : url[j] \in Separators}
  <2>1. S \in SUBSET (0..Len(url)) /\ S # {} BY <1>1
  <2>2. WordStart(k) = Max(S) BY DEF WordStart
  <2> HIDE DEF S
  <2>3. Max(S) \in S BY <1>1, <2>1, GreatestUpTo
  <2> QED BY <2>1, <2>2, <2>3
<1>3. WordEnd(k) \in 0..Len(url)
  <2> DEFINE S == {Len(url)} \cup {j \in k..(Len(url) - 1) : url[j + 1] \in Separators}
  <2>1. S \in SUBSET (0..Len(url)) /\ S \in SUBSET Nat /\ S # {} BY <1>1
  <2>2. WordEnd(k) = Min(S) BY DEF WordEnd
  <2> HIDE DEF S
  <2>3. \E x \in S : \A y \in S : x <= y BY <2>1, LeastNat
  <2>4. Min(S) \in S BY <2>3 DEF Min
  <2> QED BY <2>1, <2>2, <2>4
<1> QED BY <1>2, <1>3

LEMMA ClickOk ==
  ASSUME BarIInv, NEW at \in Boundaries(url), NEW clicks \in 1..3, ClickBar(at, clicks)
  PROVE  BarIInv'
<1>0. url \in Text /\ Len(url) \in Nat
  <2>1. url \in Text BY DEF BarIInv, OnText
  <2> QED BY <2>1, OffsetStep
<1>1. CASE clicks = 2 /\ url # <<>>
  <2> DEFINE k == CharsBefore(url, at)
             alone == WordStart(k) = WordEnd(k) /\ k < Len(url)
             from == IF alone THEN k ELSE WordStart(k)
             to == IF alone THEN k + 1 ELSE WordEnd(k)
  <2>1. /\ cursor' = Offset(url, to) /\ selection' = <<Offset(url, from), Offset(url, to)>>
        /\ UNCHANGED <<url, inline_completion, suggestions, selected_suggestion>>
    BY <1>1 DEF ClickBar, select_word_at_cursor
  <2>2. k \in 0..Len(url)
    <3>1. PICK j \in 0..Len(url) : at = Offset(url, j) BY DEF Boundaries
    <3>2. CharsBefore(url, at) = j BY <1>0, <3>1, BoundaryIsCount
    <3> QED BY <3>2
  <2> HIDE DEF k
  <2>3. WordStart(k) \in 0..Len(url) /\ WordEnd(k) \in 0..Len(url) BY <1>0, <2>2, WordInText
  <2>4. from \in 0..Len(url) /\ to \in 0..Len(url) BY <1>0, <2>2, <2>3
  <2> HIDE DEF from, to
  <2>5. Offset(url, from) \in Boundaries(url) /\ Offset(url, to) \in Boundaries(url) BY <2>4 DEF Boundaries
  <2>6. OnText(url, cursor, selection)' BY <1>0, <2>1, <2>5 DEF OnText
  <2> QED BY <2>1, <2>6 DEF BarIInv
<1>2. CASE clicks = 3
  <2>1. select_all BY <1>2 DEF ClickBar
  <2> QED BY <2>1, SelectAllOk
<1>3. CASE ~(clicks = 2 /\ url # <<>>) /\ clicks # 3
  <2>1. /\ cursor' = at /\ selection' = BNone
        /\ UNCHANGED <<url, inline_completion, suggestions, selected_suggestion>>
    BY <1>3 DEF ClickBar
  <2>2. OnText(url, cursor, selection)' BY <1>0, <2>1 DEF OnText
  <2> QED BY <2>1, <2>2 DEF BarIInv
<1> QED BY <1>1, <1>2, <1>3

\* set_displayed_url, with whichever suggestions are left.
LEMMA DisplayedOk ==
  ASSUME NEW text \in Text, set_displayed_url(text), suggestions' \in Seq(Text),
         selected_suggestion' # BNone => selected_suggestion' \in 1..Len(suggestions')
  PROVE  BarIInv'
<1>1. url' = text /\ cursor' = Bytes(text) /\ selection' = BNone /\ inline_completion' = BNone
  BY DEF set_displayed_url
<1>2. OnText(url, cursor, selection)' BY <1>1, EndsAreBoundaries DEF OnText
<1>3. Offers(url, inline_completion, suggestions, selected_suggestion)' BY <1>1 DEF Offers
<1> QED BY <1>2, <1>3 DEF BarIInv

\* Every step of the bar preserves the invariant.
LEMMA BarInductive ==
  ASSUME SuggestsTexts, BarIInv, [BarNext]_bar
  PROVE  BarIInv'
<1>0. suggestions \in Seq(Text) /\ (selected_suggestion # BNone => selected_suggestion \in 1..Len(suggestions))
  BY DEF BarIInv, Offers
<1>1. CASE UNCHANGED bar BY <1>1 DEF bar, BarIInv, OnText, Offers
<1> SUFFICES ASSUME BarNext PROVE BarIInv' BY <1>1
<1>2. ASSUME NEW text \in Inputs, insert_text(text) PROVE BarIInv'
  <2>1. text \in Text BY BarAssumption DEF Text
  <2> QED BY <1>2, <2>1, InsertOk
<1>3. CASE delete_backward \/ delete_forward \/ cut_text BY <1>3, DeleteOk
<1>4. ASSUME NEW extend \in BOOLEAN,
             move_left(extend) \/ move_right(extend) \/ move_to_start(extend) \/ move_to_end(extend)
      PROVE  BarIInv'
  BY <1>4, MoveOk
<1>5. CASE focused /\ select_all /\ UNCHANGED focused BY <1>5, SelectAllOk
<1>6. CASE ArrowUp \/ ArrowDown \/ Escape \/ Blur BY <1>6, ArrowOk
<1>7. CASE Enter BY <1>7, EnterOk DEF BarNext
<1>8. ASSUME NEW at \in Boundaries(url), extend_selection_to_x(at) PROVE BarIInv'
  BY <1>8, MovedOk DEF extend_selection_to_x
<1>9. ASSUME NEW at \in Boundaries(url), NEW clicks \in 1..3, ClickBar(at, clicks) PROVE BarIInv'
  BY <1>9, ClickOk
<1>10. ASSUME NEW i \in DOMAIN suggestions, ClickSuggestion(i) PROVE BarIInv'
  <2>1. suggestions[i] \in Text BY <1>0
  <2>2. WithScheme(suggestions[i]) \in Text BY <2>1, SchemeTexts
  <2>3. /\ set_displayed_url(WithScheme(suggestions[i]))
        /\ suggestions' = <<>> /\ selected_suggestion' = BNone
    BY <1>10 DEF ClickSuggestion
  <2>4. suggestions' \in Seq(Text) BY <2>3
  <2> QED BY <2>2, <2>3, <2>4, DisplayedOk
<1>11. ASSUME NEW text \in Commits, DocumentCommits(text) PROVE BarIInv'
  <2>1. text \in Text BY BarAssumption DEF Text
  <2>2. strip_bidi_overrides(text) \in Text BY <2>1, StrippedIsText
  <2>3. set_displayed_url(strip_bidi_overrides(text)) /\ UNCHANGED <<suggestions, selected_suggestion>>
    BY <1>11 DEF DocumentCommits
  <2>4. /\ suggestions' \in Seq(Text)
        /\ selected_suggestion' # BNone => selected_suggestion' \in 1..Len(suggestions')
    BY <1>0, <2>3
  <2> QED BY <2>2, <2>3, <2>4, DisplayedOk
<1> QED BY <1>2, <1>3, <1>4, <1>5, <1>6, <1>7, <1>8, <1>9, <1>10, <1>11 DEF BarNext

\* chrome_vello/state.rs: whatever is typed, pasted, deleted, selected, clicked
\* or loaded, in any order, cursor and selection lie on characters of the text
\* shown, and among characters that keep their width in lower case a completion
\* is cut without a panic and makes the text the first suggestion but for case.
THEOREM BarStaysCoherent ==
  ASSUME SuggestsTexts
  PROVE  BarSpec => []BarIsCoherent
<1>1. BarIInv /\ [BarNext]_bar => BarIInv' BY BarInductive
<1> QED BY <1>1, BarInitial, InvIsCoherent, PTL DEF BarSpec
=============================================================================
