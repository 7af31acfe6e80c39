------------------------------ MODULE MCWindow ------------------------------
(***************************************************************************)
(* The window and its address bar.  The bar shares no state with the event *)
(* loop, so a behaviour exercises one of them.  Each scene gives the loop  *)
(* the inputs of one question: the order of three tabs, resizes, timers,   *)
(* navigations, files that cannot be read, an image two tabs show.         *)
(***************************************************************************)
EXTENDS Window, UrlBar
VARIABLES
  part,
  age       \* history: ticks since the timer of the first tab last fired

Quiet == [sizes |-> {}, minimise |-> FALSE, timers |-> <<>>, image |-> FALSE, targets |-> {},
          clicks |-> 0, answers |-> {"quiet"}, open_tabs |-> 2, ids |-> 2, unread |-> 1]
Strip == [Quiet EXCEPT !.open_tabs = 3, !.ids = 4]
Layouts == [Quiet EXCEPT !.sizes = {"small", "large"}, !.minimise = TRUE]
Events == [Layouts EXCEPT !.sizes = {"large"}, !.clicks = 1]
Clocks == [Quiet EXCEPT !.timers = <<1, 2>>, !.targets = {"file"}, !.answers = {"quiet", "mutates"}]
Loads == [Quiet EXCEPT !.targets = {"mizu"}, !.unread = 2]
Files == [Quiet EXCEPT !.targets = {"unreadable", "blocked"}, !.clicks = 1,
                       !.answers = {"navigates", "fetches"}]
Images == [Quiet EXCEPT !.image = TRUE, !.targets = {"file"}]
MCScenes == {Quiet, Strip, Layouts, Events, Clocks, Loads, Files, Images}

\* The document of the tutorial: one timer, whose action changes a variable.
OneTimer == {[Quiet EXCEPT !.timers = <<3>>, !.answers = {"mutates"}, !.open_tabs = 1]}
TwoTabsOneImage == {Images}

\* "s" stands for a scheme and "x" is a bidi control.  "A" is the capital of
\* "a"; "r", like the angstrom sign, is wider than its lower case "u", and "t"
\* is narrower than its own, "w".
MCWidth == [c \in BarChars |-> CASE c \in {"u", "t"} -> 2 [] c \in {"r", "w", "x"} -> 3 [] OTHER -> 1]
MCLower == [c \in BarChars |-> CASE c = "A" -> "a" [] c = "r" -> "u" [] c = "t" -> "w" [] OTHER -> c]

\* What starts with the text, then what only holds it.
Visited == <<<<"s", "a", "u">>, <<"s", "r">>, <<"s", "t", "t">>>>
Starts(v, text) == IsPrefix(Lower(text), Lower(v)) \/ IsPrefix(Lower(text), WithoutScheme(Lower(v)))
Holds(v, text) == \E k \in 1..(Len(v) - Len(text) + 1) : SubSeq(Lower(v), k, k + Len(text) - 1) = Lower(text)
MCSuggest(text) ==
  IF text = <<>> THEN <<>>
  ELSE SelectSeq(Visited, LAMBDA v : Starts(v, text))
         \o SelectSeq(Visited, LAMBDA v : ~Starts(v, text) /\ Holds(v, text))
MCInputs == {<<"A">>, <<"u">>, <<"r">>, <<" ">>, <<"s", "x", "t">>}
MCCommits == {<<"s", "u", "x">>, <<>>}

mcvars == <<wvars, bar, part, age>>

MCInit ==
  /\ WindowInit /\ BarInit /\ age = 0
  /\ part = "window" \/ (part = "bar" /\ scene = Quiet)

MCNext ==
  /\ UNCHANGED <<part, age>>
  /\ \/ part = "window" /\ WindowNext /\ UNCHANGED bar
     \/ part = "bar" /\ BarNext /\ UNCHANGED wvars

MCSpec == MCInit /\ [][MCNext]_mcvars /\ WindowFairness

\* The tick of a document's timer is due and no response of the worker starts
\* the timers over in the same pass.
TimerFires == phase = "awake" /\ phase' = "asleep" /\ Active.root_timer_queue[1] = 0 /\ ~StateChanged

AgedInit == WindowInit /\ BarInit /\ part = "window" /\ age = 0

AgedNext ==
  /\ WindowNext
  /\ age' = IF TimerFires THEN 0
            ELSE IF Tick
                 THEN age + 1 ELSE age
  /\ UNCHANGED <<bar, part>>

AgedSpec == AgedInit /\ [][AgedNext]_mcvars

\* docs/tutorial/index.md: "timer 1000ms -> action -- fires the action once
\* per second": while the loop is never late, no timer is left for longer
\* than its period (schedule_next_wakeup, setup_timers).
TimersKeepTime == age <= scene.timers[1]
=============================================================================
