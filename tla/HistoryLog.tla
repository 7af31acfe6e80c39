----------------------------- MODULE HistoryLog -----------------------------
(***************************************************************************)
(* The browsing history (src/render/window/history) and its sidebar        *)
(* (src/render/history_sidebar): the log in memory, its encrypted file,    *)
(* the key in the OS keyring, and the panel that lists, opens and clears   *)
(* it.  One process; it runs on the window's thread, so only a crash can   *)
(* come between the steps of a save.  The keyring and the file system are  *)
(* external: a call of either may fail.                                    *)
(*                                                                         *)
(* A record is [url, title, at]; `at` is its second, unique here because   *)
(* every visit takes one.  Heights are integers.                           *)
(***************************************************************************)
EXTENDS Integers, Sequences, FiniteSets

CONSTANTS
  Pages, Titles,
  Queries,            \* what may be typed in the URL bar
  MaxSuggestions,     \* how many it asks for
  HitsUrl(_, _),      \* "prefix", "inside" or "no": query in URL, scheme aside
  HitsTitle(_, _),    \* whether the query is in the title
  MAX_LOG_ENTRIES, AUTOSAVE_INTERVAL, DAY,
  HEADER_HEIGHT, GROUP_ROW_H, ROW_H,
  WindowHeight,       \* height below the browser chrome
  ScrollSteps,        \* wheel deltas, SCROLL_STEP included
  HNone,
  MaxClock, MaxFaults \* bounds: seconds, external faults

ASSUME HistoryAssumption ==
  /\ MAX_LOG_ENTRIES \in Nat \ {0} /\ DAY \in Nat \ {0}
  /\ {HEADER_HEIGHT, GROUP_ROW_H, ROW_H, WindowHeight} \subseteq Nat \ {0}
  /\ ScrollSteps \subseteq Int /\ MaxSuggestions \in Nat

VARIABLES
  hlog, dirty,
  last_save,        \* seconds since the last save, or HNone
  hpc,              \* "run", "key", "tmp", "rename" or "down"
  leaving,          \* the save in progress is the one of the exit
  clearing,         \* the visits the Clear click in progress drops
  hkey,             \* the key that save holds
  file, tmp, bad,   \* history.bin, .bin.tmp, .bin.bad
  hring, hgenerated,\* the keyring's entry; keys generated
  now, faults,
  scroll_offset, hovered,
  cleared,          \* visits dropped by a Clear that was saved
  unread            \* the file was not read at launch

hvars == <<hlog, dirty, last_save, hpc, leaving, clearing, hkey, file, tmp, bad,
           hring, hgenerated, now, faults, scroll_offset, hovered, cleared, unread>>

\* A keyring entry that is not a key in hex.
Malformed == -1

\* Contents of a file: nothing, a blob cut short, or a sealed log.
NoFile == [is |-> "none"]
Torn == [is |-> "torn"]
encrypt_blob(k, log) == [is |-> "blob", key |-> k, log |-> log]
decrypt_blob(k, b) == IF b.is = "blob" /\ b.key = k THEN b.log ELSE HNone

HistoryInit ==
  /\ hlog = <<>> /\ dirty = FALSE /\ last_save = HNone /\ hpc = "run"
  /\ leaving = FALSE /\ clearing = {} /\ hkey = HNone
  /\ file = NoFile /\ tmp = NoFile /\ bad = NoFile
  /\ hring = HNone /\ hgenerated = 0 /\ now = 1 /\ faults = 0
  /\ scroll_offset = 0 /\ hovered = HNone
  /\ cleared = {} /\ unread = FALSE

Running == hpc = "run"
Keyring == <<hring, hgenerated>>
Files == <<file, tmp, bad>>
Panel == <<scroll_offset, hovered>>
Saver == <<hpc, leaving, clearing, hkey>>
Visits(log) == {log[i].at : i \in DOMAIN log}

-----------------------------------------------------------------------------
(* The log *)

push(log, r) ==
  IF log # <<>> /\ Head(log).url = r.url THEN <<r>> \o Tail(log)
  ELSE SubSeq(<<r>> \o log, 1,
              IF Len(log) + 1 > MAX_LOG_ENTRIES THEN MAX_LOG_ENTRIES ELSE Len(log) + 1)

from_newest_first(log) ==
  SubSeq(log, 1, IF Len(log) > MAX_LOG_ENTRIES THEN MAX_LOG_ENTRIES ELSE Len(log))

\* handle_navigate_success records the page.  A second goes by.
Visit(u, t) ==
  /\ Running /\ now < MaxClock
  /\ hlog' = push(hlog, [url |-> u, title |-> t, at |-> now])
  /\ dirty' = TRUE
  /\ now' = now + 1
  /\ last_save' = IF last_save = HNone THEN HNone ELSE last_save + 1
  /\ UNCHANGED <<Saver, Files, Keyring, faults, Panel, cleared, unread>>

Elapse ==
  /\ Running /\ now < MaxClock
  /\ now' = now + 1
  /\ last_save' = IF last_save = HNone THEN HNone ELSE last_save + 1
  /\ UNCHANGED <<hlog, dirty, Saver, Files, Keyring, faults, Panel, cleared, unread>>

Matches(q, r) == HitsUrl(q, r.url) # "no" \/ HitsTitle(q, r.title)

\* The members of S up to n, in their order.
InOrder(S, n) ==
  LET upto[k \in 0..n] == IF k = 0 THEN <<>>
                          ELSE IF k \in S THEN Append(upto[k - 1], k) ELSE upto[k - 1]
  IN upto[n]

\* The newest matching record of every URL.
Hits(log, q) ==
  {i \in DOMAIN log :
     Matches(q, log[i]) /\ \A j \in 1..(i - 1) : log[j].url = log[i].url => ~Matches(q, log[j])}

\* The stable sort: prefixes first, newest first within each rank.
Ranked(log, q) ==
  LET first == {i \in Hits(log, q) : HitsUrl(q, log[i].url) = "prefix"}
  IN InOrder(first, Len(log)) \o InOrder(Hits(log, q) \ first, Len(log))

autocomplete(log, q, limit) ==
  LET hits == Ranked(log, q)
      n == IF limit < Len(hits) THEN limit ELSE Len(hits)
  IN [i \in 1..n |-> log[hits[i]]]

-----------------------------------------------------------------------------
(* Saving and loading *)

\* get_or_create_history_key: the entry, or a new one saved in its place when
\* there is none or it is malformed.  The keyring may refuse either call.
get_or_create_history_key(k) ==
  \/ k = HNone /\ UNCHANGED Keyring
  \/ hring \in Nat /\ k = hring /\ UNCHANGED Keyring
  \/ /\ hring \notin Nat
     /\ k = hgenerated /\ hring' = hgenerated /\ hgenerated' = hgenerated + 1

\* The save returns: to the event loop, or out of the process.
SaveReturns ==
  /\ hpc' = IF leaving THEN "down" ELSE "run"
  /\ leaving' = FALSE /\ clearing' = {} /\ hkey' = HNone

\* save_to_disk is called: nothing to do, or a save begins.
BeginSave(d, drops, exit) ==
  IF d THEN /\ hpc' = "key" /\ leaving' = exit /\ clearing' = drops /\ UNCHANGED hkey
  ELSE /\ hpc' = IF exit THEN "down" ELSE "run"
       /\ leaving' = FALSE /\ clearing' = {} /\ UNCHANGED hkey

\* autosave, from the idle handler.
autosave ==
  /\ Running /\ dirty
  /\ (last_save # HNone) => (last_save >= AUTOSAVE_INTERVAL)
  /\ BeginSave(TRUE, {}, FALSE)
  /\ UNCHANGED <<hlog, dirty, last_save, Files, Keyring, now, faults, Panel, cleared, unread>>

SaveKey ==
  /\ hpc = "key"
  /\ \E k \in {HNone} \cup 0..hgenerated :
       /\ get_or_create_history_key(k)
       /\ IF k = HNone THEN SaveReturns
          ELSE hpc' = "tmp" /\ hkey' = k /\ UNCHANGED <<leaving, clearing>>
  /\ UNCHANGED <<hlog, dirty, last_save, Files, now, faults, Panel, cleared, unread>>

\* The write may fail half way, and the temporary file stays.
WriteTmp ==
  /\ hpc = "tmp"
  /\ \/ tmp' = encrypt_blob(hkey, hlog) /\ hpc' = "rename"
        /\ UNCHANGED <<leaving, clearing, hkey>>
     \/ tmp' \in {tmp, Torn} /\ SaveReturns
  /\ UNCHANGED <<hlog, dirty, last_save, file, bad, Keyring, now, faults, Panel, cleared, unread>>

\* Mutation: the log counts as saved whether or not the rename succeeds.
clean_anyway ==
  /\ hpc = "rename"
  /\ file' \in {tmp, file} /\ tmp' = NoFile
  /\ dirty' = FALSE /\ last_save' = 0
  /\ cleared' = cleared \cup clearing
  /\ SaveReturns
  /\ UNCHANGED <<hlog, bad, Keyring, now, faults, Panel, unread>>

RenameTmp ==
  /\ hpc = "rename" /\ tmp' = NoFile
  /\ \/ /\ file' = tmp
        /\ dirty' = FALSE /\ last_save' = 0
        /\ cleared' = cleared \cup clearing /\ unread' = FALSE
     \/ UNCHANGED <<file, dirty, last_save, cleared, unread>>
  /\ SaveReturns
  /\ UNCHANGED <<hlog, bad, Keyring, now, faults, Panel>>

\* The window is closed.
Leave ==
  /\ Running
  /\ BeginSave(dirty, {}, TRUE)
  /\ UNCHANGED <<hlog, dirty, last_save, Files, Keyring, now, faults, Panel, cleared, unread>>

\* The process dies; a write in progress may have been cut short.
HistoryCrash ==
  /\ hpc # "down" /\ hpc' = "down"
  /\ leaving' = FALSE /\ clearing' = {} /\ hkey' = HNone
  /\ tmp' \in IF hpc = "tmp" THEN {tmp, Torn} ELSE {tmp}
  /\ UNCHANGED <<hlog, dirty, last_save, file, bad, Keyring, now, faults, Panel, cleared, unread>>

\* Starting over with an empty log.
StartEmpty == hlog' = <<>>

\* load_from_disk, at launch.  A file that does not decrypt is set aside; the
\* data directory, the keyring or the read may fail.
load_from_disk ==
  /\ hpc = "down" /\ hpc' = "run"
  /\ dirty' = FALSE /\ last_save' = HNone
  /\ scroll_offset' = 0 /\ hovered' = HNone
  /\ \E k \in {HNone} \cup 0..hgenerated :
       /\ get_or_create_history_key(k)
       /\ \/ /\ k = HNone \/ file = NoFile
             /\ StartEmpty /\ unread' = (file # NoFile) /\ UNCHANGED Files
          \/ /\ k # HNone /\ decrypt_blob(k, file) # HNone
             /\ hlog' = from_newest_first(decrypt_blob(k, file))
             /\ unread' = FALSE /\ UNCHANGED Files
          \/ /\ k # HNone /\ file # NoFile /\ decrypt_blob(k, file) = HNone
             /\ StartEmpty
             /\ \/ bad' = file /\ file' = NoFile /\ unread' = FALSE /\ UNCHANGED tmp
                \/ unread' = TRUE /\ UNCHANGED Files
  /\ UNCHANGED <<leaving, clearing, hkey, now, faults, cleared>>

\* Outside the browser: the keyring entry is lost or spoiled, the file damaged.
Fault ==
  /\ faults < MaxFaults /\ faults' = faults + 1 /\ hpc = "down"
  /\ \/ hring' \in {HNone, Malformed} /\ UNCHANGED file
     \/ file # NoFile /\ file' = Torn /\ UNCHANGED hring
  /\ UNCHANGED <<hlog, dirty, last_save, Saver, tmp, bad, hgenerated, now, Panel,
                 cleared, unread>>

-----------------------------------------------------------------------------
(* The sidebar *)

days_ago(r) == IF r.at = 0 \/ now < r.at THEN 0 ELSE now \div DAY - r.at \div DAY

day_label(r) ==
  LET d == days_ago(r) IN
  CASE d = 0 -> <<"Today">> [] d = 1 -> <<"Yesterday">>
    [] d \in 2..6 -> <<"day", d>> [] d \in 7..29 -> <<"week", d \div 7>>
    [] d \in 30..364 -> <<"month", d \div 30>> [] OTHER -> <<"year", d \div 365>>

\* grouped_by_day: where a new group starts, and how many by entry i.
StartsGroup(log, i) == i = 1 \/ day_label(log[i]) # day_label(log[i - 1])
Groups(log, i) == Cardinality({j \in 1..i : StartsGroup(log, j)})

\* layout_rows: the top of entry i.
EntryTop(log, i) == Groups(log, i) * GROUP_ROW_H + (i - 1) * ROW_H

total_content_height(log) ==
  IF log = <<>> THEN 0 ELSE EntryTop(log, Len(log)) + ROW_H

\* Mutation: the header above the rows is not taken off.
headerless == WindowHeight

visible_height ==
  IF WindowHeight > HEADER_HEIGHT THEN WindowHeight - HEADER_HEIGHT ELSE 0

clamp_scroll(offset, log) ==
  LET slack == total_content_height(log) - visible_height
      most == IF slack > 0 THEN slack ELSE 0
  IN IF offset < 0 THEN 0 ELSE IF offset > most THEN most ELSE offset

\* history_sidebar_hit, inside the panel's column: y is below the chrome.  The
\* entry's number, or 0 for the panel's background.
hit(y, log, offset) ==
  IF y < HEADER_HEIGHT THEN 0
  ELSE LET doc == y - HEADER_HEIGHT + offset
           on == {i \in DOMAIN log : doc \in EntryTop(log, i)..(EntryTop(log, i) + ROW_H - 1)}
       IN IF on = {} THEN 0 ELSE CHOOSE i \in on : TRUE

hovered_entry(y) ==
  LET h == hit(y, hlog, scroll_offset) IN IF h = 0 THEN HNone ELSE h

\* The pointer moves over the open panel, or off it.
Hover ==
  /\ Running
  /\ \E y \in 0..WindowHeight : hovered' = hovered_entry(y)
  /\ hovered' # hovered
  /\ UNCHANGED <<hlog, dirty, last_save, Saver, Files, Keyring, now, faults, scroll_offset,
                 cleared, unread>>

Wheel ==
  /\ Running
  /\ \E d \in ScrollSteps : scroll_offset' = clamp_scroll(scroll_offset + d, hlog)
  /\ scroll_offset' # scroll_offset
  /\ UNCHANGED <<hlog, dirty, last_save, Saver, Files, Keyring, now, faults, hovered,
                 cleared, unread>>

toggle ==
  /\ Running
  /\ scroll_offset' = 0 /\ hovered' = HNone /\ Panel' # Panel
  /\ UNCHANGED <<hlog, dirty, last_save, Saver, Files, Keyring, now, faults, cleared, unread>>

clear == hlog' = <<>> /\ dirty' = TRUE

\* A click on Clear: the log is emptied and saved at once.
ClickClear ==
  /\ Running
  /\ clear
  /\ BeginSave(dirty', Visits(hlog), FALSE)
  /\ hovered' = HNone
  /\ cleared' = IF dirty' THEN cleared ELSE cleared \cup Visits(hlog)
  /\ UNCHANGED <<last_save, Files, Keyring, now, faults, scroll_offset, unread>>

HistoryStep ==
  \/ \E u \in Pages, t \in Titles : Visit(u, t)
  \/ Elapse \/ autosave \/ SaveKey \/ WriteTmp \/ RenameTmp \/ Leave \/ load_from_disk
  \/ Hover \/ Wheel \/ toggle \/ ClickClear \/ Fault

HistoryNext == HistoryStep \/ HistoryCrash

HistorySpec == HistoryInit /\ [][HistoryNext]_hvars

-----------------------------------------------------------------------------
(* Properties *)

\* "an interrupted save can never truncate real history": whatever is cut
\* short, history.bin is a whole log unless something outside damaged it.
NeverTorn == file = Torn => faults > 0

\* A log that is not dirty is the one on disk, through failed saves, crashes
\* and relaunches, unless the launch could not read the file.
CleanMeansSaved ==
  (Running /\ ~dirty /\ ~unread) =>
    IF file.is = "blob" THEN file.log = hlog ELSE hlog = <<>>

\* "'clear my history' must survive a crash": once a Clear has been saved, no
\* visit it dropped is in the log or in a file a later launch loads.
ClearSurvives ==
  cleared \cap (Visits(hlog) \cup (IF file.is = "blob" THEN Visits(file.log) ELSE {})) = {}

\* log.rs, save_to_disk: through crashes and failed steps the file is a whole
\* log, the one in memory whenever that counts as saved, and without what the
\* user cleared.
DiskHoldsTheLog == NeverTorn /\ CleanMeansSaved /\ ClearSurvives

\* The suggestions of the URL bar: one per URL, prefixes first, newest first
\* within a rank.  A matching record is left out only for a newer one of its
\* URL, or when the list is full of better ones.
SuggestionsRanked ==
  \A q \in Queries, limit \in 1..MaxSuggestions :
    LET s == autocomplete(hlog, q, limit)
        rank(r) == HitsUrl(q, r.url) = "prefix"
        Before(r, t) == IF rank(r) = rank(t) THEN r.at > t.at ELSE rank(r)
    IN /\ \A i, j \in DOMAIN s : i < j => s[i].url # s[j].url /\ Before(s[i], s[j])
       /\ \A k \in DOMAIN hlog : Matches(q, hlog[k]) =>
            \/ \E i \in DOMAIN s : s[i].url = hlog[k].url /\ s[i].at >= hlog[k].at
            \/ Len(s) = limit /\ \A i \in DOMAIN s : Before(s[i], hlog[k])

\* Every visit can be clicked: some offset the wheel may reach and some
\* point of the window below the panel's header hit it.
EveryVisitClickable ==
  Running => \A i \in DOMAIN hlog :
    \E offset \in 0..total_content_height(hlog) :
      /\ offset = clamp_scroll(offset, hlog)
      /\ \E y \in 0..(WindowHeight - 1) : hit(y, hlog, offset) = i

\* What the log is kept for: the URL bar and the panel offer the right visits.
HistoryShown == SuggestionsRanked /\ EveryVisitClickable

=============================================================================
