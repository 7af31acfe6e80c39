------------------------------- MODULE UrlBar -------------------------------
(***************************************************************************)
(* The address bar (src/render/chrome_vello/state.rs, handle_chrome_key):  *)
(* a text edited at byte offsets, with a selection, the suggestions taken  *)
(* from the history and the inline completion painted after the text.      *)
(*                                                                         *)
(* A character is a model value with a width in bytes; SchemeChar stands   *)
(* for "mizu://" and its like.  An offset that is not the start of a       *)
(* character panics in String::insert_str, remove and replace_range, and   *)
(* in the slice that makes the completion.  Lower case is taken character  *)
(* by character: of the two exceptions of Unicode, a final sigma is        *)
(* lowered like any other and a dotted capital I to one wider character.   *)
(***************************************************************************)
EXTENDS Integers, Sequences, FiniteSets, FiniteSetsExt, Functions, SequencesExt

CONSTANTS
  BarChars, SchemeChar,
  WidthOf,          \* bytes of a character
  LowerOf,          \* char::to_lowercase, which may change the width
  Overrides,        \* bidi controls, dropped from what is typed and pasted
  Separators,       \* where a double click stops
  Spaces,           \* what trim takes off
  Inputs,           \* texts of a key, and in the clipboard
  Commits,          \* URLs a navigation commits
  Suggest(_),       \* HistoryLog::autocomplete
  BNone, BPanic,
  MaxText           \* bound: characters in the bar

ASSUME BarAssumption ==
  /\ SchemeChar \in BarChars /\ Overrides \subseteq BarChars /\ Separators \subseteq BarChars
  /\ Spaces \subseteq BarChars
  /\ WidthOf \in [BarChars -> 1..4] /\ LowerOf \in [BarChars -> BarChars]
  /\ BPanic \notin Seq(BarChars)
  /\ Inputs \subseteq Seq(BarChars) /\ Commits \subseteq Seq(BarChars)
  /\ MaxText \in Nat

VARIABLES
  url, cursor, selection,
  inline_completion,   \* BPanic: the slice panicked and the browser is gone
  suggestions, selected_suggestion, focused

bar == <<url, cursor, selection, inline_completion, suggestions, selected_suggestion, focused>>

-----------------------------------------------------------------------------

\* The first byte of the k-th character of s, counting from 0; the last of
\* them is the length of the text.
Offset(s, k) == SumFunction([i \in 1..k |-> WidthOf[s[i]]])
Bytes(s) == Offset(s, Len(s))
Boundaries(s) == {Offset(s, k) : k \in 0..Len(s)}
CharsBefore(s, offset) == Cardinality({k \in 1..Len(s) : Offset(s, k - 1) < offset})

\* replace_range(lo..hi, text)
Spliced(s, lo, hi, text) ==
  SubSeq(s, 1, CharsBefore(s, lo)) \o text \o SubSeq(s, CharsBefore(s, hi) + 1, Len(s))

prev_char_boundary(from) == Max({b \in Boundaries(url) : b < from} \cup {0})
next_char_boundary(from) == Min({b \in Boundaries(url) : b > from} \cup {Bytes(url)})

Selected == selection # BNone /\ selection[1] # selection[2]
Lo == Min({selection[1], selection[2]})
Hi == Max({selection[1], selection[2]})
Anchor == IF selection # BNone THEN selection[1] ELSE cursor

Lower(s) == [k \in 1..Len(s) |-> LowerOf[s[k]]]

\* strip_prefix of a lower-cased URL.
WithoutScheme(lower) == IF lower # <<>> /\ lower[1] = SchemeChar THEN Tail(lower) ELSE lower

\* &s[from..]
Slice(s, from) ==
  IF from \in Boundaries(s) THEN SubSeq(s, CharsBefore(s, from) + 1, Len(s)) ELSE BPanic

\* What first adds to text.  The two are compared in lower case, and first is
\* cut as it is, at the bytes of the text as it was typed.  When lower case is
\* the longer, scheme_len is negative: a build with overflow checks panics, one
\* without adds it as it is.
Completions(text, first) ==
  LET lower == Lower(first)
      bare == WithoutScheme(lower)
      scheme_len == Bytes(first) - Bytes(bare)
  IN  IF IsPrefix(Lower(text), lower) THEN {Slice(first, Bytes(text))}
      ELSE IF IsPrefix(Lower(text), bare)
           THEN {Slice(first, scheme_len + Bytes(text))}
                  \cup {p \in {BPanic} : scheme_len < 0}
      ELSE {BNone}

\* handle_chrome_key once the text has changed: new suggestions, and what the
\* first of them adds to the text.
Refreshed(text) ==
  LET found == Suggest(text)
  IN  /\ suggestions' = found
      /\ selected_suggestion' = BNone
      /\ inline_completion' \in IF found = <<>> THEN {BNone} ELSE Completions(text, found[1])

\* An edit: the text and its offsets, then the suggestions if it differs.
Edit(text, at) ==
  /\ Len(text) <= MaxText
  /\ url' = text /\ cursor' = at /\ selection' = BNone
  /\ IF text # url THEN Refreshed(text)
     ELSE UNCHANGED <<inline_completion, suggestions, selected_suggestion>>
  /\ UNCHANGED focused

Moved(to, extend) ==
  /\ cursor' = to
  /\ selection' = IF extend THEN <<Anchor, to>> ELSE BNone
  /\ UNCHANGED <<url, inline_completion, suggestions, selected_suggestion, focused>>

-----------------------------------------------------------------------------
(* Keys, while the bar has the focus *)

strip_bidi_overrides(text) ==
  LET kept[n \in 0..Len(text)] ==
        IF n = 0 THEN <<>>
        ELSE IF text[n] \in Overrides THEN kept[n - 1] ELSE Append(kept[n - 1], text[n])
  IN  kept[Len(text)]

\* insert_text: what is typed or pasted replaces the selection.
insert_text(typed) ==
  LET text == strip_bidi_overrides(typed)
      base == IF Selected THEN Spliced(url, Lo, Hi, <<>>) ELSE url
      at == Min({IF Selected THEN Lo ELSE cursor, Bytes(base)})
  IN  focused /\ Edit(Spliced(base, at, at, text), at + Bytes(text))

\* delete_backward, also what Ctrl+X does to a selection.
delete_backward ==
  /\ focused
  /\ IF Selected THEN Edit(Spliced(url, Lo, Hi, <<>>), Lo)
     ELSE LET prev == prev_char_boundary(cursor)
          IN  Edit(Spliced(url, prev, cursor, <<>>), prev)

delete_forward ==
  /\ focused
  /\ IF Selected THEN Edit(Spliced(url, Lo, Hi, <<>>), Lo)
     ELSE Edit(Spliced(url, cursor, next_char_boundary(cursor), <<>>), cursor)

cut_text == focused /\ Selected /\ Edit(Spliced(url, Lo, Hi, <<>>), Lo)

\* Without Shift a selection collapses to its end in that direction.
move_left(extend) ==
  focused /\ Moved(IF ~extend /\ selection # BNone THEN Lo ELSE prev_char_boundary(cursor), extend)
move_right(extend) ==
  focused /\ Moved(IF ~extend /\ selection # BNone THEN Hi ELSE next_char_boundary(cursor), extend)
move_to_start(extend) == focused /\ Moved(0, extend)
move_to_end(extend) == focused /\ Moved(Bytes(url), extend)

select_all ==
  /\ cursor' = Bytes(url) /\ selection' = <<0, Bytes(url)>>
  /\ UNCHANGED <<url, inline_completion, suggestions, selected_suggestion>>

\* Up and Down walk the suggestions, and past either end of them select none.
ArrowUp ==
  /\ focused /\ suggestions # <<>>
  /\ selected_suggestion' = CASE selected_suggestion = BNone -> Len(suggestions)
                              [] selected_suggestion = 1 -> BNone
                              [] OTHER -> selected_suggestion - 1
  /\ UNCHANGED <<url, cursor, selection, inline_completion, suggestions, focused>>

ArrowDown ==
  /\ focused /\ suggestions # <<>>
  /\ selected_suggestion' = CASE selected_suggestion = BNone -> 1
                              [] selected_suggestion = Len(suggestions) -> BNone
                              [] OTHER -> selected_suggestion + 1
  /\ UNCHANGED <<url, cursor, selection, inline_completion, suggestions, focused>>

Escape ==
  /\ focused /\ focused' = FALSE
  /\ selection' = BNone /\ inline_completion' = BNone
  /\ suggestions' = <<>> /\ selected_suggestion' = BNone
  /\ UNCHANGED <<url, cursor>>

\* contains("://"), in any case.
WithScheme(s) ==
  IF s = <<>> \/ \E k \in DOMAIN s : LowerOf[s[k]] = SchemeChar THEN s ELSE <<SchemeChar>> \o s

Trimmed(s) ==
  LET kept == {k \in 1..Len(s) : s[k] \notin Spaces}
  IN  IF kept = {} THEN <<>> ELSE SubSeq(s, Min(kept), Max(kept))

\* Where Enter goes.
Target ==
  WithScheme(IF selected_suggestion # BNone THEN suggestions[selected_suggestion]
             ELSE IF inline_completion # BNone THEN url \o inline_completion
             ELSE Trimmed(url))

\* Enter.  handle_key drops the suggestions, and handle_chrome_key looks them
\* up again when the text is no longer what it was.
Enter ==
  /\ focused /\ focused' = FALSE
  /\ url' = Target /\ cursor' = Bytes(Target) /\ selection' = BNone
  /\ IF Target # url THEN Refreshed(Target)
     ELSE inline_completion' = BNone /\ suggestions' = <<>> /\ selected_suggestion' = BNone

-----------------------------------------------------------------------------
(* The mouse, and the documents that load *)

\* set_cursor_from_click at a boundary (url_cursor_from_x); a second click
\* selects the word around it, a third the whole text.
WordStart(k) == Max({0} \cup {j \in 1..k : url[j] \in Separators})
WordEnd(k) == Min({Len(url)} \cup {j \in k..(Len(url) - 1) : url[j + 1] \in Separators})

select_word_at_cursor(at) ==
  LET k == CharsBefore(url, at)
      alone == WordStart(k) = WordEnd(k) /\ k < Len(url)
      from == IF alone THEN k ELSE WordStart(k)
      to == IF alone THEN k + 1 ELSE WordEnd(k)
  IN  /\ cursor' = Offset(url, to)
      /\ selection' = <<Offset(url, from), Offset(url, to)>>
      /\ UNCHANGED <<url, inline_completion, suggestions, selected_suggestion>>

ClickBar(at, clicks) ==
  /\ focused' = TRUE
  /\ CASE clicks = 2 /\ url # <<>> -> select_word_at_cursor(at)
       [] clicks = 3 -> select_all
       [] OTHER -> /\ cursor' = at /\ selection' = BNone
                   /\ UNCHANGED <<url, inline_completion, suggestions, selected_suggestion>>

extend_selection_to_x(at) == focused /\ Moved(at, TRUE)

\* A click beside the bar takes the focus and nothing else.
Blur ==
  /\ focused /\ focused' = FALSE
  /\ UNCHANGED <<url, cursor, selection, inline_completion, suggestions, selected_suggestion>>

\* Mutation: the field is assigned directly.
keeps_offsets(text) == url' = text /\ inline_completion' = BNone /\ UNCHANGED <<cursor, selection>>

set_displayed_url(text) ==
  /\ url' = text
  /\ cursor' = Bytes(text)
  /\ selection' = BNone
  /\ inline_completion' = BNone

ClickSuggestion(i) ==
  /\ focused /\ focused' = FALSE
  /\ set_displayed_url(WithScheme(suggestions[i]))
  /\ suggestions' = <<>> /\ selected_suggestion' = BNone

\* handle_navigate_success and reload_tab_document: the suggestions stay.
DocumentCommits(text) ==
  /\ set_displayed_url(strip_bidi_overrides(text))
  /\ focused' = FALSE
  /\ UNCHANGED <<suggestions, selected_suggestion>>

-----------------------------------------------------------------------------

BarInit ==
  /\ url = <<>> /\ cursor = 0 /\ selection = BNone /\ inline_completion = BNone
  /\ suggestions = <<>> /\ selected_suggestion = BNone /\ focused = FALSE

BarNext ==
  /\ inline_completion # BPanic
  /\ \/ \E text \in Inputs : insert_text(text)
     \/ delete_backward \/ delete_forward \/ cut_text
     \/ \E extend \in BOOLEAN :
          move_left(extend) \/ move_right(extend) \/ move_to_start(extend) \/ move_to_end(extend)
     \/ focused /\ select_all /\ UNCHANGED focused
     \/ ArrowUp \/ ArrowDown \/ Escape \/ Enter
     \/ \E at \in Boundaries(url) :
          extend_selection_to_x(at) \/ \E clicks \in 1..3 : ClickBar(at, clicks)
     \/ Blur
     \/ \E i \in DOMAIN suggestions : ClickSuggestion(i)
     \/ \E text \in Commits : DocumentCommits(text)

BarSpec == BarInit /\ [][BarNext]_bar

-----------------------------------------------------------------------------
(* Properties *)

\* What set_displayed_url is there for: whatever replaces the text, the cursor
\* and both ends of the selection stay on characters of the text it now is.
OffsetsOnCharacters ==
  /\ cursor \in Boundaries(url)
  /\ selection # BNone => selection[1] \in Boundaries(url) /\ selection[2] \in Boundaries(url)

KeepsWidth(s) == \A k \in 1..Len(s) : WidthOf[LowerOf[s[k]]] = WidthOf[s[k]]

\* The completion painted after the text, which Enter appends to it, makes it
\* the first suggestion, with or without its scheme, but for the case of what
\* was typed; and cutting it off never panics.  Both hold of texts whose
\* characters take as many bytes in lower case.
CompletionFitsText ==
  inline_completion # BNone =>
    /\ suggestions # <<>>
    /\ KeepsWidth(url) /\ KeepsWidth(suggestions[1]) =>
         /\ inline_completion # BPanic
         /\ Lower(url \o inline_completion)
              \in {Lower(suggestions[1]), WithoutScheme(Lower(suggestions[1]))}

\* The URL bar, whatever typed, pasted, committed or displayed last: offsets and
\* completion belong to the text that is shown.
BarIsCoherent == OffsetsOnCharacters /\ CompletionFitsText

=============================================================================
