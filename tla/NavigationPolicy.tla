-------------------------- MODULE NavigationPolicy --------------------------
(***************************************************************************)
(* The pure navigation policy: crates/core/src/security/navigation/mod.rs  *)
(* (check_navigation and its helpers) and resolve_navigate_url of          *)
(* src/render/window/navigate.rs.                                          *)
(*                                                                         *)
(* A URL is a scheme and a name.  A name stands for everything after the   *)
(* scheme: a host with its path for mizu://, a canonical path for file://, *)
(* either of the two for a target written without a scheme.  What the      *)
(* policy asks of a name is given by the constants, so the theorems hold   *)
(* for every set of hosts and files.                                       *)
(***************************************************************************)

CONSTANTS
  Names,       \* hosts with their paths, and files
  Hosts,       \* hosts, lower-cased
  HostOf,      \* the lower-cased host of a name, as eq_ignore_ascii_case sees it
  WellFormed,  \* names whose host is non-empty and passes is_wellformed_mizu_host
  Control,     \* names holding an ASCII control byte
  Sandbox      \* <<cur, tgt>>: tgt is in the directory tree of cur's parent

\* Containment in a document's directory tree: a file is in its own
\* directory, and the directory of a contained file is contained.
ASSUME PolicyAssumption ==
  /\ HostOf \in [Names -> Hosts]
  /\ WellFormed \subseteq Names
  /\ Control \subseteq Names
  /\ WellFormed \cap Control = {}
  /\ Sandbox \subseteq Names \X Names
  /\ \A f \in Names : <<f, f>> \in Sandbox
  /\ \A f, g, h \in Names :
       <<f, g>> \in Sandbox /\ <<g, h>> \in Sandbox => <<f, h>> \in Sandbox

AboutBlank == [scheme |-> "about", name |-> "blank"]
Mizu(n) == [scheme |-> "mizu", name |-> n]
File(n) == [scheme |-> "file", name |-> n]

\* The URLs a tab can be committed to, and the strings it can be sent to:
\* "bare" is a target without "://", "http" also stands for https.
URL == [scheme : {"mizu", "file"}, name : Names] \cup {AboutBlank}
Target ==
  [scheme : {"mizu", "file", "http", "bare", "other"}, name : Names] \cup {AboutBlank}

-----------------------------------------------------------------------------
(* NavigationInitiator: the root cause, and whether it is wrapped in RedirectOf. *)

Root == {"UserGesture", "DocumentLogic", "HistoryStep"}
NavigationInitiator == [root : Root, redirect : BOOLEAN]
UserGesture == [root |-> "UserGesture", redirect |-> FALSE]
DocumentLogic == [root |-> "DocumentLogic", redirect |-> FALSE]
HistoryStep == [root |-> "HistoryStep", redirect |-> FALSE]

\* Mutation: the redirect of any navigation counts as the user's.
redirect_as_gesture(i) == [root |-> "UserGesture", redirect |-> TRUE]

\* redirect_of collapses chains: RedirectOf is never nested.
redirect_of(i) == [i EXCEPT !.redirect = TRUE]

has_user_agency(i) == i.root # "DocumentLogic"

-----------------------------------------------------------------------------

\* A malformed host is same-origin with nothing, itself included.
is_same_origin(current, target) ==
  /\ current.scheme = "mizu" /\ target.scheme = "mizu"
  /\ {current.name, target.name} \subseteq WellFormed
  /\ HostOf[current.name] = HostOf[target.name]

\* A bare target reads as a mizu:// URL.
Normalised(target) == IF target.scheme = "bare" THEN Mizu(target.name) ELSE target

\* Mutation: a history step may return to a file from anywhere.
verdict_history_file(current, target, initiator) ==
  LET effective == Normalised(target)
      local == /\ effective.scheme = "file"
               /\ current.scheme = "file" \/ initiator.root = "HistoryStep"
      remote == /\ effective.scheme = "mizu" /\ effective.name \in WellFormed
                /\ is_same_origin(current, effective) \/ has_user_agency(initiator)
  IN  {u \in {effective} : local \/ remote}

\* The verdict Allow(url) is {url}; Block is {}.
check_navigation(current, target, initiator) ==
  LET relative == target.scheme = "bare" /\ current.scheme = "file"
      effective == IF relative THEN target ELSE Normalised(target)
      local == effective.scheme = "file" /\ current.scheme = "file"
      remote == /\ effective.scheme = "mizu"
                /\ effective.name \in WellFormed
                /\ is_same_origin(current, effective) \/ has_user_agency(initiator)
  IN  {u \in {effective} : u.name \notin Control /\ (relative \/ local \/ remote)}

\* Mutation: the target is resolved but not contained.
resolve_uncontained(current, target) ==
  IF current.scheme = "file" /\ target.scheme \in {"bare", "file"}
  THEN {File(target.name)} ELSE {Normalised(target)}

\* None is {}: a remote document never reaches a file, a local document
\* reaches the files of its own directory tree.
resolve_navigate_url(current, target) ==
  LET fromFile == current.scheme = "file" /\ target.scheme \in {"bare", "file"}
      fromRemote == current.scheme = "mizu" /\ target.scheme = "file"
  IN  IF fromFile
      THEN {u \in {File(target.name)} : <<current.name, target.name>> \in Sandbox}
      ELSE {u \in {Normalised(target)} : ~fromRemote}

=============================================================================
