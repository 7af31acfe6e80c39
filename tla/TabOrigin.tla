----------------------------- MODULE TabOrigin -----------------------------
(***************************************************************************)
(* What the navigation policy promises about the origin of a tab, without  *)
(* the machinery that enforces it: which document may follow which.        *)
(* TabNavigation implements it with origin <- tab.committed_url.           *)
(***************************************************************************)
EXTENDS NavigationPolicy

CONSTANT StartURL   \* the document the window starts with
VARIABLE origin     \* the URL of the committed document

Init == origin = StartURL

\* The blank page is reachable from everywhere.
GoBlank == origin' = AboutBlank

\* A file is reachable from a file whose directory tree holds it (N4).
GoLocal(f) ==
  /\ origin.scheme = "file"
  /\ <<origin.name, f>> \in Sandbox
  /\ origin' = File(f)

\* A well-formed mizu:// host is reachable from everywhere.
GoRemote(n) == origin' = Mizu(n)

Next ==
  \/ GoBlank
  \/ \E f \in Names : GoLocal(f)
  \/ \E n \in WellFormed : GoRemote(n)

Spec == Init /\ [][Next]_origin

=============================================================================
