-------------------------- MODULE MCTabNavigation --------------------------
(***************************************************************************)
(* Small instances of TabNavigation: two files in the start document's     *)
(* directory tree (f1 in a subdirectory, so that it does not contain f0),  *)
(* one outside it; two pages of host a, one of host b, one malformed host. *)
(***************************************************************************)
EXTENDS TabNavigation

MCNames == {"f0", "f1", "fx", "a", "a2", "b", "bad"}
MCHosts == {"a", "b", "none"}
MCHostOf == [n \in MCNames |-> CASE n \in {"a", "a2"} -> "a" [] n = "b" -> "b" [] OTHER -> "none"]
MCWellFormed == {"a", "a2", "b"}
MCControl == {}
MCSandbox == {<<n, n>> : n \in MCNames} \cup {<<"f0", "f1">>}
MCDefaultURL == Mizu("b")

Blank == AboutBlank
LocalStart == File("f0")

MixedTargets ==
  {AboutBlank, [scheme |-> "bare", name |-> "f1"], File("fx"), Mizu("a"), Mizu("bad"),
   [scheme |-> "http", name |-> "a"]}
RemoteTargets == {Mizu("a"), Mizu("a2"), Mizu("b")}
TwoTargets == {Mizu("a"), Mizu("b")}

=============================================================================
