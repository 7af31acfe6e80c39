--------------------------- MODULE MCLocalStorage ---------------------------
(* Small instances of LocalStorage: localhost, a local file and the start   *)
(* page, in three tiers.                                                   *)
EXTENDS LocalStorage, TLC
CONSTANTS v1, v2
MCUrls == {"blank", "localhost", "file"}
MCDomainOf == [u \in Urls |-> IF u = "blank" THEN "unknown" ELSE u]
MCQuotaOf == [u \in Urls |-> CASE u = "localhost" -> 4 [] u = "file" -> 3 [] OTHER -> 2]
KeySymmetry == Permutations(Keys)
MCBytes == [v \in Values |-> IF v = v1 THEN 1 ELSE 2]
=============================================================================
