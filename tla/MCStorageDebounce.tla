-------------------------- MODULE MCStorageDebounce --------------------------
(* Small instances of StorageDebounce. *)
EXTENDS StorageDebounce
=============================================================================
