-------------------------- MODULE MCStorageThreads --------------------------
(*****************************************************************************)
(* An instance of StorageThreads for TLC: of the threads that use the cache, *)
(* the task thread writes and the one of a request counts children.          *)
(*****************************************************************************)
EXTENDS StorageThreads

Roles == [t \in {"task", "http"} |->
            IF t = "task" THEN {"add", "update", "remove"} ELSE {"count"}]
=============================================================================
