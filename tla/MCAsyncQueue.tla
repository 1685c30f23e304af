---------------------------- MODULE MCAsyncQueue ----------------------------
(* Two native threads, two holders, two payloads: enough for coalesced     *)
(* sends, a send during the callback and two producers on one queue.       *)
EXTENDS AsyncQueue
=============================================================================
