------------------------------ MODULE MCTimer -------------------------------
(* Small instances of Timer.  Client threads are interchangeable, and so   *)
(* are the one-shot alarms of one listener: ids are given out at use.      *)
EXTENDS Timer, TLC

Symmetry == Permutations(Client) \union Permutations(ListenerAlarms \ Periodic)
=============================================================================
