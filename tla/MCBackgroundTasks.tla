------------------------- MODULE MCBackgroundTasks -------------------------
(* Small instances of BackgroundTasks for TLC: the requests are            *)
(* interchangeable, and so are the workers.                                *)
EXTENDS BackgroundTasks, TLC

ProcessSymmetry == Permutations(Requests) \cup Permutations(Workers)
=============================================================================
