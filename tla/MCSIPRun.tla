------------------------------ MODULE MCSIPRun ------------------------------
(* Small instances of SIPRun for TLC.                                      *)
EXTENDS SIPRun, TLC

\* Threads of one kind are interchangeable.
ThreadSymmetry == Permutations(Apps) \cup Permutations(Receivers)
                      \cup Permutations(Timers)
=============================================================================
