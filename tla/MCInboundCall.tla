--------------------------- MODULE MCInboundCall ---------------------------
(* Small instances of InboundCall for TLC.                                 *)
EXTENDS InboundCall, TLC

\* Application threads are interchangeable; so are port numbers and calls.
AppSymmetry == Permutations(Apps)
FullSymmetry == Permutations(Apps) \cup Permutations(Calls) \cup Permutations(Ports)
                    \cup Permutations(Invites)
=============================================================================
