--------------------------- MODULE MCOutboundCall ---------------------------
(* Small instances of OutboundCall for TLC.                                *)
EXTENDS OutboundCall, TLC

\* Application threads are interchangeable; so are Call-IDs and ports.
AppSymmetry == Permutations(Apps)
FullSymmetry == Permutations(Apps) \cup Permutations(Calls)
                    \cup Permutations(Ports)
=============================================================================
