--------------------------- MODULE CallLifecycle ---------------------------
(***************************************************************************)
(* What the phone promises of its calls, whoever drives them: a call moves *)
(* forward through its phases and never back, and an RTP port belongs to   *)
(* at most one call at a time, from the moment the call is built until its *)
(* resources are released.  InboundCall is proved to implement it, and     *)
(* OutboundCall as long as no released call enters its port again.         *)
(***************************************************************************)

CONSTANTS
    Calls,   \* call objects
    Ports,   \* local RTP ports of the phone
    None     \* "no port", not one of Ports

VARIABLES
    phase,   \* phase[c]: CallState of the call, "NONE" before it is built
    holds    \* holds[c]: the port reserved for the call, or None

vars == <<phase, holds>>

Init == /\ phase = [c \in Calls |-> "NONE"]
        /\ holds = [c \in Calls |-> None]

(* A call is built: it takes a port nobody holds.                          *)
Build(c, p) == /\ phase[c] = "NONE"
               /\ \A d \in Calls : holds[d] # p
               /\ phase' = [phase EXCEPT ![c] = "RINGING"]
               /\ holds' = [holds EXCEPT ![c] = p]

(* A call that cannot get its port ends before it ever rings.              *)
Refuse(c) == /\ phase[c] = "NONE"
             /\ phase' = [phase EXCEPT ![c] = "ENDED"]
             /\ UNCHANGED holds

Accept(c) == /\ phase[c] = "RINGING"
             /\ phase' = [phase EXCEPT ![c] = "ANSWERED"]
             /\ UNCHANGED holds

End(c) == /\ phase[c] \in {"RINGING", "ANSWERED"}
          /\ phase' = [phase EXCEPT ![c] = "ENDED"]
          /\ UNCHANGED holds

(* The port goes back to the pool, once.                                   *)
Release(c) == /\ holds[c] # None
              /\ holds' = [holds EXCEPT ![c] = None]
              /\ UNCHANGED phase

Next == \E c \in Calls :
            \/ \E p \in Ports : Build(c, p)
            \/ Refuse(c)
            \/ Accept(c)
            \/ End(c)
            \/ Release(c)

Spec == Init /\ [][Next]_vars
=============================================================================
