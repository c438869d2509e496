------------------------------ MODULE Resolver ------------------------------
(***************************************************************************)
(* SIPResolver (rfcvoip/SIPTransport.py): which transport a SIP URI asks   *)
(* for, and what the DNS records of a domain say about it.                 *)
(*                                                                         *)
(* A URI is a record: scheme, "sip" or "sips"; param, its transport        *)
(* parameter or None; bare, whether no DNS service may be looked up (a     *)
(* numeric host or an explicit port).  An answer to an SRV query is a      *)
(* sequence of [priority, weight, target], the target being a "host", the  *)
(* "root" that disables the service, or "empty"; <<>> is no answer, or a   *)
(* query that failed.                                                      *)
(***************************************************************************)
EXTENDS Integers, Sequences, SequencesExt, FiniteSets, FiniteSetsExt

CONSTANT None

ASSUME NoneAssumption == None \notin {"bad", "udp", "tcp", "tls"}

\* from_uri(); "bad" stands for its ValueError.
FromUri(param, scheme) ==
    IF scheme = "sips"
    THEN IF param \in {"tcp", "tls"} THEN "tls" ELSE "bad"
    ELSE IF param \in {"udp", "tcp", "tls"} THEN param ELSE "bad"

\* The transport a URI, or else the client, asks for; None leaves it open.
Asked(uri, default) ==
    IF uri.param # None THEN FromUri(uri.param, uri.scheme)
    ELSE IF uri.scheme = "sips" THEN "tls" ELSE default

\* The services of a NAPTR answer that a sip: URI can use, in their order.
Services(records) ==
    LET usable == SelectSeq(records, LAMBDA r :
                      r.flag = "s" /\ r.service \in {"udp", "tcp"})
    IN [i \in 1..Len(usable) |->
           SortSeq(usable, LAMBDA a, b : a.order < b.order)[i].service]

\* Without NAPTR, TCP is preferred to UDP; TLS is for sips: URIs.
Fallbacks == <<"tcp", "udp">>

(***************************************************************************)
(* SRV records                                                             *)
(***************************************************************************)
Available(answer) == SelectSeq(answer, LAMBDA r : r.target # "root")
Disabled(answer) == answer # <<>> /\ Available(answer) = <<>>

\* The records of the lowest priority, those of weight zero first.
Candidates(records) ==
    LET lowest == Min({records[i].priority : i \in 1..Len(records)})
        best == SelectSeq(records, LAMBDA r : r.priority = lowest)
    IN SelectSeq(best, LAMBDA r : r.weight = 0)
           \o SelectSeq(best, LAMBDA r : r.weight > 0)

Running(c, k) == FoldLeft(LAMBDA n, r : n + r.weight, 0, SubSeq(c, 1, k))
Total(c) == Running(c, Len(c))

\* Mutant: the sum has to exceed the ticket
ChosenAbove(c, ticket) ==
    LET above == {k \in 1..Len(c) : ticket < Running(c, k)}
    IN IF above = {} THEN Len(c) ELSE Min(above)
\* The first candidate whose sum of weights reaches the ticket.
Chosen(c, ticket) == Min({k \in 1..Len(c) : ticket <= Running(c, k)})

\* The candidates _pick_srv_record() may return.
Picks(records) ==
    LET c == Candidates(records)
    IN IF Total(c) = 0 THEN {c[k] : k \in 1..Len(c)}
       ELSE {c[Chosen(c, ticket)] : ticket \in 0..Total(c)}

\* What _resolve_srv_record() makes of an answer.
Verdicts(answer) ==
    IF answer = <<>> THEN {"none"}
    ELSE IF Disabled(answer) THEN {"disabled"}
    ELSE {IF r.target = "empty" THEN "none" ELSE "usable" :
              r \in Picks(Available(answer))}
=============================================================================
