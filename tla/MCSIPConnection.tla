-------------------------- MODULE MCSIPConnection --------------------------
(* Small instances of SIPConnection for TLC.                               *)
EXTENDS SIPConnection

MCURIs == [scheme : {"sip", "sips"}, param : {None, "udp", "tcp", "tls"},
           bare : BOOLEAN]
MCDefaults == {None, "udp", "tls"}

Naptr(order, service, flag) ==
    [order |-> order, service |-> service, flag |-> flag]
MCNaptrs == {<<>>, <<Naptr(2, "udp", "s"), Naptr(1, "tcp", "s")>>,
             <<Naptr(1, "tls", "s"), Naptr(2, "udp", "s")>>,
             <<Naptr(1, "tcp", "u")>>}

Srv(priority, weight, host) ==
    [priority |-> priority, weight |-> weight, target |-> host]
MCSrvs == {<<>>, <<Srv(0, 0, "root")>>, <<Srv(0, 0, "empty")>>,
           <<Srv(1, 0, "host"), Srv(0, 0, "root")>>,
           <<Srv(2, 1, "host"), Srv(1, 2, "host"), Srv(1, 0, "empty"),
             Srv(1, 1, "host")>>}

\* Three messages: with a body that holds an empty line, without a body, and
\* without a length.
MCLayout == <<<<"head", "blank", "body", "blank">>, <<"head", "blank">>,
              <<"head", "head", "blank", "body">>>>
MCLengths == <<2, 0, Bad>>
MCStreams == {<<1, 0, 0, 2, 1>>, <<0, 2, 1, 0>>, <<2, 3, 2>>}
=============================================================================
