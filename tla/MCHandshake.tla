---------------------------- MODULE MCHandshake ----------------------------
(* Instances of Handshake for TLC: one or two connections.                  *)
EXTENDS Handshake, TLC

CONSTANTS c, s, c2, s2    \* two client ends and their server ends

MCPeer == [e \in Ends |-> (c :> s @@ s :> c @@ c2 :> s2 @@ s2 :> c2)[e]]

\* TCP.
NoFaults == [e \in Ends |-> {}]

\* UDP, on connections that may break.
AllFaults == [e \in Ends |-> Transport]
=============================================================================
