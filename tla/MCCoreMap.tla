----------------------------- MODULE MCCoreMap -----------------------------
(* Instances of CoreMap for TLC: c1, c2 and c3 are connections the core may   *)
(* open, with far ends s1, s2 and s3; the core at far end r connected to ours *)
(* at l.                                                                      *)
EXTENDS CoreMap, TLC

CONSTANTS c1, s1, c2, s2, c3, s3, r, l, t1, t2

AllPeers == c1 :> s1 @@ s1 :> c1 @@ c2 :> s2 @@ s2 :> c2 @@ c3 :> s3 @@ s3 :> c3
            @@ r :> l @@ l :> r

MCPeer == [e \in Ends |-> AllPeers[e]]

\* One thread with one module.
OneModule == t1 :> <<c1>>

\* Two threads, one whose core_map_all_modules may open c2, then c3.
TwoThreads == t1 :> <<c1>> @@ t2 :> <<c2, c3>>

\* Every module is TCP.
NoFaults == [e \in Ends |-> {}]

\* The first module does not keep the order, the others are TCP.
FirstUnordered == [e \in Ends |-> IF e \in {c1, s1} THEN {"reorder"} ELSE {}]
=============================================================================
