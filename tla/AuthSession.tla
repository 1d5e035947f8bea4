---------------------------- MODULE AuthSession ----------------------------
(***************************************************************************)
(* What a connection between two cores promises, without its messages.     *)
(* Each end may vouch for the peer whose credentials it accepted.  An end  *)
(* opens to traffic only when both ends have vouched for each other.  A    *)
(* client end counts itself mapped only after its server did, unless the   *)
(* server has left.                                                        *)
(***************************************************************************)
CONSTANTS Ends, Peer, Clients

VARIABLES vouched,   \* the ends that accepted their peer
          stage      \* what each end admits

avars == <<vouched, stage>>

Init ==
  /\ vouched = {}
  /\ stage = [e \in Ends |-> "closed"]

Vouch(e) ==
  /\ stage[e] # "gone"
  /\ vouched' = vouched \cup {e}
  /\ UNCHANGED stage

\* The step that opens an end may be the one in which it vouches.
Open(e) ==
  /\ stage[e] = "closed"
  /\ Peer[e] \in vouched
  /\ vouched' = vouched \cup {e}
  /\ stage' = [stage EXCEPT ![e] = "open"]

Attach(e) ==
  /\ stage[e] = "open"
  /\ e \in Clients => stage[Peer[e]] \in {"mapped", "gone"}
  /\ stage' = [stage EXCEPT ![e] = "mapped"]
  /\ UNCHANGED vouched

Leave(e) ==
  /\ stage' = [stage EXCEPT ![e] = "gone"]
  /\ UNCHANGED vouched

Next == \E e \in Ends : Vouch(e) \/ Open(e) \/ Attach(e) \/ Leave(e)

Spec == Init /\ [][Next]_avars
=============================================================================
