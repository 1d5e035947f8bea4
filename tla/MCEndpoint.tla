----------------------------- MODULE MCEndpoint -----------------------------
\* The endpoint's commands, the queries for endpoints and the access lists,
\* checked side by side: "part" says which of them a behaviour is about, and the
\* others stay in one of their initial states.
EXTENDS EndpointCalls, EndpointQueries, AccessControl, TLC

CONSTANTS hash1, hash2, name1

\* Calls that differ in what the core does for them.
MCCalls == {c \in LibraryCalls :
  c.api \notin {"endpoint_send", "endpoint_send_request", "endpoint_send_response",
    "endpoint_send_last_response", "endpoint_start_stream", "endpoint_stop_stream",
    "endpoint_set_accesss", "endpoint_reset_accesss", "endpoint_update_description",
    "endpoint_update_resp", "endpoint_map_module"}}

\* A name, and numbers that are and are not what a missing one, a whole one and
\* one with a fraction are read as.
MCUserFilters ==
  {TextFilter("ep_name", name1)} \cup
  {[prop |-> "num", sign |-> f[1], value |-> f[2]] : f \in {<<"=", -260>>, <<"=", 20>>, <<"<", 3>>}}

VARIABLE part

allVars == <<part, epVars, qrVars, accVars>>

EpStill == epType = "SNK" /\ queuing
QrStill == num = Absent

Init ==
  /\ EpInit /\ QrInit /\ AccInit
  /\ \/ part = "calls" /\ QrStill
     \/ part = "queries" /\ EpStill
     \/ part = "access" /\ EpStill /\ QrStill

Next ==
  /\ UNCHANGED part
  /\ \/ part = "calls" /\ EpNext /\ UNCHANGED <<qrVars, accVars>>
     \/ part = "queries" /\ QrNext /\ UNCHANGED <<epVars, accVars>>
     \/ part = "access" /\ AccNext /\ UNCHANGED <<epVars, qrVars>>

Spec == Init /\ [][Next]_allVars

\* Every variable of the three has its type.
EndpointTypeOK == EpTypeOK /\ QrTypeOK /\ AccTypeOK
=============================================================================
