---------------------------- MODULE EndpointTypes ----------------------------
(***************************************************************************)
(* The types of endpoints and what an endpoint of each type may do         *)
(* (src/common/endpoint_base.c).                                           *)
(***************************************************************************)

Responding == {"RESP", "RESP_P"}
Requesting == {"REQ", "REQ_P"}
Simple == {"SRC", "SNK", "SS"}
StreamTypes == {"STR_SRC", "STR_SNK"}

\* The types with a response.
TwoWay == Requesting \cup Responding \cup {"RR", "RR_P"}

EpTypes == Simple \cup TwoWay \cup StreamTypes

\* get_ep_type_matching_str.
Matching(t) ==
  CASE t = "SRC" -> "SNK" [] t = "SNK" -> "SRC"
    [] t = "REQ" -> "RESP" [] t = "RESP" -> "REQ"
    [] t = "REQ_P" -> "RESP_P" [] t = "RESP_P" -> "REQ_P"
    [] t = "STR_SRC" -> "STR_SNK" [] t = "STR_SNK" -> "STR_SRC"
    [] OTHER -> t

\* ep_match_type, which nothing calls.
EpMatchType(t, u) ==
  \/ <<t, u>> \in {<<"SRC", "SNK">>, <<"REQ", "RESP">>, <<"REQ_P", "RESP_P">>}
  \/ <<u, t>> \in {<<"SRC", "SNK">>, <<"REQ", "RESP">>, <<"REQ_P", "RESP_P">>}
  \/ t = u /\ t \in {"RR", "RR_P", "SS"}

\* ep_can_send.
EpCanSend == {"SRC", "REQ", "REQ_P", "RR", "RR_P", "SS", "STR_SRC"}
=============================================================================
