---------------------------- MODULE CoreFunctions ----------------------------
(***************************************************************************)
(* How a call of the library names a function of the core: the commands of *)
(* src/api/endpoint.c and the tables of src/core/core_module_api.c.        *)
(*                                                                         *)
(* A command carries the name of a core function, the type of its result,  *)
(* an id and its arguments up to the first NULL.  The core looks the name  *)
(* up in the table of that type; each entry first looks how many arguments *)
(* there are.  The result, if there is one, is sent back under the id.     *)
(*                                                                         *)
(* Of every name the library sends seventeen bytes.  A shorter one ends    *)
(* with its zero byte, where the core's sscanf stops: the variables for    *)
(* the type and the id keep what was on the stack.                         *)
(***************************************************************************)
EXTENDS Naturals

Entry(name, ret, min) == [name |-> name, ret |-> ret, min |-> min]

RegisterFunctions ==
  { Entry("register_endpoint", "int", 1), Entry("remove_endpoint__", "voi", 1),
    Entry("map______________", "int", 4), Entry("map_module_______", "int", 4),
    Entry("map_lookup_______", "voi", 3) }

UnmapFunctions ==
  { Entry("unmap", "int", 2),     Entry("unmap_connection", "int", 3),
    Entry("unmap_all", "int", 1), Entry("divert", "int", 3) }

SendFunctions ==
  { Entry("ep_send_message__", "voi", 3), Entry("ep_send_request__", "voi", 3),
    Entry("ep_send_response_", "voi", 3) }

QueueFunctions ==
  { Entry("ep_more_messages", "int", 1),  Entry("ep_more_requests", "int", 1),
    Entry("ep_more_responses", "int", 2), Entry("ep_fetch_message", "msg", 1),
    Entry("ep_fetch_request", "msg", 1),  Entry("ep_fetch_response", "msg", 2) }

StreamFunctions ==
  { Entry("ep_stream_start", "voi", 1), Entry("ep_stream_stop", "voi", 1),
    Entry("ep_stream_send", "voi", 2) }

NodeFunctions ==
  { Entry("add_manifest", "voi", 1), Entry("get_manifest", "str", 0),
    Entry("add_rdc", "voi", 2),      Entry("rdc_register", "voi", 0),
    Entry("rdc_unregister", "voi", 0) }

SettingFunctions ==
  { Entry("ep_add_filter____", "voi", 2), Entry("ep_reset_filter__", "voi", 1),
    Entry("ep_set_access____", "voi", 2), Entry("ep_reset_access__", "voi", 2) }

OtherFunctions ==
  { Entry("ep_get_all_conns_", "str", 1), Entry("get_remote_manif_", "str", 2),
    Entry("terminate________", "voi", 0), Entry("load_com_module__", "int", 1),
    Entry("load_acc_module__", "int", 1) }

\* _core_init.
Registered ==
  RegisterFunctions \cup UnmapFunctions \cup SendFunctions \cup QueueFunctions \cup
  StreamFunctions \cup NodeFunctions \cup SettingFunctions \cup OtherFunctions

-----------------------------------------------------------------------------
(* The library. *)

\* What a function of the library sends: name, type and number of arguments,
\* and whether it waits for the result.
Call(api, name, ret, args, waits) ==
  [api |-> api, name |-> name, ret |-> ret, args |-> args, waits |-> waits]

RegisterCalls ==
  { Call("endpoint_register", "register_endpoint", "int", 1, TRUE),
    Call("endpoint_remove", "remove_endpoint__", "voi", 1, FALSE) }

\* endpoint_send leaves out the id of the message.
MessageCalls ==
  { Call("endpoint_send_message", "ep_send_message__", "voi", 3, FALSE) }

ForwardCalls ==
  { Call("endpoint_send", "ep_send_message__", "voi", 2, FALSE) }

RequestCalls ==
  { Call("endpoint_send_request", "ep_send_request__", "voi", 3, FALSE),
    Call("endpoint_send_request_blocking", "ep_send_request__", "voi", 3, TRUE) }

ResponseCalls ==
  { Call("endpoint_send_response", "ep_send_response_", "voi", 3, FALSE),
    Call("endpoint_send_last_response", "ep_send_response_", "voi", 3, FALSE) }

StreamCalls ==
  { Call("endpoint_start_stream", "ep_stream_start", "voi", 1, FALSE),
    Call("endpoint_stop_stream", "ep_stream_stop", "voi", 1, FALSE),
    Call("endpoint_send_stream", "ep_stream_send", "voi", 2, FALSE) }

MoreCalls ==
  { Call("endpoint_more_messages", "ep_more_messages", "int", 1, TRUE),
    Call("endpoint_more_requests", "ep_more_requests", "int", 1, TRUE),
    Call("endpoint_more_responses", "ep_more_responses", "int", 2, TRUE) }

\* Mutant: the library uses the names the core knows.
FetchCallsAgreed ==
  { Call("endpoint_fetch_message", "ep_fetch_message", "msg", 1, TRUE),
    Call("endpoint_fetch_request", "ep_fetch_request", "msg", 1, TRUE),
    Call("endpoint_fetch_response", "ep_fetch_response", "msg", 2, TRUE) }

FetchCalls ==
  { Call("endpoint_fetch_message", "ep_receive_message", "msg", 1, TRUE),
    Call("endpoint_fetch_request", "ep_receive_request", "msg", 1, TRUE),
    Call("endpoint_fetch_response", "ep_receive_response", "msg", 2, TRUE) }

\* endpoint_set_filters(NULL) ends the arguments after the endpoint.
SettingCalls ==
  { Call("endpoint_add_filter", "ep_add_filter____", "voi", 2, FALSE),
    Call("endpoint_set_filters", "ep_reset_filter__", "voi", 1, FALSE),
    Call("endpoint_set_filters", "ep_reset_filter__", "voi", 2, FALSE),
    Call("endpoint_set_accesss", "ep_set_access____", "voi", 2, FALSE),
    Call("endpoint_reset_accesss", "ep_reset_access__", "voi", 2, FALSE) }

UpdateCalls ==
  { Call("ep_get_all_connections", "ep_get_all_conns_", "str", 1, TRUE),
    Call("endpoint_update_description", "update_description", "voi", 1, FALSE),
    Call("endpoint_update_resp", "update_resp", "voi", 1, FALSE),
    Call("endpoint_update_msg", "update_msg", "voi", 1, FALSE) }

MapCalls ==
  { Call("endpoint_map_to", "map______________", "int", 4, TRUE),
    Call("endpoint_map_module", "map_module_______", "int", 5, TRUE),
    Call("endpoint_map_lookup", "map_lookup_______", "voi", 4, FALSE) }

UnmapCalls ==
  { Call("endpoint_unmap_from", "unmap", "int", 2, TRUE),
    Call("endpoint_unmap_connection", "unmap_connection", "int", 3, TRUE),
    Call("endpoint_unmap_all", "unmap_all", "int", 1, TRUE),
    Call("endpoint_divert", "divert", "str", 4, TRUE) }

\* middleware.c.  mw_tell_register_rdcs leaves out the module.
NodeCalls ==
  { Call("mw_terminate_core", "terminate________", "voi", 0, FALSE),
    Call("mw_add_manifest", "add_manifest", "voi", 1, FALSE),
    Call("mw_get_manifest", "get_manifest", "str", 0, TRUE) }

RdcCalls ==
  { Call("mw_add_rdc", "add_rdc", "voi", 2, FALSE),
    Call("mw_register_rdcs", "rdc_register", "voi", 0, FALSE),
    Call("mw_tell_register_rdcs", "rdc_register", "voi", 1, FALSE),
    Call("mw_unregister_rdcs", "rdc_unregister", "voi", 0, FALSE),
    Call("mw_tell_unregister_rdcs", "rdc_unregister", "voi", 1, FALSE) }

LoadCalls ==
  { Call("mw_load_com_module", "load_com_module__", "int", 2, TRUE),
    Call("mw_load_access_module", "load_acc_module__", "int", 2, TRUE),
    Call("mw_get_remote_metdata", "get_remote_manif_", "str", 2, TRUE) }

\* The calls about an endpoint.
LibraryCalls ==
  RegisterCalls \cup MessageCalls \cup ForwardCalls \cup RequestCalls \cup
  ResponseCalls \cup StreamCalls \cup MoreCalls \cup
  FetchCalls \cup SettingCalls \cup UpdateCalls \cup MapCalls \cup UnmapCalls

-----------------------------------------------------------------------------
(* buffer_app_set and _core_call_array. *)

\* Mutant: every name fills its seventeen bytes.
ShortNamesNone == {}

\* The names of fewer than seventeen bytes.
ShortNames ==
  { "unmap", "unmap_connection", "unmap_all", "divert", "ep_more_messages",
    "ep_more_requests", "ep_stream_start", "ep_stream_stop", "ep_stream_send",
    "ep_fetch_message", "ep_fetch_request", "add_manifest", "get_manifest", "add_rdc",
    "rdc_register", "rdc_unregister", "update_resp", "update_msg" }

\* Whether the core finds a function for a call: with a short name it looks in
\* the table of whatever type is on the stack.
MayFind(call) ==
  IF call.name \in ShortNames
  THEN {FALSE, \E f \in Registered : f.name = call.name}
  ELSE {\E f \in Registered : f.name = call.name /\ f.ret = call.ret}

Enough(call) == \A f \in Registered : f.name = call.name => call.args >= f.min

\* Whether a result comes back under the id of the call.
Replies(call) == call.ret # "voi" /\ call.name \notin ShortNames
=============================================================================
