---------------------------- MODULE EndpointCalls ----------------------------
(***************************************************************************)
(* One endpoint: the application that owns it calls the core by the        *)
(* commands of CoreFunctions, and a mapped peer sends it messages          *)
(* (src/core/endpoint.c, core_module.c, src/api/endpoint.c).               *)
(*                                                                         *)
(* The thread that receives from the peer runs the endpoint's handler and  *)
(* then frees the message, whoever has kept a pointer to it; the thread    *)
(* that receives from the application runs the commands.  The application  *)
(* has one thread here and is answered in time (BlockingCall is about      *)
(* several, and late answers).                                             *)
(***************************************************************************)
EXTENDS CoreFunctions, EndpointTypes, Integers, Sequences, FiniteSets

CONSTANTS
  EpKinds,      \* the types of endpoints
  AppCalls,     \* the calls the application makes
  MaxMessages,  \* how many messages the peer sends; a bound
  MaxEndpoints, \* how often the endpoint is registered; a bound
  MaxFrames     \* how many frames wait in the socket pair; a bound

ASSUME EndpointCallsAssumption ==
  /\ EpKinds \subseteq EpTypes /\ AppCalls \subseteq LibraryCalls
  /\ MaxMessages \in Nat /\ MaxEndpoints \in Nat \ {0} /\ MaxFrames \in Nat

VARIABLES
  epType,    \* type of the endpoint
  queuing,   \* it has no handler
  lep,       \* the LOCAL_EP the core knows by its id: the n-th one made, 0 for none
  mappedTo,  \* the LOCAL_EP the STATE of the peer has, 0 for none
  messages, responses, \* the two queues of each LOCAL_EP
  filtered,  \* whether it has a filter
  arrived,   \* how many messages have come from the peer
  current,   \* the message its thread works on
  handled,   \* and whether it has been through the handler
  freedMsgs, \* the messages that were freed
  toApp,     \* the messages handed to the application's handler
  returned,  \* the last call of the library and what it returned
  epMode     \* "running", "crashed" or "app crashed"; or "undefined": the core
             \* has used freed memory

queues == <<messages, responses, filtered>>
fromPeer == <<arrived, current, handled, freedMsgs, toApp>>
epVars == <<epType, queuing, lep, mappedTo, queues, fromPeer, returned, epMode>>

Leps == 1..MaxEndpoints

\* No message; what a call returns: nothing yet, NULL, an int, a string.
NoMessage == [n |-> 0, status |-> "NONE", good |-> FALSE]
NotYet == [kind |-> "none"]
Null == [kind |-> "null"]
Code(i) == [kind |-> "int", code |-> i]
Result(m) == [kind |-> "msg", msg |-> m]

-----------------------------------------------------------------------------
(* What an endpoint of a type sends and how it is made. *)

\* core_ep_send_message, core_ep_send_request, core_ep_send_response: what an
\* endpoint of type t sends.  A response is always marked as the last one.
Sends(t) ==
  (IF t \in EpCanSend THEN {"MSG"} ELSE {}) \cup
  (IF t \in Requesting \cup {"RR"} THEN {"REQ"} ELSE {}) \cup
  (IF t \in Responding \cup {"RR"} THEN {"RESP_LAST"} ELSE {})

\* The constructors of the library: a type, and whether it queues. A source has
\* no handler, every other endpoint may have one.
NewPlain == {e \in (Simple \cup TwoWay) \X BOOLEAN : e[1] = "SRC" => e[2]}

NewStreams == {e \in StreamTypes \X BOOLEAN : e[1] = "STR_SRC" => e[2]}

\* With the schemata in files.
NewFromFile == NewPlain

\* endpoint_new.
NewEndpoints == {e \in NewPlain \cup NewStreams \cup NewFromFile : e[1] \in EpKinds}

EpInit ==
  /\ \E e \in NewEndpoints : epType = e[1] /\ queuing = e[2]
  /\ lep = 0 /\ mappedTo = 0
  /\ messages = [l \in Leps |-> <<>>]
  /\ responses = [l \in Leps |-> <<>>]
  /\ filtered = [l \in Leps |-> FALSE]
  /\ arrived = 0 /\ current = NoMessage /\ handled = FALSE
  /\ freedMsgs = {}
  /\ toApp = <<>>
  /\ returned = [api |-> "", value |-> NotYet]
  /\ epMode = "running"

-----------------------------------------------------------------------------
(* Messages from the peer. *)

Arrive ==
  /\ epMode = "running" /\ mappedTo # 0
  /\ current = NoMessage /\ arrived < MaxMessages
  /\ \E status \in Sends(Matching(epType)), good \in BOOLEAN :
       current' = [n |-> arrived + 1, status |-> status, good |-> good]
  /\ arrived' = arrived + 1
  /\ handled' = FALSE
  /\ UNCHANGED <<epType, queuing, lep, mappedTo, queues, freedMsgs, toApp,
                 returned, epMode>>

\* The queue ep_default_handler_queuing puts message m in.
ToMessages(m, t) ==
  \/ m.status = "REQ" /\ t \in Responding
  \/ m.status = "MSG" /\ t \in {"SNK", "SS"}

ToResponses(m, t) == m.status \in {"RESP_NEXT", "RESP_LAST"} /\ t \in Requesting

Passes(m, l) == filtered[l] => m.good

\* Mutant: the handler that queues hands the message on as well.
HandleBoth ==
  /\ epMode = "running" /\ current # NoMessage /\ ~handled
  /\ Len(toApp) < MaxFrames
  /\ handled' = TRUE
  /\ messages' = IF queuing THEN [messages EXCEPT ![mappedTo] = Append(@, current)] ELSE messages
  /\ toApp' = Append(toApp, current)
  /\ UNCHANGED <<epType, queuing, lep, mappedTo, responses, filtered, arrived, current,
                 freedMsgs, returned, epMode>>

\* ep_default_handler_queuing, ep_default_handler_send_to_app; the filters are
\* for the queues only.
Handle ==
  /\ epMode = "running" /\ current # NoMessage /\ ~handled
  /\ Len(toApp) < MaxFrames
  /\ handled' = TRUE
  /\ IF queuing
     THEN /\ messages' = IF ToMessages(current, epType) /\ Passes(current, mappedTo)
                         THEN [messages EXCEPT ![mappedTo] = Append(@, current)] ELSE messages
          /\ responses' = IF ToResponses(current, epType) /\ Passes(current, mappedTo)
                          THEN [responses EXCEPT ![mappedTo] = Append(@, current)] ELSE responses
          /\ UNCHANGED toApp
     ELSE toApp' = Append(toApp, current) /\ UNCHANGED <<messages, responses>>
  /\ UNCHANGED <<epType, queuing, lep, mappedTo, filtered, arrived, current,
                 freedMsgs, returned, epMode>>

\* buffer_update frees the message when its callback is back.
Free ==
  /\ epMode = "running" /\ current # NoMessage /\ handled
  /\ freedMsgs' = freedMsgs \cup {current}
  /\ current' = NoMessage
  /\ UNCHANGED <<epType, queuing, lep, mappedTo, queues, arrived, handled, toApp,
                 returned, epMode>>

-----------------------------------------------------------------------------
(* Commands of the application. *)

\* The core ends with the command.
Crash(c, mode) ==
  /\ epMode' = mode
  /\ returned' = [api |-> c.api, value |-> NotYet]
  /\ UNCHANGED <<lep, mappedTo, queues>>

\* The core has run the command; the library returns what it sends back, NULL
\* after five seconds if that is nothing, or at once if it does not wait.
\* endpoint_unmap_all reads a number from what comes back, and from NULL.
Answer(c, value) ==
  /\ returned' = [api |-> c.api, value |-> IF c.waits /\ Replies(c) THEN value ELSE Null]
  /\ epMode' = IF c.api = "endpoint_unmap_all" /\ returned'.value = Null
               THEN "app crashed" ELSE epMode

Answered(c, value) == Answer(c, value) /\ UNCHANGED <<lep, mappedTo, queues>>

\* core_register_endpoint: a new LOCAL_EP takes the place of one with the same
\* id, which the connections mapped to it keep; it may be refused.
CoreRegisterEndpoint(c) ==
  \/ /\ lep < MaxEndpoints
     /\ lep' = lep + 1
     /\ Answer(c, Code(0))
     /\ UNCHANGED <<mappedTo, queues>>
  \/ lep = 0 /\ Answered(c, Code(-2))

\* ep_unmap_all tells each mapped peer, and makes that message from NULL.
CoreUnmapAll(c) == IF mappedTo = lep THEN Crash(c, "crashed") ELSE Answered(c, Code(0))

\* ep_local_remove: ep_unmap_all as above; then ep_local_free frees the LOCAL_EP
\* twice, the first time as the data of its own ENDPOINT in endpoint_free.
CoreRemoveEndpoint(c) ==
  CASE lep = 0 -> Answered(c, Null)
    [] lep # 0 /\ mappedTo = lep -> Crash(c, "crashed")
    [] OTHER -> Crash(c, "undefined")

\* core_map_all_modules, core_map_module: see CoreMap.
CoreMapCall(c) ==
  \/ mappedTo = 0 /\ lep # 0 /\ mappedTo' = lep /\ Answer(c, Code(0)) /\ UNCHANGED <<lep, queues>>
  \/ Answered(c, Code(-1))

CoreUnmapCall(c) ==
  \/ CoreUnmapAll(c)
  \/ c.name # "unmap_all" /\ Answered(c, Code(0))

\* core_divert: core_unmap, and then core_map_all_modules.
CoreDivert(c) == CoreUnmapAll(c) \/ CoreMapCall(c)

CoreMoreMessages(c) ==
  Answered(c, Code(IF epType \in {"SNK", "SS"} THEN Len(messages[lep]) ELSE -1))

CoreMoreRequests(c) ==
  Answered(c, Code(IF epType \in Requesting \cup {"RR"} THEN Len(messages[lep]) ELSE -1))

\* The id of each queued response is read.
ReadResponses(c, code) ==
  IF \E i \in DOMAIN responses[lep] : responses[lep][i] \in freedMsgs
  THEN Crash(c, "undefined") ELSE code

CoreMoreResponses(c) ==
  IF epType \in Responding \cup {"RR"}
  THEN ReadResponses(c, \E i \in 0..Len(responses[lep]) : Answered(c, Code(i)))
  ELSE Answered(c, Code(-1))

\* The message at the head of the queue, or NULL, is turned into a string.
FetchHead(c) ==
  CASE messages[lep] = <<>> -> Crash(c, "crashed")
    [] messages[lep] # <<>> /\ Head(messages[lep]) \in freedMsgs -> Crash(c, "undefined")
    [] OTHER -> /\ messages' = [messages EXCEPT ![lep] = Tail(@)]
                /\ Answer(c, Result(Head(messages[lep])))
                /\ UNCHANGED <<lep, mappedTo, responses, filtered>>

CoreFetchMessage(c) == IF epType \in {"SNK", "SS"} THEN FetchHead(c) ELSE Crash(c, "crashed")

CoreFetchRequest(c) == IF epType \in Requesting \cup {"RR"} THEN FetchHead(c) ELSE Crash(c, "crashed")

CoreFetchResponse(c) ==
  IF epType \in Responding \cup {"RR"} THEN ReadResponses(c, Crash(c, "crashed"))
  ELSE Crash(c, "crashed")

CoreAddFilter(c) ==
  /\ filtered' = [filtered EXCEPT ![lep] = TRUE]
  /\ Answer(c, Null)
  /\ UNCHANGED <<lep, mappedTo, messages, responses>>

\* core_ep_get_all_connections prints the number before it looks for NULL.
CoreGetAllConnections(c) == IF lep = 0 THEN Crash(c, "crashed") ELSE Answered(c, Result(NoMessage))

\* What takes the endpoint by its id and finds none.
Unknown(c) == IF c.ret = "msg" THEN Crash(c, "crashed")
           ELSE Answered(c, IF c.ret = "int" THEN Code(-2) ELSE Null)

\* With filters to set, core_reset_filter_array looks for them one argument
\* too far, and asks for the length of an array that is not there; only then
\* does it look for the endpoint.
CoreResetFilter(c) ==
  CASE c.args >= 2 -> Crash(c, "crashed")
    [] c.args < 2 /\ lep = 0 -> Unknown(c)
    [] OTHER -> /\ filtered' = [filtered EXCEPT ![lep] = FALSE]
                /\ Answer(c, Null)
                /\ UNCHANGED <<lep, mappedTo, messages, responses>>

\* The functions that change nothing here: those that send, the streams'
\* (Streams is about them) and the access lists', which do nothing.
Passive == {"ep_send_message__", "ep_send_request__", "ep_send_response_", "ep_stream_start",
            "ep_stream_stop", "ep_stream_send", "ep_set_access____", "ep_reset_access__"}

Function(c) ==
  \/ c.name = "register_endpoint" /\ CoreRegisterEndpoint(c)
  \/ c.name = "remove_endpoint__" /\ CoreRemoveEndpoint(c)
  \/ c.name \in {"map______________", "map_module_______", "map_lookup_______"} /\ CoreMapCall(c)
  \/ c.name = "ep_get_all_conns_" /\ CoreGetAllConnections(c)
  \/ c.name = "ep_reset_filter__" /\ CoreResetFilter(c)
  \/ /\ lep = 0 /\ c.name # "ep_reset_filter__"
     /\ c.name \in {f.name : f \in UnmapFunctions \cup SendFunctions \cup QueueFunctions
                                 \cup StreamFunctions \cup SettingFunctions}
     /\ Unknown(c)
  \/ /\ lep # 0
     /\ \/ c.name \in {"unmap", "unmap_connection", "unmap_all"} /\ CoreUnmapCall(c)
        \/ c.name = "ep_more_messages" /\ CoreMoreMessages(c)
        \/ c.name = "ep_more_requests" /\ CoreMoreRequests(c)
        \/ c.name = "ep_more_responses" /\ CoreMoreResponses(c)
        \/ c.name = "ep_fetch_message" /\ CoreFetchMessage(c)
        \/ c.name = "ep_fetch_request" /\ CoreFetchRequest(c)
        \/ c.name = "ep_fetch_response" /\ CoreFetchResponse(c)
        \/ c.name = "ep_add_filter____" /\ CoreAddFilter(c)
        \/ c.name = "divert" /\ CoreDivert(c)
        \/ c.name \in Passive /\ Answered(c, Null)

\* The application has the endpoint once endpoint_new is back, in which the
\* first call registers it; after endpoint_remove it has it no more.
Has(c) ==
  /\ returned.value = NotYet => c.api = "endpoint_register"
  /\ returned.api # "endpoint_remove"

\* core_on_component_message: run the command and send the result, if any.
Command(c) ==
  /\ epMode = "running" /\ Has(c)
  /\ \E found \in MayFind(c) :
       CASE ~found -> Answered(c, Null)
         [] found /\ ~Enough(c) ->
              IF c.ret = "msg" THEN Crash(c, "crashed")
              ELSE Answered(c, IF c.ret = "int" THEN Code(-1) ELSE Null)
         [] OTHER -> Function(c)
  /\ UNCHANGED <<epType, queuing, fromPeer>>

\* The application's handler takes the frames one after the other.
RunHandler ==
  /\ epMode = "running" /\ toApp # <<>>
  /\ toApp' = Tail(toApp)
  /\ UNCHANGED <<epType, queuing, lep, mappedTo, queues, arrived, current, handled,
                 freedMsgs, returned, epMode>>

EpNext ==
  \/ Arrive \/ Handle \/ Free \/ RunHandler
  \/ \E c \in AppCalls : Command(c)

EpSpec == EpInit /\ [][EpNext]_epVars

-----------------------------------------------------------------------------
(* Properties. *)

QueuedIn(l) == {messages[l][i] : i \in DOMAIN messages[l]} \cup
               {responses[l][i] : i \in DOMAIN responses[l]}

\* Every variable has its type; only a queuing endpoint has queues, and only
\* an endpoint with a handler hands messages over.
EpTypeOK ==
  /\ <<epType, queuing>> \in NewEndpoints
  /\ lep \in 0..MaxEndpoints /\ mappedTo \in 0..MaxEndpoints
  /\ arrived \in 0..MaxMessages
  /\ handled \in BOOLEAN
  /\ epMode \in {"running", "crashed", "app crashed", "undefined"}
  /\ ~queuing => \A l \in Leps : QueuedIn(l) = {}
  /\ queuing => toApp = <<>>

\* The commands of the library take the core down in four ways only: the
\* endpoint is mapped and it unmaps or removes it; it removes one that is not
\* mapped, whose LOCAL_EP is freed twice; the core has refused the endpoint and
\* it asks for its connections; it sets filters.  Above all, no command makes
\* the core read a message of a queue, though each is freed as soon as its
\* handler is back: what reads the queues has names the library does not use,
\* or is for types that queue nothing.
CrashHasCause ==
  /\ epMode = "crashed" =>
       \/ /\ lep # 0 /\ mappedTo = lep
          /\ returned.api \in {c.api : c \in UnmapCalls} \cup {"endpoint_remove"}
       \/ lep = 0 /\ returned.api = "ep_get_all_connections"
       \/ returned.api = "endpoint_set_filters"
  /\ epMode = "undefined" =>
       lep # 0 /\ mappedTo # lep /\ returned.api = "endpoint_remove"

\* The calls whose name for the core's function is short, or is not one it has.
Unanswerable ==
  {"endpoint_fetch_message", "endpoint_fetch_request", "endpoint_fetch_response",
   "endpoint_send_request_blocking", "endpoint_divert", "endpoint_more_messages",
   "endpoint_more_requests", "endpoint_unmap_from", "endpoint_unmap_connection",
   "endpoint_unmap_all"}

\* Whatever the core does for it, a call that waits gets a result if and only
\* if it is not one of these ten: the others always return NULL, or an error.
OnlyTenUnanswered ==
  \A c \in AppCalls :
    c.waits /\ returned.api = c.api /\ returned.value # NotYet =>
      (returned.value = Null <=> c.api \in Unanswerable)
=============================================================================
