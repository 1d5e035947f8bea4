--------------------------- MODULE EndpointProofs ---------------------------
(***************************************************************************)
(* Theorems about EndpointCalls, for an endpoint of any type and whatever  *)
(* calls of the library its application makes, in any order; about         *)
(* EndpointQueries, for any endpoints, filters and table; about            *)
(* AccessControl, for any libraries, connections, subjects and endpoints;  *)
(* and about the three side by side, as MCEndpoint puts them.              *)
(***************************************************************************)
EXTENDS MCEndpoint, SequenceTheorems, WellFoundedInduction, TLAPS

-----------------------------------------------------------------------------
(* EndpointCalls: what takes the core down, and which calls are answered.   *)

\* The calls that wait and are answered.
AnswerableCalls ==
  { Call("endpoint_register", "register_endpoint", "int", 1, TRUE),
    Call("endpoint_more_responses", "ep_more_responses", "int", 2, TRUE),
    Call("ep_get_all_connections", "ep_get_all_conns_", "str", 1, TRUE),
    Call("endpoint_map_to", "map______________", "int", 4, TRUE),
    Call("endpoint_map_module", "map_module_______", "int", 5, TRUE) }

Answerable == {"endpoint_register", "endpoint_more_responses", "ep_get_all_connections",
               "endpoint_map_to", "endpoint_map_module"}

UnmapApis == {"endpoint_unmap_from", "endpoint_unmap_connection", "endpoint_unmap_all",
              "endpoint_divert"}

ReceiveNames == {"ep_receive_message", "ep_receive_request", "ep_receive_response"}

\* What the names say of a call.
Named(c) ==
  /\ c.name = "remove_endpoint__" => c.api = "endpoint_remove"
  /\ c.name \in {"unmap", "unmap_connection", "unmap_all", "divert"} => c.api \in UnmapApis
  /\ c.name = "ep_get_all_conns_" => c.api = "ep_get_all_connections"
  /\ c.name = "ep_reset_filter__" => c.api = "endpoint_set_filters"
  /\ c.name \notin {"ep_fetch_message", "ep_fetch_request", "ep_fetch_response"}
  /\ c.ret = "msg" => c.name \in ReceiveNames

\* What the library makes of the answer.
Awaited(c) ==
  /\ c.waits => c.api \in Unanswerable \cup Answerable
  /\ c.api \in Answerable => c \in AnswerableCalls
  /\ c.api \in Unanswerable => ~Replies(c) \/ c.name \in ReceiveNames

LEMMA LibraryNamed == \A c \in LibraryCalls : Named(c)
<1> USE DEF Call, Named, ReceiveNames, UnmapApis
<1>1. \A c \in RegisterCalls \cup MessageCalls \cup ForwardCalls : Named(c)
  BY DEF RegisterCalls, MessageCalls, ForwardCalls
<1>2. \A c \in RequestCalls \cup ResponseCalls : Named(c)
  BY DEF RequestCalls, ResponseCalls
<1>3. \A c \in StreamCalls \cup MoreCalls : Named(c)
  BY DEF StreamCalls, MoreCalls
<1>4. \A c \in FetchCalls : Named(c)
  BY DEF FetchCalls
<1>5. \A c \in SettingCalls : Named(c)
  BY DEF SettingCalls
<1>6. \A c \in UpdateCalls \cup MapCalls : Named(c)
  BY DEF UpdateCalls, MapCalls
<1>7. \A c \in UnmapCalls : Named(c)
  BY DEF UnmapCalls
<1>8. QED
  BY <1>1, <1>2, <1>3, <1>4, <1>5, <1>6, <1>7 DEF LibraryCalls

LEMMA LibraryAwaited == \A c \in LibraryCalls : Awaited(c)
<1> USE DEF Call, Awaited, Answerable, Unanswerable, ReceiveNames
<1>1. \A c \in RegisterCalls \cup MessageCalls \cup ForwardCalls : Awaited(c)
  BY DEF RegisterCalls, MessageCalls, ForwardCalls, AnswerableCalls
<1>2. \A c \in RequestCalls \cup ResponseCalls : Awaited(c)
  BY DEF RequestCalls, ResponseCalls, Replies
<1>3. \A c \in StreamCalls \cup MoreCalls : Awaited(c)
  BY DEF StreamCalls, MoreCalls, Replies, ShortNames, AnswerableCalls
<1>4. \A c \in FetchCalls : Awaited(c)
  BY DEF FetchCalls
<1>5. \A c \in SettingCalls : Awaited(c)
  BY DEF SettingCalls
<1>6. \A c \in UpdateCalls \cup MapCalls : Awaited(c)
  BY DEF UpdateCalls, MapCalls, AnswerableCalls
<1>7. \A c \in UnmapCalls : Awaited(c)
  BY DEF UnmapCalls, Replies, ShortNames
<1>8. QED
  BY <1>1, <1>2, <1>3, <1>4, <1>5, <1>6, <1>7 DEF LibraryCalls

-----------------------------------------------------------------------------
(* The core finds what it can answer, and has arguments enough for it. *)

LEMMA AnswerableFound ==
  ASSUME NEW c \in AnswerableCalls
  PROVE  /\ c.waits /\ Replies(c)
         /\ \E f \in Registered : f.name = c.name /\ f.ret = c.ret
         /\ c.name \notin ShortNames
         /\ c.api \notin Unanswerable
<1>1. c.waits /\ c.ret \in {"int", "str"} /\ c.name \notin ShortNames /\ c.api \notin Unanswerable
  BY DEF AnswerableCalls, Call, ShortNames, Unanswerable
<1>2. \E f \in Registered : f.name = c.name /\ f.ret = c.ret
  <2> DEFINE Suits(f) == f \in Registered /\ f.name = c.name /\ f.ret = c.ret
  <2>1. CASE c = Call("endpoint_register", "register_endpoint", "int", 1, TRUE)
    <3>1. Suits(Entry("register_endpoint", "int", 1))
      BY <2>1 DEF Call, Entry, Registered, RegisterFunctions
    <3>2. QED
      BY <3>1
  <2>2. CASE c = Call("endpoint_more_responses", "ep_more_responses", "int", 2, TRUE)
    <3>1. Suits(Entry("ep_more_responses", "int", 2))
      BY <2>2 DEF Call, Entry, Registered, QueueFunctions
    <3>2. QED
      BY <3>1
  <2>3. CASE c = Call("ep_get_all_connections", "ep_get_all_conns_", "str", 1, TRUE)
    <3>1. Suits(Entry("ep_get_all_conns_", "str", 1))
      BY <2>3 DEF Call, Entry, Registered, OtherFunctions
    <3>2. QED
      BY <3>1
  <2>4. CASE c = Call("endpoint_map_to", "map______________", "int", 4, TRUE)
    <3>1. Suits(Entry("map______________", "int", 4))
      BY <2>4 DEF Call, Entry, Registered, RegisterFunctions
    <3>2. QED
      BY <3>1
  <2>5. CASE c = Call("endpoint_map_module", "map_module_______", "int", 5, TRUE)
    <3>1. Suits(Entry("map_module_______", "int", 4))
      BY <2>5 DEF Call, Entry, Registered, RegisterFunctions
    <3>2. QED
      BY <3>1
  <2>6. QED
    BY <2>1, <2>2, <2>3, <2>4, <2>5 DEF AnswerableCalls
<1>3. QED
  BY <1>1, <1>2 DEF Replies

LEMMA AnswerableEnough ==
  ASSUME NEW c \in AnswerableCalls
  PROVE  Enough(c)
<1>1. c.name \in {"register_endpoint", "ep_more_responses", "ep_get_all_conns_",
                  "map______________", "map_module_______"}
  BY DEF AnswerableCalls, Call
<1>2. \A f \in RegisterFunctions \cup UnmapFunctions : f.name = c.name => c.args >= f.min
  BY DEF AnswerableCalls, Call, RegisterFunctions, UnmapFunctions, Entry
<1>3. \A f \in SendFunctions \cup QueueFunctions : f.name = c.name => c.args >= f.min
  BY DEF AnswerableCalls, Call, SendFunctions, QueueFunctions, Entry
<1>4. \A f \in StreamFunctions \cup NodeFunctions \cup SettingFunctions : f.name # c.name
  BY <1>1 DEF StreamFunctions, NodeFunctions, SettingFunctions, Entry
<1>5. \A f \in OtherFunctions : f.name = c.name => c.args >= f.min
  BY DEF AnswerableCalls, Call, OtherFunctions, Entry
<1>6. QED
  BY <1>2, <1>3, <1>4, <1>5 DEF Enough, Registered

LEMMA ReceiveUnknown ==
  ASSUME NEW c, c.name \in ReceiveNames
  PROVE  c.name \notin ShortNames /\ \A f \in Registered : f.name # c.name
<1>1. c.name \notin ShortNames
  BY DEF ReceiveNames, ShortNames
<1>2. \A f \in RegisterFunctions \cup UnmapFunctions \cup SendFunctions \cup QueueFunctions :
        f.name # c.name
  BY DEF ReceiveNames, RegisterFunctions, UnmapFunctions, SendFunctions, QueueFunctions, Entry
<1>3. \A f \in StreamFunctions \cup NodeFunctions \cup SettingFunctions \cup OtherFunctions :
        f.name # c.name
  BY DEF ReceiveNames, StreamFunctions, NodeFunctions, SettingFunctions, OtherFunctions, Entry
<1>4. QED
  BY <1>1, <1>2, <1>3 DEF Registered

-----------------------------------------------------------------------------
(* What a command may do. *)

\* Only an endpoint that requests has responses in its queues.
ResponsesInv ==
  /\ lep \in 0..MaxEndpoints
  /\ epType \in Requesting \/ responses = [l \in Leps |-> <<>>]

\* The ways a call of api makes the core fail at once, and the one way it makes
\* it use freed memory.
Cause(api) ==
  \/ /\ lep # 0 /\ mappedTo = lep
     /\ api \in {c.api : c \in UnmapCalls} \cup {"endpoint_remove"}
  \/ lep = 0 /\ api = "ep_get_all_connections"
  \/ api = "endpoint_set_filters"

CauseOfUndefined(api) == lep # 0 /\ mappedTo # lep /\ api = "endpoint_remove"

EpInv ==
  /\ ResponsesInv
  /\ epMode = "undefined" => CauseOfUndefined(returned.api)
  /\ epMode = "crashed" => Cause(returned.api)
  /\ returned.api \in Unanswerable => returned.value \in {Null, NotYet}
  /\ returned.api \in Answerable => returned.value # Null

\* What EpInv asks of the command of a call.
Harmless(c) ==
  /\ lep' \in 0..MaxEndpoints /\ responses' = responses
  /\ epMode' = "undefined" => CauseOfUndefined(c.api)'
  /\ epMode' = "crashed" => Cause(c.api)'
  /\ returned'.api = c.api
  /\ returned'.value = Null => c.api \notin Answerable
  /\ returned'.value \in {Null, NotYet} \/ Replies(c)

LEMMA ResultsDiffer ==
  /\ Null # NotYet
  /\ \A i : Code(i) \notin {Null, NotYet}
  /\ \A m : Result(m) \notin {Null, NotYet}
<1>1. Null.kind = "null" /\ NotYet.kind = "none"
  BY DEF Null, NotYet
<1>2. \A i : Code(i).kind = "int"
  BY DEF Code
<1>3. \A m : Result(m).kind = "msg"
  BY DEF Result
<1>4. QED
  BY <1>1, <1>2, <1>3

LEMMA AnswerHarmless ==
  ASSUME NEW c \in LibraryCalls, NEW value, Answer(c, value), epMode = "running",
         value # Null \/ c.api \notin Answerable,
         lep' \in 0..MaxEndpoints, responses' = responses
  PROVE  Harmless(c)
<1>1. returned'.api = c.api
      /\ returned'.value = IF c.waits /\ Replies(c) THEN value ELSE Null
  BY DEF Answer
<1>2. epMode' \in {"running", "app crashed"}
  BY DEF Answer
<1>3. c.api \in Answerable => c.waits /\ Replies(c)
  BY LibraryAwaited, AnswerableFound DEF Awaited
<1>4. returned'.value = Null => c.api \notin Answerable
  BY <1>1, <1>3
<1>5. returned'.value \in {Null, NotYet} \/ Replies(c)
  BY <1>1
<1>6. QED
  BY <1>1, <1>2, <1>4, <1>5 DEF Harmless

LEMMA AnsweredHarmless ==
  ASSUME NEW c \in LibraryCalls, NEW value, Answered(c, value), epMode = "running",
         value # Null \/ c.api \notin Answerable, ResponsesInv
  PROVE  Harmless(c)
<1>1. lep' \in 0..MaxEndpoints /\ responses' = responses /\ Answer(c, value)
  BY DEF Answered, ResponsesInv, queues
<1>2. QED
  BY <1>1, AnswerHarmless

LEMMA CrashHarmless ==
  ASSUME NEW c \in LibraryCalls, NEW mode,
         Crash(c, mode), ResponsesInv,
         \/ mode = "crashed" /\ Cause(c.api)
         \/ mode = "undefined" /\ CauseOfUndefined(c.api)
  PROVE  Harmless(c)
<1>1. lep' = lep /\ mappedTo' = mappedTo /\ responses' = responses /\ epMode' = mode
      /\ returned'.api = c.api /\ returned'.value = NotYet
  BY DEF Crash, queues
<1>2. /\ Cause(c.api) => Cause(c.api)'
      /\ CauseOfUndefined(c.api) => CauseOfUndefined(c.api)'
  BY <1>1 DEF Cause, CauseOfUndefined
<1>3. QED
  BY <1>1, <1>2, ResultsDiffer DEF Harmless, ResponsesInv

\* A result of type void is not waited for by an answerable call.
LEMMA VoidHarmless ==
  ASSUME NEW c \in LibraryCalls, c.ret = "voi"
  PROVE  c.api \notin Answerable
  BY LibraryAwaited, AnswerableFound DEF Awaited, Replies

LEMMA UnmapCause ==
  ASSUME lep # 0, mappedTo = lep, NEW api \in UnmapApis \cup {"endpoint_remove"}
  PROVE  Cause(api)
<1>1. api \in {c.api : c \in UnmapCalls} \cup {"endpoint_remove"}
  BY DEF UnmapApis, UnmapCalls, Call
<1>2. QED
  BY <1>1 DEF Cause

-----------------------------------------------------------------------------
(* Each function of the core. *)

\* A type that responds has nothing in its queue of responses.
LEMMA ResponsesEmpty ==
  ASSUME ResponsesInv, lep # 0, epType \in Responding \cup {"RR"}
  PROVE  DOMAIN responses[lep] = {}
<1>1. epType \notin Requesting
  BY DEF Responding, Requesting
<1>2. lep \in Leps /\ responses = [l \in Leps |-> <<>>]
  BY <1>1, EndpointCallsAssumption DEF ResponsesInv, Leps
<1>3. responses[lep] = <<>>
  BY <1>2
<1>4. QED
  BY <1>3

LEMMA MoreResponsesHarmless ==
  ASSUME NEW c \in LibraryCalls, CoreMoreResponses(c), epMode = "running", ResponsesInv, lep # 0
  PROVE  Harmless(c)
<1>1. CASE epType \in Responding \cup {"RR"}
  <2>1. ~ \E i \in DOMAIN responses[lep] : responses[lep][i] \in freedMsgs
    BY <1>1, ResponsesEmpty
  <2>2. PICK i \in 0..Len(responses[lep]) : Answered(c, Code(i))
    BY <1>1, <2>1 DEF CoreMoreResponses, ReadResponses
  <2>3. QED
    BY <2>2, ResultsDiffer, AnsweredHarmless
<1>2. CASE epType \notin Responding \cup {"RR"}
  BY <1>2, ResultsDiffer, AnsweredHarmless DEF CoreMoreResponses
<1>3. QED
  BY <1>1, <1>2

LEMMA UnmapHarmless ==
  ASSUME NEW c \in LibraryCalls, c.name \in {"unmap", "unmap_connection", "unmap_all", "divert"},
         CoreUnmapCall(c) \/ CoreDivert(c), epMode = "running", ResponsesInv, lep # 0
  PROVE  Harmless(c)
<1>1. c.api \in UnmapApis /\ c.api \notin Answerable
  BY LibraryNamed DEF Named, UnmapApis, Answerable
<1>2. CASE CoreUnmapAll(c)
  <2>1. CASE mappedTo = lep
    BY <1>1, <1>2, <2>1, UnmapCause, CrashHarmless DEF CoreUnmapAll
  <2>2. CASE mappedTo # lep
    BY <1>1, <1>2, <2>2, AnsweredHarmless DEF CoreUnmapAll
  <2>3. QED
    BY <2>1, <2>2
<1>3. CASE Answered(c, Code(0)) \/ Answered(c, Code(-1))
  BY <1>1, <1>3, AnsweredHarmless
<1>4. CASE /\ mappedTo' = lep /\ Answer(c, Code(0)) /\ UNCHANGED <<lep, queues>>
  <2>1. lep' \in 0..MaxEndpoints /\ responses' = responses
    BY <1>4 DEF ResponsesInv, queues
  <2>2. QED
    BY <1>1, <1>4, <2>1, AnswerHarmless
<1>5. QED
  BY <1>2, <1>3, <1>4 DEF CoreUnmapCall, CoreDivert, CoreMapCall

LEMMA MapHarmless ==
  ASSUME NEW c \in LibraryCalls, CoreMapCall(c), epMode = "running", ResponsesInv
  PROVE  Harmless(c)
<1>1. CASE Answered(c, Code(-1))
  BY <1>1, ResultsDiffer, AnsweredHarmless
<1>2. CASE Answer(c, Code(0)) /\ UNCHANGED <<lep, queues>>
  <2>1. lep' \in 0..MaxEndpoints /\ responses' = responses
    BY <1>2 DEF ResponsesInv, queues
  <2>2. QED
    BY <1>2, <2>1, ResultsDiffer, AnswerHarmless
<1>3. QED
  BY <1>1, <1>2 DEF CoreMapCall

LEMMA RegisterHarmless ==
  ASSUME NEW c \in LibraryCalls, CoreRegisterEndpoint(c), epMode = "running", ResponsesInv
  PROVE  Harmless(c)
<1>1. CASE Answered(c, Code(-2))
  BY <1>1, ResultsDiffer, AnsweredHarmless
<1>2. CASE lep < MaxEndpoints /\ lep' = lep + 1 /\ Answer(c, Code(0)) /\ UNCHANGED <<mappedTo, queues>>
  <2>1. lep' \in 0..MaxEndpoints /\ responses' = responses
    BY <1>2, EndpointCallsAssumption DEF ResponsesInv, queues
  <2>2. QED
    BY <1>2, <2>1, ResultsDiffer, AnswerHarmless
<1>3. QED
  BY <1>1, <1>2 DEF CoreRegisterEndpoint

LEMMA RemoveHarmless ==
  ASSUME NEW c \in LibraryCalls, c.name = "remove_endpoint__", CoreRemoveEndpoint(c),
         epMode = "running", ResponsesInv
  PROVE  Harmless(c)
<1>1. c.api = "endpoint_remove"
  BY LibraryNamed DEF Named
<1>2. CASE mappedTo = lep /\ lep # 0
  BY <1>1, <1>2, UnmapCause, CrashHarmless DEF CoreRemoveEndpoint
<1>3. CASE lep = 0
  BY <1>1, <1>3, AnsweredHarmless DEF CoreRemoveEndpoint, Answerable
<1>4. CASE mappedTo # lep /\ lep # 0
  BY <1>1, <1>4, CrashHarmless DEF CoreRemoveEndpoint, CauseOfUndefined
<1>5. QED
  BY <1>2, <1>3, <1>4

\* What reaches no endpoint, and is for none of the queues of messages.
LEMMA UnknownHarmless ==
  ASSUME NEW c \in LibraryCalls, Unknown(c), c.name \notin ReceiveNames \cup {"ep_get_all_conns_"},
         epMode = "running", ResponsesInv
  PROVE  Harmless(c)
<1>1. c.ret # "msg"
  BY LibraryNamed DEF Named
<1>2. CASE c.ret = "int"
  BY <1>1, <1>2, ResultsDiffer, AnsweredHarmless DEF Unknown
<1>3. CASE c.ret # "int"
  <2>1. c.api \notin Answerable
    <3>1. c \notin AnswerableCalls
      BY <1>3 DEF AnswerableCalls, Call
    <3>2. QED
      BY <3>1, LibraryAwaited DEF Awaited
  <2>2. QED
    BY <1>1, <1>3, <2>1, AnsweredHarmless DEF Unknown
<1>4. QED
  BY <1>2, <1>3

LEMMA ConnectionsHarmless ==
  ASSUME NEW c \in LibraryCalls, c.name = "ep_get_all_conns_", CoreGetAllConnections(c),
         epMode = "running", ResponsesInv
  PROVE  Harmless(c)
<1>1. CASE lep = 0
  <2>1. Cause(c.api)
    BY <1>1, LibraryNamed DEF Named, Cause
  <2>2. QED
    BY <1>1, <2>1, CrashHarmless DEF CoreGetAllConnections
<1>2. CASE lep # 0
  BY <1>2, ResultsDiffer, AnsweredHarmless DEF CoreGetAllConnections
<1>3. QED
  BY <1>1, <1>2

\* The two functions that set filters.
LEMMA FilterHarmless ==
  ASSUME NEW c \in LibraryCalls,
         \/ c.name = "ep_reset_filter__" /\ CoreResetFilter(c)
         \/ c.name = "ep_add_filter____" /\ CoreAddFilter(c),
         epMode = "running", ResponsesInv
  PROVE  Harmless(c)
<1>1. c.api \notin Answerable
  <2>1. c \notin AnswerableCalls
    BY DEF AnswerableCalls, Call
  <2>2. QED
    BY <2>1, LibraryAwaited DEF Awaited
<1>2. CASE Answer(c, Null) /\ UNCHANGED <<lep, mappedTo, messages, responses>>
  BY <1>1, <1>2, AnswerHarmless DEF ResponsesInv
<1>3. CASE c.name = "ep_reset_filter__" /\ Crash(c, "crashed")
  <2>1. Cause(c.api)
    BY <1>3, LibraryNamed DEF Named, Cause
  <2>2. QED
    BY <1>3, <2>1, CrashHarmless
<1>4. CASE c.name = "ep_reset_filter__" /\ Unknown(c)
  BY <1>4, UnknownHarmless DEF ReceiveNames
<1>5. QED
  BY <1>2, <1>3, <1>4 DEF CoreResetFilter, CoreAddFilter

LEMMA FunctionHarmless ==
  ASSUME NEW c \in LibraryCalls, Function(c), epMode = "running", ResponsesInv
  PROVE  Harmless(c)
<1>1. CASE c.name = "register_endpoint" /\ CoreRegisterEndpoint(c)
  BY <1>1, RegisterHarmless
<1>2. CASE c.name = "remove_endpoint__" /\ CoreRemoveEndpoint(c)
  BY <1>2, RemoveHarmless
<1>3. CASE CoreMapCall(c)
  BY <1>3, MapHarmless
<1>4. CASE c.name = "ep_get_all_conns_" /\ CoreGetAllConnections(c)
  BY <1>4, ConnectionsHarmless
<1>5. CASE \/ c.name = "ep_reset_filter__" /\ CoreResetFilter(c)
           \/ c.name = "ep_add_filter____" /\ CoreAddFilter(c)
  BY <1>5, FilterHarmless
<1>6. CASE /\ c.name \in {f.name : f \in UnmapFunctions \cup SendFunctions \cup QueueFunctions
                                      \cup StreamFunctions \cup SettingFunctions}
           /\ Unknown(c)
  <2>1. c.name \notin ReceiveNames \cup {"ep_get_all_conns_"}
    <3>1. \A f \in UnmapFunctions \cup SendFunctions \cup QueueFunctions :
            f.name \notin ReceiveNames \cup {"ep_get_all_conns_"}
      BY DEF UnmapFunctions, SendFunctions, QueueFunctions, Entry, ReceiveNames
    <3>2. \A f \in StreamFunctions \cup SettingFunctions :
            f.name \notin ReceiveNames \cup {"ep_get_all_conns_"}
      BY DEF StreamFunctions, SettingFunctions, Entry, ReceiveNames
    <3>3. QED
      BY <1>6, <3>1, <3>2
  <2>2. QED
    BY <1>6, <2>1, UnknownHarmless
<1>7. CASE /\ lep # 0
           /\ \/ c.name \in {"unmap", "unmap_connection", "unmap_all"} /\ CoreUnmapCall(c)
              \/ c.name = "divert" /\ CoreDivert(c)
  BY <1>7, UnmapHarmless
<1>8. CASE CoreMoreMessages(c) \/ CoreMoreRequests(c)
  BY <1>8, ResultsDiffer, AnsweredHarmless DEF CoreMoreMessages, CoreMoreRequests
<1>9. CASE lep # 0 /\ CoreMoreResponses(c)
  BY <1>9, MoreResponsesHarmless
<1>10. CASE c.name \in {"ep_fetch_message", "ep_fetch_request", "ep_fetch_response"}
  BY <1>10, LibraryNamed DEF Named
<1>11. CASE c.name \in Passive /\ Answered(c, Null)
  <2>1. c \notin AnswerableCalls
    BY <1>11 DEF AnswerableCalls, Call, Passive
  <2>2. QED
    BY <1>11, <2>1, LibraryAwaited, AnsweredHarmless DEF Awaited
<1>12. QED
  BY <1>1, <1>2, <1>3, <1>4, <1>5, <1>6, <1>7, <1>8, <1>9, <1>10, <1>11 DEF Function

LEMMA CommandHarmless ==
  ASSUME NEW c \in LibraryCalls, Command(c), ResponsesInv
  PROVE  Harmless(c) /\ epType' = epType
<1>1. epMode = "running" /\ epType' = epType
  BY DEF Command
<1>2. PICK known \in MayFind(c) :
        CASE ~known -> Answered(c, Null)
          [] known /\ ~Enough(c) ->
               IF c.ret = "msg" THEN Crash(c, "crashed")
               ELSE Answered(c, IF c.ret = "int" THEN Code(-1) ELSE Null)
          [] OTHER -> Function(c)
  BY DEF Command
<1>3. CASE ~known
  <2>1. c.api \notin Answerable
    BY <1>3, LibraryAwaited, AnswerableFound DEF Awaited, MayFind
  <2>2. QED
    BY <1>1, <1>2, <1>3, <2>1, AnsweredHarmless
<1>4. CASE known /\ ~Enough(c)
  <2>1. c.api \notin Answerable
    BY <1>4, LibraryAwaited, AnswerableEnough DEF Awaited
  <2>2. c.ret # "msg"
    BY <1>4, LibraryNamed, ReceiveUnknown DEF Named, MayFind
  <2>3. QED
    BY <1>1, <1>2, <1>4, <2>1, <2>2, AnsweredHarmless
<1>5. CASE known /\ Enough(c)
  BY <1>1, <1>2, <1>5, FunctionHarmless
<1>6. QED
  BY <1>1, <1>3, <1>4, <1>5

\* A call by a name that the core does not have.
LEMMA ReceiveNull ==
  ASSUME NEW c \in LibraryCalls, Command(c), c.name \in ReceiveNames
  PROVE  returned'.value = Null
<1>1. MayFind(c) = {FALSE}
  BY ReceiveUnknown DEF MayFind
<1>2. Answered(c, Null)
  BY <1>1 DEF Command
<1>3. QED
  BY <1>2 DEF Answered, Answer

-----------------------------------------------------------------------------
LEMMA EpInitial == EpInit => EpInv
<1> SUFFICES ASSUME EpInit PROVE EpInv
  OBVIOUS
<1>1. lep = 0 /\ responses = [l \in Leps |-> <<>>] /\ epMode = "running"
      /\ returned.api = "" /\ returned.value = NotYet
  BY DEF EpInit
<1>2. ResponsesInv
  <2>1. MaxEndpoints \in Nat /\ 0 \in 0..MaxEndpoints
    BY EndpointCallsAssumption
  <2>2. QED
    BY <1>1, <2>1 DEF ResponsesInv
<1>3. QED
  BY <1>1, <1>2, ResultsDiffer DEF EpInv

\* A step of the peer's thread, or of the application's, runs no command.
LEMMA NoCommandKeeps ==
  ASSUME EpInv, lep' = lep, mappedTo' = mappedTo, epMode' = epMode, returned' = returned,
         epType' = epType, epType \in Requesting \/ responses' = responses
  PROVE  EpInv'
<1>1. ResponsesInv'
  BY DEF EpInv, ResponsesInv
<1>2. /\ Cause(returned.api) => Cause(returned.api)'
      /\ CauseOfUndefined(returned.api) => CauseOfUndefined(returned.api)'
  BY DEF Cause, CauseOfUndefined
<1>3. QED
  BY <1>1, <1>2 DEF EpInv

LEMMA CommandKeeps ==
  ASSUME EpInv, NEW c \in AppCalls, Command(c)
  PROVE  EpInv'
<1>1. c \in LibraryCalls
  BY EndpointCallsAssumption
<1>2. Harmless(c) /\ epType' = epType
  BY <1>1, CommandHarmless DEF EpInv
<1>3. ResponsesInv'
  BY <1>2 DEF EpInv, ResponsesInv, Harmless
<1>4. /\ (epMode = "crashed" => Cause(returned.api))'
      /\ (epMode = "undefined" => CauseOfUndefined(returned.api))'
  BY <1>2 DEF Harmless, Cause, CauseOfUndefined
<1>5. c.api \in Unanswerable => returned'.value \in {Null, NotYet}
  BY <1>1, <1>2, LibraryAwaited, ReceiveNull DEF Awaited, Harmless
<1>6. QED
  BY <1>2, <1>3, <1>4, <1>5 DEF EpInv, Harmless

LEMMA EpStep == EpInv /\ [EpNext]_epVars => EpInv'
<1> SUFFICES ASSUME EpInv, [EpNext]_epVars PROVE EpInv'
  OBVIOUS
<1>1. CASE UNCHANGED epVars
  BY <1>1, NoCommandKeeps DEF epVars, queues
<1>2. CASE Arrive \/ Free \/ RunHandler
  BY <1>2, NoCommandKeeps DEF Arrive, Free, RunHandler, queues
<1>3. CASE Handle
  <2>1. /\ lep' = lep /\ mappedTo' = mappedTo /\ epMode' = epMode
        /\ returned' = returned /\ epType' = epType
    BY <1>3 DEF Handle
  <2>2. epType \in Requesting \/ responses' = responses
    BY <1>3 DEF Handle, ToResponses
  <2>3. QED
    BY <2>1, <2>2, NoCommandKeeps
<1>4. CASE \E c \in AppCalls : Command(c)
  BY <1>4, CommandKeeps
<1>5. QED
  BY <1>1, <1>2, <1>3, <1>4 DEF EpNext

LEMMA EpInvariant == EpSpec => []EpInv
<1>1. QED
  BY EpInitial, EpStep, PTL DEF EpSpec

\* ep_more_responses is the one call that looks into a queue, and is for types
\* whose queue of responses is empty; for the rest the library's name for a
\* function of core_module_api.c, or its type, keeps it from what would crash.
\* So removing an endpoint is the one call that makes the core use freed memory.
THEOREM CrashesExplained == EpSpec => []CrashHasCause
<1>1. EpInv => CrashHasCause
  BY DEF EpInv, CrashHasCause, Cause, CauseOfUndefined
<1>2. QED
  BY <1>1, EpInvariant, PTL

\* Whether mw_call_module_function_blocking gets a result depends on the call
\* alone, and not on the endpoint or on what was done before.
THEOREM TenUnanswered == EpSpec => []OnlyTenUnanswered
<1>1. ASSUME EpInv, NEW c \in AppCalls, c.waits, returned.api = c.api, returned.value # NotYet
      PROVE  returned.value = Null <=> c.api \in Unanswerable
  <2>1. c \in LibraryCalls
    BY EndpointCallsAssumption
  <2>2. c.api \in Unanswerable \cup Answerable
    BY <1>1, <2>1, LibraryAwaited DEF Awaited
  <2>3. QED
    BY <1>1, <2>2 DEF EpInv
<1>2. EpInv => OnlyTenUnanswered
  BY <1>1 DEF OnlyTenUnanswered
<1>3. QED
  BY <1>2, EpInvariant, PTL

-----------------------------------------------------------------------------
(* EndpointQueries: which endpoints a query finds.                          *)

(* Lemmas on the types of endpoints. *)

\* Every type has one opposite, whose opposite it is; an opposite is what
\* ep_match_type says, or the other end of a stream, and has a response too.
LEMMA MatchingIsOpposite ==
  ASSUME NEW t \in EpTypes
  PROVE  /\ Matching(t) \in EpTypes
         /\ Matching(Matching(t)) = t
         /\ (t \in TwoWay) <=> (Matching(t) \in TwoWay)
         /\ \/ EpMatchType(t, Matching(t))
            \/ {t, Matching(t)} = StreamTypes
  BY DEF EpTypes, Simple, TwoWay, Requesting, Responding, StreamTypes, Matching, EpMatchType

LEMMA OppositeIsMatching ==
  ASSUME NEW t \in EpTypes, NEW u \in EpTypes,
         \/ EpMatchType(t, u)
         \/ {t, u} = StreamTypes
  PROVE  u = Matching(t)
<1>1. CASE EpMatchType(t, u)
  BY <1>1 DEF EpTypes, Simple, TwoWay, Requesting, Responding, StreamTypes, Matching, EpMatchType
<1>2. CASE {t, u} = StreamTypes
  <2>1. /\ "STR_SRC" \in {t, u} /\ "STR_SNK" \in {t, u}
        /\ t \in {"STR_SRC", "STR_SNK"} /\ u \in {"STR_SRC", "STR_SNK"}
    BY <1>2 DEF StreamTypes
  <2> QED  BY <2>1 DEF Matching
<1> QED  BY <1>1, <1>2

LEMMA EndpointFields ==
  ASSUME NEW e \in Endpoints
  PROVE  /\ e.type \in EpTypes /\ e.type # Absent
         /\ (e.type \in TwoWay) <=> (e.resp # Absent)
         /\ e.type \in TwoWay => e.msg # Absent
<1>1. e.type \in QTypes /\ Acceptable(e.type, e.msg, e.resp)
  BY DEF Endpoints
<1>2. \A t \in TwoWay : t \notin StreamTypes
  BY DEF TwoWay, Requesting, Responding, StreamTypes
<1> QED  BY <1>1, <1>2, EndpointQueriesAssumption DEF Acceptable

LEMMA EndpointProperties ==
  ASSUME NEW e
  PROVE  /\ EpLocalToJson(e)["ep_type"] = e.type /\ EpLocalToJson(e)["ep_name"] = e.name
         /\ EpLocalToJson(e)["msg_hash"] = e.msg /\ EpLocalToJson(e)["resp_hash"] = e.resp
  BY DEF EpLocalToJson, Strings

(* Lemmas on the first index that meets a condition. *)

LEMMA SmallestIndex ==
  ASSUME NEW n \in Nat, NEW S \in SUBSET (1..n), S # {}
  PROVE  LET i == CHOOSE i \in S : \A j \in S : i <= j
         IN  /\ i \in S
             /\ \A j \in S : i <= j
<1>1. S \subseteq Nat
  OBVIOUS
<1>2. PICK x \in S : \A y \in S : ~(<<y, x>> \in OpToRel(<, Nat))
  BY <1>1, WFMin, NatLessThanWellFounded
<1>3. \A y \in S : x <= y
  <2> SUFFICES ASSUME NEW y \in S
               PROVE  x <= y
    OBVIOUS
  <2>1. x \in Nat /\ y \in Nat
    BY <1>1
  <2>2. ~(y < x)
    BY <1>2, <2>1 DEF OpToRel
  <2> QED  BY <2>1, <2>2
<1> QED  BY <1>3

(* What a query is, and what it answers. *)

LEMMA QueryFilters ==
  ASSUME NEW e \in Endpoints, NEW user \in UserQueries
  PROVE  LET q == JsonBuildMap(e, user)
             n == Len(user)
         IN  /\ n \in Nat /\ DOMAIN user = 1..n /\ DOMAIN q = 1..Len(q)
             /\ Len(q) = IF e.resp = Absent THEN n + 1 ELSE n + 3
             /\ \A i \in 1..n : q[i] = user[i] /\ user[i] \in UserFilters
             /\ q[n + 1] = TextFilter("ep_type", Matching(e.type))
             /\ e.resp # Absent =>
                  /\ q[n + 2] = TextFilter("msg_hash", e.msg)
                  /\ q[n + 3] = TextFilter("resp_hash", e.resp)
<1> DEFINE type == TextFilter("ep_type", Matching(e.type))
           msg == TextFilter("msg_hash", e.msg)
           resp == TextFilter("resp_hash", e.resp)
           q == JsonBuildMap(e, user)
<1>1. CASE user = <<>>
  <2>1. e.resp = Absent => q = <<type>>
    BY <1>1 DEF JsonBuildMap
  <2>2. e.resp # Absent => q = <<type, msg, resp>>
    <3>1. e.resp # Absent => q = (<<>> \o <<type>>) \o <<msg, resp>>
      BY <1>1 DEF JsonBuildMap
    <3> HIDE DEF type, msg, resp, q
    <3> QED  BY <3>1
  <2> HIDE DEF type, msg, resp, q
  <2> QED  BY <1>1, <2>1, <2>2 DEF type, msg, resp, q
<1>2. CASE user # <<>>
  <2>1. PICK f \in UserFilters : user = <<f>>
    BY <1>2 DEF UserQueries
  <2>2. e.resp = Absent => q = <<f, type>>
    <3>1. e.resp = Absent => q = (<<f>> \o <<type>>) \o <<>>
      BY <2>1 DEF JsonBuildMap
    <3> HIDE DEF type, msg, resp, q
    <3> QED  BY <3>1
  <2>3. e.resp # Absent => q = <<f, type, msg, resp>>
    <3>1. e.resp # Absent => q = (<<f>> \o <<type>>) \o <<msg, resp>>
      BY <2>1 DEF JsonBuildMap
    <3> HIDE DEF type, msg, resp, q
    <3> QED  BY <3>1
  <2>4. Len(user) = 1 /\ DOMAIN user = 1..1 /\ user[1] = f
    BY <2>1
  <2>5. ASSUME e.resp = Absent
        PROVE  /\ Len(q) = 2 /\ DOMAIN q = 1..2
               /\ q[1] = f /\ q[2] = type
    <3> HIDE DEF type, msg, resp, q
    <3> QED  BY <2>2, <2>5
  <2>6. ASSUME e.resp # Absent
        PROVE  /\ Len(q) = 4 /\ DOMAIN q = 1..4
               /\ q[1] = f /\ q[2] = type /\ q[3] = msg /\ q[4] = resp
    <3> HIDE DEF type, msg, resp, q
    <3> QED  BY <2>3, <2>6
  <2>7. \A i \in 1..1 : i = 1
    OBVIOUS
  <2>8. CASE e.resp = Absent
    <3>4. /\ Len(q) = 2 /\ DOMAIN q = 1..2
          /\ Len(user) = 1
      BY <2>4, <2>5, <2>8
    <3>1. Len(q) = Len(user) + 1 /\ DOMAIN q = 1..Len(q)
      <4> HIDE DEF q
      <4> QED  BY <3>4
    <3>2. q[Len(user) + 1] = type
      BY <2>4, <2>5, <2>8
    <3>3. \A i \in 1..Len(user) : q[i] = user[i] /\ user[i] \in UserFilters
      BY <2>4, <2>5, <2>7, <2>8
    <3> HIDE DEF q
    <3> QED  BY <2>4, <2>8, <3>1, <3>2, <3>3 DEF q
  <2>9. CASE e.resp # Absent
    <3> HIDE DEF q
    <3> QED  BY <2>4, <2>6, <2>7, <2>9 DEF q
  <2> QED  BY <2>8, <2>9
<1> QED  BY <1>1, <1>2

LEMMA HasPathOfText ==
  ASSUME NEW e, NEW n, NEW f, f.prop # "num"
  PROVE  HasPath(e, n, f) = IF EpLocalToJson(e)[f.prop] = Absent THEN "crash"
                            ELSE IF EpLocalToJson(e)[f.prop] = f.value THEN "yes" ELSE "no"
  BY DEF HasPath

LEMMA HasPathOfNumber ==
  ASSUME NEW e, NEW n, NEW f, f.prop = "num"
  PROVE  HasPath(e, n, f) = IF Compare(f.sign, JsonGetFloat(n), f.value) THEN "yes" ELSE "no"
  BY DEF HasPath

\* The first filter that does not pass decides, and there is one unless all pass.
LEMMA FirstFilterDecides ==
  ASSUME NEW e, NEW n, NEW q, NEW len \in Nat, DOMAIN q = 1..len
  PROVE  \/ /\ JsonFilterValidate(e, n, q) = "yes"
            /\ \A i \in 1..len : HasPath(e, n, q[i]) = "yes"
         \/ \E i \in 1..len :
              /\ HasPath(e, n, q[i]) # "yes"
              /\ JsonFilterValidate(e, n, q) = HasPath(e, n, q[i])
              /\ \A j \in 1..len : j < i => HasPath(e, n, q[j]) = "yes"
<1> DEFINE failed == {i \in DOMAIN q : HasPath(e, n, q[i]) # "yes"}
           first == CHOOSE i \in failed : \A j \in failed : i <= j
<1>1. CASE failed = {}
  BY <1>1 DEF JsonFilterValidate
<1>2. CASE failed # {}
  <2>1. failed \in SUBSET (1..len)
    OBVIOUS
  <2>2. first \in failed /\ \A j \in failed : first <= j
    <3> HIDE DEF failed
    <3> QED  BY <1>2, <2>1, SmallestIndex
  <2>3. JsonFilterValidate(e, n, q) = HasPath(e, n, q[first])
    BY <1>2 DEF JsonFilterValidate
  <2>4. first \in 1..len /\ HasPath(e, n, q[first]) # "yes"
    <3> HIDE DEF first
    <3> QED  BY <2>2
  <2>5. \A j \in 1..len : j < first => HasPath(e, n, q[j]) = "yes"
    <3> SUFFICES ASSUME NEW j \in 1..len, j < first, HasPath(e, n, q[j]) # "yes"
                 PROVE  FALSE
      OBVIOUS
    <3>1. j \in failed
      OBVIOUS
    <3> HIDE DEF failed, first
    <3> QED  BY <3>1, <2>2, <2>4
  <2> HIDE DEF failed, first
  <2> QED  BY <2>3, <2>4, <2>5
<1> QED  BY <1>1, <1>2

\* Whether an endpoint fits is what the filters of a peer's query say: the type,
\* and the hashes if the type has a response.
LEMMA FitsIsFilters ==
  ASSUME NEW e \in Endpoints, NEW p \in Endpoints
  PROVE  Fits(e, p) <=>
           /\ p.type = Matching(e.type)
           /\ e.resp # Absent => e.msg = p.msg /\ e.resp = p.resp
<1>1. e.type \in EpTypes /\ p.type \in EpTypes
  BY EndpointFields
<1>2. ASSUME p.type = Matching(e.type)
      PROVE  \/ EpMatchType(e.type, p.type)
             \/ {e.type, p.type} = StreamTypes
  BY <1>1, <1>2, MatchingIsOpposite
<1>3. ASSUME \/ EpMatchType(e.type, p.type)
             \/ {e.type, p.type} = StreamTypes
      PROVE  p.type = Matching(e.type)
  BY <1>1, <1>3, OppositeIsMatching
<1> QED  BY <1>2, <1>3 DEF Fits

\* The filters of a query that are the application's.
PassesUser(p, n, user) == \A i \in DOMAIN user : HasPath(p, n, user[i]) = "yes"

LEMMA TypeFilter ==
  ASSUME NEW p \in Endpoints, NEW n, NEW t
  PROVE  HasPath(p, n, TextFilter("ep_type", t)) = IF p.type = t THEN "yes" ELSE "no"
<1> DEFINE f == TextFilter("ep_type", t)
<1>1. f.prop = "ep_type" /\ f.value = t
  BY DEF TextFilter
<1>2. EpLocalToJson(p)[f.prop] = p.type /\ p.type # Absent
  BY <1>1, EndpointProperties, EndpointFields
<1> QED  BY <1>1, <1>2, HasPathOfText

LEMMA HashFilters ==
  ASSUME NEW p \in Endpoints, p.type \in TwoWay, NEW n, NEW m, NEW r
  PROVE  /\ HasPath(p, n, TextFilter("msg_hash", m)) = IF p.msg = m THEN "yes" ELSE "no"
         /\ HasPath(p, n, TextFilter("resp_hash", r)) = IF p.resp = r THEN "yes" ELSE "no"
<1> DEFINE f == TextFilter("msg_hash", m)
           g == TextFilter("resp_hash", r)
<1>1. /\ f.prop = "msg_hash" /\ f.value = m
      /\ g.prop = "resp_hash" /\ g.value = r
  BY DEF TextFilter
<1>2. /\ EpLocalToJson(p)[f.prop] = p.msg /\ p.msg # Absent
      /\ EpLocalToJson(p)[g.prop] = p.resp /\ p.resp # Absent
  BY <1>1, EndpointProperties, EndpointFields
<1> QED  BY <1>1, <1>2, HasPathOfText

\* A query passes exactly the endpoints that fit the one that asks and pass the
\* filters of its application; it crashes only in those filters.
LEMMA QueryPasses ==
  ASSUME NEW e \in Endpoints, NEW user \in UserQueries, NEW p \in Endpoints, NEW n
  PROVE  LET answer == JsonFilterValidate(p, n, JsonBuildMap(e, user))
         IN  /\ answer = "yes" <=> Fits(e, p) /\ PassesUser(p, n, user)
             /\ answer \in {"yes", "no", "crash"}
             /\ answer = "crash" =>
                  \E i \in DOMAIN user : HasPath(p, n, user[i]) = "crash"
<1> DEFINE q == JsonBuildMap(e, user)
           len == Len(user)
           answer == JsonFilterValidate(p, n, q)
           opposite == p.type = Matching(e.type)
<1>1. /\ len \in Nat /\ DOMAIN user = 1..len /\ DOMAIN q = 1..Len(q)
      /\ Len(q) = IF e.resp = Absent THEN len + 1 ELSE len + 3
      /\ \A i \in 1..len : q[i] = user[i]
      /\ q[len + 1] = TextFilter("ep_type", Matching(e.type))
      /\ e.resp # Absent =>
           /\ q[len + 2] = TextFilter("msg_hash", e.msg)
           /\ q[len + 3] = TextFilter("resp_hash", e.resp)
  BY QueryFilters
<1>2. HasPath(p, n, q[len + 1]) = IF opposite THEN "yes" ELSE "no"
  BY <1>1, TypeFilter
<1>3. ASSUME opposite, e.resp # Absent
      PROVE  /\ HasPath(p, n, q[len + 2]) = IF p.msg = e.msg THEN "yes" ELSE "no"
             /\ HasPath(p, n, q[len + 3]) = IF p.resp = e.resp THEN "yes" ELSE "no"
  <2>1. p.type \in TwoWay
    BY <1>3, EndpointFields, MatchingIsOpposite
  <2> QED  BY <1>1, <1>3, <2>1, HashFilters
<1>4. Fits(e, p) <=> /\ opposite
                     /\ e.resp # Absent => e.msg = p.msg /\ e.resp = p.resp
  BY FitsIsFilters
<1>5. PassesUser(p, n, user) <=> \A i \in 1..len : HasPath(p, n, q[i]) = "yes"
  BY <1>1 DEF PassesUser
<1>6. \A i \in 1..Len(q) : i \in 1..len \/ i = len + 1 \/ (e.resp # Absent /\ i \in {len + 2, len + 3})
  <2> HIDE DEF q, len
  <2> QED  BY <1>1
<1>7. (\A i \in 1..Len(q) : HasPath(p, n, q[i]) = "yes") <=> Fits(e, p) /\ PassesUser(p, n, user)
  <2>1. /\ 1..len \subseteq 1..Len(q) /\ len + 1 \in 1..Len(q)
        /\ e.resp # Absent => len + 2 \in 1..Len(q) /\ len + 3 \in 1..Len(q)
    <3> HIDE DEF q, len
    <3> QED  BY <1>1
  <2>2. ASSUME \A i \in 1..Len(q) : HasPath(p, n, q[i]) = "yes"
        PROVE  Fits(e, p) /\ PassesUser(p, n, user)
    <3>1. opposite
      BY <1>2, <2>1, <2>2
    <3>2. e.resp # Absent => e.msg = p.msg /\ e.resp = p.resp
      BY <1>3, <2>1, <2>2, <3>1
    <3> QED  BY <1>4, <1>5, <2>1, <2>2, <3>1, <3>2
  <2>3. ASSUME Fits(e, p), PassesUser(p, n, user), NEW i \in 1..Len(q)
        PROVE  HasPath(p, n, q[i]) = "yes"
    <3>1. CASE i \in 1..len
      BY <1>5, <2>3, <3>1
    <3>2. CASE i = len + 1
      BY <1>2, <1>4, <2>3, <3>2
    <3>3. CASE e.resp # Absent /\ i \in {len + 2, len + 3}
      BY <1>3, <1>4, <2>3, <3>3
    <3> QED  BY <1>6, <3>1, <3>2, <3>3
  <2> QED  BY <2>2, <2>3
<1>8. Len(q) \in Nat
  <2> HIDE DEF q, len
  <2> QED  BY <1>1
<1>9. \/ /\ answer = "yes"
         /\ \A i \in 1..Len(q) : HasPath(p, n, q[i]) = "yes"
      \/ \E i \in 1..Len(q) :
           /\ HasPath(p, n, q[i]) # "yes"
           /\ answer = HasPath(p, n, q[i])
           /\ \A j \in 1..Len(q) : j < i => HasPath(p, n, q[j]) = "yes"
  BY <1>1, <1>8, FirstFilterDecides
<1>10. ASSUME NEW i \in 1..Len(q), HasPath(p, n, q[i]) # "yes",
              \A j \in 1..Len(q) : j < i => HasPath(p, n, q[j]) = "yes"
       PROVE  \/ HasPath(p, n, q[i]) = "no"
              \/ /\ HasPath(p, n, q[i]) = "crash"
                 /\ \E k \in DOMAIN user : HasPath(p, n, user[k]) = "crash"
  <2>1. CASE i \in 1..len
    <3>1. HasPath(p, n, q[i]) \in {"yes", "no", "crash"}
      BY HasPathOfText, HasPathOfNumber
    <3> QED  BY <1>1, <1>10, <2>1, <3>1
  <2>2. CASE i = len + 1
    BY <1>2, <1>10, <2>2
  <2>3. CASE e.resp # Absent /\ i \in {len + 2, len + 3}
    <3>1. len + 1 \in 1..Len(q) /\ len + 1 < i
      <4> HIDE DEF q, len
      <4> QED  BY <1>1, <2>3
    <3>2. opposite
      BY <1>2, <1>10, <3>1
    <3> QED  BY <1>3, <1>10, <2>3, <3>2
  <2> QED  BY <1>6, <2>1, <2>2, <2>3
<1> HIDE DEF q, answer
<1> QED  BY <1>7, <1>9, <1>10 DEF q, answer

LEMMA QueryAnswers ==
  ASSUME NEW eps \in Seq(Endpoints), NEW n, NEW q,
         \A i \in DOMAIN eps : JsonFilterValidate(eps[i], n, q) \in {"yes", "no", "crash"}
  PROVE  \/ /\ EndpointQuery(eps, n, q) = NotFound
            /\ \A i \in DOMAIN eps : JsonFilterValidate(eps[i], n, q) = "no"
         \/ /\ EndpointQuery(eps, n, q) = Crashed
            /\ \E i \in DOMAIN eps : JsonFilterValidate(eps[i], n, q) = "crash"
         \/ \E i \in DOMAIN eps :
              /\ EndpointQuery(eps, n, q) = Found(eps[i])
              /\ JsonFilterValidate(eps[i], n, q) = "yes"
<1> DEFINE hit == {i \in DOMAIN eps : JsonFilterValidate(eps[i], n, q) # "no"}
           first == CHOOSE i \in hit : \A j \in hit : i <= j
<1>1. CASE hit = {}
  BY <1>1 DEF EndpointQuery
<1>2. CASE hit # {}
  <2>1. hit \in SUBSET (1..Len(eps)) /\ Len(eps) \in Nat
    OBVIOUS
  <2>2. first \in hit
    <3> HIDE DEF hit
    <3> QED  BY <1>2, <2>1, SmallestIndex
  <2>3. first \in DOMAIN eps /\ JsonFilterValidate(eps[first], n, q) \in {"yes", "crash"}
    <3> HIDE DEF first
    <3> QED  BY <2>2
  <2>4. EndpointQuery(eps, n, q) =
          IF JsonFilterValidate(eps[first], n, q) = "crash" THEN Crashed ELSE Found(eps[first])
    BY <1>2 DEF EndpointQuery
  <2> HIDE DEF hit, first
  <2> QED  BY <2>3, <2>4
<1> QED  BY <1>1, <1>2

(* The invariant. *)

\* The table and the number of the component.
QrTypes ==
  /\ locales \in Seq(Endpoints)
  /\ Len(locales) <= MaxLocales
  /\ num \in Numbers \cup {Absent}

\* Nothing is asked, or what was found is the answer to what is asked.
AnsweredRight ==
  \/ asked = NotAsked /\ found = NotFound
  \/ \E e \in Endpoints, user \in UserQueries :
       /\ asked = [by |-> e, user |-> user]
       /\ found = EndpointQuery(locales, num, JsonBuildMap(e, user))

QueriesInv == QrTypes /\ AnsweredRight

\* A table keeps its type when an endpoint is put in.
LEMMA TableKeeps ==
  ASSUME NEW s \in Seq(Endpoints), NEW e \in Endpoints, NEW i \in 1..Len(s) + 1
  PROVE  /\ InsertAt(s, i, e) \in Seq(Endpoints)
         /\ Len(InsertAt(s, i, e)) = Len(s) + 1
<1> HIDE DEF Endpoints
<1> DEFINE front == SubSeq(s, 1, i - 1)
           back == SubSeq(s, i, Len(s))
<1>1. front \in Seq(Endpoints) /\ Len(front) = i - 1
  OBVIOUS
<1>2. back \in Seq(Endpoints) /\ Len(back) = Len(s) - i + 1
  OBVIOUS
<1>3. InsertAt(s, i, e) = front \o <<e>> \o back
  BY DEF InsertAt
<1> HIDE DEF front, back
<1> QED  BY <1>1, <1>2, <1>3

LEMMA QueriesInitially == QrInit => QueriesInv
  BY EndpointQueriesAssumption DEF QrInit, QueriesInv, QrTypes, AnsweredRight

LEMMA QueriesStep == QueriesInv /\ [QrNext]_qrVars => QueriesInv'
<1> SUFFICES ASSUME QueriesInv, [QrNext]_qrVars
             PROVE  QueriesInv'
  OBVIOUS
<1> USE DEF QueriesInv
<1>1. CASE QrRegister
  <2>1. PICK e \in Endpoints, i \in 1..Len(locales) + 1 : locales' = InsertAt(locales, i, e)
    BY <1>1 DEF QrRegister
  <2>2. /\ asked = NotAsked /\ Len(locales) < MaxLocales
        /\ num' = num /\ asked' = asked /\ found' = found
    BY <1>1 DEF QrRegister
  <2>3. locales' \in Seq(Endpoints) /\ Len(locales') = Len(locales) + 1
    BY <2>1, TableKeeps DEF QrTypes
  <2>4. QrTypes'
    BY <2>2, <2>3, EndpointQueriesAssumption DEF QrTypes
  <2>5. AnsweredRight'
    <3>1. asked' = NotAsked
      BY <2>2
    <3>2. found = NotFound
      BY <2>2 DEF AnsweredRight, NotAsked
    <3> QED  BY <2>2, <3>1, <3>2 DEF AnsweredRight
  <2> QED  BY <2>4, <2>5
<1>2. CASE Query
  BY <1>2 DEF Query, QrTypes, AnsweredRight
<1>3. CASE QrAnswer
  BY <1>3 DEF QrAnswer, QrTypes, AnsweredRight
<1>4. CASE UNCHANGED qrVars
  BY <1>4 DEF qrVars, QrTypes, AnsweredRight
<1> QED  BY <1>1, <1>2, <1>3, <1>4 DEF QrNext

LEMMA QueriesAlways == QrSpec => []QueriesInv
  BY QueriesInitially, QueriesStep, PTL DEF QrSpec

(* What is proved of every state in which an endpoint is asked for. *)

\* A filter that passes means what the application means by it, if its meaning
\* is kept, and then nothing else passes it.
LEMMA UserFilterMeans ==
  ASSUME NEW p, NEW f \in UserFilters
  PROVE  /\ HasPath(p, num, f) = "yes" /\ Kept(f) => Satisfies(p, f)
         /\ Kept(f) /\ Satisfies(p, f) => HasPath(p, num, f) = "yes"
         /\ HasPath(p, num, f) = "crash" =>
              f.prop \in Strings /\ EpLocalToJson(p)[f.prop] = Absent
<1>1. f.prop \in Strings \cup {"num"} /\ f.value # Absent
  BY EndpointQueriesAssumption
<1>2. CASE f.prop = "num"
  <2>1. Kept(f) => num # Absent /\ JsonGetFloat(num) = num
    BY <1>2 DEF Kept, JsonGetFloat
  <2> QED  BY <1>2, <2>1, HasPathOfNumber DEF Satisfies
<1>3. CASE f.prop # "num"
  BY <1>1, <1>3, HasPathOfText DEF Satisfies
<1> QED  BY <1>2, <1>3

\* The answer to what is asked, in terms of the endpoints of the table.
LEMMA AskedAnswers ==
  ASSUME QueriesInv, NEW e \in Endpoints, NEW user \in UserQueries,
         found = EndpointQuery(locales, num, JsonBuildMap(e, user))
  PROVE  \/ /\ found = NotFound
            /\ \A i \in DOMAIN locales :
                 ~(Fits(e, locales[i]) /\ PassesUser(locales[i], num, user))
         \/ /\ found = Crashed
            /\ \E i \in DOMAIN locales, j \in DOMAIN user :
                 HasPath(locales[i], num, user[j]) = "crash"
         \/ \E i \in DOMAIN locales :
              /\ found = Found(locales[i])
              /\ Fits(e, locales[i])
              /\ PassesUser(locales[i], num, user)
<1> DEFINE q == JsonBuildMap(e, user)
<1>1. locales \in Seq(Endpoints) /\ \A i \in DOMAIN locales : locales[i] \in Endpoints
  <2> HIDE DEF Endpoints
  <2> QED  BY DEF QueriesInv, QrTypes
<1>2. \A i \in DOMAIN locales :
        /\ JsonFilterValidate(locales[i], num, q) = "yes" <=>
             Fits(e, locales[i]) /\ PassesUser(locales[i], num, user)
        /\ JsonFilterValidate(locales[i], num, q) \in {"yes", "no", "crash"}
        /\ JsonFilterValidate(locales[i], num, q) = "crash" =>
             \E j \in DOMAIN user : HasPath(locales[i], num, user[j]) = "crash"
  BY <1>1, QueryPasses
<1> HIDE DEF q
<1>3. \/ /\ EndpointQuery(locales, num, q) = NotFound
         /\ \A i \in DOMAIN locales : JsonFilterValidate(locales[i], num, q) = "no"
      \/ /\ EndpointQuery(locales, num, q) = Crashed
         /\ \E i \in DOMAIN locales : JsonFilterValidate(locales[i], num, q) = "crash"
      \/ \E i \in DOMAIN locales :
           /\ EndpointQuery(locales, num, q) = Found(locales[i])
           /\ JsonFilterValidate(locales[i], num, q) = "yes"
  BY <1>1, <1>2, QueryAnswers
<1> QED  BY <1>2, <1>3 DEF q

\* The three answers differ, and one that finds an endpoint tells which.
LEMMA AnswersDiffer ==
  /\ NotFound.found = "none" /\ Crashed.found = "crash"
  /\ \A p : Found(p).found = "endpoint" /\ Found(p).ep = p
  BY DEF NotFound, Crashed, Found

LEMMA QueriesInvQueryRight == QueriesInv => QueryRight
<1> SUFFICES ASSUME QueriesInv
             PROVE  QueryRight
  OBVIOUS
<1>1. CASE asked = NotAsked /\ found = NotFound
  BY <1>1, AnswersDiffer DEF QueryRight, MapsCounterpart, RefusesOnlyWithout
<1>2. ASSUME NEW e \in Endpoints, NEW user \in UserQueries,
             asked = [by |-> e, user |-> user],
             found = EndpointQuery(locales, num, JsonBuildMap(e, user))
      PROVE  QueryRight
  <2>1. asked.by = e /\ asked.user = user
    BY <1>2
  <2>2. \A i \in DOMAIN user : user[i] \in UserFilters
    BY QueryFilters
  <2>3. MapsCounterpart
    <3> SUFFICES ASSUME found.found = "endpoint"
                 PROVE  /\ Fits(e, found.ep)
                        /\ \E i \in DOMAIN locales : locales[i] = found.ep
                        /\ \A i \in DOMAIN user : Kept(user[i]) => Satisfies(found.ep, user[i])
      BY <2>1 DEF MapsCounterpart
    <3>1. PICK i \in DOMAIN locales : /\ found = Found(locales[i])
                                      /\ Fits(e, locales[i])
                                      /\ PassesUser(locales[i], num, user)
      BY <1>2, AskedAnswers, AnswersDiffer
    <3>2. found.ep = locales[i]
      BY <3>1, AnswersDiffer
    <3> QED  BY <2>2, <3>1, <3>2, UserFilterMeans DEF PassesUser
  <2>4. RefusesOnlyWithout
    <3> SUFFICES ASSUME found = NotFound, NEW i \in DOMAIN locales,
                        Fits(e, locales[i]),
                        \A j \in DOMAIN user : Kept(user[j]) /\ Satisfies(locales[i], user[j])
                 PROVE  FALSE
      BY <2>1 DEF RefusesOnlyWithout
    <3>1. PassesUser(locales[i], num, user)
      BY <2>2, UserFilterMeans DEF PassesUser
    <3> QED  BY <1>2, <3>1, AskedAnswers, AnswersDiffer
  <2> QED  BY <2>3, <2>4 DEF QueryRight
<1> QED  BY <1>1, <1>2 DEF QueriesInv, AnsweredRight

LEMMA QueriesInvCrash == QueriesInv => CrashNeedsFilter
<1> SUFFICES ASSUME QueriesInv, found = Crashed
             PROVE  \E i \in DOMAIN asked.user, j \in DOMAIN locales :
                      /\ asked.user[i].prop \in Strings
                      /\ EpLocalToJson(locales[j])[asked.user[i].prop] = Absent
  BY DEF CrashNeedsFilter
<1>1. PICK e \in Endpoints, user \in UserQueries :
        /\ asked = [by |-> e, user |-> user]
        /\ found = EndpointQuery(locales, num, JsonBuildMap(e, user))
  BY AnswersDiffer DEF QueriesInv, AnsweredRight
<1>2. PICK i \in DOMAIN locales, j \in DOMAIN user : HasPath(locales[i], num, user[j]) = "crash"
  BY <1>1, AskedAnswers, AnswersDiffer
<1>3. asked.user = user /\ user[j] \in UserFilters
  BY <1>1, QueryFilters
<1> QED  BY <1>2, <1>3, UserFilterMeans

\* An endpoint fits the one it fits.
LEMMA FitsEitherWay ==
  ASSUME NEW e \in Endpoints, NEW p \in Endpoints, Fits(e, p)
  PROVE  Fits(p, e)
<1>1. /\ e.type \in EpTypes /\ p.type \in EpTypes
      /\ (e.type \in TwoWay) <=> (e.resp # Absent)
      /\ (p.type \in TwoWay) <=> (p.resp # Absent)
  BY EndpointFields
<1>2. /\ p.type = Matching(e.type)
      /\ e.resp # Absent => e.msg = p.msg /\ e.resp = p.resp
  BY FitsIsFilters
<1>3. e.type = Matching(p.type) /\ ((e.type \in TwoWay) <=> (p.type \in TwoWay))
  BY <1>1, <1>2, MatchingIsOpposite
<1> QED  BY <1>1, <1>2, <1>3, FitsIsFilters

LEMMA QueriesInvEitherWay == QueriesInv => FoundEitherWay
<1> SUFFICES ASSUME QueriesInv, found.found = "endpoint"
             PROVE  EndpointQuery(<<asked.by>>, Absent, JsonBuildMap(found.ep, <<>>))
                      = Found(asked.by)
  BY DEF FoundEitherWay
<1>1. PICK e \in Endpoints, user \in UserQueries :
        /\ asked = [by |-> e, user |-> user]
        /\ found = EndpointQuery(locales, num, JsonBuildMap(e, user))
  BY AnswersDiffer DEF QueriesInv, AnsweredRight
<1>2. PICK i \in DOMAIN locales : found = Found(locales[i]) /\ Fits(e, locales[i])
  BY <1>1, AskedAnswers, AnswersDiffer
<1> DEFINE p == locales[i]
           q == JsonBuildMap(p, <<>>)
<1>3. /\ p \in Endpoints /\ Fits(p, e)
      /\ asked.by = e /\ found.ep = p
  <2>1. p \in Endpoints
    <3> HIDE DEF Endpoints
    <3> QED  BY <1>2 DEF QueriesInv, QrTypes
  <2> QED  BY <1>1, <1>2, <2>1, FitsEitherWay, AnswersDiffer
<1>4. <<>> \in UserQueries /\ PassesUser(e, Absent, <<>>)
  BY DEF UserQueries, PassesUser
<1> HIDE DEF p
<1>5. JsonFilterValidate(e, Absent, q) = "yes"
  BY <1>3, <1>4, QueryPasses
<1> HIDE DEF q
<1>6. /\ <<e>> \in Seq(Endpoints)
      /\ \A j \in DOMAIN <<e>> : <<e>>[j] = e
  <2> HIDE DEF Endpoints
  <2> QED  OBVIOUS
<1>7. EndpointQuery(<<e>>, Absent, q) = Found(e)
  <2>1. \A j \in DOMAIN <<e>> : JsonFilterValidate(<<e>>[j], Absent, q) = "yes"
    BY <1>5, <1>6
  <2>2. DOMAIN <<e>> = {1}
    OBVIOUS
  <2> QED  BY <1>6, <2>1, <2>2, QueryAnswers
<1> QED  BY <1>3, <1>7 DEF q

-----------------------------------------------------------------------------

\* A mapping leads to an endpoint of the opposite type and the same schemata
\* that the application asked for, and it is refused only if the table holds
\* none: of endpoint_query and json_build_map, for every table, every set of
\* filters of applications and every number.
THEOREM QueriesRight == QrSpec => []QueryRight
  BY QueriesAlways, QueriesInvQueryRight, PTL

\* Only a filter of the application about a property that an endpoint lacks
\* makes strcmp in _has_path read NULL.
THEOREM QueriesCrash == QrSpec => []CrashNeedsFilter
  BY QueriesAlways, QueriesInvCrash, PTL

\* Two endpoints find each other whichever of them maps.
THEOREM QueriesEitherWay == QrSpec => []FoundEitherWay
  BY QueriesAlways, QueriesInvEitherWay, PTL

-----------------------------------------------------------------------------
(* AccessControl: a credential is kept for an accepted connection only, and *)
(* what was revoked is granted again only through an emptied list.          *)

Lists == (SUBSET Subjects) \cup {Missing}

TableTypes ==
  /\ accessModules \in [{AclName(k) : k \in Kinds} -> Kinds \cup {Missing}]
  /\ accTable \in [Kinds -> [AllObjects -> Lists]]
  /\ revoked \subseteq Kinds \X AllObjects \X Subjects

ConnTypes ==
  /\ credTable \in [Kinds -> [Connections -> Credentials]]
  /\ connIs \in [Connections -> {"free", "open", "accepted", "refused"}]
  /\ accessModule \in [Connections -> Kinds \cup {Missing}]
  /\ \A c \in Connections :
       accessModule[c] # Missing /\ connIs[c] # "free" => connIs[c] = "accepted"

\* The list of what was revoked is still there, or it has gone with its last
\* entry.
RevokedFrom ==
  \A x \in revoked : accTable[x[1]][x[2]] # Missing \/ <<x[1], x[2]>> \in emptied

AccInv ==
  TableTypes /\ ConnTypes /\ KeptForAccepted /\ RevokedFrom /\ NotGrantedAgain

ListInv == TableTypes /\ RevokedFrom /\ NotGrantedAgain
ConnInv == ConnTypes /\ KeptForAccepted

LEMMA AccInitial == AccInit => AccInv
<1> SUFFICES ASSUME AccInit PROVE AccInv
  OBVIOUS
<1>1. TableTypes
  <2>1. Missing \in Lists /\ revoked = {}
    BY DEF AccInit, Lists
  <2>2. accTable \in [Kinds -> [AllObjects -> Lists]]
    BY <2>1 DEF AccInit
  <2>3. accessModules \in [{AclName(k) : k \in Kinds} -> Kinds \cup {Missing}]
    BY DEF AccInit
  <2>4. QED
    BY <2>1, <2>2, <2>3 DEF TableTypes
<1>2. ConnTypes
  BY DEF AccInit, ConnTypes, Credentials
<1>3. KeptForAccepted
  BY DEF AccInit, KeptForAccepted
<1>4. RevokedFrom /\ NotGrantedAgain
  BY DEF AccInit, RevokedFrom, NotGrantedAgain
<1>5. QED
  BY <1>1, <1>2, <1>3, <1>4 DEF AccInv

-----------------------------------------------------------------------------
(* Loading makes a library's tables new. *)

LEMMA LoadKeeps ==
  ASSUME AccInv, NEW k \in Kinds, NEW granted \in Lists, NEW cred \in Credentials,
         AccessLoadModule(k, granted, cred)
  PROVE  AccInv'
<1> USE DEF AccInv
<1>1. CASE LoadCrashes(k, granted, cred)
  BY <1>1 DEF AccessLoadModule, TableTypes, ConnTypes, KeptForAccepted, RevokedFrom, NotGrantedAgain
<1>2. CASE ~LoadCrashes(k, granted, cred)
  <2>1. /\ accessModules' = [accessModules EXCEPT ![AclName(k)] = k]
        /\ accTable' = [accTable EXCEPT ![k] =
             [o \in AllObjects |-> IF o = "component" /\ granted # {} THEN granted ELSE Missing]]
        /\ credTable' = [credTable EXCEPT ![k] = [c \in Connections |-> Missing]]
        /\ revoked' = {x \in revoked : x[1] # k}
        /\ emptied' = {x \in emptied : x[1] # k}
        /\ UNCHANGED <<connIs, accessModule>>
    BY <1>2 DEF AccessLoadModule
  <2>2. TableTypes'
    <3>1. [o \in AllObjects |-> IF o = "component" /\ granted # {} THEN granted ELSE Missing]
            \in [AllObjects -> Lists]
      BY DEF Lists
    <3>2. accTable' \in [Kinds -> [AllObjects -> Lists]]
      BY <2>1, <3>1 DEF TableTypes
    <3>3. accessModules' \in [{AclName(l) : l \in Kinds} -> Kinds \cup {Missing}]
      BY <2>1 DEF TableTypes
    <3>4. QED
      BY <2>1, <3>2, <3>3 DEF TableTypes
  <2>3. ConnTypes'
    BY <2>1 DEF ConnTypes, Credentials
  <2>4. KeptForAccepted'
    BY <2>1 DEF ConnTypes, KeptForAccepted
  <2>5. \A x \in revoked' : /\ x \in revoked /\ x[1] # k /\ x[1] \in Kinds
                            /\ accTable'[x[1]] = accTable[x[1]]
                            /\ <<x[1], x[2]>> \in emptied => <<x[1], x[2]>> \in emptied'
    BY <2>1 DEF TableTypes
  <2>6. RevokedFrom' /\ NotGrantedAgain'
    BY <2>5 DEF RevokedFrom, NotGrantedAgain
  <2>7. QED
    BY <2>2, <2>3, <2>4, <2>6
<1>3. QED
  BY <1>1, <1>2

-----------------------------------------------------------------------------
(* Connections: the lists stay as they are. *)

LEMMA ListsUnchanged ==
  ASSUME ListInv, UNCHANGED <<accessModules, listVars>>
  PROVE  ListInv'
BY DEF ListInv, TableTypes, RevokedFrom, NotGrantedAgain, listVars

LEMMA OfferTypes ==
  ASSUME NEW offer \in Offers, NEW i \in DOMAIN offer
  PROVE  offer[i].name \in DOMAIN accessModules /\ offer[i].cred \in Credentials
<1> DEFINE Offered == [name : DOMAIN accessModules, cred : Credentials]
<1>1. PICK m \in 0..2 : offer \in [1..m -> Offered]
  BY DEF Offers, BoundedSeq, SeqOf
<1>2. offer[i] \in Offered
  BY <1>1
<1>3. QED
  BY <1>2

LEMMA CheckAuthKeeps ==
  ASSUME AccInv, NEW c \in Connections, NEW offer \in Offers, CheckAuth(c, offer)
  PROVE  AccInv'
<1> USE DEF AccInv
<1>1. connIs[c] = "open" /\ UNCHANGED <<accessModules, listVars>>
  BY DEF CheckAuth
<1>2. accessModule[c] = Missing /\ \A k \in Kinds : credTable[k][c] = Missing
  BY <1>1 DEF ConnTypes, KeptForAccepted
<1>4. ConnInv'
  <2>1. CASE UNCHANGED connVars
    BY <2>1 DEF ConnInv, ConnTypes, KeptForAccepted, connVars
  <2>2. CASE /\ \E to \in {"accepted", "refused"} : connIs' = [connIs EXCEPT ![c] = to]
             /\ UNCHANGED <<credTable, accessModule>>
    BY <2>2, <1>2 DEF ConnInv, ConnTypes, KeptForAccepted
  <2>3. ASSUME NEW i \in DOMAIN offer, NEW k, k = accessModules[offer[i].name], k # Missing,
               connIs' = [connIs EXCEPT ![c] = "accepted"],
               accessModule' = [accessModule EXCEPT ![c] = k],
               \/ credTable' = [credTable EXCEPT ![k][c] = KeptCredential(k, c, offer[i].cred)]
               \/ credTable' = credTable
        PROVE  ConnInv'
    <3>1. k \in Kinds
      BY <2>3, OfferTypes DEF TableTypes
    <3>2. KeptCredential(k, c, offer[i].cred) \in Credentials
      BY <3>1, OfferTypes DEF KeptCredential, ConnTypes
    <3>3. ConnTypes'
      BY <2>3, <3>1, <3>2 DEF ConnTypes
    <3>4. \A l \in Kinds, d \in Connections :
            /\ d # c => credTable'[l][d] = credTable[l][d] /\ connIs'[d] = connIs[d]
                        /\ accessModule'[d] = accessModule[d]
            /\ l # k => credTable'[l][c] = credTable[l][c]
      BY <2>3, <3>1 DEF ConnTypes
    <3>5. connIs'[c] = "accepted" /\ accessModule'[c] = k
      BY <2>3 DEF ConnTypes
    <3>6. KeptForAccepted'
      BY <1>2, <3>4, <3>5 DEF KeptForAccepted
    <3>7. QED
      BY <3>3, <3>6 DEF ConnInv
  <2>4. QED
    BY <2>1, <2>2, <2>3 DEF CheckAuth, Decides
<1>5. QED
  BY <1>1, <1>4, ListsUnchanged DEF ListInv, ConnInv

LEMMA ConnectionKeeps ==
  ASSUME AccInv, NEW c \in Connections, NewConnection(c) \/ Disconnected(c)
  PROVE  AccInv'
<1> USE DEF AccInv
<1>1. UNCHANGED <<accessModules, listVars>>
  BY DEF NewConnection, Disconnected
<1>2. CASE NewConnection(c)
  <2>1. \A k \in Kinds : credTable[k][c] = Missing
    BY <1>2 DEF NewConnection, KeptForAccepted, ConnTypes
  <2>2. ConnInv'
    BY <1>2, <2>1 DEF NewConnection, ConnInv, ConnTypes, KeptForAccepted
  <2>3. QED
    BY <1>1, <2>2, ListsUnchanged DEF ListInv, ConnInv
<1>3. CASE Disconnected(c)
  <2>1. connIs' = [connIs EXCEPT ![c] = "free"] /\ accessModule' = accessModule
    BY <1>3 DEF Disconnected
  <2>2. /\ credTable' \in [Kinds -> [Connections -> Credentials]]
        /\ \A k \in Kinds : credTable'[k][c] = Missing
        /\ \A k \in Kinds, d \in Connections \ {c} : credTable'[k][d] = credTable[k][d]
    <3>1. CASE accessModule[c] = Missing
      BY <1>3, <3>1, AccessAssumption DEF Disconnected, AccessDisconnect, ConnTypes, KeptForAccepted
    <3>2. CASE accessModule[c] # Missing
      BY <1>3, <3>2 DEF Disconnected, AccessDisconnect, ConnTypes, KeptForAccepted, Credentials
    <3>3. QED
      BY <3>1, <3>2
  <2>3. ConnInv'
    BY <2>1, <2>2 DEF ConnInv, ConnTypes, KeptForAccepted
  <2>4. QED
    BY <1>1, <2>3, ListsUnchanged DEF ListInv, ConnInv
<1>4. QED
  BY <1>2, <1>3

-----------------------------------------------------------------------------
(* Lists: the connections stay as they are. *)

LEMMA ConnectionsUnchanged ==
  ASSUME ConnInv, UNCHANGED connVars
  PROVE  ConnInv'
BY DEF ConnInv, ConnTypes, KeptForAccepted, connVars

LEMMA AddKeeps ==
  ASSUME AccInv, NEW k \in Kinds, NEW o \in AllObjects, NEW subject \in Subjects,
         AccessAddAccess(k, o, subject)
  PROVE  AccInv'
<1> USE DEF AccInv
<1>1. ConnInv'
  BY ConnectionsUnchanged DEF AccessAddAccess, ConnInv
<1>2. CASE AclList(k, o) = Missing
  <2>1. ListInv'
    BY <1>2, ListsUnchanged DEF AccessAddAccess, ListInv, TableTypes, RevokedFrom, NotGrantedAgain
  <2>2. QED
    BY <1>1, <2>1 DEF ListInv, ConnInv
<1>3. CASE AclList(k, o) # Missing
  <2>1. /\ accTable' = [accTable EXCEPT ![k][o] = AclList(k, o) \cup {subject}]
        /\ revoked' = revoked \ {<<k, o, subject>>}
        /\ UNCHANGED <<accessModules, emptied>>
    BY <1>3 DEF AccessAddAccess
  <2>2. AclList(k, o) \in SUBSET Subjects
    <3>1. "component" \in AllObjects
      BY DEF AllObjects
    <3>2. accTable[k][o] \in Lists /\ accTable[k]["component"] \in Lists
      BY <3>1 DEF TableTypes
    <3>3. QED
      BY <1>3, <3>2 DEF AclList, AclAddObject, Lists
  <2>3. TableTypes'
    BY <2>1, <2>2 DEF TableTypes, Lists
  <2>4. accTable'[k][o] = AclList(k, o) \cup {subject} /\ accTable'[k][o] # Missing
    <3>1. AclList(k, o) \cup {subject} \in SUBSET Subjects
      BY <2>2
    <3>2. AclList(k, o) \cup {subject} # Missing
      BY <3>1, AccessAssumption
    <3>3. accTable'[k][o] = AclList(k, o) \cup {subject}
      BY <2>1 DEF TableTypes
    <3>4. QED
      BY <3>2, <3>3
  <2>5. ASSUME NEW x \in revoked'
        PROVE  /\ accTable'[x[1]][x[2]] # Missing \/ <<x[1], x[2]>> \in emptied'
               /\ x[3] \in accTable'[x[1]][x[2]] => <<x[1], x[2]>> \in emptied'
                                                    \/ accTable'[x[1]][x[2]] = Missing
    <3>1. x \in revoked /\ x # <<k, o, subject>> /\ x \in Kinds \X AllObjects \X Subjects
      BY <2>1 DEF TableTypes
    <3>2. CASE x[1] = k /\ x[2] = o
      <4>1. x[3] # subject
        BY <3>1, <3>2
      <4>2. CASE accTable[k][o] = Missing
        BY <2>1, <3>1, <3>2, <4>2 DEF RevokedFrom
      <4>3. CASE accTable[k][o] # Missing
        <5>1. AclList(k, o) = accTable[k][o]
          BY <4>3 DEF AclList
        <5>2. x[3] \in accTable[k][o] => <<k, o>> \in emptied
          BY <3>1, <3>2, <4>3 DEF NotGrantedAgain
        <5>3. QED
          BY <2>1, <2>4, <3>2, <4>1, <5>1, <5>2
      <4>4. QED
        BY <4>2, <4>3
    <3>3. CASE ~(x[1] = k /\ x[2] = o)
      <4>1. accTable'[x[1]][x[2]] = accTable[x[1]][x[2]]
        BY <2>1, <3>1, <3>3 DEF TableTypes
      <4>2. QED
        BY <2>1, <3>1, <4>1 DEF RevokedFrom, NotGrantedAgain
    <3>4. QED
      BY <3>2, <3>3
  <2>6. RevokedFrom' /\ NotGrantedAgain'
    BY <2>5 DEF RevokedFrom, NotGrantedAgain
  <2>7. QED
    BY <1>1, <2>3, <2>6 DEF ConnInv
<1>4. QED
  BY <1>2, <1>3

LEMMA RmKeeps ==
  ASSUME AccInv, NEW k \in Kinds, NEW o \in AllObjects, NEW subject \in Subjects,
         AccessRmAccess(k, o, subject)
  PROVE  AccInv'
<1> USE DEF AccInv
<1> DEFINE left == accTable[k][o] \ {subject}
<1>1. ConnInv'
  BY ConnectionsUnchanged DEF AccessRmAccess, ConnInv
<1>2. accTable[k][o] \in SUBSET Subjects
  <2>1. accTable[k][o] \in Lists
    BY DEF TableTypes
  <2>2. QED
    BY <2>1 DEF AccessRmAccess, Lists
<1>3. left \in SUBSET Subjects /\ left # Missing
  BY <1>2, AccessAssumption
<1>4. \E list \in {left, Missing} :
        /\ accTable' = [accTable EXCEPT ![k][o] = list]
        /\ list = Missing => <<k, o>> \in emptied'
  BY <1>3 DEF AccessRmAccess
<1>5. /\ emptied \subseteq emptied'
      /\ revoked' \subseteq revoked \cup {<<k, o, subject>>}
      /\ UNCHANGED accessModules
  BY DEF AccessRmAccess
<1>6. /\ accTable' \in [Kinds -> [AllObjects -> Lists]]
      /\ accTable'[k][o] = left \/ (accTable'[k][o] = Missing /\ <<k, o>> \in emptied')
      /\ \A l \in Kinds, p \in AllObjects :
           ~(l = k /\ p = o) => accTable'[l][p] = accTable[l][p]
  <2>1. PICK list \in {left, Missing} : /\ accTable' = [accTable EXCEPT ![k][o] = list]
                                        /\ list = Missing => <<k, o>> \in emptied'
    BY <1>4
  <2>2. list \in Lists
    BY <1>3 DEF Lists
  <2>3. /\ accTable' \in [Kinds -> [AllObjects -> Lists]]
        /\ accTable'[k][o] = list
        /\ \A l \in Kinds, p \in AllObjects :
             ~(l = k /\ p = o) => accTable'[l][p] = accTable[l][p]
    BY <2>1, <2>2 DEF TableTypes
  <2>4. list = Missing => <<k, o>> \in emptied'
    BY <2>1
  <2>5. list = left \/ list = Missing
    OBVIOUS
  <2>6. accTable'[k][o] = left \/ (accTable'[k][o] = Missing /\ <<k, o>> \in emptied')
    BY <2>3, <2>4, <2>5
  <2>7. QED
    BY <2>3, <2>6
<1>7. TableTypes'
  BY <1>5, <1>6 DEF TableTypes
<1>8. ASSUME NEW x \in revoked'
      PROVE  /\ accTable'[x[1]][x[2]] # Missing \/ <<x[1], x[2]>> \in emptied'
             /\ x[3] \in accTable'[x[1]][x[2]] => <<x[1], x[2]>> \in emptied'
                                                  \/ accTable'[x[1]][x[2]] = Missing
  <2>1. x \in Kinds \X AllObjects \X Subjects
    BY <1>7 DEF TableTypes
  <2>2. CASE x[1] = k /\ x[2] = o
    <3>1. CASE accTable'[k][o] = Missing
      BY <1>6, <2>2, <3>1, <1>3
    <3>2. CASE accTable'[k][o] = left /\ x[3] = subject
      BY <1>3, <2>2, <3>2
    <3>3. CASE accTable'[k][o] = left /\ x[3] # subject
      <4>1. x \in revoked
        BY <1>5, <3>3
      <4>2. x[3] \in accTable[k][o] => <<k, o>> \in emptied
        BY <2>2, <4>1 DEF NotGrantedAgain, AccessRmAccess
      <4>3. QED
        BY <1>3, <1>5, <2>2, <3>3, <4>2
    <3>4. QED
      BY <1>6, <3>1, <3>2, <3>3
  <2>3. CASE ~(x[1] = k /\ x[2] = o)
    <3>1. x \in revoked /\ accTable'[x[1]][x[2]] = accTable[x[1]][x[2]]
      BY <1>5, <1>6, <2>1, <2>3
    <3>2. QED
      BY <1>5, <3>1 DEF RevokedFrom, NotGrantedAgain
  <2>4. QED
    BY <2>2, <2>3
<1>9. RevokedFrom' /\ NotGrantedAgain'
  BY <1>8 DEF RevokedFrom, NotGrantedAgain
<1>10. QED
  BY <1>1, <1>7, <1>9 DEF ConnInv

-----------------------------------------------------------------------------
LEMMA AccStep == AccInv /\ [AccNext]_accVars => AccInv'
<1> SUFFICES ASSUME AccInv, [AccNext]_accVars PROVE AccInv'
  OBVIOUS
<1>1. CASE UNCHANGED accVars
  BY <1>1 DEF accVars, AccInv, TableTypes, ConnTypes, KeptForAccepted, RevokedFrom, NotGrantedAgain
<1>2. ASSUME NEW k \in Kinds, NEW granted \in Lists, NEW cred \in Credentials,
             AccessLoadModule(k, granted, cred)
      PROVE  AccInv'
  BY <1>2, LoadKeeps
<1>3. ASSUME NEW c \in Connections, NewConnection(c) \/ Disconnected(c)
      PROVE  AccInv'
  BY <1>3, ConnectionKeeps
<1>4. ASSUME NEW c \in Connections, NEW offer \in Offers, CheckAuth(c, offer)
      PROVE  AccInv'
  BY <1>4, CheckAuthKeeps
<1>5. ASSUME NEW k \in Kinds, NEW o \in AllObjects, NEW subject \in Subjects,
             AccessAddAccess(k, o, subject) \/ AccessRmAccess(k, o, subject)
      PROVE  AccInv'
  BY <1>5, AddKeeps, RmKeeps
<1>6. QED
  BY <1>1, <1>2, <1>3, <1>4, <1>5 DEF AccNext, Lists

\* The invariant that the two theorems below rest on: what is in the tables,
\* and that a list from which something was revoked (access_rm_access) is
\* there until its last entry has gone.
THEOREM AccessInvariant == AccSpec => []AccInv
<1>1. QED
  BY AccInitial, AccStep, PTL DEF AccSpec

\* Whatever the modules, the offers of the other cores and their answers:
\* access_disconnect leaves no credential behind for the next connection at
\* the STATE's address, and none is in a module other than state_ptr->access_module.
THEOREM CredentialsKept == AccSpec => []KeptForAccepted
<1>1. AccInv => KeptForAccepted
  BY DEF AccInv
<1>2. QED
  BY <1>1, AccessInvariant, PTL

\* acl_add_object copies the component's list for an endpoint that has none,
\* and this is the only way back onto a list for what access_rm_access removed.
THEOREM RevokedStays == AccSpec => []NotGrantedAgain
<1>1. AccInv => NotGrantedAgain
  BY DEF AccInv
<1>2. QED
  BY <1>1, AccessInvariant, PTL
-----------------------------------------------------------------------------
(* The types of the three, and what they are side by side. *)

EpModes == {"running", "crashed", "app crashed", "undefined"}
EmptyQueues == [l \in Leps |-> <<>>]

\* Only a queuing endpoint has queues, and they are whole: an endpoint with a
\* handler has nothing that a command could take out of them.
EpShape ==
  /\ <<epType, queuing>> \in NewEndpoints
  /\ lep \in 0..MaxEndpoints /\ mappedTo \in 0..MaxEndpoints
  /\ arrived \in 0..MaxMessages
  /\ handled \in BOOLEAN
  /\ epMode \in EpModes
  /\ ~queuing => messages = EmptyQueues /\ responses = EmptyQueues
  /\ queuing => toApp = <<>>

\* What EpShape asks of the command of a call.
KeepsShape ==
  /\ lep' \in 0..MaxEndpoints /\ mappedTo' \in 0..MaxEndpoints
  /\ epMode' \in EpModes
  /\ messages' = messages /\ responses' = responses

EpLeps == lep \in 0..MaxEndpoints /\ mappedTo \in 0..MaxEndpoints

LEMMA AnswerShape ==
  ASSUME NEW c, NEW value, Answer(c, value), epMode = "running"
  PROVE  epMode' \in EpModes
BY DEF Answer, EpModes

LEMMA AnsweredShape ==
  ASSUME NEW c, NEW value, Answered(c, value), epMode = "running", EpLeps
  PROVE  KeepsShape
BY AnswerShape DEF Answered, KeepsShape, EpLeps, queues

LEMMA CrashShape ==
  ASSUME NEW c, NEW mode \in EpModes, Crash(c, mode), EpLeps
  PROVE  KeepsShape
BY DEF Crash, KeepsShape, EpLeps, queues

LEMMA MapShape ==
  ASSUME NEW c, CoreMapCall(c), epMode = "running", EpLeps
  PROVE  KeepsShape
<1>1. CASE Answered(c, Code(-1))
  BY <1>1, AnsweredShape
<1>2. CASE mappedTo' = lep /\ Answer(c, Code(0)) /\ UNCHANGED <<lep, queues>>
  BY <1>2, AnswerShape DEF KeepsShape, EpLeps, queues
<1>3. QED
  BY <1>1, <1>2 DEF CoreMapCall

LEMMA UnmapShape ==
  ASSUME NEW c, CoreUnmapCall(c) \/ CoreDivert(c), epMode = "running", EpLeps
  PROVE  KeepsShape
<1>1. CASE Crash(c, "crashed")
  BY <1>1, CrashShape DEF EpModes
<1>2. CASE Answered(c, Code(0))
  BY <1>2, AnsweredShape
<1>3. CASE CoreMapCall(c)
  BY <1>3, MapShape
<1>4. QED
  BY <1>1, <1>2, <1>3 DEF CoreUnmapCall, CoreDivert, CoreUnmapAll

LEMMA UnknownShape ==
  ASSUME NEW c, Unknown(c), epMode = "running", EpLeps
  PROVE  KeepsShape
<1>1. CASE Crash(c, "crashed")
  BY <1>1, CrashShape DEF EpModes
<1>2. CASE Answered(c, IF c.ret = "int" THEN Code(-2) ELSE Null)
  BY <1>2, AnsweredShape
<1>3. QED
  BY <1>1, <1>2 DEF Unknown

LEMMA RegisterShape ==
  ASSUME NEW c, CoreRegisterEndpoint(c) \/ CoreRemoveEndpoint(c), epMode = "running", EpLeps
  PROVE  KeepsShape
<1>1. CASE lep < MaxEndpoints /\ lep' = lep + 1 /\ Answer(c, Code(0)) /\ UNCHANGED <<mappedTo, queues>>
  BY <1>1, AnswerShape, EndpointCallsAssumption DEF KeepsShape, EpLeps, queues
<1>2. CASE Answered(c, Code(-2))
  BY <1>2, AnsweredShape
<1>3. CASE Crash(c, "crashed") \/ Crash(c, "undefined")
  BY <1>3, CrashShape DEF EpModes
<1>4. CASE Answered(c, Null)
  BY <1>4, AnsweredShape
<1>5. QED
  BY <1>1, <1>2, <1>3, <1>4 DEF CoreRegisterEndpoint, CoreRemoveEndpoint

LEMMA FilterShape ==
  ASSUME NEW c, CoreResetFilter(c) \/ CoreAddFilter(c), epMode = "running", EpLeps
  PROVE  KeepsShape
<1>1. CASE Crash(c, "crashed")
  BY <1>1, CrashShape DEF EpModes
<1>2. CASE Unknown(c)
  BY <1>2, UnknownShape
<1>3. CASE Answer(c, Null) /\ UNCHANGED <<lep, mappedTo, messages, responses>>
  BY <1>3, AnswerShape DEF KeepsShape, EpLeps
<1>4. QED
  BY <1>1, <1>2, <1>3 DEF CoreResetFilter, CoreAddFilter

LEMMA MoreShape ==
  ASSUME NEW c, CoreMoreMessages(c) \/ CoreMoreRequests(c) \/ CoreMoreResponses(c),
         epMode = "running", EpLeps
  PROVE  KeepsShape
<1>1. CASE CoreMoreMessages(c) \/ CoreMoreRequests(c)
  BY <1>1, AnsweredShape DEF CoreMoreMessages, CoreMoreRequests
<1>2. CASE CoreMoreResponses(c)
  <2>1. CASE Crash(c, "undefined")
    BY <2>1, CrashShape DEF EpModes
  <2>2. CASE \E value : Answered(c, value)
    BY <2>2, AnsweredShape
  <2>3. QED
    BY <1>2, <2>1, <2>2 DEF CoreMoreResponses, ReadResponses
<1>3. QED
  BY <1>1, <1>2

\* No call of the library takes a message out of a queue.
LEMMA FunctionShape ==
  ASSUME NEW c \in LibraryCalls, Function(c), epMode = "running", EpLeps
  PROVE  KeepsShape
<1>1. CASE CoreRegisterEndpoint(c) \/ CoreRemoveEndpoint(c)
  BY <1>1, RegisterShape
<1>2. CASE CoreMapCall(c)
  BY <1>2, MapShape
<1>3. CASE CoreGetAllConnections(c)
  <2>1. CASE Crash(c, "crashed")
    BY <2>1, CrashShape DEF EpModes
  <2>2. CASE Answered(c, Result(NoMessage))
    BY <2>2, AnsweredShape
  <2>3. QED
    BY <1>3, <2>1, <2>2 DEF CoreGetAllConnections
<1>4. CASE CoreResetFilter(c) \/ CoreAddFilter(c)
  BY <1>4, FilterShape
<1>5. CASE Unknown(c)
  BY <1>5, UnknownShape
<1>6. CASE CoreUnmapCall(c) \/ CoreDivert(c)
  BY <1>6, UnmapShape
<1>7. CASE CoreMoreMessages(c) \/ CoreMoreRequests(c) \/ CoreMoreResponses(c)
  BY <1>7, MoreShape
<1>8. CASE c.name \in {"ep_fetch_message", "ep_fetch_request", "ep_fetch_response"}
  BY <1>8, LibraryNamed DEF Named
<1>9. CASE Answered(c, Null)
  BY <1>9, AnsweredShape
<1>10. QED
  BY <1>1, <1>2, <1>3, <1>4, <1>5, <1>6, <1>7, <1>8, <1>9 DEF Function

LEMMA CommandShape ==
  ASSUME NEW c \in LibraryCalls, Command(c), EpLeps
  PROVE  KeepsShape /\ UNCHANGED <<epType, queuing, fromPeer>>
<1>1. epMode = "running" /\ UNCHANGED <<epType, queuing, fromPeer>>
  BY DEF Command
<1>2. PICK known \in MayFind(c) :
        CASE ~known -> Answered(c, Null)
          [] known /\ ~Enough(c) ->
               IF c.ret = "msg" THEN Crash(c, "crashed")
               ELSE Answered(c, IF c.ret = "int" THEN Code(-1) ELSE Null)
          [] OTHER -> Function(c)
  BY DEF Command
<1>3. CASE Crash(c, "crashed")
  BY <1>1, <1>3, CrashShape DEF EpModes
<1>4. CASE \E value : Answered(c, value)
  BY <1>1, <1>4, AnsweredShape
<1>5. CASE Function(c)
  BY <1>1, <1>5, FunctionShape
<1>6. QED
  BY <1>2, <1>3, <1>4, <1>5

LEMMA EpShapeStep == EpShape /\ [EpNext]_epVars => EpShape'
<1> SUFFICES ASSUME EpShape, [EpNext]_epVars PROVE EpShape'
  OBVIOUS
<1> USE DEF EpShape, EpModes
<1>1. CASE UNCHANGED epVars
  BY <1>1 DEF epVars, queues, fromPeer
<1>2. CASE Arrive
  <2>1. arrived' \in 0..MaxMessages
    BY <1>2, EndpointCallsAssumption DEF Arrive
  <2>2. QED
    BY <1>2, <2>1 DEF Arrive, queues
<1>3. CASE Free
  BY <1>3 DEF Free, queues
<1>4. CASE RunHandler
  BY <1>4 DEF RunHandler, queues
<1>5. CASE Handle
  BY <1>5 DEF Handle
<1>6. ASSUME NEW c \in AppCalls, Command(c)
      PROVE  EpShape'
  <2>1. KeepsShape /\ UNCHANGED <<epType, queuing, fromPeer>>
    BY <1>6, CommandShape, EndpointCallsAssumption DEF EpLeps
  <2>2. QED
    BY <2>1 DEF KeepsShape, fromPeer
<1>7. QED
  BY <1>1, <1>2, <1>3, <1>4, <1>5, <1>6 DEF EpNext

LEMMA EpShapeHolds == EpSpec => []EpShape
<1>1. EpInit => EpShape
  <2>1. ASSUME EpInit
        PROVE  <<epType, queuing>> \in NewEndpoints
    <3>1. PICK e \in NewEndpoints : epType = e[1] /\ queuing = e[2]
      BY <2>1 DEF EpInit
    <3>2. e = <<e[1], e[2]>>
      BY DEF NewEndpoints, NewPlain, NewStreams, NewFromFile
    <3>3. QED
      BY <3>1, <3>2
  <2>2. 0 \in 0..MaxEndpoints /\ 0 \in 0..MaxMessages
    BY EndpointCallsAssumption
  <2>3. QED
    BY <2>1, <2>2 DEF EpInit, EpShape, EpModes, EmptyQueues
<1>2. QED
  BY <1>1, EpShapeStep, PTL DEF EpSpec

LEMMA EpTypeCorrect == EpSpec => []EpTypeOK
<1>1. EpShape => EpTypeOK
  <2> SUFFICES ASSUME EpShape PROVE EpTypeOK
    OBVIOUS
  <2>1. ASSUME ~queuing, NEW l \in Leps
        PROVE  QueuedIn(l) = {}
    <3>1. messages[l] = <<>> /\ responses[l] = <<>>
      BY <2>1 DEF EpShape, EmptyQueues
    <3>2. DOMAIN messages[l] = {} /\ DOMAIN responses[l] = {}
      BY <3>1
    <3>3. QED
      BY <3>2, Zenon DEF QueuedIn
  <2>2. QED
    BY <2>1 DEF EpShape, EpModes, EpTypeOK
<1>2. QED
  BY <1>1, EpShapeHolds, PTL

LEMMA QrTypeCorrect == QrSpec => []QrTypeOK
<1>1. QueriesInv => QrTypeOK
  <2> SUFFICES ASSUME QueriesInv PROVE QrTypeOK
    OBVIOUS
  <2>1. ASSUME NEW i \in DOMAIN locales
        PROVE  /\ locales[i].type \in QTypes
               /\ locales[i].msg = Absent => locales[i].type \in StreamTypes
               /\ locales[i].resp # Absent <=> locales[i].type \in TwoWay
    <3>1. locales[i] \in Endpoints
      BY DEF QueriesInv, QrTypes
    <3>2. QED
      BY <3>1 DEF Endpoints, Acceptable
  <2>2. asked # NotAsked => asked.by \in Endpoints
    BY DEF QueriesInv, AnsweredRight
  <2>3. found.found \in {"none", "crash", "endpoint"}
    <3>1. \A q : EndpointQuery(locales, num, q).found \in {"none", "crash", "endpoint"}
      BY DEF EndpointQuery, NotFound, Crashed, Found
    <3>2. QED
      BY <3>1 DEF QueriesInv, AnsweredRight, NotFound
  <2>4. QED
    BY <2>1, <2>2, <2>3 DEF QueriesInv, QrTypes, QrTypeOK
<1>2. QED
  BY <1>1, QueriesAlways, PTL

LEMMA AccTypeCorrect == AccSpec => []AccTypeOK
<1>1. AccInv => AccTypeOK
  BY DEF AccInv, TableTypes, ConnTypes, AccTypeOK, Lists
<1>2. QED
  BY <1>1, AccessInvariant, PTL

\* What MCEndpoint checks side by side is each of the three: a behaviour of the
\* module the runs check is one of EndpointCalls, of EndpointQueries and of
\* AccessControl, so that what is proved of them holds of it.
THEOREM EndpointParts == Spec => EpSpec /\ QrSpec /\ AccSpec
<1>1. Init => EpInit /\ QrInit /\ AccInit
  BY DEF Init
<1>2. [Next]_allVars => [EpNext]_epVars /\ [QrNext]_qrVars /\ [AccNext]_accVars
  <2>1. CASE UNCHANGED allVars
    BY <2>1 DEF allVars
  <2>2. CASE Next
    BY <2>2 DEF Next
  <2>3. QED
    BY <2>1, <2>2
<1>3. QED
  BY <1>1, <1>2, PTL DEF Spec, EpSpec, QrSpec, AccSpec

\* Every variable of the three has its type.
THEOREM EndpointTypeCorrect == Spec => []EndpointTypeOK
<1>1. QED
  BY EndpointParts, EpTypeCorrect, QrTypeCorrect, AccTypeCorrect, PTL DEF EndpointTypeOK
=============================================================================
