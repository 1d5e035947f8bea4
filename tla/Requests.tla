------------------------------ MODULE Requests ------------------------------
(***************************************************************************)
(* Requests of several applications to one responder: endpoint_send_request*)
(* and endpoint_send_response of src/api/endpoint.c, message_generate_id   *)
(* of common/message.c, and the core's way of sending both to every        *)
(* endpoint that is mapped (ep_send_json).                                 *)
(*                                                                         *)
(* A requester knows its answer by the id of the request.  Ids are the     *)
(* numbers of a counter that each process has for itself, and its threads  *)
(* use without a lock; a response goes to all the requesters.              *)
(***************************************************************************)
EXTENDS Integers, Sequences, FiniteSets, SequencesExt

CONSTANTS
  Requesters, \* the processes of the applications that request
  Threads,    \* their threads
  ProcessOf,  \* the process of a thread
  MaxRequests \* how many requests are made altogether; a bound

ASSUME RequestsAssumption ==
  ProcessOf \in [Threads -> Requesters] /\ MaxRequests \in Nat

VARIABLES
  counter,   \* counter_messages of a process
  rqPc,      \* where a thread is: "idle", "generating", "generated"
  rqId,      \* the id a thread has read
  overlaps,  \* history: another thread has generated its id at the same time
  requests,  \* the requests made so far
  toResponder, \* requests on their way, per requester
  toRequester, \* responses on their way, per requester
  linked,    \* the requesters that are mapped to the responder
  answers    \* which request's response each request was given

rqVars == <<counter, rqPc, rqId, overlaps, requests, toResponder, toRequester, linked, answers>>

Request == DOMAIN requests

RqInit ==
  /\ counter = [p \in Requesters |-> 1]
  /\ rqPc = [t \in Threads |-> "idle"]
  /\ rqId = [t \in Threads |-> 0]
  /\ overlaps = [t \in Threads |-> FALSE]
  /\ requests = <<>>
  /\ toResponder = [p \in Requesters |-> <<>>]
  /\ toRequester = [p \in Requesters |-> <<>>]
  /\ linked = Requesters
  /\ answers = <<>>

-----------------------------------------------------------------------------
(* The requester's process. *)

Fellows(t) == {u \in Threads \ {t} : ProcessOf[u] = ProcessOf[t] /\ rqPc[u] = "generating"}

\* message_generate_id, sprintf.
GenerateId(t) ==
  /\ rqPc[t] = "idle"
  /\ Len(requests) + Cardinality({u \in Threads : rqPc[u] # "idle"}) < MaxRequests
  /\ rqPc' = [rqPc EXCEPT ![t] = "generating"]
  /\ rqId' = [rqId EXCEPT ![t] = counter[ProcessOf[t]]]
  /\ overlaps' = [u \in Threads |-> IF u = t THEN Fellows(t) # {} ELSE overlaps[u] \/ u \in Fellows(t)]
  /\ UNCHANGED <<counter, requests, toResponder, toRequester, linked, answers>>

\* message_generate_id, counter_messages += 1; what others have added since
\* may be lost.
CountUp(t) ==
  /\ rqPc[t] = "generating"
  /\ \E read \in {counter[ProcessOf[t]], rqId[t]} :
       counter' = [counter EXCEPT ![ProcessOf[t]] = read + 1]
  /\ rqPc' = [rqPc EXCEPT ![t] = "generated"]
  /\ UNCHANGED <<rqId, overlaps, requests, toResponder, toRequester, linked, answers>>

\* endpoint_send_request and core_ep_send_request: to the mapped endpoint, if
\* there is one.
EndpointSendRequest(t) ==
  LET p == ProcessOf[t] IN
  /\ rqPc[t] = "generated"
  /\ rqPc' = [rqPc EXCEPT ![t] = "idle"]
  /\ requests' = Append(requests, [by |-> p, id |-> rqId[t], overlapped |-> overlaps[t],
                                   cut |-> p \notin linked])
  /\ answers' = Append(answers, {})
  /\ toResponder' = IF p \in linked
                    THEN [toResponder EXCEPT ![p] = Append(@, Len(requests'))] ELSE toResponder
  /\ UNCHANGED <<counter, rqId, overlaps, toRequester, linked>>

\* Mutant: the first request that has no answer takes it.
TakeFirst(p, r) ==
  {q \in Request : /\ requests[q].by = p /\ answers[q] = {}
                   /\ \A s \in 1..q - 1 : requests[s].by = p => answers[s] # {}}

\* The requests of p that are waiting for an answer of this id.
Take(p, r) ==
  {q \in Request : requests[q].by = p /\ requests[q].id = requests[r].id /\ answers[q] = {}}

\* ep_default_handler_send_to_app, api_on_message, and the application.
OnResponse(p) ==
  /\ toRequester[p] # <<>>
  /\ LET r == Head(toRequester[p]) IN
       answers' = [q \in Request |-> IF q \in Take(p, r) THEN {r} ELSE answers[q]]
  /\ toRequester' = [toRequester EXCEPT ![p] = Tail(@)]
  /\ UNCHANGED <<counter, rqPc, rqId, overlaps, requests, toResponder, linked>>

-----------------------------------------------------------------------------
(* The responder. *)

\* Mutant: the response goes to one of the requesters.
EndpointSendResponseOne(p) ==
  /\ toResponder[p] # <<>>
  /\ toResponder' = [toResponder EXCEPT ![p] = Tail(@)]
  /\ \E q \in linked :
       toRequester' = [toRequester EXCEPT ![q] = Append(@, Head(toResponder[p]))]
  /\ UNCHANGED <<counter, rqPc, rqId, overlaps, requests, linked, answers>>

\* Its handler answers a request; core_ep_send_response sends the response to
\* every endpoint that is mapped, as the last one.
EndpointSendResponse(p) ==
  /\ toResponder[p] # <<>>
  /\ toResponder' = [toResponder EXCEPT ![p] = Tail(@)]
  /\ toRequester' = [q \in Requesters |->
       IF q \in linked THEN Append(toRequester[q], Head(toResponder[p])) ELSE toRequester[q]]
  /\ UNCHANGED <<counter, rqPc, rqId, overlaps, requests, linked, answers>>

\* Mutant: the responses on their way are still taken.
DisconnectKeeps(p) ==
  /\ p \in linked
  /\ linked' = linked \ {p}
  /\ toResponder' = [toResponder EXCEPT ![p] = <<>>]
  /\ UNCHANGED <<counter, rqPc, rqId, overlaps, requests, toRequester, answers>>

\* core_on_disconnect at both ends: what is on its way is gone.
Disconnect(p) ==
  /\ p \in linked
  /\ linked' = linked \ {p}
  /\ toResponder' = [toResponder EXCEPT ![p] = <<>>]
  /\ toRequester' = [toRequester EXCEPT ![p] = <<>>]
  /\ requests' = [q \in Request |-> IF requests[q].by = p THEN [requests[q] EXCEPT !.cut = TRUE]
                                    ELSE requests[q]]
  /\ UNCHANGED <<counter, rqPc, rqId, overlaps, answers>>

\* The requester maps again.
MapAgain(p) ==
  /\ p \notin linked /\ linked' = linked \cup {p}
  /\ UNCHANGED <<counter, rqPc, rqId, overlaps, requests, toResponder, toRequester, answers>>

RqNext ==
  \/ \E t \in Threads : GenerateId(t) \/ CountUp(t) \/ EndpointSendRequest(t)
  \/ \E p \in Requesters : OnResponse(p) \/ EndpointSendResponse(p) \/ Disconnect(p) \/ MapAgain(p)

\* The threads that receive run, and the responder answers.
RqFairness ==
  \A p \in Requesters : WF_rqVars(OnResponse(p)) /\ WF_rqVars(EndpointSendResponse(p))

RqSpec == RqInit /\ [][RqNext]_rqVars

FairRqSpec == RqSpec /\ RqFairness

-----------------------------------------------------------------------------
(* Properties. *)

\* Every variable has its type; what is on its way belongs to requests that
\* were made, to the responder only by the one who made them.
RqTypeOK ==
  /\ \A p \in Requesters :
       /\ counter[p] \in 1..MaxRequests + 1
       /\ \A i \in DOMAIN toResponder[p] : toResponder[p][i] \in Request
                                           /\ requests[toResponder[p][i]].by = p
       /\ \A i \in DOMAIN toRequester[p] : toRequester[p][i] \in Request
       /\ p \notin linked => toResponder[p] = <<>> /\ toRequester[p] = <<>>
  /\ \A t \in Threads : rqPc[t] \in {"idle", "generating", "generated"}
  /\ DOMAIN answers = Request

\* Two requests of one process have the same id only if one of them was
\* numbered while another thread was at it.
SameIdNeedsOverlap ==
  \A q, r \in Request :
    q # r /\ requests[q].by = requests[r].by /\ requests[q].id = requests[r].id =>
      requests[q].overlapped \/ requests[r].overlapped

\* A request is given the answer to another only if both have the same id, and
\* the other is of another process or numbered at the same time as a third.
WrongAnswerHasCause ==
  \A q \in Request : \A r \in answers[q] \ {q} :
    /\ requests[q].id = requests[r].id
    /\ requests[q].by = requests[r].by => requests[q].overlapped \/ requests[r].overlapped

\* Again and again there is no request without an answer, but for those whose
\* connection was cut: requests are answered although others are made meanwhile.
RequestsAnswered == []<>(\A n \in Request : answers[n] # {} \/ requests[n].cut)
=============================================================================
