---------------------------- MODULE BlockingCall ----------------------------
(***************************************************************************)
(* mw_call_module_function_blocking of src/api/middleware.c: how a thread  *)
(* of the application calls a function of its core and gets the result.    *)
(*                                                                         *)
(* The caller sends the command with a fresh id, only then notes the id in *)
(* the one global blocking_msg_id and raises the one global flag           *)
(* waiting_blocking_call, and then waits at most five seconds for a frame  *)
(* in the one global pipe.  The thread that receives from the core runs    *)
(* api_on_message for every frame of the core: the reply whose id is the   *)
(* noted one goes to the pipe, any other is dropped; a frame for an        *)
(* endpoint goes to the endpoint's handler, which may make such calls too. *)
(* The socket pair between the two processes keeps the order.              *)
(***************************************************************************)
EXTENDS Integers, Sequences, FiniteSets

CONSTANTS
  Callers,     \* the threads of the application that make calls
  Receiver,    \* the one of them that receives from the core and runs handlers
  MaxCalls,    \* how many calls a caller makes; a bound
  MaxNotices,  \* how many frames for endpoints the core sends; a bound
  Prompt,      \* the core always answers within the five seconds of a wait
  NoId,        \* what blocking_msg_id is before the first call
  Nothing,     \* a wait that ended without a frame: NULL
  Notice       \* the data of a frame for an endpoint

ASSUME CallersAssumption ==
  /\ Receiver \in Callers
  /\ IsFiniteSet(Callers)
  /\ MaxCalls \in [Callers -> Nat]
  /\ MaxNotices \in Nat
  /\ Prompt \in BOOLEAN

\* The n-th command of caller t has an id of its own (message_generate_id).
\* Commands nobody waits for (mw_call_module_function) are all to functions
\* without a result: the core answers none of them, and they are left out.
Ids == Callers \X (Nat \ {0})

ASSUME IdsAssumption ==
  /\ {NoId, Nothing, Notice} \cap (Callers \X Nat) = {}
  /\ NoId # Notice /\ Nothing # Notice

VARIABLES
  pc,                     \* where a caller is
  made,                   \* how many commands a caller has sent
  toCore, toApp,          \* the commands and the frames in the socket pair
  waiting_blocking_call, blocking_msg_id, pipe,
  handling,               \* the receiver is in the handler of an endpoint
  residue,                \* the id api_on_message read last
  notices,                \* how many frames for endpoints there have been
  answered,               \* the commands the core has answered
  got                     \* what a caller's last call returned

vars == <<pc, made, toCore, toApp, waiting_blocking_call, blocking_msg_id,
          pipe, handling, residue, notices, answered, got>>

Places == {"idle", "sent", "stored", "waiting"}

Init ==
  /\ pc = [t \in Callers |-> "idle"]
  /\ made = [t \in Callers |-> 0]
  /\ toCore = <<>> /\ toApp = <<>>
  /\ waiting_blocking_call = FALSE /\ blocking_msg_id = NoId /\ pipe = <<>>
  /\ handling = FALSE
  /\ residue = NoId
  /\ notices = 0
  /\ answered = {}
  /\ got = [t \in Callers |-> Nothing]

Goto(t, from, to) == pc[t] = from /\ pc' = [pc EXCEPT ![t] = to]

Current(t) == <<t, made[t]>>

-----------------------------------------------------------------------------
(* The caller. *)

\* The receiver makes calls from a handler only.
MayCall(t) ==
  /\ made[t] < MaxCalls[t]
  /\ t = Receiver => handling

Call(t) ==
  /\ MayCall(t)
  /\ Goto(t, "idle", "sent")
  /\ made' = [made EXCEPT ![t] = @ + 1]
  /\ toCore' = Append(toCore, <<t, made'[t]>>)
  /\ UNCHANGED <<toApp, waiting_blocking_call, blocking_msg_id, pipe,
                 handling, residue, notices, answered, got>>

StoreId(t) ==
  /\ Goto(t, "sent", "stored")
  /\ blocking_msg_id' = Current(t)
  /\ UNCHANGED <<made, toCore, toApp, waiting_blocking_call, pipe,
                 handling, residue, notices, answered, got>>

Raise(t) ==
  /\ Goto(t, "stored", "waiting")
  /\ waiting_blocking_call' = TRUE
  /\ UNCHANGED <<made, toCore, toApp, blocking_msg_id, pipe,
                 handling, residue, notices, answered, got>>

\* The core has nothing to do and the receiver cannot take what it has sent.
Quiet ==
  /\ toCore = <<>>
  /\ toApp = <<>> \/ pc[Receiver] = "waiting"

\* Mutant: the pipe has no SO_RCVTIMEO.
SyncWaitForever(t) ==
  /\ pipe # <<>>
  /\ got' = [got EXCEPT ![t] = Head(pipe)]
  /\ pipe' = Tail(pipe)

\* sync_wait: the frame at the head of the pipe, whosever it is; or, when
\* there is none for five seconds, NULL.  The flag stays up.
SyncWait(t) ==
  IF pipe = <<>>
  THEN /\ Prompt => Quiet
       /\ got' = [got EXCEPT ![t] = Nothing]
       /\ UNCHANGED pipe
  ELSE /\ got' = [got EXCEPT ![t] = Head(pipe)]
       /\ pipe' = Tail(pipe)

Return(t) ==
  /\ Goto(t, "waiting", "idle")
  /\ SyncWait(t)
  /\ UNCHANGED <<made, toCore, toApp, waiting_blocking_call, blocking_msg_id,
                 handling, residue, notices, answered>>

-----------------------------------------------------------------------------
(* The core. *)

\* The core runs the commands one after the other and replies to each, or
\* does not: a void function has no result.
Serve ==
  /\ toCore # <<>>
  /\ toCore' = Tail(toCore)
  /\ \/ /\ toApp' = Append(toApp, Head(toCore))
        /\ answered' = answered \cup {Head(toCore)}
     \/ UNCHANGED <<toApp, answered>>
  /\ UNCHANGED <<pc, made, waiting_blocking_call, blocking_msg_id, pipe,
                 handling, residue, notices, got>>

\* A message for a local endpoint (send_to_app).
Notify ==
  /\ notices < MaxNotices
  /\ notices' = notices + 1
  /\ toApp' = Append(toApp, Notice)
  /\ UNCHANGED <<pc, made, toCore, waiting_blocking_call, blocking_msg_id, pipe,
                 handling, residue, answered, got>>

-----------------------------------------------------------------------------
(* The receiver. *)

\* Mutant: any frame ends the wait.
AwaitedAny(id) == waiting_blocking_call

Awaited(id) == waiting_blocking_call /\ id = blocking_msg_id

\* Mutant: the flag stays up.
TriggerKept(id, data) ==
  /\ pipe' = IF Awaited(id) THEN Append(pipe, data) ELSE pipe
  /\ UNCHANGED waiting_blocking_call

\* The end of api_on_message.
Trigger(id, data) ==
  IF Awaited(id)
  THEN waiting_blocking_call' = FALSE /\ pipe' = Append(pipe, data)
  ELSE UNCHANGED <<waiting_blocking_call, pipe>>

\* Mutant: another thread takes the replies, also those behind the frame the
\* handler runs for.
OnReplyAside ==
  /\ \E i \in DOMAIN toApp :
       /\ toApp[i] # Notice
       /\ toApp' = SubSeq(toApp, 1, i - 1) \o SubSeq(toApp, i + 1, Len(toApp))
       /\ Trigger(toApp[i], toApp[i])
       /\ residue' = toApp[i]
  /\ UNCHANGED <<pc, made, toCore, blocking_msg_id, handling, notices, answered, got>>

OnReply ==
  /\ ~handling
  /\ toApp # <<>> /\ Head(toApp) # Notice
  /\ toApp' = Tail(toApp)
  /\ Trigger(Head(toApp), Head(toApp))
  /\ residue' = Head(toApp)
  /\ UNCHANGED <<pc, made, toCore, blocking_msg_id, handling, notices, answered, got>>

StartHandler ==
  /\ ~handling
  /\ toApp # <<>> /\ Head(toApp) = Notice
  /\ handling' = TRUE
  /\ UNCHANGED <<pc, made, toCore, toApp, waiting_blocking_call, blocking_msg_id,
                 pipe, residue, notices, answered, got>>

\* After the handler api_on_message compares msg_id, which a frame for an
\* endpoint does not set: it may still hold the id of the last reply.
EndHandler ==
  /\ handling /\ pc[Receiver] = "idle"
  /\ handling' = FALSE
  /\ toApp' = Tail(toApp)
  /\ \E id \in {residue, NoId} : Trigger(id, Notice)
  /\ UNCHANGED <<pc, made, toCore, blocking_msg_id, residue, notices, answered, got>>

-----------------------------------------------------------------------------

Step(t) == Call(t) \/ StoreId(t) \/ Raise(t) \/ Return(t)

Receive == OnReply \/ StartHandler \/ EndHandler

Next ==
  \/ \E t \in Callers : Step(t)
  \/ Serve \/ Notify
  \/ Receive

Spec == Init /\ [][Next]_vars

\* The threads and the core keep running; nobody has to make a call.
Fairness ==
  /\ \A t \in Callers : WF_vars(StoreId(t) \/ Raise(t) \/ Return(t))
  /\ WF_vars(Serve)
  /\ WF_vars(Receive)

FairSpec == Spec /\ Fairness

-----------------------------------------------------------------------------
(* Properties. *)

Waiters == {t \in Callers : pc[t] = "waiting"}

\* Every variable has its type; the frame a handler runs for stays at the head
\* of the socket pair, the receiver makes calls from a handler only, and who is
\* in a call has sent a command.
CallTypeOK ==
  /\ pc \in [Callers -> Places]
  /\ made \in [Callers -> Nat]
  /\ toCore \in Seq(Ids)
  /\ toApp \in Seq(Ids \cup {Notice})
  /\ waiting_blocking_call \in BOOLEAN
  /\ blocking_msg_id \in Ids \cup {NoId}
  /\ pipe \in Seq(Ids \cup {Notice})
  /\ handling \in BOOLEAN
  /\ residue \in Ids \cup {NoId}
  /\ notices \in Nat
  /\ answered \subseteq Ids
  /\ got \in [Callers -> Ids \cup {Notice, Nothing}]
  /\ handling => toApp # <<>> /\ Head(toApp) = Notice
  /\ pc[Receiver] # "idle" => handling
  /\ \A t \in Callers : pc[t] # "idle" => made[t] # 0

\* However many replies come late, after their call has given up, no more than
\* one frame waits in the pipe, or may yet be posted, that no waiting call will
\* take: the pipe does not fill up.
Backlog ==
  Len(pipe) + (IF waiting_blocking_call THEN 1 ELSE 0) <= Cardinality(Waiters) + 1

\* While only one thread calls, a call returns its own reply, that of the call
\* just before, NULL, or a frame that is not a reply: however often answers are
\* late, the results never shift by more than one call.
AtMostOneBehind ==
  \A t \in Callers :
    /\ \A u \in Callers \ {t} : made[u] = 0
    /\ pc[t] = "idle" /\ got[t] \in Ids
    => got[t][1] = t /\ made[t] - got[t][2] <= 1

\* A command that has been sent.
Sent(x) == x \in Ids => x[2] <= made[x[1]]

\* Why HandlerUnanswered holds: all there is belongs to commands already sent,
\* and while the receiver is in a call the reply to it is not in the pipe.
CallInv ==
  /\ \A i \in DOMAIN toCore : Sent(toCore[i])
  /\ \A i \in DOMAIN toApp : Sent(toApp[i])
  /\ \A i \in DOMAIN pipe : Sent(pipe[i])
  /\ pc[Receiver] # "idle" => \A i \in DOMAIN pipe : pipe[i] # Current(Receiver)

\* A handler that calls the core never sees the reply to the call it made, for
\* the only thread that could pass the reply on is the one that waits for it.
HandlerUnanswered ==
  pc[Receiver] = "idle" => got[Receiver] # Current(Receiver)

\* Whatever the core and the other callers do, a call returns.
CallsReturn == \A t \in Callers : pc[t] = "sent" ~> pc[t] = "idle"

\* endpoint_send_request_blocking and the other callers: what a call returns is
\* the response received, or NULL.
OwnReply ==
  \A t \in Callers : pc[t] = "idle" => got[t] \in {Current(t), Nothing}

\* NULL is returned if no response is received in time: a reply that the core
\* sends within the five seconds is returned.
AnsweredReturns ==
  \A t \in Callers :
    pc[t] = "idle" /\ got[t] = Nothing => Current(t) \notin answered
=============================================================================
