------------------------------- MODULE Streams -------------------------------
(***************************************************************************)
(* A stream between two mapped endpoints, one of type STR_SRC and one of   *)
(* type STR_SNK: core_ep_stream_* of src/core/core_module.c, recv_stream_* *)
(* of core_callbacks.c and src/common/conn_fifo.c.                         *)
(*                                                                         *)
(* Starting a stream makes the other core open a fifo for its endpoint,    *)
(* what is sent is written there by the thread that receives from the      *)
(* connection, and stopping closes the descriptor.  The endpoint keeps the *)
(* number of the descriptor, whoever gets it next.  The name of the fifo   *)
(* goes to the application as a frame the library does not know: it frees  *)
(* a pointer that was never set, and whether it survives that or not, it   *)
(* does not open the fifo, so nobody reads.                                *)
(***************************************************************************)
EXTENDS Integers, Sequences, FiniteSets

CONSTANTS
  Src, Snk,   \* the two ends
  Fds,        \* the descriptors the core of an end may open, 0 is taken
  Capacity,   \* how many writes fill a fifo (64 KB are 131 writes of 500 bytes)
  MaxWire     \* how many messages the two send altogether; a bound

Sides == {Src, Snk}

ASSUME StreamsAssumption ==
  Src # Snk /\ Fds \subseteq Nat \ {0} /\ Capacity \in Nat \ {0} /\ MaxWire \in Nat

VARIABLES
  flag,      \* flag of the LOCAL_EP that sends (that of the other has no use)
  fifo,      \* its fifo: a descriptor, 0 before the first start, -1 if that failed
  use,       \* what a descriptor is: "closed" as -1 is, "fifo", "conn", or "stdin"
  content,   \* what has been written to the fifo of an end, if it is open
  wire,      \* the messages on their way to an end
  sentTotal, \* how many messages have been sent
  writing,   \* the message the receive thread writes, and how far it thinks it is
  astray,    \* what was written to a descriptor that is not the fifo
  opened,    \* history: the start that opened the fifo of an end,
  stops,     \* how many commands have closed its descriptor,
  broken,    \* how many messages that could not be written have closed it,
  cut,       \* and whether one of them closed a connection
  appLives   \* the application of an end is there

strVars == <<flag, fifo, use, content, wire, sentTotal, writing, astray, opened,
             stops, broken, cut, appLives>>

Other(s) == IF s = Src THEN Snk ELSE Src

NotWriting == [n |-> 0, tot |-> 0]

\* flag is not set by ep_local_new: it is what was in the memory.
StrInit ==
  /\ flag \in BOOLEAN
  /\ fifo = [s \in Sides |-> 0]
  /\ use = [s \in Sides |-> [f \in Fds \cup {0, -1} |-> IF f = 0 THEN "stdin" ELSE "closed"]]
  /\ content = [s \in Sides |-> <<>>]
  /\ wire = [s \in Sides |-> <<>>]
  /\ sentTotal = 0
  /\ writing = [s \in Sides |-> NotWriting]
  /\ astray = [s \in Sides |-> {}]
  /\ opened = [s \in Sides |-> 0]
  /\ stops = [s \in Sides |-> 0]
  /\ broken = [s \in Sides |-> 0]
  /\ cut = [s \in Sides |-> FALSE]
  /\ appLives = [s \in Sides |-> TRUE]

fifos == <<fifo, use, content, writing, astray, opened, stops, broken, cut>>

-----------------------------------------------------------------------------
(* Commands of the application of end s. *)

Send(s, kind) ==
  /\ appLives[s] /\ appLives[Other(s)] /\ sentTotal < MaxWire
  /\ sentTotal' = sentTotal + 1
  /\ wire' = [wire EXCEPT ![Other(s)] = Append(@, [kind |-> kind, n |-> sentTotal'])]
  /\ UNCHANGED <<fifos, appLives>>

\* Either end may start and stop.
CoreEpStreamStart(s) == Send(s, "start") /\ flag' = (flag \/ s = Src)

CoreEpStreamStop(s) == Send(s, "stop") /\ flag' = (flag /\ s # Src)

CoreEpStreamSend(s) == s = Src /\ flag /\ Send(s, "data") /\ UNCHANGED flag

\* endpoint_send_message: a source is an endpoint that can send messages.
CoreEpSendMessage(s) == s = Src /\ Send(s, "plain") /\ UNCHANGED flag

-----------------------------------------------------------------------------
(* The thread of end s that receives from the connection. *)

Takes(s, kind) ==
  /\ appLives[s] /\ writing[s] = NotWriting
  /\ wire[s] # <<>> /\ Head(wire[s]).kind = kind
  /\ wire' = [wire EXCEPT ![s] = Tail(@)]

Opens(s) == fifo[s] <= 0

\* fifo_init_server opens the fifo, or it fails.
FifoOpens(s) ==
  \E f \in Fds :
    /\ use[s][f] = "closed"
    /\ fifo' = [fifo EXCEPT ![s] = f]
    /\ use' = [use EXCEPT ![s][f] = "fifo"]
    /\ content' = [content EXCEPT ![s] = <<>>]
    /\ opened' = [opened EXCEPT ![s] = Head(wire[s]).n]

FifoFails(s) == fifo' = [fifo EXCEPT ![s] = -1] /\ UNCHANGED <<use, content, opened>>

\* Mutant: a fifo that cannot be opened is tried again, until it can.
RecvStartRetries(s) ==
  /\ Takes(s, "start")
  /\ IF Opens(s)
     THEN FifoOpens(s) /\ UNCHANGED appLives
     ELSE UNCHANGED <<fifo, use, content, opened, appLives>>
  /\ UNCHANGED <<flag, sentTotal, writing, astray, stops, broken, cut>>

\* Either way the name goes to the application.
RecvStart(s) ==
  /\ Takes(s, "start")
  /\ IF Opens(s)
     THEN /\ FifoOpens(s) \/ FifoFails(s)
          /\ \E lives \in BOOLEAN : appLives' = [appLives EXCEPT ![s] = lives]
     ELSE UNCHANGED <<fifo, use, content, opened, appLives>>
  /\ UNCHANGED <<flag, sentTotal, writing, astray, stops, broken, cut>>

\* close of the descriptor the endpoint remembers.
FifoClose(s) ==
  /\ use' = [use EXCEPT ![s][fifo[s]] = "closed"]
  /\ cut' = [cut EXCEPT ![s] = @ \/ use[s][fifo[s]] = "conn"]
  /\ content' = [content EXCEPT ![s] = <<>>]

Closes(s) == fifo[s] # 0

RecvStop(s) ==
  /\ Takes(s, "stop")
  /\ stops' = IF fifo[s] > 0 THEN [stops EXCEPT ![s] = @ + 1] ELSE stops
  /\ IF Closes(s) THEN FifoClose(s) ELSE UNCHANGED <<use, cut, content>>
  /\ UNCHANGED <<flag, fifo, sentTotal, writing, astray, opened, broken, appLives>>

RecvData(s) ==
  /\ Takes(s, "data")
  /\ s = Snk
  /\ writing' = [writing EXCEPT ![s] = [n |-> Head(wire[s]).n, tot |-> 0]]
  /\ UNCHANGED <<flag, fifo, use, content, sentTotal, astray, opened, stops, broken, cut, appLives>>

\* write, on the descriptor the endpoint remembers, returns -1.
Refuses(s) ==
  \/ use[s][fifo[s]] = "closed"
  \/ use[s][fifo[s]] = "fifo" /\ Len(content[s]) >= Capacity

\* What it does to the input of the core or to another connection is not known:
\* it writes, it fails, or it does not return.
Elsewhere(s) == use[s][fifo[s]] \in {"conn", "stdin"}

MayRefuse(s) == Refuses(s) \/ Elsewhere(s)

\* Message m goes into the fifo, or wherever the descriptor leads.
Put(s, m) ==
  IF use[s][fifo[s]] = "fifo"
  THEN content' = [content EXCEPT ![s] = Append(@, m)] /\ UNCHANGED astray
  ELSE astray' = [astray EXCEPT ![s] = @ \cup {<<m.n, fifo[s]>>}] /\ UNCHANGED content

\* Mutant: a write that fails closes the fifo, as in fifo_send_message.
WriteCloses(s) ==
  /\ writing[s] # NotWriting
  /\ \/ /\ MayRefuse(s) /\ FifoClose(s)
        /\ writing' = [writing EXCEPT ![s].tot = -1] /\ UNCHANGED astray
     \/ /\ ~Refuses(s) /\ Put(s, writing[s])
        /\ writing' = [writing EXCEPT ![s] = NotWriting] /\ UNCHANGED <<use, cut>>
  /\ UNCHANGED <<flag, fifo, wire, sentTotal, opened, stops, broken, appLives>>

\* The loop of recv_stream_msg adds what write returns, -1 too, to the bytes it
\* has written, and goes on (two rounds are told apart here).
Write(s) ==
  /\ writing[s] # NotWriting
  /\ \/ /\ MayRefuse(s)
        /\ writing' = [writing EXCEPT ![s].tot = -1] /\ UNCHANGED <<content, astray>>
     \/ /\ ~Refuses(s)
        /\ writing' = [writing EXCEPT ![s] = NotWriting] /\ Put(s, writing[s])
  /\ UNCHANGED <<flag, fifo, use, wire, sentTotal, opened, stops, broken, cut, appLives>>

\* call_external_command_handler and fifo_send_message: once there is a fifo a
\* sink gets the id of the message through it; if that fails it is closed.
RecvPlain(s) ==
  /\ Takes(s, "plain")
  /\ \/ /\ s = Src \/ fifo[s] <= 0
        /\ UNCHANGED <<use, content, astray, cut, broken>>
     \/ /\ s = Snk /\ fifo[s] > 0 /\ MayRefuse(s)
        /\ FifoClose(s) /\ broken' = [broken EXCEPT ![s] = @ + 1] /\ UNCHANGED astray
     \/ /\ s = Snk /\ fifo[s] > 0 /\ ~Refuses(s)
        /\ Put(s, [n |-> Head(wire[s]).n, tot |-> 0]) /\ UNCHANGED <<use, cut, broken>>
  /\ UNCHANGED <<flag, fifo, sentTotal, writing, opened, stops, appLives>>

\* Another connection of the core gets a descriptor that is free.
OpenConn(s) ==
  /\ appLives[s]
  /\ \E f \in Fds : use[s][f] = "closed" /\ use' = [use EXCEPT ![s][f] = "conn"]
  /\ UNCHANGED <<flag, fifo, content, wire, sentTotal, writing, astray, opened, stops,
                 broken, cut, appLives>>

Receives(s) == RecvStart(s) \/ RecvStop(s) \/ RecvData(s) \/ Write(s) \/ RecvPlain(s)

StrNext ==
  \E s \in Sides :
    \/ CoreEpStreamStart(s) \/ CoreEpStreamStop(s) \/ CoreEpStreamSend(s) \/ CoreEpSendMessage(s)
    \/ RecvStart(s) \/ RecvStop(s) \/ RecvData(s) \/ Write(s) \/ RecvPlain(s) \/ OpenConn(s)

\* The receive threads run, and a write to the fifo, or to what is closed,
\* returns; one to anything else may never return.
StrFairness ==
  \A s \in Sides :
    /\ WF_strVars(RecvStart(s) \/ RecvStop(s) \/ RecvData(s))
    /\ WF_strVars(~Elsewhere(s) /\ Write(s))
    /\ WF_strVars((fifo[s] <= 0 \/ ~Elsewhere(s)) /\ RecvPlain(s))

StrSpec == StrInit /\ [][StrNext]_strVars

FairStrSpec == StrSpec /\ StrFairness

-----------------------------------------------------------------------------
(* Properties. *)

\* Every variable has its type; there is a fifo once it was opened, and what
\* is in it is there while it is open.
StrTypeOK ==
  /\ flag \in BOOLEAN
  /\ \A s \in Sides :
       /\ fifo[s] \in Fds \cup {0, -1} /\ (fifo[s] <= 0 <=> opened[s] = 0)
       /\ Len(content[s]) <= Capacity
       /\ content[s] # <<>> => use[s][fifo[s]] = "fifo"

\* What has reached a fifo was sent after the start that opened it and is in
\* the order in which it was sent, from its first byte on, nothing of it
\* twice: the retries of a full fifo never get through.
StreamInOrder ==
  \A s \in Sides : \A i, j \in DOMAIN content[s] :
    /\ content[s][i].tot = 0 /\ content[s][i].n > opened[s]
    /\ i < j => content[s][i].n < content[s][j].n

\* What is sent goes into another descriptor, or another's connection is
\* closed, only after a stop or a failed message left the number behind; the
\* input of the core gets only what was sent before the fifo was opened.
AstrayHasCause ==
  \A s \in Sides :
    /\ \A a \in astray[s] :
         IF a[2] = 0 THEN opened[s] \notin 1..a[1] ELSE stops[s] + broken[s] > 0
    /\ cut[s] => stops[s] + broken[s] > 1

\* So what is sent goes where it should, or astray for one of these causes.
WrittenRight == StreamInOrder /\ AstrayHasCause

\* The thread hangs in the loop of recv_stream_msg, or in fifo_send_message.
Hangs(s) ==
  \/ writing[s] # NotWriting /\ MayRefuse(s)
  \/ Elsewhere(s) /\ fifo[s] > 0 /\ wire[s] # <<>> /\ Head(wire[s]).kind = "plain"

\* Whatever is started, stopped and sent, and whether or not a fifo could be
\* opened, the thread that receives from the peer deals with every message,
\* unless the fifo it writes to is full or closed, its number leads elsewhere,
\* or the application is gone.
ReceiverComesBack ==
  \A s \in Sides :
    wire[s] # <<>> \/ writing[s] # NotWriting ~>
      \/ wire[s] = <<>> /\ writing[s] = NotWriting
      \/ Hangs(s) \/ ~appLives[s]
=============================================================================
