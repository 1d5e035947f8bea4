------------------------------ MODULE Mappings ------------------------------
(***************************************************************************)
(* The endpoints of a core, the connections mapped to them and the table   *)
(* of connections: src/core/endpoint.c and state.c, with the callbacks of  *)
(* core_callbacks.c and protocol.c that change them.                       *)
(*                                                                         *)
(* Three kinds of threads share this state, without a lock: one receives   *)
(* from the application and runs its commands, ep_send among them; one     *)
(* accepts; and one per connection receives for it and, at its end, runs   *)
(* core_on_disconnect.  The handshake before MAP is the business of        *)
(* Handshake: a connection starts here when it may be mapped.              *)
(*                                                                         *)
(* A step that uses a freed STATE or LOCAL_EP ends the behaviour in mode   *)
(* "undefined", and fault says which function it was.  Removing an endpoint *)
(* always does, so no thread ever meets one that was removed.              *)
(***************************************************************************)
EXTENDS Integers, Sequences, SequencesExt, FiniteSets

CONSTANTS
  States,     \* the STATEs that may be allocated, each with the thread that
              \* receives for its connection
  Eps,        \* the LOCAL_EPs that may be allocated
  Fds,        \* descriptors of connections
  None,       \* no STATE, no LOCAL_EP, no descriptor
  MaxSends    \* how many messages the application sends

ASSUME MappingsAssumption ==
  /\ None \notin States \cup Eps \cup Fds
  /\ MaxSends \in Nat

VARIABLES
  pc,         \* where the thread of a connection is: "none", "receive", "map"
              \* (in core_proto_map), "free", "close" (in core_on_disconnect), "closed"
  using,      \* the STATE its callback works on
  found,      \* the endpoint endpoint_query gave core_proto_map
  fd,         \* the descriptor of a connection
  table,      \* conn_state: the STATE noted for a descriptor
  freed,      \* the STATEs that state_free was called for
  st,         \* state of a STATE
  lep,        \* lep of a STATE
  eps,        \* the LOCAL_EPs: "none" or "up"
  mappings,   \* mappings_states of a LOCAL_EP
  sender,     \* the loop of ep_send
  sent,       \* the STATEs it sent the current message to
  sends,      \* how many messages were sent
  mode,       \* "running", "crashed" or "undefined"
  fault,      \* the function that used freed memory, and for which endpoint and descriptor
  cause       \* history: what has happened to an endpoint that the code does not allow for

vars == <<pc, using, found, fd, table, freed, st, lep, eps, mappings, sender,
          sent, sends, mode, fault, cause>>

threads == <<pc, using, found>>
conns == <<fd, table, freed>>
sending == <<sender, sent, sends>>

Idle == [pc |-> "idle", ep |-> None, i |-> 0, state |-> None]

Fault(by, e, f) == [by |-> by, ep |-> e, fd |-> f]

Init ==
  /\ pc = [s \in States |-> "none"]
  /\ using = [s \in States |-> None]
  /\ found = [s \in States |-> None]
  /\ fd = [s \in States |-> None]
  /\ table = [f \in Fds |-> None]
  /\ freed = {}
  /\ st = [s \in States |-> "MAP"]
  /\ lep = [s \in States |-> None]
  /\ eps = [e \in Eps |-> "none"]
  /\ mappings = [e \in Eps |-> <<>>]
  /\ sender = Idle
  /\ sent = <<>>
  /\ sends = 0
  /\ mode = "running"
  /\ fault = Fault("none", None, None)
  /\ cause = {}

\* states_get.
StatesGet(s) == table[fd[s]]

\* A STATE whose connection has not begun to end.
Ended(t) == t \in freed \/ \E s \in States : pc[s] \in {"free", "close"} /\ using[s] = t

Refers(t, e) == lep[t] = e /\ ~Ended(t)

Mapped(t, e) == Refers(t, e) /\ st[t] = "EXT_MSG"

\* Function "by" uses freed memory, working on endpoint e or descriptor f.
Undefined(by, e, f) ==
  /\ mode' = "undefined"
  /\ fault' = Fault(by, e, f)
  /\ UNCHANGED <<threads, conns, st, lep, eps, mappings, sending, cause>>

\* The core fails at once.
Crashes ==
  /\ mode' = "crashed"
  /\ UNCHANGED <<threads, conns, st, lep, eps, mappings, sending, fault, cause>>

-----------------------------------------------------------------------------
(* Connections. *)

\* com_connect or accept gives a descriptor that is not open; core_on_connect
\* makes a STATE and notes it for the descriptor, over what was noted.
Connect(s, f) ==
  /\ pc[s] = "none"
  /\ \A o \in States : fd[o] = f => pc[o] = "closed"
  /\ pc' = [pc EXCEPT ![s] = "receive"]
  /\ fd' = [fd EXCEPT ![s] = f]
  /\ table' = [table EXCEPT ![f] = s]
  /\ UNCHANGED <<using, found, freed, st, lep, eps, mappings, sending, mode, fault, cause>>

\* STATE t gets endpoint e, which another may have too.
Attach(t, e) ==
  /\ lep' = [lep EXCEPT ![t] = e]
  /\ cause' = IF \E o \in States \ {t} : Refers(o, e)
              THEN cause \cup {<<"shared", e>>} ELSE cause

\* core_proto_map_to, called by core_map.
CoreProtoMapTo(s, e) ==
  /\ pc[s] = "receive" /\ st[s] = "MAP" /\ eps[e] = "up"
  /\ st' = [st EXCEPT ![s] = "MAP_ACK"]
  /\ Attach(s, e)
  /\ UNCHANGED <<threads, conns, eps, mappings, sending, mode, fault>>

\* core_proto_map, up to endpoint_query: it finds an endpoint...
RecvMap(s, e) ==
  LET t == StatesGet(s) IN
  /\ pc[s] = "receive" /\ st[t] = "MAP" /\ eps[e] = "up"
  /\ pc' = [pc EXCEPT ![s] = "map"]
  /\ using' = [using EXCEPT ![s] = t]
  /\ found' = [found EXCEPT ![s] = e]
  /\ UNCHANGED <<conns, st, lep, eps, mappings, sending, mode, fault, cause>>

\* ... or none.
RecvMapNone(s) ==
  LET t == StatesGet(s) IN
  /\ pc[s] = "receive" /\ st[t] = "MAP"
  /\ st' = [st EXCEPT ![t] = "BAD"]
  /\ UNCHANGED <<threads, conns, lep, eps, mappings, sending, mode, fault, cause>>

\* array_add.
Added(q, t) == Append(q, t)

\* Mutant: ep_map does not set the endpoint of the STATE.
EpMapHalf(s) ==
  LET t == using[s]
      e == found[s]
  IN  /\ pc[s] = "map"
      /\ mappings' = [mappings EXCEPT ![e] = Added(@, t)]
      /\ st' = [st EXCEPT ![t] = "EXT_MSG"]
      /\ pc' = [pc EXCEPT ![s] = "receive"]
      /\ using' = [using EXCEPT ![s] = None]
      /\ found' = [found EXCEPT ![s] = None]
      /\ UNCHANGED <<conns, lep, eps, sending, mode, fault, cause>>

\* core_proto_map from ep_map on.
EpMap(s) ==
  LET t == using[s]
      e == found[s]
  IN  /\ pc[s] = "map"
      /\ mappings' = [mappings EXCEPT ![e] = Added(@, t)]
      /\ Attach(t, e)
      /\ st' = [st EXCEPT ![t] = "EXT_MSG"]
      /\ pc' = [pc EXCEPT ![s] = "receive"]
      /\ using' = [using EXCEPT ![s] = None]
      /\ found' = [found EXCEPT ![s] = None]
      /\ UNCHANGED <<conns, eps, sending, mode, fault>>

\* core_proto_map_ack: the peer has mapped the endpoint...
RecvMapAck(s) ==
  LET t == StatesGet(s) IN
  /\ pc[s] = "receive" /\ st[t] = "MAP_ACK"
  /\ mappings' = [mappings EXCEPT ![lep[t]] = Added(@, t)]
  /\ st' = [st EXCEPT ![t] = "EXT_MSG"]
  /\ UNCHANGED <<threads, conns, lep, eps, sending, mode, fault, cause>>

\* Mutant: the mapping is made before the answer is looked at.
RecvMapAckBadMapped(s) ==
  LET t == StatesGet(s) IN
  /\ pc[s] = "receive" /\ st[t] = "MAP_ACK"
  /\ st' = [st EXCEPT ![t] = "BAD"]
  /\ mappings' = [mappings EXCEPT ![lep[t]] = Added(@, t)]
  /\ UNCHANGED <<threads, conns, lep, eps, sending, mode, fault, cause>>

\* ... or not.
RecvMapAckBad(s) ==
  LET t == StatesGet(s) IN
  /\ pc[s] = "receive" /\ st[t] = "MAP_ACK"
  /\ st' = [st EXCEPT ![t] = "BAD"]
  /\ UNCHANGED <<threads, conns, lep, eps, mappings, sending, mode, fault, cause>>

\* array_remove searches the array with bsearch, and compares as strings the
\* STATEs the entries point to.  The first field of a STATE is the pointer to
\* its access module: in a core without access modules, or with one, every
\* STATE equals every other, and the search ends with its first probe.
Probe(q) == (Len(q) \div 2) + 1

\* Mutant: the last entry is never found.
ArrayRemoveNotLast(e) ==
  IF Len(mappings[e]) <= 1 THEN UNCHANGED mappings
  ELSE mappings' = [mappings EXCEPT ![e] = RemoveAt(@, Probe(@))]

ArrayRemove(e) ==
  IF mappings[e] = <<>> THEN UNCHANGED mappings
  ELSE mappings' = [mappings EXCEPT ![e] = RemoveAt(@, Probe(@))]

\* The connection ends: core_on_disconnect up to ep_unmap_final...
EpUnmapFinal(s) ==
  LET t == StatesGet(s)
      e == lep[t]
  IN  /\ pc[s] = "receive"
      /\ IF e # None /\ mappings[e] # <<>> /\ mappings[e][Probe(mappings[e])] \in freed
         THEN Undefined("core_on_disconnect", e, fd[s])
         ELSE /\ IF e = None THEN UNCHANGED mappings ELSE ArrayRemove(e)
              /\ pc' = [pc EXCEPT ![s] = "free"]
              /\ using' = [using EXCEPT ![s] = t]
              /\ cause' = IF e # None /\ sender.ep = e
                          THEN cause \cup {<<"overlapped", e>>} ELSE cause
              /\ UNCHANGED <<found, conns, st, lep, eps, sending, mode, fault>>

\* ... state_free ...
StateFree(s) ==
  /\ pc[s] = "free"
  /\ freed' = freed \cup {using[s]}
  /\ pc' = [pc EXCEPT ![s] = "close"]
  /\ UNCHANGED <<using, found, fd, table, st, lep, eps, mappings, sending, mode, fault, cause>>

\* Mutant: the connection is closed before the STATE is freed.
ConnectionCloseFirst(s) ==
  /\ pc[s] \in {"free", "close"}
  /\ pc' = [pc EXCEPT ![s] = "closed"]
  /\ using' = [using EXCEPT ![s] = None]
  /\ UNCHANGED <<found, conns, st, lep, eps, mappings, sending, mode, fault, cause>>

\* ... and fc_connection_close, after which the thread ends.
ConnectionClose(s) ==
  /\ pc[s] = "close"
  /\ pc' = [pc EXCEPT ![s] = "closed"]
  /\ using' = [using EXCEPT ![s] = None]
  /\ UNCHANGED <<found, conns, st, lep, eps, mappings, sending, mode, fault, cause>>

-----------------------------------------------------------------------------
(* Commands of the application. *)

\* core_register_endpoint.
RegisterEndpoint(e) ==
  /\ eps[e] = "none"
  /\ eps' = [eps EXCEPT ![e] = "up"]
  /\ UNCHANGED <<threads, conns, st, lep, mappings, sending, mode, fault, cause>>

\* ep_unmap_send reads the STATE, and as it is mapped builds an UNMAP message
\* from a null pointer, of which message_new takes the length.
EpUnmapSend(e, t) ==
  IF t \in freed THEN Undefined("ep_unmap_send", e, None) ELSE Crashes

\* ep_unmap_addr, called by core_unmap, reads the entries one after the other,
\* up to the first with the address given.
CoreUnmap(e) ==
  /\ eps[e] = "up"
  /\ \E k \in DOMAIN mappings[e] :
       /\ \A j \in 1 .. k - 1 : mappings[e][j] \notin freed
       /\ EpUnmapSend(e, mappings[e][k])

\* core_unmap_connection: what is noted for the descriptor may be freed.
CoreUnmapConnection(e, f) ==
  /\ eps[e] = "up"
  /\ table[f] # None
  /\ \/ table[f] \in freed /\ Undefined("core_unmap_connection", e, f)
     \/ table[f] \notin freed /\ lep[table[f]] = e /\ Crashes

\* ep_unmap_all, called by core_unmap_all and ep_local_remove, does so with
\* each entry; with none it has nothing to do.
CoreUnmapAll(e) ==
  /\ eps[e] = "up"
  /\ mappings[e] # <<>>
  /\ EpUnmapSend(e, mappings[e][1])

\* ep_local_remove of an endpoint without mappings: ep_local_free frees the
\* LOCAL_EP, which is the data of its ENDPOINT, in endpoint_free and once more.
EpLocalRemove(e) ==
  /\ eps[e] = "up"
  /\ mappings[e] = <<>>
  /\ Undefined("ep_local_remove", e, None)

\* core_ep_send_message and the others begin the loop of ep_send.
EpSend(e) ==
  /\ eps[e] = "up"
  /\ sends < MaxSends
  /\ sends' = sends + 1
  /\ sender' = [pc |-> "size", ep |-> e, i |-> 0, state |-> None]
  /\ sent' = <<>>
  /\ UNCHANGED <<threads, conns, st, lep, eps, mappings, mode, fault, cause>>

Commands ==
  /\ sender = Idle
  /\ \E e \in Eps :
       \/ RegisterEndpoint(e)
       \/ CoreUnmap(e)
       \/ \E f \in Fds : CoreUnmapConnection(e, f)
       \/ CoreUnmapAll(e)
       \/ EpLocalRemove(e)
       \/ EpSend(e)

\* The condition of the loop.
SendSize ==
  /\ sender.pc = "size"
  /\ IF sender.i < Len(mappings[sender.ep])
     THEN sender' = [sender EXCEPT !.pc = "get"]
     ELSE sender' = Idle
  /\ UNCHANGED <<threads, conns, st, lep, eps, mappings, sent, sends, mode, fault, cause>>

\* array_get, which gives a null pointer when the array has become shorter.
SendGet ==
  /\ sender.pc = "get"
  /\ IF sender.i < Len(mappings[sender.ep])
     THEN /\ sender' = [sender EXCEPT !.pc = "send",
                                      !.state = mappings[sender.ep][sender.i + 1]]
          /\ UNCHANGED <<threads, conns, st, lep, eps, mappings, sent, sends, mode, fault, cause>>
     ELSE Undefined("ep_send", sender.ep, None)

\* Mutant: the loop counts twice.
SendToTwo ==
  /\ sender.pc = "send"
  /\ IF sender.state \in freed THEN Undefined("ep_send", sender.ep, None)
     ELSE /\ sent' = Append(sent, sender.state)
          /\ sender' = [sender EXCEPT !.pc = "size", !.i = @ + 2, !.state = None]
          /\ UNCHANGED <<threads, conns, st, lep, eps, mappings, sends, mode, fault, cause>>

\* fc_send.
SendTo ==
  /\ sender.pc = "send"
  /\ IF sender.state \in freed THEN Undefined("ep_send", sender.ep, None)
     ELSE /\ sent' = Append(sent, sender.state)
          /\ sender' = [sender EXCEPT !.pc = "size", !.i = @ + 1, !.state = None]
          /\ UNCHANGED <<threads, conns, st, lep, eps, mappings, sends, mode, fault, cause>>

-----------------------------------------------------------------------------
Callback(s) ==
  \/ \E f \in Fds : Connect(s, f)
  \/ \E e \in Eps : CoreProtoMapTo(s, e) \/ RecvMap(s, e)
  \/ RecvMapNone(s)
  \/ EpMap(s)
  \/ RecvMapAck(s)
  \/ RecvMapAckBad(s)
  \/ EpUnmapFinal(s)
  \/ StateFree(s)
  \/ ConnectionClose(s)

Next ==
  /\ mode = "running"
  /\ \/ \E s \in States : Callback(s)
     \/ Commands
     \/ SendSize
     \/ SendGet
     \/ SendTo

Spec == Init /\ [][Next]_vars

-----------------------------------------------------------------------------
(* Properties. *)

\* The functions that use freed memory.
Faulty == {"ep_local_remove", "core_unmap_connection", "core_on_disconnect",
           "ep_unmap_send", "ep_send"}

\* Every variable has its type.
MappingsTypeOK ==
  /\ pc \in [States -> {"none", "receive", "map", "free", "close", "closed"}]
  /\ using \in [States -> States \cup {None}]
  /\ found \in [States -> Eps \cup {None}]
  /\ fd \in [States -> Fds \cup {None}]
  /\ table \in [Fds -> States \cup {None}]
  /\ freed \in SUBSET States
  /\ st \in [States -> {"MAP", "MAP_ACK", "EXT_MSG", "BAD"}]
  /\ lep \in [States -> Eps \cup {None}]
  /\ eps \in [Eps -> {"none", "up"}]
  /\ mappings \in [Eps -> Seq(States)]
  /\ sender \in [pc : {"idle", "size", "get", "send"}, ep : Eps \cup {None},
                 i : Nat, state : States \cup {None}]
  /\ sent \in Seq(States)
  /\ sends \in 0 .. MaxSends
  /\ mode \in {"running", "crashed", "undefined"}
  /\ fault \in [by : {"none"} \cup Faulty, ep : Eps \cup {None}, fd : Fds \cup {None}]
  /\ cause \in SUBSET ({"shared", "overlapped"} \X Eps)

\* state.h says of module and conn that they "must be unique, key": what the
\* table holds for the descriptor of a STATE in use is that STATE, so no two in
\* use have the same; and a callback works on the STATE of its own connection,
\* which is not freed before it is done.
KeysUnique ==
  \A s \in States : pc[s] # "none" =>
    /\ s \notin freed \/ pc[s] # "closed" => fd[s] # None /\ table[fd[s]] = s
    /\ pc[s] \in {"map", "free", "close"} => using[s] = s
    /\ pc[s] \in {"receive", "map", "free"} => s \notin freed

\* An endpoint that never belonged to two connections at a time holds the STATE
\* that is mapped to it, and nothing else: no STATE of a connection that ended.
SoleMappingRight ==
  \A e \in Eps : <<"shared", e>> \notin cause =>
    /\ ToSet(mappings[e]) = {t \in States : Mapped(t, e)}
    /\ Len(mappings[e]) <= 1

\* An endpoint that belonged to several connections may hold the wrong ones, but
\* never more than are mapped: mappings do not pile up as connections come and go.
NoMappingsLeft ==
  \A e \in Eps : Len(mappings[e]) <= Cardinality({t \in States : Mapped(t, e)})

\* While no connection of the endpoint ends, the loop leaves nobody out: what
\* it has sent to are the first entries, and the ones added since come after.
NobodySkipped ==
  \A e \in Eps : sender.ep = e /\ <<"overlapped", e>> \notin cause =>
    sender.i <= Len(mappings[e]) /\ sent = SubSeq(mappings[e], 1, sender.i)

\* Freed memory is used in five functions, each time for its own reason, which
\* the code does not guard against:
\* ep_local_remove frees the LOCAL_EP twice, whatever was done before;
\* core_unmap_connection is given a descriptor that no connection has any more;
\* core_on_disconnect and the functions that unmap find a freed STATE in the
\* array of an endpoint which two connections had at a time, and of no other;
\* and the loop of ep_send is over such an endpoint, or a connection of the very
\* endpoint it sends for has ended during a loop.
UndefinedHasCause ==
  mode = "undefined" =>
    LET e == fault.ep IN
    /\ fault.by \in Faulty
    /\ fault.by = "core_unmap_connection" =>
         \A s \in States : fd[s] = fault.fd => pc[s] \in {"close", "closed"}
    /\ fault.by \in {"core_on_disconnect", "ep_unmap_send"} => <<"shared", e>> \in cause
    /\ fault.by = "ep_send" => <<"shared", e>> \in cause \/ <<"overlapped", e>> \in cause

-----------------------------------------------------------------------------
(* The inductive invariant: the type, KeysUnique, SoleMappingRight,         *)
(* UndefinedHasCause, and what they rest on.                               *)

\* The life of a STATE: when it is freed, when it has an endpoint, and that the
\* endpoint, and the one core_proto_map has found, were registered.
Life ==
  \A s \in States :
    /\ s \in freed <=> pc[s] \in {"close", "closed"}
    /\ pc[s] = "none" => fd[s] = None
    /\ pc[s] \in {"none", "map"} => st[s] = "MAP"
    /\ st[s] = "MAP" => lep[s] = None
    /\ st[s] \in {"MAP_ACK", "EXT_MSG"} => lep[s] # None
    /\ pc[s] = "map" <=> found[s] # None
    /\ lep[s] # None => eps[lep[s]] = "up"
    /\ found[s] # None => eps[found[s]] = "up"

\* An endpoint that was never shared has one connection that refers to it.
Exclusive ==
  \A e \in Eps : <<"shared", e>> \notin cause =>
    \A t, u \in States : Refers(t, e) /\ Refers(u, e) => t = u

\* The loop of ep_send, while no connection of its endpoint has ended.
LoopInv ==
  /\ sender.pc = "idle" => sender = Idle
  /\ sender.pc # "idle" => sender.ep \in Eps
  /\ sender.pc = "send" => sender.state \in States
  /\ \A e \in Eps : sender.ep = e /\ <<"overlapped", e>> \notin cause =>
       /\ sender.pc \in {"get", "send"} => sender.i < Len(mappings[e])
       /\ sender.pc = "send" => sender.state = mappings[e][sender.i + 1]

MappingsInv ==
  /\ MappingsTypeOK
  /\ KeysUnique
  /\ Life
  /\ Exclusive
  /\ SoleMappingRight
  /\ LoopInv
  /\ NobodySkipped
  /\ UndefinedHasCause
=============================================================================
