------------------------------ MODULE CoreMap ------------------------------
(***************************************************************************)
(* core_map and core_map_all_modules of src/core/core_module.c, run by     *)
(* threads of one core over the connections of Handshake.                  *)
(*                                                                         *)
(* A core_map learns how its handshake is going from tokens read from one  *)
(* global pipe, map_sync_pipe (src/common/sync.c).  sync_init replaces the *)
(* pipe: whoever is blocked in recv on the old one reads end of file, and  *)
(* whoever has yet to call recv reads the new one.  Every connection of    *)
(* the core, incoming ones too, posts tokens; a token does not say which   *)
(* connection it is from.  A wait also ends after five seconds.            *)
(***************************************************************************)
EXTENDS Handshake

CONSTANTS
  Local,    \* the ends that belong to this core
  Threads,  \* threads that run core_map_all_modules
  Tries,    \* for each, the connections its modules open, in the order tried
  NoResult

ASSUME LocalAssumption ==
  /\ Local \subseteq Ends
  /\ \A e \in Local : Peer[e] \notin Local

ASSUME TriesAssumption ==
  /\ Tries \in [Threads -> Seq(Clients \cap Local)]
  /\ \A t \in Threads : Tries[t] # <<>>
  /\ NoResult \notin Codes

\* Every call of fc_connect opens a connection of its own.
ASSUME OwnConnections ==
  \A t, u \in Threads : \A i \in DOMAIN Tries[t], j \in DOMAIN Tries[u] :
    Tries[t][i] = Tries[u][j] => t = u /\ i = j

EP_ERROR == -1

VARIABLES
  pc,       \* where a thread is in core_map
  attempt,  \* which of its connections it is trying
  eof,      \* the threads blocked on a pipe that was closed
  tokens,   \* the tokens in map_sync_pipe
  result    \* what core_map_all_modules returned

mapVars == <<pc, attempt, eof, tokens, result>>
allVars == <<vars, mapVars>>

Waits == {"wait1", "wait2", "wait3"}

MapInit ==
  /\ Init
  /\ pc = [t \in Threads |-> "init"]
  /\ attempt = [t \in Threads |-> 1]
  /\ eof = {}
  /\ tokens = 0
  /\ result = [t \in Threads |-> NoResult]

\* The connection thread t is trying; map_conn > 0 once it is not idle.
Conn(t) == Tries[t][attempt[t]]

Goto(t, from, to) == pc[t] = from /\ pc' = [pc EXCEPT ![t] = to]

-----------------------------------------------------------------------------
(* core_map. *)

\* Of the threads in a wait, some are blocked in recv and some are about to be.
SyncInit(t) ==
  /\ Goto(t, "init", "connect")
  /\ tokens' = 0
  /\ \E blocked \in SUBSET {u \in Threads : pc[u] \in Waits} : eof' = eof \cup blocked
  /\ UNCHANGED <<vars, attempt, result>>

\* fc_connect runs core_on_connect before it returns, or fails.
FcConnect(t) ==
  /\ Goto(t, "connect", "wait1")
  /\ Connect(Conn(t)) \/ UNCHANGED vars
  /\ UNCHANGED <<attempt, eof, tokens, result>>

\* Nothing sent is left to be handled, so no token will come.
Quiet ==
  \A e \in Ends :
    /\ phase[e] = "up" => net[e] = <<>> /\ phase[Peer[e]] \notin {"closing", "freed"}
    /\ phase[e] # "closing" /\ end[e].late = "none"
    /\ phase[e] = "idle" => e \in Clients \/ phase[Peer[e]] = "idle"

\* Mutant: the wait has no timeout.
SyncWaitForever(t) ==
  \/ t \notin eof /\ tokens > 0 /\ tokens' = tokens - 1 /\ UNCHANGED eof
  \/ t \in eof /\ eof' = eof \ {t} /\ UNCHANGED tokens

\* How a sync_wait ends: with a token, at end of file, or after five seconds,
\* which is longer than it takes to handle every message unless Impatient.
SyncWait(t) ==
  \/ t \notin eof /\ tokens > 0 /\ tokens' = tokens - 1 /\ UNCHANGED eof
  \/ t \in eof /\ eof' = eof \ {t} /\ UNCHANGED tokens
  \/ t \notin eof /\ tokens = 0 /\ (Impatient \/ Quiet) /\ UNCHANGED <<eof, tokens>>

\* core_map returns code to core_map_all_modules, which tries the next module
\* unless the code is 0.
Return(t, code) ==
  IF code = Ok \/ attempt[t] = Len(Tries[t])
  THEN /\ result' = [result EXCEPT ![t] = code]
       /\ pc' = [pc EXCEPT ![t] = "done"]
       /\ UNCHANGED attempt
  ELSE /\ attempt' = [attempt EXCEPT ![t] = @ + 1]
       /\ pc' = [pc EXCEPT ![t] = "init"]
       /\ UNCHANGED result

WaitHello(t) ==
  /\ pc[t] = "wait1"
  /\ SyncWait(t)
  /\ IF phase[Conn(t)] = "idle" THEN Return(t, EP_ERROR)
     ELSE Goto(t, "wait1", "wait2") /\ UNCHANGED <<attempt, result>>
  /\ UNCHANGED vars

WaitAccess(t) ==
  /\ Goto(t, "wait2", "map_to")
  /\ SyncWait(t)
  /\ UNCHANGED <<vars, attempt, result>>

\* states_get still finds a STATE that core_on_disconnect freed: the write to
\* it and the send on its closed descriptor change no live connection.
SendMapTo(t) ==
  /\ Goto(t, "map_to", "wait3")
  /\ IF phase[Conn(t)] = "freed" THEN UNCHANGED vars ELSE SendMap(Conn(t))
  /\ UNCHANGED <<attempt, eof, tokens, result>>

\* core_proto_map_to in the middle of a handler: the thread is woken by the
\* token of the handler, or it went on already, whatever ended its wait.
MapOvertakes(t) ==
  /\ \E i \in DOMAIN net[Conn(t)] :
       \/ /\ Goto(t, "wait2", "wait3") /\ t \notin eof
          /\ RecvAuthOvertaken(Conn(t), i) /\ UNCHANGED tokens
       \/ /\ Goto(t, "map_to", "wait3")
          /\ \E accept \in Verdicts(Conn(t)) : RecvOvertaken(Conn(t), i, accept)
          /\ tokens' = tokens + (posted'[Conn(t)] - posted[Conn(t)])
  /\ UNCHANGED <<attempt, eof, result>>

WaitMapped(t) ==
  /\ Goto(t, "wait3", "return")
  /\ SyncWait(t)
  /\ UNCHANGED <<vars, attempt, result>>

\* Mutant: what is not mapped by now is reported as failed.
ReturnFlagStrict(t) ==
  /\ pc[t] = "return"
  /\ Return(t, IF end[Conn(t)].st = "EXT_MSG" THEN Ok ELSE EP_ERROR)
  /\ UNCHANGED <<vars, eof, tokens>>

\* The flag of a freed STATE may read as anything.
ReturnFlag(t) ==
  /\ pc[t] = "return"
  /\ \E code \in IF phase[Conn(t)] = "freed" THEN Codes ELSE {end[Conn(t)].flag} :
       Return(t, code)
  /\ UNCHANGED <<vars, eof, tokens>>

CallMap(t) ==
  \/ SyncInit(t) \/ FcConnect(t) \/ WaitHello(t) \/ WaitAccess(t)
  \/ SendMapTo(t) \/ MapOvertakes(t) \/ WaitMapped(t) \/ ReturnFlag(t)

-----------------------------------------------------------------------------
(* Everything else: the connections' receive threads, the transport, and   *)
(* the cores that connect to this one.                                     *)

Elsewhere(e) ==
  \/ /\ e \notin Clients \cap Local
     /\ Connect(e) \/ MapTo(e) \/ Overtake(e)
  \/ Receive(e) \/ LateWrite(e) \/ Disconnect(e) \/ Break(e) \/ Lose(e) \/ Duplicate(e)

\* The tokens a local end posts go to the one pipe.
Posting(e) ==
  /\ tokens' = tokens + (IF e \in Local THEN posted'[e] - posted[e] ELSE 0)
  /\ UNCHANGED <<pc, attempt, eof, result>>

Others(e) == Elsewhere(e) /\ Posting(e)

MapNext == (\E t \in Threads : CallMap(t)) \/ (\E e \in Ends : Others(e))

MapSpec == MapInit /\ [][MapNext]_allVars

Moves(e) ==
  (e \notin Clients /\ Connect(e)) \/ Receive(e) \/ LateWrite(e) \/ Disconnect(e)

\* A thread in core_map keeps running, and some connection goes on while there
\* is a message left to handle.
MapFairness ==
  /\ \A t \in Threads : WF_allVars(CallMap(t))
  /\ WF_allVars(\E e \in Ends : Moves(e) /\ Posting(e))

FairMapSpec == MapSpec /\ MapFairness

-----------------------------------------------------------------------------
(* Properties. *)

\* endpoint_map_to: the status code depends on whether mapping was
\* successful.  A call that returned 0 has mapped its last connection.
ZeroMeansMapped ==
  \A t \in Threads : result[t] = Ok => end[Conn(t)].st = "EXT_MSG"

\* A call maps at most one of the connections it tried, none if it failed:
\* no MAP_ACK that comes after the wait for it ended maps a connection whose
\* call has gone on to the next.
OneMappingPerCall ==
  \A t \in Threads :
    LET mapped == {i \in DOMAIN Tries[t] : end[Tries[t][i]].st = "EXT_MSG"}
    IN  /\ Cardinality(mapped) <= 1
        /\ result[t] \in Codes \ {Ok} => mapped = {}

\* The comment in core_map: when it sends the MAP there must be a connection
\* state instantiated.
StateInstantiated ==
  \A t \in Threads : pc[t] = "map_to" => phase[Conn(t)] \in {"up", "closing"}

\* A call that is alone: no other has begun, its connections keep the order, need
\* no credentials and are to cores of its version, and nobody connects to this
\* core.
Alone(t) ==
  /\ \A u \in Threads \ {t} : pc[u] = "init" /\ attempt[u] = 1
  /\ \A i \in DOMAIN Tries[t] :
       /\ SameVersion(Tries[t][i])
       /\ \A d \in {Tries[t][i], Peer[Tries[t][i]]} : Faults[d] = {} /\ d \notin Guarded
  /\ Local \subseteq Clients

\* Then 0 does mean that it is mapped, and MAP is sent on a live connection.
MapsRightAlone ==
  \A t \in Threads : Alone(t) =>
    /\ result[t] = Ok => end[Conn(t)].st = "EXT_MSG"
    /\ pc[t] = "map_to" => phase[Conn(t)] \in {"up", "closing"}

\* Whatever happens to its connections, and to the pipe under the other
\* callers, core_map returns.
MapReturns == \A t \in Threads : <>(pc[t] = "done")
=============================================================================
