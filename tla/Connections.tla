---------------------------- MODULE Connections ----------------------------
(***************************************************************************)
(* The connections of a core through the TCP module (com_tcp.c): its       *)
(* accept thread, a receive thread for every connection, the callbacks of  *)
(* the core (core_callbacks.c) and the table of STATEs under the numbers   *)
(* of the sockets (state.c), which the system gives out again.             *)
(***************************************************************************)
EXTENDS Naturals, FiniteSets, Functions

CONSTANTS
  Conns,     \* connections; each is made once
  Outgoing,  \* those that core_map makes
  Socks      \* numbers for sockets

ASSUME ConnectionsAssumption ==
  Outgoing \subseteq Conns /\ Socks \subseteq Nat \ {0} /\ 0 \notin Conns

VARIABLES
  callbacks,  \* how many of on_data, on_connect and on_disconnect are set
  sockOf,     \* the number a connection got, or 0
  isOpen,     \* the connection that is open under a number, or 0
  starting,   \* those between accept or connect and their receive thread
  peerIs,     \* of each connection: "none", "there" or "left"
  inbound,       \* what the peer has sent: "none", "good" or "bad"
  thread,     \* the receive thread: "none", "reading", "closing" or "ended"
  stateAt,    \* the connection whose STATE is in the table, or 0
  freed,      \* the connections whose STATE is freed
  connCrashed,
  early,      \* history: connections that were made before on_connect was set,
  closedHere, \* connections that the core has closed itself,
  misled      \* and whether a STATE was given what another's peer has sent

connectionVars == <<callbacks, sockOf, isOpen, starting, peerIs, inbound, thread, stateAt,
                    freed, connCrashed, early, closedHere, misled>>

\* The module is being loaded, or is loaded and nobody has come yet.
ConnectionsInit ==
  /\ callbacks \in {0, 3}
  /\ sockOf = [c \in Conns |-> 0] /\ isOpen = [s \in Socks |-> 0]
  /\ starting = {}
  /\ peerIs = [c \in Conns |-> "none"] /\ inbound = [c \in Conns |-> "none"]
  /\ thread = [c \in Conns |-> "none"]
  /\ stateAt = [s \in Socks |-> 0] /\ freed = {}
  /\ connCrashed = FALSE /\ early = {} /\ closedHere = {} /\ misled = FALSE

FreeSocks == {s \in Socks : isOpen[s] = 0}

-----------------------------------------------------------------------------
\* core_load_com_module sets the callbacks one by one; com_init has started
\* the accept thread before.
SetCallback ==
  /\ ~connCrashed /\ callbacks < 3
  /\ callbacks' = callbacks + 1
  /\ UNCHANGED <<sockOf, isOpen, starting, peerIs, inbound, thread, stateAt, freed, connCrashed,
                 early, closedHere, misled>>

\* accept in tcp_accept_function, or connect in com_connect: one at a time in
\* each of the two threads, with the smallest number there is.
Establish(c) ==
  /\ ~connCrashed /\ peerIs[c] = "none"
  /\ c \in Outgoing => callbacks = 3
  /\ \A d \in starting : (d \in Outgoing) # (c \in Outgoing)
  /\ \E s \in FreeSocks :
       /\ \A r \in FreeSocks : s <= r
       /\ sockOf' = [sockOf EXCEPT ![c] = s] /\ isOpen' = [isOpen EXCEPT ![s] = c]
  /\ peerIs' = [peerIs EXCEPT ![c] = "there"]
  /\ starting' = starting \cup {c}
  /\ UNCHANGED <<callbacks, inbound, thread, stateAt, freed, connCrashed, early, closedHere, misled>>

\* tcp_run_receive_thread: core_on_connect if it is set, then the thread.
Start(c) ==
  /\ ~connCrashed /\ c \in starting
  /\ starting' = starting \ {c}
  /\ thread' = [thread EXCEPT ![c] = "reading"]
  /\ IF callbacks >= 2
     THEN stateAt' = [stateAt EXCEPT ![sockOf[c]] = c] /\ UNCHANGED early
     ELSE early' = early \cup {c} /\ UNCHANGED stateAt
  /\ UNCHANGED <<callbacks, sockOf, isOpen, peerIs, inbound, freed, connCrashed, closedHere, misled>>

\* The peer: "bad" is what makes the core close the connection (an AUTH_ACK, a
\* MAP or a MAP_ACK that says no, an UNMAP).
PeerSends(c, what) ==
  /\ peerIs[c] = "there" /\ inbound[c] = "none"
  /\ inbound' = [inbound EXCEPT ![c] = what]
  /\ UNCHANGED <<callbacks, sockOf, isOpen, starting, peerIs, thread, stateAt, freed,
                 connCrashed, early, closedHere, misled>>

PeerLeaves(c) ==
  /\ peerIs[c] = "there"
  /\ peerIs' = [peerIs EXCEPT ![c] = "left"]
  /\ UNCHANGED <<callbacks, sockOf, isOpen, starting, inbound, thread, stateAt, freed, connCrashed,
                 early, closedHere, misled>>

-----------------------------------------------------------------------------
(* Receive threads.  A thread knows the number only. *)

\* recv gives data; core_on_data.
Receive(t) ==
  /\ ~connCrashed /\ thread[t] = "reading"
  /\ LET s == sockOf[t]
         from == isOpen[s]
         to == stateAt[s]
     IN  /\ from # 0 /\ inbound[from] # "none"
         /\ inbound' = [inbound EXCEPT ![from] = "none"]
         /\ IF callbacks = 0
            THEN UNCHANGED <<isOpen, connCrashed, closedHere, misled>>
            ELSE IF to = 0 \/ to \in freed
            THEN connCrashed' = TRUE /\ UNCHANGED <<isOpen, closedHere, misled>>
            ELSE /\ misled' = (misled \/ to # from)
                 /\ IF inbound[from] = "bad"
                    THEN isOpen' = [isOpen EXCEPT ![s] = 0] /\ closedHere' = closedHere \cup {from}
                    ELSE UNCHANGED <<isOpen, closedHere>>
                 /\ UNCHANGED connCrashed
  /\ UNCHANGED <<callbacks, sockOf, starting, peerIs, thread, stateAt, freed, early>>

\* What the thread reads has ended, or is not open any more.
AtEnd(t) ==
  LET from == isOpen[sockOf[t]] IN
    from # 0 => peerIs[from] = "left" /\ inbound[from] = "none"

\* Mutant: ep_unmap_final closes the connection too.
DisconnectedTwice(t) ==
  /\ ~connCrashed /\ thread[t] = "reading" /\ AtEnd(t) /\ callbacks = 3
  /\ stateAt[sockOf[t]] \notin freed \cup {0}
  /\ freed' = freed \cup {stateAt[sockOf[t]]}
  /\ isOpen' = [isOpen EXCEPT ![sockOf[t]] = 0]
  /\ thread' = [thread EXCEPT ![t] = "closing"]
  /\ UNCHANGED <<callbacks, sockOf, starting, peerIs, inbound, stateAt, connCrashed, early,
                 closedHere, misled>>

\* core_on_disconnect up to state_free; the table keeps the address.
Disconnected(t) ==
  /\ ~connCrashed /\ thread[t] = "reading" /\ AtEnd(t)
  /\ LET st == stateAt[sockOf[t]] IN
       CASE callbacks < 3 ->
              thread' = [thread EXCEPT ![t] = "closing"] /\ UNCHANGED <<freed, connCrashed>>
         [] callbacks = 3 /\ st = 0 ->
              thread' = [thread EXCEPT ![t] = "ended"] /\ UNCHANGED <<freed, connCrashed>>
         [] callbacks = 3 /\ st \in freed ->
              connCrashed' = TRUE /\ UNCHANGED <<thread, freed>>
         [] OTHER ->
              /\ freed' = freed \cup {st}
              /\ thread' = [thread EXCEPT ![t] = "closing"]
              /\ UNCHANGED connCrashed
  /\ UNCHANGED <<callbacks, sockOf, isOpen, starting, peerIs, inbound, stateAt, early, closedHere, misled>>

\* Mutant: core_on_disconnect does not close.
CloseSocketNot(t) ==
  /\ ~connCrashed /\ thread[t] = "closing"
  /\ thread' = [thread EXCEPT ![t] = "ended"]
  /\ UNCHANGED <<callbacks, sockOf, isOpen, starting, peerIs, inbound, stateAt, freed, connCrashed,
                 early, closedHere, misled>>

\* com_connection_close
CloseSocket(t) ==
  /\ ~connCrashed /\ thread[t] = "closing"
  /\ isOpen' = [isOpen EXCEPT ![sockOf[t]] = 0]
  /\ thread' = [thread EXCEPT ![t] = "ended"]
  /\ UNCHANGED <<callbacks, sockOf, starting, peerIs, inbound, stateAt, freed, connCrashed, early,
                 closedHere, misled>>

ConnectionsNext ==
  \/ SetCallback
  \/ \E c \in Conns :
       \/ Establish(c) \/ Start(c) \/ PeerLeaves(c)
       \/ \E what \in {"good", "bad"} : PeerSends(c, what)
       \/ Receive(c) \/ Disconnected(c) \/ CloseSocket(c)

ConnectionsSpec == ConnectionsInit /\ [][ConnectionsNext]_connectionVars

\* The threads of the core run.
ConnectionsFairness ==
  /\ WF_connectionVars(SetCallback)
  /\ \A c \in Conns :
       WF_connectionVars(Start(c) \/ Receive(c) \/ Disconnected(c) \/ CloseSocket(c))

FairConnectionsSpec == ConnectionsSpec /\ ConnectionsFairness

-----------------------------------------------------------------------------
(* Properties. *)

\* Every variable has its type; two connections are not open under one number,
\* and until the core has closed one a thread that starts has an open one.
ConnectionsTypeOK ==
  /\ closedHere = {} => \A c \in starting : isOpen[sockOf[c]] = c
  /\ \A s \in Socks :
       /\ isOpen[s] # 0 => sockOf[isOpen[s]] = s
       /\ stateAt[s] # 0 => sockOf[stateAt[s]] = s
  /\ freed \subseteq {c \in Conns : thread[c] # "none"}

\* As long as nobody has come before the callbacks were set and the core has
\* not closed a connection of its own accord, the core does not crash, no
\* STATE is used after it was freed, every STATE is given what its own peer
\* has sent, and no thread closes a connection other than its own.
OwnStateOnly ==
  early = {} /\ closedHere = {} =>
    /\ ~connCrashed /\ ~misled
    /\ \A c \in Conns : thread[c] = "reading" => isOpen[sockOf[c]] = c /\ stateAt[sockOf[c]] = c

\* And then, again and again, no connection is open whose peer has left.
LeftIsClosed ==
  []<>(\A c \in Conns : peerIs[c] = "left" =>
         c \notin Range(isOpen) \/ connCrashed \/ c \in early \/ closedHere # {})
=============================================================================
