----------------------------- MODULE NodeProofs -----------------------------
(***************************************************************************)
(* Theorems about Connections, for any number of connections and numbers of*)
(* sockets, about Lifecycle, for any commands an application gives its     *)
(* core, and about the five that MCFlows puts side by side.                *)
(***************************************************************************)
EXTENDS MCFlows, TrafficProofs, SequenceTheorems, TLAPS

-----------------------------------------------------------------------------
(* Connections: while nobody comes before the callbacks are set and the     *)
(* core closes no connection of its own accord, every thread works on its   *)
(* own connection and its own STATE, and the core does not crash.           *)

\* The premise of OwnStateOnly.  What is in early and closedHere stays there,
\* so whoever has it now has always had it.
Calm == early = {} /\ closedHere = {}

ThreadStates == {"none", "reading", "closing", "ended"}

Types ==
  /\ sockOf \in [Conns -> Socks \cup {0}]
  /\ isOpen \in [Socks -> Conns \cup {0}]
  /\ stateAt \in [Socks -> Conns \cup {0}]
  /\ thread \in [Conns -> ThreadStates]
  /\ peerIs \in [Conns -> {"none", "there", "left"}]
  /\ inbound \in [Conns -> {"none", "good", "bad"}]
  /\ starting \subseteq Conns
  /\ callbacks \in 0..3
  /\ misled \in BOOLEAN /\ connCrashed \in BOOLEAN

\* Whom a number belongs to: a connection between its establishment and the
\* end of its thread, and it alone.
Holds(c) == c \in starting \/ thread[c] \in {"reading", "closing"}

Owned ==
  /\ \A c \in Conns : Holds(c) => sockOf[c] \in Socks /\ isOpen[sockOf[c]] = c
  /\ \A c \in starting : thread[c] = "none"
  /\ \A c \in Conns : peerIs[c] = "none" => c \notin starting /\ thread[c] = "none"

\* The table of STATEs has the one of every thread that is reading, which is
\* freed only when it stops.
OwnStates ==
  /\ \A c \in Conns : thread[c] = "reading" => stateAt[sockOf[c]] = c
  /\ \A c \in freed : c \in Conns /\ thread[c] \in {"closing", "ended"}

ConnectionsInv ==
  /\ Types
  /\ Calm => ~connCrashed /\ ~misled /\ Owned /\ OwnStates

LEMMA ConnectionsInitial == ConnectionsInit => ConnectionsInv
<1> SUFFICES ASSUME ConnectionsInit PROVE ConnectionsInv
  OBVIOUS
<1>1. Types
  <2>1. callbacks \in 0..3
    BY DEF ConnectionsInit
  <2>2. QED
    BY <2>1 DEF ConnectionsInit, Types, ThreadStates
<1>2. ~connCrashed /\ ~misled /\ Owned /\ OwnStates
  BY DEF ConnectionsInit, Owned, OwnStates, Holds
<1>3. QED
  BY <1>1, <1>2 DEF ConnectionsInv

-----------------------------------------------------------------------------
\* Nobody leaves early or closedHere.
LEMMA CalmBefore == [ConnectionsNext]_connectionVars /\ Calm' => Calm
BY DEF ConnectionsNext, connectionVars, Calm, SetCallback, Establish, Start, PeerSends,
       PeerLeaves, Receive, Disconnected, CloseSocket

LEMMA TypesKept == Types /\ [ConnectionsNext]_connectionVars => Types'
<1> SUFFICES ASSUME Types, [ConnectionsNext]_connectionVars PROVE Types'
  OBVIOUS
<1> USE ConnectionsAssumption DEF Types, ThreadStates
<1>1. CASE UNCHANGED connectionVars
  BY <1>1 DEF connectionVars
<1>2. CASE SetCallback
  BY <1>2 DEF SetCallback
<1>3. ASSUME NEW c \in Conns, Establish(c) PROVE Types'
  BY <1>3 DEF Establish, FreeSocks
<1>4. ASSUME NEW c \in Conns, Start(c) PROVE Types'
  <2>1. stateAt' \in [Socks -> Conns \cup {0}]
    BY <1>4 DEF Start
  <2>2. QED
    BY <1>4, <2>1 DEF Start
<1>5. ASSUME NEW c \in Conns, PeerLeaves(c) PROVE Types'
  BY <1>5 DEF PeerLeaves
<1>6. ASSUME NEW c \in Conns, NEW what \in {"good", "bad"}, PeerSends(c, what) PROVE Types'
  BY <1>6 DEF PeerSends
<1>7. ASSUME NEW c \in Conns, Receive(c) PROVE Types'
  <2>1. inbound' \in [Conns -> {"none", "good", "bad"}]
    BY <1>7 DEF Receive
  <2>2. isOpen' \in [Socks -> Conns \cup {0}] /\ misled' \in BOOLEAN /\ connCrashed' \in BOOLEAN
    BY <1>7 DEF Receive
  <2>3. QED
    BY <1>7, <2>1, <2>2 DEF Receive
<1>8. ASSUME NEW c \in Conns, Disconnected(c) PROVE Types'
  <2>1. thread' \in [Conns -> ThreadStates] /\ connCrashed' \in BOOLEAN
    BY <1>8 DEF Disconnected
  <2>2. QED
    BY <1>8, <2>1 DEF Disconnected
<1>9. ASSUME NEW c \in Conns, CloseSocket(c) PROVE Types'
  BY <1>9 DEF CloseSocket
<1>10. QED
  BY <1>1, <1>2, <1>3, <1>4, <1>5, <1>6, <1>7, <1>8, <1>9 DEF ConnectionsNext

-----------------------------------------------------------------------------
(* One lemma per action, while it is calm. *)

Good == Types /\ ~connCrashed /\ ~misled /\ Owned /\ OwnStates

LEMMA EstablishKeeps ==
  ASSUME Good, Types', NEW c \in Conns, Establish(c)
  PROVE  Good'
<1> USE DEF Good
<1>1. PICK s \in FreeSocks : sockOf' = [sockOf EXCEPT ![c] = s] /\ isOpen' = [isOpen EXCEPT ![s] = c]
  BY DEF Establish
<1>2. /\ s \in Socks /\ isOpen[s] = 0 /\ peerIs[c] = "none"
      /\ starting' = starting \cup {c} /\ peerIs' = [peerIs EXCEPT ![c] = "there"]
      /\ UNCHANGED <<thread, stateAt, freed, connCrashed, misled>>
  BY DEF Establish, FreeSocks
<1>3. ~Holds(c) /\ thread[c] = "none"
  BY <1>2 DEF Owned, Holds
<1>4. \A d \in Conns : Holds(d) => d # c /\ sockOf'[d] = sockOf[d] /\ sockOf[d] # s
  BY <1>1, <1>2, <1>3, ConnectionsAssumption DEF Owned, Types
<1>5. \A d \in Conns : Holds(d) => isOpen'[sockOf'[d]] = d
  BY <1>1, <1>4 DEF Owned, Types
<1>6. sockOf'[c] = s /\ isOpen'[s] = c
  BY <1>1, <1>2 DEF Types
<1>7. Owned'
  BY <1>2, <1>3, <1>4, <1>5, <1>6 DEF Owned, Holds, Types
<1>8. OwnStates'
  BY <1>2, <1>4 DEF OwnStates, Holds
<1>9. QED
  BY <1>2, <1>7, <1>8

LEMMA ConnectionStartKeeps ==
  ASSUME Good, Types', NEW c \in Conns, Start(c), Calm'
  PROVE  Good'
<1> USE DEF Good
<1>1. /\ c \in starting /\ starting' = starting \ {c}
      /\ thread' = [thread EXCEPT ![c] = "reading"]
      /\ stateAt' = [stateAt EXCEPT ![sockOf[c]] = c]
      /\ UNCHANGED <<sockOf, isOpen, peerIs, freed, connCrashed, misled>>
  BY DEF Start, Calm
<1>2. Holds(c) /\ thread[c] = "none" /\ sockOf[c] \in Socks
  BY <1>1 DEF Holds, Owned
<1>3. \A d \in Conns : Holds(d)' = Holds(d)
  BY <1>1 DEF Holds, Types
<1>4. Owned'
  BY <1>1, <1>3 DEF Owned, Types
<1>5. \A d \in Conns \ {c} : thread'[d] = "reading" => sockOf[d] # sockOf[c]
  BY <1>1, <1>2 DEF Owned, Holds, Types
<1>6. \A d \in Conns : thread'[d] = "reading" => stateAt'[sockOf'[d]] = d
  BY <1>1, <1>2, <1>5 DEF OwnStates, Types
<1>7. c \notin freed
  BY <1>2 DEF OwnStates
<1>8. OwnStates'
  BY <1>1, <1>6, <1>7 DEF OwnStates, Types
<1>9. QED
  BY <1>1, <1>4, <1>8

LEMMA ReceiveKeeps ==
  ASSUME Good, Types', NEW c \in Conns, Receive(c), Calm'
  PROVE  Good'
<1> USE DEF Good
<1>1. /\ isOpen[sockOf[c]] = c /\ stateAt[sockOf[c]] = c /\ c \notin freed /\ c # 0
  BY ConnectionsAssumption DEF Receive, Owned, Holds, OwnStates
<1>2. /\ UNCHANGED <<sockOf, isOpen, starting, peerIs, thread, stateAt, freed, connCrashed>>
      /\ ~misled'
  <2>1. CASE callbacks = 0
    BY <2>1 DEF Receive
  <2>2. CASE callbacks # 0
    <3>1. UNCHANGED connCrashed /\ misled' = (misled \/ c # c)
      BY <1>1, <2>2 DEF Receive
    <3>2. inbound[c] # "bad"
      BY <1>1, <2>2 DEF Receive, Calm
    <3>3. UNCHANGED isOpen
      BY <1>1, <2>2, <3>2 DEF Receive
    <3>4. ~misled'
      BY <3>1
    <3>5. UNCHANGED <<sockOf, starting, peerIs, thread, stateAt, freed>>
      BY DEF Receive
    <3>6. QED
      BY <3>1, <3>3, <3>4, <3>5
  <2>3. QED
    BY <2>1, <2>2
<1>3. QED
  BY <1>2 DEF Owned, OwnStates, Holds

LEMMA DisconnectedKeeps ==
  ASSUME Good, Types', NEW c \in Conns, Disconnected(c)
  PROVE  Good'
<1> USE DEF Good
<1>1. /\ stateAt[sockOf[c]] = c /\ c \notin freed /\ c # 0 /\ thread[c] = "reading"
      /\ UNCHANGED <<sockOf, isOpen, starting, peerIs, stateAt, misled>>
  BY ConnectionsAssumption DEF Disconnected, Owned, OwnStates
<1>2. /\ thread' = [thread EXCEPT ![c] = "closing"] /\ UNCHANGED connCrashed
      /\ freed' \subseteq freed \cup {c}
  <2>1. CASE callbacks < 3
    BY <2>1 DEF Disconnected
  <2>2. CASE ~(callbacks < 3)
    <3>1. callbacks = 3
      BY <2>2 DEF Types
    <3>2. QED
      BY <1>1, <3>1 DEF Disconnected
  <2>3. QED
    BY <2>1, <2>2
<1>3. \A d \in Conns : Holds(d)' = Holds(d)
  BY <1>1, <1>2 DEF Holds, Types
<1>4. Owned'
  BY <1>1, <1>2, <1>3 DEF Owned, Types
<1>5. OwnStates'
  BY <1>1, <1>2 DEF OwnStates, Types
<1>6. QED
  BY <1>1, <1>2, <1>4, <1>5

LEMMA CloseSocketKeeps ==
  ASSUME Good, Types', NEW c \in Conns, CloseSocket(c)
  PROVE  Good'
<1> USE DEF Good
<1>1. /\ thread[c] = "closing" /\ thread' = [thread EXCEPT ![c] = "ended"]
      /\ isOpen' = [isOpen EXCEPT ![sockOf[c]] = 0]
      /\ UNCHANGED <<sockOf, starting, peerIs, stateAt, freed, connCrashed, misled>>
  BY DEF CloseSocket
<1>2. Holds(c) /\ c \notin starting
  BY <1>1 DEF Holds, Owned
<1>3. \A d \in Conns \ {c} : (Holds(d)' = Holds(d)) /\ (Holds(d) => sockOf[d] # sockOf[c])
  BY <1>1, <1>2 DEF Holds, Owned, Types
<1>4. \A d \in Conns : Holds(d)' => d # c /\ sockOf'[d] \in Socks /\ isOpen'[sockOf'[d]] = d
  BY <1>1, <1>2, <1>3 DEF Holds, Owned, Types
<1>5. Owned'
  BY <1>1, <1>4 DEF Owned, Types
<1>6. OwnStates'
  BY <1>1 DEF OwnStates, Types
<1>7. QED
  BY <1>1, <1>5, <1>6

LEMMA OthersKeep ==
  ASSUME Good, Types',
         \/ UNCHANGED connectionVars
         \/ SetCallback
         \/ \E c \in Conns : PeerLeaves(c) \/ \E what \in {"good", "bad"} : PeerSends(c, what)
  PROVE  Good'
<1> USE DEF Good
<1>1. /\ UNCHANGED <<sockOf, isOpen, starting, thread, stateAt, freed, connCrashed, misled>>
      /\ \A c \in Conns : peerIs'[c] = "none" => peerIs[c] = "none"
  BY DEF connectionVars, SetCallback, PeerLeaves, PeerSends, Types
<1>2. Owned' /\ OwnStates'
  BY <1>1 DEF Owned, OwnStates, Holds
<1>3. QED
  BY <1>1, <1>2

LEMMA ConnectionsStep == ConnectionsInv /\ [ConnectionsNext]_connectionVars => ConnectionsInv'
<1> SUFFICES ASSUME ConnectionsInv, [ConnectionsNext]_connectionVars PROVE ConnectionsInv'
  OBVIOUS
<1>1. Types'
  BY TypesKept DEF ConnectionsInv
<1>2. ASSUME Calm' PROVE Good'
  <2>1. Good
    BY <1>2, CalmBefore DEF ConnectionsInv, Good
  <2>2. QED
    BY <1>1, <1>2, <2>1, EstablishKeeps, ConnectionStartKeeps, ReceiveKeeps, DisconnectedKeeps,
       CloseSocketKeeps, OthersKeep DEF ConnectionsNext
<1>3. QED
  BY <1>1, <1>2 DEF ConnectionsInv, Good

\* Every thread that com_tcp.c starts reads from the socket it was started
\* for, its STATE is the one core_on_connect put in the table, and nobody else
\* frees it, however the numbers of closed sockets are given out again.
THEOREM OwnConnections == ConnectionsSpec => []OwnStateOnly
<1>1. ConnectionsInv => OwnStateOnly
  BY DEF ConnectionsInv, OwnStateOnly, Calm, Owned, OwnStates, Holds
<1>2. QED
  BY <1>1, ConnectionsInitial, ConnectionsStep, PTL DEF ConnectionsSpec

-----------------------------------------------------------------------------
(* Lifecycle: every reply comes in time, while the core is not late.       *)

CallMessage == [kind : {"call"}, n : Nat \ {0}, of : NodeCommands]
ToApp == {Welcome, Rest} \cup {Reply(n) : n \in Nat}

LifecycleTypes ==
  /\ toCore \in Seq({Key} \cup CallMessage)
  /\ toApp \in Seq(ToApp) /\ pipe \in Seq(ToApp)
  /\ call \in {NoCall} \cup CallMessage
  /\ appAt \in {"sending", "noting", "waiting"} => call # NoCall
  /\ waits \in BOOLEAN /\ waitsFor \in Nat
  /\ firstData \in BOOLEAN /\ firstSeen \in BOOLEAN /\ late \in BOOLEAN /\ closed \in BOOLEAN

\* The library has got over mw_init.
Served == {"idle", "sending", "noting", "waiting"}

\* Nothing comes from the core any more.
Quiet == CoreGone /\ toApp = <<>>

\* Nobody gets anything before the core is set up.
NothingBeforeUp ==
  /\ appAt = "before" => coreAt = "none" /\ pipe = <<>>
  /\ \/ appAt \in Served \cup {"key"} \/ toCore # <<>> \/ toApp # <<>> \/ ~firstData
     => coreAt \in {"up", "spinning", "failed", "crashed", "ended"}
  /\ appAt \in Served \cup {"key"} => ~firstData \/ Quiet

\* The key is the first message, and the calls after it have their numbers.
KeyIsFirst ==
  /\ \A i \in DOMAIN toCore : toCore[i] = Key <=> (i = 1 /\ ~firstSeen)
  /\ appAt \in {"before", "welcoming", "key"} =>
       toCore = <<>> /\ ~firstSeen /\ ~waits /\ call = NoCall
  /\ appAt \in Served /\ ~closed => firstSeen \/ toCore # <<>>
  /\ \A i \in DOMAIN toCore : toCore[i] # Key /\ toCore[i].n >= call.n =>
       toCore[i] = call /\ appAt # "sending"

\* No answer to call n is still to come.
Unanswered(n) ==
  \/ Quiet
  \/ /\ \A i \in DOMAIN toApp : toApp[i] # Reply(n)
     /\ \A i \in DOMAIN toCore : toCore[i] # Key /\ toCore[i].n = n => ~Replies(toCore[i].of)

\* What is in the pipe is what the library waits for; a call that nobody waits
\* for any more is not answered.
PipeRight ==
  /\ appAt = "welcoming" => pipe = (IF firstData THEN <<>> ELSE <<Welcome>>)
  /\ appAt \in {"key", "idle", "sending", "noting"} => pipe = <<>>
  /\ appAt = "waiting" => pipe = <<>> \/ (pipe = <<Reply(call.n)>> /\ ~waits)
  /\ waits /\ appAt = "waiting" => waitsFor = call.n /\ pipe = <<>>
  /\ waits /\ appAt \in {"idle", "sending", "noting"} =>
       /\ waitsFor <= call.n /\ (appAt # "idle" => waitsFor < call.n)
       /\ Unanswered(waitsFor)

Timely ==
  NothingLostInTime /\ OwnUnlessLate /\ NothingBeforeUp /\ KeyIsFirst /\ PipeRight

LifecycleInv == LifecycleTypes /\ (~late => Timely)

-----------------------------------------------------------------------------
(* Sequences and messages. *)

LEMMA Appended ==
  ASSUME NEW S, NEW q \in Seq(S), NEW e \in S
  PROVE  /\ Append(q, e) \in Seq(S) /\ Append(q, e) # <<>> /\ DOMAIN Append(q, e) = 1 .. Len(q) + 1
         /\ \A i \in DOMAIN Append(q, e) : \/ i \in DOMAIN q /\ Append(q, e)[i] = q[i]
                                           \/ i = Len(q) + 1 /\ Append(q, e)[i] = e
<1>1. Len(q) \in Nat /\ DOMAIN q = 1 .. Len(q) /\ Len(Append(q, e)) = Len(q) + 1
  OBVIOUS
<1>2. \A i \in 1 .. Len(q) : Append(q, e)[i] = q[i]
  OBVIOUS
<1>3. Append(q, e)[Len(q) + 1] = e /\ Append(q, e) \in Seq(S)
  OBVIOUS
<1>4. DOMAIN Append(q, e) = 1 .. Len(q) + 1
  BY <1>1, <1>3
<1>5. Append(q, e) # <<>>
  BY <1>1
<1>6. QED
  BY <1>1, <1>2, <1>3, <1>4, <1>5

LEMMA TakenFrom ==
  ASSUME NEW S, NEW q \in Seq(S), q # <<>>
  PROVE  /\ Tail(q) \in Seq(S) /\ Head(q) \in S /\ 1 \in DOMAIN q /\ Head(q) = q[1]
         /\ \A i \in DOMAIN Tail(q) : i + 1 \in DOMAIN q /\ i + 1 # 1 /\ Tail(q)[i] = q[i + 1]
<1>1. Len(q) \in Nat \ {0} /\ DOMAIN q = 1 .. Len(q)
  OBVIOUS
<1>2. /\ Tail(q) \in Seq(S) /\ Len(Tail(q)) = Len(q) - 1 /\ Head(q) = q[1]
      /\ DOMAIN Tail(q) = 1 .. Len(q) - 1
  OBVIOUS
<1>3. \A i \in 1 .. Len(q) - 1 : Tail(q)[i] = q[i + 1]
  OBVIOUS
<1>4. q[1] \in S
  BY <1>1
<1>5. QED
  BY <1>1, <1>2, <1>3, <1>4

LEMMA MessageFacts ==
  /\ Key \notin CallMessage /\ NoCall \notin CallMessage
  /\ Key.n = 0 /\ NoCall.n = 0
  /\ \A m \in CallMessage : m.n \in Nat \ {0} /\ m.of \in NodeCommands
  /\ Welcome \in ToApp /\ Rest \in ToApp
  /\ \A n \in Nat : Reply(n) \in ToApp /\ Reply(n).kind = "reply" /\ Reply(n).n = n
  /\ \A n \in Nat : Reply(n) # Welcome /\ Reply(n) # Rest
  /\ \A m \in ToApp : m.kind = "reply" => m.n \in Nat /\ m = Reply(m.n)
  /\ \A n, k \in Nat : Reply(n) = Reply(k) => n = k
<1>1. Key.kind = "key" /\ NoCall.kind = "none" /\ Key.n = 0 /\ NoCall.n = 0
  BY DEF Key, NoCall
<1>2. \A m \in CallMessage : m.kind = "call" /\ m.n \in Nat \ {0} /\ m.of \in NodeCommands
  BY DEF CallMessage
<1>3. \A n : Reply(n).kind = "reply" /\ Reply(n).n = n
  BY DEF Reply
<1>4. Welcome.kind = "welcome" /\ Rest.kind = "rest"
  BY DEF Welcome, Rest
<1>5. \A n \in Nat : Reply(n) \in ToApp
  BY DEF ToApp
<1>6. \A m \in ToApp : m = Welcome \/ m = Rest \/ \E n \in Nat : m = Reply(n)
  BY DEF ToApp
<1>7. \A m \in ToApp : m.kind = "reply" => m.n \in Nat /\ m = Reply(m.n)
  BY <1>3, <1>4, <1>6
<1>8. QED
  BY <1>1, <1>2, <1>3, <1>4, <1>5, <1>7 DEF ToApp

LEMMA CallFacts ==
  ASSUME LifecycleTypes
  PROVE  /\ call.n \in Nat /\ (call # NoCall => call \in CallMessage)
         /\ \A i \in DOMAIN toCore : /\ toCore[i] \in {Key} \cup CallMessage
                                     /\ toCore[i].n \in Nat /\ (toCore[i] # Key => toCore[i] \in CallMessage)
         /\ \A i \in DOMAIN toApp : toApp[i] \in ToApp
<1>1. \A i \in DOMAIN toCore : toCore[i] \in {Key} \cup CallMessage
  BY DEF LifecycleTypes
<1>2. \A i \in DOMAIN toApp : toApp[i] \in ToApp
  BY DEF LifecycleTypes
<1>3. call \in {NoCall} \cup CallMessage
  BY DEF LifecycleTypes
<1>4. QED
  BY <1>1, <1>2, <1>3, MessageFacts

LEMMA LifecycleInitial == LifecycleInit => LifecycleInv
<1> SUFFICES ASSUME LifecycleInit PROVE LifecycleInv
  OBVIOUS
<1>1. LifecycleTypes
  <2>1. \A S : <<>> \in Seq(S)
    OBVIOUS
  <2>2. QED
    BY <2>1 DEF LifecycleInit, LifecycleTypes
<1>2. NothingLostInTime /\ OwnUnlessLate
  BY DEF LifecycleInit, NothingLostInTime, OwnUnlessLate
<1>3. NothingBeforeUp /\ KeyIsFirst /\ PipeRight
  BY DEF LifecycleInit, NothingBeforeUp, KeyIsFirst, PipeRight, Served
<1>4. QED
  BY <1>1, <1>2, <1>3 DEF LifecycleInv, Timely

-----------------------------------------------------------------------------
(* Steps of the library. *)

\* Once the application is gone nothing is left to be shown but what the core
\* has not taken yet.
LEMMA AppEnds ==
  ASSUME LifecycleInv, appAt' \in {"ended", "crashed", "spinning"}, LifecycleTypes',
         UNCHANGED <<coreVars, toCore, call, returned, late>>,
         toApp' # <<>> => toApp # <<>>, ~firstData' => ~firstData \/ toApp # <<>>
  PROVE  LifecycleInv'
<1> SUFFICES ASSUME ~late PROVE Timely'
  BY DEF LifecycleInv
<1>1. Timely
  BY DEF LifecycleInv
<1>2. NothingLostInTime' /\ OwnUnlessLate'
  BY <1>1 DEF Timely, NothingLostInTime, OwnUnlessLate, coreVars
<1>3. NothingBeforeUp'
  BY <1>1 DEF Timely, NothingBeforeUp, coreVars, Served
<1>4. KeyIsFirst'
  BY <1>1 DEF Timely, KeyIsFirst, coreVars, Served
<1>5. PipeRight'
  BY DEF PipeRight
<1>6. QED
  BY <1>2, <1>3, <1>4, <1>5 DEF Timely

LEMMA ExitKeeps ==
  ASSUME LifecycleInv, Exit \/ ApiOnDisconnect
  PROVE  LifecycleInv'
<1>1. /\ appAt' = "ended" /\ closed' \in BOOLEAN
      /\ UNCHANGED <<coreVars, toCore, toApp, firstData, pipe, waits, waitsFor, call, returned, late>>
  BY DEF Exit, ApiOnDisconnect, LifecycleInv, LifecycleTypes
<1>2. LifecycleTypes'
  BY <1>1 DEF LifecycleInv, LifecycleTypes, coreVars
<1>3. QED
  BY <1>1, <1>2, AppEnds

LEMMA InterruptKeeps ==
  ASSUME LifecycleInv, Interrupt
  PROVE  LifecycleInv'
<1>1. /\ closed' = TRUE
      /\ UNCHANGED <<coreVars, toCore, toApp, appAt, firstData, pipe, waits, waitsFor, call,
                     returned, late>>
  BY DEF Interrupt
<1>2. LifecycleTypes'
  BY <1>1 DEF LifecycleInv, LifecycleTypes, coreVars
<1>3. ~late => Timely'
  BY <1>1 DEF LifecycleInv, Timely, NothingLostInTime, OwnUnlessLate, NothingBeforeUp, KeyIsFirst,
              PipeRight, Unanswered, Quiet, CoreGone, coreVars
<1>4. QED
  BY <1>1, <1>2, <1>3 DEF LifecycleInv

LEMMA SpawnKeeps ==
  ASSUME LifecycleInv, CoreSpawnFd \/ CoreSpawnFifo
  PROVE  LifecycleInv'
<1>1. /\ appAt = "before"
      /\ \/ appAt' = "welcoming" /\ coreAt' = "loading"
         \/ appAt' = "crashed" /\ coreAt' = "failed"
      /\ UNCHANGED <<toCore, toApp, closed, firstData, pipe, waits, waitsFor, firstSeen, call,
                     returned, late, lost>>
  BY DEF CoreSpawnFd, CoreSpawnFifo
<1>2. LifecycleTypes'
  BY <1>1 DEF LifecycleInv, LifecycleTypes
<1> SUFFICES ASSUME ~late PROVE Timely'
  BY <1>1, <1>2 DEF LifecycleInv
<1>3. Timely
  BY DEF LifecycleInv
<1>4. toCore = <<>> /\ toApp = <<>> /\ firstData /\ pipe = <<>>
  BY <1>1, <1>3 DEF Timely, NothingBeforeUp, LifecycleInv, LifecycleTypes
<1>5. NothingLostInTime' /\ OwnUnlessLate'
  BY <1>1, <1>3 DEF Timely, NothingLostInTime, OwnUnlessLate
<1>6. NothingBeforeUp' /\ KeyIsFirst' /\ PipeRight'
  BY <1>1, <1>3, <1>4 DEF Timely, NothingBeforeUp, KeyIsFirst, PipeRight, Served
<1>7. QED
  BY <1>5, <1>6 DEF Timely

LEMMA WelcomeWaitKeeps ==
  ASSUME LifecycleInv, WelcomeWait
  PROVE  LifecycleInv'
<1>1. /\ appAt = "welcoming" /\ appAt' = "key"
      /\ UNCHANGED <<coreVars, toCore, toApp, closed, firstData, waits, waitsFor, call, returned>>
      /\ \/ pipe # <<>> /\ pipe' = Tail(pipe) /\ UNCHANGED late
         \/ /\ pipe = <<>> /\ UNCHANGED pipe
            /\ late' = \/ late \/ toApp # <<>>
                       \/ ~CoreGone /\ (appAt = "waiting" => Replies(call.of))
  BY DEF WelcomeWait, Waited, Timeout
<1>2. pipe' \in Seq(ToApp) /\ late' \in BOOLEAN
  <2>1. CASE pipe # <<>> /\ pipe' = Tail(pipe) /\ UNCHANGED late
    BY <2>1, TakenFrom DEF LifecycleInv, LifecycleTypes
  <2>2. CASE /\ pipe = <<>> /\ UNCHANGED pipe
             /\ late' = \/ late \/ toApp # <<>>
                        \/ ~CoreGone /\ (appAt = "waiting" => Replies(call.of))
    BY <2>2 DEF LifecycleInv, LifecycleTypes
  <2>3. QED
    BY <1>1, <2>1, <2>2
<1>3. LifecycleTypes'
  BY <1>1, <1>2 DEF LifecycleInv, LifecycleTypes, coreVars
<1> SUFFICES ASSUME ~late' PROVE Timely'
  BY <1>3 DEF LifecycleInv
<1>4. ~late /\ Timely
  BY <1>1 DEF LifecycleInv, LifecycleTypes
<1>5. pipe' = <<>> /\ (~firstData \/ Quiet)
  <2>1. CASE pipe # <<>> /\ pipe' = Tail(pipe)
    <3>1. pipe = (IF firstData THEN <<>> ELSE <<Welcome>>)
      BY <1>1, <1>4 DEF Timely, PipeRight
    <3>2. pipe = <<Welcome>> /\ ~firstData
      BY <2>1, <3>1
    <3>3. Tail(<<Welcome>>) = <<>>
      OBVIOUS
    <3>4. QED
      BY <2>1, <3>2, <3>3
  <2>2. CASE pipe = <<>> /\ pipe' = pipe /\ ~(toApp # <<>> \/ ~CoreGone)
    BY <2>2 DEF Quiet
  <2>3. QED
    BY <1>1, <2>1, <2>2
<1>6. NothingLostInTime' /\ OwnUnlessLate' /\ KeyIsFirst'
  BY <1>1, <1>4 DEF Timely, NothingLostInTime, OwnUnlessLate, KeyIsFirst, coreVars, Served
<1>7. NothingBeforeUp'
  BY <1>1, <1>4, <1>5 DEF Timely, NothingBeforeUp, coreVars, Served, Quiet, CoreGone
<1>8. PipeRight'
  BY <1>1, <1>4, <1>5 DEF Timely, PipeRight, KeyIsFirst
<1>9. QED
  BY <1>6, <1>7, <1>8 DEF Timely

LEMMA SendKeyKeeps ==
  ASSUME LifecycleInv, SendKey
  PROVE  LifecycleInv'
<1>1. /\ appAt = "key" /\ appAt' = "idle"
      /\ \/ closed /\ toCore' = toCore
         \/ ~closed /\ toCore' = Append(toCore, Key)
      /\ UNCHANGED <<coreVars, toApp, closed, firstData, pipe, waits, waitsFor, call,
                     returned, late>>
  BY DEF SendKey, Sent
<1>2. toCore' \in Seq({Key} \cup CallMessage)
  <2>1. Key \in {Key} \cup CallMessage /\ toCore \in Seq({Key} \cup CallMessage)
    BY DEF LifecycleInv, LifecycleTypes
  <2>2. QED
    BY <1>1, <2>1, Appended
<1>3. LifecycleTypes'
  BY <1>1, <1>2 DEF LifecycleInv, LifecycleTypes, coreVars
<1> SUFFICES ASSUME ~late PROVE Timely'
  BY <1>1, <1>3 DEF LifecycleInv
<1>4. Timely /\ toCore = <<>> /\ ~firstSeen /\ ~waits /\ call = NoCall
  BY <1>1 DEF LifecycleInv, Timely, KeyIsFirst
<1>5. NothingLostInTime' /\ OwnUnlessLate'
  BY <1>1, <1>4 DEF Timely, NothingLostInTime, OwnUnlessLate, coreVars
<1>6. NothingBeforeUp'
  BY <1>1, <1>4 DEF Timely, NothingBeforeUp, coreVars, Served, Quiet, CoreGone
<1>7. KeyIsFirst'
  <2>1. CASE closed /\ toCore' = toCore
    BY <1>1, <1>4, <2>1 DEF KeyIsFirst, coreVars, Served
  <2>2. CASE ~closed /\ toCore' = Append(toCore, Key)
    <3>1. toCore' = <<Key>>
      BY <1>4, <2>2
    <3>2. DOMAIN toCore' = {1} /\ toCore'[1] = Key /\ toCore' # <<>>
      BY <3>1
    <3>3. QED
      BY <1>1, <1>4, <3>2 DEF KeyIsFirst, coreVars, Served
  <2>3. QED
    BY <1>1, <2>1, <2>2
<1>8. PipeRight'
  BY <1>1, <1>4 DEF Timely, PipeRight
<1>9. QED
  BY <1>5, <1>6, <1>7, <1>8 DEF Timely

LEMMA IssueKeeps ==
  ASSUME LifecycleInv, NEW c \in NodeCommands, Issue(c)
  PROVE  LifecycleInv'
<1>1. /\ appAt = "idle" /\ appAt' = "sending"
      /\ call' = [kind |-> "call", n |-> call.n + 1, of |-> c]
      /\ UNCHANGED <<coreVars, toCore, toApp, closed, firstData, pipe, waits, waitsFor,
                     returned, late>>
  BY DEF Issue
<1>2. LifecycleTypes /\ call.n \in Nat
  BY CallFacts DEF LifecycleInv
<1>3. call' \in CallMessage /\ call'.n = call.n + 1 /\ call' # NoCall
  BY <1>1, <1>2, MessageFacts DEF CallMessage
<1>4. LifecycleTypes'
  BY <1>1, <1>2, <1>3 DEF LifecycleTypes, coreVars
<1> SUFFICES ASSUME ~late PROVE Timely'
  BY <1>1, <1>4 DEF LifecycleInv
<1>5. Timely
  BY DEF LifecycleInv
<1>6. NothingLostInTime' /\ OwnUnlessLate' /\ NothingBeforeUp'
  BY <1>1, <1>5 DEF Timely, NothingLostInTime, OwnUnlessLate, NothingBeforeUp, coreVars, Served,
                    Quiet, CoreGone
<1>7. \A i \in DOMAIN toCore : toCore[i] # Key => toCore[i].n < call'.n
  BY <1>2, <1>3, <1>5, CallFacts DEF Timely, KeyIsFirst
<1>8. KeyIsFirst'
  BY <1>1, <1>2, <1>3, <1>5, <1>7, CallFacts DEF Timely, KeyIsFirst, coreVars, Served
<1>9. PipeRight'
  <2>1. waits => waitsFor < call'.n /\ Unanswered(waitsFor)
    BY <1>1, <1>2, <1>3, <1>5 DEF Timely, PipeRight, LifecycleTypes
  <2>2. Unanswered(waitsFor) => Unanswered(waitsFor)'
    BY <1>1 DEF Unanswered, Quiet, CoreGone, coreVars
  <2>3. pipe' = <<>>
    BY <1>1, <1>5 DEF Timely, PipeRight
  <2>4. waits => waitsFor <= call'.n
    BY <1>2, <1>3, <2>1 DEF LifecycleTypes
  <2>5. QED
    BY <1>1, <2>1, <2>2, <2>3, <2>4 DEF PipeRight
<1>10. QED
  BY <1>6, <1>8, <1>9 DEF Timely

LEMMA SendCallKeeps ==
  ASSUME LifecycleInv, SendCall
  PROVE  LifecycleInv'
<1>1. /\ appAt = "sending" /\ appAt' \in {"noting", "idle"}
      /\ \/ closed /\ toCore' = toCore
         \/ ~closed /\ toCore' = Append(toCore, call)
      /\ UNCHANGED <<coreVars, toApp, closed, firstData, pipe, waits, waitsFor, call,
                     returned, late>>
  BY DEF SendCall, Sent
<1>2. /\ LifecycleTypes /\ call \in CallMessage /\ call # Key /\ call.n \in Nat
      /\ toCore \in Seq({Key} \cup CallMessage) /\ waitsFor \in Nat
  BY <1>1, CallFacts, MessageFacts DEF LifecycleInv, LifecycleTypes
<1>3. toCore' \in Seq({Key} \cup CallMessage)
  BY <1>1, <1>2, Appended
<1>4. LifecycleTypes'
  BY <1>1, <1>2, <1>3 DEF LifecycleTypes, coreVars
<1> SUFFICES ASSUME ~late PROVE Timely'
  BY <1>1, <1>4 DEF LifecycleInv
<1>5. Timely /\ (~closed => firstSeen \/ toCore # <<>>)
  BY <1>1 DEF LifecycleInv, Timely, KeyIsFirst, Served
<1>6. NothingLostInTime' /\ OwnUnlessLate'
  BY <1>1, <1>5 DEF Timely, NothingLostInTime, OwnUnlessLate, coreVars
<1>7. NothingBeforeUp'
  BY <1>1, <1>5 DEF Timely, NothingBeforeUp, coreVars, Served, Quiet, CoreGone
<1>8. \A i \in DOMAIN toCore' : \/ i \in DOMAIN toCore /\ toCore'[i] = toCore[i]
                                \/ toCore'[i] = call /\ i = Len(toCore) + 1 /\ ~closed
  BY <1>1, <1>2, Appended
<1>9. Len(toCore) \in Nat /\ (toCore # <<>> => Len(toCore) # 0)
  BY <1>2
<1>10. toCore # <<>> => toCore' # <<>>
  BY <1>1, <1>2, Appended
<1>11. KeyIsFirst'
  <2>1. \A i \in DOMAIN toCore' : toCore'[i] = Key <=> (i = 1 /\ ~firstSeen)
    BY <1>1, <1>2, <1>5, <1>8, <1>9 DEF Timely, KeyIsFirst
  <2>2. \A i \in DOMAIN toCore' : toCore'[i] # Key /\ toCore'[i].n >= call.n => toCore'[i] = call
    BY <1>5, <1>8 DEF Timely, KeyIsFirst
  <2>3. appAt' \in Served /\ ~closed => firstSeen \/ toCore' # <<>>
    BY <1>5, <1>10
  <2>4. QED
    BY <1>1, <2>1, <2>2, <2>3 DEF KeyIsFirst, coreVars
<1>12. PipeRight'
  <2>1. waits => waitsFor < call.n /\ Unanswered(waitsFor)
    BY <1>1, <1>5 DEF Timely, PipeRight
  <2>2. ASSUME waits PROVE Unanswered(waitsFor)'
    <3>1. CASE Quiet
      BY <1>1, <3>1 DEF Unanswered, Quiet, CoreGone, coreVars
    <3>2. CASE ~Quiet
      BY <1>1, <1>2, <1>8, <2>1, <2>2, <3>2 DEF Unanswered
    <3>3. QED
      BY <3>1, <3>2
  <2>3. pipe = <<>>
    BY <1>1, <1>5 DEF Timely, PipeRight
  <2>4. waits => waitsFor <= call.n
    BY <1>2, <2>1
  <2>5. QED
    BY <1>1, <2>1, <2>2, <2>3, <2>4 DEF PipeRight
<1>13. QED
  BY <1>6, <1>7, <1>11, <1>12 DEF Timely

LEMMA NoteKeeps ==
  ASSUME LifecycleInv, Note
  PROVE  LifecycleInv'
<1>1. /\ appAt = "noting" /\ appAt' = "waiting" /\ waits' = TRUE /\ waitsFor' = call.n
      /\ UNCHANGED <<coreVars, toCore, toApp, closed, firstData, pipe, call, returned, late>>
  BY DEF Note
<1>2. LifecycleTypes'
  BY <1>1, CallFacts DEF LifecycleInv, LifecycleTypes, coreVars
<1>3. ~late => Timely'
  BY <1>1 DEF LifecycleInv, Timely, NothingLostInTime, OwnUnlessLate, NothingBeforeUp, KeyIsFirst,
              PipeRight, Served, Quiet, CoreGone, coreVars
<1>4. QED
  BY <1>1, <1>2, <1>3 DEF LifecycleInv

LEMMA ResultWaitKeeps ==
  ASSUME LifecycleInv, ResultWait
  PROVE  LifecycleInv'
<1>1. /\ appAt = "waiting" /\ appAt' = "idle"
      /\ returned' = [got |-> IF pipe = <<>> THEN NoCall ELSE Head(pipe), to |-> call.n]
      /\ UNCHANGED <<coreVars, toCore, toApp, closed, firstData, waits, waitsFor, call>>
      /\ \/ pipe # <<>> /\ pipe' = Tail(pipe) /\ UNCHANGED late
         \/ /\ pipe = <<>> /\ UNCHANGED pipe
            /\ late' = \/ late \/ toApp # <<>>
                       \/ ~CoreGone /\ (appAt = "waiting" => Replies(call.of))
  BY DEF ResultWait, Waited, Timeout
<1>2. /\ LifecycleTypes /\ call \in CallMessage /\ call.n \in Nat
  BY <1>1, CallFacts DEF LifecycleInv, LifecycleTypes
<1>3. pipe' \in Seq(ToApp) /\ late' \in BOOLEAN
  <2>1. CASE pipe # <<>> /\ pipe' = Tail(pipe) /\ UNCHANGED late
    BY <1>2, <2>1, TakenFrom DEF LifecycleTypes
  <2>2. CASE /\ pipe = <<>> /\ UNCHANGED pipe
             /\ late' = \/ late \/ toApp # <<>>
                        \/ ~CoreGone /\ (appAt = "waiting" => Replies(call.of))
    BY <1>2, <2>2 DEF LifecycleTypes
  <2>3. QED
    BY <1>1, <2>1, <2>2
<1>4. LifecycleTypes'
  BY <1>1, <1>2, <1>3 DEF LifecycleTypes, coreVars
<1> SUFFICES ASSUME ~late' PROVE Timely'
  BY <1>4 DEF LifecycleInv
<1>5. ~late /\ Timely
  BY <1>1 DEF LifecycleInv, LifecycleTypes
<1>6. /\ pipe = <<>> \/ (pipe = <<Reply(call.n)>> /\ ~waits)
      /\ waits => waitsFor = call.n /\ pipe = <<>>
  BY <1>1, <1>5 DEF Timely, PipeRight
<1>7. \A m : Head(<<m>>) = m /\ Tail(<<m>>) = <<>>
  OBVIOUS
<1>8. pipe' = <<>> /\ returned'.to = call.n /\ returned'.got \in {NoCall, Reply(call.n)}
  BY <1>1, <1>6, <1>7
<1>9. OwnUnlessLate'
  BY <1>8 DEF OwnUnlessLate
<1>10. NothingLostInTime' /\ NothingBeforeUp' /\ KeyIsFirst'
  BY <1>1, <1>5 DEF Timely, NothingLostInTime, NothingBeforeUp, KeyIsFirst, coreVars, Served,
                    Quiet, CoreGone
<1>11. PipeRight'
  <2>1. ASSUME waits PROVE Unanswered(call.n)
    <3>1. toApp = <<>> /\ (CoreGone \/ ~Replies(call.of))
      BY <1>1, <1>6, <2>1
    <3>2. CASE CoreGone
      BY <3>1, <3>2 DEF Unanswered, Quiet
    <3>3. CASE ~Replies(call.of)
      <4>1. \A i \in DOMAIN toCore : toCore[i] # Key /\ toCore[i].n = call.n => toCore[i] = call
        BY <1>2, <1>5, CallFacts DEF Timely, KeyIsFirst
      <4>2. QED
        BY <3>1, <3>3, <4>1 DEF Unanswered
    <3>4. QED
      BY <3>1, <3>2, <3>3
  <2>2. waits => Unanswered(waitsFor)'
    BY <1>1, <1>6, <2>1 DEF Unanswered, Quiet, CoreGone, coreVars
  <2>3. waits => waitsFor <= call.n
    BY <1>2, <1>6
  <2>4. QED
    BY <1>1, <1>8, <2>2, <2>3 DEF PipeRight
<1>12. QED
  BY <1>9, <1>10, <1>11 DEF Timely

LEMMA ApiOnFirstDataKeeps ==
  ASSUME LifecycleInv, toApp # <<>>, firstData, ApiOnFirstData, ~AppGone,
         UNCHANGED <<coreVars, toCore, closed, waitsFor, call, returned, late>>
  PROVE  LifecycleInv'
<1>1. /\ firstData' = FALSE /\ waits' = FALSE /\ pipe' = Append(pipe, Welcome)
      /\ toApp' = Tail(toApp) \/ toApp' = <<Rest>> \o Tail(toApp)
      /\ UNCHANGED appAt
  BY DEF ApiOnFirstData
<1>2. LifecycleTypes
  BY DEF LifecycleInv
<1>3. pipe' \in Seq(ToApp) /\ toApp' \in Seq(ToApp)
  <2>1. <<Rest>> \in Seq(ToApp) /\ Welcome \in ToApp
    BY DEF ToApp
  <2>2. Tail(toApp) \in Seq(ToApp)
    BY <1>2, TakenFrom DEF LifecycleTypes
  <2>3. pipe' \in Seq(ToApp)
    BY <1>1, <1>2, <2>1, Appended DEF LifecycleTypes
  <2>4. <<Rest>> \o Tail(toApp) \in Seq(ToApp)
    BY <2>1, <2>2
  <2>5. QED
    BY <1>1, <2>2, <2>3, <2>4
<1>4. LifecycleTypes'
  BY <1>1, <1>2, <1>3 DEF LifecycleTypes, coreVars
<1> SUFFICES ASSUME ~late PROVE Timely'
  BY <1>4 DEF LifecycleInv
<1>5. Timely
  BY DEF LifecycleInv
<1>6. appAt \notin Served \cup {"key", "before"}
  BY <1>5 DEF Timely, NothingBeforeUp, Quiet
<1>7. NothingLostInTime' /\ OwnUnlessLate'
  BY <1>5 DEF Timely, NothingLostInTime, OwnUnlessLate, coreVars
<1>8. NothingBeforeUp'
  BY <1>1, <1>5, <1>6 DEF Timely, NothingBeforeUp, coreVars
<1>9. KeyIsFirst'
  BY <1>1, <1>5, <1>6 DEF Timely, KeyIsFirst, coreVars
<1>10. PipeRight'
  <2>1. appAt = "welcoming" => pipe = <<>>
    BY <1>5 DEF Timely, PipeRight
  <2>2. Append(<<>>, Welcome) = <<Welcome>>
    OBVIOUS
  <2>3. QED
    BY <1>1, <1>6, <2>1, <2>2 DEF PipeRight, Served
<1>11. QED
  BY <1>7, <1>8, <1>9, <1>10 DEF Timely

LEMMA ApiOnMessageKeeps ==
  ASSUME LifecycleInv, toApp # <<>>, ~firstData, ApiOnMessage(Head(toApp)), ~AppGone,
         UNCHANGED <<coreVars, toCore, closed, waitsFor, call, returned, late>>
  PROVE  LifecycleInv'
<1> DEFINE m == Head(toApp)
           delivered == m.kind = "reply" /\ waits /\ m.n = waitsFor
<1>1. /\ toApp' = Tail(toApp) /\ firstData' = firstData
      /\ \/ delivered /\ waits' = FALSE /\ pipe' = Append(pipe, m)
         \/ ~delivered /\ UNCHANGED <<waits, pipe>>
      /\ appAt' = appAt \/ appAt' = "crashed"
  BY DEF ApiOnMessage
<1>2. /\ LifecycleTypes /\ m \in ToApp /\ toApp' \in Seq(ToApp) /\ m = toApp[1] /\ 1 \in DOMAIN toApp
      /\ \A i \in DOMAIN toApp' : i + 1 \in DOMAIN toApp /\ toApp'[i] = toApp[i + 1]
  BY <1>1, TakenFrom DEF LifecycleInv, LifecycleTypes
<1>3. pipe' \in Seq(ToApp)
  <2>1. pipe \in Seq(ToApp)
    BY <1>2 DEF LifecycleTypes
  <2>2. Append(pipe, m) \in Seq(ToApp)
    BY <1>2, <2>1, Appended
  <2>3. QED
    BY <1>1, <2>1, <2>2
<1>4. LifecycleTypes'
  BY <1>1, <1>2, <1>3 DEF LifecycleTypes, coreVars
<1>5. CASE appAt' = "crashed"
  BY <1>1, <1>4, <1>5, AppEnds
<1>6. CASE appAt' = appAt
  <2> SUFFICES ASSUME ~late PROVE Timely'
    BY <1>4 DEF LifecycleInv
  <2>1. Timely
    BY DEF LifecycleInv
  <2>2. NothingLostInTime' /\ OwnUnlessLate'
    BY <2>1 DEF Timely, NothingLostInTime, OwnUnlessLate, coreVars
  <2>3. NothingBeforeUp'
    <3>1. appAt # "before"
      BY <2>1 DEF Timely, NothingBeforeUp
    <3>2. QED
      BY <1>1, <1>6, <2>1, <3>1 DEF Timely, NothingBeforeUp, coreVars, Quiet, CoreGone
  <2>4. appAt \in {"before", "welcoming", "key"} => ~waits
    BY <2>1 DEF Timely, KeyIsFirst
  <2>5. delivered => appAt \notin {"before", "welcoming", "key", "idle", "sending", "noting"}
    <3>1. delivered => m = Reply(waitsFor)
      BY <1>2, MessageFacts
    <3>2. delivered => ~Unanswered(waitsFor)
      BY <1>2, <3>1 DEF Unanswered, Quiet
    <3>3. QED
      BY <2>1, <2>4, <3>2 DEF Timely, PipeRight
  <2>6. KeyIsFirst'
    BY <1>1, <1>6, <2>1, <2>4 DEF Timely, KeyIsFirst, coreVars
  <2>7. Unanswered(waitsFor) => Unanswered(waitsFor)'
    BY <1>1, <1>2 DEF Unanswered, Quiet, CoreGone, coreVars
  <2>8. PipeRight'
    <3>1. CASE delivered /\ waits' = FALSE /\ pipe' = Append(pipe, m)
      <4>1. appAt = "waiting" => waitsFor = call.n /\ pipe = <<>> /\ m = Reply(call.n)
        BY <1>2, <2>1, <3>1, MessageFacts DEF Timely, PipeRight
      <4>2. Append(<<>>, m) = <<m>>
        OBVIOUS
      <4>3. QED
        BY <1>6, <2>5, <3>1, <4>1, <4>2 DEF PipeRight
    <3>2. CASE ~delivered /\ UNCHANGED <<waits, pipe>>
      BY <1>1, <1>6, <2>1, <2>7, <3>2 DEF Timely, PipeRight
    <3>3. QED
      BY <1>1, <3>1, <3>2
  <2>9. QED
    BY <2>2, <2>3, <2>6, <2>8 DEF Timely
<1>7. QED
  BY <1>1, <1>5, <1>6

LEMMA ApiReceiveKeeps ==
  ASSUME LifecycleInv, ApiReceive
  PROVE  LifecycleInv'
<1>1. UNCHANGED <<coreVars, toCore, closed, waitsFor, call, returned, late>> /\ ~AppGone
  BY DEF ApiReceive
<1>2. CASE toApp # <<>> /\ firstData
  BY <1>1, <1>2, ApiOnFirstDataKeeps DEF ApiReceive
<1>3. CASE toApp # <<>> /\ ~firstData
  BY <1>1, <1>3, ApiOnMessageKeeps DEF ApiReceive
<1>4. CASE toApp = <<>>
  <2>1. appAt' = "spinning" /\ UNCHANGED <<toApp, firstData, pipe, waits>>
    BY <1>4 DEF ApiReceive
  <2>2. LifecycleTypes'
    BY <1>1, <2>1 DEF LifecycleInv, LifecycleTypes, coreVars
  <2>3. QED
    BY <1>1, <2>1, <2>2, AppEnds
<1>5. QED
  BY <1>2, <1>3, <1>4

-----------------------------------------------------------------------------
(* Steps of the core. *)

\* A core that lives goes on, and answers nobody.
LEMMA CoreMoves ==
  ASSUME LifecycleInv, coreAt \in {"loading", "receiving", "called", "known", "up"}, coreAt' # "none",
         UNCHANGED <<appVars, firstSeen, lost, toCore>>, coreAt' # "crashed",
         coreAt = "up" => coreAt' \in {"up", "spinning", "failed", "ended"},
         \/ toApp' = toApp
         \/ toApp' = Append(toApp, Welcome) /\ coreAt' = "up"
  PROVE  LifecycleInv'
<1>1. LifecycleTypes
  BY DEF LifecycleInv
<1>2. /\ toApp' \in Seq(ToApp)
      /\ \A i \in DOMAIN toApp' : \/ i \in DOMAIN toApp /\ toApp'[i] = toApp[i]
                                  \/ toApp'[i] = Welcome
  <2>1. Welcome \in ToApp /\ toApp \in Seq(ToApp)
    BY <1>1, MessageFacts DEF LifecycleTypes
  <2>2. QED
    BY <2>1, Appended
<1>3. LifecycleTypes'
  BY <1>1, <1>2 DEF LifecycleTypes, appVars
<1> SUFFICES ASSUME ~late PROVE Timely'
  BY <1>3 DEF LifecycleInv, appVars
<1>4. Timely /\ ~Quiet
  BY DEF LifecycleInv, Quiet, CoreGone
<1>5. appAt # "before"
  <2>1. coreAt # "none"
    OBVIOUS
  <2>2. QED
    BY <1>4, <2>1 DEF Timely, NothingBeforeUp
<1>6. NothingLostInTime' /\ OwnUnlessLate'
  BY <1>4 DEF Timely, NothingLostInTime, OwnUnlessLate, appVars
<1>7. NothingBeforeUp'
  <2>1. CASE coreAt = "up" \/ coreAt' = "up"
    BY <1>4, <1>5, <2>1 DEF Timely, NothingBeforeUp, appVars, Served
  <2>2. CASE coreAt # "up" /\ toApp' = toApp
    BY <1>4, <1>5, <2>2 DEF Timely, NothingBeforeUp, appVars, Served
  <2>3. QED
    BY <2>1, <2>2
<1>8. KeyIsFirst'
  BY <1>4 DEF Timely, KeyIsFirst, appVars
<1>9. PipeRight'
  <2>1. Unanswered(waitsFor) => Unanswered(waitsFor)'
    BY <1>1, <1>2, <1>4, MessageFacts DEF Unanswered, LifecycleTypes, appVars
  <2>2. QED
    BY <1>4, <2>1 DEF Timely, PipeRight, appVars
<1>10. QED
  BY <1>6, <1>7, <1>8, <1>9 DEF Timely

LEMMA CoreStartsOrEnds ==
  ASSUME LifecycleInv, CoreFails \/ CoreInitFd \/ CoreInterrupt
  PROVE  LifecycleInv'
<1>1. CASE CoreFails
  BY <1>1, CoreMoves DEF CoreFails
<1>2. CASE CoreInitFd
  <2>1. PICK step \in { <<"loading", "receiving">>, <<"receiving", "called">>,
                        <<"called", "known">>, <<"known", "up">> } :
          /\ coreAt = step[1] /\ coreAt' = step[2]
          /\ IF step[2] = "up" THEN Len(toApp) < Room /\ toApp' = Append(toApp, Welcome)
             ELSE UNCHANGED toApp
    BY <1>2 DEF CoreInitFd
  <2>2. /\ coreAt \in {"loading", "receiving", "called", "known"}
        /\ coreAt' \in {"receiving", "called", "known", "up"}
        /\ toApp' = toApp \/ (toApp' = Append(toApp, Welcome) /\ coreAt' = "up")
    BY <2>1
  <2>3. UNCHANGED <<appVars, firstSeen, lost, toCore>>
    BY <1>2 DEF CoreInitFd
  <2>4. QED
    BY <2>2, <2>3, CoreMoves
<1>3. CASE CoreInterrupt
  BY <1>3, CoreMoves DEF CoreInterrupt, CoreTerminate
<1>4. QED
  BY <1>1, <1>2, <1>3

LEMMA CoreReceiveKeeps ==
  ASSUME LifecycleInv, CoreReceive
  PROVE  LifecycleInv'
<1>1. coreAt \in {"receiving", "called", "known", "up"} /\ UNCHANGED appVars
  BY DEF CoreReceive
<1>2. CASE toCore = <<>>
  <2>1. coreAt' = "spinning" /\ UNCHANGED <<toCore, toApp, firstSeen, lost>>
    BY <1>2 DEF CoreReceive
  <2>2. QED
    BY <1>1, <2>1, CoreMoves
<1>3. CASE toCore # <<>>
  <2> DEFINE m == Head(toCore)
             replies == Replies(m.of) /\ toApp' = Append(toApp, Reply(m.n)) /\ coreAt' = coreAt
             repliesNot == toApp' = toApp /\ coreAt' \in {coreAt, "ended"}
  <2>1. toCore' = Tail(toCore)
    BY <1>3 DEF CoreReceive
  <2>2. /\ LifecycleTypes /\ m \in {Key} \cup CallMessage /\ m.n \in Nat
        /\ toCore' \in Seq({Key} \cup CallMessage) /\ m = toCore[1] /\ 1 \in DOMAIN toCore
        /\ \A i \in DOMAIN toCore' : /\ i + 1 \in DOMAIN toCore /\ i + 1 # 1
                                     /\ toCore'[i] = toCore[i + 1]
    BY <1>3, <2>1, TakenFrom, MessageFacts DEF LifecycleInv, LifecycleTypes
  <2>3. /\ firstSeen' \in BOOLEAN
        /\ \/ toApp' = toApp
           \/ toApp' = Append(toApp, Reply(m.n))
    BY <1>1, <1>3, <2>2 DEF CoreReceive, Run, CoreTerminate, LifecycleTypes
  <2>4. toApp' \in Seq(ToApp)
    <3>1. toApp \in Seq(ToApp) /\ Reply(m.n) \in ToApp
      BY <2>2, MessageFacts DEF LifecycleTypes
    <3>2. Append(toApp, Reply(m.n)) \in Seq(ToApp)
      BY <3>1, Appended
    <3>3. QED
      BY <2>3, <3>1, <3>2
  <2>5. LifecycleTypes'
    BY <1>1, <2>2, <2>3, <2>4 DEF LifecycleTypes, appVars
  <2> SUFFICES ASSUME ~late PROVE Timely'
    BY <1>1, <2>5 DEF LifecycleInv, appVars
  <2>6. Timely /\ coreAt = "up" /\ ~Quiet /\ appAt \notin {"before", "welcoming", "key"}
    <3>1. Timely
      BY DEF LifecycleInv
    <3>2. coreAt = "up"
      BY <1>1, <1>3, <3>1 DEF Timely, NothingBeforeUp
    <3>3. appAt \notin {"before", "welcoming", "key"}
      BY <1>3, <3>1 DEF Timely, KeyIsFirst
    <3>4. QED
      BY <3>1, <3>2, <3>3 DEF Quiet, CoreGone
  <2>7. /\ firstSeen' = TRUE /\ lost' = lost
        /\ \/ m = Key /\ toApp' = toApp /\ coreAt' = coreAt
           \/ m # Key /\ (replies \/ repliesNot)
    <3>1. CASE ~firstSeen
      <4>1. m = Key
        BY <2>2, <2>6, <3>1 DEF Timely, KeyIsFirst
      <4>2. QED
        BY <1>3, <2>6, <3>1, <4>1 DEF CoreReceive
    <3>2. CASE firstSeen
      <4>1. m # Key
        BY <2>2, <2>6, <3>2 DEF Timely, KeyIsFirst
      <4>2. Run(m) /\ UNCHANGED <<firstSeen, lost>>
        BY <1>3, <2>6, <3>2 DEF CoreReceive
      <4>3. replies \/ repliesNot
        BY <4>2 DEF Run, CoreTerminate
      <4>4. QED
        BY <3>2, <4>1, <4>2, <4>3
    <3>3. QED
      BY <3>1, <3>2
  <2>8. coreAt' \in {"up", "ended"}
    BY <2>6, <2>7
  <2>9. NothingLostInTime' /\ OwnUnlessLate'
    BY <1>1, <2>6, <2>7, <2>8 DEF Timely, NothingLostInTime, OwnUnlessLate, appVars
  <2>10. NothingBeforeUp'
    BY <1>1, <2>6, <2>8 DEF Timely, NothingBeforeUp, appVars, Served
  <2>11. KeyIsFirst'
    <3>1. \A i \in DOMAIN toCore' : toCore'[i] # Key
      BY <2>2, <2>6 DEF Timely, KeyIsFirst
    <3>2. \A i \in DOMAIN toCore' : toCore'[i] # Key /\ toCore'[i].n >= call.n =>
            toCore'[i] = call /\ appAt # "sending"
      BY <2>2, <2>6 DEF Timely, KeyIsFirst
    <3>3. QED
      BY <1>1, <2>6, <2>7, <3>1, <3>2 DEF KeyIsFirst, appVars, Served
  <2>12. PipeRight'
    <3>1. Unanswered(waitsFor) => Unanswered(waitsFor)'
      <4>1. ASSUME Unanswered(waitsFor)
            PROVE  /\ \A i \in DOMAIN toApp : toApp[i] # Reply(waitsFor)
                   /\ \A i \in DOMAIN toCore : toCore[i] # Key /\ toCore[i].n = waitsFor =>
                                                 ~Replies(toCore[i].of)
        BY <2>6, <4>1 DEF Unanswered
      <4>2. ASSUME Unanswered(waitsFor), replies, m # Key
            PROVE  \A i \in DOMAIN toApp' : toApp'[i] # Reply(waitsFor)
        <5>1. m.n # waitsFor
          BY <2>2, <4>1, <4>2
        <5>2. Reply(m.n) # Reply(waitsFor)
          BY <2>2, <5>1, MessageFacts DEF LifecycleTypes
        <5>3. Reply(m.n) \in ToApp /\ toApp \in Seq(ToApp)
          BY <2>2, MessageFacts DEF LifecycleTypes
        <5>4. QED
          BY <4>1, <4>2, <5>2, <5>3, Appended
      <4>3. Unanswered(waitsFor) => \A i \in DOMAIN toApp' : toApp'[i] # Reply(waitsFor)
        BY <2>7, <4>1, <4>2
      <4>4. Unanswered(waitsFor) =>
              \A i \in DOMAIN toCore' : toCore'[i] # Key /\ toCore'[i].n = waitsFor =>
                                          ~Replies(toCore'[i].of)
        BY <2>2, <4>1
      <4>5. QED
        BY <1>1, <4>3, <4>4 DEF Unanswered, appVars
    <3>2. QED
      BY <1>1, <2>6, <3>1 DEF Timely, PipeRight, appVars
  <2>13. QED
    BY <2>9, <2>10, <2>11, <2>12 DEF Timely
<1>4. QED
  BY <1>2, <1>3

LEMMA LifecycleStep == LifecycleInv /\ [LifecycleNext]_lifecycleVars => LifecycleInv'
<1> SUFFICES ASSUME LifecycleInv, [LifecycleNext]_lifecycleVars PROVE LifecycleInv'
  OBVIOUS
<1>1. CASE CoreSpawnFd \/ CoreSpawnFifo \/ WelcomeWait \/ SendKey \/ SendCall \/ Note \/ ResultWait
  BY <1>1, SpawnKeeps, WelcomeWaitKeeps, SendKeyKeeps, SendCallKeeps, NoteKeeps, ResultWaitKeeps
<1>2. ASSUME NEW c \in NodeCommands, Issue(c) PROVE LifecycleInv'
  BY <1>2, IssueKeeps
<1>3. CASE Exit \/ Interrupt \/ ApiReceive \/ ApiOnDisconnect
  BY <1>3, ExitKeeps, InterruptKeeps, ApiReceiveKeeps
<1>4. CASE CoreFails \/ CoreInitFd \/ CoreReceive \/ CoreInterrupt
  BY <1>4, CoreStartsOrEnds, CoreReceiveKeeps
<1>5. CASE UNCHANGED lifecycleVars
  <2>1. LifecycleTypes'
    BY <1>5 DEF LifecycleInv, LifecycleTypes, lifecycleVars, appVars, coreVars
  <2>2. ~late => Timely'
    BY <1>5 DEF LifecycleInv, Timely, NothingLostInTime, OwnUnlessLate, NothingBeforeUp, KeyIsFirst,
                PipeRight, Unanswered, Quiet, CoreGone, lifecycleVars, appVars, coreVars
  <2>3. QED
    BY <1>5, <2>1, <2>2 DEF LifecycleInv, lifecycleVars, appVars
<1>6. QED
  BY <1>1, <1>2, <1>3, <1>4, <1>5 DEF LifecycleNext

\* For any calls, however many, and any socket: as long as no wait of the
\* library has ended before what it waited for could come, the core loses no
\* message, does not crash while it starts, and every call returns its own
\* result or none (mw_init, core_init_fd, core_on_data, api_on_message).
THEOREM LifecycleRightInTime == LifecycleSpec => []RightInTime
<1>1. LifecycleInit => LifecycleInv
  BY LifecycleInitial
<1>2. LifecycleInv /\ [LifecycleNext]_lifecycleVars => LifecycleInv'
  BY LifecycleStep
<1>3. LifecycleInv => RightInTime
  BY DEF LifecycleInv, LifecycleTypes, Timely, RightInTime, OwnUnlessLate, NothingLostInTime
<1>4. QED
  BY <1>1, <1>2, <1>3, PTL DEF LifecycleSpec

-----------------------------------------------------------------------------
(* The numbers of sockets, and the sizes of what is on its way.             *)

\* While the core has closed no connection itself, whoever holds a number has
\* its connection open under it, also those that came before the callbacks.
OpenForHolder == closedHere = {} => \A c \in Conns : Holds(c) => isOpen[sockOf[c]] = c

NumbersMatch ==
  /\ \A c \in Conns : peerIs[c] = "none" => c \notin starting /\ thread[c] = "none" /\ sockOf[c] = 0
  /\ \A c \in Conns : peerIs[c] # "none" => sockOf[c] \in Socks
  /\ \A c \in starting : thread[c] = "none"
  /\ \A s \in Socks : isOpen[s] # 0 => sockOf[isOpen[s]] = s
  /\ \A s \in Socks : stateAt[s] # 0 => sockOf[stateAt[s]] = s /\ thread[stateAt[s]] # "none"
  /\ freed \subseteq {c \in Conns : thread[c] # "none"}

NumbersInv == Types /\ NumbersMatch /\ OpenForHolder

LEMMA EstablishMatch ==
  ASSUME NumbersInv, NEW c \in Conns, Establish(c)
  PROVE  NumbersMatch' /\ OpenForHolder'
<1> USE ConnectionsAssumption DEF NumbersInv
<1>1. PICK s \in FreeSocks : sockOf' = [sockOf EXCEPT ![c] = s] /\ isOpen' = [isOpen EXCEPT ![s] = c]
  BY DEF Establish
<1>2. /\ s \in Socks /\ isOpen[s] = 0 /\ peerIs[c] = "none"
      /\ starting' = starting \cup {c} /\ peerIs' = [peerIs EXCEPT ![c] = "there"]
      /\ UNCHANGED <<thread, stateAt, freed, closedHere>>
  BY DEF Establish, FreeSocks
<1>3. sockOf[c] = 0 /\ thread[c] = "none" /\ c \notin starting /\ 0 \notin Socks /\ c # 0
  BY <1>2 DEF NumbersMatch
<1>4. /\ sockOf'[c] = s /\ isOpen'[s] = c /\ peerIs'[c] = "there"
      /\ \A d \in Conns \ {c} : sockOf'[d] = sockOf[d] /\ peerIs'[d] = peerIs[d]
      /\ \A r \in Socks \ {s} : isOpen'[r] = isOpen[r]
  BY <1>1, <1>2 DEF Types
<1>5. \A r \in Socks : isOpen'[r] # 0 => sockOf'[isOpen'[r]] = r
  <2>1. ASSUME NEW r \in Socks, isOpen'[r] # 0 PROVE sockOf'[isOpen'[r]] = r
    <3>1. CASE r = s
      BY <1>4, <3>1
    <3>2. CASE r # s
      <4>1. isOpen'[r] = isOpen[r] /\ isOpen[r] \in Conns /\ sockOf[isOpen[r]] = r
        BY <1>4, <2>1, <3>2 DEF Types, NumbersMatch
      <4>2. isOpen[r] # c
        BY <1>3, <4>1
      <4>3. QED
        BY <1>4, <4>1, <4>2
    <3>3. QED
      BY <3>1, <3>2
  <2>2. QED
    BY <2>1
<1>6. \A r \in Socks : stateAt'[r] # 0 => sockOf'[stateAt'[r]] = r /\ thread'[stateAt'[r]] # "none"
  <2>1. ASSUME NEW r \in Socks, stateAt[r] # 0
        PROVE  sockOf'[stateAt[r]] = r /\ thread[stateAt[r]] # "none"
    <3>1. stateAt[r] \in Conns /\ sockOf[stateAt[r]] = r /\ thread[stateAt[r]] # "none"
      BY <2>1 DEF Types, NumbersMatch
    <3>2. stateAt[r] # c
      BY <1>3, <3>1
    <3>3. QED
      BY <1>4, <3>1, <3>2
  <2>2. QED
    BY <1>2, <2>1
<1>7. /\ \A d \in Conns : peerIs'[d] = "none" => d \notin starting' /\ thread'[d] = "none" /\ sockOf'[d] = 0
      /\ \A d \in Conns : peerIs'[d] # "none" => sockOf'[d] \in Socks
  <2>1. ASSUME NEW d \in Conns
        PROVE  /\ peerIs'[d] = "none" => d \notin starting' /\ thread'[d] = "none" /\ sockOf'[d] = 0
               /\ peerIs'[d] # "none" => sockOf'[d] \in Socks
    <3>1. CASE d = c
      BY <1>2, <1>4, <3>1
    <3>2. CASE d # c
      BY <1>2, <1>4, <3>2 DEF NumbersMatch
    <3>3. QED
      BY <3>1, <3>2
  <2>2. QED
    BY <2>1
<1>8. NumbersMatch'
  BY <1>2, <1>3, <1>5, <1>6, <1>7 DEF NumbersMatch
<1>9. OpenForHolder'
  <2>1. ASSUME closedHere = {}, NEW d \in Conns, Holds(d)' PROVE isOpen'[sockOf'[d]] = d
    <3>1. CASE d = c
      BY <1>4, <3>1
    <3>2. CASE d # c
      <4>1. Holds(d) /\ sockOf'[d] = sockOf[d]
        BY <1>2, <1>4, <2>1, <3>2 DEF Holds
      <4>2. sockOf[d] \in Socks /\ isOpen[sockOf[d]] = d /\ d # 0
        BY <2>1, <4>1 DEF NumbersMatch, OpenForHolder, Holds
      <4>3. QED
        BY <1>2, <1>4, <4>1, <4>2
    <3>3. QED
      BY <3>1, <3>2
  <2>2. QED
    BY <1>2, <2>1 DEF OpenForHolder
<1>10. QED
  BY <1>8, <1>9

LEMMA StartMatch ==
  ASSUME NumbersInv, NEW c \in Conns, Start(c)
  PROVE  NumbersMatch' /\ OpenForHolder'
<1> USE ConnectionsAssumption DEF NumbersInv
<1>1. /\ c \in starting /\ starting' = starting \ {c}
      /\ thread' = [thread EXCEPT ![c] = "reading"]
      /\ stateAt' = stateAt \/ stateAt' = [stateAt EXCEPT ![sockOf[c]] = c]
      /\ UNCHANGED <<sockOf, isOpen, peerIs, freed, closedHere>>
  BY DEF Start
<1>2. /\ thread'[c] = "reading" /\ peerIs[c] # "none" /\ sockOf[c] \in Socks
      /\ \A d \in Conns \ {c} : thread'[d] = thread[d]
  BY <1>1 DEF Types, NumbersMatch
<1>3. \A s \in Socks : stateAt'[s] = stateAt[s] \/ (s = sockOf[c] /\ stateAt'[s] = c)
  BY <1>1, <1>2 DEF Types
<1>4. \A s \in Socks : stateAt'[s] # 0 => sockOf[stateAt'[s]] = s /\ thread'[stateAt'[s]] # "none"
  <2>1. ASSUME NEW s \in Socks, stateAt'[s] # 0
        PROVE  sockOf[stateAt'[s]] = s /\ thread'[stateAt'[s]] # "none"
    <3>1. CASE stateAt'[s] = stateAt[s]
      <4>1. stateAt[s] \in Conns /\ sockOf[stateAt[s]] = s /\ thread[stateAt[s]] # "none"
        BY <2>1, <3>1 DEF Types, NumbersMatch
      <4>2. QED
        BY <1>2, <3>1, <4>1
    <3>2. CASE s = sockOf[c] /\ stateAt'[s] = c
      BY <1>2, <3>2
    <3>3. QED
      BY <1>3, <3>1, <3>2
  <2>2. QED
    BY <2>1
<1>5. \A d \in Conns : thread[d] # "none" => thread'[d] # "none"
  BY <1>2
<1>6. NumbersMatch'
  BY <1>1, <1>2, <1>4, <1>5 DEF NumbersMatch
<1>7. \A d \in Conns : Holds(d)' => Holds(d)
  BY <1>1, <1>2 DEF Holds
<1>8. OpenForHolder'
  BY <1>1, <1>7 DEF OpenForHolder
<1>9. QED
  BY <1>6, <1>8

\* A step after which no thread is new and no number is held that was not.
LEMMA EndingMatch ==
  ASSUME NumbersInv,
         UNCHANGED <<sockOf, starting, stateAt>>,
         \A c \in Conns : /\ thread'[c] = "none" <=> thread[c] = "none"
                          /\ peerIs'[c] = "none" <=> peerIs[c] = "none",
         \A s \in Socks : isOpen'[s] \in {isOpen[s], 0},
         freed' \subseteq freed \cup {c \in Conns : thread[c] # "none"},
         closedHere' = {} => closedHere = {} /\ \A c \in Conns :
                               Holds(c)' => Holds(c) /\ isOpen'[sockOf[c]] = isOpen[sockOf[c]]
  PROVE  NumbersMatch' /\ OpenForHolder'
<1>1. \A c \in starting : c \in Conns
  BY DEF NumbersInv, Types
<1>2. \A s \in Socks : stateAt[s] # 0 => stateAt[s] \in Conns
  BY DEF NumbersInv, Types
<1>3. NumbersMatch'
  BY <1>1, <1>2 DEF NumbersInv, NumbersMatch
<1>4. OpenForHolder'
  BY DEF NumbersInv, OpenForHolder
<1>5. QED
  BY <1>3, <1>4

LEMMA ReceiveMatch ==
  ASSUME NumbersInv, NEW t \in Conns, Receive(t)
  PROVE  NumbersMatch' /\ OpenForHolder'
<1>1. /\ UNCHANGED <<sockOf, starting, peerIs, thread, stateAt, freed>>
      /\ \/ isOpen' = isOpen /\ closedHere' = closedHere
         \/ /\ isOpen' = [isOpen EXCEPT ![sockOf[t]] = 0]
            /\ closedHere' = closedHere \cup {isOpen[sockOf[t]]}
  BY DEF Receive
<1>2. \A s \in Socks : isOpen'[s] \in {isOpen[s], 0}
  BY <1>1 DEF NumbersInv, Types
<1>3. closedHere' = {} => closedHere = {} /\ isOpen' = isOpen
  BY <1>1
<1>4. \A c \in Conns : Holds(c)' = Holds(c)
  BY <1>1 DEF Holds
<1>5. QED
  BY <1>1, <1>2, <1>3, <1>4, EndingMatch

LEMMA DisconnectedMatch ==
  ASSUME NumbersInv, NEW t \in Conns, Disconnected(t)
  PROVE  NumbersMatch' /\ OpenForHolder'
<1>1. /\ thread[t] = "reading"
      /\ UNCHANGED <<sockOf, isOpen, starting, peerIs, stateAt, closedHere>>
      /\ \/ thread' = thread
         \/ thread' = [thread EXCEPT ![t] = "closing"]
         \/ thread' = [thread EXCEPT ![t] = "ended"]
      /\ freed' = freed \/ (stateAt[sockOf[t]] # 0 /\ freed' = freed \cup {stateAt[sockOf[t]]})
  <2>1. callbacks < 3 \/ callbacks = 3
    BY DEF NumbersInv, Types
  <2>2. QED
    BY <2>1 DEF Disconnected
<1>2. \A c \in Conns : thread'[c] = thread[c] \/ (c = t /\ thread'[c] \in {"closing", "ended"})
  BY <1>1 DEF NumbersInv, Types
<1>3. \A c \in Conns : (thread'[c] = "none" <=> thread[c] = "none") /\ (Holds(c)' => Holds(c))
  BY <1>1, <1>2 DEF Holds
<1>4. sockOf[t] \in Socks
  BY <1>1 DEF NumbersInv, NumbersMatch
<1>5. stateAt[sockOf[t]] # 0 => stateAt[sockOf[t]] \in {c \in Conns : thread[c] # "none"}
  BY <1>4 DEF NumbersInv, NumbersMatch, Types
<1>6. freed' \subseteq freed \cup {c \in Conns : thread[c] # "none"}
  BY <1>1, <1>5
<1>7. QED
  BY <1>1, <1>3, <1>6, EndingMatch

LEMMA CloseSocketMatch ==
  ASSUME NumbersInv, NEW t \in Conns, CloseSocket(t)
  PROVE  NumbersMatch' /\ OpenForHolder'
<1>1. /\ thread[t] = "closing" /\ thread' = [thread EXCEPT ![t] = "ended"]
      /\ isOpen' = [isOpen EXCEPT ![sockOf[t]] = 0]
      /\ UNCHANGED <<sockOf, starting, peerIs, stateAt, freed, closedHere>>
  BY DEF CloseSocket
<1>2. /\ thread'[t] = "ended" /\ \A c \in Conns \ {t} : thread'[c] = thread[c]
      /\ \A s \in Socks : isOpen'[s] = IF s = sockOf[t] THEN 0 ELSE isOpen[s]
  BY <1>1 DEF NumbersInv, Types
<1>3. t \notin starting /\ sockOf[t] \in Socks
  BY <1>1 DEF NumbersInv, NumbersMatch
<1>4. \A c \in Conns : Holds(c)' => c # t /\ Holds(c)
  BY <1>1, <1>2, <1>3 DEF Holds
<1>5. ASSUME closedHere = {}, NEW c \in Conns, Holds(c)'
      PROVE  isOpen'[sockOf[c]] = isOpen[sockOf[c]]
  <2>1. Holds(c) /\ c # t /\ Holds(t)
    BY <1>1, <1>4, <1>5 DEF Holds
  <2>2. isOpen[sockOf[c]] = c /\ isOpen[sockOf[t]] = t
    BY <1>5, <2>1 DEF NumbersInv, OpenForHolder
  <2>3. sockOf[c] \in Socks
    BY <2>1 DEF Holds, NumbersInv, NumbersMatch
  <2>4. QED
    BY <1>2, <2>1, <2>2, <2>3
<1>6. QED
  BY <1>1, <1>2, <1>4, <1>5, EndingMatch

LEMMA NumbersStep == NumbersInv /\ [ConnectionsNext]_connectionVars => NumbersInv'
<1> SUFFICES ASSUME NumbersInv, [ConnectionsNext]_connectionVars PROVE NumbersInv'
  OBVIOUS
<1>1. Types'
  BY TypesKept DEF NumbersInv
<1>2. CASE \/ UNCHANGED connectionVars
           \/ SetCallback
           \/ \E c \in Conns : PeerLeaves(c) \/ \E what \in {"good", "bad"} : PeerSends(c, what)
  <2>1. /\ UNCHANGED <<sockOf, isOpen, starting, thread, stateAt, freed, closedHere>>
        /\ \A c \in Conns : peerIs'[c] = "none" <=> peerIs[c] = "none"
    BY <1>2 DEF connectionVars, SetCallback, PeerLeaves, PeerSends, NumbersInv, Types
  <2>2. \A c \in Conns : Holds(c)' = Holds(c)
    BY <2>1 DEF Holds
  <2>3. NumbersMatch' /\ OpenForHolder'
    BY <2>1, <2>2, EndingMatch
  <2>4. QED
    BY <1>1, <2>3 DEF NumbersInv
<1>3. ASSUME NEW c \in Conns,
             Establish(c) \/ Start(c) \/ Receive(c) \/ Disconnected(c) \/ CloseSocket(c)
      PROVE  NumbersInv'
  <2>1. NumbersMatch' /\ OpenForHolder'
    BY <1>3, EstablishMatch, StartMatch, ReceiveMatch, DisconnectedMatch, CloseSocketMatch
  <2>2. QED
    BY <1>1, <2>1 DEF NumbersInv
<1>4. QED
  BY <1>2, <1>3 DEF ConnectionsNext

LEMMA ConnectionsTypeCorrect == ConnectionsSpec => []ConnectionsTypeOK
<1>1. ConnectionsInit => NumbersInv
  <2> SUFFICES ASSUME ConnectionsInit PROVE NumbersInv
    OBVIOUS
  <2>1. Types
    BY ConnectionsInitial DEF ConnectionsInv
  <2>2. NumbersMatch /\ OpenForHolder
    BY DEF ConnectionsInit, NumbersMatch, OpenForHolder, Holds
  <2>3. QED
    BY <2>1, <2>2 DEF NumbersInv
<1>2. NumbersInv => ConnectionsTypeOK
  <2> SUFFICES ASSUME NumbersInv PROVE ConnectionsTypeOK
    OBVIOUS
  <2>1. ASSUME closedHere = {}, NEW c \in starting PROVE isOpen[sockOf[c]] = c
    BY <2>1 DEF NumbersInv, Types, OpenForHolder, Holds
  <2>2. QED
    BY <2>1 DEF NumbersInv, NumbersMatch, ConnectionsTypeOK
<1>3. QED
  BY <1>1, <1>2, NumbersStep, PTL DEF ConnectionsSpec

-----------------------------------------------------------------------------
(* Lifecycle: what the sockets and the pipe hold.                           *)

One(b) == IF b THEN 1 ELSE 0

\* What may still come into the pipe: the welcome, the result that is waited
\* for, and that of the call that is being made.
Coming == One(firstData) + One(waits) + One(appAt \in {"sending", "noting"})

SizesInv ==
  /\ appAt \in Alive \cup {"before", "spinning", "ended", "crashed"}
  /\ Len(toCore) <= Room /\ Len(toApp) <= Room
  /\ Len(pipe) + Coming <= 1 + call.n

LEMMA OneIs == \A b \in BOOLEAN : One(b) \in {0, 1} /\ (b => One(b) = 1) /\ (~b => One(b) = 0)
BY DEF One

LEMMA ComingIs ==
  /\ One(firstData) \in {0, 1} /\ One(waits) \in {0, 1}
  /\ One(appAt \in {"sending", "noting"}) \in {0, 1}
BY DEF One

\* The numbers that the invariant is about.
LEMMA LifecycleNumbers ==
  ASSUME LifecycleTypes
  PROVE  /\ Len(toCore) \in Nat /\ Len(toApp) \in Nat /\ Len(pipe) \in Nat /\ call.n \in Nat
         /\ Room \in Nat /\ Room >= 1
         /\ toCore # <<>> => Len(Tail(toCore)) = Len(toCore) - 1
         /\ toApp # <<>> => Len(Tail(toApp)) = Len(toApp) - 1
         /\ pipe # <<>> => Len(Tail(pipe)) = Len(pipe) - 1
         /\ \A m : /\ Len(Append(toCore, m)) = Len(toCore) + 1
                   /\ Len(Append(toApp, m)) = Len(toApp) + 1
                   /\ Len(Append(pipe, m)) = Len(pipe) + 1
<1>1. call.n \in Nat /\ Room \in Nat /\ Room >= 1
  BY CallFacts, LifecycleAssumption
<1>2. \A S : \A q \in Seq(S) : /\ Len(q) \in Nat /\ (q # <<>> => Len(Tail(q)) = Len(q) - 1)
                               /\ \A m : Len(Append(q, m)) = Len(q) + 1
  OBVIOUS
<1>3. QED
  BY <1>1, <1>2 DEF LifecycleTypes

\* A step of the library that does not receive.
LEMMA LibrarySizes ==
  ASSUME LifecycleTypes, SizesInv,
         \/ CoreSpawnFd \/ CoreSpawnFifo \/ WelcomeWait \/ SendKey \/ SendCall \/ Note
         \/ ResultWait \/ Exit \/ Interrupt \/ ApiOnDisconnect
         \/ \E c \in NodeCommands : Issue(c)
  PROVE  SizesInv'
<1>1. /\ Len(toCore) \in Nat /\ Len(toApp) \in Nat /\ Len(pipe) \in Nat /\ call.n \in Nat
      /\ Room \in Nat /\ firstData \in BOOLEAN /\ waits \in BOOLEAN
  BY LifecycleNumbers DEF LifecycleTypes
<1>2. toApp' = toApp /\ firstData' = firstData
  BY DEF CoreSpawnFd, CoreSpawnFifo, WelcomeWait, SendKey, SendCall, Note, ResultWait, Exit,
         Interrupt, ApiOnDisconnect, Issue
<1>3. appAt' \in Alive \cup {"before", "spinning", "ended", "crashed"}
  BY DEF CoreSpawnFd, CoreSpawnFifo, WelcomeWait, SendKey, SendCall, Note, ResultWait, Exit,
         Interrupt, ApiOnDisconnect, Issue, Waited, Timeout, SizesInv, Alive
<1>4. Len(toCore') <= Room
  <2>1. \/ toCore' = toCore
        \/ Len(toCore) < Room /\ \E m : toCore' = Append(toCore, m)
    BY DEF CoreSpawnFd, CoreSpawnFifo, WelcomeWait, SendKey, SendCall, Note, ResultWait, Exit,
           Interrupt, ApiOnDisconnect, Issue, Sent
  <2>2. QED
    BY <1>1, <2>1, LifecycleNumbers DEF SizesInv
<1>5. Len(pipe') + Coming' <= 1 + call'.n
  <2> DEFINE first == One(firstData)
             waiting == One(waits)
             making == One(appAt \in {"sending", "noting"})
             size == Len(pipe)
             n == call.n
  <2>1. /\ first \in {0, 1} /\ waiting \in {0, 1} /\ making \in {0, 1}
        /\ size \in Nat /\ n \in Nat /\ size + (first + waiting + making) <= 1 + n
    <3>1. first \in {0, 1} /\ waiting \in {0, 1} /\ making \in {0, 1}
      BY ComingIs
    <3>2. size + (first + waiting + making) <= 1 + n
      BY DEF SizesInv, Coming
    <3>3. QED
      BY <1>1, <3>1, <3>2
  <2>2. CASE Note
    <3>1. making = 1
      BY <2>2, OneIs DEF Note
    <3>2. Coming' = first + 1 + 0 /\ Len(pipe') = size /\ call'.n = n
      BY <1>2, <2>2 DEF Note, Coming, One
    <3> HIDE DEF first, waiting, making, size, n
    <3>3. QED
      BY <2>1, <3>1, <3>2
  <2>3. CASE \E c \in NodeCommands : Issue(c)
    <3>1. making = 0 /\ call'.n = n + 1
      BY <2>3 DEF Issue, One
    <3>2. Coming' = first + waiting + 1 /\ Len(pipe') = size
      BY <1>2, <2>3 DEF Issue, Coming, One
    <3> HIDE DEF first, waiting, making, size, n
    <3>3. QED
      BY <2>1, <3>1, <3>2
  <2>4. CASE WelcomeWait \/ ResultWait
    <3>1. appAt' \notin {"sending", "noting"} /\ waits' = waits /\ call' = call
      BY <2>4 DEF WelcomeWait, ResultWait, Waited, Timeout
    <3>2. Coming' = first + waiting + 0
      BY <1>2, <3>1 DEF Coming, One
    <3>3. Len(pipe') \in Nat /\ Len(pipe') <= size
      <4>1. pipe' = pipe \/ (pipe # <<>> /\ pipe' = Tail(pipe))
        BY <2>4 DEF WelcomeWait, ResultWait, Waited, Timeout
      <4>2. pipe # <<>> => Len(Tail(pipe)) = Len(pipe) - 1 /\ Len(pipe) # 0
        BY LifecycleNumbers DEF LifecycleTypes
      <4>3. QED
        BY <1>1, <4>1, <4>2
    <3> HIDE DEF first, waiting, making, size
    <3>4. QED
      BY <2>1, <3>1, <3>2, <3>3
  <2>5. CASE \/ CoreSpawnFd \/ CoreSpawnFifo \/ SendKey \/ SendCall \/ Exit \/ Interrupt
             \/ ApiOnDisconnect
    <3>1. /\ waits' = waits /\ call' = call /\ pipe' = pipe
          /\ appAt' \in {"sending", "noting"} => appAt \in {"sending", "noting"}
      BY <2>5 DEF CoreSpawnFd, CoreSpawnFifo, SendKey, SendCall, Exit, Interrupt, ApiOnDisconnect
    <3>2. One(appAt' \in {"sending", "noting"}) \in {0, making}
      BY <3>1 DEF One
    <3>3. PICK k \in {0, making} : Coming' = first + waiting + k
      BY <1>2, <3>1, <3>2 DEF Coming
    <3> HIDE DEF first, waiting, making, size, n
    <3>4. Len(pipe') = size /\ call'.n = n
      BY <3>1 DEF size, n
    <3>5. QED
      BY <2>1, <3>3, <3>4
  <2>6. QED
    BY <2>2, <2>3, <2>4, <2>5
<1>6. QED
  BY <1>2, <1>3, <1>4, <1>5 DEF SizesInv

LEMMA ApiReceiveSizes ==
  ASSUME LifecycleTypes, SizesInv, ApiReceive
  PROVE  SizesInv'
<1>1. /\ Len(toCore) \in Nat /\ Len(toApp) \in Nat /\ Len(pipe) \in Nat /\ call.n \in Nat
      /\ Room \in Nat /\ firstData \in BOOLEAN /\ waits \in BOOLEAN
  BY LifecycleNumbers DEF LifecycleTypes
<1>2. /\ toCore' = toCore /\ call' = call
      /\ \/ appAt' = appAt
         \/ appAt' \in {"crashed", "spinning"}
  BY DEF ApiReceive, ApiOnFirstData, ApiOnMessage
<1>3. Len(toApp') <= Room
  <2>1. \/ toApp' = toApp
        \/ toApp # <<>> /\ toApp' \in {Tail(toApp), <<Rest>> \o Tail(toApp)}
    BY DEF ApiReceive, ApiOnFirstData, ApiOnMessage
  <2>2. toApp # <<>> => Len(Tail(toApp)) = Len(toApp) - 1 /\ Len(<<Rest>> \o Tail(toApp)) = Len(toApp)
    BY LifecycleNumbers DEF LifecycleTypes
  <2>3. QED
    BY <1>1, <2>1, <2>2 DEF SizesInv
<1>4. Len(pipe') + Coming' <= 1 + call'.n
  <2> DEFINE first == One(firstData)
             waiting == One(waits)
             making == One(appAt \in {"sending", "noting"})
             left == One(appAt' \in {"sending", "noting"})
             size == Len(pipe)
             n == call.n
  <2>1. /\ first \in {0, 1} /\ waiting \in {0, 1} /\ making \in {0, 1}
        /\ size \in Nat /\ n \in Nat /\ size + (first + waiting + making) <= 1 + n
    <3>1. first \in {0, 1} /\ waiting \in {0, 1} /\ making \in {0, 1}
      BY ComingIs
    <3>2. size + (first + waiting + making) <= 1 + n
      BY DEF SizesInv, Coming
    <3>3. QED
      BY <1>1, <3>1, <3>2
  <2>2. left \in {0, making} /\ call'.n = n
    BY <1>2 DEF One
  <2>3. CASE pipe' = pipe /\ waits' = waits /\ firstData' = firstData
    <3>1. Coming' = first + waiting + left /\ Len(pipe') = size
      BY <2>3 DEF Coming
    <3> HIDE DEF first, waiting, making, size, n, left
    <3>2. QED
      BY <2>1, <2>2, <3>1
  <2>4. CASE firstData /\ ApiOnFirstData
    <3>1. first = 1
      BY <2>4, OneIs
    <3>2. Coming' = 0 + 0 + left /\ Len(pipe') = size + 1
      BY <2>4, LifecycleNumbers DEF ApiOnFirstData, Coming, One
    <3> HIDE DEF first, waiting, making, size, n, left
    <3>3. QED
      BY <2>1, <2>2, <3>1, <3>2
  <2>5. CASE waits /\ waits' = FALSE /\ firstData' = firstData /\ \E m : pipe' = Append(pipe, m)
    <3>1. waiting = 1
      BY <2>5, OneIs
    <3>2. Coming' = first + 0 + left /\ Len(pipe') = size + 1
      BY <2>5, LifecycleNumbers DEF Coming, One
    <3> HIDE DEF first, waiting, making, size, n, left
    <3>3. QED
      BY <2>1, <2>2, <3>1, <3>2
  <2>6. QED
    BY <2>3, <2>4, <2>5 DEF ApiReceive, ApiOnMessage
<1>5. appAt' \in Alive \cup {"before", "spinning", "ended", "crashed"}
  BY <1>2 DEF SizesInv
<1>6. QED
  BY <1>2, <1>3, <1>4, <1>5 DEF SizesInv

LEMMA CoreSizes ==
  ASSUME LifecycleTypes, SizesInv, CoreFails \/ CoreInitFd \/ CoreReceive \/ CoreInterrupt
  PROVE  SizesInv'
<1>1. Len(toCore) \in Nat /\ Len(toApp) \in Nat /\ Room \in Nat
  BY LifecycleNumbers
<1>2. UNCHANGED <<appAt, pipe, waits, firstData, call>>
  BY DEF CoreFails, CoreInitFd, CoreReceive, CoreInterrupt, appVars
<1>3. /\ toCore' = toCore \/ (toCore # <<>> /\ toCore' = Tail(toCore))
      /\ toApp' = toApp \/ (Len(toApp) < Room /\ \E m : toApp' = Append(toApp, m))
  BY DEF CoreFails, CoreInitFd, CoreReceive, CoreInterrupt, Run, CoreTerminate
<1>4. Len(toCore') <= Room /\ Len(toApp') <= Room
  BY <1>1, <1>3, LifecycleNumbers DEF SizesInv
<1>5. Coming' = Coming
  BY <1>2 DEF Coming
<1>6. QED
  BY <1>2, <1>4, <1>5 DEF SizesInv

LEMMA SizesStep == LifecycleTypes /\ SizesInv /\ [LifecycleNext]_lifecycleVars => SizesInv'
<1> SUFFICES ASSUME LifecycleTypes, SizesInv, [LifecycleNext]_lifecycleVars PROVE SizesInv'
  OBVIOUS
<1>1. CASE UNCHANGED lifecycleVars
  <2>1. UNCHANGED <<appAt, toCore, toApp, pipe, waits, firstData, call>>
    BY <1>1 DEF lifecycleVars, appVars
  <2>2. QED
    BY <2>1 DEF SizesInv, Coming
<1>2. CASE LifecycleNext
  BY <1>2, LibrarySizes, ApiReceiveSizes, CoreSizes DEF LifecycleNext
<1>3. QED
  BY <1>1, <1>2

LEMMA LifecycleTypeCorrect == LifecycleSpec => []LifecycleTypeOK
<1>1. LifecycleInit => LifecycleInv /\ SizesInv
  <2> SUFFICES ASSUME LifecycleInit PROVE SizesInv
    BY LifecycleInitial
  <2>1. /\ Len(toCore) = 0 /\ Len(toApp) = 0 /\ Len(pipe) = 0 /\ call.n = 0
        /\ Coming = 1 + 0 + 0 /\ appAt = "before"
    BY DEF LifecycleInit, Coming, One, NoCall
  <2>2. QED
    BY <2>1, LifecycleAssumption DEF SizesInv
<1>2. LifecycleInv /\ SizesInv /\ [LifecycleNext]_lifecycleVars => (LifecycleInv /\ SizesInv)'
  BY LifecycleStep, SizesStep DEF LifecycleInv
<1>3. LifecycleInv /\ SizesInv => LifecycleTypeOK
  <2> SUFFICES ASSUME LifecycleInv, SizesInv PROVE LifecycleTypeOK
    OBVIOUS
  <2>1. Len(toApp) \in Nat /\ Len(pipe) \in Nat /\ call.n \in Nat /\ Room \in Nat
    BY LifecycleNumbers DEF LifecycleInv
  <2>2. /\ One(firstData) \in Nat /\ One(waits) \in Nat
        /\ One(appAt \in {"sending", "noting"}) \in Nat
    BY DEF One
  <2>3. Coming \in Nat
    BY <2>2 DEF Coming
  <2>4. Len(pipe) <= 1 + call.n /\ Len(toApp) <= Room
    BY <2>1, <2>3 DEF SizesInv
  <2>5. QED
    BY <2>4 DEF SizesInv, LifecycleTypeOK
<1>4. QED
  BY <1>1, <1>2, <1>3, PTL DEF LifecycleSpec

-----------------------------------------------------------------------------
(* Side by side.                                                            *)

\* What MCFlows checks side by side is each of the five.
THEOREM FlowsParts ==
  Spec => RqSpec /\ StrSpec /\ DscSpec /\ ConnectionsSpec /\ LifecycleSpec
<1>1. Init => RqInit /\ StrInit /\ DscInit /\ ConnectionsInit /\ LifecycleInit
  BY DEF Init
<1>2. [Next]_allVars => /\ [RqNext]_rqVars /\ [StrNext]_strVars /\ [DscNext]_dscVars
                        /\ [ConnectionsNext]_connectionVars /\ [LifecycleNext]_lifecycleVars
  <2>1. CASE UNCHANGED allVars
    BY <2>1 DEF allVars
  <2>2. CASE Next
    BY <2>2 DEF Next
  <2>3. QED
    BY <2>1, <2>2
<1>3. QED
  BY <1>1, <1>2, PTL DEF Spec, RqSpec, StrSpec, DscSpec, ConnectionsSpec, LifecycleSpec

\* The shape of all five, for any number of requests, commands, connections and
\* calls: what is on its way to or from a requester is of its own requests
\* (core_ep_send_request), a fifo holds no more than it can and is only written
\* under the number it has (recv_stream_msg), the number of a socket is that of
\* the connection it is open for (com_wrapper), nothing waits for a component
\* that is down (at_exit), and the pipe of the blocking calls never has more than
\* the welcome and a result for every call (api_on_message).
THEOREM FlowsTypeCorrect == Spec => []FlowsTypeOK
<1>1. RqSpec => []RqTypeOK
  BY RqTypeCorrect
<1>2. StrSpec => []StrTypeOK
  BY StreamsTypes
<1>3. QED
  BY <1>1, <1>2, FlowsParts, DscTypeCorrect, ConnectionsTypeCorrect, LifecycleTypeCorrect, PTL
     DEF FlowsTypeOK
=============================================================================
