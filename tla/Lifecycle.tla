------------------------------ MODULE Lifecycle ------------------------------
(***************************************************************************)
(* An application and the core it starts: mw_init and core_spawn_fd        *)
(* (src/api/middleware.c), main and core_init_fd (src/core), the socket    *)
(* pair module between them, the calls about the node, and core_terminate. *)
(*                                                                         *)
(* The core sends a welcome when it is set up; the library waits for it    *)
(* five seconds, and goes on with or without it.  Then it sends a key,     *)
(* which the core takes for its first message and does not look at, and    *)
(* the application's calls.  The first thing the library receives it takes *)
(* for the welcome.  The welcome is sent in three pieces; what is left of  *)
(* it when the first has come is read as a frame of no known kind, for     *)
(* which the library frees a pointer that was never set.                   *)
(***************************************************************************)
EXTENDS CoreFunctions, Sequences

CONSTANTS
  NodeCommands, \* the calls the application makes, of CoreFunctions
  MaxAppCalls,  \* how many; a bound
  Room          \* how many messages a socket holds

ASSUME LifecycleAssumption ==
  /\ NodeCommands \subseteq NodeCalls \cup RdcCalls \cup LoadCalls
  /\ MaxAppCalls \in Nat /\ Room \in Nat \ {0}

VARIABLES
  appAt,       \* the main thread of the application
  coreAt,      \* the main thread of the core
  toCore, toApp,  \* the two directions of the socket pair
  closed,      \* the application has closed its end
  holders,     \* the processes that have a descriptor of each end
  firstData,   \* the library has not received anything yet
  pipe,        \* fds_blocking_call
  waits, waitsFor, \* waiting_blocking_call and blocking_msg_id
  firstSeen,   \* the core has had its first message
  call,        \* the call the application makes, and its number
  returned,    \* and what the last one that waits got, and its number
  late,        \* history: a wait has ended before what it waited for came,
  lost         \* and calls that the core has not taken as such

appVars == <<appAt, closed, firstData, pipe, waits, waitsFor, call, returned, late>>
coreVars == <<coreAt, firstSeen, lost>>
lifecycleVars == <<appVars, coreVars, toCore, toApp, holders>>

Welcome == [kind |-> "welcome", n |-> 0]
Rest == [kind |-> "rest", n |-> 0]
Key == [kind |-> "key", n |-> 0]
Reply(n) == [kind |-> "reply", n |-> n]
NoCall == [kind |-> "none", n |-> 0]

AppGone == appAt \in {"ended", "crashed"}
CoreGone == coreAt \in {"failed", "crashed", "ended"}

LifecycleInit ==
  /\ appAt = "before" /\ coreAt = "none"
  /\ toCore = <<>> /\ toApp = <<>> /\ closed = FALSE
  /\ holders = [end \in {"app", "core"} |-> {}]
  /\ firstData = TRUE /\ pipe = <<>> /\ waits = FALSE /\ waitsFor = 0
  /\ firstSeen = FALSE
  /\ call = NoCall /\ returned = [got |-> NoCall, to |-> 0]
  /\ late = FALSE /\ lost = {}

-----------------------------------------------------------------------------
(* The library: main thread. *)

\* fork copies the descriptors of both ends, and exec leaves them open.
BothEnds == [end \in {"app", "core"} |-> {"app", "core"}]

\* mw_init as far as the fork of core_spawn_fd.
CoreSpawnFd ==
  /\ appAt = "before"
  /\ appAt' = "welcoming" /\ coreAt' = "loading"
  /\ holders' = BothEnds
  /\ UNCHANGED <<toCore, toApp, closed, firstData, pipe, waits, waitsFor, firstSeen, call,
                 returned, late, lost>>

\* mw_init without a socket pair: core_spawn_fifo starts a core with too few
\* arguments, and the key is sent through a module that was never loaded.
CoreSpawnFifo ==
  /\ appAt = "before"
  /\ appAt' = "crashed" /\ coreAt' = "failed"
  /\ UNCHANGED <<toCore, toApp, closed, holders, firstData, pipe, waits, waitsFor, firstSeen,
                 call, returned, late, lost>>

\* Mutant: the wait for the welcome looks without reading.
WaitedKept(next) ==
  pipe # <<>> /\ pipe' = (IF next = "key" THEN pipe ELSE Tail(pipe)) /\ appAt' = next /\ UNCHANGED late

\* sync_wait takes what is in the pipe.
Waited(next) == pipe # <<>> /\ pipe' = Tail(pipe) /\ appAt' = next /\ UNCHANGED late

\* Mutant: sync_wait has no timeout.
TimeoutNever(next) == FALSE /\ appAt' = next /\ UNCHANGED <<pipe, late>>

\* Five seconds are over: too early if what it waits for may still come.
Timeout(next) ==
  /\ pipe = <<>>
  /\ appAt' = next
  /\ late' = \/ late \/ toApp # <<>>
             \/ ~CoreGone /\ (appAt = "waiting" => Replies(call.of))
  /\ UNCHANGED pipe

WelcomeWait ==
  /\ appAt = "welcoming"
  /\ Waited("key") \/ Timeout("key")
  /\ UNCHANGED <<coreVars, toCore, toApp, closed, holders, firstData, waits, waitsFor, call,
                 returned>>

\* A send that fails is not noticed.
Sent(m) == IF closed THEN UNCHANGED toCore ELSE Len(toCore) < Room /\ toCore' = Append(toCore, m)

SendKey ==
  /\ appAt = "key" /\ Sent(Key)
  /\ appAt' = "idle"
  /\ UNCHANGED <<coreVars, toApp, closed, holders, firstData, pipe, waits, waitsFor, call,
                 returned, late>>

\* mw_call_module_function and its blocking form.
Issue(c) ==
  /\ appAt = "idle" /\ call.n < MaxAppCalls
  /\ call' = [kind |-> "call", n |-> call.n + 1, of |-> c]
  /\ appAt' = "sending"
  /\ UNCHANGED <<coreVars, toCore, toApp, closed, holders, firstData, pipe, waits, waitsFor,
                 returned, late>>

SendCall ==
  /\ appAt = "sending" /\ Sent(call)
  /\ appAt' = IF call.of.waits THEN "noting" ELSE "idle"
  /\ UNCHANGED <<coreVars, toApp, closed, holders, firstData, pipe, waits, waitsFor, call,
                 returned, late>>

Note ==
  /\ appAt = "noting"
  /\ waits' = TRUE /\ waitsFor' = call.n
  /\ appAt' = "waiting"
  /\ UNCHANGED <<coreVars, toCore, toApp, closed, holders, firstData, pipe, call, returned, late>>

ResultWait ==
  /\ appAt = "waiting"
  /\ Waited("idle") \/ Timeout("idle")
  /\ returned' = [got |-> IF pipe = <<>> THEN NoCall ELSE Head(pipe), to |-> call.n]
  /\ UNCHANGED <<coreVars, toCore, toApp, closed, holders, firstData, waits, waitsFor, call>>

\* The end of a process, with its descriptors.
Exits(process) == holders' = [end \in {"app", "core"} |-> holders[end] \ {process}]

\* The application ends, whatever it is at.
Exit ==
  /\ appAt \notin {"before", "ended", "crashed"}
  /\ appAt' = "ended" /\ closed' = TRUE /\ Exits("app")
  /\ UNCHANGED <<coreVars, toCore, toApp, firstData, pipe, waits, waitsFor, call, returned, late>>

\* int_handler of the library closes its end and lets the application go on.
Interrupt ==
  /\ appAt \notin {"before", "ended", "crashed"} /\ ~closed
  /\ closed' = TRUE
  /\ holders' = [holders EXCEPT !["app"] = @ \ {"app"}]
  /\ UNCHANGED <<coreVars, toCore, toApp, appAt, firstData, pipe, waits, waitsFor, call, returned, late>>

-----------------------------------------------------------------------------
(* The library: the thread that receives. *)

\* api_on_first_data, for the first piece of whatever comes first.
ApiOnFirstData ==
  /\ firstData' = FALSE /\ waits' = FALSE
  /\ pipe' = Append(pipe, Welcome)
  /\ \/ toApp' = Tail(toApp)
     \/ toApp' = <<Rest>> \o Tail(toApp)
  /\ UNCHANGED appAt

\* api_on_message.  The pointer freed for a frame of no known kind may be bad.
ApiOnMessage(m) ==
  /\ toApp' = Tail(toApp)
  /\ IF m.kind = "reply" /\ waits /\ m.n = waitsFor
     THEN waits' = FALSE /\ pipe' = Append(pipe, m)
     ELSE UNCHANGED <<waits, pipe>>
  /\ \/ UNCHANGED appAt
     \/ m.kind # "reply" /\ appAt' = "crashed"
  /\ UNCHANGED firstData

\* recv gives data, or 0 when nobody is left to send any: then the loop spins.
ApiReceive ==
  /\ ~AppGone
  /\ CASE toApp # <<>> -> IF firstData THEN ApiOnFirstData ELSE ApiOnMessage(Head(toApp))
       [] toApp = <<>> -> /\ coreAt # "none" /\ holders["core"] = {} /\ appAt # "spinning"
                          /\ appAt' = "spinning"
                          /\ UNCHANGED <<toApp, firstData, pipe, waits>>
  /\ IF appAt' = "crashed" THEN Exits("app") ELSE UNCHANGED holders
  /\ UNCHANGED <<coreVars, toCore, closed, waitsFor, call, returned, late>>

\* api_on_disconnect, when recv fails because the library has closed its end.
ApiOnDisconnect ==
  /\ ~AppGone /\ closed
  /\ appAt' = "ended" /\ Exits("app")
  /\ UNCHANGED <<coreVars, toCore, toApp, closed, firstData, pipe, waits, waitsFor, call,
                 returned, late>>

-----------------------------------------------------------------------------
(* The core. *)

\* exec fails, or main does not like its arguments or its configuration.
CoreFails ==
  /\ coreAt = "loading"
  /\ coreAt' = "failed" /\ Exits("core")
  /\ UNCHANGED <<appVars, toCore, toApp, firstSeen, lost>>

\* core_init_fd: com_module_new starts the thread that receives, then the
\* callback is set, then the STATE goes into the table, then the welcome is sent.
CoreInitFd ==
  /\ \E step \in { <<"loading", "receiving">>, <<"receiving", "called">>, <<"called", "known">>,
                   <<"known", "up">> } :
       /\ coreAt = step[1] /\ coreAt' = step[2]
       /\ IF step[2] = "up" THEN Len(toApp) < Room /\ toApp' = Append(toApp, Welcome)
          ELSE UNCHANGED toApp
  /\ UNCHANGED <<appVars, firstSeen, lost, toCore, holders>>

\* core_terminate, which exits unless unmapping an endpoint crashes it first.
CoreTerminate == coreAt' = "ended" /\ Exits("core") /\ UNCHANGED toApp

\* core_on_component_message
Run(m) ==
  IF m.of.name = "terminate________" THEN CoreTerminate
  ELSE /\ IF Replies(m.of) /\ Enough(m.of)
          THEN Len(toApp) < Room /\ toApp' = Append(toApp, Reply(m.n))
          ELSE UNCHANGED toApp
       /\ UNCHANGED <<coreAt, holders>>

\* core_on_data: a message is lost before the callback is set, finds no STATE
\* before that is in the table, and is skipped if it is the first.  At the end
\* of the connection the loop spins, as in the library.
CoreReceive ==
  /\ coreAt \in {"receiving", "called", "known", "up"}
  /\ IF toCore = <<>>
     THEN /\ holders["app"] = {}
          /\ coreAt' = "spinning"
          /\ UNCHANGED <<toCore, toApp, holders, firstSeen, lost>>
     ELSE LET m == Head(toCore) IN
       /\ toCore' = Tail(toCore)
       /\ CASE coreAt = "receiving" ->
                 lost' = lost \cup {m} /\ UNCHANGED <<coreAt, firstSeen, toApp, holders>>
            [] coreAt = "called" ->
                 coreAt' = "crashed" /\ Exits("core") /\ UNCHANGED <<firstSeen, toApp, lost>>
            [] coreAt \in {"known", "up"} /\ ~firstSeen ->
                 /\ firstSeen' = TRUE
                 /\ lost' = IF m = Key THEN lost ELSE lost \cup {m}
                 /\ UNCHANGED <<coreAt, toApp, holders>>
            [] OTHER -> Run(m) /\ UNCHANGED <<firstSeen, lost>>
  /\ UNCHANGED appVars

\* int_handler of the core.
CoreInterrupt ==
  /\ coreAt \in {"known", "up"} /\ CoreTerminate
  /\ UNCHANGED <<appVars, firstSeen, lost, toCore>>

LifecycleNext ==
  \/ CoreSpawnFd \/ CoreSpawnFifo \/ WelcomeWait \/ SendKey \/ SendCall \/ Note \/ ResultWait
  \/ \E c \in NodeCommands : Issue(c)
  \/ Exit \/ Interrupt \/ ApiReceive \/ ApiOnDisconnect
  \/ CoreFails \/ CoreInitFd \/ CoreReceive \/ CoreInterrupt

\* Both processes run, and so does the clock.
LifecycleFairness ==
  /\ WF_lifecycleVars(WelcomeWait \/ SendKey \/ SendCall \/ Note \/ ResultWait)
  /\ WF_lifecycleVars(ApiReceive)
  /\ WF_lifecycleVars(CoreInitFd)
  /\ WF_lifecycleVars(CoreReceive)

LifecycleSpec == LifecycleInit /\ [][LifecycleNext]_lifecycleVars

FairLifecycleSpec == LifecycleSpec /\ LifecycleFairness

-----------------------------------------------------------------------------
(* Properties. *)

Alive == {"welcoming", "key", "idle", "sending", "noting", "waiting"}

\* Every variable has its type; the sockets hold what they can, the pipe never
\* more than the welcome and one result for every call.
LifecycleTypeOK ==
  /\ appAt \in Alive \cup {"before", "spinning", "ended", "crashed"}
  /\ Len(toCore) <= Room /\ Len(toApp) <= Room
  /\ Len(pipe) <= 1 + call.n

\* What a call returns is its own result or NULL, unless a wait has ended too
\* early before it.
OwnUnlessLate == late \/ returned.got = NoCall \/ returned.got = Reply(returned.to)

\* As long as no wait has ended too early, the core does not crash while it
\* starts, and takes the key, and nothing but the key, for its first message.
NothingLostInTime == late \/ (lost = {} /\ coreAt # "crashed")

\* As long as no wait ends too early, everything the two processes exchange is
\* taken for what it is.
RightInTime == OwnUnlessLate /\ NothingLostInTime

\* Whatever becomes of the core, mw_init returns; and so does every call as long
\* as there is a core.
LibraryReturns ==
  /\ appAt = "welcoming" ~> appAt # "welcoming"
  /\ appAt \in {"sending", "waiting"} ~> (appAt \notin {"sending", "waiting"} \/ CoreGone)
=============================================================================
