------------------------------ MODULE Discovery ------------------------------
(***************************************************************************)
(* A core and the resource discovery components (RDCs) it was told of:     *)
(* registration and lookup (src/core/rdcs.c, core_map_lookup and           *)
(* core_rdc_* of core_module.c), the core's default endpoints              *)
(* (default_eps.c) and the RDC's application (src/rdc/rdc.c).              *)
(*                                                                         *)
(* What the library or the core has already turned into a message is       *)
(* wrapped into another one before it is sent, and unwrapped once by the   *)
(* receiver: requests, responses and registrations arrive one envelope too *)
(* deep, and no property of theirs is found where it is looked for.        *)
(***************************************************************************)
EXTENDS Integers, Sequences, FiniteSets, SequencesExt

CONSTANTS
  RdcOrder,   \* the RDCs in the order of the core's table
  Unwraps,    \* the RDCs, not this repository's, that look into the envelope
  MaxPolls,   \* how often rdc_lookup looks for an answer (5)
  MaxCommands,\* how many commands the application gives; a bound
  MaxFailures \* how often an RDC fails or is started again; a bound

Rdcs == ToSet(RdcOrder)

ASSUME DiscoveryAssumption ==
  Unwraps \subseteq Rdcs /\ MaxPolls \in Nat \ {0} /\ MaxCommands \in Nat /\ MaxFailures \in Nat

VARIABLES
  added,     \* the RDCs in the table
  lookState, \* r->state
  dscPc, dscAt, \* where the thread of the commands is, and at which RDC
  polls,     \* how often it has looked
  regMaps, lookMaps, \* how often ep_reg_rdc and ep_lookup are mapped to an RDC
  toRdc, fromRdc, \* messages on their way
  rdcIs,     \* an RDC: "up", "app dead" or "down"
  taking,    \* how many answers of an RDC lookup_handler is working on
  result,    \* history: the lookup that an RDC's result since the last one answers,
  lookedUp,  \* the last lookup made at it (numbered by the commands),
  doubtful,  \* and the lookups that ended without one or were sent twice
  commands, failures, \* counts, for the bounds
  coreIs     \* "running" or "crashed"

dscVars == <<added, lookState, dscPc, dscAt, polls, regMaps, lookMaps, toRdc, fromRdc,
             rdcIs, taking, result, lookedUp, doubtful, commands, failures, coreIs>>

lookup == <<lookState, polls, taking, result, lookedUp, doubtful>>
network == <<regMaps, lookMaps, toRdc, fromRdc, rdcIs>>

DscInit ==
  /\ added = {} /\ lookState = [r \in Rdcs |-> "UNREG"]
  /\ dscPc = "idle" /\ dscAt = 1 /\ polls = 0
  /\ regMaps = [r \in Rdcs |-> 0] /\ lookMaps = [r \in Rdcs |-> 0]
  /\ toRdc = [r \in Rdcs |-> <<>>] /\ fromRdc = [r \in Rdcs |-> <<>>]
  /\ rdcIs = [r \in Rdcs |-> "up"]
  /\ taking = [r \in Rdcs |-> 0] /\ result = [r \in Rdcs |-> 0]
  /\ lookedUp = [r \in Rdcs |-> 0] /\ doubtful = {}
  /\ commands = 0 /\ failures = 0
  /\ coreIs = "running"

\* A content is wrapped into a message by whoever sends it, by the core when it
\* is sent on a mapping, and unwrapped once where it is received.
Wrap(depth) == depth + 1
Received(depth) == depth - 1

\* Requests of the library or of rdc_lookup, and rdc_register's message.
RequestDepth == Received(Wrap(Wrap(0)))
RegisterDepth == Received(Wrap(Wrap(0)))

Readable(depth) == depth = 0

-----------------------------------------------------------------------------
(* Commands of the application. *)

\* core_add_rdc; the same RDC again takes the place of the first.
CoreAddRdc(r) ==
  /\ coreIs = "running" /\ dscPc = "idle" /\ commands < MaxCommands
  /\ commands' = commands + 1
  /\ added' = added \cup {r}
  /\ lookState' = [lookState EXCEPT ![r] = "UNREG"]
  /\ UNCHANGED <<dscPc, dscAt, polls, network, taking, result, lookedUp, doubtful,
                 failures, coreIs>>

\* rdc_register_all, for registration and its end alike, and core_map_lookup.
\* (core_rdc_unregister of one address looks for a key the table never has.)
Begin(what) ==
  /\ coreIs = "running" /\ dscPc = "idle" /\ commands < MaxCommands
  /\ commands' = commands + 1
  /\ dscPc' = what /\ dscAt' = 1
  /\ UNCHANGED <<added, lookup, network, failures, coreIs>>

\* The next RDC of the table, or the end.
Skip(what) ==
  /\ coreIs = "running" /\ dscPc = what
  /\ IF dscAt > Len(RdcOrder) THEN dscPc' = "idle" /\ UNCHANGED dscAt
     ELSE RdcOrder[dscAt] \notin added /\ dscAt' = dscAt + 1 /\ UNCHANGED dscPc
  /\ UNCHANGED <<added, lookup, network, commands, failures, coreIs>>

\* What is sent on an endpoint goes once over every mapping it has.
SendOver(maps, m) == [r \in Rdcs |-> toRdc[r] \o [i \in 1..maps[r] |-> m]]

\* core_map to the core of RDC r.
MayMap(maps, r) ==
  {maps} \cup IF rdcIs[r] = "down" THEN {} ELSE {[maps EXCEPT ![r] = @ + 1]}

\* rdc_register: map, and if that went well send.
RdcRegister ==
  /\ coreIs = "running" /\ dscPc = "register"
  /\ dscAt <= Len(RdcOrder) /\ RdcOrder[dscAt] \in added
  /\ \E maps \in MayMap(regMaps, RdcOrder[dscAt]) :
       /\ regMaps' = maps
       /\ toRdc' = IF maps = regMaps THEN toRdc ELSE SendOver(maps, [kind |-> "register", n |-> 0])
  /\ dscAt' = dscAt + 1
  /\ UNCHANGED <<added, lookup, dscPc, lookMaps, fromRdc, rdcIs, commands, failures, coreIs>>

\* rdc_lookup: map, and whether that went well or not send and wait.
RdcLookup ==
  /\ coreIs = "running" /\ dscPc = "lookup"
  /\ dscAt <= Len(RdcOrder) /\ RdcOrder[dscAt] \in added
  /\ LET r == RdcOrder[dscAt]
     IN  /\ \E maps \in MayMap(lookMaps, r) :
              /\ lookMaps' = maps
              /\ toRdc' = SendOver(maps, [kind |-> "lookup", n |-> commands])
              /\ doubtful' = doubtful \cup
                   {<<s, commands>> : s \in {s \in Rdcs : maps[s] > 1 \/ (s # r /\ maps[s] > 0)}}
         /\ lookState' = [lookState EXCEPT ![r] = "LOOKUP"]
         /\ lookedUp' = [lookedUp EXCEPT ![r] = commands]
         /\ result' = [result EXCEPT ![r] = 0]
  /\ dscPc' = "polling" /\ polls' = 0
  /\ UNCHANGED <<added, dscAt, regMaps, fromRdc, rdcIs, taking,
                 commands, failures, coreIs>>

PollAgain(r) == lookState[r] = "LOOKUP" /\ polls < MaxPolls

\* Mutant: the loop does not count.
PollForever ==
  /\ coreIs = "running" /\ dscPc = "polling"
  /\ lookState[RdcOrder[dscAt]] # "LOOKUP"
  /\ dscPc' = "lookup" /\ dscAt' = dscAt + 1
  /\ UNCHANGED <<added, network, lookup, commands, failures, coreIs>>

\* rdc_lookup goes on when the state has changed, or after five times;
\* core_map_lookup would map to what was found.
Poll ==
  /\ coreIs = "running" /\ dscPc = "polling"
  /\ LET r == RdcOrder[dscAt] IN
       IF PollAgain(r)
       THEN polls' = polls + 1 /\ UNCHANGED <<dscPc, dscAt, lookState, doubtful>>
       ELSE /\ polls' = 0
            /\ doubtful' = IF lookState[r] # "REG" THEN doubtful \cup {<<r, lookedUp[r]>>} ELSE doubtful
            /\ lookState' = [lookState EXCEPT ![r] = "REG"]
            /\ dscPc' = "lookup" /\ dscAt' = dscAt + 1
  /\ UNCHANGED <<added, network, taking, result, lookedUp, commands, failures, coreIs>>

-----------------------------------------------------------------------------
(* lookup_handler and the connection's end, in the threads that receive. *)

\* An answer that is not expected is dropped; in one that is, nothing is found:
\* what it lists is one envelope further in.  Every lookup maps ep_lookup again,
\* and every mapping is a connection with a thread of its own.
LookupHandler(r) ==
  /\ coreIs = "running" /\ taking[r] < lookMaps[r]
  /\ \E i \in DOMAIN fromRdc[r] :
       /\ i <= lookMaps[r]
       /\ fromRdc' = [fromRdc EXCEPT ![r] = RemoveAt(@, i)]
       /\ IF lookState[r] = "LOOKUP"
          THEN /\ result' = [result EXCEPT ![r] = fromRdc[r][i]]
               /\ lookState' = [lookState EXCEPT ![r] = "REG"]
               /\ taking' = [taking EXCEPT ![r] = @ + 1]
          ELSE UNCHANGED <<result, lookState, taking>>
  /\ UNCHANGED <<added, dscPc, dscAt, polls, regMaps, lookMaps, toRdc, rdcIs, lookedUp,
                 doubtful, commands, failures, coreIs>>

\* Its last line, ep_unmap_all: the message to a mapped endpoint is made from
\* NULL.
LookupUnmaps(r) ==
  /\ coreIs = "running" /\ taking[r] > 0
  /\ IF \E s \in Rdcs : lookMaps[s] > 0
     THEN coreIs' = "crashed" /\ UNCHANGED taking
     ELSE taking' = [taking EXCEPT ![r] = @ - 1] /\ UNCHANGED coreIs
  /\ UNCHANGED <<added, lookState, dscPc, dscAt, polls, network, result, lookedUp, doubtful,
                 commands, failures>>

Cut(r) ==
  /\ toRdc' = [toRdc EXCEPT ![r] = <<>>]
  /\ fromRdc' = [fromRdc EXCEPT ![r] = <<>>]
  /\ regMaps' = [regMaps EXCEPT ![r] = 0]
  /\ lookMaps' = [lookMaps EXCEPT ![r] = 0]

\* An RDC fails, or its core ends after its application; core_on_disconnect.
RdcEnds(r) ==
  /\ coreIs = "running" /\ taking[r] = 0
  /\ \/ rdcIs[r] = "app dead" /\ UNCHANGED failures
     \/ rdcIs[r] = "up" /\ failures < MaxFailures /\ failures' = failures + 1
  /\ rdcIs' = [rdcIs EXCEPT ![r] = "down"]
  /\ Cut(r)
  /\ UNCHANGED <<added, lookup, dscPc, dscAt, commands, coreIs>>

RdcStarts(r) ==
  /\ coreIs = "running" /\ rdcIs[r] = "down" /\ failures < MaxFailures
  /\ failures' = failures + 1
  /\ rdcIs' = [rdcIs EXCEPT ![r] = "up"]
  /\ UNCHANGED <<added, lookup, dscPc, dscAt, regMaps, lookMaps, toRdc, fromRdc, commands, coreIs>>

-----------------------------------------------------------------------------
(* The RDC. *)

\* Mutant: the RDC answers twice.
RdcHandlesTwice(r) ==
  /\ coreIs = "running" /\ rdcIs[r] = "up" /\ toRdc[r] # <<>> /\ r \in Unwraps
  /\ toRdc' = [toRdc EXCEPT ![r] = Tail(@)]
  /\ LET m == Head(toRdc[r]) IN
       fromRdc' = IF m.kind = "lookup" THEN [fromRdc EXCEPT ![r] = @ \o <<m.n, m.n>>] ELSE fromRdc
  /\ UNCHANGED <<added, lookup, dscPc, dscAt, regMaps, lookMaps, rdcIs, commands, failures, coreIs>>

\* rdc_register_handler does not find the flag; with it, it would call
\* endpoint_unmap_all, which ends the application.
RegisterEnds == Readable(RegisterDepth)

\* rdc_lookup_handler; it reads the length of an array that is not there.
RdcHandles(r) ==
  /\ coreIs = "running" /\ rdcIs[r] = "up" /\ toRdc[r] # <<>>
  /\ LET m == Head(toRdc[r])
         reads == Readable(RequestDepth) \/ r \in Unwraps
     IN  /\ toRdc' = [toRdc EXCEPT ![r] = Tail(@)]
         /\ fromRdc' = IF m.kind = "lookup" /\ reads
                       THEN [fromRdc EXCEPT ![r] = Append(@, m.n)] ELSE fromRdc
         /\ rdcIs' = IF (m.kind = "lookup" /\ ~reads) \/ (m.kind = "register" /\ RegisterEnds)
                     THEN [rdcIs EXCEPT ![r] = "app dead"] ELSE rdcIs
  /\ UNCHANGED <<added, lookup, dscPc, dscAt, regMaps, lookMaps, commands, failures, coreIs>>

\* A request of a peer to a default endpoint of the core.  MAP, MAP LOOKUP and
\* UNMAP do not find what they look for and use it; MD and TERMINATE unmap an
\* endpoint that is mapped.
UsesMissing(name) == name \in {"MAP", "MAP LOOKUP", "UNMAP"} /\ ~Readable(RequestDepth)
UnmapsMapped(name) == name \in {"MD", "TERMINATE"}

\* add_rdc_handler takes a message, which is not wrapped again.
DefaultEndpoint(name) ==
  /\ coreIs = "running" /\ commands < MaxCommands
  /\ commands' = commands + 1
  /\ \/ /\ UsesMissing(name) \/ UnmapsMapped(name)
        /\ coreIs' = "crashed" /\ UNCHANGED <<added, lookState>>
     \/ /\ name = "ADD_RDC"
        /\ \E r \in Rdcs : added' = added \cup {r} /\ lookState' = [lookState EXCEPT ![r] = "UNREG"]
        /\ UNCHANGED coreIs
  /\ UNCHANGED <<dscPc, dscAt, polls, network, taking, result, lookedUp, doubtful, failures>>

DefaultEndpoints == {"MAP", "MAP LOOKUP", "UNMAP", "MD", "TERMINATE", "ADD_RDC"}

Commanding == RdcRegister \/ RdcLookup \/ Poll \/ Skip("register") \/ Skip("lookup")

DscNext ==
  \/ Begin("register") \/ Begin("lookup")
  \/ RdcRegister \/ RdcLookup \/ Poll \/ Skip("register") \/ Skip("lookup")
  \/ \E r \in Rdcs : \/ CoreAddRdc(r) \/ LookupHandler(r) \/ LookupUnmaps(r)
                     \/ RdcEnds(r) \/ RdcStarts(r) \/ RdcHandles(r)
  \/ \E name \in DefaultEndpoints : DefaultEndpoint(name)

\* Threads run; an RDC need not answer.
DscFairness ==
  WF_dscVars(Commanding) /\ \A r \in Rdcs : WF_dscVars(LookupUnmaps(r))

DscSpec == DscInit /\ [][DscNext]_dscVars

FairDscSpec == DscSpec /\ DscFairness

-----------------------------------------------------------------------------
(* Properties. *)

\* Every variable has its type; what is mapped or on its way to an RDC is to
\* one that is there, and what comes back is from one that answers.
DscTypeOK ==
  /\ dscPc \in {"idle", "register", "lookup", "polling"}
  /\ polls \in 0..MaxPolls
  /\ \A r \in Rdcs :
       /\ lookState[r] \in {"UNREG", "LOOKUP", "REG"}
       /\ rdcIs[r] = "down" =>
            regMaps[r] + lookMaps[r] = 0 /\ toRdc[r] = <<>> /\ fromRdc[r] = <<>>
       /\ fromRdc[r] # <<>> => r \in Unwraps

\* What is taken as the result of a lookup is the answer to it, or else to an
\* earlier one, and then that one or one before it was given up or was sent
\* more than once: one late answer makes every later one late.
ResultOwnOrDoubtful ==
  \A r \in Rdcs : result[r] \notin {0, lookedUp[r]} => \E n \in 1..result[r] : <<r, n>> \in doubtful

\* Every registration and lookup comes to its end, whatever the RDCs do.
CommandsReturn == dscPc # "idle" ~> (dscPc = "idle" \/ coreIs = "crashed")
=============================================================================
