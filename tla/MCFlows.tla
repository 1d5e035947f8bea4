------------------------------ MODULE MCFlows ------------------------------
\* Requests and responses, streams, the client of the resource discovery, the
\* connections of the TCP module, and a node from its start to its end, checked
\* side by side: "part" says which of them a behaviour is about, and the others
\* stay in one of their initial states.
EXTENDS Requests, Streams, Discovery, Connections, Lifecycle, TLC

CONSTANTS app1, app2, th1, th2, th3, rdc1, rdc2

\* Two threads in one process and one in another.
MCProcessOf == (th1 :> app1) @@ (th2 :> app1) @@ (th3 :> app2)

MCRdcOrder == <<rdc1, rdc2>>

MCNodeCommands ==
  {c \in NodeCalls \cup RdcCalls \cup LoadCalls :
     c.api \in {"mw_terminate_core", "mw_get_manifest", "mw_load_com_module"}}

VARIABLE part

allVars == <<part, rqVars, strVars, dscVars, connectionVars, lifecycleVars>>

Init ==
  /\ part \in {"requests", "streams", "discovery", "connections", "lifecycle"}
  /\ RqInit /\ StrInit /\ DscInit /\ ConnectionsInit /\ LifecycleInit
  /\ part = "streams" \/ ~flag
  /\ part = "connections" \/ callbacks = 3

Next ==
  /\ UNCHANGED part
  /\ \/ /\ part = "requests" /\ RqNext
        /\ UNCHANGED <<strVars, dscVars, connectionVars, lifecycleVars>>
     \/ /\ part = "streams" /\ StrNext
        /\ UNCHANGED <<rqVars, dscVars, connectionVars, lifecycleVars>>
     \/ /\ part = "discovery" /\ DscNext
        /\ UNCHANGED <<rqVars, strVars, connectionVars, lifecycleVars>>
     \/ /\ part = "connections" /\ ConnectionsNext
        /\ UNCHANGED <<rqVars, strVars, dscVars, lifecycleVars>>
     \/ /\ part = "lifecycle" /\ LifecycleNext
        /\ UNCHANGED <<rqVars, strVars, dscVars, connectionVars>>

Spec ==
  /\ Init /\ [][Next]_allVars
  /\ RqFairness /\ StrFairness /\ DscFairness /\ ConnectionsFairness
  /\ LifecycleFairness

\* Every variable of the five has its type.
FlowsTypeOK == RqTypeOK /\ StrTypeOK /\ DscTypeOK /\ ConnectionsTypeOK /\ LifecycleTypeOK
=============================================================================
