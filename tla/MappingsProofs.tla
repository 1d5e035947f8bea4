--------------------------- MODULE MappingsProofs ---------------------------
(***************************************************************************)
(* Theorems about Mappings.                                                *)
(***************************************************************************)
EXTENDS Mappings, FiniteSetTheorems, TLAPS

\* What RemoveAt and Probe do to an array.
LEMMA RemoveAtFacts ==
  ASSUME NEW S, NEW q \in Seq(S), NEW k \in 1 .. Len(q)
  PROVE  /\ RemoveAt(q, k) \in Seq(S)
         /\ Len(RemoveAt(q, k)) = Len(q) - 1
         /\ \A n \in 1 .. Len(q) - 1 :
              RemoveAt(q, k)[n] = IF n < k THEN q[n] ELSE q[n + 1]
<1> DEFINE a == SubSeq(q, 1, k - 1)
           b == SubSeq(q, k + 1, Len(q))
<1>0. Len(q) \in Nat /\ k \in Int /\ k >= 1 /\ k <= Len(q)
  OBVIOUS
<1>1. a \in Seq(S) /\ Len(a) = k - 1 /\ \A n \in 1 .. k - 1 : a[n] = q[n]
  OBVIOUS
<1>2. b \in Seq(S) /\ Len(b) = Len(q) - k /\ \A n \in 1 .. Len(q) - k : b[n] = q[n + k]
  OBVIOUS
<1>3. RemoveAt(q, k) = a \o b
  BY DEF RemoveAt
<1> HIDE DEF a, b
<1>4. a \o b \in Seq(S) /\ Len(a \o b) = Len(a) + Len(b)
  <2>1. \A u, v \in Seq(S) : u \o v \in Seq(S) /\ Len(u \o v) = Len(u) + Len(v)
    OBVIOUS
  <2> QED
    BY <1>1, <1>2, <2>1
<1>5. ASSUME NEW n \in 1 .. Len(q) - 1
      PROVE  (a \o b)[n] = IF n < k THEN q[n] ELSE q[n + 1]
  <2>1. CASE n < k
    BY <1>1, <1>2, <2>1
  <2>2. CASE n >= k
    <3>1. PICK m \in 1 .. Len(q) - k : m = n - (k - 1) /\ m + k = n + 1
      BY <1>0, <2>2
    <3>2. (a \o b)[n] = b[m]
      BY <1>1, <1>2, <2>2, <3>1
    <3>3. b[m] = q[n + 1]
      BY <1>2, <3>1
    <3>4. ~(n < k)
      BY <1>0, <2>2
    <3> QED
      BY <3>2, <3>3, <3>4
  <2>3. n < k \/ n >= k
    BY <1>0
  <2> QED
    BY <2>1, <2>2, <2>3
<1> QED
  BY <1>0, <1>1, <1>2, <1>3, <1>4, <1>5

LEMMA ProbeFacts ==
  ASSUME NEW S, NEW q \in Seq(S), q # <<>>
  PROVE  Probe(q) \in 1 .. Len(q)
<1>1. Len(q) \in Nat \ {0}
  OBVIOUS
<1>2. \A n \in Nat \ {0} : (n \div 2) + 1 \in 1 .. n
  BY SMT
<1> QED
  BY <1>1, <1>2 DEF Probe

-----------------------------------------------------------------------------
(* A callback works on the STATE of its own connection. *)

LEMMA OwnState ==
  ASSUME KeysUnique, NEW s \in States
  PROVE  /\ pc[s] = "receive" => StatesGet(s) = s
         /\ pc[s] \in {"map", "free", "close"} => using[s] = s
BY DEF KeysUnique, StatesGet

LEMMA EndedIs ==
  ASSUME KeysUnique, Life, NEW t \in States
  PROVE  Ended(t) <=> pc[t] \in {"free", "close", "closed"}
BY OwnState DEF Ended, Life, KeysUnique

-----------------------------------------------------------------------------
(* Types. *)

LEMMA TypeInit == Init => MappingsTypeOK
BY MappingsAssumption DEF Init, MappingsTypeOK, Idle, Fault

LEMMA ArrayRemoveType ==
  ASSUME MappingsTypeOK, NEW e \in Eps, ArrayRemove(e)
  PROVE  mappings' \in [Eps -> Seq(States)]
<1>1. CASE mappings[e] = <<>>
  BY <1>1 DEF ArrayRemove, MappingsTypeOK
<1>2. CASE mappings[e] # <<>>
  <2>1. mappings[e] \in Seq(States)
    BY DEF MappingsTypeOK
  <2>2. RemoveAt(mappings[e], Probe(mappings[e])) \in Seq(States)
    BY <1>2, <2>1, ProbeFacts, RemoveAtFacts
  <2> QED
    BY <1>2, <2>2 DEF ArrayRemove, MappingsTypeOK
<1> QED
  BY <1>1, <1>2

LEMMA TypeStep ==
  ASSUME MappingsInv, [Next]_vars
  PROVE  MappingsTypeOK'
<1> USE MappingsAssumption DEF MappingsTypeOK, threads, conns, sending
<1> MappingsTypeOK /\ KeysUnique /\ Life /\ LoopInv
  BY DEF MappingsInv
<1>1. CASE UNCHANGED vars
  BY <1>1 DEF vars
<1>2. ASSUME NEW by \in Faulty, NEW e \in Eps, NEW f \in Fds \cup {None}, Undefined(by, e, f)
      PROVE  MappingsTypeOK'
  BY <1>2 DEF Undefined, Fault
<1>3. ASSUME NEW s \in States, NEW f \in Fds, Connect(s, f)
      PROVE  MappingsTypeOK'
  BY <1>3 DEF Connect
<1>4. ASSUME NEW s \in States, NEW e \in Eps, CoreProtoMapTo(s, e)
      PROVE  MappingsTypeOK'
  BY <1>4 DEF CoreProtoMapTo, Attach
<1>5. ASSUME NEW s \in States, NEW e \in Eps, RecvMap(s, e)
      PROVE  MappingsTypeOK'
  BY <1>5, OwnState DEF RecvMap
<1>6. ASSUME NEW s \in States, RecvMapNone(s)
      PROVE  MappingsTypeOK'
  BY <1>6, OwnState DEF RecvMapNone
<1>7. ASSUME NEW s \in States, EpMap(s)
      PROVE  MappingsTypeOK'
  <2>1. found[s] \in Eps /\ using[s] = s /\ pc[s] = "map"
    BY <1>7, OwnState DEF EpMap, Life
  <2>2. Append(mappings[found[s]], s) \in Seq(States)
    BY <2>1
  <2>3. /\ mappings' = [mappings EXCEPT ![found[s]] = Append(mappings[found[s]], s)]
        /\ Attach(s, found[s])
        /\ pc' = [pc EXCEPT ![s] = "receive"]
        /\ using' = [using EXCEPT ![s] = None]
        /\ found' = [found EXCEPT ![s] = None]
        /\ st' = [st EXCEPT ![s] = "EXT_MSG"]
        /\ UNCHANGED <<fd, table, freed, eps, sender, sent, sends, mode, fault>>
    BY <1>7, <2>1 DEF EpMap, Added
  <2>4. mappings' \in [Eps -> Seq(States)]
    BY <2>1, <2>2, <2>3
  <2>5. /\ cause' \in SUBSET ({"shared", "overlapped"} \X Eps)
        /\ lep' \in [States -> Eps \cup {None}]
    BY <2>1, <2>3 DEF Attach
  <2> QED
    BY <2>3, <2>4, <2>5
<1>8. ASSUME NEW s \in States, RecvMapAck(s)
      PROVE  MappingsTypeOK'
  <2>1. lep[s] \in Eps /\ StatesGet(s) = s
    BY <1>8, OwnState DEF RecvMapAck, Life
  <2>2. Append(mappings[lep[s]], s) \in Seq(States)
    BY <2>1
  <2>3. /\ mappings' = [mappings EXCEPT ![lep[s]] = Append(mappings[lep[s]], s)]
        /\ st' = [st EXCEPT ![s] = "EXT_MSG"]
        /\ UNCHANGED <<pc, using, found, fd, table, freed, lep, eps, sender, sent, sends, mode,
                       fault, cause>>
    BY <1>8, <2>1 DEF RecvMapAck, Added
  <2>4. mappings' \in [Eps -> Seq(States)]
    BY <2>1, <2>2, <2>3
  <2> QED
    BY <2>3, <2>4
<1>9. ASSUME NEW s \in States, RecvMapAckBad(s)
      PROVE  MappingsTypeOK'
  BY <1>9, OwnState DEF RecvMapAckBad
<1>11. ASSUME NEW s \in States, EpUnmapFinal(s)
       PROVE  MappingsTypeOK'
  <2> DEFINE e == lep[s]
  <2>1. StatesGet(s) = s
    BY <1>11, OwnState DEF EpUnmapFinal
  <2>2. CASE e # None /\ Undefined("core_on_disconnect", e, fd[s])
    <3>1. e \in Eps /\ "core_on_disconnect" \in Faulty
      BY <2>2 DEF Faulty
    <3> QED
      BY <2>2, <3>1, <1>2
  <2>3. CASE ~(e # None /\ Undefined("core_on_disconnect", e, fd[s]))
    <3>1. e # None => ArrayRemove(e)
      BY <1>11, <2>1, <2>3 DEF EpUnmapFinal
    <3>2. mappings' \in [Eps -> Seq(States)]
      BY <1>11, <2>1, <2>3, <3>1, ArrayRemoveType DEF EpUnmapFinal
    <3>3. /\ pc' = [pc EXCEPT ![s] = "free"]
          /\ using' = [using EXCEPT ![s] = s]
          /\ UNCHANGED <<found, fd, table, freed, st, lep, eps, sender, sent, sends, mode, fault>>
      BY <1>11, <2>1, <2>3 DEF EpUnmapFinal
    <3>4. cause' \in SUBSET ({"shared", "overlapped"} \X Eps)
      BY <1>11, <2>1, <2>3 DEF EpUnmapFinal
    <3> QED
      BY <3>2, <3>3, <3>4
  <2> QED
    BY <2>2, <2>3
<1>12. ASSUME NEW s \in States, StateFree(s)
       PROVE  MappingsTypeOK'
  BY <1>12, OwnState DEF StateFree
<1>13. ASSUME NEW s \in States, ConnectionClose(s)
       PROVE  MappingsTypeOK'
  BY <1>13 DEF ConnectionClose
<1>14. ASSUME NEW e \in Eps, RegisterEndpoint(e)
       PROVE  MappingsTypeOK'
  BY <1>14 DEF RegisterEndpoint
<1>15. ASSUME Crashes
       PROVE  MappingsTypeOK'
  BY <1>15 DEF Crashes
<1>16. ASSUME NEW e \in Eps, NEW t, EpUnmapSend(e, t)
       PROVE  MappingsTypeOK'
  BY <1>2, <1>15, <1>16 DEF EpUnmapSend, Faulty
<1>17. ASSUME NEW e \in Eps, NEW f \in Fds, CoreUnmapConnection(e, f)
       PROVE  MappingsTypeOK'
  BY <1>2, <1>15, <1>17 DEF CoreUnmapConnection, Faulty
<1>18. ASSUME NEW e \in Eps, CoreUnmap(e) \/ CoreUnmapAll(e) \/ EpLocalRemove(e)
       PROVE  MappingsTypeOK'
  BY <1>2, <1>16, <1>18 DEF CoreUnmap, CoreUnmapAll, EpLocalRemove, Faulty
<1>19. ASSUME NEW e \in Eps, EpSend(e)
       PROVE  MappingsTypeOK'
  <2>1. sends' \in 0 .. MaxSends
    BY <1>19 DEF EpSend
  <2>2. sent' \in Seq(States)
    BY <1>19 DEF EpSend
  <2> QED
    BY <1>19, <2>1, <2>2 DEF EpSend
<1>20. CASE Commands
  BY <1>14, <1>17, <1>18, <1>19, <1>20 DEF Commands
<1>21. CASE SendSize
  <2>1. sender' \in [pc : {"idle", "size", "get", "send"}, ep : Eps \cup {None},
                     i : Nat, state : States \cup {None}]
    <3>1. sender' = [sender EXCEPT !.pc = "get"] \/ sender' = Idle
      BY <1>21 DEF SendSize
    <3>2. Idle \in [pc : {"idle", "size", "get", "send"}, ep : Eps \cup {None},
                   i : Nat, state : States \cup {None}]
      BY DEF Idle
    <3>3. [sender EXCEPT !.pc = "get"]
            \in [pc : {"idle", "size", "get", "send"}, ep : Eps \cup {None},
                 i : Nat, state : States \cup {None}]
      OBVIOUS
    <3> QED
      BY <3>1, <3>2, <3>3
  <2> QED
    BY <1>21, <2>1 DEF SendSize
<1>22. CASE SendGet
  <2>1. CASE sender.i < Len(mappings[sender.ep])
    <3>1. sender.ep \in Eps
      BY <1>22 DEF SendGet, LoopInv
    <3>2. mappings[sender.ep][sender.i + 1] \in States
      BY <2>1, <3>1
    <3> QED
      BY ZenonT(40), <1>22, <2>1, <3>2 DEF SendGet
  <2>2. CASE ~(sender.i < Len(mappings[sender.ep]))
    <3>1. sender.ep \in Eps /\ "ep_send" \in Faulty
      BY <1>22 DEF SendGet, LoopInv, Faulty
    <3> QED
      BY <1>22, <2>2, <3>1, <1>2 DEF SendGet
  <2> QED
    BY <2>1, <2>2
<1>23. CASE SendTo
  <2>1. CASE sender.state \in freed
    <3>1. sender.ep \in Eps /\ "ep_send" \in Faulty
      BY <1>23 DEF SendTo, LoopInv, Faulty
    <3> QED
      BY <1>23, <2>1, <3>1, <1>2 DEF SendTo
  <2>2. CASE sender.state \notin freed
    <3>1. sender.state \in States
      BY <1>23 DEF SendTo, LoopInv
    <3>2. Append(sent, sender.state) \in Seq(States)
      BY <3>1
    <3>3. [sender EXCEPT !.pc = "size", !.i = sender.i + 1, !.state = None]
            \in [pc : {"idle", "size", "get", "send"}, ep : Eps \cup {None},
                 i : Nat, state : States \cup {None}]
      <4>1. sender.i + 1 \in Nat
        OBVIOUS
      <4> QED
        BY <4>1
    <3> QED
      BY ZenonT(40), <1>23, <2>2, <3>2, <3>3 DEF SendTo
  <2> QED
    BY <2>1, <2>2
<1> QED
  BY <1>1, <1>3, <1>4, <1>5, <1>6, <1>7, <1>8, <1>9, <1>11, <1>12, <1>13,
    <1>20, <1>21, <1>22, <1>23 DEF Next, Callback

-----------------------------------------------------------------------------
(* What a step does, apart from the loop of ep_send, with the STATE and the *)
(* endpoint of each callback named.                                        *)

\* The step changes no connection and no endpoint.
Quiet ==
  /\ UNCHANGED <<pc, using, found, fd, table, freed, st, lep, eps, mappings>>
  /\ cause \subseteq cause'

Finds(s, e) ==
  /\ pc[s] = "receive" /\ st[s] = "MAP" /\ eps[e] = "up"
  /\ pc' = [pc EXCEPT ![s] = "map"]
  /\ using' = [using EXCEPT ![s] = s]
  /\ found' = [found EXCEPT ![s] = e]
  /\ UNCHANGED <<fd, table, freed, st, lep, eps, mappings, cause>>

Refused(s) ==
  /\ pc[s] = "receive" /\ st[s] \in {"MAP", "MAP_ACK"}
  /\ st' = [st EXCEPT ![s] = "BAD"]
  /\ UNCHANGED <<pc, using, found, fd, table, freed, lep, eps, mappings, cause>>

Maps(s, e) ==
  /\ pc[s] = "map" /\ found[s] = e /\ eps[e] = "up"
  /\ mappings' = [mappings EXCEPT ![e] = Append(@, s)]
  /\ Attach(s, e)
  /\ st' = [st EXCEPT ![s] = "EXT_MSG"]
  /\ pc' = [pc EXCEPT ![s] = "receive"]
  /\ using' = [using EXCEPT ![s] = None]
  /\ found' = [found EXCEPT ![s] = None]
  /\ UNCHANGED <<fd, table, freed, eps>>

Acked(s, e) ==
  /\ pc[s] = "receive" /\ st[s] = "MAP_ACK" /\ lep[s] = e /\ eps[e] = "up"
  /\ mappings' = [mappings EXCEPT ![e] = Append(@, s)]
  /\ st' = [st EXCEPT ![s] = "EXT_MSG"]
  /\ UNCHANGED <<pc, using, found, fd, table, freed, lep, eps, cause>>

Ends(s) ==
  /\ pc[s] = "receive"
  /\ IF lep[s] = None THEN UNCHANGED mappings ELSE ArrayRemove(lep[s])
  /\ pc' = [pc EXCEPT ![s] = "free"]
  /\ using' = [using EXCEPT ![s] = s]
  /\ cause \subseteq cause'
  /\ lep[s] # None /\ sender.ep = lep[s] => <<"overlapped", lep[s]>> \in cause'
  /\ UNCHANGED <<found, fd, table, freed, st, lep, eps>>

Frees(s) ==
  /\ pc[s] = "free"
  /\ freed' = freed \cup {s}
  /\ pc' = [pc EXCEPT ![s] = "close"]
  /\ UNCHANGED <<using, found, fd, table, st, lep, eps, mappings, cause>>

LEMMA StepCases ==
  ASSUME MappingsInv, [Next]_vars
  PROVE  \/ Quiet
         \/ \E s \in States, f \in Fds : Connect(s, f)
         \/ \E s \in States, e \in Eps :
              CoreProtoMapTo(s, e) \/ Finds(s, e) \/ Maps(s, e) \/ Acked(s, e)
         \/ \E s \in States : Refused(s) \/ Ends(s) \/ Frees(s) \/ ConnectionClose(s)
         \/ \E e \in Eps : RegisterEndpoint(e)
<1> MappingsTypeOK /\ KeysUnique /\ Life
  BY DEF MappingsInv
<1>1. CASE UNCHANGED vars
  BY <1>1 DEF vars, Quiet
<1>2. ASSUME Crashes \/ \E by, e, f : Undefined(by, e, f)
      PROVE  Quiet
  BY <1>2 DEF Crashes, Undefined, Quiet, threads, conns, sending
<1>3. ASSUME NEW s \in States, NEW e \in Eps, RecvMap(s, e)
      PROVE  Finds(s, e)
  BY <1>3, OwnState DEF RecvMap, Finds, conns, sending
<1>4. ASSUME NEW s \in States, RecvMapNone(s) \/ RecvMapAckBad(s)
      PROVE  Refused(s)
  BY <1>4, OwnState DEF RecvMapNone, RecvMapAckBad, Refused, threads, conns, sending
<1>5. ASSUME NEW s \in States, EpMap(s)
      PROVE  \E e \in Eps : Maps(s, e)
  <2>1. /\ found[s] \in Eps /\ using[s] = s /\ pc[s] = "map"
        /\ eps[found[s]] = "up"
    BY <1>5, OwnState DEF EpMap, Life, MappingsTypeOK
  <2>2. Maps(s, found[s])
    BY <1>5, <2>1 DEF EpMap, Maps, Added, conns, sending
  <2> QED
    BY <2>1, <2>2
<1>6. ASSUME NEW s \in States, RecvMapAck(s)
      PROVE  \E e \in Eps : Acked(s, e)
  <2>1. lep[s] \in Eps /\ StatesGet(s) = s /\ eps[lep[s]] = "up"
    BY <1>6, OwnState DEF RecvMapAck, Life, MappingsTypeOK
  <2>2. Acked(s, lep[s])
    BY <1>6, <2>1 DEF RecvMapAck, Acked, Added, threads, conns, sending
  <2> QED
    BY <2>1, <2>2
<1>8. ASSUME NEW s \in States, EpUnmapFinal(s)
      PROVE  Quiet \/ Ends(s)
  <2>1. StatesGet(s) = s
    BY <1>8, OwnState DEF EpUnmapFinal
  <2>2. CASE \E by, e, f : Undefined(by, e, f)
    BY <2>2, <1>2
  <2>3. CASE ~ \E by, e, f : Undefined(by, e, f)
    BY <1>8, <2>1, <2>3 DEF EpUnmapFinal, Ends, conns, sending
  <2> QED
    BY <2>2, <2>3
<1>9. ASSUME NEW s \in States, StateFree(s)
      PROVE  Frees(s)
  BY <1>9, OwnState DEF StateFree, Frees, sending
<1>10. ASSUME NEW s \in States, Callback(s)
       PROVE  \/ Quiet
              \/ \E f \in Fds : Connect(s, f)
              \/ \E e \in Eps :
                   CoreProtoMapTo(s, e) \/ Finds(s, e) \/ Maps(s, e) \/ Acked(s, e)
              \/ Refused(s) \/ Ends(s) \/ Frees(s) \/ ConnectionClose(s)
  BY <1>10, <1>3, <1>4, <1>5, <1>6, <1>8, <1>9 DEF Callback
<1>11. ASSUME Commands
       PROVE  Quiet \/ \E e \in Eps : RegisterEndpoint(e)
  <2>1. ASSUME NEW e \in Eps, NEW f \in Fds,
               \/ CoreUnmap(e) \/ CoreUnmapConnection(e, f) \/ CoreUnmapAll(e) \/ EpLocalRemove(e)
        PROVE  Quiet
    BY <1>2, <2>1 DEF CoreUnmap, CoreUnmapConnection, CoreUnmapAll, EpUnmapSend, EpLocalRemove
  <2>2. ASSUME NEW e \in Eps, CoreUnmap(e) \/ CoreUnmapAll(e) \/ EpLocalRemove(e)
        PROVE  Quiet
    BY <1>2, <2>2 DEF CoreUnmap, CoreUnmapAll, EpUnmapSend, EpLocalRemove
  <2>3. ASSUME NEW e \in Eps, EpSend(e)
        PROVE  Quiet
    BY <2>3 DEF EpSend, Quiet, threads, conns
  <2> QED
    BY <1>11, <2>1, <2>2, <2>3 DEF Commands
<1>12. ASSUME SendSize \/ SendGet \/ SendTo
       PROVE  Quiet
  BY <1>12, <1>2 DEF SendSize, SendGet, SendTo, Quiet, threads, conns
<1> QED
  BY <1>1, <1>10, <1>11, <1>12 DEF Next

-----------------------------------------------------------------------------
(* Descriptors, and the life of a STATE. *)

LEMMA KeysStep ==
  ASSUME MappingsInv, [Next]_vars
  PROVE  KeysUnique'
<1> MappingsTypeOK /\ KeysUnique /\ Life
  BY DEF MappingsInv
<1> USE MappingsAssumption DEF MappingsTypeOK, KeysUnique, Life
<1>1. CASE UNCHANGED <<pc, using, fd, table, freed>>
  BY <1>1
<1>2. ASSUME NEW s \in States, NEW f \in Fds, Connect(s, f)
      PROVE  KeysUnique'
  BY <1>2 DEF Connect
<1>3. ASSUME NEW s \in States, NEW e \in Eps, Finds(s, e)
      PROVE  KeysUnique'
  BY <1>3 DEF Finds
<1>4. ASSUME NEW s \in States, NEW e \in Eps, Maps(s, e)
      PROVE  KeysUnique'
  BY <1>4 DEF Maps
<1>5. ASSUME NEW s \in States, Ends(s)
      PROVE  KeysUnique'
  BY <1>5 DEF Ends
<1>6. ASSUME NEW s \in States, Frees(s)
      PROVE  KeysUnique'
  BY <1>6 DEF Frees
<1>7. ASSUME NEW s \in States, ConnectionClose(s)
      PROVE  KeysUnique'
  BY <1>7 DEF ConnectionClose, conns
<1>8. ASSUME NEW s \in States, Refused(s)
      PROVE  KeysUnique'
  BY <1>8, <1>1 DEF Refused
<1>9. ASSUME NEW s \in States, NEW e \in Eps, CoreProtoMapTo(s, e) \/ Acked(s, e)
      PROVE  KeysUnique'
  BY <1>9, <1>1 DEF CoreProtoMapTo, Acked, threads, conns
<1>10. ASSUME NEW e \in Eps, RegisterEndpoint(e)
       PROVE  KeysUnique'
  BY <1>10, <1>1 DEF RegisterEndpoint, threads, conns
<1>11. ASSUME Quiet PROVE KeysUnique'
  BY <1>11, <1>1 DEF Quiet
<1> QED
  BY StepCases, <1>2, <1>3, <1>4, <1>5, <1>6, <1>7, <1>8, <1>9, <1>10, <1>11

LEMMA LifeStep ==
  ASSUME MappingsInv, [Next]_vars
  PROVE  Life'
<1> MappingsTypeOK /\ KeysUnique /\ Life
  BY DEF MappingsInv
<1> USE MappingsAssumption DEF MappingsTypeOK, Life
<1>1. CASE UNCHANGED <<pc, found, fd, freed, st, lep, eps>>
  BY <1>1
<1>2. ASSUME NEW s \in States, NEW f \in Fds, Connect(s, f)
      PROVE  Life'
  BY <1>2 DEF Connect
<1>3. ASSUME NEW s \in States, NEW e \in Eps, Finds(s, e)
      PROVE  Life'
  BY <1>3 DEF Finds
<1>4. ASSUME NEW s \in States, NEW e \in Eps, Maps(s, e)
      PROVE  Life'
  BY <1>4 DEF Maps, Attach
<1>5. ASSUME NEW s \in States, Ends(s)
      PROVE  Life'
  BY <1>5 DEF Ends
<1>6. ASSUME NEW s \in States, Frees(s)
      PROVE  Life'
  BY <1>6 DEF Frees
<1>7. ASSUME NEW s \in States, ConnectionClose(s)
      PROVE  Life'
  BY <1>7 DEF ConnectionClose, conns
<1>8. ASSUME NEW s \in States, Refused(s)
      PROVE  Life'
  BY <1>8 DEF Refused
<1>9. ASSUME NEW s \in States, NEW e \in Eps, CoreProtoMapTo(s, e)
      PROVE  Life'
  BY <1>9 DEF CoreProtoMapTo, Attach, threads, conns
<1>10. ASSUME NEW s \in States, NEW e \in Eps, Acked(s, e)
       PROVE  Life'
  BY <1>10 DEF Acked
<1>11. ASSUME NEW e \in Eps, RegisterEndpoint(e)
       PROVE  Life'
  BY <1>11 DEF RegisterEndpoint, threads, conns
<1>12. ASSUME Quiet PROVE Life'
  BY <1>12, <1>1 DEF Quiet
<1> QED
  BY StepCases, <1>2, <1>3, <1>4, <1>5, <1>6, <1>7, <1>8, <1>9, <1>10, <1>11, <1>12

-----------------------------------------------------------------------------
(* Who refers to an endpoint. *)

LEMMA RefersIs ==
  ASSUME KeysUnique, Life, NEW t \in States, NEW e
  PROVE  Refers(t, e) <=> lep[t] = e /\ pc[t] \notin {"free", "close", "closed"}
BY EndedIs DEF Refers

LEMMA RefersNext ==
  ASSUME KeysUnique', Life', NEW t \in States, NEW e
  PROVE  Refers(t, e)' <=> lep'[t] = e /\ pc'[t] \notin {"free", "close", "closed"}
<1>1. pc'[t] \in {"map", "free", "close"} => using'[t] = t
  BY DEF KeysUnique
<1>2. Ended(t)' <=> pc'[t] \in {"free", "close", "closed"}
  BY <1>1 DEF Ended, Life, KeysUnique
<1> QED
  BY <1>2 DEF Refers

\* A STATE comes to refer to an endpoint only when it is attached to it, and
\* then others that refer to the same have made it shared.
LEMMA RefersStep ==
  ASSUME MappingsInv, [Next]_vars, KeysUnique', Life',
         NEW t \in States, NEW e \in Eps, Refers(t, e)'
  PROVE  \/ Refers(t, e)
         \/ /\ ~Refers(t, e)
            /\ Attach(t, e) /\ eps[e] = "up"
            /\ UNCHANGED eps
            /\ \A u \in States \ {t} : Refers(u, e)' => Refers(u, e)
<1> MappingsTypeOK /\ KeysUnique /\ Life
  BY DEF MappingsInv
<1> USE DEF MappingsTypeOK
<1>1. \A u \in States : Refers(u, e) <=> lep[u] = e /\ pc[u] \notin {"free", "close", "closed"}
  BY RefersIs
<1>2. \A u \in States : Refers(u, e)' <=> lep'[u] = e /\ pc'[u] \notin {"free", "close", "closed"}
  BY RefersNext
<1>3. ASSUME NEW s \in States, NEW d \in Eps, CoreProtoMapTo(s, d) \/ Maps(s, d)
      PROVE  \/ Refers(t, e)
             \/ /\ ~Refers(t, e)
                /\ Attach(t, e) /\ eps[e] = "up"
                /\ UNCHANGED eps
                /\ \A u \in States \ {t} : Refers(u, e)' => Refers(u, e)
  <2>1. /\ Attach(s, d) /\ eps[d] = "up" /\ UNCHANGED eps
        /\ pc[s] \in {"receive", "map"} /\ lep[s] = None
        /\ \A u \in States \ {s} : pc'[u] = pc[u] /\ lep'[u] = lep[u]
        /\ lep'[s] = d
    BY <1>3 DEF CoreProtoMapTo, Maps, Attach, Life, threads
  <2>2. CASE t = s
    <3>1. d = e
      BY <1>2, <2>1, <2>2
    <3>2. ~Refers(s, e)
      BY <1>1, <2>1, MappingsAssumption
    <3>3. ASSUME NEW u \in States \ {s}, Refers(u, e)'
          PROVE  Refers(u, e)
      <4>1. lep'[u] = e /\ pc'[u] \notin {"free", "close", "closed"}
        BY <1>2, <3>3
      <4>2. lep[u] = e /\ pc[u] \notin {"free", "close", "closed"}
        BY <2>1, <4>1
      <4> QED
        BY <1>1, <4>2
    <3> QED
      BY <2>1, <2>2, <3>1, <3>2, <3>3
  <2>3. CASE t # s
    BY <1>1, <1>2, <2>1, <2>3
  <2> QED
    BY <2>2, <2>3
<1>4. ASSUME NEW s \in States, Ends(s) \/ Frees(s) \/ ConnectionClose(s) \/ Refused(s)
      PROVE  Refers(t, e)
  BY <1>1, <1>2, <1>4 DEF Ends, Frees, ConnectionClose, Refused, conns
<1>5. ASSUME NEW s \in States, NEW f \in Fds, Connect(s, f)
      PROVE  Refers(t, e)
  BY <1>1, <1>2, <1>5 DEF Connect
<1>6. ASSUME NEW s \in States, NEW d \in Eps, Finds(s, d) \/ Acked(s, d)
      PROVE  Refers(t, e)
  BY <1>1, <1>2, <1>6 DEF Finds, Acked
<1>7. ASSUME Quiet \/ \E d \in Eps : RegisterEndpoint(d)
      PROVE  Refers(t, e)
  BY <1>1, <1>2, <1>7 DEF Quiet, RegisterEndpoint, threads
<1> QED
  BY StepCases, <1>3, <1>4, <1>5, <1>6, <1>7

\* Nothing that has happened to an endpoint is forgotten.
LEMMA CauseGrows ==
  ASSUME [Next]_vars, MappingsInv
  PROVE  cause \subseteq cause'
BY StepCases DEF Quiet, Connect, CoreProtoMapTo, Finds, Maps, Acked, Refused, Ends,
  Frees, ConnectionClose, RegisterEndpoint, Attach

LEMMA ExclusiveStep ==
  ASSUME MappingsInv, [Next]_vars, KeysUnique', Life'
  PROVE  Exclusive'
<1> SUFFICES ASSUME NEW e \in Eps, <<"shared", e>> \notin cause',
                    NEW t \in States, NEW u \in States, Refers(t, e)', Refers(u, e)'
             PROVE  t = u
  BY DEF Exclusive
<1>1. <<"shared", e>> \notin cause
  BY CauseGrows
<1>2. CASE Refers(t, e) /\ Refers(u, e)
  BY <1>1, <1>2 DEF MappingsInv, Exclusive
<1>3. ASSUME NEW a \in States, NEW b \in States, Refers(a, e)', Refers(b, e)',
             ~Refers(a, e), a # b
      PROVE  FALSE
  <2>1. Attach(a, e) /\ Refers(b, e)
    BY <1>3, RefersStep
  <2> QED
    BY <1>3, <2>1 DEF Attach
<1> QED
  BY <1>2, <1>3

-----------------------------------------------------------------------------
(* An endpoint that was never shared. *)

LEMMA SmallArrays ==
  ASSUME NEW S
  PROVE  /\ ToSet(<<>>) = {}
         /\ \A q \in Seq(S) : ToSet(q) = {} => q = <<>>
         /\ \A t \in S : ToSet(Append(<<>>, t)) = {t} /\ Len(Append(<<>>, t)) = 1
         /\ \A q \in Seq(S) : Len(q) <= 1 /\ q # <<>> => RemoveAt(q, Probe(q)) = <<>>
<1>1. ToSet(<<>>) = {}
  BY DEF ToSet
<1>2. ASSUME NEW q \in Seq(S), ToSet(q) = {}
      PROVE  q = <<>>
  <2>1. DOMAIN q = {}
    BY <1>2 DEF ToSet
  <2> QED
    BY <2>1
<1>3. ASSUME NEW t \in S
      PROVE  ToSet(Append(<<>>, t)) = {t} /\ Len(Append(<<>>, t)) = 1
  BY DEF ToSet
<1>4. ASSUME NEW q \in Seq(S), Len(q) <= 1, q # <<>>
      PROVE  RemoveAt(q, Probe(q)) = <<>>
  <2>1. Len(q) = 1
    <3>1. Len(q) \in Nat /\ Len(q) # 0
      BY <1>4
    <3> QED
      BY <1>4, <3>1
  <2> Probe(q) \in 1 .. Len(q)
    BY <1>4, ProbeFacts
  <2>2. RemoveAt(q, Probe(q)) \in Seq(S) /\ Len(RemoveAt(q, Probe(q))) = 0
    BY SMTT(40), <2>1, RemoveAtFacts
  <2> QED
    BY <2>2
<1> QED
  BY <1>1, <1>2, <1>3, <1>4

LEMMA SoleStep ==
  ASSUME MappingsInv, [Next]_vars, KeysUnique', Life'
  PROVE  SoleMappingRight'
<1> MappingsTypeOK /\ KeysUnique /\ Life /\ Exclusive /\ SoleMappingRight
  BY DEF MappingsInv
<1> SUFFICES ASSUME NEW e \in Eps, <<"shared", e>> \notin cause'
             PROVE  /\ ToSet(mappings'[e]) = {t \in States : Mapped(t, e)'}
                    /\ Len(mappings'[e]) <= 1
  BY DEF SoleMappingRight
<1>1. <<"shared", e>> \notin cause
  BY CauseGrows
<1> DEFINE Now(t)  == /\ lep[t] = e /\ pc[t] \notin {"free", "close", "closed"}
                      /\ st[t] = "EXT_MSG"
           Then(t) == /\ lep'[t] = e /\ pc'[t] \notin {"free", "close", "closed"}
                      /\ st'[t] = "EXT_MSG"
<1>2. /\ ToSet(mappings[e]) = {t \in States : Now(t)}
      /\ Len(mappings[e]) <= 1
      /\ mappings[e] \in Seq(States)
  <2>1. \A t \in States : Mapped(t, e) <=> Now(t)
    BY RefersIs DEF Mapped
  <2> QED
    BY <1>1, <2>1 DEF SoleMappingRight, MappingsTypeOK
<1>3. {t \in States : Mapped(t, e)'} = {t \in States : Then(t)}
  <2>1. ASSUME NEW t \in States PROVE Mapped(t, e)' <=> Then(t)
    BY RefersNext DEF Mapped
  <2> QED
    BY <2>1
<1> SUFFICES ToSet(mappings'[e]) = {t \in States : Then(t)} /\ Len(mappings'[e]) <= 1
  BY <1>3
<1>4. \A t, u \in States : /\ lep[t] = e /\ pc[t] \notin {"free", "close", "closed"}
                           /\ lep[u] = e /\ pc[u] \notin {"free", "close", "closed"}
                           => t = u
  BY <1>1, RefersIs DEF Exclusive
<1>5. ASSUME mappings'[e] = mappings[e],
             \A t \in States : Then(t) <=> Now(t)
      PROVE  /\ ToSet(mappings'[e]) = {t \in States : Then(t)}
             /\ Len(mappings'[e]) <= 1
  BY <1>2, <1>5
<1> USE DEF MappingsTypeOK
<1>6. ASSUME NEW s \in States, \/ Refused(s) \/ Frees(s) \/ ConnectionClose(s)
                               \/ \E f \in Fds : Connect(s, f)
                               \/ \E d \in Eps : CoreProtoMapTo(s, d) \/ Finds(s, d)
      PROVE  mappings'[e] = mappings[e] /\ \A t \in States : Then(t) <=> Now(t)
  <2> /\ mappings' = mappings
      /\ \A t \in States \ {s} : lep'[t] = lep[t] /\ pc'[t] = pc[t] /\ st'[t] = st[t]
    BY <1>6 DEF Refused, Frees, ConnectionClose, Connect, CoreProtoMapTo, Finds, Attach,
      threads, conns
  <2>1. \A t \in States \ {s} : Then(t) <=> Now(t)
    OBVIOUS
  <2>2. Then(s) <=> Now(s)
    BY <1>6, MappingsAssumption DEF Refused, Frees, ConnectionClose, Connect,
      CoreProtoMapTo, Finds, Attach, threads, conns, Life
  <2> QED
    BY <2>1, <2>2
<1>7. ASSUME Quiet \/ \E d \in Eps : RegisterEndpoint(d)
      PROVE  mappings'[e] = mappings[e] /\ \A t \in States : Then(t) <=> Now(t)
  BY <1>7 DEF Quiet, RegisterEndpoint, threads
<1>8. ASSUME NEW s \in States, NEW d \in Eps, Maps(s, d) \/ Acked(s, d)
      PROVE  /\ ToSet(mappings'[e]) = {t \in States : Then(t)}
             /\ Len(mappings'[e]) <= 1
  <2>1. /\ mappings' = [mappings EXCEPT ![d] = Append(@, s)]
        /\ st'[s] = "EXT_MSG" /\ lep'[s] = d /\ pc'[s] = "receive"
        /\ pc[s] \in {"map", "receive"} /\ st[s] # "EXT_MSG"
        /\ \A t \in States \ {s} : lep'[t] = lep[t] /\ pc'[t] = pc[t] /\ st'[t] = st[t]
    BY <1>8 DEF Maps, Acked, Attach, Life
  <2>2. CASE d # e
    <3>1. \A t \in States : Then(t) <=> Now(t)
      BY <2>1, <2>2
    <3> QED
      BY <1>5, <2>1, <2>2, <3>1
  <2>3. CASE d = e
    <3>1. \A t \in States : ~Now(t)
      <4>1. CASE Maps(s, d)
        <5>1. \A t \in States \ {s} : ~Refers(t, e)
          BY <2>3, <4>1 DEF Maps, Attach
        <5> QED
          BY <2>1, <5>1, RefersIs
      <4>2. CASE Acked(s, d)
        <5>1. lep[s] = e /\ pc[s] = "receive" /\ st[s] = "MAP_ACK"
          BY <2>3, <4>2 DEF Acked
        <5>2. ASSUME NEW t \in States, Now(t)
              PROVE  FALSE
          <6>1. t = s
            BY <1>4, <5>1, <5>2
          <6> QED
            BY <5>1, <5>2, <6>1
        <5> QED
          BY <5>2
      <4> QED
        BY <1>8, <4>1, <4>2
    <3>2. mappings[e] = <<>>
      BY <1>2, <3>1, SmallArrays
    <3>3. mappings'[e] = Append(<<>>, s)
      BY <2>1, <2>3, <3>2
    <3>4. {t \in States : Then(t)} = {s}
      BY <2>1, <2>3, <3>1
    <3> QED
      BY <3>3, <3>4, SmallArrays
  <2> QED
    BY <2>2, <2>3
<1>9. ASSUME NEW s \in States, Ends(s)
       PROVE  /\ ToSet(mappings'[e]) = {t \in States : Then(t)}
              /\ Len(mappings'[e]) <= 1
  <2>1. /\ pc[s] = "receive" /\ pc'[s] = "free"
        /\ \A t \in States \ {s} : pc'[t] = pc[t]
        /\ st' = st /\ lep' = lep
    BY <1>9 DEF Ends
  <2>2. CASE lep[s] # e
    <3>1. mappings'[e] = mappings[e]
      BY <1>9, <2>2 DEF Ends, ArrayRemove
    <3>2. \A t \in States : Then(t) <=> Now(t)
      BY <2>1, <2>2
    <3> QED
      BY <1>5, <3>1, <3>2
  <2>3. CASE lep[s] = e
    <3>1. \A t \in States : ~Then(t)
      BY <1>4, <2>1, <2>3
    <3>2. ArrayRemove(e)
      BY <1>9, <2>3, MappingsAssumption DEF Ends
    <3>3. mappings'[e] = <<>>
      BY <1>2, <3>2, SmallArrays DEF ArrayRemove
    <3> QED
      BY <3>1, <3>3, SmallArrays
  <2> QED
    BY <2>2, <2>3
<1> QED
  BY StepCases, <1>5, <1>6, <1>7, <1>8, <1>9

-----------------------------------------------------------------------------
(* The loop of ep_send. *)

LEMMA SendingStep ==
  ASSUME MappingsInv, [Next]_vars
  PROVE  \/ UNCHANGED sending
         \/ /\ \/ \E e \in Eps : EpSend(e)
               \/ SendSize
               \/ SendGet /\ sender.i < Len(mappings[sender.ep])
               \/ SendTo /\ sender.state \notin freed
            /\ UNCHANGED <<mappings, cause>>
<1>1. CASE UNCHANGED vars
  BY <1>1 DEF vars, sending
<1>2. ASSUME NEW s \in States, Callback(s)
      PROVE  UNCHANGED sending
  BY <1>2 DEF Callback, Connect, CoreProtoMapTo, RecvMap, RecvMapNone, EpMap,
    RecvMapAck, RecvMapAckBad, EpUnmapFinal, StateFree, ConnectionClose,
    Undefined
<1>3. CASE Commands
  BY <1>3 DEF Commands, RegisterEndpoint, CoreUnmap, CoreUnmapConnection, CoreUnmapAll,
    EpUnmapSend, EpLocalRemove, EpSend, Crashes, Undefined, sending
<1>4. CASE SendSize \/ SendGet \/ SendTo
  BY <1>4 DEF SendSize, SendGet, SendTo, Undefined
<1> QED
  BY <1>1, <1>2, <1>3, <1>4 DEF Next

\* The array of the endpoint that is being sent to grows at its end only, unless
\* the step overlaps the loop.
LEMMA ArrayStep ==
  ASSUME MappingsInv, [Next]_vars, NEW e \in Eps
  PROVE  \/ mappings'[e] = mappings[e]
         \/ \E s \in States : mappings'[e] = Append(mappings[e], s)
         \/ sender.ep = e => <<"overlapped", e>> \in cause'
<1> MappingsTypeOK
  BY DEF MappingsInv
<1>1. ASSUME NEW s \in States, NEW d \in Eps, Maps(s, d) \/ Acked(s, d)
      PROVE  mappings'[e] = mappings[e] \/ mappings'[e] = Append(mappings[e], s)
  BY <1>1 DEF Maps, Acked, MappingsTypeOK
<1>2. ASSUME NEW s \in States, Ends(s)
      PROVE  \/ mappings'[e] = mappings[e]
             \/ sender.ep = e => <<"overlapped", e>> \in cause'
  <2>1. CASE lep[s] = e
    BY <1>2, <2>1, MappingsAssumption DEF Ends
  <2>2. CASE lep[s] # e
    BY <1>2, <2>2 DEF Ends, ArrayRemove, MappingsTypeOK
  <2> QED
    BY <2>1, <2>2
<1> QED
  BY StepCases, <1>1, <1>2 DEF Quiet, Connect, CoreProtoMapTo, Finds, Refused, Frees,
    ConnectionClose, RegisterEndpoint

LEMMA EmptyPrefix == \A q \in Seq(States) : SubSeq(q, 1, 0) = <<>>
OBVIOUS

LEMMA PrefixKept ==
  ASSUME NEW q \in Seq(States), NEW i \in 0 .. Len(q), NEW s \in States
  PROVE  SubSeq(Append(q, s), 1, i) = SubSeq(q, 1, i)
OBVIOUS

LEMMA PrefixGrows ==
  ASSUME NEW q \in Seq(States), NEW i \in 0 .. Len(q), i < Len(q)
  PROVE  Append(SubSeq(q, 1, i), q[i + 1]) = SubSeq(q, 1, i + 1)
OBVIOUS

LEMMA LoopStep ==
  ASSUME MappingsInv, [Next]_vars, MappingsTypeOK'
  PROVE  LoopInv' /\ NobodySkipped'
<1> MappingsTypeOK /\ LoopInv /\ NobodySkipped
  BY DEF MappingsInv
<1> USE MappingsAssumption
<1>1. CASE UNCHANGED sending
  <2> sender' = sender /\ sent' = sent
    BY <1>1 DEF sending
  <2>1. ASSUME NEW e \in Eps, sender.ep = e, <<"overlapped", e>> \notin cause'
        PROVE  /\ sender.i <= Len(mappings'[e])
               /\ sent = SubSeq(mappings'[e], 1, sender.i)
               /\ sender.pc \in {"get", "send"} => sender.i < Len(mappings'[e])
               /\ sender.pc = "send" => sender.state = mappings'[e][sender.i + 1]
    <3>1. /\ sender.i \in 0 .. Len(mappings[e])
          /\ sent = SubSeq(mappings[e], 1, sender.i)
          /\ sender.pc \in {"get", "send"} => sender.i < Len(mappings[e])
          /\ sender.pc = "send" => sender.state = mappings[e][sender.i + 1]
          /\ mappings[e] \in Seq(States)
      BY <2>1, CauseGrows DEF LoopInv, NobodySkipped, MappingsTypeOK
    <3>2. CASE mappings'[e] = mappings[e]
      BY <3>1, <3>2
    <3>3. ASSUME NEW s \in States, mappings'[e] = Append(mappings[e], s)
          PROVE  /\ sender.i <= Len(mappings'[e])
                 /\ sent = SubSeq(mappings'[e], 1, sender.i)
                 /\ sender.pc \in {"get", "send"} => sender.i < Len(mappings'[e])
                 /\ sender.pc = "send" => sender.state = mappings'[e][sender.i + 1]
      <4>1. SubSeq(mappings'[e], 1, sender.i) = SubSeq(mappings[e], 1, sender.i)
        BY <3>1, <3>3, PrefixKept
      <4>2. /\ Len(mappings'[e]) = Len(mappings[e]) + 1
            /\ \A k \in 1 .. Len(mappings[e]) : mappings'[e][k] = mappings[e][k]
        BY <3>1, <3>3
      <4>3. sender.i < Len(mappings[e]) => sender.i + 1 \in 1 .. Len(mappings[e])
        BY <3>1
      <4> QED
        BY SMTT(40), <3>1, <4>1, <4>2, <4>3
    <3> QED
      BY <2>1, <3>2, <3>3, ArrayStep
  <2> QED
    BY <2>1 DEF LoopInv, NobodySkipped, Idle
<1>2. ASSUME NEW e \in Eps, EpSend(e), UNCHANGED <<mappings, cause>>
      PROVE  LoopInv' /\ NobodySkipped'
  <2>1. mappings[e] \in Seq(States)
    BY DEF MappingsTypeOK
  <2>2. SubSeq(mappings[e], 1, 0) = <<>> /\ Len(mappings[e]) \in Nat
    <3>1. Len(mappings[e]) \in Nat
      BY <2>1
    <3> QED
      BY <2>1, <3>1, EmptyPrefix
  <2> QED
    BY <1>2, <2>2 DEF EpSend, LoopInv, NobodySkipped
<1>3. ASSUME SendSize, UNCHANGED <<mappings, cause>>
      PROVE  LoopInv' /\ NobodySkipped'
  <2>1. CASE sender.i < Len(mappings[sender.ep])
    <3>1. /\ sender' = [sender EXCEPT !.pc = "get"]
          /\ sender.pc = "size" /\ UNCHANGED sent
      BY <1>3, <2>1 DEF SendSize
    <3>2. sender'.pc = "get" /\ sender'.ep = sender.ep /\ sender'.i = sender.i
      BY <3>1 DEF MappingsTypeOK
    <3> QED
      BY <1>3, <2>1, <3>1, <3>2 DEF LoopInv, NobodySkipped
  <2>2. CASE ~(sender.i < Len(mappings[sender.ep]))
    <3>1. sender' = Idle
      BY <1>3, <2>2 DEF SendSize
    <3>2. sender'.pc = "idle" /\ sender'.ep = None
      BY <3>1 DEF Idle
    <3> QED
      BY <3>1, <3>2 DEF LoopInv, NobodySkipped, Idle
  <2> QED
    BY <2>1, <2>2
<1>4. ASSUME SendGet, sender.i < Len(mappings[sender.ep]), UNCHANGED <<mappings, cause>>
      PROVE  LoopInv' /\ NobodySkipped'
  <2>1. /\ sender' = [sender EXCEPT !.pc = "send", !.state = mappings[sender.ep][sender.i + 1]]
        /\ sender.pc = "get" /\ UNCHANGED sent
    BY <1>4 DEF SendGet
  <2>2. /\ sender'.pc = "send" /\ sender'.ep = sender.ep /\ sender'.i = sender.i
        /\ sender'.state = mappings[sender.ep][sender.i + 1]
    BY <2>1 DEF MappingsTypeOK
  <2>3. sender.ep \in Eps
    BY <2>1 DEF LoopInv
  <2>4. sender'.state \in States
    BY <1>4, <2>2, <2>3 DEF MappingsTypeOK
  <2> QED
    BY <1>4, <2>1, <2>2, <2>3, <2>4 DEF LoopInv, NobodySkipped
<1>5. ASSUME SendTo, sender.state \notin freed, UNCHANGED <<mappings, cause>>
      PROVE  LoopInv' /\ NobodySkipped'
  <2>1. /\ sender' = [sender EXCEPT !.pc = "size", !.i = @ + 1, !.state = None]
        /\ sender.pc = "send" /\ sent' = Append(sent, sender.state)
    BY <1>5 DEF SendTo
  <2>2. sender'.pc = "size" /\ sender'.ep = sender.ep /\ sender'.i = sender.i + 1
    BY <2>1 DEF MappingsTypeOK
  <2>3. sender.ep \in Eps
    BY <2>1 DEF LoopInv
  <2>4. ASSUME NEW e \in Eps, sender.ep = e, <<"overlapped", e>> \notin cause
        PROVE  /\ sender.i + 1 <= Len(mappings[e])
               /\ sent' = SubSeq(mappings[e], 1, sender.i + 1)
    <3>1. /\ mappings[e] \in Seq(States) /\ sender.i \in 0 .. Len(mappings[e])
          /\ sender.i < Len(mappings[e])
          /\ sent = SubSeq(mappings[e], 1, sender.i)
          /\ sender.state = mappings[e][sender.i + 1]
      BY SMTT(40), <2>1, <2>4 DEF LoopInv, NobodySkipped, MappingsTypeOK
    <3> QED
      <4>1. Append(SubSeq(mappings[e], 1, sender.i), mappings[e][sender.i + 1])
              = SubSeq(mappings[e], 1, sender.i + 1)
        BY <3>1, PrefixGrows
      <4>2. sender.i + 1 <= Len(mappings[e])
        BY <3>1
      <4> QED
        BY <2>1, <3>1, <4>1, <4>2
  <2> QED
    BY <1>5, <2>2, <2>3, <2>4 DEF LoopInv, NobodySkipped
<1> QED
  BY <1>1, <1>2, <1>3, <1>4, <1>5, SendingStep

-----------------------------------------------------------------------------
(* Why freed memory is used. *)

LEMMA FreedEntry ==
  ASSUME MappingsInv, NEW e \in Eps, NEW k \in 1 .. Len(mappings[e]),
         mappings[e][k] \in freed
  PROVE  <<"shared", e>> \in cause
<1> MappingsTypeOK /\ SoleMappingRight
  BY DEF MappingsInv
<1>1. mappings[e][k] \in ToSet(mappings[e])
  BY DEF ToSet, MappingsTypeOK
<1>2. ~Mapped(mappings[e][k], e)
  BY DEF Mapped, Refers, Ended
<1> QED
  BY <1>1, <1>2 DEF SoleMappingRight

\* What UndefinedHasCause says of a function that uses freed memory.
HasCause(by, e, f) ==
  /\ by \in Faulty
  /\ by = "core_unmap_connection" =>
       \A s \in States : fd[s] = f => pc[s] \in {"close", "closed"}
  /\ by \in {"core_on_disconnect", "ep_unmap_send"} => <<"shared", e>> \in cause
  /\ by = "ep_send" => <<"shared", e>> \in cause \/ <<"overlapped", e>> \in cause

LEMMA FaultHasCause ==
  ASSUME NEW by, NEW e, NEW f, Undefined(by, e, f), HasCause(by, e, f)
  PROVE  UndefinedHasCause'
<1>1. /\ fault'.by = by /\ fault'.ep = e /\ fault'.fd = f
      /\ UNCHANGED <<pc, fd, cause>>
  BY DEF Undefined, Fault, threads, conns
<1> QED
  BY <1>1 DEF HasCause, UndefinedHasCause

\* The functions that work on the entries of an array.
LEMMA EntryHasCause ==
  ASSUME MappingsInv, NEW e \in Eps, NEW k \in 1 .. Len(mappings[e]),
         mappings[e][k] \in freed,
         NEW by \in {"core_on_disconnect", "ep_unmap_send", "ep_send"}, NEW f
  PROVE  HasCause(by, e, f)
BY FreedEntry DEF HasCause, Faulty

\* A descriptor is noted with a freed STATE only when its connection is gone,
\* and no other has it.
LEMMA GoneHasCause ==
  ASSUME MappingsInv, NEW e \in Eps, NEW f \in Fds, table[f] \in freed
  PROVE  HasCause("core_unmap_connection", e, f)
<1>1. ASSUME NEW s \in States, fd[s] = f
      PROVE  pc[s] \in {"close", "closed"}
  <2>1. KeysUnique /\ Life /\ s \in States
    BY DEF MappingsInv
  <2>2. CASE s \in freed
    BY <2>1, <2>2 DEF Life
  <2>3. CASE s \notin freed
    <3>1. table[fd[s]] # s
      BY <1>1, <2>3
    <3>2. pc[s] = "none"
      BY <2>1, <2>3, <3>1 DEF KeysUnique
    <3> QED
      BY <1>1, <2>1, <3>2, MappingsAssumption DEF Life
  <2> QED
    BY <2>2, <2>3
<1> QED
  BY <1>1 DEF HasCause, Faulty

LEMMA UndefinedStep ==
  ASSUME MappingsInv, [Next]_vars
  PROVE  UndefinedHasCause'
<1> MappingsTypeOK /\ KeysUnique /\ Life /\ LoopInv /\ UndefinedHasCause
  BY DEF MappingsInv
<1>1. CASE UNCHANGED vars
  BY <1>1 DEF vars, UndefinedHasCause
<1>2. ASSUME mode = "running", mode' = mode \/ Crashes
      PROVE  UndefinedHasCause'
  BY <1>2 DEF UndefinedHasCause, Crashes
<1>3. ASSUME mode = "running", NEW s \in States, EpUnmapFinal(s)
      PROVE  UndefinedHasCause'
  <2> DEFINE e == lep[s]
             k == Probe(mappings[e])
  <2>1. StatesGet(s) = s
    BY <1>3, OwnState DEF EpUnmapFinal
  <2>2. CASE e # None /\ mappings[e] # <<>> /\ mappings[e][k] \in freed
    <3>1. Undefined("core_on_disconnect", e, fd[s])
      BY <1>3, <2>1, <2>2 DEF EpUnmapFinal
    <3>2. e \in Eps /\ mappings[e] \in Seq(States)
      BY <2>2 DEF MappingsTypeOK
    <3>3. k \in 1 .. Len(mappings[e])
      BY <2>2, <3>2, ProbeFacts
    <3> QED
      BY <2>2, <3>1, <3>2, <3>3, EntryHasCause, FaultHasCause
  <2>3. CASE ~(e # None /\ mappings[e] # <<>> /\ mappings[e][k] \in freed)
    BY <1>2, <1>3, <2>1, <2>3 DEF EpUnmapFinal
  <2> QED
    BY <2>2, <2>3
<1>4. ASSUME mode = "running", NEW s \in States, Callback(s)
      PROVE  UndefinedHasCause'
  BY <1>2, <1>3, <1>4 DEF Callback, Connect, CoreProtoMapTo, RecvMap, RecvMapNone, EpMap,
    RecvMapAck, RecvMapAckBad, StateFree, ConnectionClose
<1>5. ASSUME mode = "running", NEW e \in Eps, NEW k \in 1 .. Len(mappings[e]),
             EpUnmapSend(e, mappings[e][k])
      PROVE  UndefinedHasCause'
  BY <1>2, <1>5, EntryHasCause, FaultHasCause DEF EpUnmapSend
<1>6. ASSUME mode = "running", NEW e \in Eps, CoreUnmap(e) \/ CoreUnmapAll(e)
      PROVE  UndefinedHasCause'
  <2>1. ASSUME CoreUnmapAll(e)
        PROVE  1 \in 1 .. Len(mappings[e])
    BY <2>1 DEF CoreUnmapAll, MappingsTypeOK
  <2>2. DOMAIN mappings[e] = 1 .. Len(mappings[e])
    BY DEF MappingsTypeOK
  <2> QED
    BY <1>5, <1>6, <2>1, <2>2 DEF CoreUnmap, CoreUnmapAll
<1>7. ASSUME mode = "running", NEW e \in Eps, EpLocalRemove(e)
      PROVE  UndefinedHasCause'
  BY <1>7, FaultHasCause DEF EpLocalRemove, HasCause, Faulty
<1>8. ASSUME mode = "running", NEW e \in Eps, NEW f \in Fds, CoreUnmapConnection(e, f)
      PROVE  UndefinedHasCause'
  BY <1>2, <1>8, GoneHasCause, FaultHasCause DEF CoreUnmapConnection
<1>9. ASSUME mode = "running", Commands
      PROVE  UndefinedHasCause'
  BY <1>2, <1>6, <1>7, <1>8, <1>9 DEF Commands, RegisterEndpoint, EpSend
<1>10. ASSUME mode = "running", SendGet
       PROVE  UndefinedHasCause'
  <2>1. sender.pc = "get" /\ sender.ep \in Eps
    BY <1>10 DEF SendGet, LoopInv
  <2>2. CASE sender.i < Len(mappings[sender.ep])
    BY <1>2, <1>10, <2>2 DEF SendGet
  <2>3. CASE ~(sender.i < Len(mappings[sender.ep]))
    <3>1. HasCause("ep_send", sender.ep, None)
      BY <2>1, <2>3 DEF LoopInv, HasCause, Faulty
    <3> QED
      BY <1>10, <2>3, <3>1, FaultHasCause DEF SendGet
  <2> QED
    BY <2>2, <2>3
<1>11. ASSUME mode = "running", SendTo
       PROVE  UndefinedHasCause'
  <2> DEFINE e == sender.ep
  <2>1. sender.pc = "send" /\ e \in Eps
    BY <1>11 DEF SendTo, LoopInv
  <2>2. CASE sender.state \notin freed
    BY <1>2, <1>11, <2>2 DEF SendTo
  <2>3. CASE sender.state \in freed
    <3>1. ASSUME <<"overlapped", e>> \in cause
          PROVE  HasCause("ep_send", e, None)
      BY <3>1 DEF HasCause, Faulty
    <3>2. ASSUME <<"overlapped", e>> \notin cause
          PROVE  HasCause("ep_send", e, None)
      <4>1. sender.i < Len(mappings[e]) /\ sender.state = mappings[e][sender.i + 1]
        BY <2>1, <3>2 DEF LoopInv
      <4>2. sender.i + 1 \in 1 .. Len(mappings[e])
        BY <2>1, <4>1 DEF MappingsTypeOK
      <4> QED
        BY <2>1, <2>3, <4>1, <4>2, EntryHasCause
    <3>3. HasCause("ep_send", e, None)
      BY <3>1, <3>2
    <3> QED
      BY <1>11, <2>3, <3>3, FaultHasCause DEF SendTo
  <2> QED
    BY <2>2, <2>3
<1> QED
  BY <1>1, <1>2, <1>4, <1>9, <1>10, <1>11 DEF Next, SendSize

-----------------------------------------------------------------------------
(* The theorems. *)

LEMMA InvInit == Init => MappingsInv
<1> SUFFICES ASSUME Init PROVE MappingsInv
  OBVIOUS
<1>1. MappingsTypeOK
  BY TypeInit
<1>2. /\ \A s \in States : /\ pc[s] = "none" /\ fd[s] = None
                             /\ lep[s] = None /\ found[s] = None /\ st[s] = "MAP"
      /\ \A e \in Eps : eps[e] = "none" /\ mappings[e] = <<>>
      /\ freed = {} /\ sender = Idle /\ mode = "running"
  BY DEF Init
<1>3. KeysUnique /\ Life /\ UndefinedHasCause
  BY <1>2 DEF KeysUnique, Life, UndefinedHasCause
<1>4. \A t \in States, e \in Eps : ~Refers(t, e)
  BY <1>2, MappingsAssumption DEF Refers
<1>5. Exclusive
  BY <1>4 DEF Exclusive
<1>6. SoleMappingRight
  BY <1>2, <1>4 DEF SoleMappingRight, Mapped, ToSet
<1>7. \A e \in Eps : sender.ep # e
  BY <1>2, MappingsAssumption DEF Idle
<1>8. LoopInv /\ NobodySkipped
  BY <1>2, <1>7 DEF LoopInv, NobodySkipped, Idle
<1> QED
  BY <1>1, <1>3, <1>5, <1>6, <1>8 DEF MappingsInv

LEMMA InvStep ==
  ASSUME MappingsInv, [Next]_vars
  PROVE  MappingsInv'
<1>1. MappingsTypeOK'
  BY TypeStep DEF MappingsInv
<1>2. KeysUnique' /\ Life'
  BY KeysStep, LifeStep
<1>3. Exclusive' /\ SoleMappingRight'
  BY <1>2, ExclusiveStep, SoleStep
<1>4. LoopInv' /\ NobodySkipped' /\ UndefinedHasCause'
  BY <1>1, LoopStep, UndefinedStep
<1> QED
  BY <1>1, <1>2, <1>3, <1>4 DEF MappingsInv

\* The inductive invariant holds in every reachable state.
THEOREM MappingsInvCorrect == Spec => []MappingsInv
<1>1. MappingsInv /\ [Next]_vars => MappingsInv'
  BY InvStep
<1> QED
  BY InvInit, <1>1, PTL DEF Spec

\* Every variable keeps its type, whatever the threads do to the endpoint table.
THEOREM MappingsTypeCorrect == Spec => []MappingsTypeOK
<1>1. MappingsInv => MappingsTypeOK
  BY DEF MappingsInv
<1> QED
  BY MappingsInvCorrect, <1>1, PTL

\* However descriptors are used again by later connections, what conn_state
\* holds for a connection in use is its own STATE, not yet freed.
THEOREM KeysAreUnique == Spec => []KeysUnique
<1>1. MappingsInv => KeysUnique
  BY DEF MappingsInv
<1> QED
  BY MappingsInvCorrect, <1>1, PTL

\* The mappings_states of an endpoint that one connection at a time refers to
\* are right, although array_remove does not look for the STATE it is given.
THEOREM SoleMappingsRight == Spec => []SoleMappingRight
<1>1. MappingsInv => SoleMappingRight
  BY DEF MappingsInv
<1> QED
  BY MappingsInvCorrect, <1>1, PTL

\* The loop of ep_send leaves out no connection that was mapped before it
\* passed, unless one of the endpoint's connections ends meanwhile.
THEOREM SendersSkipNobody == Spec => []NobodySkipped
<1>1. MappingsInv => NobodySkipped
  BY DEF MappingsInv
<1> QED
  BY MappingsInvCorrect, <1>1, PTL

\* Each function that uses freed memory does so for its own reason: a STATE in
\* an array was freed only where two connections had that endpoint at a time, or
\* where ep_send's loop over it was overlapped by the end of a connection.
THEOREM UndefinedExplained == Spec => []UndefinedHasCause
<1>1. MappingsInv => UndefinedHasCause
  BY DEF MappingsInv
<1> QED
  BY MappingsInvCorrect, <1>1, PTL

-----------------------------------------------------------------------------
(* No more mappings than there are mapped connections. *)

MappedTo(e) == {t \in States : Mapped(t, e)}

\* Cardinality means something only of a finite set: of the connections that may
\* ever be, finitely many have been mapped.
LeftInv ==
  \A e \in Eps : IsFiniteSet(MappedTo(e)) /\ Len(mappings[e]) <= Cardinality(MappedTo(e))

\* Connection s comes to be mapped to e, or one that may have been is no more.
Joins(s, e) ==
  /\ s \notin MappedTo(e)
  /\ MappedTo(e)' = MappedTo(e) \cup {s}
  /\ mappings'[e] = Append(mappings[e], s)

Leaves(s, e) ==
  /\ MappedTo(e)' = MappedTo(e) \ {s}
  /\ mappings'[e] = IF mappings[e] = <<>> THEN <<>>
                    ELSE RemoveAt(mappings[e], Probe(mappings[e]))

LEMMA MappedStep ==
  ASSUME MappingsInv, [Next]_vars, NEW e \in Eps
  PROVE  \/ MappedTo(e)' = MappedTo(e) /\ mappings'[e] = mappings[e]
         \/ \E s \in States : Joins(s, e) \/ Leaves(s, e)
<1> MappingsTypeOK /\ KeysUnique /\ Life
  BY DEF MappingsInv
<1> USE DEF MappingsTypeOK
<1>1. \A u \in States : u \in MappedTo(e) <=>
        lep[u] = e /\ st[u] = "EXT_MSG" /\ pc[u] \notin {"free", "close", "closed"}
  BY RefersIs DEF MappedTo, Mapped
<1>2. \A u \in States : u \in MappedTo(e)' <=>
        lep'[u] = e /\ st'[u] = "EXT_MSG" /\ pc'[u] \notin {"free", "close", "closed"}
  <2>1. KeysUnique' /\ Life'
    BY KeysStep, LifeStep
  <2> QED  BY <2>1, RefersNext DEF MappedTo, Mapped
<1>3. MappedTo(e) \subseteq States /\ MappedTo(e)' \subseteq States
  BY DEF MappedTo
<1> HIDE DEF MappingsTypeOK
<1>0. ASSUME NEW S, \A u \in States : u \in MappedTo(e)' <=> u \in S, S \subseteq States
      PROVE  MappedTo(e)' = S
  BY <1>0, <1>3
<1>4. ASSUME NEW s \in States, NEW d \in Eps, Maps(s, d) \/ Acked(s, d)
      PROVE  IF d = e THEN Joins(s, e)
             ELSE MappedTo(e)' = MappedTo(e) /\ mappings'[e] = mappings[e]
  <2>1. /\ st[s] # "EXT_MSG" /\ st'[s] = "EXT_MSG" /\ lep'[s] = d
        /\ pc'[s] = "receive"
        /\ \A u \in States \ {s} : lep'[u] = lep[u] /\ st'[u] = st[u] /\ pc'[u] = pc[u]
        /\ mappings' = [mappings EXCEPT ![d] = Append(@, s)]
    BY <1>4 DEF Maps, Acked, Attach, Life, MappingsTypeOK
  <2>2. s \notin MappedTo(e)
    BY <1>1, <2>1
  <2>3. CASE d = e
    <3>1. \A u \in States : u \in MappedTo(e)' <=> u \in MappedTo(e) \cup {s}
      BY <1>1, <1>2, <2>1, <2>3
    <3>2. MappedTo(e)' = MappedTo(e) \cup {s}
      BY <1>0, <1>3, <3>1
    <3> QED  BY <2>1, <2>2, <2>3, <3>2 DEF Joins, MappingsTypeOK
  <2>4. CASE d # e
    <3>1. \A u \in States : u \in MappedTo(e)' <=> u \in MappedTo(e)
      BY <1>1, <1>2, <2>1, <2>4
    <3>2. MappedTo(e)' = MappedTo(e)
      BY <1>0, <1>3, <3>1
    <3> QED  BY <2>1, <2>4, <3>2 DEF MappingsTypeOK
  <2> QED  BY <2>3, <2>4
<1>5. ASSUME NEW s \in States, Ends(s)
      PROVE  IF lep[s] = e THEN Leaves(s, e)
             ELSE MappedTo(e)' = MappedTo(e) /\ mappings'[e] = mappings[e]
  <2>1. /\ lep' = lep /\ st' = st /\ pc'[s] = "free"
        /\ \A u \in States \ {s} : pc'[u] = pc[u]
    BY <1>5 DEF Ends, MappingsTypeOK
  <2>2. CASE lep[s] = e
    <3>0. \A u \in States : u \in MappedTo(e)' <=> u \in MappedTo(e) \ {s}
      BY <1>1, <1>2, <2>1
    <3>1. MappedTo(e)' = MappedTo(e) \ {s}
      BY <1>0, <1>3, <3>0
    <3>2. ArrayRemove(e)
      BY <1>5, <2>2, MappingsAssumption DEF Ends, MappingsTypeOK
    <3>3. mappings'[e] = IF mappings[e] = <<>> THEN <<>>
                         ELSE RemoveAt(mappings[e], Probe(mappings[e]))
      BY <3>2 DEF ArrayRemove, MappingsTypeOK
    <3> QED  BY <2>2, <3>1, <3>3 DEF Leaves
  <2>3. CASE lep[s] # e
    <3>0. \A u \in States : u \in MappedTo(e)' <=> u \in MappedTo(e)
      BY <1>1, <1>2, <2>1, <2>3
    <3>1. MappedTo(e)' = MappedTo(e)
      BY <1>0, <1>3, <3>0
    <3>2. mappings'[e] = mappings[e]
      BY <1>5, <2>3 DEF Ends, ArrayRemove, MappingsTypeOK
    <3> QED  BY <2>3, <3>1, <3>2
  <2> QED  BY <2>2, <2>3
<1>6. ASSUME \A u \in States :
               \/ lep'[u] = lep[u] /\ st'[u] = st[u] /\ pc'[u] = pc[u]
               \/ st[u] # "EXT_MSG" /\ st'[u] # "EXT_MSG"
               \/ /\ pc[u] \in {"free", "close", "closed"}
                  /\ pc'[u] \in {"free", "close", "closed"},
             mappings' = mappings
      PROVE  MappedTo(e)' = MappedTo(e) /\ mappings'[e] = mappings[e]
  <2>1. \A u \in States : u \in MappedTo(e)' <=> u \in MappedTo(e)
    BY <1>1, <1>2, <1>6
  <2> QED  BY <1>0, <1>3, <1>6, <2>1
<1>7. ASSUME NEW s \in States, NEW f \in Fds, Connect(s, f)
      PROVE  MappedTo(e)' = MappedTo(e) /\ mappings'[e] = mappings[e]
  BY <1>6, <1>7 DEF Connect, Life, MappingsTypeOK
<1>8. ASSUME NEW s \in States, NEW d \in Eps, CoreProtoMapTo(s, d) \/ Finds(s, d)
      PROVE  MappedTo(e)' = MappedTo(e) /\ mappings'[e] = mappings[e]
  BY <1>6, <1>8 DEF CoreProtoMapTo, Attach, Finds, threads, MappingsTypeOK
<1>9. ASSUME NEW s \in States, Refused(s) \/ Frees(s) \/ ConnectionClose(s)
      PROVE  MappedTo(e)' = MappedTo(e) /\ mappings'[e] = mappings[e]
  BY <1>6, <1>9 DEF Refused, Frees, ConnectionClose, MappingsTypeOK
<1>10. ASSUME Quiet \/ \E d \in Eps : RegisterEndpoint(d)
       PROVE  MappedTo(e)' = MappedTo(e) /\ mappings'[e] = mappings[e]
  BY <1>6, <1>10 DEF Quiet, RegisterEndpoint, threads
<1> QED
  BY StepCases, <1>4, <1>5, <1>7, <1>8, <1>9, <1>10

LEMMA LeftStep ==
  ASSUME MappingsInv, LeftInv, [Next]_vars
  PROVE  LeftInv'
<1> SUFFICES ASSUME NEW e \in Eps
             PROVE  /\ IsFiniteSet(MappedTo(e)')
                    /\ Len(mappings'[e]) <= Cardinality(MappedTo(e)')
  BY DEF LeftInv
<1>0. mappings[e] \in Seq(States) /\ Len(mappings[e]) \in Nat
  BY DEF MappingsInv, MappingsTypeOK
<1>1. /\ IsFiniteSet(MappedTo(e)) /\ Len(mappings[e]) <= Cardinality(MappedTo(e))
      /\ Cardinality(MappedTo(e)) \in Nat
  BY FS_CardinalityType DEF LeftInv
<1>2. ASSUME NEW s \in States, Joins(s, e)
      PROVE  /\ IsFiniteSet(MappedTo(e)')
             /\ Len(mappings'[e]) <= Cardinality(MappedTo(e)')
  <2>1. /\ IsFiniteSet(MappedTo(e) \cup {s})
        /\ Cardinality(MappedTo(e) \cup {s}) = Cardinality(MappedTo(e)) + 1
    BY <1>1, <1>2, FS_AddElement DEF Joins
  <2>2. Len(mappings'[e]) = Len(mappings[e]) + 1
    BY <1>0, <1>2 DEF Joins
  <2> QED  BY <1>0, <1>1, <1>2, <2>1, <2>2 DEF Joins
<1>3. ASSUME NEW s \in States, Leaves(s, e)
      PROVE  /\ IsFiniteSet(MappedTo(e)')
             /\ Len(mappings'[e]) <= Cardinality(MappedTo(e)')
  <2>1. /\ IsFiniteSet(MappedTo(e) \ {s})
        /\ Cardinality(MappedTo(e) \ {s}) >= Cardinality(MappedTo(e)) - 1
        /\ Cardinality(MappedTo(e) \ {s}) \in Nat
    BY <1>1, FS_RemoveElement, FS_CardinalityType
  <2>2. CASE mappings[e] = <<>>
    <3>1. Len(mappings'[e]) = 0
      BY <1>3, <2>2 DEF Leaves
    <3> QED  BY <1>3, <2>1, <3>1 DEF Leaves
  <2>3. CASE mappings[e] # <<>>
    <3>1. Len(mappings'[e]) = Len(mappings[e]) - 1
      BY <1>0, <1>3, <2>3, ProbeFacts, RemoveAtFacts DEF Leaves
    <3> QED  BY <1>0, <1>1, <1>3, <2>1, <3>1 DEF Leaves
  <2> QED  BY <2>2, <2>3
<1>4. CASE MappedTo(e)' = MappedTo(e) /\ mappings'[e] = mappings[e]
  BY <1>1, <1>4
<1> QED
  BY MappedStep, <1>2, <1>3, <1>4

LEMMA LeftInit == Init => LeftInv
<1> SUFFICES ASSUME Init, NEW e \in Eps
             PROVE  IsFiniteSet(MappedTo(e)) /\ Len(mappings[e]) <= Cardinality(MappedTo(e))
  BY DEF LeftInv
<1>1. MappedTo(e) = {} /\ mappings[e] = <<>>
  BY DEF Init, MappedTo, Mapped
<1> QED
  BY <1>1, FS_EmptySet

\* array_remove takes out an entry, the right one or not, for every connection
\* that ends, and array_add puts one in for every connection that is mapped: an
\* endpoint has never more mappings than connections mapped to it.
THEOREM MappingsGo == Spec => []NoMappingsLeft
<1>1. LeftInv => NoMappingsLeft
  BY DEF LeftInv, NoMappingsLeft, MappedTo
<1>2. MappingsInv /\ LeftInv /\ [Next]_vars => LeftInv'
  BY LeftStep
<1> QED
  BY <1>1, <1>2, LeftInit, MappingsInvCorrect, PTL DEF Spec
====
