------------------------- MODULE BlockingCallProofs -------------------------
(***************************************************************************)
(* What BlockingCall guarantees for any number of callers, calls and       *)
(* frames, whether or not the core answers in time.                        *)
(***************************************************************************)
EXTENDS BlockingCall, SequenceTheorems, FiniteSetTheorems, TLAPS

Frames == Ids \cup {Notice}

-----------------------------------------------------------------------------
(* Queues. *)

\* The head of a queue stays at the head when something is appended.
LEMMA AppendQueue ==
  ASSUME NEW S, NEW q \in Seq(S), NEW x \in S
  PROVE  /\ Append(q, x) \in Seq(S)
         /\ Append(q, x) # <<>>
         /\ q # <<>> => Head(Append(q, x)) = Head(q)
         /\ Len(Append(q, x)) = Len(q) + 1
         /\ \A i \in DOMAIN Append(q, x) :
              Append(q, x)[i] = x \/ \E j \in DOMAIN q : Append(q, x)[i] = q[j]
<1>1. DOMAIN q = 1 .. Len(q) /\ Len(q) \in Nat
  BY LenProperties
<1>2. DOMAIN Append(q, x) = 1 .. Len(q) + 1
  BY AppendProperties, LenProperties
<1>3. ASSUME NEW i \in DOMAIN Append(q, x)
      PROVE  Append(q, x)[i] = x \/ \E j \in DOMAIN q : Append(q, x)[i] = q[j]
  <2>1. CASE i = Len(q) + 1
    BY <2>1, AppendProperties
  <2>2. CASE i \in 1 .. Len(q)
    BY <1>1, <2>2, AppendProperties
  <2>3. QED
    BY <1>1, <1>2, <1>3, <2>1, <2>2
<1>4. QED
  BY <1>3, AppendProperties, HeadTailAppend

\* What is left behind the head of a queue was in it.
LEMMA TailQueue ==
  ASSUME NEW S, NEW q \in Seq(S), q # <<>>
  PROVE  /\ Head(q) \in S
         /\ Tail(q) \in Seq(S)
         /\ Len(q) >= 1 /\ Len(Tail(q)) = Len(q) - 1
         /\ 1 \in DOMAIN q /\ Head(q) = q[1]
         /\ \A i \in DOMAIN Tail(q) : \E j \in DOMAIN q : Tail(q)[i] = q[j]
<1>1. DOMAIN q = 1 .. Len(q) /\ Len(q) \in Nat /\ Len(q) # 0
  BY LenProperties, EmptySeq
<1>2. DOMAIN Tail(q) = 1 .. Len(q) - 1
  BY HeadTailProperties, LenProperties
<1>3. ASSUME NEW i \in DOMAIN Tail(q)
      PROVE  \E j \in DOMAIN q : Tail(q)[i] = q[j]
  BY <1>1, <1>2, HeadTailProperties
<1>4. Head(q) = q[1]
  BY <1>1
<1>5. QED
  BY <1>1, <1>3, <1>4, HeadTailProperties

-----------------------------------------------------------------------------
(* Types. *)

\* What api_on_message does with a frame keeps the types of the flag and the
\* pipe.
LEMMA TriggerType ==
  ASSUME NEW id, NEW data \in Frames, CallTypeOK, Trigger(id, data)
  PROVE  waiting_blocking_call' \in BOOLEAN /\ pipe' \in Seq(Frames)
<1>1. pipe \in Seq(Frames) /\ waiting_blocking_call \in BOOLEAN
  BY DEF CallTypeOK, Frames
<1>2. Append(pipe, data) \in Seq(Frames)
  BY <1>1, AppendProperties
<1>3. QED
  BY <1>1, <1>2 DEF Trigger

\* Init establishes the types, and every step keeps them.
LEMMA TypeInit == Init => CallTypeOK
<1> SUFFICES ASSUME Init PROVE CallTypeOK
  OBVIOUS
<1> USE CallersAssumption DEF Init, CallTypeOK, Places
<1>1. <<>> \in Seq(Ids) /\ <<>> \in Seq(Ids \cup {Notice})
  BY EmptySeq
<1>2. QED
  BY <1>1

LEMMA TypeStep == CallTypeOK /\ [Next]_vars => CallTypeOK'
<1> SUFFICES ASSUME CallTypeOK, [Next]_vars
             PROVE  CallTypeOK'
  OBVIOUS
<1> USE CallersAssumption
<1>1. ASSUME NEW t \in Callers, Call(t)
      PROVE  CallTypeOK'
  <2>1. made' \in [Callers -> Nat] /\ made'[t] \in Nat \ {0}
    BY <1>1 DEF Call, CallTypeOK
  <2>2. toCore' \in Seq(Ids)
    BY <1>1, <2>1, AppendQueue DEF Call, CallTypeOK, Ids
  <2>3. /\ pc' \in [Callers -> Places]
        /\ pc'[Receiver] # "idle" => handling'
        /\ \A u \in Callers : pc'[u] # "idle" => made'[u] # 0
    BY <1>1, <2>1 DEF Call, Goto, MayCall, CallTypeOK, Places
  <2>4. QED
    BY <1>1, <2>1, <2>2, <2>3 DEF Call, CallTypeOK
<1>2. ASSUME NEW t \in Callers, StoreId(t)
      PROVE  CallTypeOK'
  <2>1. Current(t) \in Ids
    BY <1>2 DEF StoreId, Goto, CallTypeOK, Current, Ids
  <2>2. QED
    BY <1>2, <2>1 DEF StoreId, Goto, CallTypeOK, Places
<1>3. ASSUME NEW t \in Callers, Raise(t)
      PROVE  CallTypeOK'
  BY <1>3 DEF Raise, Goto, CallTypeOK, Places
<1>4. ASSUME NEW t \in Callers, Return(t)
      PROVE  CallTypeOK'
  <2>1. pipe # <<>> => Head(pipe) \in Ids \cup {Notice} /\ Tail(pipe) \in Seq(Ids \cup {Notice})
    BY TailQueue DEF CallTypeOK
  <2>2. got' \in [Callers -> Ids \cup {Notice, Nothing}] /\ pipe' \in Seq(Ids \cup {Notice})
    BY <1>4, <2>1 DEF Return, SyncWait, CallTypeOK
  <2>3. QED
    BY <1>4, <2>2 DEF Return, Goto, CallTypeOK, Places
<1>5. ASSUME Serve
      PROVE  CallTypeOK'
  <2>1. Head(toCore) \in Ids /\ toCore' \in Seq(Ids)
    BY <1>5, TailQueue DEF Serve, CallTypeOK
  <2>2. /\ toApp' \in Seq(Ids \cup {Notice})
        /\ handling => toApp' # <<>> /\ Head(toApp') = Notice
    <3>1. Head(toCore) \in Ids \cup {Notice} /\ toApp \in Seq(Ids \cup {Notice})
      BY <2>1 DEF CallTypeOK
    <3>2. CASE UNCHANGED toApp
      BY <3>2 DEF CallTypeOK
    <3>3. CASE toApp' = Append(toApp, Head(toCore))
      BY <3>1, <3>3, AppendQueue DEF CallTypeOK
    <3>4. QED
      BY <1>5, <3>2, <3>3 DEF Serve
  <2>3. QED
    BY <1>5, <2>1, <2>2 DEF Serve, CallTypeOK
<1>6. ASSUME Notify
      PROVE  CallTypeOK'
  <2>1. /\ toApp' \in Seq(Ids \cup {Notice})
        /\ handling => toApp' # <<>> /\ Head(toApp') = Notice
    BY <1>6, AppendQueue DEF Notify, CallTypeOK
  <2>2. QED
    BY <1>6, <2>1 DEF Notify, CallTypeOK
<1>7. ASSUME OnReply
      PROVE  CallTypeOK'
  <2>1. Head(toApp) \in Ids /\ toApp' \in Seq(Ids \cup {Notice})
    BY <1>7, TailQueue DEF OnReply, CallTypeOK
  <2>2. waiting_blocking_call' \in BOOLEAN /\ pipe' \in Seq(Ids \cup {Notice})
    BY <1>7, <2>1, TriggerType DEF OnReply, Frames
  <2>3. QED
    BY <1>7, <2>1, <2>2 DEF OnReply, CallTypeOK
<1>8. ASSUME StartHandler
      PROVE  CallTypeOK'
  BY <1>8 DEF StartHandler, CallTypeOK
<1>9. ASSUME EndHandler
      PROVE  CallTypeOK'
  <2>1. toApp' \in Seq(Ids \cup {Notice})
    BY <1>9, TailQueue DEF EndHandler, CallTypeOK
  <2>2. waiting_blocking_call' \in BOOLEAN /\ pipe' \in Seq(Ids \cup {Notice})
    BY <1>9, TriggerType DEF EndHandler, Frames
  <2>3. QED
    BY <1>9, <2>1, <2>2 DEF EndHandler, CallTypeOK
<1>10. CASE UNCHANGED vars
  BY <1>10 DEF vars, CallTypeOK
<1>11. QED
  BY <1>1, <1>2, <1>3, <1>4, <1>5, <1>6, <1>7, <1>8, <1>9, <1>10
     DEF Next, Step, Receive

\* Every variable keeps its type, and the receiver calls from handlers only.
THEOREM CallTypeCorrect == Spec => []CallTypeOK
<1>1. QED
  BY TypeInit, TypeStep, PTL DEF Spec

-----------------------------------------------------------------------------
(* The pipe does not fill up. *)

Flag == IF waiting_blocking_call THEN 1 ELSE 0

\* api_on_message takes the flag down when it posts a frame.
LEMMA TriggerBacklog ==
  ASSUME NEW id, NEW data \in Frames, CallTypeOK, Trigger(id, data)
  PROVE  Len(pipe') + Flag' <= Len(pipe) + Flag
<1>1. pipe \in Seq(Frames) /\ Len(pipe) \in Nat /\ waiting_blocking_call \in BOOLEAN
  BY LenProperties DEF CallTypeOK, Frames
<1>2. Len(Append(pipe, data)) = Len(pipe) + 1
  BY <1>1, AppendProperties
<1>3. CASE Awaited(id)
  BY <1>1, <1>2, <1>3 DEF Trigger, Flag, Awaited
<1>4. CASE ~Awaited(id)
  BY <1>1, <1>4 DEF Trigger, Flag
<1>5. QED
  BY <1>3, <1>4

\* The callers that wait are finitely many.
LEMMA WaitersFinite == IsFiniteSet(Waiters) /\ Cardinality(Waiters) \in Nat
BY CallersAssumption, FS_Subset, FS_CardinalityType DEF Waiters

LEMMA BacklogInit == Init => Backlog
BY WaitersFinite, EmptySeq DEF Init, Backlog

LEMMA BacklogStep == CallTypeOK /\ Backlog /\ [Next]_vars => Backlog'
<1> SUFFICES ASSUME CallTypeOK, Backlog, [Next]_vars
             PROVE  Backlog'
  OBVIOUS
<1>1. /\ Len(pipe) \in Nat /\ Flag \in {0, 1}
      /\ Cardinality(Waiters) \in Nat
      /\ Len(pipe) + Flag <= Cardinality(Waiters) + 1
  BY LenProperties, WaitersFinite DEF CallTypeOK, Backlog, Flag
<1>2. SUFFICES Len(pipe') + Flag' <= Cardinality(Waiters') + 1
  BY DEF Backlog, Flag
<1>3. ASSUME NEW t \in Callers, Call(t) \/ StoreId(t)
      PROVE  Len(pipe') + Flag' <= Cardinality(Waiters') + 1
  <2>1. Waiters' = Waiters
    BY <1>3 DEF Call, StoreId, Goto, Waiters, CallTypeOK
  <2>2. pipe' = pipe /\ Flag' = Flag
    BY <1>3 DEF Call, StoreId, Flag
  <2>3. QED
    BY <1>1, <2>1, <2>2
<1>4. ASSUME NEW t \in Callers, Raise(t)
      PROVE  Len(pipe') + Flag' <= Cardinality(Waiters') + 1
  <2>1. Waiters' = Waiters \cup {t} /\ t \notin Waiters
    BY <1>4 DEF Raise, Goto, Waiters, CallTypeOK
  <2>2. Cardinality(Waiters') = Cardinality(Waiters) + 1
    BY <2>1, WaitersFinite, FS_AddElement
  <2>3. pipe' = pipe /\ Flag' = 1
    BY <1>4 DEF Raise, Flag
  <2>4. QED
    BY <1>1, <2>2, <2>3
<1>5. ASSUME NEW t \in Callers, Return(t)
      PROVE  Len(pipe') + Flag' <= Cardinality(Waiters') + 1
  <2>1. Waiters' = Waiters \ {t} /\ t \in Waiters
    BY <1>5 DEF Return, Goto, Waiters, CallTypeOK
  <2>2. Cardinality(Waiters') = Cardinality(Waiters) - 1 /\ Cardinality(Waiters') \in Nat
    <3>1. Cardinality(Waiters') = Cardinality(Waiters) - 1
      BY <2>1, WaitersFinite, FS_RemoveElement
    <3>2. IsFiniteSet(Waiters') /\ Cardinality(Waiters') \in Nat
      BY <2>1, WaitersFinite, FS_RemoveElement, FS_CardinalityType
    <3>3. QED
      BY <3>1, <3>2
  <2>3. Flag' = Flag
    BY <1>5 DEF Return, Flag
  <2>4. CASE pipe = <<>>
    <3>1. Len(pipe') = 0
      BY <1>5, <2>4 DEF Return, SyncWait
    <3>2. QED
      BY <1>1, <2>2, <2>3, <3>1
  <2>5. CASE pipe # <<>>
    <3>1. Len(pipe') = Len(pipe) - 1
      BY <1>5, <2>5, TailQueue DEF Return, SyncWait, CallTypeOK
    <3>2. QED
      BY <1>1, <2>2, <2>3, <3>1
  <2>6. QED
    BY <2>4, <2>5
<1>6. ASSUME Serve \/ Notify \/ StartHandler
      PROVE  Len(pipe') + Flag' <= Cardinality(Waiters') + 1
  <2>1. pipe' = pipe /\ Flag' = Flag /\ Waiters' = Waiters
    BY <1>6 DEF Serve, Notify, StartHandler, Flag, Waiters
  <2>2. QED
    BY <1>1, <2>1
<1>7. ASSUME OnReply
      PROVE  Len(pipe') + Flag' <= Cardinality(Waiters') + 1
  <2>1. Head(toApp) \in Frames
    BY <1>7, TailQueue DEF OnReply, CallTypeOK, Frames
  <2>2. Len(pipe') + Flag' <= Len(pipe) + Flag
    BY <1>7, <2>1, TriggerBacklog DEF OnReply
  <2>3. Waiters' = Waiters
    BY <1>7 DEF OnReply, Waiters
  <2>4. Len(pipe') \in Nat /\ Flag' \in {0, 1}
    BY TypeStep, LenProperties DEF CallTypeOK, Flag
  <2>5. QED
    BY <1>1, <2>2, <2>3, <2>4
<1>8. ASSUME EndHandler
      PROVE  Len(pipe') + Flag' <= Cardinality(Waiters') + 1
  <2>1. Len(pipe') + Flag' <= Len(pipe) + Flag
    BY <1>8, TriggerBacklog DEF EndHandler, Frames
  <2>2. Waiters' = Waiters
    BY <1>8 DEF EndHandler, Waiters
  <2>3. Len(pipe') \in Nat /\ Flag' \in {0, 1}
    BY TypeStep, LenProperties DEF CallTypeOK, Flag
  <2>4. QED
    BY <1>1, <2>1, <2>2, <2>3
<1>9. CASE UNCHANGED vars
  <2>1. pipe' = pipe /\ Flag' = Flag /\ Waiters' = Waiters
    BY <1>9 DEF vars, Flag, Waiters
  <2>2. QED
    BY <1>1, <2>1
<1>10. QED
  BY <1>3, <1>4, <1>5, <1>6, <1>7, <1>8, <1>9 DEF Next, Step, Receive

\* However late the replies, the pipe never holds more than one frame, a reply
\* yet to be posted included, for which no caller waits.
THEOREM BacklogBounded == Spec => []Backlog
<1>1. Init => CallTypeOK /\ Backlog
  BY TypeInit, BacklogInit
<1>2. CallTypeOK /\ Backlog /\ [Next]_vars => (CallTypeOK /\ Backlog)'
  BY TypeStep, BacklogStep
<1>3. QED
  BY <1>1, <1>2, PTL DEF Spec

-----------------------------------------------------------------------------
(* A call from a handler gets no reply of its own. *)

\* What has been sent stays sent.
LEMMA StaysSent ==
  ASSUME NEW x, Sent(x), CallTypeOK,
         made' = made \/ \E t \in Callers : made' = [made EXCEPT ![t] = @ + 1]
  PROVE  x \in Ids => x[2] <= made'[x[1]]
<1> SUFFICES ASSUME x \in Ids PROVE x[2] <= made'[x[1]]
  OBVIOUS
<1>1. x[1] \in Callers /\ x[2] \in Nat /\ x[2] <= made[x[1]] /\ made \in [Callers -> Nat]
  BY DEF Sent, Ids, CallTypeOK
<1>2. QED
  BY <1>1

\* A queue whose elements all come from queues of sent commands.
LEMMA SentQueue ==
  ASSUME NEW q, NEW r, \A i \in DOMAIN q : Sent(q[i]),
         \A i \in DOMAIN r : \E j \in DOMAIN q : r[i] = q[j]
  PROVE  \A i \in DOMAIN r : Sent(r[i])
<1> TAKE i \in DOMAIN r
<1>1. PICK j \in DOMAIN q : r[i] = q[j]
  OBVIOUS
<1>2. Sent(q[j])
  OBVIOUS
<1>3. QED
  BY <1>1, <1>2

LEMMA NoticeSent == Sent(Notice)
BY IdsAssumption DEF Sent, Ids

LEMMA CallInvInit == Init => CallInv
BY CallersAssumption DEF Init, CallInv

\* Steps that neither send, nor end a call, nor post: the pipe, the commands
\* and the receiver's call stay as they are, or the receiver is not in a call.
LEMMA CallInvQueues ==
  ASSUME CallTypeOK, CallInv, made' = made,
         \A i \in DOMAIN toCore' : Sent(toCore'[i]),
         \A i \in DOMAIN toApp' : Sent(toApp'[i]),
         \A i \in DOMAIN pipe' : Sent(pipe'[i]),
         pc'[Receiver] # "idle" =>
           /\ pc[Receiver] # "idle"
           /\ \A i \in DOMAIN pipe' : \E j \in DOMAIN pipe : pipe'[i] = pipe[j]
  PROVE  CallInv'
BY DEF CallInv, Current, Sent

LEMMA CallInvStep == CallTypeOK /\ CallInv /\ [Next]_vars => CallInv'
<1> SUFFICES ASSUME CallTypeOK, CallInv, [Next]_vars
             PROVE  CallInv'
  OBVIOUS
<1>1. /\ \A i \in DOMAIN toCore : Sent(toCore[i])
      /\ \A i \in DOMAIN toApp : Sent(toApp[i])
      /\ \A i \in DOMAIN pipe : Sent(pipe[i])
  BY DEF CallInv
<1>2. /\ toCore \in Seq(Ids) /\ toApp \in Seq(Frames) /\ pipe \in Seq(Frames)
      /\ made \in [Callers -> Nat] /\ pc \in [Callers -> Places] /\ Receiver \in Callers
  BY CallersAssumption DEF CallTypeOK, Frames
<1>3. ASSUME NEW t \in Callers, Call(t)
      PROVE  CallInv'
  <2>1. made' = [made EXCEPT ![t] = @ + 1] /\ pipe' = pipe /\ toApp' = toApp
    BY <1>3 DEF Call
  <2> DEFINE Later(x) == x \in Ids => x[2] <= made'[x[1]]
  <2>2. /\ \A i \in DOMAIN toApp : Later(toApp[i])
        /\ \A i \in DOMAIN pipe : Later(pipe[i])
        /\ \A i \in DOMAIN toCore : Later(toCore[i])
    BY <1>1, <2>1, StaysSent
  <2>3. <<t, made'[t]>> \in Ids /\ Later(<<t, made'[t]>>)
    BY <1>2, <2>1 DEF Ids
  <2>4. \A i \in DOMAIN toCore' : Later(toCore'[i])
    <3>1. toCore' = Append(toCore, <<t, made'[t]>>)
      BY <1>3 DEF Call
    <3>2. \A i \in DOMAIN toCore' :
            toCore'[i] = <<t, made'[t]>> \/ \E j \in DOMAIN toCore : toCore'[i] = toCore[j]
      BY <1>2, <2>3, <3>1, AppendQueue
    <3> HIDE DEF Later
    <3>3. QED
      BY <2>2, <2>3, <3>2
  <2>5. ASSUME pc'[Receiver] # "idle", NEW i \in DOMAIN pipe'
        PROVE  pipe'[i] # Current(Receiver)'
    <3>1. CASE t = Receiver
      <4>1. Sent(pipe[i]) /\ Current(Receiver)' \in Ids
        BY <1>1, <2>1, <2>3, <2>5, <3>1 DEF Current
      <4>2. Current(Receiver)'[1] = Receiver /\ Current(Receiver)'[2] = made[Receiver] + 1
        BY <1>2, <2>1, <3>1 DEF Current
      <4>3. pipe[i] = Current(Receiver)' => made[Receiver] + 1 <= made[Receiver]
        BY <4>1, <4>2 DEF Sent
      <4>4. QED
        BY <1>2, <2>1, <4>3
    <3>2. CASE t # Receiver
      <4>1. pc[Receiver] # "idle" /\ Current(Receiver)' = Current(Receiver)
        BY <1>2, <1>3, <2>1, <2>5, <3>2 DEF Call, Goto, Current
      <4>2. QED
        BY <2>1, <2>5, <4>1 DEF CallInv
    <3>3. QED
      BY <3>1, <3>2
  <2>6. QED
    BY <2>1, <2>2, <2>4, <2>5 DEF CallInv, Sent
<1>4. ASSUME NEW t \in Callers, StoreId(t) \/ Raise(t)
      PROVE  CallInv'
  <2>1. /\ made' = made /\ toCore' = toCore /\ toApp' = toApp /\ pipe' = pipe
        /\ pc'[Receiver] # "idle" => pc[Receiver] # "idle"
    BY <1>2, <1>4 DEF StoreId, Raise, Goto
  <2>2. QED
    BY <1>1, <2>1, CallInvQueues
<1>5. ASSUME NEW t \in Callers, Return(t)
      PROVE  CallInv'
  <2>1. /\ made' = made /\ toCore' = toCore /\ toApp' = toApp
        /\ pc'[Receiver] # "idle" => pc[Receiver] # "idle"
    BY <1>2, <1>5 DEF Return, Goto
  <2>2. \A i \in DOMAIN pipe' : \E j \in DOMAIN pipe : pipe'[i] = pipe[j]
    <3>1. CASE pipe = <<>>
      BY <1>5, <3>1 DEF Return, SyncWait
    <3>2. CASE pipe # <<>>
      <4>1. pipe' = Tail(pipe)
        BY <1>5, <3>2 DEF Return, SyncWait
      <4>2. QED
        BY <1>2, <3>2, <4>1, TailQueue
    <3>3. QED
      BY <3>1, <3>2
  <2>3. \A i \in DOMAIN pipe' : Sent(pipe'[i])
    BY <1>1, <2>2, SentQueue
  <2>4. QED
    BY <1>1, <2>1, <2>2, <2>3, CallInvQueues
<1>6. ASSUME Serve
      PROVE  CallInv'
  <2>1. made' = made /\ pc' = pc /\ pipe' = pipe
    BY <1>6 DEF Serve
  <2>2. /\ \A i \in DOMAIN toCore' : \E j \in DOMAIN toCore : toCore'[i] = toCore[j]
        /\ Head(toCore) \in Frames /\ Sent(Head(toCore))
    BY <1>1, <1>2, <1>6, TailQueue DEF Serve, Frames
  <2>3. \A i \in DOMAIN toCore' : Sent(toCore'[i])
    BY <1>1, <2>2, SentQueue
  <2>4. \A i \in DOMAIN toApp' : Sent(toApp'[i])
    <3>1. CASE toApp' = toApp
      BY <1>1, <3>1
    <3>2. CASE toApp' = Append(toApp, Head(toCore))
      <4>1. \A i \in DOMAIN toApp' :
              toApp'[i] = Head(toCore) \/ \E j \in DOMAIN toApp : toApp'[i] = toApp[j]
        BY <1>2, <2>2, <3>2, AppendQueue
      <4>2. QED
        BY <1>1, <2>2, <4>1
    <3>3. QED
      BY <1>6, <3>1, <3>2 DEF Serve
  <2>5. QED
    BY <1>1, <2>1, <2>3, <2>4, CallInvQueues
<1>7. ASSUME Notify
      PROVE  CallInv'
  <2>1. made' = made /\ pc' = pc /\ pipe' = pipe /\ toCore' = toCore
    BY <1>7 DEF Notify
  <2>2. \A i \in DOMAIN toApp' :
          toApp'[i] = Notice \/ \E j \in DOMAIN toApp : toApp'[i] = toApp[j]
    BY <1>2, <1>7, AppendQueue DEF Notify, Frames
  <2>3. \A i \in DOMAIN toApp' : Sent(toApp'[i])
    BY <1>1, <2>2, NoticeSent
  <2>4. QED
    BY <1>1, <2>1, <2>3, CallInvQueues
<1>8. ASSUME NEW id, NEW data \in Frames, Sent(data), Trigger(id, data),
             pc[Receiver] = "idle", toApp # <<>>, toApp' = Tail(toApp),
             UNCHANGED <<made, pc, toCore>>
      PROVE  CallInv'
  <2>1. \A i \in DOMAIN toApp' : Sent(toApp'[i])
    BY <1>1, <1>2, <1>8, TailQueue, SentQueue
  <2>2. \A i \in DOMAIN pipe' : pipe'[i] = data \/ \E j \in DOMAIN pipe : pipe'[i] = pipe[j]
    <3>1. CASE pipe' = pipe
      BY <3>1
    <3>2. CASE pipe' = Append(pipe, data)
      BY <1>2, <1>8, <3>2, AppendQueue
    <3>3. QED
      BY <1>8, <3>1, <3>2 DEF Trigger
  <2>3. \A i \in DOMAIN pipe' : Sent(pipe'[i])
    BY <1>1, <1>8, <2>2
  <2>4. QED
    BY <1>1, <1>8, <2>1, <2>3, CallInvQueues
<1>9. ASSUME OnReply
      PROVE  CallInv'
  <2>1. Head(toApp) \in Frames /\ Sent(Head(toApp))
    BY <1>1, <1>2, <1>9, TailQueue DEF OnReply
  <2>2. pc[Receiver] = "idle"
    BY <1>9 DEF OnReply, CallTypeOK
  <2>3. QED
    BY <1>8, <1>9, <2>1, <2>2 DEF OnReply
<1>10. ASSUME StartHandler
       PROVE  CallInv'
  BY <1>1, <1>10, CallInvQueues DEF StartHandler
<1>11. ASSUME EndHandler
       PROVE  CallInv'
  <2>1. pc[Receiver] = "idle" /\ toApp # <<>>
    BY <1>11 DEF EndHandler, CallTypeOK
  <2>2. QED
    BY <1>8, <1>11, <2>1, NoticeSent DEF EndHandler, Frames
<1>12. CASE UNCHANGED vars
  BY <1>1, <1>12, CallInvQueues DEF vars
<1>13. QED
  BY <1>3, <1>4, <1>5, <1>6, <1>7, <1>9, <1>10, <1>11, <1>12 DEF Next, Step, Receive

\* At the moment a handler's call returns, what it gets is not its own reply.
LEMMA UnansweredStep ==
  CallTypeOK /\ CallInv /\ HandlerUnanswered /\ [Next]_vars => HandlerUnanswered'
<1> SUFFICES ASSUME CallTypeOK, CallInv, HandlerUnanswered, [Next]_vars,
                    pc'[Receiver] = "idle"
             PROVE  got'[Receiver] # Current(Receiver)'
  BY DEF HandlerUnanswered
<1>1. Receiver \in Callers /\ pc \in [Callers -> Places] /\ made \in [Callers -> Nat]
  BY CallersAssumption DEF CallTypeOK
<1>2. CASE Return(Receiver)
  <2>1. pc[Receiver] # "idle" /\ Current(Receiver)' = Current(Receiver) /\ Current(Receiver) \in Ids
    BY <1>1, <1>2 DEF Return, Goto, Current, Ids, CallTypeOK
  <2>2. CASE pipe = <<>>
    <3>1. got'[Receiver] = Nothing
      BY <1>1, <1>2, <2>2 DEF Return, SyncWait, CallTypeOK
    <3>2. QED
      BY <2>1, <3>1, IdsAssumption DEF Ids
  <2>3. CASE pipe # <<>>
    <3>1. got'[Receiver] = Head(pipe)
      BY <1>1, <1>2, <2>3 DEF Return, SyncWait, CallTypeOK
    <3>2. 1 \in DOMAIN pipe /\ Head(pipe) = pipe[1]
      BY <2>3, TailQueue DEF CallTypeOK
    <3>3. QED
      BY <2>1, <3>1, <3>2 DEF CallInv
  <2>4. QED
    BY <2>2, <2>3
<1>3. CASE ~Return(Receiver)
  <2>1. ASSUME NEW t \in Callers, t # Receiver, Step(t)
        PROVE  pc'[Receiver] = pc[Receiver] /\ got'[Receiver] = got[Receiver]
               /\ made'[Receiver] = made[Receiver]
    <3>1. pc'[Receiver] = pc[Receiver]
      BY <1>1, <2>1 DEF Step, Call, StoreId, Raise, Return, Goto
    <3>2. made'[Receiver] = made[Receiver]
      BY <1>1, <2>1 DEF Step, Call, StoreId, Raise, Return
    <3>3. got'[Receiver] = got[Receiver]
      BY <1>1, <2>1 DEF Step, Call, StoreId, Raise, Return, SyncWait, CallTypeOK
    <3>4. QED
      BY <3>1, <3>2, <3>3
  <2>2. ~Step(Receiver)
    BY <1>1, <1>3 DEF Step, Call, StoreId, Raise, Goto
  <2>3. ASSUME Serve \/ Notify \/ Receive \/ UNCHANGED vars
        PROVE  pc' = pc /\ got' = got /\ made' = made
    BY <2>3 DEF Serve, Notify, Receive, OnReply, StartHandler, EndHandler, vars
  <2>4. pc'[Receiver] = pc[Receiver] /\ got'[Receiver] = got[Receiver]
        /\ made'[Receiver] = made[Receiver]
    BY <2>1, <2>2, <2>3 DEF Next
  <2>5. QED
    BY <2>4 DEF HandlerUnanswered, Current
<1>4. QED
  BY <1>2, <1>3

\* An endpoint's handler that calls the core is never given the reply to that
\* call, however fast the core answers and whoever else calls.
THEOREM HandlersUnanswered == Spec => []HandlerUnanswered
<1>1. Init => CallTypeOK /\ CallInv /\ HandlerUnanswered
  <2>1. Init => HandlerUnanswered
    <3>1. ASSUME Init PROVE got[Receiver] # Current(Receiver)
      BY <3>1, CallersAssumption, IdsAssumption DEF Init, Current, Ids
    <3>2. QED
      BY <3>1 DEF HandlerUnanswered
  <2>2. QED
    BY <2>1, TypeInit, CallInvInit
<1>2. CallTypeOK /\ CallInv /\ HandlerUnanswered /\ [Next]_vars
        => (CallTypeOK /\ CallInv /\ HandlerUnanswered)'
  BY TypeStep, CallInvStep, UnansweredStep
<1>3. QED
  BY <1>1, <1>2, PTL DEF Spec

-----------------------------------------------------------------------------
(* Late replies shift the results of a single caller by one call at most.   *)

OnlyCaller(t) == \A u \in Callers \ {t} : made[u] = 0

LastReply(t) == {Notice, <<t, made[t]>>}
ReplyBefore(t) == {Notice, <<t, made[t] - 1>>}

\* What may be in the pipe at a place: the frames of the call before only come
\* while its id is noted, when at most one fits, so they are first.
MayHold(t, i) ==
  CASE pc[t] = "idle" -> LastReply(t)
    [] pc[t] = "sent" -> ReplyBefore(t)
    [] pc[t] = "stored" -> LastReply(t) \cup ReplyBefore(t)
    [] OTHER -> IF i = 1 THEN LastReply(t) \cup ReplyBefore(t) ELSE LastReply(t)

OneBehind(t) ==
  /\ blocking_msg_id \in {NoId} \cup (IF pc[t] = "sent" THEN ReplyBefore(t) ELSE LastReply(t))
  /\ \A i \in DOMAIN pipe : pipe[i] \in MayHold(t, i)
  /\ pc[t] = "idle" => got[t] \in {Nothing} \cup LastReply(t) \cup ReplyBefore(t)

OneBehindInv == \A t \in Callers : OnlyCaller(t) => OneBehind(t)

\* Who has been the only caller so far, and where the others are.
LEMMA OnlyCallerBefore ==
  ASSUME CallTypeOK, [Next]_vars, NEW t \in Callers, OnlyCaller(t)'
  PROVE  OnlyCaller(t) /\ \A u \in Callers \ {t} : pc[u] = "idle" /\ ~Step(u)
<1>1. made \in [Callers -> Nat]
  BY DEF CallTypeOK
<1>2. ASSUME NEW u \in Callers \ {t} PROVE made[u] = 0 /\ ~Call(u)
  <2>1. made' = made \/ \E c \in Callers : Call(c)
    BY DEF Next, Step, StoreId, Raise, Return, Serve, Notify, Receive, OnReply, StartHandler,
           EndHandler, vars
  <2>2. CASE made' = made
    <3>1. made[u] = 0
      BY <2>2 DEF OnlyCaller
    <3>2. ~Call(u)
      BY <1>1, <2>2, <3>1 DEF Call
    <3>3. QED
      BY <3>1, <3>2
  <2>3. CASE \E c \in Callers : Call(c)
    <3>1. PICK c \in Callers : Call(c)
      BY <2>3
    <3>2. made' = [made EXCEPT ![c] = @ + 1] /\ made[c] \in Nat
      BY <1>1, <3>1 DEF Call
    <3>3. c = t
      BY <1>1, <3>2 DEF OnlyCaller
    <3>4. made[u] = 0 /\ made'[u] = 0
      BY <1>1, <3>2, <3>3 DEF OnlyCaller
    <3>5. ~Call(u)
      BY <1>1, <3>4 DEF Call
    <3>6. QED
      BY <3>4, <3>5
  <2>4. QED
    BY <2>1, <2>2, <2>3
<1>3. \A u \in Callers \ {t} : pc[u] = "idle"
  BY <1>2 DEF CallTypeOK
<1>4. QED
  BY <1>2, <1>3 DEF OnlyCaller, Step, StoreId, Raise, Return, Goto

\* A frame that is posted is the reply noted or one for an endpoint, and either
\* may be where it comes to.
LEMMA PostKeeps ==
  ASSUME CallTypeOK, NEW t \in Callers, OneBehind(t), NEW id, NEW data \in Frames,
         data = Notice \/ data = id, Trigger(id, data),
         UNCHANGED <<pc, made, blocking_msg_id, got>>
  PROVE  OneBehind(t)'
<1>1. pipe \in Seq(Frames) /\ \A u \in Callers : made[u] \in Nat
  BY DEF CallTypeOK, Frames
<1>2. \A i : MayHold(t, i)' = MayHold(t, i)
  BY DEF MayHold, LastReply, ReplyBefore
<1>3. ASSUME NEW i \in DOMAIN pipe' PROVE pipe'[i] \in MayHold(t, i)
  <2>1. CASE ~Awaited(id)
    BY <1>3, <2>1 DEF Trigger, OneBehind
  <2>2. CASE Awaited(id)
    <3>1. pipe' = Append(pipe, data) /\ id = blocking_msg_id
      BY <2>2 DEF Trigger, Awaited
    <3>2. CASE i \in DOMAIN pipe
      BY <1>1, <3>1, <3>2 DEF OneBehind
    <3>3. CASE i \notin DOMAIN pipe
      <4>1. pipe'[i] = data
        BY <1>1, <1>3, <3>1, <3>3
      <4>2. data \in (IF pc[t] = "sent" THEN ReplyBefore(t) ELSE LastReply(t))
        BY <3>1, IdsAssumption DEF OneBehind, Frames, Ids, LastReply, ReplyBefore
      <4>3. QED
        BY <4>1, <4>2 DEF MayHold
    <3>4. QED
      BY <3>2, <3>3
  <2>3. QED
    BY <2>1, <2>2
<1>4. QED
  BY <1>2, <1>3 DEF OneBehind, LastReply, ReplyBefore

LEMMA OneBehindStep ==
  ASSUME CallTypeOK, Backlog, OneBehindInv, [Next]_vars, NEW t \in Callers, OnlyCaller(t)'
  PROVE  OneBehind(t)'
<1>1. OneBehind(t) /\ \A u \in Callers \ {t} : pc[u] = "idle" /\ ~Step(u)
  BY OnlyCallerBefore DEF OneBehindInv
<1>2. /\ pc \in [Callers -> Places] /\ made \in [Callers -> Nat] /\ made[t] \in Nat
      /\ pipe \in Seq(Frames) /\ got \in [Callers -> Ids \cup {Notice, Nothing}]
  BY DEF CallTypeOK, Frames
<1>3. pc[t] # "waiting" => Len(pipe) <= 1
  <2>1. ASSUME pc[t] # "waiting" PROVE Cardinality(Waiters) = 0
    <3>1. Waiters = {}
      BY <1>1, <2>1 DEF Waiters
    <3>2. QED
      BY <3>1, FS_EmptySet
  <2>2. QED
    BY <1>2, <2>1, LenProperties DEF Backlog
<1>4. CASE Call(t)
  <2>1. /\ pc[t] = "idle" /\ pc'[t] = "sent" /\ made'[t] = made[t] + 1
        /\ UNCHANGED <<pipe, blocking_msg_id>>
    BY <1>2, <1>4 DEF Call, Goto
  <2>2. ReplyBefore(t)' = LastReply(t)
    <3>1. made'[t] - 1 = made[t]
      BY <1>2, <2>1
    <3>2. QED
      BY <3>1 DEF ReplyBefore, LastReply
  <2>3. QED
    BY <1>1, <2>1, <2>2 DEF OneBehind, MayHold
<1>5. CASE StoreId(t)
  <2>1. /\ pc[t] = "sent" /\ pc'[t] = "stored" /\ blocking_msg_id' = <<t, made[t]>>
        /\ UNCHANGED <<pipe, made>>
    BY <1>2, <1>5 DEF StoreId, Goto, Current
  <2>2. QED
    BY <1>1, <2>1 DEF OneBehind, MayHold, ReplyBefore, LastReply
<1>6. CASE Raise(t)
  <2>1. /\ pc[t] = "stored" /\ pc'[t] = "waiting"
        /\ UNCHANGED <<pipe, made, blocking_msg_id>>
    BY <1>2, <1>6 DEF Raise, Goto
  <2>2. \A i \in DOMAIN pipe : i = 1
    BY <1>2, <1>3, <2>1
  <2>3. QED
    BY <1>1, <2>1, <2>2 DEF OneBehind, MayHold, ReplyBefore, LastReply
<1>7. CASE Return(t)
  <2>1. /\ pc[t] = "waiting" /\ pc'[t] = "idle"
        /\ UNCHANGED <<made, blocking_msg_id>>
    BY <1>2, <1>7 DEF Return, Goto
  <2>2. CASE pipe = <<>>
    <3>1. got'[t] = Nothing /\ pipe' = pipe
      BY <1>2, <1>7, <2>2 DEF Return, SyncWait
    <3>2. QED
      BY <1>1, <2>1, <2>2, <3>1 DEF OneBehind, ReplyBefore, LastReply
  <2>3. CASE pipe # <<>>
    <3>1. got'[t] = Head(pipe) /\ pipe' = Tail(pipe)
      BY <1>2, <1>7, <2>3 DEF Return, SyncWait
    <3>2. Head(pipe) \in LastReply(t) \cup ReplyBefore(t)
      BY <1>1, <1>2, <2>1, <2>3 DEF OneBehind, MayHold
    <3>3. \A i \in DOMAIN Tail(pipe) : Tail(pipe)[i] \in LastReply(t)
      <4>1. ASSUME NEW i \in DOMAIN Tail(pipe) PROVE Tail(pipe)[i] \in LastReply(t)
        <5>1. i + 1 \in DOMAIN pipe /\ i + 1 # 1 /\ Tail(pipe)[i] = pipe[i + 1]
          BY <1>2, <2>3
        <5>2. QED
          BY <1>1, <2>1, <5>1 DEF OneBehind, MayHold
      <4>2. QED
        BY <4>1
    <3>4. QED
      BY <1>1, <2>1, <3>1, <3>2, <3>3 DEF OneBehind, MayHold, ReplyBefore, LastReply
  <2>4. QED
    BY <2>2, <2>3
<1>8. CASE Serve \/ Notify \/ StartHandler \/ UNCHANGED vars
  <2>1. UNCHANGED <<pc, made, blocking_msg_id, pipe, got>>
    BY <1>8 DEF Serve, Notify, StartHandler, vars
  <2>2. QED
    BY <1>1, <2>1 DEF OneBehind, MayHold, ReplyBefore, LastReply
<1>9. CASE OnReply
  <2>1. Head(toApp) \in Frames
    BY <1>9, TailQueue DEF OnReply, CallTypeOK, Frames
  <2>2. QED
    BY <1>1, <1>9, <2>1, PostKeeps DEF OnReply
<1>10. CASE EndHandler
  BY <1>1, <1>10, PostKeeps DEF EndHandler, Frames
<1>11. QED
  BY <1>1, <1>4, <1>5, <1>6, <1>7, <1>8, <1>9, <1>10 DEF Next, Step, Receive

\* blocking_msg_id and the flag outlive a call that has given up, so that the
\* next call may return its reply; but no call returns one that is older.
THEOREM BehindByOne == Spec => []AtMostOneBehind
<1>1. Init => OneBehindInv
  <2>1. ASSUME Init, NEW t \in Callers PROVE OneBehind(t)
    BY <2>1 DEF Init, OneBehind
  <2>2. QED
    BY <2>1 DEF OneBehindInv
<1>2. CallTypeOK /\ Backlog /\ OneBehindInv /\ [Next]_vars => OneBehindInv'
  BY OneBehindStep DEF OneBehindInv
<1>3. CallTypeOK /\ OneBehindInv => AtMostOneBehind
  <2>1. ASSUME CallTypeOK, OneBehindInv, NEW t \in Callers, OnlyCaller(t), pc[t] = "idle", got[t] \in Ids
        PROVE  got[t][1] = t /\ made[t] - got[t][2] <= 1
    <3>1. made[t] \in Nat
      BY <2>1 DEF CallTypeOK
    <3>2. got[t] = <<t, made[t]>> \/ got[t] = <<t, made[t] - 1>>
      BY <2>1, IdsAssumption DEF OneBehindInv, OneBehind, LastReply, ReplyBefore, Ids
    <3>3. QED
      BY <3>1, <3>2
  <2>2. QED
    BY <2>1 DEF AtMostOneBehind, OnlyCaller
<1>4. QED
  BY <1>1, <1>2, <1>3, TypeInit, TypeStep, BacklogInit, BacklogStep, PTL DEF Spec
=============================================================================
