--------------------------- MODULE TrafficProofs ----------------------------
(***************************************************************************)
(* Theorems about Requests, for any applications, threads and number of    *)
(* requests; about Streams, for any number of messages, descriptors and    *)
(* openings of a stream; and about Discovery, for any number of RDCs and   *)
(* lookups.                                                                *)
(***************************************************************************)
EXTENDS Requests, Streams, Discovery, SequenceTheorems, FiniteSetTheorems, TLAPS

-----------------------------------------------------------------------------
(* Requests: a request takes another's answer only if the other is of       *)
(* another process, or the counter of ids was used by two threads at once.  *)

Made == [by : Requesters, id : Nat, overlapped : BOOLEAN, cut : BOOLEAN]

ThreadTypes ==
  /\ counter \in [Requesters -> Nat]
  /\ rqPc \in [Threads -> {"idle", "generating", "generated"}]
  /\ rqId \in [Threads -> Nat]
  /\ overlaps \in [Threads -> BOOLEAN]

WireTypes ==
  /\ toResponder \in [Requesters -> Seq(Nat)]
  /\ toRequester \in [Requesters -> Seq(Nat)]
  /\ \A p \in Requesters :
       /\ \A i \in DOMAIN toResponder[p] : toResponder[p][i] \in Request
       /\ \A i \in DOMAIN toRequester[p] : toRequester[p][i] \in Request

-----------------------------------------------------------------------------
(* Ids.  Of a process, those that nobody else was numbered with are "sole". *)

SoleThread(t) == rqPc[t] = "generated" /\ ~overlaps[t]

\* Every sole id is smaller than what the next thread will read, and than what
\* the threads that are at it have read: a lost update never goes back to it.
SolePassed ==
  /\ \A t \in Threads : SoleThread(t) =>
       /\ rqId[t] < counter[ProcessOf[t]]
       /\ \A u \in Threads : rqPc[u] = "generating" /\ ProcessOf[u] = ProcessOf[t] => rqId[t] < rqId[u]
  /\ \A q \in Request : ~requests[q].overlapped =>
       /\ requests[q].id < counter[requests[q].by]
       /\ \A u \in Threads : rqPc[u] = "generating" /\ ProcessOf[u] = requests[q].by =>
            requests[q].id < rqId[u]

\* A thread that was alone is so still, and the counter is what it has read.
AloneSofar ==
  \A t \in Threads : rqPc[t] = "generating" /\ ~overlaps[t] =>
    /\ counter[ProcessOf[t]] = rqId[t]
    /\ \A u \in Threads \ {t} : ProcessOf[u] = ProcessOf[t] => rqPc[u] # "generating"

SoleDiffer ==
  /\ \A t, u \in Threads :
       t # u /\ ProcessOf[t] = ProcessOf[u] /\ SoleThread(t) /\ SoleThread(u) => rqId[t] # rqId[u]
  /\ \A t \in Threads, q \in Request :
       ProcessOf[t] = requests[q].by /\ SoleThread(t) /\ ~requests[q].overlapped =>
         rqId[t] # requests[q].id
  /\ SameIdNeedsOverlap

IdInv == SolePassed /\ AloneSofar /\ SoleDiffer

AnswersById ==
  /\ answers \in Seq(SUBSET Nat) /\ Len(answers) = Len(requests)
  /\ \A q \in Request : \A r \in answers[q] : r \in Request /\ requests[q].id = requests[r].id

RequestsInv ==
  requests \in Seq(Made) /\ ThreadTypes /\ WireTypes /\ IdInv /\ AnswersById

LEMMA RequestsInitial == RqInit => RequestsInv
<1> SUFFICES ASSUME RqInit PROVE RequestsInv
  OBVIOUS
<1>1. requests \in Seq(Made) /\ Request = {}
  BY DEF RqInit, Request
<1>2. ThreadTypes /\ WireTypes
  BY <1>1 DEF RqInit, ThreadTypes, WireTypes
<1>3. IdInv
  BY <1>1 DEF RqInit, IdInv, SolePassed, AloneSofar, SoleDiffer, SoleThread, SameIdNeedsOverlap
<1>4. AnswersById
  BY <1>1 DEF RqInit, AnswersById, Request
<1>5. QED
  BY <1>1, <1>2, <1>3, <1>4 DEF RequestsInv

LEMMA RequestTypes ==
  ASSUME requests \in Seq(Made)
  PROVE  \A q \in Request : /\ requests[q].by \in Requesters /\ requests[q].id \in Nat
                            /\ requests[q].overlapped \in BOOLEAN
<1>1. \A q \in Request : requests[q] \in Made
  BY DEF Request
<1>2. QED
  BY <1>1 DEF Made

-----------------------------------------------------------------------------
(* The numbering of a request. *)

LEMMA GenerateKeeps ==
  ASSUME RequestsInv, NEW t \in Threads, GenerateId(t)
  PROVE  RequestsInv'
<1> USE RequestsAssumption DEF RequestsInv
<1> DEFINE p == ProcessOf[t]
<1>1. /\ rqPc[t] = "idle" /\ rqPc' = [rqPc EXCEPT ![t] = "generating"]
      /\ rqId' = [rqId EXCEPT ![t] = counter[p]]
      /\ overlaps' = [u \in Threads |-> IF u = t THEN Fellows(t) # {}
                                        ELSE overlaps[u] \/ u \in Fellows(t)]
      /\ UNCHANGED <<counter, requests, toResponder, toRequester, linked, answers>>
  BY DEF GenerateId
<1>2. Request' = Request
  BY <1>1 DEF Request
<1>3. ThreadTypes'
  BY <1>1 DEF ThreadTypes
<1>4. WireTypes' /\ AnswersById'
  BY <1>1, <1>2 DEF WireTypes, AnswersById
<1>5. /\ rqPc'[t] = "generating" /\ rqId'[t] = counter[p]
      /\ \A u \in Threads \ {t} : rqPc'[u] = rqPc[u] /\ rqId'[u] = rqId[u]
                                  /\ (~overlaps'[u] => ~overlaps[u])
  BY <1>1 DEF ThreadTypes
<1>6. \A u \in Threads : SoleThread(u)' => u # t /\ SoleThread(u)
  BY <1>5 DEF SoleThread
<1>7. SolePassed'
  BY <1>1, <1>2, <1>5, <1>6 DEF IdInv, SolePassed
<1>8. ASSUME NEW u \in Threads, rqPc'[u] = "generating", ~overlaps'[u]
      PROVE  /\ counter[ProcessOf[u]] = rqId'[u]
             /\ \A w \in Threads \ {u} : ProcessOf[w] = ProcessOf[u] => rqPc'[w] # "generating"
  <2>1. CASE u = t
    <3>1. Fellows(t) = {}
      BY <1>1, <1>8, <2>1
    <3>2. QED
      BY <1>5, <2>1, <3>1 DEF Fellows
  <2>2. CASE u # t
    <3>1. u \notin Fellows(t)
      BY <1>1, <1>8, <2>2
    <3>2. ProcessOf[u] # p
      BY <1>5, <1>8, <2>2, <3>1 DEF Fellows
    <3>3. QED
      BY <1>5, <1>8, <2>2, <3>2 DEF IdInv, AloneSofar
  <2>3. QED
    BY <2>1, <2>2
<1>9. AloneSofar'
  BY <1>1, <1>8 DEF AloneSofar
<1>10. SoleDiffer'
  BY <1>1, <1>2, <1>5, <1>6 DEF IdInv, SoleDiffer, SameIdNeedsOverlap
<1>11. QED
  BY <1>1, <1>3, <1>4, <1>7, <1>9, <1>10 DEF IdInv

LEMMA CountUpKeeps ==
  ASSUME RequestsInv, NEW t \in Threads, CountUp(t)
  PROVE  RequestsInv'
<1> USE RequestsAssumption DEF RequestsInv
<1> DEFINE p == ProcessOf[t]
<1>1. /\ rqPc[t] = "generating" /\ rqPc' = [rqPc EXCEPT ![t] = "generated"]
      /\ UNCHANGED <<rqId, overlaps, requests, toResponder, toRequester, linked, answers>>
  BY DEF CountUp
<1>2. PICK read \in {counter[p], rqId[t]} : counter' = [counter EXCEPT ![p] = read + 1]
  BY DEF CountUp
<1>3. Request' = Request
  BY <1>1 DEF Request
<1>4. read \in Nat /\ p \in Requesters
  BY DEF ThreadTypes
<1>5. ThreadTypes'
  BY <1>1, <1>2, <1>4 DEF ThreadTypes
<1>6. WireTypes' /\ AnswersById'
  BY <1>1, <1>3 DEF WireTypes, AnswersById
<1>7. /\ counter'[p] = read + 1 /\ \A r \in Requesters \ {p} : counter'[r] = counter[r]
      /\ rqPc'[t] = "generated" /\ \A u \in Threads \ {t} : rqPc'[u] = rqPc[u]
  BY <1>1, <1>2, <1>4 DEF ThreadTypes
<1>8. \A u \in Threads \ {t} : SoleThread(u)' = SoleThread(u)
  BY <1>1, <1>7 DEF SoleThread
<1>9. ~overlaps[t] => /\ read = rqId[t]
                      /\ \A u \in Threads \ {t} : ProcessOf[u] = p => rqPc[u] # "generating"
  BY <1>1 DEF IdInv, AloneSofar
\* What was sole is smaller than what t has read and what it may write.
<1>10. /\ \A u \in Threads \ {t} : SoleThread(u) /\ ProcessOf[u] = p => rqId[u] < rqId[t]
                                                                       /\ rqId[u] < counter[p]
       /\ \A q \in Request : ~requests[q].overlapped /\ requests[q].by = p =>
            requests[q].id < rqId[t] /\ requests[q].id < counter[p]
  BY <1>1 DEF IdInv, SolePassed
<1>11. /\ \A u \in Threads \ {t} : SoleThread(u) /\ ProcessOf[u] = p => rqId[u] < counter'[p]
       /\ \A q \in Request : ~requests[q].overlapped /\ requests[q].by = p => requests[q].id < counter'[p]
  <2>1. /\ \A u \in Threads : rqId[u] \in Nat
        /\ \A q \in Request : requests[q].id \in Nat
        /\ counter[p] \in Nat /\ rqId[t] \in Nat
    BY <1>4, RequestTypes DEF ThreadTypes
  <2>2. counter'[p] = counter[p] + 1 \/ counter'[p] = rqId[t] + 1
    BY <1>7
  <2>3. QED
    BY <1>10, <2>1, <2>2
<1>12. SolePassed'
  <2>1. ASSUME NEW u \in Threads, SoleThread(u)'
        PROVE  /\ rqId[u] < counter'[ProcessOf[u]]
               /\ \A w \in Threads : rqPc'[w] = "generating" /\ ProcessOf[w] = ProcessOf[u] =>
                    rqId[u] < rqId[w]
    <3>1. CASE u = t
      <4>1. ~overlaps[t]
        BY <1>1, <2>1, <3>1 DEF SoleThread
      <4>2. rqId[t] < counter'[p]
        BY <1>7, <1>9, <4>1 DEF ThreadTypes
      <4>3. QED
        BY <1>7, <1>9, <3>1, <4>1, <4>2
    <3>2. CASE u # t
      <4>1. SoleThread(u) /\ ProcessOf[u] \in Requesters
        BY <1>8, <2>1, <3>2
      <4>2. rqId[u] < counter'[ProcessOf[u]]
        BY <1>7, <1>11, <3>2, <4>1 DEF IdInv, SolePassed
      <4>3. QED
        BY <1>7, <3>2, <4>1, <4>2 DEF IdInv, SolePassed
    <3>3. QED
      BY <3>1, <3>2
  <2>2. ASSUME NEW q \in Request, ~requests[q].overlapped
        PROVE  /\ requests[q].id < counter'[requests[q].by]
               /\ \A u \in Threads : rqPc'[u] = "generating" /\ ProcessOf[u] = requests[q].by =>
                    requests[q].id < rqId[u]
    <3>1. requests[q].by \in Requesters
      BY RequestTypes
    <3>2. QED
      BY <1>7, <1>11, <2>2, <3>1 DEF IdInv, SolePassed
  <2>3. QED
    BY <1>1, <1>3, <2>1, <2>2 DEF SolePassed
<1>13. AloneSofar'
  <2>1. ASSUME NEW u \in Threads, rqPc'[u] = "generating", ~overlaps[u]
        PROVE  /\ counter'[ProcessOf[u]] = rqId[u]
               /\ \A w \in Threads \ {u} : ProcessOf[w] = ProcessOf[u] => rqPc'[w] # "generating"
    <3>1. u # t /\ rqPc[u] = "generating"
      BY <1>7, <2>1
    <3>2. ProcessOf[u] # p
      BY <1>1, <2>1, <3>1 DEF IdInv, AloneSofar
    <3>3. QED
      BY <1>7, <2>1, <3>1, <3>2 DEF IdInv, AloneSofar
  <2>2. QED
    BY <1>1, <2>1 DEF AloneSofar
<1>14. SoleDiffer'
  <2>1. \A u, w \in Threads :
          u # w /\ ProcessOf[u] = ProcessOf[w] /\ SoleThread(u)' /\ SoleThread(w)' => rqId[u] # rqId[w]
    <3>1. \A u \in Threads \ {t} : SoleThread(u)' /\ ProcessOf[u] = p => rqId[u] # rqId[t]
      BY <1>8, <1>10 DEF ThreadTypes
    <3>2. QED
      BY <1>8, <3>1 DEF IdInv, SoleDiffer
  <2>2. \A u \in Threads, q \in Request :
          ProcessOf[u] = requests[q].by /\ SoleThread(u)' /\ ~requests[q].overlapped =>
            rqId[u] # requests[q].id
    <3>1. \A q \in Request : ~requests[q].overlapped /\ requests[q].by = p => rqId[t] # requests[q].id
      BY <1>10, RequestTypes DEF ThreadTypes
    <3>2. QED
      BY <1>8, <3>1 DEF IdInv, SoleDiffer
  <2>3. QED
    BY <1>1, <1>3, <2>1, <2>2 DEF IdInv, SoleDiffer, SameIdNeedsOverlap
<1>15. QED
  BY <1>1, <1>5, <1>6, <1>12, <1>13, <1>14 DEF IdInv

-----------------------------------------------------------------------------
(* Requests and responses on their way. *)

\* What makes ids and answers does not change.
LEMMA NumbersKept ==
  ASSUME IdInv, UNCHANGED <<counter, rqPc, rqId, overlaps>>, Request' = Request,
         \A q \in Request : /\ requests'[q].by = requests[q].by
                            /\ requests'[q].id = requests[q].id
                            /\ requests'[q].overlapped = requests[q].overlapped
  PROVE  IdInv'
<1>1. \A t \in Threads : SoleThread(t)' = SoleThread(t)
  BY DEF SoleThread
<1>2. SolePassed'
  BY <1>1 DEF IdInv, SolePassed
<1>3. AloneSofar'
  BY DEF IdInv, AloneSofar
<1>4. SoleDiffer'
  BY <1>1 DEF IdInv, SoleDiffer, SameIdNeedsOverlap
<1>5. QED
  BY <1>2, <1>3, <1>4 DEF IdInv

LEMMA SendRequestKeeps ==
  ASSUME RequestsInv, NEW t \in Threads, EndpointSendRequest(t)
  PROVE  RequestsInv'
<1> USE RequestsAssumption DEF RequestsInv
<1> DEFINE p == ProcessOf[t]
           n == Len(requests)
           new == [by |-> p, id |-> rqId[t], overlapped |-> overlaps[t], cut |-> p \notin linked]
<1>1. /\ rqPc[t] = "generated" /\ rqPc' = [rqPc EXCEPT ![t] = "idle"]
      /\ requests' = Append(requests, new)
      /\ answers' = Append(answers, {})
      /\ toResponder' = IF p \in linked
                        THEN [toResponder EXCEPT ![p] = Append(@, Len(requests'))] ELSE toResponder
      /\ UNCHANGED <<counter, rqId, overlaps, toRequester, linked>>
  BY DEF EndpointSendRequest
<1>2. new \in Made /\ p \in Requesters
  BY DEF ThreadTypes, Made
<1>3. requests' \in Seq(Made) /\ Len(requests') = n + 1 /\ n \in Nat
  BY <1>1, <1>2
<1>4. /\ Request = 1..n /\ Request' = 1..(n + 1) /\ requests'[n + 1] = new
      /\ \A q \in Request : requests'[q] = requests[q]
  BY <1>1, <1>2, <1>3 DEF Request
<1>5. ThreadTypes'
  BY <1>1 DEF ThreadTypes
<1>6. WireTypes'
  <2>1. toRequester' = toRequester /\ Request \subseteq Request'
    BY <1>1, <1>3, <1>4
  <2>2. \A r \in Requesters : toResponder'[r] = toResponder[r]
                              \/ (r = p /\ toResponder'[r] = Append(toResponder[p], n + 1))
    BY <1>1, <1>2, <1>3 DEF WireTypes
  <2>3. /\ Append(toResponder[p], n + 1) \in Seq(Nat)
        /\ \A i \in DOMAIN Append(toResponder[p], n + 1) : Append(toResponder[p], n + 1)[i] \in Request'
    BY <1>2, <1>3, <1>4, <2>1 DEF WireTypes
  <2>4. toResponder' \in [Requesters -> Seq(Nat)]
    BY <1>1, <1>2, <1>3, <2>3 DEF WireTypes
  <2>5. \A r \in Requesters : \A i \in DOMAIN toResponder'[r] : toResponder'[r][i] \in Request'
    BY <2>1, <2>2, <2>3 DEF WireTypes
  <2>6. \A r \in Requesters : \A i \in DOMAIN toRequester'[r] : toRequester'[r][i] \in Request'
    BY <2>1 DEF WireTypes
  <2>7. QED
    BY <2>1, <2>4, <2>5, <2>6 DEF WireTypes
<1>7. /\ rqPc'[t] = "idle" /\ \A u \in Threads \ {t} : rqPc'[u] = rqPc[u]
      /\ \A u \in Threads : SoleThread(u)' => u # t /\ SoleThread(u)
  BY <1>1 DEF SoleThread, ThreadTypes
<1>8. ~new.overlapped => SoleThread(t)
  BY <1>1 DEF SoleThread
<1>9. \A u \in Threads : rqPc'[u] = "generating" => rqPc[u] = "generating"
  BY <1>7
<1>10. SolePassed'
  <2>1. \A u \in Threads : SoleThread(u)' =>
          /\ rqId[u] < counter[ProcessOf[u]]
          /\ \A w \in Threads : rqPc'[w] = "generating" /\ ProcessOf[w] = ProcessOf[u] => rqId[u] < rqId[w]
    BY <1>7, <1>9 DEF IdInv, SolePassed
  <2>2. \A q \in Request' : ~requests'[q].overlapped =>
          /\ requests'[q].id < counter[requests'[q].by]
          /\ \A w \in Threads : rqPc'[w] = "generating" /\ ProcessOf[w] = requests'[q].by =>
               requests'[q].id < rqId[w]
    <3>1. CASE ~new.overlapped
      BY <1>3, <1>4, <1>8, <1>9, <3>1 DEF IdInv, SolePassed
    <3>2. CASE new.overlapped
      BY <1>3, <1>4, <1>9, <3>2 DEF IdInv, SolePassed
    <3>3. QED
      BY <3>1, <3>2
  <2>3. QED
    BY <1>1, <2>1, <2>2 DEF SolePassed
<1>11. AloneSofar'
  BY <1>1, <1>7, <1>9 DEF IdInv, AloneSofar
<1>12. SoleDiffer'
  <2>1. \A u, w \in Threads :
          u # w /\ ProcessOf[u] = ProcessOf[w] /\ SoleThread(u)' /\ SoleThread(w)' => rqId[u] # rqId[w]
    BY <1>7 DEF IdInv, SoleDiffer
  <2>2. ASSUME NEW u \in Threads, NEW q \in Request', ProcessOf[u] = requests'[q].by,
               SoleThread(u)', ~requests'[q].overlapped
        PROVE  rqId[u] # requests'[q].id
    <3>1. CASE q \in Request
      BY <1>4, <1>7, <2>2, <3>1 DEF IdInv, SoleDiffer
    <3>2. CASE q = n + 1
      BY <1>4, <1>7, <1>8, <2>2, <3>2 DEF IdInv, SoleDiffer
    <3>3. QED
      BY <1>3, <1>4, <3>1, <3>2
  <2>3. ASSUME NEW q \in Request', NEW r \in Request', q # r,
               requests'[q].by = requests'[r].by, requests'[q].id = requests'[r].id
        PROVE  requests'[q].overlapped \/ requests'[r].overlapped
    <3>1. CASE q \in Request /\ r \in Request
      BY <1>4, <2>3, <3>1 DEF IdInv, SoleDiffer, SameIdNeedsOverlap
    <3>2. CASE q = n + 1 /\ r \in Request
      BY <1>4, <1>8, <2>3, <3>2 DEF IdInv, SoleDiffer
    <3>3. CASE q \in Request /\ r = n + 1
      BY <1>4, <1>8, <2>3, <3>3 DEF IdInv, SoleDiffer
    <3>4. QED
      BY <1>3, <1>4, <2>3, <3>1, <3>2, <3>3
  <2>4. QED
    BY <1>1, <2>1, <2>2, <2>3 DEF SoleDiffer, SameIdNeedsOverlap
<1>13. AnswersById'
  <2>1. answers \in Seq(SUBSET Nat) /\ Len(answers) = n
    BY DEF AnswersById
  <2>2. /\ answers' \in Seq(SUBSET Nat) /\ Len(answers') = n + 1
        /\ answers'[n + 1] = {} /\ \A q \in 1..n : answers'[q] = answers[q]
    <3>1. {} \in SUBSET Nat
      OBVIOUS
    <3>2. QED
      BY <1>1, <1>3, <2>1, <3>1
  <2>3. ASSUME NEW q \in Request', NEW r \in answers'[q]
        PROVE  r \in Request' /\ requests'[q].id = requests'[r].id
    <3>1. q \in Request /\ r \in answers[q]
      BY <1>3, <1>4, <2>2, <2>3
    <3>2. r \in Request /\ requests[q].id = requests[r].id
      BY <3>1 DEF AnswersById
    <3>3. QED
      BY <1>3, <1>4, <3>1, <3>2
  <2>4. QED
    BY <1>3, <2>2, <2>3 DEF AnswersById
<1>14. QED
  BY <1>3, <1>5, <1>6, <1>10, <1>11, <1>12, <1>13 DEF IdInv

LEMMA OnResponseKeeps ==
  ASSUME RequestsInv, NEW p \in Requesters, OnResponse(p)
  PROVE  RequestsInv'
<1> USE DEF RequestsInv
<1> DEFINE r == Head(toRequester[p])
<1>1. /\ toRequester[p] # <<>>
      /\ answers' = [q \in Request |-> IF q \in Take(p, r) THEN {r} ELSE answers[q]]
      /\ toRequester' = [toRequester EXCEPT ![p] = Tail(@)]
      /\ UNCHANGED <<counter, rqPc, rqId, overlaps, requests, toResponder, linked>>
  BY DEF OnResponse
<1>2. Request' = Request /\ Request = 1..Len(requests) /\ Len(requests) \in Nat
  BY <1>1 DEF Request
<1>3. ThreadTypes'
  BY <1>1 DEF ThreadTypes
<1>4. toRequester[p] \in Seq(Nat) /\ \A i \in DOMAIN toRequester[p] : toRequester[p][i] \in Request
  BY DEF WireTypes
<1>5. r \in Request
  BY <1>1, <1>4
<1>6. WireTypes'
  <2>1. /\ Tail(toRequester[p]) \in Seq(Nat)
        /\ \A i \in DOMAIN Tail(toRequester[p]) : Tail(toRequester[p])[i] \in Request
    BY <1>1, <1>4
  <2>2. \A d \in Requesters : toRequester'[d] = IF d = p THEN Tail(toRequester[p]) ELSE toRequester[d]
    BY <1>1 DEF WireTypes
  <2>3. toRequester' \in [Requesters -> Seq(Nat)]
    BY <1>1, <2>1 DEF WireTypes
  <2>4. \A d \in Requesters : \A i \in DOMAIN toRequester'[d] : toRequester'[d][i] \in Request
    BY <2>1, <2>2 DEF WireTypes
  <2>5. QED
    BY <1>1, <1>2, <2>3, <2>4 DEF WireTypes
<1>7. IdInv'
  BY <1>1, <1>2, NumbersKept
<1>8. AnswersById'
  <2>1. answers \in Seq(SUBSET Nat) /\ Len(answers) = Len(requests)
    BY DEF AnswersById
  <2>2. answers' \in Seq(SUBSET Nat) /\ Len(answers') = Len(requests)
    <3>1. answers' \in [1..Len(requests) -> SUBSET Nat]
      BY <1>1, <1>2, <1>5, <2>1
    <3>2. QED
      BY <1>2, <3>1
  <2>3. ASSUME NEW q \in Request, NEW s \in answers'[q]
        PROVE  s \in Request /\ requests[q].id = requests[s].id
    <3>1. CASE q \in Take(p, r)
      <4>1. s = r
        BY <1>1, <2>3, <3>1
      <4>2. QED
        BY <1>5, <3>1, <4>1 DEF Take
    <3>2. CASE q \notin Take(p, r)
      BY <1>1, <2>3, <3>2 DEF AnswersById
    <3>3. QED
      BY <3>1, <3>2
  <2>4. QED
    BY <1>1, <1>2, <2>2, <2>3 DEF AnswersById
<1>9. QED
  BY <1>1, <1>3, <1>6, <1>7, <1>8

LEMMA SendResponseKeeps ==
  ASSUME RequestsInv, NEW p \in Requesters, EndpointSendResponse(p)
  PROVE  RequestsInv'
<1> USE DEF RequestsInv
<1> DEFINE r == Head(toResponder[p])
<1>1. /\ toResponder[p] # <<>>
      /\ toResponder' = [toResponder EXCEPT ![p] = Tail(@)]
      /\ toRequester' = [q \in Requesters |->
           IF q \in linked THEN Append(toRequester[q], r) ELSE toRequester[q]]
      /\ UNCHANGED <<counter, rqPc, rqId, overlaps, requests, linked, answers>>
  BY DEF EndpointSendResponse
<1>2. Request' = Request
  BY <1>1 DEF Request
<1>3. ThreadTypes' /\ AnswersById'
  BY <1>1, <1>2 DEF ThreadTypes, AnswersById
<1>4. \A d \in Requesters :
        /\ toResponder[d] \in Seq(Nat) /\ toRequester[d] \in Seq(Nat)
        /\ \A i \in DOMAIN toResponder[d] : toResponder[d][i] \in Request
        /\ \A i \in DOMAIN toRequester[d] : toRequester[d][i] \in Request
  BY DEF WireTypes
<1>5. r \in Request /\ r \in Nat
  BY <1>1, <1>4
<1>6. ASSUME NEW d \in Requesters
      PROVE  /\ toResponder'[d] \in Seq(Nat) /\ toRequester'[d] \in Seq(Nat)
             /\ \A i \in DOMAIN toResponder'[d] : toResponder'[d][i] \in Request
             /\ \A i \in DOMAIN toRequester'[d] : toRequester'[d][i] \in Request
  <2>1. /\ Tail(toResponder[p]) \in Seq(Nat)
        /\ \A i \in DOMAIN Tail(toResponder[p]) : Tail(toResponder[p])[i] \in Request
    BY <1>1, <1>4
  <2>2. /\ Append(toRequester[d], r) \in Seq(Nat)
        /\ \A i \in DOMAIN Append(toRequester[d], r) : Append(toRequester[d], r)[i] \in Request
    BY <1>4, <1>5
  <2>3. toResponder'[d] = IF d = p THEN Tail(toResponder[p]) ELSE toResponder[d]
    BY <1>1 DEF WireTypes
  <2>4. toRequester'[d] = IF d \in linked THEN Append(toRequester[d], r) ELSE toRequester[d]
    BY <1>1
  <2>5. toResponder'[d] \in Seq(Nat) /\ \A i \in DOMAIN toResponder'[d] : toResponder'[d][i] \in Request
    BY <1>4, <2>1, <2>3
  <2>6. toRequester'[d] \in Seq(Nat) /\ \A i \in DOMAIN toRequester'[d] : toRequester'[d][i] \in Request
    BY <1>4, <2>2, <2>4
  <2>7. QED
    BY <2>5, <2>6
<1>7. WireTypes'
  <2>1. toResponder' \in [Requesters -> Seq(Nat)] /\ toRequester' \in [Requesters -> Seq(Nat)]
    BY <1>1, <1>6 DEF WireTypes
  <2>2. QED
    BY <1>2, <1>6, <2>1 DEF WireTypes
<1>8. IdInv'
  BY <1>1, <1>2, NumbersKept
<1>9. QED
  BY <1>1, <1>3, <1>7, <1>8

LEMMA CutKeeps ==
  ASSUME RequestsInv, NEW p \in Requesters, Disconnect(p)
  PROVE  RequestsInv'
<1> USE DEF RequestsInv
<1>1. /\ toResponder' = [toResponder EXCEPT ![p] = <<>>]
      /\ toRequester' = [toRequester EXCEPT ![p] = <<>>]
      /\ requests' = [q \in Request |-> IF requests[q].by = p THEN [requests[q] EXCEPT !.cut = TRUE]
                                        ELSE requests[q]]
      /\ UNCHANGED <<counter, rqPc, rqId, overlaps, answers>>
  BY DEF Disconnect
<1>2. /\ Request = 1..Len(requests) /\ Len(requests) \in Nat
      /\ \A q \in Request : requests[q] \in Made
  BY DEF Request
<1>3. /\ Request' = Request
      /\ \A q \in Request : /\ requests'[q] \in Made
                            /\ requests'[q].by = requests[q].by
                            /\ requests'[q].id = requests[q].id
                            /\ requests'[q].overlapped = requests[q].overlapped
  BY <1>1, <1>2 DEF Request, Made
<1>4. requests' \in Seq(Made) /\ Len(requests') = Len(requests)
  <2>1. requests' \in [1..Len(requests) -> Made]
    BY <1>1, <1>2, <1>3
  <2>2. QED
    BY <1>2, <2>1
<1>5. ThreadTypes'
  BY <1>1 DEF ThreadTypes
<1>6. AnswersById'
  BY <1>1, <1>3, <1>4 DEF AnswersById
<1>7. WireTypes'
  BY <1>1, <1>3 DEF WireTypes
<1>8. IdInv'
  BY <1>1, <1>3, NumbersKept
<1>9. QED
  BY <1>4, <1>5, <1>6, <1>7, <1>8

LEMMA RequestsStep == RequestsInv /\ [RqNext]_rqVars => RequestsInv'
<1> SUFFICES ASSUME RequestsInv, [RqNext]_rqVars PROVE RequestsInv'
  OBVIOUS
<1>1. ASSUME UNCHANGED rqVars \/ \E p \in Requesters : MapAgain(p)
      PROVE  RequestsInv'
  <2>1. UNCHANGED <<counter, rqPc, rqId, overlaps, requests, toResponder, toRequester, answers>>
    BY <1>1 DEF rqVars, MapAgain
  <2>2. Request' = Request
    BY <2>1 DEF Request
  <2>3. IdInv'
    BY <2>1, <2>2, NumbersKept DEF RequestsInv
  <2>4. QED
    BY <2>1, <2>2, <2>3 DEF RequestsInv, ThreadTypes, WireTypes, AnswersById
<1>2. QED
  BY <1>1, GenerateKeeps, CountUpKeeps, SendRequestKeeps, OnResponseKeeps, SendResponseKeeps,
     CutKeeps DEF RqNext

\* message_generate_id without a lock: two requests of one process have the
\* same id only if a thread was numbered while another was, however late it
\* writes back what it has read.
THEOREM IdsDiffer == RqSpec => []SameIdNeedsOverlap
<1>1. RequestsInv => SameIdNeedsOverlap
  BY DEF RequestsInv, IdInv, SoleDiffer
<1>2. QED
  BY <1>1, RequestsInitial, RequestsStep, PTL DEF RqSpec

\* A response that ep_send_json gave to everybody who is mapped, and
\* api_on_message looks up by its id, is taken for another request's only if
\* that is of another process or the numbering overlapped.
THEOREM WrongAnswerExplained == RqSpec => []WrongAnswerHasCause
<1>1. RequestsInv => WrongAnswerHasCause
  BY DEF RequestsInv, IdInv, SoleDiffer, AnswersById, WrongAnswerHasCause, SameIdNeedsOverlap
<1>2. QED
  BY <1>1, RequestsInitial, RequestsStep, PTL DEF RqSpec

-----------------------------------------------------------------------------
(* Requests: how far the counters of ids go, and what is on its way.        *)

BusyThreads == {t \in Threads : rqPc[t] # "idle"}
NumberedThreads == {t \in Threads : rqPc[t] = "generated"}

\* How many ids were taken: a counter may fall behind, but never runs ahead.
IdsUsed == Len(requests) + Cardinality(NumberedThreads)

CountersBounded ==
  /\ IsFiniteSet(BusyThreads) /\ Len(requests) + Cardinality(BusyThreads) <= MaxRequests
  /\ \A p \in Requesters : 1 <= counter[p] /\ counter[p] <= IdsUsed + 1
  /\ \A t \in Threads : rqPc[t] = "generating" => 1 <= rqId[t] /\ rqId[t] <= IdsUsed + 1

OwnWires ==
  \A p \in Requesters :
    /\ \A i \in DOMAIN toResponder[p] : requests[toResponder[p][i]].by = p
    /\ p \notin linked => toResponder[p] = <<>> /\ toRequester[p] = <<>>

RqShape == RequestsInv /\ CountersBounded /\ OwnWires

LEMMA NumberedFinite ==
  ASSUME IsFiniteSet(BusyThreads)
  PROVE  /\ Cardinality(BusyThreads) \in Nat /\ Cardinality(NumberedThreads) \in Nat
         /\ IsFiniteSet(NumberedThreads) /\ Cardinality(NumberedThreads) <= Cardinality(BusyThreads)
<1>1. NumberedThreads \in SUBSET BusyThreads
  BY DEF NumberedThreads, BusyThreads
<1>2. QED
  BY <1>1, FS_Subset, FS_CardinalityType

\* A step that leaves the threads and the number of requests alone.
LEMMA CountersKept ==
  ASSUME CountersBounded, UNCHANGED <<counter, rqPc, rqId>>, Len(requests') = Len(requests)
  PROVE  CountersBounded'
<1>1. BusyThreads' = BusyThreads /\ NumberedThreads' = NumberedThreads
  BY DEF BusyThreads, NumberedThreads
<1>2. IdsUsed' = IdsUsed
  BY <1>1 DEF IdsUsed
<1>3. QED
  BY <1>1, <1>2 DEF CountersBounded

LEMMA GenerateCounters ==
  ASSUME RequestsInv, CountersBounded, NEW t \in Threads, GenerateId(t)
  PROVE  CountersBounded'
<1>1. /\ rqPc[t] = "idle" /\ rqPc' = [rqPc EXCEPT ![t] = "generating"]
      /\ Len(requests) + Cardinality(BusyThreads) < MaxRequests
      /\ rqId' = [rqId EXCEPT ![t] = counter[ProcessOf[t]]]
      /\ requests' = requests /\ counter' = counter
  BY DEF GenerateId, BusyThreads
<1>2. /\ BusyThreads' = BusyThreads \cup {t} /\ t \notin BusyThreads /\ NumberedThreads' = NumberedThreads
      /\ ProcessOf[t] \in Requesters
  BY <1>1, RequestsAssumption DEF BusyThreads, NumberedThreads, RequestsInv, ThreadTypes
<1>3. IsFiniteSet(BusyThreads') /\ Cardinality(BusyThreads') = Cardinality(BusyThreads) + 1
  BY <1>2, FS_AddElement DEF CountersBounded
<1>4. Len(requests) \in Nat /\ Cardinality(BusyThreads) \in Nat /\ MaxRequests \in Nat
  BY NumberedFinite, RequestsAssumption DEF CountersBounded, RequestsInv
<1>5. IdsUsed' = IdsUsed
  BY <1>1, <1>2 DEF IdsUsed
<1>6. \A u \in Threads : rqPc'[u] = "generating" =>
        \/ u = t /\ rqId'[u] = counter[ProcessOf[t]]
        \/ rqPc[u] = "generating" /\ rqId'[u] = rqId[u]
  BY <1>1 DEF RequestsInv, ThreadTypes
<1>7. \A u \in Threads : rqPc'[u] = "generating" => 1 <= rqId'[u] /\ rqId'[u] <= IdsUsed + 1
  BY <1>2, <1>6 DEF CountersBounded
<1>8. Len(requests) + Cardinality(BusyThreads') <= MaxRequests
  BY <1>1, <1>3, <1>4
<1>9. QED
  BY <1>1, <1>3, <1>5, <1>7, <1>8 DEF CountersBounded

LEMMA CountUpCounters ==
  ASSUME RequestsInv, CountersBounded, NEW t \in Threads, CountUp(t)
  PROVE  CountersBounded'
<1> DEFINE p == ProcessOf[t]
<1>1. PICK read \in {counter[p], rqId[t]} : counter' = [counter EXCEPT ![p] = read + 1]
  BY DEF CountUp
<1>2. /\ rqPc[t] = "generating" /\ rqPc' = [rqPc EXCEPT ![t] = "generated"]
      /\ rqId' = rqId /\ requests' = requests
  BY DEF CountUp
<1>3. /\ BusyThreads' = BusyThreads /\ NumberedThreads' = NumberedThreads \cup {t} /\ t \notin NumberedThreads
      /\ p \in Requesters
  BY <1>2, RequestsAssumption DEF BusyThreads, NumberedThreads, RequestsInv, ThreadTypes
<1>4. Cardinality(NumberedThreads') = Cardinality(NumberedThreads) + 1
  BY <1>3, NumberedFinite, FS_AddElement DEF CountersBounded
<1>5. Len(requests) \in Nat /\ Cardinality(NumberedThreads) \in Nat
  BY NumberedFinite DEF CountersBounded, RequestsInv
<1>6. IdsUsed \in Nat /\ IdsUsed' = IdsUsed + 1
  BY <1>2, <1>4, <1>5 DEF IdsUsed
<1>7. read \in Nat /\ 1 <= read /\ read <= IdsUsed + 1
  BY <1>2, <1>3 DEF CountersBounded, RequestsInv, ThreadTypes
<1>8. \A d \in Requesters : counter'[d] \in {counter[d], read + 1}
  BY <1>1, <1>3 DEF RequestsInv, ThreadTypes
<1>9. \A d \in Requesters : /\ counter[d] \in Nat
                            /\ 1 <= counter[d] /\ counter[d] <= IdsUsed + 1
  BY DEF CountersBounded, RequestsInv, ThreadTypes
<1>10. \A d \in Requesters : 1 <= counter'[d] /\ counter'[d] <= IdsUsed' + 1
  BY <1>6, <1>7, <1>8, <1>9
<1>11. \A u \in Threads : rqPc'[u] = "generating" =>
         /\ rqPc[u] = "generating" /\ rqId'[u] = rqId[u] /\ rqId[u] \in Nat
  BY <1>2 DEF RequestsInv, ThreadTypes
<1>12. \A u \in Threads : rqPc'[u] = "generating" => 1 <= rqId'[u] /\ rqId'[u] <= IdsUsed' + 1
  BY <1>6, <1>11 DEF CountersBounded
<1>13. QED
  BY <1>2, <1>3, <1>10, <1>12 DEF CountersBounded

LEMMA SendCounters ==
  ASSUME RequestsInv, CountersBounded, NEW t \in Threads, EndpointSendRequest(t)
  PROVE  CountersBounded'
<1>1. /\ rqPc[t] = "generated" /\ rqPc' = [rqPc EXCEPT ![t] = "idle"]
      /\ rqId' = rqId /\ counter' = counter
  BY DEF EndpointSendRequest
<1>2. Len(requests) \in Nat /\ Len(requests') = Len(requests) + 1
  BY DEF EndpointSendRequest, RequestsInv
<1>3. /\ BusyThreads' = BusyThreads \ {t} /\ t \in BusyThreads
      /\ NumberedThreads' = NumberedThreads \ {t} /\ t \in NumberedThreads
  BY <1>1 DEF BusyThreads, NumberedThreads, RequestsInv, ThreadTypes
<1>4. /\ IsFiniteSet(BusyThreads') /\ Cardinality(BusyThreads') = Cardinality(BusyThreads) - 1
      /\ Cardinality(NumberedThreads') = Cardinality(NumberedThreads) - 1
  BY <1>3, NumberedFinite, FS_RemoveElement DEF CountersBounded
<1>5. Cardinality(BusyThreads) \in Nat /\ Cardinality(NumberedThreads) \in Nat
  BY NumberedFinite DEF CountersBounded
<1>6. IdsUsed' = IdsUsed
  BY <1>2, <1>4, <1>5 DEF IdsUsed
<1>7. Len(requests') + Cardinality(BusyThreads') <= MaxRequests
  BY <1>2, <1>4, <1>5 DEF CountersBounded
<1>8. \A u \in Threads : rqPc'[u] = "generating" => rqPc[u] = "generating"
  BY <1>1 DEF RequestsInv, ThreadTypes
<1>9. QED
  BY <1>1, <1>4, <1>6, <1>7, <1>8 DEF CountersBounded

-----------------------------------------------------------------------------
(* The wires. *)

LEMMA WiresKept ==
  ASSUME OwnWires, UNCHANGED <<toResponder, toRequester>>, linked \subseteq linked',
         \A q \in Request : requests'[q].by = requests[q].by, WireTypes
  PROVE  OwnWires'
BY DEF OwnWires, WireTypes

LEMMA SendWires ==
  ASSUME RequestsInv, OwnWires, NEW t \in Threads, EndpointSendRequest(t)
  PROVE  OwnWires'
<1> DEFINE p == ProcessOf[t]
           n == Len(requests)
<1>1. /\ toResponder' = IF p \in linked
                        THEN [toResponder EXCEPT ![p] = Append(@, Len(requests'))] ELSE toResponder
      /\ UNCHANGED <<toRequester, linked>>
  BY DEF EndpointSendRequest
<1>2. PICK new : new.by = p /\ requests' = Append(requests, new)
  BY DEF EndpointSendRequest
<1>3. /\ n \in Nat /\ Len(requests') = n + 1 /\ requests'[n + 1] = new
      /\ Request = 1..n /\ \A q \in Request : requests'[q] = requests[q]
  BY <1>2 DEF RequestsInv, Request
<1>4. p \in Requesters
  BY RequestsAssumption
<1>5. ASSUME NEW d \in Requesters
      PROVE  /\ \A i \in DOMAIN toResponder'[d] : requests'[toResponder'[d][i]].by = d
             /\ d \notin linked => toResponder'[d] = <<>> /\ toRequester'[d] = <<>>
  <2>1. /\ toResponder[d] \in Seq(Nat)
        /\ \A i \in DOMAIN toResponder[d] : toResponder[d][i] \in Request
    BY DEF RequestsInv, WireTypes
  <2>2. \A i \in DOMAIN toResponder[d] : requests'[toResponder[d][i]].by = d
    BY <1>3, <2>1 DEF OwnWires
  <2>3. CASE toResponder'[d] = toResponder[d]
    BY <1>1, <2>2, <2>3 DEF OwnWires
  <2>4. CASE d = p /\ p \in linked /\ toResponder'[d] = Append(toResponder[d], n + 1)
    <3>1. \A i \in DOMAIN toResponder'[d] :
            toResponder'[d][i] = n + 1 \/ (i \in DOMAIN toResponder[d] /\ toResponder'[d][i] = toResponder[d][i])
      BY <1>3, <2>1, <2>4
    <3>2. QED
      BY <1>2, <1>3, <2>2, <2>4, <3>1
  <2>5. QED
    BY <1>1, <1>3, <1>4, <2>3, <2>4 DEF RequestsInv, WireTypes
<1>6. QED
  BY <1>1, <1>5 DEF OwnWires

LEMMA ResponseWires ==
  ASSUME RequestsInv, OwnWires, NEW p \in Requesters, OnResponse(p) \/ EndpointSendResponse(p)
  PROVE  OwnWires'
<1>1. requests' = requests /\ linked' = linked
  BY DEF OnResponse, EndpointSendResponse
<1>2. toResponder \in [Requesters -> Seq(Nat)] /\ toRequester \in [Requesters -> Seq(Nat)]
  BY DEF RequestsInv, WireTypes
<1>3. CASE OnResponse(p)
  <2>1. toResponder' = toResponder /\ toRequester[p] # <<>>
    BY <1>3 DEF OnResponse
  <2>2. \A d \in Requesters : d # p => toRequester'[d] = toRequester[d]
    BY <1>2, <1>3 DEF OnResponse
  <2>3. QED
    BY <1>1, <2>1, <2>2 DEF OwnWires
<1>4. CASE EndpointSendResponse(p)
  <2>1. toResponder[p] # <<>> /\ p \in linked
    BY <1>4 DEF EndpointSendResponse, OwnWires
  <2>2. \A d \in Requesters : toResponder'[d] = IF d = p THEN Tail(toResponder[p]) ELSE toResponder[d]
    BY <1>2, <1>4 DEF EndpointSendResponse
  <2>3. \A d \in Requesters \ linked : toRequester'[d] = toRequester[d]
    BY <1>4 DEF EndpointSendResponse
  <2>4. \A i \in DOMAIN Tail(toResponder[p]) : requests[Tail(toResponder[p])[i]].by = p
    <3>1. toResponder[p] \in Seq(Nat)
      BY <1>2
    <3>2. \A i \in DOMAIN Tail(toResponder[p]) :
            i + 1 \in DOMAIN toResponder[p] /\ Tail(toResponder[p])[i] = toResponder[p][i + 1]
      BY <2>1, <3>1
    <3>3. QED
      BY <3>2 DEF OwnWires
  <2>5. QED
    BY <1>1, <2>1, <2>2, <2>3, <2>4 DEF OwnWires
<1>5. QED
  BY <1>3, <1>4

LEMMA CutWires ==
  ASSUME RequestsInv, OwnWires, NEW p \in Requesters, Disconnect(p)
  PROVE  OwnWires' /\ Len(requests') = Len(requests)
<1>1. \A q \in Request : requests[q] \in Made
  BY DEF RequestsInv, Request
<1>2. /\ DOMAIN requests' = Request
      /\ \A q \in Request : requests'[q].by = requests[q].by
  BY <1>1 DEF Disconnect, Made
<1>3. Len(requests') = Len(requests)
  <2>1. requests' \in Seq(Made)
    BY CutKeeps DEF RequestsInv
  <2>2. QED
    BY <1>2, <2>1 DEF RequestsInv, Request
<1>4. /\ linked' = linked \ {p}
      /\ \A d \in Requesters :
           IF d = p THEN toResponder'[d] = <<>> /\ toRequester'[d] = <<>>
           ELSE toResponder'[d] = toResponder[d] /\ toRequester'[d] = toRequester[d]
  BY DEF Disconnect, RequestsInv, WireTypes
<1>5. \A d \in Requesters : \A i \in DOMAIN toResponder[d] : toResponder[d][i] \in Request
  BY DEF RequestsInv, WireTypes
<1>6. QED
  BY <1>2, <1>3, <1>4, <1>5 DEF OwnWires

LEMMA RqShapeStep == RqShape /\ [RqNext]_rqVars => RqShape'
<1> SUFFICES ASSUME RqShape, [RqNext]_rqVars PROVE RqShape'
  OBVIOUS
<1> USE DEF RqShape
<1>1. RequestsInv'
  BY RequestsStep
<1>2. WireTypes
  BY DEF RequestsInv
<1>3. CASE UNCHANGED rqVars
  <2>1. UNCHANGED <<counter, rqPc, rqId, requests, toResponder, toRequester, linked>>
    BY <1>3 DEF rqVars
  <2>2. QED
    BY <1>1, <1>2, <2>1, CountersKept, WiresKept
<1>4. ASSUME NEW t \in Threads, GenerateId(t) \/ CountUp(t)
      PROVE  RqShape'
  <2>1. UNCHANGED <<requests, toResponder, toRequester, linked>>
    BY <1>4 DEF GenerateId, CountUp
  <2>2. OwnWires'
    BY <1>2, <2>1, WiresKept
  <2>3. QED
    BY <1>1, <1>4, <2>2, GenerateCounters, CountUpCounters
<1>5. ASSUME NEW t \in Threads, EndpointSendRequest(t)
      PROVE  RqShape'
  BY <1>1, <1>5, SendCounters, SendWires
<1>6. ASSUME NEW p \in Requesters, OnResponse(p) \/ EndpointSendResponse(p)
      PROVE  RqShape'
  <2>1. UNCHANGED <<counter, rqPc, rqId, requests>>
    BY <1>6 DEF OnResponse, EndpointSendResponse
  <2>2. QED
    BY <1>1, <1>6, <2>1, CountersKept, ResponseWires
<1>7. ASSUME NEW p \in Requesters, Disconnect(p)
      PROVE  RqShape'
  <2>1. UNCHANGED <<counter, rqPc, rqId>>
    BY <1>7 DEF Disconnect
  <2>2. QED
    BY <1>1, <1>7, <2>1, CountersKept, CutWires
<1>8. ASSUME NEW p \in Requesters, MapAgain(p)
      PROVE  RqShape'
  <2>1. UNCHANGED <<counter, rqPc, rqId, requests, toResponder, toRequester>> /\ linked \subseteq linked'
    BY <1>8 DEF MapAgain
  <2>2. QED
    BY <1>1, <1>2, <2>1, CountersKept, WiresKept
<1>9. QED
  BY <1>3, <1>4, <1>5, <1>6, <1>7, <1>8 DEF RqNext

LEMMA RqTypeCorrect == RqSpec => []RqTypeOK
<1>1. RqInit => RqShape
  <2> SUFFICES ASSUME RqInit PROVE RqShape
    OBVIOUS
  <2>1. requests = <<>> /\ BusyThreads = {} /\ NumberedThreads = {}
    BY DEF RqInit, BusyThreads, NumberedThreads
  <2>2. Len(requests) = 0 /\ IsFiniteSet(BusyThreads) /\ Cardinality(BusyThreads) = 0 /\ IdsUsed = 0
    BY <2>1, FS_EmptySet DEF IdsUsed
  <2>3. CountersBounded
    BY <2>2, RequestsAssumption DEF CountersBounded, RqInit
  <2>4. OwnWires
    BY DEF RqInit, OwnWires
  <2>5. QED
    BY <2>3, <2>4, RequestsInitial DEF RqShape
<1>2. RqShape => RqTypeOK
  <2> SUFFICES ASSUME RqShape PROVE RqTypeOK
    OBVIOUS
  <2>1. /\ Len(requests) \in Nat /\ Cardinality(BusyThreads) \in Nat /\ Cardinality(NumberedThreads) \in Nat
        /\ Cardinality(NumberedThreads) <= Cardinality(BusyThreads)
    BY NumberedFinite DEF RqShape, CountersBounded, RequestsInv
  <2>2. IdsUsed \in Nat /\ IdsUsed <= MaxRequests
    BY <2>1, RequestsAssumption DEF IdsUsed, RqShape, CountersBounded
  <2>3. \A p \in Requesters : counter[p] \in Nat
    BY DEF RqShape, RequestsInv, ThreadTypes
  <2>4. \A p \in Requesters : counter[p] \in 1..MaxRequests + 1
    BY <2>2, <2>3, RequestsAssumption DEF RqShape, CountersBounded
  <2>5. DOMAIN answers = Request
    BY DEF RqShape, RequestsInv, AnswersById, Request
  <2>6. \A t \in Threads : rqPc[t] \in {"idle", "generating", "generated"}
    BY DEF RqShape, RequestsInv, ThreadTypes
  <2>7. QED
    BY <2>4, <2>5, <2>6 DEF RqShape, RequestsInv, WireTypes, OwnWires, RqTypeOK
<1>3. QED
  BY <1>1, <1>2, RqShapeStep, PTL DEF RqSpec

-----------------------------------------------------------------------------
(* Streams: what is written to the wrong descriptor, and when.              *)

WireMessage == [kind : {"start", "stop", "data", "plain"}, n : Nat]
Item == [n : Nat, tot : Int]
Uses == {"closed", "fifo", "conn", "stdin"}

StrTypes ==
  /\ flag \in BOOLEAN
  /\ fifo \in [Sides -> Fds \cup {0, -1}]
  /\ use \in [Sides -> [Fds \cup {0, -1} -> Uses]]
  /\ content \in [Sides -> Seq(Item)]
  /\ wire \in [Sides -> Seq(WireMessage)]
  /\ sentTotal \in Nat
  /\ writing \in [Sides -> Item]
  /\ astray \in [Sides -> SUBSET (Nat \X (Fds \cup {0, -1}))]
  /\ opened \in [Sides -> Nat]
  /\ stops \in [Sides -> Nat]
  /\ broken \in [Sides -> Nat]
  /\ cut \in [Sides -> BOOLEAN]
  /\ appLives \in [Sides -> BOOLEAN]

\* The numbers of the messages that the receive thread of s has taken and of
\* which something is left.
Taken(s) ==
  {opened[s], writing[s].n} \cup {a[1] : a \in astray[s]} \cup
  {content[s][k].n : k \in DOMAIN content[s]}

\* What is on the wire is in order, and after all that was taken.
WireOrdered(s) ==
  /\ \A i \in DOMAIN wire[s] : wire[s][i].n \in 1..sentTotal
  /\ \A i, j \in DOMAIN wire[s] : i < j => wire[s][i].n < wire[s][j].n
  /\ \A m \in Taken(s) : m <= sentTotal /\ \A i \in DOMAIN wire[s] : m < wire[s][i].n

\* The message being written is after all that was written, and once a write
\* of it was refused no other gets through to the fifo.
WritingRight(s) ==
  writing[s] # NotWriting =>
    /\ opened[s] < writing[s].n
    /\ \A k \in DOMAIN content[s] : content[s][k].n < writing[s].n
    /\ writing[s].tot # 0 /\ use[s][fifo[s]] = "fifo" => Len(content[s]) >= Capacity

ContentRight(s) ==
  /\ \A i \in DOMAIN content[s] : content[s][i].tot = 0 /\ content[s][i].n > opened[s]
  /\ \A i, j \in DOMAIN content[s] : i < j => content[s][i].n < content[s][j].n

\* What the number that the endpoint remembers leads to.
FifoRight(s) ==
  /\ use[s][0] = "stdin" /\ use[s][-1] = "closed"
  /\ fifo[s] <= 0 <=> opened[s] = 0
  /\ fifo[s] > 0 /\ use[s][fifo[s]] # "fifo" => stops[s] + broken[s] > 0
  /\ Len(content[s]) <= Capacity
  /\ content[s] # <<>> => use[s][fifo[s]] = "fifo"

CauseKnown(s) ==
  /\ \A a \in astray[s] :
       IF a[2] = 0 THEN opened[s] \notin 1..a[1] ELSE stops[s] + broken[s] > 0
  /\ cut[s] => stops[s] + broken[s] > 1

SideInv(s) == WireOrdered(s) /\ WritingRight(s) /\ ContentRight(s) /\ FifoRight(s) /\ CauseKnown(s)

StreamsInv == StrTypes /\ \A s \in Sides : SideInv(s)

-----------------------------------------------------------------------------

LEMMA SidesOfStream == /\ Src \in Sides /\ Snk \in Sides
                       /\ \A s \in Sides : Other(s) \in Sides /\ Other(s) # s
                       /\ \A s, o \in Sides : o # s => o = Other(s)
  BY StreamsAssumption DEF Sides, Other

LEMMA StreamsInitial == StrInit => StreamsInv
<1> SUFFICES ASSUME StrInit PROVE StreamsInv
  OBVIOUS
<1> USE StreamsAssumption
<1>1. StrTypes
  BY DEF StrInit, StrTypes, Item, NotWriting, Uses
<1>2. ASSUME NEW s \in Sides PROVE SideInv(s)
  <2>1. /\ fifo[s] = 0 /\ use[s][0] = "stdin" /\ use[s][-1] = "closed" /\ content[s] = <<>> /\ wire[s] = <<>>
        /\ writing[s] = NotWriting /\ astray[s] = {} /\ opened[s] = 0
        /\ stops[s] = 0 /\ broken[s] = 0 /\ cut[s] = FALSE /\ sentTotal = 0
    BY DEF StrInit
  <2>2. Taken(s) = {0}
    BY <2>1 DEF Taken, NotWriting
  <2>3. WireOrdered(s)
    BY <2>1, <2>2 DEF WireOrdered
  <2>4. QED
    BY <2>1, <2>3 DEF SideInv, WritingRight, ContentRight, FifoRight, CauseKnown
<1>3. QED
  BY <1>1, <1>2 DEF StreamsInv

\* What a step leaves alone of a side.
Untouched(o) ==
  /\ fifo'[o] = fifo[o] /\ use'[o] = use[o] /\ content'[o] = content[o]
  /\ writing'[o] = writing[o] /\ astray'[o] = astray[o] /\ opened'[o] = opened[o]
  /\ stops'[o] = stops[o] /\ broken'[o] = broken[o] /\ cut'[o] = cut[o]

LEMMA SideUntouched ==
  ASSUME NEW o \in Sides, SideInv(o), Untouched(o), WireOrdered(o)'
  PROVE  SideInv(o)'
  BY DEF SideInv, Untouched, WritingRight, ContentRight, FifoRight, CauseKnown

LEMMA TakenUntouched ==
  ASSUME NEW o \in Sides, Untouched(o)
  PROVE  Taken(o)' = Taken(o)
  BY DEF Untouched, Taken

LEMMA TakenTypes ==
  ASSUME StrTypes, NEW s \in Sides
  PROVE  /\ \A m \in Taken(s) : m \in Nat
         /\ \A i \in DOMAIN wire[s] : wire[s][i] \in WireMessage /\ wire[s][i].n \in Nat
         /\ \A i \in DOMAIN content[s] : content[s][i] \in Item /\ content[s][i].n \in Nat
         /\ wire[s] \in Seq(WireMessage) /\ content[s] \in Seq(Item)
<1>1. \A i \in DOMAIN wire[s] : wire[s][i] \in WireMessage
  BY DEF StrTypes
<1>2. \A i \in DOMAIN content[s] : content[s][i] \in Item
  BY DEF StrTypes
<1>3. \A a \in astray[s] : a[1] \in Nat
  BY DEF StrTypes
<1>4. opened[s] \in Nat /\ writing[s].n \in Nat
  BY DEF StrTypes, Item
<1>5. \A i \in DOMAIN content[s] : content[s][i].n \in Nat
  BY <1>2 DEF Item
<1>6. QED
  BY <1>1, <1>2, <1>3, <1>4, <1>5 DEF Taken, WireMessage, StrTypes

-----------------------------------------------------------------------------
(* What is sent. *)

LEMMA SendKeeps ==
  ASSUME StreamsInv, NEW s \in Sides, NEW kind \in {"start", "stop", "data", "plain"},
         Send(s, kind), flag' \in BOOLEAN
  PROVE  StreamsInv'
<1> USE StreamsAssumption, SidesOfStream DEF StreamsInv
<1> DEFINE o == Other(s)
           new == [kind |-> kind, n |-> sentTotal + 1]
<1>1. /\ sentTotal' = sentTotal + 1 /\ wire' = [wire EXCEPT ![o] = Append(@, new)]
      /\ UNCHANGED <<fifos, appLives>>
  BY DEF Send
<1>2. sentTotal \in Nat /\ wire[o] \in Seq(WireMessage) /\ new \in WireMessage
      /\ wire \in [Sides -> Seq(WireMessage)] /\ o \in Sides /\ s # o
  BY DEF StrTypes, WireMessage
<1>3. StrTypes'
  <2>1. wire' \in [Sides -> Seq(WireMessage)] /\ sentTotal' \in Nat
    BY <1>1, <1>2
  <2>2. QED
    BY <1>1, <2>1 DEF StrTypes, fifos
<1>4. \A e \in Sides : Untouched(e)
  BY <1>1 DEF Untouched, fifos
<1>5. wire'[s] = wire[s] /\ wire'[o] = Append(wire[o], new)
  BY <1>1, <1>2
<1>6. WireOrdered(s)'
  BY <1>1, <1>2, <1>4, <1>5, TakenUntouched, TakenTypes DEF SideInv, WireOrdered
<1>7. WireOrdered(o)'
  <2>1. Taken(o)' = Taken(o)
    BY <1>4, TakenUntouched
  <2>2. \A i \in DOMAIN wire'[o] : \/ i \in DOMAIN wire[o] /\ wire'[o][i] = wire[o][i]
                                   \/ i = Len(wire[o]) + 1 /\ wire'[o][i] = new
    <3>1. Len(wire'[o]) = Len(wire[o]) + 1 /\ DOMAIN wire'[o] = 1 .. Len(wire[o]) + 1
      BY <1>2, <1>5
    <3>2. \A i \in 1 .. Len(wire[o]) : wire'[o][i] = wire[o][i]
      BY <1>2, <1>5
    <3>3. wire'[o][Len(wire[o]) + 1] = new
      BY <1>2, <1>5
    <3>4. Len(wire[o]) \in Nat /\ DOMAIN wire[o] = 1 .. Len(wire[o])
      BY <1>2
    <3>5. QED
      BY <3>1, <3>2, <3>3, <3>4
  <2>3. DOMAIN wire[o] = 1 .. Len(wire[o]) /\ Len(wire[o]) \in Nat
    BY <1>2
  <2>4. WireOrdered(o)
    BY DEF SideInv
  <2>5. \A i \in DOMAIN wire'[o] : wire'[o][i].n \in 1..sentTotal'
    BY <1>1, <1>2, <2>2, <2>4 DEF WireOrdered
  <2>6. ASSUME NEW i \in DOMAIN wire'[o], NEW j \in DOMAIN wire'[o], i < j
        PROVE  wire'[o][i].n < wire'[o][j].n
    <3>1. i \in DOMAIN wire[o] /\ wire'[o][i] = wire[o][i]
      BY <2>2, <2>3, <2>6
    <3>2. CASE j \in DOMAIN wire[o] /\ wire'[o][j] = wire[o][j]
      BY <2>4, <2>6, <3>1, <3>2 DEF WireOrdered
    <3>3. CASE wire'[o][j] = new
      BY <1>2, <2>4, <3>1, <3>3 DEF WireOrdered
    <3>4. QED
      BY <2>2, <3>2, <3>3
  <2>7. ASSUME NEW m \in Taken(o)
        PROVE  m <= sentTotal' /\ \A i \in DOMAIN wire'[o] : m < wire'[o][i].n
    BY <1>1, <1>2, <2>2, <2>4, TakenTypes DEF WireOrdered
  <2>8. QED
    BY <2>1, <2>5, <2>6, <2>7 DEF WireOrdered
<1>8. \A e \in Sides : WireOrdered(e)'
  BY <1>6, <1>7
<1>9. QED
  BY <1>3, <1>4, <1>8, SideUntouched

-----------------------------------------------------------------------------
(* What is received. *)

LEMMA HeadLater ==
  ASSUME StreamsInv, NEW s \in Sides, NEW kind, Takes(s, kind)
  PROVE  /\ Head(wire[s]).n \in 1..sentTotal
         /\ \A m \in Taken(s) : m < Head(wire[s]).n
<1>1. wire[s] \in Seq(WireMessage) /\ wire[s] # <<>>
  BY DEF Takes, StreamsInv, StrTypes
<1>2. 1 \in DOMAIN wire[s] /\ Head(wire[s]) = wire[s][1]
  BY <1>1
<1>3. WireOrdered(s)
  BY DEF StreamsInv, SideInv
<1>4. QED
  BY <1>2, <1>3 DEF WireOrdered

\* The order survives a step that takes the head, and puts no other number
\* than that of the head where the numbers taken are.
LEMMA TakesOrder ==
  ASSUME StreamsInv, NEW s \in Sides, NEW kind, Takes(s, kind), sentTotal' = sentTotal,
         \A m \in Taken(s)' : m \in Taken(s) \/ m = Head(wire[s]).n
  PROVE  /\ WireOrdered(s)'
         /\ Head(wire[s]).n \in 1..sentTotal
         /\ \A m \in Taken(s) : m < Head(wire[s]).n
<1> USE DEF StreamsInv
<1>1. wire[s] \in Seq(WireMessage) /\ wire[s] # <<>> /\ wire'[s] = Tail(wire[s])
  BY DEF Takes, StrTypes
<1>2. DOMAIN wire[s] = 1 .. Len(wire[s]) /\ Len(wire[s]) \in Nat \ {0} /\ 1 \in DOMAIN wire[s]
  BY <1>1
<1>3. \A i \in DOMAIN wire'[s] : i \in Nat /\ 1 < i + 1 /\ i + 1 \in DOMAIN wire[s] /\ wire'[s][i] = wire[s][i + 1]
  BY <1>1
<1>4. Head(wire[s]) = wire[s][1]
  BY <1>1
<1>5. WireOrdered(s) /\ sentTotal \in Nat
  BY DEF SideInv, StrTypes
<1>6. \A i \in DOMAIN wire'[s] : wire'[s][i].n \in 1..sentTotal /\ Head(wire[s]).n < wire'[s][i].n
  <2>1. ASSUME NEW i \in DOMAIN wire'[s]
        PROVE  wire'[s][i].n \in 1..sentTotal /\ Head(wire[s]).n < wire'[s][i].n
    <3>1. i + 1 \in DOMAIN wire[s] /\ 1 < i + 1 /\ wire'[s][i] = wire[s][i + 1]
      BY <1>2, <1>3
    <3>2. QED
      BY <1>2, <1>4, <1>5, <3>1 DEF WireOrdered
  <2>2. QED
    BY <2>1
<1>7. \A i, j \in DOMAIN wire'[s] : i < j => wire'[s][i].n < wire'[s][j].n
  <2>1. ASSUME NEW i \in DOMAIN wire'[s], NEW j \in DOMAIN wire'[s], i < j
        PROVE  wire'[s][i].n < wire'[s][j].n
    <3>1. i + 1 < j + 1 /\ i + 1 \in DOMAIN wire[s] /\ j + 1 \in DOMAIN wire[s]
      BY <1>3, <2>1
    <3>2. QED
      BY <1>3, <1>5, <3>1 DEF WireOrdered
  <2>2. QED
    BY <2>1
<1>8. /\ Head(wire[s]).n \in 1..sentTotal
      /\ \A m \in Taken(s) : m < Head(wire[s]).n
  BY HeadLater
<1>9. ASSUME NEW m \in Taken(s)'
      PROVE  m <= sentTotal /\ \A i \in DOMAIN wire'[s] : m < wire'[s][i].n
  <2>1. CASE m = Head(wire[s]).n
    BY <1>5, <1>6, <1>8, <2>1
  <2>2. CASE m \in Taken(s)
    <3>1. \A i \in DOMAIN wire'[s] : m < wire[s][i + 1].n
      BY <1>3, <1>5, <2>2 DEF WireOrdered
    <3>2. QED
      BY <1>3, <1>5, <2>2, <3>1 DEF WireOrdered
  <2>3. QED
    BY <2>1, <2>2
<1>10. QED
  BY <1>6, <1>7, <1>8, <1>9 DEF WireOrdered

\* A step of one side is none of the other.
LEMMA OneSide ==
  ASSUME StreamsInv, NEW s \in Sides, StrTypes', SideInv(s)', sentTotal' = sentTotal,
         \A o \in Sides \ {s} : Untouched(o) /\ wire'[o] = wire[o]
  PROVE  StreamsInv'
<1> USE DEF StreamsInv
<1>1. ASSUME NEW o \in Sides, o # s PROVE SideInv(o)'
  <2>1. Untouched(o) /\ wire'[o] = wire[o]
    BY <1>1
  <2>2. Taken(o)' = Taken(o)
    BY <2>1, TakenUntouched
  <2>3. WireOrdered(o)'
    BY <2>1, <2>2 DEF SideInv, WireOrdered
  <2>4. QED
    BY <2>1, <2>3, SideUntouched
<1>2. QED
  BY <1>1

LEMMA TakesTypes ==
  ASSUME StrTypes, NEW s \in Sides, NEW kind, Takes(s, kind)
  PROVE  /\ wire' \in [Sides -> Seq(WireMessage)]
         /\ Head(wire[s]).n \in Nat
<1>1. wire[s] \in Seq(WireMessage) /\ wire[s] # <<>> /\ wire' = [wire EXCEPT ![s] = Tail(@)]
  BY DEF StrTypes, Takes
<1>2. Head(wire[s]) \in WireMessage /\ Tail(wire[s]) \in Seq(WireMessage)
  BY <1>1
<1>3. QED
  BY <1>1, <1>2 DEF StrTypes, WireMessage

LEMMA StartKeeps ==
  ASSUME StreamsInv, NEW s \in Sides, RecvStart(s)
  PROVE  StreamsInv'
<1> USE StreamsAssumption, SidesOfStream DEF StreamsInv
<1> DEFINE n == Head(wire[s]).n
<1>1. /\ Takes(s, "start") /\ writing[s] = NotWriting
      /\ wire' = [wire EXCEPT ![s] = Tail(@)] /\ wire[s] # <<>>
      /\ UNCHANGED <<flag, sentTotal, writing, astray, stops, broken, cut>>
  BY DEF RecvStart, Takes
<1>2. wire' \in [Sides -> Seq(WireMessage)] /\ n \in Nat
  BY <1>1, TakesTypes
<1>a. CASE Opens(s) /\ FifoFails(s)
  <2>1. /\ fifo[s] <= 0 /\ fifo' = [fifo EXCEPT ![s] = -1] /\ UNCHANGED <<use, content, opened>>
        /\ \E lives \in BOOLEAN : appLives' = [appLives EXCEPT ![s] = lives]
    BY <1>a DEF RecvStart, Opens, FifoFails
  <2>2. /\ fifo' \in [Sides -> Fds \cup {0, -1}] /\ fifo'[s] = -1
        /\ appLives' \in [Sides -> BOOLEAN]
        /\ fifo[s] \in {0, -1}
    <3>1. fifo' \in [Sides -> Fds \cup {0, -1}] /\ fifo'[s] = -1
      BY <2>1 DEF StrTypes
    <3>2. appLives' \in [Sides -> BOOLEAN]
      BY <2>1 DEF StrTypes
    <3>3. fifo[s] \in Fds \cup {0, -1} /\ \A f \in Fds : f \in Nat /\ f > 0
      BY DEF StrTypes
    <3>4. fifo[s] \in {0, -1}
      <4>1. fifo[s] <= 0
        BY <2>1
      <4>2. \A f \in Fds : ~(f <= 0)
        BY <3>3
      <4>3. QED
        BY <3>3, <4>1, <4>2
    <3>5. QED
      BY <3>1, <3>2, <3>4
  <2>3. StrTypes'
    BY <1>1, <1>2, <2>1, <2>2 DEF StrTypes
  <2>4. Taken(s)' = Taken(s)
    BY <1>1, <2>1 DEF Taken
  <2>5. WireOrdered(s)'
    BY <1>1, <2>4, TakesOrder
  <2>6. use[s][fifo[s]] # "fifo" /\ content[s] = <<>>
    BY <2>2 DEF SideInv, FifoRight
  <2>7. FifoRight(s)'
    BY <1>1, <2>1, <2>2, <2>6 DEF SideInv, FifoRight
  <2>8. WritingRight(s)' /\ ContentRight(s)' /\ CauseKnown(s)'
    BY <1>1, <2>1 DEF SideInv, WritingRight, ContentRight, CauseKnown
  <2>9. SideInv(s)'
    BY <2>5, <2>7, <2>8 DEF SideInv
  <2>10. \A o \in Sides \ {s} : Untouched(o) /\ wire'[o] = wire[o]
    BY <1>1, <2>1 DEF Untouched, StrTypes
  <2>11. QED
    BY <1>1, <2>3, <2>9, <2>10, OneSide
<1>3. CASE Opens(s) /\ ~FifoFails(s)
  <2>1. PICK f \in Fds :
          /\ use[s][f] = "closed" /\ fifo[s] <= 0
          /\ fifo' = [fifo EXCEPT ![s] = f]
          /\ use' = [use EXCEPT ![s][f] = "fifo"]
          /\ content' = [content EXCEPT ![s] = <<>>]
          /\ opened' = [opened EXCEPT ![s] = n]
          /\ \E lives \in BOOLEAN : appLives' = [appLives EXCEPT ![s] = lives]
    BY <1>3 DEF RecvStart, Opens, FifoOpens
  <2>2. StrTypes'
    <3>1. appLives' \in [Sides -> BOOLEAN]
      BY <2>1 DEF StrTypes
    <3>2. /\ fifo' \in [Sides -> Fds \cup {0, -1}] /\ opened' \in [Sides -> Nat]
          /\ content' \in [Sides -> Seq(Item)]
      <4>1. fifo' \in [Sides -> Fds \cup {0, -1}]
        BY <2>1 DEF StrTypes
      <4>2. opened' \in [Sides -> Nat]
        BY <1>2, <2>1 DEF StrTypes
      <4>3. content' \in [Sides -> Seq(Item)]
        BY <2>1 DEF StrTypes
      <4>4. QED
        BY <4>1, <4>2, <4>3
    <3>3. use' \in [Sides -> [Fds \cup {0, -1} -> Uses]]
      <4>1. [use[s] EXCEPT ![f] = "fifo"] \in [Fds \cup {0, -1} -> Uses]
        BY DEF StrTypes, Uses
      <4>2. QED
        BY <2>1, <4>1 DEF StrTypes
    <3>4. QED
      BY <1>1, <1>2, <3>1, <3>2, <3>3 DEF StrTypes
  <2>3. /\ fifo'[s] = f /\ use'[s][f] = "fifo" /\ use'[s][0] = use[s][0] /\ content'[s] = <<>>
        /\ opened'[s] = n /\ f > 0 /\ use'[s][-1] = use[s][-1]
    BY <2>1 DEF StrTypes
  <2>4. Taken(s)' = {n, writing[s].n} \cup {a[1] : a \in astray[s]}
    BY <1>1, <2>3 DEF Taken
  <2>5. /\ WireOrdered(s)' /\ n \in 1..sentTotal /\ \A m \in Taken(s) : m < n
    BY <1>1, <2>4, TakesOrder DEF Taken
  <2>6. WritingRight(s)' /\ ContentRight(s)' /\ FifoRight(s)'
    BY <1>1, <2>3, <2>5 DEF WritingRight, ContentRight, FifoRight, SideInv, NotWriting
  <2>7. CauseKnown(s)'
    <3>1. ASSUME NEW a \in astray[s], a[2] = 0 PROVE n \notin 1..a[1]
      <4>1. a[1] \in Taken(s) /\ a[1] \in Nat
        BY TakenTypes DEF Taken
      <4>2. QED
        BY <1>2, <2>5, <4>1
    <3>2. QED
      BY <1>1, <2>3, <3>1 DEF CauseKnown, SideInv
  <2>8. \A o \in Sides \ {s} : Untouched(o) /\ wire'[o] = wire[o]
    BY <1>1, <2>1 DEF Untouched, StrTypes
  <2>9. SideInv(s)'
    BY <2>5, <2>6, <2>7 DEF SideInv
  <2>10. QED
    BY <1>1, <2>2, <2>8, <2>9, OneSide
<1>4. CASE ~Opens(s)
  <2>1. UNCHANGED <<fifo, use, content, opened, appLives>>
    BY <1>4 DEF RecvStart
  <2>2. StrTypes'
    BY <1>1, <1>2, <2>1 DEF StrTypes
  <2>3. \A o \in Sides : Untouched(o)
    BY <1>1, <2>1 DEF Untouched
  <2>4. WireOrdered(s)'
    BY <1>1, <2>3, TakenUntouched, TakesOrder
  <2>5. SideInv(s)'
    BY <2>3, <2>4, SideUntouched
  <2>6. QED
    BY <1>1, <2>2, <2>3, <2>5, OneSide DEF StrTypes
<1>5. QED
  BY <1>a, <1>3, <1>4

\* The close of what the endpoint remembers, by a stop or after a message that
\* could not be written, which is one cause more.
LEMMA CloseKeeps ==
  ASSUME StreamsInv, NEW s \in Sides, fifo[s] > 0, FifoClose(s), writing[s] = NotWriting,
         UNCHANGED <<fifo, astray, opened, writing>>, StrTypes', stops'[s] + broken'[s] = stops[s] + broken[s] + 1
  PROVE  /\ ContentRight(s)' /\ FifoRight(s)' /\ CauseKnown(s)' /\ WritingRight(s)'
         /\ Taken(s)' \subseteq Taken(s)
         /\ \A o \in Sides \ {s} : use'[o] = use[o] /\ cut'[o] = cut[o] /\ content'[o] = content[o]
<1> USE StreamsAssumption DEF StreamsInv
<1>1. /\ use'[s][fifo[s]] = "closed" /\ \A f \in Fds \cup {0, -1} : f # fifo[s] => use'[s][f] = use[s][f]
      /\ cut'[s] = (cut[s] \/ use[s][fifo[s]] = "conn") /\ content'[s] = <<>>
      /\ \A o \in Sides \ {s} : use'[o] = use[o] /\ cut'[o] = cut[o] /\ content'[o] = content[o]
  BY DEF FifoClose, StrTypes
<1>2. ContentRight(s)' /\ WritingRight(s)'
  BY <1>1 DEF ContentRight, WritingRight
<1>a. /\ stops[s] \in Nat /\ stops'[s] \in Nat /\ broken[s] \in Nat /\ broken'[s] \in Nat
      /\ fifo[s] \in Fds \cup {0, -1}
      /\ 0 \in Fds \cup {0, -1} /\ -1 \in Fds \cup {0, -1}
  BY DEF StrTypes
<1>b. FifoRight(s) /\ CauseKnown(s)
  BY DEF SideInv
<1>c. stops'[s] + broken'[s] > 0
  BY <1>a
<1>3. FifoRight(s)'
  <2>1. use'[s][0] = use[s][0] /\ use'[s][-1] = use[s][-1]
    BY <1>1, <1>a, <1>b DEF FifoRight
  <2>2. Len(content'[s]) <= Capacity /\ content'[s] = <<>>
    BY <1>1, <1>a
  <2>3. fifo'[s] = fifo[s] /\ opened'[s] = opened[s]
    OBVIOUS
  <2>4. QED
    BY <1>b, <1>c, <2>1, <2>2, <2>3 DEF FifoRight
<1>4. CauseKnown(s)'
  <2>1. CASE use[s][fifo[s]] = "conn"
    <3>1. stops[s] + broken[s] > 0
      BY <1>b, <2>1 DEF FifoRight
    <3>2. stops'[s] + broken'[s] > 1
      BY <1>a, <3>1
    <3>3. QED
      BY <1>b, <1>c, <3>2 DEF CauseKnown
  <2>2. CASE use[s][fifo[s]] # "conn"
    <3>1. cut'[s] = cut[s]
      BY <1>1, <2>2 DEF StrTypes
    <3>2. cut[s] => stops'[s] + broken'[s] > 1
      BY <1>a, <1>b DEF CauseKnown
    <3>3. QED
      BY <1>b, <1>c, <3>1, <3>2 DEF CauseKnown
  <2>3. QED
    BY <2>1, <2>2
<1>5. Taken(s)' \subseteq Taken(s)
  BY <1>1 DEF Taken
<1>6. QED
  BY <1>1, <1>2, <1>3, <1>4, <1>5

LEMMA CloseTypes ==
  ASSUME StrTypes, NEW s \in Sides, FifoClose(s)
  PROVE  /\ use' \in [Sides -> [Fds \cup {0, -1} -> Uses]]
         /\ cut' \in [Sides -> BOOLEAN]
         /\ content' \in [Sides -> Seq(Item)]
<1>1. [use[s] EXCEPT ![fifo[s]] = "closed"] \in [Fds \cup {0, -1} -> Uses]
  BY DEF StrTypes, Uses
<1>2. use' \in [Sides -> [Fds \cup {0, -1} -> Uses]]
  BY <1>1 DEF FifoClose, StrTypes
<1>3. cut' \in [Sides -> BOOLEAN] /\ content' \in [Sides -> Seq(Item)]
  BY DEF FifoClose, StrTypes
<1>4. QED
  BY <1>2, <1>3

LEMMA StopKeeps ==
  ASSUME StreamsInv, NEW s \in Sides, RecvStop(s)
  PROVE  StreamsInv'
<1> USE StreamsAssumption, SidesOfStream DEF StreamsInv
<1>1. /\ Takes(s, "stop") /\ writing[s] = NotWriting
      /\ wire' = [wire EXCEPT ![s] = Tail(@)] /\ wire[s] # <<>>
      /\ stops' = IF fifo[s] > 0 THEN [stops EXCEPT ![s] = @ + 1] ELSE stops
      /\ UNCHANGED <<flag, fifo, sentTotal, writing, astray, opened, broken, appLives>>
  BY DEF RecvStop, Takes
<1>2. wire' \in [Sides -> Seq(WireMessage)] /\ stops' \in [Sides -> Nat]
  BY <1>1 DEF StrTypes
<1>3. /\ stops[s] \in Nat /\ broken[s] \in Nat /\ stops'[s] = (IF fifo[s] > 0 THEN stops[s] + 1 ELSE stops[s])
      /\ \A o \in Sides \ {s} : stops'[o] = stops[o] /\ wire'[o] = wire[o]
  BY <1>1 DEF StrTypes
<1>4. CASE fifo[s] > 0
  <2>1. FifoClose(s)
    BY <1>4 DEF RecvStop, Closes
  <2>2. StrTypes'
    BY <1>1, <1>2, <2>1, CloseTypes DEF StrTypes
  <2>5. stops'[s] + broken'[s] = stops[s] + broken[s] + 1
    BY <1>1, <1>3, <1>4
  <2>6. /\ ContentRight(s)' /\ FifoRight(s)' /\ CauseKnown(s)' /\ WritingRight(s)'
        /\ Taken(s)' \subseteq Taken(s)
        /\ \A o \in Sides \ {s} : use'[o] = use[o] /\ cut'[o] = cut[o] /\ content'[o] = content[o]
    BY <1>1, <1>4, <2>1, <2>2, <2>5, CloseKeeps
  <2>7. WireOrdered(s)'
    BY <1>1, <2>6, TakesOrder
  <2>8. SideInv(s)'
    BY <2>6, <2>7 DEF SideInv
  <2>9. \A o \in Sides \ {s} : Untouched(o) /\ wire'[o] = wire[o]
    BY <1>1, <1>3, <2>6 DEF Untouched
  <2>10. QED
    BY <1>1, <2>2, <2>8, <2>9, OneSide
<1>5. CASE ~(fifo[s] > 0)
  <2>1. UNCHANGED <<use, cut, content>>
    <3>1. CASE fifo[s] = 0
      BY <3>1 DEF RecvStop, Closes
    <3>2. CASE fifo[s] = -1
      <4>1. use[s][-1] = "closed" /\ content[s] = <<>>
        BY <3>2 DEF SideInv, FifoRight
      <4>2. FifoClose(s)
        BY <3>2 DEF RecvStop, Closes
      <4>3. /\ use' = [use EXCEPT ![s][-1] = "closed"] /\ content' = [content EXCEPT ![s] = <<>>]
            /\ cut' = [cut EXCEPT ![s] = cut[s]]
        BY <3>2, <4>1, <4>2 DEF FifoClose, StrTypes
      <4>4. use' = use
        BY <4>1, <4>3 DEF StrTypes
      <4>5. content' = content /\ cut' = cut
        BY <4>1, <4>3 DEF StrTypes
      <4>6. QED
        BY <4>4, <4>5
    <3>3. fifo[s] \in Fds \cup {0, -1} /\ \A f \in Fds : f \in Nat /\ f > 0
      BY DEF StrTypes
    <3>4. QED
      BY <1>5, <3>1, <3>2, <3>3
  <2>2. StrTypes'
    BY <1>1, <1>2, <2>1 DEF StrTypes
  <2>3. Taken(s)' = Taken(s)
    BY <1>1, <2>1 DEF Taken
  <2>4. WireOrdered(s)'
    BY <1>1, <2>3, TakesOrder
  <2>5. WritingRight(s)' /\ ContentRight(s)' /\ FifoRight(s)' /\ CauseKnown(s)'
    BY <1>1, <1>3, <1>5, <2>1
       DEF SideInv, WritingRight, ContentRight, FifoRight, CauseKnown
  <2>6. SideInv(s)'
    BY <2>4, <2>5 DEF SideInv
  <2>7. \A o \in Sides \ {s} : Untouched(o) /\ wire'[o] = wire[o]
    BY <1>1, <1>3, <2>1 DEF Untouched
  <2>8. QED
    BY <1>1, <2>2, <2>6, <2>7, OneSide
<1>6. QED
  BY <1>4, <1>5

LEMMA DataKeeps ==
  ASSUME StreamsInv, NEW s \in Sides, RecvData(s)
  PROVE  StreamsInv'
<1> USE StreamsAssumption, SidesOfStream DEF StreamsInv
<1> DEFINE n == Head(wire[s]).n
<1>1. /\ Takes(s, "data") /\ writing[s] = NotWriting
      /\ wire' = [wire EXCEPT ![s] = Tail(@)] /\ wire[s] # <<>>
      /\ writing' = [writing EXCEPT ![s] = [n |-> n, tot |-> 0]]
      /\ UNCHANGED <<flag, fifo, use, content, sentTotal, astray, opened, stops, broken, cut, appLives>>
  BY DEF RecvData, Takes
<1>2. wire' \in [Sides -> Seq(WireMessage)] /\ n \in Nat
  BY <1>1, TakesTypes
<1>3. [n |-> n, tot |-> 0] \in Item
  BY <1>2 DEF Item
<1>4. StrTypes'
  BY <1>1, <1>2, <1>3 DEF StrTypes
<1>5. writing'[s] = [n |-> n, tot |-> 0]
  BY <1>1 DEF StrTypes
<1>6. \A m \in Taken(s)' : m \in Taken(s) \/ m = n
  BY <1>1, <1>5 DEF Taken
<1>7. /\ WireOrdered(s)' /\ \A m \in Taken(s) : m < n
  BY <1>1, <1>6, TakesOrder
<1>8. WritingRight(s)'
  BY <1>1, <1>5, <1>7 DEF WritingRight, Taken
<1>9. SideInv(s)'
  BY <1>1, <1>7, <1>8 DEF SideInv, ContentRight, FifoRight, CauseKnown
<1>10. \A o \in Sides \ {s} : Untouched(o) /\ wire'[o] = wire[o]
  BY <1>1 DEF Untouched, StrTypes
<1>11. QED
  BY <1>1, <1>4, <1>9, <1>10, OneSide

\* A message that is written goes to the end of the fifo, or astray for a cause.
LEMMA PutKeeps ==
  ASSUME StreamsInv, NEW s \in Sides, NEW m \in Item, Put(s, m), ~Refuses(s),
         use[s][fifo[s]] = "fifo" =>
           m.tot = 0 /\ m.n > opened[s] /\ \A k \in DOMAIN content[s] : m.n > content[s][k].n,
         UNCHANGED <<fifo, use, opened, stops, broken, cut>>
  PROVE  /\ content' \in [Sides -> Seq(Item)]
         /\ astray' \in [Sides -> SUBSET (Nat \X (Fds \cup {0, -1}))]
         /\ ContentRight(s)' /\ FifoRight(s)' /\ CauseKnown(s)'
         /\ \A k \in Taken(s)' : k \in Taken(s) \cup {m.n, writing'[s].n}
         /\ \A o \in Sides \ {s} : content'[o] = content[o] /\ astray'[o] = astray[o]
<1> USE StreamsAssumption DEF StreamsInv
<1>1. /\ content[s] \in Seq(Item) /\ Len(content[s]) \in Nat /\ m.n \in Nat
      /\ fifo[s] \in Fds \cup {0, -1} /\ Capacity \in Nat /\ opened[s] \in Nat
      /\ content \in [Sides -> Seq(Item)]
      /\ astray \in [Sides -> SUBSET (Nat \X (Fds \cup {0, -1}))]
  BY DEF StrTypes, Item
<1>2. \A i \in DOMAIN content[s] : content[s][i].n \in Nat
  BY TakenTypes
<1>3. CASE use[s][fifo[s]] = "fifo"
  <2>1. /\ content' = [content EXCEPT ![s] = Append(content[s], m)] /\ astray' = astray
        /\ content'[s] = Append(content[s], m)
    BY <1>1, <1>3 DEF Put
  <2>2. Len(content[s]) < Capacity
    BY <1>1, <1>3 DEF Refuses
  <2>3. /\ Len(content'[s]) = Len(content[s]) + 1
        /\ DOMAIN content'[s] = 1 .. Len(content[s]) + 1 /\ DOMAIN content[s] = 1 .. Len(content[s])
        /\ content'[s][Len(content[s]) + 1] = m
        /\ \A i \in DOMAIN content[s] : content'[s][i] = content[s][i]
    BY <1>1, <2>1
  <2>4. \A i \in DOMAIN content'[s] : \/ i \in DOMAIN content[s] /\ content'[s][i] = content[s][i]
                                      \/ i = Len(content[s]) + 1 /\ content'[s][i] = m
    BY <1>1, <2>3
  <2>5. ContentRight(s)'
    <3>1. ContentRight(s)
      BY DEF SideInv
    <3>2. \A i \in DOMAIN content'[s] : content'[s][i].tot = 0 /\ content'[s][i].n > opened'[s]
      BY <1>3, <2>4, <3>1 DEF ContentRight
    <3>3. ASSUME NEW i \in DOMAIN content'[s], NEW j \in DOMAIN content'[s], i < j
          PROVE  content'[s][i].n < content'[s][j].n
      <4>1. i \in DOMAIN content[s] /\ content'[s][i] = content[s][i]
        BY <1>1, <2>3, <2>4, <3>3
      <4>2. CASE j \in DOMAIN content[s] /\ content'[s][j] = content[s][j]
        BY <3>1, <3>3, <4>1, <4>2 DEF ContentRight
      <4>3. CASE content'[s][j] = m
        BY <1>1, <1>2, <1>3, <4>1, <4>3
      <4>4. QED
        BY <2>4, <4>2, <4>3
    <3>4. QED
      BY <3>2, <3>3 DEF ContentRight
  <2>6. FifoRight(s)' /\ CauseKnown(s)'
    BY <1>1, <1>3, <2>1, <2>2, <2>3 DEF SideInv, FifoRight, CauseKnown
  <2>7. \A k \in DOMAIN content'[s] : content'[s][k].n \in Taken(s) \cup {m.n}
    BY <2>4 DEF Taken
  <2>8. \A k \in Taken(s)' : k \in Taken(s) \cup {m.n, writing'[s].n}
    BY <2>1, <2>7 DEF Taken
  <2>9. QED
    BY <1>1, <2>1, <2>5, <2>6, <2>8
<1>4. CASE use[s][fifo[s]] # "fifo"
  <2>1. /\ astray' = [astray EXCEPT ![s] = astray[s] \cup {<<m.n, fifo[s]>>}] /\ content' = content
        /\ astray'[s] = astray[s] \cup {<<m.n, fifo[s]>>}
    BY <1>1, <1>4 DEF Put
  <2>2. astray' \in [Sides -> SUBSET (Nat \X (Fds \cup {0, -1}))]
    BY <1>1, <2>1
  <2>3. ContentRight(s)' /\ FifoRight(s)'
    BY <2>1 DEF SideInv, ContentRight, FifoRight
  <2>4. ASSUME NEW a \in astray'[s]
        PROVE  IF a[2] = 0 THEN opened[s] \notin 1..a[1] ELSE stops[s] + broken[s] > 0
    <3>1. CASE a \in astray[s]
      BY <3>1 DEF SideInv, CauseKnown
    <3>2. CASE a = <<m.n, fifo[s]>>
      <4>1. FifoRight(s) /\ use[s][fifo[s]] # "closed"
        BY DEF SideInv, Refuses
      <4>2. a[1] = m.n /\ a[2] = fifo[s]
        BY <3>2
      <4>3. CASE fifo[s] = 0
        <5>1. opened[s] = 0
          BY <4>1, <4>3 DEF FifoRight
        <5>2. QED
          BY <4>2, <4>3, <5>1
      <4>4. CASE fifo[s] = -1
        BY <4>1, <4>4 DEF FifoRight
      <4>5. CASE fifo[s] > 0
        <5>1. stops[s] + broken[s] > 0
          BY <1>4, <4>1, <4>5 DEF FifoRight
        <5>2. QED
          BY <4>2, <4>5, <5>1
      <4>6. fifo[s] = 0 \/ fifo[s] = -1 \/ fifo[s] > 0
        <5>1. \A f \in Fds : f \in Nat /\ f > 0
          OBVIOUS
        <5>2. QED
          BY <1>1, <5>1
      <4>7. QED
        BY <4>3, <4>4, <4>5, <4>6
    <3>3. QED
      BY <2>1, <3>1, <3>2
  <2>5. CauseKnown(s)'
    BY <2>4 DEF SideInv, CauseKnown
  <2>6. \A a \in astray'[s] : a[1] \in Taken(s) \cup {m.n}
    BY <2>1 DEF Taken
  <2>7. \A k \in Taken(s)' : k \in Taken(s) \cup {m.n, writing'[s].n}
    BY <2>1, <2>6 DEF Taken
  <2>8. QED
    BY <1>1, <2>1, <2>2, <2>3, <2>5, <2>7
<1>5. QED
  BY <1>3, <1>4

LEMMA WriteKeeps ==
  ASSUME StreamsInv, NEW s \in Sides, Write(s)
  PROVE  StreamsInv'
<1> USE StreamsAssumption, SidesOfStream DEF StreamsInv
<1>1. /\ writing[s] # NotWriting /\ writing[s] \in Item
      /\ UNCHANGED <<flag, fifo, use, wire, sentTotal, opened, stops, broken, cut, appLives>>
  BY DEF Write, StrTypes
<1>2. sentTotal \in Nat /\ WireOrdered(s) /\ WritingRight(s)
  BY DEF StrTypes, SideInv
<1>3. CASE MayRefuse(s) /\ writing' = [writing EXCEPT ![s].tot = -1] /\ UNCHANGED <<content, astray>>
  <2>1. /\ writing' = [writing EXCEPT ![s].tot = -1]
        /\ UNCHANGED <<content, astray>>
    BY <1>3
  <2>2. /\ writing'[s] = [writing[s] EXCEPT !.tot = -1]
        /\ writing'[s].n = writing[s].n /\ writing'[s].tot = -1 /\ writing'[s] \in Item
    <3>1. writing'[s] = [writing[s] EXCEPT !.tot = -1]
      BY <2>1 DEF StrTypes
    <3>2. [writing[s] EXCEPT !.tot = -1] = [n |-> writing[s].n, tot |-> -1]
      BY <1>1 DEF Item
    <3>3. QED
      BY <1>1, <3>1, <3>2 DEF Item
  <2>3. writing' \in [Sides -> Item] /\ \A o \in Sides \ {s} : writing'[o] = writing[o]
    BY <2>1, <2>2 DEF StrTypes
  <2>4. StrTypes'
    BY <1>1, <2>1, <2>3 DEF StrTypes
  <2>5. Taken(s)' = Taken(s)
    BY <1>1, <2>1, <2>2 DEF Taken
  <2>6. WireOrdered(s)'
    BY <1>1, <1>2, <2>5 DEF WireOrdered
  <2>7. WritingRight(s)'
    BY <1>1, <1>2, <1>3, <2>1, <2>2 DEF WritingRight, MayRefuse, Elsewhere, Refuses
  <2>8. SideInv(s)'
    BY <1>1, <2>1, <2>6, <2>7 DEF SideInv, ContentRight, FifoRight, CauseKnown
  <2>9. \A o \in Sides \ {s} : Untouched(o) /\ wire'[o] = wire[o]
    BY <1>1, <2>1, <2>3 DEF Untouched
  <2>10. QED
    BY <1>1, <2>4, <2>8, <2>9, OneSide
<1>4. CASE ~Refuses(s) /\ writing' = [writing EXCEPT ![s] = NotWriting] /\ Put(s, writing[s])
  <2>1. writing' = [writing EXCEPT ![s] = NotWriting] /\ Put(s, writing[s])
    BY <1>4
  <2>2. writing'[s] = NotWriting /\ writing' \in [Sides -> Item]
        /\ \A o \in Sides \ {s} : writing'[o] = writing[o]
    BY <2>1 DEF StrTypes, Item, NotWriting
  <2>3. use[s][fifo[s]] = "fifo" =>
          /\ writing[s].tot = 0 /\ writing[s].n > opened[s]
          /\ \A k \in DOMAIN content[s] : writing[s].n > content[s][k].n
    BY <1>1, <1>2, <1>4 DEF WritingRight, Refuses
  <2>4. /\ content' \in [Sides -> Seq(Item)]
        /\ astray' \in [Sides -> SUBSET (Nat \X (Fds \cup {0, -1}))]
        /\ ContentRight(s)' /\ FifoRight(s)' /\ CauseKnown(s)'
        /\ \A k \in Taken(s)' : k \in Taken(s) \cup {writing[s].n, writing'[s].n}
        /\ \A o \in Sides \ {s} : content'[o] = content[o] /\ astray'[o] = astray[o]
    BY <1>1, <1>4, <2>1, <2>3, PutKeeps
  <2>5. StrTypes'
    BY <1>1, <2>2, <2>4 DEF StrTypes
  <2>6. \A k \in Taken(s)' : k \in Taken(s) \/ k = 0
    <3>1. writing[s].n \in Taken(s)
      BY DEF Taken
    <3>2. writing'[s].n = 0
      BY <2>2 DEF NotWriting
    <3>3. QED
      BY <2>4, <3>1, <3>2
  <2>7. WireOrdered(s)'
    <3>1. ASSUME NEW k \in Taken(s)'
          PROVE  k <= sentTotal /\ \A i \in DOMAIN wire[s] : k < wire[s][i].n
      <4>1. CASE k = 0
        BY <1>2, <4>1 DEF WireOrdered
      <4>2. CASE k \in Taken(s)
        BY <1>2, <4>2 DEF WireOrdered
      <4>3. QED
        BY <2>6, <4>1, <4>2
    <3>2. QED
      BY <1>1, <1>2, <3>1 DEF WireOrdered
  <2>8. SideInv(s)'
    BY <2>2, <2>4, <2>7 DEF SideInv, WritingRight
  <2>9. \A o \in Sides \ {s} : Untouched(o) /\ wire'[o] = wire[o]
    BY <1>1, <2>2, <2>4 DEF Untouched
  <2>10. QED
    BY <1>1, <2>5, <2>8, <2>9, OneSide
<1>5. QED
  BY <1>3, <1>4 DEF Write

LEMMA PlainKeeps ==
  ASSUME StreamsInv, NEW s \in Sides, RecvPlain(s)
  PROVE  StreamsInv'
<1> USE StreamsAssumption, SidesOfStream DEF StreamsInv
<1> DEFINE m == [n |-> Head(wire[s]).n, tot |-> 0]
<1>1. /\ Takes(s, "plain") /\ writing[s] = NotWriting
      /\ wire' = [wire EXCEPT ![s] = Tail(@)]
      /\ UNCHANGED <<flag, fifo, sentTotal, writing, opened, stops, appLives>>
  BY DEF RecvPlain, Takes
<1>2. wire' \in [Sides -> Seq(WireMessage)] /\ m.n \in Nat /\ m \in Item
  BY <1>1, TakesTypes DEF Item
<1>3. \A o \in Sides \ {s} : wire'[o] = wire[o]
  BY <1>1 DEF StrTypes
<1>4. \A k \in Taken(s) : k < m.n
  BY <1>1, HeadLater
<1>5. CASE UNCHANGED <<use, content, astray, cut, broken>>
  <2>1. UNCHANGED <<use, content, astray, cut, broken>>
    BY <1>5
  <2>2. StrTypes'
    BY <1>1, <1>2, <2>1 DEF StrTypes
  <2>3. \A o \in Sides : Untouched(o)
    BY <1>1, <2>1 DEF Untouched
  <2>4. WireOrdered(s)'
    BY <1>1, <2>3, TakenUntouched, TakesOrder
  <2>5. SideInv(s)'
    BY <2>3, <2>4, SideUntouched
  <2>6. QED
    BY <1>1, <1>3, <2>2, <2>3, <2>5, OneSide
<1>6. CASE /\ fifo[s] > 0 /\ FifoClose(s)
           /\ broken' = [broken EXCEPT ![s] = @ + 1] /\ UNCHANGED astray
  <2>1. FifoClose(s) /\ broken' = [broken EXCEPT ![s] = @ + 1] /\ UNCHANGED astray
    BY <1>6
  <2>2. /\ broken' \in [Sides -> Nat] /\ broken'[s] = broken[s] + 1
        /\ \A o \in Sides \ {s} : broken'[o] = broken[o]
    BY <2>1 DEF StrTypes
  <2>3. StrTypes'
    BY <1>1, <1>2, <2>1, <2>2, CloseTypes DEF StrTypes
  <2>5. stops'[s] + broken'[s] = stops[s] + broken[s] + 1
    BY <1>1, <2>2 DEF StrTypes
  <2>6. /\ ContentRight(s)' /\ FifoRight(s)' /\ CauseKnown(s)' /\ WritingRight(s)'
        /\ Taken(s)' \subseteq Taken(s)
        /\ \A o \in Sides \ {s} : use'[o] = use[o] /\ cut'[o] = cut[o] /\ content'[o] = content[o]
    BY <1>1, <1>6, <2>1, <2>3, <2>5, CloseKeeps
  <2>7. WireOrdered(s)'
    BY <1>1, <2>6, TakesOrder
  <2>8. SideInv(s)'
    BY <2>6, <2>7 DEF SideInv
  <2>9. \A o \in Sides \ {s} : Untouched(o)
    BY <1>1, <2>1, <2>2, <2>6 DEF Untouched
  <2>10. QED
    BY <1>1, <1>3, <2>3, <2>8, <2>9, OneSide
<1>7. CASE ~Refuses(s) /\ Put(s, m) /\ UNCHANGED <<use, cut, broken>>
  <2>1. Put(s, m) /\ UNCHANGED <<use, cut, broken>>
    BY <1>7
  <2>2. /\ m.n > opened[s] /\ \A k \in DOMAIN content[s] : m.n > content[s][k].n
    BY <1>2, <1>4, TakenTypes DEF Taken
  <2>3. /\ content' \in [Sides -> Seq(Item)]
        /\ astray' \in [Sides -> SUBSET (Nat \X (Fds \cup {0, -1}))]
        /\ ContentRight(s)' /\ FifoRight(s)' /\ CauseKnown(s)'
        /\ \A k \in Taken(s)' : k \in Taken(s) \cup {m.n, writing'[s].n}
        /\ \A o \in Sides \ {s} : content'[o] = content[o] /\ astray'[o] = astray[o]
    BY <1>1, <1>2, <1>7, <2>1, <2>2, PutKeeps
  <2>4. StrTypes'
    BY <1>1, <1>2, <2>1, <2>3 DEF StrTypes
  <2>5. \A k \in Taken(s)' : k \in Taken(s) \/ k = Head(wire[s]).n
    BY <1>1, <2>3 DEF Taken
  <2>6. WireOrdered(s)'
    BY <1>1, <2>5, TakesOrder
  <2>7. WritingRight(s)'
    BY <1>1 DEF WritingRight
  <2>8. SideInv(s)'
    BY <2>3, <2>6, <2>7 DEF SideInv
  <2>9. \A o \in Sides \ {s} : Untouched(o)
    BY <1>1, <2>1, <2>3 DEF Untouched
  <2>10. QED
    BY <1>1, <1>3, <2>4, <2>8, <2>9, OneSide
<1>8. QED
  BY <1>5, <1>6, <1>7 DEF RecvPlain

\* A descriptor that is free is not the fifo, unless it was closed.
LEMMA OpenConnKeeps ==
  ASSUME StreamsInv, NEW s \in Sides, OpenConn(s)
  PROVE  StreamsInv'
<1> USE StreamsAssumption, SidesOfStream DEF StreamsInv
<1>1. PICK f \in Fds : use[s][f] = "closed" /\ use' = [use EXCEPT ![s][f] = "conn"]
  BY DEF OpenConn
<1>2. UNCHANGED <<flag, fifo, content, wire, sentTotal, writing, astray, opened, stops,
                  broken, cut, appLives>>
  BY DEF OpenConn
<1>3. [use[s] EXCEPT ![f] = "conn"] \in [Fds \cup {0, -1} -> Uses]
  BY DEF StrTypes, Uses
<1>4. StrTypes'
  BY <1>1, <1>2, <1>3 DEF StrTypes
<1>5. /\ use'[s][f] = "conn" /\ f > 0 /\ \A g \in Fds \cup {0, -1} : g # f => use'[s][g] = use[s][g]
      /\ \A o \in Sides \ {s} : use'[o] = use[o]
      /\ fifo[s] \in Fds \cup {0, -1}
  BY <1>1 DEF StrTypes
<1>6. FifoRight(s)'
  BY <1>1, <1>2, <1>5 DEF SideInv, FifoRight
<1>7. WritingRight(s)'
  BY <1>1, <1>2, <1>5 DEF SideInv, WritingRight
<1>8. Taken(s)' = Taken(s)
  BY <1>2 DEF Taken
<1>9. WireOrdered(s)'
  BY <1>2, <1>8 DEF SideInv, WireOrdered
<1>10. SideInv(s)'
  BY <1>2, <1>6, <1>7, <1>9 DEF SideInv, ContentRight, CauseKnown
<1>11. \A o \in Sides \ {s} : Untouched(o) /\ wire'[o] = wire[o]
  BY <1>2, <1>5 DEF Untouched
<1>12. QED
  BY <1>2, <1>4, <1>10, <1>11, OneSide

LEMMA StreamsStep == StreamsInv /\ [StrNext]_strVars => StreamsInv'
<1> SUFFICES ASSUME StreamsInv, [StrNext]_strVars PROVE StreamsInv'
  OBVIOUS
<1>1. ASSUME NEW s \in Sides, CoreEpStreamStart(s) PROVE StreamsInv'
  BY <1>1, SendKeeps DEF CoreEpStreamStart, StreamsInv, StrTypes
<1>2. ASSUME NEW s \in Sides, CoreEpStreamStop(s) PROVE StreamsInv'
  BY <1>2, SendKeeps DEF CoreEpStreamStop, StreamsInv, StrTypes
<1>3. ASSUME NEW s \in Sides, CoreEpStreamSend(s) PROVE StreamsInv'
  BY <1>3, SendKeeps DEF CoreEpStreamSend, StreamsInv, StrTypes
<1>4. ASSUME NEW s \in Sides, CoreEpSendMessage(s) PROVE StreamsInv'
  BY <1>4, SendKeeps DEF CoreEpSendMessage, StreamsInv, StrTypes
<1>5. ASSUME NEW s \in Sides, Receives(s) \/ OpenConn(s) PROVE StreamsInv'
  BY <1>5, StartKeeps, StopKeeps, DataKeeps, WriteKeeps, PlainKeeps, OpenConnKeeps DEF Receives
<1>6. CASE UNCHANGED strVars
  <2>1. \A o \in Sides : Untouched(o) /\ Taken(o)' = Taken(o)
    BY <1>6, TakenUntouched DEF strVars, Untouched
  <2>2. \A o \in Sides : WireOrdered(o)'
    BY <1>6, <2>1 DEF strVars, StreamsInv, SideInv, WireOrdered
  <2>3. StrTypes'
    BY <1>6 DEF strVars, StreamsInv, StrTypes
  <2>4. QED
    BY <2>1, <2>2, <2>3, SideUntouched DEF StreamsInv
<1>7. QED
  BY <1>1, <1>2, <1>3, <1>4, <1>5, <1>6 DEF StrNext, Receives

\* Of any two ends, any descriptors and any size of the fifo: what is in a fifo
\* was sent after the start that opened it, in the order in which it was sent,
\* and what went elsewhere did so after a stop, after a message that could not
\* be written, or before there was a fifo (recv_stream_* and fifo_send_message).
THEOREM StreamsWrittenRight == StrSpec => []WrittenRight
<1>1. StrInit => StreamsInv
  BY StreamsInitial
<1>2. StreamsInv /\ [StrNext]_strVars => StreamsInv'
  BY StreamsStep
<1>3. StreamsInv => WrittenRight
  <2> SUFFICES ASSUME StreamsInv PROVE WrittenRight
    OBVIOUS
  <2>1. StreamInOrder
    BY DEF StreamsInv, SideInv, ContentRight, StreamInOrder
  <2>2. AstrayHasCause
    BY DEF StreamsInv, SideInv, CauseKnown, AstrayHasCause
  <2>3. QED
    BY <2>1, <2>2 DEF WrittenRight
<1>4. QED
  BY <1>1, <1>2, <1>3, PTL DEF StrSpec

\* The types of the state of a stream, for any sizes.
THEOREM StreamsTypes == StrSpec => []StrTypeOK
<1>1. StrInit => StreamsInv
  BY StreamsInitial
<1>2. StreamsInv /\ [StrNext]_strVars => StreamsInv'
  BY StreamsStep
<1>3. StreamsInv => StrTypeOK
  BY DEF StreamsInv, SideInv, StrTypes, FifoRight, StrTypeOK
<1>4. QED
  BY <1>1, <1>2, <1>3, PTL DEF StrSpec

-----------------------------------------------------------------------------
(* Discovery: whose answer a lookup takes.                                  *)

RdcMessage == [kind : {"register", "lookup"}, n : Nat]

DscTypes ==
  /\ added \subseteq Rdcs /\ commands \in Nat
  /\ dscPc \in {"idle", "register", "lookup", "polling"} /\ (dscPc # "idle" => commands > 0)
  /\ lookState \in [Rdcs -> {"UNREG", "LOOKUP", "REG"}]
  /\ regMaps \in [Rdcs -> Nat] /\ lookMaps \in [Rdcs -> Nat]
  /\ toRdc \in [Rdcs -> Seq(RdcMessage)]
  /\ fromRdc \in [Rdcs -> Seq(Nat)]
  /\ result \in [Rdcs -> Nat] /\ lookedUp \in [Rdcs -> Nat]

\* No lookup up to number n is doubtful at r.
Clean(r, n) == \A k \in 1..n : <<r, k>> \notin doubtful

\* Lookups on their way to RDC r, and answers on their way from it.
Asking(r) == {i \in DOMAIN toRdc[r] : toRdc[r][i].kind = "lookup"}
CleanAsking(r) == {i \in Asking(r) : Clean(r, toRdc[r][i].n)}
CleanAnswers(r) == {i \in DOMAIN fromRdc[r] : Clean(r, fromRdc[r][i])}

PollingAt(r) == dscPc = "polling" /\ RdcOrder[dscAt] = r

\* Lookups have the numbers of commands, and while one is waited for at r it is
\* the last of those made there.
Numbered(r) ==
  /\ \A i \in Asking(r) : toRdc[r][i].n \in 1..commands
  /\ \A i \in DOMAIN fromRdc[r] : fromRdc[r][i] \in 1..commands
  /\ PollingAt(r) => /\ \A i \in Asking(r) : toRdc[r][i].n <= lookedUp[r]
                     /\ \A i \in DOMAIN fromRdc[r] : fromRdc[r][i] <= lookedUp[r]

\* Only the lookup that is waited for can be without a doubt.
CleanIsAwaited(r) ==
  /\ CleanAsking(r) # {} \/ CleanAnswers(r) # {} => PollingAt(r) /\ lookState[r] # "REG"
  /\ \A i \in CleanAsking(r) : toRdc[r][i].n = lookedUp[r]
  /\ \A i \in CleanAnswers(r) : fromRdc[r][i] = lookedUp[r]

\* And there is one copy of it.
CleanIsOne(r) ==
  /\ CleanAsking(r) = {} \/ CleanAnswers(r) = {}
  /\ \A i, j \in CleanAsking(r) : i = j
  /\ \A i, j \in CleanAnswers(r) : i = j

ResultRight(r) == result[r] # 0 => result[r] = lookedUp[r] \/ ~Clean(r, result[r])

RdcRight(r) == Numbered(r) /\ CleanIsAwaited(r) /\ CleanIsOne(r) /\ ResultRight(r)

DiscoveryInv == DscTypes /\ \A r \in Rdcs : RdcRight(r)

LEMMA DiscoveryInitial == DscInit => DiscoveryInv
<1> SUFFICES ASSUME DscInit PROVE DiscoveryInv
  OBVIOUS
<1>1. \A S : <<>> \in Seq(S)
  OBVIOUS
<1>2. DscTypes
  BY <1>1 DEF DscInit, DscTypes
<1>3. ASSUME NEW r \in Rdcs PROVE RdcRight(r)
  <2>1. /\ toRdc[r] = <<>> /\ fromRdc[r] = <<>> /\ result[r] = 0
    BY DEF DscInit
  <2>2. Asking(r) = {} /\ CleanAsking(r) = {} /\ CleanAnswers(r) = {}
    BY <2>1 DEF Asking, CleanAsking, CleanAnswers
  <2>3. QED
    BY <2>1, <2>2 DEF RdcRight, Numbered, CleanIsAwaited, CleanIsOne, ResultRight
<1>4. QED
  BY <1>2, <1>3 DEF DiscoveryInv

LEMMA QueueTypes ==
  ASSUME DscTypes, NEW r \in Rdcs
  PROVE  /\ toRdc[r] \in Seq(RdcMessage) /\ fromRdc[r] \in Seq(Nat)
         /\ \A i \in DOMAIN toRdc[r] : toRdc[r][i] \in RdcMessage /\ toRdc[r][i].n \in Nat
         /\ \A i \in DOMAIN fromRdc[r] : fromRdc[r][i] \in Nat
         /\ lookedUp[r] \in Nat /\ result[r] \in Nat /\ commands \in Nat
<1>1. \A i \in DOMAIN toRdc[r] : toRdc[r][i] \in RdcMessage
  BY DEF DscTypes
<1>2. QED
  BY <1>1 DEF DscTypes, RdcMessage

\* A doubt is never taken back.
LEMMA DoubtStays ==
  ASSUME doubtful \subseteq doubtful', NEW r, NEW n
  PROVE  Clean(r, n)' => Clean(r, n)
  BY DEF Clean

\* A step that leaves the lookups of r alone, and what comes from there.
LEMMA RdcLeftAlone ==
  ASSUME DiscoveryInv, NEW r \in Rdcs, doubtful \subseteq doubtful',
         Asking(r)' = Asking(r), \A i \in Asking(r) : toRdc'[r][i] = toRdc[r][i],
         fromRdc'[r] = fromRdc[r],
         lookedUp'[r] = lookedUp[r], result'[r] = result[r],
         commands' \in Nat, commands' >= commands,
         \/ PollingAt(r)' = PollingAt(r) /\ lookState'[r] \in {lookState[r], "UNREG"}
         \/ ~PollingAt(r)' /\ CleanAsking(r)' = {} /\ CleanAnswers(r)' = {}
  PROVE  RdcRight(r)'
<1>1. RdcRight(r) /\ commands \in Nat
  BY DEF DiscoveryInv, DscTypes
<1>2. Asking(r)' = Asking(r)
  OBVIOUS
<1>3. CleanAsking(r)' \subseteq CleanAsking(r) /\ CleanAnswers(r)' \subseteq CleanAnswers(r)
  BY <1>2, DoubtStays DEF CleanAsking, CleanAnswers
<1>4. Numbered(r)'
  <2>1. /\ \A i \in Asking(r) : toRdc[r][i].n \in 1..commands'
        /\ \A i \in DOMAIN fromRdc[r] : fromRdc[r][i] \in 1..commands'
    BY <1>1 DEF RdcRight, Numbered
  <2>2. QED
    BY <1>1, <1>2, <2>1 DEF RdcRight, Numbered
<1>5. CleanIsAwaited(r)'
  <2>1. /\ \A i \in CleanAsking(r) : toRdc'[r][i] = toRdc[r][i]
        /\ \A i \in CleanAnswers(r) : fromRdc'[r][i] = fromRdc[r][i]
    BY DEF CleanAsking
  <2>2. /\ \A i \in CleanAsking(r)' : toRdc'[r][i].n = lookedUp'[r]
        /\ \A i \in CleanAnswers(r)' : fromRdc'[r][i] = lookedUp'[r]
    BY <1>1, <1>3, <2>1 DEF RdcRight, CleanIsAwaited
  <2>3. CleanAsking(r)' # {} \/ CleanAnswers(r)' # {} => PollingAt(r)' /\ lookState'[r] # "REG"
    BY <1>1, <1>3 DEF RdcRight, CleanIsAwaited
  <2>4. QED
    BY <2>2, <2>3 DEF CleanIsAwaited
<1>6. CleanIsOne(r)'
  BY <1>1, <1>3 DEF RdcRight, CleanIsOne
<1>7. ResultRight(r)'
  BY <1>1, DoubtStays DEF RdcRight, ResultRight
<1>8. QED
  BY <1>4, <1>5, <1>6, <1>7 DEF RdcRight

\* Steps that touch no queue and no lookup.
LEMMA QueuesLeftAlone ==
  ASSUME DiscoveryInv, UNCHANGED <<toRdc, fromRdc, lookedUp, result, doubtful>>, DscTypes',
         commands' >= commands,
         \/ dscPc' = dscPc /\ dscAt' = dscAt
         \/ dscPc # "polling" /\ dscPc' # "polling",
         \A r \in Rdcs : lookState'[r] \in {lookState[r], "UNREG"}
  PROVE  DiscoveryInv'
<1>1. \A r \in Rdcs : PollingAt(r)' = PollingAt(r)
  BY DEF PollingAt
<1>2. commands' \in Nat
  BY DEF DscTypes
<1>3. \A r \in Rdcs : Asking(r)' = Asking(r)
  BY DEF Asking
<1>4. \A r \in Rdcs : RdcRight(r)'
  BY <1>1, <1>2, <1>3, RdcLeftAlone
<1>5. QED
  BY <1>4 DEF DiscoveryInv

LEMMA SimpleStepsKeep ==
  ASSUME DiscoveryInv,
         \/ Begin("register") \/ Begin("lookup") \/ Skip("register") \/ Skip("lookup")
         \/ \E r \in Rdcs : CoreAddRdc(r) \/ LookupUnmaps(r) \/ RdcStarts(r)
         \/ \E name \in DefaultEndpoints : DefaultEndpoint(name)
  PROVE  DiscoveryInv'
<1> DEFINE rest == /\ UNCHANGED <<toRdc, fromRdc, lookedUp, result, doubtful>>
                   /\ commands' >= commands
                   /\ \A q \in Rdcs : lookState'[q] \in {lookState[q], "UNREG"}
<1> USE DEF DiscoveryInv
<1>1. CASE Begin("register") \/ Begin("lookup")
  <2>1. /\ dscPc = "idle" /\ dscPc' \in {"register", "lookup"} /\ commands' = commands + 1
        /\ UNCHANGED <<added, lookup, network>>
    BY <1>1 DEF Begin
  <2>2. DscTypes'
    BY <2>1 DEF DscTypes, lookup, network
  <2>3. rest
    BY <2>1, <2>2 DEF DscTypes, lookup, network
  <2>4. QED
    BY <2>1, <2>2, <2>3, QueuesLeftAlone
<1>2. CASE Skip("register") \/ Skip("lookup")
  <2>1. /\ dscPc # "polling" /\ dscPc' \in {"idle", dscPc} /\ UNCHANGED <<added, lookup, network, commands>>
    BY <1>2 DEF Skip
  <2>2. DscTypes'
    BY <2>1 DEF DscTypes, lookup, network
  <2>3. rest
    BY <2>1, <2>2 DEF DscTypes, lookup, network
  <2>4. QED
    BY <2>1, <2>2, <2>3, QueuesLeftAlone
<1>3. ASSUME NEW r \in Rdcs, CoreAddRdc(r) PROVE DiscoveryInv'
  <2>1. /\ commands' = commands + 1 /\ added' = added \cup {r}
        /\ lookState' = [lookState EXCEPT ![r] = "UNREG"]
        /\ UNCHANGED <<dscPc, dscAt, network, result, lookedUp, doubtful>>
    BY <1>3 DEF CoreAddRdc
  <2>2. DscTypes'
    BY <2>1 DEF DscTypes, network
  <2>3. \A q \in Rdcs : lookState'[q] \in {lookState[q], "UNREG"}
    BY <2>1 DEF DscTypes
  <2>4. rest
    BY <2>1, <2>2, <2>3 DEF DscTypes, network
  <2>5. QED
    BY <2>1, <2>2, <2>3, <2>4, QueuesLeftAlone
<1>4. ASSUME NEW r \in Rdcs, LookupUnmaps(r) \/ RdcStarts(r) PROVE DiscoveryInv'
  <2>1. UNCHANGED <<added, lookState, dscPc, dscAt, regMaps, lookMaps, toRdc, fromRdc, result,
                    lookedUp, doubtful, commands>>
    BY <1>4 DEF LookupUnmaps, RdcStarts, network, lookup
  <2>2. DscTypes'
    BY <2>1 DEF DscTypes
  <2>3. rest
    BY <2>1, <2>2 DEF DscTypes
  <2>4. QED
    BY <2>1, <2>2, <2>3, QueuesLeftAlone
<1>5. ASSUME NEW name, DefaultEndpoint(name) PROVE DiscoveryInv'
  <2>1. /\ commands' = commands + 1
        /\ \/ UNCHANGED <<added, lookState>>
           \/ \E r \in Rdcs : /\ added' = added \cup {r}
                              /\ lookState' = [lookState EXCEPT ![r] = "UNREG"]
        /\ UNCHANGED <<dscPc, dscAt, network, result, lookedUp, doubtful>>
    BY <1>5 DEF DefaultEndpoint
  <2>2. added' \subseteq Rdcs /\ lookState' \in [Rdcs -> {"UNREG", "LOOKUP", "REG"}]
    BY <2>1 DEF DscTypes
  <2>3. DscTypes'
    BY <2>1, <2>2 DEF DscTypes, network
  <2>4. \A q \in Rdcs : lookState'[q] \in {lookState[q], "UNREG"}
    BY <2>1 DEF DscTypes
  <2>5. rest
    BY <2>1, <2>3, <2>4 DEF DscTypes, network
  <2>6. QED
    BY <2>1, <2>3, <2>4, <2>5, QueuesLeftAlone
<1>6. QED
  BY <1>1, <1>2, <1>3, <1>4, <1>5

-----------------------------------------------------------------------------
(* The commands. *)

LEMMA CopiesAtEnd ==
  ASSUME NEW S, NEW q \in Seq(S), NEW k \in Nat, NEW m \in S, NEW longer,
         longer = q \o [i \in 1..k |-> m]
  PROVE  /\ longer \in Seq(S)
         /\ \A i \in DOMAIN q : i \in DOMAIN longer /\ longer[i] = q[i]
         /\ \A i \in DOMAIN longer : \/ i \in DOMAIN q
                                     \/ i \in Len(q) + 1 .. Len(q) + k /\ longer[i] = m
<1> DEFINE copies == [i \in 1..k |-> m]
<1>1. copies \in Seq(S) /\ Len(copies) = k
  OBVIOUS
<1>2. longer \in Seq(S) /\ Len(longer) = Len(q) + k /\ DOMAIN longer = 1 .. Len(q) + k
  BY <1>1
<1>3. Len(q) \in Nat /\ DOMAIN q = 1 .. Len(q)
  OBVIOUS
<1>4. \A i \in 1 .. Len(q) : longer[i] = q[i]
  BY <1>1
<1>5. \A i \in Len(q) + 1 .. Len(q) + k : longer[i] = copies[i - Len(q)] /\ i - Len(q) \in 1..k
  BY <1>1, <1>3
<1>6. \A i \in DOMAIN q : i \in DOMAIN longer /\ longer[i] = q[i]
  BY <1>2, <1>3, <1>4
<1>7. \A i \in DOMAIN longer : \/ i \in DOMAIN q
                               \/ i \in Len(q) + 1 .. Len(q) + k /\ longer[i] = m
  BY <1>2, <1>3, <1>5
<1>8. QED
  BY <1>2, <1>6, <1>7

LEMMA SendOverFacts ==
  ASSUME DscTypes, NEW maps \in [Rdcs -> Nat], NEW m \in RdcMessage, toRdc' = SendOver(maps, m)
  PROVE  /\ toRdc' \in [Rdcs -> Seq(RdcMessage)]
         /\ \A q \in Rdcs :
              /\ \A i \in DOMAIN toRdc[q] : i \in DOMAIN toRdc'[q] /\ toRdc'[q][i] = toRdc[q][i]
              /\ \A i \in DOMAIN toRdc'[q] :
                   \/ i \in DOMAIN toRdc[q]
                   \/ i \in Len(toRdc[q]) + 1 .. Len(toRdc[q]) + maps[q] /\ toRdc'[q][i] = m
<1>1. \A q \in Rdcs : toRdc[q] \in Seq(RdcMessage) /\ maps[q] \in Nat
  BY DEF DscTypes
<1>2. \A q \in Rdcs : toRdc'[q] = toRdc[q] \o [i \in 1..maps[q] |-> m]
  BY DEF SendOver
<1>3. ASSUME NEW q \in Rdcs
      PROVE  /\ toRdc'[q] \in Seq(RdcMessage)
             /\ \A i \in DOMAIN toRdc[q] : i \in DOMAIN toRdc'[q] /\ toRdc'[q][i] = toRdc[q][i]
             /\ \A i \in DOMAIN toRdc'[q] :
                  \/ i \in DOMAIN toRdc[q]
                  \/ i \in Len(toRdc[q]) + 1 .. Len(toRdc[q]) + maps[q] /\ toRdc'[q][i] = m
  <2> DEFINE old == toRdc[q]
             new == toRdc'[q]
             k == maps[q]
  <2>1. old \in Seq(RdcMessage) /\ k \in Nat /\ new = old \o [i \in 1..k |-> m]
    BY <1>1, <1>2
  <2> HIDE DEF old, new, k
  <2>2. /\ new \in Seq(RdcMessage)
        /\ \A i \in DOMAIN old : i \in DOMAIN new /\ new[i] = old[i]
        /\ \A i \in DOMAIN new : \/ i \in DOMAIN old
                                 \/ i \in Len(old) + 1 .. Len(old) + k /\ new[i] = m
    BY <2>1, CopiesAtEnd
  <2>3. QED
    BY <2>2 DEF old, new, k
<1>4. toRdc' \in [Rdcs -> Seq(RdcMessage)]
  BY <1>3 DEF SendOver
<1>5. QED
  BY <1>3, <1>4

LEMMA MayMapTypes ==
  ASSUME NEW maps \in [Rdcs -> Nat], NEW r \in Rdcs, NEW after \in MayMap(maps, r)
  PROVE  after \in [Rdcs -> Nat]
<1>1. after = maps \/ after = [maps EXCEPT ![r] = @ + 1]
  BY DEF MayMap
<1>2. QED
  BY <1>1

LEMMA RdcRegisterKeeps ==
  ASSUME DiscoveryInv, RdcRegister
  PROVE  DiscoveryInv'
<1> DEFINE r == RdcOrder[dscAt]
           m == [kind |-> "register", n |-> 0]
<1>1. PICK maps \in MayMap(regMaps, r) :
        /\ regMaps' = maps
        /\ toRdc' = IF maps = regMaps THEN toRdc ELSE SendOver(maps, m)
  BY DEF RdcRegister
<1>2. /\ DscTypes /\ r \in Rdcs /\ dscPc = "register"
      /\ UNCHANGED <<added, lookup, dscPc, lookMaps, fromRdc, commands>>
  BY DEF RdcRegister, DiscoveryInv, DscTypes
<1>3. maps \in [Rdcs -> Nat] /\ m \in RdcMessage
  BY <1>2, MayMapTypes DEF DscTypes, RdcMessage
<1>4. /\ toRdc' \in [Rdcs -> Seq(RdcMessage)]
      /\ \A q \in Rdcs : Asking(q)' = Asking(q) /\ \A i \in Asking(q) : toRdc'[q][i] = toRdc[q][i]
  <2>1. CASE toRdc' = toRdc
    BY <1>2, <2>1 DEF DscTypes, Asking
  <2>2. CASE toRdc' = SendOver(maps, m)
    <3>1. /\ toRdc' \in [Rdcs -> Seq(RdcMessage)]
          /\ \A q \in Rdcs :
               /\ \A i \in DOMAIN toRdc[q] : i \in DOMAIN toRdc'[q] /\ toRdc'[q][i] = toRdc[q][i]
               /\ \A i \in DOMAIN toRdc'[q] : i \in DOMAIN toRdc[q] \/ toRdc'[q][i] = m
      BY <1>2, <1>3, <2>2, SendOverFacts
    <3>2. QED
      BY <3>1 DEF Asking
  <2>3. QED
    BY <1>1, <2>1, <2>2
<1>5. DscTypes'
  BY <1>1, <1>2, <1>3, <1>4 DEF DscTypes, lookup
<1>6. \A q \in Rdcs : PollingAt(q)' = PollingAt(q)
  BY <1>2 DEF PollingAt
<1>7. commands' >= commands /\ commands' \in Nat
  BY <1>2 DEF DscTypes
<1>8. \A q \in Rdcs : RdcRight(q)'
  BY <1>2, <1>4, <1>6, <1>7, RdcLeftAlone DEF lookup
<1>9. QED
  BY <1>5, <1>8 DEF DiscoveryInv

LEMMA RdcLookupKeeps ==
  ASSUME DiscoveryInv, RdcLookup
  PROVE  DiscoveryInv'
<1> DEFINE r == RdcOrder[dscAt]
           m == [kind |-> "lookup", n |-> commands]
<1>1. /\ DscTypes /\ r \in Rdcs /\ dscPc = "lookup" /\ commands \in Nat \ {0}
      /\ dscPc' = "polling" /\ dscAt' = dscAt
      /\ UNCHANGED <<added, regMaps, fromRdc, commands>>
      /\ lookState' = [lookState EXCEPT ![r] = "LOOKUP"]
      /\ lookedUp' = [lookedUp EXCEPT ![r] = commands]
      /\ result' = [result EXCEPT ![r] = 0]
  BY DEF RdcLookup, DiscoveryInv, DscTypes
<1>2. PICK maps \in MayMap(lookMaps, r) :
        /\ lookMaps' = maps
        /\ toRdc' = SendOver(maps, m)
        /\ doubtful' = doubtful \cup
             {<<s, commands>> : s \in {s \in Rdcs : maps[s] > 1 \/ (s # r /\ maps[s] > 0)}}
  BY DEF RdcLookup
<1>3. maps \in [Rdcs -> Nat] /\ m \in RdcMessage
  BY <1>1, MayMapTypes DEF DscTypes, RdcMessage
<1>4. /\ toRdc' \in [Rdcs -> Seq(RdcMessage)]
      /\ \A q \in Rdcs :
           /\ \A i \in DOMAIN toRdc[q] : i \in DOMAIN toRdc'[q] /\ toRdc'[q][i] = toRdc[q][i]
           /\ \A i \in DOMAIN toRdc'[q] :
                \/ i \in DOMAIN toRdc[q]
                \/ i \in Len(toRdc[q]) + 1 .. Len(toRdc[q]) + maps[q] /\ toRdc'[q][i] = m
  BY <1>1, <1>2, <1>3, SendOverFacts
<1>5. DscTypes'
  BY <1>1, <1>2, <1>3, <1>4 DEF DscTypes
<1>6. doubtful \subseteq doubtful'
  BY <1>2
<1>7. ASSUME NEW q \in Rdcs PROVE RdcRight(q)'
  <2>1. RdcRight(q) /\ CleanAsking(q) = {} /\ CleanAnswers(q) = {}
    BY <1>1 DEF DiscoveryInv, RdcRight, CleanIsAwaited, PollingAt
  <2>2. CleanAnswers(q)' = {}
    BY <1>1, <1>6, <2>1, DoubtStays DEF CleanAnswers
  <2>3. \A i \in Asking(q)' : \/ i \in Asking(q) /\ toRdc'[q][i] = toRdc[q][i]
                              \/ i \in Len(toRdc[q]) + 1 .. Len(toRdc[q]) + maps[q] /\ toRdc'[q][i].n = commands
    BY <1>4 DEF Asking
  <2>4. ASSUME NEW i \in CleanAsking(q)'
        PROVE  q = r /\ i = Len(toRdc[q]) + 1 /\ toRdc'[q][i].n = commands
    <3>1. i \in Asking(q)' /\ \A k \in 1..toRdc'[q][i].n : <<q, k>> \notin doubtful'
      BY DEF CleanAsking, Clean
    <3>2. ~(i \in Asking(q) /\ toRdc'[q][i] = toRdc[q][i])
      BY <1>6, <2>1, <3>1 DEF CleanAsking, Clean
    <3>3. i \in Len(toRdc[q]) + 1 .. Len(toRdc[q]) + maps[q] /\ toRdc'[q][i].n = commands
      BY <2>3, <3>1, <3>2
    <3>4. <<q, commands>> \notin doubtful'
      BY <1>1, <3>1, <3>3
    <3>5. ~(maps[q] > 1 \/ (q # r /\ maps[q] > 0))
      BY <1>2, <3>4
    <3>6. maps[q] \in Nat /\ Len(toRdc[q]) \in Nat
      BY <1>1, <1>3, QueueTypes
    <3>7. QED
      BY <3>3, <3>5, <3>6
  <2>5. /\ q = r => lookedUp'[q] = commands /\ result'[q] = 0 /\ lookState'[q] = "LOOKUP"
        /\ q # r => lookedUp'[q] = lookedUp[q] /\ result'[q] = result[q]
    BY <1>1 DEF DscTypes
  <2>6. Numbered(q)'
    <3>1. \A i \in Asking(q)' : toRdc'[q][i].n \in 1..commands
      BY <1>1, <2>1, <2>3 DEF RdcRight, Numbered
    <3>2. \A i \in DOMAIN fromRdc[q] : fromRdc[q][i] \in 1..commands
      BY <2>1 DEF RdcRight, Numbered
    <3>3. PollingAt(q)' => q = r
      BY <1>1 DEF PollingAt
    <3>4. QED
      BY <1>1, <2>5, <3>1, <3>2, <3>3 DEF Numbered
  <2>7. CleanIsAwaited(q)'
    <3>1. ASSUME CleanAsking(q)' # {} PROVE PollingAt(q)' /\ lookState'[q] # "REG"
      BY <1>1, <2>4, <2>5, <3>1 DEF PollingAt
    <3>2. \A i \in CleanAsking(q)' : toRdc'[q][i].n = lookedUp'[q]
      BY <2>4, <2>5
    <3>3. QED
      BY <2>2, <3>1, <3>2 DEF CleanIsAwaited
  <2>8. CleanIsOne(q)'
    BY <2>2, <2>4 DEF CleanIsOne
  <2>9. ResultRight(q)'
    BY <1>6, <2>1, <2>5, DoubtStays DEF RdcRight, ResultRight
  <2>10. QED
    BY <2>6, <2>7, <2>8, <2>9 DEF RdcRight
<1>8. QED
  BY <1>5, <1>7 DEF DiscoveryInv

LEMMA PollKeeps ==
  ASSUME DiscoveryInv, Poll
  PROVE  DiscoveryInv'
<1> DEFINE r == RdcOrder[dscAt]
<1>1. /\ DscTypes /\ dscPc = "polling"
      /\ UNCHANGED <<added, network, taking, result, lookedUp, commands>>
  BY DEF Poll, DiscoveryInv
<1>2. CASE PollAgain(r)
  <2>1. UNCHANGED <<dscPc, dscAt, lookState, doubtful>>
    BY <1>2 DEF Poll
  <2>2. DscTypes'
    BY <1>1, <2>1 DEF DscTypes, network
  <2>3. /\ UNCHANGED <<toRdc, fromRdc, lookedUp, result, doubtful>>
        /\ commands' >= commands
        /\ \A q \in Rdcs : lookState'[q] \in {lookState[q], "UNREG"}
    BY <1>1, <2>1 DEF DscTypes, network
  <2>4. QED
    BY <2>1, <2>2, <2>3, QueuesLeftAlone
<1>3. CASE ~PollAgain(r)
  <2>1. /\ doubtful' = IF lookState[r] # "REG" THEN doubtful \cup {<<r, lookedUp[r]>>} ELSE doubtful
        /\ lookState' = [lookState EXCEPT ![r] = "REG"]
        /\ dscPc' = "lookup"
    BY <1>3 DEF Poll
  <2>2. DscTypes'
    BY <1>1, <2>1 DEF DscTypes, network
  <2>3. doubtful \subseteq doubtful'
    BY <2>1
  <2>4. ASSUME NEW q \in Rdcs PROVE RdcRight(q)'
    <3>1. RdcRight(q)
      BY DEF DiscoveryInv
    <3>2. Asking(q)' = Asking(q) /\ UNCHANGED <<toRdc, fromRdc>>
      BY <1>1 DEF Asking, network
    <3>3. CleanAsking(q)' \subseteq CleanAsking(q) /\ CleanAnswers(q)' \subseteq CleanAnswers(q)
      BY <2>3, <3>2, DoubtStays DEF CleanAsking, CleanAnswers
    <3>4. PollingAt(q)' = FALSE /\ commands' \in Nat /\ commands' >= commands
          /\ lookedUp'[q] = lookedUp[q] /\ result'[q] = result[q]
      BY <1>1, <2>1 DEF PollingAt, DscTypes
    <3>5. CleanAsking(q)' = {} /\ CleanAnswers(q)' = {}
      <4>1. CASE q = r /\ lookState[r] # "REG"
        <5>1. <<q, lookedUp[q]>> \in doubtful' /\ lookedUp[q] \in Nat
          BY <1>1, <2>1, <4>1, QueueTypes
        <5>2. \A i \in CleanAsking(q)' : /\ toRdc[q][i].n = lookedUp[q] /\ toRdc[q][i].n \in 1..commands
                                         /\ \A k \in 1..toRdc[q][i].n : <<q, k>> \notin doubtful'
          BY <3>1, <3>2, <3>3 DEF RdcRight, CleanIsAwaited, Numbered, CleanAsking, Clean
        <5>3. \A i \in CleanAnswers(q)' : /\ fromRdc[q][i] = lookedUp[q] /\ fromRdc[q][i] \in 1..commands
                                          /\ \A k \in 1..fromRdc[q][i] : <<q, k>> \notin doubtful'
          BY <3>1, <3>2, <3>3 DEF RdcRight, CleanIsAwaited, Numbered, CleanAnswers, Clean
        <5>4. lookedUp[q] > 0 => lookedUp[q] \in 1..lookedUp[q]
          BY <5>1
        <5>5. \A i \in CleanAsking(q)' : FALSE
          BY <5>1, <5>2, <5>4
        <5>6. \A i \in CleanAnswers(q)' : FALSE
          BY <5>1, <5>3, <5>4
        <5>7. QED
          BY <5>5, <5>6
      <4>2. CASE q # r \/ lookState[r] = "REG"
        BY <3>1, <3>3, <4>2 DEF RdcRight, CleanIsAwaited, PollingAt
      <4>3. QED
        BY <4>1, <4>2
    <3>6. QED
      BY <2>3, <3>2, <3>4, <3>5, RdcLeftAlone
  <2>5. QED
    BY <2>2, <2>4 DEF DiscoveryInv
<1>4. QED
  BY <1>2, <1>3

-----------------------------------------------------------------------------
(* The answers, and the RDC. *)

LEMMA RemoveFacts ==
  ASSUME NEW S, NEW q \in Seq(S), NEW i \in DOMAIN q
  PROVE  /\ RemoveAt(q, i) \in Seq(S)
         /\ \A k \in DOMAIN RemoveAt(q, i) :
              \/ k < i /\ k \in DOMAIN q /\ RemoveAt(q, i)[k] = q[k]
              \/ k >= i /\ k + 1 \in DOMAIN q /\ RemoveAt(q, i)[k] = q[k + 1]
<1> DEFINE before == SubSeq(q, 1, i - 1)
           after == SubSeq(q, i + 1, Len(q))
<1>1. Len(q) \in Nat /\ DOMAIN q = 1 .. Len(q) /\ i \in 1 .. Len(q)
  OBVIOUS
<1>2. before \in Seq(S) /\ Len(before) = i - 1 /\ \A k \in 1 .. i - 1 : before[k] = q[k]
  BY <1>1
<1>3. after \in Seq(S) /\ Len(after) = Len(q) - i /\ \A k \in 1 .. Len(q) - i : after[k] = q[i + k]
  BY <1>1
<1> HIDE DEF before, after
<1>4. /\ before \o after \in Seq(S)
      /\ DOMAIN (before \o after) = 1 .. Len(q) - 1
      /\ \A k \in 1 .. Len(q) - 1 :
           (before \o after)[k] = IF k <= i - 1 THEN before[k] ELSE after[k - (i - 1)]
  <2>1. /\ before \o after \in Seq(S) /\ Len(before \o after) = Len(before) + Len(after)
        /\ \A k \in 1 .. Len(before) + Len(after) :
             (before \o after)[k] = IF k <= Len(before) THEN before[k] ELSE after[k - Len(before)]
    BY <1>2, <1>3, ConcatProperties
  <2>2. (i - 1) + (Len(q) - i) = Len(q) - 1
    BY <1>1
  <2>3. Len(before \o after) = Len(q) - 1
    BY <1>2, <1>3, <2>1, <2>2
  <2>4. DOMAIN (before \o after) = 1 .. Len(before \o after)
    BY <2>1
  <2>5. QED
    BY <1>2, <1>3, <2>1, <2>2, <2>3, <2>4
<1>5. \A k \in 1 .. Len(q) - 1 :
        \/ k < i /\ k \in DOMAIN q /\ (before \o after)[k] = q[k]
        \/ k >= i /\ k + 1 \in DOMAIN q /\ (before \o after)[k] = q[k + 1]
  <2>1. ASSUME NEW k \in 1 .. Len(q) - 1, k < i
        PROVE  k \in DOMAIN q /\ (before \o after)[k] = q[k]
    <3>1. k \in 1 .. i - 1 /\ k <= i - 1 /\ k \in DOMAIN q
      BY <1>1, <2>1
    <3>2. QED
      BY <1>2, <1>4, <3>1
  <2>2. ASSUME NEW k \in 1 .. Len(q) - 1, ~(k < i)
        PROVE  k >= i /\ k + 1 \in DOMAIN q /\ (before \o after)[k] = q[k + 1]
    <3>1. k - (i - 1) \in 1 .. Len(q) - i /\ i + (k - (i - 1)) = k + 1 /\ ~(k <= i - 1)
      BY <1>1, <2>2
    <3>2. (before \o after)[k] = after[k - (i - 1)]
      BY <1>4, <3>1
    <3>3. after[k - (i - 1)] = q[k + 1]
      BY <1>3, <3>1
    <3>4. k >= i /\ k + 1 \in DOMAIN q
      BY <1>1, <2>2
    <3>5. QED
      BY <3>2, <3>3, <3>4
  <2>3. QED
    BY <2>1, <2>2
<1>6. RemoveAt(q, i) = before \o after
  BY DEF RemoveAt, before, after
<1>7. QED
  BY <1>4, <1>5, <1>6

LEMMA LookupHandlerKeeps ==
  ASSUME DiscoveryInv, NEW r \in Rdcs, LookupHandler(r)
  PROVE  DiscoveryInv'
<1>1. /\ DscTypes /\ RdcRight(r)
      /\ UNCHANGED <<added, dscPc, dscAt, regMaps, lookMaps, toRdc, lookedUp, doubtful, commands>>
  BY DEF LookupHandler, DiscoveryInv
<1>2. PICK i \in DOMAIN fromRdc[r] :
        /\ fromRdc' = [fromRdc EXCEPT ![r] = RemoveAt(@, i)]
        /\ IF lookState[r] = "LOOKUP"
           THEN /\ result' = [result EXCEPT ![r] = fromRdc[r][i]]
                /\ lookState' = [lookState EXCEPT ![r] = "REG"]
           ELSE UNCHANGED <<result, lookState>>
  BY DEF LookupHandler
<1> DEFINE a == fromRdc[r][i]
<1>3. fromRdc[r] \in Seq(Nat) /\ a \in Nat
  BY <1>1, QueueTypes
<1>4. /\ fromRdc'[r] \in Seq(Nat)
      /\ \A k \in DOMAIN fromRdc'[r] :
           \/ k < i /\ k \in DOMAIN fromRdc[r] /\ fromRdc'[r][k] = fromRdc[r][k]
           \/ k >= i /\ k + 1 \in DOMAIN fromRdc[r] /\ fromRdc'[r][k] = fromRdc[r][k + 1]
  <2>1. fromRdc'[r] = RemoveAt(fromRdc[r], i)
    BY <1>1, <1>2 DEF DscTypes
  <2>2. QED
    BY <1>3, <2>1, RemoveFacts
<1>5. DscTypes'
  <2>1. fromRdc' \in [Rdcs -> Seq(Nat)]
    BY <1>1, <1>2, <1>4 DEF DscTypes
  <2>2. result' \in [Rdcs -> Nat] /\ lookState' \in [Rdcs -> {"UNREG", "LOOKUP", "REG"}]
    BY <1>1, <1>2, <1>3 DEF DscTypes
  <2>3. QED
    BY <1>1, <2>1, <2>2 DEF DscTypes
<1>6. \A q \in Rdcs : Asking(q)' = Asking(q) /\ CleanAsking(q)' = CleanAsking(q)
                      /\ PollingAt(q)' = PollingAt(q)
  BY <1>1 DEF Asking, CleanAsking, Clean, PollingAt
<1>7. ASSUME NEW q \in Rdcs, q # r PROVE RdcRight(q)'
  <2>1. /\ fromRdc'[q] = fromRdc[q] /\ result'[q] = result[q] /\ lookState'[q] = lookState[q]
        /\ commands' \in Nat /\ commands' >= commands
    BY <1>1, <1>2, <1>7 DEF DscTypes
  <2>2. QED
    BY <1>1, <1>6, <2>1, RdcLeftAlone
<1>8. RdcRight(r)'
  <2>1. \A k \in CleanAnswers(r)' :
          /\ k \in DOMAIN fromRdc'[r]
          /\ \/ k < i /\ k \in CleanAnswers(r) /\ fromRdc'[r][k] = fromRdc[r][k]
             \/ k >= i /\ k + 1 \in CleanAnswers(r) /\ fromRdc'[r][k] = fromRdc[r][k + 1]
    BY <1>1, <1>4 DEF CleanAnswers, Clean
  <2>2. Numbered(r)'
    <3>1. \A k \in DOMAIN fromRdc'[r] : \E j \in DOMAIN fromRdc[r] : fromRdc'[r][k] = fromRdc[r][j]
      BY <1>4
    <3>2. QED
      BY <1>1, <1>6, <3>1 DEF RdcRight, Numbered
  <2>3. CASE lookState[r] # "LOOKUP"
    <3>1. result'[r] = result[r] /\ lookState'[r] = lookState[r]
      BY <1>2, <2>3
    <3>2. CleanIsAwaited(r)'
      <4>1. \A k \in CleanAnswers(r)' : fromRdc'[r][k] = lookedUp[r] /\ CleanAnswers(r) # {}
        BY <1>1, <2>1 DEF RdcRight, CleanIsAwaited
      <4>2. QED
        BY <1>1, <1>6, <3>1, <4>1 DEF RdcRight, CleanIsAwaited
    <3>3. CleanIsOne(r)'
      <4>1. \A j, k \in CleanAnswers(r)' : j = k
        <5>1. \A k \in DOMAIN fromRdc'[r] : k \in Nat
          BY <1>4
        <5>2. i \in Nat
          BY <1>3
        <5>3. \A k \in CleanAnswers(r)' : k \in Nat
          BY <2>1, <5>1
        <5>4. QED
          BY <1>1, <2>1, <5>2, <5>3 DEF RdcRight, CleanIsOne
      <4>2. CleanAnswers(r) = {} => CleanAnswers(r)' = {}
        BY <2>1
      <4>3. QED
        BY <1>1, <1>6, <4>1, <4>2 DEF RdcRight, CleanIsOne
    <3>4. ResultRight(r)'
      BY <1>1, <3>1 DEF RdcRight, ResultRight, Clean
    <3>5. QED
      BY <2>2, <3>2, <3>3, <3>4 DEF RdcRight
  <2>4. CASE lookState[r] = "LOOKUP"
    <3>1. result'[r] = a /\ lookState'[r] = "REG"
      BY <1>1, <1>2, <2>4 DEF DscTypes
    <3>2. CASE Clean(r, a)
      <4>1. i \in CleanAnswers(r)
        BY <3>2 DEF CleanAnswers
      <4>2. CleanAsking(r) = {} /\ \A k \in CleanAnswers(r) : k = i
        BY <1>1, <4>1 DEF RdcRight, CleanIsOne
      <4>3. \A k \in CleanAnswers(r)' : FALSE
        <5>1. \A k \in DOMAIN fromRdc'[r] : k \in Nat
          BY <1>4
        <5>2. i \in Nat
          BY <1>3
        <5>3. QED
          BY <2>1, <4>2, <5>1, <5>2
      <4>4. ResultRight(r)'
        BY <1>1, <3>1, <4>1 DEF RdcRight, CleanIsAwaited, ResultRight
      <4>5. QED
        BY <1>6, <2>2, <4>2, <4>3, <4>4 DEF RdcRight, CleanIsAwaited, CleanIsOne
    <3>3. CASE ~Clean(r, a)
      <4>1. PollingAt(r) => ~Clean(r, lookedUp[r])
        <5>1. PollingAt(r) => a <= lookedUp[r]
          BY <1>1 DEF RdcRight, Numbered
        <5>2. PollingAt(r) => 1..a \subseteq 1..lookedUp[r]
          BY <1>1, <1>3, <5>1, QueueTypes
        <5>3. QED
          BY <3>3, <5>2 DEF Clean
      <4>2. CleanAsking(r) = {} /\ CleanAnswers(r) = {}
        BY <1>1, <4>1 DEF RdcRight, CleanIsAwaited, CleanAsking, CleanAnswers
      <4>3. CleanAsking(r)' = {} /\ CleanAnswers(r)' = {}
        BY <1>6, <2>1, <4>2
      <4>4. ResultRight(r)'
        BY <1>1, <3>1, <3>3 DEF ResultRight, Clean
      <4>5. QED
        BY <2>2, <4>3, <4>4 DEF RdcRight, CleanIsAwaited, CleanIsOne
    <3>4. QED
      BY <3>2, <3>3
  <2>5. QED
    BY <2>3, <2>4
<1>9. QED
  BY <1>5, <1>7, <1>8 DEF DiscoveryInv

LEMMA RdcEndsKeeps ==
  ASSUME DiscoveryInv, NEW r \in Rdcs, RdcEnds(r)
  PROVE  DiscoveryInv'
<1>1. /\ DscTypes /\ RdcRight(r)
      /\ toRdc' = [toRdc EXCEPT ![r] = <<>>] /\ fromRdc' = [fromRdc EXCEPT ![r] = <<>>]
      /\ regMaps' = [regMaps EXCEPT ![r] = 0] /\ lookMaps' = [lookMaps EXCEPT ![r] = 0]
      /\ UNCHANGED <<added, lookup, dscPc, dscAt, commands>>
  BY DEF RdcEnds, Cut, DiscoveryInv
<1>2. DscTypes'
  <2>1. \A S : <<>> \in Seq(S)
    OBVIOUS
  <2>2. QED
    BY <1>1, <2>1 DEF DscTypes, lookup
<1>3. ASSUME NEW q \in Rdcs, q # r PROVE RdcRight(q)'
  <2>1. /\ toRdc'[q] = toRdc[q] /\ fromRdc'[q] = fromRdc[q] /\ commands' \in Nat /\ commands' >= commands
        /\ UNCHANGED <<lookState, lookedUp, result, doubtful>>
    BY <1>1, <1>3 DEF DscTypes, lookup
  <2>2. Asking(q)' = Asking(q) /\ PollingAt(q)' = PollingAt(q)
    BY <1>1, <2>1 DEF Asking, PollingAt
  <2>3. QED
    BY <2>1, <2>2, RdcLeftAlone
<1>4. RdcRight(r)'
  <2>1. toRdc'[r] = <<>> /\ fromRdc'[r] = <<>> /\ UNCHANGED <<lookState, lookedUp, result, doubtful>>
    BY <1>1 DEF DscTypes, lookup
  <2>2. Asking(r)' = {} /\ CleanAsking(r)' = {} /\ CleanAnswers(r)' = {} /\ DOMAIN fromRdc'[r] = {}
    BY <2>1 DEF Asking, CleanAsking, CleanAnswers
  <2>3. ResultRight(r)'
    BY <1>1, <2>1 DEF RdcRight, ResultRight, Clean
  <2>4. QED
    BY <2>2, <2>3 DEF RdcRight, Numbered, CleanIsAwaited, CleanIsOne
<1>5. QED
  BY <1>2, <1>3, <1>4 DEF DiscoveryInv

LEMMA RdcHandlesKeeps ==
  ASSUME DiscoveryInv, NEW r \in Rdcs, RdcHandles(r)
  PROVE  DiscoveryInv'
<1> DEFINE m == Head(toRdc[r])
<1>1. /\ DscTypes /\ RdcRight(r) /\ toRdc[r] # <<>>
      /\ toRdc' = [toRdc EXCEPT ![r] = Tail(@)]
      /\ \/ fromRdc' = fromRdc
         \/ m.kind = "lookup" /\ fromRdc' = [fromRdc EXCEPT ![r] = Append(@, m.n)]
      /\ UNCHANGED <<added, lookup, dscPc, dscAt, regMaps, lookMaps, commands>>
  BY DEF RdcHandles, DiscoveryInv
<1>2. /\ toRdc[r] \in Seq(RdcMessage) /\ fromRdc[r] \in Seq(Nat) /\ m = toRdc[r][1]
      /\ 1 \in DOMAIN toRdc[r] /\ Tail(toRdc[r]) \in Seq(RdcMessage) /\ m.n \in Nat
      /\ \A i \in DOMAIN Tail(toRdc[r]) : /\ i + 1 \in DOMAIN toRdc[r] /\ i + 1 # 1 /\ i \in Nat
                                          /\ Tail(toRdc[r])[i] = toRdc[r][i + 1]
  <2>1. toRdc[r] \in Seq(RdcMessage) /\ fromRdc[r] \in Seq(Nat)
    BY <1>1, QueueTypes
  <2>2. Len(toRdc[r]) \in Nat \ {0} /\ DOMAIN toRdc[r] = 1 .. Len(toRdc[r])
    BY <1>1, <2>1
  <2>3. /\ Tail(toRdc[r]) \in Seq(RdcMessage) /\ Len(Tail(toRdc[r])) = Len(toRdc[r]) - 1
        /\ DOMAIN Tail(toRdc[r]) = 1 .. Len(toRdc[r]) - 1 /\ m = toRdc[r][1]
    BY <1>1, <2>1
  <2>4. \A i \in 1 .. Len(toRdc[r]) - 1 : Tail(toRdc[r])[i] = toRdc[r][i + 1]
    BY <1>1, <2>1
  <2>5. m.n \in Nat
    BY <1>1, <2>2, <2>3, QueueTypes
  <2>6. QED
    BY <2>1, <2>2, <2>3, <2>4, <2>5
<1>3. toRdc'[r] = Tail(toRdc[r]) /\ \A q \in Rdcs \ {r} : toRdc'[q] = toRdc[q] /\ fromRdc'[q] = fromRdc[q]
  BY <1>1 DEF DscTypes
<1>4. /\ fromRdc'[r] \in Seq(Nat)
      /\ \A i \in DOMAIN fromRdc'[r] :
           \/ i \in DOMAIN fromRdc[r] /\ fromRdc'[r][i] = fromRdc[r][i]
           \/ i = Len(fromRdc[r]) + 1 /\ fromRdc'[r][i] = m.n /\ 1 \in Asking(r)
  <2>1. CASE fromRdc' = fromRdc
    BY <1>2, <2>1
  <2>2. CASE m.kind = "lookup" /\ fromRdc' = [fromRdc EXCEPT ![r] = Append(@, m.n)]
    <3>1. fromRdc'[r] = Append(fromRdc[r], m.n)
      BY <1>1, <2>2 DEF DscTypes
    <3>2. 1 \in Asking(r)
      BY <1>2, <2>2 DEF Asking
    <3>3. /\ Append(fromRdc[r], m.n) \in Seq(Nat)
          /\ DOMAIN Append(fromRdc[r], m.n) = 1 .. Len(fromRdc[r]) + 1
          /\ DOMAIN fromRdc[r] = 1 .. Len(fromRdc[r]) /\ Len(fromRdc[r]) \in Nat
      BY <1>2
    <3>4. /\ \A i \in 1 .. Len(fromRdc[r]) : Append(fromRdc[r], m.n)[i] = fromRdc[r][i]
          /\ Append(fromRdc[r], m.n)[Len(fromRdc[r]) + 1] = m.n
      BY <1>2
    <3>5. QED
      BY <3>1, <3>2, <3>3, <3>4
  <2>3. QED
    BY <1>1, <2>1, <2>2
<1>5. DscTypes'
  <2>1. toRdc' \in [Rdcs -> Seq(RdcMessage)]
    BY <1>1, <1>2 DEF DscTypes
  <2>2. fromRdc' \in [Rdcs -> Seq(Nat)]
    BY <1>1, <1>4 DEF DscTypes
  <2>3. QED
    BY <1>1, <2>1, <2>2 DEF DscTypes, lookup
<1>6. ASSUME NEW q \in Rdcs, q # r PROVE RdcRight(q)'
  <2>1. /\ toRdc'[q] = toRdc[q] /\ fromRdc'[q] = fromRdc[q] /\ commands' \in Nat /\ commands' >= commands
        /\ UNCHANGED <<lookState, lookedUp, result, doubtful>>
    BY <1>1, <1>3, <1>6 DEF DscTypes, lookup
  <2>2. Asking(q)' = Asking(q) /\ PollingAt(q)' = PollingAt(q)
    BY <1>1, <2>1 DEF Asking, PollingAt
  <2>3. QED
    BY <2>1, <2>2, RdcLeftAlone
<1>7. RdcRight(r)'
  <2>1. PollingAt(r)' = PollingAt(r) /\ UNCHANGED <<lookState, lookedUp, result, doubtful, commands>>
    BY <1>1 DEF PollingAt, lookup
  <2>2. \A i \in Asking(r)' : /\ i + 1 \in Asking(r) /\ i + 1 # 1 /\ i \in Nat
                              /\ toRdc'[r][i] = toRdc[r][i + 1]
    BY <1>2, <1>3 DEF Asking
  <2>3. \A i \in CleanAsking(r)' : /\ i + 1 \in CleanAsking(r) /\ i + 1 # 1 /\ i \in Nat
                                   /\ toRdc'[r][i] = toRdc[r][i + 1]
    BY <2>1, <2>2 DEF CleanAsking, Clean
  <2>4. \A i \in CleanAnswers(r)' :
          \/ i \in CleanAnswers(r) /\ fromRdc'[r][i] = fromRdc[r][i]
          \/ i = Len(fromRdc[r]) + 1 /\ fromRdc'[r][i] = m.n /\ 1 \in CleanAsking(r)
    BY <1>2, <1>4, <2>1 DEF CleanAnswers, CleanAsking, Clean
  <2>5. Numbered(r)'
    <3>1. \A i \in DOMAIN fromRdc'[r] : \/ \E k \in DOMAIN fromRdc[r] : fromRdc'[r][i] = fromRdc[r][k]
                                        \/ 1 \in Asking(r) /\ fromRdc'[r][i] = toRdc[r][1].n
      BY <1>2, <1>4
    <3>2. \A i \in DOMAIN fromRdc'[r] : /\ fromRdc'[r][i] \in 1..commands
                                        /\ PollingAt(r) => fromRdc'[r][i] <= lookedUp[r]
      BY <1>1, <3>1 DEF RdcRight, Numbered
    <3>3. \A i \in Asking(r)' : /\ toRdc'[r][i].n \in 1..commands
                                /\ PollingAt(r) => toRdc'[r][i].n <= lookedUp[r]
      BY <1>1, <2>2 DEF RdcRight, Numbered
    <3>4. QED
      BY <2>1, <3>2, <3>3 DEF Numbered
  <2>6. CleanIsAwaited(r)'
    <3>1. \A i \in CleanAsking(r)' : toRdc'[r][i].n = lookedUp[r] /\ CleanAsking(r) # {}
      BY <1>1, <2>3 DEF RdcRight, CleanIsAwaited
    <3>2. \A i \in CleanAnswers(r)' : /\ fromRdc'[r][i] = lookedUp[r]
                                      /\ CleanAsking(r) # {} \/ CleanAnswers(r) # {}
      BY <1>1, <1>2, <2>4 DEF RdcRight, CleanIsAwaited
    <3>3. QED
      BY <1>1, <2>1, <3>1, <3>2 DEF RdcRight, CleanIsAwaited
  <2>7. CleanIsOne(r)'
    <3>1. \A i, k \in CleanAsking(r)' : i = k
      <4>1. \A i, k \in CleanAsking(r)' : i + 1 = k + 1 /\ i \in Nat /\ k \in Nat
        BY <1>1, <2>3 DEF RdcRight, CleanIsOne
      <4>2. QED
        BY <4>1
    <3>2. CASE 1 \in CleanAsking(r)
      <4>1. CleanAnswers(r) = {} /\ \A i \in CleanAsking(r) : i = 1
        BY <1>1, <3>2 DEF RdcRight, CleanIsOne
      <4>2. CleanAsking(r)' = {}
        BY <2>3, <4>1
      <4>3. QED
        BY <2>4, <4>1, <4>2 DEF CleanIsOne
    <3>3. CASE 1 \notin CleanAsking(r)
      <4>1. CleanAnswers(r)' \subseteq CleanAnswers(r)
        BY <2>4, <3>3
      <4>2. CleanAsking(r) = {} => CleanAsking(r)' = {}
        BY <2>3
      <4>3. QED
        BY <1>1, <3>1, <4>1, <4>2 DEF RdcRight, CleanIsOne
    <3>4. QED
      BY <3>2, <3>3
  <2>8. ResultRight(r)'
    BY <1>1, <2>1 DEF RdcRight, ResultRight, Clean
  <2>9. QED
    BY <2>5, <2>6, <2>7, <2>8 DEF RdcRight
<1>8. QED
  BY <1>5, <1>6, <1>7 DEF DiscoveryInv

LEMMA DiscoveryStep == DiscoveryInv /\ [DscNext]_dscVars => DiscoveryInv'
<1> SUFFICES ASSUME DiscoveryInv, [DscNext]_dscVars PROVE DiscoveryInv'
  OBVIOUS
<1>1. CASE UNCHANGED dscVars
  <2>1. DscTypes'
    BY <1>1 DEF dscVars, DiscoveryInv, DscTypes
  <2>2. /\ UNCHANGED <<toRdc, fromRdc, lookedUp, result, doubtful>>
        /\ commands' >= commands
        /\ \A q \in Rdcs : lookState'[q] \in {lookState[q], "UNREG"}
        /\ dscPc' = dscPc /\ dscAt' = dscAt
    BY <1>1 DEF dscVars, DiscoveryInv, DscTypes
  <2>3. QED
    BY <2>1, <2>2, QueuesLeftAlone
<1>2. CASE RdcRegister \/ RdcLookup \/ Poll
  BY <1>2, RdcRegisterKeeps, RdcLookupKeeps, PollKeeps
<1>3. ASSUME NEW r \in Rdcs, LookupHandler(r) \/ RdcEnds(r) \/ RdcHandles(r) PROVE DiscoveryInv'
  BY <1>3, LookupHandlerKeeps, RdcEndsKeeps, RdcHandlesKeeps
<1>4. QED
  BY <1>1, <1>2, <1>3, SimpleStepsKeep DEF DscNext

\* For any discovery components, answers, failures and restarts: what is taken
\* as the result of a lookup answers it, unless that lookup or an earlier one
\* was given up or sent more than once (rdc_lookup, lookup_handler).
THEOREM DiscoveryResults == DscSpec => []ResultOwnOrDoubtful
<1>1. DscInit => DiscoveryInv
  BY DiscoveryInitial
<1>2. DiscoveryInv /\ [DscNext]_dscVars => DiscoveryInv'
  BY DiscoveryStep
<1>3. DiscoveryInv => ResultOwnOrDoubtful
  BY DEF DiscoveryInv, RdcRight, ResultRight, Clean, ResultOwnOrDoubtful
<1>4. QED
  BY <1>1, <1>2, <1>3, PTL DEF DscSpec

-----------------------------------------------------------------------------
(* Discovery: its types.                                                    *)

\* What there is of an RDC: nothing is mapped or on its way to one that is down,
\* and only one that looks into the envelope ever answers.
RdcShape(r) ==
  /\ rdcIs[r] = "down" => /\ regMaps[r] = 0 /\ lookMaps[r] = 0
                          /\ toRdc[r] = <<>> /\ fromRdc[r] = <<>>
  /\ r \notin Unwraps => fromRdc[r] = <<>>

DscShape ==
  /\ polls \in 0..MaxPolls
  /\ rdcIs \in [Rdcs -> {"up", "app dead", "down"}]
  /\ \A r \in Rdcs : RdcShape(r)

\* A step after which RDC r is as it was, or up, or has less on its way.
LEMMA RdcShapeKept ==
  ASSUME NEW r \in Rdcs, RdcShape(r), rdcIs'[r] = "down" => rdcIs[r] = "down",
         rdcIs[r] = "down" => UNCHANGED <<regMaps[r], lookMaps[r], toRdc[r]>>,
         fromRdc'[r] = fromRdc[r]
  PROVE  RdcShape(r)'
BY DEF RdcShape

\* Nothing is mapped to an RDC that is down, and so nothing is sent to it.
LEMMA MapsOfDown ==
  ASSUME DscTypes, NEW maps \in [Rdcs -> Nat], NEW r \in Rdcs, NEW after \in MayMap(maps, r),
         NEW q \in Rdcs, rdcIs[q] = "down"
  PROVE  after[q] = maps[q]
<1>1. after = maps \/ (rdcIs[r] # "down" /\ after = [maps EXCEPT ![r] = @ + 1])
  BY DEF MayMap
<1>2. QED
  BY <1>1

LEMMA SendsNothing ==
  ASSUME DscTypes, NEW maps \in [Rdcs -> Nat], NEW m, NEW q \in Rdcs, maps[q] = 0
  PROVE  SendOver(maps, m)[q] = toRdc[q]
<1>1. SendOver(maps, m)[q] = toRdc[q] \o [i \in 1..0 |-> m]
  BY DEF SendOver
<1>2. \A s \in Seq(RdcMessage) : s \o [i \in 1..0 |-> m] = s
  <2>1. [i \in 1..0 |-> m] = <<>>
    OBVIOUS
  <2>2. QED
    BY <2>1
<1>3. QED
  BY <1>1, <1>2 DEF DscTypes

LEMMA MappingShape ==
  ASSUME DscTypes, DscShape, RdcRegister \/ RdcLookup
  PROVE  DscShape'
<1> DEFINE r == RdcOrder[dscAt]
<1>1. rdcIs' = rdcIs /\ fromRdc' = fromRdc /\ polls' \in 0..MaxPolls /\ r \in Rdcs
  <2>1. r \in Rdcs /\ rdcIs' = rdcIs /\ fromRdc' = fromRdc
    BY DEF RdcRegister, RdcLookup, DscTypes
  <2>2. polls' \in {polls, 0}
    BY DEF RdcRegister, RdcLookup, lookup
  <2>3. polls \in 0..MaxPolls /\ 0 \in 0..MaxPolls
    <3>1. polls \in 0..MaxPolls
      BY DEF DscShape
    <3>2. 0 \in 0..MaxPolls
      BY DiscoveryAssumption
    <3>3. QED
      BY <3>1, <3>2
  <2>4. QED
    BY <2>1, <2>2, <2>3
<1>2. regMaps \in [Rdcs -> Nat] /\ lookMaps \in [Rdcs -> Nat]
  BY DEF DscTypes
<1>3. ASSUME NEW q \in Rdcs, rdcIs[q] = "down"
      PROVE  UNCHANGED <<regMaps[q], lookMaps[q], toRdc[q]>>
  <2>1. regMaps[q] = 0 /\ lookMaps[q] = 0
    BY <1>3 DEF DscShape, RdcShape
  <2>2. CASE RdcRegister
    <3>1. PICK maps \in MayMap(regMaps, r) :
            /\ regMaps' = maps
            /\ toRdc' = IF maps = regMaps THEN toRdc
                        ELSE SendOver(maps, [kind |-> "register", n |-> 0])
      BY <2>2 DEF RdcRegister
    <3>2. maps \in [Rdcs -> Nat] /\ maps[q] = regMaps[q]
      BY <1>1, <1>2, <1>3, MayMapTypes, MapsOfDown
    <3>3. toRdc'[q] = toRdc[q]
      BY <2>1, <3>1, <3>2, SendsNothing
    <3>4. lookMaps' = lookMaps
      BY <2>2 DEF RdcRegister
    <3>5. QED
      BY <3>1, <3>2, <3>3, <3>4
  <2>3. CASE RdcLookup
    <3>1. PICK maps \in MayMap(lookMaps, r) :
            /\ lookMaps' = maps
            /\ toRdc' = SendOver(maps, [kind |-> "lookup", n |-> commands])
      BY <2>3 DEF RdcLookup
    <3>2. maps \in [Rdcs -> Nat] /\ maps[q] = lookMaps[q]
      BY <1>1, <1>2, <1>3, MayMapTypes, MapsOfDown
    <3>3. toRdc'[q] = toRdc[q]
      BY <2>1, <3>1, <3>2, SendsNothing
    <3>4. regMaps' = regMaps
      BY <2>3 DEF RdcLookup
    <3>5. QED
      BY <3>1, <3>2, <3>3, <3>4
  <2>4. QED
    BY <2>2, <2>3
<1>4. \A q \in Rdcs : RdcShape(q)'
  BY <1>1, <1>3, RdcShapeKept DEF DscShape
<1>5. QED
  BY <1>1, <1>4 DEF DscShape

LEMMA PollShape ==
  ASSUME DscShape, Poll
  PROVE  DscShape'
<1>1. polls' \in 0..MaxPolls /\ UNCHANGED network
  <2>1. \/ polls' = 0
        \/ polls < MaxPolls /\ polls' = polls + 1
    BY DEF Poll, PollAgain
  <2>2. polls \in 0..MaxPolls /\ MaxPolls \in Nat
    BY DiscoveryAssumption DEF DscShape
  <2>3. polls' \in 0..MaxPolls
    BY <2>1, <2>2
  <2>4. QED
    BY <2>3 DEF Poll
<1>2. \A q \in Rdcs : RdcShape(q)'
  BY <1>1, RdcShapeKept DEF DscShape, network
<1>3. QED
  BY <1>1, <1>2 DEF DscShape, network

\* The steps that are about one RDC.
LEMMA RdcStepShape ==
  ASSUME DscTypes, DscShape, NEW r \in Rdcs,
         LookupHandler(r) \/ RdcEnds(r) \/ RdcStarts(r) \/ RdcHandles(r)
  PROVE  DscShape'
<1>1. polls' = polls /\ rdcIs' \in [Rdcs -> {"up", "app dead", "down"}]
  BY DEF LookupHandler, RdcEnds, RdcStarts, RdcHandles, DscShape, lookup
<1>2. ASSUME NEW q \in Rdcs, q # r PROVE RdcShape(q)'
  <2>1. UNCHANGED <<rdcIs[q], regMaps[q], lookMaps[q], toRdc[q], fromRdc[q]>>
    BY <1>2 DEF LookupHandler, RdcEnds, RdcStarts, RdcHandles, Cut, DscShape, DscTypes
  <2>2. QED
    BY <2>1, RdcShapeKept DEF DscShape
<1>3. CASE LookupHandler(r)
  <2>1. PICK i \in DOMAIN fromRdc[r] : fromRdc' = [fromRdc EXCEPT ![r] = RemoveAt(@, i)]
    BY <1>3 DEF LookupHandler
  <2>2. rdcIs[r] # "down" /\ r \in Unwraps
    <3>1. fromRdc[r] # <<>>
      BY <2>1
    <3>2. QED
      BY <3>1 DEF DscShape, RdcShape
  <2>3. rdcIs' = rdcIs
    BY <1>3 DEF LookupHandler
  <2>4. RdcShape(r)'
    BY <2>2, <2>3 DEF RdcShape
  <2>5. QED
    BY <1>1, <1>2, <2>4 DEF DscShape
<1>4. CASE RdcEnds(r)
  <2>1. regMaps'[r] = 0 /\ lookMaps'[r] = 0 /\ toRdc'[r] = <<>> /\ fromRdc'[r] = <<>>
    BY <1>4 DEF RdcEnds, Cut, DscTypes
  <2>2. RdcShape(r)'
    BY <2>1 DEF RdcShape
  <2>3. QED
    BY <1>1, <1>2, <2>2 DEF DscShape
<1>5. CASE RdcStarts(r)
  <2>1. rdcIs'[r] # "down" /\ fromRdc' = fromRdc
    BY <1>5 DEF RdcStarts, DscShape
  <2>2. RdcShape(r)'
    BY <2>1 DEF DscShape, RdcShape
  <2>3. QED
    BY <1>1, <1>2, <2>2 DEF DscShape
<1>6. CASE RdcHandles(r)
  <2>1. rdcIs'[r] # "down"
    BY <1>6 DEF RdcHandles, DscShape
  <2>2. ~Readable(RequestDepth)
    BY DEF Readable, RequestDepth, Received, Wrap
  <2>3. r \notin Unwraps => fromRdc' = fromRdc
    BY <1>6, <2>2 DEF RdcHandles
  <2>4. RdcShape(r)'
    BY <2>1, <2>3 DEF DscShape, RdcShape
  <2>5. QED
    BY <1>1, <1>2, <2>4 DEF DscShape
<1>7. QED
  BY <1>3, <1>4, <1>5, <1>6

LEMMA DscShapeStep == DscTypes /\ DscShape /\ [DscNext]_dscVars => DscShape'
<1> SUFFICES ASSUME DscTypes, DscShape, [DscNext]_dscVars PROVE DscShape'
  OBVIOUS
<1>1. CASE polls' = polls /\ UNCHANGED network
  <2>1. \A q \in Rdcs : RdcShape(q)'
    BY <1>1, RdcShapeKept DEF DscShape, network
  <2>2. QED
    BY <1>1, <2>1 DEF DscShape, network
<1>2. CASE UNCHANGED dscVars
  BY <1>1, <1>2 DEF dscVars, network
<1>3. CASE Begin("register") \/ Begin("lookup") \/ Skip("register") \/ Skip("lookup")
  BY <1>1, <1>3 DEF Begin, Skip, lookup
<1>4. CASE RdcRegister \/ RdcLookup \/ Poll
  BY <1>4, MappingShape, PollShape
<1>5. ASSUME NEW r \in Rdcs, CoreAddRdc(r) \/ LookupUnmaps(r) PROVE DscShape'
  BY <1>1, <1>5 DEF CoreAddRdc, LookupUnmaps
<1>6. ASSUME NEW name, DefaultEndpoint(name) PROVE DscShape'
  BY <1>1, <1>6 DEF DefaultEndpoint
<1>7. QED
  BY <1>2, <1>3, <1>4, <1>5, <1>6, RdcStepShape DEF DscNext

LEMMA DscTypeCorrect == DscSpec => []DscTypeOK
<1>1. DscInit => DiscoveryInv /\ DscShape
  BY DiscoveryInitial, DiscoveryAssumption DEF DscInit, DscShape, RdcShape
<1>2. DiscoveryInv /\ DscShape /\ [DscNext]_dscVars => (DiscoveryInv /\ DscShape)'
  BY DiscoveryStep, DscShapeStep DEF DiscoveryInv
<1>3. DiscoveryInv /\ DscShape => DscTypeOK
  <2> SUFFICES ASSUME DiscoveryInv, DscShape PROVE DscTypeOK
    OBVIOUS
  <2>1. ASSUME NEW r \in Rdcs
        PROVE  /\ lookState[r] \in {"UNREG", "LOOKUP", "REG"}
               /\ rdcIs[r] = "down" =>
                    regMaps[r] + lookMaps[r] = 0 /\ toRdc[r] = <<>> /\ fromRdc[r] = <<>>
               /\ fromRdc[r] # <<>> => r \in Unwraps
    <3>1. RdcShape(r) /\ lookState[r] \in {"UNREG", "LOOKUP", "REG"}
      BY DEF DiscoveryInv, DscTypes, DscShape
    <3>2. 0 + 0 = 0
      OBVIOUS
    <3>3. QED
      BY <3>1, <3>2 DEF RdcShape
  <2>2. QED
    BY <2>1 DEF DiscoveryInv, DscTypes, DscShape, DscTypeOK
<1>4. QED
  BY <1>1, <1>2, <1>3, PTL DEF DscSpec
=============================================================================
