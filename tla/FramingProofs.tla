--------------------------- MODULE FramingProofs ---------------------------
(***************************************************************************)
(* Framing, for any texts and any size of the receive buffer: its type,    *)
(* the invariant of the buffer, that cutting the stream into chunks makes  *)
(* no difference (it implements ByteFramer), and that the messages         *)
(* delivered are those that were sent.                                     *)
(***************************************************************************)
EXTENDS Framing, SequenceTheorems, TLAPS

-----------------------------------------------------------------------------
(* Sequences. *)

\* A part of a sequence is a sequence, and a part before its start is empty.
LEMMA PartOfSeq ==
  ASSUME NEW S, NEW q \in Seq(S), NEW m \in Nat \ {0}, NEW n \in 0 .. Len(q)
  PROVE  SubSeq(q, m, n) \in Seq(S)
<1>1. Len(q) \in Nat
  BY LenProperties
<1>2. \A j \in m .. n : q[j] \in S
  BY <1>1, ElementOfSeq
<1>3. QED
  BY <1>1, <1>2, SubSeqProperties

\* A sequence cut in two, joined again.
LEMMA CutAndJoined ==
  ASSUME NEW S, NEW q \in Seq(S), NEW n \in 0 .. Len(q)
  PROVE  SubSeq(q, 1, n) \o SubSeq(q, n + 1, Len(q)) = q
<1>1. Len(q) \in Nat
  BY LenProperties
<1>2. 1 \in 1 .. Len(q) + 1 /\ n \in 1 - 1 .. Len(q) /\ Len(q) \in n .. Len(q)
  BY <1>1
<1>3. SubSeq(q, 1, n) \o SubSeq(q, n + 1, Len(q)) = SubSeq(q, 1, Len(q))
  BY <1>2, ConcatAdjacentSubSeq
<1>4. QED
  BY <1>3, SubSeqFull

-----------------------------------------------------------------------------
(* Types and the buffer. *)

FramingInv == FramingTypeOK /\ BufferInv

LEMMA FramingInit == Init => FramingInv
<1> SUFFICES ASSUME Init PROVE FramingInv
  OBVIOUS
<1>1. \A S : <<>> \in Seq(S)
  BY EmptySeq
<1>2. FramingTypeOK
  BY <1>1 DEF Init, FramingTypeOK
<1>3. BufferInv
  BY DEF Init, BufferInv
<1>4. QED
  BY <1>2, <1>3 DEF FramingInv

\* What Joined gives.
LEMMA JoinedType ==
  ASSUME FramingInv, NEW first \in Nat \ {0}, NEW last \in 0 .. Len(chunk)
  PROVE  Joined(first, last) \in Seq(Bytes)
<1>1. data \in Seq(Bytes) /\ chunk \in Seq(Bytes)
  BY DEF FramingInv, FramingTypeOK
<1>2. SubSeq(chunk, first, last) \in Seq(Bytes)
  BY <1>1, PartOfSeq
<1>3. QED
  BY <1>1, <1>2, ConcatProperties DEF Joined

LEMMA SendKeeps ==
  ASSUME FramingInv, NEW g \in Gaps, NEW t \in Texts, Send(g, t)
  PROVE  FramingInv'
<1>1. g \in Seq(Bytes) /\ t \in Seq(Bytes)
  BY FramingAssumption
<1>2. g \o t \in Seq(Bytes)
  BY <1>1, ConcatProperties
<1>3. Append(sent, t) \in Seq(Seq(Bytes))
  BY <1>1, AppendProperties DEF FramingInv, FramingTypeOK
<1>4. QED
  BY <1>2, <1>3 DEF FramingInv, FramingTypeOK, BufferInv, Send, buffer

LEMMA WriteKeeps ==
  ASSUME FramingInv, NEW n \in 1 .. Len(unsent), Write(n)
  PROVE  FramingInv'
<1>1. unsent \in Seq(Bytes) /\ stream \in Seq(Bytes) /\ Len(unsent) \in Nat
  BY LenProperties DEF FramingInv, FramingTypeOK
<1>2. /\ SubSeq(unsent, 1, n) \in Seq(Bytes)
      /\ SubSeq(unsent, n + 1, Len(unsent)) \in Seq(Bytes)
  <2>1. /\ 1 \in Nat \ {0} /\ n \in 0 .. Len(unsent)
        /\ n + 1 \in Nat \ {0} /\ Len(unsent) \in 0 .. Len(unsent)
    BY <1>1
  <2>2. QED
    BY <1>1, <2>1, PartOfSeq
<1>3. stream \o SubSeq(unsent, 1, n) \in Seq(Bytes)
  BY <1>1, <1>2, ConcatProperties
<1>4. QED
  BY <1>2, <1>3 DEF FramingInv, FramingTypeOK, BufferInv, Write, buffer

LEMMA ReceiveKeeps ==
  ASSUME FramingInv, NEW n \in 1 .. MaxChunk, Receive(n)
  PROVE  FramingInv'
<1>1. stream \in Seq(Bytes) /\ Len(stream) \in Nat /\ n \in 1 .. Len(stream)
  BY LenProperties DEF FramingInv, FramingTypeOK, Receive
<1>2. /\ SubSeq(stream, 1, n) \in Seq(Bytes)
      /\ SubSeq(stream, n + 1, Len(stream)) \in Seq(Bytes)
  <2>1. /\ 1 \in Nat \ {0} /\ n \in 0 .. Len(stream)
        /\ n + 1 \in Nat \ {0} /\ Len(stream) \in 0 .. Len(stream)
    BY <1>1
  <2>2. QED
    BY <1>1, <2>1, PartOfSeq
<1>3. Len(SubSeq(stream, 1, n)) = n
  <2>1. \A j \in 1 .. n : stream[j] \in Bytes
    BY <1>1, ElementOfSeq
  <2>2. QED
    BY <1>1, <2>1, SubSeqProperties
<1>4. i' = 1 /\ wordStart' = 1 /\ Len(chunk') = n /\ n \in Nat \ {0}
  BY <1>1, <1>3 DEF Receive
<1>5. FramingTypeOK'
  BY <1>2, <1>4 DEF FramingInv, FramingTypeOK, Receive, buffer
<1>6. BufferInv'
  BY <1>4 DEF FramingInv, BufferInv, Receive, buffer
<1>7. QED
  BY <1>5, <1>6 DEF FramingInv

LEMMA LoopKeeps ==
  ASSUME FramingInv, Loop
  PROVE  FramingInv'
<1>1. /\ chunk \in Seq(Bytes) /\ Len(chunk) \in Nat
      /\ i \in 1 .. Len(chunk) /\ i' = i + 1 /\ chunk' = chunk
      /\ wordStart \in 1 .. i
      /\ brackets \in Nat
      /\ data \in Seq(Bytes)
      /\ delivered \in Seq(Seq(Bytes))
  BY LenProperties DEF FramingInv, FramingTypeOK, BufferInv, Loop
<1>2. CASE Final
  <2>1. FramingTypeOK'
    BY SMTT(40), <1>1, <1>2 DEF FramingInv, FramingTypeOK, Loop, Final
  <2>2. BufferInv'
    BY <1>1, <1>2 DEF FramingInv, BufferInv, Loop, Final
  <2>3. QED
    BY <2>1, <2>2 DEF FramingInv
<1>3. CASE Complete
  <2>1. Joined(wordStart, i) \in Seq(Bytes)
    <3>1. wordStart \in Nat \ {0} /\ i \in 0 .. Len(chunk)
      BY <1>1
    <3>2. QED
      BY <3>1, JoinedType
  <2>2. delivered' \in Seq(Seq(Bytes)) /\ data' \in Seq(Bytes)
    BY <1>1, <1>3, <2>1, AppendProperties, EmptySeq DEF Complete
  <2>3. FramingTypeOK'
    BY <1>1, <1>3, <2>2 DEF FramingInv, FramingTypeOK, Loop, Complete
  <2>4. BufferInv'
    BY <1>1, <1>3 DEF FramingInv, BufferInv, Loop, Complete
  <2>5. QED
    BY <2>3, <2>4 DEF FramingInv
<1>4. CASE Json
  <2>1. brackets > 0 /\ wordStart \in 1 .. i
    BY <1>1, <1>4 DEF FramingInv, BufferInv, Json
  <2>2. brackets' \in Nat /\ brackets' > 0
    BY <1>1, <1>4, <2>1 DEF Json
  <2>3. /\ mode' \in {"JSON", "STR_2", "STR_1"}
        /\ UNCHANGED <<wordStart, data, delivered>>
    BY <1>4 DEF Json
  <2>4. FramingTypeOK'
    BY <1>1, <2>2, <2>3 DEF FramingInv, FramingTypeOK, Loop
  <2>5. BufferInv'
    BY <1>1, <2>1, <2>2, <2>3 DEF FramingInv, BufferInv, Loop
  <2>6. QED
    BY <2>4, <2>5 DEF FramingInv
<1>5. CASE \/ Str("STR_2", "ESC_2", "dq") \/ Str("STR_1", "ESC_1", "sq")
           \/ Esc("STR_2", "ESC_2") \/ Esc("STR_1", "ESC_1")
  <2>1. /\ mode # "FINAL"
        /\ mode' \in {"JSON", "STR_2", "ESC_2", "STR_1", "ESC_1"}
        /\ UNCHANGED <<wordStart, brackets, data, delivered>>
    BY <1>5 DEF Str, Esc
  <2>2. FramingTypeOK'
    BY <1>1, <2>1 DEF FramingInv, FramingTypeOK, Loop
  <2>3. BufferInv'
    BY <1>1, <2>1 DEF FramingInv, BufferInv, Loop
  <2>4. QED
    BY <2>2, <2>3 DEF FramingInv
<1>6. QED
  BY <1>2, <1>3, <1>4, <1>5 DEF Loop

LEMMA KeepKeeps ==
  ASSUME FramingInv, Keep
  PROVE  FramingInv'
<1>1. /\ chunk \in Seq(Bytes) /\ Len(chunk) \in Nat
      /\ i > 0 /\ wordStart \in 1 .. i
      /\ data \in Seq(Bytes)
  BY LenProperties DEF FramingInv, FramingTypeOK, BufferInv, Keep
<1>2. data' \in Seq(Bytes)
  <2>1. CASE wordStart <= Len(chunk) /\ mode # "FINAL"
    <3>1. wordStart \in Nat \ {0} /\ Len(chunk) \in 0 .. Len(chunk)
      BY <1>1
    <3>2. QED
      BY <2>1, <3>1, JoinedType DEF Keep
  <2>2. CASE ~ (wordStart <= Len(chunk) /\ mode # "FINAL")
    BY <1>1, <2>2 DEF Keep
  <2>3. QED
    BY <2>1, <2>2
<1>3. i' = 0 /\ wordStart' = 0 /\ chunk' = <<>> /\ Len(chunk') = 0 /\ chunk' \in Seq(Bytes)
  BY EmptySeq DEF Keep
<1>4. FramingTypeOK'
  BY <1>2, <1>3 DEF FramingInv, FramingTypeOK, Keep
<1>5. BufferInv'
  BY <1>3 DEF FramingInv, BufferInv, Keep
<1>6. QED
  BY <1>4, <1>5 DEF FramingInv

LEMMA FramingStep == FramingInv /\ [Next]_vars => FramingInv'
<1> SUFFICES ASSUME FramingInv, [Next]_vars PROVE FramingInv'
  OBVIOUS
<1>1. CASE \E g \in Gaps, t \in Texts : Send(g, t)
  BY <1>1, SendKeeps
<1>2. CASE \E n \in 1 .. Len(unsent) : Write(n)
  BY <1>2, WriteKeeps
<1>3. CASE \E n \in 1 .. MaxChunk : Receive(n)
  BY <1>3, ReceiveKeeps
<1>4. CASE Loop
  BY <1>4, LoopKeeps
<1>5. CASE Keep
  BY <1>5, KeepKeeps
<1>6. CASE UNCHANGED vars
  BY <1>6 DEF FramingInv, FramingTypeOK, BufferInv, vars, buffer
<1>7. QED
  BY <1>1, <1>2, <1>3, <1>4, <1>5, <1>6 DEF Next

\* Every variable has its type.
THEOREM FramingTypeCorrect == Spec => []FramingTypeOK
<1>1. Spec => []FramingInv
  BY FramingInit, FramingStep, PTL DEF Spec
<1>2. FramingInv => FramingTypeOK
  BY DEF FramingInv
<1>3. QED
  BY <1>1, <1>2, PTL

\* Between messages the buffer is empty, and within one it holds what earlier
\* chunks brought of it.
THEOREM BufferCorrect == Spec => []BufferInv
<1>1. Spec => []FramingInv
  BY FramingInit, FramingStep, PTL DEF Spec
<1>2. FramingInv => BufferInv
  BY DEF FramingInv
<1>3. QED
  BY <1>1, <1>2, PTL

-----------------------------------------------------------------------------
(* The chunks do not matter: every step is one of ByteFramer or a stutter. *)

LEMMA FramerInit == Init => Framer!Init
<1> SUFFICES ASSUME Init PROVE Framer!Init
  OBVIOUS
<1>1. SubSeq(chunk, 1, Len(chunk)) = <<>>
  BY EmptySeq, SubSeqEmpty DEF Init
<1>2. Unread = <<>>
  <2>1. <<>> \o <<>> = <<>>
    BY EmptySeq, ConcatEmptySeq
  <2>2. QED
    BY <1>1, <2>1 DEF Init, Unread
<1>3. QED
  BY <1>2 DEF Init, Framer!Init, Word

\* What the loop has not looked at is a sequence of bytes.
LEMMA UnreadType ==
  ASSUME FramingInv
  PROVE  Unread \in Seq(Bytes)
<1> DEFINE first == IF i = 0 THEN 1 ELSE i
<1>1. /\ chunk \in Seq(Bytes) /\ stream \in Seq(Bytes) /\ Len(chunk) \in Nat
      /\ i \in Nat
  BY LenProperties DEF FramingInv, FramingTypeOK
<1>2. first \in Nat \ {0} /\ Len(chunk) \in 0 .. Len(chunk)
  BY <1>1
<1> HIDE DEF first
<1>3. SubSeq(chunk, first, Len(chunk)) \in Seq(Bytes)
  BY <1>1, <1>2, PartOfSeq
<1>4. QED
  BY <1>1, <1>3, ConcatProperties DEF Unread, first

\* The unread bytes are those before, and the piece that is written.
LEMMA WriteUnread ==
  ASSUME FramingInv, NEW n \in 1 .. Len(unsent), Write(n)
  PROVE  Unread' = Unread \o SubSeq(unsent, 1, n)
<1> DEFINE piece == SubSeq(unsent, 1, n)
           rest  == SubSeq(chunk, IF i = 0 THEN 1 ELSE i, Len(chunk))
<1>1. unsent \in Seq(Bytes) /\ stream \in Seq(Bytes) /\ chunk \in Seq(Bytes)
      /\ Len(unsent) \in Nat /\ Len(chunk) \in Nat /\ i \in Nat
  BY LenProperties DEF FramingInv, FramingTypeOK
<1>2. piece \in Seq(Bytes)
  <2>1. 1 \in Nat \ {0} /\ n \in 0 .. Len(unsent)
    BY <1>1
  <2> QED  BY <1>1, <2>1, PartOfSeq
<1>3. rest \in Seq(Bytes)
  <2>1. (IF i = 0 THEN 1 ELSE i) \in Nat \ {0} /\ Len(chunk) \in 0 .. Len(chunk)
    BY <1>1
  <2> QED  BY <1>1, <2>1, PartOfSeq
<1>4. Unread = rest \o stream /\ Unread' = rest \o (stream \o piece)
  BY DEF Write, Unread
<1> HIDE DEF piece, rest
<1>5. stream \in Seq(Bytes)
  BY <1>1
<1>6. (rest \o stream) \o piece = rest \o (stream \o piece)
  BY SMTT(40), <1>2, <1>3, <1>5, ConcatAssociative
<1> QED  BY <1>4, <1>6, Zenon DEF piece

\* Writing makes the stream longer.
LEMMA WriteRefines ==
  ASSUME FramingInv, NEW n \in 1 .. Len(unsent), Write(n)
  PROVE  Framer!Send
<1> DEFINE piece == SubSeq(unsent, 1, n)
<1>1. unsent \in Seq(Bytes) /\ Len(unsent) \in Nat
  BY LenProperties DEF FramingInv, FramingTypeOK
<1>2. piece \in Seq(Bytes)
  <2>1. 1 \in Nat \ {0} /\ n \in 0 .. Len(unsent)
    BY <1>1
  <2>2. QED
    BY <1>1, <2>1, PartOfSeq
<1>5. Unread' = Unread \o piece
  BY WriteUnread
<1> HIDE DEF piece
<1>6. /\ Unread \in Seq(Bytes) /\ Unread' \in Seq(Bytes)
      /\ Len(Unread) \in Nat /\ Len(piece) \in Nat
      /\ Len(Unread') = Len(Unread) + Len(piece)
      /\ \A j \in 1 .. Len(Unread) : Unread'[j] = Unread[j]
  <2>1. Unread \in Seq(Bytes)
    BY UnreadType
  <2>2. Len(Unread) \in Nat /\ Len(piece) \in Nat
    BY <1>2, <2>1, LenProperties
  <2>3. QED
    BY <1>2, <1>5, <2>1, <2>2, ConcatProperties
<1>7. SubSeq(Unread', 1, Len(Unread)) = Unread
  <2>1. /\ SubSeq(Unread', 1, Len(Unread)) \in Seq(Bytes)
        /\ Len(SubSeq(Unread', 1, Len(Unread))) = Len(Unread)
        /\ \A j \in 1 .. Len(Unread) : SubSeq(Unread', 1, Len(Unread))[j] = Unread[j]
    <3>1. \A j \in 1 .. Len(Unread) : Unread'[j] \in Bytes
      BY <1>6, ElementOfSeq
    <3>2. QED
      BY <1>6, <3>1, SubSeqProperties
  <2>2. QED
    BY <1>6, <2>1, SeqEqual
<1>8. UNCHANGED <<mode, brackets, Word, delivered>>
  BY DEF Write, buffer, Word, Joined
<1>9. Framer!Bytes = Bytes
  BY DEF Bytes, Framer!Bytes
<1>10. QED
  BY <1>6, <1>7, <1>8, <1>9 DEF Framer!Send

\* Starting a message, reading a chunk and keeping a part change nothing.
LEMMA SendStutters ==
  ASSUME NEW g \in Gaps, NEW t \in Texts, Send(g, t)
  PROVE  UNCHANGED Framer!vars
BY DEF Send, buffer, Unread, Word, Joined, Framer!vars

LEMMA ReceiveStutters ==
  ASSUME FramingInv, NEW n \in 1 .. MaxChunk, Receive(n)
  PROVE  UNCHANGED Framer!vars
<1>1. /\ stream \in Seq(Bytes) /\ Len(stream) \in Nat /\ n \in 1 .. Len(stream)
      /\ i = 0 /\ chunk = <<>> /\ Len(chunk) = 0 /\ data \in Seq(Bytes)
  BY LenProperties, EmptySeq DEF FramingInv, FramingTypeOK, BufferInv, Receive
<1>2. chunk' \in Seq(Bytes)
  <2>1. 1 \in Nat \ {0} /\ n \in 0 .. Len(stream)
    BY <1>1
  <2>2. QED
    BY <1>1, <2>1, PartOfSeq DEF Receive
<1>3. Unread = stream
  <2>1. SubSeq(chunk, 1, Len(chunk)) = <<>>
    BY <1>1, SubSeqEmpty
  <2>2. QED
    BY <1>1, <2>1, ConcatEmptySeq DEF Unread
<1>4. Unread' = stream
  <2>1. SubSeq(chunk', 1, Len(chunk')) = chunk'
    BY <1>2, SubSeqFull
  <2>2. chunk' \o stream' = stream
    BY <1>1, CutAndJoined DEF Receive
  <2>3. QED
    BY <2>1, <2>2 DEF Unread, Receive
<1>5. Word' = Word
  <2>1. i' = 1 /\ wordStart' = 1 /\ mode' = mode /\ data' = data
    BY DEF Receive, buffer
  <2>2. SubSeq(chunk', 1, 0) = <<>>
    BY SubSeqEmpty
  <2>3. i' - 1 = 0 /\ i' # 0
    BY <2>1
  <2>4. Joined(wordStart, i - 1)' = data
    BY <1>1, <2>1, <2>2, <2>3, ConcatEmptySeq DEF Joined
  <2>5. QED
    BY <1>1, <2>1, <2>3, <2>4 DEF Word
<1>6. QED
  BY <1>3, <1>4, <1>5 DEF Framer!vars, Receive, buffer

LEMMA KeepStutters ==
  ASSUME FramingInv, Keep
  PROVE  UNCHANGED Framer!vars
<1>1. /\ chunk \in Seq(Bytes) /\ stream \in Seq(Bytes) /\ Len(chunk) \in Nat
      /\ i = Len(chunk) + 1
  BY LenProperties DEF FramingInv, FramingTypeOK, Keep
<1>2. Unread = stream
  <2>1. i \in Int /\ Len(chunk) \in Int /\ Len(chunk) < i /\ i # 0
    BY <1>1
  <2>2. SubSeq(chunk, i, Len(chunk)) = <<>>
    BY <2>1, SubSeqEmpty
  <2>3. <<>> \o stream = stream
    BY <1>1, ConcatEmptySeq
  <2>4. QED
    BY <2>1, <2>2, <2>3 DEF Unread
<1>3. Unread' = stream
  <2>1. SubSeq(chunk', 1, Len(chunk')) = <<>>
    BY EmptySeq, SubSeqEmpty DEF Keep
  <2>2. QED
    BY <1>1, <2>1, ConcatEmptySeq DEF Unread, Keep
<1>4. Word' = Word
  <2>1. i' = 0 /\ mode' = mode
    BY DEF Keep
  <2>2. CASE mode = "FINAL"
    BY <2>1, <2>2 DEF Word
  <2>3. CASE mode # "FINAL"
    <3>1. wordStart <= Len(chunk) /\ i - 1 = Len(chunk) /\ i # 0
      BY <1>1, <2>3 DEF FramingInv, BufferInv
    <3>2. data' = Joined(wordStart, Len(chunk))
      BY <2>3, <3>1 DEF Keep
    <3>3. QED
      BY <2>1, <2>3, <3>1, <3>2 DEF Word
  <2>4. QED
    BY <2>2, <2>3
<1>5. QED
  BY <1>2, <1>3, <1>4 DEF Framer!vars, Keep

\* What a step of the loop does to the bytes: it takes the next one off what is
\* unread and adds it to what Joined gives.
LEMMA LoopBytes ==
  ASSUME FramingInv, Loop
  PROVE  /\ Unread # <<>>
         /\ Head(Unread) = chunk[i]
         /\ Unread' = Tail(Unread)
<1>1. /\ chunk \in Seq(Bytes) /\ stream \in Seq(Bytes) /\ Len(chunk) \in Nat
      /\ i \in 1 .. Len(chunk) /\ i' = i + 1 /\ chunk' = chunk /\ stream' = stream
      /\ i # 0 /\ i' # 0
  BY LenProperties DEF FramingInv, FramingTypeOK, Loop
<1> DEFINE head == <<chunk[i]>>
           part == SubSeq(chunk, i + 1, Len(chunk))
           rest == part \o stream
<1>2. part \in Seq(Bytes)
  <2>1. i + 1 \in Nat \ {0} /\ Len(chunk) \in 0 .. Len(chunk)
    BY <1>1
  <2>2. QED
    BY <1>1, <2>1, PartOfSeq
<1>3. chunk[i] \in Bytes /\ head \in Seq(Bytes) /\ Len(head) = 1 /\ head[1] = chunk[i]
  BY <1>1, ElementOfSeq
<1>4. Unread = head \o rest /\ rest \in Seq(Bytes)
  <2>1. Len(chunk) \in i .. Len(chunk)
    BY <1>1
  <2>2. SubSeq(chunk, i, Len(chunk)) = head \o part
    BY <1>1, <2>1, SubSeqRecursiveFirst
  <2>3. Unread = (head \o part) \o stream
    BY <1>1, <2>2 DEF Unread
  <2> HIDE DEF head, part
  <2>4. stream \in Seq(Bytes) /\ head \in Seq(Bytes) /\ part \in Seq(Bytes)
    BY <1>1, <1>2, <1>3
  <2>5. QED
    BY SMTT(40), <2>3, <2>4, ConcatAssociative, ConcatProperties
<1>5. Unread' = rest
  BY <1>1 DEF Unread
<1> HIDE DEF head, rest
<1>6. /\ Len(Unread) = 1 + Len(rest) /\ Len(rest) \in Nat /\ Unread \in Seq(Bytes)
      /\ \A j \in 1 .. 1 + Len(rest) :
           Unread[j] = IF j <= 1 THEN chunk[i] ELSE rest[j - 1]
  <2>1. Len(rest) \in Nat
    BY <1>4, LenProperties
  <2>2. /\ Unread \in Seq(Bytes) /\ Len(Unread) = Len(head) + Len(rest)
        /\ \A j \in 1 .. Len(head) + Len(rest) :
             Unread[j] = IF j <= Len(head) THEN head[j] ELSE rest[j - Len(head)]
    BY <1>3, <1>4, ConcatProperties
  <2>3. \A j \in 1 .. 1 + Len(rest) : j <= 1 => j = 1
    OBVIOUS
  <2>4. QED
    BY <1>3, <2>1, <2>2, <2>3
<1>7. Unread # <<>> /\ Unread[1] = chunk[i]
  BY <1>6, EmptySeq
<1>8. Head(Unread) = chunk[i]
  BY <1>6, <1>7
<1>9. Tail(Unread) = rest
  <2>1. /\ Tail(Unread) \in Seq(Bytes)
        /\ Len(Tail(Unread)) = Len(rest)
        /\ \A j \in 1 .. Len(Tail(Unread)) : Tail(Unread)[j] = Unread[j + 1]
    BY <1>6, <1>7, HeadTailProperties
  <2>2. \A j \in 1 .. Len(rest) : Unread[j + 1] = rest[j]
    BY <1>6
  <2>3. QED
    BY <1>4, <2>1, <2>2, SeqEqual
<1>10. QED
  BY <1>5, <1>7, <1>8, <1>9

\* One more byte of the message.
LEMMA JoinedNext ==
  ASSUME FramingInv, NEW j \in 1 .. Len(chunk), NEW first \in 1 .. j
  PROVE  Joined(first, j) = Append(Joined(first, j - 1), chunk[j])
<1>1. chunk \in Seq(Bytes) /\ data \in Seq(Bytes) /\ Len(chunk) \in Nat
  BY LenProperties DEF FramingInv, FramingTypeOK
<1>2. chunk[j] \in Bytes /\ <<chunk[j]>> \in Seq(Bytes)
  BY <1>1, ElementOfSeq
<1>3. first \in Nat \ {0} /\ j - 1 \in 0 .. Len(chunk) /\ j \in first .. Len(chunk)
      /\ first \in 1 .. Len(chunk)
  BY <1>1
<1>4. SubSeq(chunk, first, j - 1) \in Seq(Bytes)
  BY <1>1, <1>3, PartOfSeq
<1>5. SubSeq(chunk, first, j) = SubSeq(chunk, first, j - 1) \o <<chunk[j]>>
  BY <1>1, <1>3, SubSeqRecursiveSecond
<1>6. Joined(first, j) = (data \o SubSeq(chunk, first, j - 1)) \o <<chunk[j]>>
  BY SMTT(40), <1>1, <1>2, <1>4, <1>5, ConcatAssociative DEF Joined
<1>7. Joined(first, j - 1) \in Seq(Bytes)
  BY <1>3, JoinedType
<1>8. QED
  BY <1>2, <1>6, <1>7, AppendIsConcat DEF Joined

\* What ByteFramer's step does with the byte the loop looks at.
FramerByte ==
  LET next == Framer!NextMode(mode, brackets, chunk[i])
      text == IF mode = "FINAL" /\ next = "FINAL" THEN <<>> ELSE Append(Word, chunk[i])
  IN  /\ mode' = next
      /\ brackets' = Framer!NextBrackets(mode, brackets, chunk[i])
      /\ Word' = IF next = "FINAL" THEN <<>> ELSE text
      /\ delivered' = IF next = "FINAL" /\ mode # "FINAL"
                      THEN Append(delivered, text) ELSE delivered

LEMMA LoopRefines ==
  ASSUME FramingInv, Loop
  PROVE  Framer!Byte
<1>1. /\ Len(chunk) \in Nat /\ i \in 1 .. Len(chunk) /\ i' = i + 1 /\ chunk' = chunk
      /\ i # 0 /\ i' # 0 /\ i' - 1 = i
      /\ wordStart \in 1 .. i /\ data \in Seq(Bytes) /\ chunk \in Seq(Bytes)
      /\ brackets \in Nat
  BY SMTT(40), LenProperties DEF FramingInv, FramingTypeOK, BufferInv, Loop
<1>2. chunk[i] \in Bytes
  BY <1>1, ElementOfSeq
\* Within a message the next word is this one with the byte.
<1>3. ASSUME mode # "FINAL"
      PROVE  /\ Joined(wordStart, i) = Append(Word, chunk[i])
             /\ mode' # "FINAL" /\ UNCHANGED <<wordStart, data>> => Word' = Append(Word, chunk[i])
  <2>1. Word = Joined(wordStart, i - 1)
    BY <1>1, <1>3 DEF Word
  <2>2. Joined(wordStart, i) = Append(Joined(wordStart, i - 1), chunk[i])
    BY <1>1, JoinedNext
  <2>3. ASSUME mode' # "FINAL", UNCHANGED <<wordStart, data>>
        PROVE  Word' = Joined(wordStart, i)
    BY <1>1, <2>3 DEF Word, Joined
  <2>4. QED
    BY <2>1, <2>2, <2>3
<1>4. FramerByte
  <2>1. CASE Final
    <3>1. Word = <<>> /\ data = <<>> /\ mode = "FINAL"
      BY <2>1 DEF Word, Final, FramingInv, BufferInv
    <3>2. CASE chunk[i] = "open"
      <4>1. /\ mode' = "JSON" /\ brackets' = brackets + 1 /\ wordStart' = i /\ data' = <<>>
            /\ delivered' = delivered
        BY <2>1, <3>1, <3>2 DEF Final
      <4>2. Word' = Joined(i, i)
        BY <1>1, <3>1, <4>1 DEF Word, Joined
      <4>3. Joined(i, i) = Append(Joined(i, i - 1), chunk[i])
        BY <1>1, JoinedNext
      <4>4. Joined(i, i - 1) = <<>>
        <5>1. SubSeq(chunk, i, i - 1) = <<>>
          BY <1>1, SubSeqEmpty
        <5>2. QED
          BY <1>1, <3>1, <5>1, ConcatEmptySeq DEF Joined
      <4>5. Framer!NextMode(mode, brackets, chunk[i]) = "JSON"
        BY <3>1, <3>2 DEF Framer!NextMode
      <4>6. Framer!NextBrackets(mode, brackets, chunk[i]) = brackets + 1
        BY <3>1, <3>2 DEF Framer!NextBrackets
      <4>7. QED
        BY <3>1, <4>1, <4>2, <4>3, <4>4, <4>5, <4>6 DEF FramerByte
    <3>3. CASE chunk[i] # "open"
      <4>1. mode' = "FINAL" /\ brackets' = brackets /\ delivered' = delivered
        BY <2>1, <3>1, <3>3 DEF Final
      <4>2. Word' = <<>>
        BY <4>1 DEF Word
      <4>3. Framer!NextMode(mode, brackets, chunk[i]) = "FINAL"
        BY <3>1, <3>3 DEF Framer!NextMode
      <4>4. Framer!NextBrackets(mode, brackets, chunk[i]) = brackets
        BY <3>1, <3>3 DEF Framer!NextBrackets
      <4>5. QED
        BY <3>1, <4>1, <4>2, <4>3, <4>4 DEF FramerByte
    <3>4. QED
      BY <3>2, <3>3
  <2>2. CASE Complete
    <3>1. /\ mode = "JSON" /\ chunk[i] = "close" /\ brackets = 1
          /\ brackets' = 0 /\ mode' = "FINAL"
          /\ delivered' = Append(delivered, Joined(wordStart, i))
      BY <2>2 DEF Complete
    <3>2. Word' = <<>>
      BY <3>1 DEF Word
    <3>3. Framer!NextMode(mode, brackets, chunk[i]) = "FINAL"
      BY <3>1 DEF Framer!NextMode
    <3>4. Framer!NextBrackets(mode, brackets, chunk[i]) = 0
      BY <3>1 DEF Framer!NextBrackets
    <3>5. QED
      BY <1>3, <3>1, <3>2, <3>3, <3>4 DEF FramerByte
  <2>3. CASE Json
    <3>1. /\ mode = "JSON" /\ ~ (chunk[i] = "close" /\ brackets = 1)
          /\ UNCHANGED <<wordStart, data, delivered>>
          /\ mode' # "FINAL"
      BY <2>3 DEF Json
    <3>2. Framer!NextMode(mode, brackets, chunk[i]) = mode'
      BY <2>3, <3>1 DEF Framer!NextMode, Json
    <3>3. Framer!NextBrackets(mode, brackets, chunk[i]) = brackets'
      BY <2>3, <3>1 DEF Framer!NextBrackets, Json
    <3>4. Word' = Append(Word, chunk[i])
      BY <1>3, <3>1
    <3>5. QED
      BY <3>1, <3>2, <3>3, <3>4 DEF FramerByte
  <2>4. ASSUME \/ Str("STR_2", "ESC_2", "dq") \/ Str("STR_1", "ESC_1", "sq")
               \/ Esc("STR_2", "ESC_2") \/ Esc("STR_1", "ESC_1")
        PROVE  FramerByte
    <3>1. /\ mode \in {"STR_2", "ESC_2", "STR_1", "ESC_1"}
          /\ UNCHANGED <<wordStart, brackets, data, delivered>>
          /\ mode' # "FINAL" /\ mode # "FINAL"
      BY <2>4 DEF Str, Esc
    <3>2. Framer!NextMode(mode, brackets, chunk[i]) = mode'
      BY <2>4 DEF Framer!NextMode, Str, Esc
    <3>3. Framer!NextBrackets(mode, brackets, chunk[i]) = brackets'
      BY <3>1 DEF Framer!NextBrackets
    <3>4. Word' = Append(Word, chunk[i])
      BY <1>3, <3>1
    <3>5. QED
      BY <3>1, <3>2, <3>3, <3>4 DEF FramerByte
  <2>5. QED
    BY <2>1, <2>2, <2>3, <2>4 DEF Loop
<1>5. Unread # <<>> /\ Head(Unread) = chunk[i] /\ Unread' = Tail(Unread)
  BY LoopBytes
<1>6. QED
  BY <1>4, <1>5 DEF FramerByte, Framer!Byte

\* buffer_update, given any chunks, delivers what the framer of single bytes
\* delivers: where a message is cut makes no difference.
THEOREM ChunksDoNotMatter == Spec => ByteFramerSpec
<1>1. ASSUME FramingInv, [Next]_vars
      PROVE  [Framer!Next]_(Framer!vars)
  <2>1. CASE \E g \in Gaps, t \in Texts : Send(g, t)
    BY <2>1, SendStutters
  <2>2. CASE \E n \in 1 .. Len(unsent) : Write(n)
    BY <1>1, <2>2, WriteRefines DEF Framer!Next
  <2>3. CASE \E n \in 1 .. MaxChunk : Receive(n)
    BY <1>1, <2>3, ReceiveStutters
  <2>4. CASE Loop
    BY <1>1, <2>4, LoopRefines DEF Framer!Next
  <2>5. CASE Keep
    BY <1>1, <2>5, KeepStutters
  <2>6. CASE UNCHANGED vars
    BY <2>6 DEF vars, Framer!vars, Unread, Word, Joined
  <2>7. QED
    BY <1>1, <2>1, <2>2, <2>3, <2>4, <2>5, <2>6 DEF Next
<1>2. QED
  BY <1>1, FramingInit, FramingStep, FramerInit, PTL DEF Spec, ByteFramerSpec, Framer!Spec

-----------------------------------------------------------------------------
(* The messages are those that were sent. *)

\* The bytes that are still to come: not looked at, or not even written.
Pending == Unread \o unsent

\* Of the messages snt, d are delivered; byte j of message n of the others is byte
\* s[n] + j of those pending, P, unless that is before the first.  They lie there
\* one after the other, and no bracket opens between them.
Placed(snt, d, P, s) ==
  /\ d \in 0 .. Len(snt)
  /\ s \in [1 .. Len(snt) -> Int]
  /\ \A n \in d + 1 .. Len(snt) :
       /\ s[n] + Len(snt[n]) \in 1 .. Len(P)
       /\ \A j \in 1 .. Len(snt[n]) : s[n] + j >= 1 => P[s[n] + j] = snt[n][j]
       /\ \A k \in n + 1 .. Len(snt) : s[n] + Len(snt[n]) <= s[k]
  /\ \A p \in 1 .. Len(P) :
       P[p] = "open" =>
         \E n \in d + 1 .. Len(snt) : s[n] < p /\ p <= s[n] + Len(snt[n])

\* The framer is before all the messages it has not delivered.
Between(m, open, w, snt, d, s) ==
  /\ m = "FINAL" /\ open = 0 /\ w = <<>>
  /\ \A n \in d + 1 .. Len(snt) : s[n] >= 0

\* Or it has read a part of the first of them.
Within(m, open, w, snt, d, s) ==
  /\ m # "FINAL" /\ d < Len(snt)
  /\ LET t == snt[d + 1]
         k == - s[d + 1]
     IN  /\ k \in 1 .. Len(t) - 1
         /\ w \in Seq(Bytes) /\ Len(w) = k /\ \A j \in 1 .. k : w[j] = t[j]
         /\ \E r : Reads(t, r) /\ r[k] = [mode |-> m, brackets |-> open]

At(m, open, w, snt, d, s) ==
  Between(m, open, w, snt, d, s) \/ Within(m, open, w, snt, d, s)

WholeInv ==
  /\ sent \in Seq(Texts)
  /\ \A n \in 1 .. Len(delivered) : delivered[n] = sent[n]
  /\ \E s : /\ Placed(sent, Len(delivered), Pending, s)
            /\ At(mode, brackets, Word, sent, Len(delivered), s)

\* A message that is sent is placed after all that is pending and the gap.
LEMMA SendPlaces ==
  ASSUME NEW snt \in Seq(Texts), NEW d, NEW P \in Seq(Bytes), NEW s,
         Placed(snt, d, P, s), NEW m, NEW open, NEW w, At(m, open, w, snt, d, s),
         NEW g \in Seq(Bytes), \A k \in 1 .. Len(g) : g[k] # "open",
         NEW t \in Texts, t \in Seq(Bytes), t # <<>>
  PROVE  \E z : /\ Placed(Append(snt, t), d, P \o (g \o t), z)
                /\ At(m, open, w, Append(snt, t), d, z)
<1> DEFINE N == Len(snt)
           a == Len(P)
           b == Len(g)
           c == Len(t)
           new == Append(snt, t)
           Q == P \o (g \o t)
           z == [n \in 1 .. N + 1 |-> IF n <= N THEN s[n] ELSE a + b]
<1>1. /\ N \in Nat /\ a \in Nat /\ b \in Nat /\ c \in Nat /\ c > 0
      /\ d \in 0 .. N
  <2>1. c # 0
    BY EmptySeq
  <2> QED  BY <2>1, LenProperties DEF Placed
<1>2. /\ Len(new) = N + 1 /\ new[N + 1] = t
      /\ \A n \in 1 .. N : new[n] = snt[n]
  BY AppendProperties
<1>3. /\ Len(Q) = a + b + c
      /\ \A p \in 1 .. a : Q[p] = P[p]
      /\ \A p \in 1 .. b : Q[a + p] = g[p]
      /\ \A p \in 1 .. c : Q[a + b + p] = t[p]
  <2> DEFINE R == g \o t
  <2>1. /\ R \in Seq(Bytes) /\ Len(R) = b + c
        /\ \A p \in 1 .. b + c : R[p] = IF p <= b THEN g[p] ELSE t[p - b]
    BY ConcatProperties
  <2> HIDE DEF R
  <2>2. /\ Len(Q) = a + Len(R)
        /\ \A p \in 1 .. a + Len(R) : Q[p] = IF p <= a THEN P[p] ELSE R[p - a]
    BY <2>1, ConcatProperties DEF R
  <2> HIDE DEF Q, a, b, c
  <2>3. \A p \in 1 .. a : Q[p] = P[p]
    BY <1>1, <2>1, <2>2
  <2>4. \A p \in 1 .. b + c : Q[a + p] = R[p]
    <3> SUFFICES ASSUME NEW p \in 1 .. b + c PROVE Q[a + p] = R[p]
      OBVIOUS
    <3>1. a + p \in 1 .. a + Len(R) /\ ~ (a + p <= a) /\ (a + p) - a = p
      BY <1>1, <2>1
    <3> QED  BY <2>2, <3>1
  <2>5. \A p \in 1 .. c : R[b + p] = t[p]
    <3> SUFFICES ASSUME NEW p \in 1 .. c PROVE R[b + p] = t[p]
      OBVIOUS
    <3>1. b + p \in 1 .. b + c /\ ~ (b + p <= b) /\ (b + p) - b = p
      BY <1>1
    <3> QED  BY <2>1, <3>1
  <2>6. \A p \in 1 .. b : Q[a + p] = g[p]
    BY <1>1, <2>1, <2>4
  <2>7. \A p \in 1 .. c : Q[a + b + p] = t[p]
    <3> SUFFICES ASSUME NEW p \in 1 .. c PROVE Q[a + b + p] = t[p]
      OBVIOUS
    <3>1. b + p \in 1 .. b + c /\ a + b + p = a + (b + p)
      BY <1>1
    <3> QED  BY <2>4, <2>5, <3>1
  <2> QED  BY <1>1, <2>1, <2>2, <2>3, <2>6, <2>7
<1>4. /\ z \in [1 .. N + 1 -> Int] /\ z[N + 1] = a + b
      /\ \A n \in 1 .. N : z[n] = s[n]
  BY <1>1 DEF Placed
<1> HIDE DEF Q, a, b, c, z, new, N
<1>5. ASSUME NEW n \in d + 1 .. N
      PROVE  /\ snt[n] = new[n] /\ z[n] = s[n] /\ s[n] \in Int /\ Len(snt[n]) \in Nat
             /\ s[n] + Len(snt[n]) \in 1 .. a
             /\ \A j \in 1 .. Len(snt[n]) : s[n] + j >= 1 => P[s[n] + j] = snt[n][j]
             /\ \A k \in n + 1 .. N : s[n] + Len(snt[n]) <= s[k]
  <2>1. n \in 1 .. N
    BY <1>1
  <2>2. snt[n] \in Seq(Bytes)
    BY <2>1, ElementOfSeq, FramingAssumption DEF N
  <2>3. Len(snt[n]) \in Nat
    BY <2>2, LenProperties
  <2> QED  BY <1>2, <1>4, <2>1, <2>3 DEF Placed, N, a
<1>6. Placed(new, d, Q, z)
  <2>1. ASSUME NEW n \in d + 1 .. N + 1
        PROVE  /\ z[n] + Len(new[n]) \in 1 .. Len(Q)
               /\ \A j \in 1 .. Len(new[n]) : z[n] + j >= 1 => Q[z[n] + j] = new[n][j]
               /\ \A k \in n + 1 .. N + 1 : z[n] + Len(new[n]) <= z[k]
    <3>1. CASE n <= N
      <4> DEFINE l == Len(snt[n])
      <4>1. n \in d + 1 .. N
        BY <1>1, <3>1
      <4>2. /\ new[n] = snt[n] /\ Len(new[n]) = l /\ z[n] = s[n] /\ s[n] \in Int /\ l \in Nat
            /\ s[n] + l \in 1 .. a
            /\ \A j \in 1 .. l : s[n] + j >= 1 => P[s[n] + j] = snt[n][j]
            /\ \A k \in n + 1 .. N : s[n] + l <= s[k]
        BY <1>5, <4>1, Zenon
      <4> HIDE DEF l
      <4>3. z[n] + Len(new[n]) \in 1 .. Len(Q)
        BY <1>1, <1>3, <4>2
      <4>4. ASSUME NEW j \in 1 .. Len(new[n]), z[n] + j >= 1
            PROVE  Q[z[n] + j] = new[n][j]
        <5>1. s[n] + j \in 1 .. a /\ j \in 1 .. l
          BY <1>1, <4>2, <4>4
        <5>2. Q[s[n] + j] = P[s[n] + j]
          BY <1>3, <5>1
        <5>3. P[s[n] + j] = snt[n][j]
          BY <4>2, <4>4, <5>1
        <5> QED  BY <4>2, <5>2, <5>3
      <4>5. ASSUME NEW k \in n + 1 .. N + 1
            PROVE  z[n] + Len(new[n]) <= z[k]
        <5>1. CASE k <= N
          <6>1. k \in n + 1 .. N /\ k \in d + 1 .. N
            BY <1>1, <4>1, <5>1
          <6>2. z[k] = s[k]
            BY <1>5, <6>1
          <6> QED  BY <4>2, <6>1, <6>2
        <5>2. CASE k = N + 1
          BY <1>1, <1>4, <4>2, <5>2
        <5> QED  BY <1>1, <4>1, <5>1, <5>2
      <4> QED  BY <4>3, <4>4, <4>5
    <3>2. CASE n = N + 1
      <4>1. new[n] = t /\ Len(new[n]) = c /\ z[n] = a + b
        BY <1>2, <1>4, <3>2 DEF c
      <4> QED  BY <1>1, <1>3, <3>2, <4>1
    <3> QED  BY <1>1, <3>1, <3>2
  <2>2. ASSUME NEW p \in 1 .. Len(Q), Q[p] = "open"
        PROVE  \E n \in d + 1 .. N + 1 : z[n] < p /\ p <= z[n] + Len(new[n])
    <3>1. CASE p <= a
      <4>1. p \in 1 .. a /\ P[p] = "open"
        BY <1>1, <1>3, <2>2, <3>1
      <4>2. PICK n \in d + 1 .. N : s[n] < p /\ p <= s[n] + Len(snt[n])
        BY <4>1 DEF Placed, N, a
      <4>3. new[n] = snt[n] /\ z[n] = s[n]
        BY <1>5, Zenon
      <4>4. n \in d + 1 .. N + 1
        BY <1>1
      <4> QED  BY <4>2, <4>3, <4>4
    <3>2. CASE p > a /\ p <= a + b
      <4>1. PICK k \in 1 .. b : p = a + k
        <5>1. p - a \in 1 .. b /\ p = a + (p - a)
          BY <1>1, <1>3, <3>2
        <5> QED  BY <5>1
      <4> QED  BY <1>3, <2>2, <4>1 DEF b
    <3>3. CASE p > a + b
      <4>1. N + 1 \in d + 1 .. N + 1 /\ Len(new[N + 1]) = c
        BY <1>1, <1>2 DEF c
      <4>2. z[N + 1] < p /\ p <= z[N + 1] + c
        BY <1>1, <1>3, <1>4, <3>3
      <4> QED  BY <4>1, <4>2
    <3> QED  BY <1>1, <1>3, <3>1, <3>2, <3>3
  <2> QED  BY <1>1, <1>2, <1>4, <2>1, <2>2 DEF Placed
<1>7. At(m, open, w, new, d, z)
  <2>1. CASE Between(m, open, w, snt, d, s)
    <3>1. ASSUME NEW n \in d + 1 .. N + 1 PROVE z[n] >= 0
      <4>1. CASE n = N + 1
        BY <1>1, <1>4, <4>1
      <4>2. CASE n # N + 1
        <5>1. n \in d + 1 .. N
          BY <1>1, <4>2
        <5> QED  BY <1>5, <2>1, <5>1 DEF Between, N
      <4> QED  BY <4>1, <4>2
    <3> QED  BY <1>2, <2>1, <3>1 DEF Between, At
  <2>2. CASE Within(m, open, w, snt, d, s)
    <3>1. d + 1 \in d + 1 .. N /\ d < Len(new)
      BY <1>1, <1>2, <2>2 DEF Within, N
    <3>2. new[d + 1] = snt[d + 1] /\ z[d + 1] = s[d + 1]
      BY <1>5, <3>1
    <3> QED  BY <2>2, <3>1, <3>2 DEF Within, At
  <2> QED  BY <2>1, <2>2 DEF At
<1> QED  BY <1>6, <1>7 DEF new, Q

\* A byte is taken, the last of the messages from d + 1 to e: all others are one
\* byte nearer.
LEMMA BytePlaces ==
  ASSUME NEW snt \in Seq(Texts), NEW d, NEW P \in Seq(Bytes), NEW s,
         Placed(snt, d, P, s), P # <<>>, NEW e \in d .. Len(snt),
         \A n \in d + 1 .. e : s[n] + Len(snt[n]) = 1,
         \A n \in e + 1 .. Len(snt) : s[n] + Len(snt[n]) > 1
  PROVE  \E z : /\ Placed(snt, e, Tail(P), z)
                /\ \A n \in 1 .. Len(snt) : z[n] = s[n] - 1
<1> DEFINE N == Len(snt)
           a == Len(P)
           Q == Tail(P)
           z == [n \in 1 .. N |-> s[n] - 1]
<1>1. /\ N \in Nat /\ a \in Nat /\ d \in 0 .. N /\ e \in 0 .. N /\ d <= e
      /\ Len(Q) = a - 1
      /\ \A p \in 1 .. a - 1 : Q[p] = P[p + 1]
  <2>1. N \in Nat /\ a \in Nat
    BY LenProperties
  <2>2. d \in 0 .. N
    BY DEF Placed
  <2> QED  BY <2>1, <2>2, HeadTailProperties
<1>2. z \in [1 .. N -> Int] /\ \A n \in 1 .. N : z[n] = s[n] - 1
  BY DEF Placed
<1> HIDE DEF N, a, Q, z
<1>3. ASSUME NEW n \in d + 1 .. N
      PROVE  /\ z[n] = s[n] - 1 /\ s[n] \in Int /\ Len(snt[n]) \in Nat
             /\ s[n] + Len(snt[n]) \in 1 .. a
             /\ \A j \in 1 .. Len(snt[n]) : s[n] + j >= 1 => P[s[n] + j] = snt[n][j]
             /\ \A k \in n + 1 .. N : s[n] + Len(snt[n]) <= s[k]
  <2>1. n \in 1 .. N
    BY <1>1
  <2>2. snt[n] \in Seq(Bytes)
    BY <2>1, ElementOfSeq, FramingAssumption DEF N
  <2>3. Len(snt[n]) \in Nat
    BY <2>2, LenProperties
  <2> QED  BY <1>2, <2>1, <2>3 DEF Placed, N, a
<1>4. ASSUME NEW n \in e + 1 .. N
      PROVE  /\ z[n] + Len(snt[n]) \in 1 .. Len(Q)
             /\ \A j \in 1 .. Len(snt[n]) : z[n] + j >= 1 => Q[z[n] + j] = snt[n][j]
             /\ \A k \in n + 1 .. N : z[n] + Len(snt[n]) <= z[k]
  <2> DEFINE l == Len(snt[n])
  <2>1. n \in d + 1 .. N
    BY <1>1
  <2>2. /\ z[n] = s[n] - 1 /\ s[n] \in Int /\ l \in Nat
        /\ s[n] + l \in 1 .. a
        /\ \A j \in 1 .. l : s[n] + j >= 1 => P[s[n] + j] = snt[n][j]
        /\ \A k \in n + 1 .. N : s[n] + l <= s[k]
    BY <1>3, <2>1, Zenon
  <2>3. s[n] + l > 1
    BY DEF N, l
  <2> HIDE DEF l
  <2>4. z[n] + l \in 1 .. Len(Q)
    BY <1>1, <2>2, <2>3
  <2>5. ASSUME NEW j \in 1 .. l, z[n] + j >= 1
        PROVE  Q[z[n] + j] = snt[n][j]
    <3>0. z[n] = s[n] - 1 /\ s[n] \in Int /\ l \in Nat /\ s[n] + l <= a
      BY <1>1, <2>2
    <3>1. z[n] + j \in 1 .. a - 1 /\ (z[n] + j) + 1 = s[n] + j /\ s[n] + j >= 1
      <4> DEFINE x == s[n]
                 y == z[n]
      <4>1. /\ y = x - 1 /\ x \in Int /\ l \in Int /\ x + l <= a /\ a \in Int
            /\ j \in Int /\ j <= l /\ y + j >= 1
        BY <1>1, <2>5, <3>0
      <4> HIDE DEF x, y
      <4>2. y + j \in 1 .. a - 1 /\ (y + j) + 1 = x + j /\ x + j >= 1
        BY <4>1
      <4> QED  BY <4>2 DEF x, y
    <3>2. Q[z[n] + j] = P[s[n] + j]
      BY <1>1, <3>1
    <3> QED  BY <2>2, <3>1, <3>2
  <2>6. ASSUME NEW k \in n + 1 .. N
        PROVE  z[n] + l <= z[k]
    <3>1. k \in d + 1 .. N
      BY <1>1, <2>1
    <3>2. z[k] = s[k] - 1 /\ s[k] \in Int
      BY <1>3, <3>1, Zenon
    <3> QED  BY <2>2, <2>6, <3>2
  <2> QED  BY <2>4, <2>5, <2>6 DEF l
<1>5. ASSUME NEW p \in 1 .. Len(Q), Q[p] = "open"
      PROVE  \E n \in e + 1 .. N : z[n] < p /\ p <= z[n] + Len(snt[n])
  <2>1. p + 1 \in 1 .. a /\ P[p + 1] = "open" /\ p \in Int /\ p >= 1
    BY <1>1, <1>5
  <2>2. PICK n \in d + 1 .. N : s[n] < p + 1 /\ p + 1 <= s[n] + Len(snt[n])
    BY <2>1 DEF Placed, N, a
  <2> DEFINE l == Len(snt[n])
  <2>3. z[n] = s[n] - 1 /\ s[n] \in Int /\ l \in Nat
    BY <1>3, Zenon
  <2>4. n \in d + 1 .. e => s[n] + l = 1
    OBVIOUS
  <2>5. s[n] < p + 1 /\ p + 1 <= s[n] + l
    BY <2>2
  <2> HIDE DEF l
  <2>6. n \in e + 1 .. N
    BY <1>1, <2>1, <2>3, <2>4, <2>5
  <2>7. z[n] < p /\ p <= z[n] + l
    BY <2>1, <2>3, <2>5
  <2> QED  BY <2>6, <2>7 DEF l
<1>6. Placed(snt, e, Q, z)
  BY <1>1, <1>2, <1>4, <1>5 DEF Placed, N
<1> QED  BY <1>2, <1>6 DEF Q, N

\* None of them ends with the byte.
LEMMA ByteNearer ==
  ASSUME NEW snt \in Seq(Texts), NEW d, NEW P \in Seq(Bytes), NEW s,
         Placed(snt, d, P, s), P # <<>>,
         \A n \in d + 1 .. Len(snt) : s[n] + Len(snt[n]) > 1
  PROVE  \E z : /\ Placed(snt, d, Tail(P), z)
                /\ \A n \in 1 .. Len(snt) : z[n] = s[n] - 1
<1>1. PICK e : e = d
  OBVIOUS
<1>2. d \in 0 .. Len(snt) /\ Len(snt) \in Nat
  BY LenProperties DEF Placed
<1>3. /\ e \in d .. Len(snt)
      /\ \A n \in d + 1 .. e : s[n] + Len(snt[n]) = 1
      /\ \A n \in e + 1 .. Len(snt) : s[n] + Len(snt[n]) > 1
  BY <1>1, <1>2
<1>4. \E z : /\ Placed(snt, e, Tail(P), z)
             /\ \A n \in 1 .. Len(snt) : z[n] = s[n] - 1
  BY <1>3, BytePlaces
<1> QED  BY <1>1, <1>4

\* In mode m, with so many brackets open and w read, the framer goes on to next
\* and count with byte b, which makes it text.
Moves(m, open, w, b, next, count, text) ==
  /\ next = Framer!NextMode(m, open, b)
  /\ count = Framer!NextBrackets(m, open, b)
  /\ text = IF m = "FINAL" /\ next = "FINAL" THEN <<>> ELSE Append(w, b)

\* Then text is the next message, whole, or the framer is still before its end.
Reached(m, next, count, text, snt, d, P) ==
  \E z :
    IF next = "FINAL" /\ m # "FINAL"
    THEN /\ d < Len(snt) /\ text = snt[d + 1]
         /\ Placed(snt, d + 1, P, z)
         /\ At(next, count, <<>>, snt, d + 1, z)
    ELSE /\ Placed(snt, d, P, z)
         /\ At(next, count, IF next = "FINAL" THEN <<>> ELSE text, snt, d, z)

\* What the framer reads is what was sent.
LEMMA ByteFits ==
  ASSUME NEW snt \in Seq(Texts), NEW d, NEW P \in Seq(Bytes), NEW s,
         Placed(snt, d, P, s), P # <<>>,
         \A t \in Texts : \E r : Reads(t, r),
         NEW m, NEW open, NEW w, At(m, open, w, snt, d, s),
         NEW next, NEW count, NEW text, Moves(m, open, w, P[1], next, count, text)
  PROVE  Reached(m, next, count, text, snt, d, Tail(P))
<1> USE DEF Reached
<1> DEFINE N == Len(snt)
           b == P[1]
<1>0. /\ next = Framer!NextMode(m, open, b)
      /\ count = Framer!NextBrackets(m, open, b)
      /\ text = IF m = "FINAL" /\ next = "FINAL" THEN <<>> ELSE Append(w, b)
  BY DEF Moves
<1>1. N \in Nat /\ d \in 0 .. N /\ Len(P) \in Nat /\ Len(P) >= 1 /\ b \in Bytes
  <2>1. N \in Nat /\ Len(P) \in Nat /\ Len(P) # 0
    BY LenProperties, EmptySeq
  <2> QED  BY <2>1, ElementOfSeq DEF Placed
<1>2. ASSUME NEW n \in d + 1 .. N
      PROVE  /\ n \in 1 .. N /\ snt[n] \in Texts /\ snt[n] \in Seq(Bytes)
             /\ Len(snt[n]) \in Nat /\ Len(snt[n]) >= 1 /\ snt[n][1] = "open"
             /\ s[n] \in Int
             /\ s[n] + Len(snt[n]) \in 1 .. Len(P)
             /\ \A j \in 1 .. Len(snt[n]) : s[n] + j >= 1 => P[s[n] + j] = snt[n][j]
             /\ \A k \in n + 1 .. N : s[n] + Len(snt[n]) <= s[k]
  <2>1. n \in 1 .. N
    BY <1>1
  <2>2. snt[n] \in Texts /\ snt[n] \in Seq(Bytes)
    BY <2>1, ElementOfSeq, FramingAssumption
  <2>3. snt[n] # <<>> /\ snt[n][1] = "open"
    BY <2>2 DEF Reads
  <2>4. Len(snt[n]) \in Nat /\ Len(snt[n]) # 0
    BY <2>2, <2>3, LenProperties, EmptySeq
  <2>5. /\ s[n] \in Int
        /\ s[n] + Len(snt[n]) \in 1 .. Len(P)
        /\ \A j \in 1 .. Len(snt[n]) : s[n] + j >= 1 => P[s[n] + j] = snt[n][j]
        /\ \A k \in n + 1 .. N : s[n] + Len(snt[n]) <= s[k]
    BY <2>1 DEF Placed
  <2>6. Len(snt[n]) >= 1
    BY <2>4
  <2> QED  BY <2>1, <2>2, <2>3, <2>4, <2>5, <2>6, Zenon
<1> HIDE DEF N, b
<1>3. CASE m = "FINAL" /\ b # "open"
  <2>1. next = "FINAL" /\ count = 0
    BY <1>0, <1>3 DEF Framer!NextMode, Framer!NextBrackets, At, Between, Within
  <2>2. ASSUME NEW n \in d + 1 .. N
        PROVE  s[n] > 0 /\ s[n] + Len(snt[n]) > 1
    <3>1. /\ s[n] \in Int /\ Len(snt[n]) \in Nat /\ Len(snt[n]) >= 1 /\ snt[n][1] = "open"
          /\ \A j \in 1 .. Len(snt[n]) : s[n] + j >= 1 => P[s[n] + j] = snt[n][j]
      BY <1>2, Zenon
    <3>2. s[n] >= 0
      BY <1>3 DEF At, Between, Within, N
    <3>3. s[n] # 0
      <4> SUFFICES ASSUME s[n] = 0 PROVE FALSE
        OBVIOUS
      <4>1. 1 \in 1 .. Len(snt[n]) /\ s[n] + 1 = 1
        BY <3>1
      <4> QED  BY <1>3, <3>1, <4>1 DEF b
    <3> QED  BY <3>1, <3>2, <3>3
  <2>3. PICK z : Placed(snt, d, Tail(P), z) /\ \A n \in 1 .. N : z[n] = s[n] - 1
    <3>1. \A n \in d + 1 .. Len(snt) : s[n] + Len(snt[n]) > 1
      BY <2>2 DEF N
    <3> QED  BY <3>1, ByteNearer DEF N
  <2>4. ASSUME NEW n \in d + 1 .. N PROVE z[n] >= 0
    <3>1. s[n] \in Int /\ n \in 1 .. N
      BY <1>2, Zenon
    <3> QED  BY <2>2, <2>3, <3>1
  <2>5. At(next, count, <<>>, snt, d, z)
    BY <2>1, <2>4 DEF At, Between, N
  <2> QED  BY <1>3, <2>1, <2>3, <2>5
<1>4. CASE m = "FINAL" /\ b = "open"
  <2>0. open = 0 /\ w = <<>> /\ \A n \in d + 1 .. N : s[n] >= 0
    BY <1>4 DEF At, Between, Within, N
  <2>1. next = "JSON" /\ count = 1 /\ text = <<b>>
    <3>1. next = "JSON" /\ count = 1
      BY <1>0, <1>4, <2>0 DEF Framer!NextMode, Framer!NextBrackets
    <3> QED  BY <1>0, <1>1, <1>4, <2>0, <3>1
  <2> DEFINE f == d + 1
             t == snt[f]
  <2>2. f \in d + 1 .. N /\ s[f] = 0
    <3>1. PICK n \in d + 1 .. N : s[n] < 1 /\ 1 <= s[n] + Len(snt[n])
      BY <1>1, <1>4 DEF Placed, N, b
    <3>2. s[n] \in Int /\ s[n] >= 0
      BY <1>2, <2>0
    <3>3. f \in d + 1 .. N
      BY <1>1
    <3>4. /\ s[f] \in Int /\ s[f] >= 0 /\ Len(t) \in Nat /\ Len(t) >= 1
          /\ \A k \in f + 1 .. N : s[f] + Len(t) <= s[k]
      <4> HIDE DEF f
      <4> QED  BY <1>2, <2>0, <3>3
    <3> HIDE DEF t
    <3>5. n = f
      <4> SUFFICES ASSUME n # f PROVE FALSE
        OBVIOUS
      <4>1. n \in f + 1 .. N
        BY <1>1
      <4> QED  BY <3>1, <3>2, <3>4, <4>1
    <3> QED  BY <3>1, <3>2, <3>3, <3>5
  <2> HIDE DEF f
  <2>3. /\ t \in Texts /\ t \in Seq(Bytes) /\ Len(t) \in Nat /\ Len(t) >= 1
        /\ t[1] = "open" /\ \A k \in f + 1 .. N : s[f] + Len(t) <= s[k]
    BY <1>2, <2>2, Zenon
  <2> HIDE DEF t
  <2>4. PICK r : Reads(t, r)
    BY <2>3
  <2>5. r[1] = [mode |-> "JSON", brackets |-> 1] /\ Len(t) > 1
    <3>1. 1 \in 1 .. Len(t) /\ 1 - 1 = 0
      BY <2>3
    <3>2. /\ r[0] = [mode |-> "FINAL", brackets |-> 0]
          /\ r[1] = [mode |-> Framer!NextMode(r[0].mode, r[0].brackets, t[1]),
                     brackets |-> Framer!NextBrackets(r[0].mode, r[0].brackets, t[1])]
          /\ r[1].mode = "FINAL" <=> 1 = Len(t)
      BY <2>4, <3>1 DEF Reads
    <3>3. r[1] = [mode |-> "JSON", brackets |-> 1]
      BY <2>3, <3>2 DEF Framer!NextMode, Framer!NextBrackets
    <3>4. r[1].mode = "JSON"
      BY <3>3
    <3>5. 1 # Len(t)
      BY <3>2, <3>4
    <3>6. Len(t) > 1
      <4> DEFINE c == Len(t)
      <4>1. c \in Nat /\ c >= 1 /\ c # 1
        BY <2>3, <3>5
      <4> HIDE DEF c
      <4>2. c > 1
        BY <4>1
      <4> QED  BY <4>2 DEF c
    <3> QED  BY <3>3, <3>6
  <2>6. ASSUME NEW n \in d + 1 .. N PROVE s[n] + Len(snt[n]) > 1
    <3>1. CASE n = f
      BY <2>2, <2>3, <2>5, <3>1 DEF t
    <3>2. CASE n # f
      <4>1. n \in f + 1 .. N
        BY <1>1, <3>2 DEF f
      <4>2. s[n] >= s[f] + Len(t) /\ s[n] \in Int /\ Len(snt[n]) \in Nat /\ Len(snt[n]) >= 1
        BY <1>2, <2>2, <2>3, <4>1
      <4> QED  BY <2>2, <2>3, <2>5, <4>2
    <3> QED  BY <3>1, <3>2
  <2>7. PICK z : Placed(snt, d, Tail(P), z) /\ \A n \in 1 .. N : z[n] = s[n] - 1
    <3>1. \A n \in d + 1 .. Len(snt) : s[n] + Len(snt[n]) > 1
      BY <2>6 DEF N
    <3> QED  BY <3>1, ByteNearer DEF N
  <2>8. - z[f] = 1
    BY <1>1, <2>2, <2>7 DEF f
  <2>9. text \in Seq(Bytes) /\ Len(text) = 1 /\ text[1] = t[1]
    <3>1. <<b>> \in Seq(Bytes) /\ Len(<<b>>) = 1 /\ <<b>>[1] = b
      BY <1>1
    <3> QED  BY <1>4, <2>1, <2>3, <3>1
  <2>10. Within(next, count, text, snt, d, z)
    <3>1. d < Len(snt)
      BY <1>1, <2>2 DEF N
    <3>2. 1 \in 1 .. Len(t) - 1 /\ \A j \in 1 .. 1 : text[j] = t[j]
      BY <2>3, <2>5, <2>9
    <3>3. r[1] = [mode |-> next, brackets |-> count]
      BY <2>1, <2>5
    <3> QED  BY <2>1, <2>4, <2>8, <2>9, <3>1, <3>2, <3>3 DEF Within, t, f
  <2> QED  BY <1>4, <2>1, <2>7, <2>10 DEF At
<1>5. CASE m # "FINAL"
  <2> DEFINE f == d + 1
             t == snt[f]
             k == - s[f]
  <2>1. f \in d + 1 .. N
    BY <1>1, <1>5 DEF At, Within, Between, N
  <2>2. /\ k \in 1 .. Len(t) - 1
        /\ w \in Seq(Bytes) /\ Len(w) = k /\ \A j \in 1 .. k : w[j] = t[j]
    BY <1>5 DEF At, Within, Between
  <2>3. PICK r : Reads(t, r) /\ r[k] = [mode |-> m, brackets |-> open]
    BY <1>5 DEF At, Within, Between
  <2> HIDE DEF f
  <2>4. /\ t \in Texts /\ t \in Seq(Bytes) /\ Len(t) \in Nat /\ s[f] \in Int
        /\ \A j \in 1 .. Len(t) : s[f] + j >= 1 => P[s[f] + j] = t[j]
        /\ \A n \in f + 1 .. N : s[f] + Len(t) <= s[n]
    BY <1>2, <2>1, Zenon
  <2> HIDE DEF t
  <2>5. k \in Int /\ s[f] = - k /\ k + 1 \in 1 .. Len(t)
    BY <2>2, <2>4
  <2> HIDE DEF k
  <2>6. b = t[k + 1]
    <3>1. s[f] + (k + 1) = 1 /\ s[f] + (k + 1) >= 1
      BY <2>5
    <3> QED  BY <2>4, <2>5, <3>1 DEF b
  <2>7. /\ r[k + 1] = [mode |-> next, brackets |-> count]
        /\ r[k + 1].mode = "FINAL" <=> k + 1 = Len(t)
    <3>1. (k + 1) - 1 = k
      BY <2>5
    <3>2. /\ r[k + 1] = [mode |-> Framer!NextMode(r[k].mode, r[k].brackets, t[k + 1]),
                         brackets |-> Framer!NextBrackets(r[k].mode, r[k].brackets, t[k + 1])]
          /\ r[k + 1].mode = "FINAL" <=> k + 1 = Len(t)
      BY <2>3, <2>5, <3>1 DEF Reads
    <3>3. r[k].mode = m /\ r[k].brackets = open
      BY <2>3
    <3> QED  BY <1>0, <2>6, <3>2, <3>3
  <2>8. next = "FINAL" <=> k + 1 = Len(t)
    BY <2>7
  <2>9. /\ text \in Seq(Bytes) /\ Len(text) = k + 1
        /\ \A j \in 1 .. k + 1 : text[j] = t[j]
    <3>1. text = Append(w, b)
      BY <1>0, <1>5
    <3>2. /\ text \in Seq(Bytes) /\ Len(text) = k + 1 /\ text[k + 1] = b
          /\ \A j \in 1 .. k : text[j] = w[j]
      BY <1>1, <2>2, <3>1, AppendProperties
    <3>3. \A j \in 1 .. k + 1 : j \in 1 .. k \/ j = k + 1
      BY <2>5
    <3> QED  BY <2>2, <2>6, <3>2, <3>3
  <2>10. ASSUME NEW n \in f + 1 .. N PROVE s[n] + Len(snt[n]) > 1 /\ s[n] >= 1 /\ s[n] \in Int
    <3>1. n \in d + 1 .. N
      BY <1>1, <2>10 DEF f
    <3>2. s[n] \in Int /\ Len(snt[n]) \in Nat /\ Len(snt[n]) >= 1
      BY <1>2, <3>1, Zenon
    <3>3. s[f] + Len(t) <= s[n]
      BY <2>4
    <3> QED  BY <2>4, <2>5, <3>2, <3>3
  <2>11. CASE next = "FINAL"
    <3>1. k + 1 = Len(t) /\ count = 0
      BY <2>3, <2>7, <2>8, <2>11 DEF Reads
    <3>2. text = t
      BY <2>4, <2>9, <3>1, SeqEqual
    <3>3. PICK z : Placed(snt, f, Tail(P), z) /\ \A n \in 1 .. N : z[n] = s[n] - 1
      <4>1. f \in d .. Len(snt)
        BY <1>1, <2>1 DEF N, f
      <4>2. \A n \in d + 1 .. f : s[n] + Len(snt[n]) = 1
        <5>1. s[f] + Len(t) = 1
          BY <2>4, <2>5, <3>1
        <5>2. \A n \in d + 1 .. f : n = f
          BY <1>1 DEF f
        <5> QED  BY <5>1, <5>2 DEF t
      <4>3. \A n \in f + 1 .. Len(snt) : s[n] + Len(snt[n]) > 1
        BY <2>10 DEF N
      <4> QED  BY <4>1, <4>2, <4>3, BytePlaces DEF N
    <3>4. ASSUME NEW n \in f + 1 .. N PROVE z[n] >= 0
      <4>1. n \in 1 .. N
        BY <1>1 DEF f
      <4> QED  BY <2>10, <3>3, <4>1
    <3>5. At(next, count, <<>>, snt, f, z)
      BY <2>11, <3>1, <3>4 DEF At, Between, N
    <3>6. d < Len(snt)
      BY <1>1, <2>1 DEF N
    <3> QED  BY <1>5, <2>11, <3>2, <3>3, <3>5, <3>6 DEF t, f
  <2>12. CASE next # "FINAL"
    <3>1. k + 1 \in 1 .. Len(t) - 1
      BY <2>4, <2>5, <2>8, <2>12
    <3>2. PICK z : Placed(snt, d, Tail(P), z) /\ \A n \in 1 .. N : z[n] = s[n] - 1
      <4>1. ASSUME NEW n \in d + 1 .. N PROVE s[n] + Len(snt[n]) > 1
        <5>1. CASE n = f
          BY <2>4, <2>5, <3>1, <5>1 DEF t
        <5>2. CASE n # f
          <6>1. n \in f + 1 .. N
            BY <1>1, <5>2 DEF f
          <6> QED  BY <2>10, <6>1
        <5> QED  BY <5>1, <5>2
      <4> QED  BY <4>1, ByteNearer DEF N
    <3>3. - z[f] = k + 1
      <4>1. f \in 1 .. N
        BY <1>1, <2>1 DEF f
      <4> QED  BY <2>4, <2>5, <3>2, <4>1
    <3>4. d < Len(snt)
      BY <1>1, <2>1 DEF N
    <3>5. r[k + 1] = [mode |-> next, brackets |-> count]
      BY <2>7
    <3>6. Within(next, count, text, snt, d, z)
      BY <2>3, <2>9, <2>12, <3>1, <3>3, <3>4, <3>5 DEF Within, t, f
    <3> QED  BY <1>5, <2>12, <3>2, <3>6 DEF At
  <2> QED  BY <2>11, <2>12
<1> QED  BY <1>3, <1>4, <1>5

\* What is said of the texts and the gaps: a text is a message, and no message
\* begins in a gap.
WholeTexts ==
  /\ \A t \in Texts : \E r : Reads(t, r)
  /\ \A g \in Gaps : \A k \in 1 .. Len(g) : g[k] # "open"

LEMMA PendingType ==
  ASSUME FramingInv
  PROVE  Pending \in Seq(Bytes)
<1>1. unsent \in Seq(Bytes)
  BY DEF FramingInv, FramingTypeOK
<1> QED  BY <1>1, UnreadType, ConcatProperties DEF Pending

LEMMA WholeInit == Init => WholeInv
<1> SUFFICES ASSUME Init PROVE WholeInv
  OBVIOUS
<1>1. Unread = <<>> /\ Word = <<>>
  BY FramerInit DEF Framer!Init
<1>2. Pending = <<>>
  <2>1. <<>> \o <<>> = <<>>
    BY EmptySeq, ConcatEmptySeq
  <2> QED  BY <1>1, <2>1 DEF Init, Pending
<1>3. sent = <<>> /\ delivered = <<>> /\ Len(<<>>) = 0 /\ <<>> \in Seq(Texts)
  BY EmptySeq DEF Init
<1> DEFINE z == [n \in 1 .. 0 |-> 0]
<1>4. Placed(<<>>, 0, <<>>, z)
  BY <1>3 DEF Placed
<1>5. At("FINAL", 0, <<>>, <<>>, 0, z)
  BY <1>3 DEF At, Between
<1> HIDE DEF z
<1> QED  BY <1>1, <1>2, <1>3, <1>4, <1>5 DEF Init, WholeInv

LEMMA SendFits ==
  ASSUME FramingInv, WholeInv, WholeTexts, NEW g \in Gaps, NEW t \in Texts, Send(g, t)
  PROVE  WholeInv'
<1>1. /\ g \in Seq(Bytes) /\ t \in Seq(Bytes) /\ t # <<>>
      /\ \A k \in 1 .. Len(g) : g[k] # "open"
  BY FramingAssumption DEF WholeTexts, Reads
<1>2. /\ sent \in Seq(Texts) /\ sent' = Append(sent, t) /\ sent' \in Seq(Texts)
      /\ delivered' = delivered /\ mode' = mode /\ brackets' = brackets
  BY AppendProperties DEF WholeInv, Send, buffer
<1>3. Unread' = Unread /\ Word' = Word
  BY SendStutters DEF Framer!vars
<1>4. Pending = Unread /\ Pending' = Unread \o (g \o t)
  <2>1. Unread \o <<>> = Unread
    BY UnreadType, ConcatEmptySeq
  <2> QED  BY <1>3, <2>1 DEF Pending, Send
<1>5. PICK s : /\ Placed(sent, Len(delivered), Unread, s)
               /\ At(mode, brackets, Word, sent, Len(delivered), s)
  BY <1>4 DEF WholeInv
<1>6. \E z : /\ Placed(sent', Len(delivered), Unread \o (g \o t), z)
             /\ At(mode, brackets, Word, sent', Len(delivered), z)
  BY <1>1, <1>2, <1>5, UnreadType, SendPlaces
<1>7. \A n \in 1 .. Len(delivered) : delivered[n] = sent'[n]
  <2>1. \A n \in 1 .. Len(sent) : sent'[n] = sent[n]
    BY <1>2, AppendProperties
  <2>2. Len(delivered) \in 0 .. Len(sent) /\ Len(sent) \in Nat
    BY <1>2, <1>5, LenProperties DEF Placed
  <2>3. \A n \in 1 .. Len(delivered) : n \in 1 .. Len(sent) /\ delivered[n] = sent[n]
    BY <2>2 DEF WholeInv
  <2> QED  BY <2>1, <2>3
<1> QED  BY <1>2, <1>3, <1>4, <1>6, <1>7 DEF WholeInv

LEMMA WriteFits ==
  ASSUME FramingInv, WholeInv, NEW n \in 1 .. Len(unsent), Write(n)
  PROVE  WholeInv'
<1> DEFINE piece == SubSeq(unsent, 1, n)
           later == SubSeq(unsent, n + 1, Len(unsent))
<1>1. unsent \in Seq(Bytes) /\ Len(unsent) \in Nat /\ n \in 0 .. Len(unsent)
  BY LenProperties DEF FramingInv, FramingTypeOK
<1>2. piece \in Seq(Bytes) /\ later \in Seq(Bytes) /\ piece \o later = unsent
  <2>1. 1 \in Nat \ {0} /\ n + 1 \in Nat \ {0} /\ Len(unsent) \in 0 .. Len(unsent)
    BY <1>1
  <2> QED  BY <1>1, <2>1, PartOfSeq, CutAndJoined
<1>3. Unread' = Unread \o piece /\ unsent' = later
  BY WriteUnread DEF Write
<1> HIDE DEF piece, later
<1>4. Pending' = Pending
  <2>1. (Unread \o piece) \o later = Unread \o (piece \o later)
    <3>1. Unread \in Seq(Bytes) /\ piece \in Seq(Bytes) /\ later \in Seq(Bytes)
      BY <1>2, UnreadType
    <3> QED  BY SMTT(40), <3>1, ConcatAssociative
  <2>2. Pending' = (Unread \o piece) \o later
    BY <1>3, Zenon DEF Pending
  <2> QED  BY <1>2, <2>1, <2>2, Zenon DEF Pending
<1>5. UNCHANGED <<sent, mode, brackets, Word, delivered>>
  BY DEF Write, buffer, Word, Joined
<1> QED  BY <1>4, <1>5 DEF WholeInv

LEMMA LoopFits ==
  ASSUME FramingInv, WholeInv, WholeTexts, Loop
  PROVE  WholeInv'
<1> DEFINE d == Len(delivered)
           b == chunk[i]
           next == Framer!NextMode(mode, brackets, b)
           text == IF mode = "FINAL" /\ next = "FINAL" THEN <<>> ELSE Append(Word, b)
<1>1. /\ mode' = next
      /\ brackets' = Framer!NextBrackets(mode, brackets, b)
      /\ Word' = IF next = "FINAL" THEN <<>> ELSE text
      /\ delivered' = IF next = "FINAL" /\ mode # "FINAL"
                      THEN Append(delivered, text) ELSE delivered
      /\ Head(Unread) = b
  BY LoopRefines, LoopBytes DEF Framer!Byte
<1>2. sent' = sent /\ unsent' = unsent /\ sent \in Seq(Texts)
  BY DEF Loop, WholeInv
<1>3. Pending # <<>> /\ Pending[1] = b /\ Pending' = Tail(Pending) /\ Pending \in Seq(Bytes)
  <2> DEFINE U == Unread
  <2>1. U # <<>> /\ U[1] = b /\ Unread' = Tail(U) /\ U \in Seq(Bytes) /\ unsent \in Seq(Bytes)
    BY LoopBytes, UnreadType DEF FramingInv, FramingTypeOK
  <2> HIDE DEF U
  <2>2. /\ U \o unsent # <<>> /\ (U \o unsent)[1] = b
        /\ Tail(U \o unsent) = Tail(U) \o unsent
    <3>1. /\ Len(U) \in Nat /\ Len(U) >= 1 /\ Len(unsent) \in Nat
          /\ Tail(U) \in Seq(Bytes) /\ Len(Tail(U)) = Len(U) - 1
          /\ \A p \in 1 .. Len(U) - 1 : Tail(U)[p] = U[p + 1]
      <4>1. Len(U) \in Nat /\ Len(U) # 0 /\ Len(unsent) \in Nat
        BY <2>1, LenProperties, EmptySeq
      <4>2. Len(U) >= 1
        BY <4>1
      <4> QED  BY <2>1, <4>1, <4>2, HeadTailProperties
    <3> DEFINE W == U \o unsent
               V == Tail(U) \o unsent
               a == Len(U)
               c == Len(unsent)
    <3>2. /\ W \in Seq(Bytes) /\ Len(W) = a + c
          /\ \A p \in 1 .. a + c : W[p] = IF p <= a THEN U[p] ELSE unsent[p - a]
      BY <2>1, ConcatProperties
    <3>3. /\ V \in Seq(Bytes) /\ Len(V) = a - 1 + c
          /\ \A p \in 1 .. a - 1 + c :
               V[p] = IF p <= a - 1 THEN Tail(U)[p] ELSE unsent[p - (a - 1)]
      BY <2>1, <3>1, ConcatProperties
    <3> HIDE DEF W, V, a, c
    <3>4. a \in Nat /\ a >= 1 /\ c \in Nat /\ \A p \in 1 .. a - 1 : Tail(U)[p] = U[p + 1]
      BY <3>1 DEF a, c
    <3>5. W # <<>> /\ W[1] = b
      <4>1. Len(W) # 0 /\ 1 \in 1 .. a + c /\ 1 <= a
        BY <3>2, <3>4
      <4> QED  BY <2>1, <3>2, <4>1, EmptySeq
    <3>6. /\ Tail(W) \in Seq(Bytes) /\ Len(Tail(W)) = a + c - 1
          /\ \A p \in 1 .. a + c - 1 : Tail(W)[p] = W[p + 1]
      <4>1. /\ Tail(W) \in Seq(Bytes) /\ Len(Tail(W)) = Len(W) - 1
            /\ \A p \in 1 .. Len(Tail(W)) : Tail(W)[p] = W[p + 1]
        BY <3>2, <3>5, HeadTailProperties
      <4>2. Len(Tail(W)) = a + c - 1
        BY <3>2, <3>4, <4>1
      <4> QED  BY <4>1, <4>2
    <3>7. ASSUME NEW p \in 1 .. a + c - 1 PROVE Tail(W)[p] = V[p]
      <4>1. PICK q : q = p + 1
        OBVIOUS
      <4>2. q \in 1 .. a + c /\ p \in 1 .. a - 1 + c /\ p \in Int /\ q - a = p - (a - 1)
        BY <3>4, <4>1
      <4>3. Tail(W)[p] = IF q <= a THEN U[q] ELSE unsent[q - a]
        BY <3>2, <3>6, <4>1, <4>2
      <4>4. V[p] = IF p <= a - 1 THEN Tail(U)[p] ELSE unsent[p - (a - 1)]
        BY <3>3, <4>2
      <4>5. CASE p <= a - 1
        <5>1. p \in 1 .. a - 1 /\ q <= a
          BY <3>4, <4>1, <4>2, <4>5
        <5>2. Tail(U)[p] = U[q]
          BY <3>4, <4>1, <5>1
        <5> QED  BY <4>3, <4>4, <4>5, <5>1, <5>2
      <4>6. CASE ~ (p <= a - 1)
        <5>1. ~ (q <= a)
          BY <3>4, <4>1, <4>2, <4>6
        <5> QED  BY <4>2, <4>3, <4>4, <4>6, <5>1
      <4> QED  BY <4>5, <4>6
    <3>8. Tail(W) = V
      <4>1. Len(Tail(W)) = Len(V) /\ Len(V) = a + c - 1
        BY <3>3, <3>4, <3>6
      <4> QED  BY <3>3, <3>6, <3>7, <4>1, SeqEqual
    <3> QED  BY <3>5, <3>8 DEF W, V
  <2> QED  BY <1>2, <2>1, <2>2, PendingType DEF Pending, U
<1>4. PICK s : /\ Placed(sent, d, Pending, s)
               /\ At(mode, brackets, Word, sent, d, s)
  BY DEF WholeInv
<1> HIDE DEF next, text, b
<1>5. \E z :
         IF next = "FINAL" /\ mode # "FINAL"
         THEN /\ d < Len(sent) /\ text = sent[d + 1]
              /\ Placed(sent, d + 1, Pending', z)
              /\ At(next, brackets', <<>>, sent, d + 1, z)
         ELSE /\ Placed(sent, d, Pending', z)
              /\ At(next, brackets', IF next = "FINAL" THEN <<>> ELSE text, sent, d, z)
  <2> HIDE DEF d
  <2>1. \A t \in Texts : \E r : Reads(t, r)
    BY DEF WholeTexts
  <2>2. PICK P : P = Pending
    OBVIOUS
  <2>3. /\ Moves(mode, brackets, Word, P[1], next, brackets', text)
        /\ At(mode, brackets, Word, sent, d, s) /\ sent \in Seq(Texts)
        /\ P \in Seq(Bytes) /\ P # <<>> /\ Placed(sent, d, P, s)
    BY <1>1, <1>2, <1>3, <1>4, <2>2 DEF Moves, next, text
  <2>4. Reached(mode, next, brackets', text, sent, d, Tail(P))
    BY <2>1, <2>3, ByteFits
  <2> QED  BY <1>3, <2>2, <2>4 DEF Reached
<1>6. /\ d \in Nat /\ delivered \in Seq(Seq(Bytes))
      /\ \A n \in 1 .. d : delivered[n] = sent[n]
  BY LenProperties DEF WholeInv, FramingInv, FramingTypeOK
<1>7. CASE next = "FINAL" /\ mode # "FINAL"
  <2>1. text \in Seq(Bytes)
    <3>1. d + 1 \in 1 .. Len(sent) /\ text = sent[d + 1]
      <4>1. Len(sent) \in Nat
        BY <1>2, LenProperties
      <4> HIDE DEF d
      <4> QED  BY <1>5, <1>6, <1>7, <4>1
    <3> HIDE DEF d
    <3>2. sent[d + 1] \in Texts
      BY <1>2, <3>1, ElementOfSeq
    <3> QED  BY <3>1, <3>2, FramingAssumption
  <2>2. /\ delivered' = Append(delivered, text) /\ Len(delivered') = d + 1
        /\ delivered'[d + 1] = text
        /\ \A n \in 1 .. d : delivered'[n] = delivered[n]
    BY <1>1, <1>6, <1>7, <2>1, AppendProperties
  <2>3. \A n \in 1 .. d + 1 : delivered'[n] = sent[n]
    <3> HIDE DEF d
    <3>1. \A n \in 1 .. d + 1 : n \in 1 .. d \/ n = d + 1
      BY <1>6
    <3>2. text = sent[d + 1]
      BY <1>5, <1>7
    <3> QED  BY <1>6, <2>2, <3>1, <3>2
  <2>4. PICK z : /\ Placed(sent, d + 1, Pending', z)
                 /\ At(next, brackets', <<>>, sent, d + 1, z)
    BY <1>5, <1>7
  <2>5. Word' = <<>>
    BY <1>1, <1>7
  <2> HIDE DEF d
  <2> QED  BY <1>1, <1>2, <2>2, <2>3, <2>4, <2>5 DEF WholeInv
<1>8. CASE ~ (next = "FINAL" /\ mode # "FINAL")
  <2>1. delivered' = delivered
    BY <1>1, <1>8
  <2>2. PICK z : /\ Placed(sent, d, Pending', z)
                 /\ At(next, brackets', Word', sent, d, z)
    BY <1>1, <1>5, <1>8
  <2> QED  BY <1>1, <1>2, <1>6, <2>1, <2>2 DEF WholeInv
<1> QED  BY <1>7, <1>8

LEMMA WholeStep ==
  ASSUME FramingInv, WholeInv, WholeTexts, [Next]_vars
  PROVE  WholeInv'
<1>1. ASSUME NEW g \in Gaps, NEW t \in Texts, Send(g, t) PROVE WholeInv'
  BY <1>1, SendFits
<1>2. ASSUME NEW n \in 1 .. Len(unsent), Write(n) PROVE WholeInv'
  BY <1>2, WriteFits
<1>3. ASSUME NEW n \in 1 .. MaxChunk, Receive(n) PROVE WholeInv'
  <2>1. UNCHANGED Framer!vars /\ UNCHANGED <<sent, unsent>>
    BY <1>3, ReceiveStutters DEF Receive
  <2> QED  BY <2>1 DEF WholeInv, Pending, Framer!vars
<1>4. CASE Loop
  BY <1>4, LoopFits
<1>5. CASE Keep
  <2>1. UNCHANGED Framer!vars /\ UNCHANGED <<sent, unsent>>
    BY <1>5, KeepStutters DEF Keep
  <2> QED  BY <2>1 DEF WholeInv, Pending, Framer!vars
<1>6. CASE UNCHANGED vars
  BY <1>6 DEF WholeInv, Pending, Unread, Word, Joined, vars
<1> QED  BY <1>1, <1>2, <1>3, <1>4, <1>5, <1>6 DEF Next

\* If every text is a message by itself and nothing between messages opens a
\* bracket, on_message is given the texts that were sent, whole and in order,
\* wherever the stream is cut into pieces and chunks.
THEOREM WholeCorrect ==
  ASSUME WholeTexts
  PROVE  Spec => []WholeMessages
<1>1. FramingInv /\ WholeInv => WholeMessages
  <2> SUFFICES ASSUME FramingInv, WholeInv PROVE WholeMessages
    OBVIOUS
  <2>1. /\ sent \in Seq(Texts) /\ delivered \in Seq(Seq(Bytes))
        /\ Len(delivered) \in 0 .. Len(sent) /\ Len(sent) \in Nat
    BY LenProperties DEF WholeInv, FramingInv, FramingTypeOK, Placed
  <2>2. sent \in Seq(Seq(Bytes))
    BY DEF FramingInv, FramingTypeOK
  <2>3. SubSeq(sent, 1, Len(delivered)) = delivered
    <3> DEFINE q == SubSeq(sent, 1, Len(delivered))
    <3>1. /\ q \in Seq(Seq(Bytes)) /\ Len(q) = Len(delivered)
          /\ \A n \in 1 .. Len(delivered) : q[n] = sent[n]
      <4>1. \A n \in 1 .. Len(delivered) : sent[n] \in Seq(Bytes)
        BY <2>1, <2>2, ElementOfSeq
      <4> QED  BY <2>1, <2>2, <4>1, SubSeqProperties
    <3> HIDE DEF q
    <3>2. q = delivered
      BY <2>1, <3>1, SeqEqual DEF WholeInv
    <3> QED  BY <3>2 DEF q
  <2> QED  BY <2>1, <2>3 DEF WholeMessages, IsPrefix
<1>2. FramingInv /\ WholeInv /\ [Next]_vars => WholeInv'
  BY WholeStep
<1> QED
  BY <1>1, <1>2, FramingInit, FramingStep, WholeInit, PTL DEF Spec
=============================================================================
