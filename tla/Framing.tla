------------------------------ MODULE Framing ------------------------------
(***************************************************************************)
(* The messages of a connection out of the chunks its receive thread       *)
(* reads: buffer_update of src/core/state.c, of which src/api/middleware.c *)
(* holds a copy for the socket pair between application and core.          *)
(*                                                                         *)
(* One thread writes a message piece by piece, as mw_call_module_function  *)
(* does with a command and com_send with a long text.  The receiver reads  *)
(* up to MaxChunk bytes, wherever they begin and end, and hands them to    *)
(* buffer_update, whose loop over the bytes of a chunk is one step per     *)
(* byte here.                                                              *)
(***************************************************************************)
EXTENDS Integers, Sequences, SequencesExt

CONSTANTS
  Texts,      \* the texts messages may have
  Gaps,       \* what may come before a message: blanks, which are skipped
  MaxSent,    \* how many messages are sent
  MaxChunk    \* the size of the receive buffer, 512 in the code

Bytes == {"open", "close", "dq", "sq", "bs", "x"}

ASSUME FramingAssumption ==
  /\ Texts \subseteq Seq(Bytes)
  /\ Gaps \subseteq Seq(Bytes)
  /\ MaxSent \in Nat
  /\ MaxChunk \in Nat \ {0}

VARIABLES
  sent,       \* the texts sent, in order, the one being written included
  unsent,     \* the bytes of the last one that are still to be written
  stream,     \* the bytes sent and not yet received
  chunk,      \* new_data: the bytes buffer_update was given
  i,          \* its loop variable, from 1; 0 when it is not running
  wordStart,  \* where in the chunk the current message starts
  mode,       \* buffer_state
  brackets,   \* how many brackets are open
  data,       \* the part of the current message earlier chunks held
  delivered   \* the messages handed to on_message

vars == <<sent, unsent, stream, chunk, i, wordStart, mode, brackets, data, delivered>>

buffer == <<mode, brackets, data, delivered>>

Init ==
  /\ sent = <<>>
  /\ unsent = <<>>
  /\ stream = <<>>
  /\ chunk = <<>>
  /\ i = 0
  /\ wordStart = 0
  /\ mode = "FINAL"
  /\ brackets = 0
  /\ data = <<>>
  /\ delivered = <<>>

\* The writer starts a message.
Send(g, t) ==
  /\ unsent = <<>>
  /\ Len(sent) < MaxSent
  /\ sent' = Append(sent, t)
  /\ unsent' = g \o t
  /\ UNCHANGED <<stream, chunk, i, wordStart, buffer>>

\* One call of fc_send, or of send.
Write(n) ==
  /\ n \in 1 .. Len(unsent)
  /\ stream' = stream \o SubSeq(unsent, 1, n)
  /\ unsent' = SubSeq(unsent, n + 1, Len(unsent))
  /\ UNCHANGED <<sent, chunk, i, wordStart, buffer>>

\* The receive thread reads n bytes and calls buffer_update.
Receive(n) ==
  /\ i = 0
  /\ n \in 1 .. Len(stream) /\ n <= MaxChunk
  /\ chunk' = SubSeq(stream, 1, n)
  /\ stream' = SubSeq(stream, n + 1, Len(stream))
  /\ i' = 1
  /\ wordStart' = 1
  /\ UNCHANGED <<sent, unsent, buffer>>

\* buffer_set: data and the bytes from first up to last of the chunk.
Joined(first, last) == data \o SubSeq(chunk, first, last)

-----------------------------------------------------------------------------
(* The loop of buffer_update, by buffer_state. *)

\* Between messages: all but an opening bracket is skipped.
Final ==
  /\ mode = "FINAL"
  /\ IF chunk[i] = "open"
     THEN /\ brackets' = brackets + 1
          /\ wordStart' = i
          /\ mode' = "JSON"
     ELSE UNCHANGED <<brackets, wordStart, mode>>
  /\ UNCHANGED <<data, delivered>>

\* The last bracket closes: the message is handed over and the buffer reset.
Complete ==
  /\ mode = "JSON" /\ chunk[i] = "close" /\ brackets = 1
  /\ brackets' = 0
  /\ mode' = "FINAL"
  /\ delivered' = Append(delivered, Joined(wordStart, i))
  /\ data' = <<>>
  /\ wordStart' = i + 1

\* A byte of a message outside strings that does not end it.
Json ==
  /\ mode = "JSON"
  /\ ~ (chunk[i] = "close" /\ brackets = 1)
  /\ brackets' = CASE chunk[i] = "open" -> brackets + 1
                   [] chunk[i] = "close" -> brackets - 1
                   [] OTHER          -> brackets
  /\ mode' = CASE chunk[i] = "dq" -> "STR_2"
               [] chunk[i] = "sq"  -> "STR_1"
               [] OTHER           -> "JSON"
  /\ UNCHANGED <<wordStart, data, delivered>>

\* A byte of a string.
Str(str, esc, quote) ==
  /\ mode = str
  /\ mode' = CASE chunk[i] = "bs"  -> esc
               [] chunk[i] = quote -> "JSON"
               [] OTHER            -> str
  /\ UNCHANGED <<wordStart, brackets, data, delivered>>

\* Mutant: an escaped byte leaves the string.
EscOut(str, esc) ==
  /\ mode = esc
  /\ mode' = "JSON"
  /\ UNCHANGED <<wordStart, brackets, data, delivered>>

\* The byte after a backslash is in the string, whatever it is.
Esc(str, esc) ==
  /\ mode = esc
  /\ mode' = str
  /\ UNCHANGED <<wordStart, brackets, data, delivered>>

Loop ==
  /\ i \in DOMAIN chunk
  /\ \/ Final
     \/ Complete
     \/ Json
     \/ Str("STR_2", "ESC_2", "dq")
     \/ Str("STR_1", "ESC_1", "sq")
     \/ Esc("STR_2", "ESC_2")
     \/ Esc("STR_1", "ESC_1")
  /\ i' = i + 1
  /\ UNCHANGED <<sent, unsent, stream, chunk>>

\* Mutant: what is between messages is kept too.
KeepAlways ==
  /\ i > Len(chunk)
  /\ data' = IF wordStart <= Len(chunk)
             THEN Joined(wordStart, Len(chunk)) ELSE data
  /\ chunk' = <<>>
  /\ i' = 0
  /\ wordStart' = 0
  /\ UNCHANGED <<sent, unsent, stream, mode, brackets, delivered>>

\* After the loop: the part of a message the chunk ends with is kept.
Keep ==
  /\ i > Len(chunk)
  /\ data' = IF wordStart <= Len(chunk) /\ mode # "FINAL"
             THEN Joined(wordStart, Len(chunk)) ELSE data
  /\ chunk' = <<>>
  /\ i' = 0
  /\ wordStart' = 0
  /\ UNCHANGED <<sent, unsent, stream, mode, brackets, delivered>>

Next ==
  \/ \E g \in Gaps, t \in Texts : Send(g, t)
  \/ \E n \in 1 .. Len(unsent) : Write(n)
  \/ \E n \in 1 .. MaxChunk : Receive(n)
  \/ Loop
  \/ Keep

Spec == Init /\ [][Next]_vars

-----------------------------------------------------------------------------
(* Properties. *)

\* Every variable has its type.
FramingTypeOK ==
  /\ sent \in Seq(Seq(Bytes))
  /\ unsent \in Seq(Bytes)
  /\ stream \in Seq(Bytes)
  /\ chunk \in Seq(Bytes)
  /\ i \in 0 .. Len(chunk) + 1
  /\ wordStart \in 0 .. Len(chunk) + 1
  /\ mode \in {"FINAL", "JSON", "STR_2", "ESC_2", "STR_1", "ESC_1"}
  /\ brackets \in Nat
  /\ data \in Seq(Bytes)
  /\ delivered \in Seq(Seq(Bytes))

\* What on_message is given are the texts that were sent, whole and in order,
\* however the stream is cut into chunks.
WholeMessages == IsPrefix(delivered, sent)

\* The inductive invariant: between messages no bracket is open and the buffer
\* is empty; within one it started in this chunk, or at the chunk's first byte
\* if the buffer holds what came before.
BufferInv ==
  /\ mode = "FINAL" => brackets = 0 /\ data = <<>>
  /\ mode # "FINAL" => brackets > 0
  /\ i = 0 => chunk = <<>>
  /\ i > 0 => wordStart \in 1 .. i
  /\ i > 0 /\ mode # "FINAL" => wordStart <= Len(chunk)

-----------------------------------------------------------------------------
(* The chunks do not matter. *)

\* The message so far.
Word ==
  IF mode = "FINAL" THEN <<>>
  ELSE IF i = 0 THEN data
  ELSE Joined(wordStart, i - 1)

\* The bytes the loop has not looked at.
Unread == SubSeq(chunk, IF i = 0 THEN 1 ELSE i, Len(chunk)) \o stream

Framer == INSTANCE ByteFramer WITH stream <- Unread, word <- Word

\* buffer_update, given chunks, does what the framer of single bytes does.
ByteFramerSpec == Framer!Spec

\* Text t is one message: after k bytes of it the framer is at r[k], which is
\* between messages only before the first byte, an opening bracket, and after
\* the last.
Reads(t, r) ==
  /\ t # <<>> /\ t[1] = "open"
  /\ r[0] = [mode |-> "FINAL", brackets |-> 0]
  /\ \A k \in 1 .. Len(t) :
       /\ r[k] = [mode |-> Framer!NextMode(r[k - 1].mode, r[k - 1].brackets, t[k]),
                  brackets |-> Framer!NextBrackets(r[k - 1].mode, r[k - 1].brackets, t[k])]
       /\ r[k].mode = "FINAL" <=> k = Len(t)
  /\ r[Len(t)].brackets = 0
=============================================================================
