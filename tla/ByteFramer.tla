----------------------------- MODULE ByteFramer -----------------------------
(***************************************************************************)
(* What buffer_update promises: the bytes of a connection cut into         *)
(* messages, seen one byte at a time, with no chunks and no buffer.        *)
(*                                                                         *)
(* A message is a bracketed text.  Quoted strings hide brackets, and a     *)
(* backslash hides the quote after it.  Between messages every byte that   *)
(* opens no bracket is skipped.                                            *)
(***************************************************************************)
EXTENDS Integers, Sequences

\* The bytes buffer_update tells apart: the brackets, the two quotes, the
\* backslash, and all others.
Bytes == {"open", "close", "dq", "sq", "bs", "x"}

Modes == {"FINAL", "JSON", "STR_2", "ESC_2", "STR_1", "ESC_1"}

VARIABLES
  stream,     \* the bytes still to come
  mode,       \* buffer_state
  brackets,   \* how many brackets are open
  word,       \* the message so far
  delivered   \* the messages handed to on_message

vars == <<stream, mode, brackets, word, delivered>>

Init ==
  /\ stream = <<>>
  /\ mode = "FINAL"
  /\ brackets = 0
  /\ word = <<>>
  /\ delivered = <<>>

\* The mode after a byte, brackets being open before it.
NextMode(m, open, b) ==
  CASE m = "FINAL" -> IF b = "open" THEN "JSON" ELSE "FINAL"
    [] m = "JSON"  -> (CASE b = "close" /\ open = 1 -> "FINAL"
                         [] b = "dq"            -> "STR_2"
                         [] b = "sq"             -> "STR_1"
                         [] OTHER               -> "JSON")
    [] m = "STR_2" -> (CASE b = "bs" -> "ESC_2" [] b = "dq" -> "JSON" [] OTHER -> "STR_2")
    [] m = "STR_1" -> (CASE b = "bs" -> "ESC_1" [] b = "sq" -> "JSON" [] OTHER -> "STR_1")
    [] m = "ESC_2" -> "STR_2"
    [] m = "ESC_1" -> "STR_1"

\* Brackets count outside strings; between messages only an opening one does.
NextBrackets(m, open, b) ==
  CASE b = "open" /\ m \in {"FINAL", "JSON"} -> open + 1
    [] b = "close" /\ m = "JSON"              -> open - 1
    [] OTHER                              -> open

\* More bytes are sent.
Send ==
  /\ stream' \in Seq(Bytes)
  /\ Len(stream) <= Len(stream')
  /\ SubSeq(stream', 1, Len(stream)) = stream
  /\ UNCHANGED <<mode, brackets, word, delivered>>

Byte ==
  /\ stream # <<>>
  /\ LET b    == Head(stream)
         next == NextMode(mode, brackets, b)
         text == IF mode = "FINAL" /\ next = "FINAL" THEN <<>> ELSE Append(word, b)
     IN  /\ stream' = Tail(stream)
         /\ mode' = next
         /\ brackets' = NextBrackets(mode, brackets, b)
         /\ word' = IF next = "FINAL" THEN <<>> ELSE text
         /\ delivered' = IF next = "FINAL" /\ mode # "FINAL"
                         THEN Append(delivered, text) ELSE delivered

Next == Send \/ Byte

Spec == Init /\ [][Next]_vars
=============================================================================
