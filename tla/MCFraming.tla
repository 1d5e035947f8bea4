---------------------------- MODULE MCFraming ----------------------------
(* Instances of Framing for TLC.                                           *)
EXTENDS Framing

\* Brackets that nest; brackets and quotes hidden in strings of either kind;
\* escaped quotes and backslashes.
MCTexts == {
  <<"open", "open", "x", "close", "close">>,
  <<"open", "dq", "close", "bs", "dq", "dq", "close">>,
  <<"open", "sq", "dq", "bs", "bs", "sq", "close">>,
  <<"open", "close">>}

MCGaps == {<<>>, <<"x">>}

\* Where the framer is after each byte of a text.
MCReading(t) ==
  LET at[k \in 0 .. Len(t)] ==
        IF k = 0 THEN [mode |-> "FINAL", brackets |-> 0]
        ELSE [mode |-> Framer!NextMode(at[k - 1].mode, at[k - 1].brackets, t[k]),
              brackets |-> Framer!NextBrackets(at[k - 1].mode, at[k - 1].brackets, t[k])]
  IN  at

\* The texts are messages and no message starts in a gap, as WholeCorrect asks.
ASSUME MCWhole ==
  /\ \A t \in MCTexts : Reads(t, MCReading(t))
  /\ \A g \in MCGaps : \A k \in DOMAIN g : g[k] # "open"
==========================================================================
