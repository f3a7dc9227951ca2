--------------------------- MODULE MCChatSession ----------------------------
(* ChatSession for TLC: a window of six messages stands for the twenty of   *)
(* the code, one or two kept out of a summary for its five.                 *)
EXTENDS ChatSession

\* A conversation long enough for several summaries, turn by turn.
Long == [kinds |-> {"chat", "notice"}, jobs |-> 7, active |-> 1, faults |-> FALSE,
         window |-> 6, keep |-> 1, shown |-> 2]

\* Turns that overlap; summaries are made early.
Overlapping == [kinds |-> {"chat"}, jobs |-> 5, active |-> 3, faults |-> FALSE,
                window |-> 4, keep |-> 1, shown |-> 2]

\* Escalations and takeovers that overlap, and may be lost.
Escalating == [kinds |-> {"agent", "sos", "button", "takeover"}, jobs |-> 3, active |-> 3,
               faults |-> TRUE, window |-> 4, keep |-> 1, shown |-> 2]

MCSettings == {Long, Overlapping, Escalating}
=============================================================================
