---------------------------- MODULE MCRefundFlow ----------------------------
(* RefundFlow for TLC: two rides, one of them the default one. *)
EXTENDS RefundFlow

MCRide == {"ride_123", "ride_456"}
MCDefaultRide == "ride_123"
MCKeys == {"k1"}

\* One turn at a time, nothing fails, all kinds of message, with and without
\* a key.
Calm == [texts |-> TextKind, keys |-> {"k1"}, turns |-> 5, active |-> 1,
         faults |-> FALSE, expiry |-> FALSE, llm |-> FALSE]

\* Overlapping turns, failures, lost turns and expired state.
Stormy == [texts |-> {"ask", "yes", "policy"}, keys |-> {"k1"}, turns |-> 3, active |-> 3,
           faults |-> TRUE, expiry |-> TRUE, llm |-> FALSE]

\* The LLM requests refunds as well; turns overlap two at a time and may fail.
Eager == [texts |-> {"ask", "yes", "other"}, keys |-> {"k1"}, turns |-> 3, active |-> 2,
          faults |-> TRUE, expiry |-> FALSE, llm |-> TRUE]

\* Clients without keys: overlapping turns, of the flow and of the LLM, that
\* fail and are lost.
Keyless == [texts |-> {"ask", "yes", "other"}, keys |-> {}, turns |-> 3, active |-> 2,
            faults |-> TRUE, expiry |-> TRUE, llm |-> TRUE]

\* A question about refunds, then a yes.
Short == [texts |-> TextKind, keys |-> {}, turns |-> 2, active |-> 1,
          faults |-> FALSE, expiry |-> FALSE, llm |-> FALSE]

MCSettings == {Calm, Stormy, Eager, Keyless}
MCShort == {Short}
=============================================================================
