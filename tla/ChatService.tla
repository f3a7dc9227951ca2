---------------------------- MODULE ChatService -----------------------------
(***************************************************************************)
(* What a client of the chat API may rely on, whichever way its message    *)
(* goes, HTTP or WebSocket: the turn of a message is stored as a whole or  *)
(* not at all, the client hears of it at most once, an answer only of a    *)
(* turn that is stored, and an error only of one that never will be.       *)
(***************************************************************************)
EXTENDS Naturals

CONSTANT Request

VARIABLES
    asked,      \* the messages the server has taken
    stored,     \* those whose turn is committed
    answers,    \* how often the client has heard the answer to a message ...
    refusals    \* ... and that it has failed

vars == <<asked, stored, answers, refusals>>

Init ==
    /\ asked = {} /\ stored = {}
    /\ answers = [r \in Request |-> 0] /\ refusals = [r \in Request |-> 0]

Ask(r) ==
    /\ r \notin asked
    /\ asked' = asked \cup {r}
    /\ UNCHANGED <<stored, answers, refusals>>

Store(r) ==
    /\ r \in asked \ stored /\ refusals[r] = 0
    /\ stored' = stored \cup {r}
    /\ UNCHANGED <<asked, answers, refusals>>

Answer(r) ==
    /\ r \in stored /\ answers[r] = 0
    /\ answers' = [answers EXCEPT ![r] = @ + 1]
    /\ UNCHANGED <<asked, stored, refusals>>

Refuse(r) ==
    /\ r \in asked \ stored /\ refusals[r] = 0
    /\ refusals' = [refusals EXCEPT ![r] = @ + 1]
    /\ UNCHANGED <<asked, stored, answers>>

Next == \E r \in Request : Ask(r) \/ Store(r) \/ Answer(r) \/ Refuse(r)

Spec == Init /\ [][Next]_vars
=============================================================================
