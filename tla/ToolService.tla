---------------------------- MODULE ToolService ----------------------------
(***************************************************************************)
(* What the tool pipeline promises, without its steps: a call is refused,  *)
(* or it takes effect once and is answered with that effect, or it is      *)
(* answered with the effect of an earlier call it repeats.  An effect      *)
(* whose answer is lost is possible; an answer without an effect is not.   *)
(* The promise is the docstring of ToolRouter ("A tool is NEVER executed   *)
(* just because the LLM asked for it") and that of IdempotencyService.     *)
(***************************************************************************)
CONSTANTS Request, Call, None,
          Allowed,   \* the calls the policy lets through
          Repeats    \* <<c, d>>: c may be answered with what d did

VARIABLES phase, request, effects, source

Init ==
    /\ phase = [r \in Request |-> "idle"]
    /\ request = [r \in Request |-> None]
    /\ effects = {}
    /\ source = [r \in Request |-> None]

Move(r, from, to) ==
    /\ phase[r] = from
    /\ phase' = [phase EXCEPT ![r] = to]

Open(r) ==
    /\ Move(r, "idle", "open")
    /\ \E c \in Call : request' = [request EXCEPT ![r] = c]
    /\ UNCHANGED <<effects, source>>

\* Refused, failed or given up before anything happened.
Refuse(r) ==
    /\ Move(r, "open", "refused")
    /\ UNCHANGED <<request, effects, source>>

TakeEffect(r) ==
    /\ Move(r, "open", "effective")
    /\ request[r] \in Allowed
    /\ effects' = effects \cup {r}
    /\ UNCHANGED <<request, source>>

Answer(r) ==
    /\ Move(r, "effective", "answered")
    /\ source' = [source EXCEPT ![r] = r]
    /\ UNCHANGED <<request, effects>>

\* The effect stands but its answer never reaches the caller.
Lose(r) ==
    /\ Move(r, "effective", "dropped")
    /\ UNCHANGED <<request, effects, source>>

Reuse(r) ==
    /\ Move(r, "open", "answered")
    /\ request[r] \in Allowed
    /\ \E q \in effects :
          /\ <<request[r], request[q]>> \in Repeats
          /\ source' = [source EXCEPT ![r] = q]
    /\ UNCHANGED <<request, effects>>

Next == \E r \in Request :
    Open(r) \/ Refuse(r) \/ TakeEffect(r) \/ Answer(r) \/ Lose(r) \/ Reuse(r)

Spec == Init /\ [][Next]_<<phase, request, effects, source>>
=============================================================================
