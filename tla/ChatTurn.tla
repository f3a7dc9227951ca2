------------------------------ MODULE ChatTurn ------------------------------
(***************************************************************************)
(* One message of a chat session on its way through                        *)
(* ChatOrchestrator.handle_message (app/ai/orchestrator/orchestrator.py):  *)
(* the P0 safety flow, the loop of LLM steps and tool calls under LoopGuard*)
(* and the ways a turn is handed to a human.  The client may send the      *)
(* message again, with the same idempotency key, when it got no answer or  *)
(* lost it; every delivery is a turn in a transaction of its own.          *)
(* RefundFlow models the turns of the guided refund flow, ToolRouter what  *)
(* happens inside a tool call.                                             *)
(***************************************************************************)
EXTENDS Naturals, Sequences, SequencesExt

CONSTANTS MaxSteps,       \* max_orchestration_steps
          MaxToolCalls,   \* max_tool_calls_per_turn
          MaxBatch,       \* bound on the tools of one LLM response
          Asked,          \* the tools an LLM response may ask for
          MaxSends,       \* bound on the deliveries of the message
          Kind,           \* the kinds of message the user sends
          Faults          \* what may fail: "tool" calls, "turn"s as a whole

\* What the detectors make of the text: an active emergency (P0), a request
\* for a human, the same phrased as a question about policies, which requires no
\* tool, one that requires a tool and has a fallback tool, one that requires a
\* tool and has none, or a question.
KindOfText == {"sos", "human", "humanFaq", "lookup", "action", "question"}

Tool == {"read", "refund", "handoff_to_agent", "create_safety_incident"}
IdempotentTool == Tool \ {"read"}

\* A message: its kind, whether it reads as a confirmation, whether the
\* client gave it an idempotency key, and whether its language is enabled.
Message == [kind : Kind, confirming : BOOLEAN, keyed : BOOLEAN, enabled : BOOLEAN]

Send == 1..MaxSends

\* A row of the handoffs table.
Row == [send : Send, reason : {"orchestration_limit", "loop_guard_triggered",
                               "user_requested_human", "safety_incident"}]

\* What the user was answered: who wrote the text, the handoff_info, and
\* whether there were any actions.
Report == [send : Send, text : {"llm", "handover", "safety", "unsupported"},
           handoff : {"none", "tool", "row"}, acted : BOOLEAN]

Locations == {"idle", "safety", "escalate", "language", "llm", "tools",
              "checkText", "human", "persist"}

ASSUME TurnAssumption ==
    /\ MaxSteps \in Nat \ {0} /\ MaxToolCalls \in Nat /\ MaxBatch \in Nat /\ MaxSends \in Nat
    /\ Kind \subseteq KindOfText /\ Asked \subseteq Tool /\ Faults \subseteq {"tool", "turn"}

VARIABLES
    msg,        \* the message
    sends,      \* how often it was sent
    pc,         \* where its current delivery is
    step,       \* step_count of the LoopGuard
    calls,      \* tool_call_count of the LoopGuard
    batch,      \* tool_calls_to_exec, those still to do
    actions,    \* actions_taken
    text,       \* who wrote final_text
    handoff,    \* handoff_info
    rows,       \* Handoff rows of the open transaction
    db,         \* Handoff rows committed
    effects,    \* GoRush: <<send, tool>> of the tools it executed
    cache,      \* the tools with an idempotency entry under the message's key
    reports     \* what the user was answered

vars == <<msg, sends, pc, step, calls, batch, actions, text, handoff, rows, db,
          effects, cache, reports>>
loop == <<step, calls, batch, actions>>
outside == <<msg, sends, db, effects, cache, reports>>

Init ==
    /\ msg \in Message
    /\ sends = 0
    /\ pc = "idle"
    /\ step = 0 /\ calls = 0 /\ batch = <<>> /\ actions = {}
    /\ text = "none" /\ handoff = "none"
    /\ rows = {} /\ db = {}
    /\ effects = {} /\ cache = {} /\ reports = {}

\* Bug of Deliver: the language check comes before the P0 flow.
DeliverLanguageFirst ==
    /\ pc = "idle"
    /\ sends < MaxSends
    /\ sends' = sends + 1
    /\ pc' = "language"
    /\ UNCHANGED <<msg, loop, text, handoff, rows, db, effects, cache, reports>>

\* The message arrives: a new LoopGuard and empty accumulators.
Deliver ==
    /\ pc = "idle"
    /\ sends < MaxSends
    /\ sends' = sends + 1
    /\ pc' = IF msg.kind = "sos" THEN "safety" ELSE "language"
    /\ UNCHANGED <<msg, loop, text, handoff, rows, db, effects, cache, reports>>
-----------------------------------------------------------------------------
(* The P0 flow: the incident first, then the handoff. *)

\* create_safety_incident, without an idempotency key.
CreateIncident ==
    /\ pc = "safety"
    /\ effects' = effects \cup {<<sends, "create_safety_incident">>}
    /\ actions' = {"create_safety_incident"}
    /\ pc' = "escalate"
    /\ UNCHANGED <<msg, sends, step, calls, batch, text, handoff, rows, db, cache, reports>>

\* Bug of Escalate: the handoff is reported but its row is not added.
EscalateWithoutRow(reason) ==
    /\ rows' = rows
    /\ handoff' = "row"

\* _escalate: a Handoff row, and session and audit rows with it.
Escalate(reason) ==
    /\ rows' = rows \cup {[send |-> sends, reason |-> reason]}
    /\ handoff' = "row"

EscalateSafety ==
    /\ pc = "escalate"
    /\ Escalate("safety_incident")
    /\ text' = "safety"
    /\ pc' = "persist"
    /\ UNCHANGED <<outside, loop>>
-----------------------------------------------------------------------------
(* The loop of LLM steps and tool calls. *)

RejectLanguage ==
    /\ pc = "language"
    /\ ~msg.enabled
    /\ text' = "unsupported"
    /\ pc' = "persist"
    /\ UNCHANGED <<outside, loop, handoff, rows>>

AcceptLanguage ==
    /\ pc = "language"
    /\ msg.enabled
    /\ pc' = "llm"
    /\ UNCHANGED <<outside, loop, text, handoff, rows>>

RequiresTool == msg.kind \in {"human", "lookup", "action"}

\* The intent is HUMAN_AGENT.
AsksForHuman == msg.kind \in {"human", "humanFaq"}

\* _get_fallback_tool_for_intent
FallbackTool ==
    CASE AsksForHuman        -> <<"handoff_to_agent">>
      [] msg.kind = "lookup" -> <<"read">>
      [] OTHER               -> <<>>

\* Bug of Planned: the LLM is always believed.
PlannedByLLM(b) == b

\* tool_calls_to_exec for the tools b of a response: an LLM that answers a
\* message which requires a tool, before any tool returned, is not believed.
Planned(b) == IF b = <<>> /\ actions = {} /\ RequiresTool THEN FallbackTool ELSE b

\* Bug of Ask: every step starts with a LoopGuard of its own.
AskUnguarded(b) ==
    /\ pc = "llm"
    /\ step' = 1
    /\ calls' = 0
    /\ batch' = Planned(b)
    /\ IF Planned(b) = <<>>
       THEN pc' = "checkText" /\ text' = "llm"
       ELSE pc' = "tools" /\ UNCHANGED text
    /\ UNCHANGED <<outside, actions, handoff, rows>>

\* One step of the loop, up to the LLM's response.  The LLM (or the text that
\* LLMGateway makes up when both models are down) may ask for any tools.
Ask(b) ==
    /\ pc = "llm"
    /\ step < MaxSteps
    /\ step' = step + 1
    /\ batch' = Planned(b)
    /\ IF Planned(b) = <<>>
       THEN pc' = "checkText" /\ text' = "llm"
       ELSE pc' = "tools" /\ UNCHANGED text
    /\ UNCHANGED <<outside, calls, actions, handoff, rows>>

\* The for loop ran through without an answer.
StepsExhausted ==
    /\ pc = "llm"
    /\ step = MaxSteps
    /\ Escalate("orchestration_limit")
    /\ text' = "handover"
    /\ pc' = "checkText"
    /\ UNCHANGED <<outside, loop>>

\* Bug of CountCall: one call too many.
CountOneMore ==
    /\ pc = "tools"
    /\ calls <= MaxToolCalls
    /\ calls' = calls + 1
    /\ batch' = Tail(batch)
    /\ pc' = IF Tail(batch) = <<>> THEN "llm" ELSE "tools"

\* record_tool_call counts the next call and still allows it.
CountCall ==
    /\ pc = "tools"
    /\ calls < MaxToolCalls
    /\ calls' = calls + 1
    /\ batch' = Tail(batch)
    /\ pc' = IF Tail(batch) = <<>> THEN "llm" ELSE "tools"

\* ... or it raises, out of the loop.
CallsExhausted ==
    /\ pc = "tools"
    /\ calls >= MaxToolCalls
    /\ calls' = calls + 1
    /\ batch' = <<>>
    /\ Escalate("loop_guard_triggered")
    /\ text' = "handover"
    /\ pc' = "checkText"
    /\ UNCHANGED <<outside, step, actions>>

\* The router would have to execute the tool.
Uncached(t) == ~(msg.keyed /\ t \in cache)

\* Only a confirming message gets a refund past the confirmation gate.
Gated(t) == t = "refund" /\ ~msg.confirming

\* A result is added to actions_taken; handoff_to_agent's sets handoff_info.
Record(t) ==
    /\ actions' = actions \cup {t}
    /\ handoff' = IF t = "handoff_to_agent" THEN "tool" ELSE handoff

\* The router refuses the call, or it fails before the tool did anything:
\* the exception becomes a tool result.  Roles and ownership depend on the
\* LLM's choice of tool and arguments, so this can happen to any call.
CallRefused ==
    /\ CountCall
    /\ UNCHANGED <<outside, step, actions, text, handoff, rows>>

CallReplayed ==
    /\ CountCall
    /\ LET t == Head(batch)
       IN  ~Gated(t) /\ ~Uncached(t) /\ Record(t)
    /\ UNCHANGED <<outside, step, text, rows>>

CallExecuted ==
    /\ CountCall
    /\ LET t == Head(batch)
       IN  /\ ~Gated(t) /\ Uncached(t)
           /\ effects' = effects \cup {<<sends, t>>}
           /\ cache' = IF msg.keyed /\ t \in IdempotentTool THEN cache \cup {t} ELSE cache
           /\ Record(t)
    /\ UNCHANGED <<msg, sends, db, reports, step, text, rows>>

\* GoRush did it, but its answer, or storing it in Redis, failed.
CallLost ==
    /\ "tool" \in Faults
    /\ CountCall
    /\ LET t == Head(batch)
       IN  /\ ~Gated(t) /\ Uncached(t)
           /\ effects' = effects \cup {<<sends, t>>}
    /\ UNCHANGED <<msg, sends, db, cache, reports, step, actions, text, handoff, rows>>
-----------------------------------------------------------------------------
(* From final_text to the answer. *)

\* validate_response_language: the text stands, or the LLM writes another one.
CheckText ==
    /\ pc = "checkText"
    /\ text' \in {text, "llm"}
    /\ pc' = "human"
    /\ UNCHANGED <<outside, loop, handoff, rows>>

\* Bug of CheckHuman: any tool that returned counts as an answer.
CheckHumanUnlessActed ==
    /\ pc = "human"
    /\ IF AsksForHuman /\ handoff = "none" /\ actions = {}
       THEN Escalate("user_requested_human")
       ELSE UNCHANGED <<handoff, rows>>
    /\ pc' = "persist"
    /\ UNCHANGED <<outside, loop, text>>

\* An explicit request for a human that no tool handed off is escalated.
CheckHuman ==
    /\ pc = "human"
    /\ IF AsksForHuman /\ handoff = "none"
       THEN Escalate("user_requested_human")
       ELSE UNCHANGED <<handoff, rows>>
    /\ pc' = "persist"
    /\ UNCHANGED <<outside, loop, text>>

\* The turn is over, its local state with it.
EndTurn ==
    /\ pc' = "idle"
    /\ step' = 0 /\ calls' = 0 /\ batch' = <<>> /\ actions' = {}
    /\ text' = "none" /\ handoff' = "none" /\ rows' = {}
    /\ UNCHANGED <<msg, sends, effects, cache>>

\* The assistant message is added, the transaction committed, the answer sent.
Commit ==
    /\ pc = "persist"
    /\ db' = db \cup rows
    /\ reports' = reports \cup {[send |-> sends, text |-> text, handoff |-> handoff,
                                 acted |-> actions # {}]}
    /\ EndTurn

\* The transaction is rolled back: the incident tool of the P0 flow raised, or
\* something else in the turn did, the process died or the commit failed.
RollBack ==
    /\ \/ "tool" \in Faults /\ pc = "safety"
       \/ "turn" \in Faults /\ pc # "idle"
    /\ EndTurn
    /\ UNCHANGED <<db, reports>>

Batches == SeqOf(Asked, MaxBatch)

Turn ==
    \/ CreateIncident \/ EscalateSafety \/ RejectLanguage \/ AcceptLanguage
    \/ \E b \in Batches : Ask(b)
    \/ StepsExhausted \/ CallsExhausted
    \/ CallRefused \/ CallReplayed \/ CallExecuted \/ CallLost
    \/ CheckText \/ CheckHuman \/ Commit

Next == Deliver \/ Turn \/ RollBack

Spec == Init /\ [][Next]_vars

\* Every await of a turn returns or raises: LLM calls have a timeout of 20
\* seconds (llm_timeout_seconds) and the GoRush clients are local.
FairSpec == Spec /\ WF_vars(Turn)
-----------------------------------------------------------------------------
\* What a turn has, whichever way it goes: its counters stay within the limits of
\* LoopGuard, its rows are rows.
TypeOK ==
    /\ msg \in Message /\ sends \in 0..MaxSends /\ pc \in Locations
    /\ step \in 0..MaxSteps /\ calls \in 0..(MaxToolCalls + 1)
    /\ batch \in Seq(Tool) /\ actions \subseteq Tool
    /\ text \in {"none", "llm", "handover", "safety", "unsupported"}
    /\ handoff \in {"none", "tool", "row"}
    /\ rows \subseteq Row /\ db \subseteq Row
    /\ effects \subseteq Send \X Tool /\ cache \subseteq IdempotentTool
    /\ reports \subseteq Report

\* The user never gets the LLM's own words about something a tool should have
\* looked up: when there is a fallback tool, the LLM's text is sent only after
\* some tool returned, or with a handoff to a human.
AnswersAreGrounded ==
    \A r \in reports :
        (r.text = "llm" /\ RequiresTool /\ FallbackTool # <<>>) =>
            r.acted \/ r.handoff = "row"

\* A reported handoff happened, even when the turn that made it was lost or
\* its answer is a replay: GoRush was told in this or an earlier delivery, or
\* the row of this very delivery is committed.
HandoffsAreReal ==
    \A r \in reports :
        /\ r.handoff = "row" => \E h \in db : h.send = r.send
        /\ r.handoff = "tool" =>
              \E n \in 1..r.send : <<n, "handoff_to_agent">> \in effects

\* Whoever asks for a human in an enabled language, and is answered, is handed
\* over, however it is phrased and whatever the LLM and the tools did in between.
HumansAreReached ==
    (AsksForHuman /\ msg.enabled) => \A r \in reports : r.handoff # "none"

\* An answered emergency has its incident at GoRush and its committed row, and
\* is answered with the text of the P0 flow.
EmergenciesAreHandled ==
    \A r \in reports :
        msg.kind = "sos" =>
            /\ r.text = "safety"
            /\ <<r.send, "create_safety_incident">> \in effects
            /\ [send |-> r.send, reason |-> "safety_incident"] \in db

\* Whatever the LLM asks for, a turn comes to its end.
TurnEnds == (pc # "idle") ~> (pc = "idle")

\* app/tools/safety/tools.py:27, "prevent duplicate incidents on network
\* retry": a message with an idempotency key makes one incident.
IncidentOnce ==
    msg.keyed => \A m, n \in Send :
        (<<m, "create_safety_incident">> \in effects /\ <<n, "create_safety_incident">> \in effects)
            => m = n
=============================================================================
