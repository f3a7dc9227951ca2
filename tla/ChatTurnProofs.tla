--------------------------- MODULE ChatTurnProofs ---------------------------
(***************************************************************************)
(* ChatTurn for any limits of LoopGuard, any batches the LLM asks for and  *)
(* any number of deliveries.  The properties speak of answers; the         *)
(* invariant says of the turn under way what its answer will rest on.      *)
(***************************************************************************)
EXTENDS ChatTurn, SequenceTheorems, TLAPS

USE TurnAssumption

\* A delivery is under way, its counters not above their limits where they
\* may still grow; there is a call to do in "tools", a text at the end.
CountInv ==
    /\ pc # "idle" => sends >= 1
    /\ pc \notin {"checkText", "human", "persist"} => calls <= MaxToolCalls
    /\ pc = "tools" => batch # <<>>
    /\ pc \in {"checkText", "human", "persist"} => text # "none"

\* A handoff in the making is real, and so is what a replay would report.
HandoffInv ==
    /\ pc = "idle" => handoff = "none"
    /\ handoff = "row" => \E h \in rows : h.send = sends
    /\ handoff = "tool" => \E n \in 1..sends : <<n, "handoff_to_agent">> \in effects
    /\ \A t \in cache : \E n \in 1..sends : <<n, t>> \in effects

\* Who wants a human is past the check for it only with a handoff.
HumanInv == pc = "persist" /\ AsksForHuman /\ msg.enabled => handoff # "none"

\* An emergency takes the P0 flow, and in its order.
EmergencyInv ==
    /\ msg.kind = "sos" => pc \in {"idle", "safety", "escalate", "persist"}
    /\ pc = "escalate" => <<sends, "create_safety_incident">> \in effects
    /\ (pc = "persist" /\ msg.kind = "sos") =>
          /\ text = "safety"
          /\ <<sends, "create_safety_incident">> \in effects
          /\ [send |-> sends, reason |-> "safety_incident"] \in rows

\* There are the LLM's words only where there are grounds for them; what
\* CheckText may replace by them is theirs already or is a handover.
GroundsInv ==
    /\ (text = "llm" /\ RequiresTool /\ FallbackTool # <<>>) =>
          actions # {} \/ handoff = "row"
    /\ pc \in {"checkText", "human"} => text = "llm" \/ handoff = "row"

IInv ==
    /\ TypeOK /\ CountInv /\ HandoffInv /\ HumanInv /\ EmergencyInv /\ GroundsInv
    /\ AnswersAreGrounded /\ HandoffsAreReal /\ HumansAreReached /\ EmergenciesAreHandled

\* The tools of a response, planned or asked for, are tools.
LEMMA PlannedType == ASSUME NEW b \in Batches PROVE Planned(b) \in Seq(Tool)
<1>1. PICK n \in Nat : b \in [1..n -> Asked]
  BY DEF Batches, SeqOf
<1>2. b \in Seq(Tool)
  BY <1>1
<1>3. FallbackTool \in Seq(Tool)
  <2>1. <<"handoff_to_agent">> \in Seq(Tool) /\ <<"read">> \in Seq(Tool) /\ <<>> \in Seq(Tool)
    BY DEF Tool
  <2>2. QED
    BY <2>1 DEF FallbackTool
<1>4. QED
  BY <1>2, <1>3 DEF Planned

\* The message has not been sent yet.
LEMMA Initially == Init => IInv
<1> SUFFICES ASSUME Init PROVE IInv
  OBVIOUS
<1>1. TypeOK
  BY EmptySeq DEF Init, TypeOK, Locations
<1>2. CountInv /\ HandoffInv /\ HumanInv /\ EmergencyInv /\ GroundsInv
  BY DEF Init, CountInv, HandoffInv, HumanInv, EmergencyInv, GroundsInv
<1>3. AnswersAreGrounded /\ HandoffsAreReal /\ HumansAreReached /\ EmergenciesAreHandled
  BY DEF Init, AnswersAreGrounded, HandoffsAreReal, HumansAreReached, EmergenciesAreHandled
<1>4. QED
  BY <1>1, <1>2, <1>3 DEF IInv

\* What record_tool_call leaves of the batch.
LEMMA CountCallStep ==
  ASSUME TypeOK, CountInv, CountCall
  PROVE  /\ Head(batch) \in Tool
         /\ batch' \in Seq(Tool)
         /\ calls' \in 0..MaxToolCalls
         /\ pc' \in {"llm", "tools"}
         /\ pc' = "tools" => batch' # <<>>
<1>1. batch \in Seq(Tool) /\ batch # <<>>
  BY DEF TypeOK, CountInv, CountCall
<1>2. Head(batch) \in Tool /\ Tail(batch) \in Seq(Tool)
  BY <1>1, HeadTailProperties
<1>3. calls' \in 0..MaxToolCalls
  BY DEF TypeOK, CountCall
<1>4. QED
  BY <1>2, <1>3 DEF CountCall

\* The steps of the loop that do a call.
Call == CallRefused \/ CallReplayed \/ CallExecuted \/ CallLost

\* A call leaves the message, the answers, the rows and the text alone; it
\* only adds effects, and what it adds to the cache it did.
LEMMA CallStep ==
  ASSUME IInv, Call
  PROVE  /\ CountCall
         /\ UNCHANGED <<msg, sends, db, reports, step, text, rows>>
         /\ effects \subseteq effects' /\ effects' \subseteq Send \X Tool
         /\ cache' \subseteq IdempotentTool
         /\ actions \subseteq actions' /\ actions' \subseteq Tool
         /\ handoff' \in {handoff, "tool"}
         /\ \A t \in cache' : t \in cache \/ <<sends, t>> \in effects'
         /\ handoff' = "tool" => \E n \in 1..sends : <<n, "handoff_to_agent">> \in effects'
<1> DEFINE t == Head(batch)
<1>1. CountCall
  BY DEF Call, CallRefused, CallReplayed, CallExecuted, CallLost
<1>2. TypeOK /\ CountInv /\ HandoffInv
  BY DEF IInv
<1>3. t \in Tool
  BY <1>1, <1>2, CountCallStep
<1>4. sends \in Send /\ sends \in 1..sends
  BY <1>1, <1>2 DEF TypeOK, CountInv, CountCall, Send
<1> HIDE DEF t
<1>5. CASE CallRefused
  BY <1>1, <1>2, <1>5 DEF CallRefused, outside, TypeOK, HandoffInv
<1>6. CASE CallReplayed
  <2>1. /\ UNCHANGED <<msg, sends, db, effects, cache, reports, step, text, rows>>
        /\ t \in cache
        /\ actions' = actions \cup {t}
        /\ handoff' = IF t = "handoff_to_agent" THEN "tool" ELSE handoff
    BY <1>6 DEF CallReplayed, Record, Uncached, outside, t
  <2>2. QED
    BY <1>1, <1>2, <1>3, <2>1 DEF TypeOK, HandoffInv
<1>7. CASE CallExecuted
  <2>1. /\ UNCHANGED <<msg, sends, db, reports, step, text, rows>>
        /\ effects' = effects \cup {<<sends, t>>}
        /\ \/ cache' = cache
           \/ t \in IdempotentTool /\ cache' = cache \cup {t}
        /\ actions' = actions \cup {t}
        /\ handoff' = IF t = "handoff_to_agent" THEN "tool" ELSE handoff
    BY <1>7 DEF CallExecuted, Record, t
  <2>2. <<sends, t>> \in Send \X Tool
    BY <1>3, <1>4
  <2>3. handoff' = "tool" => \E n \in 1..sends : <<n, "handoff_to_agent">> \in effects'
    BY <1>2, <1>4, <2>1 DEF HandoffInv
  <2>4. QED
    BY <1>1, <1>2, <1>3, <2>1, <2>2, <2>3 DEF TypeOK
<1>8. CASE CallLost
  <2>1. /\ UNCHANGED <<msg, sends, db, cache, reports, step, actions, text, handoff, rows>>
        /\ effects' = effects \cup {<<sends, t>>}
    BY <1>8 DEF CallLost, t
  <2>2. <<sends, t>> \in Send \X Tool
    BY <1>3, <1>4
  <2>3. QED
    BY <1>1, <1>2, <2>1, <2>2 DEF TypeOK, HandoffInv
<1>9. QED
  BY <1>5, <1>6, <1>7, <1>8 DEF Call

\* Every step keeps the turn and the stores well formed.
LEMMA TypeStep == IInv /\ [Next]_vars => TypeOK'
<1> SUFFICES ASSUME IInv, [Next]_vars PROVE TypeOK'
  OBVIOUS
<1> USE DEF Locations
<1>0. TypeOK /\ CountInv
  BY DEF IInv
<1>1. CASE Deliver
  BY <1>0, <1>1 DEF Deliver, loop, TypeOK
<1>2. CASE CreateIncident
  <2>1. <<sends, "create_safety_incident">> \in Send \X Tool
    BY <1>0, <1>2 DEF CreateIncident, TypeOK, CountInv, Send, Tool
  <2>2. QED
    BY <1>0, <1>2, <2>1 DEF CreateIncident, TypeOK, Tool
<1>3. ASSUME EscalateSafety \/ StepsExhausted \/ CallsExhausted \/ CheckHuman
      PROVE  TypeOK'
  <2>1. sends \in Send
    BY <1>0, <1>3 DEF EscalateSafety, StepsExhausted, CallsExhausted, CheckHuman,
                      TypeOK, CountInv, Send
  <2>2. rows' \subseteq Row /\ handoff' \in {"none", "tool", "row"}
    BY <1>0, <1>3, <2>1 DEF EscalateSafety, StepsExhausted, CallsExhausted, CheckHuman,
                            Escalate, Row, TypeOK
  <2>3. pc' \in Locations /\ text' \in {"none", "llm", "handover", "safety", "unsupported"}
    BY <1>0, <1>3 DEF EscalateSafety, StepsExhausted, CallsExhausted, CheckHuman, TypeOK
  <2>4. calls' \in 0..(MaxToolCalls + 1) /\ batch' \in Seq(Tool)
    <3>1. CASE CallsExhausted
      BY <1>0, <3>1, EmptySeq DEF CallsExhausted, TypeOK, CountInv
    <3>2. CASE UNCHANGED <<calls, batch>>
      BY <1>0, <3>2 DEF TypeOK
    <3>3. QED
      BY <1>3, <3>1, <3>2 DEF EscalateSafety, StepsExhausted, CheckHuman, loop
  <2>5. UNCHANGED <<outside, step, actions>>
    BY <1>3 DEF EscalateSafety, StepsExhausted, CallsExhausted, CheckHuman, loop
  <2>6. QED
    BY <1>0, <2>2, <2>3, <2>4, <2>5 DEF outside, TypeOK
<1>4. CASE RejectLanguage \/ AcceptLanguage \/ CheckText
  BY <1>0, <1>4 DEF RejectLanguage, AcceptLanguage, CheckText, outside, loop, TypeOK
<1>5. ASSUME NEW b \in Batches, Ask(b) PROVE TypeOK'
  <2>1. Planned(b) \in Seq(Tool)
    BY PlannedType
  <2>2. QED
    BY <1>0, <1>5, <2>1 DEF Ask, outside, TypeOK
<1>6. CASE Call
  <2>1. batch' \in Seq(Tool) /\ calls' \in 0..MaxToolCalls /\ pc' \in {"llm", "tools"}
    BY <1>0, <1>6, CallStep, CountCallStep
  <2>2. QED
    BY <1>0, <1>6, <2>1, CallStep DEF TypeOK
<1>7. CASE Commit
  <2>1. sends \in Send /\ text \in {"llm", "handover", "safety", "unsupported"}
    <3>1. pc = "persist"
      BY <1>7 DEF Commit
    <3>2. QED
      BY <1>0, <3>1 DEF TypeOK, CountInv, Send
  <2>2. [send |-> sends, text |-> text, handoff |-> handoff, acted |-> actions # {}] \in Report
    BY <1>0, <2>1 DEF TypeOK, Report
  <2>3. QED
    BY <1>0, <1>7, <2>2, EmptySeq DEF Commit, EndTurn, TypeOK
<1>8. CASE RollBack
  BY <1>0, <1>8, EmptySeq DEF RollBack, EndTurn, TypeOK
<1>9. CASE UNCHANGED vars
  BY <1>0, <1>9 DEF vars, TypeOK
<1>10. QED
  BY <1>1, <1>2, <1>3, <1>4, <1>5, <1>6, <1>7, <1>8, <1>9 DEF Next, Turn, Call

\* The steps that start, continue and end a turn keep its counters in bounds.
LEMMA CountStep == IInv /\ [Next]_vars => CountInv'
<1> SUFFICES ASSUME IInv, [Next]_vars PROVE CountInv'
  OBVIOUS
<1>0. TypeOK /\ CountInv /\ GroundsInv
  BY DEF IInv
<1>1. CASE Deliver
  BY <1>0, <1>1 DEF Deliver, loop, TypeOK, CountInv
<1>2. CASE CreateIncident \/ EscalateSafety \/ RejectLanguage \/ AcceptLanguage
  BY <1>0, <1>2 DEF CreateIncident, EscalateSafety, RejectLanguage, AcceptLanguage,
                    outside, loop, CountInv
<1>3. ASSUME NEW b \in Batches, Ask(b) PROVE CountInv'
  BY <1>0, <1>3 DEF Ask, outside, CountInv
<1>4. CASE StepsExhausted \/ CallsExhausted \/ CheckText \/ CheckHuman
  BY <1>0, <1>4 DEF StepsExhausted, CallsExhausted, CheckText, CheckHuman, outside, loop, CountInv
<1>5. CASE Call
  <2>1. CountCall /\ sends' = sends
    BY <1>5, CallStep
  <2>2. calls' \in 0..MaxToolCalls /\ pc' \in {"llm", "tools"} /\ (pc' = "tools" => batch' # <<>>)
    BY <1>0, <2>1, CountCallStep
  <2>3. pc = "tools"
    BY <2>1 DEF CountCall
  <2>4. QED
    BY <1>0, <2>1, <2>2, <2>3 DEF CountInv
<1>6. CASE Commit \/ RollBack
  BY <1>6 DEF Commit, RollBack, EndTurn, CountInv
<1>7. CASE UNCHANGED vars
  BY <1>0, <1>7 DEF vars, outside, loop, CountInv
<1>8. QED
  BY <1>1, <1>2, <1>3, <1>4, <1>5, <1>6, <1>7 DEF Next, Turn, Call

\* A handoff becomes a row, or an effect at GoRush, before it is reported.
LEMMA HandoffStep == IInv /\ [Next]_vars => HandoffInv'
<1> SUFFICES ASSUME IInv, [Next]_vars PROVE HandoffInv'
  OBVIOUS
<1>0. TypeOK /\ CountInv /\ HandoffInv
  BY DEF IInv
<1>1. CASE Deliver
  <2>1. 1..sends \subseteq 1..sends'
    BY <1>0, <1>1 DEF Deliver, TypeOK
  <2>2. handoff = "row" => handoff' = "none"
    BY <1>0, <1>1 DEF Deliver, HandoffInv
  <2>3. QED
    BY <1>0, <1>1, <2>1, <2>2 DEF Deliver, HandoffInv
<1>2. CASE CreateIncident
  BY <1>0, <1>2 DEF CreateIncident, HandoffInv
<1>3. CASE RejectLanguage \/ AcceptLanguage \/ CheckText \/ UNCHANGED vars
  BY <1>0, <1>3 DEF RejectLanguage, AcceptLanguage, CheckText, vars, outside, HandoffInv
<1>4. ASSUME NEW b \in Batches, Ask(b) PROVE HandoffInv'
  BY <1>0, <1>4 DEF Ask, outside, HandoffInv
<1>5. CASE EscalateSafety \/ StepsExhausted \/ CallsExhausted \/ CheckHuman
  <2>1. UNCHANGED outside /\ pc' # "idle"
    BY <1>5 DEF EscalateSafety, StepsExhausted, CallsExhausted, CheckHuman
  <2>2. CASE UNCHANGED <<handoff, rows>>
    BY <1>0, <2>1, <2>2 DEF outside, HandoffInv
  <2>3. ASSUME NEW reason, Escalate(reason) PROVE HandoffInv'
    <3>1. [send |-> sends, reason |-> reason] \in rows' /\ handoff' = "row"
      BY <2>3 DEF Escalate
    <3>2. [send |-> sends, reason |-> reason].send = sends
      OBVIOUS
    <3>3. QED
      BY <1>0, <2>1, <3>1, <3>2 DEF outside, HandoffInv
  <2>4. QED
    BY <1>5, <2>2, <2>3 DEF EscalateSafety, StepsExhausted, CallsExhausted, CheckHuman
<1>6. CASE Call
  <2>1. sends \in 1..sends /\ pc' # "idle" /\ handoff' \in {handoff, "tool"}
    BY <1>0, <1>6, CallStep DEF TypeOK, CountInv, CountCall
  <2>2. handoff' = "row" => \E h \in rows' : h.send = sends'
    BY <1>0, <1>6, <2>1, CallStep DEF HandoffInv
  <2>3. handoff' = "tool" => \E n \in 1..sends' : <<n, "handoff_to_agent">> \in effects'
    BY <1>6, CallStep
  <2>4. \A t \in cache' : \E n \in 1..sends' : <<n, t>> \in effects'
    <3>1. SUFFICES ASSUME NEW t \in cache' PROVE \E n \in 1..sends : <<n, t>> \in effects'
      BY <1>6, CallStep
    <3>2. CASE t \in cache
      BY <1>0, <1>6, <3>2, CallStep DEF HandoffInv
    <3>3. CASE <<sends, t>> \in effects'
      BY <2>1, <3>3
    <3>4. QED
      BY <1>6, <3>2, <3>3, CallStep
  <2>5. QED
    BY <2>1, <2>2, <2>3, <2>4 DEF HandoffInv
<1>7. CASE Commit \/ RollBack
  BY <1>0, <1>7 DEF Commit, RollBack, EndTurn, HandoffInv
<1>8. QED
  BY <1>1, <1>2, <1>3, <1>4, <1>5, <1>6, <1>7 DEF Next, Turn, Call

\* The emergency flow and the way past the check for a human.
LEMMA PathStep == IInv /\ [Next]_vars => EmergencyInv' /\ HumanInv'
<1> SUFFICES ASSUME IInv, [Next]_vars PROVE EmergencyInv' /\ HumanInv'
  OBVIOUS
<1> USE DEF AsksForHuman
<1>0. TypeOK /\ EmergencyInv /\ HumanInv
  BY DEF IInv
<1>1. CASE Deliver
  BY <1>0, <1>1 DEF Deliver, EmergencyInv, HumanInv
<1>2. CASE CreateIncident \/ EscalateSafety
  BY <1>0, <1>2 DEF CreateIncident, EscalateSafety, Escalate, outside, EmergencyInv, HumanInv
<1>3. CASE RejectLanguage \/ AcceptLanguage \/ StepsExhausted \/ CallsExhausted \/ CheckText
  BY <1>0, <1>3 DEF RejectLanguage, AcceptLanguage, StepsExhausted, CallsExhausted, CheckText,
                    outside, EmergencyInv, HumanInv
<1>4. ASSUME NEW b \in Batches, Ask(b) PROVE EmergencyInv' /\ HumanInv'
  BY <1>0, <1>4 DEF Ask, outside, EmergencyInv, HumanInv
<1>5. CASE Call
  <2>1. pc = "tools" /\ pc' \in {"llm", "tools"} /\ msg' = msg
    BY <1>5, CallStep DEF CountCall
  <2>2. QED
    BY <1>0, <2>1 DEF EmergencyInv, HumanInv
<1>6. CASE CheckHuman
  BY <1>0, <1>6 DEF CheckHuman, Escalate, outside, EmergencyInv, HumanInv
<1>7. CASE Commit \/ RollBack
  BY <1>0, <1>7 DEF Commit, RollBack, EndTurn, EmergencyInv, HumanInv
<1>8. CASE UNCHANGED vars
  BY <1>0, <1>8 DEF vars, EmergencyInv, HumanInv
<1>9. QED
  BY <1>1, <1>2, <1>3, <1>4, <1>5, <1>6, <1>7, <1>8 DEF Next, Turn, Call

\* RequiresTool and FallbackTool are about the message, which stays.
LEMMA SameMessage ==
  ASSUME msg' = msg
  PROVE  (RequiresTool' <=> RequiresTool) /\ FallbackTool' = FallbackTool
BY DEF RequiresTool, FallbackTool, AsksForHuman

\* The LLM is believed only after a tool returned, or where none is required
\* or none is there to fall back on.
LEMMA AskStep ==
  ASSUME NEW b \in Batches, Ask(b), GroundsInv
  PROVE  GroundsInv'
<1>1. UNCHANGED <<msg, actions, handoff>> /\ pc' \in {"checkText", "tools"}
  BY DEF Ask, outside
<1>2. CASE Planned(b) = <<>>
  <2>1. text' = "llm"
    BY <1>2 DEF Ask
  <2>2. (RequiresTool /\ FallbackTool # <<>>) => actions # {}
    BY <1>2 DEF Planned
  <2>3. QED
    BY <1>1, <2>1, <2>2, SameMessage DEF GroundsInv
<1>3. CASE Planned(b) # <<>>
  BY <1>1, <1>3, SameMessage DEF Ask, GroundsInv
<1>4. QED
  BY <1>2, <1>3

\* The LLM's words keep the grounds they have.
LEMMA GroundsStep == IInv /\ [Next]_vars => GroundsInv'
<1> SUFFICES ASSUME IInv, [Next]_vars PROVE GroundsInv'
  OBVIOUS
<1>0. TypeOK /\ GroundsInv
  BY DEF IInv
<1>1. CASE Deliver
  BY <1>0, <1>1, SameMessage DEF Deliver, loop, GroundsInv
<1>2. CASE CreateIncident
  BY <1>0, <1>2, SameMessage DEF CreateIncident, GroundsInv
<1>3. CASE EscalateSafety \/ StepsExhausted \/ CallsExhausted
  <2>1. msg' = msg /\ handoff' = "row"
    BY <1>3 DEF EscalateSafety, StepsExhausted, CallsExhausted, Escalate, outside
  <2>2. QED
    BY <2>1 DEF GroundsInv
<1>4. CASE RejectLanguage \/ AcceptLanguage \/ CheckText \/ UNCHANGED vars
  <2>1. UNCHANGED <<msg, actions, handoff>>
    BY <1>4 DEF RejectLanguage, AcceptLanguage, CheckText, vars, outside, loop
  <2>2. QED
    BY <1>0, <1>4, <2>1, SameMessage DEF RejectLanguage, AcceptLanguage, CheckText, vars, GroundsInv
<1>5. ASSUME NEW b \in Batches, Ask(b) PROVE GroundsInv'
  BY <1>0, <1>5, AskStep
<1>6. CASE Call
  <2>1. UNCHANGED <<msg, text>> /\ pc' \in {"llm", "tools"}
    BY <1>6, CallStep DEF CountCall
  <2>2. handoff = "row" => actions' # {} \/ handoff' = "row"
    BY <1>6 DEF Call, CallRefused, CallReplayed, CallExecuted, CallLost, Record
  <2>3. actions \subseteq actions'
    BY <1>6, CallStep
  <2>4. QED
    BY <1>0, <2>1, <2>2, <2>3, SameMessage DEF GroundsInv
<1>7. CASE CheckHuman
  <2>1. UNCHANGED <<msg, text, actions>> /\ handoff' \in {handoff, "row"} /\ pc' = "persist"
    BY <1>7 DEF CheckHuman, Escalate, outside, loop
  <2>2. QED
    BY <1>0, <2>1, SameMessage DEF GroundsInv
<1>8. CASE Commit \/ RollBack
  BY <1>8 DEF Commit, RollBack, EndTurn, GroundsInv
<1>9. QED
  BY <1>1, <1>2, <1>3, <1>4, <1>5, <1>6, <1>7, <1>8 DEF Next, Turn, Call

\* What the answers say.
Answers == AnswersAreGrounded /\ HandoffsAreReal /\ HumansAreReached /\ EmergenciesAreHandled

\* An answer is what the turn that commits came to.
LEMMA CommitStep == ASSUME IInv, Commit PROVE Answers'
<1> DEFINE new == [send |-> sends, text |-> text, handoff |-> handoff, acted |-> actions # {}]
<1>1. /\ msg' = msg /\ effects' = effects
      /\ db' = db \cup rows /\ reports' = reports \cup {new} /\ pc = "persist"
  BY DEF Commit, EndTurn
<1>2. /\ new.send = sends /\ new.text = text /\ new.handoff = handoff
      /\ new.acted = (actions # {})
  OBVIOUS
<1> HIDE DEF new
<1>3. AnswersAreGrounded'
  BY <1>1, <1>2, SameMessage DEF IInv, GroundsInv, AnswersAreGrounded
<1>4. HandoffsAreReal'
  BY <1>1, <1>2 DEF IInv, HandoffInv, HandoffsAreReal
<1>5. HumansAreReached'
  BY <1>1, <1>2 DEF IInv, HumanInv, HumansAreReached, AsksForHuman
<1>6. EmergenciesAreHandled'
  BY <1>1, <1>2 DEF IInv, EmergencyInv, EmergenciesAreHandled
<1>7. QED
  BY <1>3, <1>4, <1>5, <1>6 DEF Answers

\* Nothing takes back what an answer rests on.
LEMMA AnswersStep == IInv /\ [Next]_vars => Answers'
<1> SUFFICES ASSUME IInv, [Next]_vars PROVE Answers'
  OBVIOUS
<1>1. CASE Commit
  BY <1>1, CommitStep
<1>2. CASE ~Commit
  <2>1. UNCHANGED <<msg, db, reports>> /\ effects \subseteq effects'
    BY <1>2, CallStep DEF Next, Turn, Call, Deliver, CreateIncident, EscalateSafety, RejectLanguage,
       AcceptLanguage, Ask, StepsExhausted, CallsExhausted, CheckText, CheckHuman, RollBack,
       EndTurn, outside, vars
  <2>2. QED
    BY <2>1, SameMessage DEF IInv, Answers, AnswersAreGrounded, HandoffsAreReal,
                             HumansAreReached, EmergenciesAreHandled, AsksForHuman
<1>3. QED
  BY <1>1, <1>2

\* The invariant.
THEOREM Invariant == Spec => []IInv
<1>1. IInv /\ [Next]_vars => IInv'
  BY TypeStep, CountStep, HandoffStep, PathStep, GroundsStep, AnswersStep DEF IInv, Answers
<1>2. QED
  BY Initially, <1>1, PTL DEF Spec

\* A turn is well formed and within LoopGuard's limits, whatever those are and
\* whatever the LLM asks for.
THEOREM TypeCorrect == Spec => []TypeOK
<1>1. IInv => TypeOK
  BY DEF IInv
<1>2. QED
  BY Invariant, <1>1, PTL

\* No answer about what a tool should have looked up is the LLM's alone.
THEOREM GroundsHold == Spec => []AnswersAreGrounded
<1>1. IInv => AnswersAreGrounded
  BY DEF IInv
<1>2. QED
  BY Invariant, <1>1, PTL

\* Every reported handoff was made, in this delivery or in an earlier one.
THEOREM HandoffsHold == Spec => []HandoffsAreReal
<1>1. IInv => HandoffsAreReal
  BY DEF IInv
<1>2. QED
  BY Invariant, <1>1, PTL

\* An answered request for a human is handed over.
THEOREM HumansHold == Spec => []HumansAreReached
<1>1. IInv => HumansAreReached
  BY DEF IInv
<1>2. QED
  BY Invariant, <1>1, PTL

\* An answered emergency has its incident and its handoff.
THEOREM EmergenciesHold == Spec => []EmergenciesAreHandled
<1>1. IInv => EmergenciesAreHandled
  BY DEF IInv
<1>2. QED
  BY Invariant, <1>1, PTL
=============================================================================
