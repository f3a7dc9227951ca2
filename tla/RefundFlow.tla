----------------------------- MODULE RefundFlow -----------------------------
(***************************************************************************)
(* The guided refund conversation of one chat session: the refund branch   *)
(* of ChatOrchestrator.handle_message and _handle_refund_flow              *)
(* (app/ai/orchestrator/orchestrator.py), turn by turn and await by await. *)
(*                                                                         *)
(* A turn is one message of the user, handled in a database transaction of *)
(* its own.  Turns are numbered in the order their transactions start,     *)
(* which is the order get_recent_messages gives their messages.  Between   *)
(* turns the conversation lives in three places that are not updated       *)
(* together: session_state in Redis, the metadata of committed messages,   *)
(* and the idempotency entries of the tool router in Redis.                *)
(***************************************************************************)
EXTENDS Naturals, FiniteSets

CONSTANTS MaxTurns,     \* bound on the messages of the session
          Ride,         \* rides of the user
          DefaultRide,  \* "ride_123", assumed when the metadata names no ride
          ClientKey,    \* idempotency keys clients send; fresh ones for new messages
          Settings,     \* the circumstances to look at, see Setting
          None

\* A message: asking for a refund, asking about refunds in general, a bare
\* confirmation, both in one, or about anything else.
TextKind == {"ask", "policy", "yes", "askyes", "other"}

\* A reply: the GUIDE text, the success text, one of the refund flow's other
\* texts, the report of a failed submission, and what the LLM wrote: about
\* refunds (stored as a pending refund), asking to confirm something else,
\* or neither.
ReplyKind == {"guide", "success", "notice", "failure", "policy", "prompt", "chat"}

\* session_state; intent is always refund and refund_eligible always true.
SessionState == [ride : Ride, confirmed : BOOLEAN]

\* An assistant message and its metadata: refund_state, and the ride that
\* refund_result is about.
Message == [kind : ReplyKind, state : SessionState \cup {None}, result : Ride \cup {None}]

Turn == 1..MaxTurns

\* idempotency_key or refund_{user}_{ride}: the default key is the ride's own.
Keys == ClientKey \cup Ride

Locations == {"idle", "resolve", "read", "owner", "lookup", "submit", "store",
              "confirmed", "ride", "payment", "status", "unpaid", "guide",
              "persist", "done"}

\* Circumstances of a conversation: the kinds of message the user sends and
\* with which keys, a bound on its messages and on the turns in progress at
\* once, whether Redis and GoRush calls fail and turns die, whether
\* session_state reaches its TTL of an hour, and whether the LLM uses
\* request_refund in the turns it answers.
Setting == [texts : SUBSET TextKind, keys : SUBSET ClientKey, turns : 0..MaxTurns,
            active : Turn, faults : BOOLEAN, expiry : BOOLEAN, llm : BOOLEAN]

ASSUME RefundAssumption ==
    /\ MaxTurns \in Nat
    /\ Settings \subseteq Setting
    /\ DefaultRide \in Ride
    /\ None \notin Ride /\ None \notin ClientKey /\ None \notin TextKind
    /\ None \notin SessionState /\ None \notin Message
    /\ ClientKey \cap Ride = {}

VARIABLES
    env,        \* the setting, chosen once
    pc,         \* where each turn is
    text,       \* what its message says, while the turn lasts
    key,        \* the idempotency key sent with it, while the turn lasts
    local,      \* the session state the turn acts on or puts together
    result,     \* what invoke returned to it: the ride that was refunded
    reply,      \* the assistant message of its transaction
    redis,      \* session_state:{session}
    idem,       \* idem:request_refund:{key}: the ride that was refunded
    byLLM,      \* the turns in which the LLM chose to request a refund
    submitted,  \* GoRush: <<turn, ride>> of the refund requests it accepted
    guided,     \* history: the rides VERIFY found eligible
    settled     \* history: the keys that had an entry when the turn started

vars == <<env, pc, text, key, local, result, reply, redis, idem, byLLM, submitted, guided, settled>>
message == <<env, text, key, settled, byLLM>>
turn == <<message, local, result>>      \* the handler's own
shared == <<redis, idem, submitted, guided>>

Init ==
    /\ env \in Settings
    /\ pc = [t \in Turn |-> "idle"]
    /\ text = [t \in Turn |-> None]
    /\ key = [t \in Turn |-> None]
    /\ local = [t \in Turn |-> None]
    /\ result = [t \in Turn |-> None]
    /\ reply = [t \in Turn |-> None]
    /\ redis = None
    /\ idem = [k \in Keys |-> None]
    /\ byLLM = {}
    /\ submitted = {}
    /\ guided = {}
    /\ settled = [t \in Turn |-> {}]

Goto(t, loc) == pc' = [pc EXCEPT ![t] = loc]

\* add_message with this reply; send_message commits it with the turn.
Say(t, kind, state, about) ==
    /\ reply' = [reply EXCEPT ![t] = [kind |-> kind, state |-> state, result |-> about]]
    /\ Goto(t, "persist")

SayOnly(t, kind) == Say(t, kind, None, None)

\* The handler returns or raises: its variables are gone.
EndTurn(t) ==
    /\ Goto(t, "done")
    /\ text' = [text EXCEPT ![t] = None]
    /\ key' = [key EXCEPT ![t] = None]
    /\ local' = [local EXCEPT ![t] = None]
    /\ result' = [result EXCEPT ![t] = None]
    /\ settled' = [settled EXCEPT ![t] = {}]
    /\ UNCHANGED <<env, byLLM>>

ActiveTurns == {t \in Turn : pc[t] \notin {"idle", "done"}}

\* The turns whose messages are committed.
Stored == {t \in Turn : pc[t] = "done" /\ reply[t] # None}

Refunded(r) == \E t \in Turn : <<t, r>> \in submitted

\* The assistant messages among the last five messages: five are the user
\* message of this turn and the two pairs before it.
Newest(S) == {t \in S : \A u \in S : u <= t}
Recent == Newest(Stored) \cup Newest(Stored \ Newest(Stored))

\* handle_message up to the user message; the client picks text and key.
Start(t) ==
    /\ pc[t] = "idle" /\ t <= env.turns
    /\ \A u \in Turn : u < t => pc[u] # "idle"
    /\ Cardinality(ActiveTurns) < env.active
    /\ \E m \in env.texts : text' = [text EXCEPT ![t] = m]
    /\ \E k \in env.keys \cup {None} : key' = [key EXCEPT ![t] = k]
    /\ settled' = [settled EXCEPT ![t] = {k \in Keys : idem[k] # None}]
    /\ Goto(t, "resolve")
    /\ UNCHANGED <<env, byLLM, local, result, reply, shared>>

\* _is_confirmation_text, and so is_confirming
Confirming(t) == text[t] \in {"yes", "askyes"}

\* What _resolve_pending_intent makes of the message, from the last assistant
\* message: every refund text asks for confirmation or has "refund" in it, so
\* it resolves a confirmation to the refund intent; a confirmation question
\* about something else resolves it to that.
IsRefundTurn(t) ==
    LET last == {reply[u].kind : u \in Newest(Stored)}
    IN  CASE text[t] = "ask"    -> TRUE
          [] text[t] = "askyes" -> "prompt" \notin last
          [] text[t] = "yes"    -> last \cap {"guide", "success", "notice", "failure", "policy"} # {}
          [] OTHER              -> FALSE

EnterRefundFlow(t) ==
    /\ pc[t] = "resolve"
    /\ IsRefundTurn(t)
    /\ Goto(t, "read")
    /\ UNCHANGED <<turn, reply, shared>>

\* Every other turn is answered by the LLM loop (ChatTurn).  Of the tools it
\* may use there only request_refund matters here, once in a turn, for a ride
\* and with the key of the message, if any.
ChooseRefund(t) ==
    /\ env.llm
    /\ pc[t] = "resolve"
    /\ ~IsRefundTurn(t)
    /\ \E r \in Ride : local' = [local EXCEPT ![t] = [ride |-> r, confirmed |-> FALSE]]
    /\ byLLM' = byLLM \cup {t}
    /\ Goto(t, "owner")
    /\ UNCHANGED <<env, text, key, settled, result, reply, shared>>

\* The LLM's answer, after the tool has returned if it called it.  The metadata
\* of a reply about refunds that used no tool says pending_intent refund and
\* requires_confirmation, because its text contains "refund".
AnswerByLLM(t) ==
    /\ IF t \in byLLM THEN pc[t] = "confirmed" ELSE pc[t] = "resolve" /\ ~IsRefundTurn(t)
    /\ \E kind \in IF text[t] = "policy" THEN {"policy", "chat"} ELSE {"prompt", "chat"} :
          SayOnly(t, kind)
    /\ UNCHANGED <<turn, shared>>

\* _get_session_state: Redis, or the newest refund_state in the metadata of
\* the recent messages.
FromMessages ==
    LET with == {u \in Recent : reply[u].state # None}
    IN  IF with = {} THEN None ELSE reply[CHOOSE u \in Newest(with) : TRUE].state

KnownStates ==
    (IF redis # None THEN {redis} ELSE {FromMessages})
      \cup (IF env.faults THEN {FromMessages} ELSE {})

\* The state rebuilt when only the metadata of a recent message says that a
\* refund is pending: that message names no ride, so DefaultRide it is.
Rebuilt ==
    IF \E u \in Recent : reply[u].kind \in {"guide", "policy"}
    THEN [ride |-> DefaultRide, confirmed |-> FALSE]
    ELSE None

Pending(s) == s # None /\ (s # None => ~s.confirmed)

\* session_state is read and has_pending_eligible decides between
\* CONFIRM -> ACT and UNDERSTAND -> VERIFY -> GUIDE, which does not use it.
ReadState(t) ==
    /\ pc[t] = "read"
    /\ \E s \in KnownStates :
          LET state == IF s # None THEN s ELSE Rebuilt
          IN  IF Confirming(t) /\ Pending(state)
              THEN Goto(t, "owner") /\ local' = [local EXCEPT ![t] = state]
              ELSE Goto(t, "ride") /\ UNCHANGED local
    /\ UNCHANGED <<message, result, reply, shared>>
-----------------------------------------------------------------------------
(* CONFIRM -> ACT -> EXPLAIN *)

\* The LLM loop passes on the key of the message, the guided flow makes up for
\* a missing one.
EffectiveKey(t) ==
    IF key[t] # None \/ t \in byLLM THEN key[t] ELSE local[t].ride

\* Whatever invoke raises is caught: the guided flow says so, the LLM is told.
ToolRaises(t) ==
    IF t \in byLLM
    THEN Goto(t, "confirmed") /\ UNCHANGED reply
    ELSE SayOnly(t, "failure")

\* Bug of ConfirmOwner: the gate is open.
ConfirmUngated(t) ==
    /\ pc[t] = "owner"
    /\ Goto(t, IF EffectiveKey(t) = None THEN "submit" ELSE "lookup")
    /\ UNCHANGED <<turn, reply, shared>>

\* authorize_ownership of request_refund: the ride is still the active one, and
\* the gate lets a confirming user through ...
ConfirmOwner(t) ==
    /\ pc[t] = "owner"
    /\ Confirming(t)
    /\ Goto(t, IF EffectiveKey(t) = None THEN "submit" ELSE "lookup")
    /\ UNCHANGED <<turn, reply, shared>>

\* ... or not: the ride is not the caller's, or the message confirms nothing.
ConfirmForbidden(t) ==
    /\ pc[t] = "owner"
    /\ ToolRaises(t)
    /\ UNCHANGED <<turn, shared>>

ReplayRefund(t) ==
    /\ pc[t] = "lookup"
    /\ idem[EffectiveKey(t)] # None
    /\ result' = [result EXCEPT ![t] = idem[EffectiveKey(t)]]
    /\ Goto(t, "confirmed")
    /\ UNCHANGED <<message, local, reply, shared>>

\* Bug of MissRefund: an entry that is there does not stop the submission.
MissAlways(t) ==
    /\ pc[t] = "lookup"
    /\ Goto(t, "submit")
    /\ UNCHANGED <<turn, reply, shared>>

MissRefund(t) ==
    /\ pc[t] = "lookup"
    /\ idem[EffectiveKey(t)] = None
    /\ Goto(t, "submit")
    /\ UNCHANGED <<turn, reply, shared>>

\* request_refund at GoRush: it neither looks at earlier requests nor at the
\* payment.
SubmitRefund(t) ==
    /\ pc[t] = "submit"
    /\ submitted' = submitted \cup {<<t, local[t].ride>>}
    /\ Goto(t, IF EffectiveKey(t) = None THEN "confirmed" ELSE "store")
    /\ UNCHANGED <<turn, reply, redis, idem, guided>>

\* Bug of StoreRefund: the key is stored in place of the result.
StoreKey(t) ==
    /\ pc[t] = "store"
    /\ idem' = [idem EXCEPT ![EffectiveKey(t)] = EffectiveKey(t)]
    /\ result' = [result EXCEPT ![t] = local[t].ride]
    /\ Goto(t, "confirmed")
    /\ UNCHANGED <<message, local, reply, redis, submitted, guided>>

StoreRefund(t) ==
    /\ pc[t] = "store"
    /\ idem' = [idem EXCEPT ![EffectiveKey(t)] = local[t].ride]
    /\ result' = [result EXCEPT ![t] = local[t].ride]
    /\ Goto(t, "confirmed")
    /\ UNCHANGED <<message, local, reply, redis, submitted, guided>>

\* Bug of ToolFails: a failed tool is taken for a finished refund.
FailureIgnored(t) ==
    /\ env.faults
    /\ pc[t] \in {"lookup", "submit", "store"}
    /\ Goto(t, "confirmed")
    /\ UNCHANGED <<turn, reply, shared>>

\* Redis or GoRush raises inside invoke.
ToolFails(t) ==
    /\ env.faults
    /\ pc[t] \in {"lookup", "submit", "store"}
    /\ ToolRaises(t)
    /\ UNCHANGED <<turn, shared>>

\* A state is written to Redis; a failure to do so is logged and ignored.
SaveState(s) == redis' = s \/ (env.faults /\ UNCHANGED redis)

SaveConfirmed(t) ==
    /\ pc[t] = "confirmed" /\ t \notin byLLM
    /\ LET state == [local[t] EXCEPT !.confirmed = TRUE]
       IN  SaveState(state) /\ Say(t, "success", state, result[t])
    /\ UNCHANGED <<turn, idem, submitted, guided>>
-----------------------------------------------------------------------------
(* UNDERSTAND -> VERIFY -> GUIDE *)

\* get_active_ride: some ride ...
FindRide(t) ==
    /\ pc[t] = "ride"
    /\ \E r \in Ride : local' = [local EXCEPT ![t] = [ride |-> r, confirmed |-> FALSE]]
    /\ Goto(t, "payment")
    /\ UNCHANGED <<message, result, reply, shared>>

\* ... or none, or the tool fails.
FindNoRide(t) ==
    /\ pc[t] = "ride"
    /\ SayOnly(t, "notice")
    /\ UNCHANGED <<turn, shared>>

\* get_payment_status, of a ride that is still the active one.
CheckPayment(t) ==
    /\ pc[t] = "payment"
    /\ Goto(t, "status") \/ Goto(t, "unpaid")
    /\ UNCHANGED <<turn, reply, shared>>

\* Bug of FindEligible: the refund status is not looked at.
FindPaid(t) ==
    /\ pc[t] = "status"
    /\ guided' = guided \cup {local[t].ride}
    /\ Goto(t, "guide")
    /\ UNCHANGED <<turn, reply, redis, idem, submitted>>

\* get_refund_status, likewise: eligible when no refund was requested and the
\* payment was captured.
FindEligible(t) ==
    /\ pc[t] = "status"
    /\ ~Refunded(local[t].ride)
    /\ guided' = guided \cup {local[t].ride}
    /\ Goto(t, "guide")
    /\ UNCHANGED <<turn, reply, redis, idem, submitted>>

FindIneligible(t) ==
    /\ pc[t] = "unpaid" \/ (pc[t] = "status" /\ Refunded(local[t].ride))
    /\ SayOnly(t, "notice")
    /\ UNCHANGED <<turn, shared>>

\* A status tool fails; if its ride left the caller meanwhile, see RollBack.
VerifyFails(t) ==
    /\ env.faults
    /\ pc[t] \in {"payment", "status", "unpaid"}
    /\ SayOnly(t, "notice")
    /\ UNCHANGED <<turn, shared>>

\* The guide state goes to Redis now, its message is committed with the turn.
SaveGuide(t) ==
    /\ pc[t] = "guide"
    /\ SaveState(local[t])
    /\ Say(t, "guide", local[t], None)
    /\ UNCHANGED <<turn, idem, submitted, guided>>
-----------------------------------------------------------------------------
Commit(t) ==
    /\ pc[t] = "persist"
    /\ EndTurn(t)
    /\ UNCHANGED <<reply, shared>>

\* The transaction is rolled back: ForbiddenError of a status tool leaves the
\* turn, or the process dies, the client goes away or the commit fails.
RollBack(t) ==
    /\ \/ pc[t] \in {"payment", "status", "unpaid"}
       \/ env.faults /\ t \in ActiveTurns
    /\ EndTurn(t)
    /\ reply' = [reply EXCEPT ![t] = None]
    /\ UNCHANGED shared

StateExpires ==
    /\ env.expiry
    /\ redis # None
    /\ redis' = None
    /\ UNCHANGED <<pc, turn, reply, idem, submitted, guided>>

Confirm(t) ==
    \/ ConfirmOwner(t) \/ ConfirmForbidden(t) \/ ReplayRefund(t) \/ MissRefund(t)
    \/ SubmitRefund(t) \/ StoreRefund(t) \/ ToolFails(t) \/ SaveConfirmed(t)

Verify(t) ==
    \/ FindRide(t) \/ FindNoRide(t) \/ CheckPayment(t) \/ FindEligible(t)
    \/ FindIneligible(t) \/ VerifyFails(t) \/ SaveGuide(t)

Next ==
    \/ \E t \in Turn : \/ Start(t) \/ EnterRefundFlow(t) \/ ChooseRefund(t) \/ AnswerByLLM(t)
                       \/ ReadState(t) \/ Confirm(t) \/ Verify(t) \/ Commit(t) \/ RollBack(t)
    \/ StateExpires

Spec == Init /\ [][Next]_vars
-----------------------------------------------------------------------------
\* What each store holds, and what a turn remembers of it.
TypeOK ==
    /\ pc \in [Turn -> Locations]
    /\ text \in [Turn -> TextKind \cup {None}]
    /\ key \in [Turn -> ClientKey \cup {None}]
    /\ local \in [Turn -> SessionState \cup {None}] /\ result \in [Turn -> Ride \cup {None}]
    /\ reply \in [Turn -> Message \cup {None}]
    /\ redis \in SessionState \cup {None}
    /\ idem \in [Keys -> Ride \cup {None}]
    /\ env \in Settings /\ byLLM \subseteq Turn
    /\ submitted \subseteq Turn \X Ride
    /\ guided \subseteq Ride
    /\ settled \in [Turn -> SUBSET Keys]

\* A refund request answers a confirming message, also the LLM's.  One of the
\* flow was brought up by an earlier turn besides: either VERIFY found that very
\* ride eligible, or a committed LLM reply was about refunds and the ride is the
\* default one.
SubmissionsWerePrompted ==
    /\ \A t \in ActiveTurns, r \in Ride : <<t, r>> \in submitted => Confirming(t)
    /\ \A t \in Turn \ byLLM, r \in Ride :
          <<t, r>> \in submitted =>
              \/ r \in guided
              \/ r = DefaultRide /\ \E u \in Stored : reply[u].kind = "policy"

\* What the user is told and what Redis remembers about a finished refund is
\* real: the refund it reports was requested, it is the refund of the ride the
\* user was asked about unless clients send keys of their own, which may bring
\* back an older answer, and no failed, lost or overlapping turn leaves a
\* confirmation behind without a request.
SuccessIsReal ==
    /\ \A t \in Stored :
          reply[t].kind = "success" =>
              /\ Refunded(reply[t].result)
              /\ reply[t].result # reply[t].state.ride => env.keys # {}
    /\ redis # None => (redis.confirmed => submitted # {})

\* A refund that was answered under a key, the default key of its ride or the
\* client's own, stays the only one under that key: no turn that starts
\* afterwards submits again under it, the LLM's included, however turns overlap,
\* fail, lose their session state or bring back an unconfirmed one.
AnsweredKeyHolds ==
    \A t \in Turn : pc[t] = "store" => EffectiveKey(t) \notin settled[t]

\* Turns do not overlap, nothing fails or expires and only the guided flow
\* submits.
Undisturbed == env.active = 1 /\ ~env.faults /\ ~env.expiry /\ ~env.llm

\* Test 10 of tests/unit/test_refund_flow.py ("Subsequent confirmation on
\* already-confirmed refund does not re-submit refund"; header: "idempotency
\* prevents duplicate refund"): a ride is refunded once, as long as turns do not
\* overlap, nothing fails or expires and only the guided flow submits.
RefundedOnce == Undisturbed =>
    \A t, u \in Turn, r \in Ride :
        (<<t, r>> \in submitted /\ <<u, r>> \in submitted) => t = u

\* The flow as app/ai/orchestrator/orchestrator.py:208 states it, UNDERSTAND
\* -> VERIFY -> GUIDE -> CONFIRM -> ACT: only a ride that was verified is
\* submitted.
ActAfterVerify == \A t \in Turn, r \in Ride : <<t, r>> \in submitted => r \in guided
=============================================================================
