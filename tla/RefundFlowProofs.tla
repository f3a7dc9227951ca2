-------------------------- MODULE RefundFlowProofs ---------------------------
(***************************************************************************)
(* RefundFlow for any number of turns, rides and keys and in any setting.  *)
(***************************************************************************)
EXTENDS RefundFlow, FiniteSetTheorems, WellFoundedInduction, TLAPS

USE RefundAssumption

\* What a turn does.
TurnNext(t) ==
    \/ Start(t) \/ EnterRefundFlow(t) \/ ChooseRefund(t) \/ AnswerByLLM(t)
    \/ ReadState(t) \/ Confirm(t) \/ Verify(t) \/ Commit(t) \/ RollBack(t)

Submitting == {"owner", "lookup", "submit", "store", "confirmed"}
Verifying == {"payment", "status", "unpaid", "guide"}

\* What its place in the code says of a turn's own variables.
PlaceAt(t) ==
    /\ pc[t] \in Submitting \cup Verifying => local[t] \in SessionState
    /\ pc[t] \in {"lookup", "store"} => EffectiveKey(t) # None
    /\ pc[t] \in {"lookup", "submit"} => Confirming(t)
    /\ pc[t] \in Verifying => ~local[t].confirmed
    /\ t \in byLLM => pc[t] \in Submitting \cup {"persist", "done"}
    /\ key[t] \in env.keys \cup {None}

PlaceInv == \A t \in Turn : PlaceAt(t)

\* The circumstances are of the kinds that are declared.
LEMMA SettingType ==
  ASSUME TypeOK
  PROVE  env.texts \subseteq TextKind /\ env.keys \subseteq ClientKey /\ env.llm \in BOOLEAN
BY DEF TypeOK, Setting

\* What a turn that holds a session state submits with.
LEMMA KeyType ==
  ASSUME TypeOK, NEW t \in Turn, local[t] \in SessionState
  PROVE  EffectiveKey(t) \in Keys \cup {None} /\ local[t].ride \in Ride /\ local[t].confirmed \in BOOLEAN
BY DEF TypeOK, EffectiveKey, Keys, SessionState

\* Of a nonempty set of turns there is a newest.
LEMMA NewestExists ==
  ASSUME NEW S, S \subseteq Turn, S # {}
  PROVE  \E t \in S : Newest(S) = {t}
<1> DEFINE T == {MaxTurns - t : t \in S}
<1>1. T \subseteq Nat /\ T # {}
  <2>1. \A t \in S : MaxTurns - t \in Nat
    BY DEF Turn
  <2>2. QED
    BY <2>1
<1>2. PICK n \in T : \A m \in T : ~(<<m, n>> \in OpToRel(<, Nat))
  BY <1>1, WFMin, NatLessThanWellFounded
<1>3. \A m \in T : ~(m < n)
  BY <1>1, <1>2 DEF OpToRel
<1>4. PICK t \in S : n = MaxTurns - t
  OBVIOUS
<1>5. \A u \in S : u <= t
  <2> TAKE u \in S
  <2>1. ~(MaxTurns - u < MaxTurns - t)
    BY <1>3, <1>4
  <2>2. QED
    BY <2>1 DEF Turn
<1>6. \A u \in S : (\A v \in S : v <= u) => u = t
  BY <1>5 DEF Turn
<1>7. Newest(S) = {t}
  BY <1>5, <1>6 DEF Newest
<1>8. QED
  BY <1>7

\* A turn submits when it is at it, and only for a confirming message.
SubmitAt(t) ==
    /\ pc[t] = "idle" => \A r \in Ride : <<t, r>> \notin submitted
    /\ pc[t] = "store" => <<t, local[t].ride>> \in submitted
    /\ pc[t] \notin {"idle", "done"} => \A r \in Ride : <<t, r>> \in submitted => Confirming(t)

SubmitInv == \A t \in Turn : SubmitAt(t)

\* Entries stay, and a turn gets to submitting only without one.
KeyAt(t) ==
    /\ \A k \in settled[t] : idem[k] # None
    /\ pc[t] \in {"submit", "store"} => EffectiveKey(t) \notin settled[t]

KeyInv == \A t \in Turn : KeyAt(t)

\* Whatever is remembered of a refund was requested, and a ride's own key is only
\* used for that ride.
EntryInv ==
    \A k \in Keys : idem[k] # None => Refunded(idem[k]) /\ (k \in Ride => idem[k] = k)

ReportAt(t) ==
    /\ (pc[t] = "confirmed" /\ t \notin byLLM) =>
          Refunded(result[t]) /\ (result[t] # local[t].ride => env.keys # {})
    /\ (reply[t] # None /\ reply[t].kind = "success") =>
          Refunded(reply[t].result) /\ (reply[t].result # reply[t].state.ride => env.keys # {})

RefundInv ==
    /\ EntryInv
    /\ \A t \in Turn : ReportAt(t)
    /\ redis # None => (redis.confirmed => submitted # {})

\* The ride was brought up: VERIFY found it eligible, or it is the default one
\* and the LLM has written about refunds.
Backed(r) ==
    \/ r \in guided
    \/ r = DefaultRide /\ \E u \in Stored : reply[u].kind = "policy"

\* Wherever a session state is kept, its ride was brought up.
BackAt(t) ==
    /\ (t \notin byLLM /\ pc[t] \in Submitting) => Backed(local[t].ride)
    /\ pc[t] = "guide" => local[t].ride \in guided
    /\ t \notin byLLM => \A r \in Ride : <<t, r>> \in submitted => Backed(r)
    /\ reply[t] # None =>
          /\ reply[t].state # None => Backed(reply[t].state.ride)
          /\ reply[t].kind = "guide" => reply[t].state # None

BackInv ==
    /\ \A t \in Turn : BackAt(t)
    /\ redis # None => Backed(redis.ride)

IInv == TypeOK /\ PlaceInv /\ SubmitInv /\ KeyInv /\ RefundInv /\ BackInv

\* The messages of finished turns are messages.
LEMMA StateTypes ==
  ASSUME TypeOK, NEW s \in KnownStates
  PROVE  /\ s \in SessionState \cup {None}
         /\ s = FromMessages \/ (s = redis /\ redis # None)
         /\ FromMessages # None => \E u \in Stored : FromMessages = reply[u].state
         /\ FromMessages = None => \A u \in Recent : reply[u].state = None
<1> DEFINE with == {u \in Recent : reply[u].state # None}
<1>1. Recent \subseteq Stored /\ Stored \subseteq Turn
  BY DEF Recent, Newest, Stored
<1>2. \A u \in Stored : reply[u] \in Message /\ reply[u].state \in SessionState \cup {None}
  BY DEF TypeOK, Stored, Message
<1>3. s = FromMessages \/ (s = redis /\ redis # None)
  BY DEF KnownStates
<1>4. CASE with = {}
  <2>1. FromMessages = None /\ \A u \in Recent : reply[u].state = None
    BY <1>4 DEF FromMessages
  <2>2. QED
    BY <1>3, <2>1 DEF TypeOK
<1>5. CASE with # {}
  <2>1. PICK t \in with : Newest(with) = {t}
    BY <1>1, <1>5, NewestExists
  <2>2. (CHOOSE u \in Newest(with) : TRUE) = t
    BY <2>1
  <2>3. FromMessages = reply[t].state
    BY <1>5, <2>2 DEF FromMessages
  <2>4. t \in Stored /\ reply[t].state # None /\ reply[t].state \in SessionState \cup {None}
    BY <1>1, <1>2
  <2>5. QED
    BY <1>3, <2>3, <2>4 DEF TypeOK
<1>6. QED
  BY <1>4, <1>5

\* What Say puts together is a message.
LEMMA SayType ==
  ASSUME TypeOK, NEW t \in Turn, NEW k \in ReplyKind, NEW s \in SessionState \cup {None},
         NEW r \in Ride \cup {None}, Say(t, k, s, r)
  PROVE  /\ reply' \in [Turn -> Message \cup {None}] /\ pc' = [pc EXCEPT ![t] = "persist"]
         /\ pc' \in [Turn -> Locations]
<1>1. [kind |-> k, state |-> s, result |-> r] \in Message
  BY DEF Message
<1>2. QED
  BY <1>1 DEF Say, Goto, TypeOK, Locations

\* Likewise for what SayOnly puts together.
LEMMA SayOnlyType ==
  ASSUME TypeOK, NEW t \in Turn, NEW k \in ReplyKind, SayOnly(t, k)
  PROVE  /\ reply' \in [Turn -> Message \cup {None}] /\ pc' = [pc EXCEPT ![t] = "persist"]
         /\ pc' \in [Turn -> Locations]
BY SayType DEF SayOnly

\* What a turn comes to hold, its own variables and the stores, is well formed.
LEMMA TypeStep == IInv /\ [Next]_vars => TypeOK'
<1> SUFFICES ASSUME IInv, [Next]_vars PROVE TypeOK'
  OBVIOUS
<1>0. TypeOK /\ PlaceInv
  BY DEF IInv
<1> USE DEF Goto
<1>1. ASSUME NEW t \in Turn, Start(t) PROVE TypeOK'
  <2>1. text' \in [Turn -> TextKind \cup {None}] /\ key' \in [Turn -> ClientKey \cup {None}]
    BY <1>0, <1>1, SettingType DEF Start, TypeOK
  <2>2. settled' \in [Turn -> SUBSET Keys]
    BY <1>0, <1>1 DEF Start, TypeOK
  <2>3. QED
    BY <1>0, <1>1, <2>1, <2>2 DEF Start, shared, TypeOK, Locations
<1>2. ASSUME NEW t \in Turn, EnterRefundFlow(t) PROVE TypeOK'
  BY <1>0, <1>2 DEF EnterRefundFlow, shared, turn, message, TypeOK, Locations
<1>3. ASSUME NEW t \in Turn, ChooseRefund(t) PROVE TypeOK'
  <2>1. local' \in [Turn -> SessionState \cup {None}]
    BY <1>0, <1>3 DEF ChooseRefund, TypeOK, SessionState
  <2>2. QED
    BY <1>0, <1>3, <2>1 DEF ChooseRefund, shared, TypeOK, Locations
<1>4. ASSUME NEW t \in Turn, AnswerByLLM(t) PROVE TypeOK'
  <2>1. PICK k \in ReplyKind : SayOnly(t, k)
    BY <1>4 DEF AnswerByLLM, ReplyKind
  <2>2. QED
    BY <1>0, <1>4, <2>1, SayOnlyType DEF AnswerByLLM, shared, turn, message, TypeOK
<1>5. ASSUME NEW t \in Turn, ReadState(t) PROVE TypeOK'
  <2>1. PICK s \in KnownStates :
           LET state == IF s # None THEN s ELSE Rebuilt
           IN  IF Confirming(t) /\ Pending(state)
               THEN Goto(t, "owner") /\ local' = [local EXCEPT ![t] = state]
               ELSE Goto(t, "ride") /\ UNCHANGED local
    BY <1>5 DEF ReadState
  <2>2. Rebuilt \in SessionState \cup {None}
    BY DEF Rebuilt, SessionState
  <2>3. s \in SessionState \cup {None}
    BY <1>0, StateTypes
  <2>4. local' \in [Turn -> SessionState \cup {None}] /\ pc' \in [Turn -> Locations]
    BY <1>0, <2>1, <2>2, <2>3 DEF TypeOK, Locations
  <2>5. QED
    BY <1>0, <1>5, <2>4 DEF ReadState, shared, message, TypeOK
<1>6. ASSUME NEW t \in Turn, ConfirmOwner(t) \/ MissRefund(t) \/ CheckPayment(t) PROVE TypeOK'
  BY <1>0, <1>6 DEF ConfirmOwner, MissRefund, CheckPayment, shared, turn, message, TypeOK, Locations
<1>7. ASSUME NEW t \in Turn, ConfirmForbidden(t) \/ ToolFails(t) PROVE TypeOK'
  <2>1. reply' \in [Turn -> Message \cup {None}] /\ pc' \in [Turn -> Locations]
    BY <1>0, <1>7, SayOnlyType DEF ConfirmForbidden, ToolFails, ToolRaises, ReplyKind, TypeOK, Locations
  <2>2. QED
    BY <1>0, <1>7, <2>1 DEF ConfirmForbidden, ToolFails, shared, turn, message, TypeOK
<1>8. ASSUME NEW t \in Turn, ReplayRefund(t) PROVE TypeOK'
  <2>1. local[t] \in SessionState /\ EffectiveKey(t) # None
    BY <1>0, <1>8 DEF ReplayRefund, PlaceInv, PlaceAt, Submitting
  <2>2. idem[EffectiveKey(t)] \in Ride \cup {None}
    BY <1>0, <2>1, KeyType DEF TypeOK
  <2>3. result' \in [Turn -> Ride \cup {None}] /\ pc' \in [Turn -> Locations]
    BY <1>0, <1>8, <2>2 DEF ReplayRefund, TypeOK, Locations
  <2>4. QED
    BY <1>0, <1>8, <2>3 DEF ReplayRefund, shared, message, TypeOK
<1>9. ASSUME NEW t \in Turn, SubmitRefund(t) PROVE TypeOK'
  <2>1. local[t].ride \in Ride
    BY <1>0, <1>9, KeyType DEF SubmitRefund, PlaceInv, PlaceAt, Submitting
  <2>2. submitted' \subseteq Turn \X Ride
    BY <1>0, <1>9, <2>1 DEF SubmitRefund, TypeOK
  <2>3. QED
    BY <1>0, <1>9, <2>2 DEF SubmitRefund, turn, message, TypeOK, Locations
<1>10. ASSUME NEW t \in Turn, StoreRefund(t) PROVE TypeOK'
  <2>1. local[t].ride \in Ride
    BY <1>0, <1>10, KeyType DEF StoreRefund, PlaceInv, PlaceAt, Submitting
  <2>2. idem' \in [Keys -> Ride \cup {None}] /\ result' \in [Turn -> Ride \cup {None}]
    BY <1>0, <1>10, <2>1 DEF StoreRefund, TypeOK
  <2>3. QED
    BY <1>0, <1>10, <2>2 DEF StoreRefund, message, TypeOK, Locations
<1>11. ASSUME NEW t \in Turn, SaveConfirmed(t) PROVE TypeOK'
  <2> DEFINE state == [local[t] EXCEPT !.confirmed = TRUE]
  <2>1. local[t] \in SessionState
    BY <1>0, <1>11 DEF SaveConfirmed, PlaceInv, PlaceAt, Submitting
  <2>2. state \in SessionState
    BY <2>1 DEF SessionState
  <2>3. Say(t, "success", state, result[t]) /\ (redis' = state \/ redis' = redis)
    BY <1>11 DEF SaveConfirmed, SaveState
  <2>4. reply' \in [Turn -> Message \cup {None}] /\ pc' \in [Turn -> Locations]
    BY <1>0, <2>2, <2>3, SayType DEF TypeOK, ReplyKind
  <2>5. QED
    BY <1>0, <1>11, <2>2, <2>3, <2>4 DEF SaveConfirmed, turn, message, TypeOK
<1>12. ASSUME NEW t \in Turn, FindRide(t) PROVE TypeOK'
  <2>1. local' \in [Turn -> SessionState \cup {None}]
    BY <1>0, <1>12 DEF FindRide, TypeOK, SessionState
  <2>2. QED
    BY <1>0, <1>12, <2>1 DEF FindRide, shared, message, TypeOK, Locations
<1>13. ASSUME NEW t \in Turn, FindNoRide(t) \/ FindIneligible(t) \/ VerifyFails(t) PROVE TypeOK'
  <2>1. SayOnly(t, "notice")
    BY <1>13 DEF FindNoRide, FindIneligible, VerifyFails
  <2>2. QED
    BY <1>0, <1>13, <2>1, SayOnlyType
    DEF FindNoRide, FindIneligible, VerifyFails, ReplyKind, shared, turn, message, TypeOK
<1>14. ASSUME NEW t \in Turn, FindEligible(t) PROVE TypeOK'
  <2>1. local[t].ride \in Ride
    BY <1>0, <1>14, KeyType DEF FindEligible, PlaceInv, PlaceAt, Verifying
  <2>2. QED
    BY <1>0, <1>14, <2>1 DEF FindEligible, turn, message, TypeOK, Locations
<1>15. ASSUME NEW t \in Turn, SaveGuide(t) PROVE TypeOK'
  <2>1. local[t] \in SessionState
    BY <1>0, <1>15 DEF SaveGuide, PlaceInv, PlaceAt, Verifying
  <2>2. Say(t, "guide", local[t], None) /\ (redis' = local[t] \/ redis' = redis)
    BY <1>15 DEF SaveGuide, SaveState
  <2>3. reply' \in [Turn -> Message \cup {None}] /\ pc' \in [Turn -> Locations]
    BY <1>0, <2>1, <2>2, SayType DEF ReplyKind
  <2>4. QED
    BY <1>0, <1>15, <2>1, <2>2, <2>3 DEF SaveGuide, turn, message, TypeOK
<1>16. ASSUME NEW t \in Turn, Commit(t) \/ RollBack(t) PROVE TypeOK'
  <2>1. EndTurn(t) /\ UNCHANGED shared /\ reply' \in [Turn -> Message \cup {None}]
    BY <1>0, <1>16 DEF Commit, RollBack, TypeOK
  <2>2. QED
    BY <1>0, <2>1 DEF EndTurn, shared, TypeOK, Locations
<1>17. ASSUME StateExpires PROVE TypeOK'
  BY <1>0, <1>17 DEF StateExpires, turn, message, TypeOK
<1>18. CASE UNCHANGED vars
  BY <1>0, <1>18 DEF vars, TypeOK
<1>19. QED
  BY <1>1, <1>2, <1>3, <1>4, <1>5, <1>6, <1>7, <1>8, <1>9, <1>10, <1>11, <1>12, <1>13, <1>14,
     <1>15, <1>16, <1>17, <1>18 DEF Next, Confirm, Verify

\* A turn leaves the other turns alone.
LEMMA Frame ==
  ASSUME TypeOK, NEW t \in Turn, TurnNext(t), NEW u \in Turn \ {t}
  PROVE  /\ pc'[u] = pc[u] /\ text'[u] = text[u] /\ key'[u] = key[u] /\ local'[u] = local[u]
         /\ result'[u] = result[u] /\ reply'[u] = reply[u] /\ settled'[u] = settled[u]
         /\ (u \in byLLM') = (u \in byLLM)
         /\ \A r \in Ride : (<<u, r>> \in submitted') = (<<u, r>> \in submitted)
<1> USE DEF Goto, message, turn, shared, TypeOK
<1>1. CASE Start(t) \/ EnterRefundFlow(t) \/ ChooseRefund(t)
  BY <1>1 DEF Start, EnterRefundFlow, ChooseRefund
<1>2. CASE AnswerByLLM(t)
  BY <1>2 DEF AnswerByLLM, SayOnly, Say
<1>3. CASE ReadState(t)
  BY <1>3 DEF ReadState
<1>4. CASE ConfirmOwner(t) \/ ReplayRefund(t) \/ MissRefund(t) \/ SubmitRefund(t) \/ StoreRefund(t)
  BY <1>4 DEF ConfirmOwner, ReplayRefund, MissRefund, SubmitRefund, StoreRefund
<1>5. CASE ConfirmForbidden(t) \/ ToolFails(t)
  BY <1>5 DEF ConfirmForbidden, ToolFails, ToolRaises, SayOnly, Say
<1>6. CASE SaveConfirmed(t) \/ SaveGuide(t)
  BY <1>6 DEF SaveConfirmed, SaveGuide, Say
<1>7. CASE FindRide(t) \/ CheckPayment(t) \/ FindEligible(t)
  BY <1>7 DEF FindRide, CheckPayment, FindEligible
<1>8. CASE FindNoRide(t) \/ FindIneligible(t) \/ VerifyFails(t)
  BY <1>8 DEF FindNoRide, FindIneligible, VerifyFails, SayOnly, Say
<1>9. CASE Commit(t) \/ RollBack(t)
  BY <1>9 DEF Commit, RollBack, EndTurn
<1>10. QED
  BY <1>1, <1>2, <1>3, <1>4, <1>5, <1>6, <1>7, <1>8, <1>9 DEF TurnNext, Confirm, Verify

\* What a turn adds to the stores stays there, and it is in progress.
LEMMA Grows ==
  ASSUME TypeOK, PlaceInv, NEW t \in Turn, TurnNext(t)
  PROVE  /\ pc[t] # "done" /\ env' = env
         /\ submitted \subseteq submitted' /\ guided \subseteq guided' /\ byLLM \subseteq byLLM'
         /\ \A k \in Keys : idem[k] # None => idem'[k] # None
<1> USE DEF Goto, message, turn, shared, TypeOK
<1>1. CASE Start(t) \/ EnterRefundFlow(t) \/ ChooseRefund(t)
  BY <1>1 DEF Start, EnterRefundFlow, ChooseRefund
<1>2. CASE AnswerByLLM(t)
  BY <1>2 DEF AnswerByLLM, SayOnly, Say
<1>3. CASE ReadState(t)
  BY <1>3 DEF ReadState
<1>4. CASE ConfirmOwner(t) \/ ReplayRefund(t) \/ MissRefund(t) \/ SubmitRefund(t)
  BY <1>4 DEF ConfirmOwner, ReplayRefund, MissRefund, SubmitRefund
<1>5. CASE ConfirmForbidden(t) \/ ToolFails(t)
  BY <1>5 DEF ConfirmForbidden, ToolFails, ToolRaises, SayOnly, Say
<1>6. CASE SaveConfirmed(t) \/ SaveGuide(t)
  BY <1>6 DEF SaveConfirmed, SaveGuide, Say
<1>7. CASE FindRide(t) \/ CheckPayment(t) \/ FindEligible(t)
  BY <1>7 DEF FindRide, CheckPayment, FindEligible
<1>8. CASE FindNoRide(t) \/ FindIneligible(t) \/ VerifyFails(t)
  BY <1>8 DEF FindNoRide, FindIneligible, VerifyFails, SayOnly, Say
<1>9. CASE Commit(t) \/ RollBack(t)
  BY <1>9 DEF Commit, RollBack, EndTurn, ActiveTurns
<1>10. CASE StoreRefund(t)
  <2>1. local[t].ride \in Ride
    BY <1>10, KeyType DEF StoreRefund, PlaceInv, PlaceAt, Submitting
  <2>2. QED
    BY <1>10, <2>1 DEF StoreRefund
<1>11. QED
  BY <1>1, <1>2, <1>3, <1>4, <1>5, <1>6, <1>7, <1>8, <1>9, <1>10 DEF TurnNext, Confirm, Verify

\* What follows from a turn's own variables stays with them.
LEMMA FrameOf ==
  ASSUME TypeOK, NEW t \in Turn, TurnNext(t), NEW u \in Turn \ {t}
  PROVE  EffectiveKey(u)' = EffectiveKey(u) /\ Confirming(u)' = Confirming(u)
BY Frame DEF EffectiveKey, Confirming

\* Every step leaves a turn where its variables fit.
LEMMA PlaceStep == IInv /\ [Next]_vars => PlaceInv'
<1> SUFFICES ASSUME IInv, [Next]_vars PROVE PlaceInv'
  OBVIOUS
<1>0. TypeOK /\ PlaceInv
  BY DEF IInv
<1>1. ASSUME NEW t \in Turn, TurnNext(t) PROVE PlaceInv'
  <2>0. PlaceAt(t) /\ env' = env
    BY <1>0, <1>1, Grows DEF PlaceInv
  <2> USE DEF Goto, message, turn, shared, TypeOK, PlaceAt, Submitting, Verifying
  <2>1. ASSUME NEW u \in Turn \ {t} PROVE PlaceAt(u)'
    BY <1>0, <1>1, <2>0, <2>1, Frame, FrameOf DEF PlaceInv
  <2>2. CASE Start(t)
    <3>1. PlaceAt(t)'
      BY <1>0, <2>0, <2>2 DEF Start
    <3>2. QED
      BY <2>1, <3>1 DEF PlaceInv
  <2>3. CASE EnterRefundFlow(t)
    <3>1. PlaceAt(t)'
      BY <1>0, <2>0, <2>3 DEF EnterRefundFlow
    <3>2. QED
      BY <2>1, <3>1 DEF PlaceInv
  <2>4. CASE ChooseRefund(t)
    <3>1. local'[t] \in SessionState /\ pc'[t] = "owner"
      BY <1>0, <2>4 DEF ChooseRefund, SessionState
    <3>2. PlaceAt(t)'
      BY <1>0, <2>0, <2>4, <3>1 DEF ChooseRefund
    <3>3. QED
      BY <2>1, <3>2 DEF PlaceInv
  <2>5. CASE AnswerByLLM(t)
    <3>1. pc'[t] = "persist" /\ UNCHANGED <<key, env>>
      BY <1>0, <2>5 DEF AnswerByLLM, SayOnly, Say
    <3>2. PlaceAt(t)'
      BY <2>0, <3>1
    <3>3. QED
      BY <2>1, <3>2 DEF PlaceInv
  <2>6. CASE ReadState(t)
    <3>1. PICK s \in KnownStates :
             LET state == IF s # None THEN s ELSE Rebuilt
             IN  IF Confirming(t) /\ Pending(state)
                 THEN Goto(t, "owner") /\ local' = [local EXCEPT ![t] = state]
                 ELSE Goto(t, "ride") /\ UNCHANGED local
      BY <2>6 DEF ReadState
    <3>2. Rebuilt \in SessionState \cup {None} /\ s \in SessionState \cup {None}
      BY <1>0, StateTypes DEF Rebuilt, SessionState
    <3>3. pc'[t] = "ride" \/ (pc'[t] = "owner" /\ local'[t] \in SessionState)
      BY <1>0, <3>1, <3>2 DEF Pending
    <3>4. UNCHANGED <<key, env, byLLM>> /\ pc[t] = "read"
      BY <2>6 DEF ReadState
    <3>5. PlaceAt(t)'
      BY <2>0, <3>3, <3>4
    <3>6. QED
      BY <2>1, <3>5 DEF PlaceInv
  <2>7. CASE ConfirmOwner(t)
    <3>1. UNCHANGED <<key, text, local, byLLM>>
      BY <2>7 DEF ConfirmOwner
    <3>2. EffectiveKey(t)' = EffectiveKey(t) /\ Confirming(t)' = Confirming(t)
      BY <3>1 DEF EffectiveKey, Confirming
    <3>3. PlaceAt(t)'
      BY <1>0, <2>0, <2>7, <3>1, <3>2 DEF ConfirmOwner
    <3>4. QED
      BY <2>1, <3>3 DEF PlaceInv
  <2>8. CASE ConfirmForbidden(t) \/ ToolFails(t)
    <3>1. UNCHANGED <<key, local, byLLM>> /\ pc[t] \in Submitting
      BY <2>8 DEF ConfirmForbidden, ToolFails
    <3>2. pc'[t] \in {"confirmed", "persist"}
      BY <1>0, <2>8 DEF ConfirmForbidden, ToolFails, ToolRaises, SayOnly, Say
    <3>3. PlaceAt(t)'
      BY <2>0, <3>1, <3>2
    <3>4. QED
      BY <2>1, <3>3 DEF PlaceInv
  <2>9. CASE ReplayRefund(t) \/ MissRefund(t) \/ SubmitRefund(t) \/ StoreRefund(t)
    <3>1. UNCHANGED <<key, text, local, byLLM>> /\ pc[t] \in Submitting
      BY <2>9 DEF ReplayRefund, MissRefund, SubmitRefund, StoreRefund
    <3>2. EffectiveKey(t)' = EffectiveKey(t) /\ Confirming(t)' = Confirming(t)
      BY <3>1 DEF EffectiveKey, Confirming
    <3>3. \/ pc'[t] = "confirmed"
          \/ pc[t] = "lookup" /\ pc'[t] = "submit"
          \/ pc[t] = "submit" /\ pc'[t] = "store" /\ EffectiveKey(t) # None
      BY <1>0, <2>9 DEF ReplayRefund, MissRefund, SubmitRefund, StoreRefund
    <3>4. PlaceAt(t)'
      BY <2>0, <3>1, <3>2, <3>3
    <3>5. QED
      BY <2>1, <3>4 DEF PlaceInv
  <2>10. CASE FindRide(t)
    <3>1. local'[t] \in SessionState /\ ~local'[t].confirmed /\ pc'[t] = "payment"
      BY <1>0, <2>10 DEF FindRide, SessionState
    <3>2. PlaceAt(t)'
      BY <2>0, <2>10, <3>1 DEF FindRide
    <3>3. QED
      BY <2>1, <3>2 DEF PlaceInv
  <2>11. CASE CheckPayment(t) \/ FindEligible(t)
    <3>1. PlaceAt(t)'
      BY <1>0, <2>0, <2>11 DEF CheckPayment, FindEligible
    <3>2. QED
      BY <2>1, <3>1 DEF PlaceInv
  <2>12. CASE SaveConfirmed(t) \/ SaveGuide(t) \/ FindNoRide(t) \/ FindIneligible(t) \/ VerifyFails(t)
    <3>1. pc'[t] = "persist" /\ UNCHANGED key
      BY <1>0, <2>12 DEF SaveConfirmed, SaveGuide, FindNoRide, FindIneligible, VerifyFails, SayOnly, Say
    <3>2. PlaceAt(t)'
      BY <2>0, <3>1
    <3>3. QED
      BY <2>1, <3>2 DEF PlaceInv
  <2>13. CASE Commit(t) \/ RollBack(t)
    <3>1. pc'[t] = "done" /\ key'[t] = None
      BY <1>0, <2>13 DEF Commit, RollBack, EndTurn
    <3>2. PlaceAt(t)'
      BY <2>0, <3>1
    <3>3. QED
      BY <2>1, <3>2 DEF PlaceInv
  <2>14. QED
    BY <1>1, <2>2, <2>3, <2>4, <2>5, <2>6, <2>7, <2>8, <2>9, <2>10, <2>11, <2>12, <2>13
    DEF TurnNext, Confirm, Verify
<1>2. CASE StateExpires \/ UNCHANGED vars
  BY <1>0, <1>2 DEF StateExpires, vars, turn, message, PlaceInv, PlaceAt, EffectiveKey, Confirming
<1>3. QED
  BY <1>1, <1>2 DEF Next, TurnNext

\* The steps that neither begin nor end a turn nor go on towards a submission.
Other(t) ==
    \/ EnterRefundFlow(t) \/ ChooseRefund(t) \/ AnswerByLLM(t) \/ ReadState(t)
    \/ ConfirmForbidden(t) \/ ReplayRefund(t) \/ ToolFails(t) \/ SaveConfirmed(t) \/ Verify(t)

\* They touch neither the message, nor GoRush, nor the entries.
LEMMA OtherSteps ==
  ASSUME TypeOK, NEW t \in Turn, Other(t)
  PROVE  /\ UNCHANGED <<text, key, settled, submitted, idem>>
         /\ pc[t] \notin {"idle", "done"} /\ pc'[t] \notin {"idle", "submit", "store", "done"}
<1> USE DEF Goto, message, turn, shared, TypeOK
<1>1. CASE EnterRefundFlow(t) \/ ChooseRefund(t) \/ ReadState(t) \/ ReplayRefund(t)
  BY <1>1 DEF EnterRefundFlow, ChooseRefund, ReadState, ReplayRefund
<1>2. CASE AnswerByLLM(t) \/ SaveConfirmed(t)
  BY <1>2 DEF AnswerByLLM, SaveConfirmed, SayOnly, Say
<1>3. CASE ConfirmForbidden(t) \/ ToolFails(t)
  BY <1>3 DEF ConfirmForbidden, ToolFails, ToolRaises, SayOnly, Say
<1>4. CASE FindRide(t) \/ CheckPayment(t) \/ FindEligible(t)
  BY <1>4 DEF FindRide, CheckPayment, FindEligible
<1>5. CASE FindNoRide(t) \/ FindIneligible(t) \/ VerifyFails(t) \/ SaveGuide(t)
  BY <1>5 DEF FindNoRide, FindIneligible, VerifyFails, SaveGuide, SayOnly, Say
<1>6. QED
  BY <1>1, <1>2, <1>3, <1>4, <1>5 DEF Other, Verify

\* Submissions and keys stay as SubmitInv and KeyInv say.
LEMMA SubmitStep == IInv /\ [Next]_vars => SubmitInv' /\ KeyInv'
<1> SUFFICES ASSUME IInv, [Next]_vars PROVE SubmitInv' /\ KeyInv'
  OBVIOUS
<1>0. TypeOK /\ PlaceInv /\ SubmitInv /\ KeyInv
  BY DEF IInv
<1>1. ASSUME NEW t \in Turn, TurnNext(t) PROVE SubmitInv' /\ KeyInv'
  <2>0. PlaceAt(t) /\ SubmitAt(t) /\ KeyAt(t)
    BY <1>0 DEF PlaceInv, SubmitInv, KeyInv
  <2>1. ASSUME NEW u \in Turn \ {t} PROVE SubmitAt(u)' /\ KeyAt(u)'
    <3>1. SubmitAt(u) /\ KeyAt(u) /\ settled[u] \subseteq Keys
      BY <1>0 DEF SubmitInv, KeyInv, TypeOK
    <3>2. \A k \in Keys : idem[k] # None => idem'[k] # None
      BY <1>0, <1>1, Grows
    <3>3. pc[u] = "store" => local[u].ride \in Ride
      BY <1>0, KeyType DEF PlaceInv, PlaceAt, Submitting
    <3>4. QED
      BY <1>0, <1>1, <3>1, <3>2, <3>3, Frame, FrameOf DEF SubmitAt, KeyAt
  <2> USE DEF Goto, message, turn, shared, TypeOK
  <2>2. CASE Start(t)
    <3>1. SubmitAt(t)'
      BY <1>0, <2>0, <2>2 DEF Start, SubmitAt
    <3>2. KeyAt(t)'
      BY <1>0, <2>2 DEF Start, KeyAt
    <3>3. QED
      BY <2>1, <3>1, <3>2 DEF SubmitInv, KeyInv
  <2>3. CASE Commit(t) \/ RollBack(t)
    <3>1. pc'[t] = "done" /\ settled'[t] = {}
      BY <1>0, <2>3 DEF Commit, RollBack, EndTurn
    <3>2. QED
      BY <2>1, <3>1 DEF SubmitInv, KeyInv, SubmitAt, KeyAt
  <2>4. CASE ConfirmOwner(t) \/ MissRefund(t)
    <3>1. UNCHANGED <<text, key, local, byLLM, settled, idem, submitted>> /\ pc'[t] \in {"lookup", "submit"}
      BY <1>0, <2>4 DEF ConfirmOwner, MissRefund
    <3>2. EffectiveKey(t)' = EffectiveKey(t) /\ Confirming(t)' = Confirming(t)
      BY <3>1 DEF EffectiveKey, Confirming
    <3>3. SubmitAt(t)'
      BY <2>0, <2>4, <3>1, <3>2 DEF SubmitAt, ConfirmOwner, MissRefund
    <3>4. None \notin Keys /\ settled[t] \subseteq Keys
      BY <1>0 DEF Keys
    <3>5. KeyAt(t)'
      BY <1>0, <2>0, <2>4, <3>1, <3>2, <3>4 DEF KeyAt, ConfirmOwner, MissRefund
    <3>6. QED
      BY <2>1, <3>3, <3>5 DEF SubmitInv, KeyInv
  <2>5. CASE SubmitRefund(t)
    <3>1. UNCHANGED <<text, key, local, byLLM, settled, idem>> /\ pc'[t] \in {"confirmed", "store"}
      BY <1>0, <2>5 DEF SubmitRefund
    <3>2. EffectiveKey(t)' = EffectiveKey(t) /\ Confirming(t)' = Confirming(t)
      BY <3>1 DEF EffectiveKey, Confirming
    <3>3. <<t, local[t].ride>> \in submitted' /\ Confirming(t) /\ pc[t] = "submit"
      BY <2>0, <2>5 DEF SubmitRefund, PlaceAt
    <3>4. SubmitAt(t)'
      BY <3>1, <3>2, <3>3 DEF SubmitAt
    <3>5. KeyAt(t)'
      BY <2>0, <3>1, <3>2, <3>3 DEF KeyAt
    <3>6. QED
      BY <2>1, <3>4, <3>5 DEF SubmitInv, KeyInv
  <2>6. CASE StoreRefund(t)
    <3>1. UNCHANGED <<text, settled, submitted>> /\ pc[t] = "store" /\ pc'[t] = "confirmed"
      BY <1>0, <2>6 DEF StoreRefund
    <3>2. SubmitAt(t)'
      BY <2>0, <3>1 DEF SubmitAt, Confirming
    <3>3. \A k \in Keys : idem[k] # None => idem'[k] # None
      BY <1>0, <1>1, Grows
    <3>4. KeyAt(t)'
      BY <1>0, <2>0, <3>1, <3>3 DEF KeyAt
    <3>5. QED
      BY <2>1, <3>2, <3>4 DEF SubmitInv, KeyInv
  <2>7. CASE Other(t)
    <3>1. /\ UNCHANGED <<text, key, settled, submitted, idem>>
          /\ pc[t] \notin {"idle", "done"} /\ pc'[t] \notin {"idle", "submit", "store", "done"}
      BY <1>0, <2>7, OtherSteps
    <3>2. SubmitAt(t)' /\ KeyAt(t)'
      BY <2>0, <3>1 DEF SubmitAt, KeyAt, Confirming
    <3>3. QED
      BY <2>1, <3>2 DEF SubmitInv, KeyInv
  <2>8. QED
    BY <1>1, <2>2, <2>3, <2>4, <2>5, <2>6, <2>7 DEF TurnNext, Confirm, Other
<1>2. CASE StateExpires \/ UNCHANGED vars
  BY <1>0, <1>2 DEF StateExpires, vars, turn, message, SubmitInv, KeyInv, SubmitAt, KeyAt, EffectiveKey, Confirming
<1>3. QED
  BY <1>1, <1>2 DEF Next, TurnNext

\* The steps that tell the user something.
LEMMA Sayings ==
  ASSUME TypeOK, NEW t \in Turn, TurnNext(t), reply'[t] # reply[t], reply'[t] # None
  PROVE  \/ /\ SaveConfirmed(t)
            /\ reply'[t] = [kind |-> "success", state |-> [local[t] EXCEPT !.confirmed = TRUE],
                            result |-> result[t]]
         \/ SaveGuide(t) /\ reply'[t] = [kind |-> "guide", state |-> local[t], result |-> None]
         \/ reply'[t].kind \notin {"guide", "success"} /\ reply'[t].state = None
<1> USE DEF Goto, message, turn, shared, TypeOK
<1>1. CASE AnswerByLLM(t)
  BY <1>1 DEF AnswerByLLM, SayOnly, Say
<1>2. CASE SaveConfirmed(t)
  BY <1>2 DEF SaveConfirmed, Say
<1>3. CASE SaveGuide(t)
  BY <1>3 DEF SaveGuide, Say
<1>4. CASE ConfirmForbidden(t) \/ ToolFails(t)
  BY <1>4 DEF ConfirmForbidden, ToolFails, ToolRaises, SayOnly, Say
<1>5. CASE FindNoRide(t) \/ FindIneligible(t) \/ VerifyFails(t)
  BY <1>5 DEF FindNoRide, FindIneligible, VerifyFails, SayOnly, Say
<1>6. CASE Commit(t) \/ RollBack(t)
  BY <1>6 DEF Commit, RollBack
<1>7. CASE Start(t) \/ EnterRefundFlow(t) \/ ChooseRefund(t) \/ ReadState(t) \/ ConfirmOwner(t)
  BY <1>7 DEF Start, EnterRefundFlow, ChooseRefund, ReadState, ConfirmOwner
<1>8. CASE ReplayRefund(t) \/ MissRefund(t) \/ SubmitRefund(t) \/ StoreRefund(t)
  BY <1>8 DEF ReplayRefund, MissRefund, SubmitRefund, StoreRefund
<1>9. CASE FindRide(t) \/ CheckPayment(t) \/ FindEligible(t)
  BY <1>9 DEF FindRide, CheckPayment, FindEligible
<1>10. QED
  BY <1>1, <1>2, <1>3, <1>4, <1>5, <1>6, <1>7, <1>8, <1>9 DEF TurnNext, Confirm, Verify

\* session_state is written by two steps only.
LEMMA Saves ==
  ASSUME TypeOK, NEW t \in Turn, TurnNext(t), redis' # redis
  PROVE  \/ SaveConfirmed(t) /\ redis' = [local[t] EXCEPT !.confirmed = TRUE]
         \/ SaveGuide(t) /\ redis' = local[t]
<1> USE DEF message, turn, shared
<1>1. CASE SaveConfirmed(t) \/ SaveGuide(t)
  BY <1>1 DEF SaveConfirmed, SaveGuide, SaveState
<1>2. CASE AnswerByLLM(t) \/ Start(t) \/ EnterRefundFlow(t) \/ ChooseRefund(t) \/ ReadState(t)
  BY <1>2 DEF AnswerByLLM, Start, EnterRefundFlow, ChooseRefund, ReadState
<1>3. CASE \/ ConfirmOwner(t) \/ ConfirmForbidden(t) \/ ReplayRefund(t) \/ MissRefund(t)
           \/ SubmitRefund(t) \/ StoreRefund(t) \/ ToolFails(t)
  BY <1>3 DEF ConfirmOwner, ConfirmForbidden, ReplayRefund, MissRefund, SubmitRefund, StoreRefund, ToolFails
<1>4. CASE \/ FindRide(t) \/ FindNoRide(t) \/ CheckPayment(t) \/ FindEligible(t) \/ FindIneligible(t)
           \/ VerifyFails(t) \/ Commit(t) \/ RollBack(t)
  BY <1>4 DEF FindRide, FindNoRide, CheckPayment, FindEligible, FindIneligible, VerifyFails, Commit, RollBack
<1>5. QED
  BY <1>1, <1>2, <1>3, <1>4 DEF TurnNext, Confirm, Verify

\* A turn of the guided flow comes to report a refund by an entry it found or by
\* the request it made.
LEMMA Results ==
  ASSUME TypeOK, PlaceInv, NEW t \in Turn, TurnNext(t), pc'[t] = "confirmed", t \notin byLLM'
  PROVE  /\ UNCHANGED <<local, key, byLLM>>
         /\ \/ /\ ReplayRefund(t) /\ idem[EffectiveKey(t)] # None
               /\ result'[t] = idem[EffectiveKey(t)]
            \/ StoreRefund(t) /\ pc[t] = "store" /\ result'[t] = local[t].ride
<1> USE DEF Goto, message, turn, shared, TypeOK
<1>1. CASE ReplayRefund(t) \/ StoreRefund(t)
  BY <1>1 DEF ReplayRefund, StoreRefund
<1>2. CASE SubmitRefund(t)
  <2>1. EffectiveKey(t) = None /\ t \notin byLLM
    BY <1>2 DEF SubmitRefund
  <2>2. local[t].ride \in Ride
    BY <1>2, KeyType DEF SubmitRefund, PlaceInv, PlaceAt, Submitting
  <2>3. QED
    BY <2>1, <2>2 DEF EffectiveKey
<1>3. CASE ConfirmForbidden(t) \/ ToolFails(t)
  BY <1>3 DEF ConfirmForbidden, ToolFails, ToolRaises, SayOnly, Say
<1>4. CASE Start(t) \/ EnterRefundFlow(t) \/ ChooseRefund(t) \/ ReadState(t) \/ ConfirmOwner(t) \/ MissRefund(t)
  BY <1>4 DEF Start, EnterRefundFlow, ChooseRefund, ReadState, ConfirmOwner, MissRefund
<1>5. CASE AnswerByLLM(t) \/ SaveConfirmed(t) \/ SaveGuide(t)
  BY <1>5 DEF AnswerByLLM, SaveConfirmed, SaveGuide, SayOnly, Say
<1>6. CASE FindNoRide(t) \/ FindIneligible(t) \/ VerifyFails(t)
  BY <1>6 DEF FindNoRide, FindIneligible, VerifyFails, SayOnly, Say
<1>7. CASE FindRide(t) \/ CheckPayment(t) \/ FindEligible(t) \/ Commit(t) \/ RollBack(t)
  BY <1>7 DEF FindRide, CheckPayment, FindEligible, Commit, RollBack, EndTurn
<1>8. QED
  BY <1>1, <1>2, <1>3, <1>4, <1>5, <1>6, <1>7 DEF TurnNext, Confirm, Verify

\* An entry is stored for a refund that was requested.
LEMMA EntryStep ==
  ASSUME IInv, NEW t \in Turn, TurnNext(t)
  PROVE  EntryInv'
<1>0. TypeOK /\ PlaceInv /\ SubmitInv /\ EntryInv
  BY DEF IInv, RefundInv
<1>1. \A r : Refunded(r) => Refunded(r)'
  BY <1>0, Grows DEF Refunded
<1>2. CASE idem' = idem
  BY <1>0, <1>1, <1>2 DEF EntryInv
<1>3. CASE StoreRefund(t)
  <2>1. pc[t] = "store" /\ idem' = [idem EXCEPT ![EffectiveKey(t)] = local[t].ride]
    BY <1>3 DEF StoreRefund
  <2>2. local[t] \in SessionState /\ EffectiveKey(t) # None
    BY <1>0, <2>1 DEF PlaceInv, PlaceAt, Submitting
  <2>3. \E u \in Turn : <<u, local[t].ride>> \in submitted'
    BY <1>0, <2>1, Grows DEF SubmitInv, SubmitAt
  <2>4. EffectiveKey(t) \in Keys
    BY <1>0, <2>2, KeyType
  <2>5. EffectiveKey(t) \in Ride => EffectiveKey(t) = local[t].ride
    BY <1>0, <2>2 DEF EffectiveKey, TypeOK
  <2>6. idem'[EffectiveKey(t)] = local[t].ride /\ \A k \in Keys \ {EffectiveKey(t)} : idem'[k] = idem[k]
    BY <1>0, <2>1, <2>4 DEF TypeOK
  <2>7. ASSUME NEW k \in Keys, idem'[k] # None
        PROVE  (\E u \in Turn : <<u, idem'[k]>> \in submitted') /\ (k \in Ride => idem'[k] = k)
    <3>1. CASE k = EffectiveKey(t)
      BY <2>3, <2>5, <2>6, <3>1
    <3>2. CASE k # EffectiveKey(t)
      <4>1. idem'[k] = idem[k]
        BY <2>6, <3>2
      <4>2. QED
        BY <1>0, <1>1, <2>7, <4>1 DEF EntryInv, Refunded
    <3>3. QED
      BY <3>1, <3>2
  <2>8. QED
    BY <2>7 DEF EntryInv, Refunded
<1>4. StoreRefund(t) \/ idem' = idem
  <2> USE DEF message, turn, shared
  <2>1. CASE Other(t)
    BY <1>0, <2>1, OtherSteps
  <2>2. CASE Start(t) \/ Commit(t) \/ RollBack(t) \/ ConfirmOwner(t) \/ MissRefund(t) \/ SubmitRefund(t)
    BY <2>2 DEF Start, Commit, RollBack, ConfirmOwner, MissRefund, SubmitRefund
  <2>3. QED
    BY <2>1, <2>2 DEF TurnNext, Confirm, Other
<1>5. QED
  BY <1>2, <1>3, <1>4

\* A turn reports what was requested.
LEMMA ReportStep ==
  ASSUME IInv, NEW t \in Turn, TurnNext(t)
  PROVE  ReportAt(t)'
<1>0. TypeOK /\ PlaceInv /\ SubmitInv /\ EntryInv /\ ReportAt(t) /\ PlaceAt(t)
  BY DEF IInv, RefundInv, PlaceInv
<1>1. (\A r : Refunded(r) => Refunded(r)') /\ env' = env
  BY <1>0, Grows DEF Refunded
<1>2. ASSUME pc'[t] = "confirmed", t \notin byLLM'
      PROVE  Refunded(result[t])' /\ (result'[t] # local'[t].ride => env'.keys # {})
  <2>1. UNCHANGED <<local, key, byLLM>>
    BY <1>0, <1>2, Results
  <2>2. CASE ReplayRefund(t) /\ idem[EffectiveKey(t)] # None /\ result'[t] = idem[EffectiveKey(t)]
    <3>1. EffectiveKey(t) # None /\ local[t] \in SessionState
      BY <1>0, <2>2 DEF ReplayRefund, PlaceAt, Submitting
    <3>2. EffectiveKey(t) \in Keys
      BY <1>0, <3>1, KeyType
    <3>3. Refunded(result'[t])
      BY <1>0, <2>2, <3>2 DEF EntryInv
    <3>4. result'[t] # local[t].ride => key[t] # None
      <4>1. SUFFICES ASSUME key[t] = None PROVE result'[t] = local[t].ride
        OBVIOUS
      <4>2. EffectiveKey(t) = local[t].ride
        BY <1>2, <2>1, <4>1 DEF EffectiveKey
      <4>3. EffectiveKey(t) \in Ride
        BY <1>0, <3>1, <4>2, KeyType
      <4>4. QED
        BY <1>0, <2>2, <3>2, <4>2, <4>3 DEF EntryInv
    <3>5. key[t] # None => env.keys # {}
      BY <1>0 DEF PlaceAt
    <3>6. Refunded(result[t])'
      BY <1>1, <3>3 DEF Refunded
    <3>7. QED
      BY <1>1, <2>1, <3>4, <3>5, <3>6
  <2>3. CASE StoreRefund(t) /\ pc[t] = "store" /\ result'[t] = local[t].ride
    <3>1. Refunded(local[t].ride)
      BY <1>0, <2>3 DEF SubmitInv, SubmitAt, Refunded
    <3>2. QED
      BY <1>1, <2>1, <2>3, <3>1 DEF Refunded
  <2>4. QED
    BY <1>0, <1>2, <2>2, <2>3, Results
<1>3. ASSUME reply'[t] # None, reply'[t].kind = "success"
      PROVE  Refunded(reply[t].result)' /\ (reply'[t].result # reply'[t].state.ride => env'.keys # {})
  <2>1. CASE reply'[t] = reply[t]
    BY <1>0, <1>1, <1>3, <2>1 DEF ReportAt, Refunded
  <2>2. CASE reply'[t] # reply[t]
    <3>1. SaveConfirmed(t)
          /\ reply'[t] = [kind |-> "success", state |-> [local[t] EXCEPT !.confirmed = TRUE], result |-> result[t]]
      <4>1. ASSUME SaveGuide(t), reply'[t] = [kind |-> "guide", state |-> local[t], result |-> None]
            PROVE  FALSE
        BY <1>3, <4>1
      <4>2. QED
        BY <1>0, <1>3, <2>2, <4>1, Sayings
    <3>2. pc[t] = "confirmed" /\ t \notin byLLM
      BY <3>1 DEF SaveConfirmed
    <3>3. local[t] \in SessionState
      BY <1>0, <3>2 DEF PlaceAt, Submitting
    <3>4. reply'[t].result = result[t] /\ reply'[t].state.ride = local[t].ride
      BY <3>1, <3>3 DEF SessionState
    <3>5. Refunded(result[t]) /\ (result[t] # local[t].ride => env.keys # {})
      BY <1>0, <3>2 DEF ReportAt
    <3>6. QED
      BY <1>1, <3>4, <3>5 DEF Refunded
  <2>3. QED
    BY <2>1, <2>2
<1>4. QED
  BY <1>2, <1>3 DEF ReportAt

\* Reports and confirmed states are real, whatever a turn finds in Redis.
LEMMA RefundStep == IInv /\ [Next]_vars => RefundInv'
<1> SUFFICES ASSUME IInv, [Next]_vars PROVE RefundInv'
  OBVIOUS
<1>0. TypeOK /\ PlaceInv /\ RefundInv
  BY DEF IInv
<1>1. ASSUME NEW t \in Turn, TurnNext(t) PROVE RefundInv'
  <2>1. (\A r : Refunded(r) => Refunded(r)') /\ env' = env /\ submitted \subseteq submitted'
    BY <1>0, <1>1, Grows DEF Refunded
  <2>2. ASSUME NEW u \in Turn \ {t} PROVE ReportAt(u)'
    <3>1. ReportAt(u)
      BY <1>0 DEF RefundInv
    <3>2. pc'[u] = pc[u] /\ (u \in byLLM' <=> u \in byLLM)
      BY <1>0, <1>1, Frame
    <3>3. reply'[u] = reply[u] /\ result'[u] = result[u] /\ local'[u] = local[u]
      BY <1>0, <1>1, Frame
    <3>4. (pc'[u] = "confirmed" /\ u \notin byLLM') =>
             Refunded(result[u])' /\ (result'[u] # local'[u].ride => env'.keys # {})
      BY <2>1, <3>1, <3>2, <3>3 DEF ReportAt, Refunded
    <3>5. (reply'[u] # None /\ reply'[u].kind = "success") =>
             Refunded(reply[u].result)' /\ (reply'[u].result # reply'[u].state.ride => env'.keys # {})
      BY <2>1, <3>1, <3>3 DEF ReportAt, Refunded
    <3>6. QED
      BY <3>4, <3>5 DEF ReportAt
  <2>3. redis' # None => (redis'.confirmed => submitted' # {})
    <3>1. CASE redis' = redis
      BY <1>0, <2>1, <3>1 DEF RefundInv
    <3>2. CASE SaveConfirmed(t)
      <4>1. Refunded(result[t])
        BY <1>0, <3>2 DEF SaveConfirmed, RefundInv, ReportAt
      <4>2. QED
        BY <2>1, <4>1 DEF Refunded
    <3>3. CASE SaveGuide(t) /\ redis' = local[t]
      BY <1>0, <3>3 DEF SaveGuide, PlaceInv, PlaceAt, Verifying
    <3>4. QED
      BY <1>0, <1>1, <3>1, <3>2, <3>3, Saves
  <2>4. QED
    BY <1>1, <2>2, <2>3, EntryStep, ReportStep DEF RefundInv
<1>2. CASE StateExpires \/ UNCHANGED vars
  BY <1>0, <1>2 DEF StateExpires, vars, turn, message, RefundInv, EntryInv, ReportAt, Refunded
<1>3. QED
  BY <1>1, <1>2 DEF Next, TurnNext

\* What was brought up stays so: a committed message is not changed any more.
LEMMA BackedStays ==
  ASSUME TypeOK, PlaceInv, NEW t \in Turn, TurnNext(t), NEW r, Backed(r)
  PROVE  Backed(r)'
<1>1. guided \subseteq guided' /\ pc[t] # "done"
  BY Grows
<1>2. CASE r \in guided
  BY <1>1, <1>2 DEF Backed
<1>3. CASE r = DefaultRide /\ \E u \in Stored : reply[u].kind = "policy"
  <2>1. PICK u \in Stored : reply[u].kind = "policy"
    BY <1>3
  <2>2. u \in Turn /\ u # t /\ pc[u] = "done" /\ reply[u] # None
    BY <1>1 DEF Stored
  <2>3. pc'[u] = pc[u] /\ reply'[u] = reply[u]
    BY <2>2, Frame
  <2>4. u \in Stored'
    BY <2>2, <2>3 DEF Stored
  <2>5. QED
    BY <1>3, <2>1, <2>3, <2>4 DEF Backed
<1>4. QED
  BY <1>2, <1>3 DEF Backed

\* A turn that confirms acts on a session state that was kept somewhere, or on
\* the default ride after the LLM has written about refunds.
LEMMA ReadBacked ==
  ASSUME IInv, NEW t \in Turn, ReadState(t), pc'[t] = "owner"
  PROVE  Backed(local'[t].ride)
<1>0. TypeOK /\ BackInv
  BY DEF IInv
<1>1. PICK s \in KnownStates :
         LET state == IF s # None THEN s ELSE Rebuilt
         IN  IF Confirming(t) /\ Pending(state)
             THEN Goto(t, "owner") /\ local' = [local EXCEPT ![t] = state]
             ELSE Goto(t, "ride") /\ UNCHANGED local
  BY DEF ReadState
<1> DEFINE state == IF s # None THEN s ELSE Rebuilt
<1>2. Pending(state) /\ local' = [local EXCEPT ![t] = state]
  BY <1>0, <1>1 DEF Goto, TypeOK
<1>3. local'[t] = state /\ state # None
  BY <1>0, <1>2 DEF TypeOK, Pending
<1>4. CASE s # None
  <2>1. CASE s = redis /\ redis # None
    BY <1>0, <1>3, <1>4, <2>1 DEF BackInv
  <2>2. CASE s = FromMessages
    <3>1. PICK u \in Stored : s = reply[u].state
      BY <1>0, <1>4, <2>2, StateTypes
    <3>2. u \in Turn /\ reply[u] # None /\ reply[u].state # None
      BY <1>4, <3>1 DEF Stored
    <3>3. Backed(s.ride)
      BY <1>0, <3>1, <3>2 DEF BackInv, BackAt
    <3>4. QED
      BY <1>3, <1>4, <3>3
  <2>3. QED
    BY <1>0, <2>1, <2>2, StateTypes
<1>5. CASE s = None
  <2>1. s = FromMessages
    BY <1>0, <1>5, StateTypes
  <2>2. \A u \in Recent : reply[u].state = None
    BY <1>0, <1>5, <2>1, StateTypes
  <2>3. PICK u \in Recent : reply[u].kind \in {"guide", "policy"}
    BY <1>3, <1>5 DEF Rebuilt
  <2>4. u \in Stored /\ u \in Turn /\ reply[u] # None
    BY DEF Recent, Newest, Stored
  <2>5. reply[u].kind # "guide"
    BY <1>0, <2>2, <2>4 DEF BackInv, BackAt
  <2>6. reply[u].kind = "policy"
    BY <2>3, <2>5
  <2>7. state = [ride |-> DefaultRide, confirmed |-> FALSE]
    BY <1>5, <2>3 DEF Rebuilt
  <2>8. QED
    BY <1>3, <2>4, <2>6, <2>7 DEF Backed
<1>6. QED
  BY <1>4, <1>5

\* How a turn comes to hold a ride for submission, to guide, and to submit.
LEMMA Holds ==
  ASSUME TypeOK, NEW t \in Turn, TurnNext(t)
  PROVE  /\ pc'[t] \in Submitting /\ t \notin byLLM' =>
               ReadState(t) \/ (pc[t] \in Submitting /\ local'[t] = local[t])
         /\ pc'[t] = "guide" => FindEligible(t)
         /\ \A r \in Ride : <<t, r>> \in submitted' /\ <<t, r>> \notin submitted =>
               pc[t] = "submit" /\ r = local[t].ride
<1> USE DEF Goto, message, turn, shared, TypeOK, Submitting
<1>1. CASE Start(t) \/ EnterRefundFlow(t) \/ ChooseRefund(t)
  BY <1>1 DEF Start, EnterRefundFlow, ChooseRefund
<1>2. CASE AnswerByLLM(t)
  BY <1>2 DEF AnswerByLLM, SayOnly, Say
<1>3. CASE ReadState(t)
  BY <1>3 DEF ReadState
<1>4. CASE ConfirmOwner(t) \/ ReplayRefund(t) \/ MissRefund(t) \/ SubmitRefund(t) \/ StoreRefund(t)
  BY <1>4 DEF ConfirmOwner, ReplayRefund, MissRefund, SubmitRefund, StoreRefund
<1>5. CASE ConfirmForbidden(t) \/ ToolFails(t)
  BY <1>5 DEF ConfirmForbidden, ToolFails, ToolRaises, SayOnly, Say
<1>6. CASE SaveConfirmed(t) \/ SaveGuide(t)
  BY <1>6 DEF SaveConfirmed, SaveGuide, Say
<1>7. CASE FindRide(t) \/ CheckPayment(t) \/ FindEligible(t)
  BY <1>7 DEF FindRide, CheckPayment, FindEligible
<1>8. CASE FindNoRide(t) \/ FindIneligible(t) \/ VerifyFails(t)
  BY <1>8 DEF FindNoRide, FindIneligible, VerifyFails, SayOnly, Say
<1>9. CASE Commit(t) \/ RollBack(t)
  BY <1>9 DEF Commit, RollBack, EndTurn
<1>10. QED
  BY <1>1, <1>2, <1>3, <1>4, <1>5, <1>6, <1>7, <1>8, <1>9 DEF TurnNext, Confirm, Verify

\* Nothing forgets where a ride came from: not a lost session state, nor one
\* brought back from an older message.
LEMMA BackStep == IInv /\ [Next]_vars => BackInv'
<1> SUFFICES ASSUME IInv, [Next]_vars PROVE BackInv'
  OBVIOUS
<1>0. TypeOK /\ PlaceInv /\ BackInv
  BY DEF IInv
<1>1. ASSUME NEW t \in Turn, TurnNext(t) PROVE BackInv'
  <2>0. BackAt(t) /\ PlaceAt(t) /\ byLLM \subseteq byLLM' /\ guided \subseteq guided'
    BY <1>0, <1>1, Grows DEF BackInv, PlaceInv
  <2>1. \A r : Backed(r) => Backed(r)'
    BY <1>0, <1>1, BackedStays
  <2>2. ASSUME NEW u \in Turn \ {t} PROVE BackAt(u)'
    <3>1. BackAt(u)
      BY <1>0 DEF BackInv
    <3>2. pc'[u] = pc[u] /\ local'[u] = local[u] /\ reply'[u] = reply[u] /\ (u \in byLLM' <=> u \in byLLM)
      BY <1>0, <1>1, Frame
    <3>3. \A r \in Ride : <<u, r>> \in submitted' <=> <<u, r>> \in submitted
      BY <1>0, <1>1, Frame
    <3>4. (u \notin byLLM' /\ pc'[u] \in Submitting) => Backed(local[u].ride)'
      BY <2>1, <3>1, <3>2 DEF BackAt, Backed
    <3>5. pc'[u] = "guide" => local'[u].ride \in guided'
      BY <2>0, <3>1, <3>2 DEF BackAt
    <3>6. u \notin byLLM' => \A r \in Ride : <<u, r>> \in submitted' => Backed(r)'
      BY <2>1, <3>1, <3>2, <3>3 DEF BackAt
    <3>7. reply'[u] # None =>
             /\ reply'[u].state # None => Backed(reply[u].state.ride)'
             /\ reply'[u].kind = "guide" => reply'[u].state # None
      BY <2>1, <3>1, <3>2 DEF BackAt, Backed
    <3>8. QED
      BY <3>4, <3>5, <3>6, <3>7 DEF BackAt
  <2>3. (t \notin byLLM' /\ pc'[t] \in Submitting) => Backed(local[t].ride)'
    <3>1. SUFFICES ASSUME t \notin byLLM', pc'[t] \in Submitting PROVE Backed(local[t].ride)'
      OBVIOUS
    <3>2. CASE ReadState(t)
      <4>1. pc'[t] = "owner"
        BY <1>0, <3>1, <3>2 DEF ReadState, Goto, TypeOK, Submitting
      <4>2. UNCHANGED <<guided, reply>> /\ Stored' = Stored
        BY <1>0, <3>2, <4>1 DEF ReadState, Goto, TypeOK, Stored, shared
      <4>3. QED
        BY <3>2, <4>1, <4>2, ReadBacked DEF Backed
    <3>3. CASE pc[t] \in Submitting /\ local'[t] = local[t]
      BY <2>0, <2>1, <3>1, <3>3 DEF BackAt, Backed
    <3>4. QED
      BY <1>0, <1>1, <3>1, <3>2, <3>3, Holds
  <2>4. pc'[t] = "guide" => local'[t].ride \in guided'
    BY <1>0, <1>1, Holds DEF FindEligible, turn
  <2>5. t \notin byLLM' => \A r \in Ride : <<t, r>> \in submitted' => Backed(r)'
    <3>1. SUFFICES ASSUME t \notin byLLM', NEW r \in Ride, <<t, r>> \in submitted' PROVE Backed(r)'
      OBVIOUS
    <3>2. CASE <<t, r>> \in submitted
      BY <2>0, <2>1, <3>1, <3>2 DEF BackAt
    <3>3. CASE <<t, r>> \notin submitted
      <4>1. pc[t] = "submit" /\ r = local[t].ride
        BY <1>0, <1>1, <3>1, <3>3, Holds
      <4>2. Backed(r)
        BY <2>0, <3>1, <4>1 DEF BackAt, Submitting
      <4>3. QED
        BY <2>1, <4>2
    <3>4. QED
      BY <3>2, <3>3
  <2>6. ASSUME reply'[t] # None
        PROVE  /\ reply'[t].state # None => Backed(reply[t].state.ride)'
               /\ reply'[t].kind = "guide" => reply'[t].state # None
    <3>1. CASE reply'[t] = reply[t]
      BY <2>0, <2>1, <2>6, <3>1 DEF BackAt, Backed
    <3>2. CASE /\ SaveConfirmed(t)
               /\ reply'[t] = [kind |-> "success", state |-> [local[t] EXCEPT !.confirmed = TRUE],
                               result |-> result[t]]
      <4>1. pc[t] = "confirmed" /\ t \notin byLLM
        BY <3>2 DEF SaveConfirmed
      <4>2. Backed(local[t].ride) /\ local[t] \in SessionState
        BY <2>0, <4>1 DEF BackAt, PlaceAt, Submitting
      <4>3. reply'[t].kind = "success" /\ reply'[t].state.ride = local[t].ride
        BY <3>2, <4>2 DEF SessionState
      <4>4. QED
        BY <2>1, <4>2, <4>3 DEF Backed
    <3>3. CASE SaveGuide(t) /\ reply'[t] = [kind |-> "guide", state |-> local[t], result |-> None]
      <4>1. local[t].ride \in guided /\ local[t] \in SessionState
        BY <2>0, <3>3 DEF BackAt, PlaceAt, Verifying, SaveGuide
      <4>2. reply'[t].state = local[t] /\ local[t] # None
        BY <3>3, <4>1
      <4>3. QED
        BY <2>0, <4>1, <4>2 DEF Backed
    <3>4. CASE reply'[t].kind \notin {"guide", "success"} /\ reply'[t].state = None
      BY <3>4
    <3>5. QED
      BY <1>0, <1>1, <2>6, <3>1, <3>2, <3>3, <3>4, Sayings
  <2>7. BackAt(t)'
    BY <2>3, <2>4, <2>5, <2>6 DEF BackAt
  <2>8. redis' # None => Backed(redis.ride)'
    <3>1. CASE redis' = redis
      BY <1>0, <2>1, <3>1 DEF BackInv, Backed
    <3>2. CASE SaveConfirmed(t) /\ redis' = [local[t] EXCEPT !.confirmed = TRUE]
      <4>1. Backed(local[t].ride) /\ local[t] \in SessionState
        BY <2>0, <3>2 DEF SaveConfirmed, BackAt, PlaceAt, Submitting
      <4>2. redis'.ride = local[t].ride
        BY <3>2, <4>1 DEF SessionState
      <4>3. QED
        BY <2>1, <4>1, <4>2 DEF Backed
    <3>3. CASE SaveGuide(t) /\ redis' = local[t]
      BY <2>0, <3>3 DEF SaveGuide, BackAt, Backed
    <3>4. QED
      BY <1>0, <1>1, <3>1, <3>2, <3>3, Saves
  <2>9. QED
    BY <2>2, <2>7, <2>8 DEF BackInv
<1>2. CASE StateExpires \/ UNCHANGED vars
  BY <1>0, <1>2 DEF StateExpires, vars, turn, message, BackInv, BackAt, Backed, Stored
<1>3. QED
  BY <1>1, <1>2 DEF Next, TurnNext

\* Nothing has been submitted, stored or said.
LEMMA Initially == Init => IInv
<1> SUFFICES ASSUME Init PROVE IInv
  OBVIOUS
<1>1. TypeOK
  BY DEF Init, TypeOK, Locations
<1>2. PlaceInv /\ SubmitInv /\ KeyInv
  BY DEF Init, PlaceInv, PlaceAt, Submitting, Verifying, SubmitInv, SubmitAt, KeyInv, KeyAt
<1>3. RefundInv /\ BackInv
  BY DEF Init, RefundInv, EntryInv, ReportAt, BackInv, BackAt, Submitting
<1>4. QED
  BY <1>1, <1>2, <1>3 DEF IInv

\* The invariant all theorems below rest on.
LEMMA Inductive == Spec => []IInv
<1>1. IInv /\ [Next]_vars => IInv'
  BY TypeStep, PlaceStep, SubmitStep, RefundStep, BackStep DEF IInv
<1>2. QED
  BY Initially, <1>1, PTL DEF Spec

\* Every store and every turn's variables hold what they should, for any number
\* of turns, rides and keys.
THEOREM TypeCorrect == Spec => []TypeOK
<1>1. IInv => TypeOK
  BY DEF IInv
<1>2. QED
  BY Inductive, <1>1, PTL

\* No turn submits under a key that had an answer when the turn started, however
\* turns overlap, fail or lose their session state.
THEOREM AnsweredKeysHold == Spec => []AnsweredKeyHolds
<1>1. IInv => AnsweredKeyHolds
  BY DEF IInv, KeyInv, KeyAt, AnsweredKeyHolds
<1>2. QED
  BY Inductive, <1>1, PTL

\* No refund is requested out of the blue: the message confirms, and the ride was
\* found eligible or is the default one after the LLM has written about refunds.
THEOREM SubmissionsHold == Spec => []SubmissionsWerePrompted
<1>1. IInv => SubmissionsWerePrompted
  BY DEF IInv, SubmitInv, SubmitAt, BackInv, BackAt, Backed, ActiveTurns, SubmissionsWerePrompted
<1>2. QED
  BY Inductive, <1>1, PTL

\* Whatever the user is told of a finished refund, and whatever Redis remembers of
\* one, was requested at GoRush.
THEOREM SuccessHolds == Spec => []SuccessIsReal
<1>1. IInv => SuccessIsReal
  BY DEF IInv, RefundInv, ReportAt, Stored, SuccessIsReal
<1>2. QED
  BY Inductive, <1>1, PTL
-----------------------------------------------------------------------------
(* One turn after the other, nothing fails: a ride is refunded once. *)

\* Whatever is pending, in a turn or in Redis, was not refunded yet, except by
\* the turn that is about to save that it was.
Acting == {"store", "confirmed"}

CalmAt(t) ==
    /\ pc[t] \in {"owner", "lookup", "submit", "guide"} => ~Refunded(local[t].ride)
    /\ redis = None => (reply[t] # None => reply[t].state = None)
    /\ \A u \in Turn : (pc[t] \notin {"idle", "done"} /\ pc[u] \notin {"idle", "done"}) => t = u

CalmInv ==
    Undisturbed =>
        /\ byLLM = {}
        /\ \A t \in Turn : CalmAt(t)
        /\ \/ \E t \in Turn : pc[t] \in Acting
           \/ /\ redis = None => submitted = {}
              /\ redis # None => (redis.confirmed \/ ~Refunded(redis.ride))
        /\ RefundedOnce

\* While only the guided flow submits, one turn at a time, a turn that moves is
\* the only one, and it acts when it has asked for the refund, not before.
LEMMA CalmMoves ==
  ASSUME IInv, CalmInv, Undisturbed, NEW t \in Turn, TurnNext(t)
  PROVE  /\ byLLM' = {}
         /\ \A u \in Turn \ {t} : pc[u] \in {"idle", "done"} /\ pc'[u] \in {"idle", "done"}
         /\ pc[t] \in Acting => pc'[t] \in Acting \/ SaveConfirmed(t)
         /\ submitted' # submitted => SubmitRefund(t) /\ pc'[t] \in Acting
         /\ pc'[t] \in {"owner", "lookup", "submit"} =>
               ReadState(t) \/ (pc[t] \in {"owner", "lookup"} /\ local'[t] = local[t])
<1>0. /\ TypeOK /\ byLLM = {} /\ ~env.faults /\ ~env.llm /\ env.active = 1
      /\ \A u \in Turn : CalmAt(u)
  BY DEF IInv, CalmInv, Undisturbed
<1>1. ASSUME NEW u \in Turn \ {t} PROVE pc[u] \in {"idle", "done"} /\ pc'[u] = pc[u]
  <2>1. pc'[u] = pc[u]
    BY <1>0, Frame
  <2>2. CASE Start(t)
    <3>1. IsFiniteSet(ActiveTurns)
      <4>1. IsFiniteSet(Turn) /\ ActiveTurns \subseteq Turn
        BY FS_Interval DEF Turn, ActiveTurns
      <4>2. QED
        BY <4>1, FS_Subset
    <3>2. ActiveTurns = {}
      BY <1>0, <2>2, <3>1, FS_EmptySet, FS_CardinalityType DEF Start
    <3>3. QED
      BY <2>1, <3>2 DEF ActiveTurns
  <2>3. CASE ~Start(t)
    <3>1. pc[t] \notin {"idle", "done"}
      <4>1. Confirm(t) => pc[t] # "idle"
        BY DEF Confirm, ConfirmOwner, ConfirmForbidden, ReplayRefund, MissRefund, SubmitRefund,
               StoreRefund, ToolFails, SaveConfirmed
      <4>2. Verify(t) => pc[t] # "idle"
        BY DEF Verify, FindRide, FindNoRide, CheckPayment, FindEligible, FindIneligible,
               VerifyFails, SaveGuide
      <4>3. pc[t] # "idle"
        BY <1>0, <2>3, <4>1, <4>2 DEF TurnNext, EnterRefundFlow, ChooseRefund, AnswerByLLM,
               ReadState, Commit, RollBack
      <4>4. QED
        BY <1>0, <4>3, Grows DEF IInv
    <3>2. QED
      BY <1>0, <2>1, <3>1 DEF CalmAt
  <2>4. QED
    BY <2>2, <2>3
<1> USE DEF Goto, message, turn, shared, Acting
<1>2. CASE Start(t) \/ EnterRefundFlow(t) \/ ChooseRefund(t) \/ AnswerByLLM(t) \/ ReadState(t)
  <2>1. byLLM' = {} /\ submitted' = submitted
    BY <1>0, <1>2 DEF Start, EnterRefundFlow, ChooseRefund, AnswerByLLM, ReadState
  <2>2. pc[t] \notin Acting /\ (ReadState(t) \/ pc'[t] \notin {"owner", "lookup", "submit"})
    BY <1>0, <1>2 DEF Start, EnterRefundFlow, ChooseRefund, AnswerByLLM, ReadState, SayOnly, Say, TypeOK
  <2>3. QED
    BY <1>1, <2>1, <2>2
<1>3. CASE Confirm(t)
  <2>1. byLLM' = {} /\ (submitted' # submitted => SubmitRefund(t))
    BY <1>0, <1>3 DEF Confirm, ConfirmOwner, ConfirmForbidden, ReplayRefund, MissRefund, SubmitRefund,
           StoreRefund, ToolFails, SaveConfirmed
  <2>2. SubmitRefund(t) => pc'[t] \in Acting
    BY <1>0 DEF SubmitRefund, TypeOK
  <2>3. pc[t] \in Acting => pc'[t] \in Acting \/ SaveConfirmed(t)
    BY <1>0, <1>3 DEF Confirm, ConfirmOwner, ConfirmForbidden, ReplayRefund, MissRefund, SubmitRefund,
           StoreRefund, ToolFails, TypeOK
  <2>4. pc'[t] \in {"owner", "lookup", "submit"} =>
           pc[t] \in {"owner", "lookup"} /\ local'[t] = local[t]
    BY <1>0, <1>3 DEF Confirm, ConfirmOwner, ConfirmForbidden, ReplayRefund, MissRefund, SubmitRefund,
           StoreRefund, ToolFails, ToolRaises, SaveConfirmed, SayOnly, Say, TypeOK
  <2>5. QED
    BY <1>1, <2>1, <2>2, <2>3, <2>4
<1>4. CASE Verify(t) \/ Commit(t) \/ RollBack(t)
  <2>1. byLLM' = {} /\ submitted' = submitted
    BY <1>0, <1>4 DEF Verify, FindRide, FindNoRide, CheckPayment, FindEligible, FindIneligible,
           VerifyFails, SaveGuide, Commit, RollBack, EndTurn
  <2>2. pc[t] \notin Acting /\ pc'[t] \notin {"owner", "lookup", "submit"}
    BY <1>0, <1>4 DEF Verify, FindRide, FindNoRide, CheckPayment, FindEligible, FindIneligible,
           VerifyFails, SaveGuide, Commit, RollBack, EndTurn, SayOnly, Say, TypeOK
  <2>3. QED
    BY <1>1, <2>1, <2>2
<1>5. QED
  BY <1>2, <1>3, <1>4 DEF TurnNext

\* What a turn takes up from Redis, or rebuilds, was not refunded.
LEMMA CalmRead ==
  ASSUME IInv, CalmInv, Undisturbed, NEW t \in Turn, ReadState(t), pc'[t] = "owner"
  PROVE  ~Refunded(local'[t].ride)
<1>0. TypeOK /\ ~env.faults /\ \A u \in Turn : CalmAt(u)
  BY DEF IInv, CalmInv, Undisturbed
<1>1. \A u \in Turn : pc[u] \notin Acting
  BY <1>0 DEF ReadState, CalmAt, Acting
<1>2. /\ redis = None => submitted = {}
      /\ redis # None => (redis.confirmed \/ ~Refunded(redis.ride))
  BY <1>1 DEF CalmInv
<1>3. PICK s \in KnownStates :
         LET state == IF s # None THEN s ELSE Rebuilt
         IN  IF Confirming(t) /\ Pending(state)
             THEN Goto(t, "owner") /\ local' = [local EXCEPT ![t] = state]
             ELSE Goto(t, "ride") /\ UNCHANGED local
  BY DEF ReadState
<1>4. local'[t] = (IF s # None THEN s ELSE Rebuilt) /\ Pending(local'[t])
  BY <1>0, <1>3 DEF Goto, TypeOK
<1>5. CASE redis # None
  <2>1. s = redis
    BY <1>0, <1>5 DEF KnownStates
  <2>2. QED
    BY <1>2, <1>4, <1>5, <2>1 DEF Pending
<1>6. CASE redis = None
  BY <1>2, <1>6 DEF Refunded
<1>7. QED
  BY <1>5, <1>6

\* No step of an undisturbed conversation leaves a refunded ride pending.
LEMMA CalmStep == IInv /\ CalmInv /\ [Next]_vars => CalmInv'
<1> SUFFICES ASSUME IInv, CalmInv, [Next]_vars PROVE CalmInv'
  OBVIOUS
<1>0. TypeOK /\ PlaceInv
  BY DEF IInv
<1>1. ASSUME NEW t \in Turn, TurnNext(t), Undisturbed'
      PROVE  /\ byLLM' = {} /\ \A u \in Turn : CalmAt(u)'
             /\ \/ \E u \in Turn : pc'[u] \in Acting
                \/ /\ redis' = None => submitted' = {}
                   /\ redis' # None => (redis'.confirmed \/ ~Refunded(redis.ride)')
             /\ RefundedOnce'
  <2>0. Undisturbed /\ CalmAt(t) /\ RefundedOnce /\ ~env.faults
    BY <1>0, <1>1, Grows DEF Undisturbed, CalmInv
  <2>1. /\ byLLM' = {}
        /\ \A u \in Turn \ {t} : pc[u] \in {"idle", "done"} /\ pc'[u] \in {"idle", "done"}
        /\ pc[t] \in Acting => pc'[t] \in Acting \/ SaveConfirmed(t)
        /\ submitted' # submitted => SubmitRefund(t) /\ pc'[t] \in Acting
        /\ pc'[t] \in {"owner", "lookup", "submit"} =>
              ReadState(t) \/ (pc[t] \in {"owner", "lookup"} /\ local'[t] = local[t])
    BY <1>1, <2>0, CalmMoves
  <2>2. SaveConfirmed(t) =>
           redis' = [local[t] EXCEPT !.confirmed = TRUE] /\ redis' # None /\ redis'.confirmed
    <3> SUFFICES ASSUME SaveConfirmed(t)
                 PROVE  redis' = [local[t] EXCEPT !.confirmed = TRUE] /\ redis' # None /\ redis'.confirmed
      OBVIOUS
    <3>1. redis' = [local[t] EXCEPT !.confirmed = TRUE]
      BY <2>0 DEF SaveConfirmed, SaveState
    <3>2. local[t] \in SessionState
      BY <1>0 DEF SaveConfirmed, PlaceInv, PlaceAt, Submitting
    <3>3. redis' \in SessionState /\ redis'.confirmed = TRUE
      BY <3>1, <3>2 DEF SessionState
    <3>4. QED
      BY <3>1, <3>3
  <2>3. SaveGuide(t) => redis' = local[t] /\ redis' # None /\ ~Refunded(local[t].ride)
    BY <1>0, <2>0 DEF SaveGuide, SaveState, PlaceInv, PlaceAt, Verifying, CalmAt
  <2>4. redis' = None =>
           /\ redis = None
           /\ \A u \in Turn : reply'[u] # None => reply'[u].state = None
    <3>1. redis' = None => redis = None /\ ~SaveConfirmed(t) /\ ~SaveGuide(t)
      BY <1>0, <1>1, <2>2, <2>3, Saves
    <3>2. ASSUME redis' = None, NEW u \in Turn, reply'[u] # None PROVE reply'[u].state = None
      <4>1. CASE reply'[u] = reply[u]
        BY <2>0, <3>1, <3>2, <4>1 DEF CalmInv, CalmAt
      <4>2. CASE reply'[u] # reply[u]
        <5>1. u = t
          BY <1>0, <1>1, <4>2, Frame
        <5>2. QED
          BY <1>0, <1>1, <3>1, <3>2, <4>2, <5>1, Sayings
      <4>3. QED
        BY <4>1, <4>2
    <3>3. QED
      BY <3>1, <3>2
  <2>5. pc'[t] \in {"owner", "lookup", "submit"} => ~Refunded(local'[t].ride)
    <3>1. CASE ReadState(t)
      <4>1. pc'[t] \in {"owner", "ride"}
        BY <1>0, <3>1 DEF ReadState, Goto, TypeOK
      <4>2. QED
        BY <2>0, <3>1, <4>1, CalmRead
    <3>2. CASE pc[t] \in {"owner", "lookup"} /\ local'[t] = local[t]
      BY <2>0, <3>2 DEF CalmAt
    <3>3. QED
      BY <2>1, <3>1, <3>2
  <2>6. pc'[t] = "guide" => ~Refunded(local'[t].ride)
    BY <1>0, <1>1, Holds DEF FindEligible, turn
  <2>7. pc'[t] \in {"owner", "lookup", "submit", "guide"} => submitted' = submitted
    BY <2>1 DEF Acting
  <2>8. ASSUME NEW u \in Turn PROVE CalmAt(u)'
    <3>1. pc'[u] \in {"owner", "lookup", "submit", "guide"} => u = t /\ ~Refunded(local[u].ride)'
      BY <2>1, <2>5, <2>6, <2>7 DEF Refunded
    <3>2. QED
      BY <2>1, <2>4, <3>1 DEF CalmAt
  <2>9. \/ \E u \in Turn : pc'[u] \in Acting
        \/ /\ redis' = None => submitted' = {}
           /\ redis' # None => (redis'.confirmed \/ ~Refunded(redis.ride)')
    <3>1. CASE pc'[t] \in Acting
      BY <3>1
    <3>2. CASE pc'[t] \notin Acting
      <4>1. submitted' = submitted
        BY <2>1, <3>2
      <4>2. CASE SaveConfirmed(t)
        BY <2>2, <4>2
      <4>3. CASE SaveGuide(t)
        BY <2>3, <4>1, <4>3 DEF Refunded
      <4>4. CASE ~SaveConfirmed(t) /\ ~SaveGuide(t)
        <5>1. redis' = redis
          BY <1>0, <1>1, <4>4, Saves
        <5>2. \A u \in Turn : pc[u] \notin Acting
          BY <2>1, <3>2, <4>4 DEF Acting
        <5>3. QED
          BY <2>0, <4>1, <5>1, <5>2 DEF CalmInv, Refunded
      <4>5. QED
        BY <4>2, <4>3, <4>4
    <3>3. QED
      BY <3>1, <3>2
  <2>10. RefundedOnce'
    <3>1. CASE submitted' = submitted
      BY <2>0, <3>1 DEF RefundedOnce
    <3>2. CASE SubmitRefund(t)
      <4>1. submitted' = submitted \cup {<<t, local[t].ride>>} /\ ~Refunded(local[t].ride)
        BY <2>0, <3>2 DEF SubmitRefund, CalmAt
      <4>2. QED
        BY <2>0, <4>1 DEF RefundedOnce, Refunded
    <3>3. QED
      BY <2>1, <3>1, <3>2
  <2>11. QED
    BY <2>1, <2>8, <2>9, <2>10
<1>2. ASSUME StateExpires PROVE CalmInv'
  BY <1>2 DEF StateExpires, CalmInv, Undisturbed, turn, message
<1>3. CASE UNCHANGED vars
  BY <1>3 DEF vars, CalmInv, CalmAt, Undisturbed, Refunded, RefundedOnce
<1>4. QED
  BY <1>1, <1>2, <1>3 DEF Next, TurnNext, CalmInv

\* An undisturbed conversation refunds a ride once: what Redis keeps pending has
\* not been refunded, and a turn that submits does not end before it has saved
\* that it did.
THEOREM RefundsOnce == Spec => []RefundedOnce
<1>1. Init => CalmInv
  BY DEF Init, CalmInv, CalmAt, Acting, RefundedOnce
<1>2. CalmInv => RefundedOnce
  BY DEF CalmInv, RefundedOnce
<1>3. QED
  BY Inductive, <1>1, <1>2, CalmStep, PTL DEF Spec
=============================================================================
