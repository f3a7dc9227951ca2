-------------------------- MODULE ToolRouterProofs --------------------------
(***************************************************************************)
(* The safety of ToolRouter for any number of concurrent requests, any     *)
(* registry policy and any set of calls.  IInv is the inductive invariant: *)
(* TypeOK and one conjunct for each thing the pipeline carries from one    *)
(* step to the next.                                                       *)
(***************************************************************************)
EXTENDS ToolRouter, TLAPS

\* The locations before the tool runs, and those only a cleared call reaches.
Early == {"idle", "role", "owner", "confirm", "idem", "insert"}
Cleared == {"idem", "insert", "execute", "store", "audit", "returned"}

RoleAllowed(r) ==
    /\ call[r].tool \in Tool
    /\ call[r].role \in RequiredRole[call[r].tool]

\* The gates a request has passed are visible from where it is.
GateInv ==
    \A r \in Request :
        /\ pc[r] \in {"owner", "confirm"} => RoleAllowed(r)
        /\ pc[r] = "confirm" => r \in vetted
        /\ (pc[r] \in Cleared \/ r \in executed \/ reply[r] = "ok") => Permitted(r)
        /\ pc[r] \in {"idem", "store"} => Keyed(r)

\* What is stored, carried or returned is the result of an execution.
AnswerInv ==
    /\ \A s \in Tool \X Key :
          idem[s] # None =>
              idem[s] \in executed /\ Keyed(idem[s]) /\ Slot(idem[s]) = s
    /\ \A r \in Request :
          /\ pc[r] \in {"store", "audit"} => answer[r] = r /\ r \in executed
          /\ (pc[r] = "returned" \/ reply[r] = "ok") =>
                 /\ answer[r] \in executed
                 /\ r \in executed => answer[r] = r
                 /\ r \notin executed => SameSlot(r, answer[r])

\* An answered keyed call has its answer stored, until the TTL; who has read
\* a miss, therefore, arrived before the first answer or after the TTL.
RetryInv ==
    \A r \in Request :
        /\ reply[r] = "ok" => pc[r] = "done"
        /\ \A q \in before[r] : pc[q] = "done"
        /\ ((pc[r] \in {"audit", "returned"} \/ reply[r] = "ok") /\ Keyed(r)) =>
               idem[Slot(r)] # None \/ Slot(r) \in expired
        /\ (pc[r] \in {"insert", "execute"} \/ r \in executed) =>
               \A q \in before[r] :
                   (reply[q] = "ok" /\ SameSlot(q, r)) => Slot(r) \in expired

\* The rows of a transaction agree with what its request has done so far.
RowInv ==
    \A r \in Request :
        /\ pc[r] \in Early => row[r] = None /\ r \notin executed
        /\ pc[r] = "execute" => r \notin executed
        /\ pc[r] \in {"store", "audit"} => row[r] = "success"
        /\ pc[r] \in {"returned", "raised"} =>
               row[r] # "pending" /\ (row[r] = "success" <=> r \in executed)
        /\ (pc[r] = "returned" /\ row[r] = "success") => audit[r] = "tool_executed"
        /\ r \in committed => pc[r] = "done"

IInv == TypeOK /\ GateInv /\ AnswerInv /\ RetryInv /\ RowInv /\ HistoryIsTruthful
-----------------------------------------------------------------------------
USE RouterAssumption

\* Before any request has come in, the invariant holds.
LEMMA InitIInv == Init => IInv
<1> SUFFICES ASSUME Init PROVE IInv
  OBVIOUS
<1>1. TypeOK
  BY DEF Init, TypeOK, Locations, RowStatus, AuditAction, Replies
<1>2. GateInv
  BY DEF Init, GateInv, Cleared, Replies
<1>3. AnswerInv
  BY DEF Init, AnswerInv, Replies
<1>4. RetryInv
  BY DEF Init, RetryInv, Replies
<1>5. RowInv
  BY DEF Init, RowInv, Early
<1>6. HistoryIsTruthful
  BY DEF Init, HistoryIsTruthful
<1>7. QED
  BY <1>1, <1>2, <1>3, <1>4, <1>5, <1>6 DEF IInv

\* The Redis slot of a keyed call that has been submitted.
LEMMA SlotType ==
  ASSUME TypeOK, NEW r \in Request, pc[r] # "idle", Keyed(r)
  PROVE  Slot(r) \in Tool \X Key
BY DEF TypeOK, Keyed, Slot, CallType

\* Every step keeps the types; a slot is read and written by keyed calls only.
LEMMA NextTypeOK ==
  TypeOK /\ GateInv /\ [Next]_vars => TypeOK'
<1> SUFFICES ASSUME TypeOK, GateInv, [Next]_vars PROVE TypeOK'
  OBVIOUS
<1> USE DEF TypeOK, Locations, RowStatus, AuditAction, Replies, Goto, Raise
<1>1. ASSUME NEW r \in Request, Submit(r) PROVE TypeOK'
  BY <1>1 DEF Submit
<1>2. ASSUME NEW r \in Request, RejectUnregistered(r) PROVE TypeOK'
  BY <1>2 DEF RejectUnregistered
<1>3. ASSUME NEW r \in Request, DenyRole(r) PROVE TypeOK'
  BY <1>3 DEF DenyRole
<1>4. ASSUME NEW r \in Request, PassRole(r) PROVE TypeOK'
  BY <1>4 DEF PassRole
<1>5. ASSUME NEW r \in Request, ForbidOwnership(r) PROVE TypeOK'
  BY <1>5 DEF ForbidOwnership
<1>6. ASSUME NEW r \in Request, GrantOwnership(r) PROVE TypeOK'
  BY <1>6 DEF GrantOwnership
<1>7. ASSUME NEW r \in Request, RequireConfirmation(r) PROVE TypeOK'
  BY <1>7 DEF RequireConfirmation
<1>8. ASSUME NEW r \in Request, PassConfirmation(r) PROVE TypeOK'
  BY <1>8 DEF PassConfirmation
<1>9. ASSUME NEW r \in Request, Replay(r) PROVE TypeOK'
  BY <1>9, SlotType DEF GateInv, Replay
<1>10. ASSUME NEW r \in Request, Miss(r) PROVE TypeOK'
  BY <1>10 DEF Miss
<1>11. ASSUME NEW r \in Request, LookupFails(r) PROVE TypeOK'
  BY <1>11 DEF LookupFails
<1>12. ASSUME NEW r \in Request, InsertPending(r) PROVE TypeOK'
  BY <1>12 DEF InsertPending
<1>13. ASSUME NEW r \in Request, ExecuteOk(r) PROVE TypeOK'
  BY <1>13 DEF ExecuteOk
<1>14. ASSUME NEW r \in Request, ExecuteFails(r) PROVE TypeOK'
  BY <1>14 DEF ExecuteFails
<1>15. ASSUME NEW r \in Request, Store(r) PROVE TypeOK'
  BY <1>15, SlotType DEF GateInv, Store
<1>16. ASSUME NEW r \in Request, StoreFails(r) PROVE TypeOK'
  BY <1>16 DEF StoreFails
<1>17. ASSUME NEW r \in Request, RecordExecuted(r) PROVE TypeOK'
  BY <1>17 DEF RecordExecuted
<1>18. ASSUME NEW r \in Request, Commit(r) PROVE TypeOK'
  BY <1>18 DEF Commit
<1>19. ASSUME NEW r \in Request, RollBack(r) PROVE TypeOK'
  BY <1>19 DEF RollBack
<1>20. ASSUME NEW r \in Request, Abort(r) PROVE TypeOK'
  BY <1>20 DEF Abort, Active
<1>21. ASSUME NEW s \in Tool \X Key, Expire(s) PROVE TypeOK'
  BY <1>21 DEF Expire
<1>22. CASE UNCHANGED vars
  BY <1>22 DEF vars
<1>23. QED
  BY <1>1, <1>2, <1>3, <1>4, <1>5, <1>6, <1>7, <1>8, <1>9, <1>10, <1>11, <1>12, <1>13, <1>14, <1>15, <1>16, <1>17, <1>18, <1>19, <1>20, <1>21, <1>22
     DEF Next, Invoke

\* No gate is skipped.
LEMMA NextGateInv ==
  IInv /\ [Next]_vars => GateInv'
<1> SUFFICES ASSUME IInv, [Next]_vars PROVE GateInv'
  OBVIOUS
<1> USE DEF IInv, TypeOK, GateInv, RetryInv, RowInv, Early, Cleared, Locations, Permitted, RoleAllowed, Keyed, NeedsConfirmation, Goto, Raise
<1>1. ASSUME NEW r \in Request, Submit(r) PROVE GateInv'
  BY <1>1 DEF Submit
<1>2. ASSUME NEW r \in Request, RejectUnregistered(r) PROVE GateInv'
  BY <1>2 DEF RejectUnregistered
<1>3. ASSUME NEW r \in Request, DenyRole(r) PROVE GateInv'
  BY <1>3 DEF DenyRole
<1>4. ASSUME NEW r \in Request, PassRole(r) PROVE GateInv'
  BY <1>4 DEF PassRole
<1>5. ASSUME NEW r \in Request, ForbidOwnership(r) PROVE GateInv'
  BY <1>5 DEF ForbidOwnership
<1>6. ASSUME NEW r \in Request, GrantOwnership(r) PROVE GateInv'
  BY <1>6 DEF GrantOwnership
<1>7. ASSUME NEW r \in Request, RequireConfirmation(r) PROVE GateInv'
  BY <1>7 DEF RequireConfirmation
<1>8. ASSUME NEW r \in Request, PassConfirmation(r) PROVE GateInv'
  BY <1>8 DEF PassConfirmation
<1>9. ASSUME NEW r \in Request, Replay(r) PROVE GateInv'
  BY <1>9 DEF Replay
<1>10. ASSUME NEW r \in Request, Miss(r) PROVE GateInv'
  BY <1>10 DEF Miss
<1>11. ASSUME NEW r \in Request, LookupFails(r) PROVE GateInv'
  BY <1>11 DEF LookupFails
<1>12. ASSUME NEW r \in Request, InsertPending(r) PROVE GateInv'
  BY <1>12 DEF InsertPending
<1>13. ASSUME NEW r \in Request, ExecuteOk(r) PROVE GateInv'
  BY <1>13 DEF ExecuteOk
<1>14. ASSUME NEW r \in Request, ExecuteFails(r) PROVE GateInv'
  BY <1>14 DEF ExecuteFails
<1>15. ASSUME NEW r \in Request, Store(r) PROVE GateInv'
  BY <1>15 DEF Store
<1>16. ASSUME NEW r \in Request, StoreFails(r) PROVE GateInv'
  BY <1>16 DEF StoreFails
<1>17. ASSUME NEW r \in Request, RecordExecuted(r) PROVE GateInv'
  BY <1>17 DEF RecordExecuted
<1>18. ASSUME NEW r \in Request, Commit(r) PROVE GateInv'
  BY <1>18 DEF Commit
<1>19. ASSUME NEW r \in Request, RollBack(r) PROVE GateInv'
  BY <1>19 DEF RollBack
<1>20. ASSUME NEW r \in Request, Abort(r) PROVE GateInv'
  BY <1>20 DEF Abort, Active
<1>21. ASSUME NEW s \in Tool \X Key, Expire(s) PROVE GateInv'
  BY <1>21 DEF Expire
<1>22. CASE UNCHANGED vars
  BY <1>22 DEF vars
<1>23. QED
  BY <1>1, <1>2, <1>3, <1>4, <1>5, <1>6, <1>7, <1>8, <1>9, <1>10, <1>11, <1>12, <1>13, <1>14, <1>15, <1>16, <1>17, <1>18, <1>19, <1>20, <1>21, <1>22
     DEF Next, Invoke

\* Row, audit entry and effect go together.
LEMMA NextRowInv ==
  IInv /\ [Next]_vars => RowInv'
<1> SUFFICES ASSUME IInv, [Next]_vars PROVE RowInv'
  OBVIOUS
<1> USE DEF IInv, TypeOK, Early, Cleared, Locations, RowStatus, AuditAction, Replies, Goto, Raise, RowInv
<1>1. ASSUME NEW r \in Request, Submit(r) PROVE RowInv'
  BY <1>1 DEF Submit
<1>2. ASSUME NEW r \in Request, RejectUnregistered(r) PROVE RowInv'
  BY <1>2 DEF RejectUnregistered
<1>3. ASSUME NEW r \in Request, DenyRole(r) PROVE RowInv'
  BY <1>3 DEF DenyRole
<1>4. ASSUME NEW r \in Request, PassRole(r) PROVE RowInv'
  BY <1>4 DEF PassRole
<1>5. ASSUME NEW r \in Request, ForbidOwnership(r) PROVE RowInv'
  BY <1>5 DEF ForbidOwnership
<1>6. ASSUME NEW r \in Request, GrantOwnership(r) PROVE RowInv'
  BY <1>6 DEF GrantOwnership
<1>7. ASSUME NEW r \in Request, RequireConfirmation(r) PROVE RowInv'
  BY <1>7 DEF RequireConfirmation
<1>8. ASSUME NEW r \in Request, PassConfirmation(r) PROVE RowInv'
  BY <1>8 DEF PassConfirmation
<1>9. ASSUME NEW r \in Request, Replay(r) PROVE RowInv'
  BY <1>9 DEF Replay
<1>10. ASSUME NEW r \in Request, Miss(r) PROVE RowInv'
  BY <1>10 DEF Miss
<1>11. ASSUME NEW r \in Request, LookupFails(r) PROVE RowInv'
  BY <1>11 DEF LookupFails
<1>12. ASSUME NEW r \in Request, InsertPending(r) PROVE RowInv'
  BY <1>12 DEF InsertPending
<1>13. ASSUME NEW r \in Request, ExecuteOk(r) PROVE RowInv'
  BY <1>13 DEF ExecuteOk
<1>14. ASSUME NEW r \in Request, ExecuteFails(r) PROVE RowInv'
  BY <1>14 DEF ExecuteFails
<1>15. ASSUME NEW r \in Request, Store(r) PROVE RowInv'
  BY <1>15 DEF Store
<1>16. ASSUME NEW r \in Request, StoreFails(r) PROVE RowInv'
  BY <1>16 DEF StoreFails, AnswerInv
<1>17. ASSUME NEW r \in Request, RecordExecuted(r) PROVE RowInv'
  BY <1>17 DEF RecordExecuted, AnswerInv
<1>18. ASSUME NEW r \in Request, Commit(r) PROVE RowInv'
  BY <1>18 DEF Commit
<1>19. ASSUME NEW r \in Request, RollBack(r) PROVE RowInv'
  BY <1>19 DEF RollBack
<1>20. ASSUME NEW r \in Request, Abort(r) PROVE RowInv'
  BY <1>20 DEF Abort, Active
<1>21. ASSUME NEW s \in Tool \X Key, Expire(s) PROVE RowInv'
  BY <1>21 DEF Expire
<1>22. CASE UNCHANGED vars
  BY <1>22 DEF vars
<1>23. QED
  BY <1>1, <1>2, <1>3, <1>4, <1>5, <1>6, <1>7, <1>8, <1>9, <1>10, <1>11, <1>12, <1>13, <1>14, <1>15, <1>16, <1>17, <1>18, <1>19, <1>20, <1>21, <1>22
     DEF Next, Invoke

\* What a commit makes visible is consistent.
LEMMA NextHistory ==
  IInv /\ [Next]_vars => HistoryIsTruthful'
<1> SUFFICES ASSUME IInv, [Next]_vars PROVE HistoryIsTruthful'
  OBVIOUS
<1> USE DEF IInv, TypeOK, Early, Cleared, Locations, RowStatus, AuditAction, Replies, Goto, Raise, RowInv, HistoryIsTruthful
<1>1. ASSUME NEW r \in Request, Submit(r) PROVE HistoryIsTruthful'
  BY <1>1 DEF Submit
<1>2. ASSUME NEW r \in Request, RejectUnregistered(r) PROVE HistoryIsTruthful'
  BY <1>2 DEF RejectUnregistered
<1>3. ASSUME NEW r \in Request, DenyRole(r) PROVE HistoryIsTruthful'
  BY <1>3 DEF DenyRole
<1>4. ASSUME NEW r \in Request, PassRole(r) PROVE HistoryIsTruthful'
  BY <1>4 DEF PassRole
<1>5. ASSUME NEW r \in Request, ForbidOwnership(r) PROVE HistoryIsTruthful'
  BY <1>5 DEF ForbidOwnership
<1>6. ASSUME NEW r \in Request, GrantOwnership(r) PROVE HistoryIsTruthful'
  BY <1>6 DEF GrantOwnership
<1>7. ASSUME NEW r \in Request, RequireConfirmation(r) PROVE HistoryIsTruthful'
  BY <1>7 DEF RequireConfirmation
<1>8. ASSUME NEW r \in Request, PassConfirmation(r) PROVE HistoryIsTruthful'
  BY <1>8 DEF PassConfirmation
<1>9. ASSUME NEW r \in Request, Replay(r) PROVE HistoryIsTruthful'
  BY <1>9 DEF Replay
<1>10. ASSUME NEW r \in Request, Miss(r) PROVE HistoryIsTruthful'
  BY <1>10 DEF Miss
<1>11. ASSUME NEW r \in Request, LookupFails(r) PROVE HistoryIsTruthful'
  BY <1>11 DEF LookupFails
<1>12. ASSUME NEW r \in Request, InsertPending(r) PROVE HistoryIsTruthful'
  BY <1>12 DEF InsertPending
<1>13. ASSUME NEW r \in Request, ExecuteOk(r) PROVE HistoryIsTruthful'
  BY <1>13 DEF ExecuteOk
<1>14. ASSUME NEW r \in Request, ExecuteFails(r) PROVE HistoryIsTruthful'
  BY <1>14 DEF ExecuteFails
<1>15. ASSUME NEW r \in Request, Store(r) PROVE HistoryIsTruthful'
  BY <1>15 DEF Store
<1>16. ASSUME NEW r \in Request, StoreFails(r) PROVE HistoryIsTruthful'
  BY <1>16 DEF StoreFails
<1>17. ASSUME NEW r \in Request, RecordExecuted(r) PROVE HistoryIsTruthful'
  BY <1>17 DEF RecordExecuted
<1>18. ASSUME NEW r \in Request, Commit(r) PROVE HistoryIsTruthful'
  BY <1>18 DEF Commit
<1>19. ASSUME NEW r \in Request, RollBack(r) PROVE HistoryIsTruthful'
  BY <1>19 DEF RollBack
<1>20. ASSUME NEW r \in Request, Abort(r) PROVE HistoryIsTruthful'
  BY <1>20 DEF Abort, Active
<1>21. ASSUME NEW s \in Tool \X Key, Expire(s) PROVE HistoryIsTruthful'
  BY <1>21 DEF Expire
<1>22. CASE UNCHANGED vars
  BY <1>22 DEF vars
<1>23. QED
  BY <1>1, <1>2, <1>3, <1>4, <1>5, <1>6, <1>7, <1>8, <1>9, <1>10, <1>11, <1>12, <1>13, <1>14, <1>15, <1>16, <1>17, <1>18, <1>19, <1>20, <1>21, <1>22
     DEF Next, Invoke

\* A request that arrives has done nothing yet and leaves the calls of the
\* others, and so their slots, alone.
LEMMA SubmitFrame ==
  ASSUME IInv, NEW r \in Request, Submit(r)
  PROVE  /\ r \notin executed /\ reply[r] # "ok" /\ pc[r] = "idle" /\ pc'[r] = "role"
         /\ UNCHANGED <<idem, executed, expired, answer, reply>>
         /\ before'[r] = {q \in Request : pc[q] = "done"}
         /\ \A q \in Request \ {r} :
               /\ pc'[q] = pc[q] /\ before'[q] = before[q]
               /\ Keyed(q)' = Keyed(q) /\ Slot(q)' = Slot(q)
         /\ \A p, q \in Request \ {r} : SameSlot(p, q)' = SameSlot(p, q)
<1>1. pc[r] = "idle" /\ pc'[r] = "role"
  BY DEF IInv, TypeOK, Submit, Goto
<1>2. r \notin executed /\ reply[r] # "ok"
  BY <1>1 DEF IInv, RowInv, RetryInv, Early
<1>3. UNCHANGED <<idem, executed, expired, answer, reply>>
  BY DEF Submit
<1>4. before'[r] = {q \in Request : pc[q] = "done"}
  BY DEF IInv, TypeOK, Submit
<1>5. \A q \in Request \ {r} : pc'[q] = pc[q] /\ before'[q] = before[q] /\ call'[q] = call[q]
  BY DEF IInv, TypeOK, Submit, Goto
<1>6. \A q \in Request \ {r} : Keyed(q)' = Keyed(q) /\ Slot(q)' = Slot(q)
  BY <1>5 DEF Keyed, Slot
<1>7. \A p, q \in Request \ {r} : SameSlot(p, q)' = SameSlot(p, q)
  BY <1>5 DEF SameSlot, Keyed, Slot
<1>8. QED
  BY <1>1, <1>2, <1>3, <1>4, <1>5, <1>6, <1>7

\* A new request has no answer yet, and disturbs no answer of another one.
LEMMA SubmitAnswerInv ==
  ASSUME IInv, NEW r \in Request, Submit(r)
  PROVE  AnswerInv'
<1> USE SubmitFrame
<1>1. ASSUME NEW s \in Tool \X Key, idem[s] # None
      PROVE  idem[s] \in executed /\ Keyed(idem[s])' /\ Slot(idem[s])' = s
  <2>1. idem[s] \in executed /\ Keyed(idem[s]) /\ Slot(idem[s]) = s
    BY <1>1 DEF IInv, AnswerInv
  <2>2. idem[s] \in Request \ {r}
    BY <2>1 DEF IInv, TypeOK
  <2>3. QED
    BY <2>1, <2>2
<1>2. ASSUME NEW q \in Request, pc'[q] \in {"store", "audit"}
      PROVE  answer[q] = q /\ q \in executed
  BY <1>2 DEF IInv, AnswerInv
<1>3. ASSUME NEW q \in Request, pc'[q] = "returned" \/ reply[q] = "ok"
      PROVE  /\ answer[q] \in executed
             /\ q \in executed => answer[q] = q
             /\ q \notin executed => SameSlot(q, answer[q])'
  <2>1. q # r
    BY <1>3
  <2>2. /\ answer[q] \in executed
        /\ q \in executed => answer[q] = q
        /\ q \notin executed => SameSlot(q, answer[q])
    BY <1>3, <2>1 DEF IInv, AnswerInv
  <2>3. answer[q] \in Request \ {r}
    BY <2>2 DEF IInv, TypeOK
  <2>4. QED
    BY <2>1, <2>2, <2>3
<1>4. QED
  BY <1>1, <1>2, <1>3 DEF AnswerInv

\* A new request is not among the retries whose stored result is promised,
\* until it looks its key up.
LEMMA SubmitRetryInv ==
  ASSUME IInv, NEW r \in Request, Submit(r)
  PROVE  RetryInv'
<1> USE SubmitFrame
<1>1. ASSUME NEW p \in Request, reply[p] = "ok" PROVE pc'[p] = "done"
  BY <1>1 DEF IInv, RetryInv
<1>2. ASSUME NEW p \in Request, NEW q \in before'[p]
      PROVE  q \in Request \ {r} /\ pc'[q] = "done"
  <2>1. q \in Request /\ pc[q] = "done"
    BY <1>2 DEF IInv, RetryInv, TypeOK
  <2>2. QED
    BY <2>1
<1>3. ASSUME NEW p \in Request, pc'[p] \in {"audit", "returned"} \/ reply[p] = "ok", Keyed(p)'
      PROVE  idem[Slot(p)'] # None \/ Slot(p)' \in expired
  <2>1. p # r
    BY <1>3
  <2>2. QED
    BY <1>3, <2>1 DEF IInv, RetryInv
<1>4. ASSUME NEW p \in Request, pc'[p] \in {"insert", "execute"} \/ p \in executed,
             NEW q \in before'[p], reply[q] = "ok", SameSlot(q, p)'
      PROVE  Slot(p)' \in expired
  <2>1. p # r
    BY <1>4
  <2>2. q \in before[p] /\ SameSlot(q, p) /\ q \in Request
    BY <1>2, <1>4, <2>1
  <2>3. Slot(p) \in expired
    BY <1>4, <2>1, <2>2 DEF IInv, RetryInv
  <2>4. QED
    BY <2>1, <2>3
<1>5. QED
  BY <1>1, <1>2, <1>3, <1>4 DEF RetryInv

\* A hit sends the request to "returned" with its slot filled; a miss means
\* that whatever was answered under the slot before has expired.
LEMMA LookupRetryInv ==
  ASSUME IInv, NEW r \in Request, Replay(r) \/ Miss(r)
  PROVE  RetryInv'
<1>1. pc[r] = "idem" /\ pc'[r] \in {"returned", "insert"} /\ r \notin executed
  BY DEF IInv, TypeOK, RowInv, Early, Replay, Miss, Goto
<1>2. \A q \in Request \ {r} : pc'[q] = pc[q]
  BY DEF IInv, TypeOK, Replay, Miss, Goto
<1>3. UNCHANGED <<call, idem, executed, expired, reply, before>>
  BY DEF Replay, Miss
<1>4. \A p \in Request : Keyed(p)' = Keyed(p) /\ Slot(p)' = Slot(p)
  BY <1>3 DEF Keyed, Slot
<1>5. \A p, q \in Request : SameSlot(p, q)' = SameSlot(p, q)
  BY <1>3 DEF SameSlot, Keyed, Slot
<1>6. before \in [Request -> SUBSET Request]
  BY DEF IInv, TypeOK
<1>7. pc'[r] = "returned" => idem[Slot(r)] # None
  BY DEF IInv, TypeOK, Replay, Miss, Goto
<1>8. pc'[r] = "insert" => idem[Slot(r)] = None
  BY DEF IInv, TypeOK, Replay, Miss, Goto
<1>9. ASSUME NEW p \in Request, reply[p] = "ok" PROVE pc'[p] = "done"
  BY <1>1, <1>2, <1>9 DEF IInv, RetryInv
<1>10. ASSUME NEW p \in Request, NEW q \in before[p] PROVE pc'[q] = "done"
  BY <1>1, <1>2, <1>6 DEF IInv, RetryInv
<1>11. ASSUME NEW p \in Request, pc'[p] \in {"audit", "returned"} \/ reply[p] = "ok", Keyed(p)
       PROVE  idem[Slot(p)] # None \/ Slot(p) \in expired
  BY <1>1, <1>2, <1>7, <1>11 DEF IInv, RetryInv
<1>12. ASSUME NEW p \in Request, pc'[p] \in {"insert", "execute"} \/ p \in executed,
              NEW q \in before[p], reply[q] = "ok", SameSlot(q, p)
       PROVE  Slot(p) \in expired
  <2>1. q \in Request /\ Slot(q) = Slot(p) /\ Keyed(q)
    BY <1>6, <1>12 DEF SameSlot
  <2>2. CASE p = r
    <3>1. idem[Slot(q)] # None \/ Slot(q) \in expired
      BY <1>12, <2>1 DEF IInv, RetryInv
    <3>2. QED
      BY <1>1, <1>8, <1>12, <2>1, <2>2, <3>1
  <2>3. CASE p # r
    BY <1>2, <1>12, <2>3 DEF IInv, RetryInv
  <2>4. QED
    BY <2>2, <2>3
<1>13. QED
  BY <1>3, <1>4, <1>5, <1>6, <1>9, <1>10, <1>11, <1>12 DEF RetryInv

\* Results come from executions.
LEMMA NextAnswerInv ==
  IInv /\ [Next]_vars => AnswerInv'
<1> SUFFICES ASSUME IInv, [Next]_vars PROVE AnswerInv'
  OBVIOUS
<1> USE DEF IInv, TypeOK, Early, Cleared, Locations, RowStatus, AuditAction, Replies, Goto, Raise, RowInv, RetryInv, AnswerInv, GateInv, SameSlot, Keyed, Slot
<1>1. ASSUME NEW r \in Request, Submit(r) PROVE AnswerInv'
  BY <1>1, SubmitAnswerInv
<1>2. ASSUME NEW r \in Request, RejectUnregistered(r) PROVE AnswerInv'
  BY <1>2 DEF RejectUnregistered
<1>3. ASSUME NEW r \in Request, DenyRole(r) PROVE AnswerInv'
  BY <1>3 DEF DenyRole
<1>4. ASSUME NEW r \in Request, PassRole(r) PROVE AnswerInv'
  BY <1>4 DEF PassRole
<1>5. ASSUME NEW r \in Request, ForbidOwnership(r) PROVE AnswerInv'
  BY <1>5 DEF ForbidOwnership
<1>6. ASSUME NEW r \in Request, GrantOwnership(r) PROVE AnswerInv'
  BY <1>6 DEF GrantOwnership
<1>7. ASSUME NEW r \in Request, RequireConfirmation(r) PROVE AnswerInv'
  BY <1>7 DEF RequireConfirmation
<1>8. ASSUME NEW r \in Request, PassConfirmation(r) PROVE AnswerInv'
  BY <1>8 DEF PassConfirmation
<1>9. ASSUME NEW r \in Request, Replay(r) PROVE AnswerInv'
  BY <1>9, SlotType DEF Replay
<1>10. ASSUME NEW r \in Request, Miss(r) PROVE AnswerInv'
  BY <1>10 DEF Miss
<1>11. ASSUME NEW r \in Request, LookupFails(r) PROVE AnswerInv'
  BY <1>11 DEF LookupFails
<1>12. ASSUME NEW r \in Request, InsertPending(r) PROVE AnswerInv'
  BY <1>12 DEF InsertPending
<1>13. ASSUME NEW r \in Request, ExecuteOk(r) PROVE AnswerInv'
  BY <1>13 DEF ExecuteOk
<1>14. ASSUME NEW r \in Request, ExecuteFails(r) PROVE AnswerInv'
  BY <1>14 DEF ExecuteFails
<1>15. ASSUME NEW r \in Request, Store(r) PROVE AnswerInv'
  BY <1>15, SlotType DEF Store
<1>16. ASSUME NEW r \in Request, StoreFails(r) PROVE AnswerInv'
  BY <1>16 DEF StoreFails
<1>17. ASSUME NEW r \in Request, RecordExecuted(r) PROVE AnswerInv'
  BY <1>17 DEF RecordExecuted
<1>18. ASSUME NEW r \in Request, Commit(r) PROVE AnswerInv'
  BY <1>18 DEF Commit
<1>19. ASSUME NEW r \in Request, RollBack(r) PROVE AnswerInv'
  BY <1>19 DEF RollBack
<1>20. ASSUME NEW r \in Request, Abort(r) PROVE AnswerInv'
  BY <1>20 DEF Abort, Active
<1>21. ASSUME NEW s \in Tool \X Key, Expire(s) PROVE AnswerInv'
  BY <1>21 DEF Expire
<1>22. CASE UNCHANGED vars
  BY <1>22 DEF vars
<1>23. QED
  BY <1>1, <1>2, <1>3, <1>4, <1>5, <1>6, <1>7, <1>8, <1>9, <1>10, <1>11, <1>12, <1>13, <1>14, <1>15, <1>16, <1>17, <1>18, <1>19, <1>20, <1>21, <1>22
     DEF Next, Invoke

\* Answers stay available to later retries.
LEMMA NextRetryInv ==
  IInv /\ [Next]_vars => RetryInv'
<1> SUFFICES ASSUME IInv, [Next]_vars PROVE RetryInv'
  OBVIOUS
<1> USE DEF IInv, TypeOK, Early, Cleared, Locations, RowStatus, AuditAction, Replies, Goto, Raise, RowInv, RetryInv, GateInv, AnswerInv, SameSlot, Keyed, Slot
<1>1. ASSUME NEW r \in Request, Submit(r) PROVE RetryInv'
  BY <1>1, SubmitRetryInv
<1>2. ASSUME NEW r \in Request, RejectUnregistered(r) PROVE RetryInv'
  BY <1>2 DEF RejectUnregistered
<1>3. ASSUME NEW r \in Request, DenyRole(r) PROVE RetryInv'
  BY <1>3 DEF DenyRole
<1>4. ASSUME NEW r \in Request, PassRole(r) PROVE RetryInv'
  BY <1>4 DEF PassRole
<1>5. ASSUME NEW r \in Request, ForbidOwnership(r) PROVE RetryInv'
  BY <1>5 DEF ForbidOwnership
<1>6. ASSUME NEW r \in Request, GrantOwnership(r) PROVE RetryInv'
  BY <1>6 DEF GrantOwnership
<1>7. ASSUME NEW r \in Request, RequireConfirmation(r) PROVE RetryInv'
  BY <1>7 DEF RequireConfirmation
<1>8. ASSUME NEW r \in Request, PassConfirmation(r) PROVE RetryInv'
  BY <1>8 DEF PassConfirmation
<1>9. ASSUME NEW r \in Request, Replay(r) PROVE RetryInv'
  BY <1>9, LookupRetryInv
<1>10. ASSUME NEW r \in Request, Miss(r) PROVE RetryInv'
  BY <1>10, LookupRetryInv
<1>11. ASSUME NEW r \in Request, LookupFails(r) PROVE RetryInv'
  BY <1>11 DEF LookupFails
<1>12. ASSUME NEW r \in Request, InsertPending(r) PROVE RetryInv'
  BY <1>12 DEF InsertPending
<1>13. ASSUME NEW r \in Request, ExecuteOk(r) PROVE RetryInv'
  BY <1>13 DEF ExecuteOk
<1>14. ASSUME NEW r \in Request, ExecuteFails(r) PROVE RetryInv'
  BY <1>14 DEF ExecuteFails
<1>15. ASSUME NEW r \in Request, Store(r) PROVE RetryInv'
  BY <1>15, SlotType DEF Store
<1>16. ASSUME NEW r \in Request, StoreFails(r) PROVE RetryInv'
  BY <1>16 DEF StoreFails
<1>17. ASSUME NEW r \in Request, RecordExecuted(r) PROVE RetryInv'
  BY <1>17 DEF RecordExecuted
<1>18. ASSUME NEW r \in Request, Commit(r) PROVE RetryInv'
  BY <1>18 DEF Commit
<1>19. ASSUME NEW r \in Request, RollBack(r) PROVE RetryInv'
  BY <1>19 DEF RollBack
<1>20. ASSUME NEW r \in Request, Abort(r) PROVE RetryInv'
  BY <1>20 DEF Abort, Active
<1>21. ASSUME NEW s \in Tool \X Key, Expire(s) PROVE RetryInv'
  BY <1>21 DEF Expire
<1>22. CASE UNCHANGED vars
  BY <1>22 DEF vars
<1>23. QED
  BY <1>1, <1>2, <1>3, <1>4, <1>5, <1>6, <1>7, <1>8, <1>9, <1>10, <1>11, <1>12, <1>13, <1>14, <1>15, <1>16, <1>17, <1>18, <1>19, <1>20, <1>21, <1>22
     DEF Next, Invoke

\* The inductive invariant holds of every behaviour of the router.
LEMMA Inductive == Spec => []IInv
<1>1. IInv /\ [Next]_vars => IInv'
  BY NextTypeOK, NextGateInv, NextAnswerInv, NextRetryInv, NextRowInv, NextHistory DEF IInv
<1>2. QED
  BY InitIInv, <1>1, PTL DEF Spec
-----------------------------------------------------------------------------
\* Every variable of the pipeline keeps its type.
THEOREM TypeCorrect == Spec => []TypeOK
<1>1. IInv => TypeOK
  BY DEF IInv
<1>2. QED
  BY Inductive, <1>1, PTL

\* Nothing is done for, or answered to, a call that did not pass every gate.
THEOREM GatesHold == Spec => []Gated
<1>1. IInv => Gated
  BY DEF IInv, GateInv, Gated
<1>2. QED
  BY Inductive, <1>1, PTL

\* Every answer is the result of an execution that took place.
THEOREM AnswersHold == Spec => []AnswersAreReal
<1>1. IInv => AnswersAreReal
  BY DEF IInv, AnswerInv, AnswersAreReal
<1>2. QED
  BY Inductive, <1>1, PTL

\* A retry that arrives after the answer, within the TTL, is never executed.
THEOREM RetriesAreReplayed == Spec => []RetryIsReplayed
<1>1. IInv => RetryIsReplayed
  BY DEF IInv, RetryInv, RetryIsReplayed
<1>2. QED
  BY Inductive, <1>1, PTL

\* What commits make visible is consistent with what happened upstream.
THEOREM HistoryHolds == Spec => []HistoryIsTruthful
<1>1. IInv => HistoryIsTruthful
  BY DEF IInv
<1>2. QED
  BY Inductive, <1>1, PTL
-----------------------------------------------------------------------------
(***************************************************************************)
(* ToolRouter implements ToolService for every value of the constants: the *)
(* refinement mapping is Phase, call, executed and Source of ToolRouter,   *)
(* and the steps of invoke map as follows.                                 *)
(*   Submit                         Open                                   *)
(*   ExecuteOk                      TakeEffect                             *)
(*   Commit after an execution      Answer   (Lose if invoke had raised)   *)
(*   Commit after a replay          Reuse    (Refuse if it had raised)     *)
(*   RollBack, Abort                Lose after an execution, else Refuse   *)
(*   every other step               stutters                               *)
(***************************************************************************)

svars == <<Phase, call, executed, Source>>

\* The phase of a request and the answer it has shown depend on its own part
\* of the state only.
LEMMA MapFrame ==
  ASSUME NEW r \in Request,
         \A q \in Request \ {r} :
            pc'[q] = pc[q] /\ reply'[q] = reply[q] /\ answer'[q] = answer[q]
            /\ (q \in executed' <=> q \in executed)
  PROVE  /\ Phase' = [Phase EXCEPT ![r] = Phase'[r]]
         /\ Source' = [Source EXCEPT ![r] = Source'[r]]
BY DEF Phase, Source

\* A step inside invoke, with no effect at GoRush: the mapping stutters.
LEMMA InnerStep ==
  ASSUME IInv, NEW r \in Request,
         \/ RejectUnregistered(r) \/ DenyRole(r) \/ PassRole(r)
         \/ ForbidOwnership(r) \/ GrantOwnership(r)
         \/ RequireConfirmation(r) \/ PassConfirmation(r)
         \/ Replay(r) \/ Miss(r) \/ LookupFails(r)
         \/ InsertPending(r) \/ ExecuteFails(r)
         \/ Store(r) \/ StoreFails(r) \/ RecordExecuted(r)
  PROVE  UNCHANGED svars
<1>1. UNCHANGED <<call, executed>>
  BY DEF RejectUnregistered, DenyRole, PassRole, ForbidOwnership, GrantOwnership,
         RequireConfirmation, PassConfirmation, Replay, Miss, LookupFails, InsertPending,
         ExecuteFails, Store, StoreFails, RecordExecuted
<1>2. pc[r] \notin {"idle", "done"} /\ pc'[r] \notin {"idle", "done"}
  BY DEF RejectUnregistered, DenyRole, PassRole, ForbidOwnership, GrantOwnership,
         RequireConfirmation, PassConfirmation, Replay, Miss, LookupFails, InsertPending,
         ExecuteFails, Store, StoreFails, RecordExecuted, Goto, Raise, IInv, TypeOK
<1>3. \A q \in Request \ {r} :
         pc'[q] = pc[q] /\ reply'[q] = reply[q] /\ answer'[q] = answer[q]
  BY DEF RejectUnregistered, DenyRole, PassRole, ForbidOwnership, GrantOwnership,
         RequireConfirmation, PassConfirmation, Replay, Miss, LookupFails, InsertPending,
         ExecuteFails, Store, StoreFails, RecordExecuted, Goto, Raise, IInv, TypeOK
<1>4. Phase' = Phase
  BY <1>1, <1>2, <1>3 DEF Phase
<1>5. Source' = Source
  BY <1>1, <1>2, <1>3 DEF Source
<1>6. QED
  BY <1>1, <1>4, <1>5 DEF svars

\* A request that comes in opens a call of the service.
LEMMA SubmitOpens ==
  ASSUME IInv, NEW r \in Request, Submit(r)
  PROVE  Service!Open(r)
<1>1. pc[r] = "idle" /\ pc'[r] = "role" /\ r \notin executed /\ executed' = executed
  BY SubmitFrame
<1>2. \A q \in Request \ {r} : pc'[q] = pc[q]
  BY SubmitFrame
<1>3. UNCHANGED <<reply, answer, executed>>
  BY SubmitFrame
<1>4. Phase[r] = "idle" /\ Phase'[r] = "open"
  BY <1>1 DEF Phase
<1>5. Phase' = [Phase EXCEPT ![r] = "open"] /\ Source' = [Source EXCEPT ![r] = Source'[r]]
  BY <1>2, <1>3, <1>4, MapFrame
<1>6. Source[r] = None /\ Source'[r] = None
  BY <1>1 DEF Source
<1>7. Source' = Source
  BY <1>5, <1>6 DEF Source
<1>8. \E c \in Call : call' = [call EXCEPT ![r] = c]
  BY DEF Submit
<1>9. QED
  BY <1>3, <1>4, <1>5, <1>7, <1>8 DEF Service!Open, Service!Move

\* The tool's execution is the one moment the service's call takes effect.
LEMMA ExecuteTakesEffect ==
  ASSUME IInv, NEW r \in Request, ExecuteOk(r)
  PROVE  Service!TakeEffect(r)
<1>1. pc[r] = "execute" /\ pc'[r] \in {"store", "audit"} /\ r \notin executed
  BY DEF IInv, TypeOK, RowInv, ExecuteOk, Goto
<1>2. executed' = executed \cup {r} /\ call' = call
  BY DEF ExecuteOk
<1>3. \A q \in Request \ {r} :
         pc'[q] = pc[q] /\ reply'[q] = reply[q] /\ answer'[q] = answer[q]
  BY DEF IInv, TypeOK, ExecuteOk, Goto
<1>4. Phase[r] = "open" /\ Phase'[r] = "effective"
  BY <1>1, <1>2 DEF Phase
<1>5. Phase' = [Phase EXCEPT ![r] = "effective"] /\ Source' = [Source EXCEPT ![r] = Source'[r]]
  BY <1>2, <1>3, <1>4, MapFrame
<1>6. Source[r] = None /\ Source'[r] = None
  BY <1>1 DEF Source
<1>7. Source' = Source
  BY <1>5, <1>6 DEF Source
<1>8. call[r] \in AllowedCall
  <2>1. Permitted(r) /\ call[r] \in Call
    BY <1>1 DEF IInv, GateInv, TypeOK, Cleared
  <2>2. QED
    BY <2>1 DEF Permitted, AllowedCall
<1>9. QED
  BY <1>2, <1>4, <1>5, <1>7, <1>8 DEF Service!TakeEffect, Service!Move

\* The three ways a transaction ends.
LEMMA EndMaps ==
  ASSUME IInv, NEW r \in Request, Commit(r) \/ RollBack(r) \/ Abort(r)
  PROVE  Service!Answer(r) \/ Service!Reuse(r) \/ Service!Lose(r) \/ Service!Refuse(r)
<1>1. pc[r] \notin {"idle", "done"} /\ pc'[r] = "done"
  BY DEF IInv, TypeOK, Commit, RollBack, Abort, Active, Goto
<1>2. UNCHANGED <<call, executed, answer>>
  BY DEF Commit, RollBack, Abort
<1>3. \A q \in Request \ {r} : pc'[q] = pc[q] /\ reply'[q] = reply[q]
  BY DEF IInv, TypeOK, Commit, RollBack, Abort, Goto
<1>4. reply'[r] = "ok" => pc[r] = "returned"
  BY DEF IInv, TypeOK, RetryInv, Commit, RollBack, Abort, Goto
<1>5. Phase' = [Phase EXCEPT ![r] = Phase'[r]] /\ Source' = [Source EXCEPT ![r] = Source'[r]]
  BY <1>2, <1>3, MapFrame
<1>6. Phase[r] = (IF r \in executed THEN "effective" ELSE "open") /\ Source[r] = None
  BY <1>1 DEF Phase, Source
<1>7. CASE reply'[r] # "ok"
  <2>1. Source'[r] = None /\ Phase'[r] = (IF r \in executed THEN "dropped" ELSE "refused")
    BY <1>1, <1>2, <1>7 DEF Source, Phase
  <2>2. Source' = Source
    BY <1>5, <1>6, <2>1 DEF Source
  <2>3. QED
    BY <1>2, <1>5, <1>6, <2>1, <2>2 DEF Service!Lose, Service!Refuse, Service!Move
<1>8. CASE reply'[r] = "ok"
  <2>1. Source'[r] = answer[r] /\ Phase'[r] = "answered"
    BY <1>1, <1>2, <1>8 DEF Source, Phase
  <2>2. answer[r] \in executed /\ (r \notin executed => SameSlot(r, answer[r]))
    BY <1>4, <1>8 DEF IInv, AnswerInv
  <2>3. CASE r \in executed
    <3>1. answer[r] = r
      BY <1>4, <1>8, <2>3 DEF IInv, AnswerInv
    <3>2. QED
      BY <1>2, <1>5, <1>6, <2>1, <2>3, <3>1 DEF Service!Answer, Service!Move
  <2>4. CASE r \notin executed
    <3>1. answer[r] \in Request /\ call[r] \in Call /\ call[answer[r]] \in Call
      <4>1. answer[r] \in Request /\ pc[answer[r]] # "idle"
        BY <2>2 DEF IInv, TypeOK, RowInv, Early
      <4>2. QED
        BY <1>1, <4>1 DEF IInv, TypeOK
    <3>2. Permitted(r)
      BY <1>4, <1>8 DEF IInv, GateInv, Cleared
    <3>3. call[r] \in AllowedCall
      BY <3>1, <3>2 DEF Permitted, AllowedCall
    <3>4. <<call[r], call[answer[r]]>> \in RepeatedCall
      BY <2>2, <2>4, <3>1 DEF RepeatedCall, SameSlot, Keyed, Slot
    <3>5. QED
      BY <1>2, <1>5, <1>6, <2>1, <2>2, <2>4, <3>3, <3>4 DEF Service!Reuse, Service!Move
  <2>5. QED
    BY <2>3, <2>4
<1>9. QED
  BY <1>7, <1>8

\* invoke, step by step and with everything that can fail between the steps,
\* is an implementation of ToolService.
THEOREM RouterImplementsService == Spec => ImplementsService
<1>1. Init => Service!Init
  <2> SUFFICES ASSUME Init PROVE Service!Init
    OBVIOUS
  <2>1. Phase = [r \in Request |-> "idle"] /\ Source = [r \in Request |-> None]
    BY DEF Init, Phase, Source
  <2>2. QED
    BY <2>1 DEF Init, Service!Init
<1>2. IInv /\ [Next]_vars => [Service!Next]_svars
  <2> SUFFICES ASSUME IInv, [Next]_vars PROVE [Service!Next]_svars
    OBVIOUS
  <2>1. ASSUME NEW r \in Request, Submit(r) PROVE Service!Next
    BY <2>1, SubmitOpens DEF Service!Next
  <2>2. ASSUME NEW r \in Request, ExecuteOk(r) PROVE Service!Next
    BY <2>2, ExecuteTakesEffect DEF Service!Next
  <2>3. ASSUME NEW r \in Request, Invoke(r), ~ExecuteOk(r) PROVE UNCHANGED svars
    BY <2>3, InnerStep DEF Invoke
  <2>4. ASSUME NEW r \in Request, Commit(r) \/ RollBack(r) \/ Abort(r) PROVE Service!Next
    BY <2>4, EndMaps DEF Service!Next
  <2>5. ASSUME NEW s \in Tool \X Key, Expire(s) PROVE UNCHANGED svars
    BY <2>5 DEF Expire, svars, Phase, Source
  <2>6. CASE UNCHANGED vars
    BY <2>6 DEF vars, svars, Phase, Source
  <2>7. QED
    BY <2>1, <2>2, <2>3, <2>4, <2>5, <2>6 DEF Next
<1>3. QED
  BY <1>1, <1>2, Inductive, PTL DEF Spec, ImplementsService, Service!Spec, svars
=============================================================================
