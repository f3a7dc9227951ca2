----------------------------- MODULE ToolRouter -----------------------------
(***************************************************************************)
(* ToolRouter.invoke (app/tools/router/tool_router.py), run by concurrent  *)
(* requests: handlers of one event loop or of several worker processes,    *)
(* interleaved at every await.  A request runs in a database transaction   *)
(* of its own (get_db); Redis and the GoRush services answer outside it,   *)
(* so what they did survives a rollback.                                   *)
(*                                                                         *)
(* A request is one invocation: a direct tool endpoint of                  *)
(* app/chat/tools_router.py ("rest"), where an exception leaves the        *)
(* handler and the transaction is rolled back, or a tool call of a chat    *)
(* turn ("chat"), where the orchestrator turns the exception into text     *)
(* and send_message commits the turn.                                      *)
(***************************************************************************)
EXTENDS Naturals, FiniteSets

CONSTANTS Request,       \* the invocations of a run
          Tool,          \* tool names of registered tools
          Role,          \* UserRole
          Arg,           \* what the arguments select: a ride, a ticket category
          Key,           \* idempotency keys
          None,          \* "no key", "no row", "no answer"
          Call,          \* the invocations a client may make
          RequiredRole,  \* ToolDefinition.required_role
          GatedCall,     \* <<tool, argument>> pairs that need a confirmation
          IdemTool,      \* tools with requires_idempotency_key
          RideScoped     \* tools whose ownership check can refuse

Via == {"rest", "chat"}

\* The arguments of invoke; a name outside Tool is a tool nobody registered.
CallType == [tool : Tool \cup {None}, role : Role, arg : Arg,
             confirmed : BOOLEAN, key : Key \cup {None}, via : Via]

\* ToolExecutionStatus, AuditLog.action, and what the caller is told.
RowStatus == {"pending", "failed", "success"}
AuditAction == {"tool_denied", "tool_confirmation_required",
                "tool_execution_failed", "tool_executed"}
Replies == {"ok", "denied", "forbidden", "unconfirmed", "failed", "lost"}

ASSUME RouterAssumption ==
    /\ None \notin Tool /\ None \notin Key /\ None \notin Request /\ None \notin Call
    /\ None \notin RowStatus \cup AuditAction \cup Replies
    /\ Call \subseteq CallType
    /\ RequiredRole \in [Tool -> SUBSET Role]
    /\ GatedCall \subseteq Tool \X Arg
    /\ IdemTool \subseteq Tool
    /\ RideScoped \subseteq Tool

VARIABLES
    pc,         \* where each request is in invoke
    call,       \* its arguments
    idem,       \* Redis: the answer stored under idem:{tool}:{key}
    row,        \* the ToolCall row it added to its transaction
    audit,      \* the AuditLog row it added to its transaction
    committed,  \* the requests whose transaction committed
    executed,   \* the requests whose tool.execute took effect at GoRush
    answer,     \* the execution whose result it returns
    reply,      \* what the caller was told
    vetted,     \* history: requests whose ownership check passed
    before,     \* history: what had ended when the request arrived
    expired     \* history: idempotency entries that outlived their TTL

vars == <<pc, call, idem, row, audit, committed, executed, answer, reply,
          vetted, before, expired>>

\* Where the request can be: waiting at an await of invoke, on its way out
\* with a result ("returned") or with an exception ("raised"), or ended.
Locations == {"idle", "role", "owner", "confirm", "idem", "insert", "execute",
              "store", "audit", "returned", "raised", "done"}

Active(r) == pc[r] \notin {"idle", "done"}

\* definition.requires_idempotency_key and idempotency_key
Keyed(r) == call[r].tool \in IdemTool /\ call[r].key # None

Slot(r) == <<call[r].tool, call[r].key>>

SameSlot(q, r) == Keyed(q) /\ Keyed(r) /\ Slot(q) = Slot(r)

NeedsConfirmation(c) == <<c.tool, c.arg>> \in GatedCall

Init ==
    /\ pc = [r \in Request |-> "idle"]
    /\ call = [r \in Request |-> None]
    /\ idem = [s \in Tool \X Key |-> None]
    /\ row = [r \in Request |-> None]
    /\ audit = [r \in Request |-> None]
    /\ committed = {}
    /\ executed = {}
    /\ answer = [r \in Request |-> None]
    /\ reply = [r \in Request |-> None]
    /\ vetted = {}
    /\ before = [r \in Request |-> {}]
    /\ expired = {}

Goto(r, loc) == pc' = [pc EXCEPT ![r] = loc]

Raise(r, why) ==
    /\ Goto(r, "raised")
    /\ reply' = [reply EXCEPT ![r] = why]

\* A request arrives: first attempt and retry look the same to the server.
Submit(r) ==
    /\ pc[r] = "idle"
    /\ \E c \in Call : call' = [call EXCEPT ![r] = c]
    /\ before' = [before EXCEPT ![r] = {q \in Request : pc[q] = "done"}]
    /\ Goto(r, "role")
    /\ UNCHANGED <<idem, row, audit, committed, executed, answer, reply, vetted, expired>>

\* registry.get raises ToolDeniedError; nothing is audited.
RejectUnregistered(r) ==
    /\ pc[r] = "role"
    /\ call[r].tool \notin Tool
    /\ Raise(r, "denied")
    /\ UNCHANGED <<call, idem, row, audit, committed, executed, answer, vetted, before, expired>>

\* The role is not in required_role: _audit_and_raise.
DenyRole(r) ==
    /\ pc[r] = "role"
    /\ call[r].tool \in Tool
    /\ call[r].role \notin RequiredRole[call[r].tool]
    /\ audit' = [audit EXCEPT ![r] = "tool_denied"]
    /\ Raise(r, "denied")
    /\ UNCHANGED <<call, idem, row, committed, executed, answer, vetted, before, expired>>

\* Bug of PassRole: the role is never looked at.
PassAnyRole(r) ==
    /\ pc[r] = "role"
    /\ call[r].tool \in Tool
    /\ Goto(r, "owner")
    /\ UNCHANGED <<call, idem, row, audit, committed, executed, answer, reply,
                   vetted, before, expired>>

PassRole(r) ==
    /\ pc[r] = "role"
    /\ call[r].tool \in Tool
    /\ call[r].role \in RequiredRole[call[r].tool]
    /\ Goto(r, "owner")
    /\ UNCHANGED <<call, idem, row, audit, committed, executed, answer, reply,
                   vetted, before, expired>>

\* authorize_ownership raises ForbiddenError: the ride is not the active ride
\* of the caller now.  Nothing is audited.
ForbidOwnership(r) ==
    /\ pc[r] = "owner"
    /\ call[r].tool \in RideScoped
    /\ Raise(r, "forbidden")
    /\ UNCHANGED <<call, idem, row, audit, committed, executed, answer, vetted, before, expired>>

GrantOwnership(r) ==
    /\ pc[r] = "owner"
    /\ vetted' = vetted \cup {r}
    /\ Goto(r, "confirm")
    /\ UNCHANGED <<call, idem, row, audit, committed, executed, answer, reply,
                   before, expired>>

\* needs_confirmation and not user_confirmed: audited, then raised.
RequireConfirmation(r) ==
    /\ pc[r] = "confirm"
    /\ NeedsConfirmation(call[r]) /\ ~call[r].confirmed
    /\ audit' = [audit EXCEPT ![r] = "tool_confirmation_required"]
    /\ Raise(r, "unconfirmed")
    /\ UNCHANGED <<call, idem, row, committed, executed, answer, vetted, before, expired>>

\* Bug of PassConfirmation: the gate is audited but does not stop the call.
PassUnconfirmed(r) ==
    /\ pc[r] = "confirm"
    /\ Goto(r, IF Keyed(r) THEN "idem" ELSE "insert")
    /\ UNCHANGED <<call, idem, row, audit, committed, executed, answer, reply,
                   vetted, before, expired>>

PassConfirmation(r) ==
    /\ pc[r] = "confirm"
    /\ NeedsConfirmation(call[r]) => call[r].confirmed
    /\ Goto(r, IF Keyed(r) THEN "idem" ELSE "insert")
    /\ UNCHANGED <<call, idem, row, audit, committed, executed, answer, reply,
                   vetted, before, expired>>

\* get_cached_result hits: the stored result is returned as it is, with no
\* ToolCall row and no audit entry.
Replay(r) ==
    /\ pc[r] = "idem"
    /\ idem[Slot(r)] # None
    /\ answer' = [answer EXCEPT ![r] = idem[Slot(r)]]
    /\ Goto(r, "returned")
    /\ UNCHANGED <<call, idem, row, audit, committed, executed, reply, vetted, before, expired>>

Miss(r) ==
    /\ pc[r] = "idem"
    /\ idem[Slot(r)] = None
    /\ Goto(r, "insert")
    /\ UNCHANGED <<call, idem, row, audit, committed, executed, answer, reply,
                   vetted, before, expired>>

\* Redis does not answer the GET: the exception leaves invoke.
LookupFails(r) ==
    /\ pc[r] = "idem"
    /\ Raise(r, "failed")
    /\ UNCHANGED <<call, idem, row, audit, committed, executed, answer, vetted, before, expired>>

\* The PENDING ToolCall row, flushed before the tool runs.
InsertPending(r) ==
    /\ pc[r] = "insert"
    /\ row' = [row EXCEPT ![r] = "pending"]
    /\ Goto(r, "execute")
    /\ UNCHANGED <<call, idem, audit, committed, executed, answer, reply,
                   vetted, before, expired>>

\* Bug of ExecuteOk: the ToolCall row is not updated.
ExecuteLeavesRow(r) ==
    /\ pc[r] = "execute"
    /\ executed' = executed \cup {r}
    /\ answer' = [answer EXCEPT ![r] = r]
    /\ Goto(r, IF Keyed(r) THEN "store" ELSE "audit")
    /\ UNCHANGED <<call, idem, row, audit, committed, reply, vetted, before, expired>>

\* tool.execute returns; the row becomes SUCCESS in the same breath.
ExecuteOk(r) ==
    /\ pc[r] = "execute"
    /\ executed' = executed \cup {r}
    /\ row' = [row EXCEPT ![r] = "success"]
    /\ answer' = [answer EXCEPT ![r] = r]
    /\ Goto(r, IF Keyed(r) THEN "store" ELSE "audit")
    /\ UNCHANGED <<call, idem, audit, committed, reply, vetted, before, expired>>

\* Bug of ExecuteFails: the exception is recorded but not raised again, and
\* the error becomes the result.
SwallowError(r) ==
    /\ pc[r] = "execute"
    /\ row' = [row EXCEPT ![r] = "failed"]
    /\ answer' = [answer EXCEPT ![r] = r]
    /\ Goto(r, IF Keyed(r) THEN "store" ELSE "audit")
    /\ UNCHANGED <<call, idem, audit, committed, executed, reply, vetted, before, expired>>

\* tool.execute raises before it takes effect: FAILED row, audit, re-raise.
ExecuteFails(r) ==
    /\ pc[r] = "execute"
    /\ row' = [row EXCEPT ![r] = "failed"]
    /\ audit' = [audit EXCEPT ![r] = "tool_execution_failed"]
    /\ Raise(r, "failed")
    /\ UNCHANGED <<call, idem, committed, executed, answer, vetted, before, expired>>

\* Bugs of Store: the status is stored in place of the result ...
StoreStatus(r) ==
    /\ pc[r] = "store"
    /\ idem' = [idem EXCEPT ![Slot(r)] = row[r]]
    /\ Goto(r, "audit")
    /\ UNCHANGED <<call, row, audit, committed, executed, answer, reply,
                   vetted, before, expired>>

\* ... or nothing is.
StoreNothing(r) ==
    /\ pc[r] = "store"
    /\ Goto(r, "audit")
    /\ UNCHANGED <<call, idem, row, audit, committed, executed, answer, reply,
                   vetted, before, expired>>

\* store_result: SET with a TTL, whatever the key holds.
Store(r) ==
    /\ pc[r] = "store"
    /\ idem' = [idem EXCEPT ![Slot(r)] = answer[r]]
    /\ Goto(r, "audit")
    /\ UNCHANGED <<call, row, audit, committed, executed, answer, reply,
                   vetted, before, expired>>

\* Redis does not answer the SET: the exception leaves invoke, after the
\* effect and before the audit entry.
StoreFails(r) ==
    /\ pc[r] = "store"
    /\ Raise(r, "failed")
    /\ UNCHANGED <<call, idem, row, audit, committed, executed, answer, vetted, before, expired>>

RecordExecuted(r) ==
    /\ pc[r] = "audit"
    /\ audit' = [audit EXCEPT ![r] = "tool_executed"]
    /\ Goto(r, "returned")
    /\ UNCHANGED <<call, idem, row, committed, executed, answer, reply,
                   vetted, before, expired>>

\* db.commit: of a handler whose invoke returned, or of a chat turn whatever
\* invoke did.  Rows and audit entry become visible together.
Commit(r) ==
    /\ \/ pc[r] = "returned"
       \/ pc[r] = "raised" /\ call[r].via = "chat"
    /\ committed' = committed \cup {r}
    /\ reply' = [reply EXCEPT ![r] = IF pc[r] = "returned" THEN "ok" ELSE @]
    /\ Goto(r, "done")
    /\ UNCHANGED <<call, idem, row, audit, executed, answer, vetted, before, expired>>

\* An exception that leaves a tool endpoint: get_db closes the session and
\* the transaction is rolled back.
RollBack(r) ==
    /\ pc[r] = "raised" /\ call[r].via = "rest"
    /\ Goto(r, "done")
    /\ UNCHANGED <<call, idem, row, audit, committed, executed, answer, reply,
                   vetted, before, expired>>

\* The commit fails, a later step of the turn raises, the process dies or the
\* client goes away: the transaction is lost and the caller has no result.
Abort(r) ==
    /\ Active(r)
    /\ reply' = [reply EXCEPT ![r] = "lost"]
    /\ Goto(r, "done")
    /\ UNCHANGED <<call, idem, row, audit, committed, executed, answer,
                   vetted, before, expired>>

\* The 24 hours of IDEMPOTENCY_TTL_SECONDS are over.
Expire(s) ==
    /\ idem[s] # None
    /\ idem' = [idem EXCEPT ![s] = None]
    /\ expired' = expired \cup {s}
    /\ UNCHANGED <<pc, call, row, audit, committed, executed, answer, reply,
                   vetted, before>>

Invoke(r) ==
    \/ RejectUnregistered(r) \/ DenyRole(r) \/ PassRole(r)
    \/ ForbidOwnership(r) \/ GrantOwnership(r)
    \/ RequireConfirmation(r) \/ PassConfirmation(r)
    \/ Replay(r) \/ Miss(r) \/ LookupFails(r)
    \/ InsertPending(r) \/ ExecuteOk(r) \/ ExecuteFails(r)
    \/ Store(r) \/ StoreFails(r) \/ RecordExecuted(r)

Next ==
    \/ \E r \in Request : Submit(r) \/ Invoke(r) \/ Commit(r) \/ RollBack(r) \/ Abort(r)
    \/ \E s \in Tool \X Key : Expire(s)

Spec == Init /\ [][Next]_vars
-----------------------------------------------------------------------------
\* Requests, rows, audit entries and Redis entries are well formed: a slot holds
\* the request whose result it keeps.
TypeOK ==
    /\ pc \in [Request -> Locations]
    /\ call \in [Request -> Call \cup {None}]
    /\ \A r \in Request : pc[r] # "idle" => call[r] \in Call
    /\ idem \in [Tool \X Key -> Request \cup {None}]
    /\ row \in [Request -> RowStatus \cup {None}]
    /\ audit \in [Request -> AuditAction \cup {None}]
    /\ committed \subseteq Request
    /\ executed \subseteq Request
    /\ answer \in [Request -> Request \cup {None}]
    /\ reply \in [Request -> Replies \cup {None}]
    /\ vetted \subseteq Request
    /\ before \in [Request -> SUBSET Request]
    /\ expired \subseteq Tool \X Key

\* The gates an invocation has to pass before anything is done for it.
Permitted(r) ==
    /\ call[r].tool \in Tool
    /\ call[r].role \in RequiredRole[call[r].tool]
    /\ NeedsConfirmation(call[r]) => call[r].confirmed
    /\ r \in vetted

\* No tool takes effect at GoRush, and no result is handed out (a replayed
\* one either), for a call that did not pass every gate of the docstring of
\* ToolRouter: role, ownership, confirmation.
Gated ==
    \A r \in Request : (r \in executed \/ reply[r] = "ok") => Permitted(r)

\* An answer is always the result of an execution that took place: the
\* request's own, or, for a keyed tool, that of a permitted request with the
\* same tool and key.  A refused, failed or half-done call is never replayed.
AnswersAreReal ==
    \A r \in Request :
        reply[r] = "ok" =>
            /\ answer[r] \in executed
            /\ IF r \in executed THEN answer[r] = r ELSE SameSlot(r, answer[r])

\* A retry is not executed again: once a call with the same tool and key was
\* answered, a request that arrives later has no effect of its own unless the
\* stored answer outlived its TTL.
RetryIsReplayed ==
    \A q, r \in Request :
        (q \in before[r] /\ reply[q] = "ok" /\ SameSlot(q, r) /\ r \in executed)
            => Slot(r) \in expired

\* The history an operator reads is consistent: a committed ToolCall row is
\* never PENDING, a FAILED one had no effect, a SUCCESS one had, and on the
\* direct tool endpoints a SUCCESS row and its audit entry come together.
HistoryIsTruthful ==
    \A r \in committed :
        /\ row[r] # "pending"
        /\ row[r] = "success" <=> r \in executed
        /\ (row[r] = "success" /\ call[r].via = "rest") => audit[r] = "tool_executed"

\* Docstring of IdempotencyService (app/tools/idempotency/service.py:9-10), as
\* it stands: a retry with the same key never causes a second execution.
NoDuplicateExecution ==
    \A q, r \in executed : SameSlot(q, r) => q = r

\* Docstring of AuditService (app/audit/service.py:9-10), for tool calls: a
\* call whose handler ran to its end left an audit entry in the database.
ToolCallsAreAudited ==
    \A r \in Request :
        (pc[r] = "done" /\ reply[r] # "lost") => r \in committed /\ audit[r] # None
-----------------------------------------------------------------------------
\* The pipeline implements the promise of ToolService.

Phase == [r \in Request |->
             IF pc[r] = "idle" THEN "idle"
             ELSE IF pc[r] # "done" THEN IF r \in executed THEN "effective" ELSE "open"
             ELSE IF reply[r] = "ok" THEN "answered"
             ELSE IF r \in executed THEN "dropped" ELSE "refused"]

Source == [r \in Request |->
              IF pc[r] = "done" /\ reply[r] = "ok" THEN answer[r] ELSE None]

\* The static part of the policy: registration, role and confirmation.
AllowedCall ==
    {c \in Call : /\ c.tool \in Tool
                  /\ c.role \in RequiredRole[c.tool]
                  /\ NeedsConfirmation(c) => c.confirmed}

\* Calls of the same idempotent tool with the same key.
RepeatedCall ==
    {cd \in Call \X Call : /\ cd[1].tool \in IdemTool /\ cd[1].key # None
                           /\ cd[1].tool = cd[2].tool /\ cd[1].key = cd[2].key}

Service == INSTANCE ToolService WITH
    Allowed <- AllowedCall, Repeats <- RepeatedCall,
    phase <- Phase, request <- call, effects <- executed, source <- Source

\* invoke, step by step and with everything that can fail between the steps,
\* does nothing a caller could tell from ToolService.
ImplementsService == Service!Spec
=============================================================================
