---------------------------- MODULE ChatSession -----------------------------
(***************************************************************************)
(* The database rows of one chat session under the requests that touch     *)
(* them: its chat_sessions row, messages, summaries and handoffs.          *)
(* A job is one request, handled in a PostgreSQL transaction of its own at *)
(* READ COMMITTED: a message of the user answered by                       *)
(* ChatOrchestrator.handle_message, the user's handoff button, or an       *)
(* agent's takeover.  What the LLM is told about earlier messages          *)
(* (app/conversations/context_service.py) and what a human is told         *)
(* (app/handoff/service.py) is read from the rows other jobs committed.    *)
(*                                                                         *)
(* Jobs are numbered in the order their transactions start, which is the   *)
(* created_at of all rows of a transaction; the two messages of one job    *)
(* have the same, and come in any order.                                   *)
(***************************************************************************)
EXTENDS Naturals, FiniteSets

CONSTANTS MaxJobs,      \* bound on the jobs
          Settings,     \* the circumstances to look at, see Setting
          None

\* How a job goes: a message answered by the LLM, one that wants a human
\* (user_requested_human, orchestration_limit or loop_guard_triggered), an
\* emergency, the GUIDE and success replies of the refund flow, every other
\* fixed reply, the handoff endpoint, and takeover_conversation.
JobKind == {"chat", "agent", "sos", "guide", "notice", "button", "takeover"}
Messages == {"chat", "agent", "sos", "guide", "notice"}
Escalations == {"agent", "sos", "button"}

Job == 1..MaxJobs
Message == Job \X {"user", "assistant"}
Row == [status : {"active", "handed_off"}, priority : {None, "P0", "P2"}]
\* Some messages, of those that were visible when they were chosen.
Choice == [some : SUBSET Message, of : SUBSET Message]
Locations == {"idle", "recent", "summary", "llm", "load", "snapshot", "flush", "reply",
              "summarize", "summarizing", "commit", "committed", "lost"}

\* Circumstances: the kinds of job, bounds on their number and on those in
\* progress at once, whether jobs die, and the sizes the code fixes at 20
\* (SUMMARIZE_AFTER_N_MESSAGES), 5 (kept out of a summary) and 10 (shown to
\* the human).
Setting == [kinds : SUBSET JobKind, jobs : 0..MaxJobs, active : Job, faults : BOOLEAN,
            window : Nat, keep : Nat, shown : Nat]

ASSUME ChatSessionAssumption ==
    /\ MaxJobs \in Nat
    /\ \A s \in Settings : s \in Setting /\ s.keep < s.window
    /\ None \notin Row /\ None \notin Choice /\ None \notin JobKind /\ None \notin Nat
    /\ None \notin {"P0", "P2"}

VARIABLES
    env,        \* the setting, chosen once
    pc,         \* where each job is
    kind,       \* how it goes
    row,        \* the session row, committed
    writer,     \* the job whose UPDATE holds the lock of the row
    seen,       \* the session row as the job has loaded it
    snapshot,   \* recent_messages of the job's handoff
    recent,     \* the messages given to its LLM, of those it could see ...
    latest,     \* ... and the summary, with those it was made of
    summary     \* the row the job adds to conversation_summaries

vars == <<env, pc, kind, row, writer, seen, snapshot, recent, latest, summary>>
database == <<env, row, writer>>

Init ==
    /\ env \in Settings
    /\ pc = [t \in Job |-> "idle"]
    /\ kind = [t \in Job |-> None]
    /\ row = [status |-> "active", priority |-> None]
    /\ writer = None
    /\ seen = [t \in Job |-> None]
    /\ snapshot = [t \in Job |-> {}]
    /\ recent = [t \in Job |-> None]
    /\ latest = [t \in Job |-> None]
    /\ summary = [t \in Job |-> None]

Goto(t, loc) == pc' = [pc EXCEPT ![t] = loc]

Ended == {"idle", "committed", "lost"}
ActiveJobs == {t \in Job : pc[t] \notin Ended}
Committed == {t \in Job : pc[t] = "committed"}

\* add_message is called first for the user's message, and before "summarize"
\* for the reply.
Stored == {t \in Committed : kind[t] \in Messages} \X {"user", "assistant"}
Own(t) ==
    IF kind[t] \notin Messages THEN {}
    ELSE IF pc[t] \in {"summarize", "summarizing", "commit"} THEN {t} \X {"user", "assistant"}
    ELSE {<<t, "user">>}
Visible(t) == Stored \cup Own(t)

\* ORDER BY created_at DESC LIMIT n, in every way it may come out: all messages
\* after those of some job, and as many of that job's own as are left to take; at
\* the limit, one of the two messages of a job may be cut off.
Newest(S, n) ==
    IF Cardinality(S) <= n THEN {S}
    ELSE UNION {LET all == {m \in S : m[1] > j}
                    own == {m \in S : m[1] = j}
                IN  {all \cup D : D \in {D \in SUBSET own : Cardinality(all) + Cardinality(D) = n}} :
                    j \in Job}

\* The request comes in; a message is stored first.
Start(t) ==
    /\ pc[t] = "idle" /\ t <= env.jobs
    /\ \A u \in Job : u < t => pc[u] # "idle"
    /\ Cardinality(ActiveJobs) < env.active
    /\ \E k \in env.kinds :
          /\ kind' = [kind EXCEPT ![t] = k]
          /\ Goto(t, CASE k \in {"chat", "agent"}   -> "recent"
                       [] k \in {"guide", "notice"} -> "reply"
                       [] OTHER                     -> "load")
    /\ UNCHANGED <<database, seen, snapshot, recent, latest, summary>>
-----------------------------------------------------------------------------
(* build_llm_messages *)

\* Bug of ReadRecent: only as many messages as a summary leaves out.
ReadRecentFew(t) ==
    /\ pc[t] = "recent"
    /\ \E C \in Newest(Visible(t), env.keep) :
          recent' = [recent EXCEPT ![t] = [some |-> C, of |-> Visible(t)]]
    /\ Goto(t, "summary")
    /\ UNCHANGED <<database, kind, seen, snapshot, latest, summary>>

ReadRecent(t) ==
    /\ pc[t] = "recent"
    /\ \E C \in Newest(Visible(t), env.window) :
          recent' = [recent EXCEPT ![t] = [some |-> C, of |-> Visible(t)]]
    /\ Goto(t, "summary")
    /\ UNCHANGED <<database, kind, seen, snapshot, latest, summary>>

\* _get_latest_summary
Summarized ==
    LET with == {u \in Committed : summary[u] # None}
    IN  {u \in with : \A v \in with : v <= u}

ReadSummary(t) ==
    /\ pc[t] = "summary"
    /\ IF Summarized = {} THEN UNCHANGED latest
       ELSE \E u \in Summarized : latest' = [latest EXCEPT ![t] = summary[u]]
    /\ Goto(t, "llm")
    /\ UNCHANGED <<database, kind, seen, snapshot, recent, summary>>

\* The LLM loop is over.
Answer(t) ==
    /\ pc[t] = "llm"
    /\ recent' = [recent EXCEPT ![t] = None]
    /\ latest' = [latest EXCEPT ![t] = None]
    /\ Goto(t, IF kind[t] = "agent" THEN "load" ELSE "reply")
    /\ UNCHANGED <<database, kind, seen, snapshot, summary>>
-----------------------------------------------------------------------------
(* Escalation: _escalate, request_handoff, takeover_conversation *)

\* The session row is read.  Over HTTP get_session has read it before, to see whose
\* it is, but send_message keeps no reference to it: the identity map is weak, so
\* the SELECT of _escalate builds the object anew, here.
LoadSession(t) ==
    /\ pc[t] = "load"
    /\ seen' = [seen EXCEPT ![t] = row]
    /\ Goto(t, IF kind[t] = "takeover" THEN "flush" ELSE "snapshot")
    /\ UNCHANGED <<database, kind, snapshot, recent, latest, summary>>

\* Bug of TakeSnapshot: the order is ascending, the oldest messages are shown.
TakeOldest(t) ==
    /\ pc[t] = "snapshot"
    /\ LET S == Visible(t)
           late == IF Cardinality(S) <= env.shown THEN {{}} ELSE Newest(S, Cardinality(S) - env.shown)
       IN  \E C \in late : snapshot' = [snapshot EXCEPT ![t] = S \ C]
    /\ Goto(t, "flush")
    /\ UNCHANGED <<database, kind, seen, recent, latest, summary>>

\* The messages the human is shown.
TakeSnapshot(t) ==
    /\ pc[t] = "snapshot"
    /\ \E C \in Newest(Visible(t), env.shown) : snapshot' = [snapshot EXCEPT ![t] = C]
    /\ Goto(t, "flush")
    /\ UNCHANGED <<database, kind, seen, recent, latest, summary>>

\* The columns the job sets; those that were so when it loaded the row are not
\* dirty and not written.
Decision(t) ==
    CASE kind[t] = "takeover" -> [status |-> "handed_off"]
      [] kind[t] = "sos"      -> [status |-> "handed_off", priority |-> "P0"]
      [] OTHER                -> [status |-> "handed_off", priority |-> "P2"]
Dirty(t) ==
    IF seen[t] = None THEN {} ELSE {c \in DOMAIN Decision(t) : Decision(t)[c] # seen[t][c]}

\* The UPDATE waits for the job that holds the lock, until it has committed or
\* rolled back.
Flush(t) ==
    /\ pc[t] = "flush"
    /\ Dirty(t) # {} => writer = None
    /\ writer' = IF Dirty(t) = {} THEN writer ELSE t
    /\ Goto(t, IF kind[t] \in Messages THEN "reply" ELSE "commit")
    /\ UNCHANGED <<env, row, kind, seen, snapshot, recent, latest, summary>>
-----------------------------------------------------------------------------
\* add_message for the reply.
Reply(t) ==
    /\ pc[t] = "reply"
    /\ Goto(t, IF kind[t] \in {"chat", "agent", "guide"} THEN "summarize" ELSE "commit")
    /\ UNCHANGED <<database, kind, seen, snapshot, recent, latest, summary>>

\* maybe_summarize: one message more than the window is read, and all but the
\* newest few of these go to the LLM ...
MaybeSummarize(t) ==
    /\ pc[t] = "summarize"
    /\ IF Cardinality(Visible(t)) <= env.window
       THEN Goto(t, "commit") /\ UNCHANGED summary
       ELSE /\ \E C \in Newest(Visible(t), env.window + 1) : \E K \in Newest(C, env.keep) :
                  summary' = [summary EXCEPT ![t] = [some |-> C \ K, of |-> Visible(t)]]
            /\ Goto(t, "summarizing")
    /\ UNCHANGED <<database, kind, seen, snapshot, recent, latest>>

\* ... which answers with the row to add ...
EndSummary(t) ==
    /\ pc[t] = "summarizing"
    /\ Goto(t, "commit")
    /\ UNCHANGED <<database, kind, seen, snapshot, recent, latest, summary>>

\* Bug of SkipSummary: the failure is not caught.
SummaryRaises(t) ==
    /\ pc[t] = "summarizing"
    /\ Goto(t, "lost")
    /\ summary' = [summary EXCEPT ![t] = None]
    /\ UNCHANGED <<database, kind, seen, snapshot, recent, latest>>

\* ... or fails, and there is none.
SkipSummary(t) ==
    /\ pc[t] = "summarizing"
    /\ Goto(t, "commit")
    /\ summary' = [summary EXCEPT ![t] = None]
    /\ UNCHANGED <<database, kind, seen, snapshot, recent, latest>>
-----------------------------------------------------------------------------
\* Bug of Updated: the row is written as it was loaded.
UpdatedWhole(t) ==
    IF Dirty(t) = {} THEN row
    ELSE [c \in DOMAIN row |-> IF c \in Dirty(t) THEN Decision(t)[c] ELSE seen[t][c]]

\* Bug of Updated: the columns that are not written are gone.
UpdatedReplaces(t) == IF Dirty(t) = {} THEN row ELSE Decision(t)

\* The session row with the dirty columns of the job.
Updated(t) == [c \in DOMAIN row |-> IF c \in Dirty(t) THEN Decision(t)[c] ELSE row[c]]

Unlocked(t) == IF writer = t THEN None ELSE writer

Commit(t) ==
    /\ pc[t] = "commit"
    /\ Goto(t, "committed")
    /\ row' = Updated(t)
    /\ writer' = Unlocked(t)
    /\ seen' = [seen EXCEPT ![t] = None]
    /\ UNCHANGED <<env, kind, snapshot, recent, latest, summary>>

\* The process dies, the client goes away, a tool or the database fails.
RollBack(t) ==
    /\ env.faults
    /\ t \in ActiveJobs
    /\ Goto(t, "lost")
    /\ writer' = Unlocked(t)
    /\ seen' = [seen EXCEPT ![t] = None]
    /\ snapshot' = [snapshot EXCEPT ![t] = {}]
    /\ recent' = [recent EXCEPT ![t] = None]
    /\ latest' = [latest EXCEPT ![t] = None]
    /\ summary' = [summary EXCEPT ![t] = None]
    /\ UNCHANGED <<env, kind, row>>

Work(t) ==
    \/ ReadRecent(t) \/ ReadSummary(t) \/ Answer(t) \/ LoadSession(t) \/ TakeSnapshot(t)
    \/ Flush(t) \/ Reply(t) \/ MaybeSummarize(t) \/ EndSummary(t) \/ SkipSummary(t)
    \/ Commit(t)

Next == \E t \in Job : Start(t) \/ Work(t) \/ RollBack(t)

\* Calls of the LLM have a timeout, and a transaction that waits for a row goes
\* on when the row is free: while some job can go on, one does.
Spec == Init /\ [][Next]_vars /\ WF_vars(\E t \in Job : Work(t))
-----------------------------------------------------------------------------
\* The rows and what the jobs have read of them are well formed: the row keeps
\* its columns, and nobody is given messages that were not visible.
TypeOK ==
    /\ env \in Settings
    /\ pc \in [Job -> Locations] /\ kind \in [Job -> JobKind \cup {None}]
    /\ row \in Row /\ writer \in Job \cup {None}
    /\ seen \in [Job -> Row \cup {None}]
    /\ snapshot \in [Job -> SUBSET Message]
    /\ {recent, latest, summary} \subseteq [Job -> Choice \cup {None}]
    /\ \A t \in Job, f \in {recent, latest, summary} : f[t] # None => f[t].some \subseteq f[t].of

Queue == {t \in Committed : kind[t] \in Escalations}

\* The session row agrees with the agent queue, though escalations and
\* takeovers load it before they lock it: it is handed off exactly when there
\* is a handoff or a takeover, and its priority is that of a handoff in the
\* queue.  (Not of the most urgent one: a later standard handoff lowers it.)
SessionAgreesWithQueue ==
    /\ row.status = "handed_off" <=> \E t \in Committed : kind[t] \in Escalations \cup {"takeover"}
    /\ row.priority \in IF Queue = {} THEN {None} ELSE {Decision(t).priority : t \in Queue}

\* The human who takes a handoff is shown messages that can be looked up, and
\* the one that led to it, unless that many messages of later jobs were already
\* there.
HandoffsHaveContext ==
    \A t \in Queue :
        /\ snapshot[t] \subseteq Stored
        /\ kind[t] = "button" \/ <<t, "user">> \in snapshot[t] \/
              /\ Cardinality(snapshot[t]) = env.shown
              /\ \A m \in snapshot[t] : m[1] > t

\* "Recent turns plus a compact structured summary of anything older"
\* (app/conversations/context_service.py:13-14), as far as it goes: while fewer
\* than window - keep messages have come since the newest summary was made,
\* those of the messages it could read that the LLM of a turn is not given are
\* older than all the summary covers, except for messages whose turns ended after
\* the summary was made but had started before something it was made of.
MemoryHasNoHoles ==
    \A t \in Job : (pc[t] = "llm" /\ latest[t] # None) =>
        LET given == recent[t].some \cup latest[t].some
            new   == recent[t].of \ latest[t].of
            late  == {m \in new : \E q \in latest[t].of : m[1] < q[1]}
        IN  Cardinality(new) + env.keep < env.window =>
                \A m \in recent[t].of \ (given \cup late), q \in latest[t].some : m[1] <= q[1]

\* Every job ends, and only faults lose one: a summarizer that fails does not
\* take the turn with it, and a row lock held while the LLM summarizes is
\* released.
JobsEnd ==
    ActiveJobs # {} ~> (ActiveJobs = {} /\ (env.faults \/ \A t \in Job : pc[t] # "lost"))
=============================================================================
