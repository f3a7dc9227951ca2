-------------------------- MODULE ChatSessionProofs --------------------------
(***************************************************************************)
(* ChatSession for any number of jobs, in any setting and with any limits  *)
(* on what is read.                                                        *)
(***************************************************************************)
EXTENDS ChatSession, FiniteSetTheorems, TLAPS

USE ChatSessionAssumption

Deciding == Escalations \cup {"takeover"}

\* What its place in the code says of a job: what it is for, and whether it has
\* loaded the session row.
PlaceAt(t) ==
    /\ pc[t] \notin Ended => kind[t] \in env.kinds
    /\ pc[t] \in {"recent", "summary", "llm"} => kind[t] \in {"chat", "agent"}
    /\ pc[t] \in {"load", "snapshot", "flush"} => kind[t] \in Deciding
    /\ pc[t] = "snapshot" => kind[t] # "takeover"
    /\ pc[t] \in {"snapshot", "flush"} => seen[t] # None
    /\ pc[t] \in {"reply", "summarize", "summarizing", "commit"} =>
          (seen[t] # None <=> kind[t] \in Deciding)
    /\ pc[t] \in Ended \cup {"recent", "summary", "llm", "load"} => seen[t] = None

PlaceInv == \A t \in Job : PlaceAt(t)

\* What a job has seen in the row was put there by a committed job.
SeenInv ==
    \A t \in Job : seen[t] # None =>
        /\ seen[t].status = "handed_off" => \E u \in Committed : kind[u] \in Deciding
        /\ seen[t].priority # None => Queue # {}

\* A snapshot is of messages that are stored or will be with the job, and has the
\* message that asks for the handoff or is full of later ones.
ContextAt(t) ==
    /\ snapshot[t] \subseteq Stored \cup Own(t)
    /\ pc[t] = "idle" => snapshot[t] = {}
    /\ (kind[t] \in Escalations /\ pc[t] \in {"flush", "reply", "summarize", "summarizing", "commit", "committed"}) =>
          kind[t] = "button" \/ <<t, "user">> \in snapshot[t] \/
              /\ Cardinality(snapshot[t]) = env.shown
              /\ \A m \in snapshot[t] : m[1] > t

ContextInv == \A t \in Job : ContextAt(t)

IInv == TypeOK /\ PlaceInv /\ SessionAgreesWithQueue /\ SeenInv /\ ContextInv

\* The circumstances are of the kinds that are declared.
LEMMA SettingType ==
  ASSUME TypeOK
  PROVE  env.kinds \subseteq JobKind /\ env.shown \in Nat
BY DEF TypeOK, Setting

\* A query returns messages of those it could see.
LEMMA NewestWithin ==
  ASSUME NEW S, NEW n, NEW C \in Newest(S, n)
  PROVE  C \subseteq S
<1>1. CASE Cardinality(S) <= n
  BY <1>1 DEF Newest
<1>2. CASE ~(Cardinality(S) <= n)
  <2> DEFINE all(j) == {m \in S : m[1] > j}
             own(j) == {m \in S : m[1] = j}
  <2>1. PICK j \in Job : \E D \in SUBSET own(j) :
           C = all(j) \cup D /\ Cardinality(all(j)) + Cardinality(D) = n
    BY <1>2 DEF Newest
  <2>2. QED
    BY <2>1
<1>3. QED
  BY <1>1, <1>2

\* There are finitely many messages.
LEMMA MessagesFinite ==
  ASSUME NEW S, S \subseteq Message
  PROVE  IsFiniteSet(S)
<1>1. IsFiniteSet(Job)
  BY FS_Interval DEF Job
<1>2. IsFiniteSet({"user", "assistant"})
  <2>1. IsFiniteSet({"user"} \cup {"assistant"})
    BY FS_Singleton, FS_AddElement
  <2>2. QED
    BY <2>1
<1>3. IsFiniteSet(Message)
  BY <1>1, <1>2, FS_Product DEF Message
<1>4. QED
  BY <1>3, FS_Subset

\* The newest n messages: n at most, all there are or n, and none of the others
\* is newer.
LEMMA NewestShape ==
  ASSUME NEW S, S \subseteq Message, NEW n \in Nat, NEW C \in Newest(S, n)
  PROVE  /\ C \subseteq S /\ IsFiniteSet(C) /\ Cardinality(C) \in Nat /\ Cardinality(C) <= n
         /\ C = S \/ Cardinality(C) = n
         /\ \A x \in C, m \in S \ C : m[1] <= x[1]
<1>0. C \subseteq S /\ IsFiniteSet(C) /\ Cardinality(C) \in Nat
  BY NewestWithin, MessagesFinite, FS_CardinalityType
<1>1. CASE Cardinality(S) <= n
  BY <1>0, <1>1 DEF Newest
<1>2. CASE ~(Cardinality(S) <= n)
  <2> DEFINE all(j) == {m \in S : m[1] > j}
             own(j) == {m \in S : m[1] = j}
  <2>0. PICK j \in Job : \E D \in SUBSET own(j) :
           C = all(j) \cup D /\ Cardinality(all(j)) + Cardinality(D) = n
    BY <1>2 DEF Newest
  <2>1. PICK D \in SUBSET own(j) : C = all(j) \cup D /\ Cardinality(all(j)) + Cardinality(D) = n
    BY <2>0
  <2>2. \A m \in S : m[1] \in Job
    BY DEF Message
  <2>3. j \in Nat /\ \A m \in S : m[1] \in Nat
    BY <2>2 DEF Job
  <2>4. ASSUME NEW x \in C, NEW m \in S \ C PROVE m[1] <= x[1]
    <3>1. ~(m[1] > j) /\ x[1] >= j
      BY <2>1, <2>3
    <3>2. QED
      BY <1>0, <2>3, <3>1
  <2>5. Cardinality(C) = n
    <3>1. IsFiniteSet(all(j)) /\ IsFiniteSet(D)
      BY <2>1, MessagesFinite
    <3>2. all(j) \cap D = {}
      BY <2>1, <2>3
    <3>3. Cardinality(C) = Cardinality(all(j)) + Cardinality(D) - Cardinality(all(j) \cap D)
      BY <2>1, <3>1, FS_Union
    <3>4. Cardinality(all(j) \cap D) = 0
      BY <3>2, FS_EmptySet
    <3>5. Cardinality(all(j)) \in Nat /\ Cardinality(D) \in Nat
      BY <3>1, FS_CardinalityType
    <3>6. QED
      BY <2>1, <3>3, <3>4, <3>5
  <2>6. QED
    BY <1>0, <2>4, <2>5
<1>3. QED
  BY <1>1, <1>2

\* The newest n messages have the only message of a job, or are n later ones.
LEMMA NewestHas ==
  ASSUME NEW S, S \subseteq Message, NEW n \in Nat, NEW C \in Newest(S, n), NEW t \in Job,
         <<t, "user">> \in S, \A m \in S : m[1] = t => m = <<t, "user">>
  PROVE  <<t, "user">> \in C \/ (Cardinality(C) = n /\ \A m \in C : m[1] > t)
<1> SUFFICES ASSUME <<t, "user">> \notin C
             PROVE  Cardinality(C) = n /\ \A m \in C : m[1] > t
  OBVIOUS
<1>1. C \subseteq S /\ Cardinality(C) = n /\ \A m \in C : t <= m[1]
  BY NewestShape
<1>2. \A m \in C : m[1] # t
  BY <1>1
<1>3. t \in Nat /\ \A m \in C : m[1] \in Nat
  BY <1>1 DEF Message, Job
<1>4. QED
  BY <1>1, <1>2, <1>3

\* What a job can see are messages.
LEMMA Visibility ==
  ASSUME NEW t \in Job
  PROVE  Stored \subseteq Message /\ Own(t) \subseteq Message /\ Visible(t) \subseteq Message
BY DEF Stored, Own, Visible, Message, Committed

\* A session starts active, without jobs.
LEMMA Initially == Init => IInv
<1> SUFFICES ASSUME Init PROVE IInv
  OBVIOUS
<1>1. TypeOK
  BY DEF Init, TypeOK, Locations, Row
<1>2. PlaceInv /\ SeenInv
  BY DEF Init, PlaceInv, PlaceAt, SeenInv, Ended
<1>3. Committed = {} /\ Queue = {}
  BY DEF Init, Committed, Queue
<1>4. SessionAgreesWithQueue
  BY <1>3 DEF Init, SessionAgreesWithQueue
<1>5. ContextInv
  BY DEF Init, ContextInv, ContextAt
<1>6. QED
  BY <1>1, <1>2, <1>4, <1>5 DEF IInv

\* The row as a committing job leaves it.
LEMMA UpdatedType ==
  ASSUME TypeOK, NEW t \in Job
  PROVE  /\ Updated(t) \in Row
         /\ seen[t] = None => Updated(t) = row
         /\ seen[t] # None => Updated(t).status = IF seen[t].status = "handed_off" THEN row.status ELSE "handed_off"
         /\ (seen[t] # None /\ kind[t] = "takeover") => Updated(t).priority = row.priority
         /\ (seen[t] # None /\ kind[t] # "takeover") =>
               Updated(t).priority = IF seen[t].priority = Decision(t).priority THEN row.priority
                                     ELSE Decision(t).priority
<1>1. row \in Row /\ seen[t] \in Row \cup {None}
  BY DEF TypeOK
<1>2. DOMAIN row = {"status", "priority"} /\ row = [status |-> row.status, priority |-> row.priority]
  BY <1>1 DEF Row
<1>3. CASE seen[t] = None
  <2>1. Dirty(t) = {}
    BY <1>3 DEF Dirty
  <2>2. Updated(t) = row
    BY <1>1, <1>2, <2>1 DEF Updated, Row
  <2>3. QED
    BY <1>1, <1>3, <2>2
<1>4. CASE seen[t] # None
  <2>1. Dirty(t) = {c \in DOMAIN Decision(t) : Decision(t)[c] # seen[t][c]}
    BY <1>4 DEF Dirty
  <2>2. /\ "status" \in DOMAIN Decision(t) /\ Decision(t).status = "handed_off"
        /\ ("priority" \in DOMAIN Decision(t)) <=> kind[t] # "takeover"
        /\ kind[t] # "takeover" => Decision(t).priority \in {"P0", "P2"}
    BY DEF Decision
  <2>3. /\ Updated(t).status = IF "status" \in Dirty(t) THEN Decision(t).status ELSE row.status
        /\ Updated(t).priority = IF "priority" \in Dirty(t) THEN Decision(t).priority ELSE row.priority
    BY <1>2 DEF Updated
  <2>4. "status" \in Dirty(t) <=> seen[t].status # "handed_off"
    BY <2>1, <2>2
  <2>5. "priority" \in Dirty(t) <=> (kind[t] # "takeover" /\ seen[t].priority # Decision(t).priority)
    BY <2>1, <2>2
  <2>6. Updated(t) = [status |-> Updated(t).status, priority |-> Updated(t).priority]
    BY <1>2 DEF Updated
  <2>7. Updated(t).status \in {"active", "handed_off"} /\ Updated(t).priority \in {None, "P0", "P2"}
    BY <1>1, <2>2, <2>3, <2>4, <2>5 DEF Row
  <2>8. Updated(t) \in Row
    BY <2>6, <2>7 DEF Row
  <2>9. QED
    BY <1>4, <2>2, <2>3, <2>4, <2>5, <2>8
<1>5. QED
  BY <1>3, <1>4

JobNext(t) == Start(t) \/ Work(t) \/ RollBack(t)

\* A job leaves the other jobs alone.
LEMMA Frame ==
  ASSUME TypeOK, NEW t \in Job, JobNext(t), NEW u \in Job \ {t}
  PROVE  /\ pc'[u] = pc[u] /\ kind'[u] = kind[u] /\ seen'[u] = seen[u] /\ snapshot'[u] = snapshot[u]
         /\ recent'[u] = recent[u] /\ latest'[u] = latest[u] /\ summary'[u] = summary[u]
<1> USE DEF Goto, TypeOK
<1>1. CASE Start(t) \/ ReadRecent(t) \/ Answer(t)
  BY <1>1 DEF Start, ReadRecent, Answer
<1>2. CASE ReadSummary(t)
  BY <1>2 DEF ReadSummary
<1>3. CASE LoadSession(t) \/ TakeSnapshot(t) \/ Flush(t) \/ Reply(t)
  BY <1>3 DEF LoadSession, TakeSnapshot, Flush, Reply
<1>4. CASE MaybeSummarize(t)
  BY <1>4 DEF MaybeSummarize
<1>5. CASE EndSummary(t) \/ SkipSummary(t) \/ Commit(t) \/ RollBack(t)
  BY <1>5 DEF EndSummary, SkipSummary, Commit, RollBack
<1>6. QED
  BY <1>1, <1>2, <1>3, <1>4, <1>5 DEF JobNext, Work

\* What is committed stays so, and only Commit adds to it.
LEMMA Commits ==
  ASSUME TypeOK, NEW t \in Job, JobNext(t)
  PROVE  /\ env' = env /\ t \notin Committed
         /\ Committed \subseteq Committed' /\ Committed' \subseteq Committed \cup {t}
         /\ Queue \subseteq Queue' /\ Stored \subseteq Stored'
         /\ Commit(t) \/ (Committed' = Committed /\ Queue' = Queue /\ Stored' = Stored /\ row' = row)
<1>1. env' = env /\ pc[t] # "committed" /\ (Commit(t) \/ (row' = row /\ pc'[t] # "committed"))
  <2> USE DEF Goto, TypeOK, database
  <2>1. CASE Start(t)
    BY <2>1 DEF Start
  <2>2. CASE ReadRecent(t) \/ ReadSummary(t) \/ Answer(t) \/ LoadSession(t) \/ TakeSnapshot(t)
    BY <2>2 DEF ReadRecent, ReadSummary, Answer, LoadSession, TakeSnapshot
  <2>3. CASE Flush(t) \/ Reply(t) \/ EndSummary(t) \/ SkipSummary(t)
    BY <2>3 DEF Flush, Reply, EndSummary, SkipSummary
  <2>4. CASE MaybeSummarize(t)
    BY <2>4 DEF MaybeSummarize
  <2>5. CASE Commit(t)
    BY <2>5 DEF Commit
  <2>6. CASE RollBack(t)
    BY <2>6 DEF RollBack, ActiveJobs, Ended
  <2>7. QED
    BY <2>1, <2>2, <2>3, <2>4, <2>5, <2>6 DEF JobNext, Work
<1>2. t \notin Committed
  BY <1>1 DEF Committed
<1>3. \A u \in Job : (u # t \/ ~Commit(t)) => (u \in Committed' <=> u \in Committed)
  BY <1>1, Frame DEF Committed
<1>4. \A u \in Committed : kind'[u] = kind[u]
  BY <1>2, Frame DEF Committed
<1>5. Committed \subseteq Committed' /\ Committed' \subseteq Committed \cup {t}
  BY <1>2, <1>3 DEF Committed
<1>6. Queue \subseteq Queue' /\ Stored \subseteq Stored'
  BY <1>4, <1>5 DEF Queue, Stored
<1>7. ~Commit(t) => Committed' = Committed
  BY <1>3 DEF Committed
<1>8. ~Commit(t) => Queue' = Queue /\ Stored' = Stored
  BY <1>4, <1>7 DEF Queue, Stored
<1>9. QED
  BY <1>1, <1>2, <1>5, <1>6, <1>7, <1>8

\* Every step keeps rows and choices well formed.
LEMMA TypeStep == IInv /\ [Next]_vars => TypeOK'
<1> SUFFICES ASSUME IInv, [Next]_vars PROVE TypeOK'
  OBVIOUS
<1>0. TypeOK
  BY DEF IInv
<1> USE DEF Goto, database
<1>1. ASSUME NEW t \in Job, Start(t) PROVE TypeOK'
  <2>1. kind' \in [Job -> JobKind \cup {None}]
    BY <1>0, <1>1, SettingType DEF Start, TypeOK
  <2>2. QED
    BY <1>0, <1>1, <2>1 DEF Start, TypeOK, Locations
<1>2. ASSUME NEW t \in Job, ReadRecent(t) PROVE TypeOK'
  <2>1. PICK C \in Newest(Visible(t), env.window) :
           recent' = [recent EXCEPT ![t] = [some |-> C, of |-> Visible(t)]]
    BY <1>2 DEF ReadRecent
  <2>2. C \subseteq Visible(t) /\ Visible(t) \subseteq Message
    BY NewestWithin, Visibility
  <2>3. [some |-> C, of |-> Visible(t)] \in Choice
    BY <2>2 DEF Choice
  <2>4. recent' \in [Job -> Choice \cup {None}]
    BY <1>0, <2>1, <2>3 DEF TypeOK
  <2>5. \A u \in Job : recent'[u] # None => recent'[u].some \subseteq recent'[u].of
    BY <1>0, <2>1, <2>2 DEF TypeOK
  <2>6. QED
    BY <1>0, <1>2, <2>4, <2>5 DEF ReadRecent, TypeOK, Locations
<1>3. ASSUME NEW t \in Job, ReadSummary(t) PROVE TypeOK'
  <2>1. latest' = latest \/ \E u \in Summarized : latest' = [latest EXCEPT ![t] = summary[u]]
    BY <1>3 DEF ReadSummary
  <2>2. Summarized \subseteq Job
    BY DEF Summarized, Committed
  <2>3. latest' \in [Job -> Choice \cup {None}]
    BY <1>0, <2>1, <2>2 DEF TypeOK
  <2>4. \A u \in Job : latest'[u] # None => latest'[u].some \subseteq latest'[u].of
    BY <1>0, <2>1, <2>2 DEF TypeOK
  <2>5. QED
    BY <1>0, <1>3, <2>3, <2>4 DEF ReadSummary, TypeOK, Locations
<1>4. ASSUME NEW t \in Job, Answer(t) PROVE TypeOK'
  BY <1>0, <1>4 DEF Answer, TypeOK, Locations
<1>5. ASSUME NEW t \in Job, LoadSession(t) PROVE TypeOK'
  BY <1>0, <1>5 DEF LoadSession, TypeOK, Locations
<1>6. ASSUME NEW t \in Job, TakeSnapshot(t) PROVE TypeOK'
  <2>1. PICK C \in Newest(Visible(t), env.shown) : snapshot' = [snapshot EXCEPT ![t] = C]
    BY <1>6 DEF TakeSnapshot
  <2>2. C \subseteq Message
    BY NewestWithin, Visibility
  <2>3. QED
    BY <1>0, <1>6, <2>1, <2>2 DEF TakeSnapshot, TypeOK, Locations
<1>7. ASSUME NEW t \in Job, Flush(t) \/ Reply(t) \/ EndSummary(t) PROVE TypeOK'
  BY <1>0, <1>7 DEF Flush, Reply, EndSummary, TypeOK, Locations
<1>8. ASSUME NEW t \in Job, MaybeSummarize(t) PROVE TypeOK'
  <2>1. CASE summary' = summary
    BY <1>0, <1>8, <2>1 DEF MaybeSummarize, TypeOK, Locations
  <2>2. CASE summary' # summary
    <3>1. PICK C \in Newest(Visible(t), env.window + 1) : \E K \in Newest(C, env.keep) :
             summary' = [summary EXCEPT ![t] = [some |-> C \ K, of |-> Visible(t)]]
      BY <1>8, <2>2 DEF MaybeSummarize
    <3>2. PICK K \in Newest(C, env.keep) :
             summary' = [summary EXCEPT ![t] = [some |-> C \ K, of |-> Visible(t)]]
      BY <3>1
    <3>3. C \ K \subseteq Visible(t) /\ Visible(t) \subseteq Message
      BY NewestWithin, Visibility
    <3>4. [some |-> C \ K, of |-> Visible(t)] \in Choice
      BY <3>3 DEF Choice
    <3>5. summary' \in [Job -> Choice \cup {None}]
      BY <1>0, <3>2, <3>4 DEF TypeOK
    <3>6. \A u \in Job : summary'[u] # None => summary'[u].some \subseteq summary'[u].of
      BY <1>0, <3>2, <3>3 DEF TypeOK
    <3>7. QED
      BY <1>0, <1>8, <3>5, <3>6 DEF MaybeSummarize, TypeOK, Locations
  <2>3. QED
    BY <2>1, <2>2
<1>9. ASSUME NEW t \in Job, SkipSummary(t) PROVE TypeOK'
  BY <1>0, <1>9 DEF SkipSummary, TypeOK, Locations
<1>10. ASSUME NEW t \in Job, Commit(t) PROVE TypeOK'
  <2>1. Updated(t) \in Row
    BY <1>0, UpdatedType
  <2>2. QED
    BY <1>0, <1>10, <2>1 DEF Commit, Unlocked, TypeOK, Locations
<1>11. ASSUME NEW t \in Job, RollBack(t) PROVE TypeOK'
  BY <1>0, <1>11 DEF RollBack, Unlocked, TypeOK, Locations
<1>12. CASE UNCHANGED vars
  BY <1>0, <1>12 DEF vars, TypeOK
<1>13. QED
  BY <1>1, <1>2, <1>3, <1>4, <1>5, <1>6, <1>7, <1>8, <1>9, <1>10, <1>11, <1>12 DEF Next, Work

\* Every step leaves a job where its variables fit.
LEMMA PlaceStep == IInv /\ [Next]_vars => PlaceInv'
<1> SUFFICES ASSUME IInv, [Next]_vars PROVE PlaceInv'
  OBVIOUS
<1>0. TypeOK /\ PlaceInv
  BY DEF IInv
<1>1. ASSUME NEW t \in Job, JobNext(t) PROVE PlaceInv'
  <2>0. PlaceAt(t) /\ env' = env
    BY <1>0, <1>1, Commits DEF PlaceInv
  <2>1. ASSUME NEW u \in Job \ {t} PROVE PlaceAt(u)'
    <3>1. PlaceAt(u)
      BY <1>0 DEF PlaceInv
    <3>2. pc'[u] = pc[u] /\ kind'[u] = kind[u] /\ seen'[u] = seen[u]
      BY <1>0, <1>1, Frame
    <3>3. QED
      BY <2>0, <3>1, <3>2 DEF PlaceAt
  <2>2. PlaceAt(t)'
    <3> USE DEF Goto, database, TypeOK, PlaceAt, Ended
    <3>1. CASE Start(t)
      <4>1. PICK k \in env.kinds :
               /\ kind' = [kind EXCEPT ![t] = k]
               /\ pc' = [pc EXCEPT ![t] = CASE k \in {"chat", "agent"}   -> "recent"
                                             [] k \in {"guide", "notice"} -> "reply"
                                             [] OTHER                     -> "load"]
        BY <3>1 DEF Start
      <4>2. k \in JobKind
        BY <1>0, SettingType
      <4>3. kind'[t] = k /\ seen'[t] = None /\ pc'[t] \in {"recent", "reply", "load"}
        BY <1>0, <2>0, <3>1, <4>1 DEF Start
      <4>4. /\ pc'[t] = "recent" <=> k \in {"chat", "agent"}
            /\ pc'[t] = "reply" <=> k \in {"guide", "notice"}
        BY <1>0, <4>1
      <4>5. QED
        BY <2>0, <4>2, <4>3, <4>4 DEF JobKind, Deciding, Escalations
    <3>2. CASE ReadRecent(t) \/ ReadSummary(t) \/ Answer(t)
      <4>1. pc'[t] \in {"summary", "llm"} \/ pc'[t] = IF kind[t] = "agent" THEN "load" ELSE "reply"
        BY <1>0, <3>2 DEF ReadRecent, ReadSummary, Answer
      <4>2. UNCHANGED <<kind, seen>> /\ kind[t] \in {"chat", "agent"} /\ seen[t] = None /\ pc[t] \notin Ended
        BY <2>0, <3>2 DEF ReadRecent, ReadSummary, Answer
      <4>3. QED
        BY <2>0, <4>1, <4>2 DEF Deciding, Escalations
    <3>3. CASE LoadSession(t) \/ TakeSnapshot(t)
      BY <1>0, <2>0, <3>3 DEF LoadSession, TakeSnapshot
    <3>4. CASE Flush(t) \/ Reply(t) \/ EndSummary(t) \/ SkipSummary(t)
      BY <1>0, <2>0, <3>4 DEF Flush, Reply, EndSummary, SkipSummary
    <3>5. CASE MaybeSummarize(t)
      BY <1>0, <2>0, <3>5 DEF MaybeSummarize
    <3>6. CASE Commit(t) \/ RollBack(t)
      BY <1>0, <2>0, <3>6 DEF Commit, RollBack
    <3>7. QED
      BY <1>1, <3>1, <3>2, <3>3, <3>4, <3>5, <3>6 DEF JobNext, Work
  <2>3. QED
    BY <2>1, <2>2 DEF PlaceInv
<1>2. CASE UNCHANGED vars
  BY <1>0, <1>2 DEF vars, PlaceInv, PlaceAt
<1>3. QED
  BY <1>1, <1>2 DEF Next, JobNext

\* The row follows the queue: who finds the row as it wants it leaves it, and has
\* loaded it from others who are in the queue.
LEMMA AgreeStep == IInv /\ [Next]_vars => SessionAgreesWithQueue'
<1> SUFFICES ASSUME IInv, [Next]_vars PROVE SessionAgreesWithQueue'
  OBVIOUS
<1>0. TypeOK /\ PlaceInv /\ SessionAgreesWithQueue /\ SeenInv
  BY DEF IInv
<1>1. ASSUME NEW t \in Job, JobNext(t), ~Commit(t) PROVE SessionAgreesWithQueue'
  <2>1. Committed' = Committed /\ Queue' = Queue /\ row' = row /\ t \notin Committed
    BY <1>0, <1>1, Commits
  <2>2. \A u \in Committed : kind'[u] = kind[u]
    BY <1>0, <1>1, <2>1, Frame DEF Committed
  <2>3. \A u \in Queue : Decision(u)' = Decision(u)
    BY <2>2 DEF Queue, Decision
  <2>4. (\E u \in Committed' : kind'[u] \in Deciding) <=> (\E u \in Committed : kind[u] \in Deciding)
    BY <2>1, <2>2
  <2>5. Queue # {} => {Decision(u).priority : u \in Queue}' = {Decision(u).priority : u \in Queue}
    BY <2>1, <2>3
  <2>6. QED
    BY <1>0, <2>1, <2>4, <2>5 DEF SessionAgreesWithQueue, Deciding
<1>2. ASSUME NEW t \in Job, Commit(t) PROVE SessionAgreesWithQueue'
  <2>0. PlaceAt(t) /\ pc[t] = "commit" /\ JobNext(t)
    BY <1>0, <1>2 DEF PlaceInv, Commit, JobNext, Work
  <2>1. row' = Updated(t) /\ kind' = kind /\ Committed' = Committed \cup {t} /\ row \in Row
    BY <1>0, <1>2 DEF Commit, Goto, Committed, TypeOK
  <2>2. \A u \in Job : Decision(u)' = Decision(u)
    BY <2>1 DEF Decision
  <2>3. Queue' = IF kind[t] \in Escalations THEN Queue \cup {t} ELSE Queue
    BY <2>1 DEF Queue
  <2>4. Committed \subseteq Job /\ Queue \subseteq Job
    BY DEF Committed, Queue
  <2>5. CASE kind[t] \notin Deciding
    <3>1. seen[t] = None
      BY <2>0, <2>5 DEF PlaceAt
    <3>2. row' = row /\ Queue' = Queue
      BY <1>0, <2>1, <2>3, <2>5, <3>1, UpdatedType DEF Deciding
    <3>3. (\E u \in Committed' : kind'[u] \in Deciding) <=> (\E u \in Committed : kind[u] \in Deciding)
      BY <2>1, <2>5
    <3>4. {Decision(u).priority : u \in Queue}' = {Decision(u).priority : u \in Queue}
      BY <2>2, <2>4, <3>2
    <3>5. QED
      BY <1>0, <3>2, <3>3, <3>4 DEF SessionAgreesWithQueue, Deciding
  <2>6. CASE kind[t] \in Deciding
    <3>1. seen[t] # None
      BY <2>0, <2>6 DEF PlaceAt
    <3>2. row'.status = "handed_off"
      <4>1. row'.status = IF seen[t].status = "handed_off" THEN row.status ELSE "handed_off"
        BY <1>0, <2>1, <3>1, UpdatedType
      <4>2. seen[t].status = "handed_off" => row.status = "handed_off"
        BY <1>0, <3>1 DEF SeenInv, SessionAgreesWithQueue, Deciding
      <4>3. QED
        BY <4>1, <4>2
    <3>3. \E u \in Committed' : kind'[u] \in Deciding
      BY <2>1, <2>6
    <3>4. CASE kind[t] = "takeover"
      <4>1. row'.priority = row.priority /\ Queue' = Queue
        BY <1>0, <2>1, <2>3, <3>1, <3>4, UpdatedType DEF Escalations
      <4>2. {Decision(u).priority : u \in Queue}' = {Decision(u).priority : u \in Queue}
        BY <2>2, <2>4, <4>1
      <4>3. QED
        BY <1>0, <3>2, <3>3, <4>1, <4>2 DEF SessionAgreesWithQueue, Deciding
    <3>5. CASE kind[t] \in Escalations
      <4>1. kind[t] # "takeover" /\ Queue' = Queue \cup {t}
        BY <2>3, <3>5 DEF Escalations
      <4>2. row'.priority = IF seen[t].priority = Decision(t).priority THEN row.priority
                            ELSE Decision(t).priority
        BY <1>0, <2>1, <3>1, <4>1, UpdatedType
      <4>3. Decision(t).priority # None
        BY <4>1 DEF Decision, Row
      <4>4. seen[t].priority = Decision(t).priority => \E u \in Queue : row.priority = Decision(u).priority
        BY <1>0, <3>1, <4>3 DEF SeenInv, SessionAgreesWithQueue
      <4>5. \E u \in Queue' : row'.priority = Decision(u).priority
        BY <4>1, <4>2, <4>4
      <4>6. row'.priority \in {Decision(u).priority : u \in Queue}' /\ Queue' # {}
        BY <2>2, <2>4, <4>1, <4>5
      <4>7. QED
        BY <3>2, <3>3, <4>6 DEF SessionAgreesWithQueue, Deciding
    <3>6. QED
      BY <2>6, <3>4, <3>5 DEF Deciding
  <2>7. QED
    BY <2>5, <2>6
<1>3. CASE UNCHANGED vars
  BY <1>0, <1>3 DEF vars, SessionAgreesWithQueue, Committed, Queue, Decision
<1>4. QED
  BY <1>1, <1>2, <1>3 DEF Next, JobNext

\* What is loaded from the row agrees with the queue then, and the queue only grows.
LEMMA SeenStep == IInv /\ [Next]_vars => SeenInv'
<1> SUFFICES ASSUME IInv, [Next]_vars PROVE SeenInv'
  OBVIOUS
<1>0. TypeOK /\ SessionAgreesWithQueue /\ SeenInv
  BY DEF IInv
<1>1. ASSUME NEW t \in Job, JobNext(t) PROVE SeenInv'
  <2>1. Committed \subseteq Committed' /\ Queue \subseteq Queue' /\ t \notin Committed
    BY <1>0, <1>1, Commits
  <2>2. \A u \in Committed : kind'[u] = kind[u]
    BY <1>0, <1>1, <2>1, Frame DEF Committed
  <2>3. (\E u \in Committed : kind[u] \in Deciding) => \E u \in Committed' : kind'[u] \in Deciding
    BY <2>1, <2>2
  <2>4. \A u \in Job \ {t} : seen'[u] = seen[u]
    BY <1>0, <1>1, Frame
  <2>5. seen'[t] \in {seen[t], None, row}
    <3> USE DEF TypeOK
    <3>1. CASE Start(t) \/ ReadRecent(t) \/ ReadSummary(t) \/ Answer(t) \/ LoadSession(t) \/ TakeSnapshot(t)
      BY <1>0, <3>1 DEF Start, ReadRecent, ReadSummary, Answer, LoadSession, TakeSnapshot
    <3>2. CASE Flush(t) \/ Reply(t) \/ MaybeSummarize(t) \/ EndSummary(t) \/ SkipSummary(t)
      BY <1>0, <3>2 DEF Flush, Reply, MaybeSummarize, EndSummary, SkipSummary
    <3>3. CASE Commit(t) \/ RollBack(t)
      BY <1>0, <3>3 DEF Commit, RollBack
    <3>4. QED
      BY <1>1, <3>1, <3>2, <3>3 DEF JobNext, Work
  <2>6. /\ row.status = "handed_off" => \E u \in Committed : kind[u] \in Deciding
        /\ row.priority # None => Queue # {}
    BY <1>0 DEF SessionAgreesWithQueue, Deciding
  <2>7. QED
    BY <1>0, <2>1, <2>3, <2>4, <2>5, <2>6 DEF SeenInv
<1>2. CASE UNCHANGED vars
  BY <1>0, <1>2 DEF vars, SeenInv, Committed, Queue
<1>3. QED
  BY <1>1, <1>2 DEF Next, JobNext

\* A snapshot is taken of visible messages, which stay or become stored.
LEMMA ContextStep == IInv /\ [Next]_vars => ContextInv'
<1> SUFFICES ASSUME IInv, [Next]_vars PROVE ContextInv'
  OBVIOUS
<1>0. TypeOK /\ PlaceInv /\ ContextInv
  BY DEF IInv
<1>1. ASSUME NEW t \in Job, JobNext(t) PROVE ContextInv'
  <2>0. ContextAt(t) /\ PlaceAt(t) /\ env' = env /\ Stored \subseteq Stored'
    BY <1>0, <1>1, Commits DEF ContextInv, PlaceInv
  <2>1. ASSUME NEW u \in Job \ {t} PROVE ContextAt(u)'
    <3>1. ContextAt(u)
      BY <1>0 DEF ContextInv
    <3>2. pc'[u] = pc[u] /\ kind'[u] = kind[u] /\ snapshot'[u] = snapshot[u]
      BY <1>0, <1>1, Frame
    <3>3. Own(u)' = Own(u)
      BY <3>2 DEF Own
    <3>4. QED
      BY <2>0, <3>1, <3>2, <3>3 DEF ContextAt
  <2>2. ContextAt(t)'
    <3>1. CASE Start(t)
      <4>1. snapshot'[t] = {} /\ pc'[t] \in {"recent", "reply", "load"} /\ pc[t] = "idle"
        BY <1>0, <2>0, <3>1 DEF Start, Goto, TypeOK, ContextAt
      <4>2. pc'[t] = "reply" => kind'[t] \notin Escalations
        BY <1>0, <3>1 DEF Start, Goto, TypeOK, Escalations
      <4>3. QED
        BY <4>1, <4>2 DEF ContextAt
    <3>2. CASE TakeSnapshot(t)
      <4>1. PICK C \in Newest(Visible(t), env.shown) : snapshot' = [snapshot EXCEPT ![t] = C]
        BY <3>2 DEF TakeSnapshot
      <4>2. snapshot'[t] = C /\ pc[t] = "snapshot" /\ pc'[t] = "flush" /\ kind' = kind
        BY <1>0, <3>2, <4>1 DEF TakeSnapshot, Goto, TypeOK
      <4>3. C \subseteq Stored \cup Own(t) /\ Own(t)' = Own(t)
        BY <4>2, NewestWithin DEF Visible, Own
      <4>4. CASE kind[t] \in {"agent", "sos"}
        <5>1. Own(t) = {<<t, "user">>} /\ t \notin Committed
          BY <4>2, <4>4 DEF Own, Messages, Committed
        <5>2. \A m \in Visible(t) : m[1] = t => m = <<t, "user">>
          BY <5>1 DEF Visible, Stored
        <5>3. <<t, "user">> \in Visible(t)
          BY <5>1 DEF Visible
        <5>4. <<t, "user">> \in C \/ (Cardinality(C) = env.shown /\ \A m \in C : m[1] > t)
          BY <1>0, <5>2, <5>3, NewestHas, Visibility, SettingType
        <5>5. QED
          BY <2>0, <4>2, <4>3, <5>4 DEF ContextAt
      <4>5. CASE kind[t] \notin {"agent", "sos"}
        BY <2>0, <4>2, <4>3, <4>5 DEF ContextAt, Escalations
      <4>6. QED
        BY <4>4, <4>5
    <3>3. CASE RollBack(t)
      <4>1. snapshot'[t] = {} /\ pc'[t] = "lost"
        BY <1>0, <3>3 DEF RollBack, Goto, TypeOK
      <4>2. QED
        BY <4>1 DEF ContextAt
    <3>4. CASE Commit(t)
      <4>1. UNCHANGED <<kind, snapshot>> /\ pc[t] = "commit" /\ pc'[t] = "committed"
        BY <1>0, <3>4 DEF Commit, Goto, TypeOK
      <4>2. kind[t] \in Messages => t \in {u \in Committed : kind[u] \in Messages}'
        BY <4>1 DEF Committed
      <4>3. Own(t) \subseteq Stored'
        BY <4>2 DEF Own, Stored
      <4>4. QED
        BY <2>0, <4>1, <4>3 DEF ContextAt
    <3>5. CASE ReadRecent(t) \/ ReadSummary(t) \/ Answer(t) \/ LoadSession(t)
      <4>1. UNCHANGED <<kind, snapshot>> /\ pc[t] \in {"recent", "summary", "llm", "load"}
        BY <3>5 DEF ReadRecent, ReadSummary, Answer, LoadSession
      <4>2. pc'[t] \in {"summary", "llm", "load", "snapshot"}
               \/ (kind[t] \notin Escalations /\ pc'[t] \in {"flush", "reply"})
        BY <1>0, <2>0, <3>5 DEF ReadRecent, ReadSummary, Answer, LoadSession, Goto, TypeOK, PlaceAt, Escalations
      <4>3. Own(t)' = Own(t)
        BY <4>1, <4>2 DEF Own
      <4>4. QED
        BY <2>0, <4>1, <4>2, <4>3 DEF ContextAt
    <3>6. CASE Flush(t) \/ Reply(t) \/ MaybeSummarize(t) \/ EndSummary(t) \/ SkipSummary(t)
      <4>1. UNCHANGED <<kind, snapshot>> /\ pc[t] \in {"flush", "reply", "summarize", "summarizing"}
        BY <3>6 DEF Flush, Reply, MaybeSummarize, EndSummary, SkipSummary
      <4>2. pc'[t] \in {"reply", "summarize", "summarizing", "commit"}
        BY <1>0, <3>6 DEF Flush, Reply, MaybeSummarize, EndSummary, SkipSummary, Goto, TypeOK
      <4>3. pc[t] \in {"summarize", "summarizing"} => pc'[t] # "reply"
        BY <1>0, <3>6 DEF Flush, Reply, MaybeSummarize, EndSummary, SkipSummary, Goto, TypeOK
      <4>4. Own(t) \subseteq Own(t)'
        BY <4>1, <4>2, <4>3 DEF Own
      <4>5. QED
        BY <2>0, <4>1, <4>2, <4>4 DEF ContextAt
    <3>7. QED
      BY <1>1, <3>1, <3>2, <3>3, <3>4, <3>5, <3>6 DEF JobNext, Work
  <2>3. QED
    BY <2>1, <2>2 DEF ContextInv
<1>2. CASE UNCHANGED vars
  BY <1>0, <1>2 DEF vars, ContextInv, ContextAt, Stored, Committed, Own
<1>3. QED
  BY <1>1, <1>2 DEF Next, JobNext

\* The invariant all theorems below rest on.
LEMMA Inductive == Spec => []IInv
<1>1. IInv /\ [Next]_vars => IInv'
  BY TypeStep, PlaceStep, AgreeStep, SeenStep, ContextStep DEF IInv
<1>2. QED
  BY Initially, <1>1, PTL DEF Spec

\* The rows, and what jobs have read of them, are well formed.
THEOREM TypeCorrect == Spec => []TypeOK
<1>1. IInv => TypeOK
  BY DEF IInv
<1>2. QED
  BY Inductive, <1>1, PTL

\* The session row is handed off exactly when a handoff or takeover is committed,
\* and has the priority of a handoff in the queue, however escalations overlap
\* between loading the row and locking it.
THEOREM RowFollowsQueue == Spec => []SessionAgreesWithQueue
<1>1. IInv => SessionAgreesWithQueue
  BY DEF IInv
<1>2. QED
  BY Inductive, <1>1, PTL

\* Humans are shown stored messages, with the one that asked for them unless as
\* many messages of later jobs were there.
THEOREM ContextIsShown == Spec => []HandoffsHaveContext
<1>1. IInv => HandoffsHaveContext
  <2> SUFFICES ASSUME IInv, NEW t \in Queue
               PROVE  /\ snapshot[t] \subseteq Stored
                      /\ kind[t] = "button" \/ <<t, "user">> \in snapshot[t] \/
                            /\ Cardinality(snapshot[t]) = env.shown
                            /\ \A m \in snapshot[t] : m[1] > t
    BY DEF HandoffsHaveContext
  <2>1. ContextAt(t) /\ t \in Committed /\ pc[t] = "committed" /\ kind[t] \in Escalations
    BY DEF IInv, ContextInv, Queue, Committed
  <2>2. Own(t) \subseteq Stored
    BY <2>1 DEF Own, Stored
  <2>3. QED
    BY <2>1, <2>2 DEF ContextAt
<1>2. QED
  BY Inductive, <1>1, PTL
-----------------------------------------------------------------------------
(* What the LLM is given of earlier messages. *)

\* Of the messages of one job there are two.
LEMMA OneTwin ==
  ASSUME NEW m \in Message
  PROVE  \E twin : \A x \in Message : x[1] = m[1] => x \in {m, twin}
<1>1. \A x \in Message : x = <<x[1], x[2]>> /\ x[2] \in {"user", "assistant"}
  BY DEF Message
<1>2. CASE m[2] = "user"
  BY <1>1, <1>2
<1>3. CASE m[2] = "assistant"
  BY <1>1, <1>3
<1>4. QED
  BY <1>1, <1>2, <1>3

\* An element is exchanged for another: there are no more of them.
LEMMA Exchange ==
  ASSUME NEW S, IsFiniteSet(S), NEW m \in S, NEW x
  PROVE  IsFiniteSet((S \ {m}) \cup {x}) /\ Cardinality((S \ {m}) \cup {x}) <= Cardinality(S)
<1>1. IsFiniteSet(S \ {m}) /\ Cardinality(S \ {m}) = Cardinality(S) - 1
  BY FS_RemoveElement
<1>2. /\ IsFiniteSet((S \ {m}) \cup {x})
      /\ Cardinality((S \ {m}) \cup {x}) = IF x \in S \ {m} THEN Cardinality(S \ {m})
                                           ELSE Cardinality(S \ {m}) + 1
  BY <1>1, FS_AddElement
<1>3. Cardinality(S) \in Nat /\ Cardinality(S \ {m}) \in Nat
  BY <1>1, FS_CardinalityType
<1>4. QED
  BY <1>1, <1>2, <1>3

\* A window of messages R of those in V, and a summary of C without K, of those in
\* W: when few are new, what neither has is older than what was summarized, or
\* came late.
LEMMA NoHole ==
  ASSUME NEW window \in Nat, NEW keep \in Nat,
         NEW V, V \subseteq Message, NEW W, W \subseteq Message,
         NEW R \in Newest(V, window), NEW C \in Newest(W, window + 1), NEW K \in Newest(C, keep),
         Cardinality(V \ W) + keep < window,
         NEW m \in V, m \notin R, m \notin C \ K,
         m \in W \/ \A w \in W : ~(m[1] < w[1]),
         NEW q \in C \ K
  PROVE  m[1] <= q[1]
<1> SUFFICES ASSUME ~(m[1] <= q[1]) PROVE FALSE
  OBVIOUS
<1>1. window + 1 \in Nat
  OBVIOUS
<1>2. C \subseteq W /\ \A x \in C, w \in W \ C : w[1] <= x[1]
  BY <1>1, NewestShape
<1>3. C \subseteq Message
  BY <1>2
<1>4. K \subseteq C /\ IsFiniteSet(K) /\ Cardinality(K) \in Nat /\ Cardinality(K) <= keep
      /\ \A x \in K, w \in C \ K : w[1] <= x[1]
  BY <1>3, NewestShape
<1>5. R \subseteq V /\ Cardinality(R) = window /\ \A x \in R : m[1] <= x[1]
  BY NewestShape
<1>6. \A x \in V \cup W : x[1] \in Nat /\ x \in Message
  BY DEF Message, Job
<1>7. IsFiniteSet(V \ W) /\ Cardinality(V \ W) \in Nat
  BY MessagesFinite, FS_CardinalityType
<1>8. PICK twin : \A x \in Message : x[1] = m[1] => x \in {m, twin}
  BY <1>6, OneTwin
<1>9. CASE m \notin W
  <2>1. \A w \in W : w[1] <= m[1]
    BY <1>6, <1>9
  <2>2. R \subseteq ((V \ W) \ {m}) \cup {twin}
    <3>1. ASSUME NEW x \in R, x \in W PROVE x = twin
      <4>1. x[1] <= m[1] /\ m[1] <= x[1] /\ x[1] \in Nat /\ m[1] \in Nat /\ x \in Message
        BY <1>5, <1>6, <2>1, <3>1
      <4>2. x[1] = m[1] /\ x # m
        BY <3>1, <4>1
      <4>3. QED
        BY <1>8, <4>1, <4>2
    <3>2. QED
      BY <1>5, <3>1
  <2>3. /\ IsFiniteSet(((V \ W) \ {m}) \cup {twin})
        /\ Cardinality(((V \ W) \ {m}) \cup {twin}) <= Cardinality(V \ W)
    BY <1>7, <1>9, Exchange
  <2>4. Cardinality(R) <= Cardinality(((V \ W) \ {m}) \cup {twin})
        /\ Cardinality(((V \ W) \ {m}) \cup {twin}) \in Nat
    BY <2>2, <2>3, FS_Subset, FS_CardinalityType
  <2>5. QED
    BY <1>5, <1>7, <2>3, <2>4
<1>10. CASE m \in W
  <2>1. m \in K
    BY <1>2, <1>10
  <2>2. R \subseteq (V \ W) \cup ((K \ {m}) \cup {twin})
    <3>1. ASSUME NEW x \in R, x \in W PROVE x \in (K \ {m}) \cup {twin}
      <4>1. m[1] <= x[1] /\ x[1] \in Nat /\ m[1] \in Nat /\ q[1] \in Nat /\ x \in Message /\ x # m
        BY <1>2, <1>5, <1>6, <3>1
      <4>2. x \in C
        <5>1. ~(x[1] <= q[1])
          BY <4>1
        <5>2. QED
          BY <1>2, <3>1, <5>1
      <4>3. CASE x \in K
        BY <4>1, <4>3
      <4>4. CASE x \notin K
        <5>1. x[1] <= m[1]
          BY <1>4, <2>1, <4>2, <4>4
        <5>2. x[1] = m[1]
          BY <4>1, <5>1
        <5>3. QED
          BY <1>8, <4>1, <5>2
      <4>5. QED
        BY <4>3, <4>4
    <3>2. QED
      BY <1>5, <3>1
  <2>3. /\ IsFiniteSet((K \ {m}) \cup {twin})
        /\ Cardinality((K \ {m}) \cup {twin}) <= Cardinality(K)
    BY <1>4, <2>1, Exchange
  <2> DEFINE T == (K \ {m}) \cup {twin}
  <2>4. /\ IsFiniteSet((V \ W) \cup T)
        /\ Cardinality((V \ W) \cup T) = Cardinality(V \ W) + Cardinality(T) - Cardinality((V \ W) \cap T)
    BY <1>7, <2>3, FS_Union
  <2>5. Cardinality((V \ W) \cap T) \in Nat /\ Cardinality(T) \in Nat
    BY <1>7, <2>3, FS_Intersection, FS_CardinalityType
  <2>6. Cardinality(R) <= Cardinality((V \ W) \cup T) /\ Cardinality((V \ W) \cup T) \in Nat
    BY <2>2, <2>4, FS_Subset, FS_CardinalityType
  <2>7. QED
    BY <1>4, <1>5, <1>7, <2>3, <2>4, <2>5, <2>6
<1>11. QED
  BY <1>9, <1>10

IsWindow(w) == w.some \in Newest(w.of, env.window)
IsSummary(s) == \E C \in Newest(s.of, env.window + 1) : \E K \in Newest(C, env.keep) : s.some = C \ K

\* A job's window and summaries, its own and the one it read, were chosen as the
\* queries choose.
MemoryAt(t) ==
    /\ recent[t] # None => IsWindow(recent[t])
    /\ pc[t] \in {"summary", "llm"} => recent[t] # None
    /\ latest[t] # None => IsSummary(latest[t])
    /\ summary[t] # None => IsSummary(summary[t])

MemoryInv == \A t \in Job : MemoryAt(t)

\* Windows and summaries are made by three steps, and none is changed.
LEMMA MemoryStep == IInv /\ MemoryInv /\ [Next]_vars => MemoryInv'
<1> SUFFICES ASSUME IInv, MemoryInv, [Next]_vars PROVE MemoryInv'
  OBVIOUS
<1>0. TypeOK
  BY DEF IInv
<1>1. ASSUME NEW t \in Job, JobNext(t) PROVE MemoryInv'
  <2>0. MemoryAt(t) /\ env' = env
    BY <1>0, <1>1, Commits DEF MemoryInv
  <2>1. ASSUME NEW u \in Job \ {t} PROVE MemoryAt(u)'
    <3>1. MemoryAt(u)
      BY DEF MemoryInv
    <3>2. pc'[u] = pc[u] /\ recent'[u] = recent[u] /\ latest'[u] = latest[u] /\ summary'[u] = summary[u]
      BY <1>0, <1>1, Frame
    <3>3. QED
      BY <2>0, <3>1, <3>2 DEF MemoryAt, IsWindow, IsSummary
  <2>2. MemoryAt(t)'
    <3> USE DEF Goto, TypeOK
    <3>1. CASE ReadRecent(t)
      <4>1. PICK C \in Newest(Visible(t), env.window) :
               recent' = [recent EXCEPT ![t] = [some |-> C, of |-> Visible(t)]]
        BY <3>1 DEF ReadRecent
      <4>2. recent'[t] # None /\ recent'[t].some = C /\ recent'[t].of = Visible(t)
        <5>1. [some |-> C, of |-> Visible(t)] \in Choice
          BY <4>1, NewestWithin, Visibility DEF Choice
        <5>2. recent'[t] = [some |-> C, of |-> Visible(t)]
          BY <1>0, <4>1
        <5>3. QED
          BY <5>1, <5>2
      <4>3. latest'[t] = latest[t] /\ summary'[t] = summary[t]
        BY <3>1 DEF ReadRecent
      <4>4. QED
        BY <2>0, <4>1, <4>2, <4>3 DEF MemoryAt, IsWindow, IsSummary
    <3>2. CASE ReadSummary(t)
      <4>1. latest'[t] = latest[t] \/ \E u \in Job : summary[u] # None /\ latest'[t] = summary[u]
        BY <1>0, <3>2 DEF ReadSummary, Summarized, Committed
      <4>2. latest'[t] # None => IsSummary(latest'[t])
        BY <2>0, <4>1 DEF MemoryInv, MemoryAt
      <4>3. recent'[t] = recent[t] /\ summary'[t] = summary[t] /\ pc[t] = "summary"
        BY <3>2 DEF ReadSummary
      <4>4. QED
        BY <2>0, <4>2, <4>3 DEF MemoryAt, IsWindow, IsSummary
    <3>3. CASE MaybeSummarize(t)
      <4>1. summary'[t] = summary[t] \/ IsSummary(summary'[t])
        <5>1. CASE Cardinality(Visible(t)) <= env.window
          BY <3>3, <5>1 DEF MaybeSummarize
        <5>2. CASE ~(Cardinality(Visible(t)) <= env.window)
          <6>0. PICK C \in Newest(Visible(t), env.window + 1) : \E K \in Newest(C, env.keep) :
                   summary' = [summary EXCEPT ![t] = [some |-> C \ K, of |-> Visible(t)]]
            BY <3>3, <5>2 DEF MaybeSummarize
          <6>1. PICK K \in Newest(C, env.keep) :
                   summary' = [summary EXCEPT ![t] = [some |-> C \ K, of |-> Visible(t)]]
            BY <6>0
          <6>2. summary'[t].some = C \ K /\ summary'[t].of = Visible(t)
            BY <1>0, <6>1
          <6>3. QED
            BY <6>1, <6>2 DEF IsSummary
        <5>3. QED
          BY <5>1, <5>2
      <4>2. recent'[t] = recent[t] /\ latest'[t] = latest[t] /\ pc'[t] \in {"commit", "summarizing"}
        BY <1>0, <3>3 DEF MaybeSummarize
      <4>3. QED
        BY <2>0, <4>1, <4>2 DEF MemoryAt, IsWindow, IsSummary
    <3>4. CASE Start(t) \/ LoadSession(t) \/ TakeSnapshot(t) \/ Flush(t) \/ Reply(t) \/ EndSummary(t) \/ Commit(t)
      <4>1. UNCHANGED <<recent, latest, summary>> /\ pc'[t] \notin {"summary", "llm"}
        BY <1>0, <3>4 DEF Start, LoadSession, TakeSnapshot, Flush, Reply, EndSummary, Commit
      <4>2. QED
        BY <2>0, <4>1 DEF MemoryAt, IsWindow, IsSummary
    <3>5. CASE Answer(t) \/ SkipSummary(t) \/ RollBack(t)
      <4>1. /\ recent'[t] \in {recent[t], None} /\ latest'[t] \in {latest[t], None}
            /\ summary'[t] \in {summary[t], None} /\ pc'[t] \notin {"summary", "llm"}
        BY <1>0, <3>5 DEF Answer, SkipSummary, RollBack
      <4>2. QED
        BY <2>0, <4>1 DEF MemoryAt, IsWindow, IsSummary
    <3>6. QED
      BY <1>1, <3>1, <3>2, <3>3, <3>4, <3>5 DEF JobNext, Work
  <2>3. QED
    BY <2>1, <2>2 DEF MemoryInv
<1>2. CASE UNCHANGED vars
  BY <1>2 DEF vars, MemoryInv, MemoryAt, IsWindow, IsSummary
<1>3. QED
  BY <1>1, <1>2 DEF Next, JobNext

\* The window and the newest summary leave no hole between them while fewer than
\* window - keep messages are new, for windows of any size and however turns
\* overlap: what the window lost, the summary kept out, or both took.
THEOREM MemoryIsWhole == Spec => []MemoryHasNoHoles
<1>1. Init => MemoryInv
  BY DEF Init, MemoryInv, MemoryAt
<1>2. IInv /\ MemoryInv => MemoryHasNoHoles
  <2> SUFFICES ASSUME IInv, MemoryInv, NEW t \in Job, pc[t] = "llm", latest[t] # None,
                      Cardinality(recent[t].of \ latest[t].of) + env.keep < env.window,
                      NEW m \in recent[t].of,
                      m \notin recent[t].some, m \notin latest[t].some,
                      ~(m \in recent[t].of \ latest[t].of /\ \E q \in latest[t].of : m[1] < q[1]),
                      NEW q \in latest[t].some
               PROVE  m[1] <= q[1]
    BY DEF MemoryHasNoHoles
  <2>1. recent[t] \in Choice /\ latest[t] \in Choice
    BY DEF IInv, TypeOK, MemoryInv, MemoryAt
  <2>2. recent[t].of \subseteq Message /\ latest[t].of \subseteq Message
    BY <2>1 DEF Choice
  <2>3. env.window \in Nat /\ env.keep \in Nat
    BY DEF IInv, TypeOK, Setting
  <2>4. recent[t].some \in Newest(recent[t].of, env.window)
    BY DEF MemoryInv, MemoryAt, IsWindow
  <2>5. PICK C \in Newest(latest[t].of, env.window + 1) : \E K \in Newest(C, env.keep) :
           latest[t].some = C \ K
    BY DEF MemoryInv, MemoryAt, IsSummary
  <2>6. PICK K \in Newest(C, env.keep) : latest[t].some = C \ K
    BY <2>5
  <2>7. QED
    BY <2>2, <2>3, <2>4, <2>6, NoHole
<1>3. QED
  BY Inductive, <1>1, <1>2, MemoryStep, PTL DEF Spec
=============================================================================
