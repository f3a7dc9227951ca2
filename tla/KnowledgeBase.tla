--------------------------- MODULE KnowledgeBase ----------------------------
(***************************************************************************)
(* The knowledge articles behind RAG and the chunks they are searched by:  *)
(* the admin operations of app/admin/router.py (approve, reject, ingest,   *)
(* reingest-all) over KnowledgeIngestionService                            *)
(* (app/knowledge/ingestion/service.py), each a PostgreSQL transaction at  *)
(* READ COMMITTED, with an await for the embeddings in the middle.         *)
(* Chunks of one ingestion are inserted together and stand for each other: *)
(* a "chunk" here is all chunks that one transaction made of one article.  *)
(***************************************************************************)
EXTENDS Naturals, FiniteSets

CONSTANTS Article,
          Op,           \* the admin operations
          Content,      \* the texts an article can have
          Blank,        \* a text that chunk_text makes nothing of
          Settings,     \* the circumstances to look at, see Setting
          Nobody

KindOfOp == {"approve", "reject", "ingest", "reingestAll"}

\* Circumstances of the operations: what each one does (those that take
\* part), the texts articles have, how embeddings fail, and a bound on the
\* operations in progress at once and one on the edits.
IsSetting(s) ==
    /\ DOMAIN s.plan \subseteq Op /\ \A o \in DOMAIN s.plan : s.plan[o] \in KindOfOp
    /\ s.texts \subseteq Content
    /\ s.failures \subseteq {"down", "garbled"}
    /\ s.active \in Nat /\ s.edits \in Nat

ASSUME KnowledgeAssumption ==
    /\ \A s \in Settings : IsSetting(s)
    /\ Nobody \notin Op

Row == [content : Content, approval : {"pending", "approved", "rejected"},
        status : {"draft", "active"}]
\* A chunk; first says that an approval made it which found no approved article,
\* after is what had succeeded when its operation began.
Chunk == [article : Article, content : Content, by : Op, first : BOOLEAN, after : SUBSET Op]

VARIABLES
    env,        \* the setting, chosen once
    article,    \* knowledge_articles, committed
    chunks,     \* knowledge_chunks, committed
    writer,     \* the operation whose UPDATE holds the lock of an article
    pc,         \* where each operation is
    loaded,     \* the article rows it has loaded
    past,       \* the operations that had succeeded by then
    todo,       \* the articles it has still to ingest
    current,    \* the one it is ingesting
    seen,       \* the chunks its DELETE found when it started
    gone,       \* the chunks it deleted ...
    fresh,      \* ... and those it inserted, in the open transaction
    edits       \* how many edits there were

vars == <<env, article, chunks, writer, pc, loaded, past, todo, current, seen, gone,
          fresh, edits>>
database == <<article, chunks, writer>>
session == <<env, loaded, past>>
kind == env.plan    \* what each operation does

NoRows == [a \in {} |-> Nobody]

Init ==
    /\ env \in Settings
    /\ article \in [Article -> {[content |-> c, approval |-> "pending", status |-> "draft"] :
                                c \in env.texts}]
    /\ chunks = {}
    /\ writer = [a \in Article |-> Nobody]
    /\ pc = [o \in Op |-> "idle"]
    /\ loaded = [o \in Op |-> NoRows]
    /\ past = [o \in Op |-> {}]
    /\ todo = [o \in Op |-> {}]
    /\ current = [o \in Op |-> Nobody]
    /\ seen = [o \in Op |-> {}]
    /\ gone = [o \in Op |-> {}]
    /\ fresh = [o \in Op |-> {}]
    /\ edits = 0

Goto(o, loc) == pc' = [pc EXCEPT ![o] = loc]

Ended == {"idle", "ok", "failed"}
ActiveOps == {o \in Op : pc[o] \notin Ended}

ChunksOf(a) == {c \in chunks : c.article = a}

\* What retrieve joins chunks with.
Eligible(a) == article[a].approval = "approved" /\ article[a].status = "active"

\* An article's text is edited, outside this code, by whoever the docstring of
\* reingest_knowledge_article has in mind.
Edit(a) ==
    /\ edits < env.edits
    /\ writer[a] = Nobody
    /\ \E c \in env.texts : article' = [article EXCEPT ![a].content = c]
    /\ edits' = edits + 1
    /\ UNCHANGED <<chunks, writer, pc, session, todo, current, seen, gone, fresh>>

\* The articles an operation loads: the one it names, or all eligible ones.
Targets(o) ==
    IF kind[o] = "reingestAll" THEN {{a \in Article : Eligible(a)}}
    ELSE {{a} : a \in Article}

\* Bug of Load: articles that have chunks are taken for up to date.
LoadUnindexed(o) ==
    /\ pc[o] = "idle" /\ o \in DOMAIN kind
    /\ Cardinality(ActiveOps) < env.active
    /\ \E S \in Targets(o) :
          LET work == IF kind[o] = "reject" THEN {} ELSE {a \in S : ChunksOf(a) = {}}
          IN  /\ loaded' = [loaded EXCEPT ![o] = [a \in S |-> article[a]]]
              /\ past' = [past EXCEPT ![o] = {p \in Op : pc[p] = "ok"}]
              /\ todo' = [todo EXCEPT ![o] = work]
              /\ Goto(o, IF work = {} THEN "commit"
                         ELSE IF kind[o] = "approve" THEN "update" ELSE "next")
    /\ UNCHANGED <<database, env, current, seen, gone, fresh, edits>>

\* The rows are loaded, once; blank articles are left as they are.
Load(o) ==
    /\ pc[o] = "idle" /\ o \in DOMAIN kind
    /\ Cardinality(ActiveOps) < env.active
    /\ \E S \in Targets(o) :
          LET work == IF kind[o] = "reject" THEN {} ELSE {a \in S : article[a].content # Blank}
          IN  /\ loaded' = [loaded EXCEPT ![o] = [a \in S |-> article[a]]]
              /\ past' = [past EXCEPT ![o] = {p \in Op : pc[p] = "ok"}]
              /\ todo' = [todo EXCEPT ![o] = work]
              /\ Goto(o, IF work = {} THEN "commit"
                         ELSE IF kind[o] = "approve" THEN "update" ELSE "next")
    /\ UNCHANGED <<database, env, current, seen, gone, fresh, edits>>

\* The columns of the row that approve and reject set, and whether that makes
\* it dirty: a value equal to the loaded one is not written.
Decision(o) ==
    CASE kind[o] = "approve" -> [approval |-> "approved", status |-> "active"]
      [] kind[o] = "reject"  -> [approval |-> "rejected"]
      [] OTHER               -> NoRows
Dirty(o, a) == {f \in DOMAIN Decision(o) : loaded[o][a][f] # Decision(o)[f]}

Lockable(o, a) == Dirty(o, a) = {} \/ writer[a] \in {Nobody, o}
Locked(o, a) == IF Dirty(o, a) = {} THEN writer ELSE [writer EXCEPT ![a] = o]

\* Bug of UpdateArticle: no autoflush, the row is not written before the DELETE.
UpdateLater(o) ==
    /\ pc[o] = "update"
    /\ Goto(o, "next")
    /\ UNCHANGED <<database, session, todo, current, seen, gone, fresh, edits>>

\* The autoflush before the DELETE: UPDATE of the article, if dirty.
UpdateArticle(o) ==
    /\ pc[o] = "update"
    /\ \A a \in todo[o] : Lockable(o, a) /\ writer' = Locked(o, a)
    /\ Goto(o, "next")
    /\ UNCHANGED <<article, chunks, session, todo, current, seen, gone, fresh, edits>>

\* DELETE of the article's chunks: it sees what is committed when it starts ...
BeginDelete(o) ==
    /\ pc[o] = "next"
    /\ \E a \in todo[o] :
          /\ current' = [current EXCEPT ![o] = a]
          /\ seen' = [seen EXCEPT ![o] = ChunksOf(a)]
    /\ Goto(o, "delete")
    /\ UNCHANGED <<database, session, todo, gone, fresh, edits>>

\* ... waits for the transactions that are deleting the same chunks ...
WaitsFor(o) == {p \in Op \ {o} : pc[o] = "delete" /\ gone[p] \cap seen[o] # {}}

\* Bug of EndDelete: the old chunks are not deleted.
DeleteNothing(o) ==
    /\ pc[o] = "delete"
    /\ WaitsFor(o) = {}
    /\ Goto(o, "embed")
    /\ UNCHANGED <<database, session, todo, current, seen, gone, fresh, edits>>

\* ... and deletes those that are left.
EndDelete(o) ==
    /\ pc[o] = "delete"
    /\ WaitsFor(o) = {}
    /\ gone' = [gone EXCEPT ![o] = @ \cup (seen[o] \cap chunks)]
    /\ Goto(o, "embed")
    /\ UNCHANGED <<database, session, todo, current, seen, fresh, edits>>

Remaining(o) == todo[o] \ {current[o]}

\* Bug of Embed: the chunks do not name their article.
EmbedUnlabelled(o) ==
    /\ pc[o] = "embed"
    /\ fresh' = [fresh EXCEPT ![o] = @ \cup
                    {[article |-> Nobody, content |-> loaded[o][current[o]].content, by |-> o,
                      first |-> Dirty(o, current[o]) # {}, after |-> past[o]]}]
    /\ todo' = [todo EXCEPT ![o] = Remaining(o)]
    /\ Goto(o, IF Remaining(o) = {} THEN "commit" ELSE "next")
    /\ UNCHANGED <<database, session, current, seen, gone, edits>>

\* The embeddings of the text that was loaded arrive; the chunks are inserted.
Embed(o) ==
    /\ pc[o] = "embed"
    /\ fresh' = [fresh EXCEPT ![o] = @ \cup
                    {[article |-> current[o], content |-> loaded[o][current[o]].content, by |-> o,
                      first |-> Dirty(o, current[o]) # {}, after |-> past[o]]}]
    /\ todo' = [todo EXCEPT ![o] = Remaining(o)]
    /\ Goto(o, IF Remaining(o) = {} THEN "commit" ELSE "next")
    /\ UNCHANGED <<database, session, current, seen, gone, edits>>

\* The session is closed: locks are released, whatever it loaded is gone.
Close(o, outcome) ==
    /\ Goto(o, outcome)
    /\ loaded' = [loaded EXCEPT ![o] = NoRows]
    /\ past' = [past EXCEPT ![o] = {}]
    /\ todo' = [todo EXCEPT ![o] = {}]
    /\ current' = [current EXCEPT ![o] = Nobody]
    /\ seen' = [seen EXCEPT ![o] = {}]
    /\ gone' = [gone EXCEPT ![o] = {}]
    /\ fresh' = [fresh EXCEPT ![o] = {}]
    /\ UNCHANGED <<env, edits>>

\* Bug of Released: the connection goes back with its locks.
LocksKept(o) == writer

Released(o) == [a \in Article |-> IF writer[a] = o THEN Nobody ELSE writer[a]]

RollBack(o) ==
    /\ Close(o, "failed")
    /\ writer' = Released(o)
    /\ UNCHANGED <<article, chunks>>

\* Bug of EmbedFails: what was done so far is committed.
EmbedFailsQuietly(o) ==
    /\ "down" \in env.failures
    /\ pc[o] = "embed"
    /\ todo' = [todo EXCEPT ![o] = {}]
    /\ Goto(o, "commit")
    /\ UNCHANGED <<database, session, current, seen, gone, fresh, edits>>

\* The provider is down: an exception nobody catches.
EmbedFails(o) ==
    /\ "down" \in env.failures
    /\ pc[o] = "embed"
    /\ RollBack(o)

\* The provider answers with something that is not JSON: a ValueError, which
\* reingest reports without a commit ...
EmbedGarbled(o) ==
    /\ "garbled" \in env.failures
    /\ pc[o] = "embed" /\ kind[o] # "approve"
    /\ RollBack(o)

\* ... and approve takes for an embedding backend that is not configured.
ApproveAnyway(o) ==
    /\ "garbled" \in env.failures
    /\ pc[o] = "embed" /\ kind[o] = "approve"
    /\ todo' = [todo EXCEPT ![o] = {}]
    /\ Goto(o, "commit")
    /\ UNCHANGED <<database, session, current, seen, gone, fresh, edits>>

\* Bug of Deadlock: a lock timeout aborts whoever waits.
WaitTimesOut(o) ==
    /\ WaitsFor(o) # {}
    /\ RollBack(o)

\* PostgreSQL aborts one of two transactions that wait for each other.
Deadlock(o) ==
    /\ \E p \in WaitsFor(o) : o \in WaitsFor(p)
    /\ RollBack(o)

\* What is left to write is written, and everything becomes visible.
Commit(o) ==
    /\ pc[o] = "commit"
    /\ \A a \in DOMAIN loaded[o] : Lockable(o, a)
    /\ article' = [a \in Article |->
                      IF a \in DOMAIN loaded[o]
                      THEN [f \in DOMAIN article[a] |->
                               IF f \in Dirty(o, a) THEN Decision(o)[f] ELSE article[a][f]]
                      ELSE article[a]]
    /\ chunks' = (chunks \ gone[o]) \cup fresh[o]
    /\ writer' = Released(o)
    /\ Close(o, "ok")

Step(o) ==
    \/ Load(o) \/ UpdateArticle(o) \/ BeginDelete(o) \/ EndDelete(o) \/ Embed(o)
    \/ EmbedFails(o) \/ EmbedGarbled(o) \/ ApproveAnyway(o) \/ Deadlock(o) \/ Commit(o)

Next == (\E o \in Op : Step(o)) \/ (\E a \in Article : Edit(a))

Spec == Init /\ [][Next]_vars

\* Every statement and every call for embeddings returns (they have a
\* timeout), and a waiting transaction runs when its turn comes.
FairSpec == Spec /\ \A o \in Op : WF_vars(Step(o))
-----------------------------------------------------------------------------
\* Rows, chunks and what the operations know of them are well formed; a chunk
\* says which article and which operation it is of.
TypeOK ==
    /\ env \in Settings
    /\ article \in [Article -> Row] /\ chunks \subseteq Chunk
    /\ writer \in [Article -> Op \cup {Nobody}]
    /\ pc \in [Op -> {"idle", "update", "next", "delete", "embed", "commit", "ok", "failed"}]
    /\ \A o \in Op : loaded[o] \in [DOMAIN loaded[o] -> Row] /\ DOMAIN loaded[o] \subseteq Article
    /\ past \in [Op -> SUBSET Op]
    /\ todo \in [Op -> SUBSET Article] /\ current \in [Op -> Article \cup {Nobody}]
    /\ seen \in [Op -> SUBSET Chunk] /\ gone \in [Op -> SUBSET Chunk]
    /\ fresh \in [Op -> SUBSET Chunk] /\ edits \in 0..env.edits

\* Chunks of two ingestions of an article, which retrieve would take for two
\* passages, are of ingestions that overlapped: had one of them succeeded before
\* the other began, its chunks would have been deleted, whatever approvals,
\* rejections, edits, failures and other ingestions came between.
OneIndex ==
    \A c, d \in chunks : (c.article = d.article /\ c # d) => c.by \notin d.after

\* Approvals that overlap, all of an article none of them found approved, leave
\* one index between them: the row lock of the UPDATE that autoflush puts before
\* the DELETE makes the later one see, and delete, what the earlier one made.
ApprovedOnce ==
    \A c, d \in chunks : (c.article = d.article /\ c.first /\ d.first) => c = d

\* "Re-running ingestion on an article replaces its old chunks so edits don't
\* leave stale vectors behind" (app/knowledge/ingestion/service.py:18-19): after an
\* ingestion that succeeded the text it loaded is indexed and no other, but for
\* what operations that overlapped it made, and unless that text is blank.
IngestReplaces ==
    [][\A o \in Op : (pc[o] = "commit" /\ pc'[o] = "ok" /\ kind[o] # "reject") =>
          \A a \in DOMAIN loaded[o] : loaded[o][a].content # Blank =>
              \A c \in ChunksOf(a)' :
                  c.content = loaded[o][a].content \/ c.by \notin past[o]]_vars

\* An article that can be found does not get lost: whatever overlaps, and
\* though the provider is down, readers see the old chunks or the new ones,
\* never none.  (An answer that is not JSON makes approve drop them.)
StaysIndexed ==
    [][\A a \in Article :
          ChunksOf(a) # {} => (ChunksOf(a)' # {} \/ "garbled" \in env.failures)]_vars

\* Bulk ingestions that wait for each other do not all fail: while embeddings work,
\* nothing else fails, and one of them has succeeded or is still at it.
DeadlocksSpareOne ==
    env.failures = {} =>
        \A o \in Op : pc[o] = "failed" =>
            /\ kind[o] = "reingestAll"
            /\ \E p \in Op : kind[p] = "reingestAll" /\ pc[p] \notin {"idle", "failed"}

\* No operation waits for ever.
OpsEnd == ActiveOps # {} ~> ActiveOps = {}
=============================================================================
