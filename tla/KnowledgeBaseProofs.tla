------------------------ MODULE KnowledgeBaseProofs -------------------------
(***************************************************************************)
(* The safety of KnowledgeBase for any number of articles and operations,  *)
(* any texts and every setting.  IInv is the inductive invariant: TypeOK   *)
(* and one conjunct for each thing an open transaction relies on, each a   *)
(* statement about one operation.                                          *)
(***************************************************************************)
EXTENDS KnowledgeBase, TLAPS

Ingesting == {"update", "next", "delete", "embed"}

\* What is at hand where an operation is; one that has ended has nothing left.
ShapeOf(o) ==
    /\ pc[o] \notin Ended => o \in DOMAIN kind
    /\ pc[o] \in Ended =>
          loaded[o] = NoRows /\ past[o] = {} /\ todo[o] = {} /\ fresh[o] = {} /\ gone[o] = {}
    /\ pc[o] \in Ingesting => todo[o] # {} /\ kind[o] # "reject"
    /\ pc[o] = "update" => kind[o] = "approve"
    /\ pc[o] = "commit" => todo[o] = {}
    /\ pc[o] \in {"delete", "embed"} => current[o] \in todo[o]
    /\ \A a \in todo[o] : a \in DOMAIN loaded[o] /\ loaded[o][a].content # Blank
    /\ (pc[o] \notin Ended /\ kind[o] # "reingestAll") => \E a \in Article : DOMAIN loaded[o] = {a}

\* The articles an operation has a new decision to write to.
Deciding == [o \in Op |-> {a \in DOMAIN loaded[o] : Dirty(o, a) # {}}]

\* The chunks in an open transaction are made of the rows it loaded.
FreshOf(o) ==
    \A c \in fresh[o] :
        /\ c.article \in DOMAIN loaded[o] \ todo[o]
        /\ c.by = o
        /\ c.content = loaded[o][c.article].content /\ c.content # Blank
        /\ c.first <=> c.article \in Deciding[o]
        /\ c.after = past[o]
        /\ kind[o] # "reject"

\* An approval that changes the row holds its lock from the autoflush on ...
LockOf(o) ==
    /\ pc[o] \in {"next", "delete", "embed"} =>
          \A a \in todo[o] : a \in Deciding[o] => writer[a] = o
    /\ \A c \in fresh[o] : c.first => writer[c.article] = o

\* ... and, from its DELETE on, knows every first index of the article.
FirstOf(o) ==
    \A c \in chunks : c.first =>
        /\ (pc[o] = "delete" /\ c.article = current[o] /\ c.article \in Deciding[o]) => c \in seen[o]
        /\ (pc[o] = "embed" /\ c.article = current[o] /\ c.article \in Deciding[o]) => c \in gone[o]
        /\ \A d \in fresh[o] : (d.first /\ d.article = c.article) => c \in gone[o]

\* Of what had succeeded when an operation began it knows, from its DELETE on, every
\* chunk: such chunks do not become more.
PastOf(o) ==
    /\ \A p \in past[o] : pc[p] = "ok"
    /\ \A c \in chunks : c.by \in past[o] =>
          /\ (pc[o] = "delete" /\ c.article = current[o]) => c \in seen[o]
          /\ (pc[o] = "embed" /\ c.article = current[o]) => c \in gone[o]
          /\ (/\ kind[o] # "reject" /\ c.article \in DOMAIN loaded[o] \ todo[o]
              /\ loaded[o][c.article].content # Blank) => c \in gone[o]

\* What was deleted is replaced, or is about to be.
GoneOf(o) ==
    /\ pc[o] = "delete" => \A c \in seen[o] : c.article = current[o]
    /\ \A c \in gone[o] :
          c.article \in DOMAIN loaded[o] \ todo[o] \/ (pc[o] = "embed" /\ c.article = current[o])
    /\ "garbled" \notin env.failures =>
          \A c \in gone[o] :
              \/ \E d \in fresh[o] : d.article = c.article
              \/ pc[o] = "embed" /\ c.article = current[o]

OnceInv ==
    /\ ApprovedOnce /\ OneIndex
    /\ \A c \in chunks : \A p \in c.after : pc[p] = "ok"

IInv ==
    /\ TypeOK
    /\ loaded = [o \in Op |-> loaded[o]]
    /\ OnceInv /\ DeadlocksSpareOne
    /\ \A o \in Op :
          ShapeOf(o) /\ FreshOf(o) /\ LockOf(o) /\ FirstOf(o) /\ PastOf(o) /\ GoneOf(o)
-----------------------------------------------------------------------------
USE KnowledgeAssumption

\* Nothing is open, indexed or locked in the beginning.
LEMMA InitIInv == Init => IInv
<1> SUFFICES ASSUME Init PROVE IInv
  OBVIOUS
<1>1. IsSetting(env) /\ chunks = {}
  BY DEF Init
<1>2. TypeOK
  <2>1. \A a \in Article : article[a] \in Row
    BY <1>1 DEF Init, IsSetting, Row
  <2>2. article \in [Article -> Row]
    BY <2>1 DEF Init
  <2>3. \A o \in Op : loaded[o] \in [DOMAIN loaded[o] -> Row] /\ DOMAIN loaded[o] \subseteq Article
    BY DEF Init, NoRows
  <2>4. edits \in 0..env.edits
    BY <1>1 DEF Init, IsSetting
  <2>5. QED
    BY <1>1, <2>2, <2>3, <2>4 DEF Init, TypeOK
<1>3. loaded = [o \in Op |-> loaded[o]]
  BY DEF Init
<1>4. OnceInv
  BY <1>1 DEF OnceInv, ApprovedOnce, OneIndex
<1>5. DeadlocksSpareOne
  BY DEF Init, DeadlocksSpareOne
<1>6. ASSUME NEW o \in Op PROVE ShapeOf(o)
  BY DEF Init, ShapeOf, Ended, Ingesting, NoRows
<1>7. ASSUME NEW o \in Op
      PROVE  FreshOf(o) /\ LockOf(o) /\ FirstOf(o) /\ PastOf(o) /\ GoneOf(o)
  BY <1>1 DEF Init, FreshOf, LockOf, FirstOf, PastOf, GoneOf, Ended
<1>8. QED
  BY <1>2, <1>3, <1>4, <1>5, <1>6, <1>7 DEF IInv

\* What no step of an operation touches: the setting, and what the others have.
LEMMA StepFrame ==
  ASSUME IInv, NEW o \in Op, Step(o)
  PROVE  /\ env' = env
         /\ \A p \in Op \ {o} :
               /\ pc'[p] = pc[p] /\ loaded'[p] = loaded[p] /\ past'[p] = past[p] /\ todo'[p] = todo[p]
               /\ current'[p] = current[p] /\ seen'[p] = seen[p]
               /\ gone'[p] = gone[p] /\ fresh'[p] = fresh[p]
<1> USE DEF IInv, TypeOK, Goto, session
<1>1. CASE Load(o)
  BY <1>1 DEF Load
<1>2. CASE UpdateArticle(o)
  BY <1>2 DEF UpdateArticle
<1>3. CASE BeginDelete(o)
  BY <1>3 DEF BeginDelete
<1>4. CASE EndDelete(o)
  BY <1>4 DEF EndDelete
<1>5. CASE Embed(o)
  BY <1>5 DEF Embed
<1>6. CASE EmbedFails(o)
  BY <1>6 DEF EmbedFails, RollBack, Close
<1>7. CASE EmbedGarbled(o)
  BY <1>7 DEF EmbedGarbled, RollBack, Close
<1>8. CASE ApproveAnyway(o)
  BY <1>8 DEF ApproveAnyway
<1>9. CASE Deadlock(o)
  BY <1>9 DEF Deadlock, RollBack, Close
<1>10. CASE Commit(o)
  BY <1>10 DEF Commit, Close
<1>11. QED
  BY <1>1, <1>2, <1>3, <1>4, <1>5, <1>6, <1>7, <1>8, <1>9, <1>10 DEF Step

\* Rows and chunks change at a commit only.
LEMMA OnlyCommitWrites ==
  ASSUME NEW o \in Op, Step(o), ~Commit(o)
  PROVE  UNCHANGED <<article, chunks>>
BY DEF Step, Load, UpdateArticle, BeginDelete, EndDelete, Embed, EmbedFails, EmbedGarbled,
       ApproveAnyway, Deadlock, RollBack, database

\* A transaction that is rolled back leaves nothing behind.
LEMMA RollBackEffect ==
  ASSUME IInv, NEW o \in Op, EmbedFails(o) \/ EmbedGarbled(o) \/ Deadlock(o)
  PROVE  /\ pc[o] \in Ingesting
         /\ pc'[o] = "failed" /\ loaded'[o] = NoRows /\ past'[o] = {} /\ todo'[o] = {} /\ current'[o] = Nobody
         /\ seen'[o] = {} /\ gone'[o] = {} /\ fresh'[o] = {}
         /\ env' = env /\ edits' = edits /\ writer' = Released(o)
         /\ article' = article /\ chunks' = chunks
BY DEF IInv, TypeOK, EmbedFails, EmbedGarbled, Deadlock, WaitsFor, RollBack, Close, Goto, Ingesting

\* What a row is dirty in depends on what its operation has loaded.
LEMMA DecidingFrame ==
  ASSUME NEW o \in Op, env' = env, loaded'[o] = loaded[o]
  PROVE  Deciding'[o] = Deciding[o]
BY DEF Deciding, Dirty, Decision, kind

\* c is what an operation makes of the article it is ingesting.
MadeOfCurrent(o, c) ==
    /\ c.article = current[o] /\ c.by = o
    /\ c.content = loaded[o][current[o]].content
    /\ c.first <=> current[o] \in Deciding[o]
    /\ c.after = past[o]

\* The embeddings of one article arrive and become its chunks.
LEMMA EmbedEffect ==
  ASSUME IInv, NEW o \in Op, Embed(o)
  PROVE  /\ pc[o] = "embed" /\ current[o] \in todo[o] /\ current[o] \in DOMAIN loaded[o]
         /\ \E c : fresh'[o] = fresh[o] \cup {c} /\ MadeOfCurrent(o, c)
         /\ loaded'[o] = loaded[o] /\ past'[o] = past[o] /\ todo'[o] = todo[o] \ {current[o]}
         /\ pc'[o] = (IF todo'[o] = {} THEN "commit" ELSE "next")
         /\ UNCHANGED <<env, article, chunks, writer, current, seen, gone, edits>>
<1> DEFINE c == [article |-> current[o], content |-> loaded[o][current[o]].content, by |-> o,
                 first |-> Dirty(o, current[o]) # {}, after |-> past[o]]
<1>1. pc[o] = "embed" /\ current[o] \in todo[o] /\ current[o] \in DOMAIN loaded[o]
  BY DEF IInv, TypeOK, ShapeOf, Embed
<1>2. fresh'[o] = fresh[o] \cup {c}
  BY DEF IInv, TypeOK, Embed
<1>3. c.article = current[o] /\ c.by = o /\ c.content = loaded[o][current[o]].content /\ c.after = past[o]
  OBVIOUS
<1>4. c.first = (Dirty(o, current[o]) # {})
  OBVIOUS
<1>5. current[o] \in Deciding[o] <=> Dirty(o, current[o]) # {}
  BY <1>1 DEF Deciding
<1>6. c.first <=> current[o] \in Deciding[o]
  BY <1>4, <1>5
<1>7. MadeOfCurrent(o, c)
  BY <1>3, <1>6 DEF MadeOfCurrent
<1>8. /\ loaded'[o] = loaded[o] /\ past'[o] = past[o] /\ todo'[o] = todo[o] \ {current[o]}
      /\ pc'[o] = (IF todo'[o] = {} THEN "commit" ELSE "next")
      /\ UNCHANGED <<env, article, chunks, writer, current, seen, gone, edits>>
  BY DEF IInv, TypeOK, Embed, Remaining, Goto, session, database
<1>9. QED
  BY <1>1, <1>2, <1>7, <1>8

\* A row that is decided on is a row, whatever was dirty.
LEMMA DecidedRow ==
  ASSUME NEW o, NEW a, NEW row \in Row
  PROVE  [f \in DOMAIN row |-> IF f \in Dirty(o, a) THEN Decision(o)[f] ELSE row[f]] \in Row
<1> DEFINE new == [f \in DOMAIN row |-> IF f \in Dirty(o, a) THEN Decision(o)[f] ELSE row[f]]
<1>1. DOMAIN row = {"content", "approval", "status"}
  BY DEF Row
<1>2. Dirty(o, a) \subseteq DOMAIN Decision(o)
  BY DEF Dirty
<1>3. /\ "content" \notin DOMAIN Decision(o)
      /\ "approval" \in DOMAIN Decision(o) => Decision(o)["approval"] \in {"approved", "rejected"}
      /\ "status" \in DOMAIN Decision(o) => Decision(o)["status"] = "active"
  BY DEF Decision, NoRows
<1>4. /\ new = [f \in {"content", "approval", "status"} |-> new[f]]
      /\ new["content"] = row["content"]
      /\ new["approval"] \in {"approved", "rejected", row["approval"]}
      /\ new["status"] \in {"active", row["status"]}
  BY <1>1, <1>2, <1>3
<1>5. QED
  BY <1>4 DEF Row
\* Rows, chunks and what the operations hold stay well formed.
LEMMA NextTypeOK ==
  ASSUME IInv, [Next]_vars
  PROVE  TypeOK' /\ loaded' = [o \in Op |-> loaded'[o]]
<1> USE DEF IInv, TypeOK
<1>1. CASE UNCHANGED vars
  BY <1>1 DEF vars
<1>2. ASSUME NEW a \in Article, Edit(a)
      PROVE  TypeOK' /\ loaded' = [o \in Op |-> loaded'[o]]
  <2>1. IsSetting(env) /\ env' = env /\ edits' \in 0..env.edits
    BY <1>2 DEF Edit, session, IsSetting
  <2>2. PICK c \in env.texts : article' = [article EXCEPT ![a].content = c]
    BY <1>2 DEF Edit
  <2>3. c \in Content
    BY <2>1 DEF IsSetting
  <2>4. [article[a] EXCEPT !.content = c] \in Row
    <3>1. article[a] \in Row
      OBVIOUS
    <3>2. QED
      BY <2>3, <3>1 DEF Row
  <2>5. article' = [article EXCEPT ![a] = [article[a] EXCEPT !.content = c]]
    BY <2>2
  <2>6. article' \in [Article -> Row]
    BY <2>4, <2>5
  <2>7. QED
    BY <1>2, <2>1, <2>6 DEF Edit, session
<1>3. ASSUME NEW o \in Op, Step(o)
      PROVE  TypeOK' /\ loaded' = [p \in Op |-> loaded'[p]]
  <2> SUFFICES /\ article' \in [Article -> Row] /\ chunks' \subseteq Chunk
               /\ writer' \in [Article -> Op \cup {Nobody}]
               /\ pc' \in [Op -> {"idle", "update", "next", "delete", "embed", "commit",
                                  "ok", "failed"}]
               /\ \A p \in Op : /\ loaded'[p] \in [DOMAIN loaded'[p] -> Row]
                                /\ DOMAIN loaded'[p] \subseteq Article
               /\ loaded' = [p \in Op |-> loaded'[p]]
               /\ past' \in [Op -> SUBSET Op]
               /\ todo' \in [Op -> SUBSET Article] /\ current' \in [Op -> Article \cup {Nobody}]
               /\ seen' \in [Op -> SUBSET Chunk] /\ gone' \in [Op -> SUBSET Chunk]
               /\ fresh' \in [Op -> SUBSET Chunk]
               /\ env' = env /\ edits' = edits
    OBVIOUS
  <2>0. ShapeOf(o)
    OBVIOUS
  <2>1. CASE Load(o)
    <3>1. PICK S \in Targets(o) :
             LET work == IF kind[o] = "reject" THEN {} ELSE {a \in S : article[a].content # Blank}
             IN  /\ loaded' = [loaded EXCEPT ![o] = [a \in S |-> article[a]]]
                 /\ past' = [past EXCEPT ![o] = {p \in Op : pc[p] = "ok"}]
                 /\ todo' = [todo EXCEPT ![o] = work]
                 /\ Goto(o, IF work = {} THEN "commit"
                            ELSE IF kind[o] = "approve" THEN "update" ELSE "next")
      BY <2>1 DEF Load
    <3>2. S \subseteq Article
      BY DEF Targets
    <3>3. UNCHANGED <<article, chunks, writer, env, current, seen, gone, fresh, edits>>
      BY <2>1 DEF Load, database
    <3>4. QED
      BY <3>1, <3>2, <3>3 DEF Goto
  <2>2. CASE UpdateArticle(o)
    <3>1. PICK a \in todo[o] : writer' = Locked(o, a)
      BY <2>0, <2>2 DEF UpdateArticle, ShapeOf, Ingesting
    <3>2. writer' \in [Article -> Op \cup {Nobody}]
      BY <3>1 DEF Locked
    <3>3. QED
      BY <2>2, <3>2 DEF UpdateArticle, Goto, session
  <2>3. CASE BeginDelete(o)
    BY <2>3 DEF BeginDelete, Goto, session, database, ChunksOf
  <2>4. CASE EndDelete(o)
    BY <2>4 DEF EndDelete, Goto, session, database
  <2>5. CASE Embed(o)
    <3>1. current[o] \in Article /\ current[o] \in DOMAIN loaded[o]
      BY <2>0, <2>5 DEF Embed, ShapeOf
    <3>2. loaded[o][current[o]].content \in Content
      BY <3>1 DEF Row
    <3>3. [article |-> current[o], content |-> loaded[o][current[o]].content, by |-> o,
           first |-> Dirty(o, current[o]) # {}, after |-> past[o]] \in Chunk
      BY <3>1, <3>2 DEF Chunk
    <3>4. fresh' \in [Op -> SUBSET Chunk]
      BY <2>5, <3>3 DEF Embed
    <3>5. QED
      BY <2>5, <3>4 DEF Embed, Goto, session, database, Remaining
  <2>6. CASE EmbedFails(o) \/ EmbedGarbled(o) \/ Deadlock(o)
    <3>1. writer' \in [Article -> Op \cup {Nobody}]
      BY <2>6 DEF EmbedFails, EmbedGarbled, Deadlock, RollBack, Released
    <3>2. Close(o, "failed") /\ UNCHANGED <<article, chunks>>
      BY <2>6 DEF EmbedFails, EmbedGarbled, Deadlock, RollBack
    <3>3. NoRows \in [DOMAIN NoRows -> Row] /\ DOMAIN NoRows \subseteq Article
      BY DEF NoRows
    <3>4. QED
      BY <3>1, <3>2, <3>3 DEF Close, Goto
  <2>7. CASE ApproveAnyway(o)
    BY <2>7 DEF ApproveAnyway, Goto, session, database
  <2>8. CASE Commit(o)
    <3>1. writer' \in [Article -> Op \cup {Nobody}]
      BY <2>8 DEF Commit, Released
    <3>2. ASSUME NEW a \in Article PROVE article'[a] \in Row
      BY <2>8, DecidedRow DEF Commit
    <3>3. article' \in [Article -> Row]
      BY <2>8, <3>2 DEF Commit
    <3>4. QED
      BY <2>8, <3>1, <3>3 DEF Commit, Close, Goto, NoRows
  <2>9. QED
    BY <1>3, <2>1, <2>2, <2>3, <2>4, <2>5, <2>6, <2>7, <2>8 DEF Step
<1>4. QED
  BY <1>1, <1>2, <1>3 DEF Next

\* Every operation has at hand what its next step needs.
LEMMA NextShape ==
  ASSUME IInv, NEW o \in Op, Step(o)
  PROVE  ShapeOf(o)'
<1> USE DEF IInv, TypeOK
<1>0. ShapeOf(o) /\ env' = env /\ kind' = kind
  BY StepFrame DEF kind
<1>1. CASE Load(o)
  <2>1. PICK S \in Targets(o) :
           LET work == IF kind[o] = "reject" THEN {} ELSE {a \in S : article[a].content # Blank}
           IN  /\ loaded' = [loaded EXCEPT ![o] = [a \in S |-> article[a]]]
               /\ past' = [past EXCEPT ![o] = {p \in Op : pc[p] = "ok"}]
               /\ todo' = [todo EXCEPT ![o] = work]
               /\ Goto(o, IF work = {} THEN "commit"
                          ELSE IF kind[o] = "approve" THEN "update" ELSE "next")
    BY <1>1 DEF Load
  <2>2. DOMAIN loaded'[o] = S /\ (\A a \in todo'[o] : a \in S /\ loaded'[o][a].content # Blank)
        /\ (kind[o] = "reject" => todo'[o] = {})
        /\ pc'[o] = IF todo'[o] = {} THEN "commit" ELSE IF kind[o] = "approve" THEN "update" ELSE "next"
    BY <2>1 DEF Goto
  <2>3. kind[o] # "reingestAll" => \E a \in Article : S = {a}
    BY DEF Targets
  <2>4. o \in DOMAIN kind
    BY <1>1 DEF Load
  <2>5. QED
    BY <1>0, <2>2, <2>3, <2>4 DEF ShapeOf, Ingesting, Ended
<1>2. CASE UpdateArticle(o)
  BY <1>0, <1>2 DEF UpdateArticle, Goto, session, ShapeOf, Ingesting, Ended
<1>3. CASE BeginDelete(o)
  BY <1>0, <1>3 DEF BeginDelete, Goto, session, ShapeOf, Ingesting, Ended
<1>4. CASE EndDelete(o)
  BY <1>0, <1>4 DEF EndDelete, Goto, session, ShapeOf, Ingesting, Ended
<1>5. CASE Embed(o)
  BY <1>0, <1>5 DEF Embed, Goto, session, ShapeOf, Ingesting, Ended, Remaining
<1>6. CASE EmbedFails(o) \/ EmbedGarbled(o) \/ Deadlock(o)
  BY <1>0, <1>6, RollBackEffect DEF ShapeOf, Ingesting, Ended, NoRows
<1>7. CASE ApproveAnyway(o)
  BY <1>0, <1>7 DEF ApproveAnyway, Goto, session, ShapeOf, Ingesting, Ended
<1>8. CASE Commit(o)
  BY <1>0, <1>8 DEF Commit, Close, Goto, ShapeOf, Ingesting, Ended, NoRows
<1>9. QED
  BY <1>1, <1>2, <1>3, <1>4, <1>5, <1>6, <1>7, <1>8 DEF Step

\* Chunks are made of the row that was loaded.
LEMMA NextFresh ==
  ASSUME IInv, NEW o \in Op, Step(o)
  PROVE  FreshOf(o)'
<1> USE DEF IInv, TypeOK
<1>0. ShapeOf(o) /\ FreshOf(o) /\ env' = env /\ kind' = kind
  BY StepFrame DEF kind
<1>1. CASE Load(o)
  BY <1>0, <1>1 DEF Load, ShapeOf, FreshOf, Ended
<1>2. CASE UpdateArticle(o) \/ BeginDelete(o) \/ EndDelete(o) \/ ApproveAnyway(o)
  <2>1. fresh'[o] = fresh[o] /\ loaded'[o] = loaded[o] /\ past'[o] = past[o] /\ todo'[o] \subseteq todo[o]
    BY <1>2 DEF UpdateArticle, BeginDelete, EndDelete, ApproveAnyway, session
  <2>2. QED
    BY <1>0, <2>1, DecidingFrame DEF FreshOf
<1>3. CASE Embed(o)
  <2>1. PICK c : fresh'[o] = fresh[o] \cup {c} /\ MadeOfCurrent(o, c)
    BY <1>3, EmbedEffect
  <2>2. /\ kind[o] # "reject" /\ Deciding'[o] = Deciding[o]
        /\ loaded[o][current[o]].content # Blank
    BY <1>0, <1>3, EmbedEffect, DecidingFrame DEF ShapeOf, Ingesting
  <2>3. QED
    BY <1>0, <1>3, <2>1, <2>2, EmbedEffect DEF FreshOf, MadeOfCurrent
<1>4. CASE EmbedFails(o) \/ EmbedGarbled(o) \/ Deadlock(o)
  BY <1>4, RollBackEffect DEF FreshOf
<1>5. CASE Commit(o)
  BY <1>5 DEF Commit, Close, FreshOf
<1>6. QED
  BY <1>1, <1>2, <1>3, <1>4, <1>5 DEF Step

\* A lock is given back by its holder only.
LEMMA LocksAreKept ==
  ASSUME IInv, NEW o \in Op, Step(o), NEW p \in Op \ {o}, NEW a \in Article, writer[a] = p
  PROVE  writer'[a] = p
<1> USE DEF IInv, TypeOK
<1>1. CASE UpdateArticle(o)
  <2>1. PICK b \in todo[o] : Lockable(o, b) /\ writer' = Locked(o, b)
    BY <1>1 DEF UpdateArticle, ShapeOf, Ingesting
  <2>2. QED
    BY <2>1 DEF Lockable, Locked
<1>2. CASE EmbedFails(o) \/ EmbedGarbled(o) \/ Deadlock(o) \/ Commit(o)
  BY <1>2, RollBackEffect DEF Commit, Released
<1>3. CASE Load(o) \/ BeginDelete(o) \/ EndDelete(o) \/ Embed(o) \/ ApproveAnyway(o)
  BY <1>3 DEF Load, BeginDelete, EndDelete, Embed, ApproveAnyway, database
<1>4. QED
  BY <1>1, <1>2, <1>3 DEF Step

\* The lock of a row to be decided on is taken before its chunks are deleted.
LEMMA NextLock ==
  ASSUME IInv, NEW o \in Op, Step(o)
  PROVE  LockOf(o)'
<1> USE DEF IInv, TypeOK
<1>0. ShapeOf(o) /\ FreshOf(o) /\ LockOf(o) /\ env' = env /\ kind' = kind
  BY StepFrame DEF kind
<1>1. CASE Load(o)
  <2>1. fresh'[o] = {}
    BY <1>0, <1>1 DEF Load, ShapeOf, Ended
  <2>2. ASSUME pc'[o] = "next" PROVE Deciding'[o] = {}
    <3>1. kind'[o] \notin {"approve", "reject"}
      BY <1>0, <1>1, <2>2 DEF Load, Goto
    <3>2. QED
      BY <3>1 DEF Deciding, Dirty, Decision, NoRows, kind
  <2>3. pc'[o] \in {"commit", "update", "next"}
    BY <1>1 DEF Load, Goto
  <2>4. QED
    BY <2>1, <2>2, <2>3 DEF LockOf
<1>2. CASE UpdateArticle(o)
  <2>1. PICK a \in Article : DOMAIN loaded[o] = {a} /\ todo[o] = {a}
    BY <1>0, <1>2 DEF UpdateArticle, ShapeOf, Ingesting, Ended
  <2>2. writer' = Locked(o, a) /\ fresh' = fresh /\ todo' = todo /\ loaded' = loaded
    BY <1>2, <2>1 DEF UpdateArticle, session
  <2>3. a \in Deciding[o] => writer'[a] = o
    BY <2>1, <2>2 DEF Locked, Deciding
  <2>4. \A c \in fresh[o] : FALSE
    BY <1>0, <2>1 DEF FreshOf
  <2>5. Deciding'[o] = Deciding[o]
    BY <1>0, <2>2, DecidingFrame
  <2>6. QED
    BY <2>1, <2>2, <2>3, <2>4, <2>5 DEF LockOf
<1>3. CASE BeginDelete(o) \/ EndDelete(o) \/ ApproveAnyway(o)
  <2>1. /\ fresh'[o] = fresh[o] /\ loaded'[o] = loaded[o] /\ todo'[o] \subseteq todo[o]
        /\ writer' = writer /\ pc[o] \in {"next", "delete", "embed"}
    BY <1>3 DEF BeginDelete, EndDelete, ApproveAnyway, session, database
  <2>2. Deciding'[o] = Deciding[o]
    BY <1>0, <2>1, DecidingFrame
  <2>3. pc'[o] \in {"next", "delete", "embed"} => pc[o] \in {"next", "delete", "embed"}
    BY <2>1
  <2>4. QED
    BY <1>0, <2>1, <2>2, <2>3 DEF LockOf
<1>4. CASE Embed(o)
  <2>1. PICK c : fresh'[o] = fresh[o] \cup {c} /\ MadeOfCurrent(o, c)
    BY <1>4, EmbedEffect
  <2>2. current[o] \in Deciding[o] => writer[current[o]] = o
    BY <1>0, <1>4, EmbedEffect DEF LockOf
  <2>3. Deciding'[o] = Deciding[o]
    BY <1>0, <1>4, EmbedEffect, DecidingFrame
  <2>4. QED
    BY <1>0, <1>4, <2>1, <2>2, <2>3, EmbedEffect DEF LockOf, MadeOfCurrent
<1>5. CASE EmbedFails(o) \/ EmbedGarbled(o) \/ Deadlock(o)
  BY <1>5, RollBackEffect DEF LockOf
<1>6. CASE Commit(o)
  BY <1>6 DEF Commit, Close, Goto, LockOf
<1>7. QED
  BY <1>1, <1>2, <1>3, <1>4, <1>5, <1>6 DEF Step
\* An approval knows every first index of its article: it holds the lock.
LEMMA NextFirst ==
  ASSUME IInv, NEW o \in Op, Step(o)
  PROVE  FirstOf(o)'
<1> USE DEF IInv, TypeOK
<1>0. ShapeOf(o) /\ FreshOf(o) /\ FirstOf(o) /\ env' = env
  BY StepFrame
<1>1. CASE Load(o)
  <2>1. fresh'[o] = {} /\ pc'[o] \in {"commit", "update", "next"}
    BY <1>0, <1>1 DEF Load, Goto, ShapeOf, Ended
  <2>2. QED
    BY <2>1 DEF FirstOf
<1>2. CASE UpdateArticle(o) \/ ApproveAnyway(o)
  <2>1. /\ fresh'[o] = fresh[o] /\ gone'[o] = gone[o] /\ chunks' = chunks
        /\ pc'[o] \in {"next", "commit"}
    BY <1>2 DEF UpdateArticle, ApproveAnyway, Goto, session, database
  <2>2. QED
    BY <1>0, <2>1 DEF FirstOf
<1>3. CASE BeginDelete(o)
  <2>1. /\ fresh'[o] = fresh[o] /\ gone'[o] = gone[o] /\ chunks' = chunks
        /\ pc'[o] = "delete" /\ seen'[o] = ChunksOf(current'[o])
    BY <1>3 DEF BeginDelete, Goto, session, database
  <2>2. QED
    BY <1>0, <2>1 DEF FirstOf, ChunksOf
<1>4. CASE EndDelete(o)
  <2>1. /\ fresh'[o] = fresh[o] /\ gone'[o] = gone[o] \cup (seen[o] \cap chunks)
        /\ chunks' = chunks /\ current'[o] = current[o]
        /\ pc[o] = "delete" /\ pc'[o] = "embed" /\ loaded'[o] = loaded[o]
    BY <1>4 DEF EndDelete, Goto, session, database
  <2>2. Deciding'[o] = Deciding[o]
    BY <1>0, <2>1, DecidingFrame
  <2>3. QED
    BY <1>0, <2>1, <2>2 DEF FirstOf
<1>5. CASE Embed(o)
  <2>1. PICK d : fresh'[o] = fresh[o] \cup {d} /\ MadeOfCurrent(o, d)
    BY <1>5, EmbedEffect
  <2>2. /\ gone'[o] = gone[o] /\ chunks' = chunks
        /\ pc[o] = "embed" /\ pc'[o] \in {"next", "commit"}
    BY <1>5, EmbedEffect
  <2>3. QED
    BY <1>0, <2>1, <2>2 DEF FirstOf, MadeOfCurrent
<1>6. CASE EmbedFails(o) \/ EmbedGarbled(o) \/ Deadlock(o)
  BY <1>6, RollBackEffect DEF FirstOf
<1>7. CASE Commit(o)
  BY <1>7 DEF Commit, Close, Goto, FirstOf
<1>8. QED
  BY <1>1, <1>2, <1>3, <1>4, <1>5, <1>6, <1>7 DEF Step

\* The first index another operation commits is not of an article whose lock
\* an approval holds.
LEMMA OthersFirst ==
  ASSUME IInv, NEW o \in Op, Step(o), NEW p \in Op \ {o}
  PROVE  FirstOf(p)'
<1> USE DEF IInv, TypeOK
<1>1. /\ pc'[p] = pc[p] /\ current'[p] = current[p] /\ seen'[p] = seen[p]
      /\ gone'[p] = gone[p] /\ fresh'[p] = fresh[p] /\ Deciding'[p] = Deciding[p]
  BY StepFrame, DecidingFrame
<1>2. FirstOf(p) /\ LockOf(p) /\ ShapeOf(p) /\ LockOf(o)
  OBVIOUS
<1>3. CASE ~Commit(o)
  BY <1>1, <1>2, <1>3, OnlyCommitWrites DEF FirstOf
<1>4. CASE Commit(o)
  <2>1. \A c \in chunks' : c \in chunks \/ c \in fresh[o]
    BY <1>4 DEF Commit
  <2>2. ASSUME NEW c \in fresh[o], c.first
        PROVE  /\ ~(pc[p] \in {"delete", "embed"} /\ c.article = current[p]
                    /\ c.article \in Deciding[p])
               /\ \A d \in fresh[p] : ~(d.first /\ d.article = c.article)
    <3>1. writer[c.article] = o
      BY <1>2, <2>2 DEF LockOf
    <3>2. QED
      BY <1>2, <3>1 DEF LockOf, ShapeOf
  <2>3. QED
    BY <1>1, <1>2, <2>1, <2>2 DEF FirstOf
<1>5. QED
  BY <1>3, <1>4

\* What an operation has deleted, it replaces.
LEMMA NextGone ==
  ASSUME IInv, NEW o \in Op, Step(o)
  PROVE  GoneOf(o)'
<1> USE DEF IInv, TypeOK
<1>0. ShapeOf(o) /\ GoneOf(o) /\ env' = env
  BY StepFrame
<1>1. CASE Load(o)
  <2>1. gone'[o] = {} /\ pc'[o] \in {"commit", "update", "next"}
    BY <1>0, <1>1 DEF Load, Goto, ShapeOf, Ended
  <2>2. QED
    BY <2>1 DEF GoneOf
<1>2. CASE UpdateArticle(o)
  BY <1>0, <1>2 DEF UpdateArticle, Goto, session, GoneOf
<1>3. CASE BeginDelete(o)
  BY <1>0, <1>3 DEF BeginDelete, Goto, session, GoneOf, ChunksOf
<1>4. CASE EndDelete(o)
  BY <1>0, <1>4 DEF EndDelete, Goto, session, GoneOf
<1>5. CASE Embed(o)
  <2>1. PICK d : fresh'[o] = fresh[o] \cup {d} /\ MadeOfCurrent(o, d)
    BY <1>5, EmbedEffect
  <2>2. /\ gone'[o] = gone[o] /\ pc[o] = "embed" /\ pc'[o] \in {"next", "commit"}
        /\ loaded'[o] = loaded[o] /\ todo'[o] = todo[o] \ {current[o]}
        /\ current[o] \in DOMAIN loaded[o]
    BY <1>5, EmbedEffect
  <2>3. QED
    BY <1>0, <2>1, <2>2 DEF GoneOf, MadeOfCurrent
<1>6. CASE EmbedFails(o) \/ EmbedGarbled(o) \/ Deadlock(o)
  BY <1>6, RollBackEffect DEF GoneOf
<1>7. CASE ApproveAnyway(o)
  <2>1. /\ gone'[o] = gone[o] /\ loaded'[o] = loaded[o] /\ todo'[o] = {} /\ pc'[o] = "commit"
        /\ pc[o] = "embed" /\ "garbled" \in env.failures
    BY <1>7 DEF ApproveAnyway, Goto, session
  <2>2. current[o] \in DOMAIN loaded[o]
    BY <1>0, <2>1 DEF ShapeOf
  <2>3. QED
    BY <1>0, <2>1, <2>2 DEF GoneOf
<1>8. CASE Commit(o)
  BY <1>8 DEF Commit, Close, Goto, GoneOf
<1>9. QED
  BY <1>1, <1>2, <1>3, <1>4, <1>5, <1>6, <1>7, <1>8 DEF Step

\* An operation that has succeeded takes no further step.
LEMMA OkIsFinal ==
  ASSUME IInv, NEW o \in Op, Step(o)
  PROVE  pc[o] # "ok"
BY RollBackEffect DEF Step, Load, UpdateArticle, BeginDelete, EndDelete, Embed, ApproveAnyway,
                      Commit, Ingesting

\* An operation sees, and deletes, every chunk of what had succeeded when it began.
LEMMA NextPast ==
  ASSUME IInv, NEW o \in Op, Step(o)
  PROVE  PastOf(o)'
<1> USE DEF IInv, TypeOK
<1>0. ShapeOf(o) /\ PastOf(o) /\ kind' = kind /\ pc[o] # "ok"
      /\ \A p \in Op \ {o} : pc'[p] = pc[p]
  BY StepFrame, OkIsFinal DEF kind
<1>1. \A p \in past[o] : pc'[p] = "ok"
  BY <1>0 DEF PastOf
<1>2. CASE Load(o)
  <2>1. PICK S \in Targets(o) :
           LET work == IF kind[o] = "reject" THEN {} ELSE {a \in S : article[a].content # Blank}
           IN  /\ loaded' = [loaded EXCEPT ![o] = [a \in S |-> article[a]]]
               /\ past' = [past EXCEPT ![o] = {p \in Op : pc[p] = "ok"}]
               /\ todo' = [todo EXCEPT ![o] = work]
               /\ Goto(o, IF work = {} THEN "commit"
                          ELSE IF kind[o] = "approve" THEN "update" ELSE "next")
    BY <1>2 DEF Load
  <2>2. /\ kind[o] # "reject" => \A a \in DOMAIN loaded'[o] \ todo'[o] : loaded'[o][a].content = Blank
        /\ pc'[o] \notin {"delete", "embed"}
        /\ past'[o] = {p \in Op : pc[p] = "ok"}
    BY <2>1 DEF Goto
  <2>3. \A p \in past'[o] : pc'[p] = "ok"
    BY <1>0, <2>2
  <2>4. QED
    BY <1>0, <2>2, <2>3 DEF PastOf
<1>3. CASE UpdateArticle(o)
  <2>1. /\ UNCHANGED <<chunks, loaded, past, todo, gone>> /\ pc'[o] = "next"
    BY <1>3 DEF UpdateArticle, Goto, session
  <2>2. QED
    BY <1>0, <1>1, <2>1 DEF PastOf
<1>4. CASE BeginDelete(o)
  <2>1. /\ UNCHANGED <<chunks, loaded, past, todo, gone>> /\ pc'[o] = "delete"
        /\ seen'[o] = ChunksOf(current'[o])
    BY <1>4 DEF BeginDelete, Goto, session, database
  <2>2. QED
    BY <1>0, <1>1, <2>1 DEF PastOf, ChunksOf
<1>5. CASE EndDelete(o)
  <2>1. /\ UNCHANGED <<chunks, loaded, past, todo, current>> /\ pc[o] = "delete" /\ pc'[o] = "embed"
        /\ gone'[o] = gone[o] \cup (seen[o] \cap chunks)
    BY <1>5 DEF EndDelete, Goto, session, database
  <2>2. QED
    BY <1>0, <1>1, <2>1 DEF PastOf
<1>6. CASE Embed(o)
  <2>1. /\ UNCHANGED <<chunks, current>> /\ gone'[o] = gone[o] /\ pc[o] = "embed" /\ pc'[o] \in {"next", "commit"}
        /\ past'[o] = past[o] /\ loaded'[o] = loaded[o] /\ todo'[o] = todo[o] \ {current[o]}
    BY <1>6, EmbedEffect
  <2>2. QED
    BY <1>0, <1>1, <2>1 DEF PastOf
<1>7. CASE EmbedFails(o) \/ EmbedGarbled(o) \/ Deadlock(o)
  BY <1>7, RollBackEffect DEF PastOf
<1>8. CASE ApproveAnyway(o)
  <2>1. PICK a \in Article : DOMAIN loaded[o] = {a}
    BY <1>0, <1>8 DEF ApproveAnyway, ShapeOf, Ended
  <2>2. current[o] = a
    BY <1>0, <1>8, <2>1 DEF ApproveAnyway, ShapeOf
  <2>3. /\ UNCHANGED <<chunks, loaded, past, gone>> /\ pc[o] = "embed" /\ pc'[o] = "commit"
    BY <1>8 DEF ApproveAnyway, Goto, session, database
  <2>4. QED
    BY <1>0, <1>1, <2>1, <2>2, <2>3 DEF PastOf
<1>9. CASE Commit(o)
  BY <1>9 DEF Commit, Close, Goto, PastOf
<1>10. QED
  BY <1>2, <1>3, <1>4, <1>5, <1>6, <1>7, <1>8, <1>9 DEF Step

\* What another operation commits is not of one that had succeeded before.
LEMMA OthersPast ==
  ASSUME IInv, NEW o \in Op, Step(o), NEW p \in Op \ {o}
  PROVE  PastOf(p)'
<1> USE DEF IInv, TypeOK
<1>1. /\ pc'[p] = pc[p] /\ current'[p] = current[p] /\ seen'[p] = seen[p] /\ past'[p] = past[p]
      /\ gone'[p] = gone[p] /\ loaded'[p] = loaded[p] /\ todo'[p] = todo[p] /\ kind' = kind
  BY StepFrame DEF kind
<1>2. PastOf(p) /\ o \notin past[p]
  BY OkIsFinal DEF PastOf
<1>3. \A q \in past[p] : pc'[q] = "ok"
  BY <1>2, StepFrame DEF PastOf
<1>4. \A c \in chunks' : c.by \in past[p] => c \in chunks
  <2>1. CASE ~Commit(o)
    BY <2>1, OnlyCommitWrites
  <2>2. CASE Commit(o)
    <3>1. chunks' = (chunks \ gone[o]) \cup fresh[o] /\ \A c \in fresh[o] : c.by = o
      BY <2>2 DEF Commit, FreshOf
    <3>2. QED
      BY <1>2, <3>1
  <2>3. QED
    BY <2>1, <2>2
<1>5. QED
  BY <1>1, <1>2, <1>3, <1>4 DEF PastOf
\* One transaction makes one index of an article.
LEMMA FreshOnce ==
  ASSUME IInv, NEW o \in Op, NEW c \in fresh[o], NEW d \in fresh[o], c.article = d.article
  PROVE  c = d
<1>1. c \in Chunk /\ d \in Chunk
  BY DEF IInv, TypeOK
<1>2. c.by = d.by /\ c.content = d.content /\ c.after = d.after /\ (c.first <=> d.first)
  BY DEF IInv, FreshOf
<1>3. c.first = d.first
  BY <1>1, <1>2 DEF Chunk
<1>4. QED
  BY <1>1, <1>2, <1>3 DEF Chunk

\* A commit adds no second index to one it could know of.
LEMMA NextOnce ==
  ASSUME IInv, [Next]_vars
  PROVE  OnceInv'
<1>1. CASE UNCHANGED vars
  BY <1>1 DEF IInv, OnceInv, ApprovedOnce, OneIndex, vars
<1>2. ASSUME NEW a \in Article, Edit(a) PROVE OnceInv'
  BY <1>2 DEF IInv, OnceInv, ApprovedOnce, OneIndex, Edit
<1>3. ASSUME NEW o \in Op, Step(o)
      PROVE  \A p \in Op : pc[p] = "ok" => pc'[p] = "ok"
  BY <1>3, StepFrame, OkIsFinal
<1>4. \A c \in chunks : c.after \subseteq Op
  BY DEF IInv, TypeOK, Chunk
<1>5. ASSUME NEW o \in Op, Step(o), ~Commit(o) PROVE OnceInv'
  BY <1>3, <1>4, <1>5, OnlyCommitWrites DEF IInv, OnceInv, ApprovedOnce, OneIndex
<1>6. ASSUME NEW o \in Op, Commit(o) PROVE OnceInv'
  <2>1. chunks' = (chunks \ gone[o]) \cup fresh[o] /\ pc[o] = "commit"
    BY <1>6 DEF Commit
  <2>2. OnceInv /\ FirstOf(o) /\ FreshOf(o) /\ PastOf(o)
    BY DEF IInv
  <2>3. ASSUME NEW c \in chunks, NEW d \in fresh[o], c.article = d.article, c.first, d.first
        PROVE  c \in gone[o]
    BY <2>2, <2>3 DEF FirstOf
  <2>4. ASSUME NEW c \in chunks, NEW d \in fresh[o], c.article = d.article, c.by \in d.after
        PROVE  c \in gone[o]
    BY <2>2, <2>4 DEF FreshOf, PastOf
  <2>5. ASSUME NEW c \in fresh[o], NEW d \in chunks PROVE c.by \notin d.after
    BY <2>1, <2>2 DEF OnceInv, FreshOf
  <2>6. ApprovedOnce'
    BY <2>1, <2>2, <2>3, FreshOnce DEF OnceInv, ApprovedOnce
  <2>7. OneIndex'
    BY <2>1, <2>2, <2>4, <2>5, FreshOnce DEF OnceInv, OneIndex
  <2>8. \A c \in chunks' : \A p \in c.after : pc'[p] = "ok"
    <3>1. Step(o)
      BY <1>6 DEF Step
    <3>2. \A c \in chunks : \A p \in c.after : pc'[p] = "ok"
      BY <1>3, <1>4, <2>2, <3>1 DEF OnceInv
    <3>3. \A c \in fresh[o] : \A p \in c.after : p \in Op /\ pc[p] = "ok"
      BY <2>2 DEF FreshOf, PastOf, IInv, TypeOK
    <3>4. QED
      BY <1>3, <2>1, <3>1, <3>2, <3>3
  <2>9. QED
    BY <2>6, <2>7, <2>8 DEF OnceInv
<1>7. QED
  BY <1>1, <1>2, <1>5, <1>6 DEF Next

\* Who waits in a deadlock has deleted chunks of another article before: a bulk
\* ingestion.  Of two that wait for each other the other one is left.
LEMMA NextSpare ==
  ASSUME IInv, [Next]_vars
  PROVE  DeadlocksSpareOne'
<1> USE DEF IInv, TypeOK
<1>1. CASE UNCHANGED vars
  BY <1>1 DEF DeadlocksSpareOne, kind, vars
<1>2. ASSUME NEW a \in Article, Edit(a) PROVE DeadlocksSpareOne'
  BY <1>2 DEF DeadlocksSpareOne, kind, Edit, session
<1>3. ASSUME NEW o \in Op, Step(o), pc'[o] \notin {"idle", "failed"} PROVE DeadlocksSpareOne'
  BY <1>3, StepFrame DEF DeadlocksSpareOne, kind
<1>4. ASSUME NEW o \in Op, EmbedFails(o) \/ EmbedGarbled(o) PROVE DeadlocksSpareOne'
  BY <1>4, RollBackEffect DEF DeadlocksSpareOne, EmbedFails, EmbedGarbled
<1>5. ASSUME NEW o \in Op, Deadlock(o) PROVE DeadlocksSpareOne'
  <2>1. PICK p \in WaitsFor(o) : o \in WaitsFor(p)
    BY <1>5 DEF Deadlock
  <2>2. p \in Op /\ p # o /\ pc[o] = "delete" /\ pc[p] = "delete" /\ gone[o] # {} /\ gone[p] # {}
    BY <2>1 DEF WaitsFor
  <2>3. ASSUME NEW q \in Op, pc[q] = "delete", gone[q] # {} PROVE kind[q] = "reingestAll"
    <3>1. PICK c : c \in gone[q]
      BY <2>3
    <3>2. c.article \in DOMAIN loaded[q] \ todo[q]
      BY <2>3, <3>1 DEF GoneOf
    <3>3. current[q] \in todo[q] /\ current[q] \in DOMAIN loaded[q]
      BY <2>3 DEF ShapeOf
    <3>4. QED
      BY <2>3, <3>2, <3>3 DEF ShapeOf, Ended
  <2>4. kind[o] = "reingestAll" /\ kind[p] = "reingestAll"
    BY <2>2, <2>3
  <2>5. /\ \A q \in Op \ {o} : pc'[q] = pc[q]
        /\ kind' = kind /\ env' = env
    <3>1. Step(o)
      BY <1>5 DEF Step
    <3>2. QED
      BY <3>1, StepFrame DEF kind
  <2>6. \E q \in Op : kind'[q] = "reingestAll" /\ pc'[q] \notin {"idle", "failed"}
    BY <2>2, <2>4, <2>5
  <2>7. QED
    BY <2>4, <2>5, <2>6 DEF DeadlocksSpareOne
<1>6. ASSUME NEW o \in Op, Step(o) PROVE DeadlocksSpareOne'
  <2>1. pc'[o] \notin {"idle", "failed"} \/ EmbedFails(o) \/ EmbedGarbled(o) \/ Deadlock(o)
    BY <1>6 DEF Step, Load, UpdateArticle, BeginDelete, EndDelete, Embed, ApproveAnyway, Commit, Close, Goto
  <2>2. QED
    BY <1>3, <1>4, <1>5, <1>6, <2>1
<1>7. QED
  BY <1>1, <1>2, <1>6 DEF Next

\* The inductive invariant.
LEMMA Inductive == Spec => []IInv
<1>1. IInv /\ [Next]_vars => IInv'
  <2> SUFFICES ASSUME IInv, [Next]_vars PROVE IInv'
    OBVIOUS
  <2>1. /\ TypeOK' /\ loaded' = [o \in Op |-> loaded'[o]]
        /\ OnceInv' /\ DeadlocksSpareOne'
    BY NextTypeOK, NextOnce, NextSpare
  <2>2. ASSUME NEW p \in Op
        PROVE  /\ ShapeOf(p)' /\ FreshOf(p)' /\ LockOf(p)'
               /\ FirstOf(p)' /\ PastOf(p)' /\ GoneOf(p)'
    <3>1. CASE Step(p)
      BY <3>1, NextShape, NextFresh, NextLock, NextFirst, NextPast, NextGone
    <3>2. ASSUME NEW o \in Op, Step(o), o # p
          PROVE  /\ ShapeOf(p)' /\ FreshOf(p)' /\ LockOf(p)'
                 /\ FirstOf(p)' /\ PastOf(p)' /\ GoneOf(p)'
      <4>1. /\ pc'[p] = pc[p] /\ current'[p] = current[p] /\ seen'[p] = seen[p]
            /\ gone'[p] = gone[p] /\ fresh'[p] = fresh[p] /\ Deciding'[p] = Deciding[p]
            /\ loaded'[p] = loaded[p] /\ past'[p] = past[p] /\ todo'[p] = todo[p] /\ env' = env
        BY <3>2, StepFrame, DecidingFrame
      <4>2. ShapeOf(p)' /\ FreshOf(p)' /\ GoneOf(p)'
        BY <4>1 DEF IInv, ShapeOf, FreshOf, GoneOf, kind
      <4>3. LockOf(p)'
        <5>1. \A a \in Article : writer[a] = p => writer'[a] = p
          BY <3>2, LocksAreKept
        <5>2. todo[p] \subseteq Article /\ \A c \in fresh[p] : c.article \in Article
          BY DEF IInv, TypeOK, Chunk
        <5>3. QED
          BY <4>1, <5>1, <5>2 DEF IInv, LockOf
      <4>4. FirstOf(p)' /\ PastOf(p)'
        BY <3>2, OthersFirst, OthersPast
      <4>5. QED
        BY <4>2, <4>3, <4>4
    <3>3. CASE UNCHANGED vars
      BY <3>3 DEF IInv, vars, ShapeOf, FreshOf, LockOf, FirstOf, PastOf, GoneOf, ChunksOf,
                  Deciding, Dirty, Decision, kind
    <3>4. ASSUME NEW a \in Article, Edit(a)
          PROVE  /\ ShapeOf(p)' /\ FreshOf(p)' /\ LockOf(p)'
                 /\ FirstOf(p)' /\ PastOf(p)' /\ GoneOf(p)'
      BY <3>4 DEF Edit, session, IInv, ShapeOf, FreshOf, LockOf, FirstOf, PastOf, GoneOf,
                  ChunksOf, Deciding, Dirty, Decision, kind
    <3>5. QED
      BY <3>1, <3>2, <3>3, <3>4 DEF Next
  <2>3. QED
    BY <2>1, <2>2 DEF IInv
<1>2. QED
  BY InitIInv, <1>1, PTL DEF Spec
-----------------------------------------------------------------------------
\* Rows, chunks and what the transactions know of them are well formed.
THEOREM TypeCorrect == Spec => []TypeOK
<1>1. IInv => TypeOK
  BY DEF IInv
<1>2. QED
  BY Inductive, <1>1, PTL

\* However many approvals of an article overlap, with whatever else: those that
\* did not find it approved leave one index between them.
THEOREM ApprovalsIndexOnce == Spec => []ApprovedOnce
<1>1. IInv => ApprovedOnce
  BY DEF IInv, OnceInv
<1>2. QED
  BY Inductive, <1>1, PTL

\* Chunks of two ingestions of an article are of ingestions that overlapped, for
\* any number of articles and operations, whatever is edited, rejected or fails.
THEOREM OverlapsIndexTwice == Spec => []OneIndex
<1>1. IInv => OneIndex
  BY DEF IInv, OnceInv
<1>2. QED
  BY Inductive, <1>1, PTL

\* While embeddings work, a deadlock costs bulk ingestions only, and never all of
\* them.
THEOREM OneIsSpared == Spec => []DeadlocksSpareOne
<1>1. IInv => DeadlocksSpareOne
  BY DEF IInv
<1>2. QED
  BY Inductive, <1>1, PTL

\* A commit leaves of the articles it ingested the text that it loaded, and no
\* other but that of operations that overlapped.
THEOREM IngestionReplaces == Spec => IngestReplaces
<1>1. IInv /\ [Next]_vars =>
        \A o \in Op : (pc[o] = "commit" /\ pc'[o] = "ok" /\ kind[o] # "reject") =>
            \A a \in DOMAIN loaded[o] : loaded[o][a].content # Blank =>
                \A c \in ChunksOf(a)' :
                    c.content = loaded[o][a].content \/ c.by \notin past[o]
  <2> SUFFICES ASSUME IInv, [Next]_vars, NEW o \in Op, pc[o] = "commit",
                      pc'[o] = "ok", kind[o] # "reject", NEW a \in DOMAIN loaded[o],
                      loaded[o][a].content # Blank,
                      NEW c \in ChunksOf(a)', c.by \in past[o]
               PROVE  c.content = loaded[o][a].content
    OBVIOUS
  <2>1. Commit(o)
    <3>1. ~ UNCHANGED vars /\ \A b \in Article : ~Edit(b)
      BY DEF vars, Edit
    <3>2. PICK p \in Op : Step(p)
      BY <3>1 DEF Next
    <3>3. p = o
      BY <3>2, StepFrame
    <3>4. QED
      BY <3>2, <3>3, RollBackEffect DEF Step, Load, UpdateArticle, BeginDelete, EndDelete, Embed,
             ApproveAnyway, Ingesting
  <2>2. c \in (chunks \ gone[o]) \cup fresh[o] /\ c.article = a
    BY <2>1 DEF Commit, ChunksOf
  <2>3. c \in chunks => c \in gone[o]
    BY <2>2 DEF IInv, PastOf, ShapeOf
  <2>4. c \in fresh[o]
    BY <2>2, <2>3
  <2>5. QED
    BY <2>2, <2>4 DEF IInv, FreshOf
<1>2. QED
  BY Inductive, <1>1, PTL DEF Spec, IngestReplaces

\* Whatever overlaps and fails, a commit deletes no index it does not replace,
\* unless an answer that is not JSON was taken for no embedding backend.
THEOREM ArticlesStayIndexed == Spec => StaysIndexed
<1>1. IInv /\ [Next]_vars =>
        \A a \in Article : ChunksOf(a) # {} => (ChunksOf(a)' # {} \/ "garbled" \in env.failures)
  <2> SUFFICES ASSUME IInv, [Next]_vars, NEW a \in Article, NEW c \in ChunksOf(a),
                      "garbled" \notin env.failures
               PROVE  ChunksOf(a)' # {}
    OBVIOUS
  <2>1. ASSUME NEW o \in Op, Commit(o) PROVE ChunksOf(a)' # {}
    <3>1. chunks' = (chunks \ gone[o]) \cup fresh[o] /\ pc[o] = "commit"
      BY <2>1 DEF Commit
    <3>2. CASE c \notin gone[o]
      BY <3>1, <3>2 DEF ChunksOf
    <3>3. CASE c \in gone[o]
      <4>1. PICK d \in fresh[o] : d.article = c.article
        BY <3>1, <3>3 DEF IInv, GoneOf
      <4>2. QED
        BY <3>1, <4>1 DEF ChunksOf
    <3>4. QED
      BY <3>2, <3>3
  <2>2. CASE chunks' = chunks
    BY <2>2 DEF ChunksOf
  <2>3. QED
    BY <2>1, <2>2, OnlyCommitWrites DEF Next, vars, Edit
<1>2. QED
  BY Inductive, <1>1, PTL DEF Spec, StaysIndexed
=============================================================================
