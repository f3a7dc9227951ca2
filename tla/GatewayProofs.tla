---------------------------- MODULE GatewayProofs ----------------------------
(***************************************************************************)
(* Gateway for any connections and any number of messages and tools: it is *)
(* well typed, implements ChatService, and keeps the frames in order.      *)
(* What the client has heard says nothing of the frames still to be sent,  *)
(* so the invariant bounds those: in a turn only "started" may be left,    *)
(* after it no error when the turn is stored and nothing but an error when *)
(* it is not, and what becomes of a message is among them once, and then   *)
(* unknown to the client.  For the order, what has been heard and what is  *)
(* still to be sent are one line of frames.                                *)
(***************************************************************************)
EXTENDS Gateway, SequenceTheorems, FiniteSetTheorems, TLAPS

USE GatewayAssumption

svars == <<{r \in Request : r[2] <= taken[r[1]]}, stored, Times("completed"), Times("error")>>

\* What has been heard on each connection, and the frames that say what became of
\* a message.
Known == [c \in Conn |-> {heard[c][k] : k \in 1..Len(heard[c])}]
Decisive == {"completed", "error"}

\* What may be among the frames still to be sent on a connection.
Frames(c) ==
    IF pc[c] = "turn" THEN {"started"}
    ELSE IF Current(c) \in stored THEN Event \ {"error"} ELSE {"error"}

FrameInv ==
    \A c \in Conn : todo[c] \in Seq(Frames(c)) /\ (todo[c] # <<>> => taken[c] >= 1)

TurnInv ==
    \A c \in Conn : pc[c] = "turn" => taken[c] >= 1 /\ Current(c) \notin stored

\* Nothing is known of a message that has not been taken.
TakenInv ==
    /\ \A r \in stored : r[2] <= taken[r[1]]
    /\ \A c \in Conn : \A x \in Known[c] : x[1] <= taken[c]

\* What becomes of a message is sent once, and not before its turn is over.
Once(c) ==
    /\ \A j, k \in 1..Len(todo[c]) : (todo[c][j] \in Decisive /\ todo[c][k] \in Decisive) => j = k
    /\ (pc[c] = "turn" \/ \E k \in 1..Len(todo[c]) : todo[c][k] \in Decisive) =>
          \A e \in Decisive : <<taken[c], e>> \notin Known[c]
OnceInv == \A c \in Conn : Once(c)

IInv == TypeOK /\ FrameInv /\ TurnInv /\ TakenInv /\ OnceInv

\* Frames of a turn, and none of them is an error.
LEMMA AnswerFramesType ==
  ASSUME NEW c \in Conn, NEW n \in Nat, NEW handoff \in BOOLEAN
  PROVE  AnswerFrames(c, n, handoff) \in Seq(Event \ {"error"})
<1> DEFINE S == Event \ {"error"}
           last == IF handoff THEN <<"handoff">> ELSE <<>>
<1>1. <<"token", "completed">> \in Seq(S) /\ <<"completed">> \in Seq(S) /\ last \in Seq(S)
  BY DEF Event
<1>2. ToolFrames(n) \in Seq(S)
  <2>1. 2 * n \in Nat
    OBVIOUS
  <2>2. ToolFrames(n) \in [1..(2 * n) -> S]
    BY DEF ToolFrames, Event
  <2>3. QED
    BY <2>1, <2>2
<1>3. ToolFrames(n) \o <<"token", "completed">> \in Seq(S)
  BY <1>1, <1>2, ConcatProperties
<1>4. (ToolFrames(n) \o <<"token", "completed">>) \o last \in Seq(S)
  BY <1>1, <1>3, ConcatProperties
<1>5. QED
  BY <1>1, <1>4 DEF AnswerFrames

\* The frames of an answer: n tools in pairs, then the token and what follows it.
AnswerOf(s, n) ==
    /\ Len(s) \in {2 * n + 2, 2 * n + 3}
    /\ \A i \in 1..(2 * n) : s[i] = IF i % 2 = 1 THEN "toolStarted" ELSE "toolCompleted"
    /\ s[2 * n + 1] = "token" /\ s[2 * n + 2] = "completed"
    /\ Len(s) = 2 * n + 3 => s[2 * n + 3] = "handoff"

\* AnswerFrames gives what the name says.
LEMMA AnswerFramesAnswer ==
  ASSUME NEW c \in WebSocket, NEW n \in Nat, NEW handoff \in BOOLEAN
  PROVE  AnswerOf(AnswerFrames(c, n, handoff), n)
<1> DEFINE tools == ToolFrames(n)
           two == <<"token", "completed">>
           last == IF handoff THEN <<"handoff">> ELSE <<>>
           s == AnswerFrames(c, n, handoff)
<1>1. tools \in Seq(Event) /\ Len(tools) = 2 * n
      /\ \A i \in 1..(2 * n) : tools[i] = IF i % 2 = 1 THEN "toolStarted" ELSE "toolCompleted"
  <2>1. 2 * n \in Nat
    OBVIOUS
  <2>2. tools \in [1..(2 * n) -> Event]
    BY DEF ToolFrames, Event
  <2>3. QED
    BY <2>1, <2>2 DEF ToolFrames
<1>2. two \in Seq(Event) /\ Len(two) = 2 /\ two[1] = "token" /\ two[2] = "completed"
  BY DEF Event
<1>3. last \in Seq(Event) /\ Len(last) \in 0..1 /\ (Len(last) = 1 => last[1] = "handoff")
  <2>1. CASE handoff
    BY <2>1 DEF Event
  <2>2. CASE ~handoff
    BY <2>2, EmptySeq
  <2>3. QED
    BY <2>1, <2>2
<1>4. s = (tools \o two) \o last
  BY DEF AnswerFrames
<1> HIDE DEF tools, two, last, s
<1>5. /\ tools \o two \in Seq(Event) /\ Len(tools \o two) = 2 * n + 2
      /\ \A i \in 1..(2 * n + 2) : (tools \o two)[i] = IF i <= 2 * n THEN tools[i] ELSE two[i - 2 * n]
  <2>1. /\ tools \o two \in Seq(Event) /\ Len(tools \o two) = Len(tools) + Len(two)
        /\ \A i \in 1..(Len(tools) + Len(two)) :
              (tools \o two)[i] = IF i <= Len(tools) THEN tools[i] ELSE two[i - Len(tools)]
    BY <1>1, <1>2, ConcatProperties
  <2>2. QED
    BY <1>1, <1>2, <2>1
<1>6. /\ Len(s) = 2 * n + 2 + Len(last)
      /\ \A i \in 1..(2 * n + 2) : s[i] = (tools \o two)[i]
      /\ \A i \in 1..Len(s) : i > 2 * n + 2 => s[i] = last[i - (2 * n + 2)]
  <2> DEFINE front == tools \o two
  <2> HIDE DEF front
  <2>1. front \in Seq(Event) /\ Len(front) = 2 * n + 2
    BY <1>5 DEF front
  <2>2. /\ Len(front \o last) = Len(front) + Len(last)
        /\ \A i \in 1..(Len(front) + Len(last)) :
              (front \o last)[i] = IF i <= Len(front) THEN front[i] ELSE last[i - Len(front)]
    BY <1>3, <2>1, ConcatProperties
  <2>3. s = front \o last
    BY <1>4 DEF front
  <2>4. /\ Len(s) = 2 * n + 2 + Len(last)
        /\ \A i \in 1..(2 * n + 2) : s[i] = front[i]
        /\ \A i \in 1..Len(s) : i > 2 * n + 2 => s[i] = last[i - (2 * n + 2)]
    BY <1>3, <2>1, <2>2, <2>3
  <2>5. QED
    BY <2>4 DEF front
<1>7. Len(s) \in {2 * n + 2, 2 * n + 3}
  BY <1>3, <1>6
<1>8. \A i \in 1..(2 * n) : s[i] = IF i % 2 = 1 THEN "toolStarted" ELSE "toolCompleted"
  BY <1>1, <1>5, <1>6
<1>9. s[2 * n + 1] = "token" /\ s[2 * n + 2] = "completed"
  <2>1. /\ 2 * n + 1 \in 1..(2 * n + 2) /\ ~(2 * n + 1 <= 2 * n) /\ (2 * n + 1) - 2 * n = 1
        /\ 2 * n + 2 \in 1..(2 * n + 2) /\ ~(2 * n + 2 <= 2 * n) /\ (2 * n + 2) - 2 * n = 2
    OBVIOUS
  <2>2. QED
    BY <1>2, <1>5, <1>6, <2>1
<1>10. Len(s) = 2 * n + 3 => s[2 * n + 3] = "handoff"
  BY <1>3, <1>6
<1>11. QED
  BY <1>7, <1>8, <1>9, <1>10 DEF s, AnswerOf

\* Each frame of an answer comes after one it may follow, and one of them says that
\* the message is answered.
LEMMA AnswerIsInOrder ==
  ASSUME NEW n \in Nat, NEW s, AnswerOf(s, n)
  PROVE  /\ Len(s) \in Nat /\ Len(s) >= 2
         /\ s[1] \in After("started") /\ s[Len(s)] \in Last
         /\ \A k \in 2..Len(s) : s[k] \in After(s[k - 1])
         /\ \A k \in 1..Len(s) : s[k] \in Decisive => k = 2 * n + 2
<1>1. /\ Len(s) \in {2 * n + 2, 2 * n + 3}
      /\ \A i \in 1..(2 * n) : s[i] = IF i % 2 = 1 THEN "toolStarted" ELSE "toolCompleted"
      /\ s[2 * n + 1] = "token" /\ s[2 * n + 2] = "completed"
      /\ Len(s) = 2 * n + 3 => s[2 * n + 3] = "handoff"
  BY DEF AnswerOf
<1>2. Len(s) \in Nat /\ Len(s) >= 2
  BY <1>1
<1>3. s[1] \in After("started")
  <2>1. CASE n = 0
    BY <1>1, <2>1 DEF After
  <2>2. CASE n # 0
    <3>1. 1 \in 1..(2 * n) /\ 1 % 2 = 1
      BY <2>2
    <3>2. QED
      BY <1>1, <3>1 DEF After
  <2>3. QED
    BY <2>1, <2>2
<1>4. s[Len(s)] \in Last
  BY <1>1 DEF Last
<1>5. ASSUME NEW k \in 2..Len(s) PROVE s[k] \in After(s[k - 1])
  <2>1. CASE k <= 2 * n /\ k % 2 = 1
    <3>1. k - 1 \in 1..(2 * n) /\ (k - 1) % 2 # 1 /\ k \in 1..(2 * n)
      BY <1>5, <2>1
    <3>2. QED
      BY <1>1, <2>1, <3>1 DEF After
  <2>2. CASE k <= 2 * n /\ k % 2 # 1
    <3>1. k - 1 \in 1..(2 * n) /\ (k - 1) % 2 = 1 /\ k \in 1..(2 * n)
      BY <1>5, <2>2
    <3>2. QED
      BY <1>1, <2>2, <3>1 DEF After
  <2>3. CASE k = 2 * n + 1
    <3>1. k - 1 \in 1..(2 * n) /\ (k - 1) % 2 # 1
      BY <1>5, <2>3
    <3>2. s[k - 1] = "toolCompleted" /\ s[k] = "token"
      BY <1>1, <2>3, <3>1
    <3>3. QED
      BY <3>2 DEF After
  <2>4. CASE k = 2 * n + 2
    <3>1. k - 1 = 2 * n + 1
      BY <2>4
    <3>2. s[k - 1] = "token" /\ s[k] = "completed"
      BY <1>1, <2>4, <3>1
    <3>3. QED
      BY <3>2 DEF After
  <2>5. CASE k = 2 * n + 3
    <3>1. k - 1 = 2 * n + 2 /\ Len(s) = 2 * n + 3
      BY <1>1, <1>5, <2>5
    <3>2. s[k - 1] = "completed" /\ s[k] = "handoff"
      BY <1>1, <2>5, <3>1
    <3>3. QED
      BY <3>2 DEF After
  <2>6. k <= 2 * n \/ k = 2 * n + 1 \/ k = 2 * n + 2 \/ k = 2 * n + 3
    BY <1>1, <1>5
  <2>7. QED
    BY <2>1, <2>2, <2>3, <2>4, <2>5, <2>6
<1>6. ASSUME NEW k \in 1..Len(s), s[k] \in Decisive PROVE k = 2 * n + 2
  <2>1. ~(k <= 2 * n)
    <3>1. SUFFICES ASSUME k <= 2 * n PROVE FALSE
      OBVIOUS
    <3>2. k \in 1..(2 * n)
      BY <1>6, <3>1
    <3>3. QED
      BY <1>1, <1>6, <3>2 DEF Decisive
  <2>2. k = 2 * n + 1 \/ k = 2 * n + 2 \/ k = 2 * n + 3
    BY <1>1, <1>6, <2>1
  <2>3. k = 2 * n + 3 => Len(s) = 2 * n + 3
    BY <1>1, <1>6
  <2>4. QED
    BY <1>1, <1>6, <2>2, <2>3 DEF Decisive
<1>7. QED
  BY <1>2, <1>3, <1>4, <1>5, <1>6

\* Nothing has been sent, taken or heard.
LEMMA Initially == Init => IInv
<1> SUFFICES ASSUME Init PROVE IInv
  OBVIOUS
<1>1. TypeOK
  BY DEF Init, TypeOK, Request
<1>2. FrameInv
  BY EmptySeq DEF Init, FrameInv
<1>3. \A c \in Conn : Known[c] = {} /\ 1..Len(todo[c]) = {} /\ pc[c] # "turn"
  BY DEF Init, Known
<1>4. TurnInv /\ TakenInv /\ OnceInv
  BY <1>3 DEF Init, TurnInv, TakenInv, OnceInv, Once
<1>5. QED
  BY <1>1, <1>2, <1>4 DEF IInv

\* What the client knows grows with what it hears.
LEMMA KnownAppend ==
  ASSUME TypeOK, NEW c \in Conn, NEW f \in Frame, heard' = [heard EXCEPT ![c] = Append(@, f)]
  PROVE  Known' = [Known EXCEPT ![c] = @ \cup {f}]
<1>1. heard[c] \in Seq(Frame)
  BY DEF TypeOK
<1>2. /\ Len(Append(heard[c], f)) = Len(heard[c]) + 1 /\ Len(heard[c]) \in Nat
      /\ \A k \in 1..Len(heard[c]) : Append(heard[c], f)[k] = heard[c][k]
      /\ Append(heard[c], f)[Len(heard[c]) + 1] = f
  BY <1>1
<1>3. Known'[c] = Known[c] \cup {f}
  <2>1. heard'[c] = Append(heard[c], f)
    BY DEF TypeOK
  <2>2. 1..(Len(heard[c]) + 1) = (1..Len(heard[c])) \cup {Len(heard[c]) + 1}
    BY <1>2
  <2>3. QED
    BY <1>2, <2>1, <2>2 DEF Known
<1>4. \A d \in Conn \ {c} : Known'[d] = Known[d]
  BY DEF Known, TypeOK
<1>5. QED
  BY <1>3, <1>4 DEF Known

\* The current message of a connection that has taken one is a message.
LEMMA CurrentType ==
  ASSUME TypeOK, NEW c \in Conn, taken[c] >= 1
  PROVE  Current(c) \in Request /\ Current(c)[2] <= taken[Current(c)[1]]
BY DEF TypeOK, Current, Request

\* Every step keeps connections, messages and frames well formed.
LEMMA TypeStep == IInv /\ [Next]_vars => TypeOK'
<1> SUFFICES ASSUME IInv, [Next]_vars PROVE TypeOK'
  OBVIOUS
<1>0. TypeOK
  BY DEF IInv
<1>1. ASSUME NEW c \in Conn, Send(c) PROVE TypeOK'
  <2>1. sent[c] + 1 \in 1..MaxMessages
    BY <1>0, <1>1 DEF Send, TypeOK
  <2>2. <<c, sent[c] + 1>> \in Request
    BY <2>1 DEF Request
  <2>3. sent' \in [Conn -> 0..MaxMessages]
    BY <1>0, <1>1, <2>1 DEF Send, TypeOK
  <2>4. garbled' \subseteq garbled \cup {<<c, sent[c] + 1>>}
    BY <1>1 DEF Send
  <2>5. garbled' \subseteq Request
    BY <1>0, <2>2, <2>4 DEF TypeOK
  <2>6. QED
    BY <1>0, <1>1, <2>3, <2>5 DEF Send, TypeOK
<1>2. ASSUME NEW c \in Conn, Leave(c) PROVE TypeOK'
  BY <1>0, <1>2 DEF Leave, TypeOK
<1>3. ASSUME NEW c \in Conn, Accept(c) PROVE TypeOK'
  BY <1>0, <1>3 DEF Accept, client, TypeOK
<1>4. ASSUME NEW c \in Conn, Reject(c) \/ ReceiveGarbled(c) \/ Notice(c) PROVE TypeOK'
  <2>1. <<>> \in Seq(Event)
    BY EmptySeq
  <2>2. pc' = [pc EXCEPT ![c] = "closed"] /\ todo' = [todo EXCEPT ![c] = <<>>]
    BY <1>4 DEF Reject, ReceiveGarbled, Notice, Close
  <2>3. UNCHANGED <<client, taken, heard, stored>>
    BY <1>4 DEF Reject, ReceiveGarbled, Notice
  <2>4. QED
    BY <1>0, <2>1, <2>2, <2>3 DEF client, TypeOK
<1>5. ASSUME NEW c \in Conn, Receive(c) PROVE TypeOK'
  <2>1. <<"started">> \in Seq(Event) /\ <<>> \in Seq(Event)
    BY DEF Event
  <2>2. todo' \in [Conn -> Seq(Event)]
    BY <1>0, <1>5, <2>1 DEF Receive, TypeOK
  <2>3. taken[c] + 1 \in 0..MaxMessages
    BY <1>0, <1>5 DEF Receive, TypeOK
  <2>4. taken' \in [Conn -> 0..MaxMessages]
    BY <1>0, <1>5, <2>3 DEF Receive, TypeOK
  <2>5. QED
    BY <1>0, <1>5, <2>2, <2>4 DEF Receive, client, TypeOK
<1>6. ASSUME NEW c \in Conn, FinishTurn(c) PROVE TypeOK'
  <2>1. Current(c) \in Request
    BY <1>0, <1>6, CurrentType DEF FinishTurn, IInv, TurnInv
  <2>2. PICK n \in 0..MaxTools, handoff \in BOOLEAN :
           todo' = [todo EXCEPT ![c] = AnswerFrames(c, n, handoff)]
    BY <1>6 DEF FinishTurn
  <2>3. AnswerFrames(c, n, handoff) \in Seq(Event \ {"error"})
    BY AnswerFramesType
  <2>4. AnswerFrames(c, n, handoff) \in Seq(Event)
    <3> DEFINE s == AnswerFrames(c, n, handoff)
    <3> HIDE DEF s
    <3>1. s \in Seq(Event \ {"error"}) => s \in Seq(Event)
      BY SeqMonotonic
    <3>2. QED
      BY <2>3, <3>1 DEF s
  <2>5. todo' \in [Conn -> Seq(Event)]
    BY <1>0, <2>2, <2>4 DEF TypeOK
  <2>6. QED
    BY <1>0, <1>6, <2>1, <2>5 DEF FinishTurn, client, TypeOK
<1>7. ASSUME NEW c \in Conn, FailTurn(c) PROVE TypeOK'
  <2>1. <<"error">> \in Seq(Event)
    BY DEF Event
  <2>2. QED
    BY <1>0, <1>7, <2>1 DEF FailTurn, client, TypeOK
<1>8. ASSUME NEW c \in Conn, Deliver(c) PROVE TypeOK'
  <2>1. Head(todo[c]) \in Event /\ Tail(todo[c]) \in Seq(Event)
    BY <1>0, <1>8, HeadTailProperties DEF Deliver, TypeOK
  <2>2. <<taken[c], Head(todo[c])>> \in Frame
    BY <1>0, <1>8, <2>1 DEF Deliver, IInv, FrameInv, TypeOK, Frame
  <2>3. heard' \in [Conn -> Seq(Frame)] /\ todo' \in [Conn -> Seq(Event)]
    BY <1>0, <1>8, <2>1, <2>2 DEF Deliver, TypeOK
  <2>4. QED
    BY <1>0, <1>8, <2>3 DEF Deliver, client, TypeOK
<1>9. ASSUME Restart PROVE TypeOK'
  BY <1>0, <1>9, EmptySeq DEF Restart, client, TypeOK
<1>10. CASE UNCHANGED vars
  BY <1>0, <1>10 DEF vars, TypeOK
<1>11. QED
  BY <1>1, <1>2, <1>3, <1>4, <1>5, <1>6, <1>7, <1>8, <1>9, <1>10 DEF Next, Serve

\* A step of one connection leaves the others' frames alone: their messages
\* are not those of the connection.
LEMMA OtherFrames ==
  ASSUME IInv, NEW c \in Conn, NEW d \in Conn \ {c},
         pc'[d] = pc[d], taken'[d] = taken[d], todo'[d] = todo[d],
         stored' \subseteq stored \cup {Current(c)}, stored \subseteq stored'
  PROVE  /\ todo'[d] \in Seq(Frames(d)') /\ (todo'[d] # <<>> => taken'[d] >= 1)
         /\ Current(d)' = Current(d)
         /\ Current(d)' \in stored' => Current(d) \in stored
<1>1. Current(d)' = Current(d) /\ Current(d) # Current(c)
  BY DEF Current
<1>2. Frames(d)' = Frames(d)
  BY <1>1 DEF Frames
<1>3. QED
  BY <1>1, <1>2 DEF IInv, FrameInv

\* Every step keeps FrameInv.
LEMMA FrameStep == IInv /\ [Next]_vars => FrameInv'
<1> SUFFICES ASSUME IInv, [Next]_vars PROVE FrameInv'
  OBVIOUS
<1>0. TypeOK /\ FrameInv /\ TurnInv
  BY DEF IInv
<1>1. ASSUME NEW c \in Conn, Send(c) \/ Leave(c) PROVE FrameInv'
  BY <1>0, <1>1 DEF Send, Leave, FrameInv, Frames, Current
<1>2. ASSUME NEW c \in Conn, pc' = [pc EXCEPT ![c] = "closed"], todo' = [todo EXCEPT ![c] = <<>>],
             UNCHANGED <<taken, stored>>
      PROVE  FrameInv'
  <2>1. todo'[c] \in Seq(Frames(c)')
    BY <1>0, <1>2, EmptySeq DEF TypeOK
  <2>2. QED
    BY <1>0, <1>2, <2>1, OtherFrames DEF FrameInv, TypeOK
<1>3. ASSUME NEW c \in Conn, Accept(c) PROVE FrameInv'
  <2>1. \A d \in Conn : (pc'[d] = "turn") = (pc[d] = "turn")
    BY <1>0, <1>3 DEF Accept, TypeOK
  <2>2. QED
    BY <1>0, <1>3, <2>1 DEF Accept, client, FrameInv, Frames, Current
<1>4. ASSUME NEW c \in Conn, Receive(c) PROVE FrameInv'
  <2>1. Frames(c)' = {"started"} /\ taken'[c] >= 1
    BY <1>0, <1>4 DEF Receive, Frames, TypeOK
  <2>2. <<"started">> \in Seq({"started"}) /\ <<>> \in Seq({"started"})
    OBVIOUS
  <2>3. todo'[c] \in Seq(Frames(c)')
    BY <1>0, <1>4, <2>1, <2>2 DEF Receive, TypeOK
  <2>4. \A d \in Conn \ {c} : pc'[d] = pc[d] /\ taken'[d] = taken[d] /\ todo'[d] = todo[d]
    BY <1>0, <1>4 DEF Receive, TypeOK
  <2>5. stored' = stored
    BY <1>4 DEF Receive
  <2>6. QED
    BY <2>1, <2>3, <2>4, <2>5, OtherFrames DEF FrameInv
<1>5. ASSUME NEW c \in Conn, FinishTurn(c) PROVE FrameInv'
  <2>1. PICK n \in 0..MaxTools, handoff \in BOOLEAN :
           todo' = [todo EXCEPT ![c] = AnswerFrames(c, n, handoff)]
    BY <1>5 DEF FinishTurn
  <2>2. pc' = [pc EXCEPT ![c] = "receive"] /\ stored' = stored \cup {Current(c)} /\ taken' = taken
    BY <1>5 DEF FinishTurn, client
  <2>3. Frames(c)' = Event \ {"error"} /\ taken'[c] >= 1
    BY <1>0, <1>5, <2>2 DEF FinishTurn, Frames, Current, TypeOK, TurnInv
  <2>4. todo'[c] \in Seq(Frames(c)')
    BY <1>0, <2>1, <2>3, AnswerFramesType DEF TypeOK
  <2>5. \A d \in Conn \ {c} : pc'[d] = pc[d] /\ taken'[d] = taken[d] /\ todo'[d] = todo[d]
    BY <1>0, <2>1, <2>2 DEF TypeOK
  <2>6. QED
    BY <2>2, <2>3, <2>4, <2>5, OtherFrames DEF FrameInv
<1>6. ASSUME NEW c \in Conn, FailTurn(c) PROVE FrameInv'
  <2>1. pc'[c] = "receive" /\ todo'[c] = <<"error">> /\ taken' = taken /\ stored' = stored
    BY <1>0, <1>6 DEF FailTurn, client, TypeOK
  <2>2. Frames(c)' = {"error"} /\ taken'[c] >= 1
    BY <1>0, <1>6, <2>1 DEF FailTurn, Frames, Current, TurnInv
  <2>3. \A d \in Conn \ {c} : pc'[d] = pc[d] /\ taken'[d] = taken[d] /\ todo'[d] = todo[d]
    BY <1>0, <1>6 DEF FailTurn, TypeOK
  <2>4. todo'[c] \in Seq(Frames(c)')
    BY <2>1, <2>2
  <2>5. QED
    BY <2>1, <2>2, <2>3, <2>4, OtherFrames DEF FrameInv
<1>7. ASSUME NEW c \in Conn, Deliver(c) PROVE FrameInv'
  <2>1. UNCHANGED <<pc, taken, stored>>
    BY <1>7 DEF Deliver
  <2>2. Frames(c)' = Frames(c) /\ taken'[c] >= 1
    BY <1>0, <1>7, <2>1 DEF Deliver, Frames, Current, FrameInv
  <2>3. todo'[c] = Tail(todo[c]) /\ todo[c] # <<>>
    BY <1>0, <1>7 DEF Deliver, TypeOK
  <2>4. todo'[c] \in Seq(Frames(c)')
    BY <1>0, <2>2, <2>3, HeadTailProperties DEF FrameInv
  <2>5. \A d \in Conn \ {c} : todo'[d] = todo[d]
    BY <1>0, <1>7 DEF Deliver, TypeOK
  <2>6. QED
    BY <2>1, <2>2, <2>4, <2>5, OtherFrames DEF FrameInv
<1>8. ASSUME Restart PROVE FrameInv'
  BY <1>8, EmptySeq DEF Restart, FrameInv
<1>9. CASE UNCHANGED vars
  BY <1>0, <1>9 DEF vars, FrameInv, Frames, Current
<1>10. ASSUME NEW c \in Conn, Reject(c) \/ ReceiveGarbled(c) \/ Notice(c) PROVE FrameInv'
  BY <1>2, <1>10 DEF Reject, ReceiveGarbled, Notice, Close
<1>11. QED
  BY <1>1, <1>3, <1>4, <1>5, <1>6, <1>7, <1>8, <1>9, <1>10 DEF Next, Serve

\* Only a message that was just taken is in a turn for the first time, and
\* TakenInv says that nothing is known of it.
LEMMA TurnStep == IInv /\ [Next]_vars => TurnInv'
<1> SUFFICES ASSUME IInv, [Next]_vars PROVE TurnInv'
  OBVIOUS
<1>0. TypeOK /\ FrameInv /\ TurnInv /\ TakenInv
  BY DEF IInv
<1>1. ASSUME NEW c \in Conn, Receive(c) PROVE TurnInv'
  <2>1. taken'[c] = taken[c] + 1 /\ taken[c] \in Nat
    BY <1>0, <1>1 DEF Receive, TypeOK
  <2>2. Current(c)' = <<c, taken[c] + 1>>
    BY <2>1 DEF Current
  <2>3. Current(c)' \notin stored
    BY <1>0, <2>1, <2>2 DEF TakenInv
  <2>4. stored' = stored
    BY <1>1 DEF Receive
  <2>5. \A d \in Conn \ {c} : pc'[d] = pc[d] /\ taken'[d] = taken[d]
    BY <1>0, <1>1 DEF Receive, TypeOK
  <2>6. QED
    BY <1>0, <2>1, <2>3, <2>4, <2>5 DEF TurnInv, Current
<1>2. ASSUME NEW c \in Conn, FinishTurn(c) PROVE TurnInv'
  <2>1. \A d \in Conn : pc'[d] = "turn" => d # c /\ pc[d] = "turn"
    BY <1>0, <1>2 DEF FinishTurn, TypeOK
  <2>2. stored' = stored \cup {Current(c)} /\ taken' = taken
    BY <1>2 DEF FinishTurn
  <2>3. QED
    BY <1>0, <2>1, <2>2 DEF TurnInv, Current
<1>4. ASSUME UNCHANGED <<taken, stored>>, \A d \in Conn : pc'[d] = "turn" => pc[d] = "turn"
      PROVE  TurnInv'
  BY <1>0, <1>4 DEF TurnInv, Current
<1>5. ASSUME NEW c \in Conn,
             \/ Send(c) \/ Leave(c) \/ Accept(c) \/ Reject(c) \/ ReceiveGarbled(c) \/ FailTurn(c) \/ Notice(c)
             \/ Deliver(c)
      PROVE  TurnInv'
  <2>1. UNCHANGED <<taken, stored>>
    BY <1>5 DEF Send, Leave, Accept, Reject, ReceiveGarbled, FailTurn, Notice, Deliver, client
  <2>2. \A d \in Conn : pc'[d] = "turn" => pc[d] = "turn"
    BY <1>0, <1>5 DEF Send, Leave, Accept, Reject, ReceiveGarbled, FailTurn, Notice, Deliver, Close, TypeOK
  <2>3. QED
    BY <1>4, <2>1, <2>2
<1>6. ASSUME Restart \/ UNCHANGED vars PROVE TurnInv'
  BY <1>4, <1>6 DEF Restart, vars, client
<1>7. QED
  BY <1>1, <1>2, <1>5, <1>6 DEF Next, Serve

\* A frame that is sent is heard, or lost.
LEMMA DeliverKnown ==
  ASSUME TypeOK, FrameInv, NEW c \in Conn, Deliver(c)
  PROVE  \/ heard' = heard /\ Known' = Known
         \/ /\ heard' = [heard EXCEPT ![c] = Append(@, <<taken[c], Head(todo[c])>>)]
            /\ Known' = [Known EXCEPT ![c] = @ \cup {<<taken[c], Head(todo[c])>>}]
<1>1. <<taken[c], Head(todo[c])>> \in Frame
  BY HeadTailProperties DEF Deliver, FrameInv, TypeOK, Frame
<1>2. CASE heard' = heard
  BY <1>2 DEF Known
<1>3. CASE heard' = [heard EXCEPT ![c] = Append(@, <<taken[c], Head(todo[c])>>)]
  BY <1>1, <1>3, KnownAppend
<1>4. QED
  BY <1>2, <1>3 DEF Deliver

\* Every step keeps TakenInv.
LEMMA TakenStep == IInv /\ [Next]_vars => TakenInv'
<1> SUFFICES ASSUME IInv, [Next]_vars PROVE TakenInv'
  OBVIOUS
<1>0. TypeOK /\ FrameInv /\ TurnInv /\ TakenInv
  BY DEF IInv
<1>1. ASSUME NEW c \in Conn, Receive(c) PROVE TakenInv'
  <2>1. UNCHANGED <<heard, stored>>
    BY <1>1 DEF Receive
  <2>2. \A d \in Conn : taken[d] \in Nat /\ taken'[d] \in Nat /\ taken[d] <= taken'[d]
    BY <1>0, <1>1 DEF Receive, TypeOK
  <2>3. \A r \in stored : r[1] \in Conn /\ r[2] \in Nat
    BY <1>0 DEF TypeOK, Request
  <2>4. \A d \in Conn : \A x \in Known[d] : x[1] \in Nat
    BY <1>0 DEF Known, TypeOK, Frame
  <2>5. Known' = Known
    BY <2>1 DEF Known
  <2>6. QED
    BY <1>0, <2>1, <2>2, <2>3, <2>4, <2>5 DEF TakenInv
<1>2. ASSUME NEW c \in Conn, FinishTurn(c) PROVE TakenInv'
  <2>1. stored' = stored \cup {Current(c)} /\ UNCHANGED <<taken, heard>>
    BY <1>2 DEF FinishTurn
  <2>2. Current(c)[2] <= taken[Current(c)[1]]
    BY <1>0, <1>2, CurrentType DEF FinishTurn, TurnInv
  <2>3. Known' = Known
    BY <2>1 DEF Known
  <2>4. QED
    BY <1>0, <2>1, <2>2, <2>3 DEF TakenInv
<1>3. ASSUME NEW c \in Conn, Deliver(c) PROVE TakenInv'
  <2>1. UNCHANGED <<taken, stored>>
    BY <1>3 DEF Deliver
  <2> DEFINE f == <<taken[c], Head(todo[c])>>
  <2>2. Known' = Known \/ Known' = [Known EXCEPT ![c] = @ \cup {f}]
    BY <1>0, <1>3, DeliverKnown
  <2>3. \A d \in Conn : \A x \in Known'[d] : x \in Known[d] \/ (d = c /\ x = f)
    <3> HIDE DEF f
    <3>1. \A d \in Conn \ {c} : Known'[d] = Known[d]
      BY <2>2 DEF Known
    <3>2. Known'[c] \subseteq Known[c] \cup {f}
      BY <2>2 DEF Known
    <3>3. QED
      BY <3>1, <3>2
  <2>4. \A d \in Conn : taken[d] \in Nat
    BY <1>0 DEF TypeOK
  <2>5. QED
    BY <1>0, <2>1, <2>3, <2>4 DEF TakenInv
<1>4. ASSUME UNCHANGED <<taken, heard, stored>> PROVE TakenInv'
  <2>1. Known' = Known
    BY <1>4 DEF Known
  <2>2. QED
    BY <1>0, <1>4, <2>1 DEF TakenInv
<1>5. ASSUME NEW c \in Conn,
             \/ Send(c) \/ Leave(c) \/ Accept(c) \/ Reject(c) \/ ReceiveGarbled(c) \/ FailTurn(c) \/ Notice(c)
      PROVE  TakenInv'
  BY <1>4, <1>5 DEF Send, Leave, Accept, Reject, ReceiveGarbled, FailTurn, Notice, client
<1>6. ASSUME Restart \/ UNCHANGED vars PROVE TakenInv'
  BY <1>4, <1>6 DEF Restart, vars, client
<1>7. QED
  BY <1>1, <1>2, <1>3, <1>5, <1>6 DEF Next, Serve

\* A step of one connection leaves what the others have sent alone.
LEMMA OnceOthers ==
  ASSUME OnceInv, NEW c \in Conn, Once(c)',
         \A d \in Conn \ {c} : /\ pc'[d] = pc[d] /\ taken'[d] = taken[d]
                               /\ todo'[d] = todo[d] /\ Known'[d] = Known[d]
  PROVE  OnceInv'
BY DEF OnceInv, Once

\* A turn ends with one frame that says what became of it, of which nothing has
\* been said.
LEMMA OnceEnd ==
  ASSUME IInv, NEW c \in Conn, FinishTurn(c) \/ FailTurn(c)
  PROVE  OnceInv'
<1>0. TypeOK /\ TurnInv /\ OnceInv
  BY DEF IInv
<1>1. Known' = Known /\ taken' = taken /\ pc[c] = "turn"
  BY DEF FinishTurn, FailTurn, Known
<1>2. \A d \in Conn \ {c} : pc'[d] = pc[d] /\ taken'[d] = taken[d] /\ todo'[d] = todo[d]
  BY <1>0 DEF FinishTurn, FailTurn, TypeOK
<1>3. \A e \in Decisive : <<taken'[c], e>> \notin Known'[c]
  BY <1>0, <1>1 DEF OnceInv, Once
<1>4. \E m : \A k \in 1..Len(todo'[c]) : todo'[c][k] \in Decisive => k = m
  <2>1. CASE todo'[c] = <<"error">> \/ todo'[c] = <<"completed">>
    BY <2>1
  <2>2. ASSUME NEW n \in 0..MaxTools, NEW handoff \in BOOLEAN, c \in WebSocket,
               todo'[c] = AnswerFrames(c, n, handoff)
        PROVE  \A k \in 1..Len(todo'[c]) : todo'[c][k] \in Decisive => k = 2 * n + 2
    <3>1. n \in Nat
      OBVIOUS
    <3>2. AnswerOf(todo'[c], n)
      BY <2>2, <3>1, AnswerFramesAnswer
    <3>3. QED
      BY <3>1, <3>2, AnswerIsInOrder
  <2>3. CASE FailTurn(c)
    BY <1>0, <2>1, <2>3 DEF FailTurn, TypeOK
  <2>4. CASE FinishTurn(c)
    <3>1. PICK n \in 0..MaxTools, handoff \in BOOLEAN : todo'[c] = AnswerFrames(c, n, handoff)
      BY <1>0, <2>4 DEF FinishTurn, TypeOK
    <3>2. CASE c \in WebSocket
      BY <2>2, <3>1, <3>2
    <3>3. CASE c \notin WebSocket
      BY <2>1, <3>1, <3>3 DEF AnswerFrames
    <3>4. QED
      BY <3>2, <3>3
  <2>5. QED
    BY <2>3, <2>4
<1>5. Once(c)'
  BY <1>3, <1>4 DEF Once
<1>6. QED
  BY <1>0, <1>1, <1>2, <1>5, OnceOthers

\* A frame that is sent is none of those still to be sent.
LEMMA OnceDeliver ==
  ASSUME IInv, NEW c \in Conn, Deliver(c)
  PROVE  OnceInv'
<1> DEFINE f == Head(todo[c])
<1>0. TypeOK /\ FrameInv /\ OnceInv
  BY DEF IInv
<1>1. /\ todo[c] \in Seq(Event) /\ todo[c] # <<>> /\ todo'[c] = Tail(todo[c])
      /\ UNCHANGED <<pc, taken>> /\ \A d \in Conn \ {c} : todo'[d] = todo[d]
  BY <1>0 DEF Deliver, TypeOK
<1>2. /\ Len(todo[c]) \in Nat /\ Len(todo[c]) >= 1 /\ Len(todo'[c]) = Len(todo[c]) - 1
      /\ \A k \in 1..Len(todo'[c]) : todo'[c][k] = todo[c][k + 1]
      /\ f = todo[c][1]
  BY <1>1, HeadTailProperties, LenProperties, EmptySeq
<1>3. Known' = Known \/ Known' = [Known EXCEPT ![c] = @ \cup {<<taken[c], f>>}]
  BY <1>0, DeliverKnown
<1>4. /\ \A d \in Conn \ {c} : Known'[d] = Known[d]
      /\ Known'[c] \subseteq Known[c] \cup {<<taken[c], f>>}
  BY <1>3 DEF Known
<1>5. pc[c] = "turn" => f \notin Decisive
  BY <1>0, <1>1, HeadTailProperties DEF FrameInv, Frames, Decisive
<1> HIDE DEF f
<1>6. ASSUME NEW j \in 1..Len(todo'[c]), NEW k \in 1..Len(todo'[c]),
             todo'[c][j] \in Decisive, todo'[c][k] \in Decisive
      PROVE  j = k
  <2>1. j + 1 \in 1..Len(todo[c]) /\ k + 1 \in 1..Len(todo[c])
    BY <1>2
  <2>2. j + 1 = k + 1
    BY <1>0, <1>2, <1>6, <2>1 DEF OnceInv, Once
  <2>3. QED
    BY <2>2
<1>7. ASSUME NEW k \in 1..Len(todo'[c]), todo'[c][k] \in Decisive
      PROVE  f \notin Decisive /\ \A e \in Decisive : <<taken[c], e>> \notin Known[c]
  <2>1. k + 1 \in 1..Len(todo[c]) /\ 1 \in 1..Len(todo[c]) /\ k + 1 # 1
    BY <1>2
  <2>2. todo[c][k + 1] \in Decisive
    BY <1>2, <1>7
  <2>3. QED
    BY <1>0, <1>2, <2>1, <2>2 DEF OnceInv, Once
<1>8. pc[c] = "turn" => \A e \in Decisive : <<taken[c], e>> \notin Known[c]
  BY <1>0 DEF OnceInv, Once
<1>9. Once(c)'
  BY <1>1, <1>4, <1>5, <1>6, <1>7, <1>8 DEF Once
<1>10. QED
  BY <1>0, <1>1, <1>4, <1>9, OnceOthers

\* Every step keeps OnceInv: nothing is known of a message that was just taken.
LEMMA OnceStep == IInv /\ [Next]_vars => OnceInv'
<1> SUFFICES ASSUME IInv, [Next]_vars PROVE OnceInv'
  OBVIOUS
<1>0. TypeOK /\ TakenInv /\ OnceInv
  BY DEF IInv
<1>1. ASSUME NEW c \in Conn, Receive(c) PROVE OnceInv'
  <2>1. taken'[c] = taken[c] + 1 /\ taken[c] \in Nat /\ (todo'[c] = <<"started">> \/ todo'[c] = <<>>)
    BY <1>0, <1>1 DEF Receive, TypeOK
  <2>2. Known' = Known
    BY <1>1 DEF Receive, Known
  <2>3. \A d \in Conn \ {c} : pc'[d] = pc[d] /\ taken'[d] = taken[d] /\ todo'[d] = todo[d]
    BY <1>0, <1>1 DEF Receive, TypeOK
  <2>4. \A e : <<taken'[c], e>> \notin Known'[c]
    BY <1>0, <2>1, <2>2 DEF TakenInv
  <2>5. \A k \in 1..Len(todo'[c]) : todo'[c][k] \notin Decisive
    BY <2>1, EmptySeq DEF Decisive
  <2>6. Once(c)'
    BY <2>4, <2>5 DEF Once
  <2>7. QED
    BY <1>0, <2>2, <2>3, <2>6, OnceOthers
<1>2. ASSUME NEW c \in Conn, Send(c) \/ Leave(c) \/ Accept(c) PROVE OnceInv'
  <2>1. UNCHANGED <<taken, todo, Known>> /\ \A d \in Conn : pc'[d] = "turn" => pc[d] = "turn"
    BY <1>0, <1>2 DEF Send, Leave, Accept, client, Known, TypeOK
  <2>2. QED
    BY <1>0, <2>1 DEF OnceInv, Once
<1>3. ASSUME NEW c \in Conn, Reject(c) \/ ReceiveGarbled(c) \/ Notice(c) PROVE OnceInv'
  <2>1. UNCHANGED <<taken, Known>> /\ pc'[c] = "closed" /\ todo'[c] = <<>>
        /\ \A d \in Conn \ {c} : pc'[d] = pc[d] /\ todo'[d] = todo[d]
    BY <1>0, <1>3 DEF Reject, ReceiveGarbled, Notice, Close, Known, TypeOK
  <2>2. Once(c)'
    BY <2>1, EmptySeq DEF Once
  <2>3. QED
    BY <1>0, <2>1, <2>2, OnceOthers
<1>4. CASE Restart
  <2>1. \A d \in Conn : pc'[d] = "closed" /\ 1..Len(todo'[d]) = {}
    BY <1>4, EmptySeq DEF Restart
  <2>2. QED
    BY <2>1 DEF OnceInv, Once
<1>5. CASE UNCHANGED vars
  BY <1>0, <1>5 DEF vars, OnceInv, Once, Known
<1>6. QED
  BY <1>1, <1>2, <1>3, <1>4, <1>5, OnceEnd, OnceDeliver DEF Next, Serve

\* The invariant the theorems rest on.
LEMMA Inductive == Spec => []IInv
<1>1. IInv /\ [Next]_vars => IInv'
  BY TypeStep, FrameStep, TurnStep, TakenStep, OnceStep DEF IInv
<1>2. QED
  BY <1>1, Initially, PTL DEF Spec

\* Connections, messages and frames are well formed, and no connection is served
\* more messages than may be sent on it.
THEOREM TypeCorrect == Spec => []TypeOK
BY Inductive, PTL DEF IInv

\* Times, as one function of the frame and the message.
Count == [e \in Event |-> Times(e)]

\* Once more of a frame that is heard, and as often as before of any other.
LEMMA TimesAppend ==
  ASSUME TypeOK, NEW c \in Conn, NEW i \in 1..MaxMessages, NEW f \in Event,
         heard' = [heard EXCEPT ![c] = Append(@, <<i, f>>)]
  PROVE  Count' = [Count EXCEPT ![f][<<c, i>>] = @ + 1]
<1>0. PICK new : new = Count'
  OBVIOUS
<1>1. ASSUME NEW e \in Event
      PROVE  /\ e = f => new[e] = [Count[e] EXCEPT ![<<c, i>>] = @ + 1]
             /\ e # f => new[e] = Count[e]
  <2> DEFINE K(r) == {k \in 1..Len(heard[r[1]]) : heard[r[1]][k] = <<r[2], e>>}
             n == Len(heard[c]) + 1
  <2>1. /\ heard'[c] = Append(heard[c], <<i, f>>) /\ Len(heard[c]) \in Nat /\ n \in Nat
        /\ Len(heard'[c]) = n /\ heard'[c][n] = <<i, f>>
        /\ \A k \in 1..Len(heard[c]) : heard'[c][k] = heard[c][k]
    BY DEF TypeOK
  <2>2. \A r \in Request : r[1] # c => K(r)' = K(r)
    BY DEF Request, TypeOK
  <2>3. ASSUME NEW r \in Request, r[1] = c
        PROVE  K(r)' = IF r[2] = i /\ e = f THEN K(r) \cup {n} ELSE K(r)
    <3>1. 1..n = (1..Len(heard[c])) \cup {n} /\ n \notin 1..Len(heard[c])
      BY <2>1
    <3>2. <<r[2], e>> = <<i, f>> <=> (r[2] = i /\ e = f)
      OBVIOUS
    <3>3. QED
      BY <2>1, <2>3, <3>1, <3>2
  <2>4. ASSUME NEW r \in Request PROVE IsFiniteSet(K(r)) /\ Cardinality(K(r)) \in Nat
    <3>1. Len(heard[r[1]]) \in Nat
      BY DEF Request, TypeOK
    <3>2. IsFiniteSet(1..Len(heard[r[1]])) /\ K(r) \subseteq 1..Len(heard[r[1]])
      BY <3>1, FS_Interval
    <3> HIDE DEF K
    <3>3. QED
      BY <3>2, FS_Subset, FS_CardinalityType
  <2>5. ASSUME NEW r \in Request
        PROVE  Cardinality(K(r)') = IF r = <<c, i>> /\ e = f THEN Cardinality(K(r)) + 1 ELSE Cardinality(K(r))
    <3>1. r = <<c, i>> <=> (r[1] = c /\ r[2] = i)
      BY DEF Request
    <3>2. CASE r = <<c, i>> /\ e = f
      <4>1. K(r)' = K(r) \cup {n}
        BY <2>3, <3>1, <3>2
      <4>2. n \notin K(r)
        BY <2>1, <3>1, <3>2
      <4> HIDE DEF K, n
      <4>3. QED
        BY <2>4, <3>2, <4>1, <4>2, FS_AddElement
    <3>3. CASE ~(r = <<c, i>> /\ e = f)
      <4>1. K(r)' = K(r)
        BY <2>2, <2>3, <3>1, <3>3
      <4> HIDE DEF K
      <4>2. QED
        BY <3>3, <4>1
    <3>4. QED
      BY <3>2, <3>3
  <2>6. /\ Count[e] = [r \in Request |-> Cardinality(K(r))]
        /\ new[e] = [r \in Request |-> Cardinality(K(r)')]
    BY <1>0 DEF Count, Times
  <2> HIDE DEF K
  <2>7. <<c, i>> \in Request
    BY DEF Request
  <2>8. CASE e = f
    BY <2>5, <2>6, <2>7, <2>8
  <2>9. CASE e # f
    BY <2>5, <2>6, <2>9
  <2>10. QED
    BY <2>8, <2>9
<1>2. new = [Count EXCEPT ![f][<<c, i>>] = @ + 1]
  <2>1. Count = [e \in Event |-> Count[e]] /\ new = [e \in Event |-> new[e]]
    BY <1>0 DEF Count
  <2>2. new[f] = [Count[f] EXCEPT ![<<c, i>>] = @ + 1]
    BY <1>1
  <2>3. \A e \in Event \ {f} : new[e] = Count[e]
    BY <1>1
  <2>4. QED
    BY <2>1, <2>2, <2>3
<1>3. QED
  BY <1>0, <1>2

\* What the client does not know it has never heard.
LEMMA TimesZero ==
  ASSUME TypeOK, NEW r \in Request, NEW e, <<r[2], e>> \notin Known[r[1]]
  PROVE  Times(e)[r] = 0
<1>1. {k \in 1..Len(heard[r[1]]) : heard[r[1]][k] = <<r[2], e>>} = {}
  BY DEF Known, Request
<1>2. QED
  BY <1>1, FS_EmptySet DEF Times

\* A frame that is sent answers, refuses, or says neither; answers are of stored
\* turns and refusals of turns that are not, and neither is said twice.
LEMMA DeliverMaps ==
  ASSUME IInv, NEW c \in Conn, Deliver(c)
  PROVE  (\E r \in Request : Service!Answer(r) \/ Service!Refuse(r)) \/ UNCHANGED svars
<1> DEFINE r == Current(c)
           e == Head(todo[c])
           asked == {q \in Request : q[2] <= taken[q[1]]}
<1>1. TypeOK /\ FrameInv /\ OnceInv
  BY DEF IInv
<1>2. r \in Request /\ r \in asked /\ r = <<c, taken[c]>> /\ taken[c] \in 1..MaxMessages
  BY <1>1, CurrentType DEF Deliver, FrameInv, Current, Request
<1>3. asked' = asked /\ stored' = stored
  BY DEF Deliver
<1>4. e \in Frames(c) /\ e \in Event /\ e = todo[c][1] /\ 1 \in 1..Len(todo[c])
  BY <1>1, HeadTailProperties, EmptySeq DEF Deliver, FrameInv, TypeOK
<1>5. heard' = heard \/ heard' = [heard EXCEPT ![c] = Append(@, <<taken[c], e>>)]
  BY DEF Deliver
<1>6. e \in Decisive => <<taken[c], e>> \notin Known[c]
  BY <1>1, <1>4 DEF OnceInv, Once
<1>7. CASE heard' = heard
  BY <1>3, <1>7 DEF svars, Times
<1>8. CASE heard' = [heard EXCEPT ![c] = Append(@, <<taken[c], e>>)]
  <2> HIDE DEF e, asked
  <2>1. /\ Times("completed")' = IF "completed" = e THEN [Times("completed") EXCEPT ![r] = @ + 1] ELSE Times("completed")
        /\ Times("error")' = IF "error" = e THEN [Times("error") EXCEPT ![r] = @ + 1] ELSE Times("error")
    <3>1. Count' = [Count EXCEPT ![e][r] = @ + 1]
      <4>1. PICK i \in 1..MaxMessages, f \in Event : i = taken[c] /\ f = e
        BY <1>2, <1>4
      <4>2. heard' = [heard EXCEPT ![c] = Append(@, <<i, f>>)] /\ r = <<c, i>>
        BY <1>2, <1>8, <4>1
      <4>3. Count' = [Count EXCEPT ![f][<<c, i>>] = @ + 1]
        BY <1>1, <4>1, <4>2, TimesAppend
      <4>4. QED
        BY <4>1, <4>2, <4>3
    <3>2. /\ Count["completed"] = Times("completed") /\ Count'["completed"] = Times("completed")'
          /\ Count["error"] = Times("error") /\ Count'["error"] = Times("error")'
          /\ DOMAIN Count = Event
      BY DEF Count, Event, Times
    <3>3. /\ Count'[e] = [Count[e] EXCEPT ![r] = @ + 1]
          /\ \A a \in Event \ {e} : Count'[a] = Count[a]
      BY <1>4, <3>1, <3>2
    <3>4. QED
      BY <3>2, <3>3 DEF Event
  <2>2. e \in Decisive => Times(e)[r] = 0
    BY <1>1, <1>2, <1>6, TimesZero
  <2>3. CASE e = "completed"
    <3>1. r \in stored /\ Times("completed")[r] = 0
      BY <1>4, <2>2, <2>3 DEF Frames, Decisive
    <3>2. UNCHANGED <<asked, stored, Times("error")>>
      BY <1>3, <2>1, <2>3
    <3>3. Times("completed")' = [Times("completed") EXCEPT ![r] = @ + 1]
      BY <2>1, <2>3
    <3>4. QED
      BY <1>2, <3>1, <3>2, <3>3 DEF Service!Answer, asked
  <2>4. CASE e = "error"
    <3>1. r \notin stored /\ Times("error")[r] = 0
      BY <1>4, <2>2, <2>4 DEF Frames, Decisive
    <3>2. UNCHANGED <<asked, stored, Times("completed")>>
      BY <1>3, <2>1, <2>4
    <3>3. Times("error")' = [Times("error") EXCEPT ![r] = @ + 1]
      BY <2>1, <2>4
    <3>4. QED
      BY <1>2, <3>1, <3>2, <3>3 DEF Service!Refuse, asked
  <2>5. CASE e \notin Decisive
    BY <1>3, <2>1, <2>5 DEF svars, Decisive, asked
  <2>6. QED
    BY <2>3, <2>4, <2>5 DEF Decisive
<1>9. QED
  BY <1>5, <1>7, <1>8

\* The WebSocket loop and send_message implement the chat service, for any
\* number of connections, messages and tools, clients that leave and servers
\* that restart: no answer without a stored turn, no error for one, and no more
\* than one of them.
THEOREM GatewayImplementsService == Spec => ImplementsChatService
<1> DEFINE asked == {q \in Request : q[2] <= taken[q[1]]}
<1>1. Init => Service!Init
  <2> SUFFICES ASSUME Init PROVE Service!Init
    OBVIOUS
  <2>1. asked = {}
    BY DEF Init, Request
  <2>2. TypeOK
    BY Initially DEF IInv
  <2>3. \A r \in Request : Known[r[1]] = {}
    BY DEF Init, Known, Request
  <2>4. /\ Times("completed") = [r \in Request |-> 0]
        /\ Times("error") = [r \in Request |-> 0]
    <3>1. ASSUME NEW e PROVE Times(e) = [r \in Request |-> 0]
      <4> DEFINE T == Times(e)
      <4>1. \A r \in Request : T[r] = 0
        BY <2>2, <2>3, TimesZero
      <4>2. T = [r \in Request |-> T[r]]
        BY DEF Times
      <4> HIDE DEF T
      <4>3. T = [r \in Request |-> 0]
        BY <4>1, <4>2
      <4>4. QED
        BY <4>3 DEF T
    <3>2. QED
      BY <3>1
  <2>5. QED
    BY <2>1, <2>4 DEF Init, Service!Init
<1>2. IInv /\ [Next]_vars => [Service!Next]_svars
  <2> SUFFICES ASSUME IInv, [Next]_vars PROVE [Service!Next]_svars
    OBVIOUS
  <2>0. TypeOK /\ TurnInv /\ OnceInv
    BY DEF IInv
  <2>1. ASSUME NEW c \in Conn, Receive(c) PROVE Service!Next
    <3> DEFINE r == <<c, taken[c] + 1>>
    <3>1. taken[c] \in Nat /\ taken[c] + 1 \in 1..MaxMessages /\ taken' = [taken EXCEPT ![c] = @ + 1]
      BY <2>0, <2>1 DEF Receive, TypeOK
    <3>2. r \in Request /\ r \notin asked
      BY <3>1 DEF Request
    <3>3. asked' = asked \cup {r}
      BY <2>0, <3>1 DEF Request, TypeOK
    <3>4. UNCHANGED <<stored, Times("completed"), Times("error")>>
      BY <2>1 DEF Receive, Times
    <3>5. QED
      BY <3>2, <3>3, <3>4 DEF Service!Ask, Service!Next
  <2>2. ASSUME NEW c \in Conn, FinishTurn(c) PROVE Service!Next
    <3>1. Current(c) \in Request /\ Current(c) \in asked /\ Current(c) = <<c, taken[c]>>
      BY <2>0, <2>2, CurrentType DEF FinishTurn, TurnInv, Current
    <3>2. Current(c) \notin stored /\ <<taken[c], "error">> \notin Known[c]
      BY <2>0, <2>2 DEF FinishTurn, TurnInv, OnceInv, Once, Decisive
    <3>3. Times("error")[Current(c)] = 0
      BY <2>0, <3>1, <3>2, TimesZero
    <3>4. stored' = stored \cup {Current(c)} /\ UNCHANGED <<asked, Times("completed"), Times("error")>>
      BY <2>2 DEF FinishTurn, Times
    <3>5. QED
      BY <3>1, <3>2, <3>3, <3>4 DEF Service!Store, Service!Next
  <2>3. ASSUME NEW c \in Conn, Deliver(c) PROVE [Service!Next]_svars
    BY <2>3, DeliverMaps DEF Service!Next
  <2>4. ASSUME UNCHANGED <<taken, heard, stored>> PROVE UNCHANGED svars
    BY <2>4 DEF svars, Times
  <2>5. ASSUME NEW c \in Conn,
               \/ Send(c) \/ Leave(c) \/ Accept(c) \/ Reject(c) \/ ReceiveGarbled(c) \/ FailTurn(c) \/ Notice(c)
        PROVE  UNCHANGED svars
    BY <2>4, <2>5 DEF Send, Leave, Accept, Reject, ReceiveGarbled, FailTurn, Notice, client
  <2>6. ASSUME Restart \/ UNCHANGED vars PROVE UNCHANGED svars
    BY <2>4, <2>6 DEF Restart, vars, client
  <2>7. QED
    BY <2>1, <2>2, <2>3, <2>5, <2>6 DEF Next, Serve
<1>3. QED
  BY <1>1, <1>2, Inductive, PTL DEF Spec, ImplementsChatService, Service!Spec, Service!vars, svars
-----------------------------------------------------------------------------
(* The order of the frames *)

\* What the client of a connection has heard and what it is about to hear, as one
\* line of frames.
Length(c) == Len(heard[c]) + Len(todo[c])
Line(c) ==
    [k \in 1..Length(c) |->
        IF k <= Len(heard[c]) THEN heard[c][k] ELSE <<taken[c], todo[c][k - Len(heard[c])]>>]

\* x is the first frame of a line when p is 0, and follows its p-th otherwise.
Fits(line, p, x) == IF p = 0 THEN x = <<1, "started">> ELSE CanFollow(line[p], x)

\* To a client that stays the line is in order, and a message is taken when the one
\* before has its last frame.
Ordered(c) ==
    /\ \A k \in 1..Length(c) : Fits(Line(c), k - 1, Line(c)[k])
    /\ pc[c] = "new" => Length(c) = 0 /\ taken[c] = 0
    /\ pc[c] = "turn" => Length(c) >= 1 /\ Line(c)[Length(c)] = <<taken[c], "started">>
    /\ pc[c] = "receive" =>
          \/ Length(c) = 0 /\ taken[c] = 0
          \/ Length(c) >= 1 /\ \E e \in Last : Line(c)[Length(c)] = <<taken[c], e>>

OrderInv == \A c \in WebSocket \cap here : Ordered(c)

\* A line that does not change stays in order.
LEMMA OrderedStays ==
  ASSUME NEW c, Ordered(c), UNCHANGED <<Length(c), Line(c), taken[c]>>,
         pc'[c] \in {pc[c], "closed"} \/ (pc[c] = "new" /\ pc'[c] = "receive")
  PROVE  Ordered(c)'
<1> DEFINE n == Length(c)
           l == Line(c)
<1>1. n' = n /\ l' = l
  OBVIOUS
<1>2. /\ \A k \in 1..n : Fits(l, k - 1, l[k])
      /\ pc[c] = "new" => n = 0 /\ taken[c] = 0
      /\ pc[c] = "turn" => n >= 1 /\ l[n] = <<taken[c], "started">>
      /\ pc[c] = "receive" => (n = 0 /\ taken[c] = 0) \/ (n >= 1 /\ \E e \in Last : l[n] = <<taken[c], e>>)
  BY DEF Ordered
<1> HIDE DEF n, l
<1>3. /\ \A k \in 1..n' : Fits(l, k - 1, l[k])'
      /\ pc'[c] = "new" => n' = 0 /\ taken'[c] = 0
      /\ pc'[c] = "turn" => n' >= 1 /\ l'[n'] = <<taken'[c], "started">>
      /\ pc'[c] = "receive" => (n' = 0 /\ taken'[c] = 0) \/ (n' >= 1 /\ \E e \in Last : l'[n'] = <<taken'[c], e>>)
  BY <1>1, <1>2 DEF Fits
<1>4. QED
  BY <1>3 DEF Ordered, n, l

\* A line ends with what has been heard when nothing is left to send.
LEMMA HeardLine ==
  ASSUME TypeOK, NEW c \in Conn
  PROVE  /\ Len(heard[c]) \in Nat /\ Len(todo[c]) \in Nat
         /\ Length(c) \in Nat /\ Len(heard[c]) <= Length(c)
         /\ \A k \in 1..Len(heard[c]) : Line(c)[k] = heard[c][k]
         /\ \A j \in 1..Len(todo[c]) : Line(c)[Len(heard[c]) + j] = <<taken[c], todo[c][j]>>
         /\ todo[c] = <<>> => Length(c) = Len(heard[c])
<1> DEFINE h == Len(heard[c])
           t == Len(todo[c])
           n == Length(c)
<1>1. h \in Nat /\ t \in Nat /\ (todo[c] = <<>> => t = 0)
  BY LenProperties, EmptySeq DEF TypeOK
<1>2. n = h + t
  BY DEF Length
<1>3. \A k \in 1..n : Line(c)[k] = IF k <= h THEN heard[c][k] ELSE <<taken[c], todo[c][k - h]>>
  BY DEF Line
<1> HIDE DEF h, t, n
<1>4. ASSUME NEW j \in 1..t PROVE Line(c)[h + j] = <<taken[c], todo[c][j]>>
  <2>1. h + j \in 1..n /\ ~(h + j <= h) /\ (h + j) - h = j
    BY <1>1, <1>2
  <2>2. QED
    BY <1>3, <2>1
<1>5. ASSUME NEW k \in 1..h PROVE Line(c)[k] = heard[c][k]
  <2>1. k \in 1..n /\ k <= h
    BY <1>1, <1>2
  <2>2. QED
    BY <1>3, <2>1
<1>6. n \in Nat /\ h <= n /\ (todo[c] = <<>> => n = h)
  BY <1>1, <1>2
<1>7. QED
  BY <1>1, <1>4, <1>5, <1>6 DEF h, t, n

\* A closed connection has nothing to send.
LEMMA OrderedClosed ==
  ASSUME TypeOK, NEW c \in Conn, Ordered(c), heard'[c] = heard[c], pc'[c] = "closed", todo'[c] = <<>>
  PROVE  Ordered(c)'
<1> DEFINE h == Len(heard[c])
<1>1. h \in Nat /\ h <= Length(c) /\ Length(c) \in Nat /\ \A k \in 1..h : Line(c)[k] = heard[c][k]
  BY HeardLine
<1>2. Length(c)' = h /\ \A k \in 1..h : Line(c)'[k] = heard[c][k]
  <2>1. Len(todo'[c]) = 0
    BY EmptySeq
  <2>2. Length(c)' = h
    BY <1>1, <2>1 DEF Length
  <2>3. QED
    BY <1>1, <2>2 DEF Line
<1>3. PICK l, m : l = Line(c) /\ m = Line(c)'
  OBVIOUS
<1> HIDE DEF h
<1>4. \A k \in 1..h : Fits(l, k - 1, l[k])
  BY <1>1, <1>3 DEF Ordered
<1>5. \A k \in 1..h : Fits(m, k - 1, m[k])
  BY <1>1, <1>2, <1>3, <1>4 DEF Fits
<1>6. \A k \in 1..Length(c)' : Fits(Line(c)', k - 1, Line(c)'[k])
  BY <1>2, <1>3, <1>5
<1>7. QED
  BY <1>6 DEF Ordered, Fits

\* Frames of a message that fit the line and one another are added to it.
LEMMA Extended ==
  ASSUME TypeOK, NEW c \in Conn, Ordered(c), todo[c] = <<>>, heard'[c] = heard[c],
         NEW s, Len(s) \in Nat, Len(s) >= 1, todo'[c] = s, NEW i, taken'[c] = i,
         Fits(Line(c), Length(c), <<i, s[1]>>),
         \A k \in 2..Len(s) : s[k] \in After(s[k - 1])
  PROVE  /\ (\A k \in 1..Length(c) : Fits(Line(c), k - 1, Line(c)[k]))'
         /\ Length(c)' >= 1 /\ Line(c)'[Length(c)'] = <<i, s[Len(s)]>>
<1> DEFINE h == Len(heard[c])
<1>1. h \in Nat /\ Length(c) = h /\ \A k \in 1..h : Line(c)[k] = heard[c][k]
  BY HeardLine
<1>2. Length(c)' = h + Len(s)
  BY <1>1 DEF Length
<1>3. \A k \in 1..h : Line(c)'[k] = heard[c][k]
  BY <1>1, <1>2 DEF Line
<1>4. ASSUME NEW j \in 1..Len(s) PROVE Line(c)'[h + j] = <<i, s[j]>>
  <2>1. h + j \in 1..(h + Len(s)) /\ ~(h + j <= h) /\ (h + j) - h = j
    BY <1>1
  <2>2. QED
    BY <1>2, <2>1 DEF Line
<1>5. PICK l, m : l = Line(c) /\ m = Line(c)'
  OBVIOUS
<1> HIDE DEF h
<1>6. /\ \A k \in 1..h : Fits(l, k - 1, l[k])
      /\ \A k \in 1..h : m[k] = l[k]
      /\ \A j \in 1..Len(s) : m[h + j] = <<i, s[j]>>
      /\ Fits(l, h, <<i, s[1]>>)
  BY <1>1, <1>3, <1>4, <1>5 DEF Ordered
<1>7. ASSUME NEW k \in 1..(h + Len(s)) PROVE Fits(m, k - 1, m[k])
  <2>1. CASE k <= h
    <3>1. Fits(l, k - 1, l[k]) /\ m[k] = l[k]
      BY <1>6, <2>1
    <3>2. k # 1 => m[k - 1] = l[k - 1]
      BY <1>1, <1>6, <2>1
    <3>3. QED
      BY <3>1, <3>2 DEF Fits
  <2>2. CASE k = h + 1
    <3>1. m[k] = <<i, s[1]>> /\ k - 1 = h
      BY <1>1, <1>6, <2>2
    <3>2. h # 0 => m[h] = l[h]
      BY <1>1, <1>6
    <3>3. QED
      BY <1>6, <3>1, <3>2 DEF Fits
  <2>3. CASE k > h + 1
    <3>1. PICK j \in 2..Len(s) : k = h + j
      <4>1. k - h \in 2..Len(s) /\ k = h + (k - h)
        BY <1>1, <2>3
      <4>2. QED
        BY <4>1
    <3>2. m[k] = <<i, s[j]>> /\ m[k - 1] = <<i, s[j - 1]>> /\ k - 1 # 0
      <4>1. j - 1 \in 1..Len(s) /\ j \in 1..Len(s) /\ k - 1 = h + (j - 1) /\ k - 1 # 0
        BY <1>1, <3>1
      <4>2. QED
        BY <1>6, <3>1, <4>1
    <3>3. QED
      BY <3>1, <3>2 DEF Fits, CanFollow
  <2>4. QED
    BY <1>1, <2>1, <2>2, <2>3
<1>8. m[h + Len(s)] = <<i, s[Len(s)]>> /\ h + Len(s) >= 1
  BY <1>1, <1>6
<1>9. \A k \in 1..Length(c)' : Fits(Line(c)', k - 1, Line(c)'[k])
  BY <1>2, <1>5, <1>7
<1>10. QED
  BY <1>2, <1>5, <1>8, <1>9 DEF Fits

\* The first frame of a message that was just taken.
LEMMA OrderedReceive ==
  ASSUME IInv, NEW c \in WebSocket, Ordered(c), Receive(c)
  PROVE  Ordered(c)'
<1> DEFINE s == <<"started">>
<1>1. /\ TypeOK /\ c \in Conn /\ taken[c] \in Nat /\ pc[c] = "receive" /\ todo[c] = <<>> /\ heard'[c] = heard[c]
      /\ taken'[c] = taken[c] + 1 /\ todo'[c] = s /\ pc'[c] = "turn"
  BY DEF Receive, IInv, TypeOK
<1>2. Len(s) = 1 /\ s[1] = "started" /\ s[Len(s)] = "started" /\ 2..Len(s) = {}
  OBVIOUS
<1> HIDE DEF s
<1>3. Fits(Line(c), Length(c), <<taken[c] + 1, s[1]>>)
  <2>1. CASE Length(c) = 0 /\ taken[c] = 0
    BY <1>2, <2>1 DEF Fits
  <2>2. ASSUME Length(c) >= 1, NEW e \in Last, Line(c)[Length(c)] = <<taken[c], e>>
        PROVE  Fits(Line(c), Length(c), <<taken[c] + 1, s[1]>>)
    <3>1. Length(c) # 0
      BY <1>1, <2>2, HeardLine
    <3>2. QED
      BY <1>2, <2>2, <3>1 DEF Fits, CanFollow
  <2>3. QED
    BY <1>1, <2>1, <2>2 DEF Ordered
<1>4. /\ (\A k \in 1..Length(c) : Fits(Line(c), k - 1, Line(c)[k]))'
      /\ Length(c)' >= 1 /\ Line(c)'[Length(c)'] = <<taken[c] + 1, s[Len(s)]>>
  BY <1>1, <1>2, <1>3, Extended
<1>5. QED
  BY <1>1, <1>2, <1>4 DEF Ordered

\* A turn ends with frames that fit one another and "started".
LEMMA OrderedEnd ==
  ASSUME IInv, NEW c \in WebSocket, Ordered(c), FinishTurn(c) \/ FailTurn(c)
  PROVE  Ordered(c)'
<1>1. /\ TypeOK /\ c \in Conn /\ pc[c] = "turn" /\ todo[c] = <<>> /\ heard'[c] = heard[c]
      /\ taken'[c] = taken[c] /\ pc'[c] = "receive"
  BY DEF FinishTurn, FailTurn, IInv, TypeOK
<1>2. /\ Len(todo'[c]) \in Nat /\ Len(todo'[c]) >= 1
      /\ todo'[c][1] \in After("started") /\ todo'[c][Len(todo'[c])] \in Last
      /\ \A k \in 2..Len(todo'[c]) : todo'[c][k] \in After(todo'[c][k - 1])
  <2>1. CASE FailTurn(c)
    <3>1. todo'[c] = <<"error">>
      BY <1>1, <2>1 DEF FailTurn, TypeOK
    <3>2. Len(todo'[c]) = 1 /\ todo'[c][1] = "error" /\ 2..Len(todo'[c]) = {}
      BY <3>1
    <3>3. QED
      BY <3>2 DEF After, Last
  <2>2. CASE FinishTurn(c)
    <3>1. PICK n \in 0..MaxTools, handoff \in BOOLEAN : todo'[c] = AnswerFrames(c, n, handoff)
      BY <1>1, <2>2 DEF FinishTurn, TypeOK
    <3>2. n \in Nat /\ AnswerOf(todo'[c], n)
      BY <3>1, AnswerFramesAnswer
    <3>3. QED
      BY <3>2, AnswerIsInOrder
  <2>3. QED
    BY <2>1, <2>2
<1>3. PICK s, i : s = todo'[c] /\ i = taken[c]
  OBVIOUS
<1>4. Fits(Line(c), Length(c), <<i, s[1]>>)
  <2>1. Line(c)[Length(c)] = <<taken[c], "started">> /\ Length(c) # 0
    BY <1>1, HeardLine DEF Ordered
  <2>2. QED
    BY <1>2, <1>3, <2>1 DEF Fits, CanFollow
<1>5. /\ (\A k \in 1..Length(c) : Fits(Line(c), k - 1, Line(c)[k]))'
      /\ Length(c)' >= 1 /\ Line(c)'[Length(c)'] = <<i, s[Len(s)]>>
  BY <1>1, <1>2, <1>3, <1>4, Extended
<1>6. QED
  BY <1>1, <1>2, <1>3, <1>5 DEF Ordered

\* The next frame has been heard: the line is the one before.
LEMMA DeliverLine ==
  ASSUME IInv, NEW c \in Conn, c \in here, Deliver(c)
  PROVE  /\ Length(c)' = Length(c) /\ Line(c)' = Line(c)
         /\ Len(heard'[c]) \in Nat /\ Len(heard'[c]) <= Length(c)
         /\ \A k \in 1..Len(heard'[c]) : heard'[c][k] = Line(c)[k]
<1> DEFINE h == Len(heard[c])
           t == Len(todo[c])
           f == <<taken[c], Head(todo[c])>>
<1>0. TypeOK
  BY DEF IInv
<1>1. /\ todo[c] \in Seq(Event) /\ todo[c] # <<>> /\ todo'[c] = Tail(todo[c])
      /\ taken'[c] = taken[c] /\ heard'[c] = Append(heard[c], f) /\ heard[c] \in Seq(Frame)
  BY <1>0 DEF Deliver, TypeOK
<1>2. /\ t \in Nat /\ t >= 1 /\ Len(todo'[c]) = t - 1
      /\ \A k \in 1..(t - 1) : todo'[c][k] = todo[c][k + 1]
      /\ Head(todo[c]) = todo[c][1]
  BY <1>1, HeadTailProperties, LenProperties, EmptySeq
<1>3. /\ h \in Nat /\ Len(heard'[c]) = h + 1 /\ heard'[c][h + 1] = f
      /\ \A k \in 1..h : heard'[c][k] = heard[c][k]
  <2> HIDE DEF f
  <2>1. QED
    BY <1>1
<1>4. Length(c) = h + t /\ Length(c)' = h + t
  <2>1. Length(c) = h + t /\ Length(c)' = Len(heard'[c]) + Len(todo'[c])
    BY DEF Length
  <2> HIDE DEF h, t
  <2>2. QED
    BY <1>2, <1>3, <2>1
<1>5. ASSUME NEW k \in 1..(h + t) PROVE Line(c)'[k] = Line(c)[k]
  <2>1. Line(c)[k] = IF k <= h THEN heard[c][k] ELSE <<taken[c], todo[c][k - h]>>
    BY <1>4 DEF Line
  <2>2. Line(c)'[k] = IF k <= h + 1 THEN heard'[c][k] ELSE <<taken[c], todo'[c][k - (h + 1)]>>
    BY <1>1, <1>3, <1>4 DEF Line
  <2>3. CASE k <= h
    BY <1>3, <2>1, <2>2, <2>3
  <2>4. CASE k = h + 1
    <3>1. Line(c)'[k] = f
      BY <1>3, <2>2, <2>4
    <3>2. k - h = 1 /\ ~(k <= h)
      BY <1>3, <2>4
    <3>3. QED
      BY <1>2, <2>1, <3>1, <3>2
  <2>5. CASE k > h + 1
    <3>1. k - (h + 1) \in 1..(t - 1) /\ (k - (h + 1)) + 1 = k - h
      <4> HIDE DEF h, t
      <4>1. QED
        BY <1>2, <1>3, <2>5
    <3>2. todo'[c][k - (h + 1)] = todo[c][k - h]
      BY <1>2, <3>1
    <3>3. QED
      BY <1>3, <2>1, <2>2, <2>5, <3>2
  <2>6. QED
    BY <1>2, <1>3, <2>3, <2>4, <2>5
<1>6. Line(c)' = Line(c)
  <2>1. PICK l, m : l = Line(c) /\ m = Line(c)'
    OBVIOUS
  <2>2. l = [k \in 1..(h + t) |-> l[k]] /\ m = [k \in 1..(h + t) |-> m[k]]
    BY <1>4, <2>1 DEF Line
  <2>3. \A k \in 1..(h + t) : m[k] = l[k]
    BY <1>5, <2>1
  <2>4. QED
    BY <2>1, <2>2, <2>3
<1>7. ASSUME NEW k \in 1..(h + 1) PROVE heard'[c][k] = Line(c)[k]
  <2>1. k \in 1..(h + t)
    <3> HIDE DEF h, t
    <3>1. QED
      BY <1>2, <1>3
  <2>2. Line(c)'[k] = heard'[c][k]
    BY <1>3, <1>4, <2>1 DEF Line
  <2>3. QED
    BY <1>5, <2>1, <2>2
<1>8. QED
  BY <1>2, <1>3, <1>4, <1>6, <1>7

\* A connection that a step is not about keeps its order.
LEMMA OrderedOthers ==
  ASSUME IInv, NEW d \in Conn, Ordered(d), [Next]_vars,
         ~Restart, ~Serve(d)
  PROVE  Ordered(d)' /\ heard'[d] = heard[d]
<1>0. TypeOK
  BY DEF IInv
<1>1. pc'[d] = pc[d] /\ taken'[d] = taken[d] /\ todo'[d] = todo[d] /\ heard'[d] = heard[d]
  <2>1. CASE UNCHANGED vars
    BY <2>1 DEF vars
  <2>2. ASSUME NEW c \in Conn, Send(c) \/ Leave(c) PROVE UNCHANGED <<pc, taken, todo, heard>>
    BY <2>2 DEF Send, Leave
  <2>3. ASSUME NEW c \in Conn, Serve(c)
        PROVE  pc'[d] = pc[d] /\ taken'[d] = taken[d] /\ todo'[d] = todo[d] /\ heard'[d] = heard[d]
    <3>1. c # d
      BY <2>3
    <3>2. QED
      BY <1>0, <2>3, <3>1 DEF Serve, Accept, Reject, Receive, ReceiveGarbled, FinishTurn, FailTurn,
                              Deliver, Notice, Close, client, TypeOK
  <2>4. QED
    BY <2>1, <2>2, <2>3 DEF Next
<1>2. Length(d)' = Length(d)
  BY <1>1 DEF Length
<1>3. Line(d)' = Line(d)
  BY <1>1, <1>2 DEF Line
<1>4. QED
  BY <1>1, <1>2, <1>3, OrderedStays

\* Every step keeps the order of a WebSocket whose client is there, and of what the
\* client has heard.
LEMMA OrderedStep ==
  ASSUME IInv, [Next]_vars, NEW d \in WebSocket, d \in here, Ordered(d)
  PROVE  Ordered(d)' /\ (heard'[d] = heard[d] \/ InProtocol(heard'[d]))
<1>0. TypeOK /\ d \in Conn
  BY DEF IInv
<1>1. CASE Restart
  BY <1>0, <1>1, OrderedClosed DEF Restart
<1>2. CASE Accept(d)
  <2>1. UNCHANGED <<taken, todo, heard>> /\ pc[d] = "new" /\ pc'[d] = "receive"
    BY <1>0, <1>2 DEF Accept, TypeOK
  <2>2. Length(d)' = Length(d) /\ Line(d)' = Line(d)
    BY <2>1 DEF Length, Line
  <2>3. Ordered(d)'
    <3>1. PICK n, l : n = Length(d) /\ l = Line(d)
      OBVIOUS
    <3>2. /\ \A k \in 1..n : Fits(l, k - 1, l[k])
          /\ n = 0 /\ taken[d] = 0
      BY <2>1, <3>1 DEF Ordered
    <3>3. n = Length(d)' /\ l = Line(d)' /\ taken'[d] = 0 /\ pc'[d] = "receive"
      BY <2>1, <2>2, <3>1, <3>2
    <3>4. QED
      BY <3>2, <3>3 DEF Ordered, Fits
  <2>4. QED
    BY <2>1, <2>3
<1>3. CASE Reject(d) \/ ReceiveGarbled(d) \/ Notice(d)
  <2>1. UNCHANGED heard /\ pc'[d] = "closed" /\ todo'[d] = <<>>
    BY <1>0, <1>3 DEF Reject, ReceiveGarbled, Notice, Close, TypeOK
  <2>2. QED
    BY <1>0, <2>1, OrderedClosed
<1>4. CASE Receive(d) \/ FinishTurn(d) \/ FailTurn(d)
  <2>1. heard'[d] = heard[d]
    BY <1>4 DEF Receive, FinishTurn, FailTurn
  <2>2. QED
    BY <1>4, <2>1, OrderedReceive, OrderedEnd
<1>5. CASE Deliver(d)
  <2>1. /\ Length(d)' = Length(d) /\ Line(d)' = Line(d)
        /\ Len(heard'[d]) \in Nat /\ Len(heard'[d]) <= Length(d)
        /\ \A k \in 1..Len(heard'[d]) : heard'[d][k] = Line(d)[k]
    BY <1>0, <1>5, DeliverLine
  <2>2. UNCHANGED <<taken, pc>>
    BY <1>5 DEF Deliver
  <2>3. Ordered(d)'
    BY <2>1, <2>2, OrderedStays
  <2>4. InProtocol(heard'[d])
    <3>1. PICK g, l, n : g = heard'[d] /\ l = Line(d) /\ n = Length(d)
      OBVIOUS
    <3>2. n \in Nat /\ Len(g) \in Nat /\ Len(g) <= n /\ \A k \in 1..Len(g) : g[k] = l[k]
      BY <1>0, <2>1, <3>1, HeardLine
    <3>3. \A k \in 1..n : Fits(l, k - 1, l[k])
      BY <3>1 DEF Ordered
    <3>4. ASSUME NEW k \in 1..Len(g)
          PROVE  IF k = 1 THEN g[k] = <<1, "started">> ELSE CanFollow(g[k - 1], g[k])
      <4>1. k \in 1..n /\ (k - 1 = 0 <=> k = 1) /\ (k # 1 => k - 1 \in 1..Len(g))
        BY <3>2
      <4>2. QED
        BY <3>2, <3>3, <4>1 DEF Fits
    <3>5. QED
      BY <3>1, <3>4 DEF InProtocol
  <2>5. QED
    BY <2>3, <2>4
<1>6. CASE ~Restart /\ ~Serve(d)
  BY <1>0, <1>6, OrderedOthers
<1>7. QED
  BY <1>1, <1>2, <1>3, <1>4, <1>5, <1>6 DEF Serve

\* No frame has been sent and no message taken.
LEMMA OrderInitially == Init => OrderInv /\ FramesInOrder
<1> SUFFICES ASSUME Init PROVE OrderInv /\ FramesInOrder
  OBVIOUS
<1>1. \A c \in Conn : /\ Len(todo[c]) = 0 /\ Len(heard[c]) = 0 /\ taken[c] = 0
                      /\ pc[c] \in {"new", "receive"}
  BY EmptySeq DEF Init
<1>2. ASSUME NEW c \in Conn PROVE Ordered(c)
  <2>1. Length(c) = 0
    <3>1. Length(c) = Len(heard[c])
      BY Initially, HeardLine DEF IInv, Init
    <3>2. QED
      BY <1>1, <3>1
  <2>2. 1..Length(c) = {} /\ taken[c] = 0 /\ pc[c] \in {"new", "receive"}
    BY <1>1, <2>1
  <2>3. QED
    BY <2>1, <2>2 DEF Ordered
<1>3. \A c \in Conn : 1..Len(heard[c]) = {}
  BY <1>1
<1>4. QED
  BY <1>2, <1>3 DEF OrderInv, FramesInOrder, InProtocol

\* Every step keeps the order, heard or still to be heard: clients do not come back,
\* and those that have left hear nothing more.
LEMMA OrderStep == IInv /\ OrderInv /\ FramesInOrder /\ [Next]_vars => (OrderInv /\ FramesInOrder)'
<1> SUFFICES ASSUME IInv, OrderInv, FramesInOrder, [Next]_vars PROVE OrderInv' /\ FramesInOrder'
  OBVIOUS
<1>0. TypeOK
  BY DEF IInv
<1>1. here' \subseteq here
  BY DEF Next, Send, Leave, Serve, Accept, Reject, Receive, ReceiveGarbled, FinishTurn, FailTurn,
         Deliver, Notice, Restart, vars, client
<1>2. ASSUME NEW c \in WebSocket, c \in here
      PROVE  Ordered(c)' /\ (heard'[c] = heard[c] \/ InProtocol(heard'[c]))
  BY <1>2, OrderedStep DEF OrderInv
<1>3. ASSUME NEW c \in WebSocket, c \notin here PROVE heard'[c] = heard[c]
  <2>1. ASSUME NEW d \in Conn, Deliver(d) PROVE heard'[c] = heard[c]
    BY <1>0, <1>3, <2>1 DEF Deliver, TypeOK
  <2>2. heard' = heard \/ \E d \in Conn : Deliver(d)
    BY DEF Next, Send, Leave, Serve, Accept, Reject, Receive, ReceiveGarbled, FinishTurn, FailTurn,
           Notice, Restart, vars, client
  <2>3. QED
    BY <2>1, <2>2
<1>4. OrderInv'
  BY <1>1, <1>2 DEF OrderInv
<1>5. ASSUME NEW c \in WebSocket PROVE InProtocol(heard[c])'
  <2>1. InProtocol(heard[c])
    BY DEF FramesInOrder
  <2>2. heard'[c] = heard[c] \/ InProtocol(heard'[c])
    BY <1>2, <1>3
  <2>3. QED
    BY <2>1, <2>2 DEF InProtocol, CanFollow
<1>6. QED
  BY <1>4, <1>5 DEF FramesInOrder

\* What a client hears is in order, for any number of connections, messages and
\* tools, and whenever clients leave and servers restart.
THEOREM FramesAreInOrder == Spec => []FramesInOrder
<1>1. /\ Init => OrderInv /\ FramesInOrder
      /\ IInv /\ OrderInv /\ FramesInOrder /\ [Next]_vars => (OrderInv /\ FramesInOrder)'
  BY OrderInitially, OrderStep
<1>2. QED
  BY <1>1, Inductive, PTL DEF Spec
=============================================================================
