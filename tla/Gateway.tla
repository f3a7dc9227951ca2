------------------------------ MODULE Gateway -------------------------------
(***************************************************************************)
(* The two ways a message reaches the orchestrator and its answer comes    *)
(* back: the WebSocket loop of app/chat/gateway.py, which handles the      *)
(* messages of a connection one after the other and sends a frame for each *)
(* stage, and the HTTP endpoint send_message of app/chat/router.py, a      *)
(* connection for one message and one response.  A turn is one step here   *)
(* (ChatTurn and ChatSession look inside): its transaction is committed,   *)
(* or an exception leaves it and it is rolled back.                        *)
(***************************************************************************)
EXTENDS Naturals, Sequences, FiniteSets

CONSTANTS Conn,         \* connections
          WebSocket,    \* those of them that are WebSockets
          MaxMessages,  \* bound on the messages of a WebSocket
          MaxTools      \* bound on the tools of a turn

ASSUME GatewayAssumption ==
    /\ WebSocket \subseteq Conn
    /\ MaxMessages \in Nat \ {0}
    /\ MaxTools \in Nat

\* The frames of a WebSocket; a response is "completed" or "error".
Event == {"started", "error", "toolStarted", "toolCompleted", "token", "completed", "handoff"}

\* A frame, and which message of its connection it is of.
Frame == (1..MaxMessages) \X Event

\* The i-th message of a connection.
Request == Conn \X (1..MaxMessages)

VARIABLES
    pc,         \* "new", "receive", "turn" or "closed", per connection
    here,       \* the connections whose client is there
    sent,       \* how many messages the client has sent ...
    garbled,    \* ... which of them are not JSON ...
    taken,      \* ... and how many the server has received
    todo,       \* the frames the server is about to send
    heard,      \* what the client has received: the frames and the messages they are of
    stored      \* the messages whose turn is committed

vars == <<pc, here, sent, garbled, taken, todo, heard, stored>>
client == <<here, sent, garbled>>

Init ==
    /\ pc = [c \in Conn |-> IF c \in WebSocket THEN "new" ELSE "receive"]
    /\ here = Conn
    /\ sent = [c \in Conn |-> 0]
    /\ garbled = {}
    /\ taken = [c \in Conn |-> 0]
    /\ todo = [c \in Conn |-> <<>>]
    /\ heard = [c \in Conn |-> <<>>]
    /\ stored = {}

Current(c) == <<c, taken[c]>>
-----------------------------------------------------------------------------
(* The client *)

\* It sends a message, and does not wait for the answer to the one before.
Send(c) ==
    /\ c \in here /\ pc[c] \notin {"new", "closed"}
    /\ sent[c] < IF c \in WebSocket THEN MaxMessages ELSE 1
    /\ sent' = [sent EXCEPT ![c] = @ + 1]
    /\ garbled' \in {garbled} \cup IF c \in WebSocket THEN {garbled \cup {<<c, sent[c] + 1>>}} ELSE {}
    /\ UNCHANGED <<pc, here, taken, todo, heard, stored>>

\* It goes away, which the server notices later, if at all.
Leave(c) ==
    /\ here' = here \ {c}
    /\ UNCHANGED <<pc, sent, garbled, taken, todo, heard, stored>>
-----------------------------------------------------------------------------
(* The server *)

\* _authenticate_ws accepts the token ...
Accept(c) ==
    /\ pc[c] = "new"
    /\ pc' = [pc EXCEPT ![c] = "receive"]
    /\ UNCHANGED <<client, taken, todo, heard, stored>>

Close(c) ==
    /\ pc' = [pc EXCEPT ![c] = "closed"]
    /\ todo' = [todo EXCEPT ![c] = <<>>]

\* ... or the connection is closed with 4401.
Reject(c) ==
    /\ pc[c] = "new"
    /\ Close(c)
    /\ UNCHANGED <<client, taken, heard, stored>>

\* Bug of Receive: an empty queue is taken for a message.
ReceiveAnything(c) ==
    /\ pc[c] = "receive" /\ todo[c] = <<>>
    /\ taken' = [taken EXCEPT ![c] = @ + 1]
    /\ todo' = [todo EXCEPT ![c] = <<"started">>]
    /\ pc' = [pc EXCEPT ![c] = "turn"]
    /\ UNCHANGED <<client, heard, stored>>

\* receive_text: messages that have arrived come before a disconnect.
Receive(c) ==
    /\ pc[c] = "receive" /\ todo[c] = <<>>
    /\ taken[c] < sent[c]
    /\ <<c, taken[c] + 1>> \notin garbled
    /\ taken' = [taken EXCEPT ![c] = @ + 1]
    /\ todo' = [todo EXCEPT ![c] = IF c \in WebSocket THEN <<"started">> ELSE <<>>]
    /\ pc' = [pc EXCEPT ![c] = "turn"]
    /\ UNCHANGED <<client, heard, stored>>

\* json.loads raises, which nobody catches.
ReceiveGarbled(c) ==
    /\ pc[c] = "receive" /\ todo[c] = <<>>
    /\ taken[c] < sent[c]
    /\ <<c, taken[c] + 1>> \in garbled
    /\ Close(c)
    /\ UNCHANGED <<client, taken, heard, stored>>

\* n tools, a pair of frames each.
ToolFrames(n) == [k \in 1..(2 * n) |-> IF k % 2 = 1 THEN "toolStarted" ELSE "toolCompleted"]

\* Bug of AnswerFrames: the response is complete before its text is sent.
TokenLast(c, n, handoff) ==
    IF c \in WebSocket THEN ToolFrames(n) \o <<"completed", "token">> ELSE <<"completed">>

\* Bug of AnswerFrames: with a handoff the response is completed once more.
CompletedTwice(c, n, handoff) ==
    IF c \in WebSocket
    THEN ToolFrames(n) \o <<"token", "completed">> \o (IF handoff THEN <<"handoff", "completed">> ELSE <<>>)
    ELSE <<"completed">>

\* What is sent after a turn of n tools, with or without a handoff.
AnswerFrames(c, n, handoff) ==
    IF c \in WebSocket
    THEN ToolFrames(n) \o <<"token", "completed">> \o (IF handoff THEN <<"handoff">> ELSE <<>>)
    ELSE <<"completed">>

\* Bug of FinishTurn: the transaction is not committed.
FinishUncommitted(c) ==
    /\ pc[c] = "turn" /\ todo[c] = <<>>
    /\ \E n \in 0..MaxTools, handoff \in BOOLEAN :
          todo' = [todo EXCEPT ![c] = AnswerFrames(c, n, handoff)]
    /\ pc' = [pc EXCEPT ![c] = "receive"]
    /\ UNCHANGED <<client, taken, heard, stored>>

\* The turn returns and is committed.
FinishTurn(c) ==
    /\ pc[c] = "turn" /\ todo[c] = <<>>
    /\ stored' = stored \cup {Current(c)}
    /\ \E n \in 0..MaxTools, handoff \in BOOLEAN :
          todo' = [todo EXCEPT ![c] = AnswerFrames(c, n, handoff)]
    /\ pc' = [pc EXCEPT ![c] = "receive"]
    /\ UNCHANGED <<client, taken, heard>>

\* Bug of FailTurn: the exception is swallowed.
FailSilently(c) ==
    /\ pc[c] = "turn" /\ todo[c] = <<>>
    /\ pc' = [pc EXCEPT ![c] = "receive"]
    /\ UNCHANGED <<client, taken, todo, heard, stored>>

\* An exception leaves the turn or its commit (or the request is refused before
\* its turn); the session is closed without a commit.
FailTurn(c) ==
    /\ pc[c] = "turn" /\ todo[c] = <<>>
    /\ todo' = [todo EXCEPT ![c] = <<"error">>]
    /\ pc' = [pc EXCEPT ![c] = "receive"]
    /\ UNCHANGED <<client, taken, heard, stored>>

\* The next frame is sent; when the client has gone it may get lost unnoticed.
Deliver(c) ==
    /\ todo[c] # <<>>
    /\ heard' = IF c \in here
                THEN [heard EXCEPT ![c] = Append(@, <<taken[c], Head(todo[c])>>)]
                ELSE heard
    /\ todo' = [todo EXCEPT ![c] = Tail(@)]
    /\ UNCHANGED <<pc, client, taken, stored>>

\* WebSocketDisconnect, from sending or from receiving; also while the turn's
\* first frame is sent.
Notice(c) ==
    /\ c \notin here /\ pc[c] \notin {"new", "closed"}
    /\ todo[c] # <<>> \/ (pc[c] = "receive" /\ taken[c] = sent[c])
    /\ Close(c)
    /\ UNCHANGED <<client, taken, heard, stored>>

\* The server dies, or is restarted: connections break, turns are rolled back.
Restart ==
    /\ pc' = [c \in Conn |-> "closed"]
    /\ todo' = [c \in Conn |-> <<>>]
    /\ UNCHANGED <<client, taken, heard, stored>>

Serve(c) ==
    \/ Accept(c) \/ Reject(c) \/ Receive(c) \/ ReceiveGarbled(c)
    \/ FinishTurn(c) \/ FailTurn(c) \/ Deliver(c) \/ Notice(c)

Next ==
    \/ \E c \in Conn : Send(c) \/ Leave(c) \/ Serve(c)
    \/ Restart

Spec == Init /\ [][Next]_vars

\* The server goes on with every connection: turns end (their LLM and tool
\* calls have timeouts).
FairSpec == Spec /\ \A c \in Conn : WF_vars(Serve(c))
-----------------------------------------------------------------------------
\* Connections, messages and frames are well formed, and no connection is served
\* more messages than may be sent on it.
TypeOK ==
    /\ pc \in [Conn -> {"new", "receive", "turn", "closed"}]
    /\ here \subseteq Conn
    /\ sent \in [Conn -> 0..MaxMessages] /\ taken \in [Conn -> 0..MaxMessages]
    /\ garbled \subseteq Request /\ stored \subseteq Request
    /\ todo \in [Conn -> Seq(Event)]
    /\ heard \in [Conn -> Seq(Frame)]

\* The frames that may come next after one of the same message; the last three
\* may be the last.
After(e) ==
    CASE e = "started"       -> {"toolStarted", "token", "error"}
      [] e = "toolStarted"   -> {"toolCompleted"}
      [] e = "toolCompleted" -> {"toolStarted", "token"}
      [] e = "token"         -> {"completed"}
      [] e = "completed"     -> {"handoff"}
      [] OTHER               -> {}
Last == {"error", "completed", "handoff"}

CanFollow(x, y) ==
    \/ y[1] = x[1] /\ y[2] \in After(x[2])
    \/ y = <<x[1] + 1, "started">> /\ x[2] \in Last

InProtocol(frames) ==
    \A k \in 1..Len(frames) :
        IF k = 1 THEN frames[k] = <<1, "started">> ELSE CanFollow(frames[k - 1], frames[k])

\* What the client of a WebSocket hears is in order: message after message, none
\* skipped, the frames of each complete up to where the connection ended, with
\* one answer or one error, and none after the next message has begun.
FramesInOrder == \A c \in WebSocket : InProtocol(heard[c])

\* Every message the server takes is answered or refused, unless the client
\* goes away or the connection breaks.
TakenIsAnswered ==
    \A c \in Conn, i \in 1..MaxMessages :
        taken[c] >= i ~>
            \/ \E k \in 1..Len(heard[c]) : heard[c][k] \in {<<i, "error">>, <<i, "completed">>}
            \/ c \notin here \/ pc[c] = "closed"

\* How often the client has heard a frame of each message.
Times(e) ==
    [r \in Request |-> Cardinality({k \in 1..Len(heard[r[1]]) : heard[r[1]][k] = <<r[2], e>>})]

\* The chat service, as the client of either way to it sees it.
Service == INSTANCE ChatService WITH
    asked <- {r \in Request : r[2] <= taken[r[1]]},
    answers <- Times("completed"),
    refusals <- Times("error")

\* The two gateways implement the service: nothing is both refused and stored,
\* no answer is of a turn that is not stored, no message is answered twice,
\* refused twice, or both.
ImplementsChatService == Service!Spec
=============================================================================
