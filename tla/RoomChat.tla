------------------------------ MODULE RoomChat -------------------------------
(***************************************************************************)
(* The chat log of ChatApp (app.js) composed with its signalling channel.  *)
(* Every WebSocket created by connectWebSocket keeps the onmessage handler *)
(* that calls handleMessage of its ChatApp, whether or not it is still     *)
(* this.ws.  text_message (handleTextMessage) appends one entry to         *)
(* #chatMessages; message_history (handleMessageHistory) empties it and    *)
(* adds the replayed messages; leaveRoom empties it.                       *)
(*                                                                         *)
(* The server is the environment (spec 4.3): join_room on a connection is  *)
(* answered with the room's history, and a posted message is appended to   *)
(* the room log and broadcast to every member connection.  Messages are    *)
(* numbered by their position in the log, which stands for the messageId. *)
(***************************************************************************)
EXTENDS SignalingChannel, Sequences

CONSTANT MaxPosts   \* bound on messages posted to the room

ASSUME MaxPosts \in Nat \ {0}

MessageIds == 1..MaxPosts

Envelope == [type : {"text_message", "message_history"}, messages : Seq(MessageIds)]

VARIABLES
  log,       \* the room's message log kept by the server
  queue,     \* envelopes sent on each socket and not yet handled
  display    \* the messageIds shown in #chatMessages, top to bottom

chatVars == <<log, queue, display>>
allVars  == <<vars, chatVars>>

ChatTypeOK ==
  /\ TypeOK
  /\ log \in Seq(MessageIds) /\ Len(log) <= MaxPosts
  /\ queue \in [Sockets -> Seq(Envelope)]
  /\ display \in Seq(MessageIds)

-----------------------------------------------------------------------------
(* ChatApp (app.js)                                                        *)

\* addChatMessage: a new element is appended; its messageId is recorded on
\* the element but never looked up.
AddChatMessage(d, id) == Append(d, id)

\* handleMessageHistory: chatMessages.innerHTML = '' and then
\* addChatMessage for each replayed message in order.
HandleMessageHistory(msgs) == msgs

\* ws.onmessage of socket s: handleMessage of the ChatApp that created it
\* dispatches text_message and message_history.
Deliver(s) ==
  /\ sock[s] = "open" /\ queue[s] # << >>
  /\ queue' = [queue EXCEPT ![s] = Tail(@)]
  /\ LET e == Head(queue[s]) IN
       display' = IF e.type = "text_message"
                    THEN AddChatMessage(display, Head(e.messages))
                    ELSE HandleMessageHistory(e.messages)
  /\ UNCHANGED <<vars, log>>

-----------------------------------------------------------------------------
(* The server (spec 4.3)                                                   *)

\* After a step of the channel: a connection that has just sent join_room
\* is answered with the history; a connection no longer open delivers
\* nothing more.
ServerQueues ==
  [s \in Sockets |->
     IF s \in joined' \ joined
       THEN << [type |-> "message_history", messages |-> log] >>
     ELSE IF sock'[s] = "open" THEN queue[s] ELSE << >>]

\* A room user posts: the message is logged and sent to every connection
\* the server counts as a member.
Post ==
  /\ Len(log) < MaxPosts
  /\ log' = Append(log, Len(log) + 1)
  /\ queue' = [s \in Sockets |->
                 IF s \in Member
                   THEN Append(queue[s], [type |-> "text_message",
                                          messages |-> << Len(log) + 1 >>])
                   ELSE queue[s]]
  /\ UNCHANGED <<vars, display>>

-----------------------------------------------------------------------------
(* The channel's steps, with what the server queues because of them        *)

ServerStep == queue' = ServerQueues /\ UNCHANGED <<log, display>>

ChatJoinRoom            == JoinRoom /\ ServerStep
ChatSocketOpen(s)       == SocketOpen(s) /\ ServerStep
ChatSocketFail(s)       == SocketFail(s) /\ ServerStep
ChatSocketDrop(s)       == SocketDrop(s) /\ ServerStep
ChatDeliverError(s)     == DeliverError(s) /\ ServerStep
ChatDeliverClose(s)     == DeliverClose(s) /\ ServerStep
ChatReconnectDelayDone  == ReconnectDelayDone /\ ServerStep
ChatRetryTimerFires     == RetryTimerFires /\ ServerStep

\* leaveRoom also empties #chatMessages.
ChatLeaveRoom ==
  /\ LeaveRoom
  /\ queue' = ServerQueues
  /\ display' = << >>
  /\ UNCHANGED log

ChatInit ==
  /\ Init
  /\ log = << >>
  /\ queue = [s \in Sockets |-> << >>]
  /\ display = << >>

ChatNext ==
  \/ ChatJoinRoom
  \/ ChatLeaveRoom
  \/ \E s \in Sockets :
       \/ ChatSocketOpen(s) \/ ChatSocketFail(s) \/ ChatSocketDrop(s)
       \/ ChatDeliverError(s) \/ ChatDeliverClose(s)
       \/ Deliver(s)
  \/ ChatReconnectDelayDone
  \/ ChatRetryTimerFires
  \/ Post

ChatSpec == ChatInit /\ [][ChatNext]_allVars

-----------------------------------------------------------------------------
(* Properties                                                              *)

\* While L is in the room and has handled every envelope the server sent,
\* #chatMessages shows the room's log, each message once and in order: a
\* ChatMessage is deduplicated by messageId, and message_history replaces
\* the local log (spec 2 and 4.3).
ChatShowsLog ==
  (~isLeaving /\ Member # {} /\ \A s \in Sockets : queue[s] = << >>)
    => display = log

=============================================================================
