-------------------------- MODULE SignalingChannel --------------------------
(***************************************************************************)
(* The signalling transport of ChatApp (StdVideoChatRoom/public/js/app.js):*)
(* joinRoom opening the WebSocket, the onopen/onerror/onclose handlers     *)
(* installed by connectWebSocket, the attemptReconnect activations with    *)
(* their delay and retry timers, and leaveRoom.                            *)
(*                                                                         *)
(* Every handler runs to completion on the single browser event loop, so   *)
(* each action below is one task: an event handler together with the      *)
(* promise continuations (microtasks) that run right after it.  A task     *)
(* that ends in an await is split at the await.                            *)
(*                                                                         *)
(* Sockets are numbered in creation order.  A socket's readyState and its  *)
(* queued events are folded into one value:                                *)
(*   "connecting"   CONNECTING, handshake in progress                      *)
(*   "open"         OPEN                                                   *)
(*   "errorPending" the connection failed: an error event, then a close    *)
(*                  event, are queued                                      *)
(*   "closePending" a close event is queued                                *)
(*   "closed"       CLOSED, all events delivered                           *)
(*                                                                         *)
(* A suspended attemptReconnect activation is either waiting for its delay *)
(* timer, waiting for its 1000 ms retry timer, or awaiting the socket it   *)
(* created.  Activations carry no other state, so the first two kinds are  *)
(* counted, and the third is recorded as the awaiter of its socket.        *)
(***************************************************************************)
EXTENDS Integers, FiniteSets

CONSTANTS
  MaxReconnectAttempts, \* this.maxReconnectAttempts (app.js:14)
  MaxSockets,           \* bound on WebSocket objects created in one run
  MaxFaults             \* bound on network faults: failed handshakes, drops

ASSUME MaxReconnectAttempts \in Nat \ {0}
ASSUME MaxSockets \in Nat \ {0}
ASSUME MaxFaults \in Nat

Sockets  == 1..MaxSockets
NoSocket == 0                  \* this.ws = null

\* Who awaits the connectWebSocket() promise of a socket.
Awaiters == {"none", "joinRoom", "reconnect"}

SockStates == {"none", "connecting", "open", "errorPending", "closePending", "closed"}

VARIABLES
  started,            \* joinRoom has run (the global app exists)
  currentRoom,        \* this.currentRoom # null
  isLeaving,          \* this.isLeaving
  ws,                 \* this.ws: a socket number or NoSocket
  reconnectAttempts,  \* this.reconnectAttempts
  sock,               \* readyState and queued events of every socket
  awaiter,            \* who awaits each socket's connectWebSocket promise
  delaying,           \* attemptReconnect activations awaiting the delay
  retrying,           \* failed activations whose retry timer is armed
  joined,             \* sockets on which join_room was sent
  terminal,           \* a "refresh the page" error has been shown
  faults              \* network faults so far (environment)

vars == <<started, currentRoom, isLeaving, ws, reconnectAttempts, sock,
          awaiter, delaying, retrying, joined, terminal, faults>>

TypeOK ==
  /\ started \in BOOLEAN
  /\ currentRoom \in BOOLEAN
  /\ isLeaving \in BOOLEAN
  /\ ws \in Sockets \cup {NoSocket}
  /\ reconnectAttempts \in Nat
  /\ sock \in [Sockets -> SockStates]
  /\ awaiter \in [Sockets -> Awaiters]
  /\ delaying \in Nat
  /\ retrying \in Nat
  /\ joined \subseteq Sockets
  /\ terminal \in BOOLEAN
  /\ faults \in 0..MaxFaults

-----------------------------------------------------------------------------
(* Helpers                                                                 *)

\* Number of sockets created so far; new WebSocket(...) gets the next one.
Created == Cardinality({s \in Sockets : sock[s] # "none"})
CanCreateSocket == Created < MaxSockets
FreshSocket == Created + 1

\* ws.close() on socket s: an open socket queues a close event; a
\* connecting one fails, which queues an error and then a close event.
CloseOn(sk, s) ==
  CASE s = NoSocket           -> sk
    [] sk[s] = "open"        -> [sk EXCEPT ![s] = "closePending"]
    [] sk[s] = "connecting"  -> [sk EXCEPT ![s] = "errorPending"]
    [] OTHER                 -> sk

\* sendMessage({type:'join_room'}): sent only if this.ws is OPEN.
SendJoin(sk) == IF ws # NoSocket /\ sk[ws] = "open" THEN joined \cup {ws} ELSE joined

\* The synchronous part of attemptReconnect(), up to the await of its delay
\* timer, on socket states sk: count the attempt, close and forget this.ws.
AttemptReconnect(sk) ==
  /\ reconnectAttempts' = reconnectAttempts + 1
  /\ sock' = CloseOn(sk, ws)
  /\ ws' = NoSocket
  /\ delaying' = delaying + 1

-----------------------------------------------------------------------------
(* Actions                                                                 *)

\* joinRoom(): a new ChatApp with currentRoom set and media acquired; then
\* connectWebSocket() assigns the first socket to this.ws and awaits it.
JoinRoom ==
  /\ ~started
  /\ started' = TRUE
  /\ currentRoom' = TRUE
  /\ sock' = [sock EXCEPT ![FreshSocket] = "connecting"]
  /\ ws' = FreshSocket
  /\ awaiter' = [awaiter EXCEPT ![FreshSocket] = "joinRoom"]
  /\ UNCHANGED <<isLeaving, reconnectAttempts, delaying, retrying, joined,
                 terminal, faults>>

\* Mutant of SocketOpen: the resumed attemptReconnect sends join_room
\* without checking that the app still has a room.
SocketOpenNoRoomCheck(s) ==
  /\ sock[s] = "connecting"
  /\ sock' = [sock EXCEPT ![s] = "open"]
  /\ reconnectAttempts' = 0
  /\ joined' = SendJoin(sock')
  /\ UNCHANGED <<started, currentRoom, isLeaving, ws, awaiter, delaying,
                 retrying, terminal, faults>>

\* ws.onopen: reset the attempt counter and resolve.  The awaiting joinRoom
\* sends join_room; an awaiting attemptReconnect sends join_room if the app
\* still has a room, reports success and ends.  Both send on this.ws.
SocketOpen(s) ==
  /\ sock[s] = "connecting"
  /\ sock' = [sock EXCEPT ![s] = "open"]
  /\ reconnectAttempts' = 0
  /\ joined' = IF awaiter[s] = "joinRoom" \/ currentRoom THEN SendJoin(sock') ELSE joined
  /\ UNCHANGED <<started, currentRoom, isLeaving, ws, awaiter, delaying,
                 retrying, terminal, faults>>

\* The handshake of a connecting socket fails (network or server refusal).
SocketFail(s) ==
  /\ sock[s] = "connecting"
  /\ faults < MaxFaults
  /\ faults' = faults + 1
  /\ sock' = [sock EXCEPT ![s] = "errorPending"]
  /\ UNCHANGED <<started, currentRoom, isLeaving, ws, reconnectAttempts,
                 awaiter, delaying, retrying, joined, terminal>>

\* An open socket is closed by the network or the server.
SocketDrop(s) ==
  /\ sock[s] = "open"
  /\ faults < MaxFaults
  /\ faults' = faults + 1
  /\ sock' = [sock EXCEPT ![s] = "closePending"]
  /\ UNCHANGED <<started, currentRoom, isLeaving, ws, reconnectAttempts,
                 awaiter, delaying, retrying, joined, terminal>>

\* ws.onerror: reject the connectWebSocket promise.  joinRoom's catch only
\* alerts; attemptReconnect's catch shows the terminal error once the
\* attempts are used up and otherwise arms the 1000 ms retry timer.
DeliverError(s) ==
  /\ sock[s] = "errorPending"
  /\ sock' = [sock EXCEPT ![s] = "closePending"]
  /\ IF awaiter[s] = "reconnect"
       THEN IF reconnectAttempts >= MaxReconnectAttempts
              THEN /\ terminal' = TRUE
                   /\ UNCHANGED retrying
              ELSE /\ retrying' = retrying + 1
                   /\ UNCHANGED terminal
       ELSE UNCHANGED <<retrying, terminal>>
  /\ UNCHANGED <<started, currentRoom, isLeaving, ws, reconnectAttempts,
                 awaiter, delaying, joined, faults>>

\* ws.onclose: while in a room and not leaving, call attemptReconnect() if
\* attempts remain, otherwise alert that the connection is lost.
DeliverClose(s) ==
  /\ sock[s] = "closePending"
  /\ IF ~isLeaving /\ currentRoom /\ reconnectAttempts < MaxReconnectAttempts
       THEN /\ AttemptReconnect([sock EXCEPT ![s] = "closed"])
            /\ UNCHANGED terminal
       ELSE /\ sock' = [sock EXCEPT ![s] = "closed"]
            /\ terminal' = (terminal \/ (~isLeaving /\ currentRoom))
            /\ UNCHANGED <<reconnectAttempts, ws, delaying>>
  /\ UNCHANGED <<started, currentRoom, isLeaving, awaiter, retrying, joined, faults>>

\* A reconnect delay elapses: connectWebSocket() assigns a new socket to
\* this.ws (whatever this.ws was) and the activation awaits it.
ReconnectDelayDone ==
  /\ delaying > 0
  /\ CanCreateSocket
  /\ delaying' = delaying - 1
  /\ sock' = [sock EXCEPT ![FreshSocket] = "connecting"]
  /\ ws' = FreshSocket
  /\ awaiter' = [awaiter EXCEPT ![FreshSocket] = "reconnect"]
  /\ UNCHANGED <<started, currentRoom, isLeaving, reconnectAttempts,
                 retrying, joined, terminal, faults>>

\* A retry timer armed by a failed attempt calls attemptReconnect().
RetryTimerFires ==
  /\ retrying > 0
  /\ retrying' = retrying - 1
  /\ AttemptReconnect(sock)
  /\ UNCHANGED <<started, currentRoom, isLeaving, awaiter, joined, terminal, faults>>

\* leaveRoom(): set isLeaving, send leave_room, clear the room, close and
\* forget this.ws; the global app becomes null, so this runs once.
LeaveRoom ==
  /\ started /\ ~isLeaving
  /\ isLeaving' = TRUE
  /\ currentRoom' = FALSE
  /\ sock' = CloseOn(sock, ws)
  /\ ws' = NoSocket
  /\ UNCHANGED <<started, reconnectAttempts, awaiter, delaying, retrying,
                 joined, terminal, faults>>

Next ==
  \/ JoinRoom
  \/ LeaveRoom
  \/ \E s \in Sockets :
       \/ SocketOpen(s) \/ SocketFail(s) \/ SocketDrop(s)
       \/ DeliverError(s) \/ DeliverClose(s)
  \/ ReconnectDelayDone
  \/ RetryTimerFires

Init ==
  /\ started = FALSE
  /\ currentRoom = FALSE
  /\ isLeaving = FALSE
  /\ ws = NoSocket
  /\ reconnectAttempts = 0
  /\ sock = [s \in Sockets |-> "none"]
  /\ awaiter = [s \in Sockets |-> "none"]
  /\ delaying = 0
  /\ retrying = 0
  /\ joined = {}
  /\ terminal = FALSE
  /\ faults = 0

Spec == Init /\ [][Next]_vars

-----------------------------------------------------------------------------
(* Properties                                                              *)

\* The connections the server counts as this client's room members.
Member == {s \in joined : sock[s] = "open"}

\* After leaveRoom no join_room is sent on any socket: an attemptReconnect
\* that was suspended in its delay when the user left must not rejoin the
\* room when its new socket opens (the currentRoom check after connecting).
NoJoinAfterLeave == [][isLeaving => Member' \subseteq Member]_vars

\* leaveRoom disables all retries regardless of in-flight attempts: no
\* socket is created after the user left.
NoConnectAfterLeave ==
  [][isLeaving => \A s \in Sockets : sock[s] = "none" => sock'[s] = "none"]_vars

=============================================================================
