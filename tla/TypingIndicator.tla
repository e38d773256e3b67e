--------------------------- MODULE TypingIndicator ---------------------------
(***************************************************************************)
(* Typing indicators of StdVideoChatRoom (app.js).  One page A produces     *)
(* typing_start/typing_end through the input, blur and Enter handlers and   *)
(* the 1000 ms inactivity timer; another client B keeps the set of remote  *)
(* typists (typingUsers) and shows those still on its user list.           *)
(*                                                                         *)
(* A's page may go through several ChatApp instances: joinRoom creates one  *)
(* and stores it in the global `app`, leaveRoom sets `app` to null.  The    *)
(* timer callback and the handlers read the global `app` when they run, so  *)
(* a timer armed by one instance can act on a later one.  Apps are numbered *)
(* in creation order and double as the user id the server gave each.       *)
(* The server relays A's envelopes to B in order (the channel `wire`).     *)
(***************************************************************************)
EXTENDS Integers, Sequences, FiniteSets

CONSTANTS
  MaxApps,     \* ChatApp instances created on A's page (joinRoom calls)
  MaxTimers    \* typing timers armed in one run (keystrokes)

ASSUME MaxApps \in Nat \ {0}
ASSUME MaxTimers \in Nat \ {0}

Apps   == 1..MaxApps
Timers == 1..MaxTimers
Null   == 0               \* app = null, typingTimer = null

Envelope(t, i) == [type |-> t, from |-> i]

VARIABLES
  app,          \* the global app: an instance or Null
  created,      \* instances created so far
  hasRoom,      \* app.currentRoom # null
  hasId,        \* app.currentUserId # null (room_users received)
  typingTimer,  \* app.typingTimer of each instance
  armed,        \* timers armed so far
  pending,      \* timers armed and neither fired nor cleared
  nonEmpty,     \* messageInput.value.trim() is not empty (shared DOM)
  lastSent,     \* last typing envelope each instance sent (history)
  wire,         \* envelopes for B, in server order
  roster,       \* B's #userList entries for A's instances
  typingUsers   \* B's typingUsers

vars == <<app, created, hasRoom, hasId, typingTimer, armed, pending, nonEmpty,
          lastSent, wire, roster, typingUsers>>

TypeOK ==
  /\ app \in Apps \cup {Null}
  /\ created \in 0..MaxApps
  /\ hasRoom \in [Apps -> BOOLEAN]
  /\ hasId \in [Apps -> BOOLEAN]
  /\ typingTimer \in [Apps -> Timers \cup {Null}]
  /\ armed \in 0..MaxTimers
  /\ pending \subseteq Timers
  /\ nonEmpty \in BOOLEAN
  /\ lastSent \in [Apps -> {"none", "typing_start", "typing_end"}]
  /\ wire \in Seq([type : {"user_joined", "user_left", "typing_start", "typing_end"},
                   from : Apps])
  /\ roster \subseteq Apps
  /\ typingUsers \subseteq Apps

-----------------------------------------------------------------------------
(* A's page                                                               *)

\* sendTypingStatus(isTyping) of instance i: nothing without a user id and
\* a room; otherwise the envelope goes out (the socket is open while the
\* instance is in its room; reconnects are SignalingChannel's concern).
SendTypingStatus(i, t) ==
  IF i # Null /\ hasId[i] /\ hasRoom[i]
    THEN /\ wire' = Append(wire, Envelope(t, i))
         /\ lastSent' = [lastSent EXCEPT ![i] = t]
    ELSE UNCHANGED <<wire, lastSent>>

\* clearTimeout(app.typingTimer); app.typingTimer = null.
ClearTimer(i) ==
  /\ pending' = pending \ {typingTimer[i]}
  /\ typingTimer' = [typingTimer EXCEPT ![i] = Null]

\* The login panel is shown until room_users sets the user id (updateUI)
\* and again after leaveRoom.
LoginShown == app = Null \/ (app # Null /\ ~hasId[app])

\* joinRoom(), from the Join button or Enter in the room id box of the
\* login panel: a new ChatApp with currentRoom set becomes the global app.
\* Enter calls joinRoom even while a join in progress has disabled the
\* button, so the instance replaced may still be joining.
JoinRoom ==
  /\ LoginShown
  /\ created < MaxApps
  /\ created' = created + 1
  /\ app' = created + 1
  /\ hasRoom' = [hasRoom EXCEPT ![created + 1] = TRUE]
  /\ UNCHANGED <<hasId, typingTimer, armed, pending, nonEmpty, lastSent, wire,
                 roster, typingUsers>>

\* room_users reaches A: currentUserId is set; the server has told B.
RoomUsers ==
  /\ app # Null /\ hasRoom[app] /\ ~hasId[app]
  /\ hasId' = [hasId EXCEPT ![app] = TRUE]
  /\ wire' = Append(wire, Envelope("user_joined", app))
  /\ UNCHANGED <<app, created, hasRoom, typingTimer, armed, pending, nonEmpty,
                 lastSent, roster, typingUsers>>
\* The input handler's guard: the global app has a user id and a room.
\* The chat panel holding the input box is shown only once room_users has
\* set the user id (updateUI) and hidden by leaveRoom, so input events do
\* not arrive while the guard is false.
Active == app # Null /\ hasId[app] /\ hasRoom[app]

\* Mutant of InputTyping: typing_start on every keystroke.
InputTypingAlwaysStart ==
  /\ Active
  /\ armed < MaxTimers
  /\ nonEmpty' = TRUE
  /\ SendTypingStatus(app, "typing_start")
  /\ armed' = armed + 1
  /\ pending' = (pending \ {typingTimer[app]}) \cup {armed + 1}
  /\ typingTimer' = [typingTimer EXCEPT ![app] = armed + 1]
  /\ UNCHANGED <<app, created, hasRoom, hasId, roster, typingUsers>>

\* An input event leaving text in the box: typing_start unless a timer is
\* set, then clearTimeout and a new 1000 ms timer.
InputTyping ==
  /\ Active
  /\ armed < MaxTimers
  /\ nonEmpty' = TRUE
  /\ IF typingTimer[app] = Null
       THEN SendTypingStatus(app, "typing_start")
       ELSE UNCHANGED <<wire, lastSent>>
  /\ armed' = armed + 1
  /\ pending' = (pending \ {typingTimer[app]}) \cup {armed + 1}
  /\ typingTimer' = [typingTimer EXCEPT ![app] = armed + 1]
  /\ UNCHANGED <<app, created, hasRoom, hasId, roster, typingUsers>>

\* An input event emptying the box: if a timer is set, clear it and send
\* typing_end.
InputCleared ==
  /\ Active
  /\ nonEmpty' = FALSE
  /\ IF typingTimer[app] # Null
       THEN ClearTimer(app) /\ SendTypingStatus(app, "typing_end")
       ELSE UNCHANGED <<typingTimer, pending, wire, lastSent>>
  /\ UNCHANGED <<app, created, hasRoom, hasId, armed, roster, typingUsers>>

\* The input loses focus with a timer set: clear it and send typing_end.
Blur ==
  /\ app # Null /\ typingTimer[app] # Null
  /\ ClearTimer(app)
  /\ SendTypingStatus(app, "typing_end")
  /\ UNCHANGED <<app, created, hasRoom, hasId, armed, nonEmpty, roster, typingUsers>>

\* Enter (the global sendMessage): the text goes out, the box is emptied,
\* a set timer is cleared and typing_end is sent in any case.
SendText ==
  /\ app # Null /\ nonEmpty
  /\ nonEmpty' = FALSE
  /\ IF typingTimer[app] # Null
       THEN ClearTimer(app)
       ELSE UNCHANGED <<typingTimer, pending>>
  /\ SendTypingStatus(app, "typing_end")
  /\ UNCHANGED <<app, created, hasRoom, hasId, armed, roster, typingUsers>>

TimerFires(t) ==
  /\ t \in pending
  /\ pending' = pending \ {t}
  /\ IF app # Null
       THEN /\ SendTypingStatus(app, "typing_end")
            /\ typingTimer' = [typingTimer EXCEPT ![app] = Null]
       ELSE UNCHANGED <<wire, lastSent, typingTimer>>
  /\ UNCHANGED <<app, created, hasRoom, hasId, armed, nonEmpty, roster, typingUsers>>

\* leaveRoom(): leave_room is sent (the server tells B), room and user id are
\* cleared, the input box is emptied and app becomes null.  typingTimer is
\* left as it is.
LeaveRoom ==
  /\ app # Null
  /\ wire' = IF hasId[app] THEN Append(wire, Envelope("user_left", app)) ELSE wire
  /\ hasRoom' = [hasRoom EXCEPT ![app] = FALSE]
  /\ hasId' = [hasId EXCEPT ![app] = FALSE]
  /\ nonEmpty' = FALSE
  /\ app' = Null
  /\ UNCHANGED <<created, typingTimer, armed, pending, lastSent, roster, typingUsers>>

-----------------------------------------------------------------------------
(* B: ChatApp.handleMessage for A's envelopes                              *)

\* user_joined adds A's instance to the user list, user_left removes it
\* (removeUser; typingUsers is left alone), typing_start adds it to
\* typingUsers (A is never B itself), typing_end deletes it.
BReceive ==
  /\ wire # << >>
  /\ wire' = Tail(wire)
  /\ LET m == Head(wire) IN
       /\ roster' = CASE m.type = "user_joined" -> roster \cup {m.from}
                      [] m.type = "user_left"   -> roster \ {m.from}
                      [] OTHER                  -> roster
       /\ typingUsers' = CASE m.type = "typing_start" -> typingUsers \cup {m.from}
                           [] m.type = "typing_end"   -> typingUsers \ {m.from}
                           [] OTHER                   -> typingUsers
  /\ UNCHANGED <<app, created, hasRoom, hasId, typingTimer, armed, pending,
                 nonEmpty, lastSent>>

Displayed == typingUsers \cap roster

-----------------------------------------------------------------------------

Init ==
  /\ app = Null
  /\ created = 0
  /\ hasRoom = [i \in Apps |-> FALSE]
  /\ hasId = [i \in Apps |-> FALSE]
  /\ typingTimer = [i \in Apps |-> Null]
  /\ armed = 0
  /\ pending = {}
  /\ nonEmpty = FALSE
  /\ lastSent = [i \in Apps |-> "none"]
  /\ wire = << >>
  /\ roster = {}
  /\ typingUsers = {}

Next ==
  \/ JoinRoom \/ RoomUsers \/ LeaveRoom
  \/ InputTyping \/ InputCleared \/ Blur \/ SendText
  \/ \E t \in Timers : TimerFires(t)
  \/ BReceive

Spec == Init /\ [][Next]_vars

\* Timers fire once their delay elapses and B's event loop handles every
\* envelope; what the user types, and when, is the user's choice.
FairSpec == Spec /\ WF_vars(BReceive) /\ \A t \in Timers : WF_vars(TimerFires(t))

-----------------------------------------------------------------------------
(* Properties                                                              *)

\* Instance i appends envelope type t to the wire in this step.
SentNow(i, t) == Len(wire') = Len(wire) + 1 /\ wire'[Len(wire')] = Envelope(t, i)

\* An instance never sends typing_start twice without a typing_end in
\* between: the input handler sends it only when no timer is set, however
\* stale timers of earlier instances interleave.
NoDoubleStart ==
  [][\A i \in Apps : SentNow(i, "typing_start") => lastSent[i] # "typing_start"]_vars

\* An envelope that ends instance i's typing at B (typing_end, or the
\* user_left the server sends for leaveRoom) is still on its way.
EndInFlight(i) ==
  \E k \in 1..Len(wire) : wire[k].from = i /\ wire[k].type \in {"typing_end", "user_left"}

=============================================================================
