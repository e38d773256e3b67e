---------------------- MODULE PeerConnectionCoordinator ----------------------
(***************************************************************************)
(* Peer-connection management of one client L of StdVideoChatRoom: the    *)
(* room-level envelope handlers of ChatApp.handleMessage (app.js) and the  *)
(* WebRTCManager that keeps one RTCPeerConnection per remote user id       *)
(* (webrtc.js).  The remote users and the signalling server are the        *)
(* environment: they deliver envelopes to L in order over one WebSocket,   *)
(* answer L's offers, and as newcomers send L an offer, as the same code   *)
(* does on their side.                                                     *)
(*                                                                         *)
(* handleMessage is async and ws.onmessage does not await it, so each      *)
(* envelope is handled up to its first await in one step; the rest of an  *)
(* offer/answer negotiation is a pending continuation that later steps     *)
(* resume, interleaved with further envelopes.  The operations of one      *)
(* RTCPeerConnection run in order on its operations chain, so an          *)
(* answer enqueued while createOffer is pending may run after it.         *)
(*                                                                         *)
(* RTCPeerConnection objects are numbered in creation order.  pcConn[x] is *)
(* the last connectionState x reported; pcClosed[x] records pc.close().    *)
(***************************************************************************)
EXTENDS Integers, Sequences, FiniteSets

CONSTANTS
  Peers,          \* remote user ids
  MaxPcs,         \* bound on RTCPeerConnection objects created
  MaxInbox,       \* bound on envelopes queued towards L
  MaxRejoins,     \* room_users snapshots re-delivered after a reconnect
  MaxNetFaults,   \* ICE failures of healthy connections (network)
  NoPeer          \* no user id (a model value)

ASSUME MaxPcs \in Nat \ {0}
ASSUME MaxInbox \in Nat \ {0}
ASSUME MaxRejoins \in Nat
ASSUME MaxNetFaults \in Nat
ASSUME NoPeer \notin Peers

PcIds == 1..MaxPcs
NoPc  == 0
Loops == 1..(MaxRejoins + 1)    \* one settle loop per room_users envelope

ConnStates == {"unused", "new", "connecting", "connected", "disconnected", "failed"}

\* An envelope from the server; fields a type does not use are defaults.
Msg(t, p, x, us) == [type |-> t, peer |-> p, pc |-> x, users |-> us]

VARIABLES
  status,      \* server view of each remote user: "out", "in", "gone"
  inbox,       \* envelopes the server has sent L, not yet handled
  roster,      \* the #userList entries other than self
  pcMap,       \* webrtc.peerConnections: user id -> pc or NoPc
  pcUser,      \* the userId each pc's callbacks were created with
  pcRole,      \* "offerer" (initiateConnection) or "answerer" (handleOffer)
  pcConn,      \* last connectionState reported by each pc
  pcClosed,    \* pc.close() has been called
  pcLocal,     \* the local description is set
  pcRemote,    \* setRemoteDescription is enqueued on the pc
  pcMatched,   \* the remote description answers this pc's own offer
  videos,      \* users with a remote video wrapper (wrapper-userId) shown
  pending,     \* suspended createOffer/createAnswer continuations
  loops,       \* the settle-delay initiation loops of room_users
  offersOut,   \* offers L sent that their recipient has not answered
  owesOffer,   \* newcomers that will send L an offer
  rejoins,     \* room_users re-deliveries so far
  netFaults,   \* network-caused ICE failures so far
  left         \* leaveRoom() has run

pcVars == <<pcMap, pcUser, pcRole, pcConn, pcClosed, pcLocal, pcRemote, pcMatched,
           videos>>
envVars == <<status, offersOut, owesOffer, rejoins, netFaults>>
vars == <<status, inbox, roster, pcMap, pcUser, pcRole, pcConn, pcClosed,
          pcLocal, pcRemote, pcMatched, videos, pending, loops, offersOut,
          owesOffer, rejoins, netFaults, left>>

Members == {p \in Peers : status[p] = "in"}

TypeOK ==
  /\ status \in [Peers -> {"out", "in", "gone"}]
  /\ inbox \in Seq([type : {"room_users", "user_joined", "user_left", "offer",
                            "answer"},
                    peer : Peers \cup {NoPeer}, pc : PcIds \cup {NoPc},
                    users : SUBSET Peers])
  /\ roster \subseteq Peers
  /\ pcMap \in [Peers -> PcIds \cup {NoPc}]
  /\ pcUser \in [PcIds -> Peers \cup {NoPeer}]
  /\ pcRole \in [PcIds -> {"none", "offerer", "answerer"}]
  /\ pcConn \in [PcIds -> ConnStates]
  /\ pcClosed \in [PcIds -> BOOLEAN]
  /\ pcLocal \in [PcIds -> BOOLEAN]
  /\ pcRemote \in [PcIds -> BOOLEAN]
  /\ pcMatched \in [PcIds -> BOOLEAN]
  /\ videos \subseteq Peers
  /\ pending \subseteq PcIds
  /\ loops \in [Loops -> [st : {"unused", "timer", "ready", "await"},
                          todo : SUBSET Peers, cur : PcIds \cup {NoPc}]]
  /\ offersOut \subseteq PcIds
  /\ owesOffer \subseteq Peers
  /\ rejoins \in 0..MaxRejoins
  /\ netFaults \in 0..MaxNetFaults
  /\ left \in BOOLEAN

-----------------------------------------------------------------------------
(* WebRTCManager (webrtc.js)                                               *)

Created   == Cardinality({x \in PcIds : pcConn[x] # "unused"})
CanCreate == Created < MaxPcs
FreshPc   == Created + 1

\* createPeerConnection(userId): a new pc is stored under userId; a pc
\* already stored there is overwritten without being closed.
CreatePeerConnection(p, x, role) ==
  /\ pcMap' = [pcMap EXCEPT ![p] = x]
  /\ pcUser' = [pcUser EXCEPT ![x] = p]
  /\ pcRole' = [pcRole EXCEPT ![x] = role]
  /\ pcConn' = [pcConn EXCEPT ![x] = "new"]

\* removePeerConnection(userId) on a pc map m and close flags c: close the
\* pc stored under userId, if any, and delete the entry.
RemovedMap(m, p)    == [m EXCEPT ![p] = NoPc]
ClosedBy(c, m, p)   == IF m[p] = NoPc THEN c ELSE [c EXCEPT ![m[p]] = TRUE]
\* Mutant: the video wrapper is left in place.
RemovedVideoKept(v, p) == v

\* It also removes wrapper-userId, whichever pc created it.
RemovedVideo(v, p)  == v \ {p}

\* handleRemoteStream(userId), run by pc.ontrack once a remote description
\* with tracks is applied: the wrapper of userId is created unless present.
HandleRemoteStream(v, p) == v \cup {p}

-----------------------------------------------------------------------------
(* Environment: the server and the remote users' copies of the code       *)

Send(m) == /\ Len(inbox) < MaxInbox
           /\ inbox' = Append(inbox, m)

\* A user joins after L: L is told, and the newcomer will send L an offer.
PeerJoins(p) ==
  /\ ~left /\ status[p] = "out"
  /\ Send(Msg("user_joined", p, NoPc, {}))
  /\ status' = [status EXCEPT ![p] = "in"]
  /\ owesOffer' = owesOffer \cup {p}
  /\ UNCHANGED <<roster, pcVars, pending, loops, offersOut, rejoins, netFaults, left>>

\* A user leaves or its connection drops (user_left / user_disconnected).
PeerLeaves(p) ==
  /\ ~left /\ status[p] = "in"
  /\ Send(Msg("user_left", p, NoPc, {}))
  /\ status' = [status EXCEPT ![p] = "gone"]
  /\ owesOffer' = owesOffer \ {p}
  /\ offersOut' = {x \in offersOut : pcUser[x] # p}
  /\ UNCHANGED <<roster, pcVars, pending, loops, rejoins,
                 netFaults, left>>

\* The newcomer's settle loop sends its offer to L.
PeerOffers(p) ==
  /\ ~left /\ p \in owesOffer /\ status[p] = "in"
  /\ Send(Msg("offer", p, NoPc, {}))
  /\ owesOffer' = owesOffer \ {p}
  /\ UNCHANGED <<status, roster, pcVars, pending, loops, offersOut, rejoins, netFaults, left>>

\* The recipient of L's offer from pc x answers it.
PeerAnswers(x) ==
  /\ ~left /\ x \in offersOut /\ status[pcUser[x]] = "in"
  /\ Send(Msg("answer", pcUser[x], x, {}))
  /\ offersOut' = offersOut \ {x}
  /\ UNCHANGED <<status, roster, pcVars, pending, loops, owesOffer, rejoins, netFaults, left>>

\* L reconnected and re-sent join_room (SignalingChannel): envelopes still queued on
\* the old socket are lost with it and the server sends a fresh snapshot.
Rejoin ==
  /\ ~left /\ rejoins < MaxRejoins
  /\ inbox' = << Msg("room_users", NoPeer, NoPc, Members) >>
  /\ rejoins' = rejoins + 1
  /\ UNCHANGED <<status, roster, pcVars, pending, loops, offersOut,
                 owesOffer, netFaults, left>>

-----------------------------------------------------------------------------
(* ChatApp.handleMessage (app.js): the synchronous part of each handler    *)

\* updateUserList(users): the list is emptied and rebuilt from the snapshot
\* (the entry of self is not a remote user and is left out).
UpdateUserList(users) == users

\* removeUser(userId): the entry of userId is removed if it is listed.
RemoveUser(r, p) == r \ {p}

\* Mutant: updateUserList keeps the entries already listed.
OnRoomUsersMerged(m) ==
  LET l == CHOOSE i \in Loops : loops[i].st = "unused"
  IN /\ roster' = roster \cup m.users
     /\ loops' = [loops EXCEPT ![l] = [st |-> "timer", todo |-> m.users, cur |-> NoPc]]
     /\ UNCHANGED <<pcVars, pending>>

\* room_users: updateUI rebuilds the user list from the snapshot and a
\* settle timer is armed whose closure iterates that same snapshot.
OnRoomUsers(m) ==
  LET l == CHOOSE i \in Loops : loops[i].st = "unused"
          \* each room_users envelope takes the next unused loop slot
  IN /\ roster' = UpdateUserList(m.users)
     /\ loops' = [loops EXCEPT ![l] = [st |-> "timer", todo |-> m.users, cur |-> NoPc]]
     /\ UNCHANGED <<pcVars, pending>>

\* user_joined: addUser, which ignores an id already listed.
OnUserJoined(m) ==
  /\ roster' = roster \cup {m.peer}
  /\ UNCHANGED <<pcVars, pending, loops>>

\* user_left / user_disconnected: removeUser, then removePeerConnection.
OnUserLeft(m) ==
  /\ roster' = RemoveUser(roster, m.peer)
  /\ pcClosed' = ClosedBy(pcClosed, pcMap, m.peer)
  /\ pcMap' = RemovedMap(pcMap, m.peer)
  /\ videos' = RemovedVideo(videos, m.peer)
  /\ UNCHANGED <<pcUser, pcRole, pcConn, pcLocal, pcRemote, pcMatched,
                 pending, loops>>

\* offer: handleOffer creates a fresh pc under the sender's id, and
\* createAnswer enqueues setRemoteDescription(offer) before its first await.
OnOffer(m) ==
  /\ CanCreate
  /\ CreatePeerConnection(m.peer, FreshPc, "answerer")
  /\ pcRemote' = [pcRemote EXCEPT ![FreshPc] = TRUE]
  /\ pcMatched' = [pcMatched EXCEPT ![FreshPc] = TRUE]
  /\ pending' = pending \cup {FreshPc}
  /\ UNCHANGED <<roster, pcClosed, pcLocal, videos, loops>>

\* answer: handleAnswer looks the pc up by the sender's id only.  A pc in
\* have-local-offer accepts it, whichever offer it answers; in any other
\* signalling state setRemoteDescription rejects and the error is logged.
\* While the pc's createOffer is still pending the answer is enqueued
\* either before setLocalDescription (rejected) or after it (accepted).
AnswerAccepted(y, m) ==
  /\ pcRemote' = [pcRemote EXCEPT ![y] = TRUE]
  /\ pcMatched' = [pcMatched EXCEPT ![y] = (m.pc = y)]
AnswerRejected(y) == IF y = NoPc THEN TRUE ELSE pcRole[y] = "answerer" \/ pcRemote[y]
OnAnswer(m) ==
  LET y == pcMap[m.peer] IN
  /\ \/ /\ ~AnswerRejected(y)
        /\ AnswerAccepted(y, m)
        /\ videos' = HandleRemoteStream(videos, m.peer)
     \/ /\ AnswerRejected(y) \/ y \in pending
        /\ UNCHANGED <<pcRemote, pcMatched, videos>>
  /\ UNCHANGED <<roster, pcMap, pcUser, pcRole, pcConn, pcClosed, pcLocal,
                 pending, loops>>

\* ws.onmessage: handle the next envelope in arrival order.
HandleMessage ==
  /\ inbox # << >>
  /\ inbox' = Tail(inbox)
  /\ LET m == Head(inbox) IN
       CASE m.type = "room_users"    -> OnRoomUsers(m)
         [] m.type = "user_joined"   -> OnUserJoined(m)
         [] m.type = "user_left"     -> OnUserLeft(m)
         [] m.type = "offer"         -> OnOffer(m)
         [] m.type = "answer"        -> OnAnswer(m)
  /\ UNCHANGED <<envVars, left>>

-----------------------------------------------------------------------------
(* Continuations after the negotiation awaits                              *)

\* The settle loop awaiting initiateConnection for pc x goes on.
Resumed(x) ==
  [l \in Loops |-> IF loops[l].st = "await" /\ loops[l].cur = x
                     THEN [loops[l] EXCEPT !.st = "ready", !.cur = NoPc]
                     ELSE loops[l]]

\* createOffer resolves (pc.createOffer, setLocalDescription) and
\* initiateConnection sends the offer; on a closed pc the operations reject
\* and the catch only reports it.  sendMessage drops it once ws is gone.
OfferCreated(x) ==
  /\ x \in pending /\ pcRole[x] = "offerer"
  /\ pending' = pending \ {x}
  /\ pcLocal' = [pcLocal EXCEPT ![x] = ~pcClosed[x]]
  /\ offersOut' = IF pcClosed[x] \/ left THEN offersOut ELSE offersOut \cup {x}
  /\ loops' = Resumed(x)
  /\ UNCHANGED <<status, inbox, roster, pcMap, pcUser, pcRole, pcConn,
                 pcClosed, pcRemote, pcMatched, videos, owesOffer, rejoins,
                 netFaults, left>>

\* createAnswer resolves (createAnswer, setLocalDescription) and handleOffer
\* sends the answer; on a closed pc it rejects and the catch reports it.
AnswerCreated(x) ==
  /\ x \in pending /\ pcRole[x] = "answerer"
  /\ pending' = pending \ {x}
  /\ pcLocal' = [pcLocal EXCEPT ![x] = ~pcClosed[x]]
  /\ videos' = IF pcClosed[x] THEN videos ELSE HandleRemoteStream(videos, pcUser[x])
  /\ UNCHANGED <<status, inbox, roster, pcMap, pcUser, pcRole, pcConn,
                 pcClosed, pcRemote, pcMatched, loops, offersOut, owesOffer,
                 rejoins, netFaults, left>>

\* The 1000 ms settle timer of room_users fires.
SettleTimerFires(l) ==
  /\ loops[l].st = "timer"
  /\ loops' = [loops EXCEPT ![l].st = "ready"]
  /\ UNCHANGED <<status, inbox, roster, pcVars, pending, offersOut,
                 owesOffer, rejoins, netFaults, left>>

\* Mutant: the loop stops after its first initiateConnection.
InitiateConnectionOnce(l) ==
  /\ loops[l].st = "ready" /\ loops[l].todo # {}
  /\ CanCreate
  /\ \E u \in loops[l].todo :
       /\ CreatePeerConnection(u, FreshPc, "offerer")
       /\ loops' = [loops EXCEPT ![l] = [st |-> "await", todo |-> {}, cur |-> FreshPc]]
  /\ pending' = pending \cup {FreshPc}
  /\ UNCHANGED <<status, inbox, roster, pcClosed, pcLocal, pcRemote,
                 pcMatched, videos, offersOut, owesOffer, rejoins, netFaults, left>>

\* The loop calls initiateConnection(u) for the next user of its snapshot:
\* createPeerConnection, then createOffer up to its first await.
InitiateConnection(l) ==
  /\ loops[l].st = "ready" /\ loops[l].todo # {}
  /\ CanCreate
  /\ \E u \in loops[l].todo :
       /\ CreatePeerConnection(u, FreshPc, "offerer")
       /\ loops' = [loops EXCEPT ![l] = [st |-> "await", todo |-> @.todo \ {u},
                                         cur |-> FreshPc]]
  /\ pending' = pending \cup {FreshPc}
  /\ UNCHANGED <<status, inbox, roster, pcClosed, pcLocal, pcRemote,
                 pcMatched, videos, offersOut, owesOffer, rejoins, netFaults, left>>

-----------------------------------------------------------------------------
(* The media engine: connectionState changes of an open pc                 *)

\* ICE cannot succeed: the answer belongs to another offer, or the remote
\* user is gone and closed its end.
Doomed(x) == ~pcMatched[x] \/ pcUser[x] \notin Members

\* Both descriptions are in place and ICE starts checking.
IceChecking(x) ==
  /\ ~pcClosed[x] /\ pcConn[x] = "new" /\ pcLocal[x] /\ pcRemote[x]
  /\ pcConn' = [pcConn EXCEPT ![x] = "connecting"]
  /\ UNCHANGED <<status, inbox, roster, pcMap, pcUser, pcRole, pcClosed,
                 pcLocal, pcRemote, pcMatched, videos, pending, loops, offersOut,
                 owesOffer, rejoins, netFaults, left>>

IceConnected(x) ==
  /\ ~pcClosed[x] /\ pcConn[x] \in {"connecting", "disconnected"}
  /\ ~Doomed(x)
  /\ pcConn' = [pcConn EXCEPT ![x] = "connected"]
  /\ UNCHANGED <<status, inbox, roster, pcMap, pcUser, pcRole, pcClosed,
                 pcLocal, pcRemote, pcMatched, videos, pending, loops, offersOut,
                 owesOffer, rejoins, netFaults, left>>

\* The state becomes disconnected or failed, because the pc is doomed or
\* through a network fault, and onconnectionstatechange calls
\* removePeerConnection with the userId its closure captured.
IceFails(x, to) ==
  /\ ~pcClosed[x] /\ pcConn[x] \in {"connecting", "connected", "disconnected"}
  /\ to # pcConn[x]
  /\ \/ Doomed(x) /\ UNCHANGED netFaults
     \/ ~Doomed(x) /\ netFaults < MaxNetFaults /\ netFaults' = netFaults + 1
  /\ pcConn' = [pcConn EXCEPT ![x] = to]
  /\ pcClosed' = ClosedBy(pcClosed, pcMap, pcUser[x])
  /\ pcMap' = RemovedMap(pcMap, pcUser[x])
  /\ videos' = RemovedVideo(videos, pcUser[x])
  /\ UNCHANGED <<status, inbox, roster, pcUser, pcRole, pcLocal, pcRemote,
                 pcMatched, pending, loops, offersOut, owesOffer, rejoins, left>>

-----------------------------------------------------------------------------
(* leaveRoom (app.js): webrtc.cleanup(), the socket closed and the remote *)
(* video area emptied                                                      *)

LeaveRoom ==
  /\ ~left
  /\ left' = TRUE
  /\ pcClosed' = [x \in PcIds |-> pcClosed[x] \/ \E p \in Peers : pcMap[p] = x]
  /\ pcMap' = [p \in Peers |-> NoPc]
  /\ videos' = {}
  /\ inbox' = << >>
  /\ UNCHANGED <<status, roster, pcUser, pcRole, pcConn, pcLocal, pcRemote,
                 pcMatched, pending, loops, offersOut, owesOffer, rejoins, netFaults>>

-----------------------------------------------------------------------------

\* L has sent join_room; the first envelope it receives is the snapshot.
Init ==
  /\ status \in [Peers -> {"out", "in"}]
  /\ inbox = << Msg("room_users", NoPeer, NoPc, {p \in Peers : status[p] = "in"}) >>
  /\ roster = {}
  /\ pcMap = [p \in Peers |-> NoPc]
  /\ pcUser = [x \in PcIds |-> NoPeer]
  /\ pcRole = [x \in PcIds |-> "none"]
  /\ pcConn = [x \in PcIds |-> "unused"]
  /\ pcClosed = [x \in PcIds |-> FALSE]
  /\ pcLocal = [x \in PcIds |-> FALSE]
  /\ pcRemote = [x \in PcIds |-> FALSE]
  /\ pcMatched = [x \in PcIds |-> FALSE]
  /\ videos = {}
  /\ pending = {}
  /\ loops = [l \in Loops |-> [st |-> "unused", todo |-> {}, cur |-> NoPc]]
  /\ offersOut = {}
  /\ owesOffer = {}
  /\ rejoins = 0
  /\ netFaults = 0
  /\ left = FALSE

Environment ==
  \/ \E p \in Peers : PeerJoins(p) \/ PeerLeaves(p) \/ PeerOffers(p)
  \/ \E x \in PcIds : PeerAnswers(x)
  \/ Rejoin

Client ==
  \/ HandleMessage
  \/ \E x \in PcIds : OfferCreated(x) \/ AnswerCreated(x)
  \/ \E l \in Loops : SettleTimerFires(l) \/ InitiateConnection(l)
  \/ LeaveRoom

MediaEngine ==
  \E x \in PcIds : \/ IceChecking(x) \/ IceConnected(x)
                   \/ \E to \in {"disconnected", "failed"} : IceFails(x, to)

Next == Environment \/ Client \/ MediaEngine

Spec == Init /\ [][Next]_vars

\* The client's event loop runs every ready task, the remote users run the
\* same code, and the media engine reports every state change; joins,
\* leaves, reconnects, network faults and leaveRoom are the users' choice.
Fairness ==
  /\ WF_vars(HandleMessage)
  /\ \A x \in PcIds : /\ WF_vars(OfferCreated(x)) /\ WF_vars(AnswerCreated(x))
                      /\ WF_vars(IceChecking(x)) /\ WF_vars(IceConnected(x))
                      /\ WF_vars(Doomed(x) /\ IceFails(x, "failed"))
                      /\ WF_vars(PeerAnswers(x))
  /\ \A l \in Loops : WF_vars(SettleTimerFires(l)) /\ WF_vars(InitiateConnection(l))
  /\ \A p \in Peers : WF_vars(PeerOffers(p))

FairSpec == Spec /\ Fairness

-----------------------------------------------------------------------------
(* Properties                                                              *)

\* No envelope, negotiation step or settle loop of L is outstanding.
Quiescent ==
  /\ inbox = << >> /\ pending = {}
  /\ \A l \in Loops : loops[l].st = "unused" \/ (loops[l].st = "ready" /\ loops[l].todo = {})

\* Once L has handled every envelope the server sent it, its user list
\* (updateUserList, addUser, removeUser) shows exactly the users in the
\* room, even when a reconnect lost envelopes queued on the old socket.
RosterTracksRoom == (~left /\ inbox = << >>) => roster = Members

\* When L is quiescent, every pc kept in webrtc.peerConnections belongs to a
\* user on the user list: a user who left during the settle delay gets no
\* peer connection from the room_users loop.
SessionsConverge == (~left /\ Quiescent) => {p \in Peers : pcMap[p] # NoPc} \subseteq roster

\* A pc whose connection is up and whose user is still listed is closed
\* only by leaveRoom: the connection-state callback of a replaced pc never
\* tears down its successor (removePeerConnection looks up by userId).
NoStaleEviction ==
  [][\A x \in PcIds :
       (~pcClosed[x] /\ pcClosed'[x] /\ pcConn'[x] = "connected")
         => (pcUser[x] \notin roster' \/ left')]_vars

\* Every remote video wrapper of a user who is no longer listed is
\* eventually removed, also after a reconnect lost that user's user_left and
\* the fresh room_users left the pc in peerConnections: the pc that showed
\* the tile cannot connect to a departed user, and its failure callback
\* (removePeerConnection) removes the wrapper by userId.
VideosConverge == <>[](~left => videos \subseteq roster)

\* Without network faults or reconnects, every user who stays in the room
\* ends up with a connected peer connection and its video shown: the settle
\* loop offers to the users already there, newcomers' offers are answered,
\* and ontrack creates the wrapper on either side of the negotiation.
EventuallyConnected ==
  \A p \in Peers :
    <>[](status[p] = "in" /\ ~left =>
           /\ pcMap[p] # NoPc /\ pcConn[pcMap[p]] = "connected"
           /\ p \in videos)

=============================================================================
