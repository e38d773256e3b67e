------------------------------ MODULE ChatPage ------------------------------
(***************************************************************************)
(* The page of user A as a whole: the typing indicator of TypingIndicator  *)
(* composed with the media controls (app.js toggleMute/toggleCamera,       *)
(* webrtc.js initLocalStream/toggleMute/toggleCamera/cleanup).             *)
(*                                                                         *)
(* The two components share the global `app` and its lifecycle: joinRoom   *)
(* creates a ChatApp whose WebRTCManager captures a fresh local stream,    *)
(* leaveRoom stops that stream through webrtc.cleanup() and sets `app` to  *)
(* null.  The mute and camera buttons are DOM elements of the page, not of *)
(* an instance: they outlive the instance whose tracks they describe.      *)
(*                                                                         *)
(* So does the fullscreen overlay (expandVideo/exitFullscreenVideo).  Its  *)
(* global handlers act on window.chatApp, which updateUI sets to the       *)
(* instance that received room_users and leaveRoom never clears; on a      *)
(* phone expandVideo also binds a tap listener to the opening instance.    *)
(* A replaced instance whose join still completes (its own room_users)     *)
(* runs updateUI too: it shows the chat panel and becomes window.chatApp.  *)
(***************************************************************************)
EXTENDS TypingIndicator

CONSTANT IsMobile   \* this.isMobile (detectMobile): the same for every instance

ASSUME IsMobile \in BOOLEAN

VARIABLES
  stream,         \* each instance's webrtc.localStream: none, live, stopped
  audioOn,        \* its audio track's enabled flag
  videoOn,        \* its video track's enabled flag
  muteShown,      \* #muteButton has class 'muted'
  cameraOffShown, \* #cameraButton has class 'muted'
  chatPanel,      \* #chatPanel is shown and #loginPanel hidden
  chatApp,        \* window.chatApp: an instance or Null
  isFullscreen,   \* each instance's this.isFullscreen
  overlay,        \* #fullscreenVideoContainer is shown
  tapListeners    \* instances whose click listener is on #fullscreenVideo

mediaVars == <<stream, audioOn, videoOn, muteShown, cameraOffShown>>
uiVars == <<chatPanel, chatApp, isFullscreen, overlay, tapListeners>>
pageVars == <<vars, mediaVars, uiVars>>

PageTypeOK ==
  /\ TypeOK
  /\ stream \in [Apps -> {"none", "live", "stopped"}]
  /\ audioOn \in [Apps -> BOOLEAN]
  /\ videoOn \in [Apps -> BOOLEAN]
  /\ muteShown \in BOOLEAN
  /\ cameraOffShown \in BOOLEAN
  /\ chatPanel \in BOOLEAN
  /\ chatApp \in Apps \cup {Null}
  /\ isFullscreen \in [Apps -> BOOLEAN]
  /\ overlay \in BOOLEAN
  /\ tapListeners \subseteq Apps

-----------------------------------------------------------------------------

\* joinRoom(), from the room id box of the login panel: the new ChatApp's
\* initLocalStream() resolves with a stream whose tracks are enabled
\* (getUserMedia's default); the buttons are not touched.  The socket then
\* opens, or fails and joinRoom's catch re-enables the button while onclose
\* starts attemptReconnect; either way room_users may follow or never come.
PageJoinRoom ==
  /\ ~chatPanel
  /\ JoinRoom
  /\ stream' = [stream EXCEPT ![created + 1] = "live"]
  /\ audioOn' = [audioOn EXCEPT ![created + 1] = TRUE]
  /\ videoOn' = [videoOn EXCEPT ![created + 1] = TRUE]
  /\ UNCHANGED <<muteShown, cameraOffShown, uiVars>>

\* joinRoom() with getUserMedia rejecting: initLocalStream alerts and
\* rethrows, joinRoom's catch re-enables the button.  The new ChatApp stays
\* the global app, without a stream and without a socket.
PageJoinNoMedia ==
  /\ ~chatPanel
  /\ JoinRoom
  /\ UNCHANGED <<mediaVars, uiVars>>

\* leaveRoom(): webrtc.cleanup() stops every track of the local stream and
\* drops it; the login panel replaces the chat panel.  The buttons, the
\* overlay, window.chatApp and every isFullscreen are left as they are.
PageLeaveRoom ==
  /\ LeaveRoom
  /\ stream' = [stream EXCEPT ![app] = IF @ = "live" THEN "stopped" ELSE @]
  /\ chatPanel' = FALSE
  /\ UNCHANGED <<audioOn, videoOn, muteShown, cameraOffShown, chatApp,
                 isFullscreen, overlay, tapListeners>>

\* webrtc.toggleMute()/toggleCamera() on the track flags `on`, with the
\* button `shown` set from the result: with a local stream the track's
\* enabled flag flips and the call returns !enabled; without one it
\* returns false.
ToggleTrack(on, shown) ==
  IF stream[app] = "live"
    THEN /\ on' = [on EXCEPT ![app] = ~@]
         /\ shown' = on[app]
    ELSE /\ shown' = FALSE
         /\ UNCHANGED on

\* toggleMute(): a button of the chat panel; it returns at once without a
\* global app.
ToggleMute ==
  /\ chatPanel /\ app # Null
  /\ ToggleTrack(audioOn, muteShown)
  /\ UNCHANGED <<vars, stream, videoOn, cameraOffShown, uiVars>>

\* toggleCamera(): the same for the video track and the camera button.
ToggleCamera ==
  /\ chatPanel /\ app # Null
  /\ ToggleTrack(videoOn, cameraOffShown)
  /\ UNCHANGED <<vars, stream, audioOn, muteShown, uiVars>>

\* updateUI(users) of instance i: the chat panel replaces the login panel
\* and window.chatApp = this.
UpdateUI(i) ==
  /\ chatPanel' = TRUE
  /\ chatApp' = i

\* room_users reaches the global app, over a socket opened after capture.
PageRoomUsers ==
  /\ RoomUsers /\ stream[app] = "live"
  /\ UpdateUI(app)
  /\ UNCHANGED <<mediaVars, isFullscreen, overlay, tapListeners>>

\* room_users reaches an instance that a later joinRoom replaced while it
\* was joining: its socket keeps calling its own handleMessage, so it sets
\* its user id, runs updateUI and is in the room (the server tells B).
PageGhostRoomUsers(i) ==
  /\ i # app
  /\ hasRoom[i] /\ ~hasId[i] /\ stream[i] = "live"
  /\ hasId' = [hasId EXCEPT ![i] = TRUE]
  /\ wire' = Append(wire, Envelope("user_joined", i))
  /\ UpdateUI(i)
  /\ UNCHANGED <<app, created, hasRoom, typingTimer, armed, pending, nonEmpty,
                 lastSent, roster, typingUsers, mediaVars, isFullscreen,
                 overlay, tapListeners>>

\* expandVideo(videoId, userName) of instance i: nothing if it is already
\* fullscreen; otherwise it records the state, copies the wrapper's stream
\* into #fullscreenVideo, shows the container and, on a phone, adds a click
\* listener that calls this.exitFullscreenVideo().  The video element and
\* the fullscreen elements are taken to exist.
ExpandVideo(i) ==
  /\ ~isFullscreen[i]
  /\ isFullscreen' = [isFullscreen EXCEPT ![i] = TRUE]
  /\ overlay' = TRUE
  /\ tapListeners' = IF IsMobile THEN tapListeners \cup {i} ELSE tapListeners

\* exitFullscreenVideo() of instance i, when it is fullscreen: reset the
\* state, hide the container and clear the fullscreen video's source.
ExitFullscreenVideo(i) ==
  /\ isFullscreen[i]
  /\ isFullscreen' = [isFullscreen EXCEPT ![i] = FALSE]
  /\ overlay' = FALSE

\* The expand button of a remote video wrapper (on the chat panel; which
\* remote users have one is PeerConnectionCoordinator's concern) calls
\* window.chatApp.expandVideo.
PageExpandVideo ==
  /\ chatPanel /\ chatApp # Null
  /\ ExpandVideo(chatApp)
  /\ UNCHANGED <<vars, mediaVars, chatPanel, chatApp>>

\* The Escape key, or the global exitFullscreenVideo(), acts on
\* window.chatApp when it is fullscreen.
PageExitFullscreen ==
  /\ chatApp # Null
  /\ ExitFullscreenVideo(chatApp)
  /\ UNCHANGED <<vars, mediaVars, chatPanel, chatApp, tapListeners>>

\* A tap on the shown #fullscreenVideo runs every click listener added so
\* far, each calling exitFullscreenVideo() of the instance that added it;
\* a tap that no listener acts on changes nothing.
TapFullscreenVideo ==
  /\ overlay
  /\ \E i \in tapListeners : isFullscreen[i]
  /\ isFullscreen' = [i \in Apps |-> isFullscreen[i] /\ i \notin tapListeners]
  /\ overlay' = FALSE
  /\ UNCHANGED <<vars, mediaVars, chatPanel, chatApp, tapListeners>>

\* The page starts on the login panel with both buttons showing "on".
PageInit ==
  /\ Init
  /\ stream = [i \in Apps |-> "none"]
  /\ audioOn = [i \in Apps |-> FALSE]
  /\ videoOn = [i \in Apps |-> FALSE]
  /\ muteShown = FALSE
  /\ cameraOffShown = FALSE
  /\ chatPanel = FALSE
  /\ chatApp = Null
  /\ isFullscreen = [i \in Apps |-> FALSE]
  /\ overlay = FALSE
  /\ tapListeners = {}

\* The typing steps leave the media state and the page layout alone.
PageInputTyping == InputTyping /\ UNCHANGED <<mediaVars, uiVars>>
PageInputCleared == InputCleared /\ UNCHANGED <<mediaVars, uiVars>>
PageBlur == Blur /\ UNCHANGED <<mediaVars, uiVars>>
PageSendText == SendText /\ UNCHANGED <<mediaVars, uiVars>>
PageTimerFires(t) == TimerFires(t) /\ UNCHANGED <<mediaVars, uiVars>>
PageBReceive == BReceive /\ UNCHANGED <<mediaVars, uiVars>>

PageNext ==
  \/ PageJoinRoom \/ PageJoinNoMedia \/ PageRoomUsers \/ PageLeaveRoom
  \/ \E i \in Apps : PageGhostRoomUsers(i)
  \/ PageInputTyping \/ PageInputCleared \/ PageBlur \/ PageSendText
  \/ \E t \in Timers : PageTimerFires(t)
  \/ PageBReceive
  \/ ToggleMute \/ ToggleCamera
  \/ PageExpandVideo \/ PageExitFullscreen \/ TapFullscreenVideo

PageSpec == PageInit /\ [][PageNext]_pageVars

\* As in TypingIndicator: timers fire and B handles every envelope.  What
\* the user clicks, taps or types is not assumed to happen.
PageFairSpec ==
  /\ PageSpec
  /\ WF_pageVars(PageBReceive)
  /\ \A t \in Timers : WF_pageVars(PageTimerFires(t))

-----------------------------------------------------------------------------
(* Properties                                                              *)

\* No camera or microphone capture outlives its instance: every stream but
\* the current app's has been stopped, however often the user joins, leaves
\* and rejoins (webrtc.cleanup() called from leaveRoom; spec: one shared
\* local media capture).
NoOrphanCapture == \A i \in Apps : stream[i] = "live" => i = app

\* While the chat panel is shown, the mute and camera buttons show the state
\* of the current instance's tracks (toggleMute/toggleCamera set them from
\* the tracks' enabled flags).
ButtonsShowTracks ==
  (Active /\ stream[app] = "live")
    => /\ muteShown = ~audioOn[app]
       /\ cameraOffShown = ~videoOn[app]

=============================================================================
