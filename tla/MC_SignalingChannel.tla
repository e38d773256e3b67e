------------------------ MODULE MC_SignalingChannel -------------------------
(* Model-checking instance of SignalingChannel.                            *)
EXTENDS SignalingChannel

\* The code's bound of five attempts (app.js:14).
MC_MaxReconnectAttempts == 5
\* Seven sockets: the first, and six reconnect sockets, enough for two
\* overlapping attemptReconnect activations to each open a socket twice.
MC_MaxSockets == 7
\* Three faults: a drop, then two failed handshakes, the shortest path to
\* overlapping activations plus one more fault.
MC_MaxFaults == 3

\* Explore only states from which one more socket can still be created, so
\* that the socket bound never blocks a step the code would take.
MC_Constraint == CanCreateSocket
=============================================================================
