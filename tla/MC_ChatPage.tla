------------------------------ MODULE MC_ChatPage ------------------------------
EXTENDS ChatPage

\* Two sessions on the page: a timer or a button state of the first can
\* outlive leaveRoom and meet the second.
MC_MaxApps == 2

\* Three armed timers: one in each session and one more that resets one.
MC_MaxTimers == 3
=============================================================================
