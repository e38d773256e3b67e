---------------------------- MODULE MC_RoomChat ------------------------------
(* Model-checking instance of RoomChat, on the channel bounds of           *)
(* MC_SignalingChannel.                                                    *)
EXTENDS RoomChat, MC_SignalingChannel

\* Two messages: one posted before a connection joins, replayed in its
\* history, and one broadcast while it is a member.
MC_MaxPosts == 2
=============================================================================
