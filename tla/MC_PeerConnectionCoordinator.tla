--------------------- MODULE MC_PeerConnectionCoordinator ---------------------
EXTENDS PeerConnectionCoordinator, TLC

CONSTANTS p1, p2

\* Two remote users: one may be in the room before L and one join after it,
\* or both on the same side, which the settle loop iterates over.
MC_Peers == {p1, p2}

\* Three pcs: the first settle loop's offer, a newcomer's offer and the
\* re-initiation by the loop of a second room_users, which replaces one.
MC_MaxPcs == 3

\* Room for an envelope per party in flight at once.
MC_MaxInbox == 2

\* The fair run of the user list and the video wrappers: the first settle
\* loop's offer and either a newcomer's offer or the re-initiation after a
\* reconnect, which replaces it.  Symmetry is not used with liveness.
MC_FairMaxPcs == 2

\* With neither reconnects nor network faults, L creates at most one pc per
\* user, so three pcs never bind.
MC_LiveMaxPcs == 3
\* The remote users run the same code and are interchangeable.
MC_Symmetry == Permutations(MC_Peers)

=============================================================================
