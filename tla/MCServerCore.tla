---------------------------- MODULE MCServerCore ----------------------------
EXTENDS ServerCore, TLC

MCSymmetry == Permutations(Client) \cup Permutations(RoomId) \cup Permutations(PlayerId)
              \cup Permutations(ConnectionId)
=============================================================================
