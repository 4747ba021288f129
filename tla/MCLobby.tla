------------------------------ MODULE MCLobby -------------------------------
(***************************************************************************)
(* Lobby for TLC: sessions whose connections are equally reliable, users   *)
(* and games are interchangeable.                                          *)
(***************************************************************************)
EXTENDS Lobby, TLC

LobbySymmetry ==
  Permutations(Faulty) \cup Permutations(Sessions \ Faulty)
    \cup Permutations(UserIds) \cup Permutations(GameIds)

=============================================================================
