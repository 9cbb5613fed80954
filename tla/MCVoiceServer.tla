--------------------------- MODULE MCVoiceServer ---------------------------
(***************************************************************************)
(* TLC instances of VoiceServer.                                           *)
(***************************************************************************)
EXTENDS VoiceServer, TLC

\* The bytes 0, 1 and 8 of AdjustPlayerAttr.
MCAttrFlags == {{}, {"WAIT_CONNECT"}, {"MUTE"}}

\* No AdjustPlayerAttr.
MCNoAttr == {}

\* IDs are opaque to the server; so are connections, workers and addresses.
MCSymmetry == Permutations(PlayerIDs) \cup Permutations(GroupIDs)
              \cup Permutations(Conns) \cup Permutations(Workers)
              \cup Permutations(Addrs)
=============================================================================
