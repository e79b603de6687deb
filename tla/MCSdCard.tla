------------------------------ MODULE MCSdCard ------------------------------
(* A card of three blocks of two bytes for TLC.  The contents hold the bytes *)
(* that mean something to the protocol: 0xFF, 0xFE, 0 and an accepted 5.   *)
EXTENDS SdCard

MCData == {<<254, 255>>, <<5, 0>>}
=============================================================================
