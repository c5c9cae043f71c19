-------------------------- MODULE MCPacketProcessor --------------------------
(* PacketProcessor with interchangeable devices: a row only tells which    *)
(* device reported it, never how the devices compare.                      *)
EXTENDS PacketProcessor, TLC

EspSymmetry == Permutations(Esp)
=============================================================================
