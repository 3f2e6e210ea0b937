-------------------------- MODULE MCSecureTransport ---------------------------
(* Instances of SecureTransport for TLC: LZ4 shortens a hello by a byte    *)
(* and finds nothing to shorten in other packets.                          *)
EXTENDS SecureTransport

BlockSize(source) ==
  IF source # Nothing /\ source.of.type = "hello" THEN source.size - 1 ELSE source.size
=============================================================================
