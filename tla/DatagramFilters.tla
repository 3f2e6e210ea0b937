--------------------------- MODULE DatagramFilters ----------------------------
(***************************************************************************)
(* The callbacks that ENet calls on every datagram of the host             *)
(* (src/src/network/transport/compression and .../encryption), as          *)
(* functions of what they are given.                                       *)
(*                                                                         *)
(* The bytes of a datagram are described by their number, and by what they *)
(* are: the content of a packet, an LZ4 block of other bytes, or other     *)
(* bytes sealed with a key.  A callback that returns 0 returns Nothing:    *)
(* ENet then sends the datagram as it was, or drops the one that came in.  *)
(***************************************************************************)
EXTENDS Naturals

CONSTANTS
  HeaderSize, \* bytes of kEncryptedPacketMagic and of the nonce
  TagSize,    \* bytes of the authentication tag
  LZ4Size(_)  \* the size to which LZ4_compress_HC brings some bytes

ASSUME FiltersAssumption == HeaderSize \in Nat /\ TagSize \in Nat

Nothing              == [form |-> "nothing", size |-> 0]
Content(of, size)    == [form |-> "content", size |-> size, of |-> of]
Block(of, size)      == [form |-> "lz4", size |-> size, of |-> of]
Sealed(of, size, key) == [form |-> "sealed", size |-> size, of |-> of, key |-> key]

(* The first inLimit bytes of what lies in the fragments, or nothing.      *)
CopyInBuffers(fragments, inLimit) ==
  IF fragments.size >= inLimit THEN [fragments EXCEPT !.size = inLimit] ELSE Nothing

(* Kept only if it fits and is strictly smaller than its source.           *)
Compress(fragments, inLimit, outLimit) ==
  LET source == CopyInBuffers(fragments, inLimit)
      size   == LZ4Size(source)
  IN  IF /\ inLimit > 0 /\ inLimit <= outLimit
         /\ source # Nothing
         /\ size > 0 /\ size < inLimit
      THEN Block(source, size)
      ELSE Nothing

(* LZ4_decompress_safe refuses what is no block, or does not fit.          *)
Decompress(data, outLimit) ==
  IF data.form = "lz4" /\ data.of.size <= outLimit THEN data.of ELSE Nothing

(* Mutant of Encrypt: the largest datagram that fits is refused.           *)
EncryptLess(key, fragments, inLimit, outLimit) ==
  IF HeaderSize + inLimit + TagSize >= outLimit
  THEN Nothing
  ELSE Sealed(CopyInBuffers(fragments, inLimit), HeaderSize + inLimit + TagSize, key)

(* The part of EncryptCallback that has the key.                           *)
Encrypt(key, fragments, inLimit, outLimit) ==
  LET plaintext    == CopyInBuffers(fragments, inLimit)
      requiredSize == HeaderSize + inLimit + TagSize
  IN  IF requiredSize <= outLimit /\ plaintext # Nothing
      THEN Sealed(plaintext, requiredSize, key)
      ELSE Nothing

(* The part of DecryptCallback that has the key: the magic, the sizes, and *)
(* the tag, which only the key that made it can verify.                    *)
Decrypt(key, data, outLimit) ==
  IF /\ data.form = "sealed"
     /\ data.size >= HeaderSize + TagSize
     /\ data.size - HeaderSize - TagSize <= outLimit
     /\ data.key = key
  THEN data.of
  ELSE Nothing
=============================================================================
