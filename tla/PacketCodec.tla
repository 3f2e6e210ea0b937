------------------------------ MODULE PacketCodec -----------------------------
(***************************************************************************)
(* Packets as bytes: what the server makes of the bytes a client sent on a *)
(* channel (ByteReader and the deserialize functions), and the two places  *)
(* where it writes a packet from one it has read: the attested answer to a *)
(* hello, and the snapshot that is given its identifier as it leaves       *)
(* (src/src/network/serialization, src/src/crypto/signing.cpp).            *)
(*                                                                         *)
(* A deserialize function reads field after field and gives up at the      *)
(* first that does not fit; each read is a step, the state is the cursor   *)
(* and what was read so far.                                               *)
(***************************************************************************)
EXTENDS Naturals, Sequences

CONSTANTS
  Base,               \* values of a byte
  KeyBytes, NonceBytes, SignatureBytes,
  MaxAuthTokenLength, \* kMaxAuthTokenLength
  Domain,             \* kSecureSessionSigningDomain, as bytes
  Version,            \* SERVER_NETWORK_PROTOCOL_VERSION
  TTL,                \* SERVER_SECURE_SESSION_SIGNATURE_TTL_SECONDS
  Channels,           \* channels on which bytes arrive
  Inputs,             \* sequences of bytes that may arrive
  WellFormed,         \* those among them that a client, or the simulation, writes
  ServerKeys, Signatures, Times, SnapshotIds \* what the server writes by itself

Bytes == 0 .. Base - 1

ASSUME CodecAssumption ==
  /\ Base \in Nat /\ Base > 2
  /\ {KeyBytes, NonceBytes, SignatureBytes, MaxAuthTokenLength, TTL, Version} \subseteq Nat
  /\ Inputs \subseteq Seq(Bytes)
  /\ WellFormed \subseteq Channels \X Inputs
  /\ Domain \in Seq(Bytes)
  /\ ServerKeys \subseteq [1 .. KeyBytes -> Bytes]
  /\ Signatures \subseteq [1 .. SignatureBytes -> Bytes]
  /\ Times \subseteq Nat /\ SnapshotIds \subseteq Nat

VARIABLES
  channel, data,  \* what arrived
  packet,         \* the packet it is, once its type was read
  offset,         \* ByteReader::offset_
  next, read,     \* the field to be read next, and those read so far
  status,
  signed, reply   \* the message that was signed, and the bytes that were written

vars == <<channel, data, packet, offset, next, read, status, signed, reply>>

-----------------------------------------------------------------------------
(* Layouts: the type of a packet, then its fields, each of a width.        *)

Field(name, kind) == [name |-> name, kind |-> kind]

U8(name)  == Field(name, "u8")
U32(name) == Field(name, "u32")
U64(name) == Field(name, "u64")

Hello ==
  [type |-> 0, fields |-> <<U32("networkProtocolVersion"), Field("clientPublicKey", "key"),
                            Field("clientNonce", "nonce")>>]
Auth  == [type |-> 1, fields |-> <<Field("authToken", "string")>>]
Ready == [type |-> 2, fields |-> <<>>]
Input ==
  [type |-> 0,
   fields |-> <<U32("inputSequenceNumber"), U32("lastReceivedSnapshotId"),
                U8("movementHeldFlags"), U8("movementPressedFlags"), U8("movementReleasedFlags"),
                U8("actionHeldFlags"), U8("actionPressedFlags"), U8("actionReleasedFlags")>>]

(* The snapshot as deserializeServerSnapshotFullPacketUnreliable reads it. *)
SnapshotRead ==
  [type |-> 0, fields |-> <<U32("snapshotId"), U64("serverTick"), U64("serverTimeNs"),
                            U32("lastProcessedInputSequenceNumber")>>]

(* Mutant of SnapshotWritten: tick and time are exchanged.                 *)
SnapshotWrittenSwapped ==
  [type |-> 0, fields |-> <<U32("snapshotId"), U64("serverTimeNs"), U64("serverTick"),
                            U32("lastProcessedInputSequenceNumber")>>]

(* ... and as serializeServerSnapshotFullPacketUnreliable writes it.       *)
SnapshotWritten ==
  [type |-> 0, fields |-> <<U32("snapshotId"), U64("serverTick"), U64("serverTimeNs"),
                            U32("lastProcessedInputSequenceNumber")>>]

HelloResponse ==
  [type |-> 0,
   fields |-> <<U8("status"), Field("serverPublicKey", "key"), U64("issuedAtUnixSeconds"),
                U64("expiresAtUnixSeconds"), Field("clientNonceEcho", "nonce"),
                Field("signature", "signature")>>]

(* The packets a channel delivers; the game channels look at the type      *)
(* first, the others expect the one packet they know.                      *)
Delivers(ch) ==
  CASE ch = "SECURE_SESSION_RELIABLE" -> {Hello}
    [] ch = "AUTH_RELIABLE"           -> {Auth}
    [] ch = "GAME_RELIABLE"           -> {Ready}
    [] ch = "GAME_UNRELIABLE"         -> {Input}
    [] ch = "outgoing"                -> {SnapshotRead} \* the queue of the simulation
    [] OTHER                          -> {}

-----------------------------------------------------------------------------
(* ByteWriter.                                                             *)

Width(kind) ==
  CASE kind = "u8"  -> 1
    [] kind = "u16" -> 2
    [] kind = "u32" -> 4
    [] kind = "u64" -> 8
    [] kind = "key" -> KeyBytes
    [] kind = "nonce"     -> NonceBytes
    [] kind = "signature" -> SignatureBytes

(* n shifted to the right by 0, 1, ... width bytes.                        *)
Shifted(width, n) ==
  LET by[k \in 0 .. width] == IF k = 0 THEN n ELSE by[k - 1] \div Base
  IN  by

(* writeU8 to writeU64: the most significant byte first.                   *)
BigEndian(width, n) == [i \in 1 .. width |-> Shifted(width, n)[width - i] % Base]

Written(kind, v) ==
  CASE kind \in {"u8", "u32", "u64"} -> BigEndian(Width(kind), v)
    [] kind = "string"               -> BigEndian(Width("u16"), Len(v)) \o v
    [] OTHER                         -> v

(* The type and the first 0, 1, ... fields.                                *)
Prefixes(layout, values) ==
  LET upTo[i \in 0 .. Len(layout.fields)] ==
        IF i = 0 THEN <<layout.type>>
        ELSE upTo[i - 1] \o Written(layout.fields[i].kind, values[layout.fields[i].name])
  IN  upTo

Serialized(layout, values) == Prefixes(layout, values)[Len(layout.fields)]

-----------------------------------------------------------------------------
(* ByteReader.                                                             *)

CanRead(from, n) == from + n <= Len(data)

(* The n bytes at from, as far as there are so many.                       *)
At(from, n) == [i \in {k \in 1 .. n : from + k \in DOMAIN data} |-> data[from + i]]

(* The numbers that the first 0, 1, ... bytes are.                         *)
Numbers(bytes) ==
  LET upTo[i \in 0 .. Len(bytes)] == IF i = 0 THEN 0 ELSE upTo[i - 1] * Base + bytes[i]
  IN  upTo

Number(bytes) == Numbers(bytes)[Len(bytes)]

(* The length of the string at the cursor, as readU16 reads it.            *)
StringLength == data[offset + 1] * Base + data[offset + 2]

(* Mutant of StringFits: the longest token is refused.                     *)
StringFitsLess ==
  /\ CanRead(offset, Width("u16"))
  /\ StringLength < MaxAuthTokenLength
  /\ CanRead(offset + Width("u16"), StringLength)

(* Mutant of StringFits: the length is believed.                           *)
StringFitsUnchecked ==
  /\ CanRead(offset, Width("u16"))
  /\ StringLength <= MaxAuthTokenLength

(* readString has a limit of its own.                                      *)
StringFits ==
  /\ CanRead(offset, Width("u16"))
  /\ StringLength <= MaxAuthTokenLength
  /\ CanRead(offset + Width("u16"), StringLength)

(* Does a field fit, how many bytes does it take, and what is it?          *)
Fits(kind)  == IF kind = "string" THEN StringFits ELSE CanRead(offset, Width(kind))
Taken(kind) == IF kind = "string" THEN Width("u16") + StringLength ELSE Width(kind)

Value(kind) ==
  CASE kind \in {"u8", "u32", "u64"} -> Number(At(offset, Width(kind)))
    [] kind = "string"               -> At(offset + Width("u16"), StringLength)
    [] OTHER                         -> At(offset, Width(kind))

Nothing == [type |-> Base, fields |-> <<>>]

(* The type is the first byte.                                             *)
ReadType ==
  /\ status = "start"
  /\ IF CanRead(0, 1) /\ \E p \in Delivers(channel) : p.type = data[1]
     THEN /\ packet' = CHOOSE p \in Delivers(channel) : p.type = data[1]
          /\ status' = "reading" /\ offset' = 1
     ELSE status' = "refused" /\ UNCHANGED <<packet, offset>>
  /\ UNCHANGED <<channel, data, next, read, signed, reply>>

(* The next field, if it fits.                                             *)
ReadField ==
  /\ status = "reading" /\ next <= Len(packet.fields)
  /\ LET field == packet.fields[next] IN
       IF Fits(field.kind)
       THEN /\ offset' = offset + Taken(field.kind)
            /\ read' = [name \in DOMAIN read \cup {field.name} |->
                          IF name = field.name THEN Value(field.kind) ELSE read[name]]
            /\ next' = next + 1
            /\ UNCHANGED status
       ELSE status' = "refused" /\ UNCHANGED <<offset, next, read>>
  /\ UNCHANGED <<channel, data, packet, signed, reply>>

(* Mutant of Ends: bytes may be left over.                                 *)
EndsAnywhere == offset <= Len(data)

(* ByteReader::empty: nothing is left over.                                *)
Ends == offset = Len(data)

Finish ==
  /\ status = "reading" /\ next > Len(packet.fields)
  /\ status' = IF Ends THEN "accepted" ELSE "refused"
  /\ UNCHANGED <<channel, data, packet, offset, next, read, signed, reply>>

-----------------------------------------------------------------------------
(* What is written from a packet that was read.                            *)

(* The snapshot gets its identifier and is written again.                  *)
PatchSnapshot(snapshotId) ==
  /\ status = "accepted" /\ packet = SnapshotRead
  /\ reply' = Serialized(SnapshotWritten, [read EXCEPT !.snapshotId = snapshotId])
  /\ status' = "answered"
  /\ UNCHANGED <<channel, data, packet, offset, next, read, signed>>

(* Mutant of SecureSessionMessage: the echo of the nonce is left out.      *)
SecureSessionMessageWithoutEcho(payload) ==
  Domain \o payload.serverPublicKey \o BigEndian(Width("u64"), payload.issuedAtUnixSeconds)
         \o BigEndian(Width("u64"), payload.expiresAtUnixSeconds)

(* ServerCryptoSigning_BuildSecureSessionMessage.                          *)
SecureSessionMessage(payload) ==
  Domain \o payload.serverPublicKey \o BigEndian(Width("u64"), payload.issuedAtUnixSeconds)
         \o BigEndian(Width("u64"), payload.expiresAtUnixSeconds) \o payload.clientNonceEcho

Zeros(n) == [i \in 1 .. n |-> 0]

NoAttestation ==
  [status |-> 1, serverPublicKey |-> Zeros(KeyBytes), issuedAtUnixSeconds |-> 0,
   expiresAtUnixSeconds |-> 0, clientNonceEcho |-> Zeros(NonceBytes),
   signature |-> Zeros(SignatureBytes)]

Attestation(serverKey, now) ==
  [NoAttestation EXCEPT !.serverPublicKey = serverKey, !.issuedAtUnixSeconds = now,
                        !.expiresAtUnixSeconds = now + TTL, !.clientNonceEcho = read.clientNonce]

(* A hello of the right version reaches its handler: a key it cannot use,  *)
(* an attestation that was signed, or one that could not be.               *)
AnswerHello(serverKey, signature, now) ==
  /\ status = "accepted" /\ packet = Hello /\ read.networkProtocolVersion = Version
  /\ LET attestation == Attestation(serverKey, now) IN
       \/ /\ reply' = Serialized(HelloResponse, NoAttestation)
          /\ UNCHANGED signed
       \/ /\ signed' = SecureSessionMessage(attestation)
          /\ reply' = Serialized(HelloResponse, [attestation EXCEPT !.status = 0,
                                                                    !.signature = signature])
       \/ /\ reply' = Serialized(HelloResponse, [attestation EXCEPT !.status = 2])
          /\ UNCHANGED signed
  /\ status' = "answered"
  /\ UNCHANGED <<channel, data, packet, offset, next, read>>

-----------------------------------------------------------------------------

Init ==
  /\ channel \in Channels /\ data \in Inputs
  /\ packet = Nothing /\ offset = 0 /\ next = 1 /\ read = [name \in {} |-> 0]
  /\ status = "start" /\ signed = <<>> /\ reply = <<>>

Next ==
  \/ ReadType \/ ReadField \/ Finish
  \/ \E id \in SnapshotIds : PatchSnapshot(id)
  \/ \E key \in ServerKeys, signature \in Signatures, now \in Times :
       AnswerHello(key, signature, now)

Spec == Init /\ [][Next]_vars

-----------------------------------------------------------------------------

(* The cursor of the reader stays within the bytes that arrived.           *)
CursorInBounds == offset <= Len(data)

TypeOK ==
  /\ channel \in Channels /\ data \in Inputs
  /\ packet \in Delivers(channel) \cup {Nothing}
  /\ offset \in Nat /\ CursorInBounds
  /\ next \in 1 .. Len(packet.fields) + 1
  /\ DOMAIN read = {packet.fields[i].name : i \in 1 .. next - 1}
  /\ status = "start" => next = 1
  /\ status \in {"start", "reading", "refused", "accepted", "answered"}

(* Whatever is accepted is, byte for byte, what its fields are written as: *)
(* none is read twice, in another order or not at all, and no bytes are    *)
(* left over at the end.                                                   *)
AcceptedIsWhole ==
  status \in {"accepted", "answered"} => data = Serialized(packet, read)

(* What a client writes for a channel is never refused, at the limits of   *)
(* the fields and of the token either.                                     *)
WellFormedIsAccepted ==
  status = "refused" => <<channel, data>> \notin WellFormed

(* The bytes of the answer to a hello that a client reads are those the    *)
(* server signed, in the order signing.cpp:35 demands, and the nonce is    *)
(* the one in the bytes of that very hello: the client can verify the      *)
(* signature from the answer alone.                                        *)
AttestationVerifies ==
  (status = "answered" /\ packet = Hello /\ reply[2] = 0) =>
    /\ signed = Domain \o SubSeq(reply, 3, 18 + KeyBytes + NonceBytes)
    /\ SubSeq(reply, 19 + KeyBytes, 18 + KeyBytes + NonceBytes)
         = SubSeq(data, Len(data) - NonceBytes + 1, Len(data))

(* Reading a snapshot, giving it an identifier and writing it again        *)
(* changes the bytes of the identifier and nothing else.                   *)
PatchKeepsSnapshot ==
  (status = "answered" /\ packet = SnapshotRead) =>
    /\ Len(reply) = Len(data)
    /\ \A i \in DOMAIN data \ (2 .. 5) : reply[i] = data[i]
=============================================================================
