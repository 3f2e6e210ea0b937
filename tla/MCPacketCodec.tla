---------------------------- MODULE MCPacketCodec -----------------------------
(* Instances of PacketCodec for TLC: bytes of eight values, samples of     *)
(* every packet, and what becomes of them when bytes are cut off, added or *)
(* sent on another channel.                                                *)
EXTENDS PacketCodec

AllChannels ==
  {"SECURE_SESSION_RELIABLE", "AUTH_RELIABLE", "GAME_RELIABLE", "GAME_UNRELIABLE", "outgoing",
   "unknown"}

(* Numbers that fill one digit, every digit with another value, or all.    *)
U32s == {1, 1 * 8 ^ 3 + 2 * 8 ^ 2 + 3 * 8 + 4, 8 ^ 4 - 1}
U64s == {5, 8 ^ 7 + 2 * 8 ^ 6 + 3 * 8 ^ 5 + 4 * 8 ^ 4 + 5 * 8 ^ 3 + 6 * 8 ^ 2 + 7 * 8, 8 ^ 8 - 1}

HelloSamples ==
  [networkProtocolVersion : U32s, clientPublicKey : {<<1, 2>>}, clientNonce : {<<3, 4>>, <<0, 7>>}]
AuthSamples == [authToken : {<<>>, <<1>>, <<1, 2>>}]
InputSamples ==
  [inputSequenceNumber : U32s, lastReceivedSnapshotId : U32s,
   movementHeldFlags : {1}, movementPressedFlags : {2}, movementReleasedFlags : {3},
   actionHeldFlags : {4}, actionPressedFlags : {5}, actionReleasedFlags : {6}]
SnapshotSamples ==
  [snapshotId : {0}, serverTick : U64s, serverTimeNs : U64s,
   lastProcessedInputSequenceNumber : U32s]

Samples(ch) ==
  CASE ch = "SECURE_SESSION_RELIABLE" -> {Serialized(Hello, v) : v \in HelloSamples}
    [] ch = "AUTH_RELIABLE"           -> {Serialized(Auth, v) : v \in AuthSamples}
    [] ch = "GAME_RELIABLE"           -> {Serialized(Ready, <<>>)}
    [] ch = "GAME_UNRELIABLE"         -> {Serialized(Input, v) : v \in InputSamples}
    [] ch = "outgoing"                -> {Serialized(SnapshotWritten, v) : v \in SnapshotSamples}
    [] OTHER                          -> {}

WrittenOnChannels == UNION {{<<ch, bytes>> : bytes \in Samples(ch)} : ch \in AllChannels}

TooLong == Serialized(Auth, [authToken |-> <<1, 2, 3>>])

CutAndExtended ==
  UNION {{SubSeq(w[2], 1, n) : n \in 0 .. Len(w[2])} \cup {Append(w[2], 0)} :
            w \in WrittenOnChannels \cup {<<"", TooLong>>}}

SignedDomain == <<7, 7>>
OneKey == {<<5, 6>>}
OneSignature == {<<1, 1>>}
TwoTimes == {0, 8 ^ 4 + 3}
Identifiers == {0, 1, 8 ^ 4 - 1}
=============================================================================
