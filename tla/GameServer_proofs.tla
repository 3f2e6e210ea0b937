--------------------------- MODULE GameServer_proofs -------------------------
(***************************************************************************)
(* The safety of the client sessions, for any number of slots, connections *)
(* and keys: IInv is inductive and implies the safety properties.          *)
(*                                                                         *)
(* The first lemmas say what a push and a removal do to the two pipelines, *)
(* Pending and UnderValidation, whatever queue or batch they touch; the    *)
(* steps of the threads are then argued about with Waiting, Validating and *)
(* AnswerUnderWay, and without sequences.                                  *)
(***************************************************************************)
EXTENDS GameServerTypes_proofs

-----------------------------------------------------------------------------
(* Concatenations.                                                         *)

LEMMA ConcatAppend ==
  ASSUME NEW S, NEW s \in Seq(S), NEW t \in Seq(S), NEW x \in S
  PROVE  s \o Append(t, x) = Append(s \o t, x)
<1>1. Append(t, x) = t \o <<x>>
  BY AppendIsConcat
<1>2. s \o t \in Seq(S) /\ <<x>> \in Seq(S)
  BY ConcatProperties
<1>3. Append(s \o t, x) = (s \o t) \o <<x>>
  BY <1>2, AppendIsConcat
<1> QED  BY <1>1, <1>2, <1>3, ConcatAssociative

LEMMA ConcatTail ==
  ASSUME NEW S, NEW s \in Seq(S), NEW t \in Seq(S), s # <<>>
  PROVE  /\ s \o t # <<>>
         /\ Head(s \o t) = Head(s)
         /\ Tail(s \o t) = Tail(s) \o t
<1>1. s \o t \in Seq(S) /\ Len(s \o t) = Len(s) + Len(t)
  BY ConcatProperties
<1>2. Len(s) \in Nat \ {0} /\ Len(t) \in Nat
  BY EmptySeq, LenProperties
<1>3. s \o t # <<>>
  BY <1>1, <1>2
<1>4. Head(s \o t) = Head(s)
  BY <1>1, <1>2, <1>3, ConcatProperties
<1>5. /\ Tail(s \o t) \in Seq(S) /\ Tail(s) \in Seq(S)
      /\ Tail(s) \o t \in Seq(S)
  BY <1>1, <1>3, HeadTailProperties, ConcatProperties
<1>6. Len(Tail(s \o t)) = Len(Tail(s) \o t)
  BY <1>1, <1>2, <1>3, <1>5, HeadTailProperties, ConcatProperties
<1>7. ASSUME NEW i \in 1 .. Len(Tail(s \o t))
      PROVE  Tail(s \o t)[i] = (Tail(s) \o t)[i]
  <2>1. Tail(s \o t)[i] = (s \o t)[i + 1] /\ i + 1 \in 1 .. Len(s) + Len(t)
    BY <1>1, <1>2, <1>3, HeadTailProperties
  <2>2. (s \o t)[i + 1] = IF i + 1 <= Len(s) THEN s[i + 1] ELSE t[i + 1 - Len(s)]
    BY <2>1, ConcatProperties
  <2>3. Len(Tail(s)) = Len(s) - 1 /\ \A j \in 1 .. Len(Tail(s)) : Tail(s)[j] = s[j + 1]
    BY HeadTailProperties
  <2>4. i \in 1 .. Len(Tail(s)) + Len(t)
    BY <1>5, <1>6, ConcatProperties
  <2>5. (Tail(s) \o t)[i] = IF i <= Len(Tail(s)) THEN Tail(s)[i] ELSE t[i - Len(Tail(s))]
    BY <1>5, <2>4, ConcatProperties
  <2>6. CASE i <= Len(s) - 1
    BY <1>2, <2>1, <2>2, <2>3, <2>5, <2>6
  <2>7. CASE ~(i <= Len(s) - 1)
    <3>1. i + 1 - Len(s) = i - Len(Tail(s))  BY <1>2, <2>3
    <3> QED  BY <1>2, <2>1, <2>2, <2>3, <2>5, <2>7, <3>1
  <2> QED  BY <2>6, <2>7
<1> QED  BY <1>3, <1>4, <1>5, <1>6, <1>7, SeqEqual

(* Moving the first element of a sequence to the end of the one before it  *)
(* leaves their concatenation as it was.                                   *)
LEMMA ConcatMove ==
  ASSUME NEW S, NEW s \in Seq(S), NEW t \in Seq(S), t # <<>>
  PROVE  Append(s, Head(t)) \o Tail(t) = s \o t
<1> DEFINE h == Head(t)
           u == Tail(t)
<1>1. h \in S /\ u \in Seq(S) /\ <<h>> \in Seq(S)
  BY HeadTailProperties
<1>2. <<h>> \o u = t
  <2>1. /\ Len(t) \in Nat \ {0} /\ Len(u) = Len(t) - 1 /\ h = t[1]
        /\ \A i \in 1 .. Len(t) - 1 : u[i] = t[i + 1]
    BY EmptySeq, HeadTailProperties
  <2> HIDE DEF h, u
  <2>2. <<h>> \o u \in Seq(S) /\ Len(<<h>> \o u) = Len(t)
    BY <1>1, <2>1, ConcatProperties
  <2>3. ASSUME NEW i \in 1 .. Len(t)
        PROVE  (<<h>> \o u)[i] = t[i]
    <3>1. (<<h>> \o u)[i] = IF i <= 1 THEN <<h>>[i] ELSE u[i - 1]
      BY <1>1, <2>1, ConcatProperties
    <3> QED  BY <2>1, <3>1
  <2> QED  BY <2>2, <2>3, SeqEqual
<1> HIDE DEF h, u
<1>3. Append(s, h) = s \o <<h>>
  BY <1>1, AppendIsConcat
<1>4. (s \o <<h>>) \o u = s \o (<<h>> \o u)
  BY <1>1, ConcatAssociative
<1> QED  BY <1>2, <1>3, <1>4 DEF h, u

-----------------------------------------------------------------------------
(* Pending.                                                                *)

LEMMA PendingType == TypeOK => Pending \in Seq(NetworkINToSimulationMessage)
BY ConcatProperties DEF TypeOK, Pending

LEMMA PendingSame ==
  ASSUME Pending' = Pending
  PROVE  /\ \A type, c : Waiting(type, c)' <=> Waiting(type, c)
         /\ MessagesFramed => MessagesFramed'
BY DEF Waiting, MessagesFramed

(* A push by the network thread.  The order of the messages is kept if     *)
(* nothing of the connection is waiting behind which m must not come.      *)
LEMMA PendingPushed ==
  ASSUME TypeOK, NEW m \in NetworkINToSimulationMessage,
         netToSim' = Append(netToSim, m), UNCHANGED simNetBatch
  PROVE  /\ \A type, c : Waiting(type, c)' <=>
              Waiting(type, c) \/ (m.type = type /\ m.connectionId = c)
         /\ (/\ MessagesFramed
             /\ ~Waiting("DISCONNECT", m.connectionId)
             /\ m.type = "CONNECT" =>
                  \A type \in NetMessageTypes : ~Waiting(type, m.connectionId))
              => MessagesFramed'
<1> DEFINE P == Pending
           n == Len(Pending)
<1>1. P \in Seq(NetworkINToSimulationMessage) /\ n \in Nat
  BY PendingType, LenProperties
<1>2. Pending' = Append(P, m)
  BY ConcatAppend DEF TypeOK, Pending
<1>3. /\ Len(Pending') = n + 1
      /\ \A i \in 1 .. n : Pending'[i] = P[i]
      /\ Pending'[n + 1] = m
  BY <1>1, <1>2, AppendProperties
<1> HIDE DEF P, n
<1>4. 1 .. n + 1 = 1 .. n \cup {n + 1}
  BY <1>1
<1>5. ASSUME NEW type, NEW c
      PROVE  Waiting(type, c)' <=> Waiting(type, c) \/ (m.type = type /\ m.connectionId = c)
  BY <1>1, <1>3, <1>4 DEF Waiting, P, n
<1>6. ASSUME MessagesFramed, ~Waiting("DISCONNECT", m.connectionId),
             m.type = "CONNECT" => \A type \in NetMessageTypes : ~Waiting(type, m.connectionId)
      PROVE  MessagesFramed'
  <2> SUFFICES ASSUME NEW i \in 1 .. n + 1, NEW j \in 1 .. n + 1,
                      i < j, Pending'[i].connectionId = Pending'[j].connectionId
               PROVE  Pending'[i].type # "DISCONNECT" /\ Pending'[j].type # "CONNECT"
    BY <1>3 DEF MessagesFramed
  <2>1. i \in 1 .. n  BY <1>1
  <2>2. P[i] \in NetworkINToSimulationMessage  BY <1>1, <2>1, ElementOfSeq DEF n, P
  <2>3. CASE j \in 1 .. n
    BY <1>3, <1>6, <2>1, <2>3 DEF MessagesFramed, P, n
  <2>4. CASE j = n + 1
    <3>1. Pending'[j] = m /\ Pending'[i] = P[i]  BY <1>3, <2>1, <2>4
    <3>2. P[i].type \in NetMessageTypes  BY <2>2 DEF NetworkINToSimulationMessage
    <3>3. Waiting(P[i].type, m.connectionId)  BY <2>1, <3>1 DEF Waiting, P, n
    <3> QED  BY <1>6, <3>1, <3>2, <3>3
  <2> QED  BY <1>4, <2>3, <2>4
<1> QED  BY <1>5, <1>6

(* A handler of the simulation takes the first message: after a DISCONNECT *)
(* nothing of the connection is left, and its CONNECT never comes again.   *)
LEMMA PendingTaken ==
  ASSUME TypeOK, MessagesFramed, NEW msg,
         simNetBatch # <<>>, msg = Head(simNetBatch),
         simNetBatch' = Tail(simNetBatch), UNCHANGED netToSim
  PROVE  /\ msg \in NetworkINToSimulationMessage
         /\ Waiting(msg.type, msg.connectionId)
         /\ \A type, c : Waiting(type, c)' => Waiting(type, c)
         /\ \A type, c : Waiting(type, c) =>
              Waiting(type, c)' \/ (type = msg.type /\ c = msg.connectionId)
         /\ ~Waiting("CONNECT", msg.connectionId)'
         /\ msg.type = "DISCONNECT" => \A type : ~Waiting(type, msg.connectionId)'
         /\ MessagesFramed'
<1> DEFINE P == Pending
           n == Len(Pending)
<1>1. P \in Seq(NetworkINToSimulationMessage) /\ n \in Nat
  BY PendingType, LenProperties
<1>2. P # <<>> /\ Head(P) = msg /\ Pending' = Tail(P)
  BY ConcatTail DEF TypeOK, Pending
<1>3. /\ n \in Nat \ {0} /\ P[1] = msg
      /\ Len(Pending') = n - 1
      /\ \A i \in 1 .. n - 1 : Pending'[i] = P[i + 1]
      /\ msg \in NetworkINToSimulationMessage
  BY <1>1, <1>2, HeadTailProperties, EmptySeq
<1> HIDE DEF P, n
<1>4. Waiting(msg.type, msg.connectionId)
  BY <1>3 DEF Waiting, P, n
<1>5. ASSUME NEW type, NEW c, Waiting(type, c)'
      PROVE  Waiting(type, c)
  <2>1. PICK i \in 1 .. n - 1 : Pending'[i].type = type /\ Pending'[i].connectionId = c
    BY <1>3, <1>5 DEF Waiting
  <2>2. i + 1 \in 1 .. n /\ P[i + 1] = Pending'[i]  BY <1>3
  <2> QED  BY <2>1, <2>2 DEF Waiting, P, n
<1>6. ASSUME NEW type, NEW c, Waiting(type, c)
      PROVE  Waiting(type, c)' \/ (type = msg.type /\ c = msg.connectionId)
  <2>1. PICK i \in 1 .. n : P[i].type = type /\ P[i].connectionId = c
    BY <1>6 DEF Waiting, P, n
  <2>2. CASE i = 1  BY <1>3, <2>1, <2>2
  <2>3. CASE i # 1
    <3>1. i - 1 \in 1 .. n - 1 /\ Pending'[i - 1] = P[i]  BY <1>3, <2>3
    <3> QED  BY <1>3, <2>1, <3>1 DEF Waiting
  <2> QED  BY <2>2, <2>3
<1>7. ASSUME NEW i \in 1 .. n - 1, Pending'[i].connectionId = msg.connectionId
      PROVE  Pending'[i].type # "CONNECT" /\ msg.type # "DISCONNECT"
  <2>1. i + 1 \in 1 .. n /\ 1 \in 1 .. n /\ 1 < i + 1 /\ P[i + 1] = Pending'[i]  BY <1>3
  <2> QED  BY <1>3, <1>7, <2>1 DEF MessagesFramed, P, n
<1>8. MessagesFramed'
  <2> SUFFICES ASSUME NEW i \in 1 .. n - 1, NEW j \in 1 .. n - 1,
                      i < j, Pending'[i].connectionId = Pending'[j].connectionId
               PROVE  Pending'[i].type # "DISCONNECT" /\ Pending'[j].type # "CONNECT"
    BY <1>3 DEF MessagesFramed
  <2>1. /\ i + 1 \in 1 .. n /\ j + 1 \in 1 .. n /\ i + 1 < j + 1
        /\ P[i + 1] = Pending'[i] /\ P[j + 1] = Pending'[j]
    BY <1>3
  <2> QED  BY <2>1 DEF MessagesFramed, P, n
<1> QED
  BY <1>3, <1>4, <1>5, <1>6, <1>7, <1>8 DEF Waiting
-----------------------------------------------------------------------------
(* UnderValidation.                                                        *)

LEMMA IdsOfFacts ==
  ASSUME NEW q \in Seq(HttpToSimulationMessage)
  PROVE  /\ IdsOf(q) \in Seq(ConnectionIds)
         /\ Len(IdsOf(q)) = Len(q)
         /\ \A i \in 1 .. Len(q) : IdsOf(q)[i] = q[i].connectionId
<1>1. Len(q) \in Nat /\ \A i \in 1 .. Len(q) : q[i] \in HttpToSimulationMessage
  BY LenProperties, ElementOfSeq
<1>2. \A i \in 1 .. Len(q) : q[i].connectionId \in ConnectionIds
  BY <1>1 DEF HttpToSimulationMessage
<1>3. IdsOf(q) \in [1 .. Len(q) -> ConnectionIds]
  BY <1>2 DEF IdsOf
<1> QED  BY <1>1, <1>3 DEF IdsOf

LEMMA IdsOfAppend ==
  ASSUME NEW q \in Seq(HttpToSimulationMessage), NEW m \in HttpToSimulationMessage
  PROVE  IdsOf(Append(q, m)) = Append(IdsOf(q), m.connectionId)
<1> DEFINE r == Append(q, m)
           R == IdsOf(r)
           Q == IdsOf(q)
           x == m.connectionId
<1>1. /\ r \in Seq(HttpToSimulationMessage)
      /\ Len(q) \in Nat /\ Len(r) = Len(q) + 1
      /\ r[Len(q) + 1] = m /\ \A i \in 1 .. Len(q) : r[i] = q[i]
  BY AppendProperties, LenProperties
<1>2. x \in ConnectionIds  BY DEF HttpToSimulationMessage
<1> HIDE DEF r
<1>3. /\ R \in Seq(ConnectionIds) /\ Len(R) = Len(r)
      /\ \A i \in 1 .. Len(r) : R[i] = r[i].connectionId
      /\ Q \in Seq(ConnectionIds) /\ Len(Q) = Len(q)
      /\ \A i \in 1 .. Len(q) : Q[i] = q[i].connectionId
  BY <1>1, IdsOfFacts
<1> HIDE DEF R, Q
<1>4. /\ Append(Q, x) \in Seq(ConnectionIds) /\ Len(Append(Q, x)) = Len(Q) + 1
      /\ \A i \in 1 .. Len(Q) : Append(Q, x)[i] = Q[i]
      /\ Append(Q, x)[Len(Q) + 1] = x
  BY <1>2, <1>3, AppendProperties
<1>5. ASSUME NEW i \in 1 .. Len(R)
      PROVE  R[i] = Append(Q, x)[i]
  BY <1>1, <1>3, <1>4
<1>6. R = Append(Q, x)
  <2> HIDE DEF x
  <2> QED  BY <1>1, <1>3, <1>4, <1>5, SeqEqual
<1> QED  BY <1>6 DEF R, Q, r

LEMMA IdsOfTail ==
  ASSUME NEW q \in Seq(HttpToSimulationMessage), q # <<>>
  PROVE  /\ IdsOf(q) # <<>>
         /\ Head(IdsOf(q)) = Head(q).connectionId
         /\ IdsOf(Tail(q)) = Tail(IdsOf(q))
<1>1. /\ Len(q) \in Nat \ {0}
      /\ Tail(q) \in Seq(HttpToSimulationMessage) /\ Len(Tail(q)) = Len(q) - 1
      /\ \A i \in 1 .. Len(q) - 1 : Tail(q)[i] = q[i + 1]
  BY EmptySeq, HeadTailProperties
<1>2. IdsOf(q) # <<>>  BY <1>1, IdsOfFacts
<1>3. Head(IdsOf(q)) = Head(q).connectionId  BY <1>1, <1>2, IdsOfFacts
<1>4. /\ IdsOf(Tail(q)) \in Seq(ConnectionIds) /\ Len(IdsOf(Tail(q))) = Len(q) - 1
      /\ Tail(IdsOf(q)) \in Seq(ConnectionIds) /\ Len(Tail(IdsOf(q))) = Len(q) - 1
  BY <1>1, <1>2, IdsOfFacts, HeadTailProperties
<1>5. ASSUME NEW i \in 1 .. Len(q) - 1
      PROVE  IdsOf(Tail(q))[i] = Tail(IdsOf(q))[i]
  <2>1. IdsOf(Tail(q))[i] = q[i + 1].connectionId
    <3>1. IdsOf(Tail(q))[i] = Tail(q)[i].connectionId  BY <1>1, IdsOfFacts
    <3> QED  BY <1>1, <3>1
  <2>2. Tail(IdsOf(q))[i] = IdsOf(q)[i + 1]  BY <1>2, <1>4, IdsOfFacts, HeadTailProperties
  <2>3. i + 1 \in 1 .. Len(q)  BY <1>1
  <2> QED  BY <2>1, <2>2, <2>3, IdsOfFacts
<1> QED  BY <1>2, <1>3, <1>4, <1>5, SeqEqual

(* The pieces of UnderValidation, and the pieces put together.             *)
LEMMA ValidationTypes ==
  ASSUME TypeOK
  PROVE  /\ IdsOf(simHttpBatch) \in Seq(ConnectionIds)
         /\ IdsOf(httpToSim) \in Seq(ConnectionIds)
         /\ httpBatch \in Seq(ConnectionIds) /\ simToHttp \in Seq(ConnectionIds)
         /\ UnderValidation \in Seq(ConnectionIds)
<1>1. /\ IdsOf(simHttpBatch) \in Seq(ConnectionIds)
      /\ IdsOf(httpToSim) \in Seq(ConnectionIds)
      /\ httpBatch \in Seq(ConnectionIds) /\ simToHttp \in Seq(ConnectionIds)
  BY IdsOfFacts DEF TypeOK
<1> QED  BY <1>1, ConcatProperties DEF UnderValidation

LEMMA ValidationsSame ==
  ASSUME UnderValidation' = UnderValidation
  PROVE  /\ \A c : Validating(c)' <=> Validating(c)
         /\ ValidationsDistinct => ValidationsDistinct'
BY DEF Validating, ValidationsDistinct

(* A request is pushed for a connection that has none.                     *)
LEMMA ValidationRequested ==
  ASSUME TypeOK, ValidationsDistinct, NEW c \in ConnectionIds, ~Validating(c),
         simToHttp' = Append(simToHttp, c), UNCHANGED <<httpBatch, httpToSim, simHttpBatch>>
  PROVE  /\ \A d : Validating(d)' <=> Validating(d) \/ d = c
         /\ ValidationsDistinct'
<1> DEFINE U == UnderValidation
           n == Len(UnderValidation)
<1>1. UnderValidation' = Append(U, c)
  <2> DEFINE V == IdsOf(simHttpBatch) \o IdsOf(httpToSim)
  <2>1. V \in Seq(ConnectionIds)  BY ValidationTypes, ConcatProperties
  <2>2. V \o httpBatch \in Seq(ConnectionIds)  BY <2>1, ValidationTypes, ConcatProperties
  <2> HIDE DEF V
  <2>3. (V \o httpBatch) \o Append(simToHttp, c) = Append((V \o httpBatch) \o simToHttp, c)
    BY <2>2, ValidationTypes, ConcatAppend
  <2> QED  BY <2>3 DEF UnderValidation, V, IdsOf
<1>2. /\ n \in Nat /\ Len(UnderValidation') = n + 1
      /\ \A i \in 1 .. n : UnderValidation'[i] = U[i]
      /\ UnderValidation'[n + 1] = c
  BY <1>1, ValidationTypes, AppendProperties, LenProperties
<1> HIDE DEF U, n
<1>3. 1 .. n + 1 = 1 .. n \cup {n + 1}  BY <1>2
<1>4. ASSUME NEW d PROVE Validating(d)' <=> Validating(d) \/ d = c
  BY <1>2, <1>3 DEF Validating, U, n
<1>5. ASSUME NEW i \in 1 .. n + 1, NEW j \in 1 .. n + 1, i < j
      PROVE  UnderValidation'[i] # UnderValidation'[j]
  <2>1. i \in 1 .. n  BY <1>2, <1>5
  <2>2. CASE j = n + 1  BY <1>2, <2>1, <2>2 DEF Validating, U, n
  <2>3. CASE j \in 1 .. n
    BY <1>2, <1>5, <2>1, <2>3 DEF ValidationsDistinct, U, n
  <2> QED  BY <1>3, <2>2, <2>3
<1>6. ValidationsDistinct'  BY <1>2, <1>5 DEF ValidationsDistinct
<1> QED  BY <1>4, <1>6

(* The simulation takes the first answer: it was the only one.             *)
LEMMA ValidationTaken ==
  ASSUME TypeOK, ValidationsDistinct, NEW c, simHttpBatch # <<>>,
         c = Head(simHttpBatch).connectionId, simHttpBatch' = Tail(simHttpBatch),
         UNCHANGED <<simToHttp, httpBatch, httpToSim>>
  PROVE  /\ c \in ConnectionIds
         /\ Validating(c) /\ ~Validating(c)'
         /\ \A d : d # c => (Validating(d)' <=> Validating(d))
         /\ ValidationsDistinct'
<1> DEFINE U == UnderValidation
           n == Len(UnderValidation)
<1>1. U # <<>> /\ Head(U) = c /\ UnderValidation' = Tail(U)
  <2> DEFINE A == IdsOf(simHttpBatch)
             B == IdsOf(httpToSim)
  <2>1. /\ A # <<>> /\ Head(A) = c /\ IdsOf(simHttpBatch') = Tail(A)
        /\ A \in Seq(ConnectionIds) /\ B \in Seq(ConnectionIds)
        /\ httpBatch \in Seq(ConnectionIds) /\ simToHttp \in Seq(ConnectionIds)
    BY IdsOfTail, ValidationTypes DEF TypeOK
  <2> HIDE DEF A, B
  <2>2. /\ A \o B \in Seq(ConnectionIds) /\ A \o B # <<>> /\ Head(A \o B) = c
        /\ Tail(A \o B) = Tail(A) \o B
    BY <2>1, ConcatTail, ConcatProperties
  <2>3. /\ (A \o B) \o httpBatch \in Seq(ConnectionIds) /\ (A \o B) \o httpBatch # <<>>
        /\ Head((A \o B) \o httpBatch) = c
        /\ Tail((A \o B) \o httpBatch) = (Tail(A) \o B) \o httpBatch
    BY <2>1, <2>2, ConcatTail, ConcatProperties
  <2>4. /\ ((A \o B) \o httpBatch) \o simToHttp # <<>>
        /\ Head(((A \o B) \o httpBatch) \o simToHttp) = c
        /\ Tail(((A \o B) \o httpBatch) \o simToHttp)
              = ((Tail(A) \o B) \o httpBatch) \o simToHttp
    <3> DEFINE W == (A \o B) \o httpBatch
    <3>1. W \in Seq(ConnectionIds) /\ W # <<>> /\ Head(W) = c
      BY <2>3
    <3>2. /\ W \o simToHttp # <<>> /\ Head(W \o simToHttp) = Head(W)
          /\ Tail(W \o simToHttp) = Tail(W) \o simToHttp
      <4> HIDE DEF W
      <4> QED  BY <2>1, <3>1, ConcatTail
    <3> QED  BY <2>3, <3>1, <3>2
  <2>5. UnderValidation' = ((Tail(A) \o B) \o httpBatch) \o simToHttp
    BY <2>1 DEF UnderValidation, B, IdsOf
  <2> QED  BY <2>4, <2>5 DEF UnderValidation, A, B
<1>2. /\ U \in Seq(ConnectionIds)
      /\ n \in Nat \ {0} /\ U[1] = c /\ Len(UnderValidation') = n - 1
      /\ \A i \in 1 .. n - 1 : UnderValidation'[i] = U[i + 1]
  BY <1>1, ValidationTypes, EmptySeq, HeadTailProperties
<1>3. c \in ConnectionIds  BY <1>2, ElementOfSeq DEF n
<1> HIDE DEF U, n
<1>4. Validating(c)  BY <1>2 DEF Validating, U, n
<1>5. ASSUME NEW i \in 1 .. n - 1 PROVE UnderValidation'[i] # c
  <2>1. i + 1 \in 1 .. n /\ 1 \in 1 .. n /\ 1 < i + 1  BY <1>2
  <2> QED  BY <1>2, <2>1 DEF ValidationsDistinct, U, n
<1>6. ~Validating(c)'  BY <1>2, <1>5 DEF Validating
<1>7. ASSUME NEW d, d # c PROVE Validating(d)' <=> Validating(d)
  <2>1. ASSUME Validating(d)' PROVE Validating(d)
    <3>1. PICK i \in 1 .. n - 1 : UnderValidation'[i] = d  BY <1>2, <2>1 DEF Validating
    <3>2. i + 1 \in 1 .. n /\ U[i + 1] = d  BY <1>2, <3>1
    <3> QED  BY <3>2 DEF Validating, U, n
  <2>2. ASSUME Validating(d) PROVE Validating(d)'
    <3>1. PICK i \in 1 .. n : U[i] = d  BY <2>2 DEF Validating, U, n
    <3>2. i # 1  BY <1>2, <1>7, <3>1
    <3>3. i - 1 \in 1 .. n - 1 /\ UnderValidation'[i - 1] = d  BY <1>2, <3>1, <3>2
    <3> QED  BY <1>2, <3>3 DEF Validating
  <2> QED  BY <2>1, <2>2
<1>8. ASSUME NEW i \in 1 .. n - 1, NEW j \in 1 .. n - 1, i < j
      PROVE  UnderValidation'[i] # UnderValidation'[j]
  <2>1. i + 1 \in 1 .. n /\ j + 1 \in 1 .. n /\ i + 1 < j + 1  BY <1>2, <1>8
  <2> QED  BY <1>2, <2>1 DEF ValidationsDistinct, U, n
<1>9. ValidationsDistinct'  BY <1>2, <1>8 DEF ValidationsDistinct
<1> QED  BY <1>3, <1>4, <1>6, <1>7, <1>9

(* The HTTP thread only moves what is under validation.                    *)
LEMMA ValidationMoved ==
  ASSUME TypeOK,
         \/ DrainRequests
         \/ \E isValid \in BOOLEAN : ValidateToken(isValid)
         \/ DrainQueues
  PROVE  UnderValidation' = UnderValidation
<1>1. CASE DrainRequests
  <2>1. httpBatch = <<>> /\ httpBatch' = simToHttp /\ simToHttp' = <<>>
        /\ UNCHANGED <<httpToSim, simHttpBatch>>
    BY <1>1 DEF DrainRequests
  <2> DEFINE A == IdsOf(simHttpBatch) \o IdsOf(httpToSim)
  <2>2. A \in Seq(ConnectionIds) /\ simToHttp \in Seq(ConnectionIds)
    BY ValidationTypes, ConcatProperties
  <2>3. UnderValidation = (A \o <<>>) \o simToHttp
    BY <2>1 DEF UnderValidation
  <2>4. UnderValidation' = (A \o simToHttp) \o <<>>
    BY <2>1 DEF UnderValidation, IdsOf
  <2> HIDE DEF A
  <2>5. A \o <<>> = A /\ A \o simToHttp \in Seq(ConnectionIds)
    BY <2>2, ConcatEmptySeq, ConcatProperties
  <2>6. (A \o simToHttp) \o <<>> = A \o simToHttp
    BY <2>5, ConcatEmptySeq
  <2> QED  BY <2>3, <2>4, <2>5, <2>6
<1>2. ASSUME NEW isValid \in BOOLEAN, ValidateToken(isValid)
      PROVE  UnderValidation' = UnderValidation
  <2> DEFINE A == IdsOf(simHttpBatch)
             B == IdsOf(httpToSim)
             c == Head(httpBatch)
  <2>1. /\ A \in Seq(ConnectionIds) /\ B \in Seq(ConnectionIds)
        /\ httpBatch \in Seq(ConnectionIds) /\ httpBatch # <<>>
        /\ c \in ConnectionIds /\ Tail(httpBatch) \in Seq(ConnectionIds)
    BY <1>2, ValidationTypes, TailType DEF ValidateToken
  <2>2. IdsOf(httpToSim') = Append(B, c)
    <3> DEFINE m == [connectionId |-> c, isValid |-> isValid]
    <3>1. m \in HttpToSimulationMessage /\ m.connectionId = c
      BY <2>1 DEF HttpToSimulationMessage
    <3>2. httpToSim' = Append(httpToSim, m) /\ httpToSim \in Seq(HttpToSimulationMessage)
      BY <1>2 DEF ValidateToken, TypeOK
    <3> HIDE DEF m
    <3> QED  BY <3>1, <3>2, IdsOfAppend
  <2>3. UnderValidation' = ((A \o Append(B, c)) \o Tail(httpBatch)) \o simToHttp
    BY <1>2, <2>2 DEF ValidateToken, UnderValidation, IdsOf
  <2> HIDE DEF A, B
  <2>4. A \o Append(B, c) = Append(A \o B, c) /\ A \o B \in Seq(ConnectionIds)
    <3> HIDE DEF c
    <3> QED  BY <2>1, ConcatAppend, ConcatProperties
  <2>5. Append(A \o B, c) \o Tail(httpBatch) = (A \o B) \o httpBatch
    BY <2>1, <2>4, ConcatMove
  <2> QED  BY <2>3, <2>4, <2>5 DEF UnderValidation, A, B
<1>3. CASE DrainQueues
  <2>1. simHttpBatch = <<>> /\ simHttpBatch' = httpToSim /\ httpToSim' = <<>>
        /\ UNCHANGED <<simToHttp, httpBatch>>
    BY <1>3 DEF DrainQueues
  <2>2. IdsOf(simHttpBatch) = <<>> /\ IdsOf(httpToSim)' = <<>>
    BY <2>1 DEF IdsOf
  <2>3. IdsOf(simHttpBatch)' = IdsOf(httpToSim)
    BY <2>1 DEF IdsOf
  <2>4. /\ <<>> \o IdsOf(httpToSim) = IdsOf(httpToSim)
        /\ IdsOf(httpToSim) \o <<>> = IdsOf(httpToSim)
    BY ValidationTypes, ConcatEmptySeq
  <2> QED  BY <2>1, <2>2, <2>3, <2>4 DEF UnderValidation
<1> QED  BY <1>1, <1>2, <1>3
-----------------------------------------------------------------------------
(* Answers.                                                                *)

LEMMA AnswerSame ==
  ASSUME UNCHANGED <<simToNet, netOutBatch, unacked>>
  PROVE  \A c : AnswerUnderWay(c)' => AnswerUnderWay(c)
BY DEF AnswerUnderWay

LEMMA AnswerPushed ==
  ASSUME TypeOK, NEW m \in SimulationToNetworkOUTMessage,
         simToNet' = Append(simToNet, m), UNCHANGED <<netOutBatch, unacked>>
  PROVE  \A c : AnswerUnderWay(c)' => AnswerUnderWay(c) \/ c = m.connectionId
<1>1. /\ Len(simToNet) \in Nat /\ Len(simToNet') = Len(simToNet) + 1
      /\ \A i \in 1 .. Len(simToNet) : simToNet'[i] = simToNet[i]
      /\ simToNet'[Len(simToNet) + 1] = m
  BY AppendProperties, LenProperties DEF TypeOK
<1>2. 1 .. Len(simToNet) + 1 = 1 .. Len(simToNet) \cup {Len(simToNet) + 1}
  BY <1>1
<1> QED  BY <1>1, <1>2 DEF AnswerUnderWay

(* Sending takes an answer from the batch to unacked.                      *)
LEMMA AnswerSent ==
  ASSUME TypeOK, SendReliable
  PROVE  \A c : AnswerUnderWay(c)' => AnswerUnderWay(c)
<1> DEFINE msg == Head(netOutBatch)
<1>1. /\ netOutBatch # <<>> /\ netOutBatch' = Tail(netOutBatch)
      /\ UNCHANGED simToNet
  BY DEF SendReliable
<1>2. /\ Len(netOutBatch) \in Nat \ {0} /\ Len(netOutBatch') = Len(netOutBatch) - 1
      /\ \A i \in 1 .. Len(netOutBatch) - 1 : netOutBatch'[i] = netOutBatch[i + 1]
      /\ msg = netOutBatch[1]
  BY <1>1, EmptySeq, HeadTailProperties DEF TypeOK
<1>3. \A ctx \in unacked' : ctx \in unacked \/ ctx.connectionId = msg.connectionId
  BY DEF SendReliable, Sent, SendFailed, PacketNotCreated
<1> HIDE DEF msg
<1>4. ASSUME NEW c, NEW i \in 1 .. Len(netOutBatch'), netOutBatch'[i].connectionId = c
      PROVE  AnswerUnderWay(c)
  <2>1. i + 1 \in 1 .. Len(netOutBatch) /\ netOutBatch[i + 1].connectionId = c
    BY <1>2, <1>4
  <2> QED  BY <2>1 DEF AnswerUnderWay
<1>5. ASSUME NEW c, NEW ctx \in unacked', ctx.connectionId = c
      PROVE  AnswerUnderWay(c)
  BY <1>2, <1>3, <1>5 DEF AnswerUnderWay
<1> QED  BY <1>1, <1>4, <1>5 DEF AnswerUnderWay

LEMMA AnswerGone ==
  ASSUME NEW ctx \in unacked, Acknowledged(ctx) \/ Freed(ctx)
  PROVE  \A c : AnswerUnderWay(c)' => AnswerUnderWay(c)
BY DEF Acknowledged, Freed, AnswerUnderWay, outQ

LEMMA AnswerDrained ==
  ASSUME DrainSimulationToNetwork
  PROVE  \A c : AnswerUnderWay(c)' => AnswerUnderWay(c)
BY DEF DrainSimulationToNetwork, AnswerUnderWay, enet

-----------------------------------------------------------------------------
(* Steps that add and remove no connection and no session.                 *)

(* What the invariant reads of a session is unchanged.                     *)
SameSessions ==
  /\ DOMAIN sessions' = DOMAIN sessions
  /\ \A c \in DOMAIN sessions :
       /\ sessions'[c].isPacketEncryptionEnabled = sessions[c].isPacketEncryptionEnabled
       /\ sessions'[c].authStatus = sessions[c].authStatus
       /\ sessions'[c].isReadyForMatch = sessions[c].isReadyForMatch

(* Nothing is lost of the connections' beginnings and ends; what is added  *)
(* passed the guard of its channel.                                        *)
PendingGuarded ==
  /\ \A c : \A type \in {"CONNECT", "DISCONNECT"} : Waiting(type, c) => Waiting(type, c)'
  /\ \A type, c : Waiting(type, c)' =>
       \/ Waiting(type, c)
       \/ /\ c \in DOMAIN connectionIdToEnetPeer
          /\ \/ type = "HELLO"
             \/ type = "AUTH" /\ Encrypted(c)
             \/ type = "READY" /\ Valid(c)
  /\ MessagesFramed'

LEMMA SameConnections ==
  ASSUME IInv, TypeOK',
         UNCHANGED <<nextConnectionId, connectionIdToEnetPeer, peerData>>,
         DOMAIN connectionIdToEncryptionEnabled' = DOMAIN connectionIdToEncryptionEnabled,
         DOMAIN sessions' = DOMAIN sessions,
         \A p \in Peers : peerPhase'[p] = "free" <=> peerPhase[p] = "free",
         \A c \in DOMAIN connectionIdToEncryptionEnabled \ DOMAIN sessions :
           connectionIdToEncryptionEnabled'[c] = connectionIdToEncryptionEnabled[c],
         \A c : (Encrypted(c) => Encrypted(c)') /\ (Valid(c) => Valid(c)'),
         PendingGuarded,
         \A c : AnswerUnderWay(c)' => AnswerUnderWay(c) \/ c \in DOMAIN sessions,
         \A c : Validating(c)' => Validating(c) \/ c \in DOMAIN sessions,
         EncryptionReplicaAgrees', ReadyClientsAreValid', AuthenticationIsEncrypted',
         OneValidationAtATime', AcceptedFits'
  PROVE  IInv'
<1>1. SlotsAgree'
  BY DEF IInv, SlotsAgree
<1>2. BindingsAgree'
  BY DEF IInv, BindingsAgree, StillBound
<1>3. SessionsAreOwned'
  BY DEF IInv, SessionsAreOwned, PendingGuarded
<1>4. ConnectionsAreServed'
  BY DEF IInv, ConnectionsAreServed, PendingGuarded
<1>5. MessagesFramed'
  BY DEF PendingGuarded
<1>6. ASSUME NEW c \in ConnectionIds, Waiting("CONNECT", c)'
      PROVE  Unborn(c)'
  <2>1. Unborn(c)
    BY <1>6 DEF PendingGuarded, IInv, PendingFits
  <2>2. DOMAIN connectionIdToEncryptionEnabled = DOMAIN connectionIdToEnetPeer
    BY DEF IInv, SlotsAgree
  <2> QED  BY <2>1, <2>2 DEF Unborn, PendingGuarded
<1>7. ASSUME NEW c \in ConnectionIds
      PROVE  /\ Waiting("DISCONNECT", c)' => c \notin DOMAIN connectionIdToEnetPeer'
             /\ Waiting("AUTH", c)' => Encrypted(c)'
             /\ Waiting("READY", c)' => Valid(c)'
  BY DEF PendingGuarded, IInv, PendingFits
<1>8. PendingFits'
  BY <1>6, <1>7 DEF PendingFits
<1>9. IdentifiersIssued'
  <2> SUFFICES ASSUME NEW c \in ConnectionIds,
                      \/ c \in DOMAIN connectionIdToEnetPeer'
                      \/ c \in DOMAIN sessions'
                      \/ \E type \in NetMessageTypes : Waiting(type, c)'
                      \/ AnswerUnderWay(c)'
                      \/ Validating(c)'
               PROVE  c < nextConnectionId
    BY DEF IdentifiersIssued
  <2> QED  BY DEF PendingGuarded, IInv, IdentifiersIssued
<1> QED
  BY <1>1, <1>2, <1>3, <1>4, <1>5, <1>8, <1>9 DEF IInv

(* If the sessions are as before, the properties of the sessions are too.  *)
LEMMA SameSessionFacts ==
  ASSUME IInv, SameSessions,
         UNCHANGED <<connectionIdToEncryptionEnabled, connectionIdToEnetPeer>>,
         \A c \in DOMAIN sessions : Validating(c)' <=> Validating(c),
         ValidationsDistinct'
  PROVE  /\ EncryptionReplicaAgrees' /\ ReadyClientsAreValid' /\ AuthenticationIsEncrypted'
         /\ OneValidationAtATime'
         /\ \A c : (Encrypted(c) => Encrypted(c)') /\ (Valid(c) => Valid(c)')
         /\ UNCHANGED accepted => AcceptedFits'
<1>1. EncryptionReplicaAgrees' /\ ReadyClientsAreValid' /\ AuthenticationIsEncrypted'
  BY DEF IInv, SameSessions, EncryptionReplicaAgrees, ReadyClientsAreValid,
         AuthenticationIsEncrypted
<1>2. OneValidationAtATime'
  BY DEF IInv, SameSessions, OneValidationAtATime
<1>3. \A c : (Encrypted(c) => Encrypted(c)') /\ (Valid(c) => Valid(c)')
  BY DEF SameSessions, Encrypted, Valid
<1>4. UNCHANGED accepted => AcceptedFits'
  BY <1>3 DEF IInv, AcceptedFits
<1> QED  BY <1>1, <1>2, <1>3, <1>4

LEMMA PendingUntouched ==
  ASSUME IInv, UNCHANGED inQ
  PROVE  PendingGuarded
BY PendingSame DEF IInv, inQ, Pending, PendingGuarded

LEMMA ValidationsUntouched ==
  ASSUME IInv, UNCHANGED httpQ
  PROVE  /\ \A c : Validating(c)' <=> Validating(c)
         /\ ValidationsDistinct'
<1>1. UnderValidation' = UnderValidation
  BY DEF httpQ, UnderValidation, IdsOf
<1> QED  BY <1>1, ValidationsSame DEF IInv, OneValidationAtATime

-----------------------------------------------------------------------------
(* The network thread.                                                     *)

LEMMA InvConnect ==
  ASSUME IInv, TypeOK', NEW p \in Peers, Connect(p)
  PROVE  IInv'
<1> DEFINE c == nextConnectionId
<1>1. /\ c \in ConnectionIds /\ nextConnectionId' = c + 1 /\ c \in Nat
      /\ accepted = NoMessage /\ accepted' = NoMessage
      /\ peerPhase[p] = "free"
      /\ peerData' = [peerData EXCEPT ![p] = c]
      /\ peerPhase' = [peerPhase EXCEPT ![p] = "connected"]
      /\ sessions' = sessions
  BY ConstantsAssumption DEF Connect, NetworkThreadIdle, ConnectionIds, IInv, TypeOK
<1>2. /\ c \notin DOMAIN connectionIdToEnetPeer
      /\ c \notin DOMAIN sessions
      /\ \A type \in NetMessageTypes : ~Waiting(type, c)
      /\ ~AnswerUnderWay(c)
      /\ ~Validating(c)
  BY <1>1 DEF IInv, IdentifiersIssued
<1>3. /\ DOMAIN connectionIdToEnetPeer' = DOMAIN connectionIdToEnetPeer \cup {c}
      /\ connectionIdToEnetPeer'[c] = p
      /\ \A d \in DOMAIN connectionIdToEnetPeer :
           connectionIdToEnetPeer'[d] = connectionIdToEnetPeer[d]
      /\ DOMAIN connectionIdToEncryptionEnabled' =
           DOMAIN connectionIdToEncryptionEnabled \cup {c}
      /\ connectionIdToEncryptionEnabled'[c] = FALSE
      /\ \A d \in DOMAIN connectionIdToEncryptionEnabled : d # c =>
           connectionIdToEncryptionEnabled'[d] = connectionIdToEncryptionEnabled[d]
  <2>1. /\ connectionIdToEnetPeer' = Put(connectionIdToEnetPeer, c, p)
        /\ connectionIdToEncryptionEnabled' = Put(connectionIdToEncryptionEnabled, c, FALSE)
    BY DEF Connect
  <2> HIDE DEF c
  <2> QED  BY <1>2, <2>1 DEF Put
<1>4. /\ \A type, d : Waiting(type, d)' <=> Waiting(type, d) \/ (type = "CONNECT" /\ d = c)
      /\ MessagesFramed'
  <2> DEFINE m == NetMessage("CONNECT", c)
  <2>1. /\ m \in NetworkINToSimulationMessage
        /\ m.type = "CONNECT" /\ m.connectionId = c
        /\ netToSim' = Append(netToSim, m) /\ simNetBatch' = simNetBatch
    BY <1>1, NetMessageType DEF NetMessage, NetMessageTypes, Connect
  <2>2. TypeOK /\ MessagesFramed /\ ~Waiting("DISCONNECT", c)
    BY <1>2 DEF IInv, NetMessageTypes
  <2> HIDE DEF m
  <2> QED  BY <1>2, <2>1, <2>2, PendingPushed
<1>5. /\ \A d : AnswerUnderWay(d)' => AnswerUnderWay(d)
      /\ \A d : Validating(d)' <=> Validating(d)
      /\ ValidationsDistinct'
  BY AnswerSame, ValidationsUntouched DEF Connect, outQ
<1> HIDE DEF c
<1>6. peerData \in [Peers -> {0} \cup ConnectionIds] /\ peerPhase \in [Peers -> {"free", "connected", "closing"}]
      /\ c # 0
  BY <1>1 DEF IInv, TypeOK, ConnectionIds
<1>7. SlotsAgree'
  BY <1>1, <1>3, <1>6 DEF IInv, SlotsAgree
<1>8. BindingsAgree'
  <2>1. peerData[p] = 0  BY <1>1 DEF IInv, SlotsAgree
  <2>2. ASSUME NEW d \in DOMAIN connectionIdToEnetPeer'
        PROVE  peerData'[connectionIdToEnetPeer'[d]] = d
    <3>1. CASE d = c  BY <1>1, <1>3, <1>6, <3>1
    <3>2. CASE d # c
      <4>1. d \in DOMAIN connectionIdToEnetPeer /\ connectionIdToEnetPeer[d] \in Peers
        BY <1>3, <3>2 DEF IInv, TypeOK
      <4>2. peerData[connectionIdToEnetPeer[d]] = d /\ d # 0
        BY <4>1 DEF IInv, BindingsAgree, TypeOK, ConnectionIds
      <4> QED  BY <1>1, <1>3, <1>6, <2>1, <4>1, <4>2
    <3> QED  BY <3>1, <3>2
  <2>3. ASSUME NEW q \in Peers, peerData'[q] # 0
        PROVE  StillBound(q, peerData[q])'
    <3>1. CASE q = p  BY <1>1, <1>3, <1>6, <3>1 DEF StillBound
    <3>2. CASE q # p
      <4>1. peerData'[q] = peerData[q]  BY <1>1, <1>6, <3>2
      <4>2. StillBound(q, peerData[q])  BY <2>3, <4>1 DEF IInv, BindingsAgree
      <4> QED  BY <1>3, <4>1, <4>2 DEF StillBound
    <3> QED  BY <3>1, <3>2
  <2> QED  BY <2>2, <2>3 DEF BindingsAgree
<1>9. SessionsAreOwned' /\ ConnectionsAreServed'
  BY <1>1, <1>3, <1>4 DEF IInv, SessionsAreOwned, ConnectionsAreServed
<1>10. EncryptionReplicaAgrees' /\ ReadyClientsAreValid' /\ AuthenticationIsEncrypted'
       /\ OneValidationAtATime' /\ AcceptedFits'
  BY <1>1, <1>2, <1>3, <1>5 DEF IInv, EncryptionReplicaAgrees, ReadyClientsAreValid,
     AuthenticationIsEncrypted, OneValidationAtATime, AcceptedFits
<1>11. PendingFits'
  <2> SUFFICES ASSUME NEW d \in ConnectionIds
               PROVE  /\ Waiting("CONNECT", d)' => Unborn(d)'
                      /\ Waiting("DISCONNECT", d)' => d \notin DOMAIN connectionIdToEnetPeer'
                      /\ Waiting("AUTH", d)' => Encrypted(d)'
                      /\ Waiting("READY", d)' => Valid(d)'
    BY DEF PendingFits
  <2>1. CASE d = c
    BY <1>1, <1>2, <1>3, <1>4, <1>5, <2>1 DEF Unborn, NetMessageTypes
  <2>2. CASE d # c
    BY <1>1, <1>3, <1>4, <1>5, <2>2 DEF IInv, PendingFits, Unborn, Encrypted, Valid,
       SlotsAgree
  <2> QED  BY <2>1, <2>2
<1>12. IdentifiersIssued'
  <2> SUFFICES ASSUME NEW d \in ConnectionIds,
                      \/ d \in DOMAIN connectionIdToEnetPeer'
                      \/ d \in DOMAIN sessions'
                      \/ \E type \in NetMessageTypes : Waiting(type, d)'
                      \/ AnswerUnderWay(d)'
                      \/ Validating(d)'
               PROVE  d < nextConnectionId'
    BY DEF IdentifiersIssued
  <2>1. d = c \/ d < c
    BY <1>1, <1>3, <1>4, <1>5 DEF IInv, IdentifiersIssued, c
  <2> QED  BY <1>1, <2>1 DEF ConnectionIds
<1> QED
  BY <1>4, <1>7, <1>8, <1>9, <1>10, <1>11, <1>12 DEF IInv

LEMMA InvDisconnect ==
  ASSUME IInv, TypeOK', NEW p \in Peers, Disconnect(p)
  PROVE  IInv'
<1> DEFINE c == peerData[p]
<1>1. c # 0 /\ StillBound(p, c) /\ c \in ConnectionIds
  BY DEF Disconnect, IInv, SlotsAgree, BindingsAgree, TypeOK
<1>2. /\ accepted = NoMessage /\ accepted' = NoMessage
      /\ peerData' = [peerData EXCEPT ![p] = 0]
      /\ peerPhase' = [peerPhase EXCEPT ![p] = "free"]
      /\ sessions' = sessions /\ nextConnectionId' = nextConnectionId
  BY <1>1 DEF Disconnect, NetworkThreadIdle
<1>3. /\ DOMAIN connectionIdToEnetPeer' = DOMAIN connectionIdToEnetPeer \ {c}
      /\ \A d \in DOMAIN connectionIdToEnetPeer' :
           connectionIdToEnetPeer'[d] = connectionIdToEnetPeer[d]
      /\ DOMAIN connectionIdToEncryptionEnabled' =
           DOMAIN connectionIdToEncryptionEnabled \ {c}
      /\ \A d \in DOMAIN connectionIdToEncryptionEnabled' :
           connectionIdToEncryptionEnabled'[d] = connectionIdToEncryptionEnabled[d]
  <2>1. /\ connectionIdToEnetPeer' = Erase(connectionIdToEnetPeer, c)
        /\ connectionIdToEncryptionEnabled' = Erase(connectionIdToEncryptionEnabled, c)
    BY <1>1 DEF Disconnect
  <2> HIDE DEF c
  <2> QED  BY <2>1 DEF Erase
<1>4. c \in DOMAIN connectionIdToEnetPeer /\ connectionIdToEnetPeer[c] = p
  BY <1>1 DEF StillBound
<1>5. /\ \A type, d : Waiting(type, d)' <=> Waiting(type, d) \/ (type = "DISCONNECT" /\ d = c)
      /\ MessagesFramed'
  <2> DEFINE m == NetMessage("DISCONNECT", c)
  <2>1. /\ m \in NetworkINToSimulationMessage
        /\ m.type = "DISCONNECT" /\ m.connectionId = c
        /\ netToSim' = Append(netToSim, m) /\ simNetBatch' = simNetBatch
    BY <1>1, NetMessageType DEF NetMessage, NetMessageTypes, Disconnect
  <2>2. TypeOK /\ MessagesFramed /\ ~Waiting("DISCONNECT", c)
    BY <1>1, <1>4 DEF IInv, PendingFits
  <2> HIDE DEF m
  <2> QED  BY <2>1, <2>2, PendingPushed
<1>6. /\ \A d : AnswerUnderWay(d)' => AnswerUnderWay(d)
      /\ \A d : Validating(d)' <=> Validating(d)
      /\ ValidationsDistinct'
  BY AnswerSame, ValidationsUntouched DEF Disconnect, outQ
<1>7. peerData \in [Peers -> {0} \cup ConnectionIds] /\ peerPhase \in [Peers -> {"free", "connected", "closing"}]
  BY DEF IInv, TypeOK
<1> HIDE DEF c
<1>8. SlotsAgree'
  BY <1>2, <1>3, <1>7 DEF IInv, SlotsAgree
<1>9. BindingsAgree'
  <2>1. ASSUME NEW d \in DOMAIN connectionIdToEnetPeer'
        PROVE  peerData'[connectionIdToEnetPeer'[d]] = d
    <3>1. d \in DOMAIN connectionIdToEnetPeer /\ d # c /\ connectionIdToEnetPeer[d] \in Peers
      BY <1>3 DEF IInv, TypeOK
    <3>2. peerData[connectionIdToEnetPeer[d]] = d /\ connectionIdToEnetPeer[d] # p
      BY <3>1 DEF IInv, BindingsAgree, c
    <3> QED  BY <1>2, <1>3, <1>7, <3>1, <3>2
  <2>2. ASSUME NEW q \in Peers, peerData'[q] # 0
        PROVE  StillBound(q, peerData[q])'
    <3>1. q # p /\ peerData'[q] = peerData[q]  BY <1>2, <1>7, <2>2
    <3>2. StillBound(q, peerData[q])  BY <2>2, <3>1 DEF IInv, BindingsAgree
    <3>3. peerData[q] # c  BY <1>4, <3>1, <3>2 DEF StillBound
    <3> QED  BY <1>3, <3>1, <3>2, <3>3 DEF StillBound
  <2> QED  BY <2>1, <2>2 DEF BindingsAgree
<1>10. SessionsAreOwned' /\ ConnectionsAreServed'
  BY <1>2, <1>3, <1>5 DEF IInv, SessionsAreOwned, ConnectionsAreServed
<1>11. EncryptionReplicaAgrees' /\ ReadyClientsAreValid' /\ AuthenticationIsEncrypted'
       /\ OneValidationAtATime' /\ AcceptedFits'
  BY <1>2, <1>3, <1>6 DEF IInv, EncryptionReplicaAgrees, ReadyClientsAreValid,
     AuthenticationIsEncrypted, OneValidationAtATime, AcceptedFits
<1>12. PendingFits'
  <2> SUFFICES ASSUME NEW d \in ConnectionIds
               PROVE  /\ Waiting("CONNECT", d)' => Unborn(d)'
                      /\ Waiting("DISCONNECT", d)' => d \notin DOMAIN connectionIdToEnetPeer'
                      /\ Waiting("AUTH", d)' => Encrypted(d)'
                      /\ Waiting("READY", d)' => Valid(d)'
    BY DEF PendingFits
  <2>1. Waiting("CONNECT", d)' => Unborn(d)'
    BY <1>2, <1>3, <1>5, <1>6 DEF IInv, PendingFits, Unborn, SlotsAgree
  <2> QED  BY <1>2, <1>3, <1>5, <2>1 DEF IInv, PendingFits, Encrypted, Valid
<1>13. IdentifiersIssued'
  <2> SUFFICES ASSUME NEW d \in ConnectionIds,
                      \/ d \in DOMAIN connectionIdToEnetPeer'
                      \/ d \in DOMAIN sessions'
                      \/ \E type \in NetMessageTypes : Waiting(type, d)'
                      \/ AnswerUnderWay(d)'
                      \/ Validating(d)'
               PROVE  d < nextConnectionId
    BY <1>2 DEF IdentifiersIssued
  <2> QED  BY <1>2, <1>3, <1>4, <1>5, <1>6 DEF IInv, IdentifiersIssued
<1> QED
  BY <1>5, <1>8, <1>9, <1>10, <1>11, <1>12, <1>13 DEF IInv

(* Steps of the network thread that change nothing but the slots, the      *)
(* answers and the packet that was accepted.                               *)
LEMMA InvSlots ==
  ASSUME IInv, TypeOK', UNCHANGED <<tables, sessions, peerData, inQ, httpQ>>,
         \A p \in Peers : peerPhase'[p] = "free" <=> peerPhase[p] = "free",
         \A c : AnswerUnderWay(c)' => AnswerUnderWay(c),
         AcceptedFits'
  PROVE  IInv'
<1>1. /\ SameSessions /\ PendingGuarded
      /\ \A c : Validating(c)' <=> Validating(c)
      /\ ValidationsDistinct'
  BY PendingUntouched, ValidationsUntouched DEF SameSessions
<1>2. UNCHANGED <<nextConnectionId, connectionIdToEnetPeer, connectionIdToEncryptionEnabled>>
  BY DEF tables
<1> QED  BY <1>1, <1>2, SameSessionFacts, SameConnections

(* The simulation can still assume what the guard of the channel saw.      *)
LEMMA InvPushed ==
  ASSUME IInv, TypeOK', NEW m \in NetworkINToSimulationMessage,
         m.connectionId \in DOMAIN connectionIdToEnetPeer,
         \/ m.type = "HELLO"
         \/ m.type = "AUTH" /\ Encrypted(m.connectionId)
         \/ m.type = "READY" /\ Valid(m.connectionId),
         netToSim' = Append(netToSim, m), AcceptedFits',
         UNCHANGED <<tables, sessions, enet, simNetBatch, outQ, httpQ>>
  PROVE  IInv'
<1>1. TypeOK /\ MessagesFramed /\ ~Waiting("DISCONNECT", m.connectionId)
  BY DEF IInv, PendingFits, NetworkINToSimulationMessage
<1>2. PendingGuarded
  BY <1>1, PendingPushed DEF PendingGuarded
<1>3. /\ SameSessions
      /\ \A c : AnswerUnderWay(c)' => AnswerUnderWay(c)
      /\ \A c : Validating(c)' <=> Validating(c)
      /\ ValidationsDistinct'
  BY AnswerSame, ValidationsUntouched DEF SameSessions, enet, outQ
<1>4. UNCHANGED <<nextConnectionId, connectionIdToEnetPeer, connectionIdToEncryptionEnabled,
                  peerData, peerPhase>>
  BY DEF tables, enet
<1> QED  BY <1>2, <1>3, <1>4, SameSessionFacts, SameConnections

LEMMA InvEnabled ==
  ASSUME IInv, TypeOK', NEW ctx \in unacked, Acknowledged(ctx),
         AckActionAllowed(ctx), ctx.enableEncryptionAfterAck
  PROVE  IInv'
<1> DEFINE c == ctx.connectionId
<1>1. /\ c \in DOMAIN connectionIdToEnetPeer /\ peerData[ctx.peer] = c
      /\ ctx.peer \in Peers /\ c \in ConnectionIds
  BY DEF AckActionAllowed, StillBound, IInv, TypeOK, ReliableAckActionContext
(* The answer that is acknowledged shows that the simulation knows c.      *)
<1>2. c \in DOMAIN sessions
  <2>1. AnswerUnderWay(c)  BY DEF AnswerUnderWay
  <2>2. ~Waiting("CONNECT", c)  BY <1>1, <2>1 DEF IInv, PendingFits, Unborn
  <2> QED  BY <1>1, <2>2 DEF IInv, ConnectionsAreServed
<1>3. /\ connectionIdToEncryptionEnabled' = Put(connectionIdToEncryptionEnabled, c, TRUE)
      /\ sessions' = [sessions EXCEPT ![c].isPacketEncryptionEnabled = TRUE]
  BY <1>1, <1>2 DEF Acknowledged, EnableEncryption
<1>4. /\ sessions[c] \in Session
      /\ \A d \in DOMAIN connectionIdToEncryptionEnabled :
           connectionIdToEncryptionEnabled[d] \in BOOLEAN
      /\ DOMAIN connectionIdToEncryptionEnabled = DOMAIN connectionIdToEnetPeer
  BY <1>2 DEF IInv, TypeOK, SlotsAgree
<1>5. /\ DOMAIN connectionIdToEncryptionEnabled' = DOMAIN connectionIdToEncryptionEnabled
      /\ connectionIdToEncryptionEnabled'[c] = TRUE
      /\ \A d \in DOMAIN connectionIdToEncryptionEnabled : d # c =>
           connectionIdToEncryptionEnabled'[d] = connectionIdToEncryptionEnabled[d]
  <2> HIDE DEF c
  <2> QED  BY <1>1, <1>3, <1>4 DEF Put
<1>6. /\ DOMAIN sessions' = DOMAIN sessions
      /\ \A d \in DOMAIN sessions : d # c => sessions'[d] = sessions[d]
      /\ sessions'[c].isPacketEncryptionEnabled = TRUE
      /\ sessions'[c].authStatus = sessions[c].authStatus
      /\ sessions'[c].isReadyForMatch = sessions[c].isReadyForMatch
  <2> HIDE DEF c
  <2> QED  BY <1>2, <1>3, <1>4 DEF Session
<1>7. /\ UNCHANGED <<nextConnectionId, connectionIdToEnetPeer, peerData, accepted>>
      /\ UNCHANGED inQ /\ UNCHANGED httpQ
      /\ \A p \in Peers : peerPhase'[p] = "free" <=> peerPhase[p] = "free"
  BY <1>1 DEF Acknowledged, Closing, IInv, TypeOK
<1>8. /\ PendingGuarded
      /\ \A d : AnswerUnderWay(d)' => AnswerUnderWay(d)
      /\ \A d : Validating(d)' <=> Validating(d)
      /\ ValidationsDistinct'
  BY <1>7, PendingUntouched, ValidationsUntouched, AnswerGone
<1> HIDE DEF c
<1>9. EncryptionReplicaAgrees' /\ ReadyClientsAreValid' /\ AuthenticationIsEncrypted'
  BY <1>2, <1>5, <1>6 DEF IInv, EncryptionReplicaAgrees, ReadyClientsAreValid,
     AuthenticationIsEncrypted
<1>10. OneValidationAtATime'
  BY <1>2, <1>6, <1>8 DEF IInv, OneValidationAtATime
<1>11. \A d : (Encrypted(d) => Encrypted(d)') /\ (Valid(d) => Valid(d)')
  BY <1>2, <1>6 DEF Encrypted, Valid
<1>12. AcceptedFits'
  BY <1>7, <1>11 DEF IInv, AcceptedFits
<1> QED
  BY <1>2, <1>5, <1>6, <1>7, <1>8, <1>9, <1>10, <1>11, <1>12, SameConnections

LEMMA InvNetwork ==
  ASSUME IInv, TypeOK', NetworkThread
  PROVE  IInv'
<1>1. ASSUME NEW p \in Peers, NEW c \in ConnectionIds, NEW key \in ClientKeys,
             ReceiveHello(p, c, key)
      PROVE  IInv'
  <2> DEFINE m == [type |-> "HELLO", connectionId |-> c, key |-> key]
  <2>1. m \in NetworkINToSimulationMessage /\ m.type = "HELLO" /\ m.connectionId = c
    BY DEF NetworkINToSimulationMessage, NetMessageTypes
  <2>2. /\ c \in DOMAIN connectionIdToEnetPeer
        /\ netToSim' = Append(netToSim, m)
        /\ accepted = NoMessage /\ accepted' = NoMessage
        /\ UNCHANGED <<tables, sessions, enet, simNetBatch, outQ, httpQ>>
    BY <1>1 DEF ReceiveHello, Receives, StillBound, NetworkThreadIdle
  <2>3. AcceptedFits'  BY <2>2 DEF AcceptedFits
  <2> HIDE DEF m
  <2> QED  BY <2>1, <2>2, <2>3, InvPushed
<1>2. ASSUME NEW p \in Peers, NEW c \in ConnectionIds, ReceiveOtherVersion(p, c)
      PROVE  IInv'
  <2>1. /\ \A q \in Peers : peerPhase'[q] = "free" <=> peerPhase[q] = "free"
        /\ UNCHANGED <<tables, sessions, peerData, accepted, inQ, httpQ>>
        /\ UNCHANGED <<simToNet, netOutBatch, unacked>>
    BY <1>2 DEF ReceiveOtherVersion, Closing, IInv, TypeOK, outQ
  <2>2. AcceptedFits'
    BY <2>1 DEF IInv, AcceptedFits, Encrypted, Valid, tables
  <2> QED  BY <2>1, <2>2, AnswerSame, InvSlots
<1>3. ASSUME NEW p \in Peers, NEW c \in ConnectionIds, NEW type, Receives(p, c),
             \/ type = "AUTH" /\ Encrypted(c)
             \/ type = "READY" /\ Valid(c),
             Accept(NetMessage(type, c))
      PROVE  IInv'
  <2>1. /\ UNCHANGED <<tables, sessions, enet, inQ, outQ, httpQ>>
        /\ c \in DOMAIN connectionIdToEnetPeer
        /\ accepted'.type = type /\ accepted'.connectionId = c
    BY <1>3 DEF Accept, Receives, StillBound, NetMessage
  <2>2. AcceptedFits'
    BY <1>3, <2>1 DEF AcceptedFits, Encrypted, Valid, tables
  <2>3. UNCHANGED <<peerData, peerPhase>> /\ UNCHANGED <<simToNet, netOutBatch, unacked>>
    BY <2>1 DEF enet, outQ
  <2> QED  BY <2>1, <2>2, <2>3, AnswerSame, InvSlots
<1>4. ASSUME NEW p \in Peers, NEW c \in ConnectionIds, ReceiveAuth(p, c)
      PROVE  IInv'
  BY <1>3, <1>4 DEF ReceiveAuth, AuthChannelOpen, Encrypted
<1>5. ASSUME NEW p \in Peers, NEW c \in ConnectionIds, ReceiveReady(p, c)
      PROVE  IInv'
  BY <1>3, <1>5 DEF ReceiveReady, GameplayChannelOpen, Valid
<1>6. CASE PushAccepted
  <2>1. /\ accepted # NoMessage /\ accepted' = NoMessage
        /\ accepted \in NetworkINToSimulationMessage
        /\ netToSim' = Append(netToSim, accepted)
        /\ UNCHANGED <<tables, sessions, enet, simNetBatch, outQ, httpQ>>
    BY <1>6 DEF PushAccepted, IInv, TypeOK
  <2>2. AcceptedFits /\ AcceptedFits'
    BY <2>1 DEF AcceptedFits, IInv
  <2> QED  BY <2>1, <2>2, InvPushed DEF AcceptedFits
<1>7. CASE DrainSimulationToNetwork
  <2>1. UNCHANGED <<tables, sessions, peerData, peerPhase, accepted, inQ, httpQ>>
    BY <1>7 DEF DrainSimulationToNetwork, enet
  <2>2. AcceptedFits'
    BY <2>1 DEF IInv, AcceptedFits, Encrypted, Valid, tables
  <2> QED  BY <1>7, <2>1, <2>2, AnswerDrained, InvSlots
<1>8. CASE SendReliable
  <2>1. UNCHANGED <<tables, sessions, peerData, accepted, inQ, httpQ>>
    BY <1>8 DEF SendReliable
  <2>2. \A q \in Peers : peerPhase'[q] = "free" <=> peerPhase[q] = "free"
    BY <1>8 DEF SendReliable, Sent, SendFailed, PacketNotCreated, Closing, IInv, TypeOK
  <2>3. AcceptedFits'
    BY <2>1 DEF IInv, AcceptedFits, Encrypted, Valid, tables
  <2> QED  BY <1>8, <2>1, <2>2, <2>3, AnswerSent, InvSlots DEF IInv
<1>9. ASSUME NEW ctx \in unacked, Freed(ctx)
      PROVE  IInv'
  <2>1. UNCHANGED <<tables, sessions, peerData, peerPhase, accepted, inQ, httpQ>>
    BY <1>9 DEF Freed
  <2>2. AcceptedFits'
    BY <2>1 DEF IInv, AcceptedFits, Encrypted, Valid, tables
  <2> QED  BY <1>9, <2>1, <2>2, AnswerGone, InvSlots
<1>10. ASSUME NEW ctx \in unacked, Acknowledged(ctx)
       PROVE  IInv'
  <2>1. CASE AckActionAllowed(ctx) /\ ctx.enableEncryptionAfterAck
    BY <1>10, <2>1, InvEnabled
  <2>2. CASE ~(AckActionAllowed(ctx) /\ ctx.enableEncryptionAfterAck)
    <3>1. /\ UNCHANGED <<tables, sessions, peerData, accepted, inQ, httpQ>>
          /\ \A q \in Peers : peerPhase'[q] = "free" <=> peerPhase[q] = "free"
      BY <1>10, <2>2 DEF Acknowledged, Closing, tables, IInv, TypeOK
    <3>2. AcceptedFits'
      BY <3>1 DEF IInv, AcceptedFits, Encrypted, Valid, tables
    <3> QED  BY <1>10, <3>1, <3>2, AnswerGone, InvSlots
  <2> QED  BY <2>1, <2>2
<1> QED
  BY <1>1, <1>2, <1>4, <1>5, <1>6, <1>7, <1>8, <1>9, <1>10, InvConnect, InvDisconnect
     DEF NetworkThread

-----------------------------------------------------------------------------
(* The simulation thread.                                                  *)

LEMMA InvDrainQueues ==
  ASSUME IInv, TypeOK', DrainQueues
  PROVE  IInv'
<1>1. /\ UNCHANGED <<tables, sessions, peerData, peerPhase, accepted>>
      /\ UNCHANGED <<simToNet, netOutBatch, unacked>>
      /\ simNetBatch = <<>> /\ simNetBatch' = netToSim /\ netToSim' = <<>>
  BY DEF DrainQueues, enet, outQ
<1>2. Pending' = Pending
  BY <1>1, ConcatEmptySeq DEF Pending, IInv, TypeOK
<1>3. PendingGuarded
  BY <1>2, PendingSame DEF PendingGuarded, IInv
<1>4. UnderValidation' = UnderValidation
  BY ValidationMoved DEF IInv
<1>5. /\ \A c : Validating(c)' <=> Validating(c)
      /\ ValidationsDistinct'
  BY <1>4, ValidationsSame DEF IInv, OneValidationAtATime
<1>6. SameSessions /\ UNCHANGED <<nextConnectionId, connectionIdToEnetPeer, connectionIdToEncryptionEnabled>>
  BY <1>1 DEF SameSessions, tables
<1> QED
  BY <1>1, <1>3, <1>5, <1>6, AnswerSame, SameSessionFacts, SameConnections

(* What every handler of a network message has in common.                  *)
LEMMA ProcessFacts ==
  ASSUME IInv, NEW type \in NetMessageTypes, NEW msg, Process(msg, type)
  PROVE  /\ msg \in NetworkINToSimulationMessage /\ msg.type = type
         /\ msg.connectionId \in ConnectionIds
         /\ Waiting(type, msg.connectionId)
         /\ \A t, c : Waiting(t, c)' => Waiting(t, c)
         /\ \A t, c : Waiting(t, c) => Waiting(t, c)' \/ (t = type /\ c = msg.connectionId)
         /\ ~Waiting("CONNECT", msg.connectionId)'
         /\ type = "DISCONNECT" => \A t : ~Waiting(t, msg.connectionId)'
         /\ MessagesFramed'
         /\ type \notin {"CONNECT", "DISCONNECT"} => PendingGuarded
         /\ UNCHANGED <<nextConnectionId, connectionIdToEnetPeer,
                        connectionIdToEncryptionEnabled, peerData, peerPhase, unacked,
                        netOutBatch, accepted, httpBatch, httpToSim, simHttpBatch>>
<1>1. /\ simNetBatch # <<>> /\ msg = Head(simNetBatch) /\ msg.type = type
      /\ simNetBatch' = Tail(simNetBatch) /\ netToSim' = netToSim
  BY DEF Process
<1>2. TypeOK /\ MessagesFramed  BY DEF IInv
<1>3. /\ msg \in NetworkINToSimulationMessage
      /\ Waiting(type, msg.connectionId)
      /\ \A t, c : Waiting(t, c)' => Waiting(t, c)
      /\ \A t, c : Waiting(t, c) => Waiting(t, c)' \/ (t = type /\ c = msg.connectionId)
      /\ ~Waiting("CONNECT", msg.connectionId)'
      /\ type = "DISCONNECT" => \A t : ~Waiting(t, msg.connectionId)'
      /\ MessagesFramed'
  BY <1>1, <1>2, PendingTaken
<1>4. msg.connectionId \in ConnectionIds
  BY <1>3 DEF NetworkINToSimulationMessage
<1>5. type \notin {"CONNECT", "DISCONNECT"} => PendingGuarded
  BY <1>3 DEF PendingGuarded
<1>6. UNCHANGED <<nextConnectionId, connectionIdToEnetPeer,
                  connectionIdToEncryptionEnabled, peerData, peerPhase, unacked,
                  netOutBatch, accepted, httpBatch, httpToSim, simHttpBatch>>
  BY DEF Process, tables, enet
<1> QED  BY <1>1, <1>3, <1>4, <1>5, <1>6

LEMMA InvHandleConnect ==
  ASSUME IInv, TypeOK', HandleConnect
  PROVE  IInv'
<1>1. PICK msg :
        /\ Process(msg, "CONNECT")
        /\ sessions' = Put(sessions, msg.connectionId, NewSession)
        /\ UNCHANGED <<simToNet, simToHttp>>
  BY DEF HandleConnect
<1> DEFINE c == msg.connectionId
<1>2. /\ c \in ConnectionIds /\ Waiting("CONNECT", c)
      /\ \A t, d : Waiting(t, d)' => Waiting(t, d)
      /\ \A t, d : Waiting(t, d) => Waiting(t, d)' \/ (t = "CONNECT" /\ d = c)
      /\ ~Waiting("CONNECT", c)'
      /\ MessagesFramed'
      /\ UNCHANGED <<nextConnectionId, connectionIdToEnetPeer,
                     connectionIdToEncryptionEnabled, peerData, peerPhase, unacked,
                     netOutBatch, accepted, httpBatch, httpToSim, simHttpBatch>>
  BY <1>1, ProcessFacts DEF NetMessageTypes
<1>3. Unborn(c)
  BY <1>2 DEF IInv, PendingFits
<1>4. c < nextConnectionId
  BY <1>2 DEF IInv, IdentifiersIssued, NetMessageTypes
<1> HIDE DEF c
<1>5. /\ DOMAIN sessions' = DOMAIN sessions \cup {c}
      /\ sessions'[c] = NewSession
      /\ \A d \in DOMAIN sessions : sessions'[d] = sessions[d]
  BY <1>1, <1>3 DEF Put, Unborn, c
<1>6. /\ \A d : AnswerUnderWay(d)' => AnswerUnderWay(d)
      /\ \A d : Validating(d)' <=> Validating(d)
      /\ ValidationsDistinct'
  BY <1>1, <1>2, AnswerSame, ValidationsUntouched DEF httpQ
<1>7. SlotsAgree' /\ BindingsAgree'
  BY <1>2 DEF IInv, SlotsAgree, BindingsAgree, StillBound
<1>8. SessionsAreOwned' /\ ConnectionsAreServed'
  BY <1>2, <1>3, <1>5 DEF IInv, SessionsAreOwned, ConnectionsAreServed, Unborn
<1>9. EncryptionReplicaAgrees'
  <2>1. c \in DOMAIN connectionIdToEncryptionEnabled => connectionIdToEncryptionEnabled[c] = FALSE
    BY <1>3 DEF IInv, Unborn, SlotsAgree, TypeOK
  <2>2. sessions'[c].isPacketEncryptionEnabled = FALSE
    BY <1>5 DEF NewSession
  <2> QED  BY <1>2, <1>5, <2>1, <2>2 DEF IInv, EncryptionReplicaAgrees
<1>10. ReadyClientsAreValid' /\ AuthenticationIsEncrypted'
  BY <1>5 DEF IInv, ReadyClientsAreValid, AuthenticationIsEncrypted, NewSession
<1>11. OneValidationAtATime'
  BY <1>3, <1>5, <1>6 DEF IInv, OneValidationAtATime, NewSession, Unborn
<1>12. AcceptedFits'
  BY <1>2, <1>3, <1>5 DEF IInv, AcceptedFits, Encrypted, Valid, Unborn
<1>13. PendingFits'
  <2> SUFFICES ASSUME NEW d \in ConnectionIds
               PROVE  /\ Waiting("CONNECT", d)' => Unborn(d)'
                      /\ Waiting("DISCONNECT", d)' => d \notin DOMAIN connectionIdToEnetPeer'
                      /\ Waiting("AUTH", d)' => Encrypted(d)'
                      /\ Waiting("READY", d)' => Valid(d)'
    BY DEF PendingFits
  <2>1. Waiting("CONNECT", d)' => Unborn(d)'
    BY <1>2, <1>5, <1>6 DEF IInv, PendingFits, Unborn
  <2> QED  BY <1>2, <1>3, <1>5, <2>1 DEF IInv, PendingFits, Encrypted, Valid, Unborn
<1>14. IdentifiersIssued'
  BY <1>2, <1>4, <1>5, <1>6 DEF IInv, IdentifiersIssued
<1> QED
  BY <1>2, <1>7, <1>8, <1>9, <1>10, <1>11, <1>12, <1>13, <1>14 DEF IInv

LEMMA InvHandleDisconnect ==
  ASSUME IInv, TypeOK', HandleDisconnect
  PROVE  IInv'
<1>1. PICK msg :
        /\ Process(msg, "DISCONNECT")
        /\ sessions' = Erase(sessions, msg.connectionId)
        /\ UNCHANGED <<simToNet, simToHttp>>
  BY DEF HandleDisconnect
<1> DEFINE c == msg.connectionId
<1>2. /\ c \in ConnectionIds /\ Waiting("DISCONNECT", c)
      /\ \A t, d : Waiting(t, d)' => Waiting(t, d)
      /\ \A t, d : Waiting(t, d) => Waiting(t, d)' \/ (t = "DISCONNECT" /\ d = c)
      /\ \A t : ~Waiting(t, c)'
      /\ MessagesFramed'
      /\ UNCHANGED <<nextConnectionId, connectionIdToEnetPeer,
                     connectionIdToEncryptionEnabled, peerData, peerPhase, unacked,
                     netOutBatch, accepted, httpBatch, httpToSim, simHttpBatch>>
  BY <1>1, ProcessFacts DEF NetMessageTypes
<1>3. c \notin DOMAIN connectionIdToEnetPeer
  BY <1>2 DEF IInv, PendingFits
<1> HIDE DEF c
<1>4. /\ DOMAIN sessions' = DOMAIN sessions \ {c}
      /\ \A d \in DOMAIN sessions' : sessions'[d] = sessions[d]
  BY <1>1 DEF Erase, c
<1>5. /\ \A d : AnswerUnderWay(d)' => AnswerUnderWay(d)
      /\ \A d : Validating(d)' <=> Validating(d)
      /\ ValidationsDistinct'
  BY <1>1, <1>2, AnswerSame, ValidationsUntouched DEF httpQ
<1>6. SlotsAgree' /\ BindingsAgree'
  BY <1>2 DEF IInv, SlotsAgree, BindingsAgree, StillBound
<1>7. SessionsAreOwned' /\ ConnectionsAreServed'
  BY <1>2, <1>3, <1>4 DEF IInv, SessionsAreOwned, ConnectionsAreServed
<1>8. EncryptionReplicaAgrees' /\ ReadyClientsAreValid' /\ AuthenticationIsEncrypted'
  BY <1>2, <1>4 DEF IInv, EncryptionReplicaAgrees, ReadyClientsAreValid,
     AuthenticationIsEncrypted
<1>9. OneValidationAtATime'
  BY <1>4, <1>5 DEF IInv, OneValidationAtATime
<1>10. AcceptedFits'
  BY <1>2, <1>3, <1>4 DEF IInv, AcceptedFits, Encrypted, Valid
<1>11. PendingFits'
  <2> SUFFICES ASSUME NEW d \in ConnectionIds
               PROVE  /\ Waiting("CONNECT", d)' => Unborn(d)'
                      /\ Waiting("DISCONNECT", d)' => d \notin DOMAIN connectionIdToEnetPeer'
                      /\ Waiting("AUTH", d)' => Encrypted(d)'
                      /\ Waiting("READY", d)' => Valid(d)'
    BY DEF PendingFits
  <2>1. CASE d = c  BY <1>2, <2>1
  <2>2. CASE d # c
    BY <1>2, <1>4, <1>5, <2>2 DEF IInv, PendingFits, Unborn, Encrypted, Valid
  <2> QED  BY <2>1, <2>2
<1>12. IdentifiersIssued'
  BY <1>2, <1>4, <1>5 DEF IInv, IdentifiersIssued
<1> QED
  BY <1>2, <1>6, <1>7, <1>8, <1>9, <1>10, <1>11, <1>12 DEF IInv

LEMMA InvHandleHello ==
  ASSUME IInv, TypeOK', HandleHello
  PROVE  IInv'
<1> DEFINE msg == Head(simNetBatch)
           c == msg.connectionId
<1>1. Process(msg, "HELLO") /\ simToHttp' = simToHttp
  BY DEF HandleHello
<1>2. /\ c \in ConnectionIds
      /\ PendingGuarded
      /\ UNCHANGED <<nextConnectionId, connectionIdToEnetPeer,
                     connectionIdToEncryptionEnabled, peerData, peerPhase, unacked,
                     netOutBatch, accepted, httpBatch, httpToSim, simHttpBatch>>
  <2> HIDE DEF msg
  <2> QED  BY <1>1, ProcessFacts DEF NetMessageTypes
<1>3. SameSessions
  <2>1. \/ sessions' = sessions
        \/ c \in DOMAIN sessions /\ sessions' = [sessions EXCEPT ![c] = KeysAccepted(sessions[c], msg.key)]
        \/ c \in DOMAIN sessions /\ sessions' = [sessions EXCEPT ![c] = KeysCleared(sessions[c])]
    BY DEF HandleHello
  <2>2. c \in DOMAIN sessions => sessions[c] \in Session
    BY DEF IInv, TypeOK
  <2> HIDE DEF c, msg
  <2> QED  BY <2>1, <2>2 DEF SameSessions, KeysAccepted, KeysCleared, Session
<1>4. \A d : AnswerUnderWay(d)' => AnswerUnderWay(d) \/ d \in DOMAIN sessions
  <2>1. CASE simToNet' = simToNet
    BY <1>2, <2>1, AnswerSame
  <2>2. CASE simToNet' # simToNet
    <3>1. /\ c \in DOMAIN sessions
          /\ \E ok \in BOOLEAN :
               simToNet' = Append(simToNet, [connectionId |-> c, disconnectAfterAck |-> ~ok,
                                             enableEncryptionAfterAck |-> ok])
      BY <2>2 DEF HandleHello
    <3>2. PICK ok \in BOOLEAN :
            simToNet' = Append(simToNet, [connectionId |-> c, disconnectAfterAck |-> ~ok,
                                          enableEncryptionAfterAck |-> ok])
      BY <3>1
    <3> DEFINE m == [connectionId |-> c, disconnectAfterAck |-> ~ok,
                     enableEncryptionAfterAck |-> ok]
    <3>3. m \in SimulationToNetworkOUTMessage /\ m.connectionId = c
      BY <1>2 DEF SimulationToNetworkOUTMessage
    <3>4. simToNet' = Append(simToNet, m) /\ TypeOK
      BY <3>2 DEF IInv
    <3> HIDE DEF m, c
    <3> QED  BY <1>2, <3>1, <3>3, <3>4, AnswerPushed
  <2> QED  BY <2>1, <2>2
<1>5. /\ \A d : Validating(d)' <=> Validating(d)
      /\ ValidationsDistinct'
  BY <1>1, <1>2, ValidationsUntouched DEF httpQ
<1>6. DOMAIN sessions' = DOMAIN sessions  BY <1>3 DEF SameSessions
<1> QED
  BY <1>2, <1>3, <1>4, <1>5, <1>6, SameSessionFacts, SameConnections

LEMMA InvHandleAuth ==
  ASSUME IInv, TypeOK', HandleAuth
  PROVE  IInv'
<1>1. PICK msg :
        /\ Process(msg, "AUTH") /\ simToNet' = simToNet
        /\ IF MayValidate(msg.connectionId)
           THEN /\ sessions' = [sessions EXCEPT ![msg.connectionId].authStatus = "WaitingAuth"]
                /\ simToHttp' = Append(simToHttp, msg.connectionId)
           ELSE UNCHANGED <<sessions, simToHttp>>
  BY DEF HandleAuth
<1> DEFINE c == msg.connectionId
<1>2. /\ c \in ConnectionIds /\ Waiting("AUTH", c)
      /\ PendingGuarded
      /\ UNCHANGED <<nextConnectionId, connectionIdToEnetPeer,
                     connectionIdToEncryptionEnabled, peerData, peerPhase, unacked,
                     netOutBatch, accepted, httpBatch, httpToSim, simHttpBatch>>
  BY <1>1, ProcessFacts DEF NetMessageTypes
<1>3. \A d : AnswerUnderWay(d)' => AnswerUnderWay(d)
  BY <1>1, <1>2, AnswerSame
<1>4. CASE ~MayValidate(c)
  <2>1. UNCHANGED <<sessions, simToHttp>>  BY <1>1, <1>4
  <2>2. /\ SameSessions
        /\ \A d : Validating(d)' <=> Validating(d)
        /\ ValidationsDistinct'
    BY <1>2, <2>1, ValidationsUntouched DEF SameSessions, httpQ
  <2> QED  BY <1>2, <1>3, <2>1, <2>2, SameSessionFacts, SameConnections
<1>5. CASE MayValidate(c)
  <2>1. /\ c \in DOMAIN sessions /\ sessions[c].authStatus = "None"
        /\ sessions[c] \in Session
        /\ sessions' = [sessions EXCEPT ![c].authStatus = "WaitingAuth"]
        /\ simToHttp' = Append(simToHttp, c)
    BY <1>1, <1>5 DEF MayValidate, IInv, TypeOK
  <2> HIDE DEF c
  <2>2. /\ DOMAIN sessions' = DOMAIN sessions
        /\ \A d \in DOMAIN sessions : d # c => sessions'[d] = sessions[d]
        /\ sessions'[c].authStatus = "WaitingAuth"
        /\ sessions'[c].isPacketEncryptionEnabled = sessions[c].isPacketEncryptionEnabled
        /\ sessions'[c].isReadyForMatch = sessions[c].isReadyForMatch
    BY <2>1 DEF Session
  <2>3. Encrypted(c)
    BY <1>2 DEF IInv, PendingFits
  <2>4. ~Validating(c) /\ ~sessions[c].isReadyForMatch
    BY <2>1 DEF IInv, OneValidationAtATime, ReadyClientsAreValid
  <2>5. /\ \A d : Validating(d)' <=> Validating(d) \/ d = c
        /\ ValidationsDistinct'
    BY <1>2, <2>1, <2>4, ValidationRequested DEF IInv, OneValidationAtATime
  <2>6. \A d : (Encrypted(d) => Encrypted(d)') /\ (Valid(d) => Valid(d)')
    BY <2>1, <2>2 DEF Encrypted, Valid
  <2>7. EncryptionReplicaAgrees'
    BY <1>2, <2>1, <2>2 DEF IInv, EncryptionReplicaAgrees
  <2>8. ReadyClientsAreValid' /\ AuthenticationIsEncrypted'
    BY <2>1, <2>2, <2>3, <2>4 DEF IInv, ReadyClientsAreValid, AuthenticationIsEncrypted,
       Encrypted
  <2>9. OneValidationAtATime'
    BY <2>1, <2>2, <2>5 DEF IInv, OneValidationAtATime
  <2>10. AcceptedFits'
    BY <1>2, <2>6 DEF IInv, AcceptedFits
  <2> QED
    BY <1>2, <1>3, <2>1, <2>2, <2>5, <2>6, <2>7, <2>8, <2>9, <2>10, SameConnections
<1> QED  BY <1>4, <1>5

LEMMA InvHandleReady ==
  ASSUME IInv, TypeOK', HandleReady
  PROVE  IInv'
<1>1. PICK msg :
        /\ Process(msg, "READY") /\ UNCHANGED <<simToNet, simToHttp>>
        /\ sessions' = IF msg.connectionId \in DOMAIN sessions
                       THEN [sessions EXCEPT ![msg.connectionId].isReadyForMatch = TRUE]
                       ELSE sessions
  BY DEF HandleReady
<1> DEFINE c == msg.connectionId
<1>2. /\ c \in ConnectionIds /\ Waiting("READY", c)
      /\ PendingGuarded
      /\ UNCHANGED <<nextConnectionId, connectionIdToEnetPeer,
                     connectionIdToEncryptionEnabled, peerData, peerPhase, unacked,
                     netOutBatch, accepted, httpBatch, httpToSim, simHttpBatch>>
  BY <1>1, ProcessFacts DEF NetMessageTypes
<1>3. \A d : AnswerUnderWay(d)' => AnswerUnderWay(d)
  BY <1>1, <1>2, AnswerSame
(* The guard of the channel saw a valid session; it still is.              *)
<1>4. Valid(c)
  BY <1>2 DEF IInv, PendingFits
<1>5. /\ c \in DOMAIN sessions /\ sessions[c].authStatus = "Valid" /\ sessions[c] \in Session
      /\ sessions' = [sessions EXCEPT ![c].isReadyForMatch = TRUE]
  BY <1>1, <1>4 DEF Valid, IInv, TypeOK
<1> HIDE DEF c
<1>6. /\ DOMAIN sessions' = DOMAIN sessions
      /\ \A d \in DOMAIN sessions :
           /\ sessions'[d].authStatus = sessions[d].authStatus
           /\ sessions'[d].isPacketEncryptionEnabled = sessions[d].isPacketEncryptionEnabled
           /\ d # c => sessions'[d] = sessions[d]
  BY <1>5 DEF Session
<1>7. /\ \A d : Validating(d)' <=> Validating(d)
      /\ ValidationsDistinct'
  BY <1>1, <1>2, ValidationsUntouched DEF httpQ
<1>8. EncryptionReplicaAgrees' /\ AuthenticationIsEncrypted'
  BY <1>2, <1>6 DEF IInv, EncryptionReplicaAgrees, AuthenticationIsEncrypted
<1>9. ReadyClientsAreValid'
  BY <1>5, <1>6 DEF IInv, ReadyClientsAreValid
<1>10. OneValidationAtATime'
  BY <1>6, <1>7 DEF IInv, OneValidationAtATime
<1>11. \A d : (Encrypted(d) => Encrypted(d)') /\ (Valid(d) => Valid(d)')
  BY <1>6 DEF Encrypted, Valid
<1>12. AcceptedFits'
  BY <1>2, <1>11 DEF IInv, AcceptedFits
<1> QED
  BY <1>2, <1>3, <1>6, <1>7, <1>8, <1>9, <1>10, <1>11, <1>12, SameConnections

LEMMA InvHandleValidateTokenResponse ==
  ASSUME IInv, TypeOK', HandleValidateTokenResponse
  PROVE  IInv'
<1>1. PICK msg :
        /\ msg = Head(simHttpBatch) /\ simHttpBatch # <<>>
        /\ simHttpBatch' = Tail(simHttpBatch)
        /\ IF msg.connectionId \in DOMAIN sessions
           THEN /\ sessions' = [sessions EXCEPT ![msg.connectionId].authStatus =
                                  IF msg.isValid THEN "Valid" ELSE "Invalid"]
                /\ simToNet' = Append(simToNet,
                     [connectionId |-> msg.connectionId, disconnectAfterAck |-> ~msg.isValid,
                      enableEncryptionAfterAck |-> FALSE])
           ELSE UNCHANGED <<sessions, simToNet>>
  BY DEF HandleValidateTokenResponse
<1> DEFINE c == msg.connectionId
           status == IF msg.isValid THEN "Valid" ELSE "Invalid"
<1>2. UNCHANGED <<nextConnectionId, connectionIdToEnetPeer,
                  connectionIdToEncryptionEnabled, peerData, peerPhase, unacked,
                  accepted, netOutBatch, simToHttp, httpBatch, httpToSim>>
      /\ UNCHANGED inQ
  BY DEF HandleValidateTokenResponse, tables, enet
<1>3. PendingGuarded
  BY <1>2, PendingUntouched
<1>4. msg \in HttpToSimulationMessage /\ c \in ConnectionIds
  <2>1. simHttpBatch \in Seq(HttpToSimulationMessage)
    BY DEF IInv, TypeOK
  <2>2. msg \in HttpToSimulationMessage
    BY <1>1, <2>1, TailType
  <2> QED  BY <2>2 DEF HttpToSimulationMessage
<1>5. /\ Validating(c) /\ ~Validating(c)'
      /\ \A d : d # c => (Validating(d)' <=> Validating(d))
      /\ ValidationsDistinct'
  BY <1>1, <1>2, ValidationTaken DEF IInv, OneValidationAtATime
<1>6. CASE c \notin DOMAIN sessions
  <2>1. SameSessions /\ simToNet' = simToNet
    BY <1>1, <1>6 DEF SameSessions
  <2>2. \A d : AnswerUnderWay(d)' => AnswerUnderWay(d)
    BY <1>2, <2>1, AnswerSame
  <2>3. \A d \in DOMAIN sessions : Validating(d)' <=> Validating(d)
    BY <1>5, <1>6
  <2>4. \A d : Validating(d)' => Validating(d)
    BY <1>5
  <2>5. DOMAIN sessions' = DOMAIN sessions  BY <2>1 DEF SameSessions
  <2> HIDE DEF c
  <2> QED
    BY <1>2, <1>3, <1>5, <2>1, <2>2, <2>3, <2>4, <2>5, SameSessionFacts, SameConnections
<1>7. CASE c \in DOMAIN sessions
  <2>1. /\ sessions' = [sessions EXCEPT ![c].authStatus = status]
        /\ sessions[c] \in Session
    BY <1>1, <1>7 DEF IInv, TypeOK
  (* The session waits for this answer: it is not ready, nor valid yet.    *)
  <2>2. sessions[c].authStatus = "WaitingAuth"
    BY <1>5, <1>7 DEF IInv, OneValidationAtATime
  <2>3. \A d : AnswerUnderWay(d)' => AnswerUnderWay(d) \/ d \in DOMAIN sessions
    <3> DEFINE m == [connectionId |-> c, disconnectAfterAck |-> ~msg.isValid,
                     enableEncryptionAfterAck |-> FALSE]
    <3>1. m \in SimulationToNetworkOUTMessage /\ m.connectionId = c
      BY <1>4 DEF SimulationToNetworkOUTMessage
    <3>2. simToNet' = Append(simToNet, m) /\ TypeOK
      BY <1>1, <1>7 DEF IInv
    <3> HIDE DEF m, c
    <3> QED  BY <1>2, <1>7, <3>1, <3>2, AnswerPushed
  <2>4. status \in {"Valid", "Invalid"}  OBVIOUS
  <2> HIDE DEF c, status
  <2>5. /\ DOMAIN sessions' = DOMAIN sessions
        /\ \A d \in DOMAIN sessions : d # c => sessions'[d] = sessions[d]
        /\ sessions'[c].authStatus = status
        /\ sessions'[c].isPacketEncryptionEnabled = sessions[c].isPacketEncryptionEnabled
        /\ sessions'[c].isReadyForMatch = sessions[c].isReadyForMatch
    BY <1>7, <2>1 DEF Session
  <2>6. EncryptionReplicaAgrees'
    BY <1>2, <1>7, <2>5 DEF IInv, EncryptionReplicaAgrees
  <2>7. ReadyClientsAreValid' /\ AuthenticationIsEncrypted'
    <3>1. ~sessions[c].isReadyForMatch /\ sessions[c].isPacketEncryptionEnabled
      BY <1>7, <2>2 DEF IInv, ReadyClientsAreValid, AuthenticationIsEncrypted
    <3> QED  BY <1>7, <2>5, <3>1 DEF IInv, ReadyClientsAreValid, AuthenticationIsEncrypted
  <2>8. OneValidationAtATime'
    BY <1>5, <1>7, <2>4, <2>5 DEF IInv, OneValidationAtATime
  <2>9. \A d : (Encrypted(d) => Encrypted(d)') /\ (Valid(d) => Valid(d)')
    BY <1>7, <2>2, <2>5 DEF Encrypted, Valid
  <2>10. AcceptedFits'
    BY <1>2, <2>9 DEF IInv, AcceptedFits
  <2>11. \A d : Validating(d)' => Validating(d)
    BY <1>5 DEF c
  <2> QED
    BY <1>2, <1>3, <2>3, <2>5, <2>6, <2>7, <2>8, <2>9, <2>10, <2>11, SameConnections
<1> QED  BY <1>6, <1>7

LEMMA InvSimulation ==
  ASSUME IInv, TypeOK', SimulationThread
  PROVE  IInv'
BY InvDrainQueues, InvHandleConnect, InvHandleDisconnect, InvHandleHello, InvHandleAuth,
   InvHandleReady, InvHandleValidateTokenResponse DEF SimulationThread

-----------------------------------------------------------------------------
(* The HTTP thread.                                                        *)

LEMMA InvHttp ==
  ASSUME IInv, TypeOK', HttpThread
  PROVE  IInv'
<1>1. /\ UNCHANGED <<tables, sessions, peerData, peerPhase, accepted>>
      /\ UNCHANGED inQ /\ UNCHANGED <<simToNet, netOutBatch, unacked>>
  BY DEF HttpThread, DrainRequests, ValidateToken, enet, outQ
<1>2. UnderValidation' = UnderValidation
  BY ValidationMoved DEF HttpThread, IInv
<1>3. /\ SameSessions /\ PendingGuarded
      /\ \A c : Validating(c)' <=> Validating(c)
      /\ ValidationsDistinct'
  BY <1>1, <1>2, PendingUntouched, ValidationsSame
     DEF SameSessions, IInv, OneValidationAtATime
<1>4. UNCHANGED <<nextConnectionId, connectionIdToEnetPeer, connectionIdToEncryptionEnabled>>
  BY <1>1 DEF tables
<1> QED
  BY <1>1, <1>3, <1>4, AnswerSame, SameSessionFacts, SameConnections

-----------------------------------------------------------------------------
(* The invariant.                                                          *)

LEMMA InvInit == Init => IInv
<1> SUFFICES ASSUME Init PROVE IInv
  OBVIOUS
<1>1. Pending = <<>> /\ UnderValidation = <<>> /\ Len(simToNet) = 0 /\ Len(netOutBatch) = 0
  BY DEF Init, Pending, UnderValidation, IdsOf
<1>2. /\ \A type, c : ~Waiting(type, c)
      /\ \A c : ~Validating(c) /\ ~AnswerUnderWay(c)
      /\ ValidationsDistinct /\ MessagesFramed
  BY <1>1 DEF Init, Waiting, Validating, AnswerUnderWay, ValidationsDistinct, MessagesFramed
<1>3. /\ DOMAIN sessions = {} /\ DOMAIN connectionIdToEnetPeer = {}
      /\ DOMAIN connectionIdToEncryptionEnabled = {}
  BY DEF Init, EmptyMap
<1>4. SlotsAgree /\ BindingsAgree
  BY <1>3 DEF Init, SlotsAgree, BindingsAgree
<1>5. /\ SessionsAreOwned /\ ConnectionsAreServed /\ EncryptionReplicaAgrees
      /\ ReadyClientsAreValid /\ AuthenticationIsEncrypted /\ OneValidationAtATime
  BY <1>2, <1>3 DEF SessionsAreOwned, ConnectionsAreServed, EncryptionReplicaAgrees,
     ReadyClientsAreValid, AuthenticationIsEncrypted, OneValidationAtATime
<1>6. PendingFits /\ AcceptedFits /\ IdentifiersIssued
  BY <1>2, <1>3 DEF Init, PendingFits, AcceptedFits, IdentifiersIssued
<1> QED  BY <1>2, <1>4, <1>5, <1>6, TypeInit DEF IInv

LEMMA InvStep ==
  ASSUME IInv, [Next]_vars
  PROVE  IInv'
<1>1. TypeOK'
  BY TypeStep DEF IInv
<1>2. CASE UNCHANGED vars
  <2>1. UNCHANGED <<tables, sessions, peerData, peerPhase, accepted, inQ, httpQ>>
        /\ UNCHANGED <<simToNet, netOutBatch, unacked>>
    BY <1>2 DEF vars, enet, outQ
  <2>2. AcceptedFits'
    BY <2>1 DEF IInv, AcceptedFits, Encrypted, Valid, tables
  <2> QED  BY <1>1, <2>1, <2>2, AnswerSame, InvSlots
<1> QED  BY <1>1, <1>2, InvNetwork, InvSimulation, InvHttp DEF Next

(* The inductive invariant holds in every reachable state.                 *)
THEOREM InvariantHolds == Spec => []IInv
BY InvInit, InvStep, PTL DEF Spec

(* No session outlives its connection unnoticed.                           *)
THEOREM SessionsFollowConnections == Spec => []SessionsAreOwned
<1>1. IInv => SessionsAreOwned
  BY DEF IInv
<1> QED  BY <1>1, InvariantHolds, PTL

(* No connection that is still bound goes without its session, but for the *)
(* time its CONNECT waits for the simulation.                              *)
THEOREM ConnectionsStayServed == Spec => []ConnectionsAreServed
<1>1. IInv => ConnectionsAreServed
  BY DEF IInv
<1> QED  BY <1>1, InvariantHolds, PTL

(* peer->data and the connection table stay inverse to each other.         *)
THEOREM BindingsStayInverse == Spec => []BindingsAgree
<1>1. IInv => BindingsAgree
  BY DEF IInv
<1> QED  BY <1>1, InvariantHolds, PTL

(* The simulation hears of a connection in order: beginning, packets, end. *)
THEOREM MessagesStayFramed == Spec => []MessagesFramed
<1>1. IInv => MessagesFramed
  BY DEF IInv
<1> QED  BY <1>1, InvariantHolds, PTL

(* Only clients whose token was accepted ever count as ready.              *)
THEOREM ReadyClientsStayValid == Spec => []ReadyClientsAreValid
<1>1. IInv => ReadyClientsAreValid
  BY DEF IInv
<1> QED  BY <1>1, InvariantHolds, PTL

(* No session gets beyond the handshake before it is encrypted.            *)
THEOREM AuthenticationStaysEncrypted == Spec => []AuthenticationIsEncrypted
<1>1. IInv => AuthenticationIsEncrypted
  BY DEF IInv
<1> QED  BY <1>1, InvariantHolds, PTL

(* The network thread and the session agree on whether a connection is     *)
(* encrypted.                                                              *)
THEOREM EncryptionStaysReplicated == Spec => []EncryptionReplicaAgrees
<1>1. IInv => EncryptionReplicaAgrees
  BY DEF IInv
<1> QED  BY <1>1, InvariantHolds, PTL

(* A connection is validated once at a time, and exactly while it waits.   *)
THEOREM ValidatedOnceAtATime == Spec => []OneValidationAtATime
<1>1. IInv => OneValidationAtATime
  BY DEF IInv
<1> QED  BY <1>1, InvariantHolds, PTL

(* A late acknowledgement of the connection that had the slot before never *)
(* switches encryption on.                                                 *)
THEOREM EncryptionNeedsItsOwnAck == Spec => EncryptionNeedsOwnAck
<1> DEFINE D == DOMAIN connectionIdToEncryptionEnabled
                  \cap DOMAIN connectionIdToEncryptionEnabled'
           Own(c) == \E ctx \in unacked \ unacked' :
                       ctx.connectionId = c /\ ctx.enableEncryptionAfterAck
           A == \A c \in D :
                  connectionIdToEncryptionEnabled'[c] # connectionIdToEncryptionEnabled[c]
                    => Own(c)
<1>1. ASSUME IInv, Next PROVE A
  <2> SUFFICES ASSUME NEW c \in D,
                      connectionIdToEncryptionEnabled'[c] # connectionIdToEncryptionEnabled[c]
               PROVE  Own(c)
    OBVIOUS
  <2>1. ASSUME NEW ctx \in unacked, Acknowledged(ctx)
        PROVE  Own(c)
    <3>1. /\ AckActionAllowed(ctx) /\ ctx.enableEncryptionAfterAck
          /\ EnableEncryption(ctx.peer) /\ unacked' = unacked \ {ctx}
      BY <2>1 DEF Acknowledged
    <3>2. peerData[ctx.peer] = ctx.connectionId
      BY <3>1 DEF AckActionAllowed, StillBound
    <3>3. c = ctx.connectionId
      BY <3>1, <3>2 DEF EnableEncryption, Put
    <3> QED  BY <3>1, <3>3
  <2>2. ASSUME NEW p \in Peers, Connect(p)
        PROVE  FALSE
    <3>1. connectionIdToEncryptionEnabled' =
            Put(connectionIdToEncryptionEnabled, nextConnectionId, FALSE)
      BY <2>2 DEF Connect
    <3>2. c = nextConnectionId
      BY <3>1 DEF Put
    <3>3. nextConnectionId \in ConnectionIds
      BY <1>1, <2>2, ConstantsAssumption DEF Connect, IInv, TypeOK, ConnectionIds
    <3>4. nextConnectionId \in DOMAIN connectionIdToEnetPeer
      BY <1>1, <3>2 DEF IInv, SlotsAgree
    <3>5. nextConnectionId < nextConnectionId
      BY <1>1, <3>3, <3>4 DEF IInv, IdentifiersIssued
    <3> QED  BY <3>3, <3>5, ConstantsAssumption DEF ConnectionIds
  <2>3. ASSUME NEW p \in Peers, Disconnect(p)
        PROVE  FALSE
    <3>1. \/ connectionIdToEncryptionEnabled' = connectionIdToEncryptionEnabled
          \/ connectionIdToEncryptionEnabled' = Erase(connectionIdToEncryptionEnabled, peerData[p])
      BY <2>3 DEF Disconnect, tables
    <3> QED  BY <3>1 DEF Erase
  <2>4. CASE UNCHANGED connectionIdToEncryptionEnabled
    BY <2>4
  <2>5. \/ UNCHANGED connectionIdToEncryptionEnabled
        \/ \E p \in Peers : Connect(p) \/ Disconnect(p)
        \/ \E ctx \in unacked : Acknowledged(ctx)
    <3>1. SimulationThread \/ HttpThread => UNCHANGED connectionIdToEncryptionEnabled
      BY DEF SimulationThread, DrainQueues, HandleConnect, HandleDisconnect, HandleHello,
         HandleAuth, HandleReady, HandleValidateTokenResponse, Process, HttpThread,
         DrainRequests, ValidateToken, tables
    <3>2. NetworkThread =>
            \/ UNCHANGED connectionIdToEncryptionEnabled
            \/ \E p \in Peers : Connect(p) \/ Disconnect(p)
            \/ \E ctx \in unacked : Acknowledged(ctx)
      BY DEF NetworkThread, ReceiveHello, ReceiveOtherVersion, ReceiveAuth, ReceiveReady,
         Accept, PushAccepted, DrainSimulationToNetwork, SendReliable, Freed, tables
    <3> QED  BY <1>1, <3>1, <3>2 DEF Next
  <2> QED  BY <2>1, <2>2, <2>3, <2>4, <2>5
<1>2. IInv /\ [Next]_vars => [A]_vars
  BY <1>1
<1> QED  BY <1>2, InvariantHolds, PTL DEF Spec, EncryptionNeedsOwnAck

=============================================================================
