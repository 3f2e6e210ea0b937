-------------------------- MODULE PacketCodec_proofs --------------------------
(* The reader stays within its bytes, whatever bytes arrive; what it       *)
(* accepts is what its fields are written as; what the server writes from  *)
(* it again keeps the bytes it must keep; what a client writes is accepted.*)
EXTENDS PacketCodec, SequenceTheorems, WellFoundedInduction, TLAPS

Kinds == {"u8", "u32", "u64", "key", "nonce", "signature", "string"}
Layouts == {Hello, Auth, Ready, Input, SnapshotRead, Nothing}

(* The fields of every packet are of a kind the reader knows.              *)
LEMMA KindsKnown ==
  ASSUME NEW p \in Layouts, NEW i \in DOMAIN p.fields
  PROVE  p.fields[i].kind \in Kinds
<1>1. CASE p = Hello
  BY <1>1 DEF Hello, U32, Field, Kinds
<1>2. CASE p = Auth
  BY <1>2 DEF Auth, Field, Kinds
<1>3. CASE p = Ready
  BY <1>3 DEF Ready
<1>4. CASE p = Input
  BY <1>4 DEF Input, U8, U32, Field, Kinds
<1>5. CASE p = SnapshotRead
  BY <1>5 DEF SnapshotRead, U32, U64, Field, Kinds
<1>6. CASE p = Nothing
  BY <1>6 DEF Nothing
<1> QED  BY <1>1, <1>2, <1>3, <1>4, <1>5, <1>6 DEF Layouts

(* The fields of a packet are a sequence.                                  *)
LEMMA LengthsAreNat ==
  ASSUME NEW p \in Layouts
  PROVE  Len(p.fields) \in Nat /\ DOMAIN p.fields = 1 .. Len(p.fields)
BY DEF Layouts, Hello, Auth, Ready, Input, SnapshotRead, Nothing

(* A channel delivers packets of known layout.                             *)
LEMMA DeliversLayouts ==
  ASSUME NEW ch  PROVE  Delivers(ch) \subseteq Layouts
BY DEF Delivers, Layouts

(* The widths are natural numbers.                                         *)
LEMMA WidthsAreNat ==
  ASSUME NEW kind \in Kinds \ {"string"}  PROVE  Width(kind) \in Nat
BY CodecAssumption DEF Kinds, Width

(* Two digits are a natural number.                                        *)
LEMMA TwoDigits ==
  ASSUME NEW a \in Nat, NEW b \in Nat, NEW c \in Nat  PROVE  a * b + c \in Nat
OBVIOUS

(* A field that fits ends within the bytes.                                *)
LEMMA FieldsEndInBounds ==
  ASSUME data \in Seq(Bytes), offset \in Nat, NEW kind \in Kinds, Fits(kind)
  PROVE  offset + Taken(kind) \in Nat /\ offset + Taken(kind) <= Len(data)
<1>1. CASE kind = "string"
  <2>1. CanRead(offset, 2)
    BY <1>1 DEF Fits, StringFits, Width
  <2>2. offset + 1 \in 1 .. Len(data) /\ offset + 2 \in 1 .. Len(data)
    BY <2>1 DEF CanRead
  <2>3. data[offset + 1] \in Bytes /\ data[offset + 2] \in Bytes
    BY <2>2
  <2>4. StringLength \in Nat
    <3> DEFINE high == data[offset + 1]
               low  == data[offset + 2]
    <3>1. high \in Nat /\ low \in Nat /\ Base \in Nat
      BY <2>3, CodecAssumption DEF Bytes
    <3>2. StringLength = high * Base + low
      BY DEF StringLength
    <3> HIDE DEF high, low
    <3> QED  BY <3>1, <3>2, TwoDigits
  <2>5. CanRead(offset + 2, StringLength)
    BY <1>1 DEF Fits, StringFits, Width
  <2>6. Taken(kind) = 2 + StringLength
    BY <1>1 DEF Taken, Width
  <2> QED  BY <2>4, <2>5, <2>6 DEF CanRead
<1>2. CASE kind # "string"
  BY <1>2, WidthsAreNat DEF Fits, CanRead, Taken
<1> QED  BY <1>1, <1>2

(* Initially.                                                              *)
LEMMA InitTypeOK == Init => TypeOK
BY CodecAssumption DEF Init, TypeOK, CursorInBounds, Nothing

(* No step leads out of the types.                                         *)
LEMMA NextTypeOK == TypeOK /\ [Next]_vars => TypeOK'
<1> SUFFICES ASSUME TypeOK, [Next]_vars  PROVE TypeOK'
  OBVIOUS
<1> USE DEF TypeOK, CursorInBounds
<1>0. data \in Seq(Bytes) /\ Len(data) \in Nat
  BY CodecAssumption
<1>1. CASE ReadType
  <2>1. next' = 1 /\ 1 - 1 = 0 /\ read' = read /\ DOMAIN read = {}
    BY <1>1 DEF ReadType
  <2>2. CASE CanRead(0, 1) /\ \E p \in Delivers(channel) : p.type = data[1]
    <3>1. packet' \in Delivers(channel) /\ offset' = 1 /\ status' = "reading"
      BY <1>1, <2>2 DEF ReadType
    <3>2. 1 <= Len(data)
      BY <2>2, <1>0 DEF CanRead
    <3>3. Len(packet'.fields) \in Nat
      BY <3>1, DeliversLayouts, LengthsAreNat
    <3> QED  BY <1>1, <2>1, <3>1, <3>2, <3>3 DEF ReadType
  <2>3. CASE ~(CanRead(0, 1) /\ \E p \in Delivers(channel) : p.type = data[1])
    BY <1>1, <2>3 DEF ReadType
  <2> QED  BY <2>2, <2>3
<1>2. CASE ReadField
  <2>1. packet \in Layouts /\ Len(packet.fields) \in Nat
    BY DeliversLayouts, LengthsAreNat DEF Layouts
  <2>2. next \in DOMAIN packet.fields
    BY <1>2, <2>1, LengthsAreNat DEF ReadField
  <2>3. packet.fields[next].kind \in Kinds
    BY <2>1, <2>2, KindsKnown
  <2>4. CASE Fits(packet.fields[next].kind)
    <3>1. offset' \in Nat /\ offset' <= Len(data)
      BY <1>0, <1>2, <2>3, <2>4, FieldsEndInBounds DEF ReadField
    <3>2. next' = next + 1 /\ next' \in 1 .. Len(packet.fields) + 1
      BY <1>2, <2>1, <2>4 DEF ReadField
    <3>3. DOMAIN read' = DOMAIN read \cup {packet.fields[next].name}
      BY <1>2, <2>4 DEF ReadField
    <3>4. 1 .. next' - 1 = (1 .. next - 1) \cup {next}
      BY <3>2, <2>1
    <3>5. DOMAIN read' = {packet.fields[i].name : i \in 1 .. next' - 1}
      BY <3>3, <3>4
    <3> QED  BY <1>2, <2>4, <3>1, <3>2, <3>5 DEF ReadField
  <2>5. CASE ~Fits(packet.fields[next].kind)
    BY <1>2, <2>5 DEF ReadField
  <2> QED  BY <2>4, <2>5
<1>3. CASE Finish
  BY <1>3 DEF Finish
<1>4. ASSUME NEW id \in SnapshotIds, PatchSnapshot(id)  PROVE TypeOK'
  BY <1>4 DEF PatchSnapshot
<1>5. ASSUME NEW key \in ServerKeys, NEW signature \in Signatures, NEW now \in Times,
             AnswerHello(key, signature, now)
      PROVE  TypeOK'
  BY <1>5 DEF AnswerHello
<1>6. CASE UNCHANGED vars
  BY <1>6 DEF vars
<1> QED  BY <1>1, <1>2, <1>3, <1>4, <1>5, <1>6 DEF Next

(* The reader of every packet stays within the bytes that arrived, for all *)
(* bytes, sizes of keys and limits.                                        *)
THEOREM ReaderStaysInBounds == Spec => []TypeOK
<1>1. TypeOK /\ [Next]_vars => TypeOK'
  BY NextTypeOK
<1> QED  BY InitTypeOK, <1>1, PTL DEF Spec

-----------------------------------------------------------------------------
(* Recursion over the naturals.  The induction theorems of the library     *)
(* take a predicate, which the provers cannot instantiate; these take sets *)
(* and functions, and rest on every set of naturals having a least one.    *)

(* A set of naturals that is not empty has a least element.                *)
LEMMA NatMinimum ==
  ASSUME NEW T, T \subseteq Nat, T # {}
  PROVE  \E x \in T : \A y \in T : x <= y
<1> DEFINE R == OpToRel(<, Nat)
<1>1. \A x, y \in Nat : <<x, y>> \in R <=> x < y
  BY DEF OpToRel
<1>2. IsWellFoundedOn(R, Nat)
  BY NatLessThanWellFounded
<1> HIDE DEF R
<1>3. PICK x \in T : \A y \in T : ~(<<y, x>> \in R)
  BY <1>2, WFMin
<1>4. ASSUME NEW y \in T PROVE x <= y
  <2>1. ~(y < x)  BY <1>1, <1>3
  <2> QED  BY <2>1
<1> QED  BY <1>4

(* What holds of 0 and passes on from k - 1 to k holds up to n.            *)
LEMMA Induction ==
  ASSUME NEW n \in Nat, NEW S, 0 \in S, \A k \in 1 .. n : k - 1 \in S => k \in S
  PROVE  \A k \in 0 .. n : k \in S
<1> DEFINE T == (0 .. n) \ S
<1> SUFFICES ASSUME T # {} PROVE FALSE
  OBVIOUS
<1>1. PICK x \in T : \A y \in T : x <= y
  <2>1. T \subseteq Nat  OBVIOUS
  <2> HIDE DEF T
  <2> QED  BY <2>1, NatMinimum
<1>2. x \in 1 .. n /\ x \notin S
  OBVIOUS
<1>3. x - 1 \in 0 .. n /\ ~(x <= x - 1)
  BY <1>2
<1>4. x - 1 \in S
  BY <1>1, <1>3
<1> QED  BY <1>2, <1>4

(* Induction: a set that has 0 and all successors has every natural.       *)
LEMMA InductionOnNat ==
  ASSUME NEW S, 0 \in S, \A n \in Nat : n \in S => n + 1 \in S
  PROVE  Nat \subseteq S
<1> SUFFICES ASSUME NEW n \in Nat PROVE n \in S
  OBVIOUS
<1>1. ASSUME NEW k \in 1 .. n, k - 1 \in S PROVE k \in S
  <2>1. k - 1 \in Nat /\ (k - 1) + 1 = k
    OBVIOUS
  <2> QED  BY <1>1, <2>1
<1> QED  BY <1>1, Induction

-----------------------------------------------------------------------------
(* Numbers and their bytes.                                                *)

(* What the assumption says of the base.                                   *)
LEMMA BaseType == Base \in Nat /\ Base > 2
BY CodecAssumption

(* Quotient and remainder take apart a number to which a digit was         *)
(* appended.                                                               *)
LEMMA Digits ==
  ASSUME NEW a \in Nat, NEW d \in Bytes
  PROVE  /\ a * Base + d \in Nat
         /\ (a * Base + d) \div Base = a /\ (a * Base + d) % Base = d
<1>1. d \in Nat /\ d < Base /\ Base \in Nat /\ Base > 2
  BY BaseType DEF Bytes
<1>2. (a * Base + d) \div Base = a
  BY <1>1
<1>3. (a * Base + d) % Base = d
  BY <1>1
<1>4. a * Base + d \in Nat
  BY <1>1
<1> QED  BY <1>2, <1>3, <1>4

(* Quotient and remainder by the base give a number back.                  *)
LEMMA LowDigit ==
  ASSUME NEW n \in Nat
  PROVE  /\ n \div Base \in Nat /\ n % Base \in Bytes
         /\ (n \div Base) * Base + (n % Base) = n
<1>1. Base \in Nat /\ Base > 2
  BY BaseType
<1>2. n \div Base \in Nat
  BY <1>1
<1>3. n % Base \in 0 .. Base - 1
  BY <1>1
<1>4. (n \div Base) * Base + (n % Base) = n
  BY <1>1
<1> QED  BY <1>2, <1>3, <1>4 DEF Bytes

(* There is a function as the recursion of Shifted says.                   *)
LEMMA ShiftedExists ==
  ASSUME NEW n
  PROVE  \A width \in Nat :
           \E f : f = [k \in 0 .. width |-> IF k = 0 THEN n ELSE f[k - 1] \div Base]
<1> DEFINE S == {m \in Nat : \E f : f = [k \in 0 .. m |-> IF k = 0 THEN n ELSE f[k - 1] \div Base]}
<1>1. 0 \in S
  <2>1. [k \in 0 .. 0 |-> n]
          = [k \in 0 .. 0 |-> IF k = 0 THEN n ELSE [i \in 0 .. 0 |-> n][k - 1] \div Base]
    OBVIOUS
  <2> QED  BY <2>1
<1>2. ASSUME NEW m \in Nat, m \in S PROVE m + 1 \in S
  <2>1. PICK f : f = [k \in 0 .. m |-> IF k = 0 THEN n ELSE f[k - 1] \div Base]
    BY <1>2
  <2> DEFINE g == [k \in 0 .. m + 1 |-> IF k <= m THEN f[k] ELSE f[m] \div Base]
  <2>2. g = [k \in 0 .. m + 1 |-> IF k = 0 THEN n ELSE g[k - 1] \div Base]
    <3> SUFFICES ASSUME NEW k \in 0 .. m + 1
                 PROVE  g[k] = IF k = 0 THEN n ELSE g[k - 1] \div Base
      OBVIOUS
    <3>1. CASE k = m + 1
      BY <3>1
    <3>2. CASE k <= m
      BY <2>1, <3>2
    <3> QED  BY <3>1, <3>2
  <2>3. \E h : h = [k \in 0 .. m + 1 |-> IF k = 0 THEN n ELSE h[k - 1] \div Base]
    <3> HIDE DEF g
    <3> QED  BY <2>2
  <2> QED  BY <2>3
<1> HIDE DEF S
<1>3. Nat \subseteq S
  BY <1>1, <1>2, InductionOnNat
<1> QED  BY <1>3 DEF S

(* Shifted is that function.                                               *)
LEMMA ShiftedIs ==
  ASSUME NEW width \in Nat, NEW n
  PROVE  Shifted(width, n)
           = [k \in 0 .. width |-> IF k = 0 THEN n ELSE Shifted(width, n)[k - 1] \div Base]
<1> DEFINE P(f) == f = [k \in 0 .. width |-> IF k = 0 THEN n ELSE f[k - 1] \div Base]
<1>1. \E f : P(f)
  BY ShiftedExists
<1>2. Shifted(width, n) = CHOOSE f : P(f)
  BY DEF Shifted
<1>3. P(CHOOSE f : P(f))
  <2> HIDE DEF P
  <2> QED  BY <1>1, Zenon
<1> HIDE DEF P
<1>4. P(Shifted(width, n))
  BY <1>2, <1>3
<1> QED  BY <1>4 DEF P

(* A number stays a number as it is shifted, and Shifted follows its       *)
(* recursion.                                                              *)
LEMMA ShiftedType ==
  ASSUME NEW width \in Nat, NEW n \in Nat
  PROVE  /\ Shifted(width, n)[0] = n
         /\ \A k \in 1 .. width : Shifted(width, n)[k] = Shifted(width, n)[k - 1] \div Base
         /\ \A k \in 0 .. width : Shifted(width, n)[k] \in Nat
<1> DEFINE s == Shifted(width, n)
           S == {k \in 0 .. width : s[k] \in Nat}
<1>1. s = [k \in 0 .. width |-> IF k = 0 THEN n ELSE s[k - 1] \div Base]
  BY ShiftedIs
<1> HIDE DEF s
<1>2. s[0] = n /\ \A k \in 1 .. width : s[k] = s[k - 1] \div Base
  <2>1. \A k \in 0 .. width : s[k] = IF k = 0 THEN n ELSE s[k - 1] \div Base
    BY <1>1
  <2>2. 0 \in 0 .. width /\ \A k \in 1 .. width : k \in 0 .. width /\ k # 0
    OBVIOUS
  <2> QED  BY <2>1, <2>2
<1>3. 0 \in S
  BY <1>2
<1>4. ASSUME NEW k \in 1 .. width, k - 1 \in S PROVE k \in S
  <2>1. s[k - 1] \div Base \in Nat
    BY <1>4, LowDigit
  <2> QED  BY <1>2, <2>1
<1>5. \A k \in 0 .. width : k \in S
  <2> HIDE DEF S
  <2> QED  BY <1>3, <1>4, Induction
<1> QED  BY <1>2, <1>5 DEF s

(* There is a function as the recursion of Numbers says.                   *)
LEMMA NumbersExists ==
  ASSUME NEW b
  PROVE  \A n \in Nat :
           \E f : f = [i \in 0 .. n |-> IF i = 0 THEN 0 ELSE f[i - 1] * Base + b[i]]
<1> DEFINE S == {m \in Nat : \E f : f = [i \in 0 .. m |->
                                             IF i = 0 THEN 0 ELSE f[i - 1] * Base + b[i]]}
<1>1. 0 \in S
  <2>1. [i \in 0 .. 0 |-> 0]
          = [i \in 0 .. 0 |-> IF i = 0 THEN 0 ELSE [k \in 0 .. 0 |-> 0][i - 1] * Base + b[i]]
    OBVIOUS
  <2> QED  BY <2>1
<1>2. ASSUME NEW m \in Nat, m \in S PROVE m + 1 \in S
  <2>1. PICK f : f = [i \in 0 .. m |-> IF i = 0 THEN 0 ELSE f[i - 1] * Base + b[i]]
    BY <1>2
  <2> DEFINE g == [i \in 0 .. m + 1 |-> IF i <= m THEN f[i] ELSE f[m] * Base + b[m + 1]]
  <2>2. g = [i \in 0 .. m + 1 |-> IF i = 0 THEN 0 ELSE g[i - 1] * Base + b[i]]
    <3> SUFFICES ASSUME NEW i \in 0 .. m + 1
                 PROVE  g[i] = IF i = 0 THEN 0 ELSE g[i - 1] * Base + b[i]
      OBVIOUS
    <3>1. CASE i = m + 1
      BY <3>1
    <3>2. CASE i <= m
      BY <2>1, <3>2
    <3> QED  BY <3>1, <3>2
  <2>3. \E h : h = [i \in 0 .. m + 1 |-> IF i = 0 THEN 0 ELSE h[i - 1] * Base + b[i]]
    <3> HIDE DEF g
    <3> QED  BY <2>2
  <2> QED  BY <2>3
<1> HIDE DEF S
<1>3. Nat \subseteq S
  BY <1>1, <1>2, InductionOnNat
<1> QED  BY <1>3 DEF S

(* Numbers is that function.                                               *)
LEMMA NumbersIs ==
  ASSUME NEW b, Len(b) \in Nat
  PROVE  Numbers(b) = [i \in 0 .. Len(b) |-> IF i = 0 THEN 0 ELSE Numbers(b)[i - 1] * Base + b[i]]
<1> DEFINE P(f) == f = [i \in 0 .. Len(b) |-> IF i = 0 THEN 0 ELSE f[i - 1] * Base + b[i]]
<1>1. \E f : P(f)
  BY NumbersExists
<1>2. Numbers(b) = CHOOSE f : P(f)
  BY DEF Numbers
<1>3. P(CHOOSE f : P(f))
  <2> HIDE DEF P
  <2> QED  BY <1>1, Zenon
<1> HIDE DEF P
<1>4. P(Numbers(b))
  BY <1>2, <1>3
<1> QED  BY <1>4 DEF P

(* Numbers follows its recursion, and has numbers as its values.           *)
LEMMA NumbersType ==
  ASSUME NEW b \in Seq(Bytes)
  PROVE  /\ Numbers(b)[0] = 0
         /\ \A i \in 1 .. Len(b) : Numbers(b)[i] = Numbers(b)[i - 1] * Base + b[i]
         /\ \A i \in 0 .. Len(b) : Numbers(b)[i] \in Nat
<1> DEFINE n == Len(b)
           s == Numbers(b)
           S == {i \in 0 .. n : s[i] \in Nat}
<1>1. n \in Nat /\ \A i \in 1 .. n : b[i] \in Bytes
  BY LenProperties, ElementOfSeq
<1>2. s = [i \in 0 .. n |-> IF i = 0 THEN 0 ELSE s[i - 1] * Base + b[i]]
  BY <1>1, NumbersIs
<1> HIDE DEF s, n
<1>3. s[0] = 0 /\ \A i \in 1 .. n : s[i] = s[i - 1] * Base + b[i]
  <2>1. \A i \in 0 .. n : s[i] = IF i = 0 THEN 0 ELSE s[i - 1] * Base + b[i]
    BY <1>2
  <2>2. 0 \in 0 .. n /\ \A i \in 1 .. n : i \in 0 .. n /\ i # 0
    BY <1>1
  <2> QED  BY <2>1, <2>2
<1>4. 0 \in S
  BY <1>1, <1>3
<1>5. ASSUME NEW i \in 1 .. n, i - 1 \in S PROVE i \in S
  <2>1. s[i - 1] * Base + b[i] \in Nat
    BY <1>1, <1>5, Digits
  <2> QED  BY <1>1, <1>3, <2>1
<1>6. \A i \in 0 .. n : i \in S
  <2> HIDE DEF S
  <2> QED  BY <1>1, <1>4, <1>5, Induction
<1> QED  BY <1>3, <1>6 DEF s, n

(* Whatever is written, a field of a width takes so many bytes.            *)
LEMMA BigEndianType ==
  ASSUME NEW width \in Nat, NEW n \in Nat
  PROVE  /\ BigEndian(width, n) \in Seq(Bytes) /\ Len(BigEndian(width, n)) = width
         /\ \A i \in 1 .. width : BigEndian(width, n)[i] = Shifted(width, n)[width - i] % Base
<1>1. ASSUME NEW i \in 1 .. width
      PROVE  Shifted(width, n)[width - i] % Base \in Bytes
  BY ShiftedType, LowDigit
<1>2. BigEndian(width, n) \in [1 .. width -> Bytes]
  BY <1>1 DEF BigEndian
<1> QED  BY <1>2 DEF BigEndian

(* Bytes that are read as a number are those the number is written as.     *)
LEMMA NumberRoundTrip ==
  ASSUME NEW b \in Seq(Bytes)
  PROVE  Number(b) \in Nat /\ BigEndian(Len(b), Number(b)) = b
<1> DEFINE w == Len(b)
           N == Numbers(b)
           s == Shifted(w, N[w])
           S == {k \in Nat : k <= w => s[k] = N[w - k]}
<1>1. w \in Nat /\ b \in [1 .. w -> Bytes]
  BY LenProperties
<1>2. /\ \A i \in 0 .. w : N[i] \in Nat
      /\ \A i \in 1 .. w : N[i] = N[i - 1] * Base + b[i]
  BY <1>1, NumbersType
<1> HIDE DEF w, N
<1>3. s[0] = N[w] /\ \A k \in 1 .. w : s[k] = s[k - 1] \div Base
  BY <1>1, <1>2, ShiftedType
<1>4. BigEndian(w, N[w]) \in [1 .. w -> Bytes]
      /\ \A i \in 1 .. w : BigEndian(w, N[w])[i] = s[w - i] % Base
  <2>1. N[w] \in Nat
    BY <1>1, <1>2
  <2> DEFINE e == BigEndian(w, N[w])
  <2>2. e \in Seq(Bytes) /\ Len(e) = w /\ \A i \in 1 .. w : e[i] = s[w - i] % Base
    BY <1>1, <2>1, BigEndianType
  <2> HIDE DEF e, s
  <2>3. e \in [1 .. w -> Bytes]
    BY <2>2, LenProperties
  <2> QED  BY <2>2, <2>3 DEF e
<1> HIDE DEF s
<1>5. 0 \in S
  BY <1>1, <1>3
<1>6. ASSUME NEW k \in 1 .. w, k - 1 \in S PROVE k \in S
  <2>1. s[k - 1] = N[w - (k - 1)] /\ w - k + 1 \in 1 .. w /\ w - k \in 0 .. w
        /\ w - (k - 1) = w - k + 1 /\ (w - k + 1) - 1 = w - k
    BY <1>1, <1>6
  <2>2. s[k - 1] = N[w - k] * Base + b[w - k + 1] /\ N[w - k] \in Nat /\ b[w - k + 1] \in Bytes
    BY <1>1, <1>2, <2>1
  <2>3. s[k] = N[w - k]
    BY <1>3, <2>2, Digits
  <2> QED  BY <2>3
<1>7. \A k \in 0 .. w : s[k] = N[w - k]
  <2>1. \A k \in 0 .. w : k \in S
    <3> HIDE DEF S
    <3> QED  BY <1>1, <1>5, <1>6, Induction
  <2> QED  BY <2>1
<1>8. ASSUME NEW i \in 1 .. w
      PROVE  BigEndian(w, N[w])[i] = b[i]
  <2>1. s[w - i] = N[i] /\ i - 1 \in 0 .. w
    <3>1. w - i \in 0 .. w /\ w - (w - i) = i /\ i - 1 \in 0 .. w
      BY <1>1
    <3>2. s[w - i] = N[w - (w - i)]
      BY <1>7, <3>1
    <3> QED  BY <3>1, <3>2
  <2>2. N[i] % Base = b[i]
    <3>1. N[i] = N[i - 1] * Base + b[i] /\ N[i - 1] \in Nat /\ b[i] \in Bytes
      BY <1>1, <1>2, <2>1
    <3> QED  BY <3>1, Digits
  <2> QED  BY <1>4, <2>1, <2>2
<1>9. BigEndian(w, N[w]) = b
  BY <1>1, <1>4, <1>8
<1>10. Number(b) = N[w] /\ w \in 0 .. w
  BY <1>1 DEF Number, N, w
<1> QED  BY <1>2, <1>9, <1>10 DEF w

(* Two bytes and the number readU16 makes of them.                         *)
LEMMA TwoBytes ==
  ASSUME NEW high \in Bytes, NEW low \in Bytes
  PROVE  BigEndian(2, high * Base + low) = <<high, low>>
<1> DEFINE b == <<high, low>>
<1>1. b \in Seq(Bytes) /\ Len(b) = 2 /\ b[1] = high /\ b[2] = low
  OBVIOUS
<1> HIDE DEF b
<1>2. /\ Numbers(b)[0] = 0 /\ Numbers(b)[1] = Numbers(b)[0] * Base + high
      /\ Numbers(b)[2] = Numbers(b)[1] * Base + low
  <2>1. 1 \in 1 .. Len(b) /\ 2 \in 1 .. Len(b) /\ 1 - 1 = 0 /\ 2 - 1 = 1
    BY <1>1
  <2> QED  BY <1>1, <2>1, NumbersType
<1>3. Numbers(b)[2] = high * Base + low
  BY <1>2, CodecAssumption DEF Bytes
<1>4. Number(b) = high * Base + low
  BY <1>1, <1>3 DEF Number
<1> QED  BY <1>1, <1>4, NumberRoundTrip DEF b

(* A length that fits two bytes is read as it was written.                 *)
LEMMA ShortLength ==
  ASSUME NEW n \in Nat, n < Base * Base
  PROVE  BigEndian(2, n)[1] * Base + BigEndian(2, n)[2] = n
<1>1. Shifted(2, n)[0] = n /\ Shifted(2, n)[1] = n \div Base
  <2>1. 1 \in 1 .. 2 /\ 1 - 1 = 0
    OBVIOUS
  <2> QED  BY <2>1, ShiftedType
<1>2. BigEndian(2, n)[1] = (n \div Base) % Base /\ BigEndian(2, n)[2] = n % Base
  <2>1. 1 \in 1 .. 2 /\ 2 \in 1 .. 2 /\ 2 - 1 = 1 /\ 2 - 2 = 0
    OBVIOUS
  <2>2. \A i \in 1 .. 2 : BigEndian(2, n)[i] = Shifted(2, n)[2 - i] % Base
    BY BigEndianType
  <2> QED  BY <1>1, <2>1, <2>2
<1> DEFINE q == n \div Base
<1>3. q \in Nat /\ n % Base \in 0 .. Base - 1 /\ q * Base + (n % Base) = n
  BY LowDigit DEF Bytes
<1>4. q < Base
  <2> HIDE DEF q
  <2> SUFFICES ASSUME q >= Base PROVE FALSE
    BY <1>3, BaseType
  <2>1. q * Base >= Base * Base
    BY <1>3, BaseType
  <2> QED  BY <1>3, <2>1, BaseType
<1>5. q % Base = q
  <2> HIDE DEF q
  <2> QED  BY <1>3, <1>4, BaseType
<1> QED  BY <1>2, <1>3, <1>5

-----------------------------------------------------------------------------
(* What a field is written as.                                             *)

Numeric == {"u8", "u32", "u64"}

(* The values a field of a kind can have.                                  *)
Holds(kind, v) ==
  CASE kind \in Numeric  -> v \in Nat
    [] kind = "string"   -> v \in Seq(Bytes)
    [] OTHER             -> v \in [1 .. Width(kind) -> Bytes]

(* A function from 1 .. n is a sequence of length n.                       *)
LEMMA FunctionIsSeq ==
  ASSUME NEW n \in Nat, NEW S, NEW f \in [1 .. n -> S]
  PROVE  f \in Seq(S) /\ Len(f) = n
OBVIOUS

(* Bytes after bytes: those of the first, then those of the second.        *)
LEMMA ConcatBytes ==
  ASSUME NEW s \in Seq(Bytes), NEW t \in Seq(Bytes)
  PROVE  /\ s \o t \in Seq(Bytes)
         /\ Len(s) \in Nat /\ Len(t) \in Nat /\ Len(s \o t) = Len(s) + Len(t)
         /\ \A i \in 1 .. Len(s) + Len(t) :
              (s \o t)[i] = IF i <= Len(s) THEN s[i] ELSE t[i - Len(s)]
BY ConcatProperties, LenProperties

(* The field of a kind that holds v, as bytes.                             *)
LEMMA WrittenType ==
  ASSUME NEW kind \in Kinds, NEW v, Holds(kind, v)
  PROVE  /\ Written(kind, v) \in Seq(Bytes)
         /\ Len(Written(kind, v)) = IF kind = "string" THEN 2 + Len(v) ELSE Width(kind)
<1>1. CASE kind \in Numeric
  <2>1. v \in Nat /\ kind # "string"
    BY <1>1 DEF Holds, Numeric
  <2>2. Width(kind) \in Nat
    BY <2>1, WidthsAreNat
  <2>3. Written(kind, v) = BigEndian(Width(kind), v)
    BY <1>1 DEF Written, Numeric
  <2> QED  BY <2>1, <2>2, <2>3, BigEndianType
<1>2. CASE kind = "string"
  <2>1. v \in Seq(Bytes) /\ Len(v) \in Nat
    BY <1>2, LenProperties DEF Holds, Numeric
  <2> DEFINE length == BigEndian(2, Len(v))
  <2>2. Written(kind, v) = length \o v
    BY <1>2 DEF Written, Width
  <2>3. length \in Seq(Bytes) /\ Len(length) = 2
    BY <2>1, BigEndianType
  <2> HIDE DEF length
  <2>4. length \o v \in Seq(Bytes) /\ Len(length \o v) = 2 + Len(v)
    BY <2>1, <2>3, ConcatBytes
  <2> QED  BY <1>2, <2>2, <2>4
<1>3. CASE kind \notin Numeric /\ kind # "string"
  <2>1. v \in [1 .. Width(kind) -> Bytes]
    BY <1>3 DEF Holds
  <2>2. Width(kind) \in Nat
    BY <1>3, WidthsAreNat
  <2>3. Written(kind, v) = v
    BY <1>3 DEF Written, Numeric
  <2> QED  BY <1>3, <2>1, <2>2, <2>3, FunctionIsSeq
<1> QED  BY <1>1, <1>2, <1>3

(* There is a function as the recursion of Prefixes says.                  *)
LEMMA PrefixesExist ==
  ASSUME NEW layout, NEW values
  PROVE  \A n \in Nat :
           \E f : f = [i \in 0 .. n |->
                         IF i = 0 THEN <<layout.type>>
                         ELSE f[i - 1] \o Written(layout.fields[i].kind,
                                                  values[layout.fields[i].name])]
<1> DEFINE W(i) == Written(layout.fields[i].kind, values[layout.fields[i].name])
           first == <<layout.type>>
           Is(f, n) == f = [i \in 0 .. n |-> IF i = 0 THEN first ELSE f[i - 1] \o W(i)]
           S == {n \in Nat : \E f : Is(f, n)}
<1> HIDE DEF W, first
<1>1. 0 \in S
  <2>1. Is([i \in 0 .. 0 |-> first], 0)
    OBVIOUS
  <2> QED  BY <2>1
<1>2. ASSUME NEW n \in Nat, n \in S PROVE n + 1 \in S
  <2>1. PICK f : Is(f, n)
    BY <1>2
  <2> DEFINE g == [i \in 0 .. n + 1 |-> IF i <= n THEN f[i] ELSE f[n] \o W(n + 1)]
  <2>2. Is(g, n + 1)
    <3> SUFFICES ASSUME NEW i \in 0 .. n + 1
                 PROVE  g[i] = IF i = 0 THEN first ELSE g[i - 1] \o W(i)
      OBVIOUS
    <3>1. CASE i = n + 1
      BY <3>1
    <3>2. CASE i <= n /\ i # 0
      <4>1. i \in 0 .. n /\ i - 1 \in 0 .. n + 1 /\ i - 1 <= n
        BY <3>2
      <4>2. f[i] = f[i - 1] \o W(i)
        BY <2>1, <3>2, <4>1
      <4>3. g[i] = f[i] /\ g[i - 1] = f[i - 1]
        BY <3>2, <4>1
      <4> QED  BY <3>2, <4>2, <4>3
    <3>3. CASE i = 0
      BY <2>1, <3>3
    <3> QED  BY <3>1, <3>2, <3>3
  <2> HIDE DEF g, Is
  <2> QED  BY <2>2
<1>3. Nat \subseteq S
  <2> HIDE DEF S
  <2> QED  BY <1>1, <1>2, InductionOnNat
<1>4. \A n \in Nat : \E f : Is(f, n)
  BY <1>3
<1> QED  BY <1>4 DEF W, first

(* Prefixes is that function.                                              *)
LEMMA PrefixesAre ==
  ASSUME NEW layout, NEW values, Len(layout.fields) \in Nat
  PROVE  /\ Prefixes(layout, values)[0] = <<layout.type>>
         /\ \A i \in 1 .. Len(layout.fields) :
              Prefixes(layout, values)[i]
                = Prefixes(layout, values)[i - 1]
                    \o Written(layout.fields[i].kind, values[layout.fields[i].name])
<1> DEFINE n == Len(layout.fields)
           P(f) == f = [i \in 0 .. n |->
                          IF i = 0 THEN <<layout.type>>
                          ELSE f[i - 1] \o Written(layout.fields[i].kind,
                                                   values[layout.fields[i].name])]
           s == Prefixes(layout, values)
<1>1. \E f : P(f)
  BY PrefixesExist
<1>2. s = CHOOSE f : P(f)
  BY DEF Prefixes
<1>3. P(CHOOSE f : P(f))
  <2> HIDE DEF P
  <2> QED  BY <1>1, Zenon
<1>4. P(s)
  <2> HIDE DEF P, s
  <2> QED  BY <1>2, <1>3
<1> HIDE DEF s
<1>5. \A i \in 0 .. n : s[i] = IF i = 0 THEN <<layout.type>>
                               ELSE s[i - 1] \o Written(layout.fields[i].kind,
                                                        values[layout.fields[i].name])
  BY <1>4
<1>6. 0 \in 0 .. n /\ \A i \in 1 .. n : i \in 0 .. n /\ i # 0
  OBVIOUS
<1> QED  BY <1>5, <1>6 DEF s

(* With one field more, its bytes follow those of the fields before it.    *)
LEMMA FieldFollows ==
  ASSUME NEW layout, NEW values, Len(layout.fields) \in Nat, NEW i \in 1 .. Len(layout.fields)
  PROVE  Prefixes(layout, values)[i]
           = Prefixes(layout, values)[i - 1]
               \o Written(layout.fields[i].kind, values[layout.fields[i].name])
BY PrefixesAre

(* The first fields are written alike when their values are alike.         *)
LEMMA PrefixesAgree ==
  ASSUME NEW layout, Len(layout.fields) \in Nat, NEW v, NEW w, NEW n \in 0 .. Len(layout.fields),
         \A i \in 1 .. n : v[layout.fields[i].name] = w[layout.fields[i].name]
  PROVE  Prefixes(layout, v)[n] = Prefixes(layout, w)[n]
<1> DEFINE pv == Prefixes(layout, v)
           pw == Prefixes(layout, w)
           S == {i \in 0 .. n : pv[i] = pw[i]}
           V(i) == Written(layout.fields[i].kind, v[layout.fields[i].name])
           W(i) == Written(layout.fields[i].kind, w[layout.fields[i].name])
<1>1. pv[0] = pw[0]
  BY PrefixesAre
<1>2. \A i \in 1 .. n : pv[i] = pv[i - 1] \o V(i) /\ pw[i] = pw[i - 1] \o W(i)
  <2>1. \A i \in 1 .. n : i \in 1 .. Len(layout.fields)
    OBVIOUS
  <2> QED  BY <2>1, PrefixesAre
<1>3. \A i \in 1 .. n : V(i) = W(i)
  OBVIOUS
<1> HIDE DEF pv, pw, V, W
<1>4. 0 \in S
  BY <1>1
<1>5. ASSUME NEW i \in 1 .. n, i - 1 \in S PROVE i \in S
  <2>1. pv[i - 1] = pw[i - 1] /\ i \in 0 .. n
    BY <1>5
  <2>2. pv[i] = pv[i - 1] \o V(i) /\ pw[i] = pw[i - 1] \o W(i)
    BY <1>2
  <2>3. V(i) = W(i)
    BY <1>3
  <2>4. pv[i] = pw[i]
    BY <2>1, <2>2, <2>3, Zenon
  <2> QED  BY <2>1, <2>4
<1>6. n \in S
  <2> HIDE DEF S
  <2>1. n \in Nat /\ n \in 0 .. n
    OBVIOUS
  <2> QED  BY <1>4, <1>5, <2>1, Induction
<1> QED  BY <1>6 DEF pv, pw

(* No two fields of a packet have the same name.                           *)
LEMMA NamesDistinct ==
  ASSUME NEW p \in Layouts, NEW i \in DOMAIN p.fields, NEW j \in DOMAIN p.fields, i # j
  PROVE  p.fields[i].name # p.fields[j].name
<1>1. CASE p = Hello
  BY <1>1 DEF Hello, U32, Field
<1>2. CASE p = Auth
  BY <1>2 DEF Auth, Field
<1>3. CASE p = Ready
  BY <1>3 DEF Ready
<1>4. CASE p = Input
  BY <1>4 DEF Input, U8, U32, Field
<1>5. CASE p = SnapshotRead
  BY <1>5 DEF SnapshotRead, U32, U64, Field
<1>6. CASE p = Nothing
  BY <1>6 DEF Nothing
<1> QED  BY <1>1, <1>2, <1>3, <1>4, <1>5, <1>6 DEF Layouts

(* The type of a packet that is delivered is a byte.                       *)
LEMMA TypesAreBytes ==
  ASSUME NEW ch, NEW p \in Delivers(ch)
  PROVE  p.type \in Bytes /\ p \in Layouts /\ p # Nothing
<1>1. p \in {Hello, Auth, Ready, Input, SnapshotRead}
  BY DEF Delivers
<1>2. p.type \in {0, 1, 2}
  BY <1>1 DEF Hello, Auth, Ready, Input, SnapshotRead
<1>3. p.type \in Bytes
  BY <1>2, BaseType DEF Bytes
<1>4. Nothing.type \notin Bytes
  BY BaseType DEF Bytes, Nothing
<1> QED  BY <1>1, <1>3, <1>4 DEF Layouts

-----------------------------------------------------------------------------
(* What is read is what was there.                                         *)

(* At gives the bytes after the cursor when there are enough.              *)
LEMMA AtIs ==
  ASSUME data \in Seq(Bytes), NEW from \in Nat, NEW n \in Nat, CanRead(from, n)
  PROVE  /\ At(from, n) \in [1 .. n -> Bytes] /\ At(from, n) \in Seq(Bytes)
         /\ Len(At(from, n)) = n
         /\ \A i \in 1 .. n : At(from, n)[i] = data[from + i]
         /\ At(from, n) = SubSeq(data, from + 1, from + n)
<1>1. from + n <= Len(data) /\ Len(data) \in Nat /\ DOMAIN data = 1 .. Len(data)
  BY LenProperties DEF CanRead
<1>2. \A i \in 1 .. n : from + i \in 1 .. Len(data)
  BY <1>1
<1>3. {k \in 1 .. n : from + k \in DOMAIN data} = 1 .. n
  BY <1>1, <1>2
<1>4. At(from, n) = [i \in 1 .. n |-> data[from + i]]
  BY <1>3 DEF At
<1>5. \A i \in 1 .. n : data[from + i] \in Bytes
  BY <1>2, ElementOfSeq
<1>6. At(from, n) \in [1 .. n -> Bytes]
  BY <1>4, <1>5
<1>7. At(from, n) \in Seq(Bytes) /\ Len(At(from, n)) = n
  BY <1>6, FunctionIsSeq
<1>8. \A i \in 1 .. n : At(from, n)[i] = data[from + i]
  BY <1>4
<1> DEFINE a == At(from, n)
           b == SubSeq(data, from + 1, from + n)
<1>9. b \in Seq(Bytes) /\ Len(b) = n /\ \A i \in 1 .. n : b[i] = data[from + i]
  <2> DEFINE l == from + 1
             m == from + n
  <2>1. \A i \in l .. m : data[i] \in Bytes
    BY <1>1, ElementOfSeq
  <2>2. l \in Int /\ m \in Int /\ m - l + 1 = n /\ (~(l <= m) => n = 0)
    OBVIOUS
  <2>3. \A i \in 1 .. n : l + i - 1 = from + i
    OBVIOUS
  <2> HIDE DEF l, m
  <2>4. /\ SubSeq(data, l, m) \in Seq(Bytes)
        /\ Len(SubSeq(data, l, m)) = IF l <= m THEN m - l + 1 ELSE 0
        /\ \A i \in 1 .. m - l + 1 : SubSeq(data, l, m)[i] = data[l + i - 1]
    BY <2>1, <2>2, SubSeqProperties
  <2> DEFINE t == SubSeq(data, l, m)
  <2> HIDE DEF t
  <2>5. t \in Seq(Bytes) /\ Len(t) = n /\ \A i \in 1 .. n : t[i] = data[from + i]
    BY <2>2, <2>3, <2>4 DEF t
  <2> QED  BY <2>5 DEF t, l, m
<1>10. a = b
  <2>1. a \in Seq(Bytes) /\ Len(a) = n /\ \A i \in 1 .. n : a[i] = data[from + i]
    BY <1>7, <1>8
  <2> HIDE DEF a, b
  <2> QED  BY <1>9, <2>1, SeqEqual
<1> QED  BY <1>6, <1>7, <1>8, <1>10

(* The cursor moves by a natural number.                                   *)
LEMMA TakenIsNat ==
  ASSUME data \in Seq(Bytes), offset \in Nat, NEW kind \in Kinds, Fits(kind)
  PROVE  Taken(kind) \in Nat
<1>1. CASE kind = "string"
  <2>1. CanRead(offset, 2)
    BY <1>1 DEF Fits, StringFits, Width
  <2>2. offset + 1 \in 1 .. Len(data) /\ offset + 2 \in 1 .. Len(data)
    BY <2>1, LenProperties DEF CanRead
  <2>3. data[offset + 1] \in Bytes /\ data[offset + 2] \in Bytes
    BY <2>2, ElementOfSeq
  <2>4. data[offset + 1] \in Nat
    BY <2>3, BaseType DEF Bytes
  <2>5. StringLength \in Nat
    BY <2>3, <2>4, Digits DEF StringLength
  <2> QED  BY <1>1, <2>5 DEF Taken, Width
<1>2. CASE kind # "string"
  BY <1>2, WidthsAreNat DEF Taken
<1> QED  BY <1>1, <1>2

(* The bytes a field takes are those its value is written as.              *)
LEMMA FieldIsWritten ==
  ASSUME data \in Seq(Bytes), offset \in Nat, NEW kind \in Kinds, Fits(kind)
  PROVE  /\ Holds(kind, Value(kind))
         /\ Written(kind, Value(kind)) = SubSeq(data, offset + 1, offset + Taken(kind))
<1>1. CASE kind \in Numeric
  <2> DEFINE w == Width(kind)
             b == At(offset, w)
  <2>1. w \in Nat /\ CanRead(offset, w) /\ Taken(kind) = w
    BY <1>1, WidthsAreNat DEF Numeric, Fits, Taken
  <2>2. Value(kind) = Number(b) /\ Written(kind, Value(kind)) = BigEndian(w, Value(kind))
    BY <1>1 DEF Value, Written, Numeric
  <2> HIDE DEF w
  <2>3. b \in Seq(Bytes) /\ Len(b) = w /\ b = SubSeq(data, offset + 1, offset + w)
    BY <2>1, AtIs
  <2> HIDE DEF b
  <2>4. Number(b) \in Nat /\ BigEndian(w, Number(b)) = b
    BY <2>3, NumberRoundTrip
  <2>5. Holds(kind, Number(b))
    <3> DEFINE v == Number(b)
    <3>1. v \in Nat
      BY <2>4
    <3> HIDE DEF v
    <3>2. Holds(kind, v)
      BY <1>1, <3>1 DEF Holds, Numeric
    <3> QED  BY <3>2 DEF v
  <2> QED  BY <2>1, <2>2, <2>3, <2>4, <2>5
<1>2. CASE kind = "string"
  <2> DEFINE high == data[offset + 1]
             low  == data[offset + 2]
             n    == StringLength
             b    == At(offset + 2, n)
  <2>1. CanRead(offset, 2) /\ CanRead(offset + 2, n)
    BY <1>2 DEF Fits, StringFits, Width
  <2>2. high \in Bytes /\ low \in Bytes
    <3>1. offset + 1 \in 1 .. Len(data) /\ offset + 2 \in 1 .. Len(data)
      BY <2>1, LenProperties DEF CanRead
    <3> QED  BY <3>1, ElementOfSeq
  <2>3. n = high * Base + low
    BY DEF StringLength
  <2>4. Value(kind) = b /\ Taken(kind) = 2 + n /\ Written(kind, b) = BigEndian(2, Len(b)) \o b
    BY <1>2 DEF Value, Taken, Written, Width, Numeric
  <2>5. At(offset, 2) = <<high, low>>
    <3> DEFINE a == At(offset, 2)
               c == <<high, low>>
    <3>1. a \in Seq(Bytes) /\ Len(a) = 2 /\ a[1] = high /\ a[2] = low
      <4>1. 1 \in 1 .. 2 /\ 2 \in 1 .. 2
        OBVIOUS
      <4> QED  BY <2>1, <4>1, AtIs
    <3>2. c \in Seq(Bytes) /\ Len(c) = 2 /\ c[1] = high /\ c[2] = low
      <4> HIDE DEF high, low
      <4> QED  BY <2>2
    <3> HIDE DEF a, c, high, low
    <3>3. \A i \in 1 .. 2 : a[i] = c[i]
      BY <3>1, <3>2
    <3>4. a = c
      BY <3>1, <3>2, <3>3, SeqEqual
    <3> QED  BY <3>4 DEF a, c
  <2>6. At(offset, 2) = SubSeq(data, offset + 1, offset + 2)
    BY <2>1, AtIs
  <2> HIDE DEF high, low, n
  <2>7. n \in Nat
    <3>1. high \in Nat
      BY <2>2, BaseType DEF Bytes
    <3> QED  BY <2>2, <2>3, <3>1, Digits
  <2>8. BigEndian(2, n) = <<high, low>>
    BY <2>2, <2>3, TwoBytes
  <2>9. b \in Seq(Bytes) /\ Len(b) = n /\ b = SubSeq(data, offset + 3, offset + 2 + n)
    <3>1. offset + 2 \in Nat /\ (offset + 2) + 1 = offset + 3
      OBVIOUS
    <3> QED  BY <2>1, <2>7, <3>1, AtIs
  <2> HIDE DEF b
  <2>10. Written(kind, b)
           = SubSeq(data, offset + 1, offset + 2) \o SubSeq(data, offset + 3, offset + 2 + n)
    BY <2>4, <2>5, <2>6, <2>8, <2>9
  <2>11. SubSeq(data, offset + 1, offset + 2) \o SubSeq(data, offset + 3, offset + 2 + n)
           = SubSeq(data, offset + 1, offset + 2 + n)
    <3>1. /\ offset + 1 \in 1 .. Len(data) + 1 /\ offset + 2 \in (offset + 1) - 1 .. Len(data)
          /\ offset + 2 + n \in offset + 2 .. Len(data) /\ (offset + 2) + 1 = offset + 3
      BY <2>1, <2>7, LenProperties DEF CanRead
    <3> QED  BY <3>1, ConcatAdjacentSubSeq
  <2>12. Holds(kind, b)
    BY <1>2, <2>9 DEF Holds, Numeric
  <2>13. offset + Taken(kind) = offset + 2 + n
    BY <2>4, <2>7
  <2> QED  BY <2>4, <2>10, <2>11, <2>12, <2>13
<1>3. CASE kind \notin Numeric /\ kind # "string"
  <2> DEFINE w == Width(kind)
             b == At(offset, w)
  <2>1. w \in Nat /\ CanRead(offset, w) /\ Taken(kind) = w
    BY <1>3, WidthsAreNat DEF Numeric, Fits, Taken
  <2>2. Value(kind) = b /\ Written(kind, b) = b
    BY <1>3 DEF Value, Written, Numeric
  <2>3. b \in [1 .. w -> Bytes] /\ b = SubSeq(data, offset + 1, offset + w)
    BY <2>1, AtIs
  <2>4. Holds(kind, b)
    BY <1>3, <2>3 DEF Holds
  <2> HIDE DEF w, b
  <2> QED  BY <2>1, <2>2, <2>3, <2>4
<1> QED  BY <1>1, <1>2, <1>3

-----------------------------------------------------------------------------
(* The reader: what was read so far is written as the bytes before the     *)
(* cursor.                                                                 *)

ReadSoFar ==
  status \in {"reading", "accepted", "answered"} =>
    /\ packet \in Delivers(channel)
    /\ Prefixes(packet, read)[next - 1] = SubSeq(data, 1, offset)

ValuesHeld ==
  \A i \in 1 .. next - 1 : Holds(packet.fields[i].kind, read[packet.fields[i].name])

NothingLeft ==
  status \in {"accepted", "answered"} => offset = Len(data) /\ next = Len(packet.fields) + 1

ReaderInv == ReadSoFar /\ ValuesHeld /\ NothingLeft

(* ReaderInv holds when the bytes have just arrived.                       *)
LEMMA InitReaderInv == Init => ReaderInv
BY DEF Init, ReaderInv, ReadSoFar, ValuesHeld, NothingLeft

(* Reading the type keeps ReaderInv.                                       *)
LEMMA ReadTypeReader ==
  ASSUME TypeOK, ReaderInv, ReadType
  PROVE  ReaderInv'
<1> USE DEF TypeOK, CursorInBounds
<1>0. data \in Seq(Bytes) /\ Len(data) \in Nat
  BY CodecAssumption
<1>1. /\ next = 1 /\ next' = 1 /\ data' = data /\ read' = read /\ channel' = channel
      /\ next' - 1 = 0
  BY DEF ReadType
<1>2. ValuesHeld'
  BY <1>1 DEF ValuesHeld
<1>3. CASE CanRead(0, 1) /\ \E p \in Delivers(channel) : p.type = data[1]
  <2>1. packet' \in Delivers(channel) /\ packet'.type = data[1] /\ offset' = 1
        /\ status' = "reading"
    BY <1>3 DEF ReadType
  <2>2. Len(packet'.fields) \in Nat
    BY <2>1, TypesAreBytes, LengthsAreNat
  <2>3. Prefixes(packet', read')[0] = <<packet'.type>>
    BY <2>2, PrefixesAre
  <2>4. SubSeq(data, 1, 1) = <<data[1]>>
    <3>1. 1 \in 1 .. Len(data) /\ data[1] \in Bytes
      BY <1>0, <1>3 DEF CanRead
    <3>2. SubSeq(data, 1, 1) = SubSeq(data, 1, 1 - 1) \o <<data[1]>>
      BY <1>0, <3>1, SubSeqRecursiveSecond
    <3>3. SubSeq(data, 1, 1 - 1) = << >>
      BY SubSeqEmpty
    <3>4. <<data[1]>> \in Seq(Bytes)
      BY <3>1
    <3> QED  BY <3>2, <3>3, <3>4, ConcatEmptySeq
  <2>5. ReadSoFar'
    BY <1>1, <2>1, <2>3, <2>4 DEF ReadSoFar
  <2> QED  BY <1>2, <2>1, <2>5 DEF ReaderInv, NothingLeft
<1>4. CASE ~(CanRead(0, 1) /\ \E p \in Delivers(channel) : p.type = data[1])
  <2>1. status' = "refused"
    BY <1>4 DEF ReadType
  <2> QED  BY <1>2, <2>1 DEF ReaderInv, ReadSoFar, NothingLeft
<1> QED  BY <1>3, <1>4

(* Reading a field keeps ReaderInv.                                        *)
LEMMA ReadFieldReader ==
  ASSUME TypeOK, ReaderInv, ReadField
  PROVE  ReaderInv'
<1> DEFINE field == packet.fields[next]
           n == Len(packet.fields)
<1>0. data \in Seq(Bytes) /\ Len(data) \in Nat /\ offset \in Nat /\ offset <= Len(data)
  BY CodecAssumption DEF TypeOK, CursorInBounds
<1>1. /\ packet \in Delivers(channel) /\ packet \in Layouts /\ n \in Nat
      /\ next \in 1 .. n /\ DOMAIN packet.fields = 1 .. n
  <2>1. packet \in Delivers(channel)
    BY DEF ReaderInv, ReadSoFar, ReadField
  <2>2. packet \in Layouts
    BY <2>1, TypesAreBytes
  <2>3. n \in Nat /\ DOMAIN packet.fields = 1 .. n
    BY <2>2, LengthsAreNat
  <2> QED  BY <2>1, <2>2, <2>3 DEF ReadField, TypeOK
<1>2. field.kind \in Kinds
  BY <1>1, KindsKnown
<1>3. data' = data /\ channel' = channel /\ packet' = packet
  BY DEF ReadField
<1>4. CASE Fits(field.kind)
  <2>1. /\ offset' = offset + Taken(field.kind) /\ next' = next + 1 /\ status' = "reading"
        /\ read' = [name \in DOMAIN read \cup {field.name} |->
                      IF name = field.name THEN Value(field.kind) ELSE read[name]]
    BY <1>4 DEF ReadField
  <2>2. read'[field.name] = Value(field.kind)
    BY <2>1
  <2>3. \A i \in 1 .. next - 1 : read'[packet.fields[i].name] = read[packet.fields[i].name]
    <3> SUFFICES ASSUME NEW i \in 1 .. next - 1
                 PROVE  read'[packet.fields[i].name] = read[packet.fields[i].name]
      OBVIOUS
    <3>1. i \in DOMAIN packet.fields /\ next \in DOMAIN packet.fields /\ i # next
      BY <1>1
    <3>2. packet.fields[i].name # field.name
      BY <1>1, <3>1, NamesDistinct
    <3>3. packet.fields[i].name \in DOMAIN read
      BY DEF TypeOK
    <3> QED  BY <2>1, <3>2, <3>3
  <2>4. /\ Holds(field.kind, Value(field.kind))
        /\ Written(field.kind, Value(field.kind))
             = SubSeq(data, offset + 1, offset + Taken(field.kind))
    BY <1>0, <1>2, <1>4, FieldIsWritten
  <2>5. Prefixes(packet, read)[next - 1] = SubSeq(data, 1, offset)
    BY DEF ReaderInv, ReadSoFar, ReadField
  <2>6. Prefixes(packet, read')[next - 1] = Prefixes(packet, read)[next - 1]
    <3> DEFINE k == next - 1
               r == read'
    <3>1. k \in 0 .. n
      BY <1>1
    <3>2. \A i \in 1 .. k : r[packet.fields[i].name] = read[packet.fields[i].name]
      BY <2>3
    <3> HIDE DEF k, r
    <3>3. Prefixes(packet, r)[k] = Prefixes(packet, read)[k]
      BY <1>1, <3>1, <3>2, PrefixesAgree
    <3> QED  BY <3>3 DEF k, r
  <2>7. Prefixes(packet, read')[next]
          = Prefixes(packet, read')[next - 1] \o Written(field.kind, read'[field.name])
    BY <1>1, PrefixesAre
  <2>8. SubSeq(data, 1, offset) \o SubSeq(data, offset + 1, offset + Taken(field.kind))
          = SubSeq(data, 1, offset')
    <3>1. offset + Taken(field.kind) \in Nat /\ offset + Taken(field.kind) <= Len(data)
      BY <1>0, <1>2, <1>4, FieldsEndInBounds
    <3> DEFINE e == offset + Taken(field.kind)
    <3>2. /\ 1 \in 1 .. Len(data) + 1 /\ offset \in 1 - 1 .. Len(data)
          /\ e \in Nat /\ e <= Len(data)
      BY <1>0, <3>1
    <3>3. offset <= e
      <4>1. Taken(field.kind) \in Nat
        BY <1>0, <1>2, <1>4, TakenIsNat
      <4> QED  BY <1>0, <4>1
    <3>4. offset' = e
      BY <2>1
    <3> HIDE DEF e
    <3>5. e \in offset .. Len(data)
      BY <1>0, <3>2, <3>3
    <3>6. SubSeq(data, 1, offset) \o SubSeq(data, offset + 1, e) = SubSeq(data, 1, e)
      BY <1>0, <3>2, <3>5, ConcatAdjacentSubSeq
    <3> QED  BY <3>4, <3>6 DEF e
  <2>9. Prefixes(packet, read')[next] = SubSeq(data, 1, offset')
    BY <2>2, <2>4, <2>5, <2>6, <2>7, <2>8
  <2>10. next' - 1 = next
    BY <1>1, <2>1
  <2>11. ReadSoFar'
    BY <1>1, <1>3, <2>9, <2>10 DEF ReadSoFar
  <2>12. ValuesHeld'
    <3> SUFFICES ASSUME NEW i \in 1 .. next
                 PROVE  Holds(packet.fields[i].kind, read'[packet.fields[i].name])
      BY <1>3, <2>10 DEF ValuesHeld
    <3>1. CASE i = next
      BY <2>2, <2>4, <3>1
    <3>2. CASE i # next
      <4>1. i \in 1 .. next - 1
        BY <1>1, <3>2
      <4>2. Holds(packet.fields[i].kind, read[packet.fields[i].name])
        BY <4>1 DEF ReaderInv, ValuesHeld
      <4> QED  BY <2>3, <4>1, <4>2
    <3> QED  BY <3>1, <3>2
  <2> QED  BY <2>1, <2>11, <2>12 DEF ReaderInv, NothingLeft
<1>5. CASE ~Fits(field.kind)
  <2>1. status' = "refused" /\ next' = next /\ read' = read
    BY <1>5 DEF ReadField
  <2> QED  BY <1>3, <2>1 DEF ReaderInv, ReadSoFar, ValuesHeld, NothingLeft
<1> QED  BY <1>4, <1>5

(* ReaderInv is inductive, given the types.                                *)
LEMMA NextReader == TypeOK /\ ReaderInv /\ [Next]_vars => ReaderInv'
<1> SUFFICES ASSUME TypeOK, ReaderInv, [Next]_vars PROVE ReaderInv'
  OBVIOUS
<1>1. CASE ReadType
  BY <1>1, ReadTypeReader
<1>2. CASE ReadField
  BY <1>2, ReadFieldReader
<1> USE DEF ReaderInv, ReadSoFar, ValuesHeld, NothingLeft
<1>3. CASE Finish
  <2>1. /\ data' = data /\ packet' = packet /\ offset' = offset /\ next' = next /\ read' = read
        /\ channel' = channel /\ status = "reading" /\ status' \in {"accepted", "refused"}
        /\ status' = "accepted" => offset = Len(data)
    BY <1>3 DEF Finish, Ends
  <2>2. next = Len(packet.fields) + 1
    <3>1. next > Len(packet.fields) /\ next \in 1 .. Len(packet.fields) + 1
      BY <1>3 DEF Finish, TypeOK
    <3>2. Len(packet.fields) \in Nat
      BY <2>1, TypesAreBytes, LengthsAreNat
    <3> QED  BY <3>1, <3>2
  <2> QED  BY <2>1, <2>2
<1>4. ASSUME NEW id \in SnapshotIds, PatchSnapshot(id) PROVE ReaderInv'
  BY <1>4 DEF PatchSnapshot
<1>5. ASSUME NEW key \in ServerKeys, NEW signature \in Signatures, NEW now \in Times,
             AnswerHello(key, signature, now)
      PROVE  ReaderInv'
  BY <1>5 DEF AnswerHello
<1>6. CASE UNCHANGED vars
  BY <1>6 DEF vars
<1> QED  BY <1>1, <1>2, <1>3, <1>4, <1>5, <1>6 DEF Next

(* ReaderInv is stronger than AcceptedIsWhole.                             *)
LEMMA WholeFromReader == TypeOK /\ ReaderInv => AcceptedIsWhole
<1> SUFFICES ASSUME TypeOK, ReaderInv, status \in {"accepted", "answered"}
             PROVE  data = Serialized(packet, read)
  BY DEF AcceptedIsWhole
<1>1. /\ packet \in Delivers(channel) /\ offset = Len(data) /\ next = Len(packet.fields) + 1
      /\ Prefixes(packet, read)[next - 1] = SubSeq(data, 1, offset)
  BY DEF ReaderInv, ReadSoFar, NothingLeft
<1>2. Len(packet.fields) \in Nat
  BY <1>1, TypesAreBytes, LengthsAreNat
<1>3. next - 1 = Len(packet.fields)
  BY <1>1, <1>2
<1>4. data \in Seq(Bytes)
  BY CodecAssumption DEF TypeOK
<1> QED  BY <1>1, <1>3, <1>4, SubSeqFull DEF Serialized

(* Whatever bytes arrive, those that are accepted are, byte for byte, what *)
(* the fields that were read are written as.                               *)
THEOREM AcceptedBytesAreTheFields == Spec => []AcceptedIsWhole
<1>1. Init => TypeOK /\ ReaderInv
  BY InitTypeOK, InitReaderInv
<1>2. TypeOK /\ ReaderInv /\ [Next]_vars => (TypeOK /\ ReaderInv)'
  BY NextTypeOK, NextReader
<1> QED  BY <1>1, <1>2, WholeFromReader, PTL DEF Spec

-----------------------------------------------------------------------------
(* The snapshot that is written again.                                     *)

(* Two packets that differ at most in the bytes of the identifier.         *)
SameButIdentifier(x, y) ==
  /\ x \in Seq(Bytes) /\ y \in Seq(Bytes) /\ Len(x) = Len(y)
  /\ \A i \in (1 .. Len(x)) \ (2 .. 5) : x[i] = y[i]

(* They still do when the same bytes follow.                               *)
LEMMA SameBytesFollow ==
  ASSUME NEW x, NEW y, SameButIdentifier(x, y), NEW z \in Seq(Bytes)
  PROVE  SameButIdentifier(x \o z, y \o z)
<1>1. /\ x \in Seq(Bytes) /\ y \in Seq(Bytes) /\ Len(x) = Len(y)
      /\ \A i \in (1 .. Len(x)) \ (2 .. 5) : x[i] = y[i]
  BY DEF SameButIdentifier
<1>2. /\ x \o z \in Seq(Bytes)
      /\ Len(x) \in Nat /\ Len(z) \in Nat /\ Len(x \o z) = Len(x) + Len(z)
      /\ \A i \in 1 .. Len(x) + Len(z) :
           (x \o z)[i] = IF i <= Len(x) THEN x[i] ELSE z[i - Len(x)]
  BY <1>1, ConcatBytes
<1>3. /\ y \o z \in Seq(Bytes) /\ Len(y \o z) = Len(y) + Len(z)
      /\ \A i \in 1 .. Len(y) + Len(z) :
           (y \o z)[i] = IF i <= Len(y) THEN y[i] ELSE z[i - Len(y)]
  BY <1>1, ConcatBytes
<1>4. ASSUME NEW i \in (1 .. Len(x) + Len(z)) \ (2 .. 5)
      PROVE  (x \o z)[i] = (y \o z)[i]
  <2>1. CASE i <= Len(x)
    <3>1. x[i] = y[i]
      BY <1>1, <1>2, <2>1
    <3> QED  BY <1>1, <1>2, <1>3, <2>1, <3>1
  <2>2. CASE ~(i <= Len(x))
    BY <1>1, <1>2, <1>3, <2>2
  <2> QED  BY <2>1, <2>2
<1>5. Len(x \o z) = Len(y \o z) /\ Len(x \o z) = Len(x) + Len(z)
  BY <1>1, <1>2, <1>3
<1> DEFINE xz == x \o z
           yz == y \o z
<1>6. /\ xz \in Seq(Bytes) /\ yz \in Seq(Bytes) /\ Len(xz) = Len(yz)
      /\ \A i \in (1 .. Len(xz)) \ (2 .. 5) : xz[i] = yz[i]
  BY <1>2, <1>3, <1>4, <1>5
<1> HIDE DEF xz, yz
<1>7. SameButIdentifier(xz, yz)
  BY <1>6 DEF SameButIdentifier
<1> QED  BY <1>7 DEF xz, yz

(* The bytes of a snapshot: its type, then its fields in order.            *)
LEMMA SnapshotBytes ==
  ASSUME NEW v
  PROVE  Serialized(SnapshotRead, v)
           = (((<<0>> \o Written("u32", v.snapshotId)) \o Written("u64", v.serverTick))
                \o Written("u64", v.serverTimeNs))
                \o Written("u32", v.lastProcessedInputSequenceNumber)
<1> DEFINE p == Prefixes(SnapshotRead, v)
<1>1. Len(SnapshotRead.fields) = 4 /\ SnapshotRead.type = 0
  BY DEF SnapshotRead
<1>2. Len(SnapshotRead.fields) \in Nat
  BY <1>1
<1>3. p[0] = <<0>>
  BY <1>1, <1>2, PrefixesAre
<1>4. Serialized(SnapshotRead, v) = p[4]
  BY <1>1 DEF Serialized
<1>5. p[1] = p[0] \o Written("u32", v["snapshotId"])
  <2>1. 1 \in 1 .. Len(SnapshotRead.fields)
    BY <1>1
  <2>2. SnapshotRead.fields[1].kind = "u32" /\ SnapshotRead.fields[1].name = "snapshotId"
    BY DEF SnapshotRead, U32, U64, Field
  <2>3. p[1] = p[1 - 1] \o Written(SnapshotRead.fields[1].kind, v[SnapshotRead.fields[1].name])
    BY <1>2, <2>1, FieldFollows
  <2> QED  BY <2>2, <2>3
<1>6. p[2] = p[1] \o Written("u64", v["serverTick"])
  <2>1. 2 \in 1 .. Len(SnapshotRead.fields)
    BY <1>1
  <2>2. SnapshotRead.fields[2].kind = "u64" /\ SnapshotRead.fields[2].name = "serverTick"
    BY DEF SnapshotRead, U32, U64, Field
  <2>3. p[2] = p[2 - 1] \o Written(SnapshotRead.fields[2].kind, v[SnapshotRead.fields[2].name])
    BY <1>2, <2>1, FieldFollows
  <2> QED  BY <2>2, <2>3
<1>7. p[3] = p[2] \o Written("u64", v["serverTimeNs"])
  <2>1. 3 \in 1 .. Len(SnapshotRead.fields)
    BY <1>1
  <2>2. SnapshotRead.fields[3].kind = "u64" /\ SnapshotRead.fields[3].name = "serverTimeNs"
    BY DEF SnapshotRead, U32, U64, Field
  <2>3. p[3] = p[3 - 1] \o Written(SnapshotRead.fields[3].kind, v[SnapshotRead.fields[3].name])
    BY <1>2, <2>1, FieldFollows
  <2> QED  BY <2>2, <2>3
<1>8. p[4] = p[3] \o Written("u32", v["lastProcessedInputSequenceNumber"])
  <2>1. 4 \in 1 .. Len(SnapshotRead.fields)
    BY <1>1
  <2>2. /\ SnapshotRead.fields[4].kind = "u32"
        /\ SnapshotRead.fields[4].name = "lastProcessedInputSequenceNumber"
    BY DEF SnapshotRead, U32, U64, Field
  <2>3. p[4] = p[4 - 1] \o Written(SnapshotRead.fields[4].kind, v[SnapshotRead.fields[4].name])
    BY <1>2, <2>1, FieldFollows
  <2> QED  BY <2>2, <2>3
<1> HIDE DEF p
<1> QED  BY <1>3, <1>4, <1>5, <1>6, <1>7, <1>8

(* Numbering an accepted snapshot changes the bytes of its identifier      *)
(* only.                                                                   *)
LEMMA PatchChangesIdentifier ==
  ASSUME TypeOK, ReaderInv, NEW id \in SnapshotIds, PatchSnapshot(id)
  PROVE  Len(reply') = Len(data) /\ \A i \in DOMAIN data \ (2 .. 5) : reply'[i] = data[i]
<1> DEFINE w == [read EXCEPT !.snapshotId = id]
           a == Written("u32", read.snapshotId)
           b == Written("u32", id)
           c == Written("u64", read.serverTick)
           d == Written("u64", read.serverTimeNs)
           e == Written("u32", read.lastProcessedInputSequenceNumber)
<1>1. status = "accepted" /\ packet = SnapshotRead /\ reply' = Serialized(SnapshotWritten, w)
  BY DEF PatchSnapshot
<1>2. SnapshotWritten = SnapshotRead
  BY DEF SnapshotWritten, SnapshotRead
<1>3. data = Serialized(SnapshotRead, read)
  BY <1>1, WholeFromReader DEF AcceptedIsWhole
<1>4. next = 5 /\ DOMAIN read = {SnapshotRead.fields[i].name : i \in 1 .. 4}
  <2>1. Len(SnapshotRead.fields) = 4
    BY DEF SnapshotRead
  <2>2. next = 5
    BY <1>1, <2>1 DEF ReaderInv, NothingLeft
  <2> QED  BY <1>1, <2>2 DEF TypeOK
<1>5. /\ SnapshotRead.fields[1] = [name |-> "snapshotId", kind |-> "u32"]
      /\ SnapshotRead.fields[2] = [name |-> "serverTick", kind |-> "u64"]
      /\ SnapshotRead.fields[3] = [name |-> "serverTimeNs", kind |-> "u64"]
      /\ SnapshotRead.fields[4] = [name |-> "lastProcessedInputSequenceNumber", kind |-> "u32"]
  BY DEF SnapshotRead, U32, U64, Field
<1>6. 1 \in 1 .. 4 /\ 2 \in 1 .. 4 /\ 3 \in 1 .. 4 /\ 4 \in 1 .. 4
  OBVIOUS
<1>7. {"snapshotId", "serverTick", "serverTimeNs", "lastProcessedInputSequenceNumber"}
        \subseteq DOMAIN read
  BY <1>4, <1>5, <1>6
<1>8. /\ w.snapshotId = id /\ w.serverTick = read.serverTick
      /\ w.serverTimeNs = read.serverTimeNs
      /\ w.lastProcessedInputSequenceNumber = read.lastProcessedInputSequenceNumber
  BY <1>7
<1>9. \A i \in 1 .. 4 : Holds(SnapshotRead.fields[i].kind, read[SnapshotRead.fields[i].name])
  <2>1. \A i \in 1 .. next - 1 : Holds(packet.fields[i].kind, read[packet.fields[i].name])
    BY DEF ReaderInv, ValuesHeld
  <2> QED  BY <1>1, <1>4, <2>1
<1>10. /\ Holds("u32", read.snapshotId) /\ Holds("u64", read.serverTick)
       /\ Holds("u64", read.serverTimeNs) /\ Holds("u32", read.lastProcessedInputSequenceNumber)
       /\ Holds("u32", id)
  <2>1. Holds("u32", id)
    BY CodecAssumption DEF Holds, Numeric
  <2> QED  BY <1>5, <1>6, <1>9, <2>1
<1>11. /\ a \in Seq(Bytes) /\ Len(a) = 4 /\ b \in Seq(Bytes) /\ Len(b) = 4
       /\ c \in Seq(Bytes) /\ d \in Seq(Bytes) /\ e \in Seq(Bytes)
  <2>1. "u32" \in Kinds /\ "u64" \in Kinds /\ "u32" # "string" /\ Width("u32") = 4
    BY DEF Kinds, Width
  <2> QED  BY <1>10, <2>1, WrittenType
<1>12. /\ data = (((<<0>> \o a) \o c) \o d) \o e
       /\ reply' = (((<<0>> \o b) \o c) \o d) \o e
  BY <1>1, <1>2, <1>3, <1>8, SnapshotBytes
<1> HIDE DEF a, b, c, d, e
<1> DEFINE x1 == <<0>> \o a
           y1 == <<0>> \o b
           x2 == x1 \o c
           y2 == y1 \o c
           x3 == x2 \o d
           y3 == y2 \o d
<1>13. SameButIdentifier(x1, y1)
  <2> DEFINE z == <<0>>
  <2>1. z \in Seq(Bytes) /\ Len(z) = 1
    BY BaseType DEF Bytes
  <2> HIDE DEF z
  <2>2. /\ z \o a \in Seq(Bytes) /\ Len(z \o a) = 5
        /\ \A i \in 1 .. 5 : (z \o a)[i] = IF i <= 1 THEN z[i] ELSE a[i - 1]
    <3>1. /\ z \o a \in Seq(Bytes) /\ Len(z \o a) = Len(z) + Len(a)
          /\ \A i \in 1 .. Len(z) + Len(a) :
               (z \o a)[i] = IF i <= Len(z) THEN z[i] ELSE a[i - Len(z)]
      BY <1>11, <2>1, ConcatBytes
    <3> QED  BY <1>11, <2>1, <3>1
  <2>3. /\ z \o b \in Seq(Bytes) /\ Len(z \o b) = 5
        /\ \A i \in 1 .. 5 : (z \o b)[i] = IF i <= 1 THEN z[i] ELSE b[i - 1]
    <3>1. /\ z \o b \in Seq(Bytes) /\ Len(z \o b) = Len(z) + Len(b)
          /\ \A i \in 1 .. Len(z) + Len(b) :
               (z \o b)[i] = IF i <= Len(z) THEN z[i] ELSE b[i - Len(z)]
      BY <1>11, <2>1, ConcatBytes
    <3> QED  BY <1>11, <2>1, <3>1
  <2>4. \A i \in (1 .. 5) \ (2 .. 5) : i <= 1
    OBVIOUS
  <2>5. x1 = z \o a /\ y1 = z \o b
    BY DEF z
  <2> HIDE DEF x1, y1
  <2>6. /\ x1 \in Seq(Bytes) /\ y1 \in Seq(Bytes) /\ Len(x1) = Len(y1)
        /\ \A i \in (1 .. Len(x1)) \ (2 .. 5) : x1[i] = y1[i]
    BY <2>2, <2>3, <2>4, <2>5
  <2> QED  BY <2>6 DEF SameButIdentifier
<1> HIDE DEF x1, y1
<1>14. SameButIdentifier(x2, y2)
  BY <1>11, <1>13, SameBytesFollow
<1> HIDE DEF x2, y2
<1>15. SameButIdentifier(x3, y3)
  BY <1>11, <1>14, SameBytesFollow
<1> HIDE DEF x3, y3
<1>16. SameButIdentifier(x3 \o e, y3 \o e)
  BY <1>11, <1>15, SameBytesFollow
<1>17. data = x3 \o e /\ reply' = y3 \o e
  BY <1>12 DEF x1, y1, x2, y2, x3, y3
<1>18. DOMAIN data = 1 .. Len(data)
  BY CodecAssumption DEF TypeOK
<1> DEFINE r == reply'
<1>19. SameButIdentifier(data, r)
  BY <1>16, <1>17
<1> HIDE DEF r
<1>20. Len(r) = Len(data) /\ \A i \in DOMAIN data \ (2 .. 5) : r[i] = data[i]
  BY <1>18, <1>19 DEF SameButIdentifier
<1> QED  BY <1>20 DEF r

(* PatchKeepsSnapshot holds after every step.                              *)
LEMMA NextPatch == TypeOK /\ ReaderInv /\ PatchKeepsSnapshot /\ [Next]_vars => PatchKeepsSnapshot'
<1> SUFFICES ASSUME TypeOK, ReaderInv, PatchKeepsSnapshot, [Next]_vars PROVE PatchKeepsSnapshot'
  OBVIOUS
<1> USE DEF PatchKeepsSnapshot
<1>1. CASE ReadType
  BY <1>1 DEF ReadType
<1>2. CASE ReadField
  BY <1>2 DEF ReadField
<1>3. CASE Finish
  BY <1>3 DEF Finish
<1>4. ASSUME NEW id \in SnapshotIds, PatchSnapshot(id) PROVE PatchKeepsSnapshot'
  <2>1. data' = data
    BY <1>4 DEF PatchSnapshot
  <2> QED  BY <1>4, <2>1, PatchChangesIdentifier
<1>5. ASSUME NEW key \in ServerKeys, NEW signature \in Signatures, NEW now \in Times,
             AnswerHello(key, signature, now)
      PROVE  PatchKeepsSnapshot'
  <2>1. packet' = Hello
    BY <1>5 DEF AnswerHello
  <2>2. Len(Hello.fields) # Len(SnapshotRead.fields)
    BY DEF Hello, SnapshotRead
  <2>3. Hello # SnapshotRead
    BY <2>2
  <2> QED  BY <2>1, <2>3
<1>6. CASE UNCHANGED vars
  BY <1>6 DEF vars
<1> QED  BY <1>1, <1>2, <1>3, <1>4, <1>5, <1>6 DEF Next

(* Whatever snapshot the simulation wrote, and whatever identifier it gets *)
(* as it leaves, only the bytes of the identifier change.                  *)
THEOREM SnapshotsKeepTheirBytes == Spec => []PatchKeepsSnapshot
<1>1. Init => TypeOK /\ ReaderInv /\ PatchKeepsSnapshot
  BY InitTypeOK, InitReaderInv DEF Init, PatchKeepsSnapshot
<1>2. TypeOK /\ ReaderInv /\ PatchKeepsSnapshot /\ [Next]_vars
        => (TypeOK /\ ReaderInv /\ PatchKeepsSnapshot)'
  BY NextTypeOK, NextReader, NextPatch
<1> QED  BY <1>1, <1>2, PTL DEF Spec

-----------------------------------------------------------------------------
(* The answer to a hello.                                                  *)

(* The bytes of a hello: its type, then its fields in order.               *)
LEMMA HelloBytes ==
  ASSUME NEW v
  PROVE  Serialized(Hello, v)
           = ((<<0>> \o Written("u32", v.networkProtocolVersion))
                 \o Written("key", v.clientPublicKey))
                \o Written("nonce", v.clientNonce)
<1> DEFINE p == Prefixes(Hello, v)
<1>1. Len(Hello.fields) = 3 /\ Hello.type = 0
  BY DEF Hello
<1>2. Len(Hello.fields) \in Nat
  BY <1>1
<1>3. p[0] = <<0>>
  BY <1>1, <1>2, PrefixesAre
<1>4. Serialized(Hello, v) = p[3]
  BY <1>1 DEF Serialized
<1>5. p[1] = p[0] \o Written("u32", v["networkProtocolVersion"])
  <2>1. 1 \in 1 .. Len(Hello.fields)
    BY <1>1
  <2>2. Hello.fields[1].kind = "u32" /\ Hello.fields[1].name = "networkProtocolVersion"
    BY DEF Hello, U32, Field
  <2>3. p[1] = p[1 - 1] \o Written(Hello.fields[1].kind, v[Hello.fields[1].name])
    BY <1>2, <2>1, FieldFollows
  <2> QED  BY <2>2, <2>3
<1>6. p[2] = p[1] \o Written("key", v["clientPublicKey"])
  <2>1. 2 \in 1 .. Len(Hello.fields)
    BY <1>1
  <2>2. Hello.fields[2].kind = "key" /\ Hello.fields[2].name = "clientPublicKey"
    BY DEF Hello, U32, Field
  <2>3. p[2] = p[2 - 1] \o Written(Hello.fields[2].kind, v[Hello.fields[2].name])
    BY <1>2, <2>1, FieldFollows
  <2> QED  BY <2>2, <2>3
<1>7. p[3] = p[2] \o Written("nonce", v["clientNonce"])
  <2>1. 3 \in 1 .. Len(Hello.fields)
    BY <1>1
  <2>2. Hello.fields[3].kind = "nonce" /\ Hello.fields[3].name = "clientNonce"
    BY DEF Hello, U32, Field
  <2>3. p[3] = p[3 - 1] \o Written(Hello.fields[3].kind, v[Hello.fields[3].name])
    BY <1>2, <2>1, FieldFollows
  <2> QED  BY <2>2, <2>3
<1> HIDE DEF p
<1> QED  BY <1>3, <1>4, <1>5, <1>6, <1>7

(* The bytes of an answer to a hello: its type, then its fields in order.  *)
LEMMA HelloResponseBytes ==
  ASSUME NEW v
  PROVE  Serialized(HelloResponse, v)
           = (((((<<0>> \o Written("u8", v.status)) \o Written("key", v.serverPublicKey))
                   \o Written("u64", v.issuedAtUnixSeconds))
                  \o Written("u64", v.expiresAtUnixSeconds))
                 \o Written("nonce", v.clientNonceEcho)) \o Written("signature", v.signature)
<1> DEFINE p == Prefixes(HelloResponse, v)
<1>1. Len(HelloResponse.fields) = 6 /\ HelloResponse.type = 0
  BY DEF HelloResponse
<1>2. Len(HelloResponse.fields) \in Nat
  BY <1>1
<1>3. p[0] = <<0>>
  BY <1>1, <1>2, PrefixesAre
<1>4. Serialized(HelloResponse, v) = p[6]
  BY <1>1 DEF Serialized
<1>5. p[1] = p[0] \o Written("u8", v["status"])
  <2>1. 1 \in 1 .. Len(HelloResponse.fields)
    BY <1>1
  <2>2. HelloResponse.fields[1].kind = "u8" /\ HelloResponse.fields[1].name = "status"
    BY DEF HelloResponse, U8, U64, Field
  <2>3. p[1] = p[1 - 1] \o Written(HelloResponse.fields[1].kind, v[HelloResponse.fields[1].name])
    BY <1>2, <2>1, FieldFollows
  <2> QED  BY <2>2, <2>3
<1>6. p[2] = p[1] \o Written("key", v["serverPublicKey"])
  <2>1. 2 \in 1 .. Len(HelloResponse.fields)
    BY <1>1
  <2>2. HelloResponse.fields[2].kind = "key" /\ HelloResponse.fields[2].name = "serverPublicKey"
    BY DEF HelloResponse, U8, U64, Field
  <2>3. p[2] = p[2 - 1] \o Written(HelloResponse.fields[2].kind, v[HelloResponse.fields[2].name])
    BY <1>2, <2>1, FieldFollows
  <2> QED  BY <2>2, <2>3
<1>7. p[3] = p[2] \o Written("u64", v["issuedAtUnixSeconds"])
  <2>1. 3 \in 1 .. Len(HelloResponse.fields)
    BY <1>1
  <2>2. HelloResponse.fields[3].kind = "u64" /\ HelloResponse.fields[3].name = "issuedAtUnixSeconds"
    BY DEF HelloResponse, U8, U64, Field
  <2>3. p[3] = p[3 - 1] \o Written(HelloResponse.fields[3].kind, v[HelloResponse.fields[3].name])
    BY <1>2, <2>1, FieldFollows
  <2> QED  BY <2>2, <2>3
<1>8. p[4] = p[3] \o Written("u64", v["expiresAtUnixSeconds"])
  <2>1. 4 \in 1 .. Len(HelloResponse.fields)
    BY <1>1
  <2>2. /\ HelloResponse.fields[4].kind = "u64"
        /\ HelloResponse.fields[4].name = "expiresAtUnixSeconds"
    BY DEF HelloResponse, U8, U64, Field
  <2>3. p[4] = p[4 - 1] \o Written(HelloResponse.fields[4].kind, v[HelloResponse.fields[4].name])
    BY <1>2, <2>1, FieldFollows
  <2> QED  BY <2>2, <2>3
<1>9. p[5] = p[4] \o Written("nonce", v["clientNonceEcho"])
  <2>1. 5 \in 1 .. Len(HelloResponse.fields)
    BY <1>1
  <2>2. HelloResponse.fields[5].kind = "nonce" /\ HelloResponse.fields[5].name = "clientNonceEcho"
    BY DEF HelloResponse, U8, U64, Field
  <2>3. p[5] = p[5 - 1] \o Written(HelloResponse.fields[5].kind, v[HelloResponse.fields[5].name])
    BY <1>2, <2>1, FieldFollows
  <2> QED  BY <2>2, <2>3
<1>10. p[6] = p[5] \o Written("signature", v["signature"])
  <2>1. 6 \in 1 .. Len(HelloResponse.fields)
    BY <1>1
  <2>2. HelloResponse.fields[6].kind = "signature" /\ HelloResponse.fields[6].name = "signature"
    BY DEF HelloResponse, U8, U64, Field
  <2>3. p[6] = p[6 - 1] \o Written(HelloResponse.fields[6].kind, v[HelloResponse.fields[6].name])
    BY <1>2, <2>1, FieldFollows
  <2> QED  BY <2>2, <2>3
<1> HIDE DEF p
<1> QED  BY <1>3, <1>4, <1>5, <1>6, <1>7, <1>8, <1>9, <1>10

(* What lies between two other sequences.                                  *)
LEMMA Middle ==
  ASSUME NEW a \in Seq(Bytes), NEW b \in Seq(Bytes), NEW c \in Seq(Bytes)
  PROVE  SubSeq((a \o b) \o c, Len(a) + 1, Len(a) + Len(b)) = b
<1> DEFINE s == (a \o b) \o c
           m == Len(a) + 1
           n == Len(a) + Len(b)
           t == SubSeq(s, m, n)
<1>1. Len(a) \in Nat /\ Len(b) \in Nat /\ Len(c) \in Nat
  BY LenProperties
<1>2. /\ a \o b \in Seq(Bytes) /\ Len(a \o b) = n
      /\ \A i \in 1 .. n : (a \o b)[i] = IF i <= Len(a) THEN a[i] ELSE b[i - Len(a)]
  BY ConcatBytes
<1>3. \A i \in 1 .. n : s[i] = (a \o b)[i]
  <2> DEFINE ab == a \o b
  <2>1. ab \in Seq(Bytes) /\ Len(ab) = n
    BY <1>2
  <2> HIDE DEF ab, n
  <2>2. \A i \in 1 .. Len(ab) + Len(c) :
          (ab \o c)[i] = IF i <= Len(ab) THEN ab[i] ELSE c[i - Len(ab)]
    BY <2>1, ConcatBytes
  <2>3. n \in Nat
    BY <1>1 DEF n
  <2>4. \A i \in 1 .. n : i \in 1 .. Len(ab) + Len(c) /\ i <= Len(ab)
    BY <1>1, <2>1, <2>3
  <2>5. \A i \in 1 .. n : (ab \o c)[i] = ab[i]
    BY <2>2, <2>4
  <2> QED  BY <2>5 DEF ab
<1>4. ASSUME NEW i \in m .. n
      PROVE  s[i] = b[i - Len(a)] /\ i - Len(a) \in 1 .. Len(b)
  <2>1. i \in 1 .. n /\ ~(i <= Len(a)) /\ i - Len(a) \in 1 .. Len(b)
    BY <1>1
  <2> QED  BY <1>2, <1>3, <2>1
<1>5. \A i \in m .. n : s[i] \in Bytes
  BY <1>4, ElementOfSeq
<1>6. m \in Int /\ n \in Int /\ n - m + 1 = Len(b) /\ (~(m <= n) => Len(b) = 0)
  BY <1>1
<1> HIDE DEF s
<1>7. t \in Seq(Bytes) /\ Len(t) = Len(b) /\ \A i \in 1 .. Len(b) : t[i] = s[m + i - 1]
  <2> HIDE DEF m, n
  <2>1. /\ t \in Seq(Bytes) /\ Len(t) = IF m <= n THEN n - m + 1 ELSE 0
        /\ \A i \in 1 .. n - m + 1 : t[i] = s[m + i - 1]
    BY <1>5, <1>6, SubSeqProperties
  <2> QED  BY <1>6, <2>1
<1>8. ASSUME NEW i \in 1 .. Len(b)
      PROVE  t[i] = b[i]
  <2>1. m + i - 1 \in m .. n /\ (m + i - 1) - Len(a) = i
    BY <1>1
  <2>2. s[m + i - 1] = b[i]
    BY <1>4, <2>1
  <2> QED  BY <1>7, <2>2
<1>9. t = b
  <2> HIDE DEF t
  <2> QED  BY <1>7, <1>8, SeqEqual
<1> QED  BY <1>9 DEF s

(* Concatenations of bytes can be regrouped.                               *)
LEMMA AssocBytes ==
  ASSUME NEW x \in Seq(Bytes), NEW y \in Seq(Bytes), NEW z \in Seq(Bytes)
  PROVE  (x \o y) \o z = x \o (y \o z)
BY ConcatAssociative

(* The second byte stays the second byte when more follow.                 *)
LEMMA SecondStays ==
  ASSUME NEW x \in Seq(Bytes), NEW y \in Seq(Bytes), Len(x) >= 2
  PROVE  x \o y \in Seq(Bytes) /\ Len(x \o y) >= 2 /\ (x \o y)[2] = x[2]
<1>1. /\ x \o y \in Seq(Bytes)
      /\ Len(x) \in Nat /\ Len(y) \in Nat /\ Len(x \o y) = Len(x) + Len(y)
      /\ \A i \in 1 .. Len(x) + Len(y) : (x \o y)[i] = IF i <= Len(x) THEN x[i] ELSE y[i - Len(x)]
  BY ConcatBytes
<1>2. 2 \in 1 .. Len(x) + Len(y) /\ 2 <= Len(x)
  BY <1>1
<1> QED  BY <1>1, <1>2

(* A response holds values of the kinds of its fields.                     *)
Responses ==
  [status : Nat, serverPublicKey : [1 .. KeyBytes -> Bytes], issuedAtUnixSeconds : Nat,
   expiresAtUnixSeconds : Nat, clientNonceEcho : [1 .. NonceBytes -> Bytes],
   signature : [1 .. SignatureBytes -> Bytes]]

(* The fields of an answer are bytes, of the lengths of their kinds.       *)
LEMMA ResponseFields ==
  ASSUME NEW v \in Responses
  PROVE  /\ Written("u8", v.status) \in Seq(Bytes) /\ Len(Written("u8", v.status)) = 1
         /\ Written("u8", v.status)[1] = v.status % Base
         /\ Written("key", v.serverPublicKey) = v.serverPublicKey
         /\ v.serverPublicKey \in Seq(Bytes) /\ Len(v.serverPublicKey) = KeyBytes
         /\ Written("u64", v.issuedAtUnixSeconds) = BigEndian(8, v.issuedAtUnixSeconds)
         /\ BigEndian(8, v.issuedAtUnixSeconds) \in Seq(Bytes)
         /\ Len(BigEndian(8, v.issuedAtUnixSeconds)) = 8
         /\ Written("u64", v.expiresAtUnixSeconds) = BigEndian(8, v.expiresAtUnixSeconds)
         /\ BigEndian(8, v.expiresAtUnixSeconds) \in Seq(Bytes)
         /\ Len(BigEndian(8, v.expiresAtUnixSeconds)) = 8
         /\ Written("nonce", v.clientNonceEcho) = v.clientNonceEcho
         /\ v.clientNonceEcho \in Seq(Bytes) /\ Len(v.clientNonceEcho) = NonceBytes
         /\ Written("signature", v.signature) = v.signature
         /\ v.signature \in Seq(Bytes) /\ Len(v.signature) = SignatureBytes
<1>1. /\ v.status \in Nat /\ v.issuedAtUnixSeconds \in Nat /\ v.expiresAtUnixSeconds \in Nat
      /\ v.serverPublicKey \in [1 .. KeyBytes -> Bytes]
      /\ v.clientNonceEcho \in [1 .. NonceBytes -> Bytes]
      /\ v.signature \in [1 .. SignatureBytes -> Bytes]
  BY DEF Responses
<1>2. KeyBytes \in Nat /\ NonceBytes \in Nat /\ SignatureBytes \in Nat
  BY CodecAssumption
<1>3. \A x : /\ Written("u8", x) = BigEndian(1, x) /\ Written("u64", x) = BigEndian(8, x)
             /\ Written("key", x) = x /\ Written("nonce", x) = x /\ Written("signature", x) = x
  BY DEF Written, Width
<1>4. /\ v.serverPublicKey \in Seq(Bytes) /\ Len(v.serverPublicKey) = KeyBytes
      /\ v.clientNonceEcho \in Seq(Bytes) /\ Len(v.clientNonceEcho) = NonceBytes
      /\ v.signature \in Seq(Bytes) /\ Len(v.signature) = SignatureBytes
  BY <1>1, <1>2, FunctionIsSeq
<1>5. /\ BigEndian(8, v.issuedAtUnixSeconds) \in Seq(Bytes)
      /\ Len(BigEndian(8, v.issuedAtUnixSeconds)) = 8
      /\ BigEndian(8, v.expiresAtUnixSeconds) \in Seq(Bytes)
      /\ Len(BigEndian(8, v.expiresAtUnixSeconds)) = 8
  BY <1>1, BigEndianType
<1>6. /\ BigEndian(1, v.status) \in Seq(Bytes) /\ Len(BigEndian(1, v.status)) = 1
      /\ BigEndian(1, v.status)[1] = v.status % Base
  <2>1. /\ BigEndian(1, v.status) \in Seq(Bytes) /\ Len(BigEndian(1, v.status)) = 1
        /\ \A i \in 1 .. 1 : BigEndian(1, v.status)[i] = Shifted(1, v.status)[1 - i] % Base
    BY <1>1, BigEndianType
  <2>2. Shifted(1, v.status)[0] = v.status
    BY <1>1, ShiftedType
  <2>3. 1 \in 1 .. 1 /\ 1 - 1 = 0
    OBVIOUS
  <2> QED  BY <2>1, <2>2, <2>3
<1> QED  BY <1>3, <1>4, <1>5, <1>6

(* Where the fields of a response are: the status, all that is signed, and *)
(* the nonce.                                                              *)
LEMMA ResponseIs ==
  ASSUME NEW v \in Responses, NEW r, r = Serialized(HelloResponse, v)
  PROVE  /\ r[2] = v.status % Base
         /\ Domain \o SubSeq(r, 3, 18 + KeyBytes + NonceBytes) = SecureSessionMessage(v)
         /\ SubSeq(r, 19 + KeyBytes, 18 + KeyBytes + NonceBytes) = v.clientNonceEcho
<1> DEFINE s == Written("u8", v.status)
           k == v.serverPublicKey
           f == BigEndian(8, v.issuedAtUnixSeconds)
           u == BigEndian(8, v.expiresAtUnixSeconds)
           e == v.clientNonceEcho
           g == v.signature
           z == <<0>>
           h == z \o s
           kf == k \o f
           kfu == kf \o u
           b == kfu \o e
           hk == h \o k
           hkf == hk \o f
           l == hkf \o u
           dk == Domain \o k
           dkf == dk \o f
           dkfu == dkf \o u
<1>1. /\ s \in Seq(Bytes) /\ Len(s) = 1 /\ s[1] = v.status % Base
      /\ k \in Seq(Bytes) /\ Len(k) = KeyBytes /\ f \in Seq(Bytes) /\ Len(f) = 8
      /\ u \in Seq(Bytes) /\ Len(u) = 8 /\ e \in Seq(Bytes) /\ Len(e) = NonceBytes
      /\ g \in Seq(Bytes)
  BY ResponseFields
<1>2. r = ((((h \o k) \o f) \o u) \o e) \o g
  BY ResponseFields, HelloResponseBytes
<1>3. z \in Seq(Bytes) /\ Len(z) = 1
  BY BaseType DEF Bytes
<1>4. SecureSessionMessage(v) = (((Domain \o k) \o f) \o u) \o e
  BY DEF SecureSessionMessage, Width
<1>5. KeyBytes \in Nat /\ NonceBytes \in Nat /\ Domain \in Seq(Bytes)
  BY CodecAssumption
<1> HIDE DEF s, k, f, u, e, g, z
<1>6. h \in Seq(Bytes) /\ Len(h) = 2 /\ h[2] = v.status % Base
  <2>1. /\ h \in Seq(Bytes) /\ Len(h) = Len(z) + Len(s)
        /\ \A i \in 1 .. Len(z) + Len(s) : h[i] = IF i <= Len(z) THEN z[i] ELSE s[i - Len(z)]
    BY <1>1, <1>3, ConcatBytes
  <2> HIDE DEF h
  <2>2. Len(z) + Len(s) = 2 /\ 2 \in 1 .. 2 /\ ~(2 <= 1) /\ 2 - 1 = 1
    BY <1>1, <1>3
  <2> QED  BY <1>1, <1>3, <2>1, <2>2
<1> HIDE DEF h
<1>7. /\ h \in Seq(Bytes) /\ k \in Seq(Bytes) /\ f \in Seq(Bytes) /\ u \in Seq(Bytes)
      /\ e \in Seq(Bytes) /\ Domain \in Seq(Bytes)
  BY <1>1, <1>5, <1>6
<1>8. /\ b \in Seq(Bytes) /\ Len(b) = KeyBytes + 8 + 8 + NonceBytes
      /\ l \in Seq(Bytes) /\ Len(l) = 18 + KeyBytes
      /\ l \o e = h \o b /\ dkfu \o e = Domain \o b
  <2>1. /\ kf \in Seq(Bytes) /\ Len(kf) = Len(k) + Len(f)
        /\ hk \in Seq(Bytes) /\ Len(hk) = Len(h) + Len(k)
    <3>1. kf \in Seq(Bytes) /\ Len(kf) = Len(k) + Len(f)
      BY <1>7, ConcatBytes
    <3>2. hk \in Seq(Bytes) /\ Len(hk) = Len(h) + Len(k)
      BY <1>7, ConcatBytes
    <3> QED  BY <3>1, <3>2
  <2>2. hkf = h \o kf /\ dkf = Domain \o kf
    <3>1. (h \o k) \o f = h \o (k \o f)
      BY <1>7, AssocBytes
    <3>2. (Domain \o k) \o f = Domain \o (k \o f)
      BY <1>7, AssocBytes
    <3> QED  BY <3>1, <3>2
  <2> HIDE DEF kf, hk, dk
  <2>3. /\ kfu \in Seq(Bytes) /\ Len(kfu) = Len(kf) + Len(u)
        /\ hkf \in Seq(Bytes) /\ Len(hkf) = Len(hk) + Len(f)
    BY <1>7, <2>1, ConcatBytes
  <2> HIDE DEF hkf, dkf
  <2>4. l = h \o kfu /\ dkfu = Domain \o kfu
    <3>0. h \in Seq(Bytes) /\ Domain \in Seq(Bytes) /\ kf \in Seq(Bytes) /\ u \in Seq(Bytes)
      BY <1>7, <2>1
    <3>1. (h \o kf) \o u = h \o kfu
      BY <3>0, AssocBytes
    <3>2. (Domain \o kf) \o u = Domain \o kfu
      BY <3>0, AssocBytes
    <3> QED  BY <2>2, <3>1, <3>2
  <2> HIDE DEF kfu, dkfu
  <2>5. /\ b \in Seq(Bytes) /\ Len(b) = Len(kfu) + Len(e)
        /\ l \in Seq(Bytes) /\ Len(l) = Len(hkf) + Len(u)
    BY <1>7, <2>3, ConcatBytes
  <2> HIDE DEF l
  <2>6. l \o e = h \o b /\ dkfu \o e = Domain \o b
    <3>0. h \in Seq(Bytes) /\ Domain \in Seq(Bytes) /\ kfu \in Seq(Bytes) /\ e \in Seq(Bytes)
      BY <1>7, <2>3
    <3>1. (h \o kfu) \o e = h \o b
      BY <3>0, AssocBytes
    <3>2. (Domain \o kfu) \o e = Domain \o b
      BY <3>0, AssocBytes
    <3> QED  BY <2>4, <3>1, <3>2
  <2> HIDE DEF b
  <2> QED  BY <1>1, <1>5, <1>6, <2>1, <2>3, <2>5, <2>6
<1>9. /\ r = (h \o b) \o g /\ r = (l \o e) \o g
      /\ SecureSessionMessage(v) = Domain \o b
  <2>1. r = (l \o e) \o g /\ SecureSessionMessage(v) = dkfu \o e
    BY <1>2, <1>4
  <2> HIDE DEF l, b, dkfu
  <2> QED  BY <1>8, <2>1
<1> HIDE DEF b, l
<1>10. SubSeq(r, 3, 18 + KeyBytes + NonceBytes) = b
  <2>1. SubSeq((h \o b) \o g, Len(h) + 1, Len(h) + Len(b)) = b
    BY <1>1, <1>6, <1>8, Middle
  <2>2. Len(h) + 1 = 3 /\ Len(h) + Len(b) = 18 + KeyBytes + NonceBytes
    BY <1>5, <1>6, <1>8
  <2> QED  BY <1>9, <2>1, <2>2
<1>11. SubSeq(r, 19 + KeyBytes, 18 + KeyBytes + NonceBytes) = e
  <2>1. SubSeq((l \o e) \o g, Len(l) + 1, Len(l) + Len(e)) = e
    BY <1>1, <1>8, Middle
  <2>2. Len(l) + 1 = 19 + KeyBytes /\ Len(l) + Len(e) = 18 + KeyBytes + NonceBytes
    BY <1>1, <1>5, <1>8
  <2> QED  BY <1>9, <2>1, <2>2
<1>12. r[2] = v.status % Base
  <2> DEFINE hb == h \o b
  <2>0. h \in Seq(Bytes) /\ b \in Seq(Bytes) /\ Len(h) >= 2
    BY <1>6, <1>8
  <2>1. hb \in Seq(Bytes) /\ Len(hb) >= 2 /\ hb[2] = h[2]
    BY <2>0, SecondStays
  <2> HIDE DEF hb
  <2>2. (hb \o g)[2] = hb[2]
    BY <1>1, <2>1, SecondStays
  <2> QED  BY <1>6, <1>9, <2>1, <2>2 DEF hb
<1> QED  BY <1>9, <1>10, <1>11, <1>12 DEF e

(* The nonce is at the end of a hello.                                     *)
LEMMA HelloEndsWithNonce ==
  ASSUME TypeOK, ReaderInv, status = "accepted", packet = Hello
  PROVE  /\ read.clientNonce \in [1 .. NonceBytes -> Bytes]
         /\ SubSeq(data, Len(data) - NonceBytes + 1, Len(data)) = read.clientNonce
<1> DEFINE n == read.clientNonce
           v == Written("u32", read.networkProtocolVersion)
           k == Written("key", read.clientPublicKey)
           z == <<0>>
           a == (z \o v) \o k
<1>1. data = Serialized(Hello, read)
  BY WholeFromReader DEF AcceptedIsWhole
<1>2. next = 4
  <2>1. Len(Hello.fields) = 3
    BY DEF Hello
  <2> QED  BY <2>1 DEF ReaderInv, NothingLeft
<1>3. /\ Hello.fields[1] = Field("networkProtocolVersion", "u32")
      /\ Hello.fields[2] = Field("clientPublicKey", "key")
      /\ Hello.fields[3] = Field("clientNonce", "nonce")
  BY DEF Hello, U32
<1>4. /\ Holds("u32", read.networkProtocolVersion) /\ Holds("key", read.clientPublicKey)
      /\ Holds("nonce", n)
  <2>1. \A i \in 1 .. next - 1 : Holds(packet.fields[i].kind, read[packet.fields[i].name])
    BY DEF ReaderInv, ValuesHeld
  <2>2. 1 \in 1 .. next - 1 /\ 2 \in 1 .. next - 1 /\ 3 \in 1 .. next - 1
    BY <1>2
  <2>3. /\ Holds(Hello.fields[1].kind, read[Hello.fields[1].name])
        /\ Holds(Hello.fields[2].kind, read[Hello.fields[2].name])
        /\ Holds(Hello.fields[3].kind, read[Hello.fields[3].name])
    BY <2>1, <2>2
  <2> QED  BY <1>3, <2>3 DEF Field
<1>5. n \in [1 .. NonceBytes -> Bytes] /\ Written("nonce", n) = n /\ NonceBytes \in Nat
  BY <1>4, CodecAssumption DEF Holds, Numeric, Width, Written
<1>6. n \in Seq(Bytes) /\ Len(n) = NonceBytes
  BY <1>5, FunctionIsSeq
<1>7. v \in Seq(Bytes) /\ k \in Seq(Bytes) /\ z \in Seq(Bytes)
  <2>1. "u32" \in Kinds /\ "key" \in Kinds
    BY DEF Kinds
  <2>2. v \in Seq(Bytes) /\ k \in Seq(Bytes)
    BY <1>4, <2>1, WrittenType
  <2>3. z \in Seq(Bytes)
    BY BaseType DEF Bytes
  <2> QED  BY <2>2, <2>3
<1>8. data = a \o n
  BY <1>1, <1>5, HelloBytes
<1> HIDE DEF v, k, z, n
<1>9. a \in Seq(Bytes)
  BY <1>7, ConcatBytes
<1> HIDE DEF a
<1>10. Len(a) \in Nat /\ Len(data) = Len(a) + Len(n)
  BY <1>6, <1>8, <1>9, ConcatBytes
<1>11. SubSeq((a \o n) \o << >>, Len(a) + 1, Len(a) + Len(n)) = n
  <2>1. << >> \in Seq(Bytes)
    BY EmptySeq
  <2> QED  BY <1>6, <1>9, <2>1, Middle
<1>12. (a \o n) \o << >> = data
  BY <1>6, <1>8, <1>9, ConcatBytes, ConcatEmptySeq
<1>13. Len(a) + 1 = Len(data) - NonceBytes + 1 /\ Len(a) + Len(n) = Len(data)
  BY <1>5, <1>6, <1>10
<1>14. SubSeq(data, Len(data) - NonceBytes + 1, Len(data)) = n
  BY <1>11, <1>12, <1>13
<1> QED  BY <1>5, <1>14 DEF n

(* An attestation is an answer with values of the right kinds.             *)
LEMMA AttestationType ==
  ASSUME NEW key \in ServerKeys, NEW signature \in Signatures, NEW now \in Times,
         read.clientNonce \in [1 .. NonceBytes -> Bytes]
  PROVE  /\ Attestation(key, now) \in Responses /\ NoAttestation \in Responses
         /\ NoAttestation.status = 1
         /\ Attestation(key, now).clientNonceEcho = read.clientNonce
<1> DEFINE n == read.clientNonce
<1>1. 0 \in Bytes
  BY BaseType DEF Bytes
<1>2. /\ Zeros(KeyBytes) \in [1 .. KeyBytes -> Bytes]
      /\ Zeros(NonceBytes) \in [1 .. NonceBytes -> Bytes]
      /\ Zeros(SignatureBytes) \in [1 .. SignatureBytes -> Bytes]
  BY <1>1 DEF Zeros
<1>3. NoAttestation \in Responses /\ NoAttestation.status = 1
  BY <1>2 DEF NoAttestation, Responses
<1>4. key \in [1 .. KeyBytes -> Bytes] /\ now \in Nat /\ now + TTL \in Nat
  BY CodecAssumption
<1>5. Attestation(key, now)
        = [NoAttestation EXCEPT !.serverPublicKey = key, !.issuedAtUnixSeconds = now,
                                !.expiresAtUnixSeconds = now + TTL, !.clientNonceEcho = n]
  BY DEF Attestation
<1> HIDE DEF n
<1>6. n \in [1 .. NonceBytes -> Bytes]
  BY DEF n
<1> DEFINE A == [NoAttestation EXCEPT !.serverPublicKey = key, !.issuedAtUnixSeconds = now,
                                      !.expiresAtUnixSeconds = now + TTL, !.clientNonceEcho = n]
<1>7. A \in Responses /\ A.clientNonceEcho = n
  BY <1>3, <1>4, <1>6 DEF Responses
<1> QED  BY <1>3, <1>5, <1>7 DEF n

(* An answer that is written can be verified.                              *)
LEMMA AnswerVerifies ==
  ASSUME TypeOK, ReaderInv, NEW key \in ServerKeys, NEW signature \in Signatures,
         NEW now \in Times, AnswerHello(key, signature, now)
  PROVE  AttestationVerifies'
<1> DEFINE A == Attestation(key, now)
           S == [A EXCEPT !.status = 0, !.signature = signature]
           F == [A EXCEPT !.status = 2]
<1>1. status = "accepted" /\ packet = Hello /\ data' = data
  BY DEF AnswerHello
<1>2. /\ read.clientNonce \in [1 .. NonceBytes -> Bytes]
      /\ SubSeq(data, Len(data) - NonceBytes + 1, Len(data)) = read.clientNonce
  BY <1>1, HelloEndsWithNonce
<1>3. /\ A \in Responses /\ NoAttestation \in Responses /\ NoAttestation.status = 1
      /\ A.clientNonceEcho = read.clientNonce
  BY <1>2, AttestationType
<1>4. 1 % Base = 1 /\ 2 % Base = 2
  BY BaseType
<1>5. CASE reply' = Serialized(HelloResponse, NoAttestation)
  <2>1. reply'[2] = 1
    BY <1>3, <1>4, <1>5, ResponseIs
  <2> QED  BY <2>1 DEF AttestationVerifies
<1>6. CASE signed' = SecureSessionMessage(A) /\ reply' = Serialized(HelloResponse, S)
  <2> HIDE DEF A
  <2>1. signature \in [1 .. SignatureBytes -> Bytes]
    BY CodecAssumption
  <2>2. S \in Responses
    BY <1>3, <2>1 DEF Responses
  <2>3. /\ S.serverPublicKey = A.serverPublicKey /\ S.clientNonceEcho = A.clientNonceEcho
        /\ S.issuedAtUnixSeconds = A.issuedAtUnixSeconds
        /\ S.expiresAtUnixSeconds = A.expiresAtUnixSeconds
    BY <1>3 DEF Responses
  <2> HIDE DEF S
  <2>4. SecureSessionMessage(S) = SecureSessionMessage(A)
    BY <2>3 DEF SecureSessionMessage
  <2> DEFINE r == reply'
  <2>5. r = Serialized(HelloResponse, S)
    BY <1>6
  <2> HIDE DEF r
  <2>6. /\ Domain \o SubSeq(r, 3, 18 + KeyBytes + NonceBytes) = SecureSessionMessage(S)
        /\ SubSeq(r, 19 + KeyBytes, 18 + KeyBytes + NonceBytes) = S.clientNonceEcho
    BY <2>2, <2>5, ResponseIs
  <2>7. /\ signed' = Domain \o SubSeq(r, 3, 18 + KeyBytes + NonceBytes)
        /\ SubSeq(r, 19 + KeyBytes, 18 + KeyBytes + NonceBytes)
             = SubSeq(data, Len(data) - NonceBytes + 1, Len(data))
    BY <1>2, <1>3, <1>6, <2>3, <2>4, <2>6
  <2> QED  BY <1>1, <2>7 DEF r, AttestationVerifies
<1>7. CASE reply' = Serialized(HelloResponse, F)
  <2> HIDE DEF A
  <2>1. F \in Responses /\ F.status = 2
    BY <1>3 DEF Responses
  <2> HIDE DEF F
  <2>2. reply'[2] = 2
    BY <1>4, <1>7, <2>1, ResponseIs
  <2> QED  BY <2>2 DEF AttestationVerifies
<1> QED  BY <1>5, <1>6, <1>7 DEF AnswerHello

(* AttestationVerifies holds after every step.                             *)
LEMMA NextAttestation ==
  TypeOK /\ ReaderInv /\ AttestationVerifies /\ [Next]_vars => AttestationVerifies'
<1> SUFFICES ASSUME TypeOK, ReaderInv, AttestationVerifies, [Next]_vars
             PROVE  AttestationVerifies'
  OBVIOUS
<1>1. CASE ReadType
  BY <1>1 DEF ReadType, AttestationVerifies
<1>2. CASE ReadField
  BY <1>2 DEF ReadField, AttestationVerifies
<1>3. CASE Finish
  BY <1>3 DEF Finish, AttestationVerifies
<1>4. ASSUME NEW id \in SnapshotIds, PatchSnapshot(id) PROVE AttestationVerifies'
  <2>1. packet' = SnapshotRead
    BY <1>4 DEF PatchSnapshot
  <2>2. Len(Hello.fields) # Len(SnapshotRead.fields)
    BY DEF Hello, SnapshotRead
  <2>3. Hello # SnapshotRead
    BY <2>2
  <2> QED  BY <2>1, <2>3 DEF AttestationVerifies
<1>5. ASSUME NEW key \in ServerKeys, NEW signature \in Signatures, NEW now \in Times,
             AnswerHello(key, signature, now)
      PROVE  AttestationVerifies'
  BY <1>5, AnswerVerifies
<1>6. CASE UNCHANGED vars
  BY <1>6 DEF vars, AttestationVerifies
<1> QED  BY <1>1, <1>2, <1>3, <1>4, <1>5, <1>6 DEF Next

(* Whatever hello arrives, a client finds in the bytes of the answer all   *)
(* that was signed, in the order it was signed, and its own nonce.         *)
THEOREM ClientsCanVerify == Spec => []AttestationVerifies
<1>1. Init => TypeOK /\ ReaderInv /\ AttestationVerifies
  BY InitTypeOK, InitReaderInv DEF Init, AttestationVerifies
<1>2. TypeOK /\ ReaderInv /\ AttestationVerifies /\ [Next]_vars
        => (TypeOK /\ ReaderInv /\ AttestationVerifies)'
  BY NextTypeOK, NextReader, NextAttestation
<1> QED  BY <1>1, <1>2, PTL DEF Spec

-----------------------------------------------------------------------------
(* What a client writes.                                                   *)

(* The values a client gives a field: a token is not longer than allowed.  *)
Sendable(kind, v) == Holds(kind, v) /\ (kind = "string" => Len(v) <= MaxAuthTokenLength)

CanWrite(p, values) ==
  \A i \in 1 .. Len(p.fields) : Sendable(p.fields[i].kind, values[p.fields[i].name])

(* Bytes that a client writes for a channel.                               *)
IsWritten(ch, bytes) ==
  \E p \in Delivers(ch) : \E values : CanWrite(p, values) /\ bytes = Serialized(p, values)

(* The first fields are the first bytes of the whole packet.               *)
LEMMA PrefixBegins ==
  ASSUME NEW ch, NEW p \in Delivers(ch), NEW values, CanWrite(p, values),
         NEW i \in 0 .. Len(p.fields), NEW x, x = Prefixes(p, values)[i],
         NEW bytes, bytes = Serialized(p, values)
  PROVE  x \in Seq(Bytes) /\ Len(x) <= Len(bytes) /\ \A j \in 1 .. Len(x) : bytes[j] = x[j]
<1> DEFINE n == Len(p.fields)
           P == Prefixes(p, values)
           W(k) == Written(p.fields[k].kind, values[p.fields[k].name])
           Typed == {k \in 0 .. n : P[k] \in Seq(Bytes)}
<1>1. p \in Layouts /\ p.type \in Bytes /\ n \in Nat /\ DOMAIN p.fields = 1 .. n
  BY TypesAreBytes, LengthsAreNat
<1>2. P[0] = <<p.type>>
  BY <1>1, PrefixesAre
<1>3. \A k \in 1 .. n : P[k] = P[k - 1] \o W(k)
  BY <1>1, PrefixesAre
<1>4. ASSUME NEW k \in 1 .. n PROVE W(k) \in Seq(Bytes)
  <2>1. p.fields[k].kind \in Kinds
    BY <1>1, KindsKnown
  <2>2. Holds(p.fields[k].kind, values[p.fields[k].name])
    BY DEF CanWrite, Sendable
  <2> QED  BY <2>1, <2>2, WrittenType
<1>5. x = P[i] /\ bytes = P[n] /\ i \in 0 .. n
  BY DEF Serialized
<1> HIDE DEF P, W, n
<1>6. \A k \in 0 .. n : P[k] \in Seq(Bytes)
  <2>1. 0 \in Typed
    <3>1. <<p.type>> \in Seq(Bytes) /\ 0 \in 0 .. n
      BY <1>1
    <3> QED  BY <1>2, <3>1
  <2>2. ASSUME NEW k \in 1 .. n, k - 1 \in Typed PROVE k \in Typed
    <3>1. P[k - 1] \in Seq(Bytes) /\ W(k) \in Seq(Bytes) /\ P[k] = P[k - 1] \o W(k)
      BY <1>3, <1>4, <2>2
    <3>2. P[k] \in Seq(Bytes)
      BY <3>1, ConcatBytes
    <3> QED  BY <1>1, <3>2
  <2>3. \A k \in 0 .. n : k \in Typed
    <3> HIDE DEF Typed
    <3> QED  BY <1>1, <2>1, <2>2, Induction
  <2> QED  BY <2>3
<1>7. ASSUME NEW k \in 0 .. n
      PROVE  Len(P[k]) <= Len(P[n]) /\ \A j \in 1 .. Len(P[k]) : P[n][j] = P[k][j]
  <2> DEFINE Begins(m) == Len(P[k]) <= Len(P[m]) /\ \A j \in 1 .. Len(P[k]) : P[m][j] = P[k][j]
             Grown == {m \in 0 .. n : k <= m => Begins(m)}
  <2>0. k \in Nat /\ n \in Nat /\ Len(P[k]) \in Nat
    BY <1>1, <1>6, LenProperties
  <2>1. 0 \in Grown
    <3>1. k <= 0 => k = 0
      BY <2>0
    <3> QED  BY <2>0, <3>1
  <2>2. ASSUME NEW m \in 1 .. n, m - 1 \in Grown PROVE m \in Grown
    <3>1. CASE k <= m - 1
      <4>1. Begins(m - 1)
        BY <2>2, <3>1
      <4>2. P[m - 1] \in Seq(Bytes) /\ W(m) \in Seq(Bytes) /\ P[m] = P[m - 1] \o W(m)
        <5>1. m - 1 \in 0 .. n
          BY <2>0
        <5> QED  BY <1>3, <1>4, <1>6, <5>1
      <4> DEFINE f == P[m - 1]
                 w == W(m)
      <4> HIDE DEF f, w
      <4>3. /\ Len(f) \in Nat /\ Len(w) \in Nat /\ Len(f \o w) = Len(f) + Len(w)
            /\ \A j \in 1 .. Len(f) + Len(w) :
                 (f \o w)[j] = IF j <= Len(f) THEN f[j] ELSE w[j - Len(f)]
        BY <4>2, ConcatBytes DEF f, w
      <4>4. Len(P[k]) <= Len(f) /\ \A j \in 1 .. Len(P[k]) : f[j] = P[k][j]
        BY <4>1 DEF f
      <4>5. \A j \in 1 .. Len(P[k]) : j \in 1 .. Len(f) + Len(w) /\ j <= Len(f)
        BY <2>0, <4>3, <4>4
      <4>6. Len(P[k]) <= Len(f \o w) /\ \A j \in 1 .. Len(P[k]) : (f \o w)[j] = P[k][j]
        BY <2>0, <4>3, <4>4, <4>5
      <4>7. P[m] = f \o w
        BY <4>2 DEF f, w
      <4> QED  BY <4>6, <4>7
    <3>2. CASE k = m
      BY <2>0, <3>2
    <3>3. CASE k > m
      BY <2>0, <3>3
    <3> QED  BY <2>0, <3>1, <3>2, <3>3
  <2>3. \A m \in 0 .. n : m \in Grown
    <3> HIDE DEF Grown
    <3> QED  BY <1>1, <2>1, <2>2, Induction
  <2>4. n \in 0 .. n /\ k <= n
    BY <2>0
  <2> QED  BY <2>3, <2>4
<1> QED  BY <1>5, <1>6, <1>7

(* A field that a client wrote fits.                                       *)
LEMMA FieldsFit ==
  ASSUME data \in Seq(Bytes), offset \in Nat, MaxAuthTokenLength < Base * Base,
         NEW kind \in Kinds, NEW v, Sendable(kind, v),
         offset + Len(Written(kind, v)) <= Len(data),
         \A j \in 1 .. Len(Written(kind, v)) : data[offset + j] = Written(kind, v)[j]
  PROVE  Fits(kind) /\ Taken(kind) = Len(Written(kind, v))
<1> DEFINE w == Written(kind, v)
<1>1. /\ Holds(kind, v) /\ w \in Seq(Bytes)
      /\ Len(w) = IF kind = "string" THEN 2 + Len(v) ELSE Width(kind)
  BY WrittenType DEF Sendable
<1>2. CASE kind = "string"
  <2> DEFINE n == Len(v)
             l == BigEndian(2, n)
  <2>1. v \in Seq(Bytes) /\ n \in Nat /\ n <= MaxAuthTokenLength
    BY <1>1, <1>2, LenProperties DEF Holds, Numeric, Sendable
  <2>2. n < Base * Base
    <3>1. MaxAuthTokenLength \in Nat /\ Base * Base \in Nat
      BY CodecAssumption
    <3> HIDE DEF n
    <3> QED  BY <2>1, <3>1
  <2>3. w = l \o v
    BY <1>2 DEF Written, Width
  <2>4. l \in Seq(Bytes) /\ Len(l) = 2
    BY <2>1, BigEndianType
  <2>5. l[1] * Base + l[2] = n
    BY <2>1, <2>2, ShortLength
  <2> HIDE DEF l
  <2>6. w[1] = l[1] /\ w[2] = l[2]
    <3>1. \A i \in 1 .. Len(l) + Len(v) : (l \o v)[i] = IF i <= Len(l) THEN l[i] ELSE v[i - Len(l)]
      BY <2>1, <2>4, ConcatBytes
    <3>2. 1 \in 1 .. Len(l) + Len(v) /\ 2 \in 1 .. Len(l) + Len(v) /\ 1 <= Len(l) /\ 2 <= Len(l)
      BY <2>1, <2>4
    <3>3. (l \o v)[1] = l[1] /\ (l \o v)[2] = l[2]
      BY <3>1, <3>2
    <3> QED  BY <2>3, <3>3
  <2>7. data[offset + 1] = w[1] /\ data[offset + 2] = w[2]
    <3>1. 1 \in 1 .. Len(w) /\ 2 \in 1 .. Len(w)
      BY <1>1, <1>2, <2>1
    <3> QED  BY <3>1
  <2>8. StringLength = n
    BY <2>5, <2>6, <2>7 DEF StringLength
  <2>9. offset + 2 + n <= Len(data) /\ Len(data) \in Nat
    BY <1>1, <1>2, <2>1, LenProperties
  <2> HIDE DEF n
  <2>10. CanRead(offset, 2) /\ CanRead(offset + 2, n)
    BY <2>1, <2>9 DEF CanRead
  <2>11. StringFits
    BY <2>1, <2>8, <2>10 DEF StringFits, Width
  <2>12. Taken(kind) = 2 + n
    BY <1>2, <2>8 DEF Taken, Width
  <2> QED  BY <1>1, <1>2, <2>11, <2>12 DEF Fits, n
<1>3. CASE kind # "string"
  <2>1. Len(w) = Width(kind)
    BY <1>1, <1>3
  <2>2. CanRead(offset, Width(kind))
    BY <2>1 DEF CanRead
  <2> QED  BY <1>3, <2>1, <2>2 DEF Fits, Taken
<1> QED  BY <1>2, <1>3

(* While bytes a client wrote are read, the cursor is where a field ends.  *)
OnTrack ==
  <<channel, data>> \in WellFormed =>
    /\ status # "refused"
    /\ status = "reading" =>
         \E values : /\ CanWrite(packet, values) /\ data = Serialized(packet, values)
                     /\ offset = Len(Prefixes(packet, values)[next - 1])

(* Reading the type of bytes that a client wrote keeps OnTrack.            *)
LEMMA ReadTypeTrack ==
  ASSUME TypeOK, \A w \in WellFormed : IsWritten(w[1], w[2]), ReadType
  PROVE  OnTrack'
<1> SUFFICES ASSUME <<channel, data>> \in WellFormed
             PROVE  /\ status' # "refused"
                    /\ \E values : /\ CanWrite(packet', values)
                                   /\ data' = Serialized(packet', values)
                                   /\ offset' = Len(Prefixes(packet', values)[next' - 1])
  BY DEF OnTrack, ReadType
<1>1. PICK p \in Delivers(channel) :
        \E values : CanWrite(p, values) /\ data = Serialized(p, values)
  <2>1. IsWritten(channel, data)
    OBVIOUS
  <2> QED  BY <2>1 DEF IsWritten
<1>2. PICK values : CanWrite(p, values) /\ data = Serialized(p, values)
  BY <1>1
<1>3. p.type \in Bytes /\ Len(p.fields) \in Nat
  BY TypesAreBytes, LengthsAreNat
<1> DEFINE t == Prefixes(p, values)[0]
<1>4. t = <<p.type>> /\ Len(t) = 1 /\ t[1] = p.type
  <2>1. t = <<p.type>>
    BY <1>3, PrefixesAre
  <2> QED  BY <2>1
<1> HIDE DEF t
<1>5. Len(t) <= Len(data) /\ \A j \in 1 .. Len(t) : data[j] = t[j]
  <2>1. 0 \in 0 .. Len(p.fields)
    BY <1>3
  <2> QED  BY <1>2, <2>1, PrefixBegins DEF t
<1>6. 1 <= Len(data) /\ data[1] = p.type
  BY <1>4, <1>5
<1>7. CanRead(0, 1) /\ \E q \in Delivers(channel) : q.type = data[1]
  BY <1>6 DEF CanRead
<1>8. packet' \in Delivers(channel) /\ status' = "reading" /\ offset' = 1
  BY <1>7 DEF ReadType
<1>9. packet' = p
  BY <1>8 DEF Delivers
<1>10. data' = data /\ next' = 1 /\ next' - 1 = 0
  BY DEF ReadType, TypeOK
<1> QED  BY <1>2, <1>4, <1>8, <1>9, <1>10 DEF t

(* Reading a field of bytes that a client wrote keeps OnTrack.             *)
LEMMA ReadFieldTrack ==
  ASSUME TypeOK, ReaderInv, OnTrack, MaxAuthTokenLength < Base * Base, ReadField
  PROVE  OnTrack'
<1> DEFINE field == packet.fields[next]
           n == Len(packet.fields)
<1>1. /\ channel' = channel /\ data' = data /\ packet' = packet /\ status = "reading"
      /\ next <= n
  BY DEF ReadField
<1> SUFFICES ASSUME <<channel, data>> \in WellFormed
             PROVE  /\ status' # "refused"
                    /\ \E values : /\ CanWrite(packet, values) /\ data = Serialized(packet, values)
                                   /\ offset' = Len(Prefixes(packet, values)[next' - 1])
  BY <1>1 DEF OnTrack
<1>2. PICK values : /\ CanWrite(packet, values) /\ data = Serialized(packet, values)
                    /\ offset = Len(Prefixes(packet, values)[next - 1])
  BY <1>1 DEF OnTrack
<1>3. packet \in Delivers(channel) /\ n \in Nat /\ next \in 1 .. n /\ field.kind \in Kinds
  <2>1. packet \in Delivers(channel)
    BY <1>1 DEF ReaderInv, ReadSoFar
  <2>2. packet \in Layouts
    BY <2>1, TypesAreBytes
  <2>3. n \in Nat /\ DOMAIN packet.fields = 1 .. n
    BY <2>2, LengthsAreNat
  <2>4. next \in 1 .. n
    BY <1>1, <2>3 DEF TypeOK
  <2> QED  BY <2>1, <2>2, <2>3, <2>4, KindsKnown
<1> DEFINE v == values[field.name]
           w == Written(field.kind, v)
           x == Prefixes(packet, values)[next - 1]
           y == Prefixes(packet, values)[next]
<1>4. Sendable(field.kind, v)
  BY <1>2, <1>3 DEF CanWrite
<1>5. w \in Seq(Bytes)
  BY <1>3, <1>4, WrittenType DEF Sendable
<1>6. y = x \o w
  BY <1>3, FieldFollows
<1>7. x \in Seq(Bytes) /\ Len(y) <= Len(data) /\ \A j \in 1 .. Len(y) : data[j] = y[j]
  <2>0. /\ CanWrite(packet, values) /\ data = Serialized(packet, values)
        /\ packet \in Delivers(channel)
    BY <1>2, <1>3
  <2>1. next - 1 \in 0 .. n /\ next \in 0 .. n
    BY <1>3
  <2>2. x \in Seq(Bytes)
    BY <2>0, <2>1, PrefixBegins
  <2>3. Len(y) <= Len(data) /\ \A j \in 1 .. Len(y) : data[j] = y[j]
    BY <2>0, <2>1, PrefixBegins
  <2> QED  BY <2>2, <2>3
<1>8. offset = Len(x) /\ data \in Seq(Bytes) /\ offset \in Nat
  BY <1>2, CodecAssumption DEF TypeOK
<1> HIDE DEF w, x, y, v
<1>9. /\ Len(x) \in Nat /\ Len(w) \in Nat /\ Len(y) = Len(x) + Len(w)
      /\ \A i \in 1 .. Len(x) + Len(w) : y[i] = IF i <= Len(x) THEN x[i] ELSE w[i - Len(x)]
  BY <1>5, <1>6, <1>7, ConcatBytes
<1>10. offset + Len(w) <= Len(data)
  BY <1>7, <1>8, <1>9
<1>11. ASSUME NEW j \in 1 .. Len(w) PROVE data[offset + j] = w[j]
  <2>1. /\ Len(x) + j \in 1 .. Len(x) + Len(w) /\ ~(Len(x) + j <= Len(x))
        /\ (Len(x) + j) - Len(x) = j
    BY <1>9
  <2>2. y[Len(x) + j] = w[j]
    BY <1>9, <2>1
  <2>3. data[Len(x) + j] = y[Len(x) + j]
    BY <1>7, <1>9, <2>1
  <2> QED  BY <1>8, <2>2, <2>3
<1>12. Fits(field.kind) /\ Taken(field.kind) = Len(w)
  BY <1>3, <1>4, <1>8, <1>10, <1>11, FieldsFit DEF w
<1>13. offset' = offset + Len(w) /\ next' = next + 1 /\ status' = status
  BY <1>12 DEF ReadField
<1>14. next' - 1 = next /\ offset' = Len(y)
  BY <1>3, <1>8, <1>9, <1>13
<1> QED  BY <1>1, <1>2, <1>13, <1>14 DEF y

(* OnTrack is inductive, given the types and ReaderInv.                    *)
LEMMA NextTrack ==
  ASSUME MaxAuthTokenLength < Base * Base, \A w \in WellFormed : IsWritten(w[1], w[2])
  PROVE  TypeOK /\ ReaderInv /\ OnTrack /\ [Next]_vars => OnTrack'
<1> SUFFICES ASSUME TypeOK, ReaderInv, OnTrack, [Next]_vars PROVE OnTrack'
  OBVIOUS
<1>1. CASE ReadType
  BY <1>1, ReadTypeTrack
<1>2. CASE ReadField
  BY <1>2, ReadFieldTrack
<1>3. CASE Finish
  <2>1. /\ channel' = channel /\ data' = data /\ packet' = packet /\ status = "reading"
        /\ next > Len(packet.fields)
        /\ status' = IF offset = Len(data) THEN "accepted" ELSE "refused"
    BY <1>3 DEF Finish, Ends
  <2>2. ASSUME <<channel, data>> \in WellFormed PROVE offset = Len(data)
    <3>1. PICK values : /\ data = Serialized(packet, values)
                        /\ offset = Len(Prefixes(packet, values)[next - 1])
      BY <2>1, <2>2 DEF OnTrack
    <3>2. packet \in Delivers(channel)
      BY <2>1 DEF ReaderInv, ReadSoFar
    <3>3. Len(packet.fields) \in Nat
      BY <3>2, TypesAreBytes, LengthsAreNat
    <3>4. next - 1 = Len(packet.fields)
      BY <2>1, <3>3 DEF TypeOK
    <3> QED  BY <3>1, <3>4 DEF Serialized
  <2> QED  BY <2>1, <2>2 DEF OnTrack
<1>4. ASSUME NEW id \in SnapshotIds, PatchSnapshot(id) PROVE OnTrack'
  BY <1>4 DEF PatchSnapshot, OnTrack
<1>5. ASSUME NEW key \in ServerKeys, NEW signature \in Signatures, NEW now \in Times,
             AnswerHello(key, signature, now)
      PROVE  OnTrack'
  BY <1>5 DEF AnswerHello, OnTrack
<1>6. CASE UNCHANGED vars
  BY <1>6 DEF vars, OnTrack
<1> QED  BY <1>1, <1>2, <1>3, <1>4, <1>5, <1>6 DEF Next

(* Whatever values a client gives the fields of a packet, and whatever     *)
(* token it has that is not too long, the packet is not refused; the limit *)
(* is below what the two bytes of a length can say.                        *)
THEOREM ClientsAreUnderstood ==
  ASSUME MaxAuthTokenLength < Base * Base, \A w \in WellFormed : IsWritten(w[1], w[2])
  PROVE  Spec => []WellFormedIsAccepted
<1>1. Init => TypeOK /\ ReaderInv /\ OnTrack
  BY InitTypeOK, InitReaderInv DEF Init, OnTrack
<1>2. TypeOK /\ ReaderInv /\ OnTrack /\ [Next]_vars => (TypeOK /\ ReaderInv /\ OnTrack)'
  BY NextTypeOK, NextReader, NextTrack
<1>3. OnTrack => WellFormedIsAccepted
  BY DEF OnTrack, WellFormedIsAccepted
<1> QED  BY <1>1, <1>2, <1>3, PTL DEF Spec
=============================================================================
