----------------------------- MODULE DerProofs -----------------------------
(***************************************************************************)
(* For any set of identifiers, tokens and objects: what OidUtil's encoder  *)
(* gets right, and that the Oid objects then agree with native values.     *)
(***************************************************************************)
EXTENDS Der, FlattenTheorems, TLAPS

\* The low two digits come out right when nothing above them interferes.
LEMMA LowDigitsRight ==
  ASSUME NEW n \in Nat, n < 262144, (n \div 16384) % 2 = 0
  PROVE  LowDigits(n) = <<128 + ((n \div 128) % 128), n % 128>>
<1>1. CASE n \in 2048 .. 16383
  <2> DEFINE major == IF n \in 2048 .. 16383 THEN 8 + (n \div 2048) ELSE 8
             rest  == IF n \in 2048 .. 16383 THEN n % 2048 ELSE n
  <2>1. LowDigits(n) = <<Byte(16 * major + (rest \div 128)), rest % 128>>
    BY SMT DEF LowDigits
  <2>2. major = 8 + (n \div 2048) /\ rest = n % 2048
    BY <1>1, SMT
  <2> HIDE DEF major, rest
  <2>3. Byte(16 * (8 + (n \div 2048)) + ((n % 2048) \div 128)) = 128 + ((n \div 128) % 128)
    BY <1>1, SMTT(30) DEF Byte
  <2>4. (n % 2048) % 128 = n % 128
    BY <1>1, SMTT(30)
  <2> QED BY <2>1, <2>2, <2>3, <2>4, SMT
<1>2. CASE n \notin 2048 .. 16383
  <2>1. LowDigits(n) = <<Byte(16 * 8 + (n \div 128)), n % 128>>
    BY <1>2, SMTT(30) DEF LowDigits
  <2>2. Byte(16 * 8 + (n \div 128)) = 128 + ((n \div 128) % 128)
    BY <1>2, SMTT(30) DEF Byte
  <2> QED BY <2>1, <2>2
<1> QED BY <1>1, <1>2

\* Three digits are one and two.
LEMMA TwoDigitsAfterOne ==
  ASSUME NEW a \in Int, NEW b \in Int, NEW c \in Int
  PROVE  <<a>> \o <<b, c>> = <<a, b, c>>
<1> DEFINE left == <<a>> \o <<b, c>>  right == <<a, b, c>>
<1>1. /\ left \in Seq(Int) /\ right \in Seq(Int) /\ Len(left) = Len(right)
      /\ \A i \in 1 .. Len(left) : left[i] = right[i]
  BY SMTT(30)
<1> HIDE DEF left, right
<1>2. left = right
  BY <1>1, SeqEqual
<1> QED BY <1>2 DEF left, right

\* OidUtil.OidString2DER encodes an arc of up to three digits as X.690 wants
\* if its third digit is even.
THEOREM ArcRight ==
  ASSUME NEW v \in Nat, v < 2097152, (v \div 16384) % 2 = 0
  PROVE  EncodeArc(v) = Base128(v)
<1>1. CASE v < 128
  <2>1. EncodeArc(v) = <<v>>
    BY <1>1, SMTT(30) DEF EncodeArc
  <2> QED BY <1>1, <2>1, SMTT(30) DEF Base128
<1>2. CASE v >= 128 /\ v < 16384
  <2>1. EncodeArc(v) = LowDigits(v)
    BY <1>2, SMTT(30) DEF EncodeArc
  <2>2. (v \div 128) % 128 = v \div 128 /\ v < 262144
    BY <1>2, SMTT(30)
  <2>3. Base128(v) = <<128 + (v \div 128), v % 128>>
    BY <1>2, SMTT(30) DEF Base128
  <2> QED BY <2>1, <2>2, <2>3, LowDigitsRight, SMTT(30)
<1>3. CASE v >= 16384
  <2> DEFINE octet == v % 262144
             w == Byte(16 * (8 + (v \div 262144)) + (octet \div 16384))
             p == 128 + (v \div 16384)
             q == 128 + ((v \div 128) % 128)
             r == v % 128
  <2>1. EncodeArc(v) = <<w>> \o LowDigits(octet)
    BY <1>3, SMTT(30) DEF EncodeArc
  <2>2. w = p
    BY <1>3, SMTT(30) DEF Byte
  <2>3. octet \in Nat /\ octet < 262144 /\ (octet \div 16384) % 2 = 0
    BY <1>3, SMTT(30)
  <2>4. (octet \div 128) % 128 = (v \div 128) % 128 /\ octet % 128 = v % 128
    BY <1>3, SMTT(30)
  <2>5. LowDigits(octet) = <<q, r>>
    BY <2>3, <2>4, LowDigitsRight
  <2>6. Base128(v) = <<p, q, r>>
    BY <1>3, SMTT(30) DEF Base128
  <2>7. p \in Int /\ q \in Int /\ r \in Int
    BY SMTT(30)
  <2> HIDE DEF octet, w, p, q, r
  <2>8. <<p>> \o <<q, r>> = <<p, q, r>>
    BY <2>7, TwoDigitsAfterOne
  <2> QED BY <2>1, <2>2, <2>5, <2>6, <2>8
<1> QED BY <1>1, <1>2, <1>3, SMTT(30)

\* With an odd third digit the encoding is that of another number: the third
\* digit is counted twice.
THEOREM ArcWrong ==
  ASSUME NEW v \in Nat, v < 2097152, (v \div 16384) % 2 = 1
  PROVE  EncodeArc(v) # Base128(v)
<1> DEFINE octet == v % 262144
<1>1. v >= 16384 /\ octet >= 16384
  <2>1. v \div 16384 >= 1
    BY SMTT(30)
  <2>2. (octet \div 16384) % 2 = 1
    BY SMTT(30)
  <2> QED BY <2>1, <2>2, SMTT(30)
<1> DEFINE p == Byte(16 * (8 + (v \div 262144)) + (octet \div 16384))
           q == Byte(16 * 8 + (octet \div 128))
           r == octet % 128
<1>2. LowDigits(octet) = <<q, r>>
  <2>1. octet \notin 2048 .. 16383 /\ octet \in Nat
    BY <1>1, SMTT(30)
  <2> HIDE DEF octet
  <2> QED BY <2>1, SMTT(30) DEF LowDigits
<1>3. EncodeArc(v) = <<p>> \o LowDigits(octet)
  BY <1>1, SMTT(30) DEF EncodeArc
<1>4. Base128(v)[2] = 128 + ((v \div 128) % 128)
  BY <1>1, SMTT(30) DEF Base128
<1>5. q # 128 + ((v \div 128) % 128)
  BY <1>1, SMTT(30) DEF Byte
<1>6. p \in Int /\ q \in Int /\ r \in Int
  BY SMTT(30) DEF Byte
<1> HIDE DEF octet, p, q, r
<1>7. EncodeArc(v) = <<p, q, r>>
  BY <1>2, <1>3, <1>6, TwoDigitsAfterOne
<1>8. <<p, q, r>>[2] = q
  BY <1>6, SMTT(30)
<1> QED BY <1>4, <1>5, <1>7, <1>8

-----------------------------------------------------------------------------
(* Whole identifiers *)

Octets == Seq(0 .. 255)

\* A first byte below 128 and encodable arcs: the string is encoded as DER.
LEMMA StringRight ==
  ASSUME NEW v \in Value, Encodable(v)
  PROVE  OidString2DER(v) = Enclosed(Native(v))
<1> DEFINE first  == 40 * v[1] + v[2]
           arcs   == [i \in 1 .. Len(v) - 2 |-> EncodeArc(v[i + 2])]
           digits == [i \in 1 .. Len(v) - 2 |-> Base128(v[i + 2])]
<1>1. v \in Seq(Nat) /\ Len(v) >= 2 /\ Native(v) \in Octets
  BY Bytes DEF Octets
<1>2. v[1] \in Nat /\ v[2] \in Nat /\ \A i \in 3 .. Len(v) : v[i] \in Nat
  BY <1>1, SMTT(30)
<1>3. Byte(first) = first /\ Base128(first) = <<first>>
  BY <1>2, SMTT(30) DEF Encodable, Byte, Base128
<1>4. ASSUME NEW i \in 1 .. Len(v) - 2
      PROVE  EncodeArc(v[i + 2]) = Base128(v[i + 2])
  <2>1. i + 2 \in 3 .. Len(v)
    BY <1>1, SMTT(30)
  <2>2. v[i + 2] \in Nat /\ v[i + 2] < 2097152 /\ (v[i + 2] \div 16384) % 2 = 0
    BY <1>2, <2>1, SMTT(30) DEF Encodable
  <2> QED BY <2>2, ArcRight, SMTT(30)
<1>5. arcs = digits
  BY <1>4, Zenon
<1>6. Native(v) = FlattenSeq(<<<<Byte(first)>>>> \o arcs)
  BY <1>3, <1>5 DEF Native
<1>7. Byte(Len(Native(v))) = Len(Native(v))
  <2>1. Len(Native(v)) \in Nat /\ Len(Native(v)) < 128
    BY <1>1, Bytes, LenProperties DEF Octets
  <2> QED BY <2>1, SMTT(30) DEF Byte
<1> QED BY <1>6, <1>7, Zenon DEF OidString2DER, Enclosed

\* Bytes are natural numbers.
LEMMA OctetsAreNumbers == Octets \subseteq Seq(Nat)
<1>1. 0 .. 255 \subseteq Nat
  BY SMTT(30)
<1> QED BY <1>1, SeqMonotonic DEF Octets

\* Taking tag and length off, and what that says of two encodings.
LEMMA EnclosedContent ==
  ASSUME NEW c \in Octets
  PROVE  /\ Enclosed(c) \in Seq(Nat)
         /\ SubSeq(Enclosed(c), 3, Len(Enclosed(c))) = c
<1>1. Len(c) \in Nat /\ c \in Seq(Nat)
  BY OctetsAreNumbers, LenProperties
<1>2. /\ Enclosed(c) \in Seq(Nat) /\ Len(Enclosed(c)) = Len(c) + 2
      /\ \A i \in 1 .. Len(c) : Enclosed(c)[i + 2] = c[i]
  BY <1>1, SMTT(30) DEF Enclosed
<1> DEFINE d == SubSeq(Enclosed(c), 3, Len(Enclosed(c)))
<1>3. d \in Seq(Nat) /\ Len(d) = Len(c) /\ \A i \in 1 .. Len(c) : d[i] = Enclosed(c)[i + 2]
  BY <1>1, <1>2, SMTT(30)
<1>4. \A i \in 1 .. Len(c) : d[i] = c[i]
  BY <1>2, <1>3
<1>5. d = c
  BY <1>1, <1>3, <1>4, SeqEqual
<1> QED BY <1>2, <1>5

\* Two contents with the same encoding are one.
LEMMA EnclosedInjective ==
  ASSUME NEW c \in Octets, NEW d \in Octets, Enclosed(c) = Enclosed(d)
  PROVE  c = d
BY EnclosedContent

\* Bytes that pass verifyOid are the encoding of their content.
LEMMA VerifiedEnclosed ==
  ASSUME NEW der \in Octets, Len(der) >= 2, VerifyOid(der)
  PROVE  /\ SubSeq(der, 3, Len(der)) \in Octets
         /\ der = Enclosed(SubSeq(der, 3, Len(der)))
<1> DEFINE c == SubSeq(der, 3, Len(der))
<1>1. /\ der \in Seq(0 .. 255) /\ Len(der) \in Nat
      /\ der[1] = 6 /\ der[2] = Len(der) - 2
  BY SMTT(30) DEF VerifyOid, Octets
<1>2. c \in Seq(0 .. 255) /\ Len(c) = Len(der) - 2
      /\ \A i \in 1 .. Len(der) - 2 : c[i] = der[i + 2]
  <2>1. \A i \in 3 .. Len(der) : der[i] \in 0 .. 255
    <3> SUFFICES ASSUME NEW i \in 3 .. Len(der) PROVE der[i] \in 0 .. 255
      OBVIOUS
    <3>1. i \in 1 .. Len(der)
      BY <1>1, SMTT(30)
    <3> QED BY <1>1, <3>1, ElementOfSeq
  <2>2. /\ c \in Seq(0 .. 255)
        /\ Len(c) = IF 3 <= Len(der) THEN Len(der) - 3 + 1 ELSE 0
        /\ \A i \in 1 .. Len(der) - 3 + 1 : c[i] = der[3 + i - 1]
    BY <1>1, <2>1, SubSeqProperties
  <2> HIDE DEF c
  <2>3. Len(c) = Len(der) - 2
    <3> DEFINE m == Len(der)
    <3>1. m \in Nat /\ m >= 2
      BY <1>1
    <3> HIDE DEF m
    <3>2. m = 2 \/ (3 <= m /\ m - 3 + 1 = m - 2)
      BY <3>1, SMTT(30)
    <3>3. CASE m = 2
      <4>1. ~(3 <= m) /\ m - 2 = 0
        BY <3>3, SMTT(30)
      <4> QED BY <2>2, <4>1 DEF m
    <3> QED BY <2>2, <3>2, <3>3 DEF m
  <2>4. \A i \in 1 .. Len(der) - 2 : 3 + i - 1 = i + 2 /\ i \in 1 .. Len(der) - 3 + 1
    BY <1>1, SMTT(30)
  <2> QED BY <2>2, <2>3, <2>4
<1> DEFINE e == <<6, Len(c)>> \o c
<1> HIDE DEF c
<1>3. /\ e \in Seq(Nat) /\ Len(e) = Len(der) /\ e[1] = 6 /\ e[2] = Len(c)
      /\ \A i \in 3 .. Len(der) : e[i] = c[i - 2]
  <2>1. c \in Seq(Nat) /\ Len(c) \in Nat
    BY <1>2, OctetsAreNumbers, LenProperties DEF Octets
  <2> QED BY <1>1, <1>2, <2>1, SMTT(30)
<1>4. \A i \in 1 .. Len(der) : e[i] = der[i]
  BY <1>1, <1>2, <1>3, SMTT(30)
<1>5. e = der
  <2>1. der \in Seq(Nat)
    BY OctetsAreNumbers
  <2> HIDE DEF e
  <2> QED BY <1>3, <1>4, <2>1, SeqEqual
<1> QED BY <1>2, <1>5 DEF Enclosed, Octets, c

-----------------------------------------------------------------------------
(* The objects *)

\* An object made from a string has no stored encoding; any other has stored
\* that of its native value.
Sound(x) ==
  /\ x.native \in Octets
  /\ \/ x.der = Null /\ \E v \in Value : x.native = Native(v)
     \/ x.der = Enclosed(x.native)

OidInv ==
  /\ stream \in Seq(Nat) /\ coming \in Seq(Nat)
  /\ DOMAIN oid = Obj
  /\ \A o \in Obj : oid[o] # Null => Sound(oid[o])

\* There are no objects at first.
LEMMA InitSound == Init => OidInv
BY SMTT(30) DEF Init, OidInv

\* What is read is made of bytes, also beyond the end of the stream.
LEMMA ReadOctets ==
  ASSUME OidInv, NEW n \in Nat
  PROVE  ReadBytes(n) \in Octets /\ Len(ReadBytes(n)) = n
<1>1. ASSUME NEW i \in 1 .. n PROVE Byte(ReadAt(i)) \in 0 .. 255
  <2>1. ReadAt(i) \in Int
    BY SMTT(30) DEF OidInv, ReadAt
  <2> QED BY <2>1, SMTT(30) DEF Byte
<1> QED BY <1>1, SMTT(30) DEF ReadBytes, Octets

\* Every step leaves the objects sound.
LEMMA StepSound == OidInv /\ [Next]_vars => OidInv'
<1> SUFFICES ASSUME OidInv, [Next]_vars PROVE OidInv'
  OBVIOUS
<1> USE DEF OidInv
<1>0. ASSUME NEW o \in Obj, NEW x, oid' = [oid EXCEPT ![o] = x], Sound(x)
      PROVE  DOMAIN oid' = Obj /\ \A p \in Obj : oid'[p] # Null => Sound(oid'[p])
  BY <1>0
<1>1. CASE Send
  <2>1. PICK item \in Token \cup {Enclosed(Native(v)) : v \in Value} :
          coming' = coming \o item
    BY <1>1 DEF Send
  <2>2. item \in Seq(Nat)
    <3>1. CASE item \in Token
      <4>1. item \in Seq(0 .. 255)
        BY <3>1, Bytes
      <4> QED BY <4>1, OctetsAreNumbers DEF Octets
    <3>2. CASE \E v \in Value : item = Enclosed(Native(v))
      BY <3>2, Bytes, EnclosedContent DEF Octets
    <3> QED BY <2>1, <3>1, <3>2
  <2>3. coming' \in Seq(Nat)
    BY <2>1, <2>2, SMTT(30)
  <2> QED BY <1>1, <2>3 DEF Send
<1>2. CASE Arrive
  <2>1. PICK n \in 1 .. Len(coming) :
          /\ stream' = stream \o SubSeq(coming, 1, n)
          /\ coming' = SubSeq(coming, n + 1, Len(coming))
    BY <1>2 DEF Arrive
  <2>2. stream' \in Seq(Nat) /\ coming' \in Seq(Nat)
    BY <2>1, SMTT(30)
  <2> QED BY <1>2, <2>2 DEF Arrive
<1>3. CASE End \/ NoInputToken
  <2>1. (coming' = coming \/ coming' = <<>>) /\ UNCHANGED <<stream, oid>>
    BY <1>3 DEF End, NoInputToken
  <2>2. coming' \in Seq(Nat)
    BY <2>1, EmptySeq
  <2> QED BY <2>1, <2>2 DEF Sound
<1>4. CASE InputToken
  <2>1. ReadAt(2) \in Int
    BY SMTT(30) DEF ReadAt
  <2>2. GetHeader.size \in Nat
    BY <2>1, SMTT(30) DEF GetHeader
  <2>3. TokenSize \in Nat
    BY <2>2, Bytes, SMTT(30) DEF TokenSize
  <2>4. stream' = SubSeq(stream, TokenSize + 1, Len(stream)) /\ UNCHANGED <<coming, oid>>
    BY <1>4 DEF InputToken, Reads
  <2>5. stream' \in Seq(Nat)
    BY <2>3, <2>4, SMTT(30)
  <2> QED BY <2>4, <2>5
<1>5. CASE RejectToken
  <2>1. stream' = SubSeq(stream, 2, Len(stream)) /\ UNCHANGED <<coming, oid>>
    BY <1>5, HeadTailProperties DEF RejectToken, Rejects
  <2>2. stream' \in Seq(Nat)
    BY <2>1, SMTT(30)
  <2>3. UNCHANGED <<coming, oid>>
    BY <2>1
  <2> QED BY <2>2, <2>3
<1>6. CASE NewFromString
  <2>1. PICK o \in Obj, v \in Value :
          oid' = [oid EXCEPT ![o] = [native |-> Native(v), der |-> Null]]
    BY <1>6 DEF NewFromString
  <2>2. Sound([native |-> Native(v), der |-> Null])
    BY Bytes DEF Sound, Octets
  <2>3. UNCHANGED <<stream, coming>>
    BY <1>6 DEF NewFromString
  <2> QED BY <1>0, <2>1, <2>2, <2>3
<1>7. CASE NewFromDER
  <2>1. PICK o \in Obj, v \in Value : Keep(o, Enclosed(Native(v)))
    BY <1>7 DEF NewFromDER
  <2> DEFINE x == [native |-> Native(v), der |-> Enclosed(Native(v))]
  <2>2. oid' = [oid EXCEPT ![o] = x]
    BY <2>1, EnclosedContent, Bytes DEF Keep, Octets
  <2>3. Sound(x)
    BY Bytes DEF Sound, Octets
  <2>4. UNCHANGED <<stream, coming>>
    BY <1>7 DEF NewFromDER
  <2> QED BY <1>0, <2>2, <2>3, <2>4
<1>8. CASE NewFromStream
  <2> DEFINE der == ReadBytes(OidSize)
  <2>1. ReadAt(2) \in Int
    BY SMTT(30) DEF ReadAt
  <2>2. OidSize \in Nat /\ OidSize >= 2
    BY <2>1, SMTT(30) DEF OidSize
  <2>3. stream' \in Seq(Nat) /\ coming' \in Seq(Nat)
    <3>1. stream' = SubSeq(stream, OidSize + 1, Len(stream)) /\ coming' = coming
      BY <1>8 DEF NewFromStream, Reads
    <3> QED BY <2>2, <3>1, SMTT(30)
  <2>4. CASE VerifyOid(der)
    <3>1. PICK o \in Obj : Keep(o, der)
      BY <1>8, <2>4 DEF NewFromStream
    <3>2. der \in Octets /\ Len(der) >= 2
      BY <2>2, ReadOctets
    <3> DEFINE x == [native |-> SubSeq(der, 3, Len(der)), der |-> der]
    <3>3. Sound(x)
      BY <2>4, <3>2, VerifiedEnclosed DEF Sound
    <3> QED BY <1>0, <2>3, <3>1, <3>3 DEF Keep
  <2>5. CASE ~VerifyOid(der)
    BY <1>8, <2>3, <2>5 DEF NewFromStream
  <2> QED BY <2>4, <2>5
<1>9. CASE SetNativeOid
  <2>1. PICK o \in Obj, p \in Obj :
          /\ oid[o] # Null /\ oid[p] # Null
          /\ \E v \in Value : oid[p].native = Native(v)
          /\ oid' = [oid EXCEPT ![o] = [native |-> oid[p].native, der |-> Null]]
    BY <1>9 DEF SetNativeOid
  <2>2. Sound([native |-> oid[p].native, der |-> Null])
    BY <2>1 DEF Sound
  <2>3. UNCHANGED <<stream, coming>>
    BY <1>9 DEF SetNativeOid
  <2> QED BY <1>0, <2>1, <2>2, <2>3
<1>10. CASE UNCHANGED vars
  BY <1>10 DEF vars, Sound
<1> QED BY <1>1, <1>2, <1>3, <1>4, <1>5, <1>6, <1>7, <1>8, <1>9, <1>10 DEF Next

-----------------------------------------------------------------------------
(* What getDER and equals answer *)

\* Of a sound object getDER answers the DER of its native value.
LEMMA SoundEncoding ==
  ASSUME OidInv, \A v \in Value : Encodable(v), NEW o \in Obj, oid[o] # Null
  PROVE  GetDER(o) = Enclosed(oid[o].native)
<1>1. Sound(oid[o])
  BY DEF OidInv
<1>2. CASE oid[o].der = Null /\ \E v \in Value : oid[o].native = Native(v)
  <2>1. DotString(oid[o].native) \in Value /\ Native(DotString(oid[o].native)) = oid[o].native
    BY <1>2 DEF DotString
  <2> QED BY <1>2, <2>1, StringRight DEF GetDER
<1>3. CASE oid[o].der = Enclosed(oid[o].native) /\ oid[o].der # Null
  BY <1>3 DEF GetDER
<1>4. oid[o].der = Enclosed(oid[o].native) => oid[o].der # Null
  BY <1>1, EnclosedContent, Bytes DEF Sound
<1> QED BY <1>1, <1>2, <1>3, <1>4 DEF Sound

\* Whatever the objects are made from, and in whatever order they are given
\* other values, getDER answers the DER of the native value, if the strings in
\* use are of the kind OidString2DER can encode.
THEOREM EncodingsSound ==
  (\A v \in Value : Encodable(v)) => (Spec => []EncodedRight)
<1> SUFFICES ASSUME \A v \in Value : Encodable(v) PROVE Spec => []EncodedRight
  OBVIOUS
<1>1. OidInv => EncodedRight
  BY SoundEncoding DEF EncodedRight
<1> QED BY InitSound, StepSound, <1>1, PTL DEF Spec

\* With such strings equals() compares what the objects stand for.
THEOREM EqualitySound ==
  (\A v \in Value : Encodable(v)) => (Spec => []EqualMeansSame)
<1> SUFFICES ASSUME \A v \in Value : Encodable(v) PROVE Spec => []EqualMeansSame
  OBVIOUS
<1>1. OidInv => EqualMeansSame
  <2> SUFFICES ASSUME OidInv, NEW o \in Obj, NEW p \in Obj, oid[o] # Null, oid[p] # Null
               PROVE  Equals(o, p) <=> oid[o].native = oid[p].native
    BY DEF EqualMeansSame
  <2>1. oid[o].native \in Octets /\ oid[p].native \in Octets
    BY DEF OidInv, Sound
  <2> QED BY <2>1, SoundEncoding, EnclosedInjective DEF Equals
<1> QED BY InitSound, StepSound, <1>1, PTL DEF Spec

-----------------------------------------------------------------------------
(* The stream *)

\* What a peer sends.
Items == Token \cup {Enclosed(Native(v)) : v \in Value}

\* What is left of a rejected token without another 0x60.
Rests == {r \in Octets : Len(r) >= 1 /\ \A i \in 1 .. Len(r) : r[i] # 96}

Parts == Items \cup Rests

\* What a read returned.
Whole == lastRead.madeUp \/ lastRead.got = lastRead.item

\* The stream and what is still to come, or was when it ended, are the items
\* sent and not read; only the first may be what is left of one.
InLine ==
  /\ items \in Seq(Parts)
  /\ \/ place = "item" /\ items \in Seq(Items)
     \/ /\ place = "within" /\ items # <<>>
        /\ Head(items) \in Rests /\ Tail(items) \in Seq(Items)
  /\ ended => coming = <<>>
  /\ \E after \in Seq(Nat) :
        Joins(stream, after, FlattenSeq(items)) /\ (ended \/ after = coming)
  /\ Whole

StreamInv == clear => InLine

\* A byte is kept as it is.
LEMMA ByteKept == \A b \in 0 .. 255 : Byte(b) = b
BY SMTT(30) DEF Byte

\* A length in one byte.
LEMMA Below128 == \A n \in Nat : n < 128 => n \in 0 .. 127
OBVIOUS

\* An identifier's encoding is made of bytes; the second is its length.
LEMMA EnclosedBytes ==
  ASSUME NEW v \in Value
  PROVE  /\ Enclosed(Native(v)) \in Octets /\ Len(Enclosed(Native(v))) >= 2
         /\ Enclosed(Native(v))[2] \in 0 .. 127
         /\ Len(Enclosed(Native(v))) = 2 + Enclosed(Native(v))[2]
<1>1. PICK c \in Octets : c = Native(v) /\ Len(c) < 128
  BY Bytes DEF Octets
<1>2. Len(c) \in 0 .. 127
  <2>1. Len(c) \in Nat
    BY LenProperties DEF Octets
  <2> QED
    BY <1>1, <2>1, Below128, Zenon
<1>3. <<6, Len(c)>> \in Octets /\ Len(<<6, Len(c)>>) = 2
      /\ <<6, Len(c)>>[2] = Len(c)
  BY <1>2 DEF Octets
<1>4. PICK h \in Octets : h = <<6, Len(c)>> /\ Len(h) = 2 /\ h[2] = Len(c)
  BY <1>3
<1>5. Enclosed(c) = h \o c
  BY <1>4, Zenon DEF Enclosed
<1>6. /\ h \o c \in Octets /\ Len(h \o c) = Len(h) + Len(c)
      /\ \A i \in 1 .. Len(h) : (h \o c)[i] = h[i]
  BY Behind DEF Octets
<1>7. 2 \in 1 .. Len(h)
  BY <1>4
<1>8. (h \o c)[2] = Len(c)
  BY <1>4, <1>6, <1>7, Zenon
<1>9. Enclosed(c) \in Octets /\ Len(Enclosed(c)) = 2 + Len(c) /\ Enclosed(c)[2] = Len(c)
  BY <1>4, <1>5, <1>6, <1>8
<1>10. 2 + Len(c) >= 2
  BY <1>2
<1> QED
  BY <1>1, <1>2, <1>9, <1>10

\* Neither an item nor what is left of one is empty.
LEMMA PartBytes == \A t \in Parts : t \in Octets /\ t \in Seq(Nat) /\ Len(t) >= 1
<1> SUFFICES ASSUME NEW t \in Parts PROVE t \in Octets /\ Len(t) >= 1
  BY OctetsAreNumbers
<1>1. CASE t \in Token
  <2>1. t \in Octets /\ t # <<>>
    BY <1>1, Bytes, Headers DEF Octets
  <2>2. Len(t) \in Nat /\ Len(t) # 0
    BY <2>1, EmptySeq, LenProperties DEF Octets
  <2> QED
    BY <2>1, <2>2
<1>2. CASE \E v \in Value : t = Enclosed(Native(v))
  BY <1>2, EnclosedBytes
<1>3. CASE t \in Rests
  BY <1>3 DEF Rests
<1> QED
  BY <1>1, <1>2, <1>3 DEF Parts, Items

\* Whole items among them.
LEMMA ItemsAreParts == Items \subseteq Parts /\ Seq(Items) \subseteq Seq(Parts)
<1>1. Items \subseteq Parts
  BY DEF Parts
<1> QED
  BY <1>1, SeqMonotonic

\* They are sequences of numbers.
LEMMA PartsAreSequences == Seq(Parts) \subseteq Seq(Seq(Nat))
<1>1. Parts \subseteq Seq(Nat)
  BY PartBytes
<1> QED
  BY <1>1, SeqMonotonic

\* The oldest item is at the front of the stream, as far as the stream goes.
LEMMA OldestInFront ==
  ASSUME OidInv, InLine, items # <<>>
  PROVE  /\ Head(items) \in Parts /\ Tail(items) \in Seq(Items)
         /\ FlattenSeq(Tail(items)) \in Seq(Nat)
         /\ Joins(Head(items), FlattenSeq(Tail(items)), FlattenSeq(items))
         /\ \A i \in 1 .. Len(stream) : i <= Len(Head(items)) => stream[i] = Head(items)[i]
<1>1. Head(items) \in Parts /\ Tail(items) \in Seq(Items)
  BY HeadTailProperties DEF InLine
<1>2. FlattenSeq(Tail(items)) \in Seq(Nat)
  BY <1>1, ItemsAreParts, PartsAreSequences, FlattenTyped
<1>3. Joins(Head(items), FlattenSeq(Tail(items)), FlattenSeq(items))
  <2>1. items \in Seq(Seq(Nat))
    BY PartsAreSequences DEF InLine
  <2> QED
    BY <2>1, FlattenFront DEF Joins
<1>4. PICK t, rest, w :
        /\ t \in Seq(Nat) /\ rest \in Seq(Nat)
        /\ w = FlattenSeq(items) /\ t = Head(items) /\ Joins(t, rest, w)
  <2>1. Head(items) \in Seq(Nat)
    BY <1>1, PartBytes
  <2> QED
    BY <1>2, <1>3, <2>1, Zenon
<1>5. PICK s \in Seq(Nat), after \in Seq(Nat) : s = stream /\ Joins(s, after, w)
  <2>1. stream \in Seq(Nat)
    BY DEF OidInv
  <2> QED
    BY <1>4, <2>1, Zenon DEF InLine
<1>6. \A i \in 1 .. Len(t) : w[i] = t[i]
  <2>1. t \in Seq(Nat) /\ rest \in Seq(Nat) /\ Joins(t, rest, w)
    BY <1>4
  <2> QED
    BY ONLY <2>1, Joined
<1>7. \A i \in 1 .. Len(stream) : w[i] = stream[i]
  <2>1. \A i \in 1 .. Len(s) : w[i] = s[i]
    <3>1. Joins(s, after, w)
      BY <1>5
    <3> QED
      BY ONLY <3>1, Joined
  <2> QED
    BY <1>5, <2>1, Zenon
<1>8. \A i \in 1 .. Len(stream) : i <= Len(t) => i \in 1 .. Len(t)
  BY <1>4, LenProperties
<1>9. \A i \in 1 .. Len(stream) : i <= Len(t) => stream[i] = t[i]
  BY <1>6, <1>7, <1>8
<1> QED
  BY <1>1, <1>2, <1>3, <1>4, <1>9, Zenon

\* What is left of a stream that holds the oldest item when it is taken off.
LEMMA WithoutOldest ==
  ASSUME OidInv, InLine, items # <<>>, Len(Head(items)) <= Len(stream)
  PROVE  \E after \in Seq(Nat) :
           /\ Joins(SubSeq(stream, Len(Head(items)) + 1, Len(stream)), after,
                    FlattenSeq(Tail(items)))
           /\ ended \/ after = coming
<1>1. PICK t, rest, w :
         /\ t \in Seq(Nat) /\ rest \in Seq(Nat)
         /\ t = Head(items) /\ rest = FlattenSeq(Tail(items)) /\ w = FlattenSeq(items)
         /\ Joins(t, rest, w)
  BY OldestInFront, PartBytes
<1>2. PICK after \in Seq(Nat) : Joins(stream, after, w) /\ (ended \/ after = coming)
  BY <1>1, Zenon DEF InLine
<1>3. stream \in Seq(Nat) /\ Len(t) <= Len(stream)
  BY <1>1 DEF OidInv
<1>4. t \in Seq(Nat) /\ rest \in Seq(Nat) /\ Joins(t, rest, w) /\ Joins(stream, after, w)
  BY <1>1, <1>2
<1>5. PICK z \in Seq(Nat) : Joins(t, z, stream) /\ Joins(z, after, rest)
  BY <1>3, <1>4, CommonBeginning
<1>6. SubSeq(stream, Len(t) + 1, Len(stream)) = z
  BY <1>4, <1>5, Joined
<1> QED
  BY <1>1, <1>2, <1>5, <1>6, Zenon

\* A read that takes the oldest item, or all of a stream that has ended.
LEMMA ReadsOldest ==
  ASSUME OidInv, InLine, place = "item", items # <<>>, NEW n \in Nat,
         n <= Len(stream) => n = Len(Head(items)),
         Reads(n), UNCHANGED <<coming, ended>>
  PROVE  InLine'
<1>1. PICK t \in Parts : t = Head(items)
  BY OldestInFront
<1>2. /\ items' = Tail(items) /\ items' \in Seq(Items) /\ items' \in Seq(Parts)
      /\ place' = "item"
      /\ stream' = SubSeq(stream, n + 1, Len(stream))
      /\ lastRead' = [got |-> ReadBytes(n), item |-> t, madeUp |-> n > Len(stream)]
      /\ n <= Len(stream) \/ ended
  BY <1>1, OldestInFront, ItemsAreParts, Zenon DEF Reads, Oldest
<1>3. stream \in Seq(Nat) /\ Len(stream) \in Nat
  BY LenProperties DEF OidInv
<1>4. CASE n <= Len(stream)
  <2>1. n = Len(t) /\ Len(t) <= Len(stream)
    BY <1>1, <1>4
  <2>2. PICK after \in Seq(Nat) :
          /\ Joins(stream', after, FlattenSeq(items'))
          /\ ended \/ after = coming
    BY <1>1, <1>2, <2>1, WithoutOldest, Zenon
  <2>3. ReadBytes(n) = t
    <3>1. t \in Octets
      BY PartBytes
    <3>2. \A i \in 1 .. n : i <= Len(stream) /\ i <= Len(t)
      BY <1>3, <2>1
    <3>3. ASSUME NEW i \in 1 .. n PROVE Byte(ReadAt(i)) = t[i]
      <4>1. i \in 1 .. Len(stream) /\ i \in 1 .. Len(t)
        BY <1>3, <2>1
      <4>2. stream[i] = t[i]
        BY <1>1, <3>2, <4>1, OldestInFront
      <4>3. t[i] \in 0 .. 255
        BY <3>1, <4>1, ElementOfSeq DEF Octets
      <4>4. ReadAt(i) = t[i]
        BY <3>2, <4>2, Zenon DEF ReadAt
      <4> QED
        BY <4>3, <4>4, ByteKept, Zenon
    <3>4. ReadBytes(n) \in Octets /\ Len(ReadBytes(n)) = n
      BY ReadOctets
    <3>5. \A i \in 1 .. n : ReadBytes(n)[i] = t[i]
      BY <3>3, Zenon DEF ReadBytes
    <3> QED
      BY <2>1, <3>1, <3>4, <3>5, SeqEqual DEF Octets
  <2>4. Whole'
    BY <1>2, <2>3, Zenon DEF Whole
  <2> QED
    BY <1>2, <2>2, <2>4, Zenon DEF InLine
<1>5. CASE n > Len(stream)
  <2>1. ended /\ coming = <<>>
    BY <1>2, <1>3, <1>5 DEF InLine
  <2>2. stream' = <<>>
    BY <1>2, <1>3, <1>5
  <2>3. FlattenSeq(items') \in Seq(Nat)
    BY <1>2, OldestInFront
  <2>4. Joins(stream', FlattenSeq(items'), FlattenSeq(items'))
    BY <2>2, <2>3, ConcatEmptySeq DEF Joins
  <2>5. Whole'
    BY <1>2, <1>5, Zenon DEF Whole
  <2> QED
    BY <1>2, <2>1, <2>3, <2>4, <2>5, Zenon DEF InLine
<1> QED
  BY <1>3, <1>4, <1>5

\* A token that starts with the tag is read as long as its header says: if as
\* much is there, that is the whole of it.
LEMMA TokenFits ==
  ASSUME OidInv, InLine, stream # <<>>, Head(stream) = 96, TokenDue
  PROVE  /\ place = "item" /\ items # <<>> /\ TokenSize \in Nat
         /\ TokenSize <= Len(stream) => TokenSize = Len(Head(items))
<1>0. stream[1] = 96 /\ 1 \in 1 .. Len(stream)
  <2>1. stream \in Seq(Nat) /\ Len(stream) \in Nat /\ Len(stream) # 0
    BY EmptySeq, LenProperties DEF OidInv
  <2>2. stream[1] = Head(stream)
    BY <2>1, HeadTailProperties
  <2> QED
    BY <2>1, <2>2
<1>1. place = "item" /\ items # <<>> /\ Oldest \in Token
  <2>1. CASE place = "within"
    <3>1. PICK r \in Rests : r = Head(items)
      BY <2>1 DEF InLine
    <3>2. 1 \in 1 .. Len(r) /\ 1 <= Len(r)
      <4>1. Len(r) \in Nat /\ Len(r) >= 1
        BY <3>1, LenProperties DEF Rests, Octets
      <4> QED
        BY <4>1
    <3>3. r[1] # 96
      BY <3>2 DEF Rests
    <3>4. stream[1] = r[1]
      BY <1>0, <2>1, <3>1, <3>2, OldestInFront DEF InLine
    <3> QED
      BY <1>0, <3>3, <3>4
  <2>2. CASE place = "item"
    <3>1. Oldest \in Token
      BY <2>2 DEF TokenDue
    <3>2. <<>> \notin Token
      BY Headers
    <3> QED
      BY <2>2, <3>1, <3>2 DEF Oldest
  <2> QED
    BY <2>1, <2>2 DEF InLine
<1>2. PICK t \in Parts : t = Head(items) /\ t \in Token
  BY <1>1, OldestInFront DEF Oldest
<1>3. /\ t \in Octets /\ t \in Seq(Nat) /\ Len(t) >= 1 /\ Len(t) \in Nat
      /\ stream \in Seq(Nat) /\ Len(stream) \in Nat /\ Len(stream) >= 1
      /\ stream[1] = 96
  <2>1. t \in Octets /\ t \in Seq(Nat) /\ Len(t) >= 1
    BY PartBytes
  <2>2. stream \in Seq(Nat) /\ Len(stream) # 0
    BY EmptySeq DEF OidInv
  <2>3. stream[1] = 96
    BY <2>2, HeadTailProperties
  <2> QED
    BY <2>1, <2>2, <2>3, LenProperties
<1>4. \A i \in 1 .. Len(stream) : i <= Len(t) => stream[i] = t[i]
  BY <1>1, <1>2, OldestInFront
<1>5. Len(t) >= 2 /\ ExactLength(t)
  <2>1. t[1] = 96 /\ t # <<>>
    BY <1>3, <1>4
  <2> QED
    BY <1>2, <2>1, Headers, Zenon
<1> DEFINE body(n) == IF n \in 1 .. (IntRange \div 2) - 1 THEN n ELSE 0
<1>6. \A n : body(n) \in Nat
  OBVIOUS
<1>7. TokenSize \in Nat /\ TokenSize >= 2
  <2>1. ReadAt(2) \in Int
    BY <1>3 DEF ReadAt
  <2>2. GetHeader.size \in Nat /\ GetHeader.size >= 2
    BY <2>1 DEF GetHeader
  <2>3. TokenSize = GetHeader.size + body(GetHeader.length)
    BY DEF TokenSize
  <2> HIDE DEF body
  <2> QED
    BY <1>6, <2>2, <2>3
<1>8. ASSUME TokenSize <= Len(stream) PROVE TokenSize = Len(t)
  <2>1. 2 <= Len(stream) /\ 2 \in 1 .. Len(stream)
    BY <1>3, <1>7, <1>8
  <2>2. ReadAt(2) = t[2] /\ t[2] \in Nat
    BY <1>3, <1>4, <1>5, <2>1 DEF ReadAt
  <2>3. CASE t[2] < 128
    <3>1. GetHeader = [size |-> 2, length |-> t[2]]
      BY <2>2, <2>3, Zenon DEF GetHeader
    <3>2. TokenSize = 2 + body(t[2])
      BY <3>1 DEF TokenSize
    <3>3. Len(t) = 2 + body(t[2])
      BY <1>5, <2>3, Zenon DEF ExactLength
    <3> QED
      BY <3>2, <3>3, Zenon
  <2>4. CASE ~ (t[2] < 128)
    <3> DEFINE bytes == t[2] - 128
               read == [i \in 1 .. bytes |-> ReadAt(2 + i)]
               sent == [i \in 1 .. bytes |-> t[2 + i]]
    <3>1. bytes \in Nat
      BY <2>2, <2>4
    <3>2. GetHeader = [size |-> 2 + bytes, length |-> BigEndian(read)]
      BY <2>2, <2>4, Zenon DEF GetHeader
    <3>3. 2 + bytes <= Len(t) /\ Len(t) = 2 + bytes + body(BigEndian(sent))
      BY <1>5, <2>4, Zenon DEF ExactLength
    <3> HIDE DEF bytes
    <3>4. TokenSize = 2 + bytes + body(BigEndian(read))
      BY <3>2 DEF TokenSize
    <3>5. 2 + bytes <= Len(stream)
      <4>1. PICK b \in Nat : b = body(BigEndian(read))
        BY <1>6
      <4>2. TokenSize = 2 + bytes + b
        BY <3>4, <4>1, Zenon
      <4> QED
        BY ONLY <1>3, <1>8, <3>1, <4>2
    <3>6. read = sent
      <4>1. ASSUME NEW i \in 1 .. bytes PROVE ReadAt(2 + i) = t[2 + i]
        <5>0. 2 + bytes <= Len(t)
          BY <3>3
        <5>1. /\ 2 + i \in 1 .. Len(stream) /\ 2 + i <= Len(t) /\ 2 + i <= Len(stream)
          BY ONLY <1>3, <3>1, <3>5, <5>0
        <5> QED
          BY <1>4, <5>1, Zenon DEF ReadAt
      <4> QED
        BY <4>1, Zenon
    <3> QED
      BY <3>3, <3>4, <3>6, Zenon
  <2> QED
    BY <2>3, <2>4
<1> QED
  BY <1>1, <1>2, <1>7, <1>8, Zenon

\* The same of an identifier, whose length is one byte.
LEMMA OidFits ==
  ASSUME OidInv, InLine, place = "item", items # <<>>, Oldest \notin Token
  PROVE  /\ OidSize \in Nat
         /\ OidSize <= Len(stream) => OidSize = Len(Head(items))
<1>1. PICK v \in Value : Head(items) = Enclosed(Native(v))
  <2>1. Head(items) \in Items
    BY HeadTailProperties DEF InLine
  <2> QED
    BY <2>1, Zenon DEF Oldest, Items
<1>2. PICK t \in Octets : t = Head(items) /\ Len(t) >= 2 /\ t[2] \in 0 .. 127 /\ Len(t) = 2 + t[2]
  BY <1>1, EnclosedBytes
<1>3. stream \in Seq(Nat) /\ Len(stream) \in Nat
  BY LenProperties DEF OidInv
<1>4. ReadAt(2) \in Int
  BY <1>3 DEF ReadAt
<1>5. OidSize \in Nat /\ OidSize >= 2
  BY <1>4 DEF OidSize
<1>6. ASSUME OidSize <= Len(stream) PROVE OidSize = Len(t)
  <2>1. 2 <= Len(stream) /\ 2 \in 1 .. Len(stream) /\ 2 <= Len(t)
    BY <1>2, <1>3, <1>5, <1>6
  <2>2. stream[2] = t[2]
    BY <1>2, <2>1, OldestInFront
  <2>3. ReadAt(2) = t[2]
    BY <2>1, <2>2, Zenon DEF ReadAt
  <2>4. t[2] \in Nat
    <3>1. 0 .. 127 \subseteq Nat
      OBVIOUS
    <3> QED
      BY <1>2, <3>1, Zenon
  <2>5. OidSize = 2 + t[2]
    BY <2>3, <2>4 DEF OidSize
  <2> QED
    BY <1>2, <2>5, Zenon
<1> QED
  BY <1>2, <1>5, <1>6, Zenon

\* At first nothing is sent and nothing there.
LEMMA InitStream == Init => StreamInv
<1> SUFFICES ASSUME Init PROVE InLine
  BY DEF StreamInv
<1>1. items = <<>> /\ place = "item" /\ stream = <<>> /\ coming = <<>> /\ ended = FALSE /\ lastRead = Nothing
  BY DEF Init
<1>2. items \in Seq(Items) /\ items \in Seq(Parts) /\ <<>> \in Seq(Nat)
  BY <1>1, EmptySeq
<1>3. Joins(stream, coming, FlattenSeq(items))
  BY <1>1, <1>2, FlattenEmpty, ConcatEmptySeq DEF Joins
<1>4. Whole
  BY <1>1 DEF Whole, Nothing
<1> QED
  BY <1>1, <1>2, <1>3, <1>4, Zenon DEF InLine

\* Another item is sent.
LEMMA SendStep ==
  ASSUME OidInv, InLine, Send
  PROVE  InLine'
<1>0. place # "lost"
  BY DEF InLine
<1>1. PICK t \in Items : coming' = coming \o t /\ items' = Append(items, t)
  BY <1>0, Zenon DEF Send, Items
<1>2. ~ended /\ UNCHANGED <<stream, ended, place, lastRead>>
  BY DEF Send
<1>3. t \in Seq(Nat) /\ coming \in Seq(Nat) /\ stream \in Seq(Nat)
      /\ items \in Seq(Parts) /\ items \in Seq(Seq(Nat)) /\ t \in Parts
  BY ItemsAreParts, PartBytes, PartsAreSequences DEF OidInv, InLine
<1>4. PICK w \in Seq(Nat) : w = FlattenSeq(items) /\ Joins(stream, coming, w)
  <2>1. FlattenSeq(items) \in Seq(Nat)
    BY <1>3, FlattenTyped
  <2> QED
    BY <1>2, <2>1, Zenon DEF InLine
<1>5. Joins(w, t, FlattenSeq(items'))
  BY <1>1, <1>3, <1>4, FlattenAppend DEF Joins
<1>6. Joins(coming, t, coming')
  BY <1>1 DEF Joins
<1>7. Joins(stream, coming', FlattenSeq(items'))
  BY <1>3, <1>4, <1>5, <1>6, Associative
<1>8. items' \in Seq(Parts) /\ coming' \in Seq(Nat)
  BY <1>1, <1>3, AppendProperties, ConcatProperties
<1>9. Whole'
  BY <1>2 DEF InLine, Whole
<1>10. CASE place = "item"
  <2>1. place' = "item" /\ items' \in Seq(Items)
    BY <1>1, <1>2, <1>10, AppendProperties DEF InLine
  <2> QED
    BY <1>2, <1>7, <1>8, <1>9, <2>1, Zenon DEF InLine
<1>11. CASE place = "within"
  <2>1. items # <<>> /\ Head(items) \in Rests /\ Tail(items) \in Seq(Items)
    BY <1>11 DEF InLine
  <2>2. /\ items' # <<>> /\ Head(items') = Head(items)
        /\ Tail(items') = Append(Tail(items), t)
    <3>1. PICK q \in Seq(Parts), u \in Parts : q = items /\ u = t /\ q # <<>>
      BY <1>3, <2>1
    <3>2. /\ Append(q, u) # <<>> /\ Head(Append(q, u)) = Head(q)
          /\ Tail(Append(q, u)) \in Seq(Parts) /\ Append(Tail(q), u) \in Seq(Parts)
          /\ Len(Tail(Append(q, u))) = Len(Append(Tail(q), u))
          /\ \A i \in 1 .. Len(Append(Tail(q), u)) :
                Tail(Append(q, u))[i] = Append(Tail(q), u)[i]
      BY <3>1
    <3>3. Tail(Append(q, u)) = Append(Tail(q), u)
      BY <3>2, SeqEqual
    <3> QED
      BY <1>1, <3>1, <3>2, <3>3
  <2>3. Tail(items') \in Seq(Items)
    <3>1. Append(Tail(items), t) \in Seq(Items)
      BY <2>1, AppendProperties
    <3> QED
      BY <2>2, <3>1
  <2>4. place' = "within"
    BY <1>2, <1>11
  <2> QED
    BY <1>2, <1>7, <1>8, <1>9, <2>1, <2>2, <2>3, <2>4, Zenon DEF InLine
<1> QED
  BY <1>0, <1>10, <1>11 DEF InLine

\* Some of what was coming has arrived.
LEMMA ArriveStep ==
  ASSUME OidInv, InLine, Arrive
  PROVE  InLine'
<1>1. PICK n \in 1 .. Len(coming) :
        /\ stream' = stream \o SubSeq(coming, 1, n)
        /\ coming' = SubSeq(coming, n + 1, Len(coming))
  BY DEF Arrive
<1>2. UNCHANGED <<ended, items, place, lastRead>>
  BY DEF Arrive, history
<1>3. coming \in Seq(Nat) /\ Len(coming) \in Nat /\ stream \in Seq(Nat)
  BY LenProperties DEF OidInv
<1>4. ~ended
  <2>1. coming # <<>>
    BY <1>1, <1>3
  <2> QED
    BY <2>1 DEF InLine
<1>5. PICK w : w = FlattenSeq(items) /\ Joins(stream, coming, w)
  BY <1>4, Zenon DEF InLine
<1>6. PICK c \in Seq(Nat), d \in Seq(Nat) :
        c = SubSeq(coming, 1, n) /\ d = SubSeq(coming, n + 1, Len(coming)) /\ Joins(c, d, coming)
  <2>1. SubSeq(coming, 1, n) \in Seq(Nat) /\ SubSeq(coming, n + 1, Len(coming)) \in Seq(Nat)
    BY <1>3
  <2>2. Len(coming) \in Nat /\ 1 \in 1 .. Len(coming) + 1 /\ n \in 1 - 1 .. Len(coming)
        /\ Len(coming) \in n .. Len(coming)
    BY <1>3
  <2>3. SubSeq(coming, 1, n) \o SubSeq(coming, n + 1, Len(coming)) = SubSeq(coming, 1, Len(coming))
    BY <1>3, <2>2, ConcatAdjacentSubSeq
  <2>4. SubSeq(coming, 1, Len(coming)) = coming
    BY <1>3, SubSeqFull
  <2>5. Joins(SubSeq(coming, 1, n), SubSeq(coming, n + 1, Len(coming)), coming)
    BY <2>3, <2>4, Zenon DEF Joins
  <2> QED
    BY <2>1, <2>5, Zenon
<1>7. Joins(stream, c, stream')
  BY <1>1, <1>6, Zenon DEF Joins
<1>8. Joins(stream', d, w)
  <2>1. Joins(c, d, coming) /\ Joins(stream, coming, w)
    BY <1>5, <1>6, Zenon
  <2> QED
    BY <1>3, <1>7, <2>1, Associative
<1>9. Whole'
  BY <1>2 DEF InLine, Whole
<1>10. /\ items' \in Seq(Parts)
       /\ \/ place' = "item" /\ items' \in Seq(Items)
          \/ /\ place' = "within" /\ items' # <<>>
             /\ Head(items') \in Rests /\ Tail(items') \in Seq(Items)
       /\ ~ended' /\ coming' = d /\ FlattenSeq(items') = w
  BY <1>1, <1>2, <1>4, <1>5, <1>6 DEF InLine
<1> QED
  BY <1>8, <1>9, <1>10, Zenon DEF InLine

\* Without its first byte the oldest item is still in front.
LEMMA WithoutByte ==
  ASSUME OidInv, InLine, items # <<>>, Len(Head(items)) > 1, stream # <<>>
  PROVE  \E after \in Seq(Nat) :
           /\ Joins(SubSeq(stream, 2, Len(stream)), after,
                    FlattenSeq(<<Tail(Head(items))>> \o Tail(items)))
           /\ ended \/ after = coming
<1>1. PICK t, rest, w :
         /\ t \in Seq(Nat) /\ rest \in Seq(Nat) /\ Len(t) > 1
         /\ t = Head(items) /\ rest = FlattenSeq(Tail(items)) /\ w = FlattenSeq(items)
         /\ Joins(t, rest, w)
  BY OldestInFront, PartBytes
<1>2. PICK after \in Seq(Nat) : Joins(stream, after, w) /\ (ended \/ after = coming)
  BY <1>1, Zenon DEF InLine
<1>3. PICK a \in Seq(Nat), r \in Seq(Nat) :
        r = Tail(t) /\ Len(a) = 1 /\ Joins(a, r, t)
  <2>1. <<t[1]>> \in Seq(Nat) /\ Tail(t) \in Seq(Nat) /\ Len(<<t[1]>>) = 1
    BY <1>1
  <2>2. <<t[1]>> \o Tail(t) = t
    <3> DEFINE u == <<t[1]>> \o Tail(t)
    <3>1. u \in Seq(Nat) /\ Len(u) = Len(t) /\ \A i \in 1 .. Len(t) : u[i] = t[i]
      BY <1>1
    <3> HIDE DEF u
    <3>2. u = t
      BY <1>1, <3>1, SeqEqual
    <3> QED
      BY <3>2 DEF u
  <2> QED
    BY <2>1, <2>2 DEF Joins
<1>4. PICK x \in Seq(Nat) : x = r \o rest /\ Joins(r, rest, x)
  <2>1. r \o rest \in Seq(Nat)
    BY <1>1, <1>3, ConcatProperties
  <2> QED
    BY <2>1 DEF Joins
<1>5. Joins(a, x, w)
  <2>1. /\ a \in Seq(Nat) /\ r \in Seq(Nat) /\ rest \in Seq(Nat)
        /\ Joins(a, r, t) /\ Joins(r, rest, x) /\ Joins(t, rest, w)
    BY <1>1, <1>3, <1>4
  <2> QED
    BY ONLY <2>1, Associative
<1>6. stream \in Seq(Nat) /\ Len(a) <= Len(stream)
  <2>1. stream \in Seq(Nat) /\ Len(stream) \in Nat /\ Len(stream) # 0
    BY EmptySeq, LenProperties DEF OidInv
  <2> QED
    BY <1>3, <2>1
<1>7. PICK z \in Seq(Nat) : Joins(a, z, stream) /\ Joins(z, after, x)
  BY <1>2, <1>3, <1>4, <1>5, <1>6, CommonBeginning
<1>8. SubSeq(stream, Len(a) + 1, Len(stream)) = z
  <2>1. a \in Seq(Nat) /\ z \in Seq(Nat) /\ Joins(a, z, stream)
    BY <1>3, <1>7
  <2> QED
    BY ONLY <2>1, Joined
<1>9. FlattenSeq(<<r>> \o Tail(items)) = x
  <2>1. <<r>> \in Seq(Seq(Nat)) /\ Tail(items) \in Seq(Seq(Nat))
    BY <1>3, OldestInFront, ItemsAreParts, PartsAreSequences
  <2>2. FlattenSeq(<<r>> \o Tail(items)) = FlattenSeq(<<r>>) \o FlattenSeq(Tail(items))
    BY <2>1, FlattenConcat
  <2>3. FlattenSeq(<<r>>) = r
    BY <1>3, FlattenOne
  <2> QED
    BY <1>1, <1>4, <2>2, <2>3
<1>10. SubSeq(stream, 2, Len(stream)) = z
  <2>1. Len(a) + 1 = 2
    BY <1>3
  <2> QED
    BY <1>8, <2>1
<1> QED
  BY <1>1, <1>2, <1>3, <1>7, <1>9, <1>10, Zenon

\* A token that is refused loses a byte; the rest of it is next.
LEMMA RejectStep ==
  ASSUME OidInv, InLine, RejectToken, clear'
  PROVE  InLine'
<1>1. /\ stream # <<>> /\ TokenDue /\ stream' = SubSeq(stream, 2, Len(stream))
      /\ lastRead' = Nothing /\ UNCHANGED <<coming, ended>>
      /\ place = "item" => \A i \in 2 .. Len(Oldest) : Oldest[i] # 96
  <2>1. 1 + 1 = 2
    OBVIOUS
  <2> QED
    BY <2>1, Zenon DEF RejectToken, Rejects
<1>2. place # "lost"
  BY DEF InLine
<1>3. items # <<>> /\ Oldest = Head(items)
  <2>1. CASE place = "item"
    <3>1. Oldest \in Token /\ <<>> \notin Token
      BY <1>1, <2>1, Headers DEF TokenDue
    <3> QED
      BY <3>1 DEF Oldest
  <2> QED
    BY <2>1 DEF InLine, Oldest
<1>4. PICK t \in Octets : t = Head(items) /\ t \in Seq(Nat) /\ Len(t) \in Nat /\ Len(t) >= 1
  BY <1>3, OldestInFront, PartBytes, LenProperties
<1>5. Tail(items) \in Seq(Items) /\ Tail(items) \in Seq(Parts)
  BY <1>3, OldestInFront, ItemsAreParts
<1>6. Whole' /\ (ended' => coming' = <<>>)
  BY <1>1 DEF Whole, Nothing, InLine
<1>7. CASE Len(Oldest) = 1
  <2>1. items' = Tail(items) /\ place' = "item"
    BY <1>2, <1>7 DEF RejectToken, Rejects
  <2>2. PICK after \in Seq(Nat) :
          Joins(SubSeq(stream, 2, Len(stream)), after, FlattenSeq(Tail(items)))
          /\ (ended \/ after = coming)
    <3>1. 1 <= Len(stream) /\ 1 + 1 = 2
      <4>1. Len(stream) \in Nat /\ Len(stream) # 0
        BY <1>1, EmptySeq, LenProperties DEF OidInv
      <4> QED
        BY <4>1
    <3>2. Len(Head(items)) <= Len(stream) /\ Len(Head(items)) + 1 = 2
      BY <1>3, <1>7, <3>1, Zenon
    <3> QED
      BY <1>3, <3>2, WithoutOldest
  <2> QED
    BY <1>1, <1>5, <1>6, <2>1, <2>2, Zenon DEF InLine
<1>8. CASE Len(Oldest) > 1
  <2>1. items' = <<Tail(t)>> \o Tail(items) /\ place' = "within"
    <3>1. Len(Oldest) # 1
      <4>1. \A n : n = 1 => ~ (n > 1)
        OBVIOUS
      <4> QED
        BY <1>8, <4>1, Zenon
    <3> QED
      BY <1>2, <1>3, <1>4, <3>1, Zenon DEF RejectToken, Rejects
  <2>2. PICK after \in Seq(Nat) :
          /\ Joins(SubSeq(stream, 2, Len(stream)), after, FlattenSeq(<<Tail(t)>> \o Tail(items)))
          /\ ended \/ after = coming
    BY <1>1, <1>3, <1>4, <1>8, WithoutByte
  <2>3. Tail(t) \in Rests
    <3>1. \A i \in 2 .. Len(t) : t[i] # 96
      <4>1. CASE place = "item"
        BY <1>1, <1>3, <1>4, <4>1
      <4>2. CASE place = "within"
        <5>1. t \in Rests
          BY <1>4, <4>2 DEF InLine
        <5>2. \A i \in 2 .. Len(t) : i \in 1 .. Len(t)
          BY <1>4
        <5> QED
          BY <5>1, <5>2 DEF Rests
      <4> QED
        BY <4>1, <4>2 DEF InLine
    <3>2. t \in Seq(0 .. 255) /\ Len(t) > 1
      BY <1>3, <1>4, <1>8 DEF Octets
    <3>3. /\ Tail(t) \in Seq(0 .. 255) /\ Len(Tail(t)) = Len(t) - 1
          /\ \A i \in 1 .. Len(Tail(t)) : Tail(t)[i] = t[i + 1]
      BY <3>2
    <3>4. ASSUME NEW i \in 1 .. Len(Tail(t)) PROVE Tail(t)[i] # 96
      <4>1. i + 1 \in 2 .. Len(t)
        BY <1>4, <3>3
      <4> QED
        BY <3>1, <3>3, <4>1
    <3>5. Len(Tail(t)) >= 1
      BY <1>4, <3>2, <3>3
    <3> QED
      BY <3>3, <3>4, <3>5 DEF Rests, Octets
  <2>4. /\ items' # <<>> /\ Head(items') = Tail(t) /\ Tail(items') = Tail(items)
        /\ items' \in Seq(Parts)
    <3>1. PICK r \in Parts : r = Tail(t)
      BY <2>3 DEF Parts
    <3>2. PICK s \in Seq(Parts) : s = Tail(items)
      BY <1>5
    <3>3. /\ <<r>> \o s # <<>> /\ Head(<<r>> \o s) = r /\ <<r>> \o s \in Seq(Parts)
          /\ Len(Tail(<<r>> \o s)) = Len(s) /\ \A i \in 1 .. Len(s) : Tail(<<r>> \o s)[i] = s[i]
          /\ Tail(<<r>> \o s) \in Seq(Parts)
      BY <3>1, <3>2
    <3>4. Tail(<<r>> \o s) = s
      BY <3>2, <3>3, SeqEqual
    <3> QED
      BY <2>1, <3>1, <3>2, <3>3, <3>4
  <2> QED
    BY <1>1, <1>5, <1>6, <2>1, <2>2, <2>3, <2>4, Zenon DEF InLine
<1>9. Len(Oldest) = 1 \/ Len(Oldest) > 1
  <2>1. \A n \in Nat : n >= 1 => n = 1 \/ n > 1
    OBVIOUS
  <2> QED
    BY <1>3, <1>4, <2>1, Zenon
<1> QED
  BY <1>7, <1>8, <1>9

\* Every step leaves the stream in line with the items.
LEMMA StepStream == OidInv /\ StreamInv /\ [Next]_vars => StreamInv'
<1> SUFFICES ASSUME OidInv, StreamInv, [Next]_vars, clear' PROVE InLine'
  BY DEF StreamInv
<1>0. InLine
  <2>1. clear
    BY DEF Next, vars, history, Send, Arrive, End, NoInputToken, InputToken, RejectToken,
           Rejects, Reads, NewFromString, NewFromDER, NewFromStream, SetNativeOid
  <2> QED
    BY <2>1 DEF StreamInv
<1>1. CASE Send
  BY <1>0, <1>1, SendStep
<1>2. CASE Arrive
  BY <1>0, <1>2, ArriveStep
<1>3. CASE End
  <2>1. ended' /\ coming' = <<>> /\ UNCHANGED <<stream, items, place, lastRead>>
    BY <1>3 DEF End, history
  <2>2. Whole'
    BY <1>0, <2>1 DEF InLine, Whole
  <2> QED
    BY <1>0, <2>1, <2>2, Zenon DEF InLine
<1>4. CASE NoInputToken
  <2>1. lastRead' = Nothing /\ UNCHANGED <<coming, stream, ended, items, place>>
    BY <1>4 DEF NoInputToken, history
  <2>2. Whole'
    BY <2>1 DEF Nothing, Whole
  <2> QED
    BY <1>0, <2>1, <2>2, Zenon DEF InLine
<1>5. CASE InputToken
  <2>1. /\ stream # <<>> /\ Head(stream) = 96 /\ TokenDue
        /\ Reads(TokenSize) /\ UNCHANGED <<coming, ended>>
    BY <1>5 DEF InputToken
  <2> QED
    BY <1>0, <2>1, TokenFits, ReadsOldest
<1>6. CASE RejectToken
  BY <1>0, <1>6, RejectStep
<1>7. CASE NewFromStream
  <2>1. /\ place = "item" /\ items # <<>> /\ Oldest \notin Token
        /\ Reads(OidSize) /\ UNCHANGED <<coming, ended>>
    BY <1>0, <1>7 DEF NewFromStream, InLine
  <2> QED
    BY <1>0, <2>1, OidFits, ReadsOldest
<1>8. CASE UNCHANGED <<coming, stream, ended, items, place, lastRead>>
  BY <1>0, <1>8, Zenon DEF InLine, Whole
<1>9. CASE NewFromString \/ NewFromDER \/ SetNativeOid \/ UNCHANGED vars
  BY <1>8, <1>9 DEF NewFromString, NewFromDER, SetNativeOid, vars, history
<1> QED
  BY <1>1, <1>2, <1>3, <1>4, <1>5, <1>6, <1>7, <1>9 DEF Next

\* For any identifiers and any tokens, those with the tag carrying their length:
\* initSecContext, acceptSecContext and Oid(InputStream) return what was sent,
\* item by item, however its length is written and however its bytes arrive,
\* until the stream ends or a rejected token holds another 0x60.  DerUtil takes
\* one byte of a rejected token, so the caller gets an exception for every byte.
THEOREM ReadsWholeItems == Spec => []ItemsWhole
<1>1. StreamInv => ItemsWhole
  BY DEF StreamInv, InLine, Whole, ItemsWhole
<1> QED
  BY InitSound, StepSound, InitStream, StepStream, <1>1, PTL DEF Spec

\* So it starts with the oldest of them.
LEMMA InvAligned == OidInv /\ StreamInv => Aligned
<1> SUFFICES ASSUME OidInv, StreamInv, clear PROVE Aligned
  BY DEF Aligned
<1>0. InLine /\ place # "lost"
  BY DEF StreamInv, InLine
<1>1. PICK s, after, w :
        /\ s \in Seq(Nat) /\ after \in Seq(Nat)
        /\ s = stream /\ w = FlattenSeq(items) /\ Joins(s, after, w) /\ (ended \/ after = coming)
  BY <1>0, Zenon DEF InLine, OidInv
<1>2. CASE ~ended
  BY <1>0, <1>1, <1>2, Zenon DEF Aligned, Joins
<1>3. CASE ended
  <2>1. w \in Seq(Nat) /\ Len(w) = Len(s) + Len(after) /\ \A i \in 1 .. Len(s) : w[i] = s[i]
    BY <1>1, Joined
  <2>2. Len(s) \in Nat /\ Len(after) \in Nat /\ Len(s) <= Len(w)
    BY <2>1, LenProperties
  <2>3. SubSeq(s, 1, Len(s)) = SubSeq(w, 1, Len(s))
    BY <2>1, <2>2
  <2> QED
    BY <1>0, <1>1, <1>3, <2>2, <2>3, Zenon DEF Aligned, IsPrefix
<1> QED
  BY <1>2, <1>3

\* A rejected token of any length is passed byte by byte and disturbs no later
\* one: until one holds another 0x60, every call begins at the beginning of an
\* item or within the token being rejected, and never reads into the next item.
THEOREM StreamAligned == Spec => []Aligned
BY InitSound, StepSound, InitStream, StepStream, InvAligned, PTL DEF Spec
=============================================================================
