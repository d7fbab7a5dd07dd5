------------------------- MODULE TokenFramingProofs -------------------------
(***************************************************************************)
(* WriteToken and ReadToken over one connection implement TokenChannel,    *)
(* for every size of a byte, every set of tokens and every number of       *)
(* calls.  The invariant says how the bytes that the reader holds and      *)
(* those on the wire cut the frames of the tokens on their way; it needs   *)
(* that a size comes back from its header, and that two ways to cut one    *)
(* stream agree.  The bytes and the ints of the machine come first.        *)
(***************************************************************************)
EXTENDS TokenFraming, FlattenTheorems, TLAPS

-----------------------------------------------------------------------------
(* The size header of the machine: every one of the 2^32 ints *)

\* The quotients that `input >>> offset' takes are iterated divisions by 256,
\* also for a negative input.
LEMMA Quotients ==
  ASSUME NEW n \in Int
  PROVE  /\ n = (n \div 256) * 256 + (n % 256)
         /\ n \div 256 = (n \div 65536) * 256 + ((n \div 256) % 256)
         /\ n \div 65536 = (n \div 16777216) * 256 + ((n \div 65536) % 256)
         /\ n \div 16777216 = ((n \div 16777216) \div 256) * 256
                              + ((n \div 16777216) % 256)
<1> DEFINE q1 == n \div 256
           q2 == q1 \div 256
           q3 == q2 \div 256
<1>1. q1 \in Int /\ n = q1 * 256 + (n % 256) /\ n % 256 \in 0 .. 255
  BY SMT
<1>2. q2 \in Int /\ q1 = q2 * 256 + (q1 % 256) /\ q1 % 256 \in 0 .. 255
  BY <1>1, SMT
<1>3. q3 \in Int /\ q2 = q3 * 256 + (q2 % 256) /\ q2 % 256 \in 0 .. 255
  BY <1>2, SMT
<1>4. n \div 65536 = q2
  BY <1>1, <1>2, SMT
<1>5. n \div 16777216 = q3
  BY <1>1, <1>2, <1>3, SMT
<1>6. q3 = (q3 \div 256) * 256 + (q3 % 256)
  BY <1>3, SMT
<1> QED
  BY <1>1, <1>2, <1>3, <1>4, <1>5, <1>6, SMT

\* intToByteArray gives four bytes, and byteArrayToInt recovers every int from
\* them: a frame's header says the length of its token, and no length that an
\* array can have reads as a negative size.
THEOREM HeaderRoundTrip ==
  ASSUME Base = 256, NEW n \in Int, -2147483648 <= n, n <= 2147483647
  PROVE  /\ IntToByteArray(n) \in Seq(Byte)
         /\ Len(IntToByteArray(n)) = 4
         /\ ByteArrayToInt(IntToByteArray(n)) = n
<1> DEFINE a == (n \div 16777216) % 256
           b == (n \div 65536) % 256
           c == (n \div 256) % 256
           d == n % 256
           h == (n \div 16777216) \div 256
<1>1. /\ a \in 0 .. 255 /\ b \in 0 .. 255 /\ c \in 0 .. 255 /\ d \in 0 .. 255
      /\ h \in Int
  BY SMT
<1>2. IntToByteArray(n) = <<a, b, c, d>>
  BY SMT DEF IntToByteArray
<1>3. IntToByteArray(n) \in Seq(Byte) /\ Len(IntToByteArray(n)) = 4
  BY <1>1, <1>2, SMT DEF Byte
<1>4. n = h * 4294967296 + a * 16777216 + b * 65536 + c * 256 + d
  <2>1. /\ n = (n \div 256) * 256 + d
        /\ n \div 256 = (n \div 65536) * 256 + c
        /\ n \div 65536 = (n \div 16777216) * 256 + b
        /\ n \div 16777216 = h * 256 + a
    BY Quotients, SMT
  <2>2. n \div 256 \in Int /\ n \div 65536 \in Int /\ n \div 16777216 \in Int
    BY SMT
  <2> HIDE DEF a, b, c, d, h
  <2> QED
    BY <1>1, <2>1, <2>2, SMT
<1>5. ByteArrayToInt(<<a, b, c, d>>) =
        LET u == a * 16777216 + b * 65536 + c * 256 + d
        IN  IF 2 * u < 4294967296 THEN u ELSE u - 4294967296
  <2> HIDE DEF a, b, c, d
  <2> QED
    BY <1>1, SMT DEF ByteArrayToInt
<1>6. h \in {-1, 0}
  <2> HIDE DEF a, b, c, d, h
  <2> QED
    BY <1>1, <1>4, SMT
<1>7. ByteArrayToInt(<<a, b, c, d>>) = n
  <2> HIDE DEF a, b, c, d, h
  <2> QED
    BY <1>1, <1>4, <1>5, <1>6, SMT
<1> QED
  BY <1>2, <1>3, <1>7, SMT

-----------------------------------------------------------------------------
(* The size header for every Base *)

\* Division with remainder by a divisor that is not a number of the source.
LEMMA Division ==
  ASSUME NEW n \in Nat, NEW b \in Nat \ {0}
  PROVE  \E q \in Nat, r \in 0 .. b - 1 :
            q = n \div b /\ r = n % b /\ n = b * q + r
<1>1. n % b \in 0 .. b - 1 /\ n \div b \in Int
  OBVIOUS
<1>2. n % b = n - b * (n \div b)
  OBVIOUS
<1>3. n < b * ((n \div b) + 1)
  OBVIOUS
<1>4. PICK q \in Int : q = n \div b
  BY <1>1
<1>5. q \in Nat
  <2> SUFFICES ASSUME q <= 0 - 1 PROVE FALSE
    OBVIOUS
  <2>1. b * (q + 1) <= 0
    OBVIOUS
  <2> QED
    BY <1>3, <1>4, <2>1
<1>6. PICK r \in 0 .. b - 1 : r = n % b /\ r = n - b * q
  BY <1>1, <1>2, <1>4
<1>7. n = b * q + r
  BY <1>4, <1>6
<1> QED
  BY <1>4, <1>5, <1>6, <1>7, Zenon

\* Quotient and remainder are the only ones.
LEMMA DivisionUnique ==
  ASSUME NEW n \in Nat, NEW b \in Nat \ {0}, NEW q \in Nat, NEW r \in 0 .. b - 1,
         n = b * q + r
  PROVE  n \div b = q /\ n % b = r
<1>1. PICK p \in Nat, s \in 0 .. b - 1 : p = n \div b /\ s = n % b /\ n = b * p + s
  BY Division
<1>2. b * (q - p) = s - r
  BY <1>1
<1>3. q - p <= 0
  <2> SUFFICES ASSUME q - p >= 1 PROVE FALSE
    BY <1>1
  <2>1. b * (q - p) >= b
    BY <1>1
  <2> QED
    BY <1>1, <1>2, <2>1
<1>4. q - p >= 0
  <2> SUFFICES ASSUME q - p <= 0 - 1 PROVE FALSE
    BY <1>1
  <2>1. b * (q - p) <= 0 - b
    BY <1>1
  <2> QED
    BY <1>1, <1>2, <2>1
<1> QED
  BY <1>1, <1>3, <1>4

\* Dividing twice is dividing by the product.
LEMMA DivisionTwice ==
  ASSUME NEW n \in Nat, NEW b \in Nat \ {0}, NEW c \in Nat \ {0}
  PROVE  c * b \in Nat \ {0} /\ n \div (c * b) = (n \div c) \div b
<1>1. PICK q \in Nat, r \in 0 .. c - 1 : n = c * q + r /\ q = n \div c
  BY Division
<1>2. PICK p \in Nat, s \in 0 .. b - 1 : q = b * p + s /\ p = q \div b
  BY <1>1, Division
<1>3. n = (c * b) * p + (c * s + r)
  <2>1. c * q = c * (b * p) + c * s
    BY <1>2
  <2>2. c * (b * p) = (c * b) * p
    BY <1>2
  <2> QED
    BY <1>1, <1>2, <2>1, <2>2
<1>4. c * s + r \in 0 .. c * b - 1
  <2>1. c * s \in Nat
    BY <1>2
  <2>2. c * (b - 1 - s) >= 0
    BY <1>2
  <2>3. c * (b - 1 - s) = c * b - c - c * s
    BY <1>2
  <2> QED
    BY <1>1, <2>1, <2>2, <2>3
<1>5. c * b \in Nat \ {0} /\ c * s + r \in Nat
  BY <1>1, <1>2
<1>6. n \div (c * b) = p
  BY <1>3, <1>4, <1>5, DivisionUnique
<1> QED
  BY <1>1, <1>2, <1>5, <1>6

\* A number below half the range of a header comes back from it.
LEMMA HeaderOfLength ==
  ASSUME NEW n \in Nat, 2 * n < Base * Base * Base * Base
  PROVE  /\ IntToByteArray(n) \in Seq(Byte)
         /\ Len(IntToByteArray(n)) = 4
         /\ ByteArrayToInt(IntToByteArray(n)) = n
<1> DEFINE B == Base
<1>1. B \in Nat \ {0}
  BY Parameters
<1> HIDE DEF B
<1>2. PICK q1 \in Nat, r0 \in 0 .. B - 1 : q1 = n \div B /\ r0 = n % B /\ n = B * q1 + r0
  BY <1>1, Division
<1>3. PICK q2 \in Nat, r1 \in 0 .. B - 1 : q2 = q1 \div B /\ r1 = q1 % B /\ q1 = B * q2 + r1
  BY <1>1, Division
<1>4. PICK q3 \in Nat, r2 \in 0 .. B - 1 : q3 = q2 \div B /\ r2 = q2 % B /\ q2 = B * q3 + r2
  BY <1>1, Division
<1>5. n \div (B * B) = q2
  <2>1. n \div (B * B) = (n \div B) \div B
    BY <1>1, DivisionTwice
  <2> QED
    BY <1>2, <1>3, <2>1
<1>6. n \div (B * B * B) = q3
  <2>1. PICK c \in Nat \ {0} : c = B * B
    BY <1>1
  <2>2. n \div (c * B) = (n \div c) \div B
    BY <1>1, DivisionTwice
  <2> QED
    BY <1>4, <1>5, <2>1, <2>2
<1>7. n = q3 * (B * B * B) + r2 * (B * B) + r1 * B + r0
  <2>1. B * q2 = (B * B) * q3 + B * r2
    <3>1. B * (B * q3 + r2) = (B * B) * q3 + B * r2
      BY <1>1
    <3> QED
      BY <1>4, <3>1
  <2>2. B * q1 = B * (B * q2) + B * r1
    BY <1>1, <1>3
  <2>3. B * (B * q2) = (B * B * B) * q3 + (B * B) * r2
    BY <1>1, <2>1
  <2>4. n = (B * B * B) * q3 + (B * B) * r2 + B * r1 + r0
    BY <1>1, <1>2, <2>2, <2>3
  <2>5. /\ (B * B * B) * q3 = q3 * (B * B * B)
        /\ (B * B) * r2 = r2 * (B * B) /\ B * r1 = r1 * B
    BY <1>1
  <2> QED
    BY <2>4, <2>5
<1>8. q3 < B
  <2> SUFFICES ASSUME q3 >= B PROVE FALSE
    BY <1>1
  <2>1. /\ q3 * (B * B * B) >= B * (B * B * B)
        /\ r2 * (B * B) >= 0 /\ r1 * B >= 0
    BY <1>1
  <2>2. n >= B * (B * B * B)
    BY <1>1, <1>7, <2>1
  <2>3. n < B * (B * B * B)
    <3>1. B * B * B * B = B * (B * B * B)
      BY <1>1
    <3> QED
      BY <1>1, <3>1 DEF B
  <2> QED
    BY <1>1, <2>2, <2>3
<1>9. q3 % B = q3
  <2>1. q3 = B * 0 + q3 /\ q3 \in 0 .. B - 1
    BY <1>1, <1>8
  <2> QED
    BY <1>1, <2>1, DivisionUnique
<1>10. IntToByteArray(n) = <<q3, r2, r1, r0>>
  BY <1>2, <1>3, <1>4, <1>5, <1>6, <1>9 DEF IntToByteArray, B
<1>11. IntToByteArray(n) \in Seq(Byte) /\ Len(IntToByteArray(n)) = 4
  BY <1>1, <1>8, <1>10 DEF Byte, B
<1>12. ByteArrayToInt(<<q3, r2, r1, r0>>) = n
  <2>1. ByteArrayToInt(<<q3, r2, r1, r0>>)
          = LET unsigned == q3 * (B * B * B) + r2 * (B * B) + r1 * B + r0
            IN  IF 2 * unsigned < B * B * B * B THEN unsigned ELSE unsigned - B * B * B * B
    BY Zenon DEF ByteArrayToInt, B
  <2>2. 2 * n < B * B * B * B
    BY DEF B
  <2> QED
    BY <1>7, <2>1, <2>2, Zenon
<1> QED
  BY <1>10, <1>11, <1>12

\* Four bytes of the end of the stream read as the size -1.
LEMMA HeaderOfEnd ==
  ASSUME NEW d, \A i \in 1 .. 4 : d[i] = Base - 1
  PROVE  ByteArrayToInt(d) = -1
<1> DEFINE B == Base
           C == B * B * B * B
<1>1. B \in Nat /\ B >= 2
  BY Parameters
<1> HIDE DEF B
<1>2. d[1] = B - 1 /\ d[2] = B - 1 /\ d[3] = B - 1 /\ d[4] = B - 1
  BY DEF B
<1>3. (B - 1) * (B * B * B) + (B - 1) * (B * B) + (B - 1) * B + (B - 1) = C - 1
  <2>1. /\ (B - 1) * (B * B * B) = C - B * B * B
        /\ (B - 1) * (B * B) = B * B * B - B * B
        /\ (B - 1) * B = B * B - B
    BY <1>1
  <2>2. C \in Int /\ B * B * B \in Int /\ B * B \in Int
    BY <1>1
  <2> HIDE DEF C
  <2> QED
    BY <1>1, <2>1, <2>2
<1>4. C \in Nat /\ C >= 2
  <2>1. B * B >= 2 /\ B * B \in Nat
    BY <1>1
  <2>2. (B * B) * (B * B) >= 2
    BY <2>1
  <2>3. (B * B) * (B * B) = C
    BY <1>1
  <2> QED
    BY <1>1, <2>1, <2>2, <2>3
<1>5. ByteArrayToInt(d)
        = LET unsigned == d[1] * (B * B * B) + d[2] * (B * B) + d[3] * B + d[4]
          IN  IF 2 * unsigned < C THEN unsigned ELSE unsigned - C
  BY Zenon DEF ByteArrayToInt, B
<1>6. ByteArrayToInt(d) = IF 2 * (C - 1) < C THEN C - 1 ELSE (C - 1) - C
  <2> HIDE DEF C
  <2> QED
    BY <1>2, <1>3, <1>5, Zenon
<1> HIDE DEF C
<1> QED
  BY <1>4, <1>6

\* A header is read as some number, and only the first four bytes count.
LEMMA HeaderIsInt ==
  ASSUME NEW d \in Seq(Byte), Len(d) >= 4
  PROVE  ByteArrayToInt(d) \in Int
<1>1. /\ d[1] \in Int /\ d[2] \in Int /\ d[3] \in Int /\ d[4] \in Int /\ Base \in Int
  BY Parameters DEF Byte
<1>2. PICK c2 \in Int, c3 \in Int, C \in Int :
         c2 = Base * Base /\ c3 = Base * Base * Base /\ C = Base * Base * Base * Base
  <2>1. PICK c2 \in Int : c2 = Base * Base
    BY <1>1
  <2>2. PICK c3 \in Int : c3 = c2 * Base
    BY <1>1
  <2>3. PICK c4 \in Int : c4 = c3 * Base
    BY <1>1
  <2> QED
    BY <2>1, <2>2, <2>3, Zenon
<1>3. PICK u \in Int :
         u = d[1] * (Base * Base * Base) + d[2] * (Base * Base) + d[3] * Base + d[4]
  <2>1. PICK w \in Int, x \in Int, y \in Int, z \in Int :
               w = d[1] * c3 /\ x = d[2] * c2 /\ y = d[3] * Base /\ z = d[4]
    <3>1. d[1] * c3 \in Int /\ d[2] * c2 \in Int /\ d[3] * Base \in Int
      BY <1>1
    <3> QED
      BY <1>1, <3>1, Zenon
  <2>2. w + x + y + z \in Int
    OBVIOUS
  <2> QED
    BY <1>2, <2>1, <2>2, Zenon
<1>4. ByteArrayToInt(d) = IF 2 * u < C THEN u ELSE u - C
  BY <1>2, <1>3, Zenon DEF ByteArrayToInt
<1> QED
  BY <1>3, <1>4

\* The first four bytes alone make it.
LEMMA HeaderFirstFour ==
  ASSUME NEW d, NEW e, \A i \in 1 .. 4 : d[i] = e[i]
  PROVE  ByteArrayToInt(d) = ByteArrayToInt(e)
<1>1. d[1] = e[1] /\ d[2] = e[2] /\ d[3] = e[3] /\ d[4] = e[4]
  OBVIOUS
<1> QED
  BY <1>1, Zenon DEF ByteArrayToInt

-----------------------------------------------------------------------------
(* Frames and the stream that they make *)

\* The sequences of tokens are sequences of sequences of bytes.
LEMMA TokensAreBytes == Token \subseteq Seq(Byte) /\ Seq(Token) \subseteq Seq(Seq(Byte))
BY Parameters, SeqMonotonic DEF Byte

\* A frame is four bytes, which read as the length of its token, and the token.
LEMMA FrameOfToken ==
  ASSUME NEW t \in Token
  PROVE  /\ Frame(t) \in Seq(Byte) /\ Len(Frame(t)) = 4 + Len(t)
         /\ ByteArrayToInt(Frame(t)) = Len(t)
         /\ SubSeq(Frame(t), 5, Len(Frame(t))) = t
<1>1. t \in Seq(Byte) /\ Len(t) \in Nat /\ 2 * Len(t) < Base * Base * Base * Base
  BY TokensAreBytes, Parameters, LenProperties
<1>2. PICK n \in Nat : n = Len(t) /\ 2 * n < Base * Base * Base * Base
  BY <1>1
<1>3. PICK h \in Seq(Byte) : h = IntToByteArray(n) /\ Len(h) = 4 /\ ByteArrayToInt(h) = n
  BY <1>2, HeaderOfLength
<1>4. PICK f : f = h \o t /\ f = Frame(t)
  BY <1>2, <1>3, Zenon DEF Frame
<1>5. /\ f \in Seq(Byte) /\ Len(f) = Len(h) + Len(t)
      /\ \A i \in 1 .. Len(h) : f[i] = h[i]
      /\ SubSeq(f, Len(h) + 1, Len(h) + Len(t)) = t
  <2> SUFFICES ASSUME NEW u \in Seq(Byte), u = t
               PROVE  /\ h \o u \in Seq(Byte) /\ Len(h \o u) = Len(h) + Len(u)
                      /\ \A i \in 1 .. Len(h) : (h \o u)[i] = h[i]
                      /\ SubSeq(h \o u, Len(h) + 1, Len(h) + Len(u)) = u
    BY <1>1, <1>4
  <2>1. h \in Seq(Byte)
    OBVIOUS
  <2> QED
    BY ONLY <2>1, Behind
<1>6. ByteArrayToInt(f) = n
  BY <1>3, <1>5, HeaderFirstFour
<1> QED
  BY <1>2, <1>3, <1>4, <1>5, <1>6

\* Frames flattens these.
FrameEach(tokens) == [i \in DOMAIN tokens |-> Frame(tokens[i])]

\* Frames is the flattening of the single frames.
LEMMA FramesOf == \A tokens : Frames(tokens) = FlattenSeq(FrameEach(tokens))
BY DEF Frames, FrameEach

\* One frame for each token.
LEMMA FramingTyped ==
  ASSUME NEW s \in Seq(Token)
  PROVE  /\ FrameEach(s) \in Seq(Seq(Byte)) /\ Len(FrameEach(s)) = Len(s)
         /\ FrameEach(s) = [i \in 1 .. Len(s) |-> Frame(s[i])]
<1>1. /\ Len(s) \in Nat /\ DOMAIN s = 1 .. Len(s)
      /\ \A i \in 1 .. Len(s) : Frame(s[i]) \in Seq(Byte)
  BY FrameOfToken, LenProperties, ElementOfSeq
<1>2. FrameEach(s) = [i \in 1 .. Len(s) |-> Frame(s[i])]
  BY <1>1 DEF FrameEach
<1> QED
  BY <1>1, <1>2

\* Framing commutes with what the writer and the reader do to the tokens.
LEMMA FramingCommutes ==
  ASSUME NEW s \in Seq(Token)
  PROVE  /\ \A t \in Token : FrameEach(Append(s, t)) = Append(FrameEach(s), Frame(t))
         /\ s # <<>> => /\ FrameEach(s) # <<>> /\ Head(FrameEach(s)) = Frame(Head(s))
                        /\ Tail(FrameEach(s)) = FrameEach(Tail(s))
         /\ \A k \in 0 .. Len(s) : FrameEach(SubSeq(s, 1, k)) = SubSeq(FrameEach(s), 1, k)
<1>1. /\ Len(s) \in Nat /\ DOMAIN s = 1 .. Len(s)
      /\ \A i \in 1 .. Len(s) : s[i] \in Token /\ Frame(s[i]) \in Seq(Byte)
  BY FrameOfToken, LenProperties, ElementOfSeq
<1>2. FrameEach(s) = [i \in 1 .. Len(s) |-> Frame(s[i])]
  BY FramingTyped
<1>3. FrameEach(s) \in Seq(Seq(Byte)) /\ Len(FrameEach(s)) = Len(s)
  BY FramingTyped
<1>4. ASSUME NEW t \in Token
      PROVE  FrameEach(Append(s, t)) = Append(FrameEach(s), Frame(t))
  <2>1. FrameEach(Append(s, t)) = [i \in 1 .. Len(s) + 1 |-> Frame(Append(s, t)[i])]
    BY <1>1 DEF FrameEach
  <2>2. Frame(t) \in Seq(Byte)
    BY FrameOfToken
  <2> QED
    BY <1>1, <1>2, <1>3, <2>1, <2>2
<1>5. ASSUME s # <<>>
      PROVE  /\ FrameEach(s) # <<>> /\ Head(FrameEach(s)) = Frame(Head(s))
             /\ Tail(FrameEach(s)) = FrameEach(Tail(s))
  <2>1. Len(s) # 0
    BY <1>5, EmptySeq
  <2>2. Tail(s) \in Seq(Token) /\ Len(Tail(s)) = Len(s) - 1
    BY <1>5, HeadTailProperties
  <2>3. FrameEach(Tail(s)) = [i \in 1 .. Len(s) - 1 |-> Frame(Tail(s)[i])]
    BY <1>1, <2>2 DEF FrameEach
  <2>4. \A i \in 1 .. Len(s) - 1 : Tail(s)[i] = s[i + 1]
    BY <1>5, <2>2, HeadTailProperties
  <2>5. Head(FrameEach(s)) = Frame(Head(s))
    BY <1>1, <1>2, <2>1
  <2>6. FrameEach(s) # <<>>
    BY <1>3, <2>1, EmptySeq
  <2>7. Tail(FrameEach(s)) = FrameEach(Tail(s))
    <3>1. /\ Tail(FrameEach(s)) \in Seq(Seq(Byte)) /\ Len(Tail(FrameEach(s))) = Len(s) - 1
          /\ \A i \in 1 .. Len(s) - 1 : Tail(FrameEach(s))[i] = FrameEach(s)[i + 1]
      BY <1>3, <2>6, HeadTailProperties
    <3>2. \A i \in 1 .. Len(s) - 1 : Tail(FrameEach(s))[i] = Frame(Tail(s)[i])
      BY <1>1, <1>2, <2>4, <3>1
    <3>3. /\ FrameEach(Tail(s)) \in Seq(Seq(Byte)) /\ Len(FrameEach(Tail(s))) = Len(s) - 1
      BY <2>2, FramingTyped
    <3> QED
      BY <2>3, <3>1, <3>2, <3>3, SeqEqual
  <2> QED
    BY <2>5, <2>6, <2>7
<1>6. ASSUME NEW k \in 0 .. Len(s)
      PROVE  FrameEach(SubSeq(s, 1, k)) = SubSeq(FrameEach(s), 1, k)
  <2>1. FrameEach(SubSeq(s, 1, k)) = [i \in 1 .. k |-> Frame(s[i])]
    BY <1>1 DEF FrameEach
  <2> QED
    BY <1>1, <1>2, <1>3, <2>1
<1> QED
  BY <1>4, <1>5, <1>6

\* What the frames of the tokens are when a token is written at the end, read
\* at the front, or when only some of them arrive.
LEMMA FramesOfTokens ==
  ASSUME NEW s \in Seq(Token)
  PROVE  /\ Frames(s) \in Seq(Byte)
         /\ Frames(<<>>) = <<>>
         /\ \A t \in Token : Frames(Append(s, t)) = Frames(s) \o Frame(t)
         /\ s # <<>> => Frames(s) = Frame(Head(s)) \o Frames(Tail(s))
         /\ \A k \in 0 .. Len(s) : \E y \in Seq(Byte) :
              Frames(s) = Frames(SubSeq(s, 1, k)) \o y
<1>1. Frames(s) \in Seq(Byte)
  BY FramesOf, FramingTyped, FlattenTyped
<1>2. Frames(<<>>) = <<>>
  <2>1. FrameEach(<<>>) = <<>>
    BY DEF FrameEach
  <2> QED
    BY <2>1, FramesOf, FlattenEmpty
<1>3. ASSUME NEW t \in Token
      PROVE  Frames(Append(s, t)) = Frames(s) \o Frame(t)
  <2>1. PICK m \in Seq(Seq(Byte)) : m = FrameEach(s)
    BY FramingTyped
  <2>2. FrameEach(Append(s, t)) = Append(m, Frame(t))
    BY <2>1, FramingCommutes
  <2>3. FlattenSeq(Append(m, Frame(t))) = FlattenSeq(m) \o Frame(t)
    BY FrameOfToken, FlattenAppend
  <2> QED
    BY <2>1, <2>2, <2>3, FramesOf
<1>4. ASSUME s # <<>>
      PROVE  Frames(s) = Frame(Head(s)) \o Frames(Tail(s))
  <2>1. PICK m \in Seq(Seq(Byte)) : m = FrameEach(s)
    BY FramingTyped
  <2>2. m # <<>> /\ Head(m) = Frame(Head(s)) /\ Tail(m) = FrameEach(Tail(s))
    BY <1>4, <2>1, FramingCommutes
  <2>3. FlattenSeq(m) = Head(m) \o FlattenSeq(Tail(m))
    BY <2>2, FlattenFront
  <2> QED
    BY <2>1, <2>2, <2>3, FramesOf
<1>5. ASSUME NEW k \in 0 .. Len(s)
      PROVE  \E y \in Seq(Byte) : Frames(s) = Frames(SubSeq(s, 1, k)) \o y
  <2>1. PICK m \in Seq(Seq(Byte)) :
           m = FrameEach(s) /\ Len(m) = Len(s) /\ FrameEach(SubSeq(s, 1, k)) = SubSeq(m, 1, k)
    BY FramingTyped, FramingCommutes
  <2>2. k \in 0 .. Len(m)
    BY <2>1
  <2>3. /\ SubSeq(m, k + 1, Len(m)) \in Seq(Seq(Byte))
        /\ FlattenSeq(m) = FlattenSeq(SubSeq(m, 1, k)) \o FlattenSeq(SubSeq(m, k + 1, Len(m)))
    BY <2>2, FlattenBeginning
  <2>4. FlattenSeq(SubSeq(m, k + 1, Len(m))) \in Seq(Byte)
    BY <2>3, FlattenTyped
  <2>5. Frames(s) = FlattenSeq(m) /\ Frames(SubSeq(s, 1, k)) = FlattenSeq(SubSeq(m, 1, k))
    BY <2>1, FramesOf
  <2> QED
    BY <2>3, <2>4, <2>5
<1> QED
  BY <1>1, <1>2, <1>3, <1>4, <1>5

-----------------------------------------------------------------------------
(* The first token of a stream *)

\* Whoever has read g of the stream of the tokens s and the bytes r: four bytes
\* are the size of the first token, that many more are its frame and leave the
\* stream of the others; if nothing follows g, it holds the first token.
LEMMA FirstToken ==
  ASSUME NEW s \in Seq(Token), s # <<>>, NEW g \in Seq(Byte), NEW x \in Seq(Byte),
         NEW r \in Seq(Byte), NEW w, Joins(g, x, w), Joins(Frames(s), r, w)
  PROVE  /\ Head(s) \in Token /\ Tail(s) \in Seq(Token)
         /\ Len(g) >= 4 => ByteArrayToInt(g) = Len(Head(s))
         /\ Len(g) = 4 + Len(Head(s))
              => g = Frame(Head(s)) /\ Joins(Frames(Tail(s)), r, x)
         /\ x = <<>> => Len(g) >= 4 + Len(Head(s))
<1>1. Head(s) \in Token /\ Tail(s) \in Seq(Token)
  BY HeadTailProperties
<1>2. PICK f \in Seq(Byte), t \in Seq(Byte), n \in Nat :
        /\ f = Frame(Head(s)) /\ t = Frames(Tail(s)) /\ n = Len(Head(s))
        /\ Len(f) = 4 + n /\ ByteArrayToInt(f) = n /\ Joins(f, t, Frames(s))
  <2>1. Frame(Head(s)) \in Seq(Byte) /\ Len(Frame(Head(s))) = 4 + Len(Head(s))
        /\ ByteArrayToInt(Frame(Head(s))) = Len(Head(s))
    BY <1>1, FrameOfToken
  <2>2. Len(Head(s)) \in Nat
    BY <1>1, TokensAreBytes, LenProperties
  <2>3. Frames(Tail(s)) \in Seq(Byte) /\ Joins(Frame(Head(s)), Frames(Tail(s)), Frames(s))
    BY <1>1, FramesOfTokens DEF Joins
  <2> QED
    BY <2>1, <2>2, <2>3, Zenon
<1>3. PICK o \in Seq(Byte) : Joins(t, r, o) /\ Joins(f, o, w)
  <2>1. PICK o : Joins(t, r, o)
    BY DEF Joins
  <2>2. o \in Seq(Byte)
    BY <2>1, Joined
  <2>3. Joins(f, o, w)
    BY <1>2, <2>1, Associative
  <2> QED
    BY <2>1, <2>2, <2>3
<1>4. Len(g) \in Nat /\ Len(f) \in Nat
  BY LenProperties
<1>5. CASE Len(g) <= Len(f)
  <2>1. PICK z \in Seq(Byte) : Joins(g, z, f) /\ Joins(z, o, x)
    BY <1>3, <1>5, CommonBeginning
  <2>2. Len(g) >= 4 => ByteArrayToInt(g) = n
    <3> SUFFICES ASSUME Len(g) >= 4 PROVE ByteArrayToInt(g) = n
      OBVIOUS
    <3>1. \A i \in 1 .. Len(g) : f[i] = g[i]
      BY <2>1, Joined
    <3>2. \A i \in 1 .. 4 : g[i] = f[i]
      BY <1>4, <3>1
    <3> QED
      BY <1>2, <3>2, HeaderFirstFour
  <2>3. Len(f) = Len(g) + Len(z) /\ Len(x) = Len(z) + Len(o)
    BY <2>1, Joined
  <2>4. Len(g) = 4 + n => g = f /\ x = o
    <3> SUFFICES ASSUME Len(g) = 4 + n PROVE g = f /\ x = o
      OBVIOUS
    <3>1. z = <<>>
      BY <1>2, <1>4, <2>3, EmptySeq, LenProperties
    <3> QED
      BY <2>1, <3>1, ConcatEmptySeq DEF Joins
  <2>5. x = <<>> => Len(g) >= 4 + n
    BY <1>2, <1>4, <2>3, EmptySeq, LenProperties
  <2> QED
    BY <1>1, <1>2, <1>3, <2>2, <2>4, <2>5
<1>6. CASE Len(g) > Len(f)
  <2>1. PICK z \in Seq(Byte) : Joins(f, z, g)
    <3>1. Len(f) <= Len(g)
      BY <1>4, <1>6
    <3> QED
      BY <1>3, <3>1, CommonBeginning
  <2>2. \A i \in 1 .. Len(f) : g[i] = f[i]
    BY <2>1, Joined
  <2>3. \A i \in 1 .. 4 : g[i] = f[i]
    <3>1. \A i \in 1 .. 4 : i \in 1 .. Len(f)
      BY <1>2
    <3> QED
      BY <2>2, <3>1
  <2>4. ByteArrayToInt(g) = n
    BY <1>2, <2>3, HeaderFirstFour
  <2> QED
    BY <1>1, <1>2, <1>4, <1>6, <2>4
<1> QED
  BY <1>4, <1>5, <1>6

-----------------------------------------------------------------------------
(* How many tokens arrive whole *)

\* There is a number of tokens whose frames fit and one more would not.
LEMMA WholeTokensExist ==
  ASSUME inflight \in Seq(Token), NEW length \in Nat
  PROVE  /\ WholeTokens(length) \in 0 .. Len(inflight)
         /\ Len(Frames(SubSeq(inflight, 1, WholeTokens(length)))) <= length
<1> DEFINE FrontSize(k) == Len(Frames(SubSeq(inflight, 1, k)))
           Fits(k) == k <= Len(inflight) => FrontSize(k) <= length
           Good == {k \in Nat : Fits(k)}
<1>1. Len(inflight) \in Nat
  BY LenProperties
<1>2. \A k \in 0 .. Len(inflight) : FrontSize(k) \in Nat
  <2> TAKE k \in 0 .. Len(inflight)
  <2>1. SubSeq(inflight, 1, k) \in Seq(Token)
    BY <1>1
  <2> QED
    BY <2>1, FramesOfTokens, LenProperties
<1>3. Fits(0)
  <2>1. SubSeq(inflight, 1, 0) = <<>>
    BY SubSeqEmpty
  <2>2. Frames(<<>>) = <<>>
    BY FramesOfTokens
  <2> QED
    <3> Len(<<>>) = 0
      OBVIOUS
    <3>1. FrontSize(0) = 0
      BY <2>1, <2>2, Zenon
    <3> HIDE DEF FrontSize
    <3> QED
      BY <3>1
<1>4. \E k \in 0 .. Len(inflight) :
        FrontSize(k) <= length /\ (k < Len(inflight) => FrontSize(k + 1) > length)
  <2> SUFFICES ASSUME \A k \in 0 .. Len(inflight) :
                        ~ (FrontSize(k) <= length /\ (k < Len(inflight) => FrontSize(k + 1) > length))
               PROVE  FALSE
    BY Zenon
  <2> HIDE DEF FrontSize
  <2>1. \A k \in Nat : k \in Good => k + 1 \in Good
    BY <1>1, <1>2
  <2>2. 0 \in Good
    BY <1>3
  <2>3. \A k \in Nat : k \in Good
    <3> HIDE DEF Good
    <3> QED
      BY <2>1, <2>2, SetInduction
  <2>4. FrontSize(Len(inflight)) <= length
    BY <1>1, <2>3
  <2> QED
    BY <1>1, <2>4
<1>5. PICK c : c = WholeTokens(length)
  OBVIOUS
<1>6. c \in 0 .. Len(inflight) /\ FrontSize(c) <= length
  BY <1>4, <1>5, Zenon DEF WholeTokens
<1> QED
  BY <1>5, <1>6

-----------------------------------------------------------------------------
(* The inductive invariant *)

\* What the writer has still to put behind the bytes on the wire.
More == IF body = Null THEN <<>> ELSE body

\* ReadToken holds bytes only while it runs.
AtRest == ~reading => got = <<>> /\ padding = 0

\* It never reads beyond the size that it has read.
Bounded == Len(got) > 4 => Len(got) - 4 <= Size

\* While the connection lasts nothing is cut off and nothing is made up.
Connected == ~ended => clean /\ padding = 0 /\ padded = 0

\* When it has ended and its end was not reached yet, the reader is inside the
\* tokens that arrived whole, or in the rest of one, which a clean end leaves
\* out.
Whole ==
  ended /\ padding = 0 =>
    \E rest \in Seq(Byte) : /\ got \o wire = Frames(inflight) \o rest
                            /\ clean => rest = <<>>

\* Once the end was read, all that arrived is used up; if the connection ended
\* between two tokens, ReadToken holds the end and nothing else.
AtEnd ==
  padding > 0 =>
    /\ ended /\ wire = <<>> /\ inflight = <<>>
    /\ clean => /\ Len(got) = padding /\ padding <= 4
                /\ \A i \in 1 .. Len(got) : got[i] = Base - 1

IInv ==
  /\ TypeOK /\ Framed /\ AtRest /\ Bounded /\ Connected /\ Whole /\ AtEnd
  /\ CleanEndIsNull

\* While there are tokens, what was read is the beginning of their stream.
LEMMA InStream ==
  ASSUME IInv, inflight # <<>>
  PROVE  /\ padding = 0
         /\ \E x, r, w :
              /\ x \in Seq(Byte) /\ r \in Seq(Byte)
              /\ Joins(got, x, w) /\ Joins(Frames(inflight), r, w)
              /\ ended => x = wire
              /\ ~ended => r = <<>> /\ Joins(wire, More, x)
              /\ clean => r = <<>>
<1>1. padding = 0
  BY DEF IInv, AtEnd, TypeOK
<1>2. got \in Seq(Byte) /\ wire \in Seq(Byte) /\ Frames(inflight) \in Seq(Byte)
      /\ More \in Seq(Byte)
  BY FramesOfTokens, TokensAreBytes, EmptySeq DEF IInv, TypeOK, More
<1>3. CASE ended
  <2>1. PICK rest \in Seq(Byte) :
          got \o wire = Frames(inflight) \o rest /\ (clean => rest = <<>>)
    BY <1>1, <1>3 DEF IInv, Whole
  <2> QED
    BY <1>1, <1>2, <1>3, <2>1 DEF Joins
<1>4. CASE ~ended
  <2>1. (got \o wire) \o More = Frames(inflight)
    BY <1>4 DEF IInv, Framed, More
  <2>2. got \o (wire \o More) = Frames(inflight) /\ wire \o More \in Seq(Byte)
    <3>1. PICK m, gw, x : /\ m \in Seq(Byte) /\ m = More
                           /\ Joins(got, wire, gw) /\ Joins(wire, m, x)
                           /\ Joins(gw, m, Frames(inflight))
      BY <1>2, <2>1, Zenon DEF Joins
    <3>2. Joins(got, x, Frames(inflight)) /\ x \in Seq(Byte)
      BY <1>2, <3>1, Associative, Joined
    <3> QED
      BY <3>1, <3>2, Zenon DEF Joins
  <2>3. Frames(inflight) \o <<>> = Frames(inflight)
    BY <1>2, ConcatEmptySeq
  <2>4. <<>> \in Seq(Byte)
    BY EmptySeq
  <2> QED
    BY <1>1, <1>4, <2>2, <2>3, <2>4 DEF Joins
<1> QED
  BY <1>3, <1>4 DEF IInv, TypeOK

-----------------------------------------------------------------------------
(* Type correctness *)

\* The end of the stream is read as a byte.
LEMMA LastByte == Base - 1 \in Byte /\ Base \in Nat
BY Parameters DEF Byte

\* No token is the null reference.
LEMMA TokenIsNotNull == Null \notin Token /\ Null \notin Seq(Byte)
BY Parameters, TokensAreBytes DEF Byte

\* Every step keeps the types.
LEMMA TypeStep == TypeOK /\ [Next]_vars => TypeOK'
<1> SUFFICES ASSUME TypeOK, [Next]_vars PROVE TypeOK'
  OBVIOUS
<1> USE DEF TypeOK
<1>1. ASSUME NEW token \in Token, WriteHeader(token) PROVE TypeOK'
  <2>1. IntToByteArray(Len(token)) \in Seq(Byte)
    BY TokensAreBytes, Parameters, LenProperties, HeaderOfLength
  <2>2. wire' \in Seq(Byte) /\ inflight' \in Seq(Token)
    BY <1>1, <2>1, ConcatProperties, AppendProperties DEF WriteHeader
  <2> QED
    BY <1>1, <2>2, Parameters DEF WriteHeader, reader
<1>2. ASSUME WriteBody PROVE TypeOK'
  <2>1. wire' \in Seq(Byte)
    BY <1>2, TokensAreBytes, ConcatProperties DEF WriteBody
  <2> QED
    BY <1>2, <2>1 DEF WriteBody, reader
<1>3. ASSUME WriteAfterEnd PROVE TypeOK'
  BY <1>3, Parameters DEF WriteAfterEnd, reader
<1>4. ASSUME CallReadToken PROVE TypeOK'
  BY <1>4, Parameters, EmptySeq DEF CallReadToken, writer
<1>5. ASSUME ReadByte PROVE TypeOK'
  <2>1. wire' \in Seq(Byte) /\ got' \in Seq(Byte) /\ padding' \in Nat
    <3>1. CASE wire # <<>>
      <4>1. got' = Append(got, Head(wire)) /\ wire' = Tail(wire) /\ padding' = padding
        BY <1>5, <3>1 DEF ReadByte
      <4>2. Head(wire) \in Byte /\ Tail(wire) \in Seq(Byte)
        BY <3>1, HeadTailProperties
      <4> QED
        BY <4>1, <4>2, AppendProperties
    <3>2. CASE wire = <<>>
      <4>1. got' = Append(got, Base - 1) /\ wire' = wire /\ padding' = padding + 1
        BY <1>5, <3>2 DEF ReadByte
      <4> QED
        BY <4>1, LastByte, AppendProperties
    <3> QED
      BY <3>1, <3>2
  <2> QED
    BY <1>5, <2>1 DEF ReadByte, writer
<1>6. ASSUME ReturnToken PROVE TypeOK'
  <2>1. SubSeq(got, 5, Len(got)) \in Seq(Byte)
    BY LenProperties, SubSeqProperties
  <2>2. inflight' \in Seq(Token)
    BY <1>6, EmptySeq, HeadTailProperties DEF ReturnToken
  <2> QED
    BY <1>6, <2>1, <2>2, EmptySeq DEF ReturnToken, Return, writer
<1>7. ASSUME ReadError PROVE TypeOK'
  BY <1>7, EmptySeq DEF ReadError, Return, writer
<1>8. ASSUME EndConnection PROVE TypeOK'
  <2>1. PICK kept \in 0 .. Len(wire) :
          /\ wire' = SubSeq(wire, 1, kept)
          /\ inflight' = SubSeq(inflight, 1, WholeTokens(Len(got) + kept))
          /\ clean' = (Len(got) + kept = Len(Frames(inflight')))
    BY <1>8 DEF EndConnection
  <2>2. Len(got) + kept \in Nat /\ kept \in 0 .. Len(wire) /\ Len(wire) \in Nat
    BY LenProperties
  <2>3. WholeTokens(Len(got) + kept) \in 0 .. Len(inflight)
    BY <2>2, WholeTokensExist
  <2>4. wire' \in Seq(Byte) /\ inflight' \in Seq(Token)
    BY <2>1, <2>2, <2>3
  <2> QED
    BY <1>8, <2>1, <2>4 DEF EndConnection, writer, reader
<1>9. ASSUME UNCHANGED vars PROVE TypeOK'
  BY <1>9 DEF vars, writer, reader
<1> QED
  BY <1>1, <1>2, <1>3, <1>4, <1>5, <1>6, <1>7, <1>8, <1>9 DEF Next, Read

\* The first state has the types.
LEMMA TypeInit == Init => TypeOK
<1> SUFFICES ASSUME Init PROVE TypeOK
  OBVIOUS
<1>1. <<>> \in Seq(Byte) /\ <<>> \in Seq(Token)
  BY EmptySeq
<1>2. 0 \in 0 .. MaxWrites /\ 0 \in 0 .. MaxReads
  BY Parameters
<1> QED
  BY <1>1, <1>2 DEF Init, TypeOK

\* Bytes stay bytes, tokens stay tokens, and what ReadToken answers is a
\* sequence of bytes or a null reference.
THEOREM TypeCorrect == Spec => []TypeOK
BY TypeInit, TypeStep, PTL DEF Spec


-----------------------------------------------------------------------------
(* The steps keep the invariant *)

\* The header and the token together are the frame, one after the other.
LEMMA HeaderStep ==
  ASSUME IInv, NEW token \in Token, WriteHeader(token)
  PROVE  IInv'
<1>1. TypeOK'
  BY TypeStep DEF IInv, Next
<1>2. Framed'
  <2>1. ~ended /\ ~ended' /\ body = Null /\ body' = token /\ body' # Null
    BY TokenIsNotNull DEF WriteHeader
  <2>2. PICK h \in Seq(Byte) : h = IntToByteArray(Len(token)) /\ Joins(h, token, Frame(token))
    BY TokensAreBytes, Parameters, LenProperties, HeaderOfLength DEF Joins, Frame
  <2>3. (got \o wire) \o <<>> = Frames(inflight)
    BY <2>1 DEF IInv, Framed
  <2>4. /\ got \in Seq(Byte) /\ wire \in Seq(Byte) /\ token \in Seq(Byte)
        /\ got \o wire \in Seq(Byte)
    BY TokensAreBytes, ConcatProperties DEF IInv, TypeOK
  <2>5. Joins(got, wire, Frames(inflight))
    BY <2>3, <2>4, ConcatEmptySeq DEF Joins
  <2>6. wire' = wire \o h /\ Frames(inflight') = Frames(inflight) \o Frame(token)
    BY <2>2, FramesOfTokens DEF WriteHeader, IInv, TypeOK
  <2>7. (got \o (wire \o h)) \o token = Frames(inflight) \o Frame(token)
    <3>1. PICK wh, gwh : Joins(wire, h, wh) /\ Joins(got, wh, gwh)
      BY DEF Joins
    <3>2. Joins(Frames(inflight), h, gwh)
      BY <2>2, <2>4, <2>5, <3>1, Associative
    <3>3. PICK all : Joins(gwh, token, all)
      BY DEF Joins
    <3>4. Joins(Frames(inflight), Frame(token), all)
      <4>1. Frames(inflight) \in Seq(Byte)
        BY <2>4, <2>5, Joined
      <4> QED
        BY <2>2, <2>4, <3>2, <3>3, <4>1, Associative
    <3> QED
      BY <3>1, <3>3, <3>4, Zenon DEF Joins
  <2> QED
    BY <2>1, <2>6, <2>7 DEF WriteHeader, reader, Framed
<1>3. AtRest' /\ Bounded' /\ Connected' /\ Whole' /\ AtEnd' /\ CleanEndIsNull'
  BY DEF IInv, WriteHeader, reader, AtRest, Bounded, Size, Connected, Whole, AtEnd,
         CleanEndIsNull, TypeOK
<1> QED
  BY <1>1, <1>2, <1>3 DEF IInv

\* The body only moves onto the wire.
LEMMA BodyStep ==
  ASSUME IInv, WriteBody
  PROVE  IInv'
<1>1. TypeOK'
  BY TypeStep DEF IInv, Next
<1>2. Framed'
  <2>1. ~ended /\ ~ended' /\ body # Null /\ body' = Null /\ wire' = wire \o body
        /\ got' = got /\ inflight' = inflight
    BY DEF WriteBody, reader
  <2>2. got \in Seq(Byte) /\ wire \in Seq(Byte) /\ body \in Seq(Byte)
        /\ Frames(inflight) \in Seq(Byte)
    BY <2>1, TokensAreBytes, FramesOfTokens DEF IInv, TypeOK
  <2>3. (got \o wire) \o body = Frames(inflight)
    BY <2>1 DEF IInv, Framed
  <2>4. got \o (wire \o body) = Frames(inflight)
    <3>1. PICK gw, wb : /\ Joins(got, wire, gw) /\ Joins(wire, body, wb)
                        /\ Joins(gw, body, Frames(inflight))
      BY <2>3, Zenon DEF Joins
    <3>2. Joins(got, wb, Frames(inflight))
      BY <2>2, <3>1, Associative
    <3> QED
      BY <3>1, <3>2, Zenon DEF Joins
  <2>5. Frames(inflight) \o <<>> = Frames(inflight)
    BY <2>2, ConcatEmptySeq
  <2> QED
    BY <2>1, <2>4, <2>5 DEF Framed
<1>3. AtRest' /\ Bounded' /\ Connected' /\ Whole' /\ AtEnd' /\ CleanEndIsNull'
  BY DEF IInv, WriteBody, reader, AtRest, Bounded, Size, Connected, Whole, AtEnd,
         CleanEndIsNull, TypeOK
<1> QED
  BY <1>1, <1>2, <1>3 DEF IInv

\* What is written after the end reaches nobody, and a call reads nothing yet.
LEMMA QuietSteps ==
  ASSUME IInv, WriteAfterEnd \/ CallReadToken \/ UNCHANGED vars
  PROVE  IInv'
<1>1. TypeOK'
  BY TypeStep DEF IInv, Next
<1>2. CASE WriteAfterEnd
  BY <1>1, <1>2 DEF IInv, WriteAfterEnd, reader, Framed, AtRest, Bounded, Size, Connected,
                    Whole, AtEnd, CleanEndIsNull
<1>3. CASE CallReadToken
  <2>1. got' = got /\ padding' = padding
    BY <1>3 DEF IInv, AtRest, CallReadToken
  <2> QED
    BY <1>1, <1>3, <2>1 DEF IInv, CallReadToken, writer, Framed, AtRest, Bounded, Size,
                            Connected, Whole, AtEnd, CleanEndIsNull
<1>4. CASE UNCHANGED vars
  BY <1>1, <1>4 DEF IInv, vars, writer, reader, Framed, AtRest, Bounded, Size, Connected,
                    Whole, AtEnd, CleanEndIsNull
<1> QED
  BY <1>2, <1>3, <1>4

\* One more byte, from the wire or from the end: the size that was read stays
\* what it is.
LEMMA OneMore ==
  ASSUME got \in Seq(Byte), Bounded, NeedsByte, NEW b \in Byte
  PROVE  LET more == Append(got, b)
         IN  Len(more) > 4 => Len(more) - 4 <= ByteArrayToInt(more)
<1> DEFINE more == Append(got, b)
<1>1. /\ Len(got) \in Nat /\ Len(more) = Len(got) + 1
      /\ \A i \in 1 .. Len(got) : more[i] = got[i]
  BY LenProperties, AppendProperties
<1> HIDE DEF more
<1> SUFFICES ASSUME Len(more) > 4 PROVE Len(more) - 4 <= ByteArrayToInt(more)
  BY DEF more
<1>2. Len(got) >= 4
  BY <1>1
<1>3. \A i \in 1 .. 4 : more[i] = got[i]
  BY <1>1, <1>2
<1>4. ByteArrayToInt(more) = ByteArrayToInt(got)
  BY <1>3, HeaderFirstFour
<1>5. ByteArrayToInt(got) \in Int
  BY <1>2, HeaderIsInt
<1>6. Len(got) - 4 < ByteArrayToInt(got)
  BY <1>1, <1>2 DEF NeedsByte, Size
<1> QED
  BY <1>1, <1>4, <1>5, <1>6

\* A byte moves from the wire to the reader, or the end is read where nothing
\* is left.
LEMMA ReadByteStep ==
  ASSUME IInv, ReadByte
  PROVE  IInv'
<1>1. TypeOK'
  BY TypeStep DEF IInv, Next, Read
<1>2. got \in Seq(Byte) /\ wire \in Seq(Byte) /\ inflight \in Seq(Token) /\ padding \in Nat
  BY DEF IInv, TypeOK
<1>3. reading /\ NeedsByte /\ reading'
      /\ UNCHANGED <<ended, writer, answer, padded, reads, inflight, clean>>
  BY DEF ReadByte
<1>4. CASE wire # <<>>
  <2>1. got' = Append(got, Head(wire)) /\ wire' = Tail(wire) /\ padding' = padding
    BY <1>4 DEF ReadByte
  <2>2. Head(wire) \in Byte /\ Tail(wire) \in Seq(Byte)
    BY <1>2, <1>4, HeadTailProperties
  <2>3. got' \o wire' = got \o wire
    <3>1. Append(got, Head(wire)) = got \o <<Head(wire)>>
      BY <1>2, <2>2, AppendIsConcat
    <3>2. wire = <<Head(wire)>> \o Tail(wire) /\ <<Head(wire)>> \in Seq(Byte)
      BY <1>2, <1>4, <2>2
    <3>3. (got \o <<Head(wire)>>) \o Tail(wire) = got \o (<<Head(wire)>> \o Tail(wire))
      BY <1>2, <2>2, <3>2, ConcatAssociative
    <3> QED
      BY <2>1, <3>1, <3>2, <3>3
  <2>4. padding = 0
    BY <1>2, <1>4 DEF IInv, AtEnd
  <2>5. Framed' /\ Whole'
    BY <1>3, <2>1, <2>3 DEF IInv, Framed, Whole, writer
  <2>6. Bounded'
    BY <1>2, <1>3, <2>1, <2>2, OneMore DEF IInv, Bounded, Size
  <2>7. AtRest' /\ Connected' /\ AtEnd' /\ CleanEndIsNull'
    BY <1>3, <2>1, <2>4 DEF IInv, AtRest, Connected, AtEnd, CleanEndIsNull
  <2> QED
    BY <1>1, <2>5, <2>6, <2>7 DEF IInv
<1>5. CASE wire = <<>>
  <2>1. ended /\ got' = Append(got, Base - 1) /\ wire' = wire /\ padding' = padding + 1
    BY <1>5 DEF ReadByte
  <2>2. inflight = <<>>
    <3> SUFFICES ASSUME inflight # <<>> PROVE FALSE
      OBVIOUS
    <3>1. PICK r, w : /\ r \in Seq(Byte)
                       /\ Joins(got, <<>>, w) /\ Joins(Frames(inflight), r, w)
      BY <1>5, <2>1, InStream
    <3>2. <<>> \in Seq(Byte)
      BY EmptySeq
    <3>3. /\ Len(got) >= 4 => ByteArrayToInt(got) = Len(Head(inflight))
          /\ Len(got) >= 4 + Len(Head(inflight)) /\ Head(inflight) \in Token
      BY <1>2, <3>1, <3>2, FirstToken
    <3>4. Len(Head(inflight)) \in Nat /\ Len(got) \in Nat
      BY <1>2, <3>3, TokensAreBytes, LenProperties
    <3> QED
      BY <1>3, <3>3, <3>4 DEF NeedsByte, Size
  <2>3. /\ Len(got) \in Nat /\ Len(got') = Len(got) + 1 /\ got'[Len(got) + 1] = Base - 1
        /\ \A i \in 1 .. Len(got) : got'[i] = got[i]
    BY <1>2, <2>1, LastByte, LenProperties, AppendProperties
  <2>4. ASSUME clean
        PROVE  /\ Len(got') = padding + 1 /\ padding + 1 <= 4
               /\ \A i \in 1 .. Len(got') : got'[i] = Base - 1
    <3>1. Len(got) = padding /\ \A i \in 1 .. Len(got) : got[i] = Base - 1
      <4>1. CASE padding > 0
        BY <2>4, <4>1 DEF IInv, AtEnd
      <4>2. CASE padding = 0
        <5>1. PICK rest \in Seq(Byte) : got \o wire = Frames(inflight) \o rest /\ rest = <<>>
          BY <2>1, <2>4, <4>2 DEF IInv, Whole
        <5>2. Frames(inflight) = <<>>
          BY <1>2, <2>2, FramesOfTokens
        <5>3. got \o <<>> = <<>> \o <<>>
          BY <1>5, <5>1, <5>2
        <5>4. got = <<>>
          BY <1>2, <5>3, ConcatEmptySeq
        <5> QED
          BY <4>2, <5>4, EmptySeq
      <4> QED
        BY <1>2, <4>1, <4>2
    <3>2. Len(got) < 4
      <4> SUFFICES ASSUME Len(got) >= 4 PROVE FALSE
        BY <2>3
      <4>1. \A i \in 1 .. 4 : got[i] = Base - 1
        BY <2>3, <3>1
      <4>2. Size = -1
        BY <4>1, HeaderOfEnd DEF Size
      <4> QED
        BY <1>3, <2>3, <4>2 DEF NeedsByte
    <3> QED
      BY <1>2, <2>3, <3>1, <3>2
  <2>5. AtEnd'
    BY <1>2, <1>3, <1>5, <2>1, <2>2, <2>4 DEF AtEnd
  <2>6. Bounded'
    BY <1>2, <1>3, <2>1, LastByte, OneMore DEF IInv, Bounded, Size
  <2>7. Framed' /\ Whole' /\ AtRest' /\ Connected' /\ CleanEndIsNull'
    BY <1>2, <1>3, <2>1 DEF IInv, Framed, Whole, AtRest, Connected, CleanEndIsNull
  <2> QED
    BY <1>1, <2>5, <2>6, <2>7 DEF IInv
<1> QED
  BY <1>4, <1>5


\* ReadToken returns the first token if there is one.
LEMMA Returned ==
  ASSUME IInv, ReturnToken, inflight # <<>>
  PROVE  /\ Size = Len(Head(inflight)) /\ Size >= 0 /\ got = Frame(Head(inflight))
         /\ padding = 0 /\ Tail(inflight) \in Seq(Token)
         /\ answer' = Head(inflight)
         /\ \E x \in Seq(Byte), r \in Seq(Byte) :
              /\ Joins(Frames(Tail(inflight)), r, x)
              /\ ended => x = wire
              /\ ~ended => r = <<>> /\ Joins(wire, More, x)
              /\ clean => r = <<>>
<1>1. got \in Seq(Byte) /\ inflight \in Seq(Token) /\ Len(got) \in Nat
  BY LenProperties DEF IInv, TypeOK
<1>2. PICK x, r, w :
        /\ x \in Seq(Byte) /\ r \in Seq(Byte)
        /\ Joins(got, x, w) /\ Joins(Frames(inflight), r, w)
        /\ ended => x = wire
        /\ ~ended => r = <<>> /\ Joins(wire, More, x)
        /\ clean => r = <<>>
  BY InStream
<1>3. /\ Head(inflight) \in Token /\ Tail(inflight) \in Seq(Token)
      /\ Len(got) >= 4 => ByteArrayToInt(got) = Len(Head(inflight))
      /\ Len(got) = 4 + Len(Head(inflight))
           => got = Frame(Head(inflight)) /\ Joins(Frames(Tail(inflight)), r, x)
  BY <1>1, <1>2, FirstToken
<1>4. Len(Head(inflight)) \in Nat
  BY <1>3, TokensAreBytes, LenProperties
<1>5. Len(got) >= 4 /\ ~ (Len(got) - 4 < Size)
  BY <1>1 DEF ReturnToken, NeedsByte
<1>6. Size = Len(Head(inflight))
  BY <1>3, <1>5 DEF Size
<1>7. Len(got) = 4 + Len(Head(inflight))
  BY <1>1, <1>4, <1>5, <1>6 DEF IInv, Bounded
<1>8. SubSeq(got, 5, Len(got)) = Head(inflight)
  BY <1>3, <1>7, FrameOfToken
<1>9. answer' = Head(inflight)
  BY <1>4, <1>6, <1>8 DEF ReturnToken, Return
<1> QED
  BY <1>2, <1>3, <1>4, <1>6, <1>7, <1>9, InStream

\* It returns without one only when the connection has ended.
LEMMA EmptyEnds ==
  ASSUME IInv, ReturnToken, inflight = <<>>
  PROVE  ended
<1> SUFFICES ASSUME ~ended PROVE FALSE
  OBVIOUS
<1>1. got \in Seq(Byte) /\ wire \in Seq(Byte) /\ Len(got) \in Nat
  BY LenProperties DEF IInv, TypeOK
<1>2. (got \o wire) \o More = <<>>
  BY FramesOfTokens DEF IInv, Framed, More, TypeOK
<1>3. More \in Seq(Byte) /\ got \o wire \in Seq(Byte)
  BY <1>1, TokensAreBytes, ConcatProperties, EmptySeq DEF IInv, TypeOK, More
<1>4. got \o wire = <<>>
  BY <1>2, <1>3, ConcatEqualIffEmpty
<1>5. got = <<>>
  BY <1>1, <1>4, ConcatEqualIffEmpty
<1>6. Len(got) >= 4
  BY <1>1 DEF ReturnToken, NeedsByte
<1> QED
  BY <1>5, <1>6, EmptySeq

\* A return takes the first token out of the stream.
LEMMA ReturnStep ==
  ASSUME IInv, ReturnToken
  PROVE  IInv'
<1>1. TypeOK'
  BY TypeStep DEF IInv, Next, Read
<1>2. /\ got \in Seq(Byte) /\ wire \in Seq(Byte) /\ inflight \in Seq(Token)
      /\ padding \in Nat /\ Len(got) \in Nat /\ <<>> \in Seq(Byte)
  BY LenProperties, EmptySeq DEF IInv, TypeOK
<1>3. /\ reading /\ ~NeedsByte /\ ~reading' /\ got' = <<>> /\ padding' = 0 /\ padded' = padding
      /\ inflight' = (IF inflight = <<>> THEN <<>> ELSE Tail(inflight))
      /\ UNCHANGED <<wire, ended, writer, reads, clean>>
  BY DEF ReturnToken, Return
<1>4. Len(got) >= 4
  BY <1>2, <1>3 DEF NeedsByte
<1>5. AtRest' /\ Bounded' /\ AtEnd'
  BY <1>3, EmptySeq DEF AtRest, Bounded, AtEnd
<1>6. Connected'
  BY <1>3 DEF IInv, Connected
<1>7. CASE inflight # <<>>
  <2>1. inflight' = Tail(inflight) /\ padding = 0 /\ Tail(inflight) \in Seq(Token)
    BY <1>3, <1>7, Returned
  <2>2. PICK x \in Seq(Byte), r \in Seq(Byte) :
          /\ Joins(Frames(Tail(inflight)), r, x)
          /\ ended => x = wire
          /\ ~ended => r = <<>> /\ Joins(wire, More, x)
          /\ clean => r = <<>>
    BY <1>7, Returned
  <2>3. <<>> \o wire = wire /\ Frames(Tail(inflight)) \in Seq(Byte)
    BY <1>2, <2>1, FramesOfTokens, ConcatEmptySeq
  <2>4. Whole'
    <3> SUFFICES ASSUME ended'
                 PROVE  \E rest \in Seq(Byte) : /\ got' \o wire' = Frames(inflight') \o rest
                                                /\ clean' => rest = <<>>
      BY DEF Whole
    <3>1. Frames(Tail(inflight)) \o r = wire
      BY <1>3, <2>2 DEF Joins
    <3> QED
      BY <1>3, <2>1, <2>2, <2>3, <3>1
  <2>5. Framed'
    <3> SUFFICES ASSUME ~ended'
                 PROVE  got' \o wire' \o (IF body' = Null THEN <<>> ELSE body')
                          = Frames(inflight')
      BY DEF Framed
    <3>1. wire \o More = Frames(Tail(inflight)) \o <<>>
      BY <1>3, <2>2 DEF Joins
    <3>2. Frames(Tail(inflight)) \o <<>> = Frames(Tail(inflight))
      BY <2>3, ConcatEmptySeq
    <3>3. body' = body
      BY <1>3 DEF writer
    <3> QED
      BY <1>3, <2>1, <2>3, <3>1, <3>2, <3>3 DEF More
  <2>6. CleanEndIsNull'
    BY <1>3, <2>1 DEF CleanEndIsNull
  <2> QED
    BY <1>1, <1>5, <1>6, <2>4, <2>5, <2>6 DEF IInv
<1>8. CASE inflight = <<>>
  <2>1. inflight' = <<>> /\ Frames(inflight) = <<>>
    BY <1>2, <1>3, <1>8, FramesOfTokens
  <2>2. ended
    BY <1>8, EmptyEnds
  <2>3. clean => padding > 0
    <3> SUFFICES ASSUME clean, padding = 0 PROVE FALSE
      BY <1>2
    <3>1. PICK rest \in Seq(Byte) : got \o wire = Frames(inflight) \o rest /\ rest = <<>>
      BY <2>2 DEF IInv, Whole
    <3>2. got \o wire = <<>>
      BY <1>2, <2>1, <3>1, ConcatEmptySeq
    <3>3. got = <<>>
      BY <1>2, <3>2, ConcatEqualIffEmpty
    <3> QED
      BY <1>4, <3>3, EmptySeq
  <2>4. Whole'
    <3> SUFFICES \E rest \in Seq(Byte) : /\ got' \o wire' = Frames(inflight') \o rest
                                         /\ clean' => rest = <<>>
      BY DEF Whole
    <3>1. wire' \in Seq(Byte) /\ (clean' => wire' = <<>>)
      BY <1>2, <1>3, <2>3 DEF IInv, AtEnd
    <3>2. got' \o wire' = Frames(inflight') \o wire'
      BY <1>3, <1>8, <2>1
    <3> QED
      BY <3>1, <3>2
  <2>5. Framed'
    BY <1>3, <2>2 DEF Framed
  <2>6. CleanEndIsNull'
    <3> SUFFICES ASSUME clean', padded' > 0 PROVE answer' = Null
      BY DEF CleanEndIsNull
    <3>1. clean /\ padding > 0
      BY <1>3
    <3>2. Len(got) = padding /\ padding <= 4 /\ \A i \in 1 .. Len(got) : got[i] = Base - 1
      BY <3>1 DEF IInv, AtEnd
    <3>3. \A i \in 1 .. 4 : got[i] = Base - 1
      BY <1>2, <1>4, <3>2
    <3>4. Size = -1
      BY <3>3, HeaderOfEnd DEF Size
    <3> QED
      BY <3>4 DEF ReturnToken, Return
  <2> QED
    BY <1>1, <1>5, <1>6, <2>4, <2>5, <2>6 DEF IInv
<1> QED
  BY <1>7, <1>8

\* An IOException leaves nothing to be read.
LEMMA ErrorStep ==
  ASSUME IInv, ReadError
  PROVE  IInv'
<1>1. TypeOK'
  BY TypeStep DEF IInv, Next
<1>2. /\ ended /\ ended' /\ ~reading' /\ answer' = Null /\ got' = <<>> /\ padding' = 0
      /\ wire' = <<>> /\ inflight' = <<>>
  BY DEF ReadError, Return
<1>3. Whole'
  <2>1. Frames(<<>>) = <<>> /\ <<>> \in Seq(Byte)
    BY FramesOfTokens, EmptySeq
  <2> QED
    BY <1>2, <2>1 DEF Whole
<1>4. AtRest' /\ Bounded' /\ Connected' /\ AtEnd' /\ CleanEndIsNull' /\ Framed'
  BY <1>2, EmptySeq DEF AtRest, Bounded, Connected, AtEnd, CleanEndIsNull, Framed
<1> QED
  BY <1>1, <1>3, <1>4 DEF IInv

\* The end of the connection leaves the frames of some tokens, and the beginning
\* of another one unless it is clean.
LEMMA EndStep ==
  ASSUME IInv, EndConnection
  PROVE  IInv'
<1>1. TypeOK'
  BY TypeStep DEF IInv, Next
<1>2. /\ got \in Seq(Byte) /\ wire \in Seq(Byte) /\ inflight \in Seq(Token)
      /\ Len(got) \in Nat /\ Len(wire) \in Nat
  BY LenProperties DEF IInv, TypeOK
<1>3. ~ended /\ ended' /\ UNCHANGED <<writer, reader>>
  BY DEF EndConnection
<1>4. PICK kept \in 0 .. Len(wire) :
        /\ wire' = SubSeq(wire, 1, kept)
        /\ inflight' = SubSeq(inflight, 1, WholeTokens(Len(got) + kept))
        /\ clean' = (Len(got) + kept = Len(Frames(inflight')))
  BY DEF EndConnection
<1>5. PICK whole \in 0 .. Len(inflight) :
        /\ whole = WholeTokens(Len(got) + kept)
        /\ Len(Frames(SubSeq(inflight, 1, whole))) <= Len(got) + kept
  <2>1. Len(got) + kept \in Nat
    BY <1>2
  <2> QED
    BY <1>2, <2>1, WholeTokensExist
<1>6. PICK y \in Seq(Byte) : Joins(Frames(inflight'), y, Frames(inflight))
  BY <1>2, <1>4, <1>5, FramesOfTokens DEF Joins
<1>7. /\ wire' \in Seq(Byte) /\ inflight' \in Seq(Token) /\ Frames(inflight') \in Seq(Byte)
      /\ Len(wire') = kept
  <2>1. wire' \in Seq(Byte) /\ inflight' \in Seq(Token)
    BY <1>1 DEF TypeOK
  <2>2. Frames(inflight') \in Seq(Byte)
    BY <2>1, FramesOfTokens
  <2>3. Len(SubSeq(wire, 1, kept)) = kept
    BY <1>2
  <2> QED
    BY <1>4, <2>1, <2>2, <2>3
<1>8. PICK x \in Seq(Byte) : Joins(wire', x, wire)
  <2>1. SubSeq(wire, kept + 1, Len(wire)) \in Seq(Byte)
    BY <1>2
  <2>2. SubSeq(wire, 1, kept) \o SubSeq(wire, kept + 1, Len(wire)) = SubSeq(wire, 1, Len(wire))
    <3>1. 1 \in 1 .. Len(wire) + 1 /\ kept \in 1 - 1 .. Len(wire) /\ Len(wire) \in kept .. Len(wire)
      BY <1>2
    <3> QED
      BY <1>2, <3>1, ConcatAdjacentSubSeq
  <2>3. SubSeq(wire, 1, Len(wire)) = wire
    BY <1>2, SubSeqFull
  <2> QED
    BY <1>4, <2>1, <2>2, <2>3 DEF Joins
<1>9. PICK read \in Seq(Byte), rest \in Seq(Byte) :
        Joins(got, wire', read) /\ Joins(read, rest, Frames(inflight))
  <2>1. PICK m, gw : /\ m \in Seq(Byte)
                        /\ Joins(got, wire, gw) /\ Joins(gw, m, Frames(inflight))
    <3>1. (got \o wire) \o More = Frames(inflight)
      BY <1>3 DEF IInv, Framed, More
    <3>2. More \in Seq(Byte)
      BY TokensAreBytes, EmptySeq DEF IInv, TypeOK, More
    <3> QED
      BY <3>1, <3>2, Zenon DEF Joins
  <2>2. PICK read, rest : Joins(got, wire', read) /\ Joins(x, m, rest)
    BY DEF Joins
  <2>3. read \in Seq(Byte) /\ rest \in Seq(Byte)
    <3>1. m \in Seq(Byte)
      BY <2>1
    <3> QED
      BY <1>2, <1>7, <2>2, <3>1, Joined
  <2>4. Joins(read, x, gw)
    BY <1>2, <1>7, <1>8, <2>1, <2>2, Associative
  <2>5. Joins(read, rest, Frames(inflight))
    <3>1. m \in Seq(Byte) /\ Joins(gw, m, Frames(inflight)) /\ Joins(x, m, rest)
      BY <2>1, <2>2
    <3> QED
      BY <2>3, <2>4, <3>1, Associative
  <2> QED
    BY <2>2, <2>3, <2>5
<1>10. Len(read) = Len(got) + kept /\ Len(Frames(inflight')) <= Len(read)
  <2>1. Len(read) = Len(got) + Len(wire')
    BY <1>2, <1>7, <1>9, Joined
  <2> QED
    BY <1>4, <1>5, <1>7, <2>1
<1>11. PICK z \in Seq(Byte) : Joins(Frames(inflight'), z, read)
  BY <1>6, <1>7, <1>9, <1>10, CommonBeginning
<1>12. clean' => z = <<>>
  <2> SUFFICES ASSUME clean' PROVE z = <<>>
    OBVIOUS
  <2>1. Len(read) = Len(Frames(inflight')) + Len(z) /\ Len(read) = Len(Frames(inflight'))
    <3>1. Len(read) = Len(Frames(inflight')) + Len(z)
      BY <1>7, <1>11, Joined
    <3> QED
      BY <1>4, <1>10, <3>1
  <2>2. Len(z) = 0
    BY <1>7, <2>1, LenProperties
  <2> QED
    BY <2>2, EmptySeq
<1>13. Whole'
  BY <1>3, <1>9, <1>11, <1>12, Zenon DEF Whole, reader, Joins
<1>14. AtRest' /\ Bounded' /\ AtEnd' /\ CleanEndIsNull' /\ Framed' /\ Connected'
  BY <1>3 DEF IInv, AtRest, Bounded, Size, AtEnd, CleanEndIsNull, Framed, Connected, reader
<1> QED
  BY <1>1, <1>13, <1>14 DEF IInv

\* The invariant is inductive.
LEMMA Inductive == IInv /\ [Next]_vars => IInv'
<1> SUFFICES ASSUME IInv, [Next]_vars PROVE IInv'
  OBVIOUS
<1>1. ASSUME NEW token \in Token, WriteHeader(token) PROVE IInv'
  BY <1>1, HeaderStep
<1>2. CASE WriteBody
  BY <1>2, BodyStep
<1>3. CASE WriteAfterEnd \/ CallReadToken \/ UNCHANGED vars
  BY <1>3, QuietSteps
<1>4. CASE ReadByte
  BY <1>4, ReadByteStep
<1>5. CASE ReturnToken
  BY <1>5, ReturnStep
<1>6. CASE ReadError
  BY <1>6, ErrorStep
<1>7. CASE EndConnection
  BY <1>7, EndStep
<1> QED
  BY <1>1, <1>2, <1>3, <1>4, <1>5, <1>6, <1>7 DEF Next, Read

\* It holds where nothing was written.
LEMMA InitiallyInv == Init => IInv
<1> SUFFICES ASSUME Init PROVE IInv
  OBVIOUS
<1>1. Frames(<<>>) = <<>> /\ <<>> \in Seq(Byte)
  BY FramesOfTokens, EmptySeq
<1>2. <<>> \o <<>> = <<>>
  BY <1>1, ConcatEmptySeq
<1>3. Framed
  BY <1>1, <1>2 DEF Init, Framed
<1>4. AtRest /\ Bounded /\ Connected /\ Whole /\ AtEnd /\ CleanEndIsNull
  BY EmptySeq DEF Init, AtRest, Bounded, Connected, Whole, AtEnd, CleanEndIsNull
<1> QED
  BY <1>3, <1>4, TypeInit DEF IInv

\* As long as the connection lasts the reader is in step with the writer, whatever
\* the tokens contain, and a connection that ends between two tokens is reported
\* as a null reference although its end is read as bytes.
THEOREM InStep == Spec => [](Framed /\ CleanEndIsNull)
<1>1. IInv => Framed /\ CleanEndIsNull
  BY DEF IInv
<1> QED
  BY <1>1, InitiallyInv, Inductive, PTL DEF Spec

-----------------------------------------------------------------------------
(* The refinement *)

\* Every step of the two ends is one of the channel's, or changes nothing that
\* it promises.
LEMMA ChannelStep ==
  IInv /\ [Next]_vars => [Channel!Next]_<<inflight, ended, answer>>
<1> SUFFICES ASSUME IInv, [Next]_vars
             PROVE  [Channel!Next]_<<inflight, ended, answer>>
  OBVIOUS
<1>1. ASSUME NEW token \in Token, WriteHeader(token) PROVE Channel!Offer
  BY <1>1 DEF WriteHeader, reader, Channel!Offer
<1>2. CASE WriteBody \/ WriteAfterEnd \/ CallReadToken \/ ReadByte \/ UNCHANGED vars
  BY <1>2 DEF WriteBody, WriteAfterEnd, CallReadToken, ReadByte, vars, reader
<1>3. CASE ReturnToken
  <2>1. ended' = ended
    BY <1>3 DEF ReturnToken
  <2>2. CASE inflight # <<>>
    <3>1. inflight' = Tail(inflight) /\ answer' = Head(inflight)
      BY <1>3, <2>2, Returned DEF ReturnToken
    <3>2. Channel!Deliver
      BY <2>1, <2>2, <3>1 DEF Channel!Deliver
    <3> QED
      BY <3>2 DEF Channel!Next
  <2>3. CASE inflight = <<>>
    <3>1. inflight' = <<>>
      BY <1>3, <2>3 DEF ReturnToken
    <3>2. ended
      BY <1>3, <2>3, EmptyEnds
    <3>3. answer' = Null \/ answer' \in Seq(Byte)
      BY <1>3, ReturnStep DEF IInv, TypeOK
    <3>4. Channel!Refuse \/ Channel!Fill
      BY <2>1, <2>3, <3>1, <3>2, <3>3 DEF Channel!Refuse, Channel!Fill
    <3> QED
      BY <3>4 DEF Channel!Next
  <2> QED
    BY <2>2, <2>3
<1>4. CASE ReadError
  BY <1>4 DEF ReadError, Return, Channel!Next, Channel!Refuse
<1>5. CASE EndConnection
  <2>1. PICK kept \in 0 .. Len(wire) :
          inflight' = SubSeq(inflight, 1, WholeTokens(Len(got) + kept))
    BY <1>5 DEF EndConnection
  <2>2. WholeTokens(Len(got) + kept) \in 0 .. Len(inflight)
    <3>1. Len(got) + kept \in Nat
      BY LenProperties DEF IInv, TypeOK
    <3> QED
      BY <3>1, WholeTokensExist DEF IInv, TypeOK
  <2>3. Channel!Lose
    BY <1>5, <2>1, <2>2 DEF EndConnection, reader, Channel!Lose
  <2> QED
    BY <2>3 DEF Channel!Next
<1> QED
  BY <1>1, <1>2, <1>3, <1>4, <1>5 DEF Next, Read, Channel!Next

\* The two loops and the header keep the channel's promise to their callers:
\* tokens arrive whole, once each, in their order, and only after the last whole
\* one may ReadToken answer with anything else.
THEOREM ImplementsChannel == Spec => RefinesChannel
<1>1. Init => Channel!Init
  BY DEF Init, Channel!Init
<1> QED
  BY <1>1, InitiallyInv, Inductive, ChannelStep, PTL DEF Spec, RefinesChannel, Channel!Spec
=============================================================================
