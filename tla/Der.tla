-------------------------------- MODULE Der --------------------------------
(***************************************************************************)
(* DER in and out of the Java GSS-API: the tokens that initSecContext and  *)
(* acceptSecContext take from a stream (DerUtil, DerHeader), the object    *)
(* identifiers read from it, and Oid objects made from strings, from DER   *)
(* and from native values, with OidUtil's own encoder.                     *)
(*                                                                         *)
(* A dotted string is a sequence of arcs.  read() blocks until there is a  *)
(* byte, and is -1 at the end of the stream.  External: the native value   *)
(* of an Oid, which is its DER content and is always encoded rightly.      *)
(***************************************************************************)
EXTENDS Integers, Sequences, SequencesExt

CONSTANTS
  Value,     \* the object identifiers in use
  Token,     \* the tokens a peer sends, as bytes
  Obj,       \* variables of the application that hold an Oid
  Null,      \* the Java null reference
  IntRange,  \* the values of a Java int (2^32)
  MaxItems   \* bound: items sent on the stream

VARIABLES
  coming,    \* bytes sent that have not arrived
  stream,    \* bytes arrived and not read
  ended,     \* will no more arrive?
  items,     \* history: the items sent, without what has been read of them
  place,     \* history: does the stream stand between two items ("item"),
             \* within a token that was rejected ("within"), or has a read
             \* begun within one ("lost")?
  clear,     \* history: does no token rejected so far hold another 0x60?
  sends,     \* how many items were sent
  lastRead,  \* the last item read: what it was and what the caller got
  oid        \* the Oid objects: native value and stored DER

history == <<items, place, clear>>
vars == <<coming, stream, ended, history, sends, lastRead, oid>>

Byte(b) == b % 256       \* what ByteArrayOutputStream.write(int) keeps

JavaInt(n) == ((n + (IntRange \div 2)) % IntRange) - (IntRange \div 2)

-----------------------------------------------------------------------------
(* Object identifiers *)

\* X.690: base 128, most significant digit first, all but the last marked.
Base128(v) ==
  IF v < 128 THEN <<v>>
  ELSE IF v < 16384 THEN <<128 + (v \div 128), v % 128>>
  ELSE IF v < 2097152
    THEN <<128 + (v \div 16384), 128 + ((v \div 128) % 128), v % 128>>
    ELSE <<128 + (v \div 2097152), 128 + ((v \div 16384) % 128),
           128 + ((v \div 128) % 128), v % 128>>

Native(value) ==
  FlattenSeq(<<Base128(40 * value[1] + value[2])>>
             \o [i \in 1 .. Len(value) - 2 |-> Base128(value[i + 2])])

\* The low two digits: `major' counts what is above 2048, in sixteenths.
LowDigits(octet) ==
  LET major == IF octet \in 2048 .. 16383 THEN 8 + (octet \div 2048) ELSE 8
      rest  == IF octet \in 2048 .. 16383 THEN octet % 2048 ELSE octet
  IN  <<Byte(16 * major + (rest \div 128)), rest % 128>>

EncodeArcShort(v) ==                 \* mutant: no third digit
  IF v <= 127 THEN <<v>> ELSE LowDigits(v)

\* The third digit is not taken off before the low two are made.
EncodeArc(v) ==
  LET octet == v % 262144
  IN  IF v <= 127 THEN <<v>>
      ELSE IF v <= 16383 THEN LowDigits(v)
      ELSE <<Byte(16 * (8 + (v \div 262144)) + (octet \div 16384))>> \o LowDigits(octet)

OidString2DER(value) ==
  LET content == FlattenSeq(<<<<Byte(40 * value[1] + value[2])>>>>
                            \o [i \in 1 .. Len(value) - 2 |-> EncodeArc(value[i + 2])])
  IN  <<6, Byte(Len(content))>> \o content

Enclosed(content) == <<6, Len(content)>> \o content

\* Identifiers and tokens are made of bytes; one byte holds the length of an
\* identifier.
ASSUME Bytes ==
  /\ Token \subseteq Seq(0 .. 255)
  /\ \A v \in Value : /\ v \in Seq(Nat) /\ Len(v) >= 2
                      /\ Native(v) \in Seq(0 .. 255) /\ Len(Native(v)) < 128
  /\ Null \notin Seq(Nat)
  /\ IntRange \in Nat \ {0}

\* What OidString2DER can encode: a first byte, and arcs of at most three
\* digits whose third digit is even.
Encodable(v) ==
  /\ 40 * v[1] + v[2] < 128
  /\ \A i \in 3 .. Len(v) : v[i] < 2097152 /\ (v[i] \div 16384) % 2 = 0

\* The library prints a native value as its arcs; toString() only takes off the
\* braces and puts dots for the blanks.
DotString(native) == CHOOSE v \in Value : Native(v) = native

GetDER(o) ==
  IF oid[o].der # Null THEN oid[o].der ELSE OidString2DER(DotString(oid[o].native))

Equals(o, p) == GetDER(o) = GetDER(p)

\* A signed byte: a content of 128 bytes or more is never taken.
VerifyOid(der) == der[1] = 6 /\ der[2] < 128 /\ Len(der) - 2 = der[2]

-----------------------------------------------------------------------------
(* Reading *)

ReadAt(i) == IF i <= Len(stream) THEN stream[i] ELSE -1

ReadBytes(n) == [i \in 1 .. n |-> Byte(ReadAt(i))]

\* length << 8 | b, where b may be -1
ShiftIn(length, b) == IF b = -1 THEN -1 ELSE JavaInt(256 * length + b)

\* The bytes of a long length.
BigEndian(bytes) == FoldLeft(ShiftIn, 0, bytes)

GetHeaderShort ==                    \* mutant: the first length byte is all
  [size |-> 2, length |-> ReadAt(2) % 128]

GetHeader ==
  LET b     == ReadAt(2)
      bytes == b - 128
  IN  IF b < 128 THEN [size |-> 2, length |-> b]
      ELSE [size   |-> 2 + bytes,
            length |-> BigEndian([i \in 1 .. bytes |-> ReadAt(2 + i)])]

\* How many bytes are read as a token, and as an object identifier.
TokenSize ==
  LET h == GetHeader
  IN  h.size + (IF h.length \in 1 .. (IntRange \div 2) - 1 THEN h.length ELSE 0)
OidSize   == IF ReadAt(2) > 0 THEN 2 + ReadAt(2) ELSE 2

\* External: the library that made a GSS-API token has put its length into its
\* header (RFC 2743, 3.1).  Other tokens are any bytes that do not start with
\* the tag.
ExactLength(t) ==
  LET bytes  == t[2] - 128
      size   == IF t[2] < 128 THEN 2 ELSE 2 + bytes
      length == IF t[2] < 128 THEN t[2]
                ELSE BigEndian([i \in 1 .. bytes |-> t[2 + i]])
  IN  /\ size <= Len(t)
      /\ Len(t) = size + (IF length \in 1 .. (IntRange \div 2) - 1 THEN length ELSE 0)

ASSUME Headers ==
  \A t \in Token : t # <<>> /\ (t[1] = 96 => Len(t) >= 2 /\ ExactLength(t))

Oldest == IF items = <<>> THEN <<>> ELSE Head(items)

\* The caller wants a token: one is next, or it does not know better.
TokenDue == place # "item" \/ Oldest \in Token

\* The read returns: its bytes are there, or no more will be.  It takes the
\* oldest item, unless it begins within one.
Reads(n) ==
  /\ n <= Len(stream) \/ ended
  /\ stream' = SubSeq(stream, n + 1, Len(stream))
  /\ lastRead' = [got |-> ReadBytes(n), item |-> Oldest, madeUp |-> n > Len(stream)]
  /\ IF place = "item" THEN items' = Tail(items) /\ place' = "item"
                       ELSE items' = <<>> /\ place' = "lost"
  /\ clear' = clear

-----------------------------------------------------------------------------
Nothing == [got |-> <<>>, item |-> <<>>, madeUp |-> FALSE]

Init ==
  /\ coming = <<>> /\ stream = <<>> /\ ended = FALSE
  /\ items = <<>> /\ place = "item" /\ clear = TRUE
  /\ sends = 0 /\ lastRead = Nothing
  /\ oid = [o \in Obj |-> Null]

Send ==
  /\ ~ended /\ sends < MaxItems /\ sends' = sends + 1
  /\ \E item \in Token \cup {Enclosed(Native(v)) : v \in Value} :
        /\ coming' = coming \o item
        /\ items' = IF place = "lost" THEN items ELSE Append(items, item)
  /\ UNCHANGED <<stream, ended, place, clear, lastRead, oid>>

Arrive ==
  /\ \E n \in {1, 2, 3, Len(coming)} \cap 1 .. Len(coming) :
       /\ stream' = stream \o SubSeq(coming, 1, n)
       /\ coming' = SubSeq(coming, n + 1, Len(coming))
  /\ UNCHANGED <<ended, history, sends, lastRead, oid>>

End ==
  /\ ~ended /\ ended' = TRUE /\ coming' = <<>>
  /\ UNCHANGED <<stream, history, sends, lastRead, oid>>

\* available() is asked once: nothing there yet means no token.
NoInputToken ==
  /\ stream = <<>>
  /\ lastRead' = Nothing
  /\ UNCHANGED <<coming, stream, ended, history, sends, oid>>

InputToken ==
  /\ stream # <<>> /\ Head(stream) = 96 /\ TokenDue
  /\ Reads(TokenSize)
  /\ UNCHANGED <<coming, ended, sends, oid>>

\* An exception after n bytes; the rest of the token stays in the stream.
Rejects(n) ==
  /\ stream # <<>> /\ Head(stream) # 96 /\ TokenDue
  /\ stream' = SubSeq(stream, n + 1, Len(stream)) /\ lastRead' = Nothing
  /\ clear' = (clear /\ (place = "item" => \A i \in 2 .. Len(Oldest) : Oldest[i] # 96))
  /\ \/ place = "lost" /\ UNCHANGED <<items, place>>
     \/ place # "lost" /\ Len(Oldest) = 1 /\ items' = Tail(items) /\ place' = "item"
     \/ /\ place # "lost" /\ Len(Oldest) > 1
        /\ items' = <<Tail(Oldest)>> \o Tail(items) /\ place' = "within"
  /\ UNCHANGED <<coming, ended, sends, oid>>

RejectTokenLate == Rejects(2)        \* mutant: the length is read before the tag is looked at

\* Another tag: that byte is gone.
RejectToken == Rejects(1)

-----------------------------------------------------------------------------
(* Oid objects *)

NewFromString ==
  /\ \E o \in Obj, v \in Value : oid' = [oid EXCEPT ![o] = [native |-> Native(v), der |-> Null]]
  /\ UNCHANGED <<coming, stream, ended, history, sends, lastRead>>

\* The bytes have been checked: the object keeps them, and their content.
Keep(o, der) == oid' = [oid EXCEPT ![o] = [native |-> SubSeq(der, 3, Len(der)), der |-> der]]

NewFromDER ==
  /\ \E o \in Obj, v \in Value : Keep(o, Enclosed(Native(v)))
  /\ UNCHANGED <<coming, stream, ended, history, sends, lastRead>>

NewFromStream ==
  /\ place = "lost" \/ (place = "item" /\ items # <<>> /\ Oldest \notin Token)
  /\ Reads(OidSize)
  /\ LET der == ReadBytes(OidSize)
     IN  IF VerifyOid(der) THEN \E o \in Obj : Keep(o, der) ELSE UNCHANGED oid
  /\ UNCHANGED <<coming, ended, sends>>

SetNativeOidKeepingDER ==            \* mutant: the stored encoding is not dropped
  /\ \E o, p \in Obj :
       /\ oid[o] # Null /\ oid[p] # Null
       /\ oid' = [oid EXCEPT ![o].native = oid[p].native]
  /\ UNCHANGED <<coming, stream, ended, history, sends, lastRead>>

\* The native value of one object given to another.
SetNativeOid ==
  /\ \E o, p \in Obj :
       /\ oid[o] # Null /\ oid[p] # Null
       /\ \E v \in Value : oid[p].native = Native(v)
       /\ oid' = [oid EXCEPT ![o] = [native |-> oid[p].native, der |-> Null]]
  /\ UNCHANGED <<coming, stream, ended, history, sends, lastRead>>

Next ==
  \/ Send \/ Arrive \/ End
  \/ NoInputToken \/ InputToken \/ RejectToken
  \/ NewFromString \/ NewFromDER \/ NewFromStream \/ SetNativeOid

Spec == Init /\ [][Next]_vars

-----------------------------------------------------------------------------
(* Properties *)

\* What a read returns is the oldest item sent, whole and nothing else, however
\* its length is written and however its bytes arrive; only after the end of
\* the stream may it hold bytes that were never sent.  This also goes for a
\* caller that repeats the call after each exception until a rejected token is
\* used up, unless that token holds a 0x60 after its first byte.
ItemsWhole == clear => lastRead.madeUp \/ lastRead.got = lastRead.item

\* Between two calls the stream stands at the beginning of an item, or at what
\* is left of the one token being rejected byte by byte, until a rejected token
\* holds a 0x60 after its first byte.
Aligned ==
  clear =>
    /\ place # "lost"
    /\ IF ended THEN IsPrefix(stream, FlattenSeq(items))
                ELSE stream \o coming = FlattenSeq(items)

\* The DER of an Oid is that of its native value, wherever the object came from
\* and whatever it stood for before.
EncodedRight ==
  \A o \in Obj : oid[o] # Null => GetDER(o) = Enclosed(oid[o].native)

\* Oid.java:169: equals() tells whether two objects "represent the same Oid
\* value".  Holds if no first byte is above 127 and every other arc is below
\* 2^21 with an even third digit; fails otherwise.
EqualMeansSame ==
  \A o, p \in Obj :
    oid[o] # Null /\ oid[p] # Null =>
      (Equals(o, p) <=> oid[o].native = oid[p].native)
=============================================================================
