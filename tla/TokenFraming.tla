---------------------------- MODULE TokenFraming ----------------------------
(***************************************************************************)
(* GssUtil.WriteToken and GssUtil.ReadToken: tokens over a byte stream,    *)
(* each as a four-byte signed size, most significant byte first, and that  *)
(* many bytes.  The two ends run concurrently; the connection may end at   *)
(* any byte.  At the end of the stream read() returns -1, which nobody     *)
(* tests and ByteArrayOutputStream.write() stores as the byte 0xFF.        *)
(*                                                                         *)
(* External: the connection.  Bytes arrive in order until it ends; then    *)
(* the reader sees the end of the stream or an IOException, and the writer *)
(* an IOException or nothing at all.                                       *)
(***************************************************************************)
EXTENDS Integers, Sequences, SequencesExt

CONSTANTS
  Base,      \* the values of a byte (256)
  Token,     \* the tokens the callers send, sequences of bytes
  Null,      \* the Java null reference
  MaxWrites, \* bound: calls of WriteToken
  MaxReads   \* bound: calls of ReadToken

ASSUME Parameters ==
  /\ Base \in Nat \ {0, 1} /\ Base % 2 = 0
  /\ Token \subseteq Seq(0 .. Base - 1)
  /\ \A t \in Token : 2 * Len(t) < Base * Base * Base * Base
  /\ Null \notin Seq(0 .. Base - 1)
  /\ MaxWrites \in Nat /\ MaxReads \in Nat

VARIABLES
  wire,      \* the bytes written and not yet read
  ended,     \* has the connection ended?
  body,      \* what WriteToken has still to write, Null outside it
  status,    \* what WriteToken returned last
  writes,    \* the calls of WriteToken
  reading,   \* is ReadToken running?
  got,       \* the bytes it has read, the header included
  padding,   \* history: how many of them were the end of the stream
  answer,    \* what ReadToken returned last
  padded,    \* history: the padding in that answer
  reads,     \* the calls of ReadToken
  inflight,  \* history: the tokens whose header was written, whose bytes were
             \* not lost, and which are not yet read
  clean      \* history: FALSE once the connection has ended inside a token

writer  == <<body, status, writes>>
reader  == <<reading, got, padding, answer, padded, reads>>
vars    == <<wire, ended, writer, reader, inflight, clean>>

Byte == 0 .. Base - 1

-----------------------------------------------------------------------------
(* The size header *)

IntToByteArrayLittleEndian(n) ==     \* mutant: least significant byte first
  <<n % Base, (n \div Base) % Base, (n \div (Base * Base)) % Base,
    (n \div (Base * Base * Base)) % Base>>

IntToByteArray(n) ==
  <<(n \div (Base * Base * Base)) % Base, (n \div (Base * Base)) % Base,
    (n \div Base) % Base, n % Base>>

ByteArrayToUnsigned(d) ==            \* mutant: without the sign of an int
  d[1] * (Base * Base * Base) + d[2] * (Base * Base) + d[3] * Base + d[4]

\* A Java int: sizes from half the range on are negative.
ByteArrayToInt(d) ==
  LET unsigned == d[1] * (Base * Base * Base) + d[2] * (Base * Base) + d[3] * Base + d[4]
  IN  IF 2 * unsigned < Base * Base * Base * Base
        THEN unsigned ELSE unsigned - Base * Base * Base * Base

Frame(token) == IntToByteArray(Len(token)) \o token

Frames(tokens) == FlattenSeq([i \in DOMAIN tokens |-> Frame(tokens[i])])

-----------------------------------------------------------------------------
Init ==
  /\ wire = <<>> /\ ended = FALSE
  /\ body = Null /\ status = 0 /\ writes = 0
  /\ reading = FALSE /\ got = <<>> /\ padding = 0 /\ answer = Null /\ padded = 0
  /\ reads = 0 /\ inflight = <<>> /\ clean = TRUE

-----------------------------------------------------------------------------
(* WriteToken *)

WriteHeader(token) ==
  /\ body = Null /\ writes < MaxWrites /\ ~ended
  /\ wire' = wire \o IntToByteArray(Len(token))
  /\ body' = token /\ writes' = writes + 1
  /\ inflight' = Append(inflight, token)
  /\ UNCHANGED <<ended, status, reader, clean>>

WriteBody ==
  /\ body # Null /\ ~ended
  /\ wire' = wire \o body
  /\ body' = Null /\ status' = 0
  /\ UNCHANGED <<ended, writes, reader, inflight, clean>>

\* Nothing written after the end arrives; either write may or may not throw.
WriteAfterEnd ==
  /\ ended
  /\ \/ body # Null /\ UNCHANGED writes
     \/ body = Null /\ writes < MaxWrites /\ writes' = writes + 1
  /\ body' = Null /\ status' \in {0, -1}
  /\ UNCHANGED <<wire, ended, reader, inflight, clean>>

-----------------------------------------------------------------------------
(* ReadToken *)

CallReadToken ==
  /\ ~reading /\ reads < MaxReads
  /\ reading' = TRUE /\ got' = <<>> /\ padding' = 0 /\ reads' = reads + 1
  /\ UNCHANGED <<wire, ended, writer, answer, padded, inflight, clean>>

Size == ByteArrayToInt(got)

\* The two loops: four bytes, then as many as they say.
NeedsByteOrMore ==                   \* mutant: one byte too many
  IF Len(got) < 4 THEN TRUE ELSE Len(got) - 4 <= Size

NeedsByte == IF Len(got) < 4 THEN TRUE ELSE Len(got) - 4 < Size

ReadByteUnconverted ==               \* mutant: the -1 is stored as it is
  /\ reading /\ NeedsByte
  /\ \/ /\ wire # <<>>
        /\ got' = Append(got, Head(wire)) /\ wire' = Tail(wire)
        /\ UNCHANGED padding
     \/ /\ wire = <<>> /\ ended
        /\ got' = Append(got, -1) /\ padding' = padding + 1
        /\ UNCHANGED wire
  /\ UNCHANGED <<ended, writer, reading, answer, padded, reads, inflight, clean>>

ReadByteWaiting ==                   \* mutant: waits for a byte that never comes
  /\ reading /\ NeedsByte /\ wire # <<>>
  /\ got' = Append(got, Head(wire)) /\ wire' = Tail(wire)
  /\ UNCHANGED <<ended, writer, reading, padding, answer, padded, reads, inflight,
                  clean>>

ReadByte ==
  /\ reading /\ NeedsByte
  /\ \/ /\ wire # <<>>
        /\ got' = Append(got, Head(wire)) /\ wire' = Tail(wire)
        /\ UNCHANGED padding
     \/ /\ wire = <<>> /\ ended
        /\ got' = Append(got, Base - 1) /\ padding' = padding + 1
        /\ UNCHANGED wire
  /\ UNCHANGED <<ended, writer, reading, answer, padded, reads, inflight, clean>>

Return(result) ==
  /\ reading' = FALSE /\ answer' = result
  /\ got' = <<>> /\ padding' = 0 /\ padded' = padding

\* A negative size is refused, any other is as long as it says.
ReturnToken ==
  /\ reading /\ ~NeedsByte
  /\ Return(IF Size < 0 THEN Null ELSE SubSeq(got, 5, Len(got)))
  /\ inflight' = IF inflight = <<>> THEN <<>> ELSE Tail(inflight)
  /\ UNCHANGED <<wire, ended, writer, reads, clean>>

\* An IOException: what was still to be read is gone.
ReadError ==
  /\ reading /\ NeedsByte /\ ended
  /\ Return(Null)
  /\ wire' = <<>> /\ inflight' = <<>>
  /\ UNCHANGED <<ended, writer, reads, clean>>

-----------------------------------------------------------------------------
(* The connection *)

\* The bytes of whole tokens among `length' bytes, the reader's included.
WholeTokens(length) ==
  CHOOSE k \in 0 .. Len(inflight) :
    /\ Len(Frames(SubSeq(inflight, 1, k))) <= length
    /\ k < Len(inflight) => Len(Frames(SubSeq(inflight, 1, k + 1))) > length

EndConnection ==
  /\ ~ended /\ ended' = TRUE
  /\ \E kept \in 0 .. Len(wire) :
       LET length == Len(got) + kept
           whole  == WholeTokens(length)
       IN  /\ wire' = SubSeq(wire, 1, kept)
           /\ inflight' = SubSeq(inflight, 1, whole)
           /\ clean' = (length = Len(Frames(inflight')))
  /\ UNCHANGED <<writer, reader>>

-----------------------------------------------------------------------------
Read == ReadByte \/ ReturnToken

Next ==
  \/ \E token \in Token : WriteHeader(token)
  \/ WriteBody \/ WriteAfterEnd
  \/ CallReadToken \/ Read \/ ReadError
  \/ EndConnection

\* A read() with a byte to read, or at the end of the stream, returns.
Spec == Init /\ [][Next]_vars /\ WF_vars(Read)

-----------------------------------------------------------------------------
(* Properties *)

\* Every variable keeps to its values; what ReadToken holds are bytes.
TypeOK ==
  /\ wire \in Seq(Byte) /\ ended \in BOOLEAN
  /\ body \in Token \cup {Null} /\ status \in {0, -1} /\ writes \in 0 .. MaxWrites
  /\ reading \in BOOLEAN /\ got \in Seq(Byte) /\ padding \in Nat
  /\ answer \in Seq(Byte) \cup {Null} /\ padded \in Nat /\ reads \in 0 .. MaxReads
  /\ inflight \in Seq(Token) /\ clean \in BOOLEAN

\* While the connection lasts, the bytes read of the current token and those on
\* the wire are exactly the frames of the tokens on their way (the last one
\* perhaps without its body): the reader never starts in the middle of a token.
Framed ==
  ~ended => got \o wire \o (IF body = Null THEN <<>> ELSE body) = Frames(inflight)

\* If the connection ended between two tokens, the end is reported as a null,
\* although it is read as bytes: four of them are a negative size.
CleanEndIsNull == clean /\ padded > 0 => answer = Null

\* A call of ReadToken returns once the connection has ended, however large the
\* size it has read.
ReadReturns == ended /\ reading ~> ~reading

\* Whatever the connection does, ReadToken answers with the tokens of WriteToken
\* in their order; only after the last whole one may it give anything else.
Channel == INSTANCE TokenChannel WITH queue <- inflight, Filler <- Seq(Byte)

RefinesChannel == Channel!Spec
=============================================================================
