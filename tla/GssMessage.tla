----------------------------- MODULE GssMessage -----------------------------
(***************************************************************************)
(* wrap, getMIC, unwrap and verifyMIC of GSSContextImpl with MessageProp:  *)
(* one direction of an established context.  A token is known by its       *)
(* sequence number, its place in `sent'.  The network may lose, repeat and *)
(* reorder tokens: any token written so far may be the next one read.      *)
(*                                                                         *)
(* External: the library.  Both kinds of token share one numbering; the    *)
(* receiver remembers the numbers it has seen and how far back it looks.   *)
(* A call that the library refuses to the sender changes nothing.          *)
(***************************************************************************)
EXTENDS Naturals, Sequences

CONSTANTS
  Msg,        \* the application's messages
  Window,     \* how many numbers back the receiver can tell new from seen
  MaxTokens,  \* bound: tokens made
  MaxReads    \* bound: messages received

ASSUME Bounds == Window \in Nat /\ MaxTokens \in Nat /\ MaxReads \in Nat

VARIABLES
  service,    \* replay and sequence detection, as negotiated
  sent,       \* the tokens made; `shown': the privacy in the
              \* sender's MessageProp after wrap()
  wire,       \* the numbers of those that the sender's stream took
  wprop,      \* the sender's MessageProp: privState
  last,       \* native receiver: the highest number accepted
  seen,       \* native receiver: the numbers accepted
  status,     \* the major status of the receiver's last native call
  rprop,      \* the receiver's MessageProp: privState, supplementary flags
  alarm,      \* history: an exception since the last message received?
  delivered   \* history: the messages received

sender   == <<sent, wire, wprop>>
native   == <<last, seen, status>>
receiver == <<native, rprop, alarm, delivered>>
vars     == <<service, sender, receiver>>

Supplementary == {"DUPLICATE_TOKEN", "OLD_TOKEN", "UNSEQ_TOKEN", "GAP_TOKEN"}
Status == Supplementary \cup {"COMPLETE", "DEFECTIVE_TOKEN"}
Kind   == {"wrap", "mic"}

Sequenced == "sequence" \in service

Init ==
  /\ service \in SUBSET {"replay", "sequence"}
  /\ sent = <<>> /\ wire = {} /\ wprop \in BOOLEAN
  /\ last = 0 /\ seen = {} /\ status = "COMPLETE"
  /\ \E b \in BOOLEAN : rprop = [privacy |-> b, supplementary |-> {}]
  /\ alarm = FALSE /\ delivered = <<>>

-----------------------------------------------------------------------------
(* The sender *)

\* The application sets the desired privacy, or takes a new MessageProp.
SetPrivacy ==
  /\ wprop' = ~wprop
  /\ UNCHANGED <<service, sent, wire, receiver>>

\* A token is made and numbered before the stream takes or refuses it.
Emit(token) ==
  /\ Len(sent) < MaxTokens
  /\ sent' = Append(sent, token)
  /\ wire' \in {wire, wire \cup {Len(sent) + 1}}
  /\ UNCHANGED <<service, receiver>>

WrapKeepingRequest ==                \* mutant: the state applied is not stored
  \E m \in Msg, applied \in {FALSE, wprop} :
    /\ wprop' = wprop
    /\ Emit([kind |-> "wrap", msg |-> m, conf |-> applied, shown |-> wprop'])

\* The library applies no privacy that was not asked for, and may apply none.
Wrap ==
  \E m \in Msg, applied \in {FALSE, wprop} :
    /\ wprop' = applied
    /\ Emit([kind |-> "wrap", msg |-> m, conf |-> applied, shown |-> wprop'])

GetMIC ==
  \E m \in Msg :
    /\ wprop' = wprop
    /\ Emit([kind |-> "mic", msg |-> m, conf |-> FALSE, shown |-> FALSE])

-----------------------------------------------------------------------------
(* The library's receiver *)

Recent(n) == n + Window > last

IfSequenced(s, otherwise) == IF Sequenced THEN s ELSE otherwise

OrderStatus(n) ==
  CASE service = {} \/ n = last + 1 -> "COMPLETE"
    [] service # {} /\ n > last + 1 -> IfSequenced("GAP_TOKEN", "COMPLETE")
    [] service # {} /\ n <= last /\ ~Recent(n) -> IfSequenced("UNSEQ_TOKEN", "OLD_TOKEN")
    [] service # {} /\ n <= last /\ Recent(n) ->
         IF n \in seen THEN "DUPLICATE_TOKEN" ELSE IfSequenced("UNSEQ_TOKEN", "COMPLETE")

\* Damaged tokens and tokens of the other kind are not numbered at all.
NativeStatus(n, genuine) == IF genuine THEN OrderStatus(n) ELSE "DEFECTIVE_TOKEN"

NativeCheck(n, genuine) ==
  /\ status' = NativeStatus(n, genuine)
  /\ IF genuine /\ service # {} /\ Recent(n)
       THEN seen' = seen \cup {n} /\ last' = IF n > last THEN n ELSE last
       ELSE UNCHANGED <<seen, last>>

-----------------------------------------------------------------------------
(* The receiver *)

ThrowsOnRoutineError(s) ==           \* mutant: the RFC's reading of a status
  s = "DEFECTIVE_TOKEN"

Throws(s) == s # "COMPLETE"

FlagsUnmasked(s) == {s}              \* mutant: any status is taken for a flag

Flags(s) == {s} \cap Supplementary

Receive(n, kind, m) ==
  /\ delivered' = Append(delivered,
       [number |-> n, kind |-> kind, msg |-> m,
        privacy |-> rprop'.privacy, afterError |-> alarm])
  /\ alarm' = FALSE

GetException == alarm' = TRUE /\ UNCHANGED delivered

OutputFailsSilently ==               \* mutant: the stream's exception is caught
  UNCHANGED <<alarm, delivered>>

OutputFails == GetException

\* An IOException on the caller's input, before the library is called.
InputFails == GetException /\ UNCHANGED <<service, sender, native, rprop>>

\* The library's outcome is stored before the message is written out.
Unwrap ==
  \E n \in wire, intact \in BOOLEAN :
    LET token == sent[n]
        s     == NativeStatus(n, intact /\ token.kind = "wrap")
    IN  /\ Len(delivered) < MaxReads
        /\ NativeCheck(n, intact /\ token.kind = "wrap")
        /\ \/ Throws(s) /\ GetException /\ UNCHANGED rprop
           \/ /\ ~Throws(s)
              /\ rprop' = [privacy |-> token.conf, supplementary |-> Flags(s)]
              /\ Receive(n, "wrap", token.msg) \/ OutputFails
        /\ UNCHANGED <<service, sender>>

\* m is the message that the application holds against the token.
VerifyMIC ==
  \E n \in wire, m \in Msg :
    LET genuine == sent[n].kind = "mic" /\ sent[n].msg = m
        s       == NativeStatus(n, genuine)
    IN  /\ Len(delivered) < MaxReads
        /\ NativeCheck(n, genuine)
        /\ \/ Throws(s) /\ GetException /\ UNCHANGED rprop
           \/ /\ ~Throws(s)
              /\ rprop' = [rprop EXCEPT !.supplementary = Flags(s)]
              /\ Receive(n, "mic", m)
        /\ UNCHANGED <<service, sender>>

-----------------------------------------------------------------------------
Next ==
  \/ SetPrivacy \/ Wrap \/ GetMIC
  \/ InputFails \/ Unwrap \/ VerifyMIC

Spec == Init /\ [][Next]_vars

-----------------------------------------------------------------------------
(* Properties *)

Token == [kind : Kind, msg : Msg, conf : BOOLEAN, shown : BOOLEAN]

Received == [number : Nat \ {0}, kind : Kind, msg : Msg, privacy : BOOLEAN,
             afterError : BOOLEAN]

\* Every variable has its type, and nobody knows a number not yet given.
TypeOK ==
  /\ service \in SUBSET {"replay", "sequence"}
  /\ sent \in Seq(Token) /\ wprop \in BOOLEAN
  /\ wire \subseteq 1 .. Len(sent) /\ last \in 0 .. Len(sent) /\ seen \subseteq 1 .. last
  /\ status \in Status
  /\ rprop \in [privacy : BOOLEAN, supplementary : SUBSET Supplementary]
  /\ alarm \in BOOLEAN /\ delivered \in Seq(Received)

\* A message received is one that was sent, through the same pair of methods,
\* and after unwrap() the receiver's MessageProp shows the privacy that the
\* sender's showed after wrap(), whatever the two objects showed before.
Genuine ==
  \A i \in DOMAIN delivered :
    LET r == delivered[i]
    IN  /\ r.number \in DOMAIN sent
        /\ r.kind = sent[r.number].kind /\ r.msg = sent[r.number].msg
        /\ r.kind = "wrap" => r.privacy = sent[r.number].shown

\* With either detection no token is accepted twice, however often it comes.
AtMostOnce ==
  service # {} =>
    \A i, j \in DOMAIN delivered : i # j => delivered[i].number # delivered[j].number

NumberBefore(i) == IF i = 1 THEN 0 ELSE delivered[i - 1].number

\* With sequence detection messages are received in the order they were sent,
\* and one that follows a hole is received only after an exception.
LossesNoticed ==
  Sequenced =>
    \A i \in DOMAIN delivered :
      /\ NumberBefore(i) < delivered[i].number
      /\ delivered[i].afterError \/ delivered[i].number = NumberBefore(i) + 1

\* Which numbers the receiver will not accept any more.
Done == IF Sequenced THEN 1 .. last ELSE seen

Plain(r) == [kind |-> r.kind, msg |-> r.msg]

Service == INSTANCE MessageService WITH
  Message <- [kind : Kind, msg : Msg],
  offered <- [n \in DOMAIN sent |-> Plain(sent[n])],
  done    <- Done,
  taken   <- [i \in DOMAIN delivered |-> Plain(delivered[i])],
  warned  <- alarm

\* The methods implement the promise of MessageService.
RefinesService == Service!Spec

\* GSSContext.java:198: unwrap() and verifyMIC() report in their MessageProp
\* that a token was duplicate, old, out of sequence or after a gap.  Expected
\* to fail: they throw on each of these, and leave the MessageProp alone.
SupplementaryReported ==
  status \in Supplementary => status \in rprop.supplementary
=============================================================================
