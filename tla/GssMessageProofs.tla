-------------------------- MODULE GssMessageProofs --------------------------
(***************************************************************************)
(* The per-message methods for every set of messages, every window and any *)
(* number of tokens: what is received is genuine, at most once, in order,  *)
(* with every loss noticed, and the methods implement MessageService.      *)
(***************************************************************************)
EXTENDS GssMessage, SequenceTheorems, TLAPS

\* The sender was shown the privacy that the library applied; the library
\* remembers what was received; and as long as there has been no
\* exception the last message received is the last number accepted.
Shown      == \A n \in DOMAIN sent :
                sent[n].kind = "wrap" => sent[n].conf = sent[n].shown
Remembered == service # {} => \A i \in DOMAIN delivered : delivered[i].number \in seen
Unwatched  == service = {} => seen = {}
UpToDate   == Sequenced /\ ~alarm => last = NumberBefore(Len(delivered) + 1)

MessageInv ==
  /\ TypeOK /\ Shown /\ Genuine /\ Remembered /\ Unwatched /\ UpToDate
  /\ AtMostOnce /\ LossesNoticed

\* At the start nothing was sent.
LEMMA StartsEmpty == Init => MessageInv
<1> SUFFICES ASSUME Init PROVE MessageInv
  OBVIOUS
<1>1. sent = <<>> /\ delivered = <<>> /\ wire = {} /\ last = 0 /\ seen = {}
  BY DEF Init
<1>2. TypeOK
  <2>1. sent \in Seq(Token) /\ delivered \in Seq(Received) /\ Len(sent) = 0
    BY <1>1
  <2>2. rprop \in [privacy : BOOLEAN, supplementary : SUBSET Supplementary]
    BY DEF Init
  <2>3. wire \subseteq 1 .. Len(sent) /\ last \in 0 .. Len(sent) /\ seen \subseteq 1 .. last
    BY <1>1, <2>1
  <2>4. /\ service \in SUBSET {"replay", "sequence"} /\ wprop \in BOOLEAN
        /\ status \in Status /\ alarm \in BOOLEAN
    BY DEF Init, Status
  <2> QED
    BY <2>1, <2>2, <2>3, <2>4 DEF TypeOK
<1>3. DOMAIN delivered = {} /\ Len(delivered) = 0
  BY <1>1
<1> QED
  BY <1>1, <1>2, <1>3 DEF MessageInv, Shown, Genuine, Remembered, Unwatched, UpToDate, AtMostOnce,
     LossesNoticed, NumberBefore

\* A number that the library accepts is new to it, and under sequence detection
\* it is the next one.
LEMMA Accepted ==
  ASSUME TypeOK, NEW n \in wire, NEW genuine \in BOOLEAN,
         NativeCheck(n, genuine), service' = service, sent' = sent
  PROVE  /\ status' \in Status /\ last' \in 0 .. Len(sent)
         /\ last <= last' /\ seen \subseteq seen' /\ seen' \subseteq 1 .. last'
         /\ service = {} => seen' = seen
         /\ NativeStatus(n, genuine) = "COMPLETE" /\ service # {} =>
              /\ n \notin seen /\ seen' = seen \cup {n}
              /\ Sequenced => n = last + 1 /\ last' = n
<1> n \in 1 .. Len(sent) /\ Len(sent) \in Nat /\ last \in Nat
  BY DEF TypeOK
<1>1. status' \in Status
  BY DEF NativeCheck, NativeStatus, OrderStatus, IfSequenced, Status, Supplementary
<1>2. CASE genuine /\ service # {} /\ Recent(n)
  <2>1. seen' = seen \cup {n} /\ last' = IF n > last THEN n ELSE last
    BY <1>2 DEF NativeCheck
  <2>2. last' \in 0 .. Len(sent) /\ last <= last' /\ seen \subseteq seen' /\ n \in seen'
    BY <2>1 DEF TypeOK
  <2>3. seen' \subseteq 1 .. last'
    BY <2>1 DEF TypeOK
  <2>4. ASSUME NativeStatus(n, genuine) = "COMPLETE"
        PROVE  n \notin seen /\ (Sequenced => n = last + 1 /\ last' = n)
    BY <1>2, <2>1, <2>4 DEF NativeStatus, OrderStatus, IfSequenced, TypeOK
  <2> QED
    BY <1>1, <1>2, <2>1, <2>2, <2>3, <2>4
<1>3. CASE ~(genuine /\ service # {} /\ Recent(n))
  <2>1. seen' = seen /\ last' = last
    BY <1>3 DEF NativeCheck
  <2>2. service # {} => NativeStatus(n, genuine) # "COMPLETE"
    BY <1>3, Bounds DEF NativeStatus, OrderStatus, IfSequenced, Recent
  <2> QED
    BY <1>1, <2>1, <2>2 DEF TypeOK
<1> QED
  BY <1>2, <1>3

\* An exception leaves what was received alone.
LEMMA Refused ==
  ASSUME MessageInv, GetException, service' = service, UNCHANGED sender,
         status' \in Status, last' \in 0 .. Len(sent),
         seen \subseteq seen', seen' \subseteq 1 .. last', service = {} => seen' = seen,
         rprop' \in [privacy : BOOLEAN, supplementary : SUBSET Supplementary]
  PROVE  MessageInv'
<1> USE DEF GetException, sender
<1>1. TypeOK'
  BY DEF MessageInv, TypeOK
<1>2. Genuine' /\ Shown'
  BY DEF MessageInv, Genuine, Shown
<1>3. Remembered' /\ Unwatched' /\ UpToDate'
  BY DEF MessageInv, Remembered, Unwatched, UpToDate
<1>4. AtMostOnce' /\ LossesNoticed'
  BY DEF MessageInv, AtMostOnce, LossesNoticed, Sequenced, NumberBefore
<1> QED
  BY <1>1, <1>2, <1>3, <1>4 DEF MessageInv

\* A message received without an exception is new, next and as it was sent.
LEMMA Delivered ==
  ASSUME MessageInv, NEW n \in wire, NEW kind \in Kind, NEW m \in Msg,
         Receive(n, kind, m), service' = service, UNCHANGED sender,
         status' \in Status, last' \in 0 .. Len(sent),
         seen \subseteq seen', seen' \subseteq 1 .. last', service = {} => seen' = seen,
         service # {} => /\ n \notin seen /\ seen' = seen \cup {n}
                         /\ Sequenced => n = last + 1 /\ last' = n,
         rprop' \in [privacy : BOOLEAN, supplementary : SUBSET Supplementary],
         sent[n].kind = kind, sent[n].msg = m,
         kind = "wrap" => rprop'.privacy = sent[n].shown
  PROVE  MessageInv'
<1> DEFINE r == [number |-> n, kind |-> kind, msg |-> m,
                 privacy |-> rprop'.privacy, afterError |-> alarm]
           L == Len(delivered)
<1>1. delivered' = Append(delivered, r) /\ alarm' = FALSE
  BY DEF Receive
<1>2. n \in 1 .. Len(sent) /\ DOMAIN sent = 1 .. Len(sent) /\ n \in Nat \ {0}
  BY DEF MessageInv, TypeOK
<1>3. r \in Received
  BY <1>2 DEF MessageInv, TypeOK, Received
<1>4. delivered \in Seq(Received) /\ L \in Nat
  BY DEF MessageInv, TypeOK
<1> HIDE DEF r
<1>5. /\ delivered' \in Seq(Received) /\ Len(delivered') = L + 1
      /\ DOMAIN delivered' = 1 .. L + 1 /\ DOMAIN delivered = 1 .. L
      /\ delivered'[L + 1] = r
      /\ \A i \in 1 .. L : delivered'[i] = delivered[i]
  BY <1>1, <1>3, <1>4
<1>6. /\ r.number = n /\ r.kind = kind /\ r.msg = m
      /\ r.privacy = rprop'.privacy /\ r.afterError = alarm
  BY DEF r
<1>7. TypeOK'
  BY <1>1, <1>5 DEF MessageInv, TypeOK, sender
<1>8. Genuine' /\ Shown'
  BY <1>2, <1>5, <1>6 DEF MessageInv, Genuine, Shown, sender
<1>9. Remembered'
  <2> SUFFICES ASSUME service # {}, NEW i \in 1 .. L + 1
               PROVE  delivered'[i].number \in seen'
    BY <1>5 DEF Remembered
  <2>1. CASE i \in 1 .. L
    BY <2>1, <1>5 DEF MessageInv, Remembered
  <2>2. CASE i = L + 1
    BY <2>2, <1>5, <1>6
  <2> QED
    BY <2>1, <2>2, <1>4
<1>13. Unwatched'
  BY DEF MessageInv, Unwatched
<1>10. UpToDate'
  <2>1. Sequenced => last' = n
    BY DEF Sequenced
  <2>2. (Len(delivered') + 1) # 1 /\ (Len(delivered') + 1) - 1 = L + 1
    BY <1>4, <1>5
  <2> QED
    BY <2>1, <2>2, <1>5, <1>6 DEF UpToDate, NumberBefore, Sequenced
<1>11. AtMostOnce'
  <2> SUFFICES ASSUME service # {},
                      NEW i \in 1 .. L + 1, NEW j \in 1 .. L + 1, i # j
               PROVE  delivered'[i].number # delivered'[j].number
    BY <1>5 DEF AtMostOnce
  <2>1. CASE i \in 1 .. L /\ j \in 1 .. L
    BY <2>1, <1>5 DEF MessageInv, AtMostOnce
  <2>2. ASSUME NEW k \in 1 .. L PROVE delivered'[k].number # n
    <3>1. delivered[k].number \in seen /\ n \notin seen
      BY <1>5 DEF MessageInv, Remembered
    <3> QED BY <3>1, <1>5
  <2>3. delivered'[L + 1].number = n
    BY <1>5, <1>6
  <2>4. CASE i = L + 1 \/ j = L + 1
    <3>1. (i = L + 1 /\ j \in 1 .. L) \/ (j = L + 1 /\ i \in 1 .. L)
      BY <2>4, <1>4
    <3> QED BY <3>1, <2>2, <2>3
  <2> QED
    BY <2>1, <2>4, <1>4
<1>12. LossesNoticed'
  <2> SUFFICES ASSUME Sequenced, NEW i \in 1 .. L + 1
               PROVE  LET before == IF i = 1 THEN 0 ELSE delivered'[i - 1].number
                      IN  /\ before < delivered'[i].number
                          /\ \/ delivered'[i].afterError
                             \/ delivered'[i].number = before + 1
    BY <1>5 DEF LossesNoticed, NumberBefore, Sequenced
  <2>1. CASE i \in 1 .. L
    BY <2>1, <1>4, <1>5 DEF MessageInv, LossesNoticed, NumberBefore
  <2>2. CASE i = L + 1
    <3>1. n = last + 1 /\ last \in Nat /\ service # {}
      BY DEF Sequenced, MessageInv, TypeOK
    <3>2. NumberBefore(L + 1) \in 0 .. last
      <4>1. CASE L = 0
        BY <4>1, <3>1 DEF NumberBefore
      <4>2. CASE L # 0
        <5>1. L \in DOMAIN delivered
          BY <4>2, <1>4, <1>5
        <5>2. delivered[L].number \in 1 .. last
          BY <5>1, <3>1 DEF MessageInv, TypeOK, Remembered
        <5> QED
          BY <4>2, <5>2, <1>4, <3>1 DEF NumberBefore
      <4> QED
        BY <4>1, <4>2
    <3>3. ~alarm => last = NumberBefore(L + 1)
      BY DEF MessageInv, UpToDate
    <3>4. (IF i = 1 THEN 0 ELSE delivered'[i - 1].number) = NumberBefore(L + 1)
      BY <2>2, <1>4, <1>5 DEF NumberBefore
    <3>5. delivered'[i].number = n /\ delivered'[i].afterError = alarm
      BY <2>2, <1>5, <1>6
    <3>6. alarm \in BOOLEAN
      BY DEF MessageInv, TypeOK
    <3> QED
      BY <3>1, <3>2, <3>3, <3>4, <3>5, <3>6
  <2> QED
    BY <2>1, <2>2, <1>4
<1> QED
  BY <1>7, <1>8, <1>9, <1>10, <1>11, <1>12, <1>13 DEF MessageInv

\* What unwrap() and verifyMIC() have in common: the library's window moves on,
\* and there is an exception or a message that is new and genuine.
LEMMA ReceiverCall ==
  ASSUME MessageInv, Unwrap \/ VerifyMIC
  PROVE  /\ UNCHANGED <<service, sender>> /\ status' \in Status
         /\ last' \in 0 .. Len(sent) /\ last <= last'
         /\ seen \subseteq seen' /\ seen' \subseteq 1 .. last' /\ (service = {} => seen' = seen)
         /\ rprop' \in [privacy : BOOLEAN, supplementary : SUBSET Supplementary]
         /\ \/ GetException
            \/ \E n \in wire, kind \in Kind, m \in Msg :
                 /\ Receive(n, kind, m) /\ sent[n].kind = kind /\ sent[n].msg = m
                 /\ kind = "wrap" => rprop'.privacy = sent[n].shown
                 /\ service # {} => /\ n \notin seen /\ seen' = seen \cup {n}
                                    /\ Sequenced => n = last + 1 /\ last' = n
<1> DEFINE Props == [privacy : BOOLEAN, supplementary : SUBSET Supplementary]
           New(n) == service # {} => /\ n \notin seen /\ seen' = seen \cup {n}
                                     /\ Sequenced => n = last + 1 /\ last' = n
<1>1. PICK n \in wire, kind \in Kind, m \in Msg, genuine \in BOOLEAN :
        /\ UNCHANGED <<service, sender>> /\ NativeCheck(n, genuine)
        /\ genuine => sent[n].kind = kind /\ sent[n].msg = m
        /\ \/ GetException /\ UNCHANGED rprop
           \/ /\ NativeStatus(n, genuine) = "COMPLETE" /\ rprop' \in Props
              /\ kind = "wrap" => rprop'.privacy = sent[n].conf
              /\ Receive(n, kind, m) \/ GetException
  <2>1. rprop \in Props /\ sent \in Seq(Token) /\ wire \subseteq 1 .. Len(sent)
    BY DEF MessageInv, TypeOK
  <2>2. ASSUME NEW s PROVE Flags(s) \in SUBSET Supplementary
    BY DEF Flags
  <2>3. CASE Unwrap
    <3>1. PICK n \in wire, intact \in BOOLEAN :
            LET genuine == intact /\ sent[n].kind = "wrap"
                s       == NativeStatus(n, genuine)
            IN  /\ NativeCheck(n, genuine)
                /\ \/ GetException /\ UNCHANGED rprop
                   \/ /\ s = "COMPLETE"
                      /\ rprop' = [privacy |-> sent[n].conf, supplementary |-> Flags(s)]
                      /\ Receive(n, "wrap", sent[n].msg) \/ GetException
                /\ UNCHANGED <<service, sender>>
      BY <2>3 DEF Unwrap, Throws, OutputFails
    <3>2. sent[n] \in Token
      BY <2>1, <3>1
    <3>3. sent[n].msg \in Msg /\ sent[n].conf \in BOOLEAN
      BY <3>2 DEF Token
    <3> DEFINE genuine == intact /\ sent[n].kind = "wrap"
    <3>4. \A s : [privacy |-> sent[n].conf, supplementary |-> Flags(s)] \in Props
      BY <2>2, <3>3
    <3> genuine \in BOOLEAN /\ "wrap" \in Kind /\ sent[n].msg \in Msg
      BY <3>3 DEF Kind
    <3> HIDE DEF genuine
    <3> WITNESS n \in wire, "wrap" \in Kind, sent[n].msg \in Msg, genuine \in BOOLEAN
    <3> QED
      BY <3>1, <3>4 DEF genuine
  <2>4. CASE VerifyMIC
    <3>1. PICK n \in wire, m \in Msg :
            LET genuine == sent[n].kind = "mic" /\ sent[n].msg = m
                s       == NativeStatus(n, genuine)
            IN  /\ NativeCheck(n, genuine)
                /\ \/ GetException /\ UNCHANGED rprop
                   \/ /\ s = "COMPLETE"
                      /\ rprop' = [rprop EXCEPT !.supplementary = Flags(s)]
                      /\ Receive(n, "mic", m)
                /\ UNCHANGED <<service, sender>>
      BY <2>4 DEF VerifyMIC, Throws
    <3> DEFINE genuine == sent[n].kind = "mic" /\ sent[n].msg = m
    <3>2. \A s : [rprop EXCEPT !.supplementary = Flags(s)] \in Props
      BY <2>1, <2>2
    <3> genuine \in BOOLEAN /\ "mic" \in Kind
      BY DEF Kind
    <3> HIDE DEF genuine
    <3> WITNESS n \in wire, "mic" \in Kind, m \in Msg, genuine \in BOOLEAN
    <3> QED
      BY <3>1, <3>2 DEF genuine
  <2> QED
    BY <2>3, <2>4
<1>2. /\ status' \in Status /\ last' \in 0 .. Len(sent) /\ last <= last'
      /\ seen \subseteq seen' /\ seen' \subseteq 1 .. last' /\ (service = {} => seen' = seen)
      /\ NativeStatus(n, genuine) = "COMPLETE" => New(n)
  BY <1>1, Accepted DEF MessageInv, sender
<1>3. rprop' \in Props
  BY <1>1 DEF MessageInv, TypeOK
<1>4. NativeStatus(n, genuine) = "COMPLETE" => genuine
  BY DEF NativeStatus
<1>5. sent[n].kind = "wrap" => sent[n].conf = sent[n].shown
  BY DEF MessageInv, TypeOK, Shown
<1> QED
  BY <1>1, <1>2, <1>3, <1>4, <1>5

\* MessageInv is preserved by every method, whatever token it meets.
LEMMA MessageStep == MessageInv /\ [Next]_vars => MessageInv'
<1> SUFFICES ASSUME MessageInv, [Next]_vars
             PROVE  MessageInv'
  OBVIOUS
<1> DEFINE Props == [privacy : BOOLEAN, supplementary : SUBSET Supplementary]
<1> rprop \in Props /\ status \in Status /\ last \in 0 .. Len(sent) /\ seen \subseteq 1 .. last
  BY DEF MessageInv, TypeOK
<1>1. ASSUME NEW token \in Token, Emit(token), wprop' \in BOOLEAN,
             token.kind = "wrap" => token.conf = token.shown
      PROVE  MessageInv'
  <2> DEFINE L == Len(sent)
  <2>1. sent \in Seq(Token) /\ L \in Nat
    BY DEF MessageInv, TypeOK
  <2>2. /\ sent' \in Seq(Token) /\ Len(sent') = L + 1
        /\ DOMAIN sent = 1 .. L /\ DOMAIN sent' = 1 .. L + 1 /\ sent'[L + 1] = token
        /\ \A i \in 1 .. L : sent'[i] = sent[i]
    BY <1>1, <2>1 DEF Emit
  <2>3. wire' \subseteq 1 .. L + 1 /\ last \in 0 .. L + 1
    BY <1>1, <2>1 DEF Emit, MessageInv, TypeOK
  <2>4. TypeOK'
    BY <1>1, <2>2, <2>3 DEF Emit, MessageInv, TypeOK, receiver, native
  <2>5. Genuine' /\ Shown'
    BY <1>1, <2>1, <2>2 DEF Emit, MessageInv, Genuine, Shown, receiver
  <2>6. (Remembered /\ Unwatched /\ UpToDate /\ AtMostOnce /\ LossesNoticed)'
    BY <1>1 DEF Emit, MessageInv, Remembered, Unwatched, UpToDate, AtMostOnce, LossesNoticed,
                NumberBefore, Sequenced, receiver, native
  <2> QED
    BY <2>4, <2>5, <2>6 DEF MessageInv
<1>2. CASE SetPrivacy
  <2>1. TypeOK'
    BY <1>2 DEF SetPrivacy, MessageInv, TypeOK, receiver, native
  <2> QED
    BY <1>2, <2>1 DEF SetPrivacy, MessageInv, Shown, Genuine, Remembered, Unwatched, UpToDate, AtMostOnce,
                      LossesNoticed, NumberBefore, Sequenced, receiver, native
<1>3. CASE Wrap
  <2>1. PICK m \in Msg, applied \in {FALSE, wprop} :
          /\ wprop' = applied
          /\ Emit([kind |-> "wrap", msg |-> m, conf |-> applied, shown |-> wprop'])
    BY <1>3 DEF Wrap
  <2>2. applied \in BOOLEAN
    BY DEF MessageInv, TypeOK
  <2> QED
    BY <1>1, <2>1, <2>2 DEF Token, Kind
<1>4. CASE GetMIC
  <2>1. PICK m \in Msg : wprop' = wprop /\
          Emit([kind |-> "mic", msg |-> m, conf |-> FALSE, shown |-> FALSE])
    BY <1>4 DEF GetMIC
  <2> QED
    BY <1>1, <2>1 DEF Token, Kind, MessageInv, TypeOK
<1>5. CASE InputFails
  BY <1>5, Refused DEF InputFails, native
<1>6. CASE Unwrap \/ VerifyMIC
  <2>1. CASE GetException
    BY <1>6, <2>1, ReceiverCall, Refused
  <2>2. CASE ~GetException
    BY <1>6, <2>2, ReceiverCall, Delivered
  <2> QED
    BY <2>1, <2>2
<1>8. CASE UNCHANGED vars
  <2>1. TypeOK'
    BY <1>8 DEF vars, sender, MessageInv, TypeOK, receiver, native
  <2> QED
    BY <1>8, <2>1 DEF vars, sender, MessageInv, Shown, Genuine, Remembered, Unwatched, UpToDate, AtMostOnce,
                      LossesNoticed, NumberBefore, Sequenced, receiver, native
<1> QED
  BY <1>2, <1>3, <1>4, <1>5, <1>6, <1>8 DEF Next

\* Whatever the network does with the tokens and whichever streams fail, every
\* variable keeps its type, and the native numbers stay within those given.
THEOREM MessagesTyped == Spec => []TypeOK
<1>1. MessageInv => TypeOK
  BY DEF MessageInv
<1> QED
  BY StartsEmpty, MessageStep, <1>1, PTL DEF Spec

\* What unwrap() and verifyMIC() give the application was sent through the
\* matching method, and unwrap() shows the privacy the sender was shown.
THEOREM MessagesGenuine == Spec => []Genuine
<1>1. MessageInv => Genuine
  BY DEF MessageInv
<1> QED
  BY StartsEmpty, MessageStep, <1>1, PTL DEF Spec

\* Where a detection is on, unwrap() and verifyMIC() accept no token twice.
THEOREM MessagesOnce == Spec => []AtMostOnce
<1>1. MessageInv => AtMostOnce
  BY DEF MessageInv
<1> QED
  BY StartsEmpty, MessageStep, <1>1, PTL DEF Spec

\* Under sequence detection messages come out in the order they were sent, and
\* an exception tells of every loss.
THEOREM LossesSound == Spec => []LossesNoticed
<1>1. MessageInv => LossesNoticed
  BY DEF MessageInv
<1> QED
  BY StartsEmpty, MessageStep, <1>1, PTL DEF Spec

-----------------------------------------------------------------------------
(* Refinement *)

PlainSeq(p) == [i \in DOMAIN p |-> Plain(p[i])]

\* One more message is one more of what it stands for.
LEMMA PlainAppend ==
  ASSUME NEW S, NEW p \in Seq(S), NEW e \in S
  PROVE  PlainSeq(Append(p, e)) = Append(PlainSeq(p), Plain(e))
<1> DEFINE L == Len(p)
           T == {Plain(x) : x \in S}
<1>1. L \in Nat /\ DOMAIN p = 1 .. L /\ \A i \in 1 .. L : p[i] \in S
  OBVIOUS
<1>2. /\ DOMAIN Append(p, e) = 1 .. L + 1 /\ Append(p, e)[L + 1] = e
      /\ \A i \in 1 .. L : Append(p, e)[i] = p[i]
  BY <1>1
<1>3. PlainSeq(p) \in Seq(T) /\ Len(PlainSeq(p)) = L
  BY <1>1 DEF PlainSeq
<1>4. \A i \in 1 .. L : PlainSeq(p)[i] = Plain(p[i])
  BY <1>1 DEF PlainSeq
<1>5. /\ Append(PlainSeq(p), Plain(e)) \in Seq(T)
      /\ Len(Append(PlainSeq(p), Plain(e))) = L + 1
  BY <1>3
<1>6. PlainSeq(Append(p, e)) \in Seq(T) /\ Len(PlainSeq(Append(p, e))) = L + 1
  <2>1. \A i \in 1 .. L + 1 : Plain(Append(p, e)[i]) \in T
    BY <1>1, <1>2
  <2> QED
    BY <1>1, <1>2, <2>1 DEF PlainSeq
<1>7. ASSUME NEW i \in 1 .. L + 1
      PROVE  PlainSeq(Append(p, e))[i] = Append(PlainSeq(p), Plain(e))[i]
  <2>1. PlainSeq(Append(p, e))[i] = Plain(Append(p, e)[i])
    BY <1>2 DEF PlainSeq
  <2> QED
    BY <1>1, <1>2, <1>3, <1>4, <2>1
<1> QED
  BY <1>5, <1>6, <1>7, SeqEqual

\* The promise of MessageService, with the refinement mapping written out.
Offered == PlainSeq(sent)
Taken   == PlainSeq(delivered)

\* The actions of MessageService, for the history that the mapping shows.
LEMMA Mapping ==
  /\ Service!Offer <=> /\ \E m \in [kind : Kind, msg : Msg] : Offered' = Append(Offered, m)
                       /\ UNCHANGED <<service, Done, Taken, alarm>>
  /\ Service!Take <=>
       \E n \in DOMAIN Offered :
         /\ n \notin Done
         /\ "sequence" \in service => 1 .. n - 1 \subseteq Done
         /\ Done' = IF service = {} THEN Done ELSE Done \cup {n}
         /\ Taken' = Append(Taken, Offered[n]) /\ alarm' = FALSE
         /\ UNCHANGED <<service, Offered>>
  /\ Service!Warn <=>
       /\ alarm' = TRUE
       /\ \E lost \in SUBSET DOMAIN Offered :
             /\ service = {} => lost = {}
             /\ Done' = Done \cup lost
       /\ UNCHANGED <<service, Offered, Taken>>
  /\ UNCHANGED Service!svars <=> UNCHANGED <<service, Offered, Done, Taken, alarm>>
  BY DEF Service!Offer, Service!Take, Service!Warn, Service!svars, Offered, Taken, PlainSeq

\* Initial states map to initial states.
LEMMA StartsAsService == Init => Service!Init
<1> SUFFICES ASSUME Init PROVE Service!Init
  OBVIOUS
<1>1. sent = <<>> /\ delivered = <<>> /\ last = 0 /\ seen = {}
  BY DEF Init
<1>2. Offered = <<>> /\ Taken = <<>>
  BY <1>1 DEF Offered, Taken, PlainSeq
<1>3. Done = {}
  BY <1>1 DEF Done
<1>4. service \in SUBSET {"replay", "sequence"} /\ alarm = FALSE
  BY DEF Init
<1> QED
  BY <1>2, <1>3, <1>4 DEF Service!Init, Offered, Taken, PlainSeq

\* Every step is one of the service, or none.
LEMMA ServiceStep == MessageInv /\ [Next]_vars => [Service!Next]_(Service!svars)
<1> SUFFICES ASSUME MessageInv, [Next]_vars
             PROVE  \/ Service!Offer \/ Service!Take \/ Service!Warn
                    \/ UNCHANGED <<service, Offered, Done, Taken, alarm>>
  BY Mapping DEF Service!Next
<1>1. sent \in Seq(Token) /\ delivered \in Seq(Received) /\ seen \subseteq 1 .. last
  BY DEF MessageInv, TypeOK
<1>2. DOMAIN Offered = 1 .. Len(sent) /\ \A n \in 1 .. Len(sent) : Offered[n] = Plain(sent[n])
  BY <1>1 DEF Offered, PlainSeq
<1>3. ASSUME NEW token \in Token, Emit(token) PROVE Service!Offer
  <2>1. Offered' = Append(Offered, Plain(token))
    BY <1>1, <1>3, PlainAppend DEF Emit, Offered, PlainSeq
  <2>2. Plain(token) \in [kind : Kind, msg : Msg]
    BY DEF Plain, Token
  <2>3. UNCHANGED <<service, Done, Taken, alarm>>
    BY <1>3 DEF Emit, receiver, native, Done, Sequenced, Taken, PlainSeq
  <2> QED
    BY <2>1, <2>2, <2>3, Mapping
<1>4. CASE SetPrivacy
  BY <1>4 DEF SetPrivacy, receiver, native, Done, Sequenced, Offered, Taken, PlainSeq
<1>5. CASE Wrap
  <2>1. PICK m \in Msg, applied \in {FALSE, wprop} :
          /\ wprop' = applied
          /\ Emit([kind |-> "wrap", msg |-> m, conf |-> applied, shown |-> wprop'])
    BY <1>5 DEF Wrap
  <2>2. applied \in BOOLEAN
    BY DEF MessageInv, TypeOK
  <2> QED
    BY <1>3, <2>1, <2>2 DEF Token, Kind
<1>6. CASE GetMIC
  <2>1. PICK m \in Msg : Emit([kind |-> "mic", msg |-> m, conf |-> FALSE, shown |-> FALSE])
    BY <1>6 DEF GetMIC
  <2> QED
    BY <1>3, <2>1 DEF Token, Kind
<1>7. CASE InputFails
  <2>1. Done' = Done \cup {} /\ UNCHANGED <<service, Offered, Taken>> /\ alarm' = TRUE
    BY <1>7 DEF InputFails, GetException, sender, native, Done, Sequenced, Offered,
                Taken, PlainSeq
  <2> QED
    BY <2>1, Mapping
<1>8. CASE Unwrap \/ VerifyMIC
  <2>1. /\ service' = service /\ UNCHANGED Offered
        /\ last' \in 0 .. Len(sent) /\ last <= last'
        /\ seen \subseteq seen' /\ seen' \subseteq 1 .. last'
        /\ service = {} => seen' = seen
    BY <1>8, ReceiverCall DEF sender, Offered, PlainSeq
  <2>2. CASE GetException
    <3>1. alarm' = TRUE /\ UNCHANGED Taken
      BY <2>2 DEF GetException, Taken, PlainSeq
    <3>2. Done \subseteq Done' /\ Done' \subseteq 1 .. Len(sent)
      <4>1. last \in Nat /\ last' \in Nat /\ Len(sent) \in Nat
        BY <1>1, <2>1 DEF MessageInv, TypeOK
      <4>2. 1 .. last \subseteq 1 .. last' /\ 1 .. last' \subseteq 1 .. Len(sent)
        BY <2>1, <4>1
      <4> QED
        BY <2>1, <4>2 DEF Done, Sequenced
    <3>3. service = {} => Done' = Done
      BY <2>1 DEF Done, Sequenced
    <3> QED
      BY <1>2, <2>1, <3>1, <3>2, <3>3, Mapping
  <2>3. ASSUME NEW n \in wire, NEW kind \in Kind, NEW m \in Msg,
               Receive(n, kind, m), sent[n].kind = kind, sent[n].msg = m,
               service # {} => /\ n \notin seen /\ seen' = seen \cup {n}
                               /\ Sequenced => n = last + 1 /\ last' = n
        PROVE  Service!Take
    <3> DEFINE r == [number |-> n, kind |-> kind, msg |-> m,
                     privacy |-> rprop'.privacy, afterError |-> alarm]
    <3>1. n \in 1 .. Len(sent) /\ last \in Nat /\ alarm \in BOOLEAN /\ n \in Nat \ {0}
      BY <1>1 DEF MessageInv, TypeOK
    <3>2. rprop'.privacy \in BOOLEAN
      BY <1>8, ReceiverCall
    <3>3. r \in Received
      BY <3>1, <3>2 DEF Received
    <3>4. delivered' = Append(delivered, r) /\ alarm' = FALSE
      BY <2>3 DEF Receive
    <3>5. Taken' = Append(Taken, Plain(r))
      BY <1>1, <3>3, <3>4, PlainAppend DEF Taken, PlainSeq
    <3>6. Plain(r) = Offered[n]
      BY <1>2, <2>3, <3>1 DEF Plain
    <3>7. service = {} => n \notin Done /\ Done' = Done
      BY <2>1 DEF Done, Sequenced, MessageInv, Unwatched
    <3>8. CASE Sequenced
      <4>1. n = last + 1 /\ last' = n /\ service # {}
        BY <2>3, <3>8 DEF Sequenced
      <4>2. Done = 1 .. last /\ Done' = 1 .. last + 1
        BY <2>1, <3>8, <4>1 DEF Done, Sequenced
      <4>3. n \notin Done /\ Done' = Done \cup {n} /\ 1 .. n - 1 \subseteq Done
        BY <3>1, <4>1, <4>2
      <4> QED
        BY <1>2, <2>1, <3>1, <3>4, <3>5, <3>6, <4>1, <4>3, Mapping
    <3>9. CASE ~Sequenced
      <4>1. service # {} => n \notin Done /\ Done' = Done \cup {n}
        BY <2>1, <2>3, <3>9 DEF Done, Sequenced
      <4>2. "sequence" \notin service
        BY <3>9 DEF Sequenced
      <4> QED
        BY <1>2, <2>1, <3>1, <3>4, <3>5, <3>6, <3>7, <4>1, <4>2, Mapping
    <3> QED
      BY <3>8, <3>9
  <2> QED
    BY <1>8, <2>2, <2>3, ReceiverCall
<1>9. CASE UNCHANGED vars
  BY <1>9 DEF vars, sender, receiver, native, Done, Sequenced, Offered, Taken, PlainSeq
<1> QED
  BY <1>4, <1>5, <1>6, <1>7, <1>8, <1>9 DEF Next

\* The four methods implement the promise of MessageService.
THEOREM ServiceRefined == Spec => RefinesService
<1> QED
  BY StartsEmpty, MessageStep, StartsAsService, ServiceStep, PTL
     DEF Spec, RefinesService, Service!Spec
=============================================================================
