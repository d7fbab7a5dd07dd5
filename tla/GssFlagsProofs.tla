--------------------------- MODULE GssFlagsProofs ---------------------------
(***************************************************************************)
(* The options of a context, for every set of flags: the getters answer    *)
(* what the library granted, and the first call requests what the caller   *)
(* wants.                                                                  *)
(***************************************************************************)
EXTENDS GssFlags, TLAPS

\* Before a context begins its fields hold every flag the caller wants; only
\* an initiator has begun one with a call of its own; afterwards the fields are
\* the library's.
OptionsInv ==
  /\ desired \subseteq Flag
  /\ requested \subseteq Flag
  /\ first # Unset => ctxState # "UNINIT"
  /\ ctxState = "UNINIT" => desired \subseteq requested
  /\ RequestsReachLibrary
  /\ ActualOnceBegun

\* OptionsInv is preserved by every action.
LEMMA OptionsStep == OptionsInv /\ [Next]_vars => OptionsInv'
<1> SUFFICES ASSUME OptionsInv, [Next]_vars
             PROVE  OptionsInv'
  OBVIOUS
<1> USE DEF OptionsInv, RequestsReachLibrary, ActualOnceBegun, fields, seen
<1>1. ASSUME NEW life \in -1 .. Half - 1, NewInitiator(life) PROVE OptionsInv'
  BY <1>1 DEF NewInitiator
<1>2. ASSUME NEW life \in -1 .. Half - 1, RequestLifetime(life) PROVE OptionsInv'
  BY <1>2 DEF RequestLifetime
<1>3. CASE NewAcceptor
  BY <1>3 DEF NewAcceptor
<1>4. ASSUME NEW ret \in Returned, NEW time \in TimeRec,
             ImportContext(ret, time)
      PROVE  OptionsInv'
  BY <1>4 DEF ImportContext, SetReturnedFlags
<1>5. ASSUME NEW flag \in Flag, NEW state \in BOOLEAN, Request(flag, state)
      PROVE  OptionsInv'
  BY <1>5 DEF Request
<1>6. ASSUME NEW result \in {"INPROG", "DONE"}, NEW ret \in Returned,
             NEW time \in TimeRec, InitSecContext(result, ret, time)
      PROVE  OptionsInv'
  BY <1>6 DEF InitSecContext, Establish, SetReturnedFlags
<1>7. ASSUME NEW result \in {"INPROG", "DONE"}, NEW ret \in Returned,
             NEW time \in TimeRec, AcceptSecContext(result, ret, time)
      PROVE  OptionsInv'
  BY <1>7 DEF AcceptSecContext, Establish, SetReturnedFlags
<1>8. CASE SecContextThrows
  BY <1>8 DEF SecContextThrows, vars
<1>9. CASE Dispose
  BY <1>9 DEF Dispose
<1>10. CASE UNCHANGED vars
  BY <1>10 DEF vars
<1> QED
  BY <1>1, <1>2, <1>3, <1>4, <1>5, <1>6, <1>7, <1>8, <1>9, <1>10 DEF Next

\* Whatever is requested, granted or fails, and in whatever order: a context
\* begins with every flag its caller wants, and from then on the getters tell
\* what the library granted.
THEOREM OptionsSound == Spec => [](RequestsReachLibrary /\ ActualOnceBegun)
<1>1. Init => OptionsInv
  BY DEF Init, OptionsInv, RequestsReachLibrary, ActualOnceBegun
<1>2. OptionsInv => RequestsReachLibrary /\ ActualOnceBegun
  BY DEF OptionsInv
<1> QED
  BY <1>1, <1>2, OptionsStep, PTL DEF Spec

-----------------------------------------------------------------------------
(* The lifetime *)

\* Remainders of numbers near the interval.
LEMMA ModSmall ==
  ASSUME NEW m \in Nat \ {0}, NEW n \in 0 .. m - 1
  PROVE  n % m = n
  OBVIOUS

\* A number in the next period,
LEMMA ModOver ==
  ASSUME NEW m \in Nat \ {0}, NEW n \in m .. 2 * m - 1
  PROVE  n % m = n - m
  OBVIOUS

\* and one in the period before.
LEMMA ModUnder ==
  ASSUME NEW m \in Nat \ {0}, NEW n \in -m .. -1
  PROVE  n % m = n + m
  OBVIOUS

\* The cast to int keeps what an int can hold; anything else comes out negative.
LEMMA CastTime ==
  ASSUME NEW t \in TimeRec
  PROVE  /\ t \in 0 .. 2 * Half - 1
         /\ ToInt(t) = IF t < Half THEN t ELSE t - 2 * Half
<1>1. /\ 2 * Half \in Nat \ {0} /\ Half \in Nat /\ Half > 1
      /\ t \in 0 .. 2 * Half - 1
      /\ t < Half => t + Half \in 0 .. 2 * Half - 1
      /\ ~(t < Half) => t + Half \in 2 * Half .. 2 * (2 * Half) - 1
  BY Parameters DEF TimeRec, GSS_C_INDEFINITE
<1>2. CASE ~(t < Half)
  <2>1. (t + Half) % (2 * Half) = t + Half - 2 * Half
    BY <1>1, <1>2, ModOver
  <2> QED
    BY <1>1, <1>2, <2>1 DEF ToInt
<1>3. CASE t < Half
  <2>1. (t + Half) % (2 * Half) = t + Half
    BY <1>1, <1>3, ModSmall
  <2> QED
    BY <1>1, <1>3, <2>1 DEF ToInt
<1> QED
  BY <1>2, <1>3

\* What the library gets back is what it gave, cast or not.
LEMMA RoundTrip ==
  ASSUME NEW t \in TimeRec
  PROVE  ToUnsigned(t) = t /\ ToUnsigned(ToInt(t)) = t
<1>1. 2 * Half \in Nat \ {0} /\ Half \in Nat /\ Half > 1 /\ t \in 0 .. 2 * Half - 1
  BY Parameters, CastTime
<1>2. t % (2 * Half) = t
  BY <1>1, ModSmall
<1>3. ASSUME ~(t < Half) PROVE (t - 2 * Half) % (2 * Half) = t
  <2>1. t - 2 * Half \in -(2 * Half) .. -1
    BY <1>1
  <2>2. (t - 2 * Half) % (2 * Half) = t - 2 * Half + 2 * Half
    BY <1>1, <2>1, ModUnder
  <2> QED
    BY <1>1, <2>2
<1> QED
  BY <1>2, <1>3, CastTime DEF ToUnsigned

\* The field holds the library's answer: as it came, or cast by initSecContext.
LifetimeInv ==
  /\ role = "none" => ctxState = "UNINIT"
  /\ timeRec \in TimeRec
  /\ ctxState \in {"INPROG", "DONE"} =>
       lifetime = timeRec \/ (role = "initiator" /\ lifetime = ToInt(timeRec))

\* LifetimeInv is preserved by every action.
LEMMA LifetimeStep == LifetimeInv /\ [Next]_vars => LifetimeInv'
<1> SUFFICES ASSUME LifetimeInv, [Next]_vars
             PROVE  LifetimeInv'
  OBVIOUS
<1> USE DEF LifetimeInv, fields, seen
<1>1. ASSUME NEW life \in -1 .. Half - 1, NewInitiator(life) \/ RequestLifetime(life)
      PROVE  LifetimeInv'
  BY <1>1 DEF NewInitiator, RequestLifetime
<1>2. CASE NewAcceptor
  BY <1>2 DEF NewAcceptor
<1>3. ASSUME NEW ret \in Returned, NEW time \in TimeRec, ImportContext(ret, time)
      PROVE  LifetimeInv'
  BY <1>3 DEF ImportContext
<1>4. ASSUME NEW flag \in Flag, NEW state \in BOOLEAN, Request(flag, state)
      PROVE  LifetimeInv'
  BY <1>4 DEF Request
<1>5. ASSUME NEW result \in {"INPROG", "DONE"}, NEW ret \in Returned,
             NEW time \in TimeRec, InitSecContext(result, ret, time)
      PROVE  LifetimeInv'
  BY <1>5 DEF InitSecContext, Establish
<1>6. ASSUME NEW result \in {"INPROG", "DONE"}, NEW ret \in Returned,
             NEW time \in TimeRec, AcceptSecContext(result, ret, time)
      PROVE  LifetimeInv'
  BY <1>6 DEF AcceptSecContext, Establish
<1>7. CASE SecContextThrows
  BY <1>7 DEF SecContextThrows, vars
<1>8. CASE Dispose
  BY <1>8 DEF Dispose
<1>9. CASE UNCHANGED vars
  BY <1>9 DEF vars
<1> QED
  BY <1>1, <1>2, <1>3, <1>4, <1>5, <1>6, <1>7, <1>8, <1>9 DEF Next

\* So it holds in every reachable state.
LEMMA LifetimeInductive == Spec => []LifetimeInv
<1>1. Init => LifetimeInv
  BY Parameters DEF Init, LifetimeInv, TimeRec, GSS_C_INDEFINITE
<1> QED
  BY <1>1, LifetimeStep, PTL DEF Spec

\* For ints of any width: the cast to int between two legs of a handshake loses
\* nothing of the lifetime.
THEOREM LifetimeSurvives == Spec => []LifetimeKept
<1>1. LifetimeInv => LifetimeKept
  BY RoundTrip DEF LifetimeInv, LifetimeKept
<1> QED
  BY <1>1, LifetimeInductive, PTL

\* For ints of any width: getLifetime() is the library's answer where an int can
\* hold it, and the indefinite one too, but for an initiator's.
THEOREM LifetimeTold == Spec => []LifetimeReported
<1>1. ASSUME LifetimeInv, ctxState = "DONE", timeRec < Half
      PROVE  GetLifetime = timeRec
  <2>1. timeRec \in TimeRec /\ lifetime = timeRec
    BY <1>1, CastTime DEF LifetimeInv
  <2>2. timeRec # GSS_C_INDEFINITE
    BY <1>1, Parameters DEF GSS_C_INDEFINITE
  <2> QED
    BY <1>1, <2>1, <2>2, CastTime DEF GetLifetime
<1>2. ASSUME LifetimeInv, ctxState = "DONE", timeRec = GSS_C_INDEFINITE, role # "initiator"
      PROVE  GetLifetime = INDEFINITE_LIFETIME
  BY <1>2 DEF LifetimeInv, GetLifetime
<1>3. LifetimeInv => LifetimeReported
  BY <1>1, <1>2 DEF LifetimeReported
<1> QED
  BY <1>3, LifetimeInductive, PTL

-----------------------------------------------------------------------------
(* Types *)

\* The fields that hold words, flags or numbers.
Values ==
  /\ role \in {"none", "initiator", "acceptor", "imported"}
  /\ ctxState \in {"UNINIT", "INPROG", "DONE", "DISPOSED"}
  /\ requested \subseteq Flag
  /\ desired \subseteq Flag /\ actual \in Returned \cup {Unset}
  /\ first \in (SUBSET Flag) \cup {Unset}

Times == timeRec \in TimeRec /\ lifetime \in -Half .. 2 * Half - 1

Switches ==
  initiator \in BOOLEAN /\ isProtReady \in BOOLEAN /\ transferable \in BOOLEAN

\* The types hold from step to step, each part for itself.
LEMMA TypesStep ==
  ASSUME Values, Times, Switches, [Next]_vars
  PROVE  Values' /\ Times' /\ Switches'
<1> USE DEF fields, seen
<1>1. ASSUME NEW life \in -1 .. Half - 1, NewInitiator(life) \/ RequestLifetime(life)
      PROVE  Values' /\ Times' /\ Switches'
  <2>1. Values'
    BY <1>1 DEF Values, NewInitiator, RequestLifetime
  <2>2. Times'
    <3>1. lifetime' \in {life, ConvertLifetime(life), lifetime} /\ UNCHANGED timeRec
      BY <1>1 DEF NewInitiator, RequestLifetime
    <3> QED
      BY <3>1, Parameters DEF Times, ConvertLifetime, GSS_C_INDEFINITE, INDEFINITE_LIFETIME
  <2>3. Switches'
    BY <1>1, Zenon DEF Switches, NewInitiator, RequestLifetime
  <2> QED
    BY <2>1, <2>2, <2>3
<1>2. CASE NewAcceptor \/ SecContextThrows \/ Dispose \/ UNCHANGED vars
  <2>1. Values'
    BY <1>2 DEF Values, NewAcceptor, SecContextThrows, Dispose, vars
  <2>2. Times'
    BY <1>2 DEF Times, NewAcceptor, SecContextThrows, Dispose, vars
  <2>3. UNCHANGED <<initiator, isProtReady, transferable>>
    BY <1>2 DEF NewAcceptor, SecContextThrows, Dispose, vars
  <2>4. Switches'
    BY <2>3, Zenon DEF Switches
  <2> QED
    BY <2>1, <2>2, <2>4
<1>3. ASSUME NEW ret \in Returned, NEW time \in TimeRec,
             \/ ImportContext(ret, time)
             \/ \E result \in {"INPROG", "DONE"} :
                  InitSecContext(result, ret, time) \/ AcceptSecContext(result, ret, time)
      PROVE  Values' /\ Times' /\ Switches'
  <2>1. Values'
    BY <1>3 DEF Values, ImportContext, InitSecContext, AcceptSecContext, Establish,
       SetReturnedFlags
  <2>2. Times'
    <3>1. timeRec' = time /\ lifetime' \in {time, ToInt(time)}
      BY <1>3 DEF ImportContext, InitSecContext, AcceptSecContext, Establish
    <3> QED
      BY <3>1, CastTime, Parameters DEF Times
  <2>3. Switches'
    <3>1. isProtReady' = ("prot_ready" \in ret) /\ transferable' = ("trans" \in ret)
      BY <1>3, Zenon DEF ImportContext, InitSecContext, AcceptSecContext, Establish,
         SetReturnedFlags
    <3>2. initiator' = initiator \/ initiator' = FALSE
      BY <1>3, Zenon DEF ImportContext, InitSecContext, AcceptSecContext
    <3>3. isProtReady' \in BOOLEAN /\ transferable' \in BOOLEAN
      BY <3>1
    <3> QED
      BY <3>2, <3>3, Zenon DEF Switches
  <2> QED
    BY <2>1, <2>2, <2>3
<1>4. ASSUME NEW flag \in Flag, NEW state \in BOOLEAN, Request(flag, state)
      PROVE  Values' /\ Times' /\ Switches'
  <2>1. Values'
    <3>1. /\ requested' = requested \cup {flag}
          /\ desired' \in {desired \cup {flag}, desired \ {flag}}
          /\ UNCHANGED <<role, ctxState, seen>>
      BY <1>4 DEF Request
    <3> QED
      BY <3>1 DEF Values
  <2>2. Times'
    BY <1>4 DEF Times, Request
  <2>3. UNCHANGED <<initiator, isProtReady, transferable>>
    BY <1>4 DEF Request
  <2>4. Switches'
    BY <2>3, Zenon DEF Switches
  <2> QED
    BY <2>1, <2>2, <2>4
<1> QED
  BY <1>1, <1>2, <1>3, <1>4 DEF Next

\* Every variable keeps to its values, for any flags and any width of int.
THEOREM OptionsTyped == Spec => []TypeOK
<1>1. Init => Values /\ Times /\ Switches
  <2> SUFFICES ASSUME Init PROVE Values /\ Times /\ Switches
    OBVIOUS
  <2>1. Values
    BY DEF Init, Values
  <2>2. Times
    BY Parameters DEF Init, Times, TimeRec, GSS_C_INDEFINITE
  <2>3. Switches
    BY Zenon DEF Init, Switches
  <2> QED
    BY <2>1, <2>2, <2>3
<1>2. Values /\ Times /\ Switches /\ [Next]_vars => (Values /\ Times /\ Switches)'
  BY TypesStep
<1>3. Values /\ Times /\ Switches => TypeOK
  BY Zenon DEF Values, Times, Switches, TypeOK
<1> QED
  BY <1>1, <1>2, <1>3, PTL DEF Spec
=============================================================================
