------------------------------ MODULE GssFlags ------------------------------
(***************************************************************************)
(* The options of a GSSContextImpl.  The same seven fields first hold what *)
(* the caller requested and then, from the first successful call on, what  *)
(* the library granted; the same field first holds the lifetime to request *)
(* and then the one returned, which crosses between the library's unsigned *)
(* and Java's signed integers.  GssContext models the context itself; here *)
(* one object goes through its life with any order of requests, calls and  *)
(* failures.                                                               *)
(***************************************************************************)
EXTENDS Integers

CONSTANTS
  Flag,      \* the flags with a request method
  Half       \* a Java int has 2 * Half values (2^31)

ASSUME Parameters == Half \in Nat /\ Half > 1 /\ Flag \cap {"prot_ready", "trans"} = {}

VARIABLES
  role,         \* the constructor, "none" before it
  ctxState,     \* ctxState
  initiator,    \* the field of that name
  requested,    \* the seven fields request*, as a set
  isProtReady,  \* isProtReady
  transferable, \* isTransferable
  lifetime,     \* lifetime, a Java long
  desired,      \* history: what the caller's last request of each flag says
  actual,       \* history: the flags that the library returned last
  timeRec,      \* history: the lifetime that it returned last
  first         \* history: the flags passed by the call that began the context

fields == <<role, initiator, requested, isProtReady, transferable, lifetime>>
seen   == <<actual, timeRec, first>>
vars   == <<fields, ctxState, desired, seen>>

\* GSS_C_INDEFINITE, an OM_uint32, and GSSContext.INDEFINITE_LIFETIME, an int.
GSS_C_INDEFINITE    == 2 * Half - 1
INDEFINITE_LIFETIME == Half - 1

Unset    == {"unset"}
Returned == SUBSET (Flag \cup {"prot_ready", "trans"})

\* The lifetimes a library returns: any OM_uint32.
TimeRec == 0 .. GSS_C_INDEFINITE

-----------------------------------------------------------------------------
(* Conversions *)

ToIntMasked(n) == n % Half          \* mutant: the sign bit is masked away

\* The cast (int) of a long.
ToInt(n) == ((n + Half) % (2 * Half)) - Half

\* The jlong that SWIG passes as an OM_uint32.
ToUnsigned(n) == n % (2 * Half)

ConvertLifetime(n) == IF n = INDEFINITE_LIFETIME THEN GSS_C_INDEFINITE ELSE n

GetLifetimeUnconverted == ToInt(lifetime)   \* mutant

GetLifetime ==
  IF lifetime = GSS_C_INDEFINITE THEN INDEFINITE_LIFETIME ELSE ToInt(lifetime)

SetReturnedFlagsUnmasked(ret) ==    \* mutant: every bit becomes a requested flag
  /\ requested' = ret
  /\ isProtReady' = ("prot_ready" \in ret)
  /\ transferable' = ("trans" \in ret)

SetReturnedFlags(ret) ==
  /\ requested' = ret \cap Flag
  /\ isProtReady' = ("prot_ready" \in ret)
  /\ transferable' = ("trans" \in ret)

-----------------------------------------------------------------------------
Init ==
  /\ role = "none" /\ ctxState = "UNINIT" /\ initiator = FALSE
  /\ requested = {} /\ isProtReady = FALSE /\ transferable = FALSE /\ lifetime = 0
  /\ desired = {} /\ actual = Unset /\ timeRec = 0 /\ first = Unset

\* GSSContextImpl(peer, mech, myCred, lifetime): a negative lifetime is ignored.
NewInitiator(life) ==
  /\ role = "none"
  /\ role' = "initiator" /\ initiator' = TRUE
  /\ lifetime' = IF life >= 0 THEN ConvertLifetime(life) ELSE lifetime
  /\ UNCHANGED <<ctxState, requested, isProtReady, transferable, desired, seen>>

NewAcceptor ==
  /\ role = "none"
  /\ role' = "acceptor"
  /\ UNCHANGED <<ctxState, initiator, requested, isProtReady, transferable, lifetime,
                 desired, seen>>

\* GSSContextImpl(interProcessToken): what gss_inquire_context tells (which
\* end this is, it tells too, and nobody stores it).  Only open contexts are exported.
ImportContext(ret, time) ==
  /\ role = "none"
  /\ role' = "imported" /\ ctxState' = "DONE"
  /\ SetReturnedFlags(ret) /\ lifetime' = time
  /\ actual' = ret /\ timeRec' = time
  /\ UNCHANGED <<initiator, desired, first>>

-----------------------------------------------------------------------------
(* Requests *)

RequestAnyTime(flag, state) ==      \* mutant: also while the context exists
  /\ role # "none"
  /\ desired' = IF state THEN desired \cup {flag} ELSE desired \ {flag}
  /\ requested' = requested \cup {flag}
  /\ UNCHANGED <<role, ctxState, initiator, isProtReady, transferable, lifetime, seen>>

\* requestMutualAuth(state) and the six others: valid before the context begins
\* and ignored afterwards; the argument is not looked at.
Request(flag, state) ==
  /\ ctxState = "UNINIT" /\ initiator
  /\ desired' = IF state THEN desired \cup {flag} ELSE desired \ {flag}
  /\ requested' = requested \cup {flag}
  /\ UNCHANGED <<role, ctxState, initiator, isProtReady, transferable, lifetime, seen>>

\* Unlike the constructor it converts nothing.
RequestLifetime(life) ==
  /\ ctxState = "UNINIT" /\ initiator
  /\ lifetime' = life
  /\ UNCHANGED <<role, ctxState, initiator, requested, isProtReady, transferable,
                 desired, seen>>

-----------------------------------------------------------------------------
(* Context establishment *)

\* What both methods do with a CONTINUE_NEEDED or COMPLETE of the library.
Establish(result, ret, time) ==
  /\ ctxState' = result
  /\ SetReturnedFlags(ret)
  /\ actual' = ret /\ timeRec' = time
  /\ UNCHANGED <<role, desired>>

InitSecContext(result, ret, time) ==
  /\ role = "initiator" /\ initiator
  /\ ctxState \in {"UNINIT", "INPROG"}
  /\ Establish(result, ret, time)
  /\ lifetime' = ToInt(time)
  /\ first' = IF ctxState = "UNINIT" THEN requested ELSE first
  /\ UNCHANGED initiator

\* Any object that has a credential may accept; the requests play no part.
AcceptSecContext(result, ret, time) ==
  /\ role \in {"initiator", "acceptor"}
  /\ ctxState = "UNINIT" \/ (ctxState = "INPROG" /\ ~initiator)
  /\ Establish(result, ret, time)
  /\ lifetime' = time
  /\ initiator' = FALSE
  /\ UNCHANGED first

SecContextThrowsReset ==            \* mutant: a failed first call clears the requests
  /\ role \in {"initiator", "acceptor"} /\ ctxState = "UNINIT"
  /\ requested' = {}
  /\ UNCHANGED <<role, initiator, isProtReady, transferable, lifetime, ctxState,
                 desired, seen>>

\* A failed call throws before it stores anything: the object stays as it was.
SecContextThrows ==
  /\ role \in {"initiator", "acceptor"} /\ ctxState # "DISPOSED"
  /\ UNCHANGED vars

Dispose ==
  /\ role # "none" /\ ctxState \in {"INPROG", "DONE"}
  /\ ctxState' = "DISPOSED"
  /\ UNCHANGED <<fields, desired, seen>>

-----------------------------------------------------------------------------
Next ==
  \/ \E life \in -1 .. Half - 1 : NewInitiator(life) \/ RequestLifetime(life)
  \/ NewAcceptor
  \/ \E ret \in Returned, time \in TimeRec : ImportContext(ret, time)
  \/ \E flag \in Flag, state \in BOOLEAN : Request(flag, state)
  \/ \E result \in {"INPROG", "DONE"}, ret \in Returned, time \in TimeRec :
       InitSecContext(result, ret, time) \/ AcceptSecContext(result, ret, time)
  \/ SecContextThrows
  \/ Dispose

Spec == Init /\ [][Next]_vars

-----------------------------------------------------------------------------
(* Properties *)

\* Every variable keeps to its values.
TypeOK ==
  /\ role \in {"none", "initiator", "acceptor", "imported"}
  /\ ctxState \in {"UNINIT", "INPROG", "DONE", "DISPOSED"}
  /\ initiator \in BOOLEAN /\ requested \subseteq Flag
  /\ isProtReady \in BOOLEAN /\ transferable \in BOOLEAN
  /\ lifetime \in -Half .. 2 * Half - 1
  /\ desired \subseteq Flag /\ actual \in Returned \cup {Unset}
  /\ timeRec \in TimeRec /\ first \in (SUBSET Flag) \cup {Unset}

\* Once a context exists the getters answer what the library granted, whatever
\* was requested before, is requested later or fails in between.
ActualOnceBegun ==
  ctxState \in {"INPROG", "DONE"} =>
    /\ requested = actual \cap Flag
    /\ isProtReady = ("prot_ready" \in actual)
    /\ transferable = ("trans" \in actual)

\* The call that begins a context passes every flag the caller wants, also when
\* earlier calls failed and whatever they had to do with the fields.
RequestsReachLibrary == first # Unset => desired \subseteq first

\* getLifetime() of an established context is what the library says, where an
\* int can hold it, and INDEFINITE_LIFETIME for its indefinite one -- unless
\* this end initiated.  (Any other lifetime comes out negative.)
LifetimeReported ==
  ctxState = "DONE" =>
    /\ timeRec < Half => GetLifetime = timeRec
    /\ timeRec = GSS_C_INDEFINITE /\ role # "initiator" => GetLifetime = INDEFINITE_LIFETIME

\* The next leg of a handshake requests the lifetime that the last one was
\* given, although the field has been through the cast to int meanwhile.
LifetimeKept == ctxState = "INPROG" => ToUnsigned(lifetime) = timeRec
=============================================================================
