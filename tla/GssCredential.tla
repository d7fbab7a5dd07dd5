---------------------------- MODULE GssCredential ----------------------------
(***************************************************************************)
(* GSSNameImpl, GSSCredentialImpl and their factories in GSSManagerImpl:   *)
(* which principal a name, a credential and a context stand for.           *)
(*                                                                         *)
(* A name object holds its native name through a wrapper, its own or the   *)
(* one static wrapper GSS_C_NO_NAME, into which every default acceptor     *)
(* stores the name of its peer and which also stands for a null name.  A   *)
(* native call that meets a null handle takes the default principal.       *)
(*                                                                         *)
(* Contexts are reduced to the names and the credential they hold; their   *)
(* native side is in GssContext.  A native structure that nothing can      *)
(* reach any more is not represented.                                      *)
(***************************************************************************)
CONSTANTS
  NameObj,      \* GSSNameImpl objects
  CredObj,      \* GSSCredentialImpl objects
  Ctx,          \* GSSContextImpl objects
  NativeName,   \* native names the library may allocate
  NativeCred,   \* native credentials the library may allocate
  Mech,         \* mechanisms
  Principal,    \* what names stand for
  Default,      \* the default principal
  NoName,       \* the wrapper object gsswrapper.GSS_C_NO_NAME
  Null,         \* the null reference, and the null native handle
  Disciplined   \* does the caller keep to the discipline below?

ASSUME Distinct ==
  /\ NoName \notin NameObj
  /\ Null \notin NameObj \cup CredObj \cup Ctx \cup NativeName \cup NativeCred
  /\ NameObj \cap CredObj = {} /\ Ctx \cap (NameObj \cup CredObj) = {}
  /\ Null \notin Principal /\ Null # NoName
  /\ {"unused", "released"} \cap Principal = {}
  /\ Default \in Principal
  /\ Disciplined \in BOOLEAN

VARIABLES
  wrapper,      \* internGSSName of each name object, Null before it is made
  cell,         \* swigCPtr of each name wrapper
  name,         \* the principal of each native name, "unused" or "released"
  handle,       \* swigCPtr of each credential's wrapper
  credState,    \* "none" before the factory, then "valid" or "invalid"
  cred,         \* each native credential: "unused", "live" or "released"
  element,      \* its principal for each mechanism, Null without one
  ctxState,     \* "none", "new" (without a native context), "half", "done"
                \* (established) or "disposed"
  role,         \* which constructor built each context
  source,       \* srcName
  target,       \* targetName
  credential,   \* credential; Null is GSS_C_NO_CREDENTIAL
  meant,        \* history: whom a name object in the caller's hands stood for
                \* when the caller got it; Null if it has not got it
  asked,        \* history: whom the caller asked each credential element for
  actedAs,      \* history: the principal a context that has begun acts as, else Null
  closed        \* history: what the caller has called dispose() on, and the
                \* names of the contexts disposed of

nameVars == <<wrapper, cell, name>>
credVars == <<handle, credState, cred, element, asked>>
ctxVars  == <<ctxState, role, source, target, credential, actedAs>>
vars     == <<nameVars, credVars, ctxVars, meant, closed>>

Wrapper == NameObj \cup {NoName}

\* The principal the library acts for when it is passed a name wrapper.
AcquiredFor(w) == IF cell[w] = Null THEN Default ELSE name[cell[w]]

\* The wrapper that stands for a name argument, which may be null.
NameArgument(o) == IF o = Null THEN NoName ELSE wrapper[o]

\* The principals an inquiry about a credential, or a context that uses it, may
\* get: those of its elements, or the default one for a null handle.
Principals(c) ==
  IF c = Null THEN {Default}
  ELSE IF handle[c] = Null THEN {Default}
  ELSE {element[handle[c]][m] : m \in Mech} \ {Null}

-----------------------------------------------------------------------------
(***************************************************************************)
(* The caller.  If it is disciplined, it forgets the names of a context it *)
(* has disposed of and passes the source name of none to another as its    *)
(* peer, disposes of a credential after the contexts that use it, and has  *)
(* one acceptor at a time, and none when it asks for a default credential. *)
(***************************************************************************)
Using(x) == ctxState[x] # "none" /\ x \notin closed

Begun(x) == ctxState[x] \in {"half", "done"}

Accepting(x) == Using(x) /\ role[x] = "acceptor"

MayUse(o) == meant[o] # Null /\ (Disciplined => o \notin closed)

MayPass(o) == MayUse(o) /\ (Disciplined => \A x \in Ctx : source[x] # o)

MayUseCred(c) == credState[c] # "none" /\ (Disciplined => c \notin closed)

MayAsk(o) ==
  IF o = Null THEN Disciplined => \A x \in Ctx : ~Accepting(x) ELSE MayUse(o)

MayCall(x) == ctxState[x] # "none" /\ (Disciplined => x \notin closed)

-----------------------------------------------------------------------------
Init ==
  /\ wrapper = [o \in NameObj |-> Null]
  /\ cell = [w \in Wrapper |-> Null]
  /\ name = [n \in NativeName |-> "unused"]
  /\ handle = [c \in CredObj |-> Null]
  /\ credState = [c \in CredObj |-> "none"]
  /\ cred = [n \in NativeCred |-> "unused"]
  /\ element = [n \in NativeCred |-> [m \in Mech |-> Null]]
  /\ ctxState = [x \in Ctx |-> "none"]
  /\ role = [x \in Ctx |-> "none"]
  /\ source = [x \in Ctx |-> Null]
  /\ target = [x \in Ctx |-> Null]
  /\ credential = [x \in Ctx |-> Null]
  /\ meant = [o \in NameObj |-> Null]
  /\ asked = [c \in CredObj |-> [m \in Mech |-> Null]]
  /\ actedAs = [x \in Ctx |-> Null]
  /\ closed = {}

-----------------------------------------------------------------------------
(* Names *)

\* Which of the unused addresses the library takes does not matter.
FreshName == CHOOSE n \in NativeName : name[n] = "unused"
FreshCred == CHOOSE n \in NativeCred : cred[n] = "unused"

\* The library allocates a native name and stores it through a wrapper.
StoreName(w, p) ==
  /\ \E n \in NativeName : name[n] = "unused"
  /\ cell' = [cell EXCEPT ![w] = FreshName] /\ name' = [name EXCEPT ![FreshName] = p]

\* A new object with a wrapper of its own.
NewName(o, p) ==
  /\ wrapper[o] = Null
  /\ wrapper' = [wrapper EXCEPT ![o] = o]
  /\ StoreName(o, p)

\* createName(): import, and canonicalisation if a mechanism is given.
CreateName(o, p) ==
  /\ NewName(o, p)
  /\ meant' = [meant EXCEPT ![o] = p]
  /\ UNCHANGED <<credVars, ctxVars, closed>>

\* The library refuses a null name.
Canonicalize(o, from) ==
  /\ MayUse(from) /\ cell[wrapper[from]] # Null
  /\ NewName(o, name[cell[wrapper[from]]])
  /\ meant' = [meant EXCEPT ![o] = meant[from]]
  /\ UNCHANGED <<credVars, ctxVars, closed>>

\* gss_release_name through some wrappers.
ReleaseNamesKeepingHandle(ws) ==      \* mutant: no argout typemap for the name
  /\ name' = [n \in NativeName |-> IF \E w \in ws : cell[w] = n THEN "released" ELSE name[n]]
  /\ UNCHANGED cell

ReleaseNames(ws) ==
  /\ name' = [n \in NativeName |-> IF \E w \in ws : cell[w] = n THEN "released" ELSE name[n]]
  /\ cell' = [w \in Wrapper |-> IF w \in ws THEN Null ELSE cell[w]]

-----------------------------------------------------------------------------
(* Credentials *)

\* createCredential(): a new wrapper, filled by gss_acquire_cred.  If anything
\* throws, the caller has no object.
AcquireCred(c, o, mechs) ==
  /\ credState[c] = "none" /\ MayAsk(o)
  /\ \E n \in NativeCred : cred[n] = "unused"
  /\ credState' = [credState EXCEPT ![c] = "valid"]
  /\ handle' = [handle EXCEPT ![c] = FreshCred]
  /\ cred' = [cred EXCEPT ![FreshCred] = "live"]
  /\ element' = [element EXCEPT ![FreshCred] =
       [m \in Mech |-> IF m \in mechs THEN AcquiredFor(NameArgument(o)) ELSE Null]]
  /\ asked' = [asked EXCEPT ![c] =
       [m \in Mech |-> IF m \notin mechs THEN Null
                       ELSE IF o = Null THEN Default ELSE meant[o]]]
  /\ UNCHANGED <<nameVars, ctxVars, meant, closed>>

\* add(): changes the native credential in place; neither a null handle nor a
\* mechanism it has already is accepted.
Add(c, o, m) ==
  /\ MayUseCred(c) /\ MayUse(o) /\ credState[c] = "valid"
  /\ handle[c] # Null /\ element[handle[c]][m] = Null
  /\ element' = [element EXCEPT ![handle[c]][m] = AcquiredFor(wrapper[o])]
  /\ asked' = [asked EXCEPT ![c][m] = meant[o]]
  /\ UNCHANGED <<nameVars, handle, credState, cred, ctxVars, meant, closed>>

\* getName(): a new name object for the principal the library finds.
GetName(c, o, p) ==
  /\ MayUseCred(c) /\ credState[c] = "valid" /\ p \in Principals(c)
  /\ NewName(o, p)
  /\ meant' = [meant EXCEPT ![o] = p]
  /\ UNCHANGED <<credVars, ctxVars, closed>>

\* gss_release_cred nulls the handle, also when a mechanism then reports an error
\* and dispose() throws: the object stays valid, with a null handle.
DisposeCred(c, throws) ==
  /\ MayUseCred(c) /\ credState[c] = "valid"
  /\ Disciplined => \A x \in Ctx : Using(x) => credential[x] # c
  /\ cred' = [n \in NativeCred |-> IF handle[c] = n THEN "released" ELSE cred[n]]
  /\ handle' = [handle EXCEPT ![c] = Null]
  /\ credState' = [credState EXCEPT ![c] = IF throws THEN "valid" ELSE "invalid"]
  /\ closed' = closed \cup {c}
  /\ UNCHANGED <<nameVars, element, asked, ctxVars, meant>>

-----------------------------------------------------------------------------
(* Contexts: what they take from names and credentials, and do to them *)

\* The constructors ask a credential they are given for its name, which becomes
\* the source of an initiator and the target of an acceptor.
Construct(x, kind, c) ==
  /\ ctxState[x] = "none"
  /\ c # Null => MayUseCred(c) /\ credState[c] = "valid"
  /\ ctxState' = [ctxState EXCEPT ![x] = "new"]
  /\ role' = [role EXCEPT ![x] = kind]
  /\ credential' = [credential EXCEPT ![x] = c]
  /\ UNCHANGED <<credVars, actedAs, meant, closed>>

NewInitiator(x, peer, c, s) ==
  /\ MayPass(peer) /\ Construct(x, "initiator", c)
  /\ target' = [target EXCEPT ![x] = peer]
  /\ \/ c = Null /\ UNCHANGED <<nameVars, source>>
     \/ /\ c # Null
        /\ \E p \in Principals(c) : NewName(s, p)
        /\ source' = [source EXCEPT ![x] = s]

\* An object whose wrapper is GSS_C_NO_NAME.
SharedName(s) == wrapper[s] = Null /\ wrapper' = [wrapper EXCEPT ![s] = NoName]

NewAcceptorNaming(x, c, s) ==      \* mutant: keeps the wrapper, not an object
  /\ Construct(x, "acceptor", c)
  /\ Disciplined => \A y \in Ctx : ~Accepting(y)
  /\ c = Null /\ source' = [source EXCEPT ![x] = NoName]
  /\ UNCHANGED <<nameVars, target>>

NewAcceptor(x, c, s) ==
  /\ Construct(x, "acceptor", c)
  /\ Disciplined => \A y \in Ctx : ~Accepting(y)
  /\ \/ /\ c = Null
        /\ SharedName(s) /\ source' = [source EXCEPT ![x] = s]
        /\ UNCHANGED <<cell, name, target>>
     \/ /\ c # Null
        /\ \E p \in Principals(c) : NewName(s, p)
        /\ target' = [target EXCEPT ![x] = s]
        /\ UNCHANGED source

\* CONTINUE_NEEDED or COMPLETE.  A context acts as what its credential's wrapper
\* denotes when the handshake begins.
Advance(x, state) ==
  /\ ctxState[x] \in {"new", "half"}
  /\ ctxState' = [ctxState EXCEPT ![x] = state]
  /\ \/ ctxState[x] = "half" /\ UNCHANGED actedAs
     \/ /\ ctxState[x] = "new"
        /\ \E p \in Principals(credential[x]) : actedAs' = [actedAs EXCEPT ![x] = p]

\* The library needs a target in every call.
InitSecContext(x, state) ==
  /\ MayCall(x) /\ role[x] = "initiator"
  /\ cell[wrapper[target[x]]] # Null
  /\ Advance(x, state)
  /\ UNCHANGED <<nameVars, credVars, role, source, target, credential, meant, closed>>

\* A failure may cost a context begun its native one; else nothing changes.
LoseNative(x) ==
  /\ ctxState[x] = "half"
  /\ ctxState' = [ctxState EXCEPT ![x] = "new"] /\ actedAs' = [actedAs EXCEPT ![x] = Null]

InitSecContextThrows(x) ==
  /\ MayCall(x) /\ role[x] = "initiator" /\ LoseNative(x)
  /\ UNCHANGED <<nameVars, credVars, role, source, target, credential, meant, closed>>

\* acceptSecContext(): a null srcName becomes an object with the shared wrapper.
WithSource(x, s) ==
  \/ source[x] = Null /\ SharedName(s) /\ source' = [source EXCEPT ![x] = s]
  \/ source[x] # Null /\ s = source[x] /\ UNCHANGED <<wrapper, source>>

ForgetPeer == cell' = [cell EXCEPT ![NoName] = Null] /\ UNCHANGED name

\* The peer's name comes with the last call.
AcceptSecContext(x, s, peer) ==
  /\ MayCall(x) /\ role[x] = "acceptor"
  /\ WithSource(x, s) /\ StoreName(NoName, peer)
  /\ Advance(x, "done")
  /\ UNCHANGED <<credVars, role, target, credential, meant, closed>>

AcceptSecContextContinues(x, s) ==
  /\ MayCall(x) /\ role[x] = "acceptor"
  /\ WithSource(x, s) /\ ForgetPeer
  /\ Advance(x, "half")
  /\ UNCHANGED <<credVars, role, target, credential, meant, closed>>

\* The library nulls the source name before it fails, also for a context that is
\* established already.
AcceptSecContextThrows(x, s) ==
  /\ MayCall(x) /\ role[x] = "acceptor" /\ ctxState[x] \in {"new", "half", "done"}
  /\ Disciplined => ctxState[x] # "done"
  /\ WithSource(x, s) /\ ForgetPeer
  /\ UNCHANGED <<ctxState, actedAs>> \/ LoseNative(x)
  /\ UNCHANGED <<credVars, role, target, credential, meant, closed>>

\* getSrcName(), getTargName(): the object itself.
GetContextName(x, o) ==
  /\ MayCall(x) /\ ctxState[x] = "done" /\ o \in {source[x], target[x]} \ {Null}
  /\ meant[o] = Null /\ cell[wrapper[o]] # Null
  /\ meant' = [meant EXCEPT ![o] = name[cell[wrapper[o]]]]
  /\ UNCHANGED <<nameVars, credVars, ctxVars, closed>>

\* The wrappers of the names a context holds.
NameWrappers(x) == {wrapper[o] : o \in {source[x], target[x]} \ {Null}}

DropFields(x) ==
  /\ ctxState' = [ctxState EXCEPT ![x] = "disposed"]
  /\ source' = [source EXCEPT ![x] = Null] /\ target' = [target EXCEPT ![x] = Null]
  /\ credential' = [credential EXCEPT ![x] = Null]
  /\ closed' = closed \cup {x} \cup ({source[x], target[x]} \ {Null})
  /\ actedAs' = [actedAs EXCEPT ![x] = Null]
  /\ UNCHANGED <<role, meant>>

DisposeKeepingSource(x) ==            \* mutant: only the target name is released
  /\ MayCall(x) /\ Begun(x)
  /\ ReleaseNames({wrapper[o] : o \in {target[x]} \ {Null}})
  /\ DropFields(x)
  /\ UNCHANGED <<wrapper, credVars>>

\* dispose() releases the names, the caller's peer name too, and drops the
\* credential without releasing it.
Dispose(x) ==
  /\ MayCall(x) /\ Begun(x)
  /\ ReleaseNames(NameWrappers(x))
  /\ DropFields(x)
  /\ UNCHANGED <<wrapper, credVars>>

DisposeThrowsLate(x) ==               \* mutant: the credential is released first
  /\ MayCall(x) /\ ctxState[x] = "new" /\ credential[x] # Null
  /\ cred' = [n \in NativeCred |-> IF handle[credential[x]] = n THEN "released" ELSE cred[n]]
  /\ handle' = [handle EXCEPT ![credential[x]] = Null]
  /\ closed' = closed \cup {x}
  /\ UNCHANGED <<nameVars, credState, element, asked, ctxVars, meant>>

\* Without a native context dispose() throws before it releases anything.
DisposeThrows(x) ==
  /\ MayCall(x) /\ ctxState[x] = "new"
  /\ closed' = closed \cup {x}
  /\ UNCHANGED <<nameVars, credVars, ctxVars, meant>>

-----------------------------------------------------------------------------
NameStep ==
  \E o \in NameObj :
    \/ \E p \in Principal : CreateName(o, p)
    \/ \E from \in NameObj : Canonicalize(o, from)

CredStep ==
  \E c \in CredObj :
    \/ \E o \in NameObj \cup {Null}, mechs \in SUBSET Mech \ {{}} : AcquireCred(c, o, mechs)
    \/ \E o \in NameObj, m \in Mech : Add(c, o, m)
    \/ \E o \in NameObj, p \in Principal : GetName(c, o, p)
    \/ \E throws \in BOOLEAN : DisposeCred(c, throws)

CtxStep ==
  \E x \in Ctx :
    \/ \E s \in NameObj, c \in CredObj \cup {Null} :
         \/ \E peer \in NameObj : NewInitiator(x, peer, c, s)
         \/ NewAcceptor(x, c, s)
    \/ \E state \in {"half", "done"} : InitSecContext(x, state)
    \/ InitSecContextThrows(x)
    \/ \E s \in NameObj, peer \in Principal : AcceptSecContext(x, s, peer)
    \/ \E s \in NameObj : AcceptSecContextContinues(x, s)
    \/ \E s \in NameObj : AcceptSecContextThrows(x, s)
    \/ \E o \in NameObj : GetContextName(x, o)
    \/ Dispose(x) \/ DisposeThrows(x)

Next == NameStep \/ CredStep \/ CtxStep

Spec == Init /\ [][Next]_vars

-----------------------------------------------------------------------------
(* Properties *)

TypeOK ==
  /\ wrapper \in [NameObj -> Wrapper \cup {Null}]
  /\ cell \in [Wrapper -> NativeName \cup {Null}]
  /\ name \in [NativeName -> Principal \cup {"unused", "released"}]
  /\ handle \in [CredObj -> NativeCred \cup {Null}]
  /\ credState \in [CredObj -> {"none", "valid", "invalid"}]
  /\ cred \in [NativeCred -> {"unused", "live", "released"}]
  /\ element \in [NativeCred -> [Mech -> Principal \cup {Null}]]
  /\ ctxState \in [Ctx -> {"none", "new", "half", "done", "disposed"}]
  /\ role \in [Ctx -> {"none", "initiator", "acceptor"}]
  /\ source \in [Ctx -> NameObj \cup {Null}]
  /\ target \in [Ctx -> NameObj \cup {Null}]
  /\ credential \in [Ctx -> CredObj \cup {Null}]
  /\ meant \in [NameObj -> Principal \cup {Null}]
  /\ asked \in [CredObj -> [Mech -> Principal \cup {Null}]]
  /\ actedAs \in [Ctx -> Principal \cup {Null}]
  /\ closed \subseteq Ctx \cup CredObj \cup NameObj

\* Whatever the caller does: no name wrapper and no credential refers to a native
\* structure that was released, and no two refer to the same one.
NoDangling ==
  /\ \A w \in Wrapper : cell[w] # Null => name[cell[w]] \in Principal
  /\ \A v, w \in Wrapper : cell[v] = cell[w] /\ cell[v] # Null => v = w
  /\ \A c \in CredObj : handle[c] # Null => cred[handle[c]] = "live"
  /\ \A c, d \in CredObj : handle[c] = handle[d] /\ handle[c] # Null => c = d

\* For a disciplined caller every element of a credential is for the principal
\* it was asked for, by name or by null, whichever contexts came and went.
CredentialNamed ==
  Disciplined => \A c \in CredObj : handle[c] # Null => element[handle[c]] = asked[c]

\* For a disciplined caller a context acts as a principal that its credential was
\* asked for, or as the default one if it was given none.
ActsAsGiven ==
  Disciplined =>
    \A x \in Ctx : Begun(x) =>
      IF credential[x] = Null THEN actedAs[x] = Default
      ELSE \E m \in Mech : actedAs[x] = asked[credential[x]][m]

-----------------------------------------------------------------------------
(* What the interface documents and the code does not keep *)

\* createCredential(): "Use "null" to specify the default principal."
NullIsDefault ==
  \A c \in CredObj, m \in Mech :
    handle[c] # Null /\ asked[c][m] = Default => element[handle[c]][m] = Default
=============================================================================
