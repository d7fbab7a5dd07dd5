----------------------------- MODULE GssContext -----------------------------
(***************************************************************************)
(* GSSContextImpl: the Java objects an application drives, the SWIG        *)
(* wrapper objects through which they hold native security contexts, and   *)
(* the native contexts themselves.                                         *)
(*                                                                         *)
(* A wrapper is a Java object whose swigCPtr field (its `cell') the native *)
(* call may overwrite: the argout typemaps of gsswrapper.i store the       *)
(* handle back into whatever wrapper was passed.  Every GSSContextImpl is  *)
(* born with a wrapper of its own, identified here with the object; but    *)
(* the first initSecContext or acceptSecContext passes the one static      *)
(* wrapper GSS_C_NO_CONTEXT (Shared) and then keeps it as internGSSCtx.    *)
(*                                                                         *)
(* The actions are the public methods; the caller chooses the method, the  *)
(* object and the arguments, the native library chooses the outcome.       *)
(***************************************************************************)
EXTENDS Naturals

CONSTANTS
  Ctx,          \* GSSContextImpl objects (each is constructed at most once)
  Native,       \* native contexts the library may allocate
  Name,         \* GSSName objects the caller may pass as the peer
  Shared,       \* the wrapper object gsswrapper.GSS_C_NO_CONTEXT
  NoName,       \* the wrapper object gsswrapper.GSS_C_NO_NAME
  NoContext,    \* the null native handle
  Blank,        \* the zeroed struct behind `new gss_ctx_id_t_desc()'
  Nobody,       \* the Java null reference
  Disciplined   \* does the caller finish one context before the next?

ASSUME Distinct ==
  /\ Shared \notin Ctx                   \* an own wrapper is never the shared one
  /\ {NoContext, Blank} \cap Native = {} \* neither is a live native context
  /\ NoContext # Blank
  /\ Nobody \notin Ctx \cup Name         \* null is no object
  /\ NoName \notin Ctx \cup {Nobody}
  /\ Disciplined \in BOOLEAN

VARIABLES
  role,       \* which constructor built each object, "none" before it ran
  ctxState,   \* ctxState of each object; "none" also when a constructor threw
  intern,     \* internGSSCtx: the wrapper each object uses
  cell,       \* swigCPtr of each wrapper
  native,     \* what the library holds for each native context
  creator,    \* the object whose call allocated a native context
  used,       \* the objects whose messages went through a native context
  target,     \* targetName: the caller's name, an own name (c itself) or null
  src,        \* srcName: an own name, the shared NoName wrapper or null
  noName,     \* the object whose peer's name NoName's swigCPtr denotes
  nameLive,   \* the caller's names whose native name is not released
  deleg,      \* delegCredential: null, or the state of its native credential
  tokens,     \* objects whose context was exported to an unused token
  exported,   \* objects whose export() returned
  closed,     \* objects whose dispose() was called
  orphans     \* native contexts left behind by a failed import

vars == <<role, ctxState, intern, cell, native, creator, used, target, src, noName,
          nameLive, deleg, tokens, exported, closed, orphans>>

State   == {"UNINIT", "INPROG", "DONE", "DISPOSED"}
Wrapper == Ctx \cup {Shared}
Handle  == Native \cup {NoContext, Blank}
Live    == {"half", "open"}

LiveNative == {n \in Native : native[n] \in Live}

\* The native handle a call on c's internGSSCtx passes down.
HandleOf(c) == cell[intern[c]]

\* The wrapper a context-establishment call passes down (context_tmp).
ContextTmp(c) == IF ctxState[c] = "UNINIT" THEN Shared ELSE intern[c]

\* gss_delete_sec_context, and the deletion gss_export_sec_context ends with:
\* the argout typemap stores the nulled handle back into the wrapper.
DeleteNativeKeepingHandle(c, n) ==    \* mutant: no argout typemap for the handle
  native' = [native EXCEPT ![n] = "deleted"] /\ UNCHANGED cell

ForgetNative(c, n) ==                 \* mutant: the handle is nulled, not deleted
  cell' = [cell EXCEPT ![intern[c]] = NoContext] /\ UNCHANGED native

DeleteNative(c, n) ==
  /\ native' = [native EXCEPT ![n] = "deleted"]
  /\ cell'   = [cell EXCEPT ![intern[c]] = NoContext]

(***************************************************************************)
(* The caller.  The sample application means to work on one context at a   *)
(* time: it constructs the next one only when it has disposed of, or       *)
(* exported, the one before.                                               *)
(***************************************************************************)
Finished(c) == c \in closed \cup exported

MayConstructAnyTime(c) == role[c] = "none"   \* mutant: two contexts at a time

MayConstruct(c) ==
  /\ role[c] = "none"
  /\ Disciplined => \A d \in Ctx : ctxState[d] = "none" \/ Finished(d)

MayCall(c) ==
  /\ ctxState[c] # "none"
  /\ Disciplined => ~Finished(c)

\* `while (!context.isEstablished())' guards every call of the sample client.
MayEstablish(c) ==
  /\ MayCall(c)
  /\ Disciplined => ctxState[c] # "DONE"

-----------------------------------------------------------------------------
(* Constructors *)

Init ==
  /\ role     = [c \in Ctx |-> "none"]
  /\ ctxState = [c \in Ctx |-> "none"]
  /\ intern   = [c \in Ctx |-> c]
  /\ cell     = [w \in Wrapper |-> IF w = Shared THEN NoContext ELSE Blank]
  /\ native   = [n \in Native |-> "unused"]
  /\ creator  = [n \in Native |-> Nobody]
  /\ used     = [n \in Native |-> {}]
  /\ target   = [c \in Ctx |-> Nobody]
  /\ src      = [c \in Ctx |-> Nobody]
  /\ noName   = Nobody
  /\ nameLive = Name
  /\ deleg    = [c \in Ctx |-> "null"]
  /\ tokens   = {}
  /\ exported = {}
  /\ closed   = {}
  /\ orphans  = {}

\* GSSContextImpl(peer, mech, myCred, lifetime): the caller's name object is
\* kept, not copied; the source name is a fresh one when a credential is given.
NewInitiator(c, peer, withCred) ==
  /\ MayConstruct(c)
  /\ Disciplined => peer \in nameLive /\ \A d \in Ctx : target[d] # peer
  /\ role'     = [role EXCEPT ![c] = "initiator"]
  /\ ctxState' = [ctxState EXCEPT ![c] = "UNINIT"]
  /\ target'   = [target EXCEPT ![c] = peer]
  /\ src'      = [src EXCEPT ![c] = IF withCred THEN c ELSE Nobody]
  /\ UNCHANGED <<intern, cell, native, creator, used, noName, nameLive, deleg,
                 tokens, exported, closed, orphans>>

\* GSSContextImpl(myCred): the default acceptor has no target name and takes
\* the shared NO_NAME wrapper as its source name.
NewAcceptor(c, withCred) ==
  /\ MayConstruct(c)
  /\ role'     = [role EXCEPT ![c] = "acceptor"]
  /\ ctxState' = [ctxState EXCEPT ![c] = "UNINIT"]
  /\ target'   = [target EXCEPT ![c] = IF withCred THEN c ELSE Nobody]
  /\ src'      = [src EXCEPT ![c] = IF withCred THEN Nobody ELSE NoName]
  /\ UNCHANGED <<intern, cell, native, creator, used, noName, nameLive, deleg,
                 tokens, exported, closed, orphans>>

\* The native import every GSSContextImpl(byte[]) begins with: it replaces the
\* handle in the object's own wrapper.
ImportNative(c, from, n) ==
  /\ MayConstruct(c)
  /\ from \in tokens
  /\ native[n] = "unused"
  /\ role'    = [role EXCEPT ![c] = "imported"]
  /\ native'  = [native EXCEPT ![n] = "open"]
  /\ creator' = [creator EXCEPT ![n] = c]
  /\ cell'    = [cell EXCEPT ![c] = n]
  /\ tokens'  = tokens \ {from}
  /\ UNCHANGED <<intern, used, noName, nameLive, deleg, exported, closed>>

\* GSSContextImpl(interProcessToken): import, inquire, take fresh names.  The
\* inquiry says whether the context is open; the library exports no other.
ImportContext(c, from, n) ==
  /\ ImportNative(c, from, n)
  /\ ctxState' = [ctxState EXCEPT ![c] = IF native'[n] = "open" THEN "DONE" ELSE "UNINIT"]
  /\ target'   = [target EXCEPT ![c] = c]
  /\ src'      = [src EXCEPT ![c] = c]
  /\ UNCHANGED orphans

\* The same constructor when gss_inquire_context or gss_display_name fails: it
\* throws, the caller never gets the object, and nobody deletes the context.
ImportThrows(c, from, n) ==
  /\ ImportNative(c, from, n)
  /\ orphans' = orphans \cup {n}
  /\ UNCHANGED <<ctxState, target, src>>

-----------------------------------------------------------------------------
(* Context establishment: what the native call may do to the wrapper passed *)

\* A successful first call allocates a context; a later one continues it.  The
\* library accepts a token only for the handshake the context began.
NativeSuccess(c, w, result, n) ==
  /\ \/ cell[w] = NoContext /\ native[n] = "unused"
     \/ cell[w] = n /\ native[n] = "half" /\ creator[n] = c
  /\ native'  = [native EXCEPT ![n] = result]
  /\ creator' = [creator EXCEPT ![n] = c]
  /\ cell'    = [cell EXCEPT ![w] = n]

NativeFailureKeepsHandle(w) ==        \* mutant: deletes and leaves the handle
  \E n \in LiveNative :
    cell[w] = n /\ native' = [native EXCEPT ![n] = "deleted"] /\ UNCHANGED cell

NativeFailureStoresNull(w) ==         \* mutant: swigCPtr becomes a Java null
  cell' = [cell EXCEPT ![w] = Nobody] /\ UNCHANGED native

\* A failed call leaves a null handle null; a context it was given is either
\* kept or deleted, and the handle nulled.
NativeFailure(w) ==
  \/ UNCHANGED <<native, cell>>
  \/ \E n \in LiveNative :
       /\ cell[w] = n
       /\ native' = [native EXCEPT ![n] = "deleted"]
       /\ cell'   = [cell EXCEPT ![w] = NoContext]

AdvanceEarly(c, result) ==            \* mutant: CONTINUE_NEEDED taken for COMPLETE
  /\ ctxState' = [ctxState EXCEPT ![c] = "DONE"]
  /\ intern'   = [intern EXCEPT ![c] = ContextTmp(c)]

\* CONTINUE_NEEDED and COMPLETE: the wrapper passed becomes internGSSCtx.
Advance(c, result) ==
  /\ ctxState' = [ctxState EXCEPT ![c] = IF result = "open" THEN "DONE" ELSE "INPROG"]
  /\ intern'   = [intern EXCEPT ![c] = ContextTmp(c)]

InitSecContext(c, result, n) ==
  /\ MayEstablish(c) /\ role[c] = "initiator"
  /\ target[c] \in nameLive
  /\ NativeSuccess(c, ContextTmp(c), result, n)
  /\ Advance(c, result)
  /\ UNCHANGED <<role, used, target, src, noName, nameLive, deleg, tokens, exported,
                 closed, orphans>>

\* The exception is thrown before internGSSCtx and ctxState are assigned.
InitSecContextThrows(c) ==
  /\ MayEstablish(c) /\ role[c] = "initiator"
  /\ NativeFailure(ContextTmp(c))
  /\ UNCHANGED <<role, ctxState, intern, creator, used, target, src, noName, nameLive,
                 deleg, tokens, exported, closed, orphans>>

\* A null srcName is replaced by the shared NO_NAME wrapper before anything
\* else happens.
SourceName(c) == IF src[c] = Nobody THEN NoName ELSE src[c]

\* The peer whose name the NO_NAME wrapper denotes after a successful call.
PeerNameEarly(c, result) ==           \* mutant: stored by the first call, then kept
  IF SourceName(c) = NoName /\ result = "half" THEN c ELSE noName

PeerName(c, result) ==
  IF SourceName(c) # NoName THEN noName ELSE IF result = "open" THEN c ELSE Nobody

\* On success the library stores the peer's name through srcName's wrapper and
\* a delegated credential through a fresh one, which delegCredential adopts and
\* which is then released -- unless writing the output token threw first.
AcceptSecContext(c, result, n, delegated, written) ==
  /\ MayEstablish(c) /\ role[c] = "acceptor" /\ ctxState[c] # "DISPOSED"
  /\ delegated => result = "open"
  /\ NativeSuccess(c, ContextTmp(c), result, n)
  /\ Advance(c, result)
  /\ src'    = [src EXCEPT ![c] = SourceName(c)]
  /\ noName' = PeerName(c, result)
  /\ deleg'  = [deleg EXCEPT ![c] = IF ~delegated THEN "none"
                                    ELSE IF written THEN "released" ELSE "live"]
  /\ UNCHANGED <<role, used, target, nameLive, tokens, exported, closed, orphans>>

\* The library clears the source name on entry, also when it then fails.
AcceptSecContextThrows(c) ==
  /\ MayEstablish(c) /\ role[c] = "acceptor" /\ ctxState[c] # "DISPOSED"
  /\ NativeFailure(ContextTmp(c))
  /\ src'    = [src EXCEPT ![c] = SourceName(c)]
  /\ noName' = IF SourceName(c) = NoName THEN Nobody ELSE noName
  /\ UNCHANGED <<role, ctxState, intern, creator, used, target, nameLive, deleg,
                 tokens, exported, closed, orphans>>

\* A malformed token header, or a disposed object, throws before the native call.
AcceptSecContextRejects(c) ==
  /\ MayEstablish(c) /\ role[c] = "acceptor"
  /\ src' = [src EXCEPT ![c] = SourceName(c)]
  /\ UNCHANGED <<role, ctxState, intern, cell, native, creator, used, target, noName,
                 nameLive, deleg, tokens, exported, closed, orphans>>

-----------------------------------------------------------------------------
(* An established context *)

\* wrap, unwrap, getMIC, verifyMIC: no check of ctxState or invalid; whatever
\* open context the wrapper denotes carries the message.
PerMessage(c) ==
  /\ MayCall(c)
  /\ \E n \in Native :
       /\ HandleOf(c) = n /\ native[n] = "open"
       /\ used' = [used EXCEPT ![n] = @ \cup {c}]
  /\ UNCHANGED <<role, ctxState, intern, cell, native, creator, target, src, noName,
                 nameLive, deleg, tokens, exported, closed, orphans>>

\* export(): the library deletes the context and nulls the handle; the object's
\* own state is not touched.
Export(c) ==
  /\ MayCall(c)
  /\ \E n \in Native :
       HandleOf(c) = n /\ native[n] = "open" /\ DeleteNative(c, n)
  /\ tokens'   = tokens \cup {c}
  /\ exported' = exported \cup {c}
  /\ UNCHANGED <<role, ctxState, intern, creator, used, target, src, noName, nameLive,
                 deleg, closed, orphans>>

\* dispose(): delete the native context, free the names (the caller's peer name
\* too) and the delegated credential, invalidate the object.
Dispose(c) ==
  /\ MayCall(c) /\ ctxState[c] # "DISPOSED"
  /\ HandleOf(c) \in LiveNative
  /\ DeleteNative(c, HandleOf(c))
  /\ ctxState' = [ctxState EXCEPT ![c] = "DISPOSED"]
  /\ noName'   = IF src[c] = NoName THEN Nobody ELSE noName
  /\ nameLive' = nameLive \ {target[c]}
  /\ target'   = [target EXCEPT ![c] = Nobody]
  /\ src'      = [src EXCEPT ![c] = Nobody]
  /\ deleg'    = [deleg EXCEPT ![c] = "null"]
  /\ closed'   = closed \cup {c}
  /\ UNCHANGED <<role, intern, creator, used, tokens, exported, orphans>>

\* gss_delete_sec_context refuses a handle that is no context: dispose() throws
\* and frees nothing.  Even the disciplined caller may do this to an object it
\* has exported.
DisposeThrows(c) ==
  /\ ctxState[c] \notin {"none", "DISPOSED"}
  /\ HandleOf(c) \notin LiveNative
  /\ closed' = closed \cup {c}
  /\ UNCHANGED <<role, ctxState, intern, cell, native, creator, used, target, src,
                 noName, nameLive, deleg, tokens, exported, orphans>>

-----------------------------------------------------------------------------
Next ==
  \E c \in Ctx :
    \/ \E peer \in Name, withCred \in BOOLEAN : NewInitiator(c, peer, withCred)
    \/ \E withCred \in BOOLEAN : NewAcceptor(c, withCred)
    \/ \E from \in Ctx, n \in Native : ImportContext(c, from, n)
    \/ \E from \in Ctx, n \in Native : ImportThrows(c, from, n)
    \/ \E result \in Live, n \in Native : InitSecContext(c, result, n)
    \/ InitSecContextThrows(c)
    \/ \E result \in Live, n \in Native, delegated, written \in BOOLEAN :
         AcceptSecContext(c, result, n, delegated, written)
    \/ AcceptSecContextThrows(c)
    \/ AcceptSecContextRejects(c)
    \/ PerMessage(c)
    \/ Export(c)
    \/ Dispose(c)
    \/ DisposeThrows(c)

Spec == Init /\ [][Next]_vars

-----------------------------------------------------------------------------
(* Properties *)

\* Every variable keeps to its values; in particular a wrapper denotes a native
\* context, the null handle or the zeroed struct, never a Java null.
TypeOK ==
  /\ role \in [Ctx -> {"none", "initiator", "acceptor", "imported"}]
  /\ ctxState \in [Ctx -> State \cup {"none"}]
  /\ intern \in [Ctx -> Wrapper]
  /\ cell \in [Wrapper -> Handle]
  /\ native \in [Native -> {"unused", "deleted"} \cup Live]
  /\ creator \in [Native -> Ctx \cup {Nobody}]
  /\ used \in [Native -> SUBSET Ctx]
  /\ target \in [Ctx -> Name \cup Ctx \cup {Nobody}]
  /\ src \in [Ctx -> Ctx \cup {NoName, Nobody}]
  /\ noName \in Ctx \cup {Nobody}
  /\ nameLive \in SUBSET Name
  /\ deleg \in [Ctx -> {"null", "none", "live", "released"}]
  /\ tokens \in SUBSET Ctx
  /\ exported \in SUBSET Ctx
  /\ closed \in SUBSET Ctx
  /\ orphans \in SUBSET Native

\* Whatever the caller does, in any order and on any number of objects: no
\* wrapper holds a deleted native context, and no two hold the same one, so no
\* native call is made on freed memory and no context is deleted twice.
NoDangling ==
  /\ \A w \in Wrapper : cell[w] \in Native => cell[w] \in LiveNative
  /\ \A v, w \in Wrapper : cell[v] \in Native /\ cell[v] = cell[w] => v = w

\* Whatever the caller does, a live native context stays reachable through some
\* wrapper: overwriting swigCPtr never loses one.
NoLostNative ==
  \A n \in LiveNative : \E w \in Wrapper : cell[w] = n

\* The handle the next call on an object passes down is never a context that
\* another object created, nor one already deleted.
Isolation ==
  \A c \in Ctx : MayCall(c) /\ HandleOf(c) \in Native =>
    HandleOf(c) \in LiveNative /\ creator[HandleOf(c)] = c

\* An object that has not begun finds the shared NO_CONTEXT wrapper null, so
\* its first call really starts a context.
FreshStart ==
  \A c \in Ctx : MayCall(c) /\ ctxState[c] = "UNINIT" => cell[Shared] = NoContext

\* Whatever the caller has not finished with accounts for every live native
\* context, except the one a failed import left behind.
NoLeak ==
  \A n \in LiveNative \ orphans : \E c \in Ctx : MayCall(c) /\ HandleOf(c) = n

\* What isEstablished() answers agrees with the native context behind it.
StateAgrees ==
  \A c \in Ctx : MayCall(c) =>
    /\ ctxState[c] = "DONE" <=> \E n \in Native : HandleOf(c) = n /\ native[n] = "open"
    /\ ctxState[c] = "UNINIT" => HandleOf(c) = Blank

\* No message of one object ever travels through the association of another.
OwnMessages ==
  \A n \in Native : used[n] \subseteq {creator[n]}

\* getSrcName() of an established acceptor names the peer of that context.
AcceptorSourceName ==
  \A c \in Ctx : MayCall(c) /\ ctxState[c] = "DONE" /\ src[c] = NoName => noName = c
=============================================================================
