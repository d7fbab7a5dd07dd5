# Verification of the Kerberos application for Android

This directory holds TLA+ models of the program in this repository, the TLC
configurations that check them, and proofs that TLAPS checks. `PROJECT.json`
lists the runs, the mutated definitions that each property must notice, the
source lines each definition stands for, the hazards and the findings.

To check: `tlc -config X.cfg M` for the pairs under *Runs*; `tlapm M.tla` for
the modules whose name ends in `Proofs` or `Theorems`.

## 1. The system

An Android Activity (`KerberosAppActivity`) with five buttons. Four of them run
MIT's command-line tools kinit, klist, kvno and kdestroy inside the
application's own process, through JNI (`kerberosapp.c`). The fifth runs a
sample client of a Java GSS-API (`org.ietf.jgss`, implemented in
`edu.mit.jgss` over a SWIG wrapper of the native library, `gsswrapper.i`).

| Component | State | Operations | Talks to |
|---|---|---|---|
| Security contexts (`GSSContextImpl`, typemaps of `gsswrapper.i`) | `ctxState`, `invalid`, `internGSSCtx`, names, delegated credential; the static wrappers `GSS_C_NO_CONTEXT`, `GSS_C_NO_NAME`; native contexts | three constructors, initSecContext, acceptSecContext, per-message calls, export, dispose | native GSS library |
| Context options (same class) | seven flags, `isProtReady`, `isTransferable`, `initiator`, `lifetime` | request*, getters, setReturnedFlags | native GSS library |
| Sample client (`KerberosAppActivity.startClient`) | static fields `context`, `clientCred`, `clientSocket` | connect, initialise, establish, export/import, communicate, shut down | contexts, framing, server |
| Token framing (`GssUtil`, with the int conversions of `Util`) | a byte stream each way | WriteToken, ReadToken | socket |
| Kerberos tools (`kerberosapp.c`, `kinit.c`, `klist.c`, `kvno.c`, `kdestroy.c`, button listeners) | the credential cache file, `cached_obj`, the process and its Activities | four native calls, `onCreate`, `onDestroy` | Kerberos library, KDC, Android |
| Credentials (`GSSCredentialImpl`) | wrapper of a native credential, `invalid` | acquire, add, inquire, dispose | native GSS library |
| Names, manager (`GSSNameImpl`, `GSSManagerImpl`) | wrapper of a native name | import, canonicalize, export, compare, factory methods | native GSS library |
| OIDs and DER (`Oid`, `OidImpl`, `OidUtil`, `DerUtil`, `DerHeader`) | a stream that is read in part; in each `Oid` a native value and the DER it was made from | parse, encode, compare, read tokens and their headers | streams, contexts |
| Per-message calls (`GSSContextImpl`, `MessageProp`) | the numbers of the native context; the privacy and the supplementary states of the caller's `MessageProp` | wrap, unwrap, getMIC, verifyMIC | native GSS library, the peer |
| Channel bindings | plain fields, never handed to the library | setters, getters | |

What is hard about it:

* **Ownership of native handles.** A Java object holds a native context through
  a wrapper whose pointer the native call overwrites. The first call of *every*
  context passes the same static wrapper. Whether that is harmless depends on
  the order of calls on several objects, and on which of them fail.
* **State that outlives a run.** The client's objects are static fields. A run
  can end at almost any line; what it leaves meets the next run. A null that
  nobody tests turns a lost connection into an exception that skips the shutdown.
* **A process that was meant to end.** The tools call `exit()`, keep globals, and
  print to whichever Activity called last. Android destroys Activities late, and
  kills the process between any two steps of the cache's update.
* **A stream that may end anywhere**, and conversions between unsigned native
  and signed Java integers.
* **A network that loses, repeats and reorders.** Whether a message may come out
  hangs on one comparison of the library's status, for four combinations of
  services; the caller's streams may fail before or after the library has taken
  a token.

`PROJECT.json` lists these as hazards, each at its line.

## 2. Modules

    GssContext                            TokenChannel          MessageService
      ^ EXTENDS, and INSTANCE WITH            ^ INSTANCE            ^ INSTANCE
      |   Disciplined <- TRUE             TokenFraming          GssMessage
    ClientApp                                 |                     |
        |                                 TokenFramingProofs    GssMessageProofs
    GssContextProofs (of both)                |
                                          FlattenTheorems
                                              |
                                  Der --- DerProofs

    GssFlags ------ GssFlagsProofs        KrbTools -- KrbToolsProofs
    GssCredential - GssCredentialProofs

An INSTANCE is a refinement: the module below implements the one above.
`FlattenTheorems` has no model: it proves what `FlattenSeq` does to a list that grows
at its end and shrinks at its front, for the two modules whose streams are such lists.
`MC*` modules only fix bounds and symmetry.

### GssContext

One record of state per `GSSContextImpl` (`role`, `ctxState`, `intern`,
`target`, `src`, `deleg`), one pointer per wrapper (`cell`: each object's own
wrapper, and `Shared`, the static `GSS_C_NO_CONTEXT`), and what the library
holds (`native`, `creator`). Each action is one public method with all it does,
in two or three outcomes: `InitSecContext` / `InitSecContextThrows`,
`AcceptSecContext` / `...Throws` / `...Rejects`, `ImportContext` /
`ImportThrows`, `Dispose` / `DisposeThrows`, and the constructors, `PerMessage`
and `Export`. The library is external: `NativeSuccess` and `NativeFailure` say
what it may do to the wrapper it gets. After a failure it may keep the context
or delete it and null the handle; both are allowed. What the library imports is open,
since it exports no other: `ImportContext` asks, as the code does, and is always told so.

History variables (`used`, `tokens`, `exported`, `closed`, `orphans`, `creator`)
record who did what, for the properties.

A method of the other role (acceptSecContext on an object constructed with a
peer, and the reverse) is not taken here; `GssFlags` allows the one of the two
that gets as far as the library.

The constant `Disciplined` is an assumption about the *caller*: it constructs a
context only when every other was disposed of or exported, calls nothing but
dispose() on a finished one, does not go on establishing an established one, and
gives each context a name of its own. With `FALSE` the caller does as it likes.

### ClientApp

`startClient()`, one action per step, extending `GssContext` with
`Disciplined = FALSE`: whether the client has the discipline is a result, not an
assumption. `pc` is the step; `Fail` is a caught exception that returns FAILURE
and goes to the shutdown, `Throw` one that leaves `startClient()` to the button
listener. Every line that can throw does: a stream that cannot be had from a fresh socket
(`ConnectToServer`, where `clientSocket` and `streams` then belong to different runs), a
null token, dispose() of the context or of the credential, a close() that fails before or
after the connection is closed (`CloseConnection`). The static fields live on from run to
run. The server answers what it owes and may close at any time. Which unused object, native context or name a
constructor takes does not matter, as they are interchangeable; one is taken (`OneOf`
in `FreshCtx`, `FreshNative`, `FreshName`), by a choice the proofs may not look into.

### KrbTools

The Activity and its process (`OnCreate`, `Leave`, `OnDestroy`, `Kill`,
`Restart`), the JNI wrappers (`NativeCall`, `CacheCaller`), and the drivers step
by step: `K5Begin`, `GetCreds`, `InitializeCache`, `StoreCred` for kinit, and one
step for each of the others, which change the cache at most once. `End("exited")`
is a call of `exit()`. The listener's line (`Message`) is what the user sees.
The cache file is absent, torn (truncated, no principal yet) or sound; it may hold a TGT
and service tickets got with it (`service` remembers for whom). A failing
`krb5_cc_initialize` leaves it torn or, having removed it, absent.

The bytes of options are abstracted to what decides the control flow: the text
of the principal field is a principal, empty, two words, `-R`, or words with an
extra blank (which `countWords` counts and `strtok` does not). With `-R` kinit
renews: it needs a cache with a ticket (`MayRenew`), and then truncates and fills
that same cache.

### TokenFraming and TokenChannel

`TokenFraming` has the bytes: the header's four digits in base `Base`, signed as
a Java int; the two writes of WriteToken; the two loops of ReadToken, a byte at a
time; the end of the stream read as the byte `Base - 1`. `TokenChannel` is what
callers want of it: a queue of whole tokens which, when it ends, loses some of
the last ones and then answers null, or filler (`Fill`) once nothing is left.
`inflight` maps to its `queue`; `clean` and `padded` record whether the connection
ended between two tokens and how much of an answer was made up.

### GssFlags

The fields of one object's options, which hold the requests before the first
successful call and the granted flags after it, and the lifetime with its
conversions (`ToInt`, `ToUnsigned`, `ConvertLifetime`); an int has `2 * Half`
values.

### GssCredential

`GSSNameImpl`, `GSSCredentialImpl` and the factory methods of `GSSManagerImpl`,
and the contexts as holders of names and credentials (what they do natively is in
`GssContext`). A name object points to a wrapper (`wrapper`), a wrapper to a native
name (`cell`), a native name stands for a principal (`name`). All name objects a
default acceptor makes share the wrapper `GSS_C_NO_NAME`, which
`AcceptSecContext` overwrites with the peer and which `NameArgument` passes for a
null. A null handle stands for the default principal (`AcquiredFor`,
`Principals`). A credential has an element per mechanism; `Add` changes it in
place. A context acts as what its credential's wrapper denotes when the handshake begins
(`Advance`), and is half open until its last call; a failure may cost it its native context
(`LoseNative`). An acceptor gets its peer's name with the last call, and every other
call takes the shared name away (`ForgetPeer`). `Dispose`, of an established context or of
one in the middle of its handshake, releases the names it holds, the caller's own among
them, and drops its credential without releasing it; without a native context it throws.

History variables record whom a name stood for when the caller got it (`meant`),
whom a credential was asked for (`asked`), whom a context acted for (`actedAs`), and
what the caller has disposed of (`closed`).

`Disciplined` is again an assumption on the caller: it forgets the names of a
context it has disposed of, passes the source name of no context to another as its
peer, disposes of a credential after the contexts that use it (as `startClient()`
does, `KerberosAppActivity.java:480`), and has at most one acceptor, and none when
it asks for a default credential. The second clause came out of the proof: an
initiator that got an acceptor's source name as its peer releases the shared
wrapper when it is disposed of, while a later acceptor is using it. That takes
three contexts, which is why the run has them.

### GssMessage and MessageService

One direction of an established context. `Wrap` and `GetMIC` number a token
before the stream takes or refuses it; `Unwrap` and `VerifyMIC` meet any token
written so far, any number of times, damaged or not. `NativeStatus` and
`NativeCheck` are the library's sequence state (external): highest number, numbers
seen, and a window, for each choice of replay and sequence detection. The rest is
the code: every status but COMPLETE throws (`Throws`), the supplementary bits are
looked for only after that (`Flags`), and the caller's `MessageProp` (`wprop`,
`rprop`), which is used for one call after another, is overwritten in between.
`InputFails` and `OutputFails` are an IOException before and after the native call.

`MessageService` is the promise without numbers, windows and statuses: messages
offered, messages taken, and which of the former will not come any more.
`GssMessage` implements it under `offered <- sent`, `taken <- delivered`,
`done <- Done` (all numbers up to the last accepted one under sequence
detection, else those seen), `warned <- alarm`.

### Der

A stream that arrives in pieces and may end anywhere, and the two readers on it:
`InputToken` (initSecContext and acceptSecContext through `DerUtil.getHeader`,
with its long lengths, its ints that overflow and its -1) and the constructor of
`Oid` (`NewFromStream`). An `Oid` holds a native value and perhaps the DER it was
made from; `NewFromString`, `NewFromDER` and `SetNativeOid` are the other
ways to get or change one, `GetDER` and `Equals` what is asked of it.
`EncodeArc` and `LowDigits` are OidUtil's division of an arc into base-128 digits,
with its cases; `Base128` is X.690. Native values are external and encoded right.

Two assumptions say what peers and libraries send. `Bytes`: tokens and identifiers are
made of bytes, and the content of an identifier is below 128 bytes, so that one byte
holds its length. `Headers`: a token that starts with the tag 0x60 has its length in its
header (`ExactLength`, RFC 2743 3.1). Any other token may be bytes of any number.

Such a token is rejected after its first byte, and the rest stays in the stream
(`RejectToken`): the next call meets the second byte. `place` says where the reader stands:
at an item, within one that is being rejected, or `lost` once it has taken a 0x60 inside a
token for the head of one. `clear` is history: no token rejected so far held a 0x60 after
its first byte. The properties of the stream speak of the time until then.

## 3. Runs

| Run | Module, cfg | What it shows |
|---|---|---|
| context_one | MCGssContext, GssContext_one | disciplined caller, 3 objects, 3 native contexts, 2 names: `Isolation`, `FreshStart`, `NoLeak`, `StateAgrees`, `OwnMessages`, `AcceptorSourceName`, `NoDangling` |
| client | MCClientApp, ClientApp_any | 3 runs, 3 legs, a server that may close: `CleanBetweenRuns`, `FreshHandshake`, `VerifiedOnOwnAssociation`, `RunEnds`; the client refines the disciplined `GssContext`, except where an exception has left a context over (`RefinesDiscipline`) |
| tools | KrbTools, KrbTools_all | 3 Activities, 3 native calls per process: `ServiceOfOwner` (a service ticket is in a whole cache, with the principal and the TGT it was got with), `GotTicket` (what "Got Ticket!" on the screen is worth), `Destroyed`, `ToolEnds` |
| framing | MCTokenFraming, TokenFraming_all | connection ends at any byte: `Framed`, `CleanEndIsNull`, refinement of `TokenChannel` (`RefinesChannel`), `ReadReturns` |
| flags | GssFlags, GssFlags_all | `ActualOnceBegun`, `RequestsReachLibrary`, `LifetimeReported`, `LifetimeKept` |
| credentials | MCGssCredential, GssCredential_careful | disciplined caller, 3 names, 1 credential, 3 contexts, 2 mechanisms, 2 principals: `CredentialNamed`, `ActsAsGiven`; and `NoDangling` |
| messages | MCGssMessage, GssMessage_all | 2 messages, 3 tokens, 3 receptions, window 2, the four services: `Genuine`, `AtMostOnce`, `LossesNoticed`, refinement of `MessageService` (`RefinesService`) |
| der | MCDer, Der_known | 2 items on a stream, 2 `Oid` objects: `ItemsWhole` (an item is read whole unless the stream ended inside it) and `Aligned` (the next read starts at the next item, or at the rest of a token being rejected), both until a rejected token holds a 0x60 after its first byte; `EncodedRight` (getDER answers the DER of the native value) |

What the properties of the client except, they say: a run that an exception ended may leave
its connection open and its context half done behind the shared wrapper, or imported. The
handshake of the next run may begin on that half done context (`FreshHandshake`), never
on an established or a deleted one; and while such an object is left over, the client
constructs another, which the discipline forbids (`RefinesDiscipline`).

The type invariants are checked in these runs too, except for `ClientApp` and `Der`,
whose values are those of a few fixed sets and of the operators. Deadlock is not
checked anywhere: every bound (objects, runs, calls) stops the system, and a
finished caller may really stop.

**Disagreements.** These runs each check one sentence of the interface, a comment
or a message, and TLC shows a behaviour of the code that contradicts it:

| Run | Sentence | Behaviour |
|---|---|---|
| context_interleaved | wrap works over "the established security context" | with two contexts begun at once, one object's messages use the other's |
| credentials_default | 'Use "null" to specify the default principal' | while an acceptor's context is open, null is its peer |
| messages_gap | unwrap's msgProp will contain whether "the token was a duplicate, old, out of" sequence, or after a gap | each of these throws, and the MessageProp stays as it was |
| oid_equal | equals: 'returning "true" if the two represent' the same Oid value | 1.2.16384 and 1.2.128.0, made from strings, are equal |

Noticed while modelling, without a run of their own:

* The seven request methods request their flag also when given false
  (`GSSContextImpl.java:948`, `GSSContext.java:316`); `Request` of `GssFlags` has it.
* A run of the client that could not send its message ends in SUCCESS without a
  verified reply (`KerberosAppActivity.java:673`, comment at `:628`); `SendMessage` of
  `ClientApp` has it.
* acquireCred tests for an indefinite lifetime the wrong way round: every finite
  request becomes indefinite (`GSSCredentialImpl.java:371`, `GSSManager.java:172`).
* createCredential(usage) throws whatever it is given (`GSSManagerImpl.java:185`,
  `GSSManager.java:153`).
* A credential whose native release reports an error stays valid, with a null handle,
  and stands for the default principal from then on (`GSSCredentialImpl.java:53`);
  `DisposeCred` has it.
* dispose() of an object that never began, or was exported, throws and leaves it
  valid (`GSSContextImpl.java:521`, `GSSContext.java:125`); `DisposeThrows` has it.
* export() leaves the object established (`:919`, `GSSContext.java:301`).
* A default acceptor has no target name (`:143`, `GSSContext.java:496`).
* dispose() releases the peer's name object that the caller passed in, which may be
  in use by another context (`:537`); a disciplined caller gives each its own.
* getLifetime() answers a negative number for a granted lifetime of 2^31 seconds or
  more that is not the indefinite one, and -1 for an initiator's indefinite one
  (`:338`, `:1029`); `LifetimeReported` excepts both.
* The getters answer the library's flags in the middle of a handshake (`:340`,
  `GSSContext.java:414`); after an import, isInitiator() answers false (`:1059`,
  `GSSContext.java:520`).
* onDestroy() runs kdestroy also while a newer Activity shows
  (`KerberosAppActivity.java:325`); `OnDestroy` of `KrbTools` has it, and `GotTicket`
  names it as the one thing that can take a ticket away while the screen announces it.
* A token of several bytes with another tag than 0x60 is rejected after one byte, and the
  others are taken for the next token (`DerUtil.java:57`); `RejectToken` of `Der` has it.
* The delegated credential whose wrapper getDelegCred hands out was released in the
  accepting call (`GSSContextImpl.java:495`, `GSSContext.java:511`).
* An initiator whose context has no end of life reports -1 and not
  INDEFINITE_LIFETIME (`GSSContextImpl.java:338`, `GSSContext.java:49`);
  `LifetimeReported` excludes it.
* A token cut by the end of the stream is filled with 0xFF and returned, where the
  comment promises null (`GssUtil.java:113`, `:95`); `ReadByte` of `TokenFraming`
  has it, and the channel's `Fill`.
* verifyMIC never sets the privacy state to false (`GSSContext.java:275`);
  `VerifyMIC` leaves it. getMIC with the null MessageProp that `GSSContext.java:235`
  allows is a NullPointerException (`GSSContextImpl.java:801`), and so is unwrap with
  one, after the library has taken the token.
* A message that came after a gap is consumed by the exception that tells of the gap
  and cannot be had again (`GSSContextImpl.java:708`); `Warn` of `MessageService`
  allows it.
* containedIn compares native objects by identity (`Oid.java:226`), hashCode is not
  overridden beside equals (`Oid.java:172`), and the syntax check of a dotted string
  accepts any character as separator (`OidUtil.java:183`).
* klist returns 0 for a missing cache (`klist.c:397`), so the listener's "Failed to
  find Ticket!" (`KerberosAppActivity.java:203`) is not shown for it.

**Bounds.** Two objects are enough for two contexts to meet in the shared wrapper;
the third shows a disciplined caller going on after an export and an import.
Three native contexts let one be deleted, one live and one be new. Three runs of
the client show a run that fails, what it leaves, and a run that meets what two
others left; three legs a handshake that goes on after its second token. Three
Activities and three calls per process let an old Activity's `onDestroy` come
between two presses of a newer one, in a first and in a restarted process. A byte
with two values lets a header count to seven, so that tokens of 0, 1, 2 and 3
bytes, a padded header that reads as a positive size and a negative size all
occur; three writes and four reads put a boundary on both sides of a middle
token. Two flags suffice since each is treated alike; `Half = 4` has both
constants for `indefinite`, ordinary lifetimes and ones that an int cannot hold. For credentials,
three contexts let an initiator outlive the acceptor whose source name it got while
another acceptor begins; three names give each a name; two mechanisms let `Add` extend a
credential under another name. For messages, three tokens give a gap, a duplicate, a
late and a too old token with a window of two. For `Der`, the tokens have short, one-
and two-byte lengths, one is longer than 255 bytes, and three have the wrong tag: of one byte, of
several, and with a 0x60 among them; the identifiers have arcs of one, two and three digits (which arcs are encoded right is
proved for all below 2^21). An int of `Der` has 16 bits (`IntRange`), because TLC's own
have 32; what is longer than a two-byte length is the -1 of an ended stream shifted in.

**Symmetry** (context_*, credentials*, messages* runs, and the objects of the runs of
`Der`): objects, native contexts, names, mechanisms and messages are only compared for
equality, and no liveness is checked there.
The native names and credentials of `GssCredential` are taken in a fixed order, so
they are not in the symmetry set.

**Fairness.** `ClientApp`: weak fairness of the client's step, since the UI thread
runs `startClient()` to its end before anything else, and of the server's answer,
without which a read blocks for ever in the code too. Nothing is assumed of the
button, of the server's closing or of success. `KrbTools`: weak fairness of the
running tool's step; the library limits its retries of a silent KDC. Pressing,
leaving, killing and expiring are free. `TokenFraming`: weak fairness of a read
that has a byte, or the end of the stream, to return.

## 4. Proofs

**GssContextProofs**, for any sets of objects, native contexts and names:

* `TypeCorrect`: `Spec => []TypeOK`.
* `WrappersSound`: `Spec => [](NoDangling /\ NoLostNative)` with no assumption
  on the caller. The two are not inductive alone: that deleting through one
  wrapper leaves no second copy needs to know which wrapper an object may use.
  `WrapperInv` adds `OwnWrapper` (an object uses its own wrapper or the shared
  one). Every action is reduced to what it does to one wrapper: stores a handle,
  drops one, or leaves the cells (`StoreHandle`, `DropHandle`).
* `DisciplinedSound`: if `Disciplined`, then
  `Spec => [](Isolation /\ FreshStart /\ NoLeak /\ StateAgrees /\ OwnMessages)`.
  `DisciplineInv` adds `Ownership`: at most one object is active; the wrapper an
  object uses is determined by its state; who created the context in the shared
  wrapper, and in each own one; an object that has not begun has not touched
  either. `OwnershipStep` proves it action by action and `Promises` draws the five
  properties from it. How far the sample client is such a caller is `ClientDisciplined`
  below.

* `SourceNamesPeer`: if `Disciplined`, then `Spec => []AcceptorSourceName`. `SourceInv`
  adds that one object is active at most, so that only the acceptor whose name is in
  the shared name wrapper may be asked for it.

Without the discipline `OwnMessages` is false (run context_interleaved), so
`DisciplinedSound` needs it.

The same module has the theorems of `ClientApp`, for any number of runs, objects, names and any
server:

* `ClientCallsContexts`: `AppSpec => Spec`. Every step of `ClientApp` is a call of
  `GssContext` or leaves the contexts alone, so `TypeOK` and `NoDangling` are the
  client's too.
* `ClientSafe`: `AppSpec => [](CleanBetweenRuns /\ FreshHandshake /\
  VerifiedOnOwnAssociation)`. `ClientInv` ties the step of the run (`AtStep`: which role
  and state the static `context` has there) to who may hold a handle: in the shared
  wrapper the run's own object, or one whose handshake an exception abandoned
  (`SharedHolder`), in an own wrapper its own object, being used or abandoned
  (`OwnHolder`), and to the sockets (`Connections`). `Verification` says where
  `verified` may be true. None of the three properties is inductive alone: what a run
  leaves behind depends on which of its steps failed, and how. The runs that an exception
  ended are not left out: the theorem says what they may leave (one half done context
  behind the shared wrapper, imported contexts behind their own, connections) and that
  the next handshake may begin on the half done one.
* `ClientDisciplined`: `AppSpec => RefinesDiscipline`, the step of the argument that makes
  `DisciplinedSound` a statement about this application: every step of the client is one of
  the disciplined caller, except a construction while an object is left over (`Leftover`:
  abandoned by an exception, and neither disposed of nor exported since). Even then every
  other object is unused or finished, and all later calls on the new object are again
  disciplined ones. `OneByOne` is what the proof adds: every object but the static
  `context` is done with or abandoned.
* `ClientSound`: `AppSpec => [](aborted = {} => ...)`, all that `DisciplinedSound` promises,
  said of the client's own contexts (`OneAtATime!Isolation` and the others; the instance
  fixes who may still call which object). A step property does it: `InTurn` says what the
  disciplined caller does without its guards, `OwnershipStep` needs no more than that, and
  both callers satisfy it (`DisciplinedInTurn`, `ClientInTurn`). After an
  exception `Isolation`, `FreshStart` and `StateAgrees` can fail, as TLC shows on the
  bounds of run client: hence the antecedent.

**GssFlagsProofs**, for any set of flags and an int of any width:

* `OptionsSound`: `Spec => [](RequestsReachLibrary /\ ActualOnceBegun)`. `OptionsInv`
  adds that before the context begins the fields hold every wanted flag.
* `LifetimeSurvives` and `LifetimeTold`: `LifetimeKept` and `LifetimeReported`.
  `LifetimeInv` says which of the conversions the field has been through in each
  state; `RoundTrip` is that the two casts undo each other.
* `OptionsTyped`: `Spec => []TypeOK`.

**GssCredentialProofs**: `HandlesSound`, for any sets of objects, mechanisms and
principals and with no assumption on the caller, `Spec => [](TypeOK /\ NoDangling)`.
`HandleInv` adds `NamesMade`: what the caller or a context holds is an object that
was made, and so has a wrapper. Only `StoreName` and `ReleaseNames` disturb the
names part, so two lemmas settle it for all actions (`StoreSound`, `ReleaseSound`).

`PrincipalsSound`: if `Disciplined`, then `Spec => [](CredentialNamed /\ ActsAsGiven)`.
Two invariants carry it. `NamesInv`: a name in the caller's hands denotes whom it stood
for when the caller got it. To know that nobody overwrites or releases its wrapper
one must know whose wrapper it is (`WrappersKnown`: its own, or, as an
acceptor's source, the shared one) and that the shared one denotes something only
while the one acceptor is established (`SharedKnown`). `CredsInv`: a context
in use has a credential in use, whose elements are those asked for. `NamesStep` and
`CredsStep` have a lemma per action. Each clause of the discipline is used; without it
`NullIsDefault` is false (run credentials_default).

**FlattenTheorems**: `FlattenConcat`, flattening two lists one after the other is
flattening each and joining; from it `FlattenAppend`, `FlattenFront` and
`FlattenBeginning`. `FlattenSeq` is recursive, and the library's induction theorems take
an operator that no prover here can instantiate. `SetInduction` does without: a *set* of
numbers that has 0 and every successor is all of them, because the numbers it lacks have
no least one (`WFMin` of the library, which is first-order). `FlattensUnique` and
`FlattensExists` then make the CHOOSE in `FlattenSeq` the function one expects. The
equation z = x \o y is hidden in `Joins`, because the SMT solver does not end on sets of
such equations; `Joined`, `Associative` and `CommonBeginning` are its laws.

**TokenFramingProofs**, for every size of a byte, set of tokens and number of calls:

* `HeaderRoundTrip`, with the real bytes (`Base = 256`): `byteArrayToInt` inverts
  `intToByteArray` on all 2^32 ints, so no length an array can have is read as
  negative. `HeaderOfLength` and `HeaderOfEnd` are what the rest needs for any `Base`:
  a length comes back from its header, and four bytes of an end read as -1.
* `TypeCorrect` and `InStep`: `Spec => []TypeOK` and `Spec => [](Framed /\
  CleanEndIsNull)`. `Framed` speaks of a live connection and does not survive its end;
  the invariant `IInv` adds what is left of it then: the bytes are the frames of the
  tokens still queued and a rest, empty if the end came between two tokens (`Whole`); once
  the end was read, which bytes of an answer were made up (`AtEnd`). `FirstToken` is the
  key lemma: whoever has read the first four bytes of a stream of frames has the size of
  the first token, and that many more leave the stream of the others.
* `ImplementsChannel`: `Spec => RefinesChannel`, initial state by initial state and step
  by step (`ChannelStep`); the invariant says which step of the channel a return of
  ReadToken is.

**KrbToolsProofs**, for any principals and any number of Activities and calls:
`ToolsTyped`, `ServiceTicketsFit`, `TicketIsThere` and `CacheIsGone`
(`Spec => []` of `TypeOK`, `ServiceOfOwner`, `GotTicket`, `Destroyed`). `ToolsInv` adds
who may be calling while a tool runs (`Running`: the Activity on screen, or one being
destroyed that runs kdestroy) and what each step of kinit and kdestroy has written
(`KinitSteps`, `KdestroySteps`), and that the cache holds no ticket while kinit rewrites it
(`Rewritten`). `GotTicket` excepts one thing by name, the kdestroy of an older
Activity's `onDestroy`.

**GssMessageProofs**, for any messages, window and bounds: `MessagesTyped`,
`MessagesGenuine`, `MessagesOnce`, `LossesSound`, and `ServiceRefined`
(`Spec => RefinesService`). `MessageInv` adds what the application is shown of its own
tokens (`Shown`), that every number received is remembered as long as the window can
tell (`Remembered`), that nothing is remembered without a service (`Unwatched`), and that
the last message received is the last number accepted unless an exception came
since (`UpToDate`). The refinement needs them all: initial states map to initial
states (`StartsAsService`), each action to `Offer`, `Take`, `Warn` or a stutter
(`ServiceStep`).

**DerProofs**: `ArcRight` and `ArcWrong` settle OidUtil's encoder for all arcs below
2^21: it is right exactly if the third base-128 digit is even. `EncodingsSound` and
`EqualitySound`: if every identifier in use is `Encodable` in that sense, then
`Spec => []EncodedRight` and `Spec => []EqualMeansSame`, for any number of objects, any
tokens and any order of reads. Without it `EqualMeansSame` is false (run oid_equal).

`ReadsWholeItems` and `StreamAligned`: `Spec => []ItemsWhole` and `Spec => []Aligned`, for
any GSS-API tokens that carry their length, other tokens of any bytes and any identifiers.
`StreamInv` says that, until a rejected token holds a 0x60 after its first byte, the
stream, with what is to come or was when it ended, flattens the items not read, of which
the first may be the rest of a token being rejected; `RejectStep` is the rejection of one
byte (`WithoutByte`). From a rejected token with another 0x60 on, nothing holds of the
stream, and nothing is claimed. `TokenFits` and `OidFits` that a read for which enough bytes are there takes exactly the
oldest item (its header is then in the stream and in the item alike, so that both give
one size, also if that size overflows an int); `ReadsOldest` that what is left flattens
the others. The other bytes, when too few are there, are made up only after the end.

Inductive invariants were first checked with TLC as invariants of the
corresponding runs.

Only model-checked: liveness (`RunEnds`, `ToolEnds`, `ReadReturns`), because the prover
has no rules for fairness and ENABLED. Every other property of a run that passes is a
theorem. Induction over data works through `SetInduction` where a definition is a
recursive function; what `FoldLeft` computes from the bytes of a long length is not
proved, and not needed: the reader and `ExactLength` apply the same `BigEndian`. Only
proved, and in no run: `NoLostNative`, `NoDangling` of `GssContext` for callers without
the discipline, and `ClientSound`.

## 5. Not modelled

* The native libraries: their outcomes are nondeterministic choices. SWIG's generated
  code, except for the typemaps that change state. Layout, logging, memory sizes.
* Of the tools: kinit's prompter and its buffers; the options the application never
  passes and the user would have to type, but for `-R` (so an option typed before a principal
  is left out: with it two words are no usage error, and `-C` may store a principal
  other than the one asked for, `kinit.c:841`); the two environment variables that `onCreate`
  sets for the library, the cache's to the path that every tool is passed anyway; the
  wording that kvno's `-q` switches off; `cached_obj` beyond its one assignment, so that
  no claim is made about whom a tool prints to.
* Of contexts: channel bindings (kept, never handed over), QOP (passed through unread),
  getWrapSizeLimit, the plain getters.
* Of credentials and names: usage, lifetimes, OID sets, equality and printing, which read
  native structures and change none.
* Of OIDs: containedIn and the syntax check of dotted strings, both stateless.
* Of `Util.java` all but the two conversions that `GssUtil` calls (it has the same two
  itself, unused). `Prompt.java` (a data holder), `kinit_kdb.c` (compiled for a KDC only).
* The vendored headers under `src/jni/include`, `src/jni/kinit/include` and
  `src/jni/klist/include`. They hold some 34000 of the repository's 36500 lines of
  implementation. They declare the native libraries' types and functions and contain
  no step of this program, so the share of all lines that definitions stand for stays
  small. The program's own files have 10500 lines, comments and interface documentation
  included, of which definitions stand for some 3800; the rest is what this list names.

## 6. Plan

Done: all modules of section 2 with the proofs of section 4. What could follow:

1. `BigEndian` against the value of a long length, for tokens below 2^31 bytes.
2. kinit's other options (validate, keytab by name) as further texts of `KrbTools`.
