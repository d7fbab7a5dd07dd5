------------------------ MODULE GssCredentialProofs ------------------------
(* Invariants of GssCredential for every value of its constants: for every       *)
(* caller, and then for a disciplined one.                                       *)
EXTENDS GssCredential, TLAPS

\* Only objects that were made are in anyone's hands.
NamesMade ==
  \A o \in NameObj : wrapper[o] = Null =>
    meant[o] = Null /\ \A x \in Ctx : source[x] # o /\ target[x] # o

\* Inductive for every caller.
HandleInv == TypeOK /\ NamesMade /\ NoDangling

\* The library's choice of an address is an unused one.
LEMMA FreshAddresses ==
  /\ (\E n \in NativeName : name[n] = "unused") =>
       FreshName \in NativeName /\ name[FreshName] = "unused"
  /\ (\E n \in NativeCred : cred[n] = "unused") =>
       FreshCred \in NativeCred /\ cred[FreshCred] = "unused"
  BY DEF FreshName, FreshCred

\* The actions of Next, one case each.
LEMMA Steps ==
  ASSUME Next
  PROVE
    \/ \E o \in NameObj, p \in Principal : CreateName(o, p)
    \/ \E o, from \in NameObj : Canonicalize(o, from)
    \/ \E c \in CredObj, o \in NameObj \cup {Null}, mechs \in SUBSET Mech \ {{}} :
         AcquireCred(c, o, mechs)
    \/ \E c \in CredObj, o \in NameObj, m \in Mech : Add(c, o, m)
    \/ \E c \in CredObj, o \in NameObj, p \in Principal : GetName(c, o, p)
    \/ \E c \in CredObj, throws \in BOOLEAN : DisposeCred(c, throws)
    \/ \E x \in Ctx, s, peer \in NameObj, c \in CredObj \cup {Null} : NewInitiator(x, peer, c, s)
    \/ \E x \in Ctx, s \in NameObj, c \in CredObj \cup {Null} : NewAcceptor(x, c, s)
    \/ \E x \in Ctx, state \in {"half", "done"} : InitSecContext(x, state)
    \/ \E x \in Ctx : InitSecContextThrows(x)
    \/ \E x \in Ctx, s \in NameObj, peer \in Principal : AcceptSecContext(x, s, peer)
    \/ \E x \in Ctx, s \in NameObj : AcceptSecContextContinues(x, s)
    \/ \E x \in Ctx, s \in NameObj : AcceptSecContextThrows(x, s)
    \/ \E x \in Ctx, o \in NameObj : GetContextName(x, o)
    \/ \E x \in Ctx : Dispose(x)
    \/ \E x \in Ctx : DisposeThrows(x)
  BY DEF Next, NameStep, CredStep, CtxStep

\* The principals of a credential are principals.
LEMMA PrincipalsTyped ==
  ASSUME TypeOK, NoDangling, NEW c \in CredObj \cup {Null}
  PROVE  Principals(c) \subseteq Principal
<1>1. CASE c = Null \/ handle[c] = Null
  BY <1>1, Distinct DEF Principals
<1>2. CASE c # Null /\ handle[c] # Null
  <2>1. handle[c] \in NativeCred
    BY <1>2 DEF TypeOK
  <2>2. \A m \in Mech : element[handle[c]][m] \in Principal \cup {Null}
    BY <2>1 DEF TypeOK
  <2> QED
    BY <1>2, <2>2 DEF Principals
<1> QED
  BY <1>1, <1>2

\* Whatever a wrapper holds, the library acts for a principal.
LEMMA AcquiredTyped ==
  ASSUME TypeOK, NoDangling, NEW w \in Wrapper
  PROVE  AcquiredFor(w) \in Principal
  BY Distinct DEF AcquiredFor, TypeOK, NoDangling

\* The names part of NoDangling and of TypeOK, which only StoreName and
\* ReleaseNames can disturb.
NamesSound ==
  /\ cell \in [Wrapper -> NativeName \cup {Null}]
  /\ name \in [NativeName -> Principal \cup {"unused", "released"}]
  /\ \A w \in Wrapper : cell[w] # Null => name[cell[w]] \in Principal
  /\ \A v, w \in Wrapper : cell[v] = cell[w] /\ cell[v] # Null => v = w

\* A fresh name is stored through one wrapper.
LEMMA StoreSound ==
  ASSUME NamesSound, NEW w \in Wrapper, NEW p \in Principal, StoreName(w, p)
  PROVE  NamesSound'
<1>1. FreshName \in NativeName /\ name[FreshName] = "unused"
  BY FreshAddresses DEF StoreName
<1>2. \A v \in Wrapper : cell[v] # FreshName
  BY <1>1, Distinct DEF NamesSound
<1>3. \A v \in Wrapper : cell'[v] = IF v = w THEN FreshName ELSE cell[v]
  BY DEF StoreName, NamesSound
<1>4. \A n \in NativeName : name'[n] = IF n = FreshName THEN p ELSE name[n]
  BY DEF StoreName, NamesSound
<1>5. /\ cell' \in [Wrapper -> NativeName \cup {Null}]
      /\ name' \in [NativeName -> Principal \cup {"unused", "released"}]
  BY <1>1 DEF StoreName, NamesSound
<1> QED
  BY <1>1, <1>2, <1>3, <1>4, <1>5 DEF NamesSound

\* A released name is reachable from no wrapper any more.
LEMMA ReleaseSound ==
  ASSUME NamesSound, NEW ws \in SUBSET Wrapper, ReleaseNames(ws)
  PROVE  NamesSound'
<1>1. \A v \in Wrapper : cell'[v] = IF v \in ws THEN Null ELSE cell[v]
  BY DEF ReleaseNames
<1>2. \A v \in Wrapper : v \notin ws /\ cell[v] # Null => name'[cell[v]] = name[cell[v]]
  BY DEF ReleaseNames, NamesSound
<1>3. /\ cell' \in [Wrapper -> NativeName \cup {Null}]
      /\ name' \in [NativeName -> Principal \cup {"unused", "released"}]
  BY DEF ReleaseNames, NamesSound
<1> QED
  BY <1>1, <1>2, <1>3 DEF NamesSound

\* The same for credentials.
CredsSound ==
  /\ handle \in [CredObj -> NativeCred \cup {Null}]
  /\ cred \in [NativeCred -> {"unused", "live", "released"}]
  /\ \A c \in CredObj : handle[c] # Null => cred[handle[c]] = "live"
  /\ \A c, d \in CredObj : handle[c] = handle[d] /\ handle[c] # Null => c = d

\* What is left of the type invariant.
RestTyped ==
  /\ wrapper \in [NameObj -> Wrapper \cup {Null}]
  /\ credState \in [CredObj -> {"none", "valid", "invalid"}]
  /\ element \in [NativeCred -> [Mech -> Principal \cup {Null}]]
  /\ ctxState \in [Ctx -> {"none", "new", "half", "done", "disposed"}]
  /\ role \in [Ctx -> {"none", "initiator", "acceptor"}]
  /\ source \in [Ctx -> NameObj \cup {Null}]
  /\ target \in [Ctx -> NameObj \cup {Null}]
  /\ credential \in [Ctx -> CredObj \cup {Null}]
  /\ meant \in [NameObj -> Principal \cup {Null}]
  /\ asked \in [CredObj -> [Mech -> Principal \cup {Null}]]
  /\ actedAs \in [Ctx -> Principal \cup {Null}]
  /\ closed \subseteq Ctx \cup CredObj \cup NameObj

\* HandleInv in its parts.
LEMMA Parts ==
  /\ HandleInv => NamesSound /\ CredsSound /\ RestTyped
  /\ NamesSound' /\ CredsSound' /\ RestTyped' /\ NamesMade' => HandleInv'
  BY DEF HandleInv, TypeOK, NoDangling, NamesSound, CredsSound, RestTyped

\* A step that touches no name leaves them sound;
LEMMA NamesUnchanged ==
  ASSUME NamesSound, UNCHANGED <<cell, name>>
  PROVE  NamesSound'
  BY DEF NamesSound

\* one that touches no credential, the credentials.
LEMMA CredsUnchanged ==
  ASSUME CredsSound, UNCHANGED <<handle, cred>>
  PROVE  CredsSound'
  BY DEF CredsSound

\* A name that a context takes over, or that the caller gets, is made.
LEMMA NewNameSound ==
  ASSUME HandleInv, NEW o \in NameObj, NEW p \in Principal, NewName(o, p)
  PROVE  /\ NamesSound'
         /\ wrapper[o] = Null /\ wrapper' = [wrapper EXCEPT ![o] = o]
  BY Parts, StoreSound DEF NewName, Wrapper

\* HandleInv is preserved by every action, whoever takes it.
LEMMA HandleStep == HandleInv /\ [Next]_vars => HandleInv'
<1> SUFFICES ASSUME HandleInv, Next PROVE HandleInv'
  BY DEF HandleInv, TypeOK, NamesMade, NoDangling, vars, nameVars, credVars, ctxVars
<1> USE Distinct DEF Wrapper
<1>0. NamesSound /\ CredsSound /\ RestTyped /\ NamesMade /\ TypeOK /\ NoDangling
  BY Parts DEF HandleInv
<1>1. ASSUME NEW o \in NameObj, NEW p \in Principal, CreateName(o, p) PROVE HandleInv'
  <2>1. NamesSound'
    BY <1>1, NewNameSound DEF CreateName
  <2>2. CredsSound'
    BY <1>0, <1>1, CredsUnchanged DEF CreateName, credVars
  <2>3. RestTyped' /\ NamesMade'
    <3>1. /\ wrapper[o] = Null /\ wrapper' = [wrapper EXCEPT ![o] = o]
          /\ meant' = [meant EXCEPT ![o] = p]
          /\ UNCHANGED <<credVars, ctxVars, closed>>
      BY <1>1, NewNameSound DEF CreateName
    <3>2. RestTyped'
      BY <1>0, <3>1 DEF RestTyped, credVars, ctxVars
    <3>3. NamesMade'
      BY <1>0, <3>1 DEF RestTyped, NamesMade, ctxVars
    <3> QED
      BY <3>2, <3>3
  <2> QED
    BY <2>1, <2>2, <2>3, Parts
<1>2. ASSUME NEW o \in NameObj, NEW from \in NameObj, Canonicalize(o, from) PROVE HandleInv'
  <2>1. wrapper[from] \in Wrapper
    BY <1>0, <1>2 DEF Canonicalize, MayUse, NamesMade, RestTyped
  <2>2. name[cell[wrapper[from]]] \in Principal
    BY <1>0, <1>2, <2>1 DEF Canonicalize, NoDangling
  <2>3. NamesSound'
    BY <1>2, <2>2, NewNameSound DEF Canonicalize
  <2>4. CredsSound'
    BY <1>0, <1>2, CredsUnchanged DEF Canonicalize, credVars
  <2>5. wrapper[o] = Null /\ wrapper' = [wrapper EXCEPT ![o] = o]
    BY <1>2, <2>2, NewNameSound DEF Canonicalize
  <2>6. meant[from] \in Principal
    BY <1>0, <1>2 DEF Canonicalize, MayUse, RestTyped
  <2>7. RestTyped'
    BY <1>0, <1>2, <2>5, <2>6 DEF Canonicalize, RestTyped, credVars, ctxVars
  <2>8. NamesMade'
    BY <1>0, <1>2, <2>5 DEF Canonicalize, RestTyped, NamesMade, credVars, ctxVars
  <2> QED
    BY <2>3, <2>4, <2>7, <2>8, Parts
<1>3. ASSUME NEW c \in CredObj, NEW o \in NameObj \cup {Null}, NEW mechs \in SUBSET Mech \ {{}},
             AcquireCred(c, o, mechs)
      PROVE  HandleInv'
  <2>1. FreshCred \in NativeCred /\ cred[FreshCred] = "unused"
    BY <1>3, FreshAddresses DEF AcquireCred
  <2>2. NameArgument(o) \in Wrapper /\ (o # Null => meant[o] \in Principal)
    BY <1>0, <1>3 DEF AcquireCred, MayAsk, MayUse, NameArgument, NamesMade, RestTyped
  <2>3. AcquiredFor(NameArgument(o)) \in Principal
    BY <1>0, <2>2, AcquiredTyped
  <2>4. NamesSound'
    BY <1>0, <1>3, NamesUnchanged DEF AcquireCred, nameVars
  <2>5. CredsSound'
    <3>1. /\ handle' = [handle EXCEPT ![c] = FreshCred]
          /\ cred' = [cred EXCEPT ![FreshCred] = "live"]
      BY <1>3 DEF AcquireCred
    <3>2. \A d \in CredObj : handle[d] # FreshCred
      BY <1>0, <2>1 DEF CredsSound
    <3> QED
      BY <1>0, <2>1, <3>1, <3>2 DEF CredsSound
  <2>6. RestTyped'
    <3>1. element' \in [NativeCred -> [Mech -> Principal \cup {Null}]]
      BY <1>0, <1>3, <2>1, <2>3 DEF AcquireCred, RestTyped
    <3>2. asked' \in [CredObj -> [Mech -> Principal \cup {Null}]]
      BY <1>0, <1>3, <2>2 DEF AcquireCred, RestTyped
    <3> QED
      BY <1>0, <1>3, <3>1, <3>2 DEF AcquireCred, RestTyped, nameVars, ctxVars
  <2>7. NamesMade'
    BY <1>0, <1>3 DEF AcquireCred, NamesMade, nameVars, ctxVars
  <2> QED
    BY <2>4, <2>5, <2>6, <2>7, Parts
<1>4. ASSUME NEW c \in CredObj, NEW o \in NameObj, NEW m \in Mech, Add(c, o, m)
      PROVE  HandleInv'
  <2>1. wrapper[o] \in Wrapper /\ meant[o] \in Principal
    BY <1>0, <1>4 DEF Add, MayUse, NamesMade, RestTyped
  <2>2. AcquiredFor(wrapper[o]) \in Principal
    BY <1>0, <2>1, AcquiredTyped
  <2>3. NamesSound' /\ CredsSound'
    BY <1>0, <1>4, NamesUnchanged, CredsUnchanged DEF Add, nameVars
  <2>4. RestTyped' /\ NamesMade'
    BY <1>0, <1>4, <2>1, <2>2 DEF Add, RestTyped, NamesMade, nameVars, ctxVars
  <2> QED
    BY <2>3, <2>4, Parts
<1>5. ASSUME NEW c \in CredObj, NEW o \in NameObj, NEW p \in Principal, GetName(c, o, p)
      PROVE  HandleInv'
  <2>1. NamesSound'
    BY <1>5, NewNameSound DEF GetName
  <2>2. CredsSound'
    BY <1>0, <1>5, CredsUnchanged DEF GetName, credVars
  <2>3. RestTyped' /\ NamesMade'
    BY <1>0, <1>5, NewNameSound DEF GetName, RestTyped, NamesMade, credVars, ctxVars
  <2> QED
    BY <2>1, <2>2, <2>3, Parts
<1>6. ASSUME NEW c \in CredObj, NEW throws \in BOOLEAN, DisposeCred(c, throws)
      PROVE  HandleInv'
  <2>1. NamesSound'
    BY <1>0, <1>6, NamesUnchanged DEF DisposeCred, nameVars
  <2>2. CredsSound'
    <3>1. \A d \in CredObj : handle'[d] = IF d = c THEN Null ELSE handle[d]
      BY <1>0, <1>6 DEF DisposeCred, CredsSound
    <3>2. \A d \in CredObj : handle'[d] # Null => cred'[handle'[d]] = "live"
      BY <1>0, <1>6, <3>1 DEF DisposeCred, CredsSound
    <3>3. /\ handle' \in [CredObj -> NativeCred \cup {Null}]
          /\ cred' \in [NativeCred -> {"unused", "live", "released"}]
      BY <1>0, <1>6 DEF DisposeCred, CredsSound
    <3> QED
      BY <1>0, <3>1, <3>2, <3>3 DEF CredsSound
  <2>3. RestTyped' /\ NamesMade'
    BY <1>0, <1>6 DEF DisposeCred, RestTyped, NamesMade, nameVars, ctxVars
  <2> QED
    BY <2>1, <2>2, <2>3, Parts
<1>7. ASSUME NEW x \in Ctx, NEW s \in NameObj, NEW peer \in NameObj,
             NEW c \in CredObj \cup {Null}, NewInitiator(x, peer, c, s)
      PROVE  HandleInv'
  <2> DEFINE Kept == UNCHANGED nameVars /\ source' = source
             Named == /\ \E p \in Principals(c) : NewName(s, p)
                      /\ source' = [source EXCEPT ![x] = s]
  <2>1. wrapper[peer] # Null
    BY <1>0, <1>7 DEF NewInitiator, MayPass, MayUse, NamesMade
  <2>2. Kept \/ Named
    BY <1>7 DEF NewInitiator
  <2>3. /\ CredsSound'
        /\ target' = [target EXCEPT ![x] = peer] /\ meant' = meant
    BY <1>0, <1>7, CredsUnchanged DEF NewInitiator, Construct, credVars
  <2>4. CASE Kept
    <3>1. NamesSound'
      BY <1>0, <2>4, NamesUnchanged DEF nameVars
    <3>2. RestTyped' /\ NamesMade'
      BY <1>0, <1>7, <2>1, <2>3, <2>4 DEF NewInitiator, Construct, RestTyped, NamesMade, nameVars, credVars
    <3> QED
      BY <2>3, <3>1, <3>2, Parts
  <2>5. CASE Named
    <3>1. PICK p \in Principal : NewName(s, p)
      BY <1>0, <2>5, PrincipalsTyped
    <3>2. NamesSound' /\ wrapper[s] = Null /\ wrapper' = [wrapper EXCEPT ![s] = s]
      BY <3>1, NewNameSound
    <3>3. RestTyped'
      BY <1>0, <1>7, <2>3, <2>5, <3>2 DEF NewInitiator, Construct, RestTyped, credVars
    <3>4. NamesMade'
      BY <1>0, <2>1, <2>3, <2>5, <3>2 DEF RestTyped, NamesMade
    <3> QED
      BY <2>3, <3>2, <3>3, <3>4, Parts
  <2> QED
    BY <2>2, <2>4, <2>5
<1>8. ASSUME NEW x \in Ctx, NEW s \in NameObj, NEW c \in CredObj \cup {Null},
             NewAcceptor(x, c, s)
      PROVE  HandleInv'
  <2> DEFINE Shared == /\ SharedName(s) /\ source' = [source EXCEPT ![x] = s]
                       /\ UNCHANGED <<cell, name, target>>
             Named == /\ \E p \in Principals(c) : NewName(s, p)
                      /\ target' = [target EXCEPT ![x] = s]
                      /\ UNCHANGED source
  <2>1. Shared \/ Named
    BY <1>8 DEF NewAcceptor
  <2>2. CredsSound' /\ meant' = meant
    BY <1>0, <1>8, CredsUnchanged DEF NewAcceptor, Construct, credVars
  <2>3. CASE Shared
    <3>1. NamesSound'
      BY <1>0, <2>3, NamesUnchanged
    <3>2. RestTyped'
      BY <1>0, <1>8, <2>3 DEF NewAcceptor, Construct, SharedName, RestTyped, credVars
    <3>3. NamesMade'
      BY <1>0, <2>2, <2>3 DEF SharedName, RestTyped, NamesMade
    <3> QED
      BY <2>2, <3>1, <3>2, <3>3, Parts
  <2>4. CASE Named
    <3>1. PICK p \in Principal : NewName(s, p)
      BY <1>0, <2>4, PrincipalsTyped
    <3>2. NamesSound' /\ wrapper[s] = Null /\ wrapper' = [wrapper EXCEPT ![s] = s]
      BY <3>1, NewNameSound
    <3>3. RestTyped'
      BY <1>0, <1>8, <2>4, <3>2 DEF NewAcceptor, Construct, RestTyped, credVars
    <3>4. NamesMade'
      BY <1>0, <2>2, <2>4, <3>2 DEF RestTyped, NamesMade
    <3> QED
      BY <2>2, <3>2, <3>3, <3>4, Parts
  <2> QED
    BY <2>1, <2>3, <2>4
<1>a. ASSUME NEW x \in Ctx, NEW state \in {"half", "done"}, Advance(x, state)
      PROVE  /\ ctxState' \in [Ctx -> {"none", "new", "half", "done", "disposed"}]
             /\ actedAs' \in [Ctx -> Principal \cup {Null}]
  <2>1. credential[x] \in CredObj \cup {Null}
    BY <1>0 DEF RestTyped
  <2>2. Principals(credential[x]) \subseteq Principal
    BY <1>0, <2>1, PrincipalsTyped
  <2> QED
    BY <1>0, <1>a, <2>2 DEF Advance, RestTyped
<1>9. ASSUME NEW x \in Ctx, NEW state \in {"half", "done"}, InitSecContext(x, state)
      PROVE  HandleInv'
  <2>1. NamesSound' /\ CredsSound'
    BY <1>0, <1>9, NamesUnchanged, CredsUnchanged DEF InitSecContext, nameVars, credVars
  <2>2. RestTyped' /\ NamesMade'
    BY <1>0, <1>9, <1>a DEF InitSecContext, RestTyped, NamesMade, nameVars, credVars
  <2> QED
    BY <2>1, <2>2, Parts
<1>b. ASSUME NEW x \in Ctx, InitSecContextThrows(x) PROVE HandleInv'
  <2>1. NamesSound' /\ CredsSound'
    BY <1>0, <1>b, NamesUnchanged, CredsUnchanged DEF InitSecContextThrows, nameVars, credVars
  <2>2. RestTyped' /\ NamesMade'
    BY <1>0, <1>b DEF InitSecContextThrows, LoseNative, RestTyped, NamesMade, nameVars, credVars
  <2> QED
    BY <2>1, <2>2, Parts
<1>10. ASSUME NEW x \in Ctx, NEW s \in NameObj, NEW peer \in Principal,
              AcceptSecContext(x, s, peer)
       PROVE  HandleInv'
  <2>1. NamesSound'
    BY <1>0, <1>10, StoreSound DEF AcceptSecContext
  <2>2. CredsSound'
    BY <1>0, <1>10, CredsUnchanged DEF AcceptSecContext, credVars
  <2>3. /\ wrapper' \in [NameObj -> Wrapper \cup {Null}]
        /\ source' \in [Ctx -> NameObj \cup {Null}]
    BY <1>0, <1>10 DEF AcceptSecContext, WithSource, SharedName, RestTyped
  <2>4. RestTyped'
    BY <1>0, <1>10, <1>a, <2>3 DEF AcceptSecContext, RestTyped, credVars
  <2>5. NamesMade'
    BY <1>0, <1>10 DEF AcceptSecContext, WithSource, SharedName, RestTyped, NamesMade
  <2> QED
    BY <2>1, <2>2, <2>4, <2>5, Parts
<1>11. ASSUME NEW x \in Ctx, NEW s \in NameObj,
              AcceptSecContextThrows(x, s) \/ AcceptSecContextContinues(x, s)
       PROVE  HandleInv'
  <2>1. /\ cell' = [cell EXCEPT ![NoName] = Null] /\ name' = name
        /\ WithSource(x, s)
        /\ UNCHANGED <<credVars, role, target, credential, meant, closed>>
    BY <1>11 DEF AcceptSecContextThrows, AcceptSecContextContinues, ForgetPeer
  <2>2. NamesSound'
    BY <1>0, <2>1 DEF NamesSound
  <2>3. CredsSound'
    BY <1>0, <2>1, CredsUnchanged DEF credVars
  <2>4. /\ ctxState' \in [Ctx -> {"none", "new", "half", "done", "disposed"}]
        /\ actedAs' \in [Ctx -> Principal \cup {Null}]
    BY <1>0, <1>11, <1>a
       DEF AcceptSecContextThrows, AcceptSecContextContinues, LoseNative, RestTyped
  <2>5. RestTyped'
    <3>1. /\ wrapper' \in [NameObj -> Wrapper \cup {Null}]
          /\ source' \in [Ctx -> NameObj \cup {Null}]
      BY <1>0, <2>1 DEF WithSource, SharedName, RestTyped
    <3> QED
      BY <1>0, <2>1, <2>4, <3>1 DEF RestTyped, credVars
  <2>6. NamesMade'
    BY <1>0, <2>1 DEF WithSource, SharedName, RestTyped, NamesMade
  <2> QED
    BY <2>2, <2>3, <2>5, <2>6, Parts
<1>12. ASSUME NEW x \in Ctx, NEW o \in NameObj, GetContextName(x, o) PROVE HandleInv'
  <2>1. wrapper[o] \in Wrapper
    BY <1>0, <1>12 DEF GetContextName, NamesMade, RestTyped
  <2>2. name[cell[wrapper[o]]] \in Principal
    BY <1>0, <1>12, <2>1 DEF GetContextName, NoDangling
  <2>3. NamesSound' /\ CredsSound'
    BY <1>0, <1>12, NamesUnchanged, CredsUnchanged DEF GetContextName, nameVars, credVars
  <2>4. RestTyped' /\ NamesMade'
    BY <1>0, <1>12, <2>1, <2>2 DEF GetContextName, RestTyped, NamesMade, nameVars, credVars, ctxVars
  <2> QED
    BY <2>3, <2>4, Parts
<1>13. ASSUME NEW x \in Ctx, Dispose(x) PROVE HandleInv'
  <2>1. NameWrappers(x) \in SUBSET Wrapper
    BY <1>0 DEF NameWrappers, NamesMade, RestTyped
  <2>2. NamesSound'
    BY <1>0, <1>13, <2>1, ReleaseSound DEF Dispose
  <2>3. CredsSound'
    BY <1>0, <1>13, CredsUnchanged DEF Dispose, credVars
  <2>4. RestTyped' /\ NamesMade'
    BY <1>0, <1>13 DEF Dispose, DropFields, RestTyped, NamesMade, credVars
  <2> QED
    BY <2>2, <2>3, <2>4, Parts
<1>14. ASSUME NEW x \in Ctx, DisposeThrows(x) PROVE HandleInv'
  <2>1. NamesSound' /\ CredsSound'
    BY <1>0, <1>14, NamesUnchanged, CredsUnchanged DEF DisposeThrows, nameVars, credVars
  <2>2. RestTyped' /\ NamesMade'
    BY <1>0, <1>14 DEF DisposeThrows, RestTyped, NamesMade, nameVars, credVars, ctxVars
  <2> QED
    BY <2>1, <2>2, Parts
<1> QED
  BY <1>1, <1>2, <1>3, <1>4, <1>5, <1>6, <1>7, <1>8, <1>9, <1>b, <1>10, <1>11, <1>12, <1>13,
     <1>14, Steps

\* Whatever the caller does, in whatever order, no name wrapper and no credential
\* refers to a released native structure or shares one, and every state is well
\* typed.
THEOREM HandlesSound == Spec => [](TypeOK /\ NoDangling)
<1>1. Init => HandleInv
  BY Distinct DEF Init, HandleInv, TypeOK, NamesMade, NoDangling, Wrapper
<1>2. HandleInv => TypeOK /\ NoDangling
  BY DEF HandleInv
<1> QED
  BY <1>1, <1>2, HandleStep, PTL DEF Spec

-----------------------------------------------------------------------------
(***************************************************************************)
(* The disciplined caller.  A name in its hands goes on denoting the       *)
(* principal it stood for; this needs to know who may overwrite or release *)
(* the wrapper that all default acceptors share.                           *)
(***************************************************************************)

\* What a wrapper denotes, Null if its handle is null.
Denoted(w) == IF cell[w] = Null THEN Null ELSE name[cell[w]]

InHand(o) == meant[o] # Null /\ o \notin closed

DoneAcceptor(x) == ctxState[x] = "done" /\ role[x] = "acceptor"

NamesKept == \A o \in NameObj : InHand(o) => Denoted(wrapper[o]) = meant[o]

\* Whose wrapper a name has: its own, or, as the source of an acceptor, the
\* shared one.
WrappersKnown ==
  /\ \A o \in NameObj : wrapper[o] \in {o, NoName, Null}
  /\ \A x \in Ctx :
       /\ source[x] # Null =>
            wrapper[source[x]] = IF role[x] = "acceptor" THEN NoName ELSE source[x]
       /\ target[x] # Null => wrapper[target[x]] = target[x]
       /\ ctxState[x] = "none" => source[x] = Null /\ target[x] = Null
       /\ DoneAcceptor(x) => source[x] # Null

\* There is one acceptor at most, and the shared wrapper is its own meanwhile.
SharedKnown ==
  /\ \A x, y \in Ctx : Accepting(x) /\ Accepting(y) => x = y
  /\ \A x \in Ctx : Begun(x) => x \notin closed
  /\ Denoted(NoName) # Null => \E x \in Ctx : DoneAcceptor(x)
  /\ \A o \in NameObj : InHand(o) /\ wrapper[o] = NoName =>
       \E x \in Ctx : DoneAcceptor(x) /\ source[x] = o

NamesInv == NamesKept /\ WrappersKnown /\ SharedKnown

\* A context that is in use has a credential that is.
CredsHeld ==
  /\ \A c \in CredObj :
       /\ credState[c] = "valid" /\ c \notin closed => handle[c] # Null
       /\ handle[c] # Null => credState[c] # "none"
  /\ \A x \in Ctx : Begun(x) => actedAs[x] # Null
  /\ \A x \in Ctx : Using(x) /\ credential[x] # Null =>
       credential[x] \notin closed /\ handle[credential[x]] # Null

CredsInv == CredsHeld /\ CredentialNamed /\ ActsAsGiven

\* What the three native calls do to what wrappers denote.
LEMMA StoreDenotes ==
  ASSUME NamesSound, NEW w \in Wrapper, NEW p \in Principal, StoreName(w, p)
  PROVE  \A v \in Wrapper : Denoted(v)' = IF v = w THEN p ELSE Denoted(v)
<1>1. FreshName \in NativeName /\ name[FreshName] = "unused" /\ FreshName # Null
  BY FreshAddresses, Distinct DEF StoreName
<1>2. \A v \in Wrapper : cell[v] # FreshName
  BY <1>1, Distinct DEF NamesSound
<1>3. \A v \in Wrapper : cell'[v] = IF v = w THEN FreshName ELSE cell[v]
  BY DEF StoreName, NamesSound
<1>4. \A n \in NativeName : name'[n] = IF n = FreshName THEN p ELSE name[n]
  BY DEF StoreName, NamesSound
<1>5. \A v \in Wrapper : cell[v] \in NativeName \cup {Null}
  BY DEF NamesSound
<1> QED
  BY <1>1, <1>2, <1>3, <1>4, <1>5 DEF Denoted

\* A wrapper whose name is released denotes nothing, the others what they did.
LEMMA ReleaseDenotes ==
  ASSUME NamesSound, NEW ws \in SUBSET Wrapper, ReleaseNames(ws)
  PROVE  \A v \in Wrapper : Denoted(v)' = IF v \in ws THEN Null ELSE Denoted(v)
<1>1. \A v \in Wrapper : cell'[v] = IF v \in ws THEN Null ELSE cell[v]
  BY DEF ReleaseNames
<1>2. \A v \in Wrapper : v \notin ws /\ cell[v] # Null => name'[cell[v]] = name[cell[v]]
  BY DEF ReleaseNames, NamesSound
<1> QED
  BY <1>1, <1>2 DEF Denoted

\* The library acts for what a wrapper denotes, or by default.
LEMMA AcquiredDenoted ==
  ASSUME NamesSound, NEW w \in Wrapper
  PROVE  /\ AcquiredFor(w) = IF Denoted(w) = Null THEN Default ELSE Denoted(w)
         /\ Denoted(w) \in Principal \cup {Null}
  BY Distinct DEF NamesSound, Denoted, AcquiredFor

\* A name that is made disturbs no other.
LEMMA NewNameDenotes ==
  ASSUME HandleInv, NEW o \in NameObj, NEW p \in Principal, NewName(o, p)
  PROVE  /\ wrapper[o] = Null /\ meant[o] = Null
         /\ \A q \in NameObj : wrapper'[q] = IF q = o THEN o ELSE wrapper[q]
         /\ \A v \in Wrapper : Denoted(v)' = IF v = o THEN p ELSE Denoted(v)
         /\ \A x \in Ctx : source[x] # o /\ target[x] # o
<1>1. NamesSound /\ o \in Wrapper
  BY Parts DEF Wrapper
<1>2. StoreName(o, p) /\ wrapper[o] = Null /\ wrapper' = [wrapper EXCEPT ![o] = o]
  BY DEF NewName
<1>3. \A v \in Wrapper : Denoted(v)' = IF v = o THEN p ELSE Denoted(v)
  BY <1>1, <1>2, StoreDenotes
<1> QED
  BY <1>2, <1>3 DEF HandleInv, TypeOK, NamesMade

\* A name that is made and perhaps given to the caller.
LEMMA NamesInvNewName ==
  ASSUME HandleInv, NamesInv, NEW o \in NameObj, NEW p \in Principal, NewName(o, p),
         meant' \in {meant, [meant EXCEPT ![o] = p]}, UNCHANGED <<ctxVars, closed>>
  PROVE  NamesInv'
<1> USE Distinct DEF Wrapper
<1>1. /\ wrapper[o] = Null /\ meant[o] = Null
      /\ \A q \in NameObj : wrapper'[q] = IF q = o THEN o ELSE wrapper[q]
      /\ \A v \in Wrapper : Denoted(v)' = IF v = o THEN p ELSE Denoted(v)
      /\ \A x \in Ctx : source[x] # o /\ target[x] # o
  BY NewNameDenotes
<1>2. /\ \A q \in NameObj : q # o => meant'[q] = meant[q]
      /\ meant'[o] \in {Null, p}
      /\ meant \in [NameObj -> Principal \cup {Null}]
      /\ \A x \in Ctx : source[x] \in NameObj \cup {Null} /\ target[x] \in NameObj \cup {Null}
  BY <1>1 DEF HandleInv, TypeOK
<1>3. NamesKept'
  <2>1. SUFFICES ASSUME NEW q \in NameObj, InHand(q)' PROVE (Denoted(wrapper[q]) = meant[q])'
    BY DEF NamesKept
  <2>2. CASE q = o
    BY <1>1, <1>2, <2>1, <2>2 DEF InHand
  <2>3. CASE q # o
    <3>1. InHand(q) /\ Denoted(wrapper[q]) = meant[q] /\ wrapper[q] \in {q, NoName, Null}
      BY <1>2, <2>1, <2>3 DEF InHand, NamesInv, NamesKept, WrappersKnown
    <3>2. wrapper[q] # Null
      BY <3>1 DEF HandleInv, NamesMade, InHand
    <3> QED
      BY <1>1, <1>2, <2>3, <3>1, <3>2
  <2> QED
    BY <2>2, <2>3
<1>4. WrappersKnown'
  BY <1>1, <1>2 DEF NamesInv, WrappersKnown, DoneAcceptor, ctxVars
<1>5. SharedKnown'
  BY <1>1, <1>2 DEF NamesInv, SharedKnown, Begun, DoneAcceptor, Accepting, Using, InHand, ctxVars
<1> QED
  BY <1>3, <1>4, <1>5 DEF NamesInv

\* A context is constructed with a new name, or a shared one, or none.
LEMMA NamesInvInitiator ==
  ASSUME HandleInv, NamesInv, Disciplined,
         NEW x \in Ctx, NEW s \in NameObj, NEW peer \in NameObj, NEW c \in CredObj \cup {Null},
         NewInitiator(x, peer, c, s)
  PROVE  NamesInv'
<1> USE Distinct DEF Wrapper
<1>1. /\ ctxState[x] = "none" /\ ctxState' = [ctxState EXCEPT ![x] = "new"]
      /\ role' = [role EXCEPT ![x] = "initiator"]
      /\ target' = [target EXCEPT ![x] = peer]
      /\ UNCHANGED <<meant, closed>>
      /\ InHand(peer) /\ \A y \in Ctx : source[y] # peer
  BY DEF NewInitiator, Construct, MayPass, MayUse, InHand
<1>2. /\ TypeOK /\ NamesSound /\ NamesMade
      /\ NamesKept /\ WrappersKnown /\ SharedKnown
  BY Parts DEF HandleInv, NamesInv
<1>3. wrapper[peer] = peer
  <2>1. wrapper[peer] \in {peer, NoName}
    BY <1>1, <1>2 DEF WrappersKnown, NamesMade, InHand
  <2> QED
    BY <1>1, <1>2, <2>1 DEF SharedKnown
<1>4. \A y \in Ctx : DoneAcceptor(y)' <=> DoneAcceptor(y)
  BY <1>1, <1>2 DEF DoneAcceptor, TypeOK
<1>5. \A y \in Ctx : Accepting(y)' <=> Accepting(y)
  BY <1>1, <1>2 DEF Accepting, Using, TypeOK
<1>6. CASE UNCHANGED <<nameVars, source>>
  <2>1. NamesKept'
    BY <1>1, <1>2, <1>6 DEF NamesKept, InHand, Denoted, nameVars
  <2>2. WrappersKnown'
    BY <1>1, <1>2, <1>3, <1>4, <1>6 DEF WrappersKnown, TypeOK, nameVars
  <2>3. SharedKnown'
    BY <1>1, <1>2, <1>4, <1>5, <1>6 DEF SharedKnown, Begun, TypeOK, nameVars, Denoted, InHand
  <2> QED
    BY <2>1, <2>2, <2>3 DEF NamesInv
<1>7. ASSUME NEW p \in Principals(c), NewName(s, p), source' = [source EXCEPT ![x] = s]
      PROVE  NamesInv'
  <2>1. p \in Principal
    BY <1>2, PrincipalsTyped DEF HandleInv
  <2>2. /\ wrapper[s] = Null /\ meant[s] = Null
        /\ \A q \in NameObj : wrapper'[q] = IF q = s THEN s ELSE wrapper[q]
        /\ \A v \in Wrapper : Denoted(v)' = IF v = s THEN p ELSE Denoted(v)
        /\ \A y \in Ctx : source[y] # s /\ target[y] # s
    BY <1>7, <2>1, NewNameDenotes
  <2>3. NamesKept'
    <3>1. SUFFICES ASSUME NEW q \in NameObj, InHand(q)'
                   PROVE  (Denoted(wrapper[q]) = meant[q])'
      BY DEF NamesKept
    <3>2. InHand(q) /\ q # s /\ wrapper[q] \in {q, NoName}
      BY <1>1, <1>2, <2>2, <3>1 DEF InHand, WrappersKnown, NamesMade
    <3> QED
      BY <1>1, <1>2, <2>2, <3>2 DEF NamesKept
  <2>4. WrappersKnown'
    BY <1>1, <1>2, <1>3, <1>4, <1>7, <2>2 DEF WrappersKnown, TypeOK
  <2>5. SharedKnown'
    <3>1. \A y \in Ctx : Begun(y)' => Begun(y)
      BY <1>1, <1>2 DEF Begun, TypeOK
    <3>2. ASSUME NEW q \in NameObj, InHand(q)', wrapper'[q] = NoName
          PROVE  \E y \in Ctx : DoneAcceptor(y)' /\ source'[y] = q
      <4>1. InHand(q) /\ wrapper[q] = NoName
        BY <1>1, <2>2, <3>2 DEF InHand
      <4>2. PICK y \in Ctx : DoneAcceptor(y) /\ source[y] = q
        BY <1>2, <4>1 DEF SharedKnown
      <4>3. y # x /\ source'[y] = source[y]
        BY <1>1, <1>2, <1>7, <4>2 DEF DoneAcceptor, TypeOK
      <4> QED
        BY <1>4, <4>2, <4>3
    <3>3. Denoted(NoName)' = Denoted(NoName)
      BY <2>2
    <3> QED
      BY <1>1, <1>2, <1>4, <1>5, <3>1, <3>2, <3>3 DEF SharedKnown
  <2> QED
    BY <2>3, <2>4, <2>5 DEF NamesInv
<1> QED
  BY <1>6, <1>7 DEF NewInitiator

\* An acceptor brings the shared wrapper into use, or names itself.
LEMMA NamesInvAcceptor ==
  ASSUME HandleInv, NamesInv, Disciplined,
         NEW x \in Ctx, NEW s \in NameObj, NEW c \in CredObj \cup {Null},
         NewAcceptor(x, c, s)
  PROVE  NamesInv'
<1> USE Distinct DEF Wrapper
<1>1. /\ ctxState[x] = "none" /\ ctxState' = [ctxState EXCEPT ![x] = "new"]
      /\ role' = [role EXCEPT ![x] = "acceptor"]
      /\ UNCHANGED <<meant, closed>>
      /\ \A y \in Ctx : ~Accepting(y)
  BY DEF NewAcceptor, Construct
<1>2. /\ TypeOK /\ NamesSound /\ NamesMade
      /\ NamesKept /\ WrappersKnown /\ SharedKnown
  BY Parts DEF HandleInv, NamesInv
<1>3. \A y \in Ctx : ~DoneAcceptor(y) /\ ~DoneAcceptor(y)'
  <2>1. \A y \in Ctx : ~DoneAcceptor(y)
    BY <1>1, <1>2 DEF DoneAcceptor, Accepting, Using, SharedKnown, Begun
  <2> QED
    BY <1>1, <1>2, <2>1 DEF DoneAcceptor, TypeOK
<1>4. \A y \in Ctx : Accepting(y)' => y = x
  BY <1>1, <1>2 DEF Accepting, Using, TypeOK
<1>5. source[x] = Null /\ target[x] = Null
  BY <1>1, <1>2 DEF WrappersKnown
<1>6. CASE SharedName(s) /\ source' = [source EXCEPT ![x] = s] /\ UNCHANGED <<cell, name, target>>
  <2>1. /\ wrapper[s] = Null /\ meant[s] = Null
        /\ \A q \in NameObj : wrapper'[q] = IF q = s THEN NoName ELSE wrapper[q]
        /\ \A v \in Wrapper : Denoted(v)' = Denoted(v)
        /\ \A y \in Ctx : source[y] # s /\ target[y] # s
    BY <1>2, <1>6 DEF SharedName, NamesMade, TypeOK, Denoted
  <2>2. NamesKept'
    <3>1. SUFFICES ASSUME NEW q \in NameObj, InHand(q)'
                   PROVE  (Denoted(wrapper[q]) = meant[q])'
      BY DEF NamesKept
    <3>2. InHand(q) /\ q # s /\ wrapper[q] \in {q, NoName}
      BY <1>1, <1>2, <2>1, <3>1 DEF InHand, WrappersKnown, NamesMade
    <3> QED
      BY <1>1, <1>2, <2>1, <3>2 DEF NamesKept
  <2>3. WrappersKnown'
    BY <1>1, <1>2, <1>3, <1>6, <2>1 DEF WrappersKnown, TypeOK
  <2>4. SharedKnown'
    <3>1. \A q \in NameObj : InHand(q)' => InHand(q) /\ q # s
      BY <1>1, <2>1 DEF InHand
    <3> QED
      BY <1>1, <1>2, <1>3, <1>4, <2>1, <3>1 DEF SharedKnown, Begun, TypeOK
  <2> QED
    BY <2>2, <2>3, <2>4 DEF NamesInv
<1>7. ASSUME NEW p \in Principals(c), NewName(s, p), target' = [target EXCEPT ![x] = s],
             UNCHANGED source
      PROVE  NamesInv'
  <2>1. p \in Principal
    BY <1>2, PrincipalsTyped DEF HandleInv
  <2>2. /\ wrapper[s] = Null /\ meant[s] = Null
        /\ \A q \in NameObj : wrapper'[q] = IF q = s THEN s ELSE wrapper[q]
        /\ \A v \in Wrapper : Denoted(v)' = IF v = s THEN p ELSE Denoted(v)
        /\ \A y \in Ctx : source[y] # s /\ target[y] # s
    BY <1>7, <2>1, NewNameDenotes
  <2>3. NamesKept'
    <3>1. SUFFICES ASSUME NEW q \in NameObj, InHand(q)'
                   PROVE  (Denoted(wrapper[q]) = meant[q])'
      BY DEF NamesKept
    <3>2. InHand(q) /\ q # s /\ wrapper[q] \in {q, NoName}
      BY <1>1, <1>2, <2>2, <3>1 DEF InHand, WrappersKnown, NamesMade
    <3> QED
      BY <1>1, <1>2, <2>2, <3>2 DEF NamesKept
  <2>4. WrappersKnown'
    <3>1. \A q \in NameObj : wrapper'[q] \in {q, NoName, Null}
      BY <1>2, <2>2 DEF WrappersKnown
    <3>2. ASSUME NEW y \in Ctx
          PROVE  /\ source'[y] # Null => wrapper'[source'[y]] =
                      IF role'[y] = "acceptor" THEN NoName ELSE source'[y]
                 /\ target'[y] # Null => wrapper'[target'[y]] = target'[y]
                 /\ ctxState'[y] = "none" => source'[y] = Null /\ target'[y] = Null
      <4>1. CASE y = x
        BY <1>1, <1>2, <1>5, <1>7, <2>2, <4>1 DEF TypeOK
      <4>2. CASE y # x
        <5>1. /\ source'[y] = source[y] /\ target'[y] = target[y]
              /\ role'[y] = role[y] /\ ctxState'[y] = ctxState[y]
          BY <1>1, <1>2, <1>7, <4>2 DEF TypeOK
        <5>2. /\ source[y] \in (NameObj \ {s}) \cup {Null}
              /\ target[y] \in (NameObj \ {s}) \cup {Null}
          BY <1>2, <2>2 DEF TypeOK
        <5> QED
          BY <1>2, <2>2, <5>1, <5>2 DEF WrappersKnown
      <4> QED
        BY <4>1, <4>2
    <3> QED
      BY <1>3, <3>1, <3>2 DEF WrappersKnown
  <2>5. SharedKnown'
    BY <1>1, <1>2, <1>3, <1>4, <1>7, <2>2 DEF SharedKnown, Begun, TypeOK, InHand
  <2> QED
    BY <2>3, <2>4, <2>5 DEF NamesInv
<1> QED
  BY <1>6, <1>7 DEF NewAcceptor

\* Nothing about names happens.
LEMMA NamesInvUnchanged ==
  ASSUME HandleInv, NamesInv, UNCHANGED <<nameVars, ctxVars, meant>>,
         NEW c \in CredObj, closed' \in {closed, closed \cup {c}}
  PROVE  NamesInv'
<1> USE Distinct
<1>1. \A o \in NameObj \cup Ctx : o \in closed' <=> o \in closed
  OBVIOUS
<1>2. NamesKept /\ WrappersKnown /\ SharedKnown
  BY DEF NamesInv
<1>3. NamesKept'
  BY <1>1, <1>2 DEF NamesKept, InHand, Denoted, nameVars
<1>4. WrappersKnown'
  BY <1>2 DEF WrappersKnown, DoneAcceptor, nameVars, ctxVars
<1>5. SharedKnown'
  BY <1>1, <1>2 DEF SharedKnown, Begun, Accepting, Using, DoneAcceptor, InHand, Denoted, nameVars, ctxVars
<1> QED
  BY <1>3, <1>4, <1>5 DEF NamesInv

\* The handshake of an initiator leaves the names alone.
LEMMA NamesInvInit ==
  ASSUME HandleInv, NamesInv, Disciplined, NEW x \in Ctx, NEW state \in {"new", "half", "done"},
         MayCall(x), role[x] = "initiator", ctxState[x] \in {"new", "half"},
         ctxState' = [ctxState EXCEPT ![x] = state],
         UNCHANGED <<nameVars, role, source, target, meant, closed>>
  PROVE  NamesInv'
<1>1. TypeOK /\ NamesKept /\ WrappersKnown /\ SharedKnown /\ x \notin closed
  BY DEF HandleInv, NamesInv, MayCall
<1>2. \A y \in Ctx : ctxState'[y] = IF y = x THEN state ELSE ctxState[y]
  BY <1>1 DEF TypeOK
<1>3. \A y \in Ctx : (DoneAcceptor(y)' <=> DoneAcceptor(y)) /\ (Accepting(y)' <=> Accepting(y))
  BY <1>2 DEF DoneAcceptor, Accepting, Using
<1>4. NamesKept'
  BY <1>1 DEF NamesKept, InHand, Denoted, nameVars
<1>5. WrappersKnown'
  BY <1>1, <1>2, <1>3 DEF WrappersKnown, nameVars
<1>6. SharedKnown'
  BY <1>1, <1>2, <1>3 DEF SharedKnown, Begun, InHand, Denoted, nameVars
<1> QED
  BY <1>4, <1>5, <1>6 DEF NamesInv

\* An acceptor that is not established: no name in hand has the shared wrapper,
\* and it gets its source name.
LEMMA NewSource ==
  ASSUME HandleInv, NamesInv, Disciplined, NEW x \in Ctx, NEW s \in NameObj,
         MayCall(x), role[x] = "acceptor", ctxState[x] \in {"new", "half"}, WithSource(x, s)
  PROVE  /\ \A y \in Ctx : ~DoneAcceptor(y) /\ (Accepting(y) => y = x)
         /\ \A q \in NameObj : InHand(q) => wrapper[q] = q /\ wrapper'[q] = q
         /\ \A q \in NameObj : wrapper[q] # Null => wrapper'[q] = wrapper[q]
         /\ \A q \in NameObj : wrapper'[q] \in {q, NoName, Null}
         /\ wrapper'[s] = NoName
         /\ \A y \in Ctx : source'[y] = IF y = x THEN s ELSE source[y]
<1> USE Distinct DEF Wrapper
<1>1. TypeOK /\ NamesMade /\ WrappersKnown /\ SharedKnown /\ x \notin closed
  BY DEF HandleInv, NamesInv, MayCall
<1>2. Accepting(x)
  BY <1>1 DEF Accepting, Using
<1>3. \A y \in Ctx : Accepting(y) => y = x
  BY <1>1, <1>2 DEF SharedKnown
<1>4. \A y \in Ctx : ~DoneAcceptor(y)
  BY <1>1, <1>3 DEF Begun, DoneAcceptor, Accepting, Using, SharedKnown
<1>5. \A q \in NameObj : InHand(q) => wrapper[q] = q
  BY <1>1, <1>4 DEF SharedKnown, WrappersKnown, NamesMade, InHand
<1>6. CASE source[x] = Null /\ SharedName(s) /\ source' = [source EXCEPT ![x] = s]
  <2>1. /\ wrapper[s] = Null
        /\ \A q \in NameObj : wrapper'[q] = IF q = s THEN NoName ELSE wrapper[q]
    BY <1>1, <1>6 DEF SharedName, TypeOK
  <2>2. \A y \in Ctx : source'[y] = IF y = x THEN s ELSE source[y]
    BY <1>1, <1>6 DEF TypeOK
  <2>3. \A q \in NameObj : wrapper'[q] \in {q, NoName, Null}
    BY <1>1, <2>1 DEF WrappersKnown
  <2> QED
    BY <1>3, <1>4, <1>5, <2>1, <2>2, <2>3
<1>7. CASE source[x] # Null /\ s = source[x] /\ UNCHANGED <<wrapper, source>>
  BY <1>1, <1>3, <1>4, <1>5, <1>7 DEF WrappersKnown
<1> QED
  BY <1>6, <1>7 DEF WithSource

\* The shared wrapper takes the name of the peer of the only acceptor.
LEMMA NamesInvAccept ==
  ASSUME HandleInv, NamesInv, Disciplined, NEW x \in Ctx, NEW s \in NameObj,
         NEW peer \in Principal, AcceptSecContext(x, s, peer)
  PROVE  NamesInv'
<1> USE Distinct DEF Wrapper
<1>1. /\ MayCall(x) /\ role[x] = "acceptor" /\ ctxState[x] \in {"new", "half"} /\ x \notin closed
      /\ WithSource(x, s) /\ StoreName(NoName, peer)
      /\ ctxState' = [ctxState EXCEPT ![x] = "done"]
      /\ UNCHANGED <<role, target, meant, closed>>
  BY DEF AcceptSecContext, Advance, MayCall
<1>2. TypeOK /\ NamesSound /\ NamesMade /\ NamesKept /\ WrappersKnown /\ SharedKnown
  BY Parts DEF HandleInv, NamesInv
<1>3. /\ \A y \in Ctx : ~DoneAcceptor(y) /\ (Accepting(y) => y = x)
      /\ \A q \in NameObj : InHand(q) => wrapper[q] = q /\ wrapper'[q] = q
      /\ \A q \in NameObj : wrapper[q] # Null => wrapper'[q] = wrapper[q]
      /\ \A q \in NameObj : wrapper'[q] \in {q, NoName, Null}
      /\ wrapper'[s] = NoName
      /\ \A y \in Ctx : source'[y] = IF y = x THEN s ELSE source[y]
  BY <1>1, NewSource
<1>4. \A v \in Wrapper : Denoted(v)' = IF v = NoName THEN peer ELSE Denoted(v)
  BY <1>1, <1>2, StoreDenotes
<1>5. \A y \in Ctx : ctxState'[y] = IF y = x THEN "done" ELSE ctxState[y]
  BY <1>1, <1>2 DEF TypeOK
<1>6. /\ \A y \in Ctx : DoneAcceptor(y)' <=> y = x
      /\ \A y \in Ctx : Accepting(y)' <=> Accepting(y)
  BY <1>1, <1>3, <1>5 DEF DoneAcceptor, Accepting, Using
<1>7. \A q \in NameObj : InHand(q)' <=> InHand(q)
  BY <1>1 DEF InHand
<1>8. NamesKept'
  BY <1>1, <1>2, <1>3, <1>4, <1>7 DEF NamesKept
<1>9. WrappersKnown'
  <2>1. ASSUME NEW y \in Ctx
        PROVE  /\ source'[y] # Null => wrapper'[source'[y]] =
                    IF role'[y] = "acceptor" THEN NoName ELSE source'[y]
               /\ target'[y] # Null => wrapper'[target'[y]] = target'[y]
    BY <1>1, <1>2, <1>3 DEF WrappersKnown, NamesMade, TypeOK
  <2>2. ASSUME NEW y \in Ctx
        PROVE  /\ ctxState'[y] = "none" => source'[y] = Null /\ target'[y] = Null
               /\ DoneAcceptor(y)' => source'[y] # Null
    BY <1>1, <1>2, <1>3, <1>5, <1>6 DEF WrappersKnown
  <2> QED
    BY <1>3, <2>1, <2>2 DEF WrappersKnown
<1>10. SharedKnown'
  <2>1. \A q \in NameObj : InHand(q)' => wrapper'[q] # NoName
    BY <1>3, <1>7
  <2>2. \A y \in Ctx : Begun(y)' => y \notin closed'
    BY <1>1, <1>2, <1>5 DEF SharedKnown, Begun
  <2> QED
    BY <1>3, <1>6, <2>1, <2>2 DEF SharedKnown
<1> QED
  BY <1>8, <1>9, <1>10 DEF NamesInv

\* The shared wrapper is emptied while no name in hand has it.
LEMMA NamesInvForget ==
  ASSUME HandleInv, NamesInv, Disciplined, NEW x \in Ctx, NEW s \in NameObj,
         AcceptSecContextThrows(x, s) \/ AcceptSecContextContinues(x, s)
  PROVE  NamesInv'
<1> USE Distinct DEF Wrapper
<1>1. /\ MayCall(x) /\ role[x] = "acceptor" /\ ctxState[x] \in {"new", "half"}
      /\ WithSource(x, s) /\ cell' = [cell EXCEPT ![NoName] = Null] /\ x \notin closed
      /\ UNCHANGED <<name, role, target, meant, closed>>
  BY DEF AcceptSecContextThrows, AcceptSecContextContinues, Advance, ForgetPeer, MayCall
<1>a. \A y \in Ctx : ctxState'[y] = IF y = x THEN ctxState'[x] ELSE ctxState[y]
  BY DEF AcceptSecContextThrows, AcceptSecContextContinues, Advance, LoseNative, HandleInv, TypeOK
<1>b. ctxState'[x] \in {"new", "half"}
  BY <1>1 DEF AcceptSecContextThrows, AcceptSecContextContinues, Advance, LoseNative, HandleInv,
              TypeOK
<1>2. TypeOK /\ NamesMade /\ NamesKept /\ WrappersKnown /\ SharedKnown
  BY DEF HandleInv, NamesInv
<1>3. /\ \A y \in Ctx : ~DoneAcceptor(y) /\ (Accepting(y) => y = x)
      /\ \A q \in NameObj : InHand(q) => wrapper[q] = q /\ wrapper'[q] = q
      /\ \A q \in NameObj : wrapper[q] # Null => wrapper'[q] = wrapper[q]
      /\ \A q \in NameObj : wrapper'[q] \in {q, NoName, Null}
      /\ wrapper'[s] = NoName
      /\ \A y \in Ctx : source'[y] = IF y = x THEN s ELSE source[y]
  BY <1>1, NewSource
<1>4. \A v \in Wrapper : Denoted(v)' = IF v = NoName THEN Null ELSE Denoted(v)
  BY <1>1, <1>2 DEF TypeOK, Denoted
<1>5. /\ \A y \in Ctx : ~DoneAcceptor(y)'
      /\ \A y \in Ctx : Accepting(y)' <=> Accepting(y)
      /\ \A q \in NameObj : InHand(q)' <=> InHand(q)
  BY <1>1, <1>3, <1>a, <1>b DEF DoneAcceptor, Accepting, Using, InHand
<1>6. NamesKept'
  BY <1>1, <1>2, <1>3, <1>4, <1>5 DEF NamesKept
<1>7. WrappersKnown'
  <2>1. ASSUME NEW y \in Ctx
        PROVE  /\ source'[y] # Null => wrapper'[source'[y]] =
                    IF role'[y] = "acceptor" THEN NoName ELSE source'[y]
               /\ target'[y] # Null => wrapper'[target'[y]] = target'[y]
    BY <1>1, <1>2, <1>3 DEF WrappersKnown, NamesMade, TypeOK
  <2>2. \A y \in Ctx : ctxState'[y] = "none" => source'[y] = Null /\ target'[y] = Null
    BY <1>1, <1>2, <1>3, <1>a, <1>b DEF WrappersKnown
  <2> QED
    BY <1>3, <1>5, <2>1, <2>2 DEF WrappersKnown
<1>8. SharedKnown'
  <2>1. \A q \in NameObj : InHand(q)' => wrapper'[q] # NoName
    BY <1>3, <1>5
  <2>2. \A y \in Ctx : Begun(y)' => y \notin closed'
    BY <1>1, <1>2, <1>a DEF SharedKnown, Begun
  <2> QED
    BY <1>3, <1>4, <1>5, <2>1, <2>2 DEF SharedKnown
<1> QED
  BY <1>6, <1>7, <1>8 DEF NamesInv

\* A name the caller gets has the shared wrapper only if it is that acceptor's.
LEMMA NamesInvGet ==
  ASSUME HandleInv, NamesInv, Disciplined, NEW x \in Ctx, NEW o \in NameObj,
         GetContextName(x, o)
  PROVE  NamesInv'
<1> USE Distinct DEF Wrapper
<1>1. /\ ctxState[x] = "done" /\ o \in {source[x], target[x]} /\ cell[wrapper[o]] # Null
      /\ meant' = [meant EXCEPT ![o] = Denoted(wrapper[o])]
      /\ UNCHANGED <<nameVars, ctxVars, closed>>
  BY DEF GetContextName, Denoted
<1>2. TypeOK /\ NamesKept /\ WrappersKnown /\ SharedKnown
  BY DEF HandleInv, NamesInv
<1>3. \A q \in NameObj : meant'[q] = IF q = o THEN Denoted(wrapper[o]) ELSE meant[q]
  BY <1>1, <1>2 DEF TypeOK
<1>4. wrapper[o] = NoName => DoneAcceptor(x) /\ source[x] = o
  BY <1>1, <1>2 DEF WrappersKnown, DoneAcceptor
<1>5. NamesKept'
  BY <1>1, <1>2, <1>3 DEF NamesKept, InHand, Denoted, nameVars
<1>6. WrappersKnown'
  BY <1>1, <1>2 DEF WrappersKnown, DoneAcceptor, nameVars, ctxVars
<1>7. SharedKnown'
  <2>1. \A q \in NameObj : InHand(q)' /\ q # o => InHand(q)
    BY <1>1, <1>3 DEF InHand
  <2>2. /\ Denoted(NoName)' = Denoted(NoName)
        /\ \A y \in Ctx : (DoneAcceptor(y)' <=> DoneAcceptor(y)) /\ (Accepting(y)' <=> Accepting(y))
        /\ \A y \in Ctx : Begun(y)' <=> Begun(y)
        /\ UNCHANGED <<wrapper, source, ctxState, closed>>
    BY <1>1 DEF Begun, Denoted, DoneAcceptor, Accepting, Using, nameVars, ctxVars
  <2> QED
    BY <1>2, <1>4, <2>1, <2>2 DEF SharedKnown
<1> QED
  BY <1>5, <1>6, <1>7 DEF NamesInv

\* dispose() takes the context's names out of the caller's hands, and with an
\* acceptor's source name the shared wrapper.
LEMMA NamesInvDispose ==
  ASSUME HandleInv, NamesInv, Disciplined, NEW x \in Ctx, Dispose(x)
  PROVE  NamesInv'
<1> USE Distinct DEF Wrapper
<1> DEFINE ws == NameWrappers(x)
           mine == {source[x], target[x]} \ {Null}
<1>1. /\ Begun(x) /\ x \notin closed /\ ReleaseNames(ws)
      /\ ctxState' = [ctxState EXCEPT ![x] = "disposed"]
      /\ source' = [source EXCEPT ![x] = Null] /\ target' = [target EXCEPT ![x] = Null]
      /\ closed' = closed \cup {x} \cup mine
      /\ UNCHANGED <<wrapper, role, meant>>
  BY DEF Dispose, DropFields, MayCall
<1>2. TypeOK /\ NamesSound /\ NamesMade /\ NamesKept /\ WrappersKnown /\ SharedKnown
  BY Parts DEF HandleInv, NamesInv
<1>3. /\ mine \subseteq NameObj /\ ws = {wrapper[o] : o \in mine}
      /\ ws \in SUBSET Wrapper
  BY <1>2 DEF NameWrappers, TypeOK, NamesMade
<1>4. \A v \in Wrapper : Denoted(v)' = IF v \in ws THEN Null ELSE Denoted(v)
  BY <1>1, <1>2, <1>3, ReleaseDenotes
<1>5. \A y \in Ctx : /\ ctxState'[y] = IF y = x THEN "disposed" ELSE ctxState[y]
                     /\ source'[y] = IF y = x THEN Null ELSE source[y]
                     /\ target'[y] = IF y = x THEN Null ELSE target[y]
                     /\ y \in closed' <=> y = x \/ y \in closed
  BY <1>1, <1>2, <1>3 DEF TypeOK
<1>6. /\ \A y \in Ctx : DoneAcceptor(y)' <=> DoneAcceptor(y) /\ y # x
      /\ \A y \in Ctx : Accepting(y)' => Accepting(y)
  BY <1>1, <1>5 DEF DoneAcceptor, Accepting, Using
<1>7. \A q \in NameObj : InHand(q)' => InHand(q) /\ q \notin mine
  BY <1>1, <1>3 DEF InHand
<1>8. \A q \in NameObj : q \notin mine => q \notin ws
  BY <1>2, <1>3 DEF WrappersKnown
<1>9. NoName \in ws => Accepting(x) /\ \A y \in Ctx : DoneAcceptor(y) => y = x
  BY <1>1, <1>2, <1>3 DEF WrappersKnown, SharedKnown, DoneAcceptor, Accepting, Using, Begun
<1>10. DoneAcceptor(x) => NoName \in ws
  BY <1>1, <1>2, <1>3 DEF WrappersKnown, DoneAcceptor
<1>11. \A y \in Ctx : DoneAcceptor(x) /\ DoneAcceptor(y) => y = x
  BY <1>2 DEF SharedKnown, Begun, DoneAcceptor, Accepting, Using
<1>12. ASSUME NEW q \in NameObj, InHand(q)', wrapper[q] = NoName
       PROVE  NoName \notin ws /\ \E y \in Ctx : DoneAcceptor(y)' /\ source'[y] = q
  <2>1. PICK y \in Ctx : DoneAcceptor(y) /\ source[y] = q
    BY <1>2, <1>7, <1>12 DEF SharedKnown
  <2>2. y # x
    BY <1>7, <1>12, <2>1
  <2> QED
    BY <1>5, <1>6, <1>9, <1>11, <2>1, <2>2
<1>13. NamesKept'
  <2>1. SUFFICES ASSUME NEW q \in NameObj, InHand(q)'
                 PROVE  (Denoted(wrapper[q]) = meant[q])'
    BY DEF NamesKept
  <2>2. InHand(q) /\ wrapper[q] \in {q, NoName}
    BY <1>2, <1>7, <2>1 DEF WrappersKnown, NamesMade, InHand
  <2>3. wrapper[q] \notin ws
    BY <1>7, <1>8, <1>12, <2>1, <2>2
  <2> QED
    BY <1>1, <1>2, <1>4, <2>2, <2>3 DEF NamesKept
<1>14. WrappersKnown'
  BY <1>1, <1>2, <1>5, <1>6 DEF WrappersKnown
<1>15. SharedKnown'
  <2>1. Denoted(NoName)' # Null => \E y \in Ctx : DoneAcceptor(y)'
    BY <1>2, <1>4, <1>6, <1>10 DEF SharedKnown
  <2>2. \A y \in Ctx : Begun(y)' => y \notin closed'
    BY <1>2, <1>5 DEF SharedKnown, Begun
  <2>3. \A y, z \in Ctx : Accepting(y)' /\ Accepting(z)' => y = z
    BY <1>2, <1>6 DEF SharedKnown
  <2>4. \A q \in NameObj : InHand(q)' /\ wrapper'[q] = NoName =>
          \E y \in Ctx : DoneAcceptor(y)' /\ source'[y] = q
    BY <1>1, <1>12
  <2> QED
    BY <2>1, <2>2, <2>3, <2>4 DEF SharedKnown
<1> QED
  BY <1>13, <1>14, <1>15 DEF NamesInv

\* A context that is given up before it was established releases nothing.
LEMMA NamesInvDisposeThrows ==
  ASSUME HandleInv, NamesInv, Disciplined, NEW x \in Ctx, DisposeThrows(x)
  PROVE  NamesInv'
<1> USE Distinct
<1>1. /\ ctxState[x] = "new" /\ closed' = closed \cup {x}
      /\ UNCHANGED <<nameVars, ctxVars, meant>>
  BY DEF DisposeThrows
<1>2. NamesKept /\ WrappersKnown /\ SharedKnown
  BY DEF NamesInv
<1>3. \A q \in NameObj : InHand(q)' <=> InHand(q)
  BY <1>1 DEF InHand
<1>4. /\ \A y \in Ctx : DoneAcceptor(y)' <=> DoneAcceptor(y)
      /\ \A y \in Ctx : Accepting(y)' => Accepting(y)
      /\ \A v : Denoted(v)' = Denoted(v)
  BY <1>1 DEF DoneAcceptor, Accepting, Using, Denoted, nameVars, ctxVars
<1>5. NamesKept'
  BY <1>1, <1>2, <1>3, <1>4 DEF NamesKept, nameVars
<1>6. WrappersKnown'
  BY <1>1, <1>2, <1>4 DEF WrappersKnown, nameVars, ctxVars
<1>7. SharedKnown'
  BY <1>1, <1>2, <1>3, <1>4 DEF SharedKnown, Begun, nameVars, ctxVars
<1> QED
  BY <1>5, <1>6, <1>7 DEF NamesInv

\* What a name that is passed denotes.
LEMMA PassedDenotes ==
  ASSUME HandleInv, NamesInv, Disciplined, NEW o \in NameObj, MayUse(o)
  PROVE  /\ wrapper[o] \in Wrapper /\ meant[o] \in Principal
         /\ Denoted(wrapper[o]) = meant[o] /\ AcquiredFor(wrapper[o]) = meant[o]
<1>1. TypeOK /\ NamesMade /\ NamesSound /\ NamesKept
  BY Parts DEF HandleInv, NamesInv
<1>2. InHand(o)
  BY DEF MayUse, InHand
<1>3. wrapper[o] \in Wrapper /\ meant[o] \in Principal
  BY <1>1, <1>2 DEF TypeOK, NamesMade, InHand
<1> QED
  BY <1>1, <1>2, <1>3, AcquiredDenoted, Distinct DEF NamesKept

\* NamesInv is preserved by every action of a disciplined caller.
LEMMA NamesStep ==
  ASSUME HandleInv, NamesInv, Disciplined, [Next]_vars
  PROVE  NamesInv'
<1> SUFFICES ASSUME Next PROVE NamesInv'
  BY DEF NamesInv, NamesKept, WrappersKnown, SharedKnown, InHand, Denoted, DoneAcceptor,
         Accepting, Using, Begun, vars, nameVars, ctxVars
<1>1. ASSUME NEW o \in NameObj, NEW p \in Principal, CreateName(o, p) PROVE NamesInv'
  BY <1>1, NamesInvNewName DEF CreateName
<1>2. ASSUME NEW o \in NameObj, NEW from \in NameObj, Canonicalize(o, from) PROVE NamesInv'
  <2>1. meant[from] \in Principal /\ Denoted(wrapper[from]) = meant[from]
    BY <1>2, PassedDenotes DEF Canonicalize
  <2>2. name[cell[wrapper[from]]] = meant[from]
    BY <1>2, <2>1 DEF Canonicalize, Denoted
  <2> QED
    BY <1>2, <2>1, <2>2, NamesInvNewName DEF Canonicalize
<1>3. ASSUME NEW c \in CredObj, NEW o \in NameObj \cup {Null}, NEW mechs \in SUBSET Mech \ {{}},
             AcquireCred(c, o, mechs)
      PROVE  NamesInv'
  BY <1>3, NamesInvUnchanged DEF AcquireCred
<1>4. ASSUME NEW c \in CredObj, NEW o \in NameObj, NEW m \in Mech, Add(c, o, m)
      PROVE  NamesInv'
  BY <1>4, NamesInvUnchanged DEF Add
<1>5. ASSUME NEW c \in CredObj, NEW o \in NameObj, NEW p \in Principal, GetName(c, o, p)
      PROVE  NamesInv'
  BY <1>5, NamesInvNewName DEF GetName
<1>6. ASSUME NEW c \in CredObj, NEW throws \in BOOLEAN, DisposeCred(c, throws)
      PROVE  NamesInv'
  BY <1>6, NamesInvUnchanged DEF DisposeCred
<1>7. ASSUME NEW x \in Ctx, NEW s \in NameObj, NEW peer \in NameObj,
             NEW c \in CredObj \cup {Null}, NewInitiator(x, peer, c, s)
      PROVE  NamesInv'
  BY <1>7, NamesInvInitiator
<1>8. ASSUME NEW x \in Ctx, NEW s \in NameObj, NEW c \in CredObj \cup {Null},
             NewAcceptor(x, c, s)
      PROVE  NamesInv'
  BY <1>8, NamesInvAcceptor
<1>9. ASSUME NEW x \in Ctx, NEW state \in {"half", "done"}, InitSecContext(x, state)
      PROVE  NamesInv'
  BY <1>9, NamesInvInit DEF InitSecContext, Advance
<1>b. ASSUME NEW x \in Ctx, InitSecContextThrows(x) PROVE NamesInv'
  BY <1>b, NamesInvInit DEF InitSecContextThrows, LoseNative
<1>10. ASSUME NEW x \in Ctx, NEW s \in NameObj, NEW peer \in Principal,
              AcceptSecContext(x, s, peer)
       PROVE  NamesInv'
  BY <1>10, NamesInvAccept
<1>11. ASSUME NEW x \in Ctx, NEW s \in NameObj,
              AcceptSecContextThrows(x, s) \/ AcceptSecContextContinues(x, s)
       PROVE  NamesInv'
  BY <1>11, NamesInvForget
<1>12. ASSUME NEW x \in Ctx, NEW o \in NameObj, GetContextName(x, o) PROVE NamesInv'
  BY <1>12, NamesInvGet
<1>13. ASSUME NEW x \in Ctx, Dispose(x) PROVE NamesInv'
  BY <1>13, NamesInvDispose
<1>14. ASSUME NEW x \in Ctx, DisposeThrows(x) PROVE NamesInv'
  BY <1>14, NamesInvDisposeThrows
<1> QED
  BY <1>1, <1>2, <1>3, <1>4, <1>5, <1>6, <1>7, <1>8, <1>9, <1>b, <1>10, <1>11, <1>12, <1>13,
     <1>14, Steps

\* Credentials are asked for names that denote what they stood for, and for the
\* default when there is no acceptor, so that the shared wrapper is empty.
LEMMA AskedFor ==
  ASSUME HandleInv, NamesInv, Disciplined, NEW o \in NameObj \cup {Null}, MayAsk(o)
  PROVE  AcquiredFor(NameArgument(o)) = IF o = Null THEN Default ELSE meant[o]
<1> USE Distinct
<1>1. CASE o = Null
  <2>1. \A x \in Ctx : ~DoneAcceptor(x)
    BY <1>1 DEF MayAsk, NamesInv, SharedKnown, Begun, DoneAcceptor, Accepting, Using
  <2>2. Denoted(NoName) = Null
    BY <2>1 DEF NamesInv, SharedKnown
  <2> QED
    BY <1>1, <2>2, Parts, AcquiredDenoted DEF NameArgument, Wrapper
<1>2. CASE o # Null
  BY <1>2, PassedDenotes DEF MayAsk, NameArgument
<1> QED
  BY <1>1, <1>2

\* The credentials stay as they are, and so do the contexts that use them.
LEMMA CredsInvUnchanged ==
  ASSUME HandleInv, CredsInv, Disciplined, UNCHANGED credVars,
         \A c \in CredObj : c \in closed' <=> c \in closed,
         \A x \in Ctx : Begun(x)' =>
           Begun(x) /\ credential'[x] = credential[x] /\ actedAs'[x] = actedAs[x],
         \A x \in Ctx : Using(x)' => \/ Using(x) /\ credential'[x] = credential[x]
                                     \/ credential'[x] = Null
  PROVE  CredsInv'
<1>1. CredsHeld'
  <2>1. \A x \in Ctx : credential[x] \in CredObj \cup {Null}
    BY DEF HandleInv, TypeOK
  <2> QED
    BY <2>1 DEF CredsInv, CredsHeld, credVars
<1>2. CredentialNamed' /\ ActsAsGiven'
  BY DEF CredsInv, CredentialNamed, ActsAsGiven, credVars
<1> QED
  BY <1>1, <1>2 DEF CredsInv

\* A new credential is for what was asked, and no context uses it yet.
LEMMA CredsInvAcquire ==
  ASSUME HandleInv, NamesInv, CredsInv, Disciplined,
         NEW c \in CredObj, NEW o \in NameObj \cup {Null}, NEW mechs \in SUBSET Mech \ {{}},
         AcquireCred(c, o, mechs)
  PROVE  CredsInv'
<1> USE Distinct
<1>1. TypeOK /\ CredsSound /\ SharedKnown /\ CredsHeld
  BY Parts DEF HandleInv, NamesInv, CredsInv
<1>2. FreshCred \in NativeCred /\ cred[FreshCred] = "unused"
  BY FreshAddresses DEF AcquireCred
<1>3. /\ credState[c] = "none" /\ handle[c] = Null
      /\ \A d \in CredObj : handle[d] # FreshCred
  BY <1>1, <1>2 DEF AcquireCred, CredsHeld, CredsSound
<1>4. /\ \A d \in CredObj : handle'[d] = IF d = c THEN FreshCred ELSE handle[d]
      /\ \A d \in CredObj : credState'[d] = IF d = c THEN "valid" ELSE credState[d]
      /\ UNCHANGED <<ctxVars, closed>>
  BY <1>1 DEF AcquireCred, TypeOK
<1>5. element'[FreshCred] = asked'[c]
  BY <1>1, <1>2, AskedFor DEF AcquireCred, TypeOK
<1>6. \A d \in CredObj : d # c => asked'[d] = asked[d]
  BY <1>1 DEF AcquireCred, TypeOK
<1>7. \A n \in NativeCred : n # FreshCred => element'[n] = element[n]
  BY <1>1 DEF AcquireCred, TypeOK
<1>8. \A x \in Ctx : Using(x) => credential[x] # c
  BY <1>1, <1>3 DEF CredsHeld
<1>9. \A x \in Ctx : Begun(x) => Using(x)
  BY <1>1 DEF SharedKnown, Using, Begun
<1>10. CredsHeld'
  <2>1. FreshCred # Null
    BY <1>2
  <2>2. \A d \in CredObj : /\ credState'[d] = "valid" /\ d \notin closed => handle'[d] # Null
                           /\ handle'[d] # Null => credState'[d] # "none"
    BY <1>1, <1>4, <2>1 DEF CredsHeld
  <2>3. \A x \in Ctx : credential[x] \in CredObj \cup {Null}
    BY <1>1 DEF TypeOK
  <2> QED
    BY <1>1, <1>4, <1>8, <2>2, <2>3 DEF CredsHeld, Using, Begun, ctxVars
<1>11. CredentialNamed'
  <2>1. \A d \in CredObj : handle[d] # Null =>
          element[handle[d]] = asked[d] /\ handle[d] \in NativeCred
    BY <1>1 DEF CredsInv, CredentialNamed, TypeOK
  <2> QED
    BY <1>3, <1>4, <1>5, <1>6, <1>7, <2>1 DEF CredentialNamed
<1>12. ActsAsGiven'
  <2>1. \A x \in Ctx : Begun(x) =>
          IF credential[x] = Null THEN actedAs[x] = Default
          ELSE \E m \in Mech : actedAs[x] = asked[credential[x]][m]
    BY DEF CredsInv, ActsAsGiven
  <2>2. \A x \in Ctx : credential[x] \in CredObj \cup {Null}
    BY <1>1 DEF TypeOK
  <2> QED
    BY <1>4, <1>6, <1>8, <1>9, <2>1, <2>2 DEF ActsAsGiven, Begun, ctxVars
<1> QED
  BY <1>10, <1>11, <1>12 DEF CredsInv

\* A new element is for what was asked; no context has acted as it before.
LEMMA CredsInvAdd ==
  ASSUME HandleInv, NamesInv, CredsInv, Disciplined,
         NEW c \in CredObj, NEW o \in NameObj, NEW m \in Mech, Add(c, o, m)
  PROVE  CredsInv'
<1> USE Distinct
<1>1. TypeOK /\ CredsSound /\ CredsHeld
  BY Parts DEF HandleInv, CredsInv
<1>2. /\ handle[c] # Null /\ element[handle[c]][m] = Null
      /\ element' = [element EXCEPT ![handle[c]][m] = meant[o]]
      /\ asked' = [asked EXCEPT ![c][m] = meant[o]]
      /\ UNCHANGED <<handle, credState, ctxVars, closed>>
  BY PassedDenotes DEF Add
<1>3. \A d \in CredObj : handle[d] # Null => element[handle[d]] = asked[d]
  BY DEF CredsInv, CredentialNamed
<1>4. handle[c] \in NativeCred /\ asked[c][m] = Null
  BY <1>1, <1>2, <1>3 DEF TypeOK
<1>5. CredsHeld'
  BY <1>1, <1>2 DEF CredsHeld, Using, Begun, ctxVars
<1>6. CredentialNamed'
  <2>1. ASSUME NEW d \in CredObj, handle[d] # Null PROVE element'[handle[d]] = asked'[d]
    <3>1. CASE d = c
      <4>1. element'[handle[c]] = [element[handle[c]] EXCEPT ![m] = meant[o]]
        BY <1>1, <1>2, <1>4 DEF TypeOK
      <4>2. asked'[c] = [asked[c] EXCEPT ![m] = meant[o]]
        BY <1>1, <1>2 DEF TypeOK
      <4> QED
        BY <1>2, <1>3, <3>1, <4>1, <4>2
    <3>2. CASE d # c
      <4>1. handle[d] # handle[c]
        BY <1>1, <2>1, <3>2 DEF CredsSound
      <4>2. element'[handle[d]] = element[handle[d]]
        BY <1>1, <1>2, <2>1, <4>1 DEF TypeOK
      <4>3. asked'[d] = asked[d]
        BY <1>1, <1>2, <3>2 DEF TypeOK
      <4> QED
        BY <1>3, <2>1, <4>2, <4>3
    <3> QED
      BY <3>1, <3>2
  <2> QED
    BY <1>2, <2>1 DEF CredentialNamed
<1>7. ActsAsGiven'
  <2>1. ASSUME NEW x \in Ctx, Begun(x), credential[x] # Null
        PROVE  \E k \in Mech : actedAs[x] = asked'[credential[x]][k]
    <3>1. PICK k \in Mech : actedAs[x] = asked[credential[x]][k]
      BY <2>1 DEF CredsInv, ActsAsGiven
    <3>2. actedAs[x] # Null /\ credential[x] \in CredObj
      BY <1>1, <2>1 DEF CredsHeld, TypeOK
    <3>3. credential[x] = c => k # m
      BY <1>4, <3>1, <3>2
    <3>4. asked'[credential[x]][k] = asked[credential[x]][k]
      BY <1>1, <1>2, <3>2, <3>3 DEF TypeOK
    <3> QED
      BY <3>1, <3>4
  <2>2. \A x \in Ctx : Begun(x) /\ credential[x] = Null => actedAs[x] = Default
    BY DEF CredsInv, ActsAsGiven
  <2>3. UNCHANGED <<ctxState, credential, actedAs>>
    BY <1>2 DEF ctxVars
  <2> QED
    BY <2>1, <2>2, <2>3 DEF ActsAsGiven, Begun
<1> QED
  BY <1>5, <1>6, <1>7 DEF CredsInv

\* No context that is in use holds the credential that is released.
LEMMA CredsInvDispose ==
  ASSUME HandleInv, NamesInv, CredsInv, Disciplined,
         NEW c \in CredObj, NEW throws \in BOOLEAN, DisposeCred(c, throws)
  PROVE  CredsInv'
<1> USE Distinct
<1>1. TypeOK /\ CredsHeld
  BY DEF HandleInv, CredsInv
<1>2. /\ \A d \in CredObj : handle'[d] = IF d = c THEN Null ELSE handle[d]
      /\ \A d \in CredObj : d # c => credState'[d] = credState[d]
      /\ closed' = closed \cup {c}
      /\ UNCHANGED <<element, asked, ctxVars>>
      /\ \A x \in Ctx : Using(x) => credential[x] # c
  BY <1>1 DEF DisposeCred, TypeOK
<1>3. \A x \in Ctx : Using(x)' <=> Using(x)
  BY <1>2 DEF Using, ctxVars
<1>4. CredsHeld'
  <2>1. \A x \in Ctx : credential[x] \in CredObj \cup {Null}
    BY <1>1 DEF TypeOK
  <2> QED
    BY <1>1, <1>2, <1>3, <2>1 DEF CredsHeld, Begun, ctxVars
<1>5. CredentialNamed' /\ ActsAsGiven'
  BY <1>2 DEF CredsInv, CredentialNamed, ActsAsGiven, Begun, ctxVars
<1> QED
  BY <1>4, <1>5 DEF CredsInv

\* A context is constructed with a credential that is in use.
LEMMA CredsInvConstruct ==
  ASSUME HandleInv, CredsInv, Disciplined, NEW x \in Ctx, NEW c \in CredObj \cup {Null},
         NEW kind, Construct(x, kind, c)
  PROVE  CredsInv'
<1>1. TypeOK /\ CredsHeld
  BY DEF HandleInv, CredsInv
<1>2. /\ \A y \in Ctx : y # x => ctxState'[y] = ctxState[y] /\ credential'[y] = credential[y]
      /\ ctxState'[x] = "new" /\ credential'[x] = c
      /\ UNCHANGED <<credVars, actedAs, closed>>
      /\ c # Null => c \notin closed /\ credState[c] = "valid"
  BY <1>1 DEF Construct, MayUseCred, TypeOK
<1>3. c # Null => handle[c] # Null
  BY <1>1, <1>2 DEF CredsHeld
<1>4. CredsHeld'
  <2>1. ASSUME NEW y \in Ctx, Using(y)', credential'[y] # Null
        PROVE  credential'[y] \notin closed /\ handle[credential'[y]] # Null
    BY <1>1, <1>2, <1>3, <2>1 DEF CredsHeld, Using
  <2>2. \A y \in Ctx : Begun(y)' => actedAs[y] # Null
    BY <1>1, <1>2 DEF CredsHeld, Begun
  <2> QED
    BY <1>1, <1>2, <2>1, <2>2 DEF CredsHeld, credVars
<1>5. CredentialNamed' /\ ActsAsGiven'
  <2>1. \A y \in Ctx : Begun(y)' => y # x /\ Begun(y)
    BY <1>2 DEF Begun
  <2> QED
    BY <1>2, <2>1 DEF CredsInv, CredentialNamed, ActsAsGiven, credVars
<1> QED
  BY <1>4, <1>5 DEF CredsInv

\* A context begins its handshake with it.
LEMMA CredsInvBegin ==
  ASSUME HandleInv, CredsInv, Disciplined, NEW x \in Ctx, MayCall(x), ctxState[x] = "new",
         NEW state \in {"half", "done"}, ctxState' = [ctxState EXCEPT ![x] = state],
         \E p \in Principals(credential[x]) : actedAs' = [actedAs EXCEPT ![x] = p],
         UNCHANGED <<credVars, credential, closed>>
  PROVE  CredsInv'
<1> USE Distinct
<1>1. TypeOK /\ NoDangling /\ CredsHeld
  BY DEF HandleInv, CredsInv
<1>2. PICK p \in Principals(credential[x]) : actedAs' = [actedAs EXCEPT ![x] = p]
  OBVIOUS
<1>3. /\ \A y \in Ctx : ctxState'[y] = IF y = x THEN state ELSE ctxState[y]
      /\ \A y \in Ctx : actedAs'[y] = IF y = x THEN p ELSE actedAs[y]
  BY <1>1, <1>2 DEF TypeOK
<1>4. Using(x) /\ credential[x] \in CredObj \cup {Null}
  BY <1>1 DEF Using, MayCall, TypeOK
<1>5. p \in Principal /\ p # Null
  BY <1>1, <1>2, <1>4, PrincipalsTyped
<1>6. IF credential[x] = Null THEN p = Default
      ELSE \E m \in Mech : p = asked[credential[x]][m]
  <2>1. CASE credential[x] = Null
    BY <1>2, <2>1 DEF Principals
  <2>2. CASE credential[x] # Null
    <3>1. handle[credential[x]] # Null
      BY <1>1, <1>4, <2>2 DEF CredsHeld
    <3>2. element[handle[credential[x]]] = asked[credential[x]]
      BY <1>4, <2>2, <3>1 DEF CredsInv, CredentialNamed
    <3> QED
      BY <1>2, <2>2, <3>1, <3>2 DEF Principals
  <2> QED
    BY <2>1, <2>2
<1>7. \A y \in Ctx : Using(y)' <=> Using(y)
  BY <1>3, <1>4 DEF Using
<1>8. CredsHeld'
  BY <1>1, <1>3, <1>5, <1>7 DEF CredsHeld, Begun, credVars
<1>9. CredentialNamed' /\ ActsAsGiven'
  <2>1. \A y \in Ctx : y # x /\ Begun(y) =>
          IF credential[y] = Null THEN actedAs[y] = Default
          ELSE \E m \in Mech : actedAs[y] = asked[credential[y]][m]
    BY DEF CredsInv, ActsAsGiven
  <2> QED
    BY <1>3, <1>6, <2>1 DEF CredsInv, CredentialNamed, ActsAsGiven, Begun, credVars
<1> QED
  BY <1>8, <1>9 DEF CredsInv

\* In the rest of its handshake it keeps to what it has begun as.
LEMMA CredsInvAdvance ==
  ASSUME HandleInv, CredsInv, Disciplined, NEW x \in Ctx, MayCall(x),
         NEW state \in {"half", "done"}, Advance(x, state),
         UNCHANGED <<credVars, credential, closed>>
  PROVE  CredsInv'
<1>1. CASE ctxState[x] = "new"
  BY <1>1, CredsInvBegin DEF Advance
<1>2. CASE ctxState[x] = "half"
  <2>1. \A y \in Ctx : ctxState'[y] = IF y = x THEN state ELSE ctxState[y]
    BY DEF Advance, HandleInv, TypeOK
  <2>2. actedAs' = actedAs
    BY <1>2 DEF Advance
  <2>3. \A y \in Ctx : (Begun(y)' => Begun(y)) /\ (Using(y)' => Using(y))
    BY <1>2, <2>1 DEF Begun, Using
  <2> QED
    BY <2>2, <2>3, CredsInvUnchanged
<1> QED
  BY <1>1, <1>2 DEF Advance

\* So it does when it fails, and loses what it had begun or not.
LEMMA CredsInvLose ==
  ASSUME HandleInv, CredsInv, Disciplined, NEW x \in Ctx,
         UNCHANGED <<ctxState, actedAs>> \/ LoseNative(x),
         UNCHANGED <<credVars, credential, closed>>
  PROVE  CredsInv'
<1>1. CASE UNCHANGED <<ctxState, actedAs>>
  BY <1>1, CredsInvUnchanged DEF Begun, Using
<1>2. CASE LoseNative(x)
  <2>1. /\ \A y \in Ctx : ctxState'[y] = IF y = x THEN "new" ELSE ctxState[y]
        /\ \A y \in Ctx : y # x => actedAs'[y] = actedAs[y]
        /\ ctxState[x] = "half"
    BY <1>2 DEF LoseNative, HandleInv, TypeOK
  <2>2. \A y \in Ctx : /\ Begun(y)' => Begun(y) /\ actedAs'[y] = actedAs[y]
                       /\ Using(y)' => Using(y)
    BY <2>1 DEF Begun, Using
  <2> QED
    BY <2>2, CredsInvUnchanged
<1> QED
  BY <1>1, <1>2

\* CredsInv is preserved by every action of a disciplined caller.
LEMMA CredsStep ==
  ASSUME HandleInv, NamesInv, CredsInv, Disciplined, [Next]_vars
  PROVE  CredsInv'
<1> USE Distinct
<1>0. TypeOK
  BY DEF HandleInv
<1>a. CASE UNCHANGED <<credVars, ctxVars, closed>>
  <2>1. UNCHANGED <<credVars, actedAs, ctxState, credential, closed>>
    BY <1>a DEF ctxVars
  <2> QED
    BY <2>1, CredsInvUnchanged DEF Using, Begun
<1> SUFFICES ASSUME Next PROVE CredsInv'
  BY <1>a DEF vars
<1>1. ASSUME NEW o \in NameObj, NEW p \in Principal, CreateName(o, p) PROVE CredsInv'
  BY <1>1, <1>a DEF CreateName
<1>2. ASSUME NEW o \in NameObj, NEW from \in NameObj, Canonicalize(o, from) PROVE CredsInv'
  BY <1>2, <1>a DEF Canonicalize
<1>3. ASSUME NEW c \in CredObj, NEW o \in NameObj \cup {Null}, NEW mechs \in SUBSET Mech \ {{}},
             AcquireCred(c, o, mechs)
      PROVE  CredsInv'
  BY <1>3, CredsInvAcquire
<1>4. ASSUME NEW c \in CredObj, NEW o \in NameObj, NEW m \in Mech, Add(c, o, m)
      PROVE  CredsInv'
  BY <1>4, CredsInvAdd
<1>5. ASSUME NEW c \in CredObj, NEW o \in NameObj, NEW p \in Principal, GetName(c, o, p)
      PROVE  CredsInv'
  BY <1>5, <1>a DEF GetName
<1>6. ASSUME NEW c \in CredObj, NEW throws \in BOOLEAN, DisposeCred(c, throws)
      PROVE  CredsInv'
  BY <1>6, CredsInvDispose
<1>7. ASSUME NEW x \in Ctx, NEW s \in NameObj, NEW peer \in NameObj,
             NEW c \in CredObj \cup {Null}, NewInitiator(x, peer, c, s)
      PROVE  CredsInv'
  BY <1>7, CredsInvConstruct DEF NewInitiator
<1>8. ASSUME NEW x \in Ctx, NEW s \in NameObj, NEW c \in CredObj \cup {Null},
             NewAcceptor(x, c, s)
      PROVE  CredsInv'
  BY <1>8, CredsInvConstruct DEF NewAcceptor
<1>9. ASSUME NEW x \in Ctx, NEW state \in {"half", "done"}, InitSecContext(x, state)
      PROVE  CredsInv'
  BY <1>9, CredsInvAdvance DEF InitSecContext
<1>b. ASSUME NEW x \in Ctx, InitSecContextThrows(x) PROVE CredsInv'
  BY <1>b, CredsInvLose DEF InitSecContextThrows
<1>10. ASSUME NEW x \in Ctx, NEW s \in NameObj, NEW peer \in Principal,
              AcceptSecContext(x, s, peer)
       PROVE  CredsInv'
  BY <1>10, CredsInvAdvance DEF AcceptSecContext
<1>11. ASSUME NEW x \in Ctx, NEW s \in NameObj,
              AcceptSecContextThrows(x, s) \/ AcceptSecContextContinues(x, s)
       PROVE  CredsInv'
  BY <1>11, CredsInvAdvance, CredsInvLose DEF AcceptSecContextThrows, AcceptSecContextContinues
<1>12. ASSUME NEW x \in Ctx, NEW o \in NameObj, GetContextName(x, o) PROVE CredsInv'
  BY <1>12, <1>a DEF GetContextName
<1>13. ASSUME NEW x \in Ctx, Dispose(x) PROVE CredsInv'
  <2>1. /\ \A y \in Ctx : ctxState'[y] = IF y = x THEN "disposed" ELSE ctxState[y]
        /\ \A y \in Ctx : credential'[y] = IF y = x THEN Null ELSE credential[y]
        /\ closed' = closed \cup {x} \cup ({source[x], target[x]} \ {Null})
        /\ \A y \in Ctx : y # x => actedAs'[y] = actedAs[y]
        /\ UNCHANGED credVars
    BY <1>0, <1>13 DEF Dispose, DropFields, TypeOK
  <2>2. \A c \in CredObj : c \in closed' <=> c \in closed
    BY <1>0, <2>1 DEF TypeOK
  <2>3. \A y \in Ctx : (Using(y)' => Using(y) /\ y # x) /\ (Begun(y)' => Begun(y) /\ y # x)
    BY <2>1 DEF Using, Begun
  <2> QED
    BY <2>1, <2>2, <2>3, CredsInvUnchanged
<1>14. ASSUME NEW x \in Ctx, DisposeThrows(x) PROVE CredsInv'
  <2>1. closed' = closed \cup {x} /\ UNCHANGED <<credVars, ctxState, credential, actedAs>>
    BY <1>14 DEF DisposeThrows, ctxVars
  <2>2. \A c \in CredObj : c \in closed' <=> c \in closed
    BY <2>1
  <2>3. \A y \in Ctx : (Using(y)' => Using(y)) /\ (Begun(y)' <=> Begun(y))
    BY <2>1 DEF Using, Begun
  <2> QED
    BY <2>1, <2>2, <2>3, CredsInvUnchanged
<1> QED
  BY <1>1, <1>2, <1>3, <1>4, <1>5, <1>6, <1>7, <1>8, <1>9, <1>b, <1>10, <1>11, <1>12, <1>13,
     <1>14, Steps

\* For a caller that keeps to the discipline, every element of every credential is
\* for the principal it was asked for, and every context is established as one
\* that its credential was asked for.
THEOREM PrincipalsSound ==
  ASSUME Disciplined
  PROVE  Spec => [](CredentialNamed /\ ActsAsGiven)
<1>1. Init => HandleInv
  BY Distinct DEF Init, HandleInv, TypeOK, NamesMade, NoDangling, Wrapper
<1>2. Init => NamesInv
  BY Distinct DEF Init, NamesInv, NamesKept, WrappersKnown, SharedKnown, InHand, Denoted,
                  DoneAcceptor, Accepting, Using, Begun, Wrapper
<1>3. Init => CredsInv
  BY Distinct DEF Init, CredsInv, CredsHeld, CredentialNamed, ActsAsGiven, Using, Begun
<1>4. HandleInv /\ NamesInv /\ [Next]_vars => NamesInv'
  BY NamesStep
<1>5. HandleInv /\ NamesInv /\ CredsInv /\ [Next]_vars => CredsInv'
  BY CredsStep
<1>6. CredsInv => CredentialNamed /\ ActsAsGiven
  BY DEF CredsInv
<1> QED
  BY <1>1, <1>2, <1>3, <1>4, <1>5, <1>6, HandleStep, PTL DEF Spec
=============================================================================
