-------------------------- MODULE GssContextProofs --------------------------
(***************************************************************************)
(* Invariants of GssContext for every value of its constants; then those   *)
(* of ClientApp, which drives the contexts of GssContext and stands on the *)
(* same facts, and the refinement that makes it a disciplined caller.      *)
(***************************************************************************)
EXTENDS ClientApp, TLAPS

\* What ties wrappers to objects, whatever the caller does: an object uses its
\* own wrapper or the shared one, and its own is untouched until a constructor ran.
OwnWrapper ==
  \A c \in Ctx :
    /\ intern[c] \in {c, Shared}
    /\ role[c] = "none" => ctxState[c] = "none" /\ cell[c] = Blank

\* Inductive for every caller.
WrapperInv == TypeOK /\ OwnWrapper /\ NoDangling /\ NoLostNative

\* The object the disciplined caller is working on.
Active(c) == ctxState[c] # "none" /\ ~Finished(c)

\* There is one at most.
OneActive == \A c, d \in Ctx : Active(c) /\ Active(d) => c = d

\* How far an object is shows in the wrapper it uses.
WrapperOfState ==
  \A c \in Ctx :
    /\ ctxState[c] \in {"none", "UNINIT"} => intern[c] = c
    /\ ctxState[c] = "UNINIT" => cell[c] = Blank
    /\ ctxState[c] = "DISPOSED" => c \in closed
    /\ role[c] = "imported" => intern[c] = c /\ ctxState[c] # "UNINIT"
    /\ role[c] = "none" => ctxState[c] = "none" /\ ~Finished(c)
    /\ role[c] \in {"initiator", "acceptor"} /\ ctxState[c] \in {"INPROG", "DONE"}
         => intern[c] = Shared

\* A native context behind the shared wrapper is the active object's.
SharedOwner ==
  /\ cell[Shared] # Blank
  /\ cell[Shared] \in Native =>
       \E c \in Ctx : Active(c) /\ intern[c] = Shared /\ creator[cell[Shared]] = c

\* A native context behind an own wrapper came from an import: that of the
\* active object, or of a constructor that threw.
OwnOwner ==
  \A c \in Ctx : cell[c] \in Native =>
    /\ creator[cell[c]] = c
    /\ intern[c] = c
    /\ role[c] = "imported"
    /\ Active(c) \/ cell[c] \in orphans

\* A context no call has allocated yet has carried no message.
UnusedSilent == \A n \in Native : native[n] = "unused" => used[n] = {}

\* What the active object answers of its state is true.
StateTrue ==
  \A c \in Ctx : Active(c) =>
    /\ ctxState[c] = "DONE" <=> \E n \in Native : HandleOf(c) = n /\ native[n] = "open"
    /\ ctxState[c] = "UNINIT" => HandleOf(c) = Blank

\* Who holds which native context, when the caller is disciplined.
Ownership ==
  /\ OneActive
  /\ WrapperOfState
  /\ SharedOwner
  /\ OwnOwner
  /\ UnusedSilent
  /\ StateTrue
  /\ OwnMessages

\* Inductive for the disciplined caller.
DisciplineInv == WrapperInv /\ Ownership

\* What the disciplined caller does, said of the steps alone, so that it can be
\* said of another caller's: it constructs when no object is active, establishes
\* one that is not established, and calls only the active one; but it may try to
\* dispose of any.
InTurn ==
  \E c \in Ctx :
    \/ /\ \A d \in Ctx : ~Active(d)
       /\ \/ \E peer \in Name, withCred \in BOOLEAN : NewInitiator(c, peer, withCred)
          \/ \E withCred \in BOOLEAN : NewAcceptor(c, withCred)
          \/ \E from \in Ctx, n \in Native : ImportContext(c, from, n)
          \/ \E from \in Ctx, n \in Native : ImportThrows(c, from, n)
    \/ /\ Active(c) /\ ctxState[c] # "DONE"
       /\ \/ \E result \in Live, n \in Native : InitSecContext(c, result, n)
          \/ InitSecContextThrows(c)
          \/ \E result \in Live, n \in Native, delegated, written \in BOOLEAN :
               AcceptSecContext(c, result, n, delegated, written)
          \/ AcceptSecContextThrows(c)
          \/ AcceptSecContextRejects(c)
    \/ Active(c) /\ (PerMessage(c) \/ Export(c) \/ Dispose(c))
    \/ DisposeThrows(c)

\* What the library imports is open, so the new object is established.
LEMMA ImportOpen ==
  ASSUME TypeOK, NEW c \in Ctx, NEW from \in Ctx, NEW n \in Native, ImportContext(c, from, n)
  PROVE  ctxState' = [ctxState EXCEPT ![c] = "DONE"]
<1>1. /\ native' = [native EXCEPT ![n] = "open"]
      /\ native \in [Native -> {"unused", "deleted"} \cup Live]
  BY DEF TypeOK, ImportContext, ImportNative
<1>2. native'[n] = "open"
  BY <1>1
<1> QED
  BY <1>2 DEF ImportContext

\* Every call of every caller leaves the variables well typed.
LEMMA TypeStep == TypeOK /\ [Next]_vars => TypeOK'
<1> USE DEF State, Wrapper, Handle, Live
<1> SUFFICES ASSUME TypeOK, Next PROVE TypeOK'
  BY DEF TypeOK, vars
<1> PICK c \in Ctx :
  \/ \E peer \in Name, withCred \in BOOLEAN : NewInitiator(c, peer, withCred)
  \/ \E withCred \in BOOLEAN : NewAcceptor(c, withCred)
  \/ \E from \in Ctx, n \in Native : ImportContext(c, from, n)
  \/ \E from \in Ctx, n \in Native : ImportThrows(c, from, n)
  \/ \E result \in Live, n \in Native : InitSecContext(c, result, n)
  \/ InitSecContextThrows(c)
  \/ \E result \in Live, n \in Native, delegated, written \in BOOLEAN :
       AcceptSecContext(c, result, n, delegated, written)
  \/ AcceptSecContextThrows(c)
  \/ AcceptSecContextRejects(c)
  \/ PerMessage(c)
  \/ Export(c)
  \/ Dispose(c)
  \/ DisposeThrows(c)
  BY DEF Next
<1>1. CASE \E peer \in Name, withCred \in BOOLEAN : NewInitiator(c, peer, withCred)
  BY <1>1 DEF TypeOK, NewInitiator
<1>2. CASE \E withCred \in BOOLEAN : NewAcceptor(c, withCred)
  BY <1>2 DEF TypeOK, NewAcceptor
<1>3. CASE \E from \in Ctx, n \in Native : ImportContext(c, from, n)
  BY <1>3 DEF TypeOK, ImportContext, ImportNative
<1>4. CASE \E from \in Ctx, n \in Native : ImportThrows(c, from, n)
  BY <1>4 DEF TypeOK, ImportThrows, ImportNative
<1>5. CASE \E result \in Live, n \in Native : InitSecContext(c, result, n)
  BY <1>5 DEF TypeOK, InitSecContext, NativeSuccess, Advance, ContextTmp
<1>6. CASE InitSecContextThrows(c)
  BY <1>6 DEF TypeOK, InitSecContextThrows, NativeFailure, ContextTmp, LiveNative
<1>7. CASE \E result \in Live, n \in Native, delegated, written \in BOOLEAN :
             AcceptSecContext(c, result, n, delegated, written)
  BY <1>7 DEF TypeOK, AcceptSecContext, NativeSuccess, Advance, ContextTmp, SourceName, PeerName
<1>8. CASE AcceptSecContextThrows(c)
  BY <1>8 DEF TypeOK, AcceptSecContextThrows, NativeFailure, ContextTmp, LiveNative, SourceName
<1>9. CASE AcceptSecContextRejects(c)
  BY <1>9 DEF TypeOK, AcceptSecContextRejects, SourceName
<1>10. CASE PerMessage(c)
  BY <1>10 DEF TypeOK, PerMessage
<1>11. CASE Export(c)
  BY <1>11 DEF TypeOK, Export, DeleteNative
<1>12. CASE Dispose(c)
  BY <1>12 DEF TypeOK, Dispose, DeleteNative, HandleOf, LiveNative
<1>13. CASE DisposeThrows(c)
  BY <1>13 DEF TypeOK, DisposeThrows
<1> QED
  BY <1>1, <1>2, <1>3, <1>4, <1>5, <1>6, <1>7, <1>8, <1>9, <1>10, <1>11, <1>12, <1>13

\* Init is well typed: the handles are null or zeroed.
LEMMA TypeInit == Init => TypeOK
  BY Distinct DEF Init, TypeOK, State, Wrapper, Handle, Live

\* Every state of every caller is well typed.
THEOREM TypeCorrect == Spec => []TypeOK
  BY TypeInit, TypeStep, PTL DEF Spec

\* A null or zeroed handle is no native context.
LEMMA NullHandles == NoContext \notin Native /\ Blank \notin Native
<1>1. NoContext \in {NoContext, Blank} /\ Blank \in {NoContext, Blank}
  OBVIOUS
<1> QED
  BY <1>1, Distinct

\* A call that fills a wrapper whose handle was null, or leaves it the same
\* handle, keeps the wrappers sound.
LEMMA StoreHandle ==
  ASSUME TypeOK, NoDangling, NoLostNative,
         NEW w \in Wrapper, NEW n \in Native, NEW result \in Live,
         cell[w] = n \/ (cell[w] \notin Native /\ native[n] = "unused"),
         cell' = [cell EXCEPT ![w] = n],
         native' = [native EXCEPT ![n] = result]
  PROVE  NoDangling' /\ NoLostNative'
<1> USE DEF LiveNative, Live
<1>1. \A v \in Wrapper : v # w => cell[v] # n
  BY DEF NoDangling
<1>2. \A m \in Native : native'[m] \in Live <=> m = n \/ native[m] \in Live
  BY DEF TypeOK
<1>3. \A v \in Wrapper : cell'[v] = IF v = w THEN n ELSE cell[v]
  BY DEF TypeOK
<1>4. NoDangling'
  BY <1>1, <1>2, <1>3 DEF NoDangling
<1>5. NoLostNative'
  BY <1>2, <1>3 DEF NoLostNative
<1> QED
  BY <1>4, <1>5

\* So does a call that deletes a native context and nulls the handle it came by.
LEMMA DropHandle ==
  ASSUME TypeOK, NoDangling, NoLostNative,
         NEW w \in Wrapper, NEW n \in Native,
         cell[w] = n,
         cell' = [cell EXCEPT ![w] = NoContext],
         native' = [native EXCEPT ![n] = "deleted"]
  PROVE  NoDangling' /\ NoLostNative'
<1> USE NullHandles DEF LiveNative, Live
<1>1. \A v \in Wrapper : v # w => cell[v] # n
  BY DEF NoDangling
<1>2. \A m \in Native : native'[m] \in Live <=> m # n /\ native[m] \in Live
  BY DEF TypeOK
<1>3. \A v \in Wrapper : cell'[v] = IF v = w THEN NoContext ELSE cell[v]
  BY DEF TypeOK
<1>4. NoDangling'
  BY <1>1, <1>2, <1>3 DEF NoDangling
<1>5. NoLostNative'
  BY <1>2, <1>3 DEF NoLostNative
<1> QED
  BY <1>4, <1>5

\* An object stays with its own wrapper or the shared one.
LEMMA OwnWrapperStep == TypeOK /\ OwnWrapper /\ [Next]_vars => OwnWrapper'
<1> SUFFICES ASSUME TypeOK, OwnWrapper, [Next]_vars PROVE OwnWrapper'
  OBVIOUS
<1> USE Distinct DEF TypeOK, OwnWrapper, Wrapper
<1>0. CASE UNCHANGED vars
  BY <1>0 DEF vars
<1> SUFFICES ASSUME Next PROVE OwnWrapper'
  BY <1>0
<1> PICK c \in Ctx :
  \/ \E peer \in Name, withCred \in BOOLEAN : NewInitiator(c, peer, withCred)
  \/ \E withCred \in BOOLEAN : NewAcceptor(c, withCred)
  \/ \E from \in Ctx, n \in Native : ImportContext(c, from, n)
  \/ \E from \in Ctx, n \in Native : ImportThrows(c, from, n)
  \/ \E result \in Live, n \in Native : InitSecContext(c, result, n)
  \/ InitSecContextThrows(c)
  \/ \E result \in Live, n \in Native, delegated, written \in BOOLEAN :
       AcceptSecContext(c, result, n, delegated, written)
  \/ AcceptSecContextThrows(c)
  \/ AcceptSecContextRejects(c)
  \/ PerMessage(c)
  \/ Export(c)
  \/ Dispose(c)
  \/ DisposeThrows(c)
  BY DEF Next
<1>1. CASE \E peer \in Name, withCred \in BOOLEAN : NewInitiator(c, peer, withCred)
  BY <1>1 DEF NewInitiator, MayConstruct
<1>2. CASE \E withCred \in BOOLEAN : NewAcceptor(c, withCred)
  BY <1>2 DEF NewAcceptor, MayConstruct
<1>3. CASE \E from \in Ctx, n \in Native : ImportContext(c, from, n)
  <2>1. PICK from \in Ctx, n \in Native : ImportContext(c, from, n)
    BY <1>3
  <2>2. ctxState' = [ctxState EXCEPT ![c] = "DONE"]
    BY <2>1, ImportOpen
  <2>3. UNCHANGED intern /\ cell' = [cell EXCEPT ![c] = n] /\ MayConstruct(c)
    BY <2>1 DEF ImportContext, ImportNative
  <2> QED
    BY <2>2, <2>3, <2>1 DEF MayConstruct, ImportContext, ImportNative
<1>4. CASE \E from \in Ctx, n \in Native : ImportThrows(c, from, n)
  BY <1>4 DEF ImportThrows, ImportNative, MayConstruct
<1>5. CASE \E result \in Live, n \in Native : InitSecContext(c, result, n)
  BY <1>5 DEF InitSecContext, NativeSuccess, Advance, ContextTmp, MayEstablish, MayCall
<1>6. CASE InitSecContextThrows(c)
  BY <1>6 DEF InitSecContextThrows, NativeFailure, ContextTmp, MayEstablish, MayCall
<1>7. CASE \E result \in Live, n \in Native, delegated, written \in BOOLEAN :
             AcceptSecContext(c, result, n, delegated, written)
  BY <1>7 DEF AcceptSecContext, NativeSuccess, Advance, ContextTmp, MayEstablish, MayCall
<1>8. CASE AcceptSecContextThrows(c)
  BY <1>8 DEF AcceptSecContextThrows, NativeFailure, ContextTmp, MayEstablish, MayCall
<1>9. CASE AcceptSecContextRejects(c)
  BY <1>9 DEF AcceptSecContextRejects
<1>10. CASE PerMessage(c)
  BY <1>10 DEF PerMessage
<1>11. CASE Export(c)
  BY <1>11 DEF Export, DeleteNative, MayCall
<1>12. CASE Dispose(c)
  BY <1>12 DEF Dispose, DeleteNative, MayCall
<1>13. CASE DisposeThrows(c)
  BY <1>13 DEF DisposeThrows
<1> QED
  BY <1>1, <1>2, <1>3, <1>4, <1>5, <1>6, <1>7, <1>8, <1>9, <1>10, <1>11, <1>12, <1>13

\* Every step keeps the wrappers sound: an action touches at most one wrapper and
\* one native context, and touches them together.
LEMMA SoundStep ==
  ASSUME WrapperInv, [Next]_vars PROVE NoDangling' /\ NoLostNative'
<1> USE DEF WrapperInv
<1>0. CASE cell' = cell /\ native' = native
  BY <1>0 DEF NoDangling, NoLostNative, LiveNative
<1> SUFFICES ASSUME Next PROVE NoDangling' /\ NoLostNative'
  BY <1>0 DEF vars
<1> PICK c \in Ctx :
  \/ \E peer \in Name, withCred \in BOOLEAN : NewInitiator(c, peer, withCred)
  \/ \E withCred \in BOOLEAN : NewAcceptor(c, withCred)
  \/ \E from \in Ctx, n \in Native : ImportContext(c, from, n)
  \/ \E from \in Ctx, n \in Native : ImportThrows(c, from, n)
  \/ \E result \in Live, n \in Native : InitSecContext(c, result, n)
  \/ InitSecContextThrows(c)
  \/ \E result \in Live, n \in Native, delegated, written \in BOOLEAN :
       AcceptSecContext(c, result, n, delegated, written)
  \/ AcceptSecContextThrows(c)
  \/ AcceptSecContextRejects(c)
  \/ PerMessage(c)
  \/ Export(c)
  \/ Dispose(c)
  \/ DisposeThrows(c)
  BY DEF Next
<1> DEFINE w == ContextTmp(c)
<1>a. c \in Wrapper /\ intern[c] \in Wrapper /\ w \in Wrapper
  BY DEF TypeOK, Wrapper, ContextTmp
<1>b. ASSUME NEW n \in Native, NEW from \in Ctx, ImportNative(c, from, n) PROVE NoDangling' /\ NoLostNative'
  <2>1. cell[c] \notin Native
    BY <1>b, NullHandles DEF OwnWrapper, ImportNative, MayConstruct
  <2>2. "open" \in Live
    BY DEF Live
  <2> QED
    BY <1>a, <1>b, <2>1, <2>2, StoreHandle DEF ImportNative
<1>c. ASSUME NEW n \in Native, NEW result \in Live, NativeSuccess(c, w, result, n) PROVE NoDangling' /\ NoLostNative'
  <2>1. cell[w] = n \/ (cell[w] \notin Native /\ native[n] = "unused")
    BY <1>c, NullHandles DEF NativeSuccess
  <2> QED
    BY <1>a, <1>c, <2>1, StoreHandle DEF NativeSuccess
<1>d. ASSUME NativeFailure(w) PROVE NoDangling' /\ NoLostNative'
  BY <1>0, <1>a, <1>d, DropHandle DEF NativeFailure, LiveNative
<1>1. CASE \E peer \in Name, withCred \in BOOLEAN : NewInitiator(c, peer, withCred)
  BY <1>1, <1>0 DEF NewInitiator
<1>2. CASE \E withCred \in BOOLEAN : NewAcceptor(c, withCred)
  BY <1>2, <1>0 DEF NewAcceptor
<1>3. CASE \E from \in Ctx, n \in Native : ImportContext(c, from, n)
  BY <1>3, <1>b DEF ImportContext
<1>4. CASE \E from \in Ctx, n \in Native : ImportThrows(c, from, n)
  BY <1>4, <1>b DEF ImportThrows
<1>5. CASE \E result \in Live, n \in Native : InitSecContext(c, result, n)
  BY <1>5, <1>c DEF InitSecContext
<1>6. CASE InitSecContextThrows(c)
  BY <1>6, <1>d DEF InitSecContextThrows
<1>7. CASE \E result \in Live, n \in Native, delegated, written \in BOOLEAN :
             AcceptSecContext(c, result, n, delegated, written)
  BY <1>7, <1>c DEF AcceptSecContext
<1>8. CASE AcceptSecContextThrows(c)
  BY <1>8, <1>d DEF AcceptSecContextThrows
<1>9. CASE AcceptSecContextRejects(c)
  BY <1>9, <1>0 DEF AcceptSecContextRejects
<1>10. CASE PerMessage(c)
  BY <1>10, <1>0 DEF PerMessage
<1>11. CASE Export(c)
  BY <1>11, <1>a, DropHandle DEF Export, DeleteNative, HandleOf
<1>12. CASE Dispose(c)
  BY <1>12, <1>a, DropHandle DEF Dispose, DeleteNative, HandleOf, LiveNative
<1>13. CASE DisposeThrows(c)
  BY <1>13, <1>0 DEF DisposeThrows
<1> QED
  BY <1>1, <1>2, <1>3, <1>4, <1>5, <1>6, <1>7, <1>8, <1>9, <1>10, <1>11, <1>12, <1>13

\* Every wrapper starts null or zeroed, and no context is live.
LEMMA InitWrapper == Init => OwnWrapper /\ NoDangling /\ NoLostNative
<1> SUFFICES ASSUME Init PROVE OwnWrapper /\ NoDangling /\ NoLostNative
  OBVIOUS
<1>1. \A w \in Wrapper : cell[w] = (IF w = Shared THEN NoContext ELSE Blank)
  BY DEF Init
<1>2. \A w \in Wrapper : cell[w] \notin Native
  BY <1>1, NullHandles
<1>3. \A n \in Native : native[n] \notin Live
  BY DEF Init, Live
<1>4. OwnWrapper
  BY <1>1, Distinct DEF Init, OwnWrapper, Wrapper
<1> QED
  BY <1>2, <1>3, <1>4 DEF NoDangling, NoLostNative, LiveNative

\* Whatever the caller does: no wrapper ever holds a deleted native context, no
\* two hold the same one, and no live one is lost from every wrapper.
THEOREM WrappersSound == Spec => [](NoDangling /\ NoLostNative)
<1>1. TypeOK /\ OwnWrapper /\ NoDangling /\ NoLostNative /\ [Next]_vars
        => NoDangling' /\ NoLostNative'
  BY SoundStep DEF WrapperInv
<1> QED
  BY TypeCorrect, InitWrapper, OwnWrapperStep, <1>1, PTL DEF Spec

-----------------------------------------------------------------------------
(* The disciplined caller *)

\* A successful establishment call keeps the ownership: it goes through the
\* shared wrapper, whose context, if any, the active object began.
LEMMA EstablishStep ==
  ASSUME DisciplineInv, NEW c \in Ctx, NEW result \in Live, NEW n \in Native,
         Active(c), ctxState[c] # "DONE", role[c] \in {"initiator", "acceptor"},
         NativeSuccess(c, ContextTmp(c), result, n), Advance(c, result),
         UNCHANGED <<role, used, exported, closed, orphans>>
  PROVE  Ownership'
<1> USE DEF DisciplineInv, WrapperInv, Ownership, Wrapper, Live, Active, Finished, HandleOf
<1>1. Active(c) /\ ctxState[c] \in {"UNINIT", "INPROG"}
  BY DEF TypeOK, State, WrapperOfState
<1>2. ContextTmp(c) = Shared
  BY <1>1 DEF ContextTmp, WrapperOfState
<1>3. /\ ctxState' = [ctxState EXCEPT ![c] = IF result = "open" THEN "DONE" ELSE "INPROG"]
      /\ intern' = [intern EXCEPT ![c] = Shared]
      /\ cell' = [cell EXCEPT ![Shared] = n]
      /\ native' = [native EXCEPT ![n] = result]
      /\ creator' = [creator EXCEPT ![n] = c]
      /\ native[n] = "unused" \/ (cell[Shared] = n /\ native[n] = "half" /\ creator[n] = c)
  BY <1>2 DEF NativeSuccess, Advance
<1>4. \A d \in Ctx : cell'[d] = cell[d] /\ cell[d] # n
  BY <1>3, Distinct DEF TypeOK, NoDangling, LiveNative
<1>5. OneActive'
  BY <1>1, <1>3 DEF OneActive, TypeOK
<1>6. WrapperOfState'
  BY <1>1, <1>3, <1>4 DEF WrapperOfState, TypeOK
<1>7. SharedOwner'
  BY <1>1, <1>3, NullHandles DEF SharedOwner, TypeOK
<1>8. OwnOwner'
  <2> SUFFICES ASSUME NEW d \in Ctx, cell[d] \in Native
               PROVE  /\ creator'[cell[d]] = d /\ intern'[d] = d
                      /\ role[d] = "imported" /\ (Active(d)' \/ cell[d] \in orphans)
    BY <1>4 DEF OwnOwner
  <2>1. d # c
    BY DEF OwnOwner
  <2> QED
    BY <1>3, <1>4, <2>1 DEF OwnOwner, TypeOK
<1>9. UnusedSilent' /\ OwnMessages'
  BY <1>3 DEF UnusedSilent, OwnMessages, TypeOK
<1>10. StateTrue'
  BY <1>1, <1>3, NullHandles DEF StateTrue, OneActive, TypeOK
<1> QED
  BY <1>5, <1>6, <1>7, <1>8, <1>9, <1>10

\* So does a failed one: at worst it takes the active object's context away.
LEMMA FailStep ==
  ASSUME DisciplineInv, NEW c \in Ctx, Active(c), ctxState[c] # "DONE",
         role[c] \in {"initiator", "acceptor"},
         NativeFailure(ContextTmp(c)),
         UNCHANGED <<role, ctxState, intern, creator, used, exported, closed, orphans>>
  PROVE  Ownership'
<1> USE DEF DisciplineInv, WrapperInv, Ownership, Wrapper, Live, Active, Finished, HandleOf
<1> USE DEF OneActive, WrapperOfState, SharedOwner, OwnOwner, UnusedSilent, StateTrue, OwnMessages
<1>1. Active(c) /\ ctxState[c] \in {"UNINIT", "INPROG"}
  BY DEF TypeOK, State
<1>2. ContextTmp(c) = Shared
  BY <1>1 DEF ContextTmp
<1>3. CASE UNCHANGED <<native, cell>>
  BY <1>3
<1>4. ASSUME NEW n \in Native, cell[Shared] = n,
             native' = [native EXCEPT ![n] = "deleted"],
             cell' = [cell EXCEPT ![Shared] = NoContext]
      PROVE  Ownership'
  <2>1. \A d \in Ctx : cell'[d] = cell[d] /\ cell[d] # n
    BY <1>4, Distinct DEF TypeOK, NoDangling
  <2>2. OneActive' /\ WrapperOfState' /\ OwnOwner' /\ UnusedSilent' /\ OwnMessages'
    BY <1>4, <2>1 DEF TypeOK
  <2>3. SharedOwner'
    BY <1>4, NullHandles, Distinct DEF TypeOK
  <2>4. StateTrue'
    BY <1>1, <1>4, <2>1, NullHandles, Distinct DEF TypeOK
  <2> QED
    BY <2>2, <2>3, <2>4
<1> QED
  BY <1>2, <1>3, <1>4 DEF NativeFailure, LiveNative

\* An import starts with every object finished and ends with its own wrapper full.
LEMMA ImportStep ==
  ASSUME DisciplineInv, NEW c \in Ctx, NEW from \in Ctx, NEW n \in Native,
         \A d \in Ctx : ~Active(d), ImportNative(c, from, n),
         \/ ctxState' = [ctxState EXCEPT ![c] = "DONE"] /\ orphans' = orphans
         \/ orphans' = orphans \cup {n} /\ ctxState' = ctxState
  PROVE  Ownership'
<1> USE DEF DisciplineInv, WrapperInv, Ownership, Wrapper, Live, Active, Finished, HandleOf
<1>1. /\ \A d \in Ctx : ~Active(d)
      /\ ctxState[c] = "none" /\ role[c] = "none" /\ cell[c] = Blank
  BY DEF ImportNative, MayConstruct, OwnWrapper
<1>2. /\ role' = [role EXCEPT ![c] = "imported"]
      /\ native' = [native EXCEPT ![n] = "open"]
      /\ creator' = [creator EXCEPT ![n] = c]
      /\ cell' = [cell EXCEPT ![c] = n]
      /\ UNCHANGED <<intern, used, exported, closed>>
      /\ native[n] = "unused"
  BY DEF ImportNative
<1>3. \A w \in Wrapper : w # c => cell'[w] = cell[w] /\ cell[w] # n
  BY <1>2 DEF TypeOK, NoDangling, LiveNative
<1>4. \A d \in Ctx : Active(d)' => d = c /\ ctxState' = [ctxState EXCEPT ![c] = "DONE"]
  BY <1>1, <1>2 DEF TypeOK
<1>5. OneActive'
  BY <1>4 DEF OneActive
<1>6. WrapperOfState'
  BY <1>1, <1>2, <1>3 DEF WrapperOfState, TypeOK
<1>7. cell[Shared] \notin Native /\ cell'[Shared] = cell[Shared]
  BY <1>1, <1>3, Distinct DEF SharedOwner
<1>8. SharedOwner'
  BY <1>7 DEF SharedOwner
<1>9. OwnOwner'
  <2> SUFFICES ASSUME NEW d \in Ctx, cell'[d] \in Native
               PROVE  /\ creator'[cell'[d]] = d /\ intern'[d] = d
                      /\ role'[d] = "imported" /\ (Active(d)' \/ cell'[d] \in orphans')
    BY DEF OwnOwner
  <2>1. CASE d = c
    <3>1. cell'[c] = n /\ creator'[n] = c /\ role'[c] = "imported" /\ intern'[c] = c
      BY <1>1, <1>2 DEF TypeOK, WrapperOfState
    <3>2. CASE orphans' = orphans \cup {n}
      BY <2>1, <3>1, <3>2
    <3>3. CASE ctxState' = [ctxState EXCEPT ![c] = "DONE"]
      <4>1. c \notin closed \cup exported
        BY <1>1 DEF WrapperOfState
      <4> QED
        BY <1>2, <2>1, <3>1, <3>3, <4>1 DEF TypeOK
    <3> QED
      BY <3>2, <3>3
  <2>2. CASE d # c
    BY <1>1, <1>2, <1>3, <2>2 DEF OwnOwner, TypeOK
  <2> QED
    BY <2>1, <2>2
<1>10. UnusedSilent' /\ OwnMessages'
  BY <1>2 DEF UnusedSilent, OwnMessages, TypeOK
<1>11. StateTrue'
  BY <1>1, <1>2, <1>4 DEF StateTrue, TypeOK, WrapperOfState
<1> QED
  BY <1>5, <1>6, <1>8, <1>9, <1>10, <1>11

\* Every step taken in turn keeps the ownership.
LEMMA OwnershipStep ==
  ASSUME DisciplineInv, [InTurn]_vars PROVE Ownership'
<1> USE DEF DisciplineInv, WrapperInv
<1>0. CASE UNCHANGED vars
  BY <1>0 DEF vars, Ownership, HandleOf, Active, Finished, OneActive, WrapperOfState, SharedOwner, OwnOwner, UnusedSilent, StateTrue, OwnMessages
<1> SUFFICES ASSUME InTurn PROVE Ownership'
  BY <1>0
<1> PICK c \in Ctx :
  \/ /\ \A d \in Ctx : ~Active(d)
     /\ \/ \E peer \in Name, withCred \in BOOLEAN : NewInitiator(c, peer, withCred)
        \/ \E withCred \in BOOLEAN : NewAcceptor(c, withCred)
        \/ \E from \in Ctx, n \in Native : ImportContext(c, from, n)
        \/ \E from \in Ctx, n \in Native : ImportThrows(c, from, n)
  \/ /\ Active(c) /\ ctxState[c] # "DONE"
     /\ \/ \E result \in Live, n \in Native : InitSecContext(c, result, n)
        \/ InitSecContextThrows(c)
        \/ \E result \in Live, n \in Native, delegated, written \in BOOLEAN :
             AcceptSecContext(c, result, n, delegated, written)
        \/ AcceptSecContextThrows(c)
        \/ AcceptSecContextRejects(c)
  \/ Active(c) /\ (PerMessage(c) \/ Export(c) \/ Dispose(c))
  \/ DisposeThrows(c)
  BY DEF InTurn
<1>1. CASE (\A d \in Ctx : ~Active(d)) /\ \E peer \in Name, withCred \in BOOLEAN : NewInitiator(c, peer, withCred)
  BY <1>1, NullHandles, Distinct
  DEF NewInitiator, MayConstruct, Ownership, OneActive, WrapperOfState, SharedOwner, OwnOwner, UnusedSilent, StateTrue, OwnMessages, OwnWrapper,
      TypeOK, NoDangling, HandleOf, Active, Finished, Wrapper, Live
<1>2. CASE (\A d \in Ctx : ~Active(d)) /\ \E withCred \in BOOLEAN : NewAcceptor(c, withCred)
  BY <1>2, NullHandles, Distinct
  DEF NewAcceptor, MayConstruct, Ownership, OneActive, WrapperOfState, SharedOwner, OwnOwner, UnusedSilent, StateTrue, OwnMessages, OwnWrapper,
      TypeOK, NoDangling, HandleOf, Active, Finished, Wrapper, Live
<1>3. CASE (\A d \in Ctx : ~Active(d)) /\ \E from \in Ctx, n \in Native : ImportContext(c, from, n)
  BY <1>3, ImportStep, ImportOpen DEF ImportContext, DisciplineInv, WrapperInv
<1>4. CASE (\A d \in Ctx : ~Active(d)) /\ \E from \in Ctx, n \in Native : ImportThrows(c, from, n)
  BY <1>4, ImportStep DEF ImportThrows
<1>5. CASE Active(c) /\ ctxState[c] # "DONE" /\ \E result \in Live, n \in Native : InitSecContext(c, result, n)
  BY <1>5, EstablishStep DEF InitSecContext
<1>6. CASE Active(c) /\ ctxState[c] # "DONE" /\ InitSecContextThrows(c)
  BY <1>6, FailStep DEF InitSecContextThrows
<1>7. CASE /\ Active(c) /\ ctxState[c] # "DONE"
           /\ \E result \in Live, n \in Native, delegated, written \in BOOLEAN :
                AcceptSecContext(c, result, n, delegated, written)
  BY <1>7, EstablishStep DEF AcceptSecContext
<1>8. CASE Active(c) /\ ctxState[c] # "DONE" /\ AcceptSecContextThrows(c)
  BY <1>8, FailStep DEF AcceptSecContextThrows
<1>9. CASE Active(c) /\ AcceptSecContextRejects(c)
  BY <1>9, NullHandles, Distinct
  DEF AcceptSecContextRejects, Ownership, OneActive, WrapperOfState, SharedOwner, OwnOwner, UnusedSilent, StateTrue, OwnMessages, OwnWrapper,
      TypeOK, NoDangling, HandleOf, Active, Finished, Wrapper, Live
<1>10. CASE Active(c) /\ PerMessage(c)
  BY <1>10, NullHandles, Distinct
  DEF PerMessage, Ownership, OneActive, WrapperOfState, SharedOwner, OwnOwner, UnusedSilent, StateTrue, OwnMessages, OwnWrapper,
      TypeOK, NoDangling, HandleOf, Active, Finished, Wrapper, Live
<1>11. CASE Active(c) /\ Export(c)
  BY <1>11, NullHandles, Distinct
  DEF Export, DeleteNative, Ownership, OneActive, WrapperOfState, SharedOwner, OwnOwner, UnusedSilent, StateTrue, OwnMessages, OwnWrapper,
      TypeOK, NoDangling, HandleOf, Active, Finished, Wrapper, Live
<1>12. CASE Active(c) /\ Dispose(c)
  BY <1>12, NullHandles, Distinct
  DEF Dispose, DeleteNative, LiveNative, Ownership, OneActive, WrapperOfState, SharedOwner, OwnOwner, UnusedSilent, StateTrue, OwnMessages, OwnWrapper,
      TypeOK, NoDangling, HandleOf, Active, Finished, Wrapper, Live
<1>13. CASE DisposeThrows(c)
  BY <1>13, NullHandles, Distinct
  DEF DisposeThrows, LiveNative, Ownership, OneActive, WrapperOfState, SharedOwner, OwnOwner, UnusedSilent, StateTrue, OwnMessages, OwnWrapper,
      TypeOK, NoDangling, HandleOf, Active, Finished, Wrapper, Live
<1> QED
  BY <1>1, <1>2, <1>3, <1>4, <1>5, <1>6, <1>7, <1>8, <1>9, <1>10, <1>11, <1>12, <1>13

\* The guards that Disciplined adds keep every step in turn.
LEMMA DisciplinedInTurn ==
  ASSUME Disciplined, [Next]_vars PROVE [InTurn]_vars
<1> SUFFICES ASSUME NEW c \in Ctx,
      \/ \E peer \in Name, withCred \in BOOLEAN : NewInitiator(c, peer, withCred)
      \/ \E withCred \in BOOLEAN : NewAcceptor(c, withCred)
      \/ \E from \in Ctx, n \in Native : ImportContext(c, from, n)
      \/ \E from \in Ctx, n \in Native : ImportThrows(c, from, n)
      \/ \E result \in Live, n \in Native : InitSecContext(c, result, n)
      \/ InitSecContextThrows(c)
      \/ \E result \in Live, n \in Native, delegated, written \in BOOLEAN :
           AcceptSecContext(c, result, n, delegated, written)
      \/ AcceptSecContextThrows(c)
      \/ AcceptSecContextRejects(c)
      \/ PerMessage(c)
      \/ Export(c)
      \/ Dispose(c)
      \/ DisposeThrows(c)
    PROVE InTurn
  BY DEF Next
<1>1. MayConstruct(c) => \A d \in Ctx : ~Active(d)
  BY DEF MayConstruct, Active
<1>2. /\ MayCall(c) => Active(c)
      /\ MayEstablish(c) => Active(c) /\ ctxState[c] # "DONE"
  BY DEF MayEstablish, MayCall, Active
<1>3. ASSUME NEW peer \in Name, NEW withCred \in BOOLEAN,
             NewInitiator(c, peer, withCred)
      PROVE  InTurn
  BY <1>1, <1>3 DEF InTurn, NewInitiator
<1>4. ASSUME NEW withCred \in BOOLEAN, NewAcceptor(c, withCred)
      PROVE  InTurn
  BY <1>1, <1>4 DEF InTurn, NewAcceptor
<1>5. ASSUME NEW from \in Ctx, NEW n \in Native,
             ImportContext(c, from, n) \/ ImportThrows(c, from, n)
      PROVE  InTurn
  BY <1>1, <1>5 DEF InTurn, ImportContext, ImportThrows, ImportNative
<1>6. ASSUME NEW result \in Live, NEW n \in Native, InitSecContext(c, result, n)
      PROVE  InTurn
  BY <1>2, <1>6 DEF InTurn, InitSecContext
<1>7. ASSUME NEW result \in Live, NEW n \in Native, NEW delegated \in BOOLEAN,
             NEW written \in BOOLEAN, AcceptSecContext(c, result, n, delegated, written)
      PROVE  InTurn
  BY <1>2, <1>7 DEF InTurn, AcceptSecContext
<1>8. CASE InitSecContextThrows(c) \/ AcceptSecContextThrows(c) \/ AcceptSecContextRejects(c)
  BY <1>2, <1>8 DEF InTurn, InitSecContextThrows, AcceptSecContextThrows, AcceptSecContextRejects
<1>9. CASE PerMessage(c) \/ Export(c) \/ Dispose(c) \/ DisposeThrows(c)
  BY <1>2, <1>9 DEF InTurn, PerMessage, Export, Dispose
<1> QED
  BY <1>3, <1>4, <1>5, <1>6, <1>7, <1>8, <1>9

\* No object is active at first.
LEMMA OwnershipInit == Init => Ownership
<1> SUFFICES ASSUME Init PROVE Ownership
  OBVIOUS
<1>1. \A w \in Wrapper : cell[w] = (IF w = Shared THEN NoContext ELSE Blank)
  BY DEF Init
<1>2. \A w \in Wrapper : cell[w] \notin Native
  BY <1>1, NullHandles
<1>3. cell[Shared] # Blank
  BY <1>1, Distinct DEF Wrapper
<1>4. OneActive /\ WrapperOfState /\ StateTrue
  BY DEF Init, Active, Finished, OneActive, WrapperOfState, StateTrue
<1>5. SharedOwner /\ OwnOwner
  BY <1>2, <1>3 DEF Wrapper, SharedOwner, OwnOwner
<1>6. UnusedSilent /\ OwnMessages
  BY DEF Init, UnusedSilent, OwnMessages
<1> QED
  BY <1>4, <1>5, <1>6 DEF Ownership

\* What the ownership is for: what GssContext promises of the objects that a
\* caller who works on one at a time may still call.
LEMMA Promises ==
  ASSUME DisciplineInv
  PROVE  /\ OneAtATime!Isolation /\ OneAtATime!FreshStart /\ OneAtATime!NoLeak
         /\ OneAtATime!StateAgrees /\ OneAtATime!OwnMessages
<1> USE DEF DisciplineInv, WrapperInv, Ownership, Wrapper
<1>1. /\ \A c : OneAtATime!MayCall(c) <=> Active(c)
      /\ \A c : OneAtATime!HandleOf(c) = cell[intern[c]]
      /\ OneAtATime!LiveNative = LiveNative
  BY DEF OneAtATime!MayCall, OneAtATime!Finished, Active, Finished, OneAtATime!HandleOf,
     LiveNative, OneAtATime!LiveNative, Live, OneAtATime!Live
<1>2. OneAtATime!Isolation
  BY <1>1
     DEF OneAtATime!Isolation, TypeOK, NoDangling, OwnWrapper, OneActive, SharedOwner, OwnOwner
<1>3. OneAtATime!FreshStart
  BY <1>1
     DEF OneAtATime!FreshStart, TypeOK, Handle, OneActive, WrapperOfState, SharedOwner
<1>4. OneAtATime!NoLeak
  BY <1>1 DEF OneAtATime!NoLeak, NoLostNative, LiveNative, SharedOwner, OwnOwner
<1>5. OneAtATime!StateAgrees
  BY <1>1 DEF OneAtATime!StateAgrees, StateTrue, HandleOf
<1>6. OneAtATime!OwnMessages
  BY DEF OneAtATime!OwnMessages, OwnMessages
<1> QED
  BY <1>2, <1>3, <1>4, <1>5, <1>6

\* The disciplined caller, however many objects, native contexts and names there
\* are: no object is handed another's native context or a deleted one, the shared
\* wrapper is null when the next handshake begins, no live context is left to
\* nobody, isEstablished() tells the truth, and no message changes associations.
THEOREM DisciplinedSound ==
  ASSUME Disciplined
  PROVE  Spec => [](Isolation /\ FreshStart /\ NoLeak /\ StateAgrees /\ OwnMessages)
<1>1. TypeOK /\ OwnWrapper /\ NoDangling /\ NoLostNative /\ Ownership /\ [Next]_vars
        => Ownership'
  BY OwnershipStep, DisciplinedInTurn DEF DisciplineInv, WrapperInv
<1>2. TypeOK /\ OwnWrapper /\ NoDangling /\ NoLostNative /\ Ownership
        => Isolation /\ FreshStart /\ NoLeak /\ StateAgrees /\ OwnMessages
  <2> SUFFICES ASSUME DisciplineInv
               PROVE  Isolation /\ FreshStart /\ NoLeak /\ StateAgrees /\ OwnMessages
    BY DEF DisciplineInv, WrapperInv
  <2>1. /\ \A c : MayCall(c) <=> OneAtATime!MayCall(c)
        /\ \A c : HandleOf(c) = OneAtATime!HandleOf(c)
        /\ LiveNative = OneAtATime!LiveNative
    BY DEF MayCall, OneAtATime!MayCall, Finished, OneAtATime!Finished, HandleOf,
       OneAtATime!HandleOf, LiveNative, OneAtATime!LiveNative, Live, OneAtATime!Live
  <2>2. Isolation
    BY <2>1, Promises DEF Isolation, OneAtATime!Isolation
  <2>3. FreshStart /\ NoLeak
    BY <2>1, Promises DEF FreshStart, NoLeak, OneAtATime!FreshStart, OneAtATime!NoLeak
  <2>4. StateAgrees /\ OwnMessages
    BY <2>1, Promises
       DEF StateAgrees, OwnMessages, OneAtATime!StateAgrees, OneAtATime!OwnMessages
  <2> QED
    BY <2>2, <2>3, <2>4
<1> QED
  BY TypeCorrect, WrappersSound, InitWrapper, OwnWrapperStep, OwnershipInit, <1>1, <1>2,
     PTL DEF Spec

-----------------------------------------------------------------------------
(* The name of the peer *)

\* Only an acceptor has the shared name wrapper as its source name, and that of
\* the acceptor at work names its peer.
SourceInv ==
  /\ OneActive
  /\ \A c \in Ctx :
       /\ ctxState[c] = "none" => src[c] = Nobody
       /\ src[c] = NoName => role[c] = "acceptor"
       /\ Active(c) /\ ctxState[c] = "DONE" /\ src[c] = NoName => noName = c

\* At most one object is active if constructors wait for the others.
LEMMA OneActiveStep ==
  ASSUME Disciplined, TypeOK, OneActive, [Next]_vars
  PROVE  OneActive'
<1>1. CASE UNCHANGED vars
  BY <1>1 DEF vars, OneActive, Active, Finished
<1>2. ASSUME NEW c \in Ctx,
             \/ \E peer \in Name, withCred \in BOOLEAN : NewInitiator(c, peer, withCred)
             \/ \E withCred \in BOOLEAN : NewAcceptor(c, withCred)
             \/ \E from \in Ctx, n \in Native : ImportContext(c, from, n)
      PROVE  OneActive'
  <2>1. /\ \A d \in Ctx : ~Active(d)
        /\ \A d \in Ctx : d # c => ctxState'[d] = ctxState[d]
        /\ UNCHANGED <<closed, exported>>
    BY <1>2 DEF NewInitiator, NewAcceptor, ImportContext, ImportNative, MayConstruct,
       Active, TypeOK
  <2> QED
    BY <2>1 DEF OneActive, Active, Finished
<1>3. ASSUME NEW c \in Ctx,
             \/ \E from \in Ctx, n \in Native : ImportThrows(c, from, n)
             \/ \E result \in Live, n \in Native : InitSecContext(c, result, n)
             \/ InitSecContextThrows(c)
             \/ \E result \in Live, n \in Native, delegated, written \in BOOLEAN :
                  AcceptSecContext(c, result, n, delegated, written)
             \/ AcceptSecContextThrows(c) \/ AcceptSecContextRejects(c)
             \/ PerMessage(c) \/ Export(c) \/ Dispose(c) \/ DisposeThrows(c)
      PROVE  OneActive'
  <2>1. /\ \A d \in Ctx : ctxState[d] = "none" => ctxState'[d] = "none"
        /\ closed \subseteq closed' /\ exported \subseteq exported'
    BY <1>3 DEF ImportThrows, ImportNative, InitSecContext, Advance, InitSecContextThrows,
       AcceptSecContext, AcceptSecContextThrows, AcceptSecContextRejects, PerMessage,
       Export, Dispose, DisposeThrows, MayCall, MayEstablish, TypeOK
  <2> QED
    BY <2>1 DEF OneActive, Active, Finished
<1> QED
  BY <1>1, <1>2, <1>3 DEF Next

\* Whatever overwrites the shared name does it for the object at work.
LEMMA SourceStep ==
  ASSUME Disciplined, TypeOK, SourceInv, [Next]_vars
  PROVE  SourceInv'
<1>1. OneActive /\ OneActive'
  BY OneActiveStep DEF SourceInv
<1> DEFINE Part(c) ==
      /\ ctxState[c] = "none" => src[c] = Nobody
      /\ src[c] = NoName => role[c] = "acceptor"
      /\ Active(c) /\ ctxState[c] = "DONE" /\ src[c] = NoName => noName = c
<1>2. \A d \in Ctx : Part(d)
  BY DEF SourceInv
<1>3. CASE UNCHANGED vars
  BY <1>1, <1>2, <1>3 DEF vars, SourceInv, Active, Finished
<1>4. ASSUME NEW c \in Ctx, NEW peer \in Name, NEW withCred \in BOOLEAN,
             NewInitiator(c, peer, withCred)
      PROVE  SourceInv'
  <2>1. src'[c] \in {c, Nobody}
    BY <1>4 DEF NewInitiator, TypeOK
  <2> QED
    BY <1>1, <1>2, <1>4, <2>1, Distinct DEF SourceInv, NewInitiator, TypeOK, Active, Finished
<1>5. ASSUME NEW c \in Ctx, NEW withCred \in BOOLEAN, NewAcceptor(c, withCred)
      PROVE  SourceInv'
  BY <1>1, <1>2, <1>5, Distinct DEF SourceInv, NewAcceptor, TypeOK, Active, Finished
<1>6. ASSUME NEW c \in Ctx, NEW from \in Ctx, NEW n \in Native, ImportContext(c, from, n)
      PROVE  SourceInv'
  BY <1>1, <1>2, <1>6, Distinct
     DEF SourceInv, ImportContext, ImportNative, TypeOK, Active, Finished
<1>7. ASSUME NEW c \in Ctx, NEW from \in Ctx, NEW n \in Native, ImportThrows(c, from, n)
      PROVE  SourceInv'
  <2>1. role[c] = "none"
    BY <1>7 DEF ImportThrows, ImportNative, MayConstruct
  <2> QED
    BY <1>1, <1>2, <1>7, <2>1, Distinct
       DEF SourceInv, ImportThrows, ImportNative, TypeOK, Active, Finished
<1>8. ASSUME NEW c \in Ctx, NEW result \in Live, NEW n \in Native, InitSecContext(c, result, n)
      PROVE  SourceInv'
  BY <1>1, <1>2, <1>8, Distinct
     DEF SourceInv, InitSecContext, MayEstablish, MayCall, Advance, TypeOK, Active, Finished
<1>9. ASSUME NEW c \in Ctx, InitSecContextThrows(c) \/ PerMessage(c) \/ DisposeThrows(c)
      PROVE  SourceInv'
  BY <1>1, <1>2, <1>9
     DEF SourceInv, InitSecContextThrows, PerMessage, DisposeThrows, TypeOK, Active, Finished
<1>10. ASSUME NEW c \in Ctx, NEW result \in Live, NEW n \in Native,
              NEW delegated \in BOOLEAN, NEW written \in BOOLEAN,
              AcceptSecContext(c, result, n, delegated, written)
       PROVE  SourceInv'
  <2>1. Active(c) /\ role[c] = "acceptor" /\ ctxState'[c] # "none" /\ role' = role
    BY <1>10 DEF AcceptSecContext, MayEstablish, MayCall, Active, Advance, TypeOK
  <2>2. \A d \in Ctx : d # c => ~Active(d) /\ ~Active(d)'
    BY <1>10, <1>1, <2>1 DEF OneActive, AcceptSecContext, Advance, Active, Finished, TypeOK
  <2>3. src'[c] = NoName /\ ctxState'[c] = "DONE" => noName' = c
    BY <1>10 DEF AcceptSecContext, Advance, PeerName, TypeOK, Live
  <2>4. \A d \in Ctx : d # c => ctxState'[d] = ctxState[d] /\ src'[d] = src[d]
    BY <1>10 DEF AcceptSecContext, Advance, TypeOK
  <2> QED
    BY <1>1, <1>2, <2>1, <2>2, <2>3, <2>4 DEF SourceInv
<1>11. ASSUME NEW c \in Ctx, AcceptSecContextThrows(c) \/ AcceptSecContextRejects(c)
       PROVE  SourceInv'
  <2>1. /\ Active(c) /\ role[c] = "acceptor" /\ ctxState[c] \notin {"none", "DONE"}
        /\ UNCHANGED <<role, ctxState, closed, exported>>
        /\ \A d \in Ctx : d # c => src'[d] = src[d]
    BY <1>11 DEF AcceptSecContextThrows, AcceptSecContextRejects, MayEstablish, MayCall,
       Active, TypeOK
  <2>2. \A d \in Ctx : d # c => ~Active(d)
    BY <1>1, <2>1 DEF OneActive
  <2> QED
    BY <1>1, <1>2, <2>1, <2>2 DEF SourceInv, Active, Finished
<1>12. ASSUME NEW c \in Ctx, Export(c)
       PROVE  SourceInv'
  BY <1>1, <1>2, <1>12 DEF SourceInv, Export, TypeOK, Active, Finished
<1>13. ASSUME NEW c \in Ctx, Dispose(c)
       PROVE  SourceInv'
  <2>1. /\ Active(c) /\ ctxState'[c] = "DISPOSED" /\ src'[c] = Nobody
        /\ UNCHANGED <<role, exported>> /\ closed \subseteq closed'
        /\ \A d \in Ctx : d # c => ctxState'[d] = ctxState[d] /\ src'[d] = src[d]
    BY <1>13 DEF Dispose, MayCall, Active, TypeOK
  <2>2. \A d \in Ctx : d # c => ~Active(d) /\ ~Active(d)'
    BY <1>1, <2>1 DEF OneActive, Active, Finished
  <2> QED
    BY <1>1, <1>2, <2>1, <2>2, Distinct DEF SourceInv
<1> QED
  BY <1>3, <1>4, <1>5, <1>6, <1>7, <1>8, <1>9, <1>10, <1>11, <1>12, <1>13 DEF Next

\* The disciplined caller, however many objects there are: getSrcName() of an
\* established acceptor names the peer of that context, though its wrapper is
\* every default acceptor's.
THEOREM SourceNamesPeer ==
  ASSUME Disciplined
  PROVE  Spec => []AcceptorSourceName
<1>1. Init => SourceInv
  BY Distinct DEF Init, SourceInv, OneActive, Active, Finished
<1>2. TypeOK /\ SourceInv /\ [Next]_vars => SourceInv'
  BY SourceStep
<1>3. SourceInv => AcceptorSourceName
  BY DEF SourceInv, AcceptorSourceName, MayCall, Active
<1> QED
  BY TypeCorrect, <1>1, <1>2, <1>3, PTL DEF Spec
-----------------------------------------------------------------------------
(* The sample client *)

\* The steps of a run, and those of its two contexts.
Steps      == {"idle", "connect", "initialize", "create", "init", "write", "read",
               "inspect", "import", "wrap", "send", "await", "verify", "shutdown", "close"}
Handshake  == {"init", "write", "read", "inspect"}
Messages   == {"wrap", "send", "await", "verify"}

\* How far the run is shows in the context that it works on, which is its own.
AtStep ==
  /\ pc \in Steps
  /\ context \in Ctx \cup {Nobody}
  /\ context # Nobody => ctxState[context] # "none"
  /\ pc \in Handshake \cup {"import"} =>
       context # Nobody /\ role[context] = "initiator" /\ context \notin abandoned
  /\ pc = "init" => ctxState[context] \in {"UNINIT", "INPROG"}
  /\ pc = "write" => ctxState[context] \in {"INPROG", "DONE"}
  /\ pc = "read" => ctxState[context] = "INPROG"
  /\ pc = "inspect" => ctxState[context] = "DONE"
  /\ pc = "import" => context \in exported
  /\ pc \in Handshake /\ ctxState[context] # "UNINIT" => intern[context] = Shared
  /\ pc \in Messages =>
       /\ context # Nobody /\ role[context] = "imported" /\ context \notin abandoned
       /\ ctxState[context] = "DONE" /\ intern[context] = context
       /\ cell[context] \in Native

\* What the life of an object leaves behind; an abandoned one was constructed.
Objects ==
  /\ abandoned \subseteq Ctx
  /\ \A d \in abandoned : role[d] # "none"
  /\ \A d \in Ctx :
       /\ role[d] = "none" => intern[d] = d /\ d \notin closed \cup exported
       /\ ctxState[d] = "UNINIT" => intern[d] = d /\ cell[d] = Blank
       /\ ctxState[d] = "DISPOSED" => d \in closed

\* A native context behind the shared wrapper belongs to the handshake of this
\* run, or to one that an exception ended in the middle.
SharedHolder ==
  /\ cell[Shared] # Blank
  /\ cell[Shared] \in Native =>
       LET d == creator[cell[Shared]]
       IN  /\ d \in Ctx /\ intern[d] = Shared
           /\ ctxState[d] = "INPROG" => native[cell[Shared]] = "half"
           /\ \/ ctxState[d] = "INPROG" /\ d \in abandoned
              \/ /\ ctxState[d] \in {"INPROG", "DONE"}
                 /\ d = context /\ pc \in Handshake \cup {"shutdown"}

\* One behind an own wrapper was imported: by this run, by a run that an
\* exception ended, or by a constructor that threw.
OwnHolder ==
  \A d \in Ctx : cell[d] \in Native =>
    /\ creator[cell[d]] = d /\ intern[d] = d /\ role[d] = "imported"
    /\ native[cell[d]] = "open"
    /\ \/ cell[d] \in orphans
       \/ d \in abandoned
       \/ d = context /\ ctxState[d] = "DONE" /\ pc \in Messages \cup {"shutdown"}

\* The open connections are that of this run and those of aborted runs.
Connections ==
  /\ pc \notin {"idle", "connect", "shutdown", "close"} => clientSocket = runs
  /\ \A r \in open :
       r \in aborted \/ (r = runs /\ clientSocket = runs /\ pc \notin {"idle", "connect"})

\* A verified reply, until the next run begins.
Verification ==
  verified =>
    /\ pc \in {"shutdown", "close", "idle"}
    /\ pc = "shutdown" =>
         /\ context # Nobody /\ role[context] = "imported" /\ context \notin abandoned
         /\ intern[context] = context
         /\ cell[context] \in Native /\ creator[cell[context]] = context
         /\ clientSocket = runs

\* Every object but the one at work is finished with or abandoned, and of those in
\* the static field none keeps a handle; what is closed is disposed of, unless its
\* dispose() was the exception; and an exported context is in the static field only
\* until it is replaced, or the shutdown fails on it.
OneByOne ==
  /\ \A d \in Ctx :
       \/ ctxState[d] = "none" \/ Finished(d) \/ d \in abandoned
       \/ d = context /\ pc \notin {"idle", "connect", "initialize", "create", "close"}
  /\ \A d \in closed : ctxState[d] = "DISPOSED" \/ d \in abandoned
  /\ context \in exported =>
       /\ pc \in {"import", "shutdown"} \/ context \in abandoned
       /\ ctxState[context] # "DISPOSED"
  /\ context \in closed \cup exported /\ ctxState[context] # "DISPOSED" =>
       HandleOf(context) \notin Native
  /\ abandoned # {} => aborted # {}

\* All that ClientApp adds to the invariant of its contexts.
ClientInv ==
  /\ AtStep /\ Objects
  /\ SharedHolder /\ OwnHolder
  /\ Connections /\ Verification
  /\ OneByOne

\* Inductive for the client, whatever Disciplined is.
AppInv == WrapperInv /\ ClientInv

\* The fresh objects, native contexts and names are unused ones.
LEMMA FreshOnes ==
  /\ \A c \in FreshCtx : c \in Ctx /\ role[c] = "none"
  /\ \A n \in FreshNative : n \in Native /\ native[n] = "unused"
  /\ \A p \in FreshName : p \in nameLive /\ \A d \in Ctx : target[d] # p
BY DEF FreshCtx, FreshNative, FreshName, OneOf

\* The static field holds an object wherever the run calls one.
LEMMA AtWork ==
  ASSUME AtStep
  PROVE  /\ pc \in Handshake \cup {"import"} \cup Messages => context \in Ctx
         /\ context # Nobody => context \in Ctx
BY DEF AtStep

\* Every step of the client is a call on its contexts or leaves them alone.
LEMMA IsContextStep ==
  ASSUME AppInv, [AppNext]_appVars
  PROVE  [Next]_vars
<1> USE DEF AppInv, ClientInv, WrapperInv
<1>1. nameLive \subseteq Name /\ LiveNative \subseteq Native
  BY DEF TypeOK, LiveNative
<1>2. CASE UNCHANGED vars
  BY <1>2
<1>3. CASE CreateContext
  <2> SUFFICES ASSUME NEW c \in FreshCtx, NEW peer \in FreshName, NewInitiator(c, peer, TRUE)
               PROVE  Next
    BY <1>2, <1>3 DEF CreateContext
  <2> QED
    BY <1>1, FreshOnes DEF Next
<1>4. CASE CallInit
  <2>1. context \in Ctx
    BY <1>4, AtWork DEF CallInit, Handshake
  <2>2. \/ \E result \in Live, n \in FreshNative \cup LiveNative : InitSecContext(context, result, n)
        \/ InitSecContextThrows(context)
    BY <1>4 DEF CallInit
  <2> QED
    BY <1>1, <2>1, <2>2, FreshOnes DEF Next
<1>5. CASE InspectAndExport
  <2>1. context \in Ctx
    BY <1>5, AtWork DEF InspectAndExport, Handshake
  <2> QED
    BY <1>2, <1>5, <2>1 DEF InspectAndExport, Next
<1>6. CASE Import
  <2>1. context \in Ctx
    BY <1>6, AtWork DEF Import
  <2>2. \/ UNCHANGED vars
        \/ \E c \in FreshCtx, n \in FreshNative :
             ImportContext(c, context, n) \/ ImportThrows(c, context, n)
    BY <1>6 DEF Import
  <2> QED
    BY <1>2, <2>1, <2>2, FreshOnes DEF Next
<1>7. CASE Wrap \/ VerifyMIC
  <2>1. context \in Ctx
    BY <1>7, AtWork DEF Wrap, VerifyMIC, Messages
  <2> QED
    BY <1>2, <1>7, <2>1 DEF Wrap, VerifyMIC, Next
<1>8. CASE Shutdown
  BY <1>2, <1>8, AtWork DEF Shutdown, Next
<1> QED
  BY <1>2, <1>3, <1>4, <1>5, <1>6, <1>7, <1>8
     DEF AppNext, appVars, Client, Server, Start, ConnectToServer, InitializeGSS, WriteHandshake,
         ReadToken, SendMessage, CloseConnection, ServerAnswers, ServerCloses

\* The steps that call no method of a context.
LEMMA QuietStep ==
  ASSUME ClientInv, UNCHANGED vars,
         \/ Start \/ ConnectToServer \/ InitializeGSS \/ WriteHandshake
         \/ ReadToken("read", "init") \/ SendMessage \/ ReadToken("await", "verify")
         \/ CloseConnection \/ ServerAnswers \/ ServerCloses
  PROVE  ClientInv'
<1> USE DEF ClientInv, AtStep, Objects, SharedHolder, OwnHolder, Connections, Verification,
            OneByOne, Finished, HandleOf, Steps, Handshake, Messages,
            vars, net, sockets, statics, local, history, Continue, Fail, Throw
<1>1. CASE Start
  BY <1>1 DEF Start
<1>2. CASE ConnectToServer
  BY <1>2 DEF ConnectToServer
<1>3. CASE InitializeGSS
  BY <1>3 DEF InitializeGSS
<1>4. CASE WriteHandshake
  BY <1>4 DEF WriteHandshake, Written, WriteError
<1>5. CASE ReadToken("read", "init")
  BY <1>5 DEF ReadToken, Received
<1>6. CASE SendMessage
  BY <1>6 DEF SendMessage, Written, WriteError
<1>7. CASE ReadToken("await", "verify")
  BY <1>7 DEF ReadToken, Received
<1>8. CASE CloseConnection
  BY <1>8 DEF CloseConnection, Closed
<1>9. CASE ServerAnswers
  BY <1>9 DEF ServerAnswers
<1>10. CASE ServerCloses
  BY <1>10 DEF ServerCloses
<1> QED
  BY <1>1, <1>2, <1>3, <1>4, <1>5, <1>6, <1>7, <1>8, <1>9, <1>10

\* A new context: the one before is finished with and keeps no handle.
LEMMA CreateStep ==
  ASSUME AppInv, CreateContext
  PROVE  ClientInv'
<1> USE Distinct, NullHandles DEF AppInv, ClientInv, WrapperInv, Steps, Handshake, Messages, Wrapper
<1>1. CASE Fail /\ UNCHANGED <<vars, context>>
  BY <1>1
     DEF CreateContext, Fail, vars, net, sockets, history, AtStep, Objects, SharedHolder,
         OwnHolder, Connections, Verification, OneByOne, Finished, HandleOf
<1>2. SUFFICES ASSUME NEW c \in FreshCtx, NEW peer \in FreshName,
                      NewInitiator(c, peer, TRUE), context' = c, Continue("init"),
                      UNCHANGED <<net, clientCred, sockets, inToken, verified, legs>>,
                      pc = "create"
               PROVE  ClientInv'
  BY <1>1 DEF CreateContext
<1>3. /\ c \in Ctx /\ role[c] = "none" /\ pc = "create" /\ pc' = "init" /\ context' = c
      /\ role' = [role EXCEPT ![c] = "initiator"]
      /\ ctxState' = [ctxState EXCEPT ![c] = "UNINIT"]
      /\ UNCHANGED <<intern, cell, native, creator, exported, closed, orphans>>
      /\ UNCHANGED <<open, clientSocket, verified, runs, aborted, abandoned>>
  BY <1>2, FreshOnes DEF NewInitiator, Continue, net, sockets, history
<1>4. ctxState[c] = "none" /\ cell[c] = Blank /\ c \notin abandoned
  BY <1>3 DEF OwnWrapper, Objects
<1>5. AtStep'
  BY <1>3, <1>4 DEF AtStep, TypeOK
<1>6. Objects'
  BY <1>3, <1>4 DEF Objects, TypeOK
<1>7. SharedHolder'
  BY <1>3, <1>4 DEF SharedHolder, TypeOK, OwnWrapper, Objects
<1>8. OwnHolder'
  BY <1>3, <1>4 DEF OwnHolder, TypeOK
<1>9. Connections' /\ Verification'
  BY <1>3, <1>4 DEF Connections, Verification
<1>10. OneByOne'
  BY <1>3, <1>4 DEF OneByOne, Finished, HandleOf, TypeOK, Objects
<1> QED
  BY <1>5, <1>6, <1>7, <1>8, <1>9, <1>10

\* A handshake call: on success the shared wrapper holds this run's context; a
\* failure leaves or nulls what it held.
LEMMA CallInitStep ==
  ASSUME AppInv, CallInit
  PROVE  ClientInv'
<1> USE Distinct, NullHandles DEF AppInv, ClientInv, WrapperInv, Steps, Handshake, Messages, Wrapper
<1>1. /\ pc = "init" /\ context \in Ctx /\ ContextTmp(context) = Shared
      /\ role[context] = "initiator" /\ context \notin abandoned
      /\ ctxState[context] \in {"UNINIT", "INPROG"}
      /\ UNCHANGED <<context, open, clientSocket, verified, runs, aborted, abandoned>>
  BY AtWork DEF CallInit, AtStep, ContextTmp, net, sockets, statics, Continue, Fail, history
<1>2. ASSUME NEW result \in Live, NEW n \in FreshNative \cup LiveNative,
             InitSecContext(context, result, n),
             pc' \in {"write", "inspect"}, pc' = "inspect" => result = "open"
      PROVE  ClientInv'
  <2>1. /\ n \in Native
        /\ ctxState' = [ctxState EXCEPT ![context] = IF result = "open" THEN "DONE" ELSE "INPROG"]
        /\ intern' = [intern EXCEPT ![context] = Shared]
        /\ cell' = [cell EXCEPT ![Shared] = n]
        /\ native' = [native EXCEPT ![n] = result]
        /\ creator' = [creator EXCEPT ![n] = context]
        /\ native[n] = "unused" \/ cell[Shared] = n
        /\ UNCHANGED <<role, exported, closed, orphans>>
    BY <1>1, <1>2, FreshOnes DEF InitSecContext, NativeSuccess, Advance, LiveNative
  <2>2. \A d \in Ctx : cell'[d] = cell[d] /\ cell[d] # n
    BY <2>1 DEF TypeOK, NoDangling, LiveNative, Live
  <2>3. /\ ctxState'[context] = IF result = "open" THEN "DONE" ELSE "INPROG"
        /\ intern'[context] = Shared /\ cell'[Shared] = n /\ creator'[n] = context
        /\ \A d \in Ctx \ {context} : ctxState'[d] = ctxState[d] /\ intern'[d] = intern[d]
        /\ \A m \in Native \ {n} : creator'[m] = creator[m] /\ native'[m] = native[m]
        /\ native'[n] = result
    BY <1>1, <2>1 DEF TypeOK
  <2>4. AtStep'
    BY <1>1, <1>2, <2>1, <2>2, <2>3 DEF AtStep
  <2>5. Objects'
    BY <1>1, <1>2, <2>1, <2>2, <2>3 DEF Objects
  <2>6. SharedHolder'
    BY <1>1, <1>2, <2>1, <2>2, <2>3 DEF SharedHolder, Live
  <2>7. OwnHolder'
    BY <1>1, <1>2, <2>1, <2>2, <2>3 DEF OwnHolder
  <2>8. Connections' /\ Verification'
    BY <1>1, <1>2 DEF Connections, Verification
  <2>9. OneByOne'
    BY <1>1, <1>2, <2>1, <2>2, <2>3 DEF OneByOne, Finished
  <2> QED
    BY <2>4, <2>5, <2>6, <2>7, <2>8, <2>9
<1>3. ASSUME InitSecContextThrows(context), pc' = "shutdown"
      PROVE  ClientInv'
  <2>1. /\ UNCHANGED <<role, ctxState, intern, creator, exported, closed, orphans>>
        /\ \A d \in Ctx : cell'[d] = cell[d]
        /\ cell'[Shared] \in {cell[Shared], NoContext}
        /\ cell'[Shared] \in Native => native' = native
        /\ \A m \in Native : m # cell[Shared] => native'[m] = native[m]
    BY <1>1, <1>3 DEF InitSecContextThrows, NativeFailure, TypeOK
  <2>2. \A d \in Ctx : cell[d] \in Native => cell[d] # cell[Shared]
    BY DEF NoDangling
  <2>4. AtStep'
    BY <1>1, <1>3, <2>1 DEF AtStep
  <2>5. Objects'
    BY <1>1, <1>3, <2>1 DEF Objects
  <2>6. SharedHolder'
    BY <1>1, <1>3, <2>1 DEF SharedHolder
  <2>7. OwnHolder'
    BY <1>1, <1>3, <2>1, <2>2 DEF OwnHolder
  <2>8. Connections' /\ Verification'
    BY <1>1, <1>3 DEF Connections, Verification
  <2>9. OneByOne'
    BY <1>1, <1>3, <2>1 DEF OneByOne, Finished
  <2> QED
    BY <2>4, <2>5, <2>6, <2>7, <2>8, <2>9
<1> QED
  BY <1>2, <1>3 DEF CallInit, Continue, Fail, Live

\* export() nulls the shared wrapper.
LEMMA ExportStep ==
  ASSUME AppInv, InspectAndExport
  PROVE  ClientInv'
<1> USE Distinct, NullHandles DEF AppInv, ClientInv, WrapperInv, Steps, Handshake, Messages, Wrapper
<1>1. CASE Fail /\ UNCHANGED vars
  BY <1>1
     DEF InspectAndExport, Fail, vars, net, sockets, statics, history, AtStep, Objects,
         SharedHolder, OwnHolder, Connections, Verification, OneByOne, Finished, HandleOf
<1>2. CASE Export(context) /\ Continue("import")
  <2>1. /\ context \in Ctx /\ intern[context] = Shared /\ ctxState[context] = "DONE"
        /\ pc = "inspect" /\ pc' = "import"
        /\ UNCHANGED <<context, open, clientSocket, verified, runs, aborted, abandoned>>
    BY <1>2, AtWork DEF InspectAndExport, AtStep, net, sockets, statics, Continue, history
  <2>2. /\ UNCHANGED <<role, ctxState, intern, creator, closed, orphans>>
        /\ exported' = exported \cup {context}
        /\ cell' = [cell EXCEPT ![Shared] = NoContext]
    BY <1>2, <2>1 DEF Export, DeleteNative
  <2>3. /\ cell'[Shared] = NoContext /\ \A d \in Ctx : cell'[d] = cell[d]
        /\ \A d \in Ctx : cell[d] \in Native => native'[cell[d]] = native[cell[d]]
    <3>1. PICK n \in Native : cell[Shared] = n /\ native' = [native EXCEPT ![n] = "deleted"]
      BY <1>2, <2>1 DEF Export, DeleteNative, HandleOf
    <3> QED
      BY <2>2, <3>1 DEF TypeOK, NoDangling
  <2>4. AtStep'
    BY <2>1, <2>2, <2>3 DEF AtStep
  <2>5. Objects'
    BY <2>1, <2>2, <2>3 DEF Objects, AtStep
  <2>6. SharedHolder'
    BY <2>3 DEF SharedHolder
  <2>7. OwnHolder'
    BY <2>1, <2>2, <2>3 DEF OwnHolder
  <2>8. Connections' /\ Verification'
    BY <2>1 DEF Connections, Verification
  <2>9. OneByOne'
    BY <2>1, <2>2, <2>3 DEF OneByOne, Finished, HandleOf
  <2> QED
    BY <2>4, <2>5, <2>6, <2>7, <2>8, <2>9
<1> QED
  BY <1>1, <1>2 DEF InspectAndExport

\* The native import fills the wrapper of a new object, which replaces the static
\* field unless its constructor then throws.
LEMMA ImportNativeStep ==
  ASSUME AppInv, pc = "import", NEW c \in FreshCtx, NEW n \in FreshNative,
         ImportNative(c, context, n),
         UNCHANGED <<open, clientSocket, verified, runs, aborted, abandoned>>,
         \/ /\ pc' = "wrap" /\ context' = c /\ orphans' = orphans
            /\ ctxState' = [ctxState EXCEPT ![c] = "DONE"]
         \/ /\ pc' = "shutdown" /\ context' = context /\ orphans' = orphans \cup {n}
            /\ ctxState' = ctxState
  PROVE  ClientInv'
<1> USE Distinct, NullHandles DEF AppInv, ClientInv, WrapperInv, Steps, Handshake, Messages, Wrapper
<1>1. /\ context \in Ctx /\ role[context] = "initiator" /\ context \in exported
      /\ intern[context] \in {context, Shared}
  BY AtWork DEF AtStep, OwnWrapper
<1>2. /\ c \in Ctx /\ role[c] = "none" /\ n \in Native /\ native[n] = "unused"
      /\ intern[c] = c /\ ctxState[c] = "none" /\ c \notin closed \cup exported
      /\ c \notin abandoned /\ c # context
  BY <1>1, FreshOnes DEF Objects, OwnWrapper
<1>3. /\ role' = [role EXCEPT ![c] = "imported"]
      /\ creator' = [creator EXCEPT ![n] = c]
      /\ cell' = [cell EXCEPT ![c] = n]
      /\ native' = [native EXCEPT ![n] = "open"]
      /\ UNCHANGED <<intern, exported, closed>>
  BY DEF ImportNative
<1>4. /\ role'[c] = "imported" /\ creator'[n] = c /\ cell'[c] = n
      /\ ctxState'[c] = IF pc' = "wrap" THEN "DONE" ELSE "none"
      /\ \A w \in Wrapper \ {c} : cell'[w] = cell[w] /\ cell[w] # n
      /\ native'[n] = "open"
      /\ \A m \in Native \ {n} : creator'[m] = creator[m] /\ native'[m] = native[m]
      /\ \A d \in Ctx \ {c} : role'[d] = role[d] /\ ctxState'[d] = ctxState[d]
  BY <1>2, <1>3 DEF TypeOK, NoDangling, LiveNative, Live
<1>5. AtStep'
  BY <1>1, <1>2, <1>3, <1>4 DEF AtStep
<1>6. Objects'
  BY <1>2, <1>3, <1>4 DEF Objects
<1>7. SharedHolder'
  BY <1>1, <1>2, <1>3, <1>4 DEF SharedHolder
<1>8. OwnHolder'
  BY <1>1, <1>2, <1>3, <1>4 DEF OwnHolder
<1>9. Connections' /\ Verification'
  BY <1>1 DEF Connections, Verification
<1>10. OneByOne'
  <2>1. ASSUME NEW d \in Ctx
        PROVE  \/ ctxState'[d] = "none" \/ Finished(d)' \/ d \in abandoned'
               \/ d = context' /\ pc' \notin {"idle", "connect", "initialize", "create", "close"}
    BY <1>1, <1>2, <1>3, <1>4 DEF OneByOne, Finished
  <2>2. \A d \in closed' : ctxState'[d] = "DISPOSED" \/ d \in abandoned'
    BY <1>2, <1>3, <1>4 DEF OneByOne, TypeOK
  <2>3. context' \in exported' =>
          /\ pc' \in {"import", "shutdown"} \/ context' \in abandoned'
          /\ ctxState'[context'] # "DISPOSED"
    BY <1>1, <1>2, <1>3, <1>4 DEF OneByOne
  <2>4. context' \in closed' \cup exported' /\ ctxState'[context'] # "DISPOSED" =>
          HandleOf(context)' \notin Native
    BY <1>1, <1>2, <1>3, <1>4 DEF OneByOne, HandleOf
  <2> QED
    BY <2>1, <2>2, <2>3, <2>4 DEF OneByOne
<1> QED
  BY <1>5, <1>6, <1>7, <1>8, <1>9, <1>10

\* The import of a run, with its failures.
LEMMA ClientImportStep ==
  ASSUME AppInv, Import
  PROVE  ClientInv'
<1>1. CASE Fail /\ UNCHANGED <<vars, context>>
  BY <1>1
     DEF Import, Fail, vars, net, sockets, history, AtStep, Objects, SharedHolder, OwnHolder,
         Connections, Verification, OneByOne, Finished, HandleOf,
    AppInv, ClientInv, Steps, Handshake, Messages
<1>2. ASSUME NEW c \in FreshCtx, NEW n \in FreshNative,
             \/ ImportContext(c, context, n) /\ context' = c /\ Continue("wrap")
             \/ ImportThrows(c, context, n) /\ Fail /\ UNCHANGED context
      PROVE  ClientInv'
  <2>1. TypeOK /\ context \in Ctx /\ c \in Ctx /\ n \in Native
    BY <1>2, FreshOnes DEF AppInv, WrapperInv, ImportContext, ImportThrows, ImportNative, TypeOK
  <2>2. ImportContext(c, context, n) => ctxState' = [ctxState EXCEPT ![c] = "DONE"]
    BY <2>1, ImportOpen
  <2> QED
    BY <1>2, <2>1, <2>2, ImportNativeStep
       DEF Import, ImportContext, ImportThrows, Continue, Fail, net, sockets, history
<1> QED
  BY <1>1, <1>2 DEF Import

\* The two per-message calls: verifyMIC() answers for the imported context.
LEMMA MessageSteps ==
  ASSUME AppInv, Wrap \/ VerifyMIC
  PROVE  ClientInv'
<1> USE DEF AppInv, ClientInv, Continue, Fail, net, sockets, statics, history, vars, Steps, Handshake, Messages
<1>1. UNCHANGED <<role, ctxState, intern, cell, native, creator, exported, closed, orphans>>
  BY DEF Wrap, VerifyMIC, PerMessage
<1>2. CASE Wrap
  BY <1>1, <1>2 DEF Wrap, AtStep, Objects, SharedHolder, OwnHolder, Connections,
     Verification, OneByOne, Finished, HandleOf
<1>3. CASE VerifyMIC
  <2>1. context \in Ctx
    BY <1>3, AtWork DEF VerifyMIC
  <2> QED
    BY <1>1, <1>3, <2>1
       DEF VerifyMIC, AtStep, Objects, SharedHolder, OwnHolder, Connections,
       Verification, OneByOne, Finished, HandleOf
<1> QED
  BY <1>2, <1>3

\* The shutdown: dispose() succeeds on whatever still has a live handle, so an
\* exception abandons nothing but a handshake or an import already accounted for.
LEMMA ShutdownStep ==
  ASSUME AppInv, Shutdown
  PROVE  ClientInv'
<1> USE Distinct, NullHandles DEF AppInv, ClientInv, WrapperInv, Steps, Handshake, Messages, Wrapper
<1>0. /\ pc = "shutdown" /\ context' = context
      /\ UNCHANGED <<open, clientSocket, verified, runs>>
  BY DEF Shutdown, net, sockets, statics, Throw, Continue, history
<1>1. CASE context = Nobody /\ Throw /\ UNCHANGED vars
  <2>1. /\ pc' = "idle" /\ aborted' = aborted \cup {runs} /\ abandoned' = abandoned
        /\ UNCHANGED <<role, ctxState, intern, cell, native, creator, closed, exported, orphans>>
    BY <1>1 DEF Throw, vars
  <2>2. context \notin Ctx
    BY <1>1
  <2>3. AtStep' /\ Objects'
    BY <1>0, <1>1, <2>1 DEF AtStep, Objects
  <2>4. SharedHolder' /\ OwnHolder'
    BY <1>0, <2>1, <2>2 DEF SharedHolder, OwnHolder
  <2>5. Connections' /\ Verification'
    BY <1>0, <2>1 DEF Connections, Verification
  <2>6. OneByOne'
    BY <1>0, <2>1, <2>2 DEF OneByOne, Finished, HandleOf, TypeOK
  <2> QED
    BY <2>3, <2>4, <2>5, <2>6
<1>2. CASE context # Nobody /\ ctxState[context] = "DISPOSED" /\ Continue("close") /\ UNCHANGED vars
  <2>1. context \in Ctx /\ context \in closed
    BY <1>2, AtWork DEF Objects
  <2> QED
    BY <1>0, <1>2, <2>1
       DEF Continue, history, vars, AtStep, Objects, SharedHolder, OwnHolder,
       Connections, Verification, OneByOne, Finished, HandleOf
<1>3. CASE context # Nobody /\ DisposeThrows(context) /\ Throw
  <2>1. /\ context \in Ctx /\ pc' = "idle" /\ closed' = closed \cup {context}
        /\ ctxState[context] # "none"
        /\ aborted' = aborted \cup {runs} /\ abandoned' = abandoned \cup {context}
        /\ HandleOf(context) \notin LiveNative
        /\ UNCHANGED <<role, ctxState, intern, cell, native, creator, exported, orphans>>
    BY <1>3, AtWork DEF DisposeThrows, Throw
  <2>2. \A w \in Wrapper : cell[w] \in Native => cell[w] \in LiveNative
    BY DEF NoDangling
  <2>3. role[context] # "none"
    BY <2>1 DEF OwnWrapper
  <2>4. AtStep' /\ Objects'
    BY <1>0, <2>1, <2>3 DEF AtStep, Objects
  <2>5. SharedHolder'
    BY <1>0, <2>1, <2>2 DEF SharedHolder, HandleOf
  <2>6. OwnHolder'
    BY <1>0, <2>1 DEF OwnHolder
  <2>7. Connections' /\ Verification'
    BY <1>0, <2>1 DEF Connections, Verification
  <2>8. OneByOne'
    BY <1>0, <2>1, <2>2, <2>3 DEF OneByOne, Finished, HandleOf, OwnWrapper
  <2> QED
    BY <2>4, <2>5, <2>6, <2>7, <2>8
<1>4. CASE context # Nobody /\ Dispose(context) /\ Continue("close")
  <2>1. /\ context \in Ctx /\ pc' = "close" /\ UNCHANGED <<aborted, abandoned>>
        /\ HandleOf(context) \in LiveNative
        /\ ctxState' = [ctxState EXCEPT ![context] = "DISPOSED"]
        /\ cell' = [cell EXCEPT ![intern[context]] = NoContext]
        /\ native' = [native EXCEPT ![cell[intern[context]]] = "deleted"]
        /\ closed' = closed \cup {context}
        /\ UNCHANGED <<role, intern, creator, exported, orphans>>
    BY <1>4, AtWork DEF Dispose, DeleteNative, Continue, history, HandleOf
  <2>2. /\ ctxState'[context] = "DISPOSED"
        /\ \A d \in Ctx \ {context} : ctxState'[d] = ctxState[d]
        /\ cell'[intern[context]] = NoContext
        /\ \A w \in Wrapper \ {intern[context]} :
             cell'[w] = cell[w] /\ (cell[w] \in Native => native'[cell[w]] = native[cell[w]])
        /\ intern[context] \in Wrapper
    BY <2>1 DEF TypeOK, NoDangling, HandleOf, LiveNative
  <2>3. /\ cell[intern[context]] \in Native /\ ctxState[context] \notin {"none", "UNINIT"}
        /\ role[context] # "none" /\ intern[context] \in {context, Shared}
    BY <1>4, <2>1 DEF HandleOf, LiveNative, Objects, OwnWrapper, Dispose, MayCall
  <2>4. AtStep'
    BY <1>0, <2>1, <2>2 DEF AtStep
  <2>5. Objects'
    BY <2>1, <2>2, <2>3 DEF Objects
  <2>6. SharedHolder'
    BY <1>0, <2>1, <2>2, <2>3 DEF SharedHolder
  <2>7. OwnHolder'
    BY <1>0, <2>1, <2>2, <2>3 DEF OwnHolder
  <2>8. Connections' /\ Verification'
    BY <1>0, <2>1 DEF Connections, Verification
  <2>9. OneByOne'
    BY <1>0, <2>1, <2>2, <2>3 DEF OneByOne, Finished, HandleOf
  <2> QED
    BY <2>4, <2>5, <2>6, <2>7, <2>8, <2>9
<1> QED
  BY <1>1, <1>2, <1>3, <1>4 DEF Shutdown

\* Every step keeps what ClientApp adds.
LEMMA ClientStep ==
  ASSUME AppInv, [AppNext]_appVars
  PROVE  ClientInv'
<1>1. CASE UNCHANGED appVars
  BY <1>1
     DEF appVars, vars, net, sockets, statics, local, history, AppInv, ClientInv, AtStep, Objects,
     SharedHolder, OwnHolder, Connections, Verification, OneByOne, Finished, HandleOf
<1>2. CASE \/ Start \/ ConnectToServer \/ InitializeGSS \/ WriteHandshake
           \/ ReadToken("read", "init") \/ SendMessage \/ ReadToken("await", "verify")
           \/ CloseConnection \/ ServerAnswers \/ ServerCloses
  <2>1. UNCHANGED vars
    BY <1>2
       DEF Start, ConnectToServer, InitializeGSS, WriteHandshake, ReadToken, SendMessage,
       CloseConnection, ServerAnswers, ServerCloses
  <2> QED
    BY <1>2, <2>1, QuietStep DEF AppInv
<1> QED
  BY <1>1, <1>2, CreateStep, CallInitStep, ExportStep, ClientImportStep, MessageSteps, ShutdownStep
     DEF AppNext, Client, Server

\* It holds before the first run.
LEMMA ClientInit == AppInit => ClientInv
BY Distinct, NullHandles
   DEF AppInit, Init, ClientInv, AtStep, Objects, SharedHolder, OwnHolder,
   Connections, Verification, OneByOne, Steps, Handshake, Messages, Wrapper

\* The invariant of the client over its contexts.
LEMMA AppInductive == AppSpec => []AppInv
<1>1. AppInit => AppInv
  BY ClientInit, TypeInit, InitWrapper DEF AppInit, AppInv, WrapperInv
<1>2. AppInv /\ [AppNext]_appVars => AppInv'
  <2> SUFFICES ASSUME AppInv, [AppNext]_appVars PROVE AppInv'
    OBVIOUS
  <2>1. [Next]_vars
    BY IsContextStep
  <2> QED
    BY <2>1, ClientStep, TypeStep, OwnWrapperStep, SoundStep DEF AppInv, WrapperInv
<1> QED
  BY <1>1, <1>2, PTL DEF AppSpec

\* However many runs the client makes, whichever calls fail and whatever the server
\* does.  Between runs: only runs that an exception ended have left a connection
\* open, and of native contexts only those of the objects abandoned then are live,
\* half done behind the shared wrapper or imported, each behind its own (and those
\* of failed imports).  A handshake begins on a null handle or on that half done
\* one, never on another context.  And a reply is verified on the association its
\* own run imported.
THEOREM ClientSafe ==
  AppSpec => [](CleanBetweenRuns /\ FreshHandshake /\ VerifiedOnOwnAssociation)
<1> SUFFICES ASSUME AppInv PROVE CleanBetweenRuns /\ FreshHandshake /\ VerifiedOnOwnAssociation
  BY AppInductive, PTL
<1> USE DEF AppInv, ClientInv, WrapperInv
<1>1. CleanBetweenRuns
  <2> SUFFICES ASSUME pc = "idle"
               PROVE  /\ open \subseteq aborted
                      /\ \A n \in LiveNative \ orphans :
                           /\ creator[n] \in abandoned
                           /\ \/ native[n] = "half" /\ cell[Shared] = n
                              \/ native[n] = "open" /\ cell[creator[n]] = n
    BY DEF CleanBetweenRuns
  <2>1. open \subseteq aborted
    BY DEF Connections
  <2>2. ASSUME NEW n \in LiveNative \ orphans
        PROVE  /\ creator[n] \in abandoned
               /\ \/ native[n] = "half" /\ cell[Shared] = n
                  \/ native[n] = "open" /\ cell[creator[n]] = n
    <3>1. PICK w \in Wrapper : cell[w] = n
      BY DEF NoLostNative
    <3>2. n \in Native
      BY DEF LiveNative
    <3> QED
      BY <3>1, <3>2 DEF SharedHolder, OwnHolder, Wrapper, Handshake, Messages
  <2> QED
    BY <2>1, <2>2
<1>2. FreshHandshake
  <2>1. cell[Shared] \in Native \cup {NoContext}
    BY DEF TypeOK, Wrapper, Handle, SharedHolder
  <2> SUFFICES ASSUME pc = "init", ctxState[context] = "UNINIT", cell[Shared] \in Native
               PROVE  native[cell[Shared]] = "half" /\ creator[cell[Shared]] \in abandoned
    BY <2>1 DEF FreshHandshake
  <2> QED
    BY DEF SharedHolder
<1>3. VerifiedOnOwnAssociation
  BY DEF VerifiedOnOwnAssociation, Verification, HandleOf
<1> QED
  BY <1>1, <1>2, <1>3

\* The client only makes calls that GssContext allows: what holds there of every
\* caller, as TypeCorrect and WrappersSound, holds of the client.
THEOREM ClientCallsContexts == AppSpec => Spec
<1>1. AppInv /\ [AppNext]_appVars => [Next]_vars
  BY IsContextStep
<1>2. AppInit => Init
  BY DEF AppInit
<1> QED
  BY AppInductive, <1>1, <1>2, PTL DEF AppSpec, Spec

\* What a step of the client may be.
InDiscipline ==
  \/ OneAtATime!Next
  \/ /\ Leftover # {}
     /\ \E c \in Ctx : Constructs(c)
     /\ \A d \in Ctx : ctxState[d] = "none" \/ Finished(d) \/ d \in Leftover

\* Every step of the client meets the guards that the disciplined caller adds: it
\* calls only an object that is not finished with, and constructs one when the
\* others are, or are left over from a run that an exception ended.
LEMMA DisciplinedStep ==
  ASSUME AppInv, [AppNext]_appVars
  PROVE  [InDiscipline]_vars
<1> USE Distinct, NullHandles DEF AppInv, ClientInv, WrapperInv
<1>1. nameLive \subseteq Name /\ LiveNative \subseteq Native
  BY DEF TypeOK, LiveNative
<1>2. CASE UNCHANGED vars
  BY <1>2
<1>a. ASSUME NEW c \in Ctx, MayConstruct(c), \A d \in Ctx : ctxState[d] = "none" \/ Finished(d)
      PROVE  OneAtATime!MayConstruct(c)
  BY <1>a DEF MayConstruct, OneAtATime!MayConstruct, Finished, OneAtATime!Finished
<1>b. ASSUME NEW c \in Ctx, MayCall(c), ~Finished(c)
      PROVE  OneAtATime!MayCall(c)
  BY <1>b DEF MayCall, OneAtATime!MayCall, Finished, OneAtATime!Finished
<1>3. CASE CreateContext
  <2>1. SUFFICES ASSUME NEW c \in FreshCtx, NEW peer \in FreshName, NewInitiator(c, peer, TRUE)
                 PROVE  InDiscipline
    BY <1>2, <1>3 DEF CreateContext
  <2>2. c \in Ctx /\ peer \in Name /\ peer \in nameLive /\ \A d \in Ctx : target[d] # peer
    BY <1>1, FreshOnes
  <2>3. \A d \in Ctx : ctxState[d] = "none" \/ Finished(d) \/ d \in Leftover
    BY <1>3 DEF CreateContext, OneByOne, Leftover, Finished
  <2>4. CASE \A d \in Ctx : ctxState[d] = "none" \/ Finished(d)
    <3>1. OneAtATime!NewInitiator(c, peer, TRUE)
      BY <1>a, <2>1, <2>2, <2>4 DEF NewInitiator, OneAtATime!NewInitiator
    <3> QED
      BY <2>2, <3>1 DEF OneAtATime!Next, InDiscipline
  <2>5. CASE Leftover # {}
    <3>1. Constructs(c)
      BY <2>1, <2>2 DEF NewInitiator, MayConstruct, Constructs, TypeOK
    <3> QED
      BY <2>2, <2>3, <2>5, <3>1 DEF InDiscipline
  <2> QED
    BY <2>3, <2>4, <2>5
<1> USE DEF InDiscipline
<1>4. CASE CallInit
  <2>1. context \in Ctx /\ ~Finished(context) /\ ctxState[context] # "DONE"
    BY <1>4, AtWork DEF CallInit, Handshake, AtStep, OneByOne, Finished
  <2>2. \/ \E result \in Live, n \in Native : InitSecContext(context, result, n)
        \/ InitSecContextThrows(context)
    BY <1>1, <1>4, FreshOnes DEF CallInit
  <2>3. MayEstablish(context) => OneAtATime!MayEstablish(context)
    BY <1>b, <2>1 DEF MayEstablish, OneAtATime!MayEstablish
  <2>4. CASE InitSecContextThrows(context)
    <3>1. OneAtATime!InitSecContextThrows(context)
      BY <2>3, <2>4
         DEF InitSecContextThrows, OneAtATime!InitSecContextThrows, NativeFailure,
         OneAtATime!NativeFailure, ContextTmp, OneAtATime!ContextTmp, LiveNative,
         OneAtATime!LiveNative, Live, OneAtATime!Live
    <3> QED
      BY <2>1, <3>1 DEF OneAtATime!Next
  <2>5. ASSUME NEW result \in Live, NEW n \in Native, InitSecContext(context, result, n)
        PROVE  OneAtATime!Next
    <3>1. OneAtATime!InitSecContext(context, result, n)
      BY <2>3, <2>5 DEF InitSecContext, OneAtATime!InitSecContext, NativeSuccess,
         OneAtATime!NativeSuccess, Advance, OneAtATime!Advance, ContextTmp, OneAtATime!ContextTmp
    <3> QED
      BY <2>1, <3>1 DEF OneAtATime!Next, Live, OneAtATime!Live
  <2> QED
    BY <2>2, <2>4, <2>5
<1>5. CASE InspectAndExport
  <2>1. context \in Ctx /\ ~Finished(context)
    BY <1>5, AtWork DEF InspectAndExport, Handshake, AtStep, OneByOne, Finished
  <2>2. Export(context) => OneAtATime!Export(context)
    BY <1>b, <2>1
       DEF Export, OneAtATime!Export, HandleOf, OneAtATime!HandleOf, DeleteNative,
       OneAtATime!DeleteNative
  <2> QED
    BY <1>2, <1>5, <2>1, <2>2 DEF InspectAndExport, OneAtATime!Next
<1>6. CASE Import
  <2>1. context \in Ctx /\ \A d \in Ctx : ctxState[d] = "none" \/ Finished(d) \/ d \in Leftover
    BY <1>6, AtWork DEF Import, AtStep, OneByOne, Leftover, Finished
  <2>2. SUFFICES ASSUME NEW c \in FreshCtx, NEW n \in FreshNative,
                        ImportContext(c, context, n) \/ ImportThrows(c, context, n)
                 PROVE  InDiscipline
    BY <1>2, <1>6 DEF Import
  <2>3. c \in Ctx /\ n \in Native
    BY FreshOnes
  <2>4. CASE \A d \in Ctx : ctxState[d] = "none" \/ Finished(d)
    <3>1. ImportNative(c, context, n) => OneAtATime!ImportNative(c, context, n)
      BY <1>a, <2>3, <2>4 DEF ImportNative, OneAtATime!ImportNative
    <3>2. \/ OneAtATime!ImportContext(c, context, n)
          \/ OneAtATime!ImportThrows(c, context, n)
      BY <2>2, <3>1
         DEF ImportContext, OneAtATime!ImportContext, ImportThrows, OneAtATime!ImportThrows
    <3> QED
      BY <2>1, <2>3, <3>2 DEF OneAtATime!Next
  <2>5. CASE Leftover # {}
    <3>1. Constructs(c)
      BY <2>2, <2>3 DEF ImportContext, ImportThrows, ImportNative, MayConstruct, Constructs, TypeOK
    <3> QED
      BY <2>1, <2>3, <2>5, <3>1
  <2> QED
    BY <2>1, <2>4, <2>5
<1>7. CASE Wrap \/ VerifyMIC
  <2>1. context \in Ctx /\ ~Finished(context)
    BY <1>7, AtWork DEF Wrap, VerifyMIC, Messages, AtStep, OneByOne, Finished
  <2>2. PerMessage(context) => OneAtATime!PerMessage(context)
    BY <1>b, <2>1 DEF PerMessage, OneAtATime!PerMessage, HandleOf, OneAtATime!HandleOf
  <2> QED
    BY <1>2, <1>7, <2>1, <2>2 DEF Wrap, VerifyMIC, OneAtATime!Next
<1>8. CASE Shutdown
  <2>1. CASE context # Nobody /\ Dispose(context)
    <3>1. context \in Ctx /\ HandleOf(context) \in Native /\ ctxState[context] # "DISPOSED"
      BY <2>1, AtWork DEF Dispose, LiveNative
    <3>2. ~Finished(context)
      BY <3>1 DEF OneByOne, Finished
    <3>3. OneAtATime!Dispose(context)
      BY <1>b, <2>1, <3>1, <3>2 DEF Dispose, OneAtATime!Dispose, DeleteNative,
         OneAtATime!DeleteNative, HandleOf, OneAtATime!HandleOf, LiveNative,
         OneAtATime!LiveNative, Live, OneAtATime!Live
    <3> QED
      BY <3>1, <3>3 DEF OneAtATime!Next
  <2>2. CASE context # Nobody /\ DisposeThrows(context)
    <3>1. context \in Ctx
      BY <2>2, AtWork
    <3>2. OneAtATime!DisposeThrows(context)
      BY <2>2 DEF DisposeThrows, OneAtATime!DisposeThrows, HandleOf, OneAtATime!HandleOf,
         LiveNative, OneAtATime!LiveNative, Live, OneAtATime!Live
    <3> QED
      BY <3>1, <3>2 DEF OneAtATime!Next
  <2> QED
    BY <1>2, <1>8, <2>1, <2>2 DEF Shutdown
<1> QED
  BY <1>2, <1>3, <1>4, <1>5, <1>6, <1>7, <1>8
     DEF AppNext, appVars, Client, Server, Start, ConnectToServer, InitializeGSS, WriteHandshake,
         ReadToken, SendMessage, CloseConnection, ServerAnswers, ServerCloses

\* The client is a disciplined caller, one whose calls are sound by DisciplinedSound,
\* in every step but those that construct a context while one is left over from a
\* run that an exception ended; and even then every other object is finished with.
THEOREM ClientDisciplined == AppSpec => RefinesDiscipline
<1>1. AppInit => OneAtATime!Init
  BY DEF AppInit, Init, OneAtATime!Init, Wrapper, OneAtATime!Wrapper
<1>2. AppInv /\ [AppNext]_appVars => [InDiscipline]_vars
  BY DisciplinedStep
<1>3. AppSpec => OneAtATime!Init /\ [][InDiscipline]_vars
  BY AppInductive, <1>1, <1>2, PTL DEF AppSpec
<1> QED
  BY <1>3 DEF RefinesDiscipline, InDiscipline

\* Before the first exception the client takes its steps in turn.
LEMMA ClientInTurn ==
  ASSUME AppInv, [AppNext]_appVars, aborted = {}
  PROVE  [InTurn]_vars
<1> USE NullHandles DEF AppInv, ClientInv, WrapperInv
<1>1. nameLive \subseteq Name /\ LiveNative \subseteq Native
  BY DEF TypeOK, LiveNative
<1>2. CASE UNCHANGED vars
  BY <1>2
<1>3. CASE CreateContext
  <2>1. SUFFICES ASSUME NEW c \in FreshCtx, NEW peer \in FreshName, NewInitiator(c, peer, TRUE)
                 PROVE  InTurn
    BY <1>2, <1>3 DEF CreateContext
  <2>2. \A d \in Ctx : ~Active(d)
    BY <1>3 DEF CreateContext, OneByOne, Active
  <2> QED
    BY <1>1, <2>1, <2>2, FreshOnes DEF InTurn
<1>4. CASE CallInit
  <2>1. context \in Ctx /\ Active(context) /\ ctxState[context] # "DONE"
    BY <1>4, AtWork DEF CallInit, Handshake, AtStep, OneByOne, Active, Finished
  <2>2. \/ \E result \in Live, n \in Native : InitSecContext(context, result, n)
        \/ InitSecContextThrows(context)
    BY <1>1, <1>4, FreshOnes DEF CallInit
  <2> QED
    BY <2>1, <2>2 DEF InTurn
<1>5. CASE InspectAndExport
  <2>1. context \in Ctx /\ Active(context)
    BY <1>5, AtWork DEF InspectAndExport, Handshake, AtStep, OneByOne, Active, Finished
  <2> QED
    BY <1>2, <1>5, <2>1 DEF InspectAndExport, InTurn
<1>6. CASE Import
  <2>1. context \in Ctx /\ \A d \in Ctx : ~Active(d)
    BY <1>6, AtWork DEF Import, AtStep, OneByOne, Active, Finished
  <2>2. \/ UNCHANGED vars
        \/ \E c \in FreshCtx, n \in FreshNative :
             ImportContext(c, context, n) \/ ImportThrows(c, context, n)
    BY <1>6 DEF Import
  <2> QED
    BY <1>2, <2>1, <2>2, FreshOnes DEF InTurn
<1>7. CASE Wrap \/ VerifyMIC
  <2>1. context \in Ctx /\ Active(context)
    BY <1>7, AtWork DEF Wrap, VerifyMIC, Messages, AtStep, OneByOne, Active, Finished
  <2> QED
    BY <1>2, <1>7, <2>1 DEF Wrap, VerifyMIC, InTurn
<1>8. CASE Shutdown
  <2>1. CASE context # Nobody /\ Dispose(context)
    <3>1. context \in Ctx /\ HandleOf(context) \in Native /\ ctxState[context] # "DISPOSED"
      BY <2>1, AtWork DEF Dispose, LiveNative
    <3>2. Active(context)
      BY <2>1, <3>1 DEF OneByOne, Active, Finished, Dispose, MayCall
    <3> QED
      BY <2>1, <3>1, <3>2 DEF InTurn
  <2>2. CASE context # Nobody /\ DisposeThrows(context)
    BY <2>2, AtWork DEF InTurn
  <2> QED
    BY <1>2, <1>8, <2>1, <2>2 DEF Shutdown
<1> QED
  BY <1>2, <1>3, <1>4, <1>5, <1>6, <1>7, <1>8
     DEF AppNext, appVars, Client, Server, Start, ConnectToServer, InitializeGSS, WriteHandshake,
         ReadToken, SendMessage, CloseConnection, ServerAnswers, ServerCloses

\* The record of the aborted runs only grows.
LEMMA AbortedGrows ==
  ASSUME [AppNext]_appVars PROVE aborted \subseteq aborted'
BY DEF AppNext, appVars, history, Client, Server, Start, ConnectToServer, InitializeGSS,
   CreateContext, CallInit, WriteHandshake, ReadToken, InspectAndExport, Import, Wrap,
   SendMessage, VerifyMIC, Shutdown, CloseConnection, ServerAnswers, ServerCloses,
   Continue, Fail, Throw

\* What GssContext promises to those who work on one context at a time holds of
\* the client's contexts, over any number of runs with any failures, until an
\* exception ends one: no object of an earlier run lends its association to a
\* later one, no live context is left to nobody, every handshake begins afresh.
THEOREM ClientSound ==
  AppSpec => [](aborted = {} =>
                  /\ OneAtATime!Isolation /\ OneAtATime!FreshStart /\ OneAtATime!NoLeak
                  /\ OneAtATime!StateAgrees /\ OneAtATime!OwnMessages)
<1> DEFINE Owned == aborted = {} => Ownership
           Sound == /\ OneAtATime!Isolation /\ OneAtATime!FreshStart /\ OneAtATime!NoLeak
                    /\ OneAtATime!StateAgrees /\ OneAtATime!OwnMessages
<1>1. AppInit => Owned
  BY OwnershipInit DEF AppInit
<1>2. AppInv /\ Owned /\ [AppNext]_appVars => Owned'
  <2> SUFFICES ASSUME AppInv, Ownership, aborted = {}, [AppNext]_appVars
               PROVE  Ownership'
    BY AbortedGrows
  <2> QED
    BY ClientInTurn, OwnershipStep DEF AppInv, DisciplineInv
<1>3. AppInv /\ Owned => (aborted = {} => Sound)
  BY Promises DEF AppInv, DisciplineInv
<1> HIDE DEF Owned, Sound
<1>4. AppSpec => [](aborted = {} => Sound)
  BY AppInductive, <1>1, <1>2, <1>3, PTL DEF AppSpec
<1> QED
  BY <1>4 DEF Sound
=============================================================================
