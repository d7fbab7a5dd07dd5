----------------------------- MODULE ClientApp -----------------------------
(***************************************************************************)
(* The sample client of KerberosAppActivity, run after run, on top of the  *)
(* security contexts of GssContext: connect, acquire a credential,         *)
(* establish a context, export and re-import it, exchange one message,     *)
(* shut down.                                                              *)
(*                                                                         *)
(* Everything runs on the UI thread, one step of startClient() at a time;  *)
(* the only concurrency is with the server and the network.  What makes    *)
(* the code hard is that its objects are static fields which outlive a     *)
(* run, that a run can end at almost every line, and that an unchecked     *)
(* null turns a lost connection into an exception which skips the shutdown.*)
(*                                                                         *)
(* GssContext is extended with Disciplined = FALSE: whether the client     *)
(* really keeps to one context at a time is what this module examines.     *)
(***************************************************************************)
EXTENDS GssContext

CONSTANTS
  MaxRuns,       \* bound: presses of the `Start Client App' button
  MaxLegs        \* bound: initSecContext calls of one handshake

ASSUME Bounds == MaxRuns \in Nat /\ MaxLegs \in Nat \ {0}

VARIABLES
  pc,            \* the step of startClient() to take next, "idle" outside it
  context,       \* static: the GSSContext of the last run that created one
  clientCred,    \* static: "null", "live" or "disposed"
  clientSocket,  \* static: the run whose connection it is, 0 for null
  streams,       \* static: the run whose connection serverIn and serverOut are of
  open,          \* the runs whose connection is still open
  link,          \* has the server closed the current connection?
  owes,          \* has the server a token to answer?
  inbox,         \* the server's answer, not yet read
  inToken,       \* what ReadToken returned
  ret,           \* the local return code
  verified,      \* did verifyMIC succeed in this run?
  report,        \* what the user sees when the run has ended
  runs,          \* the runs begun
  legs,          \* the initSecContext calls of this handshake
  aborted,       \* history: the runs that an exception ended
  abandoned      \* history: the contexts in `context' at that moment

net     == <<open, link, owes, inbox>>
sockets == <<clientSocket, streams>>
statics == <<context, clientCred, sockets>>
local   == <<inToken, ret, verified, legs>>
history == <<report, runs, aborted, abandoned>>

appVars == <<vars, pc, net, statics, local, history>>

Token == {"none", "empty", "good", "bad"}

AppInit ==
  /\ Init
  /\ pc = "idle" /\ context = Nobody /\ clientCred = "null"
  /\ clientSocket = 0 /\ streams = 0
  /\ open = {} /\ link = "closed" /\ owes = FALSE /\ inbox = "none"
  /\ inToken = "none" /\ ret = "SUCCESS" /\ verified = FALSE /\ legs = 0
  /\ report = "none" /\ runs = 0 /\ aborted = {} /\ abandoned = {}

\* Objects, native contexts and names are interchangeable, so which unused one
\* a constructor or the library takes does not matter: one, while there is any.
OneOf(S) == {s \in S : s = CHOOSE t \in S : TRUE}

FreshCtx    == OneOf({c \in Ctx : role[c] = "none"})
FreshNative == OneOf({n \in Native : native[n] = "unused"})
FreshName   == OneOf({p \in nameLive : \A d \in Ctx : target[d] # p})

-----------------------------------------------------------------------------
(* How a step ends *)

\* Go on with the next statement.
Continue(next) == pc' = next /\ UNCHANGED <<ret, history>>

\* A method caught its GSSException or IOException and returned FAILURE.
Fail == pc' = "shutdown" /\ ret' = "FAILURE" /\ UNCHANGED history

\* An exception leaves startClient(): the button listener prints `Caught
\* Exception' and nothing else, and what is left of the shutdown is not done.
Throw ==
  /\ pc' = "idle" /\ report' = "exception"
  /\ aborted' = aborted \cup {runs}
  /\ abandoned' = abandoned \cup ({context} \ {Nobody})
  /\ UNCHANGED <<ret, runs>>

-----------------------------------------------------------------------------
(* startClient, connectToServer, initializeGSS *)

Start ==
  /\ pc = "idle" /\ runs < MaxRuns
  /\ pc' = "connect" /\ runs' = runs + 1 /\ report' = "none"
  /\ ret' = "SUCCESS" /\ verified' = FALSE /\ inToken' = "empty" /\ legs' = 0
  /\ UNCHANGED <<vars, net, statics, aborted, abandoned>>

ConnectKeepingSocket ==        \* mutant: the fields of an earlier run are kept
  /\ pc = "connect"
  /\ open' = open \cup {runs}
  /\ clientSocket' = IF clientSocket = 0 THEN runs ELSE clientSocket
  /\ streams' = clientSocket'
  /\ link' = "up" /\ owes' = FALSE /\ inbox' = "none"
  /\ Continue("initialize")
  /\ UNCHANGED <<vars, context, clientCred, inToken, verified, legs>>

\* No connection; or one whose streams are not to be had: then the fields keep
\* those of an earlier run.
ConnectToServer ==
  /\ pc = "connect"
  /\ \/ /\ open' = open \cup {runs} /\ clientSocket' = runs
        /\ link' = "up" /\ owes' = FALSE /\ inbox' = "none"
        /\ \/ streams' = runs /\ Continue("initialize")
           \/ UNCHANGED streams /\ Fail
     \/ Fail /\ UNCHANGED <<net, sockets>>
  /\ UNCHANGED <<vars, context, clientCred, inToken, verified, legs>>

\* The credential may have been created before a later call of the block throws.
InitializeGSS ==
  /\ pc = "initialize"
  /\ \/ clientCred' = "live" /\ Continue("create")
     \/ clientCred' \in {clientCred, "live"} /\ Fail
  /\ UNCHANGED <<vars, net, context, sockets, inToken, verified, legs>>

-----------------------------------------------------------------------------
(* establishContext *)

CreateContext ==
  /\ pc = "create"
  /\ \/ \E c \in FreshCtx, peer \in FreshName :
          NewInitiator(c, peer, TRUE) /\ context' = c /\ Continue("init")
     \/ Fail /\ UNCHANGED <<vars, context>>
  /\ UNCHANGED <<net, clientCred, sockets, inToken, verified, legs>>

\* The library takes the first, empty token or a sound one of the server.
CallInit ==
  /\ pc = "init"
  /\ \/ \E result \in Live, n \in FreshNative \cup LiveNative, sends \in BOOLEAN :
          /\ inToken # "bad"
          /\ result = "half" => sends /\ legs + 1 < MaxLegs
          /\ InitSecContext(context, result, n)
          /\ Continue(IF sends THEN "write" ELSE "inspect")
     \/ InitSecContextThrows(context) /\ Fail
  /\ legs' = legs + 1
  /\ UNCHANGED <<net, statics, inToken, verified>>

\* A connection the server has closed may still swallow a token.
Written(asks) == owes' = (asks /\ link = "up") /\ UNCHANGED <<open, link, inbox>>

WriteError == link = "closed" /\ UNCHANGED net

WriteHandshakeReadingOn ==       \* mutant: reads also once it is established
  /\ pc = "write"
  /\ Written(ctxState[context] # "DONE") \/ WriteError
  /\ Continue("read")
  /\ UNCHANGED <<vars, statics, inToken, verified, legs>>

\* An error of WriteToken is only logged here; the loop reads on.
WriteHandshake ==
  /\ pc = "write"
  /\ Written(ctxState[context] # "DONE") \/ WriteError
  /\ Continue(IF ctxState[context] = "DONE" THEN "inspect" ELSE "read")
  /\ UNCHANGED <<vars, statics, inToken, verified, legs>>

\* ReadToken: the server's answer; or, from a closed connection, null when the
\* stream ends before a header, and filler when it ends later (see TokenFraming).
Received(token) ==
  \/ /\ inbox # "none" /\ token = inbox
     /\ inbox' = "none" /\ UNCHANGED <<open, link, owes>>
  \/ /\ inbox = "none" /\ link = "closed"
     /\ token \in {"none", "bad"}
     /\ UNCHANGED net

\* Both callers take the length of what ReadToken returned: a null throws.
ReadToken(at, next) ==
  /\ pc = at
  /\ \E token \in Token :
       /\ Received(token)
       /\ inToken' = token
       /\ IF token = "none" THEN Throw ELSE Continue(next)
  /\ UNCHANGED <<vars, statics, verified, legs>>

\* The getters between the loop and the export, and the export itself.
InspectAndExport ==
  /\ pc = "inspect"
  /\ \/ Export(context) /\ Continue("import")
     \/ Fail /\ UNCHANGED vars
  /\ UNCHANGED <<net, statics, inToken, verified, legs>>

\* createContext(exportedContext): only success replaces the static field.
Import ==
  /\ pc = "import"
  /\ \/ \E c \in FreshCtx, n \in FreshNative :
          ImportContext(c, context, n) /\ context' = c /\ Continue("wrap")
     \/ /\ \/ UNCHANGED vars
           \/ \E c \in FreshCtx, n \in FreshNative : ImportThrows(c, context, n)
        /\ Fail /\ UNCHANGED context
  /\ UNCHANGED <<net, clientCred, sockets, inToken, verified, legs>>

-----------------------------------------------------------------------------
(* doCommunication *)

Wrap ==
  /\ pc = "wrap"
  /\ \/ PerMessage(context) /\ Continue("send")
     \/ Fail /\ UNCHANGED vars
  /\ UNCHANGED <<net, statics, inToken, verified, legs>>

\* After an error of WriteToken the method returns SUCCESS.
SendMessage ==
  /\ pc = "send"
  /\ \/ Written(TRUE) /\ Continue("await")
     \/ WriteError /\ Continue("shutdown")
  /\ UNCHANGED <<vars, statics, inToken, verified, legs>>

VerifyMIC ==
  /\ pc = "verify"
  /\ \/ /\ inToken = "good" /\ PerMessage(context)
        /\ verified' = TRUE /\ Continue("shutdown")
     \/ Fail /\ UNCHANGED <<vars, verified>>
  /\ UNCHANGED <<net, statics, inToken, legs>>

-----------------------------------------------------------------------------
(* The shutdown at the end of startClient *)

ShutdownSkipsContext ==       \* mutant: the new context is never disposed of
  /\ pc = "shutdown" /\ context # Nobody
  /\ Continue("close")
  /\ UNCHANGED <<vars, net, statics, inToken, verified, legs>>

\* context is null in a first run that created none; dispose() does nothing to an
\* object disposed of before, and may throw.
Shutdown ==
  /\ pc = "shutdown"
  /\ \/ context = Nobody /\ Throw /\ UNCHANGED vars
     \/ /\ context # Nobody
        /\ \/ ctxState[context] = "DISPOSED" /\ Continue("close") /\ UNCHANGED vars
           \/ Dispose(context) /\ Continue("close")
           \/ DisposeThrows(context) /\ Throw
  /\ UNCHANGED <<net, statics, inToken, verified, legs>>

Closed ==
  open' = open \ {clientSocket, streams} /\ link' = "closed" /\ owes' = FALSE /\ inbox' = "none"

\* A live credential may fail to be released, and close() may fail, before it has
\* closed the connection or after.
CloseConnection ==
  /\ pc = "close"
  /\ \/ /\ clientCred' = "disposed" /\ Closed
        /\ pc' = "idle" /\ report' = ret
        /\ UNCHANGED <<ret, runs, aborted, abandoned>>
     \/ clientCred = "live" /\ Throw /\ UNCHANGED <<clientCred, net>>
     \/ clientCred' = "disposed" /\ (UNCHANGED net \/ Closed) /\ Throw
  /\ UNCHANGED <<vars, context, sockets, inToken, verified, legs>>

-----------------------------------------------------------------------------
(* The server *)

ServerAnswers ==
  /\ owes /\ link = "up"
  /\ inbox' \in {"good", "bad"} /\ owes' = FALSE
  /\ UNCHANGED <<vars, pc, open, link, statics, local, history>>

ServerCloses ==
  /\ link = "up"
  /\ link' = "closed" /\ owes' = FALSE
  /\ UNCHANGED <<vars, pc, open, inbox, statics, local, history>>

-----------------------------------------------------------------------------
Client ==
  \/ ConnectToServer \/ InitializeGSS
  \/ CreateContext \/ CallInit \/ WriteHandshake \/ ReadToken("read", "init")
  \/ InspectAndExport \/ Import
  \/ Wrap \/ SendMessage \/ ReadToken("await", "verify") \/ VerifyMIC
  \/ Shutdown \/ CloseConnection

Server == ServerAnswers \/ ServerCloses

AppNext == Start \/ Client \/ Server

AppSpec == AppInit /\ [][AppNext]_appVars

\* A step of startClient() that can be taken is taken: the UI thread does
\* nothing else meanwhile.  A server that owes an answer gives it, unless it closes.
FairSpec == AppSpec /\ WF_appVars(Client) /\ WF_appVars(ServerAnswers)

-----------------------------------------------------------------------------
(* Properties *)

\* The contexts of a client that works on one at a time.
OneAtATime == INSTANCE GssContext WITH Disciplined <- TRUE

\* The objects that an exception abandoned and that no dispose() or export() has
\* finished with since.
Leftover == abandoned \ (closed \cup exported)

Constructs(c) == role[c] = "none" /\ role'[c] # "none"

\* Every step of the client, over any number of runs, whichever calls fail and
\* whatever the server does, is a step of the disciplined caller, for whom the
\* properties of GssContext hold; but while an object is left over from a run
\* that an exception ended, the client constructs the next all the same.
RefinesDiscipline ==
  /\ OneAtATime!Init
  /\ [][ \/ OneAtATime!Next
         \/ /\ Leftover # {}
            /\ \E c \in Ctx : Constructs(c)
            /\ \A d \in Ctx : ctxState[d] = "none" \/ Finished(d) \/ d \in Leftover ]_vars

\* Between runs the only connections open are those of runs that an exception
\* ended, and the only native contexts live, but for those of a failed import, are
\* of the objects abandoned then: a handshake left half done behind the shared
\* wrapper, so one at most, and imported contexts, at most one for each object.
CleanBetweenRuns ==
  pc = "idle" =>
    /\ open \subseteq aborted
    /\ \A n \in LiveNative \ orphans :
         /\ creator[n] \in abandoned
         /\ \/ native[n] = "half" /\ cell[Shared] = n
            \/ native[n] = "open" /\ cell[creator[n]] = n

\* A handshake begins on a null handle, also after failed runs; or, when an
\* exception ended an earlier run in the middle of its own handshake, on that
\* half done one: never on an established context or a deleted one.
FreshHandshake ==
  pc = "init" /\ ctxState[context] = "UNINIT" =>
    \/ cell[Shared] = NoContext
    \/ \E n \in Native :
         cell[Shared] = n /\ native[n] = "half" /\ creator[n] \in abandoned

\* The reply a run verifies belongs to the association that this run imported:
\* the static `context' never lets an earlier run's association answer.
VerifiedOnOwnAssociation ==
  verified /\ pc = "shutdown" =>
    /\ role[context] = "imported" /\ creator[HandleOf(context)] = context
    /\ clientSocket = runs /\ context \notin abandoned

\* Every run ends, whatever fails and whatever the server does.
RunEnds == pc # "idle" ~> pc = "idle"
=============================================================================
