--------------------------- MODULE KrbToolsProofs ---------------------------
(***************************************************************************)
(* What the buttons of the tools tell the user, for any principals and any *)
(* number of Activities and calls: however the steps of a tool, the death  *)
(* of the process, late onDestroy calls and expiring tickets fall.         *)
(***************************************************************************)
EXTENDS KrbTools, TLAPS

\* Activities are numbered as they are created; the newest may be on screen, and
\* then is not to be destroyed; only an Activity calls a tool.
Numbers ==
  /\ created \in 0 .. MaxActivities
  /\ shown \in {0, created} /\ finishing \subseteq 1 .. created
  /\ shown \notin finishing
  /\ caller \in 0 .. created /\ cachedObj \in 0 .. created
  /\ globalRefs \in 0 .. MaxCalls
  /\ tool # "none" => caller # 0

\* The other variables keep to their values.
Words ==
  /\ process \in {"alive", "exited", "crashed", "killed"}
  /\ tool \in Tool \cup {"none"}
  /\ pc \in {"idle", "argv", "begin", "getcreds", "initialize", "store", "return"}
  /\ field \in Text
  /\ me \in Principal /\ ret \in {0, 1}
  /\ message \in {"none", "nothing", "Got Ticket!", "Failed to get Ticket!",
                  "Failed to find Ticket!", "Finished!"}
  /\ file \in {"absent", "torn", "sound"} /\ owner \in Principal
  /\ tgt \in {"none", "valid", "expired"}

Switches == keytab \in BOOLEAN
Holder == service \in Principal \cup {"none"}

\* A tool runs in a living process for the Activity that text goes to.  Either
\* that one is on screen, cleared, or it is being destroyed.
Running == pc # "idle" =>
  /\ process = "alive" /\ tool \in Tool /\ cachedObj = caller
  /\ \/ caller = shown /\ message = "none"
     \/ tool = "kdestroy" /\ caller \in finishing

\* kinit's client is the principal typed, and the cache holds what the step
\* says it has written.
KinitSteps == tool = "kinit" =>
  /\ pc \in {"getcreds", "initialize", "store"} /\ field \in Principal => me = field
  /\ pc = "store" => file = "sound" /\ owner = me
  /\ pc = "return" /\ ret = 0 =>
       /\ file = "sound" /\ owner = me /\ tgt # "none"
       /\ field \in Principal => owner = field

KdestroySteps == tool = "kdestroy" /\ pc = "return" /\ ret = 0 => file = "absent"

\* While kinit rewrites the cache it holds no ticket.
Rewritten == pc \in {"initialize", "store"} => tgt = "none" /\ service = "none"

\* The parts that say what a step of a tool has done.
Told ==
  /\ Running /\ KinitSteps /\ KdestroySteps /\ GotTicket /\ Destroyed
  /\ Rewritten /\ ServiceOfOwner

\* Inductive.
ToolsInv == Numbers /\ Words /\ Switches /\ Holder /\ Told

\* The parts that hold the types.
LEMMA TypeParts ==
  ASSUME Numbers, Words, Switches, Holder
  PROVE  TypeOK
<1>1. /\ shown \in 0 .. MaxActivities /\ created \in 0 .. MaxActivities
      /\ finishing \subseteq 1 .. MaxActivities
      /\ cachedObj \in 0 .. MaxActivities /\ globalRefs \in 0 .. MaxCalls
      /\ caller \in 0 .. MaxActivities
  BY Parameters DEF Numbers
<1>2. keytab \in BOOLEAN /\ service \in Principal \cup {"none"}
  BY DEF Switches, Holder
<1>3. /\ process \in {"alive", "exited", "crashed", "killed"}
      /\ tool \in Tool \cup {"none"}
      /\ pc \in {"idle", "argv", "begin", "getcreds", "initialize", "store", "return"}
      /\ field \in Text
      /\ me \in Principal /\ ret \in {0, 1}
      /\ message \in {"none", "nothing", "Got Ticket!", "Failed to get Ticket!",
                      "Failed to find Ticket!", "Finished!"}
      /\ file \in {"absent", "torn", "sound"} /\ owner \in Principal
      /\ tgt \in {"none", "valid", "expired"}
  BY DEF Words
<1> QED
  BY <1>1, <1>2, <1>3, Zenon DEF TypeOK

\* What a listener may show, and when.
LEMMA MessageTyped ==
  ASSUME NEW t \in Tool \cup {"none"}, NEW r \in {0, 1}
  PROVE  /\ Message(t, r) \in {"nothing", "Got Ticket!", "Failed to get Ticket!",
                               "Failed to find Ticket!", "Finished!"}
         /\ Message(t, r) = "Got Ticket!" => t = "kinit" /\ r = 0
         /\ t = "kdestroy" /\ Message(t, r) = "Finished!" => r = 0
  BY Zenon DEF Message

\* Activities and calls are counted by OnCreate, Press and OnDestroy only.
LEMMA NumbersStep ==
  ASSUME Numbers, [Next]_vars
  PROVE  Numbers'
<1>1. CASE OnCreate
  <2>1. /\ created < MaxActivities /\ shown' = created + 1 /\ created' = created + 1
        /\ UNCHANGED <<finishing, caller, cachedObj, globalRefs, tool>>
    BY <1>1 DEF OnCreate, jni, call
  <2> QED
    BY <2>1, Parameters DEF Numbers
<1>2. CASE Leave
  <2>1. /\ shown # 0 /\ finishing' = finishing \cup {shown} /\ shown' = 0
        /\ UNCHANGED <<created, caller, cachedObj, globalRefs, tool>>
    BY <1>2 DEF Leave, jni, call
  <2> QED
    BY <2>1, Parameters DEF Numbers
<1>3. CASE Kill \/ Crash \/ Usage \/ KlistExits \/ KdestroyExits
  <2>1. /\ finishing' = {} /\ shown' = 0
        /\ UNCHANGED <<created, caller, cachedObj, globalRefs, tool>>
    BY <1>3 DEF Kill, Crash, Usage, KlistExits, KdestroyExits, End, jni, call
  <2> QED
    BY <2>1, Parameters DEF Numbers
<1>4. CASE Restart
  <2>1. /\ tool' = "none" /\ caller' = 0 /\ cachedObj' = 0 /\ globalRefs' = 0
        /\ UNCHANGED <<shown, finishing, created>>
    BY <1>4 DEF Restart
  <2> QED
    BY <2>1, Parameters DEF Numbers
<1>5. CASE Press \/ OnDestroy
  <2>1. \E a \in {shown} \cup finishing :
          /\ a # 0 /\ caller' = a /\ cachedObj' = a
          /\ globalRefs < MaxCalls /\ globalRefs' = globalRefs + 1
    <3>1. CASE Press
      BY <3>1 DEF Press, NativeCall, CacheCaller
    <3>2. CASE OnDestroy
      <4>1. \A a \in finishing : a # 0
        BY DEF Numbers
      <4> QED
        BY <3>2, <4>1 DEF OnDestroy, NativeCall, CacheCaller
    <3> QED
      BY <1>5, <3>1, <3>2
  <2>2. UNCHANGED <<shown, finishing, created>>
    BY <1>5 DEF Press, OnDestroy, NativeCall
  <2> QED
    BY <2>1, <2>2, Parameters DEF Numbers
<1>6. CASE Listener
  <2>1. /\ finishing' \subseteq finishing
        /\ UNCHANGED <<shown, created, caller, cachedObj, globalRefs, tool>>
    BY <1>6 DEF Listener, jni, call
  <2> QED
    BY <2>1 DEF Numbers
<1>7. CASE \/ ParseOptions \/ K5Begin \/ GetCreds \/ InitializeCache \/ StoreCred
           \/ KlistDriver \/ KvnoDriver \/ KdestroyDriver \/ Expire \/ UNCHANGED vars
  <2>1. UNCHANGED <<shown, finishing, created, caller, cachedObj, globalRefs, tool>>
    BY <1>7 DEF ParseOptions, K5Begin, GetCreds, InitializeCache, StoreCred, KlistDriver,
       KvnoDriver, KdestroyDriver, Expire, Return, app, jni, call, vars
  <2> QED
    BY <2>1 DEF Numbers
<1> QED
  BY <1>1, <1>2, <1>3, <1>4, <1>5, <1>6, <1>7 DEF Next, ToolStep

\* Each assignment is of a value of its variable.
LEMMA WordsStep ==
  ASSUME Words, [Next]_vars
  PROVE  Words'
<1> USE DEF Words, app, jni, call, cache
<1>1. CASE OnCreate
  <2>1. message' = "none" /\ UNCHANGED <<process, tool, pc, field, me, ret, file, owner, tgt>>
    BY <1>1, Zenon DEF OnCreate
  <2>2. Words
    OBVIOUS
  <2> QED
    BY ONLY <2>1, <2>2, ZenonT(60) DEF Words
<1>2. CASE Leave
  <2>1. UNCHANGED <<process, tool, pc, field, me, ret, message, file, owner, tgt>>
    BY <1>2, Zenon DEF Leave
  <2>2. Words
    OBVIOUS
  <2> QED
    BY ONLY <2>1, <2>2, ZenonT(60) DEF Words
<1>3. CASE Kill \/ Crash \/ Usage \/ KlistExits \/ KdestroyExits
  BY <1>3, ZenonT(60) DEF Kill, Crash, Usage, KlistExits, KdestroyExits, End
<1>4. CASE Restart
  BY <1>4, ZenonT(60) DEF Restart
<1>5. CASE Press
  BY <1>5, ZenonT(60) DEF Press, NativeCall
<1>6. CASE OnDestroy
  BY <1>6, ZenonT(60) DEF OnDestroy, NativeCall, Tool, Text
<1>7. CASE Listener
  <2>1. message' = message \/ message' = Message(tool, ret)
    BY <1>7 DEF Listener
  <2>2. Message(tool, ret) \in {"nothing", "Got Ticket!", "Failed to get Ticket!",
                                "Failed to find Ticket!", "Finished!"}
    BY MessageTyped
  <2>3. pc' = "idle" /\ UNCHANGED <<process, tool, field, me, ret, file, owner, tgt>>
    BY <1>7 DEF Listener
  <2> QED
    BY <2>1, <2>2, <2>3, ZenonT(60)
<1>8. CASE ParseOptions
  BY <1>8, ZenonT(60) DEF ParseOptions
<1>9. CASE Expire
  BY <1>9, ZenonT(60) DEF Expire
<1>10. CASE K5Begin
  BY <1>10, Parameters, ZenonT(60) DEF K5Begin, Return
<1>11. CASE GetCreds
  BY <1>11, ZenonT(60) DEF GetCreds, Return
<1>12. CASE InitializeCache
  BY <1>12, ZenonT(60) DEF InitializeCache, Return
<1>13. CASE StoreCred
  BY <1>13, ZenonT(60) DEF StoreCred, Return
<1>14. CASE KlistDriver
  BY <1>14, ZenonT(60) DEF KlistDriver, Return
<1>15. CASE KvnoDriver
  BY <1>15, ZenonT(60) DEF KvnoDriver, Return
<1>16. CASE KdestroyDriver
  BY <1>16, ZenonT(60) DEF KdestroyDriver, Return
<1>17. CASE UNCHANGED vars
  <2>1. UNCHANGED <<process, tool, pc, field, me, ret, message, file, owner, tgt>>
    BY ONLY <1>17, Zenon DEF vars, app, jni, call, cache
  <2>2. Words
    OBVIOUS
  <2> QED
    BY ONLY <2>1, <2>2, ZenonT(60) DEF Words
<1> HIDE DEF Words
<1> QED
  BY <1>1, <1>2, <1>3, <1>4, <1>5, <1>6, <1>7, <1>8, <1>9, <1>10, <1>11, <1>12,
     <1>13, <1>14, <1>15, <1>16, <1>17 DEF Next, ToolStep

\* What the remaining parts need of the numbers.
LEMMA Distinctness ==
  ASSUME Numbers
  PROVE  /\ shown \notin finishing /\ 0 \notin finishing
         /\ tool # "none" => caller # 0
         /\ shown # 0 => \A a \in finishing : a < shown
  BY DEF Numbers

\* A step of a tool, or anything that happens to it, keeps what was said true.
LEMMA ToldStep ==
  ASSUME Numbers, Words, Told, [Next]_vars
  PROVE  Told'
<1>1. /\ shown \notin finishing /\ 0 \notin finishing
      /\ tool # "none" => caller # 0
      /\ shown # 0 => \A a \in finishing : a < shown
  BY Distinctness
<1> USE <1>1 DEF Told, Running, KinitSteps, KdestroySteps, GotTicket, Destroyed,
        app, jni, call, cache
<1>2. CASE OnCreate
  BY <1>2 DEF Rewritten, ServiceOfOwner, OnCreate, Idle
<1>3. CASE Leave
  BY <1>3 DEF Rewritten, ServiceOfOwner, Leave, Idle
<1>4. CASE Kill \/ Crash \/ Usage \/ KlistExits \/ KdestroyExits
  BY <1>4 DEF Rewritten, ServiceOfOwner, Kill, Crash, Usage, KlistExits, KdestroyExits, End
<1>5. CASE Restart
  BY <1>5 DEF Rewritten, ServiceOfOwner, Restart
<1>6. CASE Press
  <2>1. Running'
    BY <1>6 DEF Press, NativeCall, CacheCaller, Idle
  <2>2. KinitSteps' /\ KdestroySteps'
    BY <1>6 DEF Press, NativeCall, CacheCaller, Idle
  <2>3. GotTicket' /\ Destroyed'
    BY <1>6 DEF Press, NativeCall, CacheCaller, Idle
  <2>4. Rewritten' /\ ServiceOfOwner'
    BY <1>6 DEF Press, NativeCall, CacheCaller, Idle, Rewritten, ServiceOfOwner
  <2> QED
    BY <2>1, <2>2, <2>3, <2>4
<1>7. CASE OnDestroy
  <2>1. Running'
    BY <1>7 DEF OnDestroy, NativeCall, CacheCaller, Tool, Idle
  <2>2. KinitSteps' /\ KdestroySteps'
    BY <1>7 DEF OnDestroy, NativeCall, CacheCaller, Tool, Idle
  <2>3. GotTicket' /\ Destroyed'
    BY <1>7 DEF OnDestroy, NativeCall, CacheCaller, Tool, Idle
  <2>4. Rewritten' /\ ServiceOfOwner'
    BY <1>7 DEF OnDestroy, NativeCall, CacheCaller, Tool, Idle, Rewritten, ServiceOfOwner
  <2> QED
    BY <2>1, <2>2, <2>3, <2>4
<1>8. CASE Listener
  <2>1. /\ Message(tool, ret) = "Got Ticket!" => tool = "kinit" /\ ret = 0
        /\ tool = "kdestroy" /\ Message(tool, ret) = "Finished!" => ret = 0
    BY MessageTyped DEF Words
  <2> QED
    BY <1>8, <2>1 DEF Listener, Rewritten, ServiceOfOwner
<1>9. CASE Expire
  BY <1>9 DEF Rewritten, ServiceOfOwner, Expire
<1>10. CASE ParseOptions
  BY <1>10 DEF Rewritten, ServiceOfOwner, ParseOptions
<1>11. CASE K5Begin
  <2>1. Running'
    BY <1>11 DEF K5Begin, At, Return
  <2>2. KinitSteps' /\ KdestroySteps'
    BY <1>11 DEF K5Begin, At, Return
  <2>3. GotTicket' /\ Destroyed'
    BY <1>11 DEF K5Begin, At, Return
  <2>4. Rewritten' /\ ServiceOfOwner'
    BY <1>11 DEF K5Begin, At, Return, Rewritten, ServiceOfOwner
  <2> QED
    BY <2>1, <2>2, <2>3, <2>4
<1>12. CASE GetCreds
  <2>1. Running'
    BY <1>12 DEF GetCreds, At, Return
  <2>2. KinitSteps' /\ KdestroySteps'
    BY <1>12 DEF GetCreds, At, Return
  <2>3. GotTicket' /\ Destroyed'
    BY <1>12 DEF GetCreds, At, Return
  <2>4. Rewritten' /\ ServiceOfOwner'
    BY <1>12 DEF GetCreds, At, Return, Rewritten, ServiceOfOwner
  <2> QED
    BY <2>1, <2>2, <2>3, <2>4
<1>13. CASE InitializeCache
  <2>1. Running'
    BY <1>13 DEF InitializeCache, At, Return
  <2>2. KinitSteps' /\ KdestroySteps'
    BY <1>13 DEF InitializeCache, At, Return
  <2>3. GotTicket' /\ Destroyed'
    BY <1>13 DEF InitializeCache, At, Return
  <2>4. Rewritten' /\ ServiceOfOwner'
    BY <1>13 DEF InitializeCache, At, Return, Rewritten, ServiceOfOwner
  <2> QED
    BY <2>1, <2>2, <2>3, <2>4
<1>14. CASE StoreCred
  <2>1. Running'
    BY <1>14 DEF StoreCred, At, Return
  <2>2. KinitSteps' /\ KdestroySteps'
    BY <1>14 DEF StoreCred, At, Return
  <2>3. GotTicket' /\ Destroyed'
    BY <1>14 DEF StoreCred, At, Return
  <2>4. Rewritten' /\ ServiceOfOwner'
    BY <1>14 DEF StoreCred, At, Return, Rewritten, ServiceOfOwner
  <2> QED
    BY <2>1, <2>2, <2>3, <2>4
<1>15. CASE KlistDriver \/ KvnoDriver
  BY <1>15 DEF Rewritten, ServiceOfOwner, KlistDriver, KvnoDriver, At, Return
<1>16. CASE KdestroyDriver
  <2>0. /\ tool = "kdestroy" /\ pc = "begin" /\ pc' = "return"
        /\ UNCHANGED <<process, tool, cachedObj, caller, shown, finishing, message>>
        /\ ret' = 0 => file' = "absent"
    <3>1. /\ tool = "kdestroy" /\ pc = "begin" /\ pc' = "return"
          /\ UNCHANGED <<process, tool, cachedObj, caller, shown, finishing, message>>
          /\ file' = "absent" \/ ret' = 1
      BY <1>16 DEF KdestroyDriver, At, Return
    <3> QED
      BY ONLY <3>1
  <2>1. Running'
    BY <2>0
  <2>2. KinitSteps' /\ KdestroySteps'
    <3>1. tool' = "kdestroy" /\ tool' # "kinit"
      BY <2>0
    <3> QED
      BY <2>0, <3>1, Zenon
  <2>3. GotTicket' /\ Destroyed'
    BY <1>16 DEF KdestroyDriver, At, Return
  <2>4. Rewritten' /\ ServiceOfOwner'
    BY <1>16 DEF KdestroyDriver, At, Return, Rewritten, ServiceOfOwner
  <2> QED
    BY <2>1, <2>2, <2>3, <2>4
<1>17. CASE UNCHANGED vars
  BY <1>17 DEF Rewritten, ServiceOfOwner, vars
<1> QED
  BY <1>2, <1>3, <1>4, <1>5, <1>6, <1>7, <1>8, <1>9, <1>10, <1>11, <1>12, <1>13, <1>14,
     <1>15, <1>16, <1>17 DEF Next, ToolStep

\* The Boolean variable, apart from the others for the provers' sake.
LEMMA SwitchesStep ==
  ASSUME Switches, [Next]_vars
  PROVE  Switches'
<1> USE DEF Switches, call
<1>1. CASE Press \/ OnDestroy
  BY <1>1, Zenon DEF Press, OnDestroy, NativeCall
<1>2. CASE ~(Press \/ OnDestroy)
  <2>1. UNCHANGED keytab
    BY <1>2 DEF Next, ToolStep, OnCreate, Leave, Kill, Restart, Expire, Crash, Usage,
       KlistExits, KdestroyExits, ParseOptions, K5Begin, GetCreds, InitializeCache,
       StoreCred, KlistDriver, KvnoDriver, KdestroyDriver, Return, Listener, vars
  <2> QED
    BY <2>1, Zenon
<1> QED
  BY <1>1, <1>2

\* Only kvno gets service tickets, for the owner of the cache.
LEMMA HolderStep ==
  ASSUME Words, Holder, [Next]_vars
  PROVE  Holder'
<1>1. service' \in {service, owner, "none"}
  BY DEF Next, ToolStep, OnCreate, Leave, OnDestroy, Press, NativeCall, Kill, Restart, Expire,
     Crash, Usage, KlistExits, KdestroyExits, ParseOptions, K5Begin, GetCreds,
     InitializeCache, StoreCred, KlistDriver, KvnoDriver, KdestroyDriver, Return, Listener,
     vars, cache
<1>2. owner \in Principal
  BY DEF Words
<1> QED
  BY <1>1, <1>2 DEF Holder

\* The invariant holds of every behaviour.
LEMMA ToolsInductive == Spec => []ToolsInv
<1>1. Init => ToolsInv
  <2> SUFFICES ASSUME Init PROVE ToolsInv
    OBVIOUS
  <2>1. Numbers
    BY Parameters DEF Init, Numbers
  <2>2. Words
    BY Parameters DEF Init, Words, Text
  <2>3. Switches /\ Holder
    BY Zenon DEF Init, Switches, Holder
  <2>4. Told
    BY DEF Init, Told, Running, KinitSteps, KdestroySteps, GotTicket, Destroyed,
       Rewritten, ServiceOfOwner
  <2> QED
    BY <2>1, <2>2, <2>3, <2>4 DEF ToolsInv
<1>2. ToolsInv /\ [Next]_vars => ToolsInv'
  BY NumbersStep, WordsStep, SwitchesStep, HolderStep, ToldStep DEF ToolsInv, Told
<1> QED
  BY <1>1, <1>2, PTL DEF Spec

\* Every variable keeps to its values, for any number of Activities and calls.
THEOREM ToolsTyped == Spec => []TypeOK
<1>1. ToolsInv => TypeOK
  BY TypeParts DEF ToolsInv
<1> QED
  BY <1>1, ToolsInductive, PTL

\* The service tickets in the cache belong to its principal and its TGT, whichever
\* tools ran, failed or were killed since kvno got them.
THEOREM ServiceTicketsFit == Spec => []ServiceOfOwner
<1>1. ToolsInv => ServiceOfOwner
  BY DEF ToolsInv, Told
<1> QED
  BY <1>1, ToolsInductive, PTL

\* "Got Ticket!" is the truth about the cache for as long as it is on the screen,
\* whatever is killed, destroyed or expires in between, except that an older
\* Activity's onDestroy may destroy the cache.
THEOREM TicketIsThere == Spec => []GotTicket
<1>1. ToolsInv => GotTicket
  BY DEF ToolsInv, Told
<1> QED
  BY <1>1, ToolsInductive, PTL

\* "Finished!" of the kdestroy button is the truth about the cache.
THEOREM CacheIsGone == Spec => []Destroyed
<1>1. ToolsInv => Destroyed
  BY DEF ToolsInv, Told
<1> QED
  BY <1>1, ToolsInductive, PTL
=============================================================================
