----------------------------- MODULE KrbTools -----------------------------
(***************************************************************************)
(* kinit, klist, kvno and kdestroy as native calls of KerberosAppActivity. *)
(*                                                                         *)
(* Each tool was a program of its own: it parses an argv, ends with exit() *)
(* on a usage error, and shares with the others only the credential cache. *)
(* Here all of them run in the application's one process, on its UI        *)
(* thread, reached through JNI; the text they print goes to the Activity   *)
(* in the global reference cached_obj.  A press of a button runs through   *)
(* the steps of its tool; meanwhile tickets may expire, the KDC may fail   *)
(* to answer and Android may kill the process.                             *)
(*                                                                         *)
(* External: the Kerberos library with its FILE cache, and the life cycle  *)
(* Android gives to an Activity and its process.                           *)
(***************************************************************************)
EXTENDS Naturals

CONSTANTS
  Principal,      \* principals a user may name
  Default,        \* the principal used when neither field nor cache names one
  Empty,          \* the principal field: nothing in it,
  TwoWords,       \*   two words, neither an option, separated by one space,
  Gap,            \*   words after a leading or a doubled space,
  Renew,          \*   or kinit's option -R
  MaxActivities,  \* bound: Activity instances
  MaxCalls        \* bound: native tool calls of one process

ASSUME Parameters ==
  /\ Default \in Principal /\ "none" \notin Principal
  /\ {Empty, TwoWords, Gap, Renew} \cap Principal = {}
  /\ Renew \notin {Empty, TwoWords, Gap}
  /\ MaxActivities \in Nat /\ MaxCalls \in Nat

VARIABLES
  process,    \* "alive", or how it ended: "exited", "crashed" or "killed"
  shown,      \* the Activity on screen, 0 for none
  finishing,  \* Activities whose onDestroy is still to come
  created,    \* the Activities created so far
  cachedObj,  \* cached_obj: the Activity that native text goes to, 0 for none
  globalRefs, \* the global references created and never deleted
  tool,       \* the tool that runs, or ran last, "none" before
  caller,     \* the Activity that called it
  pc,         \* the step of the tool, "idle" when the UI thread is free
  field,      \* the text of the principal field when the tool was started
  keytab,     \* kinit: was the keytab button chosen?
  me,         \* kinit: the client principal
  ret,        \* what the driver returns
  message,    \* the line the button listener appends
  file,       \* the cache file: "absent", "torn" (no principal yet) or "sound"
  owner,      \* its default principal
  tgt,        \* its TGT: "none", "valid" or "expired"
  service     \* whose TGT got the service tickets it holds, "none" without any

cache    == <<file, owner, tgt, service>>
app      == <<process, shown, finishing, created>>
jni      == <<cachedObj, globalRefs>>
call     == <<tool, caller, field, keytab>>
vars     == <<app, jni, call, cache, pc, me, ret, message>>

Tool == {"kinit", "klist", "kvno", "kdestroy"}

Text == Principal \cup {Empty, TwoWords, Gap, Renew}

Init ==
  /\ process = "alive" /\ shown = 0 /\ finishing = {} /\ created = 0
  /\ cachedObj = 0 /\ globalRefs = 0
  /\ tool = "none" /\ caller = 0 /\ pc = "idle" /\ field = Empty /\ keytab = FALSE
  /\ me = Default /\ ret = 0 /\ message = "none"
  /\ file = "absent" /\ owner = Default /\ tgt = "none" /\ service = "none"

-----------------------------------------------------------------------------
(* The Activity and its process *)

Idle == process = "alive" /\ pc = "idle"

OnCreate ==
  /\ Idle /\ shown = 0 /\ created < MaxActivities
  /\ shown' = created + 1 /\ created' = created + 1 /\ message' = "none"
  /\ UNCHANGED <<process, finishing, jni, call, cache, pc, me, ret>>

\* The user leaves, or the device is turned; onDestroy follows at some later time.
Leave ==
  /\ Idle /\ shown # 0
  /\ finishing' = finishing \cup {shown} /\ shown' = 0
  /\ UNCHANGED <<process, created, jni, call, cache, pc, me, ret, message>>

\* A driver called exit(), the process crashed or Android killed it.
End(how) ==
  /\ process' = how /\ shown' = 0 /\ finishing' = {} /\ pc' = "idle"

Kill ==
  /\ process = "alive" /\ End("killed")
  /\ UNCHANGED <<created, jni, call, cache, me, ret, message>>

Restart ==
  /\ process # "alive" /\ created < MaxActivities
  /\ process' = "alive" /\ cachedObj' = 0 /\ globalRefs' = 0
  /\ message' = "none" /\ tool' = "none" /\ caller' = 0
  /\ UNCHANGED <<shown, finishing, created, field, keytab, cache, pc, me, ret>>

\* Time passes for the tickets in the cache.
Expire ==
  /\ tgt = "valid" /\ tgt' = "expired" /\ service' = "none"
  /\ UNCHANGED <<app, jni, call, pc, me, ret, message, file, owner>>

-----------------------------------------------------------------------------
(* The JNI wrappers *)

\* A new global reference replaces the cached one, which is not deleted.
CacheCaller(a) == cachedObj' = a /\ globalRefs' = globalRefs + 1

NativeCall(t, a, text, kt) ==
  /\ Idle /\ globalRefs < MaxCalls
  /\ tool' = t /\ caller' = a /\ field' = text /\ keytab' = kt
  /\ CacheCaller(a)
  /\ pc' = "argv"
  /\ UNCHANGED <<process, shown, finishing, created, cache, me, ret>>

Press ==
  /\ shown # 0
  /\ \E t \in Tool, text \in Text, kt \in BOOLEAN :
       /\ t \in {"klist", "kdestroy"} => text = Empty
       /\ t # "kinit" => ~kt
       /\ NativeCall(t, shown, text, kt)
  /\ message' = "none"

\* onDestroy() runs kdestroy; it is the last call of that Activity, and what a
\* newer one shows stays as it is.
OnDestroy ==
  \E a \in finishing :
    /\ NativeCall("kdestroy", a, Empty, FALSE)
    /\ UNCHANGED message

\* generateArgv expects as many words as countWords found; split() counts the
\* empty word before or between spaces, strtok() does not, and the null it
\* returns at the end is passed to strlen().
Crash ==
  /\ process = "alive" /\ pc = "argv" /\ field = Gap
  /\ End("crashed")
  /\ UNCHANGED <<created, jni, call, cache, me, ret, message>>

\* kinit takes one principal at most, kvno at least one service and no -R.  (Of
\* the options that may be typed before a principal only -R is modelled.)
BadUsage ==
  \/ tool = "kinit" /\ field = TwoWords
  \/ tool = "kvno" /\ field \in {Empty, Renew}

\* usage() and xusage() end the process.
Usage ==
  /\ process = "alive" /\ pc = "argv" /\ BadUsage
  /\ End("exited")
  /\ UNCHANGED <<created, jni, call, cache, me, ret, message>>

ParseOptions ==
  /\ process = "alive" /\ pc = "argv" /\ field # Gap /\ ~BadUsage
  /\ pc' = "begin"
  /\ UNCHANGED <<app, jni, call, cache, me, ret, message>>

At(t, step) == process = "alive" /\ tool = t /\ pc = step

\* The driver returns r.
Return(r) == pc' = "return" /\ ret' = r /\ UNCHANGED <<app, jni, call, message>>

-----------------------------------------------------------------------------
(* kinit *)

\* k5_begin: the principal is the one named; else, with a keytab, this host's
\* (but -R comes after -k, and takes its place); else the cache's, or the
\* operating system's user.
K5Begin ==
  /\ At("kinit", "begin")
  /\ \/ /\ me' = IF field \in Principal THEN field
                 ELSE IF file = "sound" /\ (~keytab \/ field = Renew) THEN owner
                 ELSE Default
        /\ pc' = "getcreds"
        /\ UNCHANGED <<app, jni, call, cache, ret, message>>
     \/ Return(1) /\ UNCHANGED <<cache, me>>

\* krb5_get_renewed_creds: the old TGT is the client's, and still valid.
MayRenew == file = "sound" /\ owner = me /\ tgt = "valid"

\* k5_kinit: the library prompts through kinitPrompter if it wants a password,
\* asks the KDC, and only then does the cache begin to change: what it held is
\* lost before the new TGT is written.
GetCredsRetrying ==            \* mutant: asks again until the KDC gives a ticket
  /\ At("kinit", "getcreds")
  /\ \/ pc' = "initialize" /\ file' = "torn" /\ tgt' = "none" /\ service' = "none"
     \/ pc' = "begin" /\ UNCHANGED <<file, tgt, service>>
  /\ UNCHANGED <<app, jni, call, owner, me, ret, message>>

GetCredsKeeping ==             \* mutant: the tickets of the cache are kept
  /\ At("kinit", "getcreds")
  /\ \/ /\ field = Renew => MayRenew
        /\ file' = "torn" /\ pc' = "initialize"
        /\ UNCHANGED <<app, jni, call, owner, tgt, service, ret, message>>
     \/ Return(1) /\ UNCHANGED cache
  /\ UNCHANGED me

GetCreds ==
  /\ At("kinit", "getcreds")
  /\ \/ /\ field = Renew => MayRenew
        /\ file' = "torn" /\ tgt' = "none" /\ service' = "none"
        /\ pc' = "initialize"
        /\ UNCHANGED <<app, jni, call, owner, ret, message>>
     \/ Return(1) /\ UNCHANGED cache
  /\ UNCHANGED me

\* krb5_cc_initialize has removed the old file or truncated it; now it creates the
\* new one, if need be, and writes the principal.  (For
\* an initial ticket the library does this and the next step in its request, for
\* the cache set by set_out_ccache; k5_kinit does the same itself when it renews.)
InitializeCache ==
  /\ At("kinit", "initialize")
  /\ \/ file' = "sound" /\ owner' = me /\ pc' = "store"
        /\ UNCHANGED <<app, jni, call, tgt, service, ret, message>>
     \/ file' \in {"torn", "absent"} /\ Return(1) /\ UNCHANGED <<owner, tgt, service>>
  /\ UNCHANGED me

StoreReportsSuccess ==         \* mutant: the code of krb5_cc_store_cred is ignored
  /\ At("kinit", "store")
  /\ tgt' \in {"none", "valid"} /\ Return(0)
  /\ UNCHANGED <<file, owner, service, me>>

StoreCred ==
  /\ At("kinit", "store")
  /\ \/ tgt' = "valid" /\ Return(0) /\ UNCHANGED <<file, owner, service>>
     \/ Return(1) /\ UNCHANGED cache
  /\ UNCHANGED me

-----------------------------------------------------------------------------
(* klist, kvno, kdestroy *)

\* do_ccache returns from a missing or unreadable file as from a sound one, and
\* klist_driver returns 0; only a failure to create the library context is reported.
KlistDriver ==
  /\ At("klist", "begin")
  /\ \E r \in {0, 1} : Return(r)
  /\ UNCHANGED <<cache, me>>

\* A cache name that does not resolve, or a file without a principal: exit(1).
KlistExits ==
  /\ At("klist", "begin")
  /\ End("exited")
  /\ UNCHANGED <<created, jni, call, cache, me, ret, message>>

\* do_v5_kvno's errors reach the caller as 0, like its success.
KvnoReturnsCode ==             \* mutant: the library's error code is returned
  /\ At("kvno", "begin")
  /\ \E code \in 0 .. 255 : Return(code)
  /\ UNCHANGED <<cache, me>>

KvnoDriver ==
  /\ At("kvno", "begin")
  /\ \/ UNCHANGED service
     \/ file = "sound" /\ tgt = "valid" /\ service' = owner
  /\ Return(0)
  /\ UNCHANGED <<file, owner, tgt, me>>

KdestroyIgnoringError ==       \* mutant: every error is taken for a missing file
  /\ At("kdestroy", "begin")
  /\ \/ file' = "absent" /\ tgt' = "none" /\ service' = "none"
     \/ UNCHANGED <<file, tgt, service>>
  /\ Return(0)
  /\ UNCHANGED <<owner, me>>

\* A missing file is an error that still returns 0; any other returns 1.
KdestroyDriver ==
  /\ At("kdestroy", "begin")
  /\ \/ file' = "absent" /\ tgt' = "none" /\ service' = "none" /\ Return(0)
     \/ file # "absent" /\ UNCHANGED <<file, tgt, service>> /\ Return(1)
  /\ UNCHANGED <<owner, me>>

\* No library context, or no cache of that name: exit(1).
KdestroyExits ==
  /\ At("kdestroy", "begin")
  /\ End("exited")
  /\ UNCHANGED <<created, jni, call, cache, me, ret, message>>

-----------------------------------------------------------------------------
(* The button listeners *)

Message(t, r) ==
  CASE t = "kinit" /\ r = 0              -> "Got Ticket!"
    [] t = "kinit" /\ r = 1              -> "Failed to get Ticket!"
    [] t = "klist" /\ r = 1              -> "Failed to find Ticket!"
    [] t \in {"kvno", "kdestroy"} /\ r = 0 -> "Finished!"
    [] OTHER                             -> "nothing"

\* onDestroy drops the return value and its Activity.
Listener ==
  /\ process = "alive" /\ pc = "return"
  /\ pc' = "idle"
  /\ IF caller \in finishing
       THEN finishing' = finishing \ {caller} /\ UNCHANGED message
       ELSE message' = Message(tool, ret) /\ UNCHANGED finishing
  /\ UNCHANGED <<process, shown, created, jni, call, cache, me, ret>>

-----------------------------------------------------------------------------
ToolStep ==
  \/ Crash \/ Usage \/ ParseOptions
  \/ K5Begin \/ GetCreds \/ InitializeCache \/ StoreCred
  \/ KlistDriver \/ KlistExits \/ KvnoDriver \/ KdestroyDriver \/ KdestroyExits
  \/ Listener

Next ==
  \/ OnCreate \/ Leave \/ OnDestroy \/ Kill \/ Restart \/ Expire
  \/ Press \/ ToolStep

\* A tool that runs keeps the UI thread until it returns; the library gives up on
\* a KDC that does not answer.
Spec == Init /\ [][Next]_vars /\ WF_vars(ToolStep)

-----------------------------------------------------------------------------
(* Properties *)

\* Every variable keeps to its values; a driver's return code is 0 or 1.
TypeOK ==
  /\ process \in {"alive", "exited", "crashed", "killed"}
  /\ shown \in 0 .. MaxActivities /\ created \in 0 .. MaxActivities
  /\ finishing \subseteq 1 .. MaxActivities
  /\ cachedObj \in 0 .. MaxActivities /\ globalRefs \in 0 .. MaxCalls
  /\ tool \in Tool \cup {"none"} /\ caller \in 0 .. MaxActivities
  /\ pc \in {"idle", "argv", "begin", "getcreds", "initialize", "store", "return"}
  /\ field \in Text /\ keytab \in BOOLEAN
  /\ me \in Principal /\ ret \in {0, 1}
  /\ message \in {"none", "nothing", "Got Ticket!", "Failed to get Ticket!",
                  "Failed to find Ticket!", "Finished!"}
  /\ file \in {"absent", "torn", "sound"} /\ owner \in Principal
  /\ tgt \in {"none", "valid", "expired"} /\ service \in Principal \cup {"none"}

\* A service ticket that kvno got is used only with the principal and the TGT it
\* was got with: kinit for another principal, or again, leaves none behind,
\* wherever it fails or is killed.
ServiceOfOwner ==
  service # "none" => file = "sound" /\ tgt = "valid" /\ service = owner

\* "Got Ticket!" on the screen means a TGT of the client principal in the cache (it
\* may have expired meanwhile), never that of a principal other than the one
\* typed.  Only kdestroy can have taken it since, and only the one that an older
\* Activity's onDestroy runs from behind.
GotTicket ==
  shown # 0 /\ message = "Got Ticket!" =>
    \/ /\ file = "sound" /\ tgt # "none" /\ owner = me
       /\ tool = "kinit" /\ field \in Principal => owner = field
    \/ tool = "kdestroy" /\ caller < shown

\* "Finished!" of the kdestroy button means that no cache is left.
Destroyed ==
  tool = "kdestroy" /\ caller = shown /\ pc = "idle" /\ message = "Finished!" =>
    file = "absent"

\* A press of a button ends: with the listener's line, or with the process.
ToolEnds == pc # "idle" ~> pc = "idle"

=============================================================================
