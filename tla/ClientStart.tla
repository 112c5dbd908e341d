----------------------------- MODULE ClientStart -----------------------------
(***************************************************************************)
(* The start of the game: the launcher creates the process suspended, has  *)
(* a remote thread load client.dll, and resumes the main thread without    *)
(* waiting for it.  DllMain installs its hooks, and asks the user between  *)
(* the first and the second, while the main thread already runs.           *)
(*                                                                         *)
(* Of the game (external) only the calls that are hooked are modelled.     *)
(* What becomes of the image is the subject of ProcessImage.               *)
(***************************************************************************)
EXTENDS Integers

CONSTANTS
    MaxCalls,  \* bound on the calls of the game that may be hooked
    Handles    \* values of handles

ASSUME MaxCallsAssumption == MaxCalls \in Nat
ASSUME HandlesAssumption == Handles \subseteq Nat \ {0}

VARIABLES
    launcher,    \* what the launcher does next
    main,        \* the main thread: "none", "suspended", "running"
    dll,         \* what the thread in DllMain does next
    admin,       \* isAdminClient
    windowHook,  \* whether CreateWindowExA is hooked
    mutexHook,   \* whether CreateMutexA is hooked
    windowMode,  \* the user's answer
    windowed,    \* whether the image was patched to start in a window
    xorKey,      \* aesKey_with_xor
    keyInUse,    \* whether the code that encrypts was pointed to it
    hMutex,      \* the last handle that the hook of CreateMutexA got, 0 for none
    open,        \* handle -> what it stands for
    startUps,    \* history: windows that the hook suppressed
    foreign,     \* history: whether a handle was closed that the hook never got
    calls        \* number of calls so far

launcherVars == <<launcher, main>>
hookVars == <<windowHook, mutexHook, windowMode, windowed>>
keyVars == <<xorKey, keyInUse>>
handleVars == <<hMutex, open, foreign>>

startVars == <<launcherVars, dll, admin, hookVars, keyVars, handleVars, startUps, calls>>

-----------------------------------------------------------------------------
(* The keys *)

Entries == 0 .. 31

\* AesKey::aesKey, which setUpAesKey copies into every server.
aesKey == [i \in Entries |-> IF i % 4 = 0 THEN 21 + 4 * i ELSE 0]

XorOne(n) == IF n % 2 = 0 THEN n + 1 ELSE n - 1

\* As the client is built with it.
aesKey_with_xor == [i \in Entries |-> IF i % 4 = 0 THEN XorOne(aesKey[i]) ELSE 255]

\* Mutant of initializeKey: no entry is cleared.
initializeKeyXor == xorKey' = [i \in Entries |-> XorOne(xorKey[i])]

initializeKey == xorKey' = [i \in Entries |-> IF xorKey[i] = 255 THEN 0 ELSE XorOne(xorKey[i])]

patchAesKey == initializeKey /\ keyInUse' = TRUE

-----------------------------------------------------------------------------

StartInit ==
    /\ launcher = "check"
    /\ main = "none"
    /\ dll = "none"
    /\ admin \in BOOLEAN
    /\ windowHook = FALSE
    /\ mutexHook = FALSE
    /\ windowMode = FALSE
    /\ windowed = FALSE
    /\ xorKey = aesKey_with_xor
    /\ keyInUse = FALSE
    /\ hMutex = 0
    /\ open = [h \in Handles |-> "nothing"]
    /\ startUps = 0
    /\ foreign = FALSE
    /\ calls = 0

-----------------------------------------------------------------------------
(* The launcher *)

\* Not elevated, no client.dll, no server.txt, no such program, or CreateProcess fails.
GiveUp ==
    /\ launcher = "check"
    /\ launcher' = "done"
    /\ UNCHANGED <<main, dll, admin, hookVars, keyVars, handleVars, startUps, calls>>

CreateProcessSuspended ==
    /\ launcher = "check"
    /\ launcher' = "inject"
    /\ main' = "suspended"
    /\ UNCHANGED <<dll, admin, hookVars, keyVars, handleVars, startUps, calls>>

\* VirtualAllocEx, WriteProcessMemory and CreateRemoteThread, none of whose results is looked
\* at: the thread may not exist, or be told to load nothing.
Inject ==
    /\ launcher = "inject"
    /\ launcher' = "resume"
    /\ dll' \in {"none", "load"}
    /\ UNCHANGED <<main, admin, hookVars, keyVars, handleVars, startUps, calls>>

ResumeThread ==
    /\ launcher = "resume"
    /\ launcher' = "done"
    /\ main' = "running"
    /\ UNCHANGED <<dll, admin, hookVars, keyVars, handleVars, startUps, calls>>

-----------------------------------------------------------------------------
(* DllMain, in the injected thread; SetHook may fail, which is only logged *)

HookCreateWindow ==
    /\ dll = "load"
    /\ dll' = "ask"
    /\ windowHook' \in BOOLEAN
    /\ UNCHANGED <<launcherVars, admin, mutexHook, windowMode, windowed, keyVars, handleVars,
                   startUps, calls>>

\* Mutant of AskWindowMode: the user is asked while the mutex is hooked already.
AskWindowModeLate ==
    /\ dll = "ask"
    /\ \/ mutexHook = FALSE /\ mutexHook' = TRUE /\ UNCHANGED <<dll, windowMode>>
       \/ dll' = "mutex" /\ windowMode' \in BOOLEAN /\ UNCHANGED mutexHook
    /\ UNCHANGED <<launcherVars, admin, windowHook, windowed, keyVars, handleVars, startUps,
                   calls>>

AskWindowMode ==
    /\ dll = "ask"
    /\ dll' = "mutex"
    /\ windowMode' \in BOOLEAN
    /\ UNCHANGED <<launcherVars, admin, windowHook, mutexHook, windowed, keyVars, handleVars,
                   startUps, calls>>

HookCreateMutex ==
    /\ dll = "mutex"
    /\ dll' = "patch"
    /\ mutexHook' \in BOOLEAN
    /\ UNCHANGED <<launcherVars, admin, windowHook, windowMode, windowed, keyVars, handleVars,
                   startUps, calls>>

PatchAdminClient ==
    /\ dll = "patch"
    /\ dll' = "done"
    /\ IF admin THEN patchAesKey ELSE UNCHANGED keyVars
    /\ UNCHANGED <<launcherVars, admin, hookVars, handleVars, startUps, calls>>

-----------------------------------------------------------------------------
(* The main thread *)

Call ==
    /\ main = "running"
    /\ calls < MaxCalls
    /\ calls' = calls + 1

\* The game opens something: its handle may have stood for something else before.
OpenHandle(h) ==
    /\ Call
    /\ open[h] = "nothing"
    /\ open' = [open EXCEPT ![h] = "other"]
    /\ UNCHANGED <<launcherVars, dll, admin, hookVars, keyVars, hMutex, foreign, startUps>>

CreateMutex(h) ==
    /\ Call
    /\ open[h] = "nothing"
    /\ open' = [open EXCEPT ![h] = "mutex"]
    /\ IF mutexHook
       THEN hMutex' = h /\ windowed' = (windowed \/ windowMode)
       ELSE UNCHANGED <<hMutex, windowed>>
    /\ UNCHANGED <<launcherVars, dll, admin, windowHook, mutexHook, windowMode, keyVars, foreign,
                   startUps>>

\* DuplicateHandle with DUPLICATE_CLOSE_SOURCE; hMutex keeps its value.
CloseMutex ==
    /\ open' = [h \in Handles |-> IF h = hMutex THEN "nothing" ELSE open[h]]
    /\ foreign' = (foreign \/ \E h \in Handles : h = hMutex /\ open[h] = "other")
    /\ UNCHANGED hMutex

\* Mutant of CreateWindowEx: every window is taken for the dialog.
CreateWindowExAll(class) ==
    /\ Call
    /\ IF windowHook
       THEN /\ startUps' = IF class \in {"StartUpDlgClass", "NexonADBallon"} THEN startUps + 1
                                                                           ELSE startUps
            /\ IF admin THEN UNCHANGED keyVars ELSE patchAesKey
            /\ CloseMutex
       ELSE UNCHANGED <<startUps, keyVars, handleVars>>
    /\ UNCHANGED <<launcherVars, dll, admin, hookVars>>

\* The dialog and the advertisement are suppressed, and installBypass runs for each.
CreateWindowEx(class) ==
    /\ Call
    /\ IF windowHook /\ class \in {"StartUpDlgClass", "NexonADBallon"}
       THEN /\ startUps' = startUps + 1
            /\ IF admin THEN UNCHANGED keyVars ELSE patchAesKey
            /\ CloseMutex
       ELSE UNCHANGED <<startUps, keyVars, handleVars>>
    /\ UNCHANGED <<launcherVars, dll, admin, hookVars>>

Classes == {"StartUpDlgClass", "NexonADBallon", "MapleStory"}

Launch == GiveUp \/ CreateProcessSuspended \/ Inject \/ ResumeThread

DllMain == HookCreateWindow \/ AskWindowMode \/ HookCreateMutex \/ PatchAdminClient

Game ==
    \/ \E h \in Handles : OpenHandle(h) \/ CreateMutex(h)
    \/ \E class \in Classes : CreateWindowEx(class)

StartNext == Launch \/ DllMain \/ Game

StartSpec == StartInit /\ [][StartNext]_startVars

-----------------------------------------------------------------------------
(* Properties *)

\* The client has the key of the servers as long as installBypass, or DllMain for the
\* administrators' client, ran an odd number of times: every further window turns the key over.
KeyAgrees ==
    keyInUse => ((xorKey = aesKey) <=> (admin \/ startUps % 2 = 1))

\* Whoever asked for a window gets one with the first mutex that is created through the hook,
\* whatever the main thread did before it was there; nobody else gets one.
WindowModeApplied == windowed <=> (hMutex # 0 /\ windowMode)

\* The mutex is closed with a handle that is kept afterwards: only the second suppressed
\* window may close something else that got the same handle.
HandlesSpared == foreign => startUps > 1
=============================================================================
