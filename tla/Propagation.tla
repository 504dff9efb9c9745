---------------------------- MODULE Propagation ----------------------------
(***************************************************************************)
(* KexDll/propagte.c: VxKex follows a program into the processes it        *)
(* creates.                                                                *)
(*                                                                         *)
(* The parent creates a child suspended, puts a hook procedure in it and   *)
(* turns its NtOpenKey into a jump there, leaves the IFEO parameters in    *)
(* memory that Peb->SubSystemData points to, and resumes it.  The hook     *)
(* makes the loader of the child load KexDll, which takes the parameters,  *)
(* removes the remains, and hooks NtCreateUserProcess in its turn.         *)
(*                                                                         *)
(* A system call on the child may fail; the parent then gives up on the    *)
(* rest and resumes the child as it is.                                    *)
(***************************************************************************)
EXTENDS Naturals

CONSTANTS
  Process,
  Root,            \* the program that the user has enabled VxKex for
  NULL,
  Params,          \* values of KEX_IFEO_PARAMETERS
  DisableForChild, \* those whose DisableForChild is set
  DefaultParams,   \* all options zero
  Images,          \* programs, see Image
  OsBits, Vista,   \* bitness of the system; it is NT 6.0 and not 6.1
  MaxFaults        \* system calls that fail

\* A program: the options in its own IFEO key, if it has any, whether it has a
\* key at all, and a Debugger value there: the launcher of VistaRun or another.
Image ==
  [bits : {32, 64}, powershell : BOOLEAN, own : Params \cup {NULL}, key : BOOLEAN,
   debugger : {"none", "managed", "other"}]

ASSUME ProcessAssumption == Root \in Process /\ NULL \notin Process
ASSUME ParamsAssumption ==
  /\ DisableForChild \subseteq Params /\ DefaultParams \in Params \ DisableForChild
  /\ Params \cap {NULL, "none", "raw"} = {}
ASSUME ImagesAssumption ==
  /\ Images \subseteq Image
  /\ \A i \in Images : (i.own # NULL \/ i.debugger # "none" => i.key) /\ i.bits <= OsBits
ASSUME SystemAssumption ==
  OsBits \in {32, 64} /\ Vista \in BOOLEAN /\ MaxFaults \in Nat

VARIABLES
  life,     \* "none", "creating", "failed", "made", "loading", "init", "running" or "crashed"
  image, parent,
  call,     \* the call of NtCreateUserProcess that creates the process
  mem,      \* what the parent puts into the process
  kex,      \* KexDll in the process
  faults

vars == <<life, image, parent, call, mem, kex, faults>>

\* stuck: the protection of NtOpenKey's page could not be changed (back).
NoMem == [page |-> "none", openKey |-> "syscall", stuck |-> FALSE, ifeo |-> "none",
          subsys |-> FALSE, keyMissing |-> FALSE]
NoKex == [at |-> "none", propagated |-> FALSE, params |-> DefaultParams, hooks |-> FALSE]

Fault == faults < MaxFaults /\ faults' = faults + 1

Live(c) == life[c] \in {"loading", "init", "running"}

-----------------------------------------------------------------------------
(* NtCreateUserProcess in a process that KexDll has hooked it in, or not *)

\* A program calls it; PowerShell is left alone (propagte.c:647-659).
BeginCreate(p, c) ==
  /\ life[p] = "running" /\ life[c] = "none"
  /\ \E i \in Images, suspended \in BOOLEAN :
       /\ image' = [image EXCEPT ![c] = i]
       /\ call' = [call EXCEPT ![c] =
            [at |-> IF kex[p].hooks /\ ~i.powershell THEN "create" ELSE "native",
             suspended |-> suspended, retried |-> FALSE]]
  /\ parent' = [parent EXCEPT ![c] = p]
  /\ life' = [life EXCEPT ![c] = "creating"]
  /\ UNCHANGED <<mem, kex, faults>>

Created(c, state, next) ==
  /\ life' = [life EXCEPT ![c] = state]
  /\ call' = [call EXCEPT ![c].at = next]
  /\ mem' = [mem EXCEPT ![c] = [NoMem EXCEPT !.keyMissing = ~image[c].key]]

\* The system call alone.
NativeCreate(c) ==
  /\ call[c].at = "native"
  /\ IF image[c].debugger = "none"
     THEN Created(c, IF call[c].suspended THEN "made" ELSE "loading", "done")
     ELSE Created(c, "failed", "done")
  /\ UNCHANGED <<image, parent, kex, faults>>

\* Mutant: the thread is not created suspended.
CreateNativeChildRunning(c) ==
  /\ call[c].at = "create"
  /\ image[c].debugger = "none"
  /\ Created(c, IF call[c].suspended THEN "made" ELSE "loading", "alloc_hook")
  /\ UNCHANGED <<image, parent, kex, faults>>

\* KexpIsManagedVistaDebugger.
IsManagedVistaDebugger(c) == image[c].debugger = "managed"

\* The child is made suspended.  When the launcher of VistaRun is in the way
\* the call is made once more, asking to skip the debugger.
CreateNativeChild(c) ==
  /\ call[c].at = "create"
  /\ \/ /\ IsManagedVistaDebugger(c) /\ ~call[c].retried
        /\ call' = [call EXCEPT ![c].retried = TRUE]
        /\ UNCHANGED <<life, mem, faults>>
     \/ /\ image[c].debugger = "none" \/ call[c].retried
        /\ \/ Created(c, "made", "alloc_hook") /\ UNCHANGED faults
           \/ Fault /\ Created(c, "failed", "done")
     \/ /\ image[c].debugger = "other"
        /\ Created(c, "failed", "done")
        /\ UNCHANGED faults
  /\ UNCHANGED <<image, parent, kex>>

\* One step of the preparation: on a failure it ends at BailOut.
Prepare(c, at, next, m) ==
  /\ call[c].at = at
  /\ \/ /\ call' = [call EXCEPT ![c].at = next]
        /\ mem' = [mem EXCEPT ![c] = m]
        /\ UNCHANGED faults
     \/ /\ Fault
        /\ call' = [call EXCEPT ![c].at = "bail"]
        /\ UNCHANGED mem
  /\ UNCHANGED <<life, image, parent, kex>>

AllocateHook(c) ==
  Prepare(c, "alloc_hook", "write_hook", [mem[c] EXCEPT !.page = "raw"])

\* Mutant: a hook procedure that could not be written does not end it.
WriteHookUnchecked(c) ==
  /\ call[c].at = "write_hook"
  /\ \/ mem' = [mem EXCEPT ![c].page = "hook"] /\ UNCHANGED faults
     \/ Fault /\ UNCHANGED mem
  /\ call' = [call EXCEPT ![c].at = "find_open_key"]
  /\ UNCHANGED <<life, image, parent, kex>>

WriteHook(c) ==
  Prepare(c, "write_hook", "find_open_key", [mem[c] EXCEPT !.page = "hook"])

\* The same address as in the parent, or found from the child's NTDLL.
FindOpenKey(c) ==
  IF image[c].bits = image[parent[c]].bits
  THEN /\ call[c].at = "find_open_key"
       /\ call' = [call EXCEPT ![c].at = "write_jump"]
       /\ UNCHANGED <<life, image, parent, mem, kex, faults>>
  ELSE Prepare(c, "find_open_key", "write_jump", mem[c])

\* KexRtlWriteProcessMemory: the page is made writable, written, and given its
\* protection back.  A failure of the last is not reported.
WriteProcessMemory(c, at, next, m) ==
  \/ Prepare(c, at, next, m)
  \/ /\ call[c].at = at
     /\ \/ /\ Fault
           /\ call' = [call EXCEPT ![c].at = next]
           /\ mem' = [mem EXCEPT ![c] = [m EXCEPT !.stuck = TRUE]]
        \/ /\ faults + 2 <= MaxFaults /\ faults' = faults + 2
           /\ call' = [call EXCEPT ![c].at = "bail"]
           /\ mem' = [mem EXCEPT ![c].stuck = TRUE]
     /\ UNCHANGED <<life, image, parent, kex>>

\* The jump to the hook procedure.
WriteJump(c) ==
  WriteProcessMemory(c, "write_jump", "alloc_params", [mem[c] EXCEPT !.openKey = "hook"])

\* Mutant: the parameters are not written.
AllocateParamsOnly(c) ==
  Prepare(c, "alloc_params", "write_subsys", [mem[c] EXCEPT !.ifeo = "raw"])

AllocateParams(c) ==
  Prepare(c, "alloc_params", "write_params", [mem[c] EXCEPT !.ifeo = "raw"])

WriteParams(c) ==
  Prepare(c, "write_params", "write_subsys", [mem[c] EXCEPT !.ifeo = kex[parent[c]].params])

\* The systems whose loader looks at the flag before it opens any key.
ChecksFlagFirst(c) == OsBits = 32 \/ (Vista /\ image[c].bits = 32)

\* Peb->SubSystemData, in the PEB of the child's bitness.
WriteSubSystemData(c) ==
  Prepare(c, "write_subsys", IF ChecksFlagFirst(c) THEN "clear_flag" ELSE "bail",
          [mem[c] EXCEPT !.subsys = TRUE])

\* RTL_USER_PROCESS_PARAMETERS_IMAGE_KEY_MISSING.
ClearKeyMissing(c) ==
  Prepare(c, "clear_flag", "bail", [mem[c] EXCEPT !.keyMissing = FALSE])

Return(c) == call' = [call EXCEPT ![c].at = "done"]

\* Mutant: a child that could not be prepared is not resumed.
BailOutGivesUp(c) ==
  /\ call[c].at = "bail"
  /\ Return(c)
  /\ IF call[c].suspended \/ ~mem[c].subsys THEN UNCHANGED life
     ELSE life' = [life EXCEPT ![c] = "loading"]
  /\ UNCHANGED <<image, parent, mem, kex, faults>>

\* BailOut, which success reaches too: the child is resumed, unless its creator
\* is to do that.  If it can't be, the call says so and leaves it.
BailOut(c) ==
  /\ call[c].at = "bail"
  /\ \/ call[c].suspended /\ Return(c) /\ UNCHANGED <<life, faults>>
     \/ ~call[c].suspended /\ Return(c) /\ life' = [life EXCEPT ![c] = "loading"] /\ UNCHANGED faults
     \/ ~call[c].suspended /\ Fault /\ Return(c) /\ life' = [life EXCEPT ![c] = "failed"]
  /\ UNCHANGED <<image, parent, mem, kex>>

\* The caller's own NtResumeThread.
CallerResumes(c) ==
  /\ call[c].at = "done" /\ call[c].suspended /\ life[c] = "made"
  /\ life' = [life EXCEPT ![c] = "loading"]
  /\ UNCHANGED <<image, parent, call, mem, kex, faults>>

-----------------------------------------------------------------------------
(* The child *)

\* KexpInitializeIfeoParameters: the program's own options, or none.
InitialParams(c) == IF image[c].own # NULL THEN image[c].own ELSE DefaultParams

\* The loader of the child opens its IFEO key: the hook makes that the virtual
\* key that names KexDll.
Load(c) ==
  LET opens == ~mem[c].keyMissing \/ ~ChecksFlagFirst(c)
      hooked == mem[c].openKey = "hook"
  IN
  /\ life[c] = "loading"
  /\ IF mem[c].stuck \/ (opens /\ hooked /\ mem[c].page # "hook")
     THEN life' = [life EXCEPT ![c] = "crashed"] /\ UNCHANGED kex
     ELSE IF opens /\ (hooked \/ image[c].own # NULL)
     THEN /\ life' = [life EXCEPT ![c] = "init"]
          /\ kex' = [kex EXCEPT ![c] = [@ EXCEPT !.at = "inherit", !.params = InitialParams(c)]]
     ELSE life' = [life EXCEPT ![c] = "running"] /\ UNCHANGED kex
  /\ UNCHANGED <<image, parent, call, mem, faults>>

\* Mutant: inherited parameters replace the program's own.
InheritAlways(c) ==
  /\ kex[c].at = "inherit"
  /\ kex' = [kex EXCEPT ![c].at = "clean", ![c].propagated = mem[c].subsys,
                        ![c].params = IF mem[c].subsys THEN mem[c].ifeo ELSE @]
  /\ mem' = [mem EXCEPT ![c].subsys = FALSE, ![c].ifeo = "none"]
  /\ UNCHANGED <<life, image, parent, call, faults>>

\* KexInitializePropagation: the parameters in Peb->SubSystemData are taken over,
\* unless the program has its own, and freed.
Inherit(c) ==
  /\ kex[c].at = "inherit"
  /\ \/ /\ mem[c].subsys
        /\ kex' = [kex EXCEPT ![c] =
             [@ EXCEPT !.at = "clean", !.propagated = TRUE,
                       !.params = IF image[c].own = NULL THEN mem[c].ifeo ELSE kex[c].params]]
        /\ \/ mem' = [mem EXCEPT ![c] = [@ EXCEPT !.subsys = FALSE, !.ifeo = "none"]] /\ UNCHANGED faults
           \/ Fault /\ mem' = [mem EXCEPT ![c].subsys = FALSE]
     \/ /\ ~mem[c].subsys
        /\ kex' = [kex EXCEPT ![c].at = "clean"]
        /\ UNCHANGED <<mem, faults>>
  /\ UNCHANGED <<life, image, parent, call>>

\* Mutant: the page is freed also when the jump to it stays.
FreeHookAlways(c) ==
  /\ kex[c].at = "clean"
  /\ kex' = [kex EXCEPT ![c].at = IF kex[c].propagated THEN "restore" ELSE "enable"]
  /\ mem' = [mem EXCEPT ![c].page = "none"]
  /\ UNCHANGED <<life, image, parent, call, faults>>

\* KexpCleanupPropagationRemains: nothing without the flag or the jump; else the
\* page of the hook is freed, and
FreeHook(c) ==
  /\ kex[c].at = "clean"
  /\ \/ /\ kex[c].propagated /\ mem[c].openKey = "hook"
        /\ kex' = [kex EXCEPT ![c].at = "restore"]
        /\ \/ mem' = [mem EXCEPT ![c].page = "none"] /\ UNCHANGED faults
           \/ Fault /\ UNCHANGED mem
     \/ /\ ~(kex[c].propagated /\ mem[c].openKey = "hook")
        /\ kex' = [kex EXCEPT ![c].at = "enable"]
        /\ UNCHANGED <<mem, faults>>
  /\ UNCHANGED <<life, image, parent, call>>

\* the system call is put back, into a page that could not be made writable too.
RestoreOpenKey(c) ==
  /\ kex[c].at = "restore"
  /\ \/ /\ mem' = [mem EXCEPT ![c].openKey = "syscall"]
        /\ kex' = [kex EXCEPT ![c].at = "enable"]
        /\ UNCHANGED <<life, faults>>
     \/ /\ Fault
        /\ life' = [life EXCEPT ![c] = "crashed"]
        /\ kex' = [kex EXCEPT ![c].at = "none"]
        /\ mem' = [mem EXCEPT ![c].stuck = TRUE]
  /\ UNCHANGED <<image, parent, call>>

\* Mutant: DisableForChild is not looked at.
EnableAlways(c) ==
  /\ kex[c].at = "enable"
  /\ life' = [life EXCEPT ![c] = "running"]
  /\ kex' = [kex EXCEPT ![c].at = "none", ![c].hooks = TRUE]
  /\ UNCHANGED <<image, parent, call, mem, faults>>

\* KexHkInstallHook on NtCreateUserProcess: not if its page can't be made writable.
InstallHook(c) ==
  \/ kex' = [kex EXCEPT ![c] = [@ EXCEPT !.at = "none", !.hooks = TRUE]] /\ UNCHANGED faults
  \/ kex' = [kex EXCEPT ![c].at = "none"] /\ Fault

\* The end of KexInitializePropagation: NtCreateUserProcess is hooked, or the
\* process goes on without propagation, because it is disabled or the address
\* of NtOpenKey in a child of the other bitness is not found.
Enable(c) ==
  /\ kex[c].at = "enable"
  /\ life' = [life EXCEPT ![c] = "running"]
  /\ IF kex[c].params \in DisableForChild
     THEN kex' = [kex EXCEPT ![c].at = "none"] /\ UNCHANGED faults
     ELSE \/ InstallHook(c)
          \/ OsBits = 64 /\ Fault /\ kex' = [kex EXCEPT ![c].at = "none"]
  /\ UNCHANGED <<image, parent, call, mem>>

-----------------------------------------------------------------------------

\* The root is loading, with options of its own.
Init ==
  /\ life = [c \in Process |-> IF c = Root THEN "loading" ELSE "none"]
  /\ image \in {f \in [Process -> {i \in Images : ~i.powershell}] :
                  \A c \in Process : f[c] = f[Root] /\ f[c].own # NULL}
  /\ parent = [c \in Process |-> Root]
  /\ call = [c \in Process |-> [at |-> IF c = Root THEN "done" ELSE "none",
                                suspended |-> FALSE, retried |-> FALSE]]
  /\ mem = [c \in Process |-> NoMem]
  /\ kex = [c \in Process |-> NoKex]
  /\ faults = 0

Parent(c) ==
  \/ NativeCreate(c) \/ CreateNativeChild(c)
  \/ AllocateHook(c) \/ WriteHook(c) \/ FindOpenKey(c) \/ WriteJump(c)
  \/ AllocateParams(c) \/ WriteParams(c) \/ WriteSubSystemData(c) \/ ClearKeyMissing(c)
  \/ BailOut(c)

Child(c) == Load(c) \/ Inherit(c) \/ FreeHook(c) \/ RestoreOpenKey(c) \/ Enable(c)

Next ==
  \/ \E p, c \in Process : BeginCreate(p, c)
  \/ \E c \in Process : Parent(c) \/ Child(c) \/ CallerResumes(c)

Spec == Init /\ [][Next]_vars

\* Calls and processes run to their end; a program need not create any, nor
\* resume the ones it has asked to be suspended.
FairSpec == Spec /\ \A c \in Process : WF_vars(Parent(c)) /\ WF_vars(Child(c))

-----------------------------------------------------------------------------
(* Properties *)

\* What the process finds has its type: in particular the inherited parameters
\* are a value that was written, not fresh memory (propagte.c:340-347).
TypeOK ==
  /\ life \in [Process -> {"none", "creating", "failed", "made", "loading", "init", "running",
                           "crashed"}]
  /\ image \in [Process -> Images] /\ parent \in [Process -> Process]
  /\ \A c \in Process :
       /\ mem[c].page \in {"none", "raw", "hook"} /\ mem[c].openKey \in {"syscall", "hook"}
       /\ mem[c].ifeo \in Params \cup {"none", "raw"}
       /\ kex[c].at \in {"none", "inherit", "clean", "restore", "enable"}
       /\ kex[c].params \in Params
  /\ faults \in 0..MaxFaults

\* NtOpenKey works in every process, whatever fails on the way but a change of
\* the protection of its own page (for that see the TODO at propagte.c:233): a
\* jump leads to a hook procedure that has been written and not yet freed,
\* except between the two steps of the cleanup, and no process crashes in it.
OpenKeyWorks ==
  \A c \in Process : ~mem[c].stuck =>
    /\ life[c] # "crashed"
    /\ mem[c].openKey = "hook" => mem[c].page = "hook" \/ kex[c].at = "restore"

\* Unless something has failed, VxKex follows a program through every process
\* it creates, of either bitness and behind the VistaRun launcher: the child
\* runs with its own or else with its parent's parameters, and nothing of what
\* the parent has put into it is left.
PropagationIsComplete ==
  \A c \in Process \ {Root} :
    (life[c] = "running" /\ kex[parent[c]].hooks /\ ~image[c].powershell /\ faults = 0) =>
      /\ kex[c].propagated
      /\ kex[c].params = IF image[c].own # NULL THEN image[c].own ELSE kex[parent[c]].params
      /\ mem[c] = [NoMem EXCEPT !.keyMissing = mem[c].keyMissing]

\* DisableForChild of a process, its own or inherited, ends propagation at it,
\* and PowerShell never takes part: their children, and it, are left untouched.
OptOutIsKept ==
  \A c \in Process \ {Root} :
    (kex[c].propagated \/ mem[c].page # "none") =>
      kex[parent[c]].params \notin DisableForChild /\ ~image[c].powershell

\* The child does not run while it is prepared (propagte.c:673-675).
NoneRunsEarly == \A c \in Process : Live(c) => call[c].at = "done"

\* A child whose creator wanted it suspended is resumed by its creator only, so
\* not before the call has returned (propagte.c:1175-1176).
ResumedOnlyWhenReturned ==
  \A c \in Process : (life[c] # "loading" /\ life'[c] = "loading" /\ call[c].suspended)
                      => call[c].at = "done"

\* A child is at rest while its creator's call works on it, and after that
\* until the one who asked for it suspended resumes it.
ChildWaits == [][NoneRunsEarly' /\ ResumedOnlyWhenReturned]_vars

\* A child is created, or the caller learns that it is not: a failure on the
\* way does not leave it suspended for ever.
EveryChildStarts ==
  \A c \in Process :
    (life[c] = "creating" /\ ~call[c].suspended) ~> life[c] \in {"running", "failed", "crashed"}

\* "Remove any NtOpenKey hook that may be there." (propagte.c:387): where KexDll
\* is initialized, NtOpenKey is the system call again.
RemainsAreRemoved ==
  \A c \in Process : (life[c] = "running" /\ kex[c].hooks) => mem[c].openKey = "syscall"
=============================================================================
