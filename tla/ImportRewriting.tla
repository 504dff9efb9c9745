-------------------------- MODULE ImportRewriting --------------------------
(***************************************************************************)
(* How a program comes to call VxKex instead of Windows.  KexDll/dllmain.c *)
(* starts KexDll in one of the three entries of its DllMain, then          *)
(* KexDll/dllrewrt.c changes the names in the import directories of the    *)
(* program and of every image that the loader maps (dllnotif.c).  What is  *)
(* loaded later, by name, passes KexDll/kexldr.c or dload.c: there a flag  *)
(* of the thread, kept by KxBase/module.c and KxUser/loadsyslib.c, says    *)
(* whether the name is changed.                                            *)
(*                                                                         *)
(* External: the loader.  It maps the imports of an image, tells KexDll of *)
(* each, then calls the DllMains, under a lock; a call of one may load.    *)
(* Assumed of it: the program's imports are resolved after the last entry. *)
(*                                                                         *)
(* Left out: images of the other bitness or without imports, loads as data,*)
(* NTDLL's handle in Chromium, the list of AddDllDirectory.                *)
(***************************************************************************)
EXTENDS DllPath

CONSTANTS
  Thread, MainThread,
  Module, Exe,
  Kernel, Ntdll, KxNt, KxBase, Advapi, \* names that the code knows
  Imports,   \* the DLL names in the import directory of a module
  Origin,    \* its directory: "windows", "kex" or "program"
  Special,   \* how KexShouldRewriteImportsOfDll and its like know it, or "none"
  File,      \* the file of a DLL name
  Own,       \* that of a name outside of the Windows directory
  Redirects, \* DllRedirects: a function from names to names
  Requests,  \* what a module may ask for when it is called
  Loads,     \* what its DllMain asks for
  Settings,  \* what can be true of a process, see Setting
  MaxFaults  \* protections that can't be changed, conversions without memory

\* ie: Internet Explorer; late: 32-bit on Vista; exempt: MSIEXEC at work on a
\* package that is not enabled; hacks: app-specific; spoof: above Windows 7.
Setting == [ie : BOOLEAN, late : BOOLEAN, exempt : BOOLEAN, hacks : BOOLEAN,
            spoof : BOOLEAN, path : Seq(Entry)]

\* "search": without a directory, or with the Windows directory's.  Names asked
\* for elsewhere are not those of modules that are asked for otherwise.
Request == [call : {"load", "handle"}, name : DOMAIN File, at : {"search", "delay"}]
           \cup [call : {"load", "handle"}, name : DOMAIN Own, at : {"elsewhere"}]

\* What a module asks for, when it is called or in its DllMain.
Asks(m) == Requests[m] \cup Range(Loads[m])

ASSUME ModuleAssumption ==
  /\ MainThread \in Thread /\ Exe \in Module
  /\ Imports \in [Module -> Seq(DOMAIN File)] /\ Range(File) \subseteq Module
  /\ Range(Own) \subseteq Module /\ Range(Redirects) \subseteq DOMAIN File
  /\ {Kernel, KxNt} \subseteq DOMAIN File
  /\ Loads \in [Module -> Seq(Request)]
  /\ \A m \in Module : Requests[m] \subseteq Request
ASSUME SettingsAssumption ==
  /\ \A s \in Settings : s \in Setting
  /\ MaxFaults \in Nat

\* What the modules of a run of this program are, as far as KxBase, which stands
\* for kernel32, is concerned (redirects.h:13, dllrewrt.c:434-480): kernel32 is named
\* by whoever calls its LoadLibrary, KxBase at most by DLLs of VxKex that do not
\* have imports resolved late.
ASSUME KernelAssumption ==
  /\ Kernel \in DOMAIN Redirects /\ Redirects[Kernel] = KxBase /\ KxBase # KxNt
  /\ Advapi \in DOMAIN Redirects => Redirects[Advapi] # KxBase
  /\ Origin[File[Kernel]] = "windows" /\ Special[File[Kernel]] = "kernel32"
  /\ Ntdll \in Range(Imports[File[Kernel]])
  /\ Special[File[KxBase]] = "kx" /\ Kernel \in Range(Imports[File[KxBase]])
  /\ Origin[Exe] = "program" /\ Special[Exe] = "none" /\ Kernel \in Range(Imports[Exe])
  /\ \A m \in Module :
       /\ Special[m] = "kx" => Origin[m] = "kex"
       /\ \A r \in Asks(m) :
            /\ r.at = "search" /\ Special[m] # "kx" => Kernel \in Range(Imports[m])
            /\ r.at = "delay" => KxBase \notin Range(Imports[m])
       /\ Special[m] # "kx" => KxBase \notin Range(Imports[m])

VARIABLES
  settings,
  boot,    \* entries of DllMain, starts of KexDll, and how far the process is
  path,    \* the search path of the process
  image,   \* what is mapped, with which names
  stack,   \* the calls of a thread, the innermost first
  flag,    \* Teb->KexLdrShouldRewriteDll
  faults

vars == <<settings, boot, path, image, stack, flag, faults>>

Push(f, s) == <<f>> \o s

-----------------------------------------------------------------------------
(* dllrewrt.c *)

\* KexInitializeDllRewrite: kernel32 is left alone in Internet Explorer.
Table == IF settings.ie THEN Restrict(Redirects, DOMAIN Redirects \ {Kernel}) ELSE Redirects

KexpLookupDllRewriteEntry(n) == IF n \in DOMAIN Table THEN Table[n] ELSE n

KexShouldRewriteImportsOfDll(m) ==
  CASE Origin[m] = "windows" -> \/ Special[m] \in {"forced", "secur32", "kernel32"}
                                \/ Special[m] = "iertutil" /\ settings.spoof
    [] Origin[m] = "kex" -> Special[m] # "kx"
    [] Origin[m] = "program" -> settings.hacks => Special[m] # "hacked"

NewName(m, n) ==
  CASE Special[m] = "kernel32" -> IF n = Ntdll THEN KxNt ELSE n
    [] Special[m] = "secur32" /\ n # Advapi -> n
    [] OTHER -> KexpLookupDllRewriteEntry(n)

NoFault == [kind |-> "none", at |-> 0]

\* The section is not made writable, or the bound import directory is not.
ProtectFaults == [kind : {"section", "bound"}, at : {0}]

\* A name is left; a name is written, and failing to protect it again uncounts it.
FaultsOf(m) ==
  ProtectFaults \cup
  (IF Special[m] = "kernel32" THEN {}
   ELSE [kind : {"left", "uncounted"}, at : DOMAIN Imports[m]])

\* The image as it is mapped, with a directory of bound imports.
Fresh(m) == [mapped |-> TRUE, names |-> Imports[m], bound |-> TRUE, ready |-> FALSE]

KexRewriteImageImportDirectory(m, fault) ==
  LET left == CASE fault.kind = "section" -> DOMAIN Imports[m]
                [] fault.kind = "left" -> {fault.at}
                [] OTHER -> {}
      names == [i \in DOMAIN Imports[m] |->
                  IF i \in left THEN Imports[m][i] ELSE NewName(m, Imports[m][i])]
      counted == {i \in DOMAIN names : /\ names[i] # Imports[m][i]
                                       /\ fault # [kind |-> "uncounted", at |-> i]}
  IN [Fresh(m) EXCEPT !.names = names, !.bound = (counted = {} \/ fault.kind = "bound")]

Fault(m, fault) ==
  \/ fault = NoFault /\ UNCHANGED faults
  \/ fault \in FaultsOf(m) /\ faults < MaxFaults /\ faults' = faults + 1

\* KexDllNotificationCallback, which has no way to fail.
Mapped(m, fault) ==
  IF boot.starts > 0 /\ KexShouldRewriteImportsOfDll(m)
  THEN Fault(m, fault) /\ image' = [image EXCEPT ![m] = KexRewriteImageImportDirectory(m, fault)]
  ELSE fault = NoFault /\ UNCHANGED faults /\ image' = [image EXCEPT ![m] = Fresh(m)]

-----------------------------------------------------------------------------
(* dllmain.c *)

\* The verifier's entry, and the last one of a 32-bit process on Vista.
\* Mutant: the last entry of every process.
StartsAtLast(entry) == ~settings.exempt /\ ((entry = 1 /\ ~settings.late) \/ entry = 3)

StartsAt(entry) == ~settings.exempt /\ entry = (IF settings.late THEN 3 ELSE 1)

\* A program whose imports can't be rewritten is ended.
Start ==
  \E fault \in {NoFault} \cup FaultsOf(Exe) :
    LET exe == KexRewriteImageImportDirectory(Exe, fault)
        fatal == fault.kind = "section" \/ (fault.kind = "bound" /\ exe.names # Imports[Exe])
    IN /\ Fault(Exe, fault)
       /\ image' = [image EXCEPT ![Exe] = exe]
       /\ path' = KexpAddKex3264ToDllPath(path)
       /\ boot' = [boot EXCEPT !.entered = @ + 1, !.starts = @ + 1,
                               !.phase = IF fatal THEN "failed" ELSE @]

DllMain ==
  /\ boot.phase = "entering" /\ boot.entered < 3
  /\ IF StartsAt(boot.entered + 1)
     THEN Start
     ELSE boot' = [boot EXCEPT !.entered = @ + 1] /\ UNCHANGED <<path, image, faults>>
  /\ UNCHANGED <<settings, stack, flag>>

-----------------------------------------------------------------------------
(* What the loader does *)

Code(m, requests) == [kind |-> "code", module |-> m, todo |-> requests]

\* kex: KexDir is searched, by all of the load; todo: modules still to be mapped;
\* init: modules whose DllMain is to be called.
Load(m, r, wrapper, saved, target, kex, todo) ==
  [kind |-> "load", by |-> m, asked |-> r, wrapper |-> wrapper, saved |-> saved,
   target |-> target, kex |-> kex, todo |-> todo, init |-> <<>>]

Loading(t) == \E i \in DOMAIN stack[t] : stack[t][i].kind = "load"

In(t, kind) == stack[t] # <<>> /\ Head(stack[t]).kind = kind

Files(names) == [i \in DOMAIN names |-> File[names[i]]]

KexDirSearched == KexDir \in Range(path)

\* The imports of the program.
LoadProgram ==
  /\ boot.phase = "entering" /\ boot.entered = 3
  /\ boot' = [boot EXCEPT !.phase = "loading"]
  /\ LET nothing == [call |-> "load", name |-> Kernel, at |-> "search"]
     IN stack' = [stack EXCEPT ![MainThread] =
          <<Load(Exe, nothing, "none", FALSE, Exe, KexDirSearched, Files(image[Exe].names))>>]
  /\ UNCHANGED <<settings, path, image, flag, faults>>

MapNext(t) ==
  /\ In(t, "load") /\ Head(stack[t]).todo # <<>>
  /\ LET f == Head(stack[t])
         m == Head(f.todo)
         Replaced(todo, init) == [stack EXCEPT ![t][1] = [f EXCEPT !.todo = todo, !.init = init]]
     IN IF image[m].mapped
        THEN stack' = Replaced(Tail(f.todo), f.init) /\ UNCHANGED <<image, faults>>
        ELSE /\ Origin[m] = "kex" => f.kex
             /\ \E fault \in {NoFault} \cup FaultsOf(m) : Mapped(m, fault)
             /\ stack' = Replaced(Tail(f.todo) \o Files(image'[m].names), <<m>> \o f.init)
  /\ UNCHANGED <<settings, boot, path, flag>>

InitNext(t) ==
  /\ In(t, "load") /\ Head(stack[t]).todo = <<>> /\ Head(stack[t]).init # <<>>
  /\ LET m == Head(Head(stack[t]).init)
     IN stack' = [stack EXCEPT ![t] = Push(Code(m, Loads[m]),
                    [stack[t] EXCEPT ![1].init = Tail(@)])]
  /\ UNCHANGED <<settings, boot, path, image, flag, faults>>

CodeReturns(t) ==
  /\ In(t, "code") /\ Head(stack[t]).todo = <<>>
  /\ image' = [image EXCEPT ![Head(stack[t]).module].ready = TRUE]
  /\ stack' = [stack EXCEPT ![t] = Tail(@)]
  /\ UNCHANGED <<settings, boot, path, flag, faults>>

\* A module calls another, or a thread of the program runs.
Call(t, m) ==
  /\ boot.phase = "running" /\ stack[t] = <<>> /\ image[m].ready
  /\ \E r \in Requests[m] : stack' = [stack EXCEPT ![t] = <<Code(m, <<r>>)>>]
  /\ UNCHANGED <<settings, boot, path, image, flag, faults>>

-----------------------------------------------------------------------------
(* LoadLibrary and GetModuleHandle *)

\* Kernel32 calls KxNt, which calls kexldr.c.
Hooked == KxNt \in Range(image[File[Kernel]].names)

\* The code between a module and kernel32: Ext_LoadLibrary of KxBase,
\* OriginalLoadLibrary of KxUser, or none.
Wrapper(m, r) ==
  CASE r.at = "delay" -> "none"
    [] r.at # "delay" /\ Special[m] = "kx" -> "system"
    [] r.at # "delay" /\ Special[m] # "kx" ->
         IF KxBase \in Range(image[m].names) THEN "ext" ELSE "none"

\* InterceptedKernelBaseLoaderCallEntry, OriginalLoadLibrary.
Entered(wrapper, now) ==
  CASE wrapper = "ext" -> TRUE [] wrapper = "system" -> FALSE [] wrapper = "none" -> now

\* Mutant: the way out of KxBase keeps the flag.
LeftAsIs(wrapper, saved, now) == IF wrapper = "system" THEN saved ELSE now

\* InterceptedKernelBaseLoaderCallReturn, OriginalLoadLibrary.
Left(wrapper, saved, now) ==
  CASE wrapper = "ext" -> saved /\ now [] wrapper = "system" -> saved [] wrapper = "none" -> now

\* KexLdrResolveDelayLoadedAPI does not look at the flag.
DelayLoaded(r) == r.at = "delay"

\* The system has no such function: only a rewritten import leads to it.
Offered(m, r) == DelayLoaded(r) => KxBase \in Range(image[m].names)

\* KexLdrLoadDll and KexLdrGetDllHandleEx do.
Rewrites(r, now) == DelayLoaded(r) \/ (r.at = "search" /\ Hooked /\ now)

Target(r, now) ==
  IF r.at = "elsewhere" THEN Own[r.name]
  ELSE File[IF Rewrites(r, now) THEN KexpLookupDllRewriteEntry(r.name) ELSE r.name]

\* A name that is not changed is searched for in kernel32's path, with KexDir
\* before it; a changed or delay-loaded one in that of the process.
Searched(r, now) ==
  \/ KexDirSearched
  \/ Hooked /\ ~DelayLoaded(r) /\ ~(Rewrites(r, now) /\ r.name \in DOMAIN Table)

Found(r, target, kex) ==
  image[target].mapped \/ (r.call = "load" /\ (Origin[target] = "kex" => kex))

LoadLibrary(t) ==
  /\ In(t, "code") /\ Head(stack[t]).todo # <<>>
  /\ \A u \in Thread \ {t} : ~Loading(u)
  /\ LET m == Head(stack[t]).module
         r == Head(Head(stack[t]).todo)
         wrapper == Wrapper(m, r)
         now == Entered(wrapper, flag[t])
         target == Target(r, now)
         kex == Searched(r, now)
         rest == [stack[t] EXCEPT ![1].todo = Tail(@)]
     IN IF Offered(m, r) /\ Found(r, target, kex)
        THEN /\ stack' = [stack EXCEPT ![t] =
                  Push(Load(m, r, wrapper, flag[t], target, kex, <<target>>), rest)]
             /\ flag' = [flag EXCEPT ![t] = now]
        ELSE stack' = [stack EXCEPT ![t] = rest] /\ UNCHANGED flag
  /\ UNCHANGED <<settings, boot, path, image, faults>>

Return(t) ==
  LET f == Head(stack[t])
  IN /\ stack' = [stack EXCEPT ![t] = Tail(@)]
     /\ flag' = [flag EXCEPT ![t] = Left(f.wrapper, f.saved, @)]

LoadReturns(t) ==
  /\ In(t, "load") /\ Head(stack[t]).todo = <<>> /\ Head(stack[t]).init = <<>>
  /\ Return(t)
  /\ IF Head(stack[t]).target = Exe
     THEN /\ boot' = [boot EXCEPT !.phase = "running"]
          /\ image' = [image EXCEPT ![Exe].ready = TRUE]
     ELSE UNCHANGED <<boot, image>>
  /\ UNCHANGED <<settings, path, faults>>

\* An import that is not found: what was mapped for it is unmapped.
LoadFails(t) ==
  /\ In(t, "load") /\ Head(stack[t]).todo # <<>>
  /\ LET f == Head(stack[t])
         m == Head(f.todo)
     IN /\ Origin[m] = "kex" /\ ~image[m].mapped /\ ~f.kex
        /\ image' = [n \in Module |->
             IF n \in Range(f.init) THEN [image[n] EXCEPT !.mapped = FALSE] ELSE image[n]]
        /\ boot' = IF f.target = Exe THEN [boot EXCEPT !.phase = "failed"] ELSE boot
  /\ Return(t)
  /\ UNCHANGED <<settings, path, faults>>

-----------------------------------------------------------------------------

Init ==
  /\ settings \in Settings
  /\ boot = [entered |-> 0, starts |-> 0, phase |-> "entering"]
  /\ path = settings.path
  /\ image = [m \in Module |-> [Fresh(m) EXCEPT !.mapped = (m = Exe)]]
  /\ stack = [t \in Thread |-> <<>>]
  /\ flag = [t \in Thread |-> FALSE]
  /\ faults = 0

Next ==
  \/ DllMain \/ LoadProgram
  \/ \E t \in Thread :
       \/ MapNext(t) \/ InitNext(t) \/ CodeReturns(t)
       \/ LoadLibrary(t) \/ LoadReturns(t) \/ LoadFails(t)
       \/ \E m \in Module : Call(t, m)

Spec == Init /\ [][Next]_vars

-----------------------------------------------------------------------------

\* What the three entries of DllMain come to: KexDll is started once at most, and
\* before the program's imports are resolved (dllmain.c:125-185).
StartedInTime ==
  /\ boot.starts \in 0 .. 1
  /\ boot.phase \in {"loading", "running"} => boot.starts = 1 \/ settings.exempt

\* The type invariant.
TypeOK ==
  /\ settings \in Setting /\ path \in Seq(Entry \cup {Torn})
  /\ boot \in [entered : 0 .. 3, starts : Nat,
               phase : {"entering", "loading", "running", "failed"}]
  /\ StartedInTime
  /\ \A m \in Module :
       /\ image[m] \in [mapped : BOOLEAN, names : Seq(DOMAIN File),
                        bound : BOOLEAN, ready : BOOLEAN]
       /\ Len(image[m].names) = Len(Imports[m])
  /\ flag \in [Thread -> BOOLEAN]
  /\ faults \in 0 .. MaxFaults

\* The module calls Windows through VxKex.
Redirected(m) ==
  /\ boot.starts = 1
  /\ KexShouldRewriteImportsOfDll(m) /\ Special[m] \notin {"kernel32", "secur32"}

BelowExt(t, i) == \E j \in i + 1 .. Len(stack[t]) :
  stack[t][j].kind = "load" /\ stack[t][j].wrapper = "ext"

\* The flag does not outlive the calls that set it (module.c:48-64).
FlagIsReturned == \A t \in Thread : stack[t] = <<>> => ~flag[t]

\* What a module loads by name is what it would get by an import of that name:
\* VxKex's for a module whose imports are rewritten, the system's for one of
\* VxKex or of Windows, unless the latter runs within a load that a rewritten
\* module asked for (module.c:37-46).
\* An image with other imports is not bound to those it had.
LoadsAgree ==
  /\ FlagIsReturned
  /\ faults = 0 /\ ~settings.ie =>
       /\ \A t \in Thread : \A i \in DOMAIN stack[t] :
            LET f == stack[t][i]
            IN f.kind = "load" /\ f.target # Exe /\ f.asked.at # "elsewhere" =>
                 IF Redirected(f.by)
                 THEN f.target = File[KexpLookupDllRewriteEntry(f.asked.name)]
                 ELSE Special[f.by] = "kx" \/ ~BelowExt(t, i) => f.target = File[f.asked.name]
       /\ \A m \in Module :
            image[m].mapped /\ image[m].names # Imports[m] => ~image[m].bound

\* dllpath.c:17-27: VxKex's directory comes first in the search path; where
\* there is room the length is kept and no directory is lost or moved.
PathIsKept ==
  [][boot'.starts > boot.starts =>
       /\ ~TooShort(Normalized(path)) => Head(path') = KexDir
       /\ ~TooShort(Normalized(path)) /\ HasRoom(path) => Extended(path, path')]_vars
=============================================================================
