# VxKex for Vista: models and proofs

VxKex makes programs written for newer versions of Windows run on Windows
Vista (NT 6.0; much of it on 7 too). It is C code that lives inside other
programs: it is loaded into a process, rewrites the imports of every image
there so that missing system functions resolve to VxKex's own DLLs, and follows
the program into the processes it starts. Most of its 80 000 lines of C are
stubs and translations of one call into another. This directory models the
parts that have a state machine, a lock, or a peer.

- [Inventory](#inventory): the components of the repository
- [Modules](#modules): what is modelled, and how it corresponds to the code
- [Runs](#runs): what TLC checks, with which bounds and fairness
- [Findings](#findings): where the code does not do what it says
- [Proofs](#proofs): what holds for every value of the constants
- [Not modelled](#not-modelled) and [Plan](#plan)

To check a model: `tlc -config MCTlsClient.cfg MCTlsClient`.
To check a proof: `tlapm WaitOnAddressProofs.tla`.
Line numbers are those of the sources under `src/` at the modelled commit.

## Inventory

Components with behaviour of their own. "Hard" is what a unit test would not
easily reach; "correct" is what the properties are to say.

| Component | State | Operations | Hard | Correct when |
|---|---|---|---|---|
| WaitOnAddress (`KexDll/rtlwoa.c`) | 32 hash buckets: lock, circular list of wait blocks that live on the waiters' stacks; an event per block | wait, time out, wake one, wake all | time-out against wake; a list changed by its own traversal; blocks that vanish when their thread returns | no block is used after its frame; no wake is lost; first come, first served per address |
| Alert by thread ID (`KexDll/ntalrtid.c`) | lock, list of alert states (ID, pinned thread handle, event) | alert, wait, clean up; states of exited threads are retired lazily | thread IDs are reused; threads exit between two checks; an alert races with a time-out | an alert reaches the thread that bears the ID and stays until it is taken |
| Propagation (`KexDll/propagte.c`) | memory of the child, its parameters, hooks of each process | hook of `NtCreateUserProcess`, nine steps in a suspended child; in the child: inherit, clean up, hook | any step may fail; two bitnesses; the hook runs inside the loader of the child | the child starts, unharmed, with the right parameters, or is left alone |
| TLS client (`KxSChanl`) | security context: state, keys, sequence numbers, transcript hash, partly received message | `InitializeSecurityContext`, `EncryptMessage`, `DecryptMessage`, `ApplyControlToken`, `DeleteSecurityContext` | two protocol versions in one state machine; messages cut by records, records cut by calls; keys change in mid-stream | both ends agree; an honest server is accepted; the handshake ends |
| Start-up (`KexDll/dllmain.c`, `dllnotif.c`, `dllpath.c`) | `KexData`, the loader's notification, the search path of the process | `DllMain` as verifier provider, on attach and detach; DLL load notification; put VxKex's directory into the path | three entries in an order that differs by system and bitness; a path that may not become longer | initialised exactly once, before anything of the program runs; no directory is lost |
| Import rewriting (`KexDll/dllrewrt.c`, `kexldr.c`, `dload.c`, `KxBase/module.c`, `KxUser/loadsyslib.c`) | table of DLL names; the import directory of each image; a flag per thread | rewrite the names of an image in place; load a DLL or get its handle by name; delayed loads | `DllMain`s that load within loads, so that calls of Windows, of VxKex and of the program nest; a failure half-way through an image | what a module loads by name is what it would import by that name; an image with new names is not bound to the old |
| VXL log (`KexDll/vxl*.c`, `logging.c`) | file with header (dirty flag, counters, name tables), mapped into every process that has it open; index of a reader; lock per handle | open, write, read, query, close | header shared and changed in several steps, entries appended in another: a failed write, an exit or a crash between them; a reader beside a writer; the tables fill | counters and entries agree; a call adds its own record once; a reader whose open succeeds has the whole log |
| Log viewer (`VxlView/backend.c`, `backendp.c`) | a log that has been opened, filters, number of the entry per row | open, set filters, look a row up | rows are looked up lazily and in any order, while the log grows | row d is the d-th entry that passes the filters |
| SRW try-acquire (`KexDll/srwtry.c`, `KxBase/synch.c`) | the lock word of Vista's SRW locks | try exclusive, try shared, in two copies | compare-and-swap beside the system's own acquire and release | never admits a reader beside a writer |
| Configuration (`KxCfgHlp`) | values in a program's key of Image File Execution Options, shared with the loader and other products; the saved configurations of an uninstallation | get, set, delete, preserve, restore, install, remove | up to nine values written one by one, a failure or the end of the tool at each; tools and other products that change the same key meanwhile | a call that succeeds leaves what was asked; other products keep theirs; no program is left with a launch command that does not work |
| Paths (`KexPathCch`) | none | canonicalise, combine, ... | boundary lengths | equals the documented function |
| Native stand-ins (`KexDll/nt*.c`, ...), KxBase, KxUser, KxNet, KxDx, KxCom, KxCryp, ... | little or none | one translation per function | | |
| Settings, shell extension, viewer, set-up | dialogs | | | |

**How they interact.** The loader calls KexDll (start-up), which reads the
parameters of the program, opens the log, initialises propagation, rewrites the
imports of the program and asks to be notified of every further image.
Propagation in a parent writes into the child's memory and is met there by the
child's own start-up: shared memory between two processes with the child's
suspension as the only synchronisation. WaitOnAddress and alerts are reached
through rewritten imports by any thread of the program; they share no state
with each other or with propagation, only a program's threads use both. KxSChanl
is loaded by the security service as a provider, and talks to its caller
through buffers and return codes and to the server through them. Two files are
meeting points: the log, which the KexDll of one process writes while the viewer
reads it, through a header that both have mapped; and the registry keys of the
programs, which the settings tools, the shell extension, set-up and other
products write, and which the loader and KexDll read at the next start of the
program. Start-up and import rewriting are one
model, since what the one leaves (the path, the table, the names in the program) decides
what the loads of the other find. So `VxlLog` is composed with `VxlView`, `KexConfig` is several tools,
set-up and other products over the same keys, and the other components are
composed with their environments (program, kernel, child process, server) and
not with each other. What `Propagation` knows of a configuration is its outcome:
the options in the program's own key and a debugger there (`Image`).

## Modules

| Module | Models |
|---|---|
| `WaitOnAddress` | `rtlwoa.c`, for any number of threads, addresses and buckets |
| `AddressQueues` | what `rtlwoa.c` promises, abstractly: a queue per address |
| `WoaProgram` | `WaitOnAddress` composed with programs that use it in the usual loop |
| `WaitQueues` | the lists of `WaitOnAddress` read as the queues of `AddressQueues` |
| `WaitOnAddressProofs` | theorems about `WaitOnAddress` and `WaitQueues` |
| `AlertByThreadId` | `ntalrtid.c` and the part of the kernel that gives out thread IDs |
| `AlertByThreadIdProofs` | theorems about `AlertByThreadId` |
| `Propagation` | `propagte.c` with `KexHkInstallHook`, `KexRtlWriteProcessMemory` and the initial parameters |
| `PropagationProofs` | theorems about `Propagation` |
| `TlsClient` | `KxSChanl`'s client, and an honest server |
| `TlsClientProofs` | theorems about `TlsClient`: each side's state |
| `TlsClientFlows` | theorems about `TlsClient`: what is under way between them |
| `VxlLog` | the log file: `vxlopcl.c`, `vxlwrite.c`, the index of `vxlpriv.c` |
| `AppendLog` | what a log promises its writers, abstractly: a sequence of records |
| `VxlView` | the viewer's filters and rows, over `VxlLog` |
| `VxlLogProofs` | theorems about `VxlLog` and `VxlView` |
| `KexConfig` | `KxCfgHlp`: set, delete, preserve, restore, set-up, beside other products |
| `ProgramSettings` | what `KxCfgHlp` promises, abstractly: settings per program |
| `KexConfigProofs` | theorems about `KexConfig`, and that it implements `ProgramSettings` |
| `DllPath` | `dllpath.c`, as operators on paths |
| `ImportRewriting` | start-up, `dllrewrt.c` and the loads by name, with the loader |
| `ImportRewritingProofs` | theorems about `ImportRewriting` |
| `MC...` | the small instances |

**WaitOnAddress.** A thread has at most one wait block, so blocks are named by
their thread; `waitAddr`, `next`, `prev` are the block's fields and are `NULL`
when it is in no list or gone, `event` is its event. `pc` says where the thread
is; a block exists exactly in the states of `InFrame`. One action is one stretch
of code under the bucket's lock, or one round of the wake's loop
(`WakeStep`), which lets the waiters return between rounds as they can in the
code: their events are set while the waker still holds the lock.
`WaitEnqueue` is lines 127-212: the comparison happens under the lock. A call that finds
another value returns at once and is a stutter here; `WoaProgram` makes it
visible. `WaitTimeout` is the kernel ending the wait and `WaitTimeoutReturn` the
removal of the block under the lock; in between a waker may have taken the
block off. Stores of the program to its memory (`Store`) are external. The four
operand sizes and the checks of arguments are not distinguished.
`WaitQueues` maps a list to the queues of `AddressQueues`, by walking along
`next` from the head.

**AlertByThreadId.** An object of the kernel is a thread with its life, its ID
(`tid`) and whether the program holds a handle (`held`). The kernel
deletes an exited thread that no handle pins and may give its ID to another. An
alert is `AlertBegin` (lock, retire), `AlertFind`, and when there is no state,
`AlertOpen`, `AlertExited` or `AlertRunning`, `AlertSignal`: the code holds its lock over all of them, but
threads are created and exit meanwhile, which is why they are separate actions. A
wait is `WaitBegin` under the lock and then `WaitAlerted` or `WaitTimeout`
without it. `alert[o]` is the state for thread `o`: none, clear or set.
A failed allocation or creation of an event returns an error before anything
changes, and is not distinguished.

**Propagation.** One process is created once. `call[c]` is where the parent's
hook is in the creation of `c`, each call of a system service on the child an
action: `CreateNativeChild` (with the retry without the launcher),
`AllocateHook`, `WriteHook`, `FindOpenKey`, `WriteJump`, `AllocateParams`,
`WriteParams`, `WriteSubSystemData`, `ClearKeyMissing`, `BailOut`. Each of them
may fail (`Fault`), and then goes where the code goes. In the child, `Load` is
the loader reaching `NtOpenKey`, `Inherit`, `FreeHook`, `RestoreOpenKey` and
`Enable` are the parts of `KexInitializePropagation`. `mem[c]` is what the
parent wrote: the page of the hook, what `NtOpenKey` starts with, the parameters, the flag of
`SubSystemData`. `raw` is memory allocated but not written.

**TlsClient.** `ctx` is the security context, with the code's states in the
code's order (`StateOrder`, because the code compares them with `<`). One call
of `InitializeSecurityContext` is `BeginConnect`, then the steps of `TlsConnect`
(`ProcessIncomingRecord`, `ProcessMessage`, `GenerateOutgoingRecord`), then
`EndConnect`; `avail` is how many records its input holds, any number of those that
have arrived. Cryptography is symbolic: a key is the stage, the side and the
transcript it was derived from, and a record opens only under the key and
sequence number it was sealed with. A `Finished` proves a key and a transcript.
Message bytes are pairs of message and position, so that reassembly is checked
byte by byte with a header of two bytes and bodies of at most two. The server
follows the protocol, chooses the suite, cuts records where `SplitHeaders` and
`SplitTickets` allow, may speak in TLS 1.3 before the client's Finished arrives,
and may close at any point; it is external, as is the network, which is TCP and
loses nothing. The limit of 256 KB on a message (tlshs.c:430-436) and the branch
for a saved header (tlshs.c:343-386), which the code never reaches because the
count stays zero, are left out.

**VxlLog and VxlView.** A handle is in a process of its own, so it stands for the
process too. Opening is one action per step that another process can see:
`OpenFile` (the sharing modes: one writer, any readers), `SetLength`, `MapFile`,
`InitHeader` or `CheckHeader`, `MarkDirty` for a writer, `QueryFile`,
`FillIndex`, `CompareCounts` for a reader; `OpenFails` is a failing service at any
of them, and `CloseLog` clears the dirty flag of whatever header is mapped, as the
code does on every way out. Writing is `WriteLog`, `AcquireLock`, one
`FindOrCreateIndex` per name table, `ReadCount` and `StoreCount` (the increment of
a counter in shared memory is two steps), `WriteEntry`. `Exit` is
a process that ends in order: the system ends its other threads where they are
and `DllMain` closes the log; `Crash` leaves the header as it is. `lost` is a
history variable: entries that were counted and never written. What
`StringCchCopy` leaves of a name that is too long is `Truncated[name]`. A component, file
or function that a call leaves out is the empty string (vxlwrite.c:65-75), `NoName`; it
equals what the first free slot holds, so it gets the index of that slot and does not take it
(vxlpriv.c:182-185), and the next new name of the table takes it and gives its
name to the entries that refer to it. `AppendLog` says so: `Fill` turns the names
left out of a field, all together and once each, into that of a call. Every caller
in the repository gives all three names, but `VxlWriteLogEx` is exported and they are optional. Texts,
times, process numbers and the queries that only read are left out. In `VxlView` the rows
are `lookup`, found by `LookedUp` as the loop of `backend.c:456-493` finds them,
with 0 for its -1; memory past the end of the index, which `VxlReadLog` does not
exclude when the log has grown, is any of `Stray`.

**KexConfig.** `key[k]` holds the values of one program: the verifier list
(`dlls`, a set of names), the global and the verifier flags, the `KEX_` values,
our launch command's mark and the debugger. Each write of
`KxCfgSetConfiguration` and `KxCfgDeleteConfiguration` is an action, after which
the tool may stop (`Abort`: a write that fails, or the end of the process).
Inside a transaction the same steps happen undisturbed or not at all, both of
which are behaviours of this model. What is read is read where the code reads it: the
verifier list and its flags before the first write of a set, so that somebody
may change them before they are written back. Set-up's
actions are one transaction each over all keys: `PreserveAllConfigurations`,
`RestoreAllConfigurations`, `PrepareUninstall`, `StageInstall`,
`StageUninstall`. Other products (`EditVerifier`, `EditFlags`, `EditDebugger`)
are external. A verifier list that has no room for our name keeps a cut piece of
it (`Cut`), as `StringCchCat` does. To add our name and to show whether a program is
enabled, the code looks for it anywhere in the text of the list (setcfg.c:181, getcfg.c:108):
`Mentions`, which is also true for a longer name of another product that contains
ours, one of `Alike`. Removal, preservation and set-up compare whole names
(kxcfgp.c:46-74), as the loader does. So `Effective`, what the next start of the program obeys, and
`GetConfiguration`, what the tools show, are two things, `conf` and `shown` of
`ProgramSettings`, which promises that they agree (`Honest`) but for keys that
are `Misread`, and leaves out of its promise a call whose name such a longer name kept
out of the list (`Prevented`). The lists of programs that the tools enumerate (getcfg.c:235, 326) are
read in the same way and change nothing. `disputed` and `sure` are history: where calls
overlapped, and whether a call was alone. A program's keys in the 32-bit
and the 64-bit view are written by the same code one after the other and are not
told apart.

**ImportRewriting and DllPath.** `boot` counts the entries of `DllMain` and the
starts of KexDll; `DllMain` is one entry, and `Start` what the entry that
initialises does: the path (`KexpAddKex3264ToDllPath`), then the imports of the
program. `image[m]` is what the loader has mapped: the names in its import
directory, whether the directory of bound imports is still in force, whether
its `DllMain` is through. `stack[t]` holds the calls of a thread: `"code"` is a
`DllMain` or a function of a module with what it still asks for, `"load"` a call
of the loader with the modules it still has to map (`MapNext`, where the
notification rewrites the names) and whose `DllMain` it still has to call (`InitNext`,
`CodeReturns`). `LoadLibrary` is the way of a request through the code of VxKex that stands
between the module and the loader: the wrapper in KxBase or KxUser which saves
and sets `flag[t]` (`Entered`), `KexLdrLoadDll` which looks at it
(`Rewrites`), or delayed loading, which does not. `LoadReturns` and `LoadFails`
give the flag back (`Left`). The loader is external, with its lock: other
threads wait while one loads. That the imports of the program are resolved after
the last entry of `DllMain` is assumed of it. `settings` is what differs by
process: Internet Explorer, a 32-bit process on Vista, an exempt MSIEXEC,
app-specific hacks, a spoofed version, the path. `faults` are protections that cannot be changed and
names that cannot be converted (`FaultsOf`). `DllPath` has a path as a sequence
of entries with lengths: `KexpShrinkDllPathLength` removes duplicates entry by
entry until the new directory fits, `HasRoom` says without the algorithm whether it
can, `Extended` what the header of `dllpath.c` asks for.

## Runs

| Run | Instance | Properties | Shows |
|---|---|---|---|
| `woa_lists` | 4 threads, 2 addresses in 1 bucket, symmetric threads | `TypeOK` `MemorySafe` `OffListIsSignalled` `RingIsWholeList` `WakeFindsWaiters` `ImplementsQueues` | the lists are sound, the queues are what was promised |
| `woa_program` | 2 waiters, 2 setters, 2 addresses in 1 bucket | `EveryWaiterPasses` `WakeTerminates` | no wake is lost, wakes end |
| `alert` | 3 threads, one foreign, 3 IDs | `TypeOK` `StateNamesItsThread` `WaiterKeepsState` `AlertNotLost` `AlertReachesItsId` `AlertWakes` `DeadIdsAreReleased` | alerts under reuse of IDs; no deadlock |
| `tls_safety` | 3 suites, 1 record of data or ticket each way | `TypeOK` `Agreement` `KeysInSync` `HonestPeerIsAccepted` `StateAdvances` `HandshakeCompletes` | keys, numbers and transcripts fit, the handshake ends |
| `propagation` | a program and two descendants, 6 kinds of program, 2 faults, 64-bit Vista | `TypeOK` `OpenKeyWorks` `PropagationIsComplete` `OptOutIsKept` `ChildWaits` `EveryChildStarts` | children start as they should |
| `vxl_log` | 2 writers and a viewer, 2 threads, 3 places, tables of 1 and 2 slots, 3 calls, 1 fault | `ViewTypeOK` `CountersAccount` `DirtyWhileWritten` `LookupIsExact` `OpenedLogIsWhole` `ImplementsAppendLog` | the log is what its writers and its reader take it for |
| `kex_config` | 1 program and the template, 2 tools, 1 DWORD, lists of up to 2 other verifiers, one with a name that contains ours, with room for 2, 2 calls, 1 edit | `TypeOK` `LaunchCommandWorks` `OthersAreKept` `ImplementsProgramSettings` | settings survive failures, each other, other products and set-up |
| `import_rewriting` | 17 modules, 2 threads, 1 fault, 6 kinds of process, paths of up to 4 entries from 7 kinds | `TypeOK` `LoadsAgree` `PathIsKept` | imports and loads lead to the same DLL, the path stays |
| `woa_wake_all`, `tls_split`, `tls_alert`, `propagation_remains` | smaller | one each | [Findings](#findings) |

**Why the bounds are enough.** Four threads in one bucket are a waker, the
block it looks at and one on either side, over two addresses, so every
case of the pointer arithmetic (only block, head, middle, tail) meets every
other. Three threads and three IDs are the one alerted, the one that inherits its
ID, and a foreign one that must not be; three callers are one more than can race
for the lock. A program and two descendants are two generations or two siblings,
and two faults are a failure and a failure in handling it. The header of two
bytes and bodies of zero, one and two bytes can be cut before, in and after
each; one record of data or one ticket puts a record on either side of every
change of keys. In `vxl_log` two threads of one process race for the lock, the
slots and the counters, the second writer is refused, takes over or opens after the
first has gone, and three entries in two severities and two components let each filter pass
all, some or none of a log below and at `ExactLimit` (3 here, 2 000 000 in the
code: from there on rows are estimated). A fault is a failed
write, a failed open or a crash; leaving and exits are not counted. In `kex_config` two calls
are one that stops anywhere and the next that must cope, or two that overlap,
with one edit before, between or in them; two other verifiers leave no room for ours, and when they join ours the
list is too long to be read; the one whose name contains ours comes alone. Keys of different programs are touched
together only by set-up, which treats each alike, so one program and the template
are enough. In `import_rewriting` there is a DLL for each case the code tells
apart: redirected or not, of Windows, VxKex or the program, forced, one of which only one
import is rewritten, one that is rewritten for spoofed versions only, one that VxKex brings
along; their `DllMain`s load each other, so that a call of Windows is made within one
of VxKex within one of the program. Every path of up to four entries is followed to the
start (`FollowedToStart`), where the path is made; only one with room, one
without and one that is too short are followed further. TLC visits up to some 1 250 000 states for a run (`kex_config`).

**Bounds in the models**: `MaxData` (records of data or tickets), `MaxFaults`
(failing system services), `MaxWrites` (calls that write to the log), `MaxCalls`
and `MaxEdits` (calls of tools, edits of other products), `FollowedToStart` (see above), the sets of threads,
objects, IDs and processes. A process in `Propagation` is not created twice;
nothing else is capped.

**Fairness.** Threads that can run do run, which is the scheduler's promise:
weak fairness per thread in `WoaProgram` (locks are held only by wakes, which
are finitely many and end, so no strong fairness for the lock is wanted), for
calls in progress and set events in `AlertByThreadId`, for calls in progress and for
processes in `Propagation`. In `AlertByThreadId` the program is assumed to
close its handles and the kernel to delete an object when its last handle is
closed; that deletion is strongly fair because a call that looks the thread up
over and over opens it only for a moment. A time-out is never relied on in
`AlertByThreadId`; in `WoaProgram` a finite wait that nobody signals does run out,
and an infinite one does not. In `TlsClient` the application
comes back when input arrived and the server answers; data, closing and shutting
down are never owed. Nothing assumes that a caller resumes a process
it asked to be suspended.

**Deadlock** is checked in `alert`. In the other runs the system really may
stop: every thread waits without a time-out and nobody wakes, every process has
started, the connection is closed, a program whose imports were not found has ended.

**Mutants.** Every property of a passing run has a mutant, a definition with a
plausible mistake in it (next to the original in each module, marked `Mutant`),
under which TLC finds the property violated.

## Findings

Each is a run that is expected to fail; the trace is the evidence.

- `woa_wake_all`: `WakeByAddressAll` stops after the first waiter it wakes when
  that one was at the head (rtlwoa.c:309-317): the end test compares with the head that the
  removal has just moved. Others stay asleep.
- `tls_split`, first: a message header cut by the end of a record is saved but
  its length is not (tlshs.c:404-424), and the honest server is refused.
- `tls_split`, second: a session ticket cut by the end of a record closes the
  connection, because `DecryptMessage` treats "incomplete" as fatal
  (encdec.c:470-480). One trace shows one of the two; with `SplitHeaders` or
  `SplitTickets` set to FALSE in the configuration it is the other.
- `tls_alert`: an encrypted close_notify during a handshake call is reported as
  an illegal message, as it is processed twice (tlsdec.c:370-377, tlshs.c:645).
- `propagation_remains`: when the parameters cannot be put into the child, the
  jump over its `NtOpenKey` stays for good (propagte.c:888-934, 161-171).

`OpenKeyWorks` exempts a process in which the protection of the page of its own `NtOpenKey`
could not be changed: the code frees the hook first and says so itself (the TODO
at propagte.c:233). `EveryWaiterPasses` is stated for one waiter per address,
since with more it would restate `woa_wake_all`.

## Proofs

TLAPS proves, for any threads, addresses, buckets and hash:

| Theorem | In `WaitOnAddressProofs` |
|---|---|
| `Invariance` | `Spec => []IInv` |
| `TypeCorrect` | `Spec => []TypeOK` |
| `MemorySafety` | `Spec => []MemorySafe` |
| `NoStranding` | `Spec => []OffListIsSignalled` |
| `LockOwnership` | `Spec => []LockOwner` |
| `ListsAreWhole` | `Spec => []RingIsWholeList` |
| `WakesFind` | `Spec => WakeFindsWaiters` |
| `QueuesAsPromised` | `Spec => ImplementsQueues` |

and for any threads, IDs and foreign threads:

| Theorem | In `AlertByThreadIdProofs` |
|---|---|
| `Invariance` | `Spec => []IInv` |
| `TypeCorrect` | `Spec => []TypeOK` |
| `StatesNameTheirThreads` | `Spec => []StateNamesItsThread` |
| `WaitersKeepStates` | `Spec => []WaiterKeepsState` |
| `LockDiscipline` | `Spec => []LockNotHeldInWait` |
| `AlertsAreNotLost` | `Spec => AlertNotLost` |
| `AlertsReachTheirId` | `Spec => AlertReachesItsId` |

for any processes, programs, parameters and system, and any number of failures:

| Theorem | In `PropagationProofs` |
|---|---|
| `Invariance` | `Spec => []IInv` |
| `TypeCorrect` | `Spec => []TypeOK` |
| `JumpsLead` | `Spec => []OpenKeyWorks` |
| `FollowsAll` | `Spec => []PropagationIsComplete` |
| `OptOutsStay` | `Spec => []OptOutIsKept` |
| `ChildrenWait` | `Spec => ChildWaits` |

for any handles, threads, places, names and sizes of the tables:

| Theorem | In `VxlLogProofs` |
|---|---|
| `Invariance` | `ViewSpec => [](IInv /\ ViewReads)` |
| `CountersAreRight` | `ViewSpec => []CountersAccount` |
| `WritersAreMarked` | `ViewSpec => []DirtyWhileWritten` |
| `OpenSeesAll` | `ViewSpec => OpenedLogIsWhole` |
| `LogAppends` | `ViewSpec => ImplementsAppendLog` |
| `ViewTypeCorrect` | `ViewSpec => []ViewTypeOK` |
| `RowsAreRight` | `ViewSpec => []LookupIsExact` |

for any modules, imports, requests, settings, threads and paths; for `RightInvariance` and
`LoadsAgreeWithImports`, `KernelAssumption` of `ImportRewriting` is used, which says what the program relies on
(redirects.h:13, dllrewrt.c:434-480): kernel32 is redirected to KxBase, KxBase is named
only by DLLs of VxKex that have no imports resolved late, and the program, KxBase and whoever
calls LoadLibrary import kernel32:

| Theorem | In `ImportRewritingProofs` |
|---|---|
| `Invariance` | `Spec => []IInv` |
| `FlagsAreReturned` | `Spec => []FlagIsReturned`, a part of `LoadsAgree` |
| `StartsOnce` | `Spec => []StartedInTime`, a part of `TypeOK` |
| `RightInvariance` | `Spec => [](IInv /\ RInv)` |
| `LoadsAgreeWithImports` | `Spec => []LoadsAgree` |
| `TypeCorrect` | `Spec => []TypeOK` |
| `PathStays` | `Spec => PathIsKept` |

for any programs, tools, settings and other products:

| Theorem | In `KexConfigProofs` |
|---|---|
| `Invariance` | `Spec => []IInv` |
| `TypeCorrect` | `Spec => []TypeOK` |
| `CommandsWork` | `Spec => []LaunchCommandWorks` |
| `OthersStay` | `Spec => OthersAreKept` |
| `WorkStays` | `Spec => []Progress` |
| `SettingsAsPromised` | `Spec => ImplementsProgramSettings` |

and for any sizes of messages, any way to cut them into records and any number
of records:

| Theorem | In `TlsClientProofs` |
|---|---|
| `Invariance` | `Spec => []IInv` |
| `TypeCorrect` | `Spec => []TypeOK` |
| `HandshakesAgree` | `Spec => []Agreement` |
| `StatesAdvance` | `Spec => StateAdvances` |

| Theorem | In `TlsClientFlows` |
|---|---|
| `FlowsInvariance` | `~SplitHeaders /\ ~SplitTickets => (Spec => []Flows)` |
| `KeysStayInSync` | `~SplitHeaders /\ ~SplitTickets => (Spec => []KeysInSync)` |
| `HonestPeersAreAccepted` | `~SplitHeaders /\ ~SplitTickets => (Spec => []HonestPeerIsAccepted)` |

The hypothesis is about the server, not the code: it may cut its
messages into records anywhere but inside of a header, and cuts no message that comes
after the handshake. Without it the property is false, as `tls_split` shows.

`LockOwnership` and `LockDiscipline` say that the locks are held by one thread and
not over a wait; other properties depend on them, and no run repeats them.
Everything rests only on the assumptions about constants that the modules name,
which TLC evaluates in the runs.

*The wait lists.* That a pointer never leads to a dead block is not inductive:
unlinking a block writes to its neighbours, so the neighbours must be known to
be live, to be in the same bucket, and to point back. `IInv` adds that
(`LinksLive`), that a head is live and of its bucket (`HeadLive`), that a
waker's cursor is a linked block of its bucket (`CursorLive`), that a linked block's event is unset
(`LinkedUnset`), and that a thread with a block has an address (`FramesNamed`). `UnlinkKeepsLists` is the core, the same
for a time-out and a wake; `EnqueueStep`, `TimeoutReturnStep`, `WakeRoundStep`
and `QuietSteps` are the cases of `Next`. None of it needs the list to be one
cycle.

*The queues.* That it is one, and in which order, is said without paths: every
bucket has a sequence of all its blocks, without repetition, that its head,
`next` and `prev` link in a ring (`Ring`, `Linking`), and a waker's cursor has only
blocks of other addresses before it in that sequence (`Passed`). Together with closed events
(`EventsClosed`) this is `Ordered`, which is inductive beside `IInv`: a block that is
appended or cut out of a ring leaves a ring (`LinkingAppend`, `LinkingCut`,
`UnlinkRing`). The walk of `WaitQueues` then is that sequence (`WalkIsRing`), and the
waiters of one address, in its order, are what `Among` leaves of it
(`AmongConcat`, `QueueCut`). `EnqueueOrder`, `TimeoutOrder`, `PassOrder` and `TakeOrder`
show that each step is one of `AddressQueues` or none; `WakesFind` is what
`Passed` says where the cursor has come back to the head. The inductions along a sequence
are over its length: `Numbers` has the least number of a set that is not empty, which
stands for the induction theorem that the provers cannot use.

*The alerts.* That a state names its thread needs that existing threads have
different IDs (`IdsUnique`), that a thread a call has opened exists and has the ID the
call was given (`OpenedIsNamed`: the handle pins it), that a state
pins its thread (`StatesPinned`), and that a caller runs and so is not retired
(`CallersRun`). The action properties follow from `IInv` step by step
(`EventSteps`).

*Propagation.* The parts of `IInv` are predicates on one process: on what it is
doing, what its creator's call is doing, what is in its memory, and what KexDll in
it is doing. `InStep` ties these to each other, `JumpLeads` and
`ParamsWritten` say what has been written at which stage of the preparation,
`EnabledRightly` that a process that propagates runs and has not opted out,
`OnlyFollowed` that nothing is put into a process that is not followed, `Alone`
that nothing is put into the root. `Complete` is the
same without failures: what each stage of parent and child finds is all that the
stages before it have done. `ParentsRun` is what makes the processes
independent: a step of a process that does not run yet changes nothing that any other is
compared with (`StepKeeps`), since the parameters of a parent are fixed when it
begins to run. The actions of the parent all come down to `PrepareKeeps`, which asks
for what the next stage needs.

*The log.* That the counters account for the entries (`CountersAccount`) needs that
increments exclude each other: one process writes (`OneWriter`), only through a handle
that is open (`CallsAreOpen`), its threads hold the lock (`LockHeld`), so what one has
read is still there when it stores (`SeenIsCurrent`); and that a new file has no
entries (`FreshIsEmpty`). `DirtyWhileWritten` needs that a file cannot be
emptied or opened for writing under a writer (`OpenFileExists`, `CheckedIsMagic`,
`StepsOfMode`). `OpenedLogIsWhole` follows from the counters and from what a
reader's steps have found (`IndexIsInFile`): if the entries in the index match
counters that are the whole file's, nothing is missing and nothing is on its
way. The refinement of `AppendLog` needs that what an index means stays
(`NamesKept`): tables only grow, and a slot keeps its name. What an entry refers to is a slot or the first free one of its
table; a new name that takes that one is a `Fill`, whatever entries refer to it.

*The viewer's rows.* `LookupIsExact` speaks of logs that have not been counted further, but
must be carried through all that have. `OpenIsIndexed`: the entries of an open reader's index are in the
file and the counters cover them (`Covers`), since while a handle is open
the file only grows (`FileGrows`, `NextGrows`; a header that is written anew had
counted nothing, `FreshCountsNothing`). `ViewFits`: what is shown is open and no shorter than its
index (`ShownIsOpen`), and the rows fit the entries that pass, with what was there at the time beyond the
index for the rest (`RowsFit`). Estimated rows are enough because an entry is named by its severity and by how
many of it there are up to it (`CountedIsEnough`). Rows that are looked up in any order
are right since the next entry that passes after row `d - 1` has rank `d`
(`NextRank`), along the rows that one call fills (`RowsRight`).

*The configuration.* A launch command is marked (`LaunchCommandWorks`) because
each call writes the mark first and removes it last (`MarkedFirst`), which holds
at every step only where no other call interferes (`Alone`: calls that overlap
make their key disputed), and because what set-up saves is marked too
(`StoreMarked`). `OthersAreKept` needs that what a call has read and will write
back is still what the others have (`Planned`). `StepKeeps` covers a step of a
call, `CallKeeps` the start of one, `EditKeeps` other products, `CommitKeeps`
set-up; `Disabled`, `RestoredSound` and `ProvidedSound` say what
the transactions do to one key.

*The configuration's refinement.* A call that ends undisturbed in the abstract
has what it was asked for; in the code that is a dozen values written one
by one. `Progress` says of every step of such a call which of them are there:
`SetFits` for a call that sets (the path, the numbers up to the one it is at, the
verifier's flag and DLL, the launch command between its mark and the end) and `DeleteFits` for one
that deletes. `Conf`, `Kept` and `Calls` map keys, saved configuration and calls.
`StepSeen` is a step of a call, `CallSeen` the start of one, `EditSeen` other
products, `CommitSeen` set-up, where what removal saves (`RestoredIsSaved`) and
what installation adds is compared with the abstract; `AddedIsListed` is that a list that
was added to has our name or one that contains it. `HonestAlways`, that
what is shown is in force, is a fact about each key's values alone (`ShownIsEffective`).

*The handshake.* `IInv` of `TlsClientProofs` relates the client's state to the
server's without following the records between them. `StateFits`: a suite,
once there, is the server's. `KeysFit`: the keys of each state and suite. `TranscriptFits`:
from the server's Finished on the transcripts are equal. Why it is equal needs no
history: in the model a Finished carries the transcript that it was made over, the
server's is over its own (`ServerFits`), and the client goes on only when it is equal to
its own. `FragmentFits` keeps a message that is incomplete shorter than itself
and `CallFits` says what a caller may be in the middle of. `MessageKeeps`, `FragmentKeeps`,
`ProcessIncomingRecordKeeps` and `GenerateOutgoingRecordKeeps` go up from a message to a
call, `ServerReceiveKeeps` is the server; `Advances`, the order of the states,
goes with them.

*What is under way.* That the next record opens, and that what it holds is accepted,
does depend on the records between the two sides, and these are cut anywhere in the
messages. `Flows` of `TlsClientFlows` says that nothing is lost between them. The handshake of the
server is one sequence of bytes, of which `Before` says where each message starts,
and a place in it (`Position`) is a number of bytes, the key they are written with from there on and
how many records that key has been used for. `Reached` is the place to which the client has come, its
fragment included. From there each record under way leads to the next place (`Chain`,
`RecordMoves`), the last of them to where the server writes (`WriterAt`), and
what the server has not sent yet from there to `EndPlace` (`Coming`). A record holds
consecutive bytes written with one key (`Runs`) and ends outside of a header (`Clean`); that is where
the hypothesis is used. What the client sends is a chain too, of the turns that
the server waits for (`Outgoing`). `ClientKnows` and `ServerKnows` say what each side has
hashed, and with which keys, in each of its states. `HeaderReads`, `FragmentReads` and `BodyReads`
take what the client makes of a record to the place after it, and each action
has its lemma (`ProcessMessageFlows`, `ServerSendFlows` and so on). `KeysInSync` is then the first link of the chain;
`HonestPeerIsAccepted` is a conjunct, because no step that fails keeps `Flows`.

*Loads by name.* That the flag of a thread is down when nothing is going on in it
says nothing about a state in the middle of nested loads. `FlagsNest` does: each
load has saved the flag as it was below it (`SavesFlag`), the flag is what the innermost
one has made of that (`FlagAt`), and loads and code alternate
(`Alternates`), so that a returning load finds its own. `PushNests`,
`PopNests` and `HeadChanges` are the three things that happen to a stack, and
`ThreadKeeps` carries them to the steps. `StartsOnce` needs that nothing runs before the last
entry (`CalledLater`) and that the number of starts depends on the number of
entries only (`StartsMatchEntries`).

That a load by name is of the DLL that an import would give needs to know what the
loading module's own imports became: its kernel32 decides whether the load goes through
KxBase. `RInv` says it. As long as nothing has failed, the names of a mapped
image are a function of the module alone (`ImagesRight`: `Seen` is what `Expected`
says), kernel32 is mapped before any code runs (`KernelFirst`, so that `Hooked` may be
asked of any load), and each frame of a stack is `Right` for its place: whether a load that
came through KxBase is under way below it (`Below`) is what the frame assumes, and
the flag is up only while there is one (`FlagFromExt`). `MappedAs` and `RewrittenWhole` say
what mapping makes of an image; `TargetAgrees` then decides the target of a
load; `PushIn`, `PopIn`, `HeadIn` and `ThreadRight` carry `RInv` to the steps, as `PushNests` and
the others carry `FlagsNest`.

*The search path.* `PathIsKept` is about functions that are defined by recursion over a path. `Numbers`
and `Sequences` are induction as facts about sets: a set of sequences that has the
empty one, and with each the ones that go on, has them all; both come from
`NatLessThanWellFounded`. A recursive function counts up (`Counts`): one exists
(`Recursion`), what the definition chooses is one (`Counting`), and two that step alike
agree (`CountAlike`). From there on only what one more entry does is used (`CchAppend`,
`KeptAppend`, `FlattenAppend`). `Dropped` is both the order of search and the path without the duplicates
that can be found, for other sets of entries, and `RemovalHides` says that taking out later copies of an entry
changes neither, whatever stands before the path. Each step of the
shrinking keeps `Shrunk`: the order is the path's own, and either the path is short enough or the entries that
were visited stand once (`Alone`). At the end nothing is left to drop (`NothingDropped`), so with
room the shrinking gets there (`ShrinkReaches`), and padding adds nothing that is
searched (`Padding`). Where there is no room the copy is cut, but not within its first entry
(`CutKeepsHead`). `PathSteps` brings this to the system: the path is the
process's own until the one step that changes it.

Only model-checked: what is out of the prover's reach, everything about liveness
(`EveryWaiterPasses`, `WakeTerminates`, `AlertWakes`, `DeadIdsAreReleased`,
`HandshakeCompletes`, `EveryChildStarts`). Every safety invariant and every action property of the passing
runs has a theorem. `WoaProgram` has no proofs: its one property is of liveness.

## Seen while modelling

Observations without a run, because no document of the repository says
otherwise; the models contain the behaviour.

- *Log.* An orderly exit ends the writing threads too, and one that is ended between
  count and entry makes the log unreadable for good (vxlwrite.c:241-264,
  `lost`). The dirty flag is never read. An open for writing of a file that is no
  log clears the byte where the flag would be (vxlopcl.c:366). Each write with a name
  that is too long for its slot takes a new slot, until the table is full. An entry
written without a component, file or function reads later as one with the next
new name of that table, and once the table is full such a call fails
(vxlpriv.c:182-208): `Fill`. A severity equal to `LogSeverityMaximumValue` passes the
test of vxlwrite.c:57 although there is no counter for it; `Severity` of the model holds the valid ones.
- *Viewer.* The number of entries is the counters' as they are now, the index is as long
  as they were when the log was opened (vxlread.c:37): `RawEntry`. From 2 000 000
  entries on, rows past the last match start over (backend.c:441-496).
- *Configuration.* Beside a verifier whose name contains ours (`prefixkexdll.dll`,
  `kexdll.dll.backup` in tests/verifier_tokens_probe.c:20-26, or a path that ends in ours), enabling a
  program succeeds without putting our DLL into its list, and deleting its configuration succeeds
  while it is still shown as enabled as long as the verifier is on (setcfg.c:181,
  getcfg.c:107-110 against kxcfgp.c:46-74): `Prevented`, `Misread`. `KxCfgSetConfiguration` takes a verifier list that is too long to
  read for an empty one and overwrites it, and cuts its own name off without
  noticing when the list has no room (setcfg.c:154-186): a call in that case is not `sure`. It
  overwrites the verifier flags of other products, and deletion does not give them
  back. Calls outside a transaction are not serialised: where two
  overlap on a key nothing is claimed (`disputed`). Disabling a program
  that has no configuration leaves empty values behind. A value that cannot be
  deleted makes the loop of delcfg.c:172-192 run for ever.
- *Loads.* The flag that a load of a rewritten module sets holds for all that happens below it
  (module.c:37-46): a DLL of Windows whose `DllMain` loads another by name there
  gets VxKex's, elsewhere the system's. In Internet Explorer kernel32 is not
  redirected, so KxBase's wrapper is never called: imports are rewritten, loads by name
  are not. `LoadsAgree` leaves out both. Besides, `Wrapper` gives each DLL of VxKex
KxUser's way of loading; KxBase's preload of system DLLs for old installers
(module.c:484) calls `LoadLibraryW` without it and so without clearing the flag.
- *Rewriting.* A name that was written but whose page could not be protected
  again is not counted; when it is the only one, the bound imports stay
  in force and the loader does not look at the new name
  (dllrewrt.c:352-366, 669). `LoadsAgree` is about images without such a fault.
- *Search path.* The test that ends the removal of duplicates counts the semicolon the
  search has appended, so one character more than needed must be free. When the
  removal does not make room, the copy is cut and is one character longer than it was
  (against rules 2 and 3 of dllpath.c:17-27). A path that is shorter than VxKex's directory
  is left without it, and the rewritten imports are then not found: the
  program does not start. `PathIsKept` claims the rules where there is room.
  Where the system has no `LdrAddDllDirectory` or `LdrResolveDelayLoadedAPI`, the code
  relies on `LdrGetProcedureAddress` to store a null pointer when it fails: its own code
  never sets the variable (dllpath.c:106-115, dload.c:48-61). The model assumes that it does.

## Not modelled

- Cryptography, parsing of hellos, extensions and certificates: data
  transformations; the provider under them is the system's.
- What a caller does with a TLS context after a failed call: the code does not
  mark it, and no document says what may follow.
- Unloading KexDll while calls are in progress: `ntalrtid.c:54-55` forbids it to the caller,
  and the guard of `Cleanup` says so.
- `KexHkRemoveHook`, which propagation never calls.
- Of propagation: `MSIEXEC` takes its parameters from the key of the package it
  installs, and as a service spoofs the highest version (kexdata.c:227-290); to
  `InitialParams` it is a program like any other.
- Of the configuration: creation and deletion of empty keys, filter subkeys, the
  two registry views, deployment and roll-back of files (`setupfile.c`),
  elevation.
- Of start-up and import rewriting: images of the other bitness or without imports, loads as
  data, the handle of NTDLL in Chromium, the list of `AddDllDirectory` (a list
  without a lock in `KxBase/module.c`), systems that have `LdrAddDllDirectory`, an empty path. The
  string mapper is taken for the function it is filled with.
- The SRW locks, path functions: planned, see below.
- API stand-ins and forwarders without state, application-specific patches,
  version spoofing; dialogs, installer screens and build scripts.

Most lines of the repository are of the last kind, or headers that
declare the system's own interfaces (`NtDll.h`, `NtStrSafe.h`, the
`forwards.c` of each DLL, the tables of `status.c`): there is no behaviour in them
to model, so the share of all lines that the models stand for stays small.

## Plan

The most important behaviour came first: what runs in every process of every
program (wait lists, alerts, propagation), the component with the largest
state machine (TLS), then what processes share (log, configuration), then how a program
comes to all of it (start-up, import rewriting). Each model
has its parameters as constants with named assumptions, one action per operation, and no
`RECURSIVE` operator, so that it can be proved about. What is left, in order:

1. **SRW try-acquire** (`SrwTry`): both copies beside native owners and waiters;
   abstract specification: a reader-writer lock. Small words for the owner count,
   so that it overflows.
2. **Paths** (`PathCch`): canonicalisation against a reference definition over
   bounded paths.
