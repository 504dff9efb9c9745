-------------------------- MODULE AlertByThreadId --------------------------
(***************************************************************************)
(* KexDll/ntalrtid.c: NtAlertThreadByThreadId and NtWaitForAlertByThreadId *)
(* for systems whose ntdll has neither (where it has them, both calls go   *)
(* to ntdll and none of the state below is used).                          *)
(*                                                                         *)
(* The DLL keeps, under one lock, a list of alert states: a thread ID, a   *)
(* handle to the thread and an auto-reset event.  Thread IDs are reused by *)
(* the kernel, but not while a handle to the thread is open, so the handle *)
(* in a state pins the meaning of the ID.  A thread can exit at any time,  *)
(* also while a call of another thread is in the middle of looking it up.  *)
(*                                                                         *)
(* A thread object of the kernel is a slot of Object; the ID of an object  *)
(* that is gone may be given to any later one.  The low two bits of an ID  *)
(* are ignored by the code and by the kernel: an ID stands for its four    *)
(* spellings.                                                              *)
(***************************************************************************)
EXTENDS Naturals

CONSTANTS
  Object,    \* thread objects
  Foreign,   \* those that belong to other processes
  Tid,       \* thread IDs
  NULL

ASSUME ForeignAssumption == Foreign \subseteq Object
ASSUME NullAssumption == NULL \notin Object /\ NULL \notin Tid

VARIABLES
  life,      \* life[o]: "none" (no such object), "running" or "exited"
  tid,       \* tid[o]: the ID of the object
  held,      \* held[o]: the program keeps a handle to the object
  alert,     \* alert[o]: "none", or the event of the alert state of o:
             \*           "clear" or "set"
  lock,      \* owner of AlertLock, or NULL
  pc,        \* pc[o]: where the calls of thread o are
  arg,       \* arg[o]: the ID a NtAlertThreadByThreadId of o was given
  opened,    \* opened[o]: the object o has opened in that call
  finite     \* finite[o]: the pending wait of o has a timeout

kernelVars == <<life, tid, held>>
callVars == <<pc, arg, opened, finite>>
vars == <<life, tid, held, alert, lock, pc, arg, opened, finite>>

Init ==
  /\ life = [o \in Object |-> "none"]
  /\ tid = [o \in Object |-> NULL]
  /\ held = [o \in Object |-> FALSE]
  /\ alert = [o \in Object |-> "none"]
  /\ lock = NULL
  /\ pc = [o \in Object |-> "idle"]
  /\ arg = [o \in Object |-> NULL]
  /\ opened = [o \in Object |-> NULL]
  /\ finite = [o \in Object |-> FALSE]

-----------------------------------------------------------------------------
(* The kernel and the program around the component *)

\* Mutant: the handle of an alert state is closed when the state is made.
PinnedByProgram(o) ==
  \/ held[o]
  \/ \E c \in Object : opened[c] = o

\* A handle to o is open: the program's, the one of its alert state, or the one
\* of a call in progress.
Pinned(o) ==
  \/ held[o]
  \/ alert[o] # "none"
  \/ \E c \in Object : opened[c] = o

\* IDs are unique among the objects that exist.
CreateThread(o, id) ==
  /\ life[o] = "none"
  /\ \A p \in Object : life[p] # "none" => tid[p] # id
  /\ life' = [life EXCEPT ![o] = "running"]
  /\ tid' = [tid EXCEPT ![o] = id]
  /\ \E keep \in BOOLEAN : held' = [held EXCEPT ![o] = keep]
  /\ UNCHANGED <<alert, lock, callVars>>

\* A thread that is in none of the calls exits.
ExitThread(o) ==
  /\ life[o] = "running"
  /\ pc[o] = "idle"
  /\ life' = [life EXCEPT ![o] = "exited"]
  /\ UNCHANGED <<tid, held, alert, lock, callVars>>

CloseHandle(o) ==
  /\ held[o]
  /\ held' = [held EXCEPT ![o] = FALSE]
  /\ UNCHANGED <<life, tid, alert, lock, callVars>>

\* The last handle to an exited thread is gone, and with it the object; from
\* now on its ID may be given to another thread.
FreeObject(o) ==
  /\ life[o] = "exited"
  /\ ~Pinned(o)
  /\ life' = [life EXCEPT ![o] = "none"]
  /\ tid' = [tid EXCEPT ![o] = NULL]
  /\ UNCHANGED <<held, alert, lock, callVars>>

-----------------------------------------------------------------------------
(* The list of alert states *)

\* Mutant: any state is taken for the one looked up.
FoundAny(states, id) == {o \in Object : states[o] # "none" /\ id # NULL}

\* KexFindAlertState.
Found(states, id) == {o \in Object : states[o] # "none" /\ tid[o] = id}

\* Mutant: states of exited threads are kept.
RetireNothing(states) == [o \in Object |-> states[o]]

\* Mutant: the state of an exited thread is marked instead of freed.
RetireMarks(states) == [o \in Object |-> IF life[o] = "exited" THEN "dead" ELSE states[o]]

\* Mutant: a state is retired when the program holds no handle to its thread.
RetireUnheld(states) == [o \in Object |-> IF held[o] THEN states[o] ELSE "none"]

\* KexRetireExitedAlertStates, with the handle of each retired state.
Retired(states) == [o \in Object |-> IF life[o] = "exited" THEN "none" ELSE states[o]]

\* Mutant: an alert is only delivered to a state that has none pending, and
\* takes the pending one away otherwise.
Toggled(states, o) == [states EXCEPT ![o] = IF @ = "set" THEN "clear" ELSE "set"]

\* NtSetEvent on the event of a state.
Signalled(states, o) == [states EXCEPT ![o] = "set"]

\* KexCreateAlertState: a state starts without an alert.
CreateAlertState(states, o) == [states EXCEPT ![o] = "clear"]

\* A thread inside a call.
Enter(c) ==
  /\ life[c] = "running" /\ c \notin Foreign
  /\ pc[c] = "idle"
  /\ lock = NULL

\* The exit all paths of an alert share: the handle opened by the call is
\* closed, unless a state has taken it over, and the lock is released.
Leave(c) ==
  /\ lock' = NULL
  /\ pc' = [pc EXCEPT ![c] = "idle"]
  /\ arg' = [arg EXCEPT ![c] = NULL]
  /\ opened' = [opened EXCEPT ![c] = NULL]
  /\ UNCHANGED finite

-----------------------------------------------------------------------------
(* NtAlertThreadByThreadId *)

AlertBegin(c, id) ==
  /\ Enter(c)
  /\ lock' = c
  /\ pc' = [pc EXCEPT ![c] = "looking"]
  /\ arg' = [arg EXCEPT ![c] = id]
  /\ UNCHANGED <<kernelVars, alert, opened, finite>>

\* Retire, and look the ID up: a state that is found is signalled.
AlertFind(c) ==
  LET kept == Retired(alert) IN
  /\ pc[c] = "looking"
  /\ \/ \E o \in Found(kept, arg[c]) : alert' = Signalled(kept, o) /\ Leave(c)
     \/ /\ Found(kept, arg[c]) = {}
        /\ alert' = kept
        /\ pc' = [pc EXCEPT ![c] = "opening"]
        /\ UNCHANGED <<lock, arg, opened, finite>>
  /\ UNCHANGED kernelVars

\* NtOpenThread and NtQueryInformationThread, which may refuse: no such thread
\* (STATUS_INVALID_CID), no access, or a thread of another process
\* (STATUS_ACCESS_DENIED).
AlertOpen(c) ==
  /\ pc[c] = "opening"
  /\ \/ \E o \in Object \ Foreign :
          /\ life[o] # "none" /\ tid[o] = arg[c]
          /\ opened' = [opened EXCEPT ![c] = o]
          /\ pc' = [pc EXCEPT ![c] = "opened"]
          /\ UNCHANGED <<lock, arg, finite>>
     \/ Leave(c)
  /\ UNCHANGED <<kernelVars, alert>>

\* A thread that has exited by now needs no alert: success without a state.
AlertExited(c) ==
  /\ pc[c] = "opened"
  /\ life[opened[c]] = "exited"
  /\ Leave(c)
  /\ UNCHANGED <<kernelVars, alert>>

AlertRunning(c) ==
  /\ pc[c] = "opened"
  /\ life[opened[c]] = "running"
  /\ pc' = [pc EXCEPT ![c] = "creating"]
  /\ UNCHANGED <<kernelVars, alert, lock, arg, opened, finite>>

\* The state is looked up again under the ID the kernel gave, created if it is
\* not there, and signalled; or there is no memory or no event for it.
AlertSignal(c) ==
  /\ pc[c] = "creating"
  /\ \/ \E o \in Found(alert, tid[opened[c]]) : alert' = Signalled(alert, o)
     \/ /\ Found(alert, tid[opened[c]]) = {}
        /\ alert' = Signalled(CreateAlertState(alert, opened[c]), opened[c])
     \/ /\ Found(alert, tid[opened[c]]) = {}
        /\ UNCHANGED alert
  /\ Leave(c)
  /\ UNCHANGED kernelVars

-----------------------------------------------------------------------------
(* NtWaitForAlertByThreadId *)

\* Take the lock, retire, find or create the state of the calling thread and
\* release the lock; a poll without a state is over at once, and so is a call
\* that cannot create one.
WaitBegin(t, timeout) ==
  /\ Enter(t)
  /\ LET kept == Retired(alert)
         own == Found(kept, tid[t])
         poll == timeout = "zero"
     IN
       \/ /\ own # {} \/ ~poll
          /\ alert' = IF own = {} THEN CreateAlertState(kept, t) ELSE kept
          /\ pc' = [pc EXCEPT ![t] = "waiting"]
          /\ finite' = [finite EXCEPT ![t] = timeout # "none"]
       \/ /\ own = {}
          /\ alert' = kept
          /\ UNCHANGED <<pc, finite>>
  /\ UNCHANGED <<kernelVars, lock, arg, opened>>

\* Mutant: the wait needs the lock of the list to take its alert.
WaitAlertedLocked(t) ==
  /\ pc[t] = "waiting"
  /\ alert[t] = "set"
  /\ lock = NULL
  /\ alert' = [alert EXCEPT ![t] = "clear"]
  /\ pc' = [pc EXCEPT ![t] = "idle"]
  /\ finite' = [finite EXCEPT ![t] = FALSE]
  /\ UNCHANGED <<kernelVars, lock, arg, opened>>

\* The blocking wait, with the lock released: the event resets itself.
WaitAlerted(t) ==
  /\ pc[t] = "waiting"
  /\ alert[t] = "set"
  /\ alert' = [alert EXCEPT ![t] = "clear"]
  /\ pc' = [pc EXCEPT ![t] = "idle"]
  /\ finite' = [finite EXCEPT ![t] = FALSE]
  /\ UNCHANGED <<kernelVars, lock, arg, opened>>

WaitTimeout(t) ==
  /\ pc[t] = "waiting"
  /\ finite[t]
  /\ alert[t] # "set"
  /\ pc' = [pc EXCEPT ![t] = "idle"]
  /\ finite' = [finite EXCEPT ![t] = FALSE]
  /\ UNCHANGED <<kernelVars, alert, lock, arg, opened>>

-----------------------------------------------------------------------------
\* KexCleanupAlertByThreadId, when the DLL is unloaded: its caller has to have
\* stopped all calls.  Every state is freed; a later load starts afresh.
Cleanup ==
  /\ \A o \in Object : pc[o] = "idle"
  /\ alert' = [o \in Object |-> "none"]
  /\ UNCHANGED <<kernelVars, lock, callVars>>

Alert(c) ==
  \/ \E id \in Tid : AlertBegin(c, id)
  \/ AlertFind(c) \/ AlertOpen(c) \/ AlertExited(c) \/ AlertRunning(c) \/ AlertSignal(c)

Wait(t) ==
  \/ \E timeout \in {"none", "zero", "later"} : WaitBegin(t, timeout)
  \/ WaitAlerted(t) \/ WaitTimeout(t)

Kernel(o) ==
  \/ \E id \in Tid : CreateThread(o, id)
  \/ ExitThread(o) \/ CloseHandle(o) \/ FreeObject(o)

Next == Cleanup \/ \E o \in Object : Kernel(o) \/ Alert(o) \/ Wait(o)

Spec == Init /\ [][Next]_vars

\* A thread inside a call runs on, a set event ends a wait, a timeout runs out.
\* The program closes its handles.  The kernel deletes an object with its last
\* handle, so a call that opens the object over and over does not keep it: SF.
FairSpec ==
  /\ Spec
  /\ \A o \in Object :
       /\ WF_vars(AlertFind(o) \/ AlertOpen(o) \/ AlertExited(o) \/ AlertRunning(o) \/ AlertSignal(o))
       /\ WF_vars(WaitAlerted(o))
       /\ SF_vars(FreeObject(o))
       /\ WF_vars(CloseHandle(o))

-----------------------------------------------------------------------------
(* Properties *)

TypeOK ==
  /\ life \in [Object -> {"none", "running", "exited"}]
  /\ tid \in [Object -> Tid \cup {NULL}]
  /\ held \in [Object -> BOOLEAN]
  /\ alert \in [Object -> {"none", "clear", "set"}]
  /\ lock \in Object \cup {NULL}
  /\ pc \in [Object -> {"idle", "looking", "opening", "opened", "creating", "waiting"}]
  /\ arg \in [Object -> Tid \cup {NULL}]
  /\ opened \in [Object -> Object \cup {NULL}]
  /\ finite \in [Object -> BOOLEAN]

\* The ID of an alert state means the thread the state was made for: no other
\* thread, of this process or not, has that ID while the state exists
\* (ntalrtid.c:4-6).
StateNamesItsThread ==
  \A o \in Object : alert[o] # "none" =>
    /\ life[o] # "none" /\ o \notin Foreign
    /\ \A p \in Object : life[p] # "none" /\ tid[p] = tid[o] => p = o

\* A thread blocked in a wait keeps its state, whatever others retire
\* (ntalrtid.c:194-195).
WaiterKeepsState ==
  \A t \in Object : pc[t] = "waiting" => life[t] = "running" /\ alert[t] # "none"

\* The registry lock is never held across a blocking wait, and whoever holds it
\* is in the middle of an alert (ntalrtid.c:195).
LockNotHeldInWait ==
  \A o \in Object : lock = o <=> pc[o] \in {"looking", "opening", "opened", "creating"}

\* An alert is consumed by a wait of the thread it was sent to, or dies with
\* that thread or with the DLL: a timeout, a second alert or a call of somebody else never
\* takes it away.
AlertNotLost ==
  [][\A o \in Object : (alert[o] = "set" /\ alert'[o] # "set") =>
       \/ life[o] = "exited"
       \/ \A p \in Object : alert'[p] = "none" /\ pc[p] = "idle"
       \/ pc[o] = "waiting" /\ pc'[o] = "idle"]_vars

\* An alert reaches the thread that has the ID at the time of the call, though
\* IDs change hands and the lookup and the delivery are several steps apart.
AlertReachesItsId ==
  [][\A o \in Object : (alert[o] # "set" /\ alert'[o] = "set") =>
       \E c \in Object :
         /\ lock = c /\ tid[o] = arg[c]
         /\ \A p \in Object : life[p] # "none" /\ tid[p] = arg[c] => p = o]_vars

\* A pending alert wakes the waiter.
AlertWakes == \A t \in Object : (pc[t] = "waiting" /\ alert[t] = "set") ~> pc[t] = "idle"

\* The component does not keep the ID of a dead thread alive: as long as alerts
\* are sent at all, to whomever, the object of an exited thread goes away
\* (ntalrtid.c:5-6).
DeadIdsAreReleased ==
  []<>(\E c \in Object : pc[c] = "looking") =>
    \A o \in Object : life[o] = "exited" ~> life[o] = "none"
=============================================================================
