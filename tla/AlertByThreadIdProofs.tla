----------------------- MODULE AlertByThreadIdProofs -----------------------
(***************************************************************************)
(* Proofs about AlertByThreadId for any number of threads and IDs: what an *)
(* alert state names, that it stays with its waiter, who holds the lock,   *)
(* and that alerts are neither lost nor sent to the wrong thread.          *)
(***************************************************************************)
EXTENDS AlertByThreadId, TLAPS

\* Only a running thread of this process is inside a call.
CallersRun == \A c \in Object : pc[c] # "idle" => life[c] = "running" /\ c \notin Foreign

\* No two existing threads share an ID.
IdsUnique ==
  /\ \A o \in Object : life[o] # "none" => tid[o] \in Tid
  /\ \A o, p \in Object : life[o] # "none" /\ life[p] # "none" /\ tid[o] = tid[p] => o = p

\* A call has a thread open only between NtOpenThread and its exit, and that
\* thread has the ID the call was given.
OpenedIsNamed ==
  \A c \in Object :
    /\ pc[c] \in {"opened", "creating"} => opened[c] \in Object
    /\ opened[c] # NULL =>
         /\ life[opened[c]] # "none" /\ opened[c] \notin Foreign
         /\ tid[opened[c]] = arg[c]
         /\ pc[c] \in {"opened", "creating"}

StatesPinned == \A o \in Object : alert[o] # "none" => life[o] # "none" /\ o \notin Foreign

\* The inductive invariant.
IInv ==
  /\ TypeOK
  /\ CallersRun
  /\ IdsUnique
  /\ OpenedIsNamed
  /\ StatesPinned
  /\ WaiterKeepsState
  /\ LockNotHeldInWait

-----------------------------------------------------------------------------
LEMMA InitIInv == Init => IInv
BY NullAssumption DEF Init, IInv, TypeOK, CallersRun, IdsUnique, OpenedIsNamed, StatesPinned,
   WaiterKeepsState, LockNotHeldInWait

\* What a thread outside the component and the kernel do.
LEMMA KernelStep ==
  ASSUME IInv, NEW o \in Object, Kernel(o)
  PROVE  IInv'
<1> USE NullAssumption, ForeignAssumption DEF kernelVars, callVars
<1> USE DEF IInv, TypeOK
<1>1. ASSUME NEW id \in Tid, CreateThread(o, id) PROVE IInv'
  BY <1>1 DEF CreateThread, CallersRun, IdsUnique, OpenedIsNamed, StatesPinned,
              WaiterKeepsState, LockNotHeldInWait
<1>2. ASSUME ExitThread(o) PROVE IInv'
  BY <1>2 DEF ExitThread, CallersRun, IdsUnique, OpenedIsNamed, StatesPinned,
              WaiterKeepsState, LockNotHeldInWait
<1>3. ASSUME CloseHandle(o) PROVE IInv'
  BY <1>3 DEF CloseHandle, CallersRun, IdsUnique, OpenedIsNamed, StatesPinned,
              WaiterKeepsState, LockNotHeldInWait
<1>4. ASSUME FreeObject(o) PROVE IInv'
  BY <1>4 DEF FreeObject, Pinned, CallersRun, IdsUnique, OpenedIsNamed, StatesPinned,
              WaiterKeepsState, LockNotHeldInWait
<1> QED
  BY <1>1, <1>2, <1>3, <1>4 DEF Kernel

\* Retiring frees no state of a running thread and makes no state.
LEMMA RetiredFacts ==
  ASSUME TypeOK
  PROVE  /\ Retired(alert) \in [Object -> {"none", "clear", "set"}]
         /\ \A o \in Object : Retired(alert)[o] = IF life[o] = "exited" THEN "none" ELSE alert[o]
BY DEF Retired, TypeOK

\* The exit of an alert, with the lock.
LEMMA LeaveFacts ==
  ASSUME IInv, NEW c \in Object, pc[c] \in {"looking", "opening", "opened", "creating"},
         Leave(c), UNCHANGED kernelVars,
         alert' \in [Object -> {"none", "clear", "set"}],
         StatesPinned',
         \A o \in Object : life[o] = "running" /\ alert[o] # "none" => alert'[o] # "none"
  PROVE  IInv'
<1> USE NullAssumption DEF kernelVars
<1>1. lock = c /\ \A d \in Object \ {c} : pc[d] \notin {"looking", "opening", "opened", "creating"}
  BY DEF IInv, LockNotHeldInWait
<1>2. /\ lock' = NULL /\ pc'[c] = "idle" /\ opened'[c] = NULL
      /\ \A d \in Object \ {c} : pc'[d] = pc[d] /\ opened'[d] = opened[d] /\ arg'[d] = arg[d]
  BY DEF Leave, IInv, TypeOK
<1>3. TypeOK'
  BY DEF Leave, IInv, TypeOK
<1>4. CallersRun' /\ IdsUnique' /\ OpenedIsNamed'
  BY <1>2 DEF IInv, CallersRun, IdsUnique, OpenedIsNamed
<1>5. WaiterKeepsState'
  BY <1>2 DEF IInv, WaiterKeepsState
<1>6. LockNotHeldInWait'
  BY <1>1, <1>2 DEF LockNotHeldInWait
<1> QED
  BY <1>3, <1>4, <1>5, <1>6 DEF IInv

\* A new state that is signalled at once.
LEMMA CreatedSignalled ==
  ASSUME TypeOK, NEW o \in Object
  PROVE  Signalled(CreateAlertState(alert, o), o) = Signalled(alert, o)
BY DEF TypeOK, Signalled, CreateAlertState

\* What AlertSignal does to the states.
LEMMA AlertSignalFacts ==
  ASSUME TypeOK, NEW c \in Object, opened[c] \in Object, AlertSignal(c)
  PROVE  \/ \E o \in Found(alert, tid[opened[c]]) : alert' = Signalled(alert, o)
         \/ alert' = Signalled(alert, opened[c])
         \/ alert' = alert
BY CreatedSignalled DEF AlertSignal

\* The steps of NtAlertThreadByThreadId.
LEMMA AlertStep ==
  ASSUME IInv, NEW c \in Object, Alert(c)
  PROVE  IInv'
<1> USE NullAssumption
<1>t. TypeOK
  BY DEF IInv
<1>1. ASSUME NEW id \in Tid, AlertBegin(c, id) PROVE IInv'
  BY <1>1 DEF AlertBegin, Enter, kernelVars, IInv, TypeOK, CallersRun, IdsUnique, OpenedIsNamed,
              StatesPinned, WaiterKeepsState, LockNotHeldInWait
<1>2. ASSUME AlertFind(c) PROVE IInv'
  <2>1. CASE \E o \in Found(Retired(alert), arg[c]) :
               alert' = Signalled(Retired(alert), o) /\ Leave(c)
    <3> PICK o \in Found(Retired(alert), arg[c]) :
               alert' = Signalled(Retired(alert), o) /\ Leave(c)
      BY <2>1
    <3>1. o \in Object /\ Retired(alert)[o] # "none"
      BY DEF Found
    <3>2. alert' \in [Object -> {"none", "clear", "set"}]
      BY <1>t, <3>1, RetiredFacts DEF Signalled
    <3>3. \A p \in Object : alert'[p] = IF p = o THEN "set" ELSE Retired(alert)[p]
      BY <1>t, <3>1, RetiredFacts DEF Signalled
    <3>4. StatesPinned'
      BY <1>t, <1>2, <3>1, <3>3, RetiredFacts DEF AlertFind, kernelVars, IInv, StatesPinned
    <3>5. \A p \in Object : life[p] = "running" /\ alert[p] # "none" => alert'[p] # "none"
      BY <1>t, <3>3, RetiredFacts
    <3> QED
      BY <1>2, <3>2, <3>4, <3>5, LeaveFacts DEF AlertFind
  <2>2. CASE ~\E o \in Found(Retired(alert), arg[c]) :
               alert' = Signalled(Retired(alert), o) /\ Leave(c)
    <3>1. alert' = Retired(alert) /\ pc' = [pc EXCEPT ![c] = "opening"]
          /\ UNCHANGED <<lock, arg, opened, finite, kernelVars>> /\ pc[c] = "looking"
      BY <1>2, <2>2 DEF AlertFind
    <3> QED
      BY <1>t, <3>1, RetiredFacts DEF kernelVars, IInv, TypeOK, CallersRun, IdsUnique,
         OpenedIsNamed, StatesPinned, WaiterKeepsState, LockNotHeldInWait
  <2> QED
    BY <2>1, <2>2
<1>3. ASSUME AlertOpen(c) PROVE IInv'
  <2>1. CASE Leave(c)
    BY <1>t, <1>3, <2>1, LeaveFacts DEF AlertOpen, kernelVars, IInv, TypeOK, StatesPinned
  <2>2. CASE ~Leave(c)
    BY <1>3, <2>2 DEF AlertOpen, kernelVars, IInv, TypeOK, CallersRun, IdsUnique, OpenedIsNamed,
              StatesPinned, WaiterKeepsState, LockNotHeldInWait
  <2> QED
    BY <2>1, <2>2
<1>4. ASSUME AlertExited(c) PROVE IInv'
  BY <1>t, <1>4, LeaveFacts DEF AlertExited, kernelVars, IInv, TypeOK, StatesPinned
<1>5. ASSUME AlertRunning(c) PROVE IInv'
  BY <1>5 DEF AlertRunning, kernelVars, IInv, TypeOK, CallersRun, IdsUnique, OpenedIsNamed,
              StatesPinned, WaiterKeepsState, LockNotHeldInWait
<1>6. ASSUME AlertSignal(c) PROVE IInv'
  <2>1. \E p \in Object : /\ alert' = Signalled(alert, p) \/ alert' = alert
                          /\ life[p] # "none" /\ p \notin Foreign
    <3>1. opened[c] \in Object /\ life[opened[c]] # "none" /\ opened[c] \notin Foreign
      BY <1>6 DEF AlertSignal, IInv, OpenedIsNamed
    <3> QED
      BY <1>t, <1>6, <3>1, AlertSignalFacts DEF Found, IInv, StatesPinned
  <2>2. StatesPinned' /\ alert' \in [Object -> {"none", "clear", "set"}]
    BY <1>t, <1>6, <2>1 DEF AlertSignal, kernelVars, Signalled, IInv, TypeOK, StatesPinned
  <2>3. \A o \in Object : life[o] = "running" /\ alert[o] # "none" => alert'[o] # "none"
    BY <1>t, <2>1 DEF Signalled, TypeOK
  <2> QED
    BY <1>6, <2>2, <2>3, LeaveFacts DEF AlertSignal
<1> QED
  BY <1>1, <1>2, <1>3, <1>4, <1>5, <1>6 DEF Alert

\* The steps of NtWaitForAlertByThreadId.
LEMMA WaitStep ==
  ASSUME IInv, NEW t \in Object, Wait(t)
  PROVE  IInv'
<1> USE NullAssumption DEF kernelVars
<1>t. TypeOK
  BY DEF IInv
<1>1. ASSUME NEW timeout \in {"none", "zero", "later"}, WaitBegin(t, timeout) PROVE IInv'
  <2>0. life[t] = "running" /\ t \notin Foreign /\ pc[t] = "idle" /\ lock = NULL
    BY <1>1 DEF WaitBegin, CreateAlertState, Enter
  <2>1. UNCHANGED <<life, tid, held, lock, arg, opened>>
    BY <1>1 DEF WaitBegin, CreateAlertState
  <2>2. CASE alert' = Retired(alert) /\ UNCHANGED <<pc, finite>>
    BY <1>t, <2>0, <2>1, <2>2, RetiredFacts DEF IInv, TypeOK, CallersRun, IdsUnique, OpenedIsNamed,
              StatesPinned, WaiterKeepsState, LockNotHeldInWait
  <2>3. CASE ~(alert' = Retired(alert) /\ UNCHANGED <<pc, finite>>)
    <3>1. /\ alert' = IF Found(Retired(alert), tid[t]) = {}
                      THEN [Retired(alert) EXCEPT ![t] = "clear"] ELSE Retired(alert)
          /\ pc' = [pc EXCEPT ![t] = "waiting"]
          /\ finite' = [finite EXCEPT ![t] = timeout # "none"]
      BY <1>1, <2>3 DEF WaitBegin, CreateAlertState
    <3>2. Found(Retired(alert), tid[t]) # {} => Retired(alert)[t] # "none"
      <4> SUFFICES ASSUME NEW p \in Found(Retired(alert), tid[t]) PROVE p = t
        BY DEF Found
      <4>1. p \in Object /\ alert[p] # "none" /\ tid[p] = tid[t]
        BY <1>t, RetiredFacts DEF Found
      <4> QED
        BY <2>0, <4>1 DEF IInv, StatesPinned, IdsUnique
    <3>3. /\ alert' \in [Object -> {"none", "clear", "set"}]
          /\ alert'[t] # "none"
          /\ \A p \in Object \ {t} : alert'[p] = Retired(alert)[p]
      BY <1>t, <3>1, <3>2, RetiredFacts
    <3>4. TypeOK'
      BY <1>t, <2>1, <3>1, <3>3 DEF TypeOK
    <3>5. CallersRun' /\ IdsUnique' /\ OpenedIsNamed' /\ LockNotHeldInWait'
      BY <1>t, <2>0, <2>1, <3>1
      DEF IInv, TypeOK, CallersRun, IdsUnique, OpenedIsNamed, LockNotHeldInWait
    <3>6. StatesPinned' /\ WaiterKeepsState'
      BY <1>t, <2>0, <2>1, <3>1, <3>3, RetiredFacts DEF IInv, TypeOK, StatesPinned, WaiterKeepsState
    <3> QED
      BY <3>4, <3>5, <3>6 DEF IInv
  <2> QED
    BY <2>2, <2>3
<1>2. ASSUME WaitAlerted(t) PROVE IInv'
  BY <1>2 DEF WaitAlerted, IInv, TypeOK, CallersRun, IdsUnique, OpenedIsNamed,
              StatesPinned, WaiterKeepsState, LockNotHeldInWait
<1>3. ASSUME WaitTimeout(t) PROVE IInv'
  BY <1>3 DEF WaitTimeout, IInv, TypeOK, CallersRun, IdsUnique, OpenedIsNamed,
              StatesPinned, WaiterKeepsState, LockNotHeldInWait
<1> QED
  BY <1>1, <1>2, <1>3 DEF Wait

LEMMA CleanupStep == IInv /\ Cleanup => IInv'
BY DEF Cleanup, kernelVars, callVars, IInv, TypeOK, CallersRun, IdsUnique, OpenedIsNamed,
       StatesPinned, WaiterKeepsState, LockNotHeldInWait

LEMMA StepIInv == IInv /\ [Next]_vars => IInv'
<1> SUFFICES ASSUME IInv, [Next]_vars PROVE IInv'
  OBVIOUS
<1>1. CASE UNCHANGED vars
  BY <1>1 DEF vars, IInv, TypeOK, CallersRun, IdsUnique, OpenedIsNamed,
              StatesPinned, WaiterKeepsState, LockNotHeldInWait
<1> QED
  BY <1>1, KernelStep, AlertStep, WaitStep, CleanupStep DEF Next

\* The inductive invariant holds in every reachable state.
THEOREM Invariance == Spec => []IInv
  BY InitIInv, StepIInv, PTL DEF Spec

THEOREM TypeCorrect == Spec => []TypeOK
<1>1. IInv => TypeOK
  BY DEF IInv
<1> QED
  BY <1>1, Invariance, PTL

\* The ID of an alert state means the thread the state was made for.
THEOREM StatesNameTheirThreads == Spec => []StateNamesItsThread
<1>1. IInv => StateNamesItsThread
  BY DEF IInv, StatesPinned, IdsUnique, StateNamesItsThread
<1> QED
  BY <1>1, Invariance, PTL

\* A blocked waiter keeps its state.
THEOREM WaitersKeepStates == Spec => []WaiterKeepsState
<1>1. IInv => WaiterKeepsState
  BY DEF IInv
<1> QED
  BY <1>1, Invariance, PTL

\* The lock of the list is not held across a wait.
THEOREM LockDiscipline == Spec => []LockNotHeldInWait
<1>1. IInv => LockNotHeldInWait
  BY DEF IInv
<1> QED
  BY <1>1, Invariance, PTL

\* Which steps touch an event at all, and how.
LEMMA EventSteps ==
  ASSUME IInv, Next, NEW o \in Object, alert'[o] # alert[o]
  PROVE  \/ life[o] = "exited" /\ alert'[o] = "none"
         \/ Cleanup
         \/ WaitAlerted(o)
         \/ alert[o] = "none" /\ alert'[o] = "clear"
         \/ \E c \in Object : /\ lock = c /\ alert'[o] = "set" /\ tid[o] = arg[c]
                              /\ life[o] # "none"
<1> USE DEF kernelVars
<1>t. TypeOK /\ LockNotHeldInWait /\ OpenedIsNamed /\ StatesPinned
  BY DEF IInv
<1>1. ASSUME NEW c \in Object, Kernel(c) PROVE FALSE
  BY <1>1 DEF Kernel, CreateThread, ExitThread, CloseHandle, FreeObject
<1>2. ASSUME NEW c \in Object, Alert(c), life[o] # "exited"
      PROVE  lock = c /\ alert'[o] = "set" /\ tid[o] = arg[c] /\ life[o] # "none"
  <2>1. lock = c
    BY <1>t, <1>2 DEF Alert, AlertBegin, AlertFind, AlertOpen, AlertExited, AlertRunning, AlertSignal,
                      LockNotHeldInWait
  <2>2. AlertFind(c) \/ AlertSignal(c)
    BY <1>2 DEF Alert, AlertBegin, AlertOpen, AlertExited, AlertRunning
  <2>3. CASE AlertFind(c)
    <3>1. \E p \in Found(Retired(alert), arg[c]) : alert' = Signalled(Retired(alert), p)
      BY <1>t, <1>2, <2>3, RetiredFacts DEF AlertFind
    <3> QED
      BY <1>t, <1>2, <2>1, <3>1, RetiredFacts DEF Found, Signalled, StatesPinned
  <2>4. CASE AlertSignal(c)
    <3>1. /\ opened[c] \in Object /\ life[opened[c]] # "none" /\ tid[opened[c]] = arg[c]
      BY <1>t, <2>4, NullAssumption DEF AlertSignal, OpenedIsNamed
    <3>2. \E p \in Object : /\ alert' = Signalled(alert, p)
                            /\ tid[p] = arg[c] /\ life[p] # "none"
      BY <1>t, <1>2, <2>4, <3>1, AlertSignalFacts DEF Found, Signalled, StatesPinned
    <3> QED
      BY <1>t, <2>1, <3>2 DEF Signalled, TypeOK
  <2> QED
    BY <2>2, <2>3, <2>4
<1>3. ASSUME NEW c \in Object, Alert(c), life[o] = "exited", alert'[o] # "none"
      PROVE  lock = c /\ alert'[o] = "set" /\ tid[o] = arg[c] /\ life[o] # "none"
  <2>1. lock = c
    BY <1>t, <1>3 DEF Alert, AlertBegin, AlertFind, AlertOpen, AlertExited, AlertRunning, AlertSignal,
                      LockNotHeldInWait
  <2>2. ~AlertFind(c)
    BY <1>t, <1>3, RetiredFacts DEF AlertFind, Found, Signalled
  <2>3. AlertSignal(c)
    BY <1>3, <2>2 DEF Alert, AlertBegin, AlertOpen, AlertExited, AlertRunning
  <2>4. /\ opened[c] \in Object /\ life[opened[c]] # "none" /\ tid[opened[c]] = arg[c]
    BY <1>t, <2>3, NullAssumption DEF AlertSignal, OpenedIsNamed
  <2>5. \E p \in Object : /\ alert' = Signalled(alert, p)
                          /\ tid[p] = arg[c] /\ life[p] # "none"
    BY <1>t, <1>3, <2>3, <2>4, AlertSignalFacts DEF Found, Signalled, StatesPinned
  <2> QED
    BY <1>t, <2>1, <2>5 DEF Signalled, TypeOK
<1>4. ASSUME NEW c \in Object, Wait(c)
      PROVE  \/ life[o] = "exited" /\ alert'[o] = "none"
             \/ WaitAlerted(o)
             \/ alert[o] = "none" /\ alert'[o] = "clear"
  <2>1. CASE WaitAlerted(c)
    BY <1>t, <2>1 DEF WaitAlerted, TypeOK
  <2>2. CASE WaitTimeout(c)
    BY <2>2 DEF WaitTimeout
  <2>3. ASSUME NEW timeout \in {"none", "zero", "later"}, WaitBegin(c, timeout)
        PROVE  \/ life[o] = "exited" /\ alert'[o] = "none"
               \/ alert[o] = "none" /\ alert'[o] = "clear"
    <3>1. life[c] = "running" /\ tid[c] = tid[c] /\ Retired(alert)[c] = alert[c]
      BY <1>t, <2>3, RetiredFacts DEF WaitBegin, CreateAlertState, Enter
    <3>2. \/ alert' = Retired(alert)
          \/ /\ Found(Retired(alert), tid[c]) = {}
             /\ alert' = [Retired(alert) EXCEPT ![c] = "clear"]
      BY <2>3 DEF WaitBegin, CreateAlertState
    <3>3. Found(Retired(alert), tid[c]) = {} => alert[c] = "none"
      BY <3>1 DEF Found
    <3> QED
      BY <1>t, <3>2, <3>3, RetiredFacts
  <2> QED
    BY <1>4, <2>1, <2>2, <2>3 DEF Wait
<1> QED
  BY <1>1, <1>2, <1>3, <1>4 DEF Next

\* An alert leaves an event only into a wait of the thread it was sent to.
THEOREM AlertsAreNotLost == Spec => AlertNotLost
<1> DEFINE Kept(o) == (alert[o] = "set" /\ alert'[o] # "set") =>
                         \/ life[o] = "exited"
                         \/ \A p \in Object : alert'[p] = "none" /\ pc[p] = "idle"
                         \/ pc[o] = "waiting" /\ pc'[o] = "idle"
<1>1. IInv /\ [Next]_vars => [\A o \in Object : Kept(o)]_vars
  <2> SUFFICES ASSUME IInv, Next, NEW o \in Object, alert[o] = "set", alert'[o] # "set" PROVE Kept(o)
    OBVIOUS
  <2>1. Cleanup => \A p \in Object : alert'[p] = "none" /\ pc[p] = "idle"
    BY DEF Cleanup
  <2>2. WaitAlerted(o) => pc[o] = "waiting" /\ pc'[o] = "idle"
    BY DEF WaitAlerted, IInv, TypeOK
  <2> QED
    BY <2>1, <2>2, EventSteps
<1> QED
  BY <1>1, Invariance, PTL DEF Spec, AlertNotLost

\* An alert is delivered to the one thread that has the ID.
THEOREM AlertsReachTheirId == Spec => AlertReachesItsId
<1> DEFINE Right(o) == (alert[o] # "set" /\ alert'[o] = "set") =>
                         \E c \in Object :
                           /\ lock = c /\ tid[o] = arg[c]
                           /\ \A p \in Object : life[p] # "none" /\ tid[p] = arg[c] => p = o
<1>1. IInv /\ [Next]_vars => [\A o \in Object : Right(o)]_vars
  <2> SUFFICES ASSUME IInv, Next, NEW o \in Object, alert[o] # "set", alert'[o] = "set" PROVE Right(o)
    OBVIOUS
  <2>1. ~Cleanup /\ ~WaitAlerted(o)
    BY DEF Cleanup, WaitAlerted, IInv, TypeOK
  <2>2. PICK c \in Object : lock = c /\ tid[o] = arg[c] /\ life[o] # "none"
    BY <2>1, EventSteps
  <2> QED
    BY <2>2 DEF IInv, IdsUnique
<1> QED
  BY <1>1, Invariance, PTL DEF Spec, AlertReachesItsId
=============================================================================
