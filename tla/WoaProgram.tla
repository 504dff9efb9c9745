----------------------------- MODULE WoaProgram -----------------------------
(***************************************************************************)
(* A program that uses WaitOnAddress the way the interface is meant to be  *)
(* used.  A waiter runs                                                    *)
(*     while a holds 0, call WaitOnAddress(a, &zero, ...)                  *)
(* and a setter stores 1 and then wakes the address.  The comparison under *)
(* the bucket lock is what keeps a store and wake that fall between the    *)
(* waiter's own check and its sleep from being lost.                       *)
(***************************************************************************)
EXTENDS WaitOnAddress

CONSTANTS
  Waiter, Setter,   \* the two roles of the threads
  Place             \* Place[t]: the address thread t waits on or sets

ASSUME RoleAssumption ==
  /\ Waiter \cup Setter = Thread
  /\ Waiter \cap Setter = {}
  /\ Place \in [Thread -> Address]
  /\ {0, 1} \subseteq Value

VARIABLE phase      \* phase[t]: what the program of t does next

programVars == <<vars, phase>>

ProgramInit ==
  /\ Init
  /\ mem = [a \in Address |-> 0]
  /\ phase = [t \in Thread |-> IF t \in Waiter THEN "check" ELSE "store"]

Goto(t, p) == phase' = [phase EXCEPT ![t] = p]

\* The condition of the loop.
Check(t) ==
  /\ pc[t] = "idle" /\ phase[t] = "check"
  /\ Goto(t, IF mem[Place[t]] = 0 THEN "call" ELSE "done")
  /\ UNCHANGED vars

\* The body of the loop: the call sleeps, or finds another value and returns.
Call(t) ==
  /\ phase[t] = "call"
  /\ Goto(t, "check")
  /\ \/ \E finite \in BOOLEAN : WaitEnqueue(t, Place[t], 0, finite)
     \/ /\ lock[Hash[Place[t]]] = NULL
        /\ mem[Place[t]] # 0
        /\ UNCHANGED vars

Set(t) ==
  /\ phase[t] = "store"
  /\ Goto(t, "wake")
  /\ IF mem[Place[t]] = 1 THEN UNCHANGED vars ELSE Store(t, Place[t], 1)

Wake(t) ==
  /\ phase[t] = "wake"
  /\ Goto(t, "done")
  /\ \/ \E all \in BOOLEAN : WakeBegin(t, Place[t], all)
     \/ /\ lock[Hash[Place[t]]] = NULL
        /\ head[Hash[Place[t]]] = NULL
        /\ UNCHANGED vars

Component(t) ==
  /\ WaitSignalled(t) \/ WaitTimeout(t) \/ WaitTimeoutReturn(t) \/ WakeStep(t)
  /\ UNCHANGED phase

Program(t) ==
  \/ t \in Waiter /\ (Check(t) \/ Call(t))
  \/ t \in Setter /\ (Set(t) \/ Wake(t))
  \/ Component(t)

ProgramNext == \E t \in Thread : Program(t)

\* Threads that can run do run.  A bucket lock is held only by a wake, there
\* are finitely many wakes, so no strong fairness of the lock is needed.
ProgramSpec ==
  ProgramInit /\ [][ProgramNext]_programVars /\ \A t \in Thread : WF_programVars(Program(t))

-----------------------------------------------------------------------------
\* No wake is lost: with one waiter per address, every waiter gets past its
\* loop, however its check, its call, its timeout and the setter interleave.
EveryWaiterPasses == \A t \in Waiter : <>(phase[t] = "done")
=============================================================================
