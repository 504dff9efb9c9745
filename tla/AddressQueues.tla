--------------------------- MODULE AddressQueues ---------------------------
(***************************************************************************)
(* What KexDll/rtlwoa.c promises its callers, without buckets, locks,      *)
(* links or events: the threads that wait on an address form a queue in    *)
(* the order of their calls, a wake takes the one that waited longest, and *)
(* a thread leaves unsignalled only by giving up itself.                   *)
(***************************************************************************)
EXTENDS Naturals, Sequences, FiniteSets

CONSTANTS Thread, Address

VARIABLES
  waiters,    \* waiters[a]: the threads waiting on a, longest wait first
  signalled   \* threads taken off a queue by a wake, not yet returned

vars == <<waiters, signalled>>

Members(q) == {q[i] : i \in DOMAIN q}
Without(q, i) == SubSeq(q, 1, i - 1) \o SubSeq(q, i + 1, Len(q))
Waiting == signalled \cup UNION {Members(waiters[a]) : a \in Address}

Init ==
  /\ waiters = [a \in Address |-> <<>>]
  /\ signalled = {}

Wait(t, a) ==
  /\ t \notin Waiting
  /\ waiters' = [waiters EXCEPT ![a] = Append(@, t)]
  /\ UNCHANGED signalled

WakeFirst(a) ==
  /\ waiters[a] # <<>>
  /\ waiters' = [waiters EXCEPT ![a] = Tail(@)]
  /\ signalled' = signalled \cup {Head(waiters[a])}

GiveUp(t, a) ==
  /\ \E i \in DOMAIN waiters[a] :
       /\ waiters[a][i] = t
       /\ waiters' = [waiters EXCEPT ![a] = Without(@, i)]
  /\ UNCHANGED signalled

Return(t) ==
  /\ t \in signalled
  /\ signalled' = signalled \ {t}
  /\ UNCHANGED waiters

Next ==
  \/ \E a \in Address : WakeFirst(a)
  \/ \E t \in Thread : Return(t) \/ \E a \in Address : Wait(t, a) \/ GiveUp(t, a)

Spec == Init /\ [][Next]_vars
=============================================================================
