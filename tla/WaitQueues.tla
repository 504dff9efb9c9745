---------------------------- MODULE WaitQueues ----------------------------
(***************************************************************************)
(* The lists of WaitOnAddress read as queues: what a walk along the ring   *)
(* of a bucket finds, and the mapping under which WaitOnAddress implements *)
(* AddressQueues.                                                          *)
(***************************************************************************)
EXTENDS WaitOnAddress, Sequences, FiniteSets

LinkedIn(b) == {t \in Thread : Linked(t) /\ BucketOf(t) = b}

\* The first n blocks met along the links nx from the block first.
WalkFrom(first, nx, n) ==
  LET at[i \in 1 .. n] == IF i = 1 THEN first ELSE nx[at[i - 1]] IN at

\* The blocks met by as many steps along Next as there are blocks.
Walk(b) == WalkFrom(head[b], next, Cardinality(LinkedIn(b)))

\* The walk is the whole list: the ring is one cycle through every block, and
\* an empty head means an empty list (rtlwoa.c:54-58).
RingIsWholeList ==
  \A b \in Bucket :
    /\ (head[b] = NULL) = (LinkedIn(b) = {})
    /\ {Walk(b)[i] : i \in DOMAIN Walk(b)} = LinkedIn(b)

\* The elements of s that are in S, in the order of s.
Among(s, S) ==
  LET chosen[i \in 0 .. Len(s)] ==
        IF i = 0 THEN <<>>
        ELSE IF s[i] \in S THEN Append(chosen[i - 1], s[i])
        ELSE chosen[i - 1]
  IN chosen[Len(s)]

QueueOf(a) == Among(Walk(Hash[a]), {t \in Thread : waitAddr[t] = a})

Waiters == [a \in Address |-> QueueOf(a)]
Signalled == {t \in Thread : event[t] = "set"}

Queues == INSTANCE AddressQueues WITH waiters <- Waiters, signalled <- Signalled

\* Wakes are served first come, first served per address (rtlwoa.c:260-264),
\* and no thread leaves the queue unsignalled except by its own timeout.
ImplementsQueues == Queues!Spec
=============================================================================
