--------------------------- MODULE WaitOnAddress ---------------------------
(***************************************************************************)
(* KexDll/rtlwoa.c: WaitOnAddress, WakeByAddressSingle, WakeByAddressAll   *)
(* for Vista.  Every waiting thread owns one wait block in its own stack   *)
(* frame; the blocks of the threads that wait in one hash bucket form a    *)
(* circular doubly linked list whose first element is the bucket's head.   *)
(* An SRW lock per bucket guards the list; a thread sleeps on the private  *)
(* event of its block with the lock released.                              *)
(*                                                                         *)
(* A critical section that reads shared data once is one action.  The      *)
(* traversal of the waker takes one step per block, with the bucket lock   *)
(* held, because waiters time out, wake and return while it runs.          *)
(***************************************************************************)
EXTENDS Naturals

CONSTANTS
  Thread,    \* threads of the process
  Address,   \* addresses a thread can wait on
  Value,     \* values the memory at an address can hold
  Bucket,    \* KexRtlWaitOnAddressHashTable
  Hash,      \* Hash[a] is the bucket of address a
  NULL       \* the null pointer, and "no owner" of a lock

ASSUME HashAssumption == Hash \in [Address -> Bucket]
ASSUME NullAssumption == NULL \notin Thread

VARIABLES
  mem,       \* mem[a]: the value the program keeps at address a
  lock,      \* lock[b]: owner of the SRW lock of bucket b, or NULL
  head,      \* head[b]: HashBucket->WaitBlocks
  waitAddr,  \* waitAddr[t]: Address field of the wait block of thread t
  next,      \* next[t]: Next field of that block
  prev,      \* prev[t]: Previous field; NULL says "do not touch"
  event,     \* event[t]: the event of the block: "none", "reset" or "set"
  pc,        \* pc[t]: where thread t is
  timed,     \* timed[t]: the pending wait of t has a finite timeout
  wake       \* wake[t]: address, mode and cursor of the wake call of t

blockVars == <<waitAddr, next, prev>>
vars == <<mem, lock, head, waitAddr, next, prev, event, pc, timed, wake>>

NoWake == [address |-> NULL, all |-> FALSE, cursor |-> NULL]

Init ==
  /\ mem \in [Address -> Value]
  /\ lock = [b \in Bucket |-> NULL]
  /\ head = [b \in Bucket |-> NULL]
  /\ waitAddr = [t \in Thread |-> NULL]
  /\ next = [t \in Thread |-> NULL]
  /\ prev = [t \in Thread |-> NULL]
  /\ event = [t \in Thread |-> "none"]
  /\ pc = [t \in Thread |-> "idle"]
  /\ timed = [t \in Thread |-> FALSE]
  /\ wake = [t \in Thread |-> NoWake]

-----------------------------------------------------------------------------
(* The linked list *)

\* The block of t is on the list of its bucket.
InFrame(t) == pc[t] \in {"waiting", "timedOut"}
Linked(t) == InFrame(t) /\ prev[t] # NULL

\* KexRtlpRemoveWoaWaitBlock: the three pointers it writes.
RemovedHead(b, w) ==
  IF prev[w] = NULL THEN head
  ELSE IF next[w] = w THEN [head EXCEPT ![b] = NULL]
  ELSE IF head[b] = w THEN [head EXCEPT ![b] = next[w]]
  ELSE head

RemovedNext(w) ==
  IF prev[w] = NULL \/ next[w] = w THEN next
  ELSE [next EXCEPT ![prev[w]] = next[w]]

RemovedPrev(w) ==
  IF prev[w] = NULL \/ next[w] = w THEN prev
  ELSE [prev EXCEPT ![next[w]] = prev[w]]

\* The block of t becomes the last of bucket b.
\* Mutant: the only block of a list points at the bucket, not at itself.
InsertedNextAtBucket(b, t) ==
  IF head[b] = NULL THEN [next EXCEPT ![t] = b]
  ELSE [next EXCEPT ![t] = head[b], ![prev[head[b]]] = t]

InsertedNext(b, t) ==
  IF head[b] = NULL THEN [next EXCEPT ![t] = t]
  ELSE [next EXCEPT ![t] = head[b], ![prev[head[b]]] = t]

\* Mutant: the head keeps its old Previous.
InsertedPrevHeadStale(b, t) ==
  IF head[b] = NULL THEN [prev EXCEPT ![t] = t]
  ELSE [prev EXCEPT ![t] = prev[head[b]]]

InsertedPrev(b, t) ==
  IF head[b] = NULL THEN [prev EXCEPT ![t] = t]
  ELSE [prev EXCEPT ![t] = prev[head[b]], ![head[b]] = t]

\* Mutant: the newest block becomes the first.
InsertedHeadFirst(b, t) == [head EXCEPT ![b] = t]

InsertedHead(b, t) ==
  IF head[b] = NULL THEN [head EXCEPT ![b] = t] ELSE head

-----------------------------------------------------------------------------
(* The program that uses the component *)

\* The program writes an address it shares, without any lock.
Store(t, a, v) ==
  /\ pc[t] = "idle"
  /\ mem[a] # v
  /\ mem' = [mem EXCEPT ![a] = v]
  /\ UNCHANGED <<lock, head, blockVars, event, pc, timed, wake>>

-----------------------------------------------------------------------------
(* KexRtlWaitOnAddress *)

\* Mutant: the value is not compared again under the lock.
NotCompared(a, compare) == compare \in Value

\* KexRtlpEqualVolatileMemory
EqualVolatileMemory(a, compare) == mem[a] = compare

\* The call up to the release of the bucket lock.  A wait on a value that is
\* no longer there, or whose event cannot be created, returns at once and
\* changes nothing; so does one with a size other than 1, 2, 4 or 8.
WaitEnqueue(t, a, compare, finite) ==
  LET b == Hash[a] IN
  /\ pc[t] = "idle"
  /\ lock[b] = NULL
  /\ EqualVolatileMemory(a, compare)
  /\ event' = [event EXCEPT ![t] = "reset"]
  /\ waitAddr' = [waitAddr EXCEPT ![t] = a]
  /\ next' = InsertedNext(b, t)
  /\ prev' = InsertedPrev(b, t)
  /\ head' = InsertedHead(b, t)
  /\ pc' = [pc EXCEPT ![t] = "waiting"]
  /\ timed' = [timed EXCEPT ![t] = finite]
  /\ UNCHANGED <<mem, lock, wake>>

\* The frame of the call is gone: its block and its event with it.
LeaveFrame(t) ==
  /\ event' = [event EXCEPT ![t] = "none"]
  /\ pc' = [pc EXCEPT ![t] = "idle"]
  /\ timed' = [timed EXCEPT ![t] = FALSE]

\* The event is set: the wait succeeds and the thread leaves without the
\* lock, because the waker has already unlinked the block.
WaitSignalled(t) ==
  /\ pc[t] = "waiting"
  /\ event[t] = "set"
  /\ LeaveFrame(t)
  /\ waitAddr' = [waitAddr EXCEPT ![t] = NULL]
  /\ next' = [next EXCEPT ![t] = NULL]
  /\ prev' = [prev EXCEPT ![t] = NULL]
  /\ UNCHANGED <<mem, lock, head, wake>>

\* NtWaitForSingleObject gives STATUS_TIMEOUT.  From here on the result of
\* the call is decided, but the block is still on the list.
WaitTimeout(t) ==
  /\ pc[t] = "waiting"
  /\ timed[t]
  /\ event[t] = "reset"
  /\ pc' = [pc EXCEPT ![t] = "timedOut"]
  /\ UNCHANGED <<mem, lock, head, blockVars, event, timed, wake>>

\* The thread that timed out takes the lock, unlinks its block unless a waker
\* did so in between, closes its event and returns.
WaitTimeoutReturn(t) ==
  LET b == Hash[waitAddr[t]] IN
  /\ pc[t] = "timedOut"
  /\ lock[b] = NULL
  /\ head' = RemovedHead(b, t)
  /\ next' = [RemovedNext(t) EXCEPT ![t] = NULL]
  /\ prev' = [RemovedPrev(t) EXCEPT ![t] = NULL]
  /\ waitAddr' = [waitAddr EXCEPT ![t] = NULL]
  /\ LeaveFrame(t)
  /\ UNCHANGED <<mem, lock, wake>>

-----------------------------------------------------------------------------
(* KexRtlpWakeByAddress *)

\* The lock is taken; an empty bucket is left alone (its lock is released in
\* the same step), otherwise the traversal starts at the head.
WakeBegin(t, a, all) ==
  LET b == Hash[a] IN
  /\ pc[t] = "idle"
  /\ lock[b] = NULL
  /\ head[b] # NULL
  /\ lock' = [lock EXCEPT ![b] = t]
  /\ wake' = [wake EXCEPT ![t] = [address |-> a, all |-> all, cursor |-> head[b]]]
  /\ pc' = [pc EXCEPT ![t] = "waking"]
  /\ UNCHANGED <<mem, head, blockVars, event, timed>>

Matches(t) == waitAddr[wake[t].cursor] = wake[t].address

\* Mutant: the block is not marked as unlinked.
WakeBlockUnmarked(b, w) ==
  /\ head' = RemovedHead(b, w)
  /\ next' = RemovedNext(w)
  /\ prev' = RemovedPrev(w)
  /\ event' = [event EXCEPT ![w] = "set"]

\* Mutant: the block of a thread that has a timeout is unlinked and not signalled.
WakeBlockSilent(b, w) ==
  /\ head' = RemovedHead(b, w)
  /\ next' = RemovedNext(w)
  /\ prev' = [RemovedPrev(w) EXCEPT ![w] = NULL]
  /\ event' = IF timed[w] THEN event ELSE [event EXCEPT ![w] = "set"]

\* Unlink the block, mark it as unlinked and set its event.
WakeBlock(b, w) ==
  /\ head' = RemovedHead(b, w)
  /\ next' = RemovedNext(w)
  /\ prev' = [RemovedPrev(w) EXCEPT ![w] = NULL]
  /\ event' = [event EXCEPT ![w] = "set"]

\* Mutant: the traversal looks at the first block only.
WakeEndsAtFirst(t, b, following) == following \in Thread

\* Mutant: the traversal does not notice that it is back at the head.
WakeEndsNever(t, b, following) ==
  \/ Matches(t) /\ ~wake[t].all
  \/ head'[b] = NULL

\* The traversal ends after the first block of a single wake, with an empty
\* list, and when the block after the cursor (read before the cursor was
\* unlinked) is the head of the list as it is now.
WakeEnds(t, b, following) ==
  \/ Matches(t) /\ ~wake[t].all
  \/ head'[b] = NULL
  \/ following = head'[b]

\* The common exit of the loop.
Release(t, b) ==
  /\ lock' = [lock EXCEPT ![b] = NULL]
  /\ pc' = [pc EXCEPT ![t] = "idle"]
  /\ wake' = [wake EXCEPT ![t] = NoWake]

\* One round of the loop.
WakeStep(t) ==
  LET b == Hash[wake[t].address]
      w == wake[t].cursor
      following == next[w]
  IN
  /\ pc[t] = "waking"
  /\ IF Matches(t) THEN WakeBlock(b, w) ELSE UNCHANGED <<head, next, prev, event>>
  /\ IF WakeEnds(t, b, following)
     THEN Release(t, b)
     ELSE /\ wake' = [wake EXCEPT ![t].cursor = following]
          /\ UNCHANGED <<lock, pc>>
  /\ UNCHANGED <<mem, waitAddr, timed>>

-----------------------------------------------------------------------------
Next ==
  \E t \in Thread :
    \/ \E a \in Address, v \in Value : Store(t, a, v)
    \/ \E a \in Address, v \in Value, finite \in BOOLEAN : WaitEnqueue(t, a, v, finite)
    \/ WaitSignalled(t)
    \/ WaitTimeout(t)
    \/ WaitTimeoutReturn(t)
    \/ \E a \in Address, all \in BOOLEAN : WakeBegin(t, a, all)
    \/ WakeStep(t)

Spec == Init /\ [][Next]_vars

-----------------------------------------------------------------------------
(* Properties *)

TypeOK ==
  /\ mem \in [Address -> Value]
  /\ lock \in [Bucket -> Thread \cup {NULL}]
  /\ head \in [Bucket -> Thread \cup {NULL}]
  /\ waitAddr \in [Thread -> Address \cup {NULL}]
  /\ next \in [Thread -> Thread \cup {NULL}]
  /\ prev \in [Thread -> Thread \cup {NULL}]
  /\ event \in [Thread -> {"none", "reset", "set"}]
  /\ pc \in [Thread -> {"idle", "waiting", "timedOut", "waking"}]
  /\ timed \in [Thread -> BOOLEAN]
  /\ wake \in [Thread -> [address : Address \cup {NULL}, all : BOOLEAN,
                          cursor : Thread \cup {NULL}]]

\* The bucket of a linked block.
BucketOf(t) == Hash[waitAddr[t]]

\* A block on a list points, both ways, at blocks that are on the same list
\* and point back: no link leads into the stack frame of a call that returned.
LinksLive ==
  \A t \in Thread : Linked(t) =>
    /\ next[t] \in Thread /\ Linked(next[t]) /\ BucketOf(next[t]) = BucketOf(t)
    /\ prev[t] \in Thread /\ Linked(prev[t]) /\ BucketOf(prev[t]) = BucketOf(t)
    /\ prev[next[t]] = t
    /\ next[prev[t]] = t

\* A bucket's head, and the cursor of the waker that holds the bucket, are
\* blocks of frames that still exist.
HeadLive ==
  \A b \in Bucket : head[b] # NULL =>
    Linked(head[b]) /\ BucketOf(head[b]) = b

CursorLive ==
  \A t \in Thread : pc[t] = "waking" =>
    LET b == Hash[wake[t].address] IN
    /\ lock[b] = t
    /\ wake[t].cursor \in Thread
    /\ Linked(wake[t].cursor) /\ BucketOf(wake[t].cursor) = b

\* The waker never follows a pointer into a dead frame, and the event it sets
\* is open: rtlwoa.c asserts that NtSetEvent succeeds (lines 300-301) and takes
\* care that a block is not removed twice (lines 278-292).
MemorySafe ==
  /\ LinksLive
  /\ HeadLive
  /\ CursorLive
  /\ \A t \in Thread : Linked(t) => event[t] = "reset"

\* The lock of a bucket is held by a thread that is in a wake of that bucket
\* and by no other: no exit of KexRtlpWakeByAddress keeps the lock.
LockOwner ==
  \A b \in Bucket : lock[b] # NULL =>
    pc[lock[b]] = "waking" /\ Hash[wake[lock[b]].address] = b

\* A waiter that is off the list has been signalled, so nobody sleeps where no
\* waker can find it.
OffListIsSignalled ==
  \A t \in Thread : InFrame(t) /\ ~Linked(t) => event[t] = "set"

\* A wake that ends at a block of another address leaves no waiter of its own
\* address behind: the traversal has seen the whole list.
WakeFindsWaiters ==
  [][\A t \in Thread :
       (pc[t] = "waking" /\ pc'[t] = "idle" /\ ~Matches(t)) =>
          \A u \in Thread : Linked(u)' => waitAddr'[u] # wake[t].address]_vars

\* What the name and the header of KexRtlWakeAddressAll promise (rtlwoa.c:
\* 239-242): when the call is over, no waiter of the address is left queued.
WakeAllWakesAll ==
  [][\A t \in Thread :
       (pc[t] = "waking" /\ pc'[t] = "idle" /\ wake[t].all) =>
          \A u \in Thread : Linked(u)' => waitAddr'[u] # wake[t].address]_vars

\* Every wake ends and gives the bucket back, whatever waiters do meanwhile.
WakeTerminates == \A t \in Thread : pc[t] = "waking" ~> pc[t] = "idle"
=============================================================================
