------------------------ MODULE WaitOnAddressProofs ------------------------
(***************************************************************************)
(* Proofs about WaitOnAddress, for any number of threads, addresses and    *)
(* buckets and any hash: the types, the ownership of the bucket locks,     *)
(* that no pointer of a list or of a waker leads into a dead stack frame,  *)
(* that every list is one ring, and that the lists implement AddressQueues.*)
(***************************************************************************)
EXTENDS WaitQueues, FiniteSetTheorems, SequenceTheorems, WellFoundedInduction, TLAPS

\* The block of a thread that is inside KexRtlWaitOnAddress, and the wake call
\* of a thread that is inside KexRtlpWakeByAddress, name a real address.
FramesNamed ==
  \A t \in Thread :
    /\ InFrame(t) => waitAddr[t] \in Address
    /\ pc[t] = "waking" => wake[t].address \in Address

LinkedUnset == \A t \in Thread : Linked(t) => event[t] = "reset"

\* The inductive invariant.
IInv ==
  /\ TypeOK
  /\ FramesNamed
  /\ LinksLive
  /\ HeadLive
  /\ CursorLive
  /\ LinkedUnset
  /\ OffListIsSignalled
  /\ LockOwner

-----------------------------------------------------------------------------
\* The initial states have no blocks and no wakers.
LEMMA InitIInv == Init => IInv
<1> SUFFICES ASSUME Init PROVE IInv
  OBVIOUS
<1> USE DEF Init
<1>1. TypeOK
  BY DEF TypeOK, NoWake
<1>2. \A t \in Thread : ~InFrame(t) /\ pc[t] # "waking"
  BY DEF InFrame
<1>3. FramesNamed /\ LinksLive /\ CursorLive /\ LinkedUnset /\ OffListIsSignalled
  BY <1>2 DEF FramesNamed, LinksLive, CursorLive, LinkedUnset, OffListIsSignalled, Linked
<1>4. HeadLive /\ LockOwner
  BY DEF HeadLive, LockOwner
<1> QED
  BY <1>1, <1>3, <1>4 DEF IInv

\* Every step keeps the types.
LEMMA TypeStep == IInv /\ [Next]_vars => TypeOK'
<1> SUFFICES ASSUME IInv, [Next]_vars PROVE TypeOK'
  OBVIOUS
<1> USE HashAssumption, NullAssumption
<1>t. TypeOK
  BY DEF IInv
<1>1. ASSUME NEW t \in Thread, NEW a \in Address, NEW v \in Value, Store(t, a, v)
      PROVE TypeOK'
  BY <1>t, <1>1 DEF TypeOK, Store, blockVars
<1>2. ASSUME NEW t \in Thread, NEW a \in Address, NEW v \in Value, NEW finite \in BOOLEAN,
             WaitEnqueue(t, a, v, finite)
      PROVE TypeOK'
  <2>1. head[Hash[a]] \in Thread \cup {NULL}
    BY <1>t DEF TypeOK
  <2>2. head[Hash[a]] # NULL => prev[head[Hash[a]]] \in Thread
    BY <2>1 DEF IInv, HeadLive, LinksLive
  <2>3. next' \in [Thread -> Thread \cup {NULL}]
    BY <1>t, <1>2, <2>1, <2>2 DEF TypeOK, WaitEnqueue, InsertedNext
  <2>4. prev' \in [Thread -> Thread \cup {NULL}]
    BY <1>t, <1>2, <2>1, <2>2 DEF TypeOK, WaitEnqueue, InsertedPrev
  <2>5. head' \in [Bucket -> Thread \cup {NULL}]
    BY <1>t, <1>2 DEF TypeOK, WaitEnqueue, InsertedHead
  <2> QED
    BY <1>t, <1>2, <2>3, <2>4, <2>5 DEF TypeOK, WaitEnqueue
<1>3. ASSUME NEW t \in Thread, WaitSignalled(t)
      PROVE TypeOK'
  BY <1>t, <1>3 DEF TypeOK, WaitSignalled, LeaveFrame
<1>4. ASSUME NEW t \in Thread, WaitTimeout(t)
      PROVE TypeOK'
  BY <1>t, <1>4 DEF TypeOK, WaitTimeout, blockVars
<1>5. ASSUME NEW w \in Thread, NEW b \in Bucket
      PROVE /\ RemovedHead(b, w) \in [Bucket -> Thread \cup {NULL}]
            /\ RemovedNext(w) \in [Thread -> Thread \cup {NULL}]
            /\ RemovedPrev(w) \in [Thread -> Thread \cup {NULL}]
  BY <1>t DEF TypeOK, RemovedHead, RemovedNext, RemovedPrev
<1>6. ASSUME NEW t \in Thread, WaitTimeoutReturn(t)
      PROVE TypeOK'
  <2>1. Hash[waitAddr[t]] \in Bucket
    BY <1>6 DEF IInv, FramesNamed, InFrame, WaitTimeoutReturn
  <2> QED
    BY <1>t, <1>5, <1>6, <2>1 DEF TypeOK, WaitTimeoutReturn, LeaveFrame
<1>7. ASSUME NEW t \in Thread, NEW a \in Address, NEW all \in BOOLEAN, WakeBegin(t, a, all)
      PROVE TypeOK'
  BY <1>t, <1>7 DEF TypeOK, WakeBegin, blockVars
<1>8. ASSUME NEW t \in Thread, WakeStep(t)
      PROVE TypeOK'
  <2> DEFINE b == Hash[wake[t].address]
             w == wake[t].cursor
  <2>0. pc[t] = "waking"
    BY <1>8 DEF WakeStep
  <2>1. b \in Bucket
    BY <2>0 DEF IInv, FramesNamed
  <2>2. w \in Thread /\ Linked(w)
    BY <2>0 DEF IInv, CursorLive
  <2>3. next[w] \in Thread
    BY <2>2 DEF IInv, LinksLive
  <2>4. Matches(t) => WakeBlock(b, w)
    BY <1>8 DEF WakeStep
  <2>5. ~Matches(t) => UNCHANGED <<head, next, prev, event>>
    BY <1>8 DEF WakeStep
  <2>6. /\ head' \in [Bucket -> Thread \cup {NULL}]
        /\ next' \in [Thread -> Thread \cup {NULL}]
        /\ prev' \in [Thread -> Thread \cup {NULL}]
        /\ event' \in [Thread -> {"none", "reset", "set"}]
    <3> HIDE DEF b, w
    <3>1. /\ RemovedHead(b, w) \in [Bucket -> Thread \cup {NULL}]
          /\ RemovedNext(w) \in [Thread -> Thread \cup {NULL}]
          /\ RemovedPrev(w) \in [Thread -> Thread \cup {NULL}]
      BY <1>5, <2>1, <2>2
    <3>2. CASE WakeBlock(b, w)
      BY <1>t, <2>2, <3>1, <3>2 DEF TypeOK, WakeBlock
    <3>3. CASE UNCHANGED <<head, next, prev, event>>
      BY <1>t, <3>3 DEF TypeOK
    <3> QED
      BY <2>4, <2>5, <3>2, <3>3
  <2>7. /\ lock' \in [Bucket -> Thread \cup {NULL}]
        /\ pc' \in [Thread -> {"idle", "waiting", "timedOut", "waking"}]
        /\ wake' \in [Thread -> [address : Address \cup {NULL}, all : BOOLEAN,
                                 cursor : Thread \cup {NULL}]]
    <3>1. \/ Release(t, b)
          \/ wake' = [wake EXCEPT ![t].cursor = next[w]] /\ UNCHANGED <<lock, pc>>
      BY <1>8 DEF WakeStep
    <3> HIDE DEF b, w
    <3>2. CASE Release(t, b)
      BY <1>t, <2>1, <3>2 DEF TypeOK, Release, NoWake
    <3>3. CASE wake' = [wake EXCEPT ![t].cursor = next[w]] /\ UNCHANGED <<lock, pc>>
      BY <1>t, <2>3, <3>3 DEF TypeOK
    <3> QED
      BY <3>1, <3>2, <3>3
  <2> QED
    BY <1>t, <1>8, <2>6, <2>7 DEF TypeOK, WakeStep
<1>9. CASE UNCHANGED vars
  BY <1>t, <1>9 DEF TypeOK, vars, blockVars
<1> QED
  BY <1>1, <1>2, <1>3, <1>4, <1>6, <1>7, <1>8, <1>9 DEF Next

-----------------------------------------------------------------------------
\* Taking a linked block off its list leaves the links between all other
\* blocks, and the heads, in order.
LEMMA UnlinkKeepsLists ==
  ASSUME TypeOK, LinksLive, HeadLive,
         NEW w \in Thread, Linked(w), BucketOf(w) \in Bucket,
         head' = RemovedHead(BucketOf(w), w),
         prev' = [RemovedPrev(w) EXCEPT ![w] = NULL],
         \A u \in Thread \ {w} : /\ next'[u] = RemovedNext(w)[u]
                                 /\ InFrame(u)' = InFrame(u)
                                 /\ waitAddr'[u] = waitAddr[u]
  PROVE  /\ \A u \in Thread : Linked(u)' <=> (Linked(u) /\ u # w)
         /\ LinksLive'
         /\ HeadLive'
<1> USE NullAssumption
<1>w. /\ next[w] \in Thread /\ prev[w] \in Thread /\ prev[w] # NULL
      /\ prev[next[w]] = w /\ next[prev[w]] = w
      /\ Linked(next[w]) /\ Linked(prev[w])
      /\ BucketOf(next[w]) = BucketOf(w) /\ BucketOf(prev[w]) = BucketOf(w)
  BY DEF LinksLive, Linked
<1>p. \A u \in Thread \ {w} :
        prev'[u] = IF next[w] # w /\ u = next[w] THEN prev[w] ELSE prev[u]
  BY <1>w DEF TypeOK, RemovedPrev
<1>n. \A u \in Thread \ {w} :
        next'[u] = IF next[w] # w /\ u = prev[w] THEN next[w] ELSE next[u]
  BY <1>w DEF TypeOK, RemovedNext
<1>1. ASSUME NEW u \in Thread PROVE Linked(u)' <=> (Linked(u) /\ u # w)
  <2>1. CASE u = w
    <3>1. prev'[w] = NULL
      BY DEF TypeOK, RemovedPrev
    <3> QED
      BY <2>1, <3>1 DEF Linked
  <2>2. CASE u # w
    <3>1. prev'[u] # NULL <=> prev[u] # NULL
      BY <1>w, <1>p, <2>2 DEF Linked
    <3> QED
      BY <2>2, <3>1 DEF Linked
  <2> QED
    BY <2>1, <2>2
<1>2. ASSUME NEW u \in Thread, Linked(u)'
      PROVE  /\ next'[u] \in Thread /\ Linked(next'[u]) /\ next'[u] # w
             /\ BucketOf(next'[u]) = BucketOf(u)
             /\ prev'[next'[u]] = u
  <2>1. Linked(u) /\ u # w
    BY <1>1, <1>2
  <2>2. /\ next[u] \in Thread /\ Linked(next[u]) /\ BucketOf(next[u]) = BucketOf(u)
        /\ prev[next[u]] = u
    BY <2>1 DEF LinksLive
  <2>3. CASE u = prev[w]
    <3>1. next[w] # w
      BY <1>w, <2>1, <2>3
    <3> QED
      BY <1>w, <1>n, <1>p, <2>1, <2>3, <3>1
  <2>4. CASE u # prev[w]
    <3>1. next[u] # w
      BY <2>2, <2>4
    <3>2. next[u] # next[w]
      BY <1>w, <2>1, <2>2
    <3> QED
      BY <1>n, <1>p, <2>1, <2>2, <2>4, <3>1, <3>2
  <2> QED
    BY <2>3, <2>4
<1>3. ASSUME NEW u \in Thread, Linked(u)'
      PROVE  /\ prev'[u] \in Thread /\ Linked(prev'[u]) /\ prev'[u] # w
             /\ BucketOf(prev'[u]) = BucketOf(u)
             /\ next'[prev'[u]] = u
  <2>1. Linked(u) /\ u # w
    BY <1>1, <1>3
  <2>2. /\ prev[u] \in Thread /\ Linked(prev[u]) /\ BucketOf(prev[u]) = BucketOf(u)
        /\ next[prev[u]] = u
    BY <2>1 DEF LinksLive
  <2>3. CASE u = next[w]
    <3>1. next[w] # w /\ prev[w] # w
      BY <1>w, <2>1, <2>3
    <3> QED
      BY <1>w, <1>n, <1>p, <2>1, <2>3, <3>1
  <2>4. CASE u # next[w]
    <3>1. prev[u] # w
      BY <2>2, <2>4
    <3>2. prev[u] # prev[w]
      BY <1>w, <2>1, <2>2
    <3> QED
      BY <1>n, <1>p, <2>1, <2>2, <2>4, <3>1, <3>2
  <2> QED
    BY <2>3, <2>4
<1>4. \A u \in Thread \ {w} : BucketOf(u)' = BucketOf(u)
  BY DEF BucketOf
<1>5. LinksLive'
  BY <1>1, <1>2, <1>3, <1>4 DEF LinksLive
<1>6. HeadLive'
  <2> SUFFICES ASSUME NEW b \in Bucket, head'[b] # NULL
               PROVE  Linked(head[b])' /\ BucketOf(head[b])' = b
    BY DEF HeadLive
  <2>1. head[b] # NULL => head[b] \in Thread /\ Linked(head[b]) /\ BucketOf(head[b]) = b
    BY DEF HeadLive, TypeOK
  <2>2. CASE b = BucketOf(w) /\ head[b] = w
    <3>1. head'[b] = next[w] /\ next[w] # w
      BY <1>w, <2>2 DEF TypeOK, RemovedHead
    <3> QED
      BY <1>w, <1>1, <1>4, <2>2, <3>1
  <2>3. CASE b = BucketOf(w) /\ head[b] # w
    <3>1. head'[b] = head[b]
      BY <1>w, <2>3 DEF TypeOK, RemovedHead
    <3> QED
      BY <1>1, <1>4, <2>1, <2>3, <3>1
  <2>4. CASE b # BucketOf(w)
    <3>1. head'[b] = head[b]
      BY <1>w, <2>4 DEF TypeOK, RemovedHead
    <3> QED
      BY <1>1, <1>4, <2>1, <2>4, <3>1
  <2> QED
    BY <2>2, <2>3, <2>4
<1> QED
  BY <1>1, <1>5, <1>6

-----------------------------------------------------------------------------
\* What the steps keep besides the types.
ListInv ==
  /\ FramesNamed
  /\ LinksLive
  /\ HeadLive
  /\ CursorLive
  /\ LinkedUnset
  /\ OffListIsSignalled
  /\ LockOwner

\* Steps that leave every list alone.
LEMMA QuietSteps ==
  ASSUME IInv, TypeOK', NEW t \in Thread,
         \/ \E a \in Address, v \in Value : Store(t, a, v)
         \/ WaitTimeout(t)
         \/ \E a \in Address, all \in BOOLEAN : WakeBegin(t, a, all)
  PROVE  ListInv'
<1>t. TypeOK
  BY DEF IInv
<1>1. UNCHANGED <<head, waitAddr, next, prev, event>>
  BY DEF Store, WaitTimeout, WakeBegin, vars, blockVars
<1>2. \A u \in Thread : InFrame(u)' <=> InFrame(u)
  BY <1>t DEF Store, WaitTimeout, WakeBegin, vars, InFrame, TypeOK
<1>3. \A u \in Thread : (Linked(u)' <=> Linked(u)) /\ BucketOf(u)' = BucketOf(u)
  BY <1>1, <1>2 DEF Linked, BucketOf
<1>4. LinksLive' /\ LinkedUnset' /\ OffListIsSignalled'
  BY <1>1, <1>2, <1>3 DEF IInv, LinksLive, LinkedUnset, OffListIsSignalled
<1>5. HeadLive'
  <2>1. \A b \in Bucket : head[b] # NULL => head[b] \in Thread
    BY <1>t DEF TypeOK
  <2> QED
    BY <1>1, <1>3, <2>1 DEF IInv, HeadLive
<1>6. CASE \E a \in Address, all \in BOOLEAN : WakeBegin(t, a, all)
  <2> PICK a \in Address, all \in BOOLEAN : WakeBegin(t, a, all)
    BY <1>6
  <2> DEFINE b == Hash[a]
  <2>1. b \in Bucket /\ lock[b] = NULL /\ head[b] \in Thread
    BY <1>t, HashAssumption DEF WakeBegin, TypeOK
  <2>2. Linked(head[b]) /\ BucketOf(head[b]) = b
    BY <2>1, NullAssumption DEF IInv, HeadLive
  <2>3. /\ wake'[t].address = a /\ wake'[t].cursor = head[b]
        /\ pc'[t] = "waking" /\ lock'[b] = t
        /\ \A u \in Thread \ {t} : wake'[u] = wake[u] /\ pc'[u] = pc[u]
        /\ \A c \in Bucket \ {b} : lock'[c] = lock[c]
    BY <1>t, <2>1 DEF WakeBegin, TypeOK
  <2>4. \A u \in Thread : pc[u] = "waking" => Hash[wake[u].address] # b
    BY <2>1, NullAssumption DEF IInv, CursorLive
  <2>5. FramesNamed'
    BY <1>1, <1>2, <2>3 DEF IInv, FramesNamed
  <2> HIDE DEF b
  <2>6. CursorLive'
    <3> SUFFICES ASSUME NEW u \in Thread, pc'[u] = "waking"
                 PROVE  /\ lock'[Hash[wake'[u].address]] = u
                        /\ wake'[u].cursor \in Thread
                        /\ Linked(wake[u].cursor)'
                        /\ BucketOf(wake[u].cursor)' = Hash[wake'[u].address]
      BY DEF CursorLive
    <3>1. CASE u = t
      BY <1>3, <2>1, <2>2, <2>3, <3>1 DEF b
    <3>2. CASE u # t
      <4>1. pc[u] = "waking" /\ wake'[u] = wake[u]
        BY <2>3, <3>2
      <4>2. Hash[wake[u].address] \in Bucket
        BY <4>1, HashAssumption DEF IInv, FramesNamed
      <4> QED
        BY <1>3, <2>3, <2>4, <4>1, <4>2 DEF IInv, CursorLive
    <3> QED
      BY <3>1, <3>2
  <2>7. LockOwner'
    <3> SUFFICES ASSUME NEW c \in Bucket, lock'[c] # NULL
                 PROVE  pc'[lock'[c]] = "waking" /\ Hash[wake'[lock'[c]].address] = c
      BY DEF LockOwner
    <3>1. CASE c = b
      BY <2>3, <3>1 DEF b
    <3>2. CASE c # b
      <4>1. lock[c] = lock'[c] /\ lock[c] \in Thread
        BY <1>t, <2>3, <3>2 DEF TypeOK
      <4>2. pc[lock[c]] = "waking" /\ Hash[wake[lock[c]].address] = c
        BY <4>1 DEF IInv, LockOwner
      <4>3. pc[t] = "idle"
        BY DEF WakeBegin
      <4> QED
        BY <2>3, <4>1, <4>2, <4>3
    <3> QED
      BY <3>1, <3>2
  <2> QED
    BY <1>4, <1>5, <2>5, <2>6, <2>7 DEF ListInv
<1>7. CASE ~\E a \in Address, all \in BOOLEAN : WakeBegin(t, a, all)
  <2>1. UNCHANGED <<lock, wake>>
    BY <1>7 DEF Store, WaitTimeout, vars
  <2>2. \A u \in Thread : pc'[u] = "waking" <=> pc[u] = "waking"
    BY <1>t, <1>7 DEF Store, WaitTimeout, vars, TypeOK
  <2>3. FramesNamed'
    BY <1>1, <1>2, <2>1, <2>2 DEF IInv, FramesNamed
  <2>4. CursorLive'
    BY <1>1, <1>3, <2>1, <2>2 DEF IInv, CursorLive
  <2>5. LockOwner'
    <3>1. \A b \in Bucket : lock[b] # NULL => lock[b] \in Thread
      BY <1>t DEF TypeOK
    <3> QED
      BY <2>1, <2>2, <3>1 DEF IInv, LockOwner
  <2> QED
    BY <1>4, <1>5, <2>3, <2>4, <2>5 DEF ListInv
<1> QED
  BY <1>6, <1>7

\* A new block becomes the last of its list.
LEMMA EnqueueStep ==
  ASSUME IInv, TypeOK', NEW t \in Thread, NEW a \in Address, NEW v \in Value,
         NEW finite \in BOOLEAN, WaitEnqueue(t, a, v, finite)
  PROVE  ListInv'
<1> USE NullAssumption
<1> DEFINE b == Hash[a]
           h == head[b]
<1>t. TypeOK
  BY DEF IInv
<1>b. b \in Bucket /\ lock[b] = NULL /\ pc[t] = "idle"
  BY HashAssumption DEF WaitEnqueue
<1>i. ~Linked(t)
  BY <1>b DEF Linked, InFrame
<1>h. h # NULL => /\ h \in Thread /\ Linked(h) /\ BucketOf(h) = b /\ h # t
                  /\ prev[h] \in Thread /\ Linked(prev[h]) /\ BucketOf(prev[h]) = b
                  /\ prev[h] # t /\ next[prev[h]] = h
  BY <1>t, <1>b, <1>i DEF IInv, HeadLive, LinksLive, TypeOK
<1>1. /\ waitAddr'[t] = a /\ pc'[t] = "waiting" /\ event'[t] = "reset"
      /\ UNCHANGED <<lock, wake>>
      /\ \A u \in Thread \ {t} : /\ waitAddr'[u] = waitAddr[u]
                                 /\ pc'[u] = pc[u]
                                 /\ event'[u] = event[u]
  BY <1>t DEF WaitEnqueue, TypeOK
<1>n. \A u \in Thread :
        next'[u] = IF u = t THEN IF h = NULL THEN t ELSE h
                   ELSE IF h # NULL /\ u = prev[h] THEN t
                   ELSE next[u]
  BY <1>t, <1>h DEF WaitEnqueue, InsertedNext, TypeOK
<1>p. \A u \in Thread :
        prev'[u] = IF u = t THEN IF h = NULL THEN t ELSE prev[h]
                   ELSE IF u = h THEN t
                   ELSE prev[u]
  BY <1>t, <1>h DEF WaitEnqueue, InsertedPrev, TypeOK
<1>d. \A c \in Bucket : head'[c] = IF c = b /\ h = NULL THEN t ELSE head[c]
  BY <1>t DEF WaitEnqueue, InsertedHead, TypeOK
<1> HIDE DEF b, h
<1>2. \A u \in Thread \ {t} : /\ InFrame(u)' <=> InFrame(u)
                             /\ BucketOf(u)' = BucketOf(u)
  BY <1>1 DEF InFrame, BucketOf
<1>3. Linked(t)' /\ BucketOf(t)' = b /\ InFrame(t)'
  BY <1>1, <1>h, <1>p DEF Linked, InFrame, BucketOf, b
<1>4. \A u \in Thread \ {t} : Linked(u)' <=> Linked(u)
  BY <1>2, <1>p, <1>h DEF Linked
<1>5. FramesNamed'
  BY <1>1, <1>2, <1>b DEF IInv, FramesNamed
<1>6. LinksLive'
  <2> SUFFICES ASSUME NEW u \in Thread, Linked(u)'
               PROVE  /\ next'[u] \in Thread /\ Linked(next[u])' /\ BucketOf(next[u])' = BucketOf(u)'
                      /\ prev'[u] \in Thread /\ Linked(prev[u])' /\ BucketOf(prev[u])' = BucketOf(u)'
                      /\ prev'[next'[u]] = u /\ next'[prev'[u]] = u
    BY DEF LinksLive
  <2>1. CASE u = t
    BY <1>h, <1>n, <1>p, <1>3, <1>4, <1>2, <2>1
  <2>2. CASE u # t
    <3>1. /\ next[u] \in Thread /\ Linked(next[u]) /\ BucketOf(next[u]) = BucketOf(u)
          /\ prev[u] \in Thread /\ Linked(prev[u]) /\ BucketOf(prev[u]) = BucketOf(u)
          /\ prev[next[u]] = u /\ next[prev[u]] = u
          /\ next[u] # t /\ prev[u] # t
      BY <1>4, <1>i, <2>2 DEF IInv, LinksLive
    <3>2. /\ next'[u] \in Thread /\ Linked(next[u])' /\ BucketOf(next[u])' = BucketOf(u)'
          /\ prev'[next'[u]] = u
      BY <1>h, <1>n, <1>p, <1>2, <1>3, <1>4, <2>2, <3>1
    <3>3. /\ prev'[u] \in Thread /\ Linked(prev[u])' /\ BucketOf(prev[u])' = BucketOf(u)'
          /\ next'[prev'[u]] = u
      BY <1>h, <1>n, <1>p, <1>2, <1>3, <1>4, <2>2, <3>1
    <3> QED
      BY <3>2, <3>3
  <2> QED
    BY <2>1, <2>2
<1>7. HeadLive'
  <2> SUFFICES ASSUME NEW c \in Bucket, head'[c] # NULL
               PROVE  Linked(head[c])' /\ BucketOf(head[c])' = c
    BY DEF HeadLive
  <2>1. CASE c = b /\ h = NULL
    BY <1>d, <1>3, <2>1
  <2>2. CASE ~(c = b /\ h = NULL)
    <3>1. head'[c] = head[c] /\ head[c] \in Thread
      BY <1>t, <1>d, <2>2 DEF TypeOK
    <3>2. Linked(head[c]) /\ BucketOf(head[c]) = c
      BY <3>1 DEF IInv, HeadLive
    <3> QED
      BY <1>2, <1>4, <1>i, <3>1, <3>2
  <2> QED
    BY <2>1, <2>2
<1>8. CursorLive'
  BY <1>1, <1>2, <1>4, <1>i DEF IInv, CursorLive
<1>9. LinkedUnset' /\ OffListIsSignalled'
  BY <1>1, <1>2, <1>3, <1>4 DEF IInv, LinkedUnset, OffListIsSignalled
<1>10. LockOwner'
  <2>1. \A c \in Bucket : lock[c] # NULL => lock[c] \in Thread \ {t}
    BY <1>t, <1>b DEF IInv, LockOwner, TypeOK
  <2> QED
    BY <1>1, <2>1 DEF IInv, LockOwner
<1> QED
  BY <1>5, <1>6, <1>7, <1>8, <1>9, <1>10 DEF ListInv

\* A signalled waiter leaves; its block is on no list.
LEMMA SignalledStep ==
  ASSUME IInv, TypeOK', NEW t \in Thread, WaitSignalled(t)
  PROVE  ListInv'
<1> USE NullAssumption
<1>t. TypeOK
  BY DEF IInv
<1>i. ~Linked(t)
  BY DEF IInv, LinkedUnset, WaitSignalled
<1>1. /\ UNCHANGED <<lock, head, wake>>
      /\ pc[t] = "waiting" /\ pc'[t] = "idle"
      /\ \A u \in Thread \ {t} : /\ waitAddr'[u] = waitAddr[u] /\ pc'[u] = pc[u]
                                 /\ event'[u] = event[u]
                                 /\ next'[u] = next[u] /\ prev'[u] = prev[u]
  BY <1>t DEF WaitSignalled, LeaveFrame, TypeOK
<1>2. /\ ~InFrame(t)' /\ ~Linked(t)'
      /\ \A u \in Thread \ {t} : /\ InFrame(u)' <=> InFrame(u)
                                 /\ Linked(u)' <=> Linked(u)
                                 /\ BucketOf(u)' = BucketOf(u)
  BY <1>1 DEF InFrame, Linked, BucketOf
<1>3. FramesNamed'
  BY <1>1, <1>2 DEF IInv, FramesNamed
<1>4. LinksLive'
  <2> SUFFICES ASSUME NEW u \in Thread, Linked(u)'
               PROVE  /\ next'[u] \in Thread /\ Linked(next[u])' /\ BucketOf(next[u])' = BucketOf(u)'
                      /\ prev'[u] \in Thread /\ Linked(prev[u])' /\ BucketOf(prev[u])' = BucketOf(u)'
                      /\ prev'[next'[u]] = u /\ next'[prev'[u]] = u
    BY DEF LinksLive
  <2>1. u # t /\ Linked(u)
    BY <1>2
  <2>2. /\ next[u] \in Thread \ {t} /\ Linked(next[u]) /\ BucketOf(next[u]) = BucketOf(u)
        /\ prev[u] \in Thread \ {t} /\ Linked(prev[u]) /\ BucketOf(prev[u]) = BucketOf(u)
        /\ prev[next[u]] = u /\ next[prev[u]] = u
    BY <1>i, <2>1 DEF IInv, LinksLive
  <2> QED
    BY <1>1, <1>2, <2>1, <2>2
<1>5. HeadLive'
  <2>1. \A c \in Bucket : head[c] # NULL => head[c] \in Thread \ {t}
    BY <1>t, <1>i DEF IInv, HeadLive, TypeOK
  <2> QED
    BY <1>1, <1>2, <2>1 DEF IInv, HeadLive
<1>6. CursorLive'
  BY <1>1, <1>2, <1>i DEF IInv, CursorLive
<1>7. LinkedUnset' /\ OffListIsSignalled'
  BY <1>1, <1>2 DEF IInv, LinkedUnset, OffListIsSignalled
<1>8. LockOwner'
  <2>1. \A c \in Bucket : lock[c] # NULL => lock[c] \in Thread \ {t}
    BY <1>t, <1>1 DEF IInv, LockOwner, TypeOK
  <2> QED
    BY <1>1, <2>1 DEF IInv, LockOwner
<1> QED
  BY <1>3, <1>4, <1>5, <1>6, <1>7, <1>8 DEF ListInv

\* A thread that timed out leaves; it unlinks its block unless a waker did.
LEMMA TimeoutReturnStep ==
  ASSUME IInv, TypeOK', NEW t \in Thread, WaitTimeoutReturn(t)
  PROVE  ListInv'
<1> USE NullAssumption
<1> DEFINE b == BucketOf(t)
<1>t. TypeOK
  BY DEF IInv
<1>b. b \in Bucket /\ lock[b] = NULL /\ pc[t] = "timedOut" /\ InFrame(t)
  BY HashAssumption DEF WaitTimeoutReturn, IInv, FramesNamed, InFrame, BucketOf
<1>1. /\ UNCHANGED <<lock, wake>>
      /\ pc'[t] = "idle"
      /\ \A u \in Thread \ {t} : /\ waitAddr'[u] = waitAddr[u]
                                 /\ pc'[u] = pc[u]
                                 /\ event'[u] = event[u]
  BY <1>t DEF WaitTimeoutReturn, LeaveFrame, TypeOK
<1>2. /\ ~InFrame(t)' /\ ~Linked(t)'
      /\ \A u \in Thread \ {t} : /\ InFrame(u)' <=> InFrame(u)
                                 /\ BucketOf(u)' = BucketOf(u)
  BY <1>1 DEF InFrame, Linked, BucketOf
<1>3. /\ \A u \in Thread : Linked(u)' <=> (Linked(u) /\ u # t)
      /\ LinksLive' /\ HeadLive'
  <2>1. CASE Linked(t)
    <3>1. /\ head' = RemovedHead(BucketOf(t), t)
          /\ prev' = [RemovedPrev(t) EXCEPT ![t] = NULL]
          /\ next' = [RemovedNext(t) EXCEPT ![t] = NULL]
      BY DEF WaitTimeoutReturn, BucketOf
    <3>2. RemovedNext(t) \in [Thread -> Thread \cup {NULL}]
      BY <1>t, <2>1 DEF RemovedNext, TypeOK, IInv, LinksLive
    <3>3. \A u \in Thread \ {t} : /\ next'[u] = RemovedNext(t)[u]
                                 /\ InFrame(u)' = InFrame(u)
                                 /\ waitAddr'[u] = waitAddr[u]
      BY <1>1, <3>1, <3>2 DEF InFrame
    <3>4. LinksLive /\ HeadLive
      BY DEF IInv
    <3> QED
      BY <1>t, <1>b, <2>1, <3>1, <3>3, <3>4, UnlinkKeepsLists
  <2>2. CASE ~Linked(t)
    <3>1. prev[t] = NULL
      BY <1>b, <2>2 DEF Linked
    <3>2. /\ head' = head
          /\ \A u \in Thread \ {t} : next'[u] = next[u] /\ prev'[u] = prev[u]
      BY <1>t, <3>1 DEF WaitTimeoutReturn, RemovedHead, RemovedNext, RemovedPrev, TypeOK
    <3>3. \A u \in Thread \ {t} : Linked(u)' <=> Linked(u)
      BY <1>2, <3>2 DEF Linked
    <3>4. \A u \in Thread : Linked(u) =>
            /\ u # t
            /\ next[u] \in Thread \ {t} /\ Linked(next[u]) /\ BucketOf(next[u]) = BucketOf(u)
            /\ prev[u] \in Thread \ {t} /\ Linked(prev[u]) /\ BucketOf(prev[u]) = BucketOf(u)
            /\ prev[next[u]] = u /\ next[prev[u]] = u
      BY <2>2 DEF IInv, LinksLive
    <3>5. LinksLive'
      <4> SUFFICES ASSUME NEW u \in Thread, Linked(u)'
                   PROVE  /\ next'[u] \in Thread /\ Linked(next[u])' /\ BucketOf(next[u])' = BucketOf(u)'
                          /\ prev'[u] \in Thread /\ Linked(prev[u])' /\ BucketOf(prev[u])' = BucketOf(u)'
                          /\ prev'[next'[u]] = u /\ next'[prev'[u]] = u
        BY DEF LinksLive
      <4>1. u # t /\ Linked(u)
        BY <1>2, <3>3
      <4> QED
        BY <1>2, <3>2, <3>3, <3>4, <4>1
    <3>6. HeadLive'
      <4>1. \A c \in Bucket : head[c] # NULL => head[c] \in Thread \ {t}
        BY <1>t, <2>2 DEF IInv, HeadLive, TypeOK
      <4> QED
        BY <1>2, <3>2, <3>3, <4>1 DEF IInv, HeadLive
    <3> QED
      BY <1>2, <2>2, <3>3, <3>5, <3>6
  <2> QED
    BY <2>1, <2>2
<1>4. FramesNamed'
  BY <1>1, <1>2 DEF IInv, FramesNamed
<1>5. CursorLive'
  <2> SUFFICES ASSUME NEW u \in Thread, pc'[u] = "waking"
               PROVE  /\ lock'[Hash[wake'[u].address]] = u
                      /\ wake'[u].cursor \in Thread
                      /\ Linked(wake[u].cursor)'
                      /\ BucketOf(wake[u].cursor)' = Hash[wake'[u].address]
    BY DEF CursorLive
  <2>1. pc[u] = "waking"
    BY <1>1
  <2>2. /\ lock[Hash[wake[u].address]] = u /\ wake[u].cursor \in Thread
        /\ Linked(wake[u].cursor) /\ BucketOf(wake[u].cursor) = Hash[wake[u].address]
    BY <2>1 DEF IInv, CursorLive
  <2>3. wake[u].cursor # t
    BY <1>b, <2>2
  <2> QED
    BY <1>1, <1>2, <1>3, <2>2, <2>3
<1>6. LinkedUnset' /\ OffListIsSignalled'
  BY <1>1, <1>2, <1>3 DEF IInv, LinkedUnset, OffListIsSignalled
<1>7. LockOwner'
  <2>1. \A c \in Bucket : lock[c] # NULL => lock[c] \in Thread \ {t}
    BY <1>t, <1>b DEF IInv, LockOwner, TypeOK
  <2> QED
    BY <1>1, <2>1 DEF IInv, LockOwner
<1> QED
  BY <1>3, <1>4, <1>5, <1>6, <1>7 DEF ListInv

\* One round of a traversal: the cursor stays on the list or the lock goes.
LEMMA WakeRoundStep ==
  ASSUME IInv, TypeOK', NEW t \in Thread, WakeStep(t)
  PROVE  ListInv'
<1> USE NullAssumption
<1> DEFINE b == Hash[wake[t].address]
           w == wake[t].cursor
<1>t. TypeOK
  BY DEF IInv
<1>b. /\ b \in Bucket /\ pc[t] = "waking" /\ lock[b] = t
      /\ w \in Thread /\ Linked(w) /\ BucketOf(w) = b /\ w # t
  BY HashAssumption DEF WakeStep, IInv, FramesNamed, CursorLive, Linked, InFrame
<1>w. /\ next[w] \in Thread /\ Linked(next[w]) /\ BucketOf(next[w]) = b
  BY <1>b DEF IInv, LinksLive
<1>1. /\ waitAddr' = waitAddr
      /\ \/ Matches(t) /\ WakeBlock(b, w)
         \/ ~Matches(t) /\ UNCHANGED <<head, next, prev, event>>
      /\ \/ Release(t, b)
         \/ /\ wake' = [wake EXCEPT ![t].cursor = next[w]] /\ UNCHANGED <<lock, pc>>
            /\ head'[b] # NULL /\ next[w] # head'[b]
  BY DEF WakeStep, WakeEnds
<1> HIDE DEF b, w
<1>2. \A u \in Thread : /\ InFrame(u)' <=> InFrame(u)
                        /\ BucketOf(u)' = BucketOf(u)
  BY <1>t, <1>1, <1>b DEF Release, InFrame, BucketOf, TypeOK
<1>3. /\ LinksLive' /\ HeadLive'
      /\ \A u \in Thread : Linked(u)' <=> (Linked(u) /\ ~(Matches(t) /\ u = w))
  <2>1. CASE Matches(t)
    <3>1. \A u \in Thread \ {w} : /\ next'[u] = RemovedNext(w)[u]
                                 /\ InFrame(u)' = InFrame(u)
                                 /\ waitAddr'[u] = waitAddr[u]
      BY <1>1, <1>2, <2>1 DEF WakeBlock, InFrame
    <3>2. LinksLive /\ HeadLive
      BY DEF IInv
    <3> QED
      BY <1>t, <1>b, <1>1, <2>1, <3>1, <3>2, UnlinkKeepsLists DEF WakeBlock
  <2>2. CASE ~Matches(t)
    <3>1. \A u \in Thread : Linked(u)' <=> Linked(u)
      BY <1>1, <1>2, <2>2 DEF Linked
    <3>2. LinksLive'
      BY <1>1, <1>2, <2>2, <3>1 DEF IInv, LinksLive
    <3>3. HeadLive'
      <4>1. \A c \in Bucket : head[c] # NULL => head[c] \in Thread
        BY <1>t DEF TypeOK
      <4> QED
        BY <1>1, <1>2, <2>2, <3>1, <4>1 DEF IInv, HeadLive
    <3> QED
      BY <2>2, <3>1, <3>2, <3>3
  <2> QED
    BY <2>1, <2>2
<1>4. \A u \in Thread : event'[u] = IF Matches(t) /\ u = w THEN "set" ELSE event[u]
  BY <1>t, <1>1, <1>b DEF WakeBlock, TypeOK
<1>5. LinkedUnset' /\ OffListIsSignalled'
  BY <1>2, <1>3, <1>4 DEF IInv, LinkedUnset, OffListIsSignalled
<1>6. \A u \in Thread \ {t} : pc[u] = "waking" =>
        /\ Hash[wake[u].address] \in Bucket \ {b}
        /\ wake[u].cursor # w
  BY <1>b, HashAssumption DEF IInv, CursorLive, FramesNamed
<1>7. \A u \in Thread \ {t} : wake'[u] = wake[u] /\ pc'[u] = pc[u]
  BY <1>t, <1>1 DEF Release, TypeOK
<1>8. \A c \in Bucket \ {b} : lock'[c] = lock[c]
  BY <1>t, <1>1 DEF Release, TypeOK
<1>9. \A u \in Thread \ {t} : pc'[u] = "waking" =>
        /\ lock'[Hash[wake'[u].address]] = u
        /\ wake'[u].cursor \in Thread
        /\ Linked(wake[u].cursor)'
        /\ BucketOf(wake[u].cursor)' = Hash[wake'[u].address]
  <2> SUFFICES ASSUME NEW u \in Thread \ {t}, pc'[u] = "waking"
               PROVE  /\ lock'[Hash[wake'[u].address]] = u
                      /\ wake'[u].cursor \in Thread
                      /\ Linked(wake[u].cursor)'
                      /\ BucketOf(wake[u].cursor)' = Hash[wake'[u].address]
    OBVIOUS
  <2>1. /\ lock[Hash[wake[u].address]] = u /\ wake[u].cursor \in Thread
        /\ Linked(wake[u].cursor) /\ BucketOf(wake[u].cursor) = Hash[wake[u].address]
    BY <1>7 DEF IInv, CursorLive
  <2> QED
    BY <1>2, <1>3, <1>6, <1>7, <1>8, <2>1
<1>10. \A c \in Bucket \ {b} : lock[c] # NULL => lock[c] \in Thread \ {t}
  BY <1>t, <1>b DEF IInv, LockOwner, TypeOK, b
<1>11. CASE Release(t, b)
  <2>1. lock'[b] = NULL /\ pc'[t] = "idle"
    BY <1>t, <1>b, <1>11 DEF Release, TypeOK
  <2>2. FramesNamed'
    BY <1>1, <1>2, <1>7, <2>1 DEF IInv, FramesNamed
  <2>3. CursorLive'
    BY <1>9, <2>1 DEF CursorLive
  <2>4. LockOwner'
    BY <1>7, <1>8, <1>10, <2>1 DEF IInv, LockOwner
  <2> QED
    BY <1>3, <1>5, <2>2, <2>3, <2>4 DEF ListInv
<1>12. CASE ~Release(t, b)
  <2>1. /\ wake'[t].cursor = next[w] /\ wake'[t].address = wake[t].address
        /\ lock' = lock /\ pc' = pc
        /\ head'[b] # NULL /\ next[w] # head'[b]
    BY <1>t, <1>1, <1>12 DEF TypeOK
  <2>2. FramesNamed'
    BY <1>1, <1>2, <1>7, <2>1 DEF IInv, FramesNamed
  <2>3. ~(Matches(t) /\ next[w] = w)
    <3> SUFFICES ASSUME Matches(t), next[w] = w PROVE FALSE
      OBVIOUS
    <3>1. head'[b] = NULL
      BY <1>t, <1>b, <1>1 DEF WakeBlock, RemovedHead, Linked, TypeOK
    <3> QED
      BY <2>1, <3>1
  <2>4. PICK n \in Thread : n = next[w]
    BY <1>w
  <2>5. Linked(n)' /\ BucketOf(n)' = b
    BY <1>2, <1>3, <1>w, <2>3, <2>4
  <2>6. wake'[t].cursor = n /\ Hash[wake'[t].address] = b /\ lock'[b] = t
    BY <1>b, <2>1, <2>4 DEF b
  <2>7. CursorLive'
    BY <1>9, <2>5, <2>6 DEF CursorLive
  <2>8. LockOwner'
    BY <1>7, <1>10, <1>b, <2>1 DEF IInv, LockOwner, b
  <2> QED
    BY <1>3, <1>5, <2>2, <2>7, <2>8 DEF ListInv
<1> QED
  BY <1>11, <1>12

-----------------------------------------------------------------------------
LEMMA StepIInv == IInv /\ [Next]_vars => IInv'
<1> SUFFICES ASSUME IInv, [Next]_vars PROVE IInv'
  OBVIOUS
<1>1. TypeOK'
  BY TypeStep
<1>2. ListInv'
  <2>1. CASE Next
    BY <1>1, <2>1, QuietSteps, EnqueueStep, SignalledStep, TimeoutReturnStep, WakeRoundStep
    DEF Next
  <2>2. CASE UNCHANGED vars
    BY <2>2 DEF IInv, ListInv, TypeOK, FramesNamed, LinksLive, HeadLive, CursorLive, LinkedUnset,
                OffListIsSignalled, LockOwner, Linked, InFrame, BucketOf, vars, blockVars
  <2> QED
    BY <2>1, <2>2
<1> QED
  BY <1>1, <1>2 DEF IInv, ListInv

\* The inductive invariant holds in every reachable state.
THEOREM Invariance == Spec => []IInv
  BY InitIInv, StepIInv, PTL DEF Spec

\* Every variable keeps its type.
THEOREM TypeCorrect == Spec => []TypeOK
<1>1. IInv => TypeOK
  BY DEF IInv
<1> QED
  BY <1>1, Invariance, PTL

\* No wait and no wake follows a pointer into a stack frame that has been left,
\* and no wake sets a closed event (rtlwoa.c:278-306).
THEOREM MemorySafety == Spec => []MemorySafe
<1>1. IInv => MemorySafe
  BY DEF IInv, MemorySafe, LinkedUnset
<1> QED
  BY <1>1, Invariance, PTL

\* A waiter no waker can find any more has been signalled.
THEOREM NoStranding == Spec => []OffListIsSignalled
<1>1. IInv => OffListIsSignalled
  BY DEF IInv
<1> QED
  BY <1>1, Invariance, PTL

\* A bucket's lock is held only by a thread that is in a wake of that bucket.
THEOREM LockOwnership == Spec => []LockOwner
<1>1. IInv => LockOwner
  BY DEF IInv
<1> QED
  BY <1>1, Invariance, PTL

-----------------------------------------------------------------------------
(* Walks and filters of sequences *)

\* A set of numbers that has 0 and the successor of each member has them all.
LEMMA Numbers ==
  ASSUME NEW T \in SUBSET Nat, 0 \in T, \A n \in T : n + 1 \in T
  PROVE  T = Nat
<1> DEFINE R == OpToRel(<, Nat)
           M == Nat \ T
<1> SUFFICES ASSUME M # {} PROVE FALSE
  OBVIOUS
<1>1. IsWellFoundedOn(R, Nat)
  BY NatLessThanWellFounded
<1>2. \A x, y \in Nat : x < y => <<x, y>> \in R
  BY DEF OpToRel
<1> HIDE DEF R
<1>3. PICK x \in M : \A y \in M : ~ (<<y, x>> \in R)
  BY <1>1, WFMin
<1>4. \A y \in M : ~(y < x)
  BY <1>2, <1>3
<1>5. x # 0 /\ x \in Nat /\ x \notin T
  BY <1>3
<1>6. x - 1 \in Nat /\ x - 1 < x /\ (x - 1) + 1 = x
  BY <1>5
<1>7. x - 1 \in T
  BY <1>4, <1>6
<1> QED
  BY <1>5, <1>6, <1>7

\* A sequence that follows the links is what the walk finds.
LEMMA WalkFinds ==
  ASSUME NEW S, NEW s \in Seq(S), NEW first, NEW nx,
         Len(s) > 0 => s[1] = first,
         \A i \in 1 .. Len(s) - 1 : s[i + 1] = nx[s[i]]
  PROVE  WalkFrom(first, nx, Len(s)) = s
<1> DEFINE n == Len(s)
           Eq(at) == at = [i \in 1 .. n |-> IF i = 1 THEN first ELSE nx[at[i - 1]]]
           w == CHOOSE at : Eq(at)
<1>1. WalkFrom(first, nx, n) = w
  BY DEF WalkFrom
<1>2. Eq(s)
  OBVIOUS
<1>3. Eq(w)
  BY <1>2
<1> HIDE DEF w
<1> DEFINE T == {m \in Nat : m \in 1 .. n => w[m] = s[m]}
<1>4. 0 \in T
  OBVIOUS
<1>5. \A m \in T : m + 1 \in T
  BY <1>2, <1>3
<1>6. T = Nat
  BY <1>4, <1>5, Numbers
<1>7. \A m \in 1 .. n : w[m] = s[m]
  BY <1>6
<1>8. w = s
  BY <1>2, <1>3, <1>7
<1> QED
  BY <1>1, <1>8

\* The number of elements of a sequence that names each once.
LEMMA CountOnce ==
  ASSUME NEW S, NEW s \in Seq(S),
         \A i, j \in 1 .. Len(s) : s[i] = s[j] => i = j,
         \A x \in S : \E i \in 1 .. Len(s) : s[i] = x
  PROVE  IsFiniteSet(S) /\ Cardinality(S) = Len(s)
<1> DEFINE n == Len(s)
<1>1. s \in [1 .. n -> S]
  OBVIOUS
<1>0. n \in Nat
  OBVIOUS
<1>3. \A i, j \in 1 .. n : s[i] = s[j] => i = j
  OBVIOUS
<1>4. \A x \in S : \E i \in 1 .. n : s[i] = x
  OBVIOUS
<1> HIDE DEF n
<1>2. IsFiniteSet(1 .. n) /\ Cardinality(1 .. n) = n
  <2>1. 1 \in Int /\ n \in Int
    BY <1>0
  <2>2. IsFiniteSet(1 .. n) /\ Cardinality(1 .. n) = IF 1 > n THEN 0 ELSE n - 1 + 1
    BY <2>1, FS_Interval
  <2> QED
    BY <1>0, <2>2
<1>5. s \in Bijection(1 .. n, S)
  BY <1>1, <1>3, <1>4 DEF Bijection, Injection, Surjection, IsInjective
<1>6. ExistsBijection(1 .. n, S)
  BY <1>5 DEF ExistsBijection
<1>7. IsFiniteSet(S) /\ Cardinality(S) = Cardinality(1 .. n)
  BY <1>2, <1>6, FS_Bijection
<1> QED
  BY <1>2, <1>7 DEF n

-----------------------------------------------------------------------------
\* What the function in Among satisfies.
Chooses(g, s, S) ==
  g = [i \in 0 .. Len(s) |-> IF i = 0 THEN <<>>
                             ELSE IF s[i] \in S THEN Append(g[i - 1], s[i])
                             ELSE g[i - 1]]

Chosen(s, S) == {s[j] : j \in 1 .. Len(s)} \cap S

\* Such a function exists, and what it has chosen are elements of s.
LEMMA Chooser ==
  ASSUME NEW U, NEW s \in Seq(U), NEW S
  PROVE  \E g : /\ Chooses(g, s, S) /\ Among(s, S) = g[Len(s)]
                /\ \A i \in 0 .. Len(s) : g[i] \in Seq(Chosen(s, S))
<1> DEFINE n == Len(s)
           Up(g, m) == g = [i \in 0 .. m |-> IF i = 0 THEN <<>>
                                             ELSE IF s[i] \in S THEN Append(g[i - 1], s[i])
                                             ELSE g[i - 1]]
           T == {m \in Nat : m <= n => \E g : Up(g, m)}
<1>1. 0 \in T
  <2> DEFINE g == [i \in 0 .. 0 |-> <<>>]
  <2>1. Up(g, 0)
    OBVIOUS
  <2> QED
    BY <2>1
<1>2. ASSUME NEW m \in Nat, m + 1 <= n, NEW g, Up(g, m) PROVE \E h : Up(h, m + 1)
  <2> DEFINE h == [i \in 0 .. m + 1 |-> IF i <= m THEN g[i]
                                        ELSE IF s[i] \in S THEN Append(g[m], s[i])
                                        ELSE g[m]]
  <2>2. \A i \in 0 .. m : g[i] = IF i = 0 THEN <<>>
                                 ELSE IF s[i] \in S THEN Append(g[i - 1], s[i])
                                 ELSE g[i - 1]
    BY <1>2
  <2>0. m \in Nat /\ m + 1 \in 0 .. m + 1 /\ ~(m + 1 <= m) /\ \A i \in 0 .. m : i \in 0 .. m + 1 /\ i <= m
    OBVIOUS
  <2>3. \A i \in 0 .. m : h[i] = g[i]
    BY <2>0
  <2>4. h[m + 1] = IF s[m + 1] \in S THEN Append(g[m], s[m + 1]) ELSE g[m]
    BY <2>0
  <2>5. h = [i \in 0 .. m + 1 |-> h[i]]
    OBVIOUS
  <2> HIDE DEF h
  <2>6. \A i \in 0 .. m + 1 : h[i] = IF i = 0 THEN <<>>
                                     ELSE IF s[i] \in S THEN Append(h[i - 1], s[i])
                                     ELSE h[i - 1]
    <3> TAKE i \in 0 .. m + 1
    <3>1. CASE i <= m
      <4>1. i \in 0 .. m /\ (i # 0 => i - 1 \in 0 .. m)
        BY <3>1
      <4> QED
        BY <2>2, <2>3, <4>1
    <3>2. CASE i = m + 1
      <4>1. i # 0 /\ i - 1 = m /\ m \in 0 .. m
        BY <3>2
      <4> QED
        BY <2>3, <2>4, <3>2, <4>1
    <3> QED
      BY <3>1, <3>2
  <2>7. Up(h, m + 1)
    BY <2>5, <2>6
  <2> QED
    BY <2>7
<1>3. T = Nat
  <2> HIDE DEF T
  <2>1. T \in SUBSET Nat
    BY DEF T
  <2>2. ASSUME NEW m \in T PROVE m + 1 \in T
    <3> HIDE DEF Up
    <3>1. CASE m + 1 <= n
      <4>1. m \in Nat /\ m <= n
        BY <3>1, n \in Nat DEF T
      <4>2. PICK g : Up(g, m)
        BY <4>1 DEF T
      <4>3. \E h : Up(h, m + 1)
        BY <1>2, <3>1, <4>1, <4>2
      <4> QED
        BY <4>1, <4>3 DEF T
    <3>2. CASE ~(m + 1 <= n)
      BY <3>2 DEF T
    <3> QED
      BY <3>1, <3>2
  <2> QED
    BY <1>1, <2>1, <2>2, Numbers
<1>4. \E g : Chooses(g, s, S)
  BY <1>3 DEF Chooses
<1> DEFINE w == CHOOSE g : g = [i \in 0 .. n |-> IF i = 0 THEN <<>>
                                             ELSE IF s[i] \in S THEN Append(g[i - 1], s[i])
                                             ELSE g[i - 1]]
<1>5. Chooses(w, s, S)
  BY <1>4 DEF Chooses
<1>6. Among(s, S) = w[n]
  BY DEF Among
<1> HIDE DEF w
<1> DEFINE E == Chosen(s, S)
           Q == {m \in Nat : m <= n => w[m] \in Seq(E)}
<1>7. 0 \in Q
  BY <1>5 DEF Chooses
<1>8. ASSUME NEW m \in Q PROVE m + 1 \in Q
  <2> SUFFICES ASSUME m + 1 <= n PROVE w[m + 1] \in Seq(E)
    OBVIOUS
  <2>1. w[m] \in Seq(E) /\ m + 1 \in 1 .. n /\ m + 1 \in 0 .. n /\ m + 1 - 1 = m /\ m + 1 # 0
    OBVIOUS
  <2>4. w = [i \in 0 .. n |-> IF i = 0 THEN <<>>
                               ELSE IF s[i] \in S THEN Append(w[i - 1], s[i])
                               ELSE w[i - 1]]
    BY <1>5 DEF Chooses
  <2>2. w[m + 1] = IF s[m + 1] \in S THEN Append(w[m], s[m + 1]) ELSE w[m]
    <3> HIDE DEF n
    <3> DEFINE k == m + 1
    <3>1. k \in 0 .. n /\ k # 0 /\ k - 1 = m
      BY <2>1
    <3> HIDE DEF k
    <3>2. w[k] = IF s[k] \in S THEN Append(w[k - 1], s[k]) ELSE w[k - 1]
      BY <2>4, <3>1
    <3> QED
      BY <3>1, <3>2 DEF k
  <2>3. s[m + 1] \in S => Append(w[m], s[m + 1]) \in Seq(E)
    <3>1. s[m + 1] \in S => s[m + 1] \in E
      BY <2>1 DEF Chosen
    <3> HIDE DEF E
    <3> QED
      BY <2>1, <3>1
  <2> QED
    BY <2>1, <2>2, <2>3
<1>9. Q = Nat
  <2> HIDE DEF Q
  <2>1. Q \in SUBSET Nat
    BY DEF Q
  <2> QED
    BY <1>7, <1>8, <2>1, Numbers
<1> QED
  BY <1>5, <1>6, <1>9

\* The first element, and one more.
LEMMA ChoosesNext ==
  ASSUME NEW U, NEW s \in Seq(U), NEW S, NEW g, Chooses(g, s, S)
  PROVE  /\ g[0] = <<>>
         /\ \A i \in 0 .. Len(s) - 1 :
              g[i + 1] = IF s[i + 1] \in S THEN Append(g[i], s[i + 1]) ELSE g[i]
<1> DEFINE n == Len(s)
<1>1. g = [i \in 0 .. n |-> IF i = 0 THEN <<>>
                            ELSE IF s[i] \in S THEN Append(g[i - 1], s[i])
                            ELSE g[i - 1]]
  BY DEF Chooses
<1>2. n \in Nat
  OBVIOUS
<1> HIDE DEF n
<1>3. g[0] = <<>>
  BY <1>1, <1>2
<1>4. ASSUME NEW i \in 0 .. n - 1
      PROVE  g[i + 1] = IF s[i + 1] \in S THEN Append(g[i], s[i + 1]) ELSE g[i]
  <2> DEFINE k == i + 1
  <2>1. k \in 0 .. n /\ k # 0 /\ k - 1 = i
    BY <1>2
  <2> HIDE DEF k
  <2>2. g[k] = IF s[k] \in S THEN Append(g[k - 1], s[k]) ELSE g[k - 1]
    BY <1>1, <2>1
  <2> QED
    BY <2>1, <2>2 DEF k
<1> QED
  BY <1>3, <1>4 DEF n

\* What is chosen are elements of s that are in S.
LEMMA AmongTyped ==
  ASSUME NEW U, NEW s \in Seq(U), NEW S
  PROVE  /\ Among(s, S) \in Seq(Chosen(s, S))
         /\ Among(s, S) \in Seq(U)
<1> DEFINE q == Among(s, S)
<1>1. q \in Seq(Chosen(s, S))
  <2>1. PICK g : /\ Chooses(g, s, S) /\ Among(s, S) = g[Len(s)]
                 /\ \A i \in 0 .. Len(s) : g[i] \in Seq(Chosen(s, S))
    BY Chooser
  <2>2. Len(s) \in 0 .. Len(s)
    OBVIOUS
  <2> QED
    BY <2>1, <2>2
<1>2. Chosen(s, S) \subseteq U
  BY DEF Chosen
<1> HIDE DEF q
<1>3. q \in Seq(U)
  BY <1>1, <1>2
<1> QED
  BY <1>1, <1>3 DEF q

\* Choosing from a sequence in two parts.
LEMMA AmongConcat ==
  ASSUME NEW U, NEW u \in Seq(U), NEW v \in Seq(U), NEW S
  PROVE  Among(u \o v, S) = Among(u, S) \o Among(v, S)
<1> DEFINE s == u \o v
           a == Len(u)
           b == Len(v)
<1>1. /\ s \in Seq(U) /\ Len(s) = a + b /\ a \in Nat /\ b \in Nat
      /\ \A i \in 1 .. a : s[i] = u[i]
      /\ \A i \in 1 .. b : s[a + i] = v[i]
  OBVIOUS
<1>2. PICK g : Chooses(g, u, S) /\ Among(u, S) = g[a] /\ \A i \in 0 .. a : g[i] \in Seq(Chosen(u, S))
  BY Chooser
<1>3. PICK h : Chooses(h, v, S) /\ Among(v, S) = h[b] /\ \A i \in 0 .. b : h[i] \in Seq(Chosen(v, S))
  BY Chooser
<1> HIDE DEF s
<1>4. PICK k : Chooses(k, s, S) /\ Among(s, S) = k[Len(s)]
               /\ \A i \in 0 .. Len(s) : k[i] \in Seq(Chosen(s, S))
  BY <1>1, Chooser
<1>5. /\ g[0] = <<>>
      /\ \A i \in 0 .. a - 1 : g[i + 1] = IF u[i + 1] \in S THEN Append(g[i], u[i + 1]) ELSE g[i]
  BY <1>2, ChoosesNext
<1>6. /\ h[0] = <<>>
      /\ \A i \in 0 .. b - 1 : h[i + 1] = IF v[i + 1] \in S THEN Append(h[i], v[i + 1]) ELSE h[i]
  BY <1>3, ChoosesNext
<1>7. /\ k[0] = <<>>
      /\ \A i \in 0 .. a + b - 1 : k[i + 1] = IF s[i + 1] \in S THEN Append(k[i], s[i + 1]) ELSE k[i]
  <2>1. /\ k[0] = <<>>
        /\ \A i \in 0 .. Len(s) - 1 :
             k[i + 1] = IF s[i + 1] \in S THEN Append(k[i], s[i + 1]) ELSE k[i]
    <3> HIDE DEF a, b
    <3>1. s \in Seq(U) /\ Chooses(k, s, S)
      BY <1>1, <1>4
    <3> QED
      BY <3>1, ChoosesNext
  <2> QED
    BY <1>1, <2>1
<1> HIDE DEF a, b
<1> DEFINE T == {m \in Nat : m <= a => k[m] = g[m]}
<1>8. 0 \in T
  BY <1>5, <1>7
<1>9. ASSUME NEW m \in T PROVE m + 1 \in T
  <2> SUFFICES ASSUME m + 1 <= a PROVE k[m + 1] = g[m + 1]
    OBVIOUS
  <2>1. m \in 0 .. a - 1 /\ m \in 0 .. a + b - 1 /\ m + 1 \in 1 .. a /\ k[m] = g[m]
    BY <1>1
  <2> QED
    BY <1>1, <1>5, <1>7, <2>1
<1>10. T = Nat
  <2> HIDE DEF T
  <2>1. T \in SUBSET Nat
    BY DEF T
  <2> QED
    BY <1>8, <1>9, <2>1, Numbers
<1>11. k[a] = g[a]
  BY <1>1, <1>10
<1> DEFINE Joined(m) == k[a + m] = g[a] \o h[m]
           Q == {m \in Nat : m <= b => Joined(m)}
<1>12. g[a] \in Seq(U)
  <2>1. Among(u, S) \in Seq(U)
    BY AmongTyped
  <2> QED
    BY <1>2, <2>1
<1>13. \A i \in 0 .. b : h[i] \in Seq(U)
  <2> SUFFICES ASSUME NEW i \in 0 .. b PROVE h[i] \in Seq(U)
    OBVIOUS
  <2> DEFINE q == h[i]
  <2>1. q \in Seq(Chosen(v, S)) /\ Chosen(v, S) \subseteq U
    BY <1>3 DEF Chosen
  <2> HIDE DEF q
  <2>2. q \in Seq(U)
    BY <2>1
  <2> QED
    BY <2>2 DEF q
<1>14. Joined(0)
  <2>1. g[a] \o <<>> = g[a] /\ a + 0 = a
    BY <1>1, <1>12
  <2> QED
    BY <1>6, <1>11, <2>1
<1>15. ASSUME NEW m \in Nat, m + 1 <= b, Joined(m) PROVE Joined(m + 1)
  <2>1. /\ m \in 0 .. b - 1 /\ a + m \in 0 .. a + b - 1 /\ m + 1 \in 1 .. b /\ m \in 0 .. b
        /\ a + (m + 1) = (a + m) + 1 /\ k[a + m] = g[a] \o h[m]
    BY <1>1, <1>15
  <2>2. s[(a + m) + 1] = v[m + 1] /\ v[m + 1] \in U
    BY <1>1, <2>1 DEF b
  <2>3. k[(a + m) + 1] = IF v[m + 1] \in S THEN Append(k[a + m], v[m + 1]) ELSE k[a + m]
    BY <1>7, <2>1, <2>2
  <2>4. h[m + 1] = IF v[m + 1] \in S THEN Append(h[m], v[m + 1]) ELSE h[m]
    BY <1>6, <2>1
  <2>5. h[m] \in Seq(U)
    BY <1>13, <2>1
  <2>6. ASSUME NEW p \in Seq(U), NEW q \in Seq(U), NEW x \in U
        PROVE  Append(p \o q, x) = p \o Append(q, x)
    <3>1. p \o q \in Seq(U) /\ <<x>> \in Seq(U)
      OBVIOUS
    <3>2. Append(p \o q, x) = (p \o q) \o <<x>>
      BY <3>1, AppendIsConcat
    <3>3. Append(q, x) = q \o <<x>>
      BY AppendIsConcat
    <3>4. (p \o q) \o <<x>> = p \o (q \o <<x>>)
      BY <3>1, ConcatAssociative
    <3> QED
      BY <3>2, <3>3, <3>4
  <2>7. Append(g[a] \o h[m], v[m + 1]) = g[a] \o Append(h[m], v[m + 1])
    BY <1>12, <2>2, <2>5, <2>6
  <2> QED
    BY <2>1, <2>3, <2>4, <2>7
<1>16. Q = Nat
  <2> HIDE DEF Q
  <2>1. Q \in SUBSET Nat
    BY DEF Q
  <2> HIDE DEF Joined
  <2>2. 0 \in Q
    BY <1>14 DEF Q
  <2>3. ASSUME NEW m \in Q PROVE m + 1 \in Q
    <3>1. m + 1 <= b => m <= b
      BY <1>1, <2>1
    <3> QED
      BY <1>15, <2>1, <3>1 DEF Q
  <2> QED
    BY <2>1, <2>2, <2>3, Numbers
<1>17. k[a + b] = g[a] \o h[b]
  <2> HIDE DEF Joined
  <2>1. Joined(b)
    BY <1>1, <1>16
  <2> QED
    BY <2>1 DEF Joined
<1> QED
  BY <1>1, <1>2, <1>3, <1>4, <1>17 DEF s

\* Choosing from one element.
LEMMA AmongOne ==
  ASSUME NEW x, NEW S
  PROVE  Among(<<x>>, S) = IF x \in S THEN <<x>> ELSE <<>>
<1> DEFINE s == <<x>>
<1>1. s \in Seq({x}) /\ Len(s) = 1 /\ s[1] = x
  OBVIOUS
<1> HIDE DEF s
<1>2. PICK g : Chooses(g, s, S) /\ Among(s, S) = g[1] /\ \A i \in 0 .. Len(s) : g[i] \in Seq(Chosen(s, S))
  BY <1>1, Chooser
<1>3. /\ g[0] = <<>>
      /\ \A i \in 0 .. Len(s) - 1 :
           g[i + 1] = IF s[i + 1] \in S THEN Append(g[i], s[i + 1]) ELSE g[i]
  <2>1. Chooses(g, s, S) /\ s \in Seq({x})
    BY <1>1, <1>2
  <2> QED
    BY <2>1, ChoosesNext
<1>4. g[0 + 1] = IF s[0 + 1] \in S THEN Append(g[0], s[0 + 1]) ELSE g[0]
  <2>1. 0 \in 0 .. Len(s) - 1
    BY <1>1
  <2> QED
    BY <1>3, <2>1
<1>5. g[1] = IF x \in S THEN Append(<<>>, x) ELSE <<>>
  BY <1>1, <1>3, <1>4
<1> QED
  BY <1>2, <1>5 DEF s

\* Only which elements of s are in S matters.
LEMMA AmongAlike ==
  ASSUME NEW U, NEW s \in Seq(U), NEW S, NEW R,
         \A i \in 1 .. Len(s) : s[i] \in S <=> s[i] \in R
  PROVE  Among(s, S) = Among(s, R)
<1> DEFINE n == Len(s)
<1>1. n \in Nat
  OBVIOUS
<1>2. PICK g : Chooses(g, s, S) /\ Among(s, S) = g[n] /\ \A i \in 0 .. n : g[i] \in Seq(Chosen(s, S))
  BY Chooser
<1>3. PICK h : Chooses(h, s, R) /\ Among(s, R) = h[n] /\ \A i \in 0 .. n : h[i] \in Seq(Chosen(s, R))
  BY Chooser
<1>5. /\ g[0] = <<>>
      /\ \A i \in 0 .. n - 1 : g[i + 1] = IF s[i + 1] \in S THEN Append(g[i], s[i + 1]) ELSE g[i]
  BY <1>2, ChoosesNext
<1>6. /\ h[0] = <<>>
      /\ \A i \in 0 .. n - 1 : h[i + 1] = IF s[i + 1] \in R THEN Append(h[i], s[i + 1]) ELSE h[i]
  BY <1>3, ChoosesNext
<1>7. \A i \in 1 .. n : s[i] \in S <=> s[i] \in R
  OBVIOUS
<1> HIDE DEF n
<1> DEFINE T == {m \in Nat : m <= n => g[m] = h[m]}
<1>8. 0 \in T
  BY <1>5, <1>6
<1>9. ASSUME NEW m \in T PROVE m + 1 \in T
  <2> SUFFICES ASSUME m + 1 <= n PROVE g[m + 1] = h[m + 1]
    OBVIOUS
  <2>1. m \in 0 .. n - 1 /\ m + 1 \in 1 .. n /\ g[m] = h[m]
    BY <1>1
  <2> QED
    BY <1>5, <1>6, <1>7, <2>1
<1>10. T = Nat
  <2> HIDE DEF T
  <2>1. T \in SUBSET Nat
    BY DEF T
  <2> QED
    BY <1>8, <1>9, <2>1, Numbers
<1> QED
  BY <1>1, <1>2, <1>3, <1>10

\* Nothing is chosen where nothing is in S.
LEMMA AmongNone ==
  ASSUME NEW U, NEW s \in Seq(U), NEW S, \A i \in 1 .. Len(s) : s[i] \notin S
  PROVE  Among(s, S) = <<>>
<1>1. Chosen(s, S) = {}
  BY DEF Chosen
<1>2. Among(s, S) \in Seq({})
  BY <1>1, AmongTyped
<1> QED
  BY <1>2

-----------------------------------------------------------------------------
(* Rings *)

\* The blocks of s follow each other along the links nx in a ring that starts
\* with the block first.
Linking(s, first, nx) ==
  /\ s \in Seq(Thread)
  /\ \A i, j \in 1 .. Len(s) : s[i] = s[j] => i = j
  /\ first = IF Len(s) = 0 THEN NULL ELSE s[1]
  /\ \A i \in 1 .. Len(s) : nx[s[i]] = IF i = Len(s) THEN s[1] ELSE s[i + 1]

\* The list of bucket b is s.
Ring(b, s) ==
  /\ Linking(s, head[b], next)
  /\ \A t \in Thread : t \in LinkedIn(b) <=> \E i \in 1 .. Len(s) : s[i] = t

\* A waker has passed only blocks of other addresses.
Passed(b, s) ==
  \A t \in Thread : pc[t] = "waking" /\ Hash[wake[t].address] = b =>
    \A i \in 1 .. Len(s) : s[i] = wake[t].cursor =>
      \A j \in 1 .. i - 1 : waitAddr[s[j]] # wake[t].address

\* An event is open only while its frame is there.
EventsClosed == \A t \in Thread : ~InFrame(t) => event[t] = "none"

\* What the order of the lists needs besides IInv.
Ordered ==
  /\ EventsClosed
  /\ \A b \in Bucket : \E s : Ring(b, s) /\ Passed(b, s)

\* What a walk finds on a ring.
LEMMA WalkOfRing ==
  ASSUME NEW L \in SUBSET Thread, NEW s, NEW first, NEW nx, Linking(s, first, nx),
         \A t \in Thread : t \in L <=> \E i \in 1 .. Len(s) : s[i] = t
  PROVE  WalkFrom(first, nx, Cardinality(L)) = s
<1> DEFINE n == Len(s)
<1>1. /\ s \in Seq(Thread) /\ n \in Nat
      /\ \A i, j \in 1 .. n : s[i] = s[j] => i = j
      /\ \A i \in 1 .. n : s[i] \in Thread
      /\ n > 0 => s[1] = first
      /\ \A i \in 1 .. n : nx[s[i]] = IF i = n THEN s[1] ELSE s[i + 1]
  BY DEF Linking
<1>2. s \in Seq(L)
  <2>1. \A i \in 1 .. n : s[i] \in L
    BY <1>1
  <2>2. s \in [1 .. n -> L]
    BY <1>1, <2>1
  <2> QED
    BY <1>1, <2>2
<1>3. Cardinality(L) = n
  <2>1. \A x \in L : \E i \in 1 .. n : s[i] = x
    OBVIOUS
  <2> QED
    BY <1>1, <1>2, <2>1, CountOnce
<1>4. \A i \in 1 .. n - 1 : s[i + 1] = nx[s[i]]
  BY <1>1
<1>5. WalkFrom(first, nx, n) = s
  BY <1>1, <1>4, WalkFinds
<1> QED
  BY <1>3, <1>5

LEMMA WalkIsRing ==
  ASSUME NEW b, NEW s
  PROVE  /\ Ring(b, s) => Walk(b) = s
         /\ Ring(b, s)' => Walk(b)' = s
<1>1. LinkedIn(b) \in SUBSET Thread /\ LinkedIn(b)' \in SUBSET Thread
  BY DEF LinkedIn
<1>2. Ring(b, s) => Walk(b) = s
  <2> SUFFICES ASSUME Ring(b, s) PROVE Walk(b) = s
    OBVIOUS
  <2> DEFINE L == LinkedIn(b)
  <2>1. /\ Linking(s, head[b], next)
        /\ \A t \in Thread : t \in L <=> \E i \in 1 .. Len(s) : s[i] = t
    BY DEF Ring
  <2> HIDE DEF L
  <2>2. WalkFrom(head[b], next, Cardinality(L)) = s
    BY <1>1, <2>1, WalkOfRing DEF L
  <2> QED
    BY <2>2 DEF Walk, L
<1>3. Ring(b, s)' => Walk(b)' = s
  <2> SUFFICES ASSUME Ring(b, s)' PROVE Walk(b)' = s
    OBVIOUS
  <2> DEFINE L == LinkedIn(b)'
  <2>1. /\ Linking(s, head'[b], next')
        /\ \A t \in Thread : t \in L <=> \E i \in 1 .. Len(s) : s[i] = t
    BY DEF Ring, Linking
  <2> HIDE DEF L
  <2>2. WalkFrom(head'[b], next', Cardinality(L)) = s
    BY <1>1, <2>1, WalkOfRing DEF L
  <2> QED
    BY <2>2 DEF Walk, L, WalkFrom
<1> QED
  BY <1>2, <1>3

\* A sequence without its k-th element.
Before(s, k) == SubSeq(s, 1, k - 1)
Behind(s, k) == SubSeq(s, k + 1, Len(s))
Cut(s, k) == Before(s, k) \o Behind(s, k)

\* The sequence r is s without its k-th element; u and v are what is before
\* and behind it.
IsCut(r, s, k) ==
  /\ Len(r) = Len(s) - 1
  /\ \A i \in 1 .. Len(s) - 1 : r[i] = IF i < k THEN s[i] ELSE s[i + 1]

IsAround(u, v, s, k) ==
  /\ s = (u \o <<s[k]>>) \o v
  /\ Len(u) = k - 1 /\ \A i \in 1 .. k - 1 : u[i] = s[i]
  /\ Len(v) = Len(s) - k /\ \A i \in 1 .. Len(s) - k : v[i] = s[k + i]

LEMMA CutIs ==
  ASSUME NEW S, NEW s \in Seq(S), NEW k \in 1 .. Len(s)
  PROVE  /\ Cut(s, k) \in Seq(S) /\ IsCut(Cut(s, k), s, k)
         /\ Before(s, k) \in Seq(S) /\ Behind(s, k) \in Seq(S)
         /\ IsAround(Before(s, k), Behind(s, k), s, k)
<1> DEFINE n == Len(s)
           u == SubSeq(s, 1, k - 1)
           v == SubSeq(s, k + 1, n)
<1>1. n \in Nat /\ k \in 1 .. n /\ \A i \in 1 .. n : s[i] \in S
  OBVIOUS
<1>2. u \in Seq(S) /\ Len(u) = k - 1 /\ \A i \in 1 .. k - 1 : u[i] = s[i]
  BY <1>1
<1>3. v \in Seq(S) /\ Len(v) = n - k /\ \A i \in 1 .. n - k : v[i] = s[k + i]
  BY <1>1
<1>0. Cut(s, k) = u \o v /\ Before(s, k) = u /\ Behind(s, k) = v
  BY DEF Cut, Before, Behind
<1> HIDE DEF u, v, n
<1>4. u \o v \in Seq(S) /\ Len(u \o v) = n - 1
  <2>1. u \o v \in Seq(S) /\ Len(u \o v) = Len(u) + Len(v)
    BY <1>2, <1>3, ConcatProperties
  <2>2. (k - 1) + (n - k) = n - 1
    BY <1>1
  <2> QED
    BY <1>2, <1>3, <2>1, <2>2
<1>5. ASSUME NEW i \in 1 .. n - 1 PROVE (u \o v)[i] = IF i < k THEN s[i] ELSE s[i + 1]
  <2>1. CASE i < k
    <3>1. (u \o v)[i] = u[i]
      BY <1>1, <1>2, <1>3, <2>1
    <3> QED
      BY <1>1, <1>2, <2>1, <3>1
  <2>2. CASE ~(i < k)
    <3>1. (u \o v)[i] = v[i - (k - 1)]
      BY <1>1, <1>2, <1>3, <2>2
    <3>2. i - (k - 1) \in 1 .. n - k /\ k + (i - (k - 1)) = i + 1
      BY <1>1, <2>2
    <3> QED
      BY <1>3, <2>2, <3>1, <3>2
  <2> QED
    BY <2>1, <2>2
<1> DEFINE w == (u \o <<s[k]>>) \o v
<1>6. s = w
  <2>0. <<s[k]>> \in Seq(S) /\ Len(<<s[k]>>) = 1 /\ <<s[k]>>[1] = s[k]
    BY <1>1
  <2> DEFINE x == <<s[k]>>
             y == u \o x
  <2> HIDE DEF x
  <2>1. y \in Seq(S) /\ Len(y) = k /\ \A i \in 1 .. k : y[i] = s[i]
    <3>1. y \in Seq(S) /\ Len(y) = k
      BY <1>1, <1>2, <2>0 DEF x
    <3>2. \A i \in 1 .. k - 1 : y[i] = u[i]
      BY <1>1, <1>2, <2>0 DEF x
    <3>3. y[k] = x[1]
      BY <1>1, <1>2, <2>0 DEF x
    <3> QED
      BY <1>1, <1>2, <2>0, <3>1, <3>2, <3>3 DEF x
  <2> HIDE DEF y
  <2>2. y \o v \in Seq(S) /\ Len(y \o v) = n
    BY <1>1, <1>3, <2>1
  <2>3. \A i \in 1 .. k : (y \o v)[i] = s[i]
    BY <1>1, <1>3, <2>1
  <2>4. ASSUME NEW i \in k + 1 .. n PROVE (y \o v)[i] = s[i]
    <3>1. (y \o v)[i] = v[i - k]
      BY <1>1, <1>3, <2>1
    <3>2. i - k \in 1 .. n - k /\ k + (i - k) = i
      BY <1>1
    <3> QED
      BY <1>3, <3>1, <3>2
  <2>5. ASSUME NEW i \in 1 .. n PROVE (y \o v)[i] = s[i]
    <3>1. i \in 1 .. k \/ i \in k + 1 .. n
      BY <1>1
    <3> QED
      BY <2>3, <2>4, <3>1
  <2>6. y \o v = s
    <3> DEFINE z == y \o v
    <3>1. z \in Seq(S) /\ Len(z) = Len(s) /\ \A i \in 1 .. Len(s) : z[i] = s[i]
      BY <2>2, <2>5 DEF n
    <3> HIDE DEF z
    <3>2. z = s
      BY <3>1, SeqEqual
    <3> QED
      BY <3>2 DEF z
  <2> QED
    BY <2>6 DEF x, y
<1> QED
  BY <1>0, <1>1, <1>2, <1>3, <1>4, <1>5, <1>6 DEF IsCut, IsAround, n

\* A block that is unlinked closes the ring behind it.
Within(t, s) == \E i \in 1 .. Len(s) : s[i] = t

LEMMA LinkingCut ==
  ASSUME NEW s, NEW first, NEW nx, Linking(s, first, nx), NEW k \in 1 .. Len(s),
         NEW first2, NEW nx2,
         first2 = IF nx[s[k]] = s[k] THEN NULL ELSE IF first = s[k] THEN nx[s[k]] ELSE first,
         \A i \in 1 .. Len(s) : i # k =>
           nx2[s[i]] = IF nx[s[i]] = s[k] THEN nx[s[k]] ELSE nx[s[i]]
  PROVE  /\ Linking(Cut(s, k), first2, nx2)
         /\ \A t : Within(t, Cut(s, k)) <=> t # s[k] /\ Within(t, s)
<1> DEFINE n == Len(s)
           r == Cut(s, k)
           at(i) == IF i < k THEN i ELSE i + 1
<1>1. /\ s \in Seq(Thread) /\ n \in Nat
      /\ \A i, j \in 1 .. n : s[i] = s[j] => i = j
      /\ first = IF n = 0 THEN NULL ELSE s[1]
      /\ \A i \in 1 .. n : nx[s[i]] = IF i = n THEN s[1] ELSE s[i + 1]
  BY DEF Linking
<1>2. r \in Seq(Thread) /\ Len(r) = n - 1 /\ \A i \in 1 .. n - 1 : r[i] = s[at(i)]
  <2>1. Cut(s, k) \in Seq(Thread) /\ IsCut(Cut(s, k), s, k)
    BY <1>1, CutIs
  <2> QED
    BY <2>1 DEF IsCut
<1>3. \A i \in 1 .. n - 1 : at(i) \in 1 .. n /\ at(i) # k
  BY <1>1
<1>4. \A i, j \in 1 .. n - 1 : at(i) = at(j) => i = j
  BY <1>1
<1>5. \A i \in 1 .. n : i # k => \E j \in 1 .. n - 1 : at(j) = i
  <2> TAKE i \in 1 .. n
  <2> HAVE i # k
  <2>1. CASE i < k
    <3>1. i \in 1 .. n - 1 /\ at(i) = i
      BY <1>1, <2>1
    <3> QED
      BY <3>1
  <2>2. CASE i > k
    <3>1. i - 1 \in 1 .. n - 1 /\ at(i - 1) = i
      BY <1>1, <2>2
    <3> QED
      BY <3>1
  <2> QED
    BY <1>1, <2>1, <2>2
<1>6. k \in 1 .. n
  OBVIOUS
<1>7. \A i \in 1 .. n : i # k => nx2[s[i]] = IF nx[s[i]] = s[k] THEN nx[s[k]] ELSE nx[s[i]]
  OBVIOUS
<1>8. nx[s[k]] = s[k] <=> n = 1
  <2>1. nx[s[k]] = IF k = n THEN s[1] ELSE s[k + 1]
    BY <1>1, <1>6
  <2>2. 1 \in 1 .. n /\ (k # n => k + 1 \in 1 .. n /\ k + 1 # k)
    BY <1>1, <1>6
  <2>3. k = n => (s[1] = s[k] <=> k = 1)
    BY <1>1, <1>6, <2>2
  <2>4. k # n => s[k + 1] # s[k] /\ n # 1
    <3> SUFFICES ASSUME k # n PROVE s[k + 1] # s[k] /\ n # 1
      OBVIOUS
    <3>1. k + 1 \in 1 .. n /\ k + 1 # k
      BY <2>2
    <3>2. s[k + 1] # s[k]
      BY <1>1, <1>6, <3>1
    <3> QED
      BY <1>1, <1>6, <3>1, <3>2
  <2> QED
    BY <2>1, <2>3, <2>4
<1> HIDE DEF n, r
<1>9. ASSUME NEW i \in 1 .. n - 1, NEW j \in 1 .. n - 1, r[i] = r[j] PROVE i = j
  <2> HIDE DEF at
  <2>1. s[at(i)] = s[at(j)] /\ at(i) \in 1 .. n /\ at(j) \in 1 .. n
    BY <1>2, <1>3, <1>9
  <2>2. at(i) = at(j)
    BY <1>1, <2>1
  <2> QED
    BY <1>4, <2>2
<1>10. first2 = IF n - 1 = 0 THEN NULL ELSE r[1]
  <2>1. CASE n = 1
    BY <1>8, <2>1
  <2>2. CASE n # 1
    <3>1. first2 = IF k = 1 THEN s[2] ELSE s[1]
      BY <1>1, <1>6, <1>8, <2>2
    <3>2. r[1] = IF k = 1 THEN s[2] ELSE s[1]
      BY <1>1, <1>2, <1>6, <2>2
    <3> QED
      BY <1>1, <1>6, <2>2, <3>1, <3>2
  <2> QED
    BY <2>1, <2>2
<1>11. ASSUME NEW i \in 1 .. n - 1 PROVE nx2[r[i]] = IF i = n - 1 THEN r[1] ELSE r[i + 1]
  <2> DEFINE m == at(i)
  <2>1. m \in 1 .. n /\ m # k /\ r[i] = s[m]
    BY <1>2, <1>3
  <2>2. nx2[s[m]] = IF nx[s[m]] = s[k] THEN nx[s[k]] ELSE nx[s[m]]
    BY <1>7, <2>1
  <2>3. nx[s[m]] = (IF m = n THEN s[1] ELSE s[m + 1]) /\ nx[s[k]] = IF k = n THEN s[1] ELSE s[k + 1]
    BY <1>1, <1>6, <2>1
  <2>4. nx[s[m]] = s[k] <=> (IF m = n THEN k = 1 ELSE m + 1 = k)
    <3>1. 1 \in 1 .. n /\ (m # n => m + 1 \in 1 .. n)
      BY <1>1, <2>1
    <3> QED
      BY <1>1, <1>6, <2>1, <2>3, <3>1
  <2>5. \A j \in 1 .. n - 1 : r[j] = IF j < k THEN s[j] ELSE s[j + 1]
    BY <1>2
  <2>6. m = IF i < k THEN i ELSE i + 1
    OBVIOUS
  <2> HIDE DEF m
  <2>7. CASE i = n - 1
    <3>1. r[1] = IF 1 < k THEN s[1] ELSE s[2]
      BY <1>1, <2>5, <2>7
    <3>2. CASE m = n
      <4>1. k < n /\ (k = 1 => nx2[s[m]] = s[2]) /\ (k # 1 => nx2[s[m]] = s[1])
        BY <1>1, <1>6, <2>1, <2>2, <2>3, <2>4, <2>6, <2>7, <3>2
      <4> QED
        BY <1>1, <1>6, <2>1, <2>7, <3>1, <4>1
    <3>3. CASE m # n
      <4>1. m = n - 1 /\ k = n /\ n > 1
        BY <1>1, <1>6, <2>1, <2>6, <2>7, <3>3
      <4>2. nx2[s[m]] = s[1]
        BY <1>1, <2>2, <2>3, <2>4, <4>1
      <4> QED
        BY <2>1, <2>7, <3>1, <4>1, <4>2
    <3> QED
      BY <3>2, <3>3
  <2>8. CASE i # n - 1
    <3>1. r[i + 1] = IF i + 1 < k THEN s[i + 1] ELSE s[i + 2]
      <4>1. i + 1 \in 1 .. n - 1 /\ (i + 1) + 1 = i + 2
        BY <1>1, <2>8
      <4> QED
        BY <2>5, <4>1
    <3>2. m # n
      BY <1>1, <2>6, <2>8
    <3>3. CASE m + 1 = k
      <4>1. i = m /\ k = i + 1 /\ k # n
        BY <1>1, <1>6, <2>6, <2>8, <3>3
      <4>2. nx2[s[m]] = s[k + 1]
        BY <2>2, <2>3, <2>4, <3>2, <3>3, <4>1
      <4>3. k + 1 = i + 2 /\ ~(i + 1 < k)
        BY <4>1
      <4> QED
        BY <2>1, <2>8, <3>1, <4>2, <4>3
    <3>4. CASE m + 1 # k
      <4>1. nx2[s[m]] = s[m + 1]
        BY <2>2, <2>3, <2>4, <3>2, <3>4
      <4>2. m + 1 = IF i + 1 < k THEN i + 1 ELSE i + 2
        BY <1>1, <1>6, <2>1, <2>6, <3>4
      <4> QED
        BY <2>1, <2>8, <3>1, <4>1, <4>2
    <3> QED
      BY <3>3, <3>4
  <2> QED
    BY <2>7, <2>8
<1>12. Linking(r, first2, nx2)
  BY <1>2, <1>9, <1>10, <1>11 DEF Linking
<1>13. ASSUME NEW t PROVE (\E i \in 1 .. n - 1 : r[i] = t) <=> t # s[k] /\ \E i \in 1 .. n : s[i] = t
  <2> HIDE DEF at
  <2>1. ASSUME NEW i \in 1 .. n - 1, r[i] = t PROVE t # s[k] /\ \E j \in 1 .. n : s[j] = t
    <3>1. s[at(i)] = t /\ at(i) \in 1 .. n /\ at(i) # k
      BY <1>2, <1>3, <2>1
    <3>2. s[at(i)] # s[k]
      BY <1>1, <1>6, <3>1
    <3> QED
      BY <3>1, <3>2
  <2>2. ASSUME t # s[k], NEW i \in 1 .. n, s[i] = t PROVE \E j \in 1 .. n - 1 : r[j] = t
    <3>1. i # k
      BY <2>2
    <3>2. PICK j \in 1 .. n - 1 : at(j) = i
      BY <1>5, <3>1
    <3> QED
      BY <1>2, <2>2, <3>2
  <2> QED
    BY <2>1, <2>2
<1>14. \A t : Within(t, r) <=> t # s[k] /\ Within(t, s)
  BY <1>2, <1>13 DEF Within, n
<1> QED
  BY <1>12, <1>14 DEF r

\* A block that is inserted before the head is the last of the ring.
LEMMA LinkingAppend ==
  ASSUME NEW s, NEW first, NEW nx, Linking(s, first, nx),
         NEW t \in Thread, \A i \in 1 .. Len(s) : s[i] # t,
         NEW first2, NEW nx2,
         first2 = IF first = NULL THEN t ELSE first,
         nx2[t] = IF first = NULL THEN t ELSE first,
         \A i \in 1 .. Len(s) : nx2[s[i]] = IF i = Len(s) THEN t ELSE nx[s[i]]
  PROVE  /\ Linking(Append(s, t), first2, nx2)
         /\ \A u : (\E i \in 1 .. Len(Append(s, t)) : Append(s, t)[i] = u)
                   <=> u = t \/ \E i \in 1 .. Len(s) : s[i] = u
<1> DEFINE n == Len(s)
           r == Append(s, t)
<1>1. /\ s \in Seq(Thread) /\ n \in Nat
      /\ \A i, j \in 1 .. n : s[i] = s[j] => i = j
      /\ first = IF n = 0 THEN NULL ELSE s[1]
      /\ \A i \in 1 .. n : nx[s[i]] = IF i = n THEN s[1] ELSE s[i + 1]
  BY DEF Linking
<1>2. /\ r \in Seq(Thread) /\ Len(r) = n + 1 /\ r[n + 1] = t
      /\ \A i \in 1 .. n : r[i] = s[i]
  BY <1>1
<1>3. /\ \A i \in 1 .. n : s[i] # t
      /\ \A i \in 1 .. n : nx2[s[i]] = IF i = n THEN t ELSE nx[s[i]]
  OBVIOUS
<1>4. first = NULL <=> n = 0
  BY <1>1, NullAssumption
<1> HIDE DEF n, r
<1>5. ASSUME NEW i \in 1 .. n + 1, NEW j \in 1 .. n + 1, r[i] = r[j] PROVE i = j
  <2>1. (i = n + 1 \/ i \in 1 .. n) /\ (j = n + 1 \/ j \in 1 .. n)
    BY <1>1
  <2> QED
    BY <1>1, <1>2, <1>3, <1>5, <2>1
<1>6. first2 = r[1] /\ n + 1 # 0
  <2>1. CASE n = 0
    BY <1>2, <1>4, <2>1
  <2>2. CASE n # 0
    BY <1>1, <1>2, <1>4, <2>2
  <2> QED
    BY <1>1, <2>1, <2>2
<1>7. ASSUME NEW i \in 1 .. n + 1 PROVE nx2[r[i]] = IF i = n + 1 THEN r[1] ELSE r[i + 1]
  <2>1. CASE i = n + 1
    BY <1>1, <1>2, <1>4, <1>6, <2>1
  <2>2. CASE i \in 1 .. n
    <3>1. nx2[s[i]] = IF i = n THEN t ELSE s[i + 1]
      BY <1>1, <1>3, <2>2
    <3>2. r[i + 1] = IF i = n THEN t ELSE s[i + 1]
      BY <1>1, <1>2, <2>2
    <3> QED
      BY <1>1, <1>2, <2>2, <3>1, <3>2
  <2> QED
    BY <1>1, <2>1, <2>2
<1>8. Linking(r, first2, nx2)
  BY <1>2, <1>5, <1>6, <1>7 DEF Linking
<1>9. ASSUME NEW u PROVE (\E i \in 1 .. n + 1 : r[i] = u) <=> u = t \/ \E i \in 1 .. n : s[i] = u
  <2>1. ASSUME NEW i \in 1 .. n + 1, r[i] = u PROVE u = t \/ \E j \in 1 .. n : s[j] = u
    <3>1. i = n + 1 \/ i \in 1 .. n
      BY <1>1
    <3> QED
      BY <1>2, <2>1, <3>1
  <2>2. ASSUME NEW i \in 1 .. n, s[i] = u PROVE \E j \in 1 .. n + 1 : r[j] = u
    <3>1. i \in 1 .. n + 1
      BY <1>1
    <3> QED
      BY <1>2, <2>2, <3>1
  <2>3. u = t => \E j \in 1 .. n + 1 : r[j] = u
    <3>1. n + 1 \in 1 .. n + 1
      BY <1>1
    <3> QED
      BY <1>2, <3>1
  <2> QED
    BY <2>1, <2>2, <2>3
<1> QED
  BY <1>2, <1>8, <1>9 DEF n, r

-----------------------------------------------------------------------------
(* Steps *)

\* The waiters of address a.
WaitersOf(a) == {t \in Thread : waitAddr[t] = a}

\* The queue of an address is what is chosen from the list of its bucket.
LEMMA QueueIs ==
  ASSUME NEW a, NEW s
  PROVE  /\ Ring(Hash[a], s) => QueueOf(a) = Among(s, WaitersOf(a))
         /\ Ring(Hash[a], s)' => QueueOf(a)' = Among(s, WaitersOf(a)')
<1>1. Ring(Hash[a], s) => Walk(Hash[a]) = s
  BY WalkIsRing
<1>2. Ring(Hash[a], s)' => Walk(Hash[a])' = s
  BY WalkIsRing
<1> QED
  BY <1>1, <1>2 DEF QueueOf, WaitersOf, Among

LEMMA RingMembers ==
  ASSUME NEW b, NEW s, Ring(b, s)
  PROVE  /\ s \in Seq(Thread)
         /\ \A i \in 1 .. Len(s) : s[i] \in LinkedIn(b)
         /\ \A t \in LinkedIn(b) : \E i \in 1 .. Len(s) : s[i] = t
<1>1. s \in Seq(Thread) /\ \A i \in 1 .. Len(s) : s[i] \in Thread
  BY DEF Ring, Linking
<1> QED
  BY <1>1 DEF Ring, LinkedIn

\* A bucket whose list a step leaves alone.
LEMMA RingStays ==
  ASSUME NEW b \in Bucket, NEW s, Ring(b, s), LinkedIn(b)' = LinkedIn(b), head'[b] = head[b],
         \A u \in LinkedIn(b) : next'[u] = next[u] /\ waitAddr'[u] = waitAddr[u]
  PROVE  /\ Ring(b, s)'
         /\ \A a \in Address : Hash[a] = b => QueueOf(a)' = QueueOf(a)
<1>1. /\ s \in Seq(Thread)
      /\ \A i \in 1 .. Len(s) : s[i] \in LinkedIn(b)
  BY RingMembers
<1>2. Linking(s, head[b], next)
  BY DEF Ring
<1>3. \A i \in 1 .. Len(s) : next'[s[i]] = next[s[i]]
  BY <1>1
<1>4. Linking(s, head'[b], next')
  BY <1>2, <1>3 DEF Linking
<1>5. Ring(b, s)'
  <2>1. \A t \in Thread : t \in LinkedIn(b)' <=> \E i \in 1 .. Len(s) : s[i] = t
    BY DEF Ring
  <2> QED
    BY <1>4, <2>1 DEF Ring, Linking
<1>6. ASSUME NEW a \in Address, Hash[a] = b PROVE QueueOf(a)' = QueueOf(a)
  <2>1. QueueOf(a) = Among(s, WaitersOf(a)) /\ QueueOf(a)' = Among(s, WaitersOf(a)')
    BY <1>5, <1>6, QueueIs
  <2>2. \A i \in 1 .. Len(s) : s[i] \in WaitersOf(a)' <=> s[i] \in WaitersOf(a)
    BY <1>1 DEF WaitersOf
  <2>3. Among(s, WaitersOf(a)') = Among(s, WaitersOf(a))
    <3> DEFINE S == WaitersOf(a)
               R == WaitersOf(a)'
    <3>1. \A i \in 1 .. Len(s) : s[i] \in R <=> s[i] \in S
      BY <2>2
    <3> HIDE DEF S, R
    <3>2. Among(s, R) = Among(s, S)
      BY <1>1, <3>1, AmongAlike
    <3> QED
      BY <3>2 DEF S, R
  <2> QED
    BY <2>1, <2>3
<1> QED
  BY <1>5, <1>6

\* A waker that a step leaves alone has passed what it had passed.
LEMMA PassedStays ==
  ASSUME NEW b \in Bucket, NEW s, Ring(b, s), Passed(b, s),
         \A u \in LinkedIn(b) : waitAddr'[u] = waitAddr[u],
         \A t \in Thread : pc'[t] = "waking" /\ Hash[wake'[t].address] = b =>
           pc[t] = "waking" /\ wake'[t] = wake[t]
  PROVE  Passed(b, s)'
<1>1. \A i \in 1 .. Len(s) : s[i] \in LinkedIn(b)
  BY RingMembers
<1> SUFFICES ASSUME NEW t \in Thread, pc'[t] = "waking", Hash[wake'[t].address] = b,
                    NEW i \in 1 .. Len(s), s[i] = wake'[t].cursor, NEW j \in 1 .. i - 1
             PROVE  waitAddr'[s[j]] # wake'[t].address
  BY DEF Passed
<1>2. pc[t] = "waking" /\ wake'[t] = wake[t]
  OBVIOUS
<1>3. waitAddr[s[j]] # wake[t].address
  BY <1>2 DEF Passed
<1>4. j \in 1 .. Len(s)
  <2>1. s \in Seq(Thread)
    BY RingMembers
  <2> QED
    BY <2>1
<1> QED
  BY <1>1, <1>2, <1>3, <1>4

\* What a queue holds are blocks of its bucket's list.
LEMMA QueueMembers ==
  ASSUME Ordered, NEW a \in Address
  PROVE  /\ QueueOf(a) \in Seq(Thread)
         /\ \A i \in 1 .. Len(QueueOf(a)) : QueueOf(a)[i] \in LinkedIn(Hash[a])
<1>1. PICK s : Ring(Hash[a], s)
  BY HashAssumption DEF Ordered
<1>2. s \in Seq(Thread) /\ \A i \in 1 .. Len(s) : s[i] \in LinkedIn(Hash[a])
  BY <1>1, RingMembers
<1> DEFINE q == QueueOf(a)
           C == Chosen(s, WaitersOf(a))
<1>3. q = Among(s, WaitersOf(a))
  BY <1>1, QueueIs
<1>4. q \in Seq(C) /\ q \in Seq(Thread)
  BY <1>2, <1>3, AmongTyped
<1>5. C \subseteq LinkedIn(Hash[a])
  BY <1>2 DEF Chosen
<1> HIDE DEF q, C
<1>6. \A i \in 1 .. Len(q) : q[i] \in C
  BY <1>4
<1> QED
  BY <1>4, <1>5, <1>6 DEF q

\* The queues of all addresses.
LEMMA WaitersSame ==
  ASSUME \A a \in Address : QueueOf(a)' = QueueOf(a)
  PROVE  Waiters' = Waiters
BY DEF Waiters

\* Steps that leave every list alone.
LEMMA QuietOrder ==
  ASSUME IInv, Ordered, NEW t \in Thread,
         \/ \E a \in Address, v \in Value : Store(t, a, v)
         \/ WaitTimeout(t)
         \/ \E a \in Address, all \in BOOLEAN : WakeBegin(t, a, all)
  PROVE  Ordered' /\ UNCHANGED <<Waiters, Signalled>>
<1>t. TypeOK
  BY DEF IInv
<1>1. UNCHANGED <<head, waitAddr, next, prev, event>>
  BY DEF Store, WaitTimeout, WakeBegin, vars, blockVars
<1>2. \A u \in Thread : InFrame(u)' <=> InFrame(u)
  BY <1>t DEF Store, WaitTimeout, WakeBegin, vars, InFrame, TypeOK
<1>3. \A b \in Bucket : LinkedIn(b)' = LinkedIn(b)
  BY <1>1, <1>2 DEF LinkedIn, Linked, BucketOf
<1>4. EventsClosed' /\ Signalled' = Signalled
  BY <1>1, <1>2 DEF Ordered, EventsClosed, Signalled
<1>5. ASSUME NEW b \in Bucket, NEW s, Ring(b, s), Passed(b, s)
      PROVE  /\ Ring(b, s)' /\ Passed(b, s)'
             /\ \A a \in Address : Hash[a] = b => QueueOf(a)' = QueueOf(a)
  <2>1. /\ Ring(b, s)'
        /\ \A a \in Address : Hash[a] = b => QueueOf(a)' = QueueOf(a)
    BY <1>1, <1>3, <1>5, RingStays
  <2>2. CASE \E a \in Address, all \in BOOLEAN : WakeBegin(t, a, all)
    <3>1. PICK a \in Address, all \in BOOLEAN : WakeBegin(t, a, all)
      BY <2>2
    <3>2. /\ wake'[t].address = a /\ wake'[t].cursor = head[Hash[a]] /\ head[Hash[a]] # NULL
          /\ \A u \in Thread \ {t} : wake'[u] = wake[u] /\ pc'[u] = pc[u]
      BY <1>t, <3>1 DEF WakeBegin, TypeOK
    <3>3. CASE Hash[a] # b
      <4>1. \A u \in Thread : pc'[u] = "waking" /\ Hash[wake'[u].address] = b =>
              pc[u] = "waking" /\ wake'[u] = wake[u]
        BY <3>2, <3>3
      <4> QED
        BY <1>1, <1>5, <2>1, <4>1, PassedStays
    <3>4. CASE Hash[a] = b
      <4>1. \A u \in Thread : pc[u] = "waking" => Hash[wake[u].address] # b
        BY <3>1, <3>4, NullAssumption DEF IInv, CursorLive, WakeBegin
      <4>2. s \in Seq(Thread) /\ s[1] = head[b] /\ \A i, j \in 1 .. Len(s) : s[i] = s[j] => i = j
        BY <1>5, <3>2, <3>4 DEF Ring, Linking
      <4>3. \A i \in 1 .. Len(s) : s[i] = head[b] => i = 1
        BY <4>2
      <4>4. Passed(b, s)'
        <5> SUFFICES ASSUME NEW u \in Thread, pc'[u] = "waking", Hash[wake'[u].address] = b,
                            NEW i \in 1 .. Len(s), s[i] = wake'[u].cursor, NEW j \in 1 .. i - 1
                     PROVE  FALSE
          BY DEF Passed
        <5>1. u = t
          BY <3>2, <4>1
        <5>2. s[i] = head[b]
          BY <3>2, <3>4, <5>1
        <5> QED
          BY <4>3, <5>2
      <4> QED
        BY <2>1, <4>4
    <3> QED
      BY <3>3, <3>4
  <2>3. CASE ~\E a \in Address, all \in BOOLEAN : WakeBegin(t, a, all)
    <3>1. wake' = wake /\ \A u \in Thread : pc'[u] = "waking" => pc[u] = "waking"
      BY <1>t, <2>3 DEF Store, WaitTimeout, vars, TypeOK
    <3>2. \A u \in LinkedIn(b) : waitAddr'[u] = waitAddr[u]
      BY <1>1
    <3>3. \A u \in Thread : pc'[u] = "waking" /\ Hash[wake'[u].address] = b =>
            pc[u] = "waking" /\ wake'[u] = wake[u]
      BY <3>1
    <3>4. Passed(b, s)'
      BY <1>5, <3>2, <3>3, PassedStays
    <3> QED
      BY <2>1, <3>4
  <2> QED
    BY <2>1, <2>2, <2>3
<1>6. Ordered'
  <2>1. \A b \in Bucket : \E s : Ring(b, s)' /\ Passed(b, s)'
    BY <1>5 DEF Ordered
  <2> QED
    BY <1>4, <2>1 DEF Ordered
<1>7. ASSUME NEW a \in Address PROVE QueueOf(a)' = QueueOf(a)
  <2>1. Hash[a] \in Bucket
    BY HashAssumption
  <2>2. PICK s : Ring(Hash[a], s) /\ Passed(Hash[a], s)
    BY <2>1 DEF Ordered
  <2> QED
    BY <1>5, <2>1, <2>2
<1> QED
  BY <1>4, <1>6, <1>7, WaitersSame

\* A signalled waiter leaves: it was in no queue.
LEMMA SignalledOrder ==
  ASSUME IInv, Ordered, NEW t \in Thread, WaitSignalled(t)
  PROVE  Ordered' /\ Queues!Return(t)
<1>t. TypeOK
  BY DEF IInv
<1>i. ~Linked(t) /\ InFrame(t)
  BY DEF IInv, LinkedUnset, WaitSignalled, InFrame
<1>1. /\ UNCHANGED <<lock, head, wake>>
      /\ pc[t] = "waiting" /\ pc'[t] = "idle" /\ event[t] = "set" /\ event'[t] = "none"
      /\ prev'[t] = NULL
      /\ \A u \in Thread \ {t} : /\ waitAddr'[u] = waitAddr[u] /\ pc'[u] = pc[u]
                                 /\ event'[u] = event[u]
                                 /\ next'[u] = next[u] /\ prev'[u] = prev[u]
  BY <1>t DEF WaitSignalled, LeaveFrame, TypeOK
<1>2. \A b \in Bucket : LinkedIn(b)' = LinkedIn(b) /\ t \notin LinkedIn(b)
  BY <1>1, <1>i DEF LinkedIn, Linked, BucketOf, InFrame
<1>3. EventsClosed'
  BY <1>1 DEF Ordered, EventsClosed, InFrame
<1>4. Signalled' = Signalled \ {t} /\ t \in Signalled
  BY <1>1 DEF Signalled
<1>5. ASSUME NEW b \in Bucket, NEW s, Ring(b, s), Passed(b, s)
      PROVE  /\ Ring(b, s)' /\ Passed(b, s)'
             /\ \A a \in Address : Hash[a] = b => QueueOf(a)' = QueueOf(a)
  <2>1. \A u \in LinkedIn(b) : next'[u] = next[u] /\ waitAddr'[u] = waitAddr[u]
    BY <1>1, <1>2 DEF LinkedIn
  <2>2. \A u \in Thread : pc'[u] = "waking" => pc[u] = "waking" /\ wake'[u] = wake[u]
    BY <1>1
  <2> QED
    BY <1>1, <1>2, <1>5, <2>1, <2>2, RingStays, PassedStays
<1>6. Ordered'
  <2>1. \A b \in Bucket : \E s : Ring(b, s)' /\ Passed(b, s)'
    BY <1>5 DEF Ordered
  <2> QED
    BY <1>3, <2>1 DEF Ordered
<1>7. ASSUME NEW a \in Address PROVE QueueOf(a)' = QueueOf(a)
  <2>1. Hash[a] \in Bucket
    BY HashAssumption
  <2>2. PICK s : Ring(Hash[a], s) /\ Passed(Hash[a], s)
    BY <2>1 DEF Ordered
  <2> QED
    BY <1>5, <2>1, <2>2
<1>8. Waiters' = Waiters
  BY <1>7, WaitersSame
<1> QED
  BY <1>4, <1>6, <1>8 DEF Queues!Return

\* A block that is enqueued becomes the last of its queue.
LEMMA EnqueueOrder ==
  ASSUME IInv, Ordered, NEW t \in Thread, NEW a \in Address, NEW v \in Value,
         NEW finite \in BOOLEAN, WaitEnqueue(t, a, v, finite)
  PROVE  Ordered' /\ Queues!Wait(t, a)
<1> USE NullAssumption
<1> DEFINE b == Hash[a]
           h == head[b]
<1>t. TypeOK
  BY DEF IInv
<1>b. b \in Bucket /\ lock[b] = NULL /\ pc[t] = "idle"
  BY HashAssumption DEF WaitEnqueue
<1>i. ~Linked(t) /\ ~InFrame(t)
  BY <1>b DEF Linked, InFrame
<1>h. h # NULL => /\ h \in Thread /\ Linked(h) /\ h # t
                  /\ prev[h] \in Thread /\ Linked(prev[h]) /\ BucketOf(prev[h]) = b /\ prev[h] # t
  BY <1>t, <1>b, <1>i DEF IInv, HeadLive, LinksLive, TypeOK
<1>1. /\ waitAddr'[t] = a /\ pc'[t] = "waiting" /\ event'[t] = "reset"
      /\ UNCHANGED <<lock, wake>>
      /\ \A u \in Thread \ {t} : /\ waitAddr'[u] = waitAddr[u]
                                 /\ pc'[u] = pc[u]
                                 /\ event'[u] = event[u]
  BY <1>t DEF WaitEnqueue, TypeOK
<1>n. /\ next'[t] = IF h = NULL THEN t ELSE h
      /\ \A u \in Thread \ {t} : next'[u] = IF h # NULL /\ u = prev[h] THEN t ELSE next[u]
  BY <1>t, <1>h DEF WaitEnqueue, InsertedNext, TypeOK
<1>p. \A u \in Thread : prev'[u] # NULL <=> prev[u] # NULL \/ u = t
  BY <1>t, <1>h DEF WaitEnqueue, InsertedPrev, TypeOK, Linked
<1>d. /\ head'[b] = IF h = NULL THEN t ELSE h
      /\ \A c \in Bucket \ {b} : head'[c] = head[c]
  BY <1>t, <1>b DEF WaitEnqueue, InsertedHead, TypeOK
<1> HIDE DEF b, h
<1>2. \A u \in Thread : Linked(u)' <=> Linked(u) \/ u = t
  BY <1>1, <1>p DEF Linked, InFrame
<1>3. /\ LinkedIn(b)' = LinkedIn(b) \cup {t} /\ t \notin LinkedIn(b)
      /\ \A c \in Bucket \ {b} : LinkedIn(c)' = LinkedIn(c) /\ t \notin LinkedIn(c)
  BY <1>1, <1>2, <1>i DEF LinkedIn, BucketOf, b
<1>4. EventsClosed'
  BY <1>1 DEF Ordered, EventsClosed, InFrame
<1>5. Signalled' = Signalled /\ t \notin Signalled
  BY <1>1, <1>i DEF Ordered, EventsClosed, Signalled
<1>6. \A u \in Thread : pc'[u] = "waking" => pc[u] = "waking" /\ wake'[u] = wake[u]
  BY <1>1
<1>7. ASSUME NEW c \in Bucket \ {b}, NEW s, Ring(c, s), Passed(c, s)
      PROVE  /\ Ring(c, s)' /\ Passed(c, s)'
             /\ \A d \in Address : Hash[d] = c => QueueOf(d)' = QueueOf(d)
  <2>1. ASSUME NEW u \in LinkedIn(c) PROVE next'[u] = next[u] /\ waitAddr'[u] = waitAddr[u]
    <3>1. u \in Thread \ {t} /\ BucketOf(u) = c
      BY <1>3 DEF LinkedIn
    <3>2. ~(h # NULL /\ u = prev[h])
      BY <1>h, <3>1
    <3> QED
      BY <1>1, <1>n, <3>1, <3>2
  <2> QED
    BY <1>3, <1>6, <1>7, <1>d, <2>1, RingStays, PassedStays
<1>8. PICK s : Ring(b, s) /\ Passed(b, s)
  BY <1>b DEF Ordered
<1> DEFINE r == Append(s, t)
<1>9. /\ s \in Seq(Thread) /\ Linking(s, h, next)
      /\ \A i \in 1 .. Len(s) : s[i] \in LinkedIn(b) /\ s[i] \in Thread \ {t}
      /\ \A u \in Thread : u \in LinkedIn(b) <=> \E i \in 1 .. Len(s) : s[i] = u
  BY <1>3, <1>8, RingMembers DEF Ring, h
<1>10. ASSUME NEW i \in 1 .. Len(s)
       PROVE  next'[s[i]] = IF i = Len(s) THEN t ELSE next[s[i]]
  <2>1. /\ Len(s) \in 1 .. Len(s) /\ h = s[1] /\ h # NULL /\ next[s[Len(s)]] = s[1]
        /\ \A k, j \in 1 .. Len(s) : s[k] = s[j] => k = j
    BY <1>9 DEF Linking
  <2>2. prev[h] = s[Len(s)]
    <3>1. Linked(s[Len(s)])
      BY <1>9, <2>1 DEF LinkedIn
    <3> QED
      BY <1>9, <2>1, <3>1 DEF IInv, LinksLive
  <2>3. s[i] = prev[h] <=> i = Len(s)
    BY <2>1, <2>2
  <2> QED
    BY <1>9, <1>n, <2>1, <2>3
<1>11. /\ Linking(r, head'[b], next')
       /\ \A u : (\E i \in 1 .. Len(r) : r[i] = u) <=> u = t \/ \E i \in 1 .. Len(s) : s[i] = u
  <2>1. \A i \in 1 .. Len(s) : s[i] # t
    BY <1>9
  <2> HIDE DEF r
  <2>2. head'[b] = IF h = NULL THEN t ELSE h
    BY <1>d
  <2>3. next'[t] = IF h = NULL THEN t ELSE h
    BY <1>n
  <2> QED
    BY <1>9, <1>10, <2>1, <2>2, <2>3, LinkingAppend DEF r
<1>12. Ring(b, r)'
  <2>1. \A u \in Thread : u \in LinkedIn(b)' <=> \E i \in 1 .. Len(r) : r[i] = u
    BY <1>3, <1>9, <1>11
  <2> HIDE DEF r
  <2> QED
    BY <1>11, <2>1 DEF Ring, Linking, b
<1>13. Passed(b, r)'
  <2>1. \A u \in Thread : pc[u] = "waking" => Hash[wake[u].address] # b
    BY <1>b DEF IInv, CursorLive
  <2> QED
    BY <1>6, <2>1 DEF Passed, b
<1>14. Ordered'
  <2>1. ASSUME NEW c \in Bucket PROVE \E q : Ring(c, q)' /\ Passed(c, q)'
    <3>1. CASE c = b
      BY <1>12, <1>13, <3>1
    <3>2. CASE c # b
      BY <1>7, <3>2 DEF Ordered
    <3> QED
      BY <3>1, <3>2
  <2> QED
    BY <1>4, <2>1 DEF Ordered
<1>15. ASSUME NEW d \in Address
       PROVE  QueueOf(d)' = IF d = a THEN Append(QueueOf(a), t) ELSE QueueOf(d)
  <2>1. CASE Hash[d] # b
    <3>1. Hash[d] \in Bucket \ {b}
      BY <2>1, HashAssumption
    <3>2. PICK q : Ring(Hash[d], q) /\ Passed(Hash[d], q)
      BY <3>1 DEF Ordered
    <3> QED
      BY <1>7, <2>1, <3>1, <3>2 DEF b
  <2>2. CASE Hash[d] = b
    <3> DEFINE R == WaitersOf(d)'
               S == WaitersOf(d)
    <3>1. QueueOf(d) = Among(s, S) /\ QueueOf(d)' = Among(r, R)
      BY <1>8, <1>12, <2>2, QueueIs
    <3>2. \A i \in 1 .. Len(s) : s[i] \in R <=> s[i] \in S
      BY <1>1, <1>9 DEF WaitersOf
    <3>3. t \in R <=> d = a
      BY <1>1 DEF WaitersOf
    <3> HIDE DEF R, S
    <3> DEFINE x == <<t>>
    <3>4. r = s \o x /\ x \in Seq(Thread) /\ s \in Seq(Thread)
      BY <1>9
    <3> HIDE DEF r, x
    <3>5. Among(r, R) = Among(s, R) \o Among(x, R)
      BY <3>4, AmongConcat
    <3>6. Among(s, R) = Among(s, S)
      BY <1>9, <3>2, AmongAlike
    <3>7. Among(x, R) = IF d = a THEN <<t>> ELSE <<>>
      BY <3>3, AmongOne DEF x
    <3>8. Among(s, S) \in Seq(Thread)
      BY <1>9, AmongTyped
    <3>9. Among(s, S) \o <<>> = Among(s, S) /\ Among(s, S) \o <<t>> = Append(Among(s, S), t)
      BY <3>8
    <3> QED
      BY <3>1, <3>5, <3>6, <3>7, <3>9
  <2> QED
    BY <2>1, <2>2
<1>16. Waiters' = [Waiters EXCEPT ![a] = Append(Waiters[a], t)]
  BY <1>15 DEF Waiters
<1>17. t \notin Queues!Waiting
  <2>1. ASSUME NEW d \in Address PROVE t \notin Queues!Members(Waiters[d])
    <3>1. \A i \in 1 .. Len(QueueOf(d)) : QueueOf(d)[i] \in LinkedIn(Hash[d])
      BY QueueMembers
    <3>2. QueueOf(d) \in Seq(Thread) /\ Waiters[d] = QueueOf(d)
      BY QueueMembers DEF Waiters
    <3> QED
      BY <1>i, <3>1, <3>2 DEF Queues!Members, LinkedIn
  <2> QED
    BY <1>5, <2>1 DEF Queues!Waiting
<1> QED
  BY <1>5, <1>14, <1>16, <1>17 DEF Queues!Wait

\* The queue r is q without x.
Leaves(q, x, r) == \E i \in DOMAIN q : q[i] = x /\ r = Queues!Without(q, i)

\* A sequence in three parts, without its middle.
LEMMA MiddleOut ==
  ASSUME NEW U, NEW p \in Seq(U), NEW x \in U, NEW q \in Seq(U),
         NEW z, z = (p \o <<x>>) \o q, NEW r, r = p \o q
  PROVE  /\ Leaves(z, x, r)
         /\ p = <<>> => z # <<>> /\ Head(z) = x /\ Tail(z) = r
<1> DEFINE y == p \o <<x>>
           a == Len(p)
           n == Len(z)
<1>1. /\ a \in Nat /\ <<x>> \in Seq(U) /\ Len(<<x>>) = 1 /\ <<x>>[1] = x
      /\ \A i \in 1 .. a : p[i] \in U
  OBVIOUS
<1>2. /\ y \in Seq(U) /\ Len(y) = a + 1 /\ y[a + 1] = x
      /\ \A i \in 1 .. a : y[i] = p[i]
  BY <1>1
<1>0. z = y \o q
  OBVIOUS
<1> HIDE DEF y
<1>3. /\ z \in Seq(U) /\ Len(z) = a + 1 + Len(q)
      /\ \A i \in 1 .. a + 1 : z[i] = y[i]
      /\ \A i \in 1 .. Len(q) : z[a + 1 + i] = q[i]
  <2>1. z \in Seq(U) /\ Len(z) = a + 1 + Len(q)
    BY <1>0, <1>1, <1>2
  <2>2. \A i \in 1 .. a + 1 : z[i] = y[i]
    BY <1>0, <1>1, <1>2
  <2>3. \A i \in 1 .. Len(q) : z[a + 1 + i] = q[i]
    BY <1>0, <1>1, <1>2
  <2> QED
    BY <2>1, <2>2, <2>3
<1>4. DOMAIN z = 1 .. n /\ n \in Nat /\ a + 1 \in 1 .. n /\ Len(q) \in Nat
  BY <1>1, <1>3
<1>5. z[a + 1] = x
  BY <1>1, <1>2, <1>3
<1> DEFINE u == SubSeq(z, 1, a)
           v == SubSeq(z, a + 2, n)
<1>6. u = p
  <2>1. u \in Seq(U) /\ Len(u) = a /\ \A i \in 1 .. a : u[i] = z[i]
    BY <1>1, <1>3, <1>4
  <2>2. \A i \in 1 .. a : u[i] = p[i]
    BY <1>1, <1>2, <1>3, <2>1
  <2> HIDE DEF u
  <2> QED
    BY <2>1, <2>2, SeqEqual
<1>7. v = q
  <2>1. v \in Seq(U) /\ Len(v) = Len(q) /\ \A i \in 1 .. Len(q) : v[i] = z[a + 1 + i]
    BY <1>1, <1>3, <1>4
  <2>2. \A i \in 1 .. Len(q) : v[i] = q[i]
    BY <1>3, <2>1
  <2> HIDE DEF v
  <2> QED
    BY <2>1, <2>2, SeqEqual
<1>8. Queues!Without(z, a + 1) = p \o q
  <2>1. (a + 1) - 1 = a /\ (a + 1) + 1 = a + 2
    BY <1>1
  <2> QED
    BY <1>6, <1>7, <2>1 DEF Queues!Without
<1>9. ASSUME a = 0 PROVE z # <<>> /\ Head(z) = x /\ Tail(z) = p \o q
  <2>1. p = <<>> /\ p \o q = q
    BY <1>9
  <2>2. z # <<>> /\ Head(z) = z[1]
    BY <1>3, <1>4
  <2>3. Tail(z) = SubSeq(z, 2, n)
    BY <1>3, <1>4
  <2> QED
    BY <1>5, <1>7, <1>9, <2>1, <2>2, <2>3
<1>10. Leaves(z, x, r)
  BY <1>4, <1>5, <1>8 DEF Leaves
<1>11. p = <<>> => a = 0
  OBVIOUS
<1> QED
  BY <1>9, <1>10, <1>11

\* What a queue loses with a block.
LEMMA QueueCut ==
  ASSUME NEW s \in Seq(Thread), NEW k \in 1 .. Len(s), NEW S, NEW R,
         \A i \in 1 .. Len(s) : i # k => (s[i] \in R <=> s[i] \in S)
  PROVE  LET q == Among(s, S)
             r == Among(Cut(s, k), R) IN
         /\ s[k] \notin S => r = q
         /\ s[k] \in S => Leaves(q, s[k], r)
         /\ s[k] \in S /\ (\A j \in 1 .. k - 1 : s[j] \notin S) =>
              q # <<>> /\ Head(q) = s[k] /\ Tail(q) = r
<1> DEFINE u == Before(s, k)
           v == Behind(s, k)
           x == <<s[k]>>
<1>1. /\ s = (u \o x) \o v /\ u \in Seq(Thread) /\ v \in Seq(Thread)
      /\ Len(u) = k - 1 /\ \A i \in 1 .. k - 1 : u[i] = s[i]
      /\ Len(v) = Len(s) - k /\ \A i \in 1 .. Len(s) - k : v[i] = s[k + i]
  <2>1. u \in Seq(Thread) /\ v \in Seq(Thread) /\ IsAround(u, v, s, k)
    BY CutIs
  <2> QED
    BY <2>1 DEF IsAround
<1>2. s[k] \in Thread /\ x \in Seq(Thread)
  OBVIOUS
<1>3. Cut(s, k) = u \o v
  BY DEF Cut
<1>0. k \in 1 .. Len(s) /\ Len(s) \in Nat
  OBVIOUS
<1> HIDE DEF u, v
<1>4. \A i \in 1 .. Len(u) : u[i] \in R <=> u[i] \in S
  <2> TAKE i \in 1 .. Len(u)
  <2>1. i \in 1 .. Len(s) /\ i # k /\ u[i] = s[i]
    BY <1>0, <1>1
  <2> QED
    BY <2>1
<1>5. \A i \in 1 .. Len(v) : v[i] \in R <=> v[i] \in S
  <2> TAKE i \in 1 .. Len(v)
  <2>1. k + i \in 1 .. Len(s) /\ k + i # k /\ v[i] = s[k + i]
    BY <1>0, <1>1
  <2> QED
    BY <2>1
<1>6. \A j \in 1 .. k - 1 : s[j] = u[j]
  BY <1>1
<1> DEFINE p == Among(u, S)
           o == Among(v, S)
<1>7. Among(u \o v, R) = p \o o
  <2>1. Among(u \o v, R) = Among(u, R) \o Among(v, R)
    BY <1>1, AmongConcat
  <2>2. Among(u, R) = p /\ Among(v, R) = o
    BY <1>1, <1>4, <1>5, AmongAlike
  <2> QED
    BY <2>1, <2>2
<1>8. Among(s, S) = (p \o Among(x, S)) \o o
  <2> HIDE DEF x
  <2> DEFINE y == u \o x
  <2>1. y \in Seq(Thread) /\ s = y \o v
    BY <1>1, <1>2
  <2>3. Among(y, S) = p \o Among(x, S)
    BY <1>1, <1>2, AmongConcat
  <2> HIDE DEF y
  <2>2. Among(y \o v, S) = Among(y, S) \o Among(v, S)
    BY <1>1, <2>1, AmongConcat
  <2> QED
    BY <2>1, <2>2, <2>3
<1>9. Among(x, S) = IF s[k] \in S THEN <<s[k]>> ELSE <<>>
  BY AmongOne
<1>10. p \in Seq(Thread) /\ o \in Seq(Thread)
  BY <1>1, AmongTyped
<1>11. (\A j \in 1 .. k - 1 : s[j] \notin S) => p = <<>>
  BY <1>1, <1>6, AmongNone
<1> DEFINE e == s[k]
           q == Among(s, S)
           r == Among(Cut(s, k), R)
<1>12. r = p \o o
  BY <1>3, <1>7
<1>13. q = (p \o Among(x, S)) \o o
  BY <1>8
<1>14. e \in Thread /\ Among(x, S) = IF e \in S THEN <<e>> ELSE <<>>
  BY <1>2, <1>9
<1> HIDE DEF p, o, e, q, r, x
<1>15. e \notin S => r = q
  BY <1>10, <1>12, <1>13, <1>14
<1>16. ASSUME e \in S
       PROVE  /\ Leaves(q, e, r)
              /\ p = <<>> => q # <<>> /\ Head(q) = e /\ Tail(q) = r
  <2> DEFINE z == (p \o <<e>>) \o o
  <2>0. z = (p \o <<e>>) \o o
    OBVIOUS
  <2> HIDE DEF z
  <2>4. e \in Thread /\ p \in Seq(Thread) /\ o \in Seq(Thread)
    BY <1>10, <1>14
  <2>1. Leaves(z, e, r)
    BY <1>12, <2>0, <2>4, MiddleOut
  <2>3. p = <<>> => z # <<>> /\ Head(z) = e /\ Tail(z) = r
    BY <1>12, <2>0, <2>4, MiddleOut
  <2>2. q = z
    BY <1>13, <1>14, <1>16, <2>0
  <2> QED
    BY <2>1, <2>2, <2>3
<1> QED
  BY <1>11, <1>15, <1>16 DEF e, q, r

\* A block that is unlinked leaves the ring of its bucket and no other.
LEMMA UnlinkRing ==
  ASSUME IInv, NEW b \in Bucket, NEW s, Ring(b, s),
         NEW w \in Thread, Linked(w), BucketOf(w) = b,
         head' = RemovedHead(b, w),
         prev' = [RemovedPrev(w) EXCEPT ![w] = NULL],
         \A u \in Thread \ {w} : /\ next'[u] = RemovedNext(w)[u]
                                 /\ InFrame(u)' = InFrame(u)
                                 /\ waitAddr'[u] = waitAddr[u]
  PROVE  /\ \E k \in 1 .. Len(s) : s[k] = w /\ Ring(b, Cut(s, k))'
         /\ \A c \in Bucket \ {b} :
              /\ LinkedIn(c)' = LinkedIn(c) /\ head'[c] = head[c]
              /\ \A u \in LinkedIn(c) : next'[u] = next[u] /\ waitAddr'[u] = waitAddr[u]
<1> USE NullAssumption
<1>t. TypeOK /\ LinksLive /\ HeadLive
  BY DEF IInv
<1>w. /\ next[w] \in Thread /\ prev[w] \in Thread /\ prev[w] # NULL
      /\ prev[next[w]] = w /\ next[prev[w]] = w
      /\ BucketOf(prev[w]) = b
  BY <1>t DEF LinksLive, Linked
<1>1. \A u \in Thread : Linked(u)' <=> (Linked(u) /\ u # w)
  BY <1>t, UnlinkKeepsLists
<1>2. /\ LinkedIn(b)' = LinkedIn(b) \ {w}
      /\ \A c \in Bucket \ {b} : LinkedIn(c)' = LinkedIn(c) /\ w \notin LinkedIn(c)
  BY <1>1 DEF LinkedIn, BucketOf
<1>3. \A u \in Thread \ {w} :
        next'[u] = IF next[w] # w /\ u = prev[w] THEN next[w] ELSE next[u]
  BY <1>t, <1>w DEF RemovedNext, TypeOK
<1>4. /\ head'[b] = IF next[w] = w THEN NULL ELSE IF head[b] = w THEN next[w] ELSE head[b]
      /\ \A c \in Bucket \ {b} : head'[c] = head[c]
  BY <1>t, <1>w DEF RemovedHead, TypeOK
<1>5. ASSUME NEW c \in Bucket \ {b}, NEW u \in LinkedIn(c)
      PROVE  next'[u] = next[u] /\ waitAddr'[u] = waitAddr[u]
  <2>1. u \in Thread \ {w} /\ BucketOf(u) = c
    BY <1>2 DEF LinkedIn
  <2>2. u # prev[w]
    BY <1>w, <2>1
  <2> QED
    BY <1>3, <2>1, <2>2
<1>6. /\ s \in Seq(Thread) /\ Linking(s, head[b], next)
      /\ \A i \in 1 .. Len(s) : s[i] \in LinkedIn(b) /\ s[i] \in Thread /\ Linked(s[i])
      /\ \A u \in Thread : u \in LinkedIn(b) <=> \E i \in 1 .. Len(s) : s[i] = u
      /\ \A i, j \in 1 .. Len(s) : s[i] = s[j] => i = j
  BY RingMembers DEF Ring, LinkedIn, Linking
<1>7. PICK k \in 1 .. Len(s) : s[k] = w
  BY <1>6 DEF LinkedIn
<1>8. ASSUME NEW i \in 1 .. Len(s), i # k
      PROVE  next'[s[i]] = IF next[s[i]] = w THEN next[w] ELSE next[s[i]]
  <2>1. s[i] \in Thread \ {w} /\ Linked(s[i])
    BY <1>6, <1>7, <1>8
  <2>2. prev[next[s[i]]] = s[i]
    BY <1>t, <2>1 DEF LinksLive
  <2>3. next[s[i]] = w <=> next[w] # w /\ s[i] = prev[w]
    BY <1>w, <2>1, <2>2
  <2> QED
    BY <1>3, <2>1, <2>3
<1> DEFINE r == Cut(s, k)
<1>9. /\ Linking(r, head'[b], next')
      /\ \A t : (\E i \in 1 .. Len(r) : r[i] = t) <=> t # w /\ \E i \in 1 .. Len(s) : s[i] = t
  <2>1. head'[b] = IF next[s[k]] = s[k] THEN NULL ELSE IF head[b] = s[k] THEN next[s[k]] ELSE head[b]
    BY <1>4, <1>7
  <2>2. \A i \in 1 .. Len(s) : i # k =>
          next'[s[i]] = IF next[s[i]] = s[k] THEN next[s[k]] ELSE next[s[i]]
    BY <1>7, <1>8
  <2>3. /\ Linking(Cut(s, k), head'[b], next')
        /\ \A t : (\E i \in 1 .. Len(Cut(s, k)) : Cut(s, k)[i] = t)
                  <=> t # s[k] /\ \E i \in 1 .. Len(s) : s[i] = t
    <3> DEFINE hd == head[b]
               hd2 == head'[b]
               nx == next
               nx2 == next'
    <3>0. k \in 1 .. Len(s)
      BY <1>7
    <3>1. Linking(s, hd, nx)
      BY <1>6
    <3>2. hd2 = IF nx[s[k]] = s[k] THEN NULL ELSE IF hd = s[k] THEN nx[s[k]] ELSE hd
      BY <2>1
    <3>3. \A i \in 1 .. Len(s) : i # k =>
            nx2[s[i]] = IF nx[s[i]] = s[k] THEN nx[s[k]] ELSE nx[s[i]]
      BY <2>2
    <3> HIDE DEF hd, hd2, nx, nx2
    <3>4. Linking(Cut(s, k), hd2, nx2)
      BY <3>0, <3>1, <3>2, <3>3, LinkingCut
    <3>5. \A t : Within(t, Cut(s, k)) <=> t # s[k] /\ Within(t, s)
      BY <3>0, <3>1, <3>2, <3>3, LinkingCut
    <3> QED
      BY <3>4, <3>5 DEF hd2, nx2, Within
  <2> QED
    BY <1>7, <2>3
<1>10. Ring(b, r)'
  <2>1. \A u \in Thread : u \in LinkedIn(b)' <=> \E i \in 1 .. Len(r) : r[i] = u
    BY <1>2, <1>6, <1>9
  <2> HIDE DEF r
  <2> QED
    BY <1>9, <2>1 DEF Ring, Linking
<1> QED
  BY <1>2, <1>4, <1>5, <1>7, <1>10

\* A block that leaves a list unsignalled gives its place in the queue up; one
\* that a wake has taken off the list is in no queue any more.
LEMMA TimeoutOrder ==
  ASSUME IInv, Ordered, NEW t \in Thread, WaitTimeoutReturn(t)
  PROVE  /\ Ordered'
         /\ Linked(t) => Queues!GiveUp(t, waitAddr[t])
         /\ ~Linked(t) => Queues!Return(t)
<1> USE NullAssumption
<1>t. TypeOK
  BY DEF IInv
<1>a. PICK a \in Address : a = waitAddr[t]
  BY DEF WaitTimeoutReturn, IInv, FramesNamed, InFrame
<1> DEFINE b == Hash[a]
<1>b. /\ a \in Address /\ b \in Bucket /\ BucketOf(t) = b
      /\ lock[b] = NULL /\ pc[t] = "timedOut" /\ InFrame(t)
  BY <1>a, HashAssumption DEF WaitTimeoutReturn, InFrame, BucketOf
<1>1. /\ UNCHANGED <<lock, wake>>
      /\ pc'[t] = "idle" /\ event'[t] = "none" /\ waitAddr'[t] = NULL
      /\ \A u \in Thread \ {t} : /\ waitAddr'[u] = waitAddr[u]
                                 /\ pc'[u] = pc[u]
                                 /\ event'[u] = event[u]
  BY <1>t DEF WaitTimeoutReturn, LeaveFrame, TypeOK
<1>2. /\ ~InFrame(t)' /\ ~Linked(t)'
      /\ \A u \in Thread \ {t} : InFrame(u)' = InFrame(u)
  BY <1>1 DEF InFrame, Linked
<1>3. EventsClosed'
  BY <1>1, <1>2 DEF Ordered, EventsClosed
<1>4. \A u \in Thread : pc'[u] = "waking" => pc[u] = "waking" /\ wake'[u] = wake[u]
  BY <1>1
<1>5. \A u \in Thread : pc[u] = "waking" => Hash[wake[u].address] # b
  BY <1>b DEF IInv, CursorLive
<1>6. CASE Linked(t)
  <2>1. event[t] = "reset" /\ Signalled' = Signalled
    BY <1>1, <1>6 DEF IInv, LinkedUnset, Signalled
  <2>2. PICK s : Ring(b, s) /\ Passed(b, s)
    BY <1>b DEF Ordered
  <2>3. /\ head' = RemovedHead(b, t)
        /\ prev' = [RemovedPrev(t) EXCEPT ![t] = NULL]
        /\ next' = [RemovedNext(t) EXCEPT ![t] = NULL]
    BY <1>a DEF WaitTimeoutReturn
  <2>4. RemovedNext(t) \in [Thread -> Thread \cup {NULL}]
    BY <1>t, <1>6 DEF RemovedNext, TypeOK, IInv, LinksLive
  <2>5. \A u \in Thread \ {t} : /\ next'[u] = RemovedNext(t)[u]
                                /\ InFrame(u)' = InFrame(u)
                                /\ waitAddr'[u] = waitAddr[u]
    BY <1>1, <1>2, <2>3, <2>4
  <2> HIDE DEF b
  <2>6. /\ \E k \in 1 .. Len(s) : s[k] = t /\ Ring(b, Cut(s, k))'
        /\ \A c \in Bucket \ {b} :
             /\ LinkedIn(c)' = LinkedIn(c) /\ head'[c] = head[c]
             /\ \A u \in LinkedIn(c) : next'[u] = next[u] /\ waitAddr'[u] = waitAddr[u]
    BY <1>b, <1>6, <2>2, <2>3, <2>5, UnlinkRing
  <2>7. PICK k \in 1 .. Len(s) : s[k] = t /\ Ring(b, Cut(s, k))'
    BY <2>6
  <2>8. Passed(b, Cut(s, k))'
    BY <1>4, <1>5 DEF Passed, b
  <2>9. ASSUME NEW c \in Bucket \ {b}, NEW q, Ring(c, q), Passed(c, q)
        PROVE  /\ Ring(c, q)' /\ Passed(c, q)'
               /\ \A d \in Address : Hash[d] = c => QueueOf(d)' = QueueOf(d)
    BY <1>4, <2>6, <2>9, RingStays, PassedStays
  <2>10. Ordered'
    <3>1. ASSUME NEW c \in Bucket PROVE \E q : Ring(c, q)' /\ Passed(c, q)'
      <4>1. CASE c = b
        BY <2>7, <2>8, <4>1
      <4>2. CASE c # b
        BY <2>9, <4>2 DEF Ordered
      <4> QED
        BY <4>1, <4>2
    <3> QED
      BY <1>3, <3>1 DEF Ordered
  <2>11. /\ s \in Seq(Thread) /\ \A i, j \in 1 .. Len(s) : s[i] = s[j] => i = j
         /\ \A i \in 1 .. Len(s) : s[i] \in Thread
    BY <2>2, RingMembers DEF Ring, Linking
  <2>12. ASSUME NEW d \in Address
         PROVE  /\ d # a => QueueOf(d)' = QueueOf(d)
                /\ d = a => Leaves(QueueOf(a), t, QueueOf(a)')
    <3>1. CASE Hash[d] # b
      <4>1. Hash[d] \in Bucket \ {b}
        BY <3>1, HashAssumption
      <4>2. PICK q : Ring(Hash[d], q) /\ Passed(Hash[d], q)
        BY <4>1 DEF Ordered
      <4> QED
        BY <2>9, <3>1, <4>1, <4>2 DEF b
    <3>2. CASE Hash[d] = b
      <4> DEFINE S == WaitersOf(d)
                 R == WaitersOf(d)'
                 q == Among(s, S)
                 r == Among(Cut(s, k), R)
      <4>1. QueueOf(d) = q /\ QueueOf(d)' = r
        BY <2>2, <2>7, <3>2, QueueIs
      <4>2. \A i \in 1 .. Len(s) : i # k => (s[i] \in R <=> s[i] \in S)
        BY <1>1, <2>7, <2>11 DEF WaitersOf
      <4>3. t \in S <=> d = a
        BY <1>a DEF WaitersOf
      <4> HIDE DEF S, R
      <4>4. /\ s[k] \notin S => r = q
            /\ s[k] \in S => Leaves(q, s[k], r)
        BY <2>11, <4>2, QueueCut
      <4> QED
        BY <2>7, <4>1, <4>3, <4>4
    <3> QED
      BY <3>1, <3>2
  <2>13. Leaves(QueueOf(a), t, QueueOf(a)')
    BY <1>b, <2>12
  <2>14. PICK i \in DOMAIN QueueOf(a) :
           QueueOf(a)[i] = t /\ QueueOf(a)' = Queues!Without(QueueOf(a), i)
    BY <2>13 DEF Leaves
  <2>15. Waiters[a] = QueueOf(a)
    BY <1>b DEF Waiters
  <2>16. Waiters' = [Waiters EXCEPT ![a] = Queues!Without(Waiters[a], i)]
    BY <1>b, <2>12, <2>14, <2>15 DEF Waiters
  <2>17. Queues!GiveUp(t, a)
    BY <2>1, <2>14, <2>15, <2>16 DEF Queues!GiveUp
  <2> QED
    BY <1>6, <1>a, <2>10, <2>17
<1>7. CASE ~Linked(t)
  <2>1. prev[t] = NULL /\ event[t] = "set"
    BY <1>b, <1>7 DEF Linked, IInv, OffListIsSignalled
  <2>2. /\ head' = head
        /\ \A u \in Thread \ {t} : next'[u] = next[u] /\ prev'[u] = prev[u]
    BY <1>t, <2>1 DEF WaitTimeoutReturn, RemovedHead, RemovedNext, RemovedPrev, TypeOK
  <2>3. \A u \in Thread : Linked(u)' <=> Linked(u)
    BY <1>2, <1>7, <2>2 DEF Linked
  <2>4. \A c \in Bucket : LinkedIn(c)' = LinkedIn(c) /\ t \notin LinkedIn(c)
    BY <1>1, <1>7, <2>3 DEF LinkedIn, BucketOf
  <2>5. ASSUME NEW c \in Bucket, NEW s, Ring(c, s), Passed(c, s)
        PROVE  /\ Ring(c, s)' /\ Passed(c, s)'
               /\ \A d \in Address : Hash[d] = c => QueueOf(d)' = QueueOf(d)
    <3>1. \A u \in LinkedIn(c) : next'[u] = next[u] /\ waitAddr'[u] = waitAddr[u]
      BY <1>1, <2>2, <2>4 DEF LinkedIn
    <3> QED
      BY <1>4, <2>2, <2>4, <2>5, <3>1, RingStays, PassedStays
  <2>6. Ordered'
    <3>1. \A c \in Bucket : \E s : Ring(c, s)' /\ Passed(c, s)'
      BY <2>5 DEF Ordered
    <3> QED
      BY <1>3, <3>1 DEF Ordered
  <2>7. ASSUME NEW d \in Address PROVE QueueOf(d)' = QueueOf(d)
    <3>1. Hash[d] \in Bucket
      BY HashAssumption
    <3>2. PICK s : Ring(Hash[d], s) /\ Passed(Hash[d], s)
      BY <3>1 DEF Ordered
    <3> QED
      BY <2>5, <3>1, <3>2
  <2>8. Waiters' = Waiters
    BY <2>7, WaitersSame
  <2>9. Signalled' = Signalled \ {t} /\ t \in Signalled
    BY <1>1, <2>1 DEF Signalled
  <2> QED
    BY <1>7, <2>6, <2>8, <2>9 DEF Queues!Return
<1> QED
  BY <1>6, <1>7

\* What a round of a traversal by t with the cursor w sees and leaves: the
\* place of w in the ring s of its bucket, the blocks before it, and what other
\* wakers keep.
Round(t, a, w, s) ==
  /\ w \in Thread /\ Linked(w) /\ BucketOf(w) = Hash[a] /\ pc[t] = "waking"
  /\ waitAddr' = waitAddr
  /\ \A u \in Thread : /\ InFrame(u)' <=> InFrame(u)
                       /\ pc'[u] = "waking" => pc[u] = "waking"
                       /\ u # t => /\ wake'[u] = wake[u]
                                   /\ pc[u] = "waking" => Hash[wake[u].address] # Hash[a]
  /\ pc'[t] = "waking" => /\ wake'[t].address = a /\ wake'[t].cursor = next[w]
                          /\ head'[Hash[a]] # NULL /\ next[w] # head'[Hash[a]]
  /\ pc'[t] = "idle" /\ waitAddr[w] # a =>
       head'[Hash[a]] = NULL \/ next[w] = head'[Hash[a]]
  /\ \E k \in 1 .. Len(s) : s[k] = w /\ \A j \in 1 .. k - 1 : waitAddr[s[j]] # a

LEMMA WakeSees ==
  ASSUME IInv, NEW t \in Thread, WakeStep(t), NEW a, a = wake[t].address,
         NEW w, w = wake[t].cursor, NEW s, Ring(Hash[a], s), Passed(Hash[a], s)
  PROVE  Round(t, a, w, s)
<1> USE NullAssumption
<1> DEFINE b == Hash[a]
<1>t. TypeOK
  BY DEF IInv
<1>b. /\ a \in Address /\ b \in Bucket /\ pc[t] = "waking" /\ lock[b] = t
      /\ w \in Thread /\ Linked(w) /\ BucketOf(w) = b
  BY HashAssumption DEF WakeStep, IInv, FramesNamed, CursorLive
<1>1. waitAddr' = waitAddr
  BY DEF WakeStep
<1>2. \/ Release(t, b)
      \/ /\ wake' = [wake EXCEPT ![t].cursor = next[w]] /\ UNCHANGED <<lock, pc>>
         /\ head'[b] # NULL /\ next[w] # head'[b]
  BY DEF WakeStep, WakeEnds
<1>3. /\ \A u \in Thread \ {t} : wake'[u] = wake[u] /\ pc'[u] = pc[u]
      /\ pc'[t] = "waking" => /\ wake'[t].address = a /\ wake'[t].cursor = next[w]
                              /\ head'[b] # NULL /\ next[w] # head'[b]
      /\ pc'[t] \in {"idle", "waking"}
  BY <1>t, <1>b, <1>2 DEF Release, TypeOK
<1>4. ASSUME pc'[t] = "idle", waitAddr[w] # a
      PROVE  head'[b] = NULL \/ next[w] = head'[b]
  <2>1. ~Matches(t)
    BY <1>4 DEF Matches
  <2>2. WakeEnds(t, b, next[w])
    BY <1>b, <1>4 DEF WakeStep
  <2> QED
    BY <2>1, <2>2 DEF WakeEnds
<1>5. ASSUME NEW u \in Thread
      PROVE  /\ InFrame(u)' <=> InFrame(u)
             /\ pc'[u] = "waking" => pc[u] = "waking"
             /\ u # t => /\ wake'[u] = wake[u]
                         /\ pc[u] = "waking" => Hash[wake[u].address] # b
  BY <1>b, <1>3 DEF InFrame, IInv, CursorLive
<1>6. PICK k \in 1 .. Len(s) : s[k] = w
  BY <1>b, RingMembers DEF LinkedIn
<1>7. \A j \in 1 .. k - 1 : waitAddr[s[j]] # a
  BY <1>b, <1>6 DEF Passed
<1> QED
  BY <1>b, <1>1, <1>3, <1>4, <1>5, <1>6, <1>7 DEF Round

\* A block of another address is passed.
LEMMA PassOrder ==
  ASSUME IInv, Ordered, NEW t \in Thread, WakeStep(t), ~Matches(t)
  PROVE  /\ Ordered' /\ UNCHANGED <<Waiters, Signalled>>
         /\ pc'[t] = "idle" =>
              \A u \in Thread : Linked(u)' => waitAddr'[u] # wake[t].address
<1> USE NullAssumption
<1>a. PICK a \in Address : a = wake[t].address
  BY DEF WakeStep, IInv, FramesNamed
<1> DEFINE b == Hash[a]
<1>b. b \in Bucket
  BY HashAssumption
<1>s. PICK s : Ring(b, s) /\ Passed(b, s)
  BY <1>b DEF Ordered
<1>w. PICK w : w = wake[t].cursor
  OBVIOUS
<1>1. /\ w \in Thread /\ Linked(w) /\ BucketOf(w) = b /\ pc[t] = "waking"
      /\ waitAddr' = waitAddr
      /\ \A u \in Thread : /\ InFrame(u)' <=> InFrame(u)
                           /\ pc'[u] = "waking" => pc[u] = "waking"
                           /\ u # t => /\ wake'[u] = wake[u]
                                       /\ pc[u] = "waking" => Hash[wake[u].address] # b
      /\ pc'[t] = "waking" => /\ wake'[t].address = a /\ wake'[t].cursor = next[w]
                              /\ head'[b] # NULL /\ next[w] # head'[b]
      /\ pc'[t] = "idle" /\ waitAddr[w] # a => head'[b] = NULL \/ next[w] = head'[b]
      /\ \E k \in 1 .. Len(s) : s[k] = w /\ \A j \in 1 .. k - 1 : waitAddr[s[j]] # a
  <2>1. Round(t, a, w, s)
    BY <1>a, <1>s, <1>w, WakeSees
  <2> QED
    BY <2>1 DEF Round
<1>2. PICK k \in 1 .. Len(s) : s[k] = w /\ \A j \in 1 .. k - 1 : waitAddr[s[j]] # a
  BY <1>1
<1>3. UNCHANGED <<head, next, prev, event>> /\ waitAddr[w] # a
  BY <1>a, <1>w DEF WakeStep, Matches
<1>4. /\ s \in Seq(Thread) /\ Len(s) \in Nat
      /\ \A i, j \in 1 .. Len(s) : s[i] = s[j] => i = j
      /\ head[b] = s[1] /\ head[b] # NULL
      /\ next[w] = IF k = Len(s) THEN s[1] ELSE s[k + 1]
  BY <1>2, <1>s DEF Ring, Linking
<1>5. \A j \in 1 .. k : waitAddr[s[j]] # a
  <2> TAKE j \in 1 .. k
  <2>1. j \in 1 .. k - 1 \/ j = k
    BY <1>2
  <2> QED
    BY <1>2, <1>3, <2>1
<1>6. EventsClosed' /\ Signalled' = Signalled
  BY <1>1, <1>3 DEF Ordered, EventsClosed, Signalled
<1>7. \A u \in Thread : Linked(u)' <=> Linked(u)
  BY <1>1, <1>3 DEF Linked
<1>8. \A c \in Bucket : LinkedIn(c)' = LinkedIn(c)
  BY <1>1, <1>7 DEF LinkedIn, BucketOf
<1>9. ASSUME NEW c \in Bucket, NEW q, Ring(c, q)
      PROVE  /\ Ring(c, q)'
             /\ \A d \in Address : Hash[d] = c => QueueOf(d)' = QueueOf(d)
  BY <1>1, <1>3, <1>8, <1>9, RingStays
<1>10. ASSUME NEW c \in Bucket \ {b}, NEW q, Ring(c, q), Passed(c, q)
       PROVE  Passed(c, q)'
  <2>1. \A u \in Thread : pc'[u] = "waking" /\ Hash[wake'[u].address] = c =>
          pc[u] = "waking" /\ wake'[u] = wake[u]
    BY <1>1
  <2>2. \A u \in LinkedIn(c) : waitAddr'[u] = waitAddr[u]
    BY <1>1
  <2> QED
    BY <1>10, <2>1, <2>2, PassedStays
<1>11. Passed(b, s)'
  <2> SUFFICES ASSUME NEW u \in Thread, pc'[u] = "waking", Hash[wake'[u].address] = b,
                      NEW i \in 1 .. Len(s), s[i] = wake'[u].cursor, NEW j \in 1 .. i - 1
               PROVE  waitAddr'[s[j]] # wake'[u].address
    BY DEF Passed
  <2>1. u = t
    BY <1>1
  <2>2. wake'[t].address = a /\ s[i] = next[w] /\ next[w] # s[1]
    BY <1>1, <1>3, <1>4, <2>1
  <2>3. k # Len(s) /\ k + 1 \in 1 .. Len(s) /\ s[i] = s[k + 1]
    BY <1>2, <1>4, <2>2
  <2>4. i = k + 1
    BY <1>4, <2>3
  <2>5. j \in 1 .. k
    BY <1>2, <2>4
  <2> QED
    BY <1>1, <1>5, <2>1, <2>2, <2>5
<1>12. Ordered'
  <2>1. ASSUME NEW c \in Bucket PROVE \E q : Ring(c, q)' /\ Passed(c, q)'
    <3>1. CASE c = b
      BY <1>b, <1>s, <1>9, <1>11, <3>1
    <3>2. CASE c # b
      BY <1>9, <1>10, <3>2 DEF Ordered
    <3> QED
      BY <3>1, <3>2
  <2> QED
    BY <1>6, <2>1 DEF Ordered
<1>13. ASSUME NEW d \in Address PROVE QueueOf(d)' = QueueOf(d)
  <2>1. Hash[d] \in Bucket
    BY HashAssumption
  <2>2. PICK q : Ring(Hash[d], q)
    BY <2>1 DEF Ordered
  <2> QED
    BY <1>9, <2>1, <2>2
<1>14. Waiters' = Waiters
  BY <1>13, WaitersSame
<1>15. ASSUME pc'[t] = "idle", NEW u \in Thread, Linked(u)'
       PROVE  waitAddr'[u] # wake[t].address
  <2> SUFFICES ASSUME waitAddr[u] = a PROVE FALSE
    BY <1>1, <1>a
  <2>1. u \in LinkedIn(b)
    BY <1>7, <1>15 DEF LinkedIn, BucketOf
  <2>2. PICK j \in 1 .. Len(s) : s[j] = u
    BY <1>s, <2>1, RingMembers
  <2>3. next[w] = s[1]
    BY <1>1, <1>3, <1>4, <1>15
  <2>4. k = Len(s)
    <3> SUFFICES ASSUME k # Len(s) PROVE FALSE
      OBVIOUS
    <3>1. k + 1 \in 1 .. Len(s) /\ 1 \in 1 .. Len(s) /\ k + 1 # 1 /\ s[k + 1] = s[1]
      BY <1>2, <1>4, <2>3
    <3> QED
      BY <1>4, <3>1
  <2> QED
    BY <1>5, <2>2, <2>4
<1> QED
  BY <1>6, <1>12, <1>14, <1>15

\* A block of the address of the wake is the first of its queue.
LEMMA TakeOrder ==
  ASSUME IInv, Ordered, NEW t \in Thread, WakeStep(t), Matches(t)
  PROVE  Ordered' /\ \E a \in Address : Queues!WakeFirst(a)
<1> USE NullAssumption
<1>a. PICK a \in Address : a = wake[t].address
  BY DEF WakeStep, IInv, FramesNamed
<1> DEFINE b == Hash[a]
<1>b. b \in Bucket
  BY HashAssumption
<1>s. PICK s : Ring(b, s) /\ Passed(b, s)
  BY <1>b DEF Ordered
<1>w. PICK w : w = wake[t].cursor
  OBVIOUS
<1>t. TypeOK
  BY DEF IInv
<1>1. /\ w \in Thread /\ Linked(w) /\ BucketOf(w) = b /\ pc[t] = "waking"
      /\ waitAddr' = waitAddr
      /\ \A u \in Thread : /\ InFrame(u)' <=> InFrame(u)
                           /\ pc'[u] = "waking" => pc[u] = "waking"
                           /\ u # t => /\ wake'[u] = wake[u]
                                       /\ pc[u] = "waking" => Hash[wake[u].address] # b
      /\ pc'[t] = "waking" => /\ wake'[t].address = a /\ wake'[t].cursor = next[w]
                              /\ head'[b] # NULL /\ next[w] # head'[b]
      /\ \E k \in 1 .. Len(s) : s[k] = w /\ \A j \in 1 .. k - 1 : waitAddr[s[j]] # a
  <2>1. Round(t, a, w, s)
    BY <1>a, <1>s, <1>w, WakeSees
  <2> QED
    BY <2>1 DEF Round
<1>3. WakeBlock(b, w) /\ waitAddr[w] = a
  BY <1>a, <1>w DEF WakeStep, Matches
<1>4. \A u \in Thread \ {w} : /\ next'[u] = RemovedNext(w)[u]
                              /\ InFrame(u)' = InFrame(u)
                              /\ waitAddr'[u] = waitAddr[u]
  BY <1>1, <1>3 DEF WakeBlock, InFrame
<1>5. /\ \E k \in 1 .. Len(s) : s[k] = w /\ Ring(b, Cut(s, k))'
      /\ \A c \in Bucket \ {b} :
           /\ LinkedIn(c)' = LinkedIn(c) /\ head'[c] = head[c]
           /\ \A u \in LinkedIn(c) : next'[u] = next[u] /\ waitAddr'[u] = waitAddr[u]
  <2> HIDE DEF b
  <2>1. head' = RemovedHead(b, w) /\ prev' = [RemovedPrev(w) EXCEPT ![w] = NULL]
    BY <1>3 DEF WakeBlock
  <2> QED
    BY <1>b, <1>s, <1>1, <1>4, <2>1, UnlinkRing
<1>6. /\ s \in Seq(Thread) /\ Len(s) \in Nat
      /\ \A i, j \in 1 .. Len(s) : s[i] = s[j] => i = j
  BY <1>s DEF Ring, Linking
<1>7. PICK k \in 1 .. Len(s) : /\ s[k] = w /\ Ring(b, Cut(s, k))'
                               /\ \A j \in 1 .. k - 1 : waitAddr[s[j]] # a
  BY <1>1, <1>5, <1>6
<1> DEFINE r == Cut(s, k)
<1>8. /\ next[w] = IF k = Len(s) THEN s[1] ELSE s[k + 1]
      /\ r \in Seq(Thread) /\ Len(r) = Len(s) - 1
      /\ \A i \in 1 .. Len(s) - 1 : r[i] = IF i < k THEN s[i] ELSE s[i + 1]
  <2>1. k \in 1 .. Len(s)
    BY <1>7
  <2>2. /\ r \in Seq(Thread) /\ Len(r) = Len(s) - 1
        /\ \A i \in 1 .. Len(s) - 1 : r[i] = IF i < k THEN s[i] ELSE s[i + 1]
    <3>1. Cut(s, k) \in Seq(Thread) /\ IsCut(Cut(s, k), s, k)
      BY <1>6, <2>1, CutIs
    <3> QED
      BY <3>1 DEF IsCut
  <2> QED
    BY <1>7, <1>s, <2>1, <2>2 DEF Ring, Linking
<1>9. /\ head'[b] = IF Len(r) = 0 THEN NULL ELSE r[1]
      /\ \A i, j \in 1 .. Len(r) : r[i] = r[j] => i = j
  BY <1>7 DEF Ring, Linking
<1>10. \A u \in Thread : event'[u] = IF u = w THEN "set" ELSE event[u]
  BY <1>t, <1>1, <1>3 DEF WakeBlock, TypeOK
<1>11. EventsClosed' /\ Signalled' = Signalled \cup {w}
  BY <1>1, <1>10 DEF Ordered, EventsClosed, Signalled, Linked
<1> HIDE DEF b, r
<1>12. ASSUME NEW c \in Bucket \ {b}, NEW q, Ring(c, q), Passed(c, q)
       PROVE  /\ Ring(c, q)' /\ Passed(c, q)'
              /\ \A d \in Address : Hash[d] = c => QueueOf(d)' = QueueOf(d)
  <2>1. \A u \in Thread : pc'[u] = "waking" /\ Hash[wake'[u].address] = c =>
          pc[u] = "waking" /\ wake'[u] = wake[u]
    BY <1>1 DEF b
  <2>2. \A u \in LinkedIn(c) : waitAddr'[u] = waitAddr[u]
    BY <1>1
  <2> QED
    BY <1>5, <1>12, <2>1, <2>2, RingStays, PassedStays
<1>13. Passed(b, r)'
  <2> SUFFICES ASSUME NEW u \in Thread, pc'[u] = "waking", Hash[wake'[u].address] = b,
                      NEW i \in 1 .. Len(r), r[i] = wake'[u].cursor, NEW j \in 1 .. i - 1
               PROVE  waitAddr'[r[j]] # wake'[u].address
    BY DEF Passed, b
  <2>1. u = t
    BY <1>1
  <2>2. wake'[t].address = a /\ r[i] = next[w] /\ Len(r) # 0 /\ next[w] # r[1]
    BY <1>1, <1>9, <2>1
  <2>3. k # Len(s)
    <3> SUFFICES ASSUME k = Len(s) PROVE FALSE
      OBVIOUS
    <3>1. next[w] = s[1] /\ r[1] = s[1]
      BY <1>6, <1>7, <1>8, <2>2
    <3> QED
      BY <2>2, <3>1
  <2>4. k \in 1 .. Len(r) /\ r[k] = s[k + 1] /\ next[w] = s[k + 1]
    BY <1>6, <1>7, <1>8, <2>3
  <2>5. i = k
    BY <1>9, <2>2, <2>4
  <2>6. j \in 1 .. k - 1 /\ j \in 1 .. Len(s) - 1 /\ j < k
    BY <1>6, <1>7, <1>8, <2>5
  <2>7. r[j] = s[j]
    BY <1>8, <2>6
  <2> QED
    BY <1>1, <1>7, <2>1, <2>2, <2>6, <2>7
<1>14. Ordered'
  <2>1. ASSUME NEW c \in Bucket PROVE \E q : Ring(c, q)' /\ Passed(c, q)'
    <3>1. CASE c = b
      BY <1>7, <1>13, <3>1 DEF r
    <3>2. CASE c # b
      BY <1>12, <3>2 DEF Ordered
    <3> QED
      BY <3>1, <3>2
  <2> QED
    BY <1>11, <2>1 DEF Ordered
<1>15. ASSUME NEW d \in Address
       PROVE  /\ d # a => QueueOf(d)' = QueueOf(d)
              /\ d = a => /\ QueueOf(a) # <<>> /\ Head(QueueOf(a)) = w
                          /\ QueueOf(a)' = Tail(QueueOf(a))
  <2>1. CASE Hash[d] # b
    <3>1. Hash[d] \in Bucket \ {b}
      BY <2>1, HashAssumption
    <3>2. PICK q : Ring(Hash[d], q) /\ Passed(Hash[d], q)
      BY <3>1 DEF Ordered
    <3> QED
      BY <1>12, <2>1, <3>1, <3>2 DEF b
  <2>2. CASE Hash[d] = b
    <3> DEFINE S == WaitersOf(d)
               q == Among(s, S)
               o == Among(r, S)
    <3>1. QueueOf(d) = q /\ QueueOf(d)' = o
      <4>1. WaitersOf(d)' = S
        BY <1>1 DEF WaitersOf
      <4>2. QueueOf(d) = Among(s, WaitersOf(d)) /\ QueueOf(d)' = Among(r, WaitersOf(d)')
        BY <1>s, <1>7, <2>2, QueueIs DEF r
      <4> QED
        BY <4>1, <4>2
    <3>2. s[k] \in S <=> d = a
      BY <1>1, <1>3, <1>7 DEF WaitersOf
    <3>3. d = a => \A j \in 1 .. k - 1 : s[j] \notin S
      BY <1>7 DEF WaitersOf
    <3>4. k \in 1 .. Len(s)
      BY <1>7
    <3> HIDE DEF S
    <3>5. /\ s[k] \notin S => o = q
          /\ s[k] \in S /\ (\A j \in 1 .. k - 1 : s[j] \notin S) =>
               q # <<>> /\ Head(q) = s[k] /\ Tail(q) = o
      BY <1>6, <3>4, QueueCut DEF r
    <3> QED
      BY <1>7, <3>1, <3>2, <3>3, <3>5
  <2> QED
    BY <2>1, <2>2
<1>16. Waiters[a] = QueueOf(a)
  BY DEF Waiters
<1>17. Waiters' = [Waiters EXCEPT ![a] = Tail(Waiters[a])]
  BY <1>15, <1>16 DEF Waiters
<1>18. Queues!WakeFirst(a)
  BY <1>11, <1>15, <1>16, <1>17 DEF Queues!WakeFirst
<1> QED
  BY <1>14, <1>18

-----------------------------------------------------------------------------
\* No list has a block at first.
LEMMA InitOrder == Init => Ordered /\ Queues!Init
<1> SUFFICES ASSUME Init PROVE Ordered /\ Queues!Init
  OBVIOUS
<1>1. \A t \in Thread : ~InFrame(t) /\ pc[t] = "idle" /\ event[t] = "none"
  BY DEF Init, InFrame
<1>2. \A b \in Bucket : head[b] = NULL /\ LinkedIn(b) = {}
  BY <1>1 DEF Init, LinkedIn, Linked
<1> DEFINE s == <<>>
<1>3. s \in Seq(Thread) /\ Len(s) = 0 /\ 1 .. 0 = {}
  OBVIOUS
<1>4. \A b \in Bucket : Ring(b, s) /\ Passed(b, s)
  BY <1>1, <1>2, <1>3 DEF Ring, Linking, Passed
<1>5. Ordered
  BY <1>1, <1>4 DEF Ordered, EventsClosed
<1>6. ASSUME NEW a \in Address PROVE QueueOf(a) = <<>>
  <2> DEFINE S == WaitersOf(a)
  <2>1. QueueOf(a) = Among(s, S)
    BY <1>4, HashAssumption, QueueIs
  <2> HIDE DEF s, S
  <2>2. Among(s, S) = <<>>
    BY <1>3, AmongNone
  <2> QED
    BY <2>1, <2>2
<1>7. Waiters = [a \in Address |-> <<>>] /\ Signalled = {}
  BY <1>1, <1>6 DEF Waiters, Signalled
<1> QED
  BY <1>5, <1>7 DEF Queues!Init

\* Every step keeps the order of the lists and is a step of the queues or none.
LEMMA NextOrder ==
  ASSUME IInv, Ordered, [Next]_vars
  PROVE  Ordered' /\ [Queues!Next]_<<Waiters, Signalled>>
<1>1. CASE UNCHANGED vars
  <2>1. UNCHANGED <<lock, head, waitAddr, next, prev, event, pc, wake>>
    BY <1>1 DEF vars, blockVars
  <2>2. \A b \in Bucket : LinkedIn(b)' = LinkedIn(b)
    BY <2>1 DEF LinkedIn, Linked, InFrame, BucketOf
  <2>3. ASSUME NEW b \in Bucket, NEW s, Ring(b, s), Passed(b, s)
        PROVE  /\ Ring(b, s)' /\ Passed(b, s)'
               /\ \A a \in Address : Hash[a] = b => QueueOf(a)' = QueueOf(a)
    BY <2>1, <2>2, <2>3, RingStays, PassedStays
  <2>4. Ordered'
    <3>1. \A b \in Bucket : \E s : Ring(b, s)' /\ Passed(b, s)'
      BY <2>3 DEF Ordered
    <3>2. EventsClosed'
      BY <2>1 DEF Ordered, EventsClosed, InFrame
    <3> QED
      BY <3>1, <3>2 DEF Ordered
  <2>5. ASSUME NEW a \in Address PROVE QueueOf(a)' = QueueOf(a)
    <3>1. Hash[a] \in Bucket
      BY HashAssumption
    <3>2. PICK s : Ring(Hash[a], s) /\ Passed(Hash[a], s)
      BY <3>1 DEF Ordered
    <3> QED
      BY <2>3, <3>1, <3>2
  <2>6. Waiters' = Waiters /\ Signalled' = Signalled
    BY <2>1, <2>5, WaitersSame DEF Signalled
  <2> QED
    BY <2>4, <2>6
<1>2. CASE Next
  <2>1. PICK t \in Thread :
          \/ \E a \in Address, v \in Value : Store(t, a, v)
          \/ \E a \in Address, v \in Value, finite \in BOOLEAN : WaitEnqueue(t, a, v, finite)
          \/ WaitSignalled(t)
          \/ WaitTimeout(t)
          \/ WaitTimeoutReturn(t)
          \/ \E a \in Address, all \in BOOLEAN : WakeBegin(t, a, all)
          \/ WakeStep(t)
    BY <1>2 DEF Next
  <2>2. CASE \/ \E a \in Address, v \in Value : Store(t, a, v)
             \/ WaitTimeout(t)
             \/ \E a \in Address, all \in BOOLEAN : WakeBegin(t, a, all)
    BY <2>2, QuietOrder
  <2>3. CASE \E a \in Address, v \in Value, finite \in BOOLEAN : WaitEnqueue(t, a, v, finite)
    <3>1. PICK a \in Address, v \in Value, finite \in BOOLEAN : WaitEnqueue(t, a, v, finite)
      BY <2>3
    <3>2. Ordered' /\ Queues!Wait(t, a)
      BY <3>1, EnqueueOrder
    <3> QED
      BY <3>2 DEF Queues!Next
  <2>4. CASE WaitSignalled(t)
    <3>1. Ordered' /\ Queues!Return(t)
      BY <2>4, SignalledOrder
    <3> QED
      BY <3>1 DEF Queues!Next
  <2>5. CASE WaitTimeoutReturn(t)
    <3>1. /\ Ordered'
          /\ Linked(t) => Queues!GiveUp(t, waitAddr[t])
          /\ ~Linked(t) => Queues!Return(t)
      BY <2>5, TimeoutOrder
    <3>2. waitAddr[t] \in Address
      BY <2>5 DEF IInv, FramesNamed, WaitTimeoutReturn, InFrame
    <3> QED
      BY <3>1, <3>2 DEF Queues!Next
  <2>6. CASE WakeStep(t)
    <3>1. CASE Matches(t)
      <4>1. Ordered' /\ \E a \in Address : Queues!WakeFirst(a)
        BY <2>6, <3>1, TakeOrder
      <4> QED
        BY <4>1 DEF Queues!Next
    <3>2. CASE ~Matches(t)
      BY <2>6, <3>2, PassOrder
    <3> QED
      BY <3>1, <3>2
  <2> QED
    BY <2>1, <2>2, <2>3, <2>4, <2>5, <2>6
<1> QED
  BY <1>1, <1>2

LEMMA OrderKept == Spec => [](IInv /\ Ordered)
<1>1. Init => IInv /\ Ordered
  BY InitIInv, InitOrder
<1>2. (IInv /\ Ordered) /\ [Next]_vars => (IInv /\ Ordered)'
  BY StepIInv, NextOrder
<1> QED
  BY <1>1, <1>2, PTL DEF Spec

\* The ring of every bucket is one cycle through all its blocks: nothing on a
\* list is beyond the reach of a walk from the head (rtlwoa.c:54-76).
THEOREM ListsAreWhole == Spec => []RingIsWholeList
<1>1. IInv /\ Ordered => RingIsWholeList
  <2> SUFFICES ASSUME Ordered, NEW b \in Bucket
               PROVE  /\ (head[b] = NULL) = (LinkedIn(b) = {})
                      /\ {Walk(b)[i] : i \in DOMAIN Walk(b)} = LinkedIn(b)
    BY DEF RingIsWholeList
  <2>1. PICK s : Ring(b, s)
    BY DEF Ordered
  <2>2. /\ s \in Seq(Thread) /\ Walk(b) = s
        /\ \A i \in 1 .. Len(s) : s[i] \in LinkedIn(b)
        /\ \A t \in LinkedIn(b) : \E i \in 1 .. Len(s) : s[i] = t
    BY <2>1, RingMembers, WalkIsRing
  <2>3. /\ Len(s) \in Nat /\ DOMAIN s = 1 .. Len(s)
        /\ head[b] = IF Len(s) = 0 THEN NULL ELSE s[1]
        /\ Len(s) # 0 => s[1] \in Thread
    BY <2>1 DEF Ring, Linking
  <2>4. head[b] = NULL <=> Len(s) = 0
    BY <2>3, NullAssumption
  <2>5. LinkedIn(b) = {} <=> Len(s) = 0
    <3>1. Len(s) # 0 => 1 \in 1 .. Len(s)
      BY <2>3
    <3>2. Len(s) = 0 => 1 .. Len(s) = {}
      BY <2>3
    <3> QED
      BY <2>2, <3>1, <3>2
  <2> QED
    BY <2>2, <2>3, <2>4, <2>5
<1> QED
  BY <1>1, OrderKept, PTL

\* A wake that ends at a block of another address has seen the whole list: no
\* waiter of its own address is left (rtlwoa.c:308-322).
THEOREM WakesFind == Spec => WakeFindsWaiters
<1> DEFINE Finds == \A t \in Thread :
             (pc[t] = "waking" /\ pc'[t] = "idle" /\ ~Matches(t)) =>
                \A u \in Thread : Linked(u)' => waitAddr'[u] # wake[t].address
<1>1. IInv /\ Ordered /\ [Next]_vars => [Finds]_vars
  <2> SUFFICES ASSUME IInv, Ordered, Next,
                      NEW t \in Thread, pc[t] = "waking", pc'[t] = "idle", ~Matches(t)
               PROVE  \A u \in Thread : Linked(u)' => waitAddr'[u] # wake[t].address
    OBVIOUS
  <2>t. TypeOK
    BY DEF IInv
  <2>1. WakeStep(t)
    <3>1. PICK p \in Thread :
            \/ \E a \in Address, v \in Value : Store(p, a, v)
            \/ \E a \in Address, v \in Value, finite \in BOOLEAN : WaitEnqueue(p, a, v, finite)
            \/ WaitSignalled(p)
            \/ WaitTimeout(p)
            \/ WaitTimeoutReturn(p)
            \/ \E a \in Address, all \in BOOLEAN : WakeBegin(p, a, all)
            \/ WakeStep(p)
      BY DEF Next
    <3>2. CASE p = t
      BY <3>1, <3>2 DEF Store, WaitEnqueue, WaitSignalled, WaitTimeout, WaitTimeoutReturn, WakeBegin
    <3>3. CASE p # t
      <4>1. pc'[t] = pc[t]
        BY <2>t, <3>1, <3>3 DEF Store, WaitEnqueue, WaitSignalled, WaitTimeout, WaitTimeoutReturn,
           LeaveFrame, WakeBegin, WakeStep, Release, TypeOK
      <4> QED
        BY <4>1
    <3> QED
      BY <3>2, <3>3
  <2> QED
    BY <2>1, PassOrder
<1>2. Spec => [][Finds]_vars
  BY <1>1, OrderKept, PTL DEF Spec
<1> QED
  BY <1>2 DEF WakeFindsWaiters

\* Wakes are served first come, first served per address, and a thread leaves a
\* queue unsignalled only by its own timeout (rtlwoa.c:260-264).
THEOREM QueuesAsPromised == Spec => ImplementsQueues
<1>1. Init => Queues!Init
  BY InitOrder
<1>2. IInv /\ Ordered /\ [Next]_vars => [Queues!Next]_<<Waiters, Signalled>>
  BY NextOrder
<1>3. Spec => Queues!Init /\ [][Queues!Next]_<<Waiters, Signalled>>
  BY <1>1, <1>2, OrderKept, PTL DEF Spec
<1> QED
  BY <1>3 DEF ImplementsQueues, Queues!Spec, Queues!vars
=============================================================================
