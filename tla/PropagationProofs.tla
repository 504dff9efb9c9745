--------------------------- MODULE PropagationProofs ---------------------------
(***************************************************************************)
(* Proofs about Propagation for any set of processes, programs, parameters *)
(* and any number of system calls that fail: what a child finds, when it   *)
(* runs, and which processes VxKex follows.                                *)
(***************************************************************************)
EXTENDS Propagation, TLAPS

Stages == {"alloc_hook", "write_hook", "find_open_key", "write_jump", "alloc_params",
           "write_params", "write_subsys", "clear_flag", "bail"}

CallState ==
  [at : Stages \cup {"none", "create", "native", "done"}, suspended : BOOLEAN, retried : BOOLEAN]
MemState ==
  [page : {"none", "raw", "hook"}, openKey : {"syscall", "hook"}, stuck : BOOLEAN,
   ifeo : Params \cup {"none", "raw"}, subsys : BOOLEAN, keyMissing : BOOLEAN]
KexState ==
  [at : {"none", "inherit", "clean", "restore", "enable"}, propagated : BOOLEAN,
   params : Params, hooks : BOOLEAN]
Life == {"none", "creating", "failed", "made", "loading", "init", "running", "crashed"}

Typed ==
  /\ life \in [Process -> Life]
  /\ image \in [Process -> Images] /\ parent \in [Process -> Process]
  /\ call \in [Process -> CallState]
  /\ mem \in [Process -> MemState]
  /\ kex \in [Process -> KexState]
  /\ faults \in 0 .. MaxFaults

\* In what follows l, o, m and x are a process's life, call, mem and kex.  What
\* the creator's call, the process and KexDll in it are doing agrees.
InStep(l, o, m, x) ==
  /\ l \in {"none", "creating"} => m.page = "none" /\ m.openKey = "syscall" /\ ~m.stuck
                                    /\ m.ifeo = "none" /\ ~m.subsys
  /\ l \in {"none", "creating", "failed", "made", "loading"} => x = NoKex
  /\ o.at = "none" <=> l = "none"
  /\ o.at \in {"create", "native"} <=> l = "creating"
  /\ o.at \in Stages => l = "made"
  /\ x.at # "none" <=> l = "init"
  /\ l = "crashed" => m.stuck

\* A jump leads to a hook procedure that is there.
JumpLeads(l, o, m, x) ==
  /\ m.openKey = "hook" => m.page = "hook" \/ x.at = "restore" \/ l = "crashed"
  /\ o.at \in {"alloc_hook", "write_hook"} => m.openKey = "syscall"
  /\ o.at \in {"find_open_key", "write_jump"} => m.page = "hook"
  /\ x.at = "restore" => m.openKey = "hook"

\* What Peb->SubSystemData points to has been written.
ParamsWritten(o, m) ==
  /\ m.subsys \/ o.at = "write_subsys" => m.ifeo \in Params
  /\ m.subsys => o.at \in {"clear_flag", "bail", "done"}

\* Propagation goes on from a process only if it has not opted out.
EnabledRightly(l, x) == x.hooks => l = "running" /\ x.params \notin DisableForChild

\* Nobody touches a process that is not followed.
Followed(c) == kex[parent[c]].hooks /\ ~image[c].powershell
OnlyFollowed(o, m, x, followed) ==
  /\ o.at \in Stages \cup {"create"} => followed
  /\ o.at = "native" => ~followed
  /\ m.page # "none" \/ m.subsys \/ x.propagated => followed

\* The user's program is started by something else.
Alone(l, o, m, x) ==
  /\ l \in {"loading", "init", "running", "crashed"} /\ o.at = "done"
  /\ m.page = "none" /\ ~m.subsys /\ ~x.propagated

\* Without a failure each step of the creator and of the child finds all that
\* the steps before it have done.
Expected(c) == IF image[c].own # NULL THEN image[c].own ELSE kex[parent[c]].params
Prepared(c, m) ==
  /\ m.openKey = "hook" /\ m.subsys /\ m.ifeo = kex[parent[c]].params
  /\ ChecksFlagFirst(c) => ~m.keyMissing
Emptied(m) == ~m.subsys /\ m.ifeo = "none"
Complete(c, l, o, m, x) ==
  /\ ~m.stuck
  /\ o.at \in {"alloc_params", "write_params", "write_subsys", "clear_flag"} => m.openKey = "hook"
  /\ o.at \in {"write_subsys", "clear_flag"} => m.ifeo = kex[parent[c]].params
  /\ o.at = "clear_flag" => m.subsys
  /\ o.at = "bail" \/ (o.at = "done" /\ l \in {"made", "loading"}) \/ x.at = "inherit" =>
       Prepared(c, m)
  /\ x.at = "inherit" => x.params = InitialParams(c)
  /\ x.at \in {"clean", "restore", "enable"} \/ l = "running" =>
       x.propagated /\ x.params = Expected(c) /\ Emptied(m)
  /\ x.at = "clean" => m.openKey = "hook"
  /\ x.at \in {"restore", "enable"} \/ l = "running" => m.page = "none"
  /\ x.at = "enable" \/ l = "running" => m.openKey = "syscall"

Good(c, l, o, m, x) ==
  /\ InStep(l, o, m, x)
  /\ JumpLeads(l, o, m, x)
  /\ ParamsWritten(o, m)
  /\ EnabledRightly(l, x)
  /\ IF c = Root THEN Alone(l, o, m, x) ELSE OnlyFollowed(o, m, x, Followed(c))

AllGood == \A c \in Process : Good(c, life[c], call[c], mem[c], kex[c])

\* Creators run.
ParentsRun == \A c \in Process : c # Root /\ life[c] # "none" => life[parent[c]] = "running"

AllComplete ==
  faults = 0 =>
    \A c \in Process \ {Root} : life[c] # "none" /\ Followed(c) =>
      Complete(c, life[c], call[c], mem[c], kex[c])

\* The inductive invariant.
IInv == Typed /\ AllGood /\ ParentsRun /\ AllComplete

-----------------------------------------------------------------------------
(* A step of one process that has been created and does not run yet *)

LEMMA StepKeeps ==
  ASSUME IInv, NEW c \in Process, life[c] \notin {"none", "running"},
         NEW l \in Life \ {"none"}, NEW o \in CallState, NEW m \in MemState, NEW x \in KexState,
         life' = [life EXCEPT ![c] = l], call' = [call EXCEPT ![c] = o],
         mem' = [mem EXCEPT ![c] = m], kex' = [kex EXCEPT ![c] = x],
         UNCHANGED <<image, parent>>, faults' \in 0 .. MaxFaults, faults <= faults',
         Good(c, l, o, m, x),
         c # Root /\ faults' = 0 /\ Followed(c) => Complete(c, l, o, m, x)
  PROVE  IInv'
<1>1. Typed /\ image' = image /\ parent' = parent /\ faults \in Nat /\ faults' \in Nat
  BY SystemAssumption DEF IInv, Typed
<1>2. life' \in [Process -> Life] /\ life'[c] = l /\ \A d \in Process : d # c => life'[d] = life[d]
  BY <1>1 DEF Typed
<1>3. call' \in [Process -> CallState] /\ call'[c] = o /\ \A d \in Process : d # c => call'[d] = call[d]
  BY <1>1 DEF Typed
<1>4. mem' \in [Process -> MemState] /\ mem'[c] = m /\ \A d \in Process : d # c => mem'[d] = mem[d]
  BY <1>1 DEF Typed
<1>5. kex' \in [Process -> KexState] /\ kex'[c] = x /\ \A d \in Process : d # c => kex'[d] = kex[d]
  BY <1>1 DEF Typed
<1>6. Typed'
  BY <1>1, <1>2, <1>3, <1>4, <1>5 DEF Typed
<1>7. \A d \in Process : d # Root /\ life[d] # "none" =>
        /\ parent[d] \in Process /\ parent[d] # c
        /\ life'[parent[d]] = "running" /\ kex'[parent[d]] = kex[parent[d]]
  BY <1>1, <1>2, <1>5 DEF IInv, ParentsRun, Typed
<1>8. ParentsRun'
  BY <1>1, <1>2, <1>7 DEF ParentsRun
<1>9. \A d \in Process : d # Root /\ life[d] # "none" => (Followed(d)' <=> Followed(d))
  BY <1>1, <1>7 DEF Followed
<1>10. AllGood'
  <2> SUFFICES ASSUME NEW d \in Process
               PROVE  /\ InStep(life'[d], call'[d], mem'[d], kex'[d])
                      /\ JumpLeads(life'[d], call'[d], mem'[d], kex'[d])
                      /\ ParamsWritten(call'[d], mem'[d])
                      /\ EnabledRightly(life'[d], kex'[d])
                      /\ IF d = Root THEN Alone(life'[d], call'[d], mem'[d], kex'[d])
                         ELSE OnlyFollowed(call'[d], mem'[d], kex'[d], Followed(d)')
    BY DEF AllGood, Good, InStep, JumpLeads, ParamsWritten, EnabledRightly, Alone, OnlyFollowed
  <2>1. CASE d = c
    BY <1>2, <1>3, <1>4, <1>5, <1>9, <2>1 DEF Good, OnlyFollowed
  <2>2. CASE d # c
    <3>1. /\ life'[d] = life[d] /\ call'[d] = call[d] /\ mem'[d] = mem[d] /\ kex'[d] = kex[d]
          /\ Good(d, life[d], call[d], mem[d], kex[d])
      BY <1>2, <1>3, <1>4, <1>5, <2>2 DEF IInv, AllGood
    <3>2. CASE d = Root \/ life[d] # "none"
      BY <1>9, <3>1, <3>2 DEF Good, OnlyFollowed
    <3>3. CASE d # Root /\ life[d] = "none"
      <4>1. /\ call[d].at = "none" /\ mem[d].page = "none" /\ ~mem[d].subsys
            /\ ~kex[d].propagated
        BY <3>1, <3>3 DEF Good, InStep, NoKex
      <4> QED
        BY <3>1, <3>3, <4>1 DEF Good, OnlyFollowed, Stages
    <3> QED
      BY <3>2, <3>3
  <2> QED
    BY <2>1, <2>2
<1>11. AllComplete'
  <2> SUFFICES ASSUME NEW d \in Process \ {Root}, faults' = 0, life'[d] # "none", Followed(d)'
               PROVE  Complete(d, life[d], call[d], mem[d], kex[d])'
    BY DEF AllComplete
  <2>1. life[d] # "none"
    BY <1>2
  <2>2. kex'[parent[d]] = kex[parent[d]] /\ Followed(d) /\ faults = 0
    BY <1>1, <1>7, <1>9, <2>1
  <2>3. Complete(d, life'[d], call'[d], mem'[d], kex'[d])
    <3>1. CASE d = c
      BY <1>2, <1>3, <1>4, <1>5, <2>2, <3>1
    <3>2. CASE d # c
      <4>1. Complete(d, life[d], call[d], mem[d], kex[d])
        BY <2>1, <2>2 DEF IInv, AllComplete
      <4> QED
        BY <1>2, <1>3, <1>4, <1>5, <3>2, <4>1
    <3> QED
      BY <3>1, <3>2
  <2> QED
    BY <1>1, <2>2, <2>3
       DEF Complete, Prepared, Expected, Emptied, InitialParams, ChecksFlagFirst
<1> QED
  BY <1>6, <1>8, <1>10, <1>11 DEF IInv

\* What the invariant says of one process.
LEMMA Held ==
  ASSUME IInv, NEW c \in Process
  PROVE  /\ life[c] \in Life /\ image[c] \in Images /\ parent[c] \in Process
         /\ call[c] \in CallState /\ mem[c] \in MemState /\ kex[c] \in KexState
         /\ faults \in 0 .. MaxFaults /\ MaxFaults \in Nat
         /\ InStep(life[c], call[c], mem[c], kex[c])
         /\ JumpLeads(life[c], call[c], mem[c], kex[c])
         /\ ParamsWritten(call[c], mem[c])
         /\ EnabledRightly(life[c], kex[c])
         /\ c = Root => Alone(life[c], call[c], mem[c], kex[c])
         /\ c # Root => OnlyFollowed(call[c], mem[c], kex[c], Followed(c))
         /\ c # Root /\ life[c] # "none" /\ faults = 0 /\ Followed(c) =>
              Complete(c, life[c], call[c], mem[c], kex[c])
         /\ life = [life EXCEPT ![c] = life[c]] /\ call = [call EXCEPT ![c] = call[c]]
         /\ mem = [mem EXCEPT ![c] = mem[c]] /\ kex = [kex EXCEPT ![c] = kex[c]]
<1>1. Typed
  BY DEF IInv
<1>2. Good(c, life[c], call[c], mem[c], kex[c])
  BY DEF IInv, AllGood
<1>3. c # Root /\ life[c] # "none" /\ faults = 0 /\ Followed(c) =>
        Complete(c, life[c], call[c], mem[c], kex[c])
  BY DEF IInv, AllComplete
<1>4. /\ life[c] \in Life /\ image[c] \in Images /\ parent[c] \in Process
      /\ call[c] \in CallState /\ mem[c] \in MemState /\ kex[c] \in KexState
      /\ faults \in 0 .. MaxFaults
  BY <1>1 DEF Typed
<1>5. /\ life = [life EXCEPT ![c] = life[c]] /\ call = [call EXCEPT ![c] = call[c]]
      /\ mem = [mem EXCEPT ![c] = mem[c]] /\ kex = [kex EXCEPT ![c] = kex[c]]
  BY <1>1 DEF Typed
<1> QED
  BY <1>2, <1>3, <1>4, <1>5, SystemAssumption DEF Good

\* A call that goes on.
LEMMA Went ==
  ASSUME IInv, NEW c \in Process, NEW at \in Stages \cup {"none", "create", "native", "done"}
  PROVE  \E o \in CallState :
           o = [call[c] EXCEPT !.at = at] /\ o.at = at /\ o.suspended = call[c].suspended
<1> DEFINE o == [call[c] EXCEPT !.at = at]
<1>1. call[c] \in CallState
  BY Held
<1>2. o.at = at /\ o.suspended = call[c].suspended
  BY <1>1 DEF CallState
<1>3. o \in CallState
  <2>1. o = [at |-> at, suspended |-> call[c].suspended, retried |-> call[c].retried]
    BY <1>1 DEF CallState
  <2>2. call[c].suspended \in BOOLEAN /\ call[c].retried \in BOOLEAN
    BY <1>1 DEF CallState
  <2> HIDE DEF o
  <2> QED
    BY <2>1, <2>2 DEF CallState
<1> QED
  BY <1>2, <1>3

-----------------------------------------------------------------------------
(* The preparation of a child *)

\* A step of the preparation leaves what the next one needs.
Handed(c, next, m) ==
  /\ m.openKey = "hook" => m.page = "hook"
  /\ next \in {"alloc_hook", "write_hook"} => m.openKey = "syscall"
  /\ next \in {"find_open_key", "write_jump"} => m.page = "hook"
  /\ m.subsys \/ next = "write_subsys" => m.ifeo \in Params
  /\ m.subsys => next \in {"clear_flag", "bail"}
HandedWhole(c, next, m) ==
  /\ ~m.stuck
  /\ next \in {"alloc_params", "write_params", "write_subsys", "clear_flag"} => m.openKey = "hook"
  /\ next \in {"write_subsys", "clear_flag"} => m.ifeo = kex[parent[c]].params
  /\ next = "clear_flag" => m.subsys
  /\ next = "bail" => Prepared(c, m)

LEMMA StageKeeps ==
  ASSUME IInv, NEW c \in Process, call[c].at \in Stages, NEW next \in Stages, NEW m \in MemState,
         call' = [call EXCEPT ![c].at = next], mem' = [mem EXCEPT ![c] = m],
         UNCHANGED <<life, image, parent, kex>>,
         faults' \in 0 .. MaxFaults, faults <= faults',
         Handed(c, next, m), faults' = 0 => HandedWhole(c, next, m)
  PROVE  IInv'
<1>0. PICK o \in CallState : o = [call[c] EXCEPT !.at = next] /\ o.at = next
  BY Went
<1>1. call' = [call EXCEPT ![c] = o] /\ o.at = next
  BY <1>0
<1>2. /\ life[c] = "made" /\ kex[c] = NoKex /\ c # Root /\ Followed(c)
      /\ NoKex \in KexState
  BY Held DEF InStep, Alone, OnlyFollowed, Stages
<1>3. /\ NoKex.at = "none" /\ ~NoKex.propagated /\ ~NoKex.hooks
  BY DEF NoKex
<1>4. InStep("made", o, m, NoKex) /\ EnabledRightly("made", NoKex)
  BY <1>1, <1>3 DEF InStep, EnabledRightly, Stages
<1>5. JumpLeads("made", o, m, NoKex) /\ ParamsWritten(o, m)
  BY <1>1, <1>3 DEF JumpLeads, ParamsWritten, Handed
<1>6. OnlyFollowed(o, m, NoKex, Followed(c))
  BY <1>1, <1>2, <1>3 DEF OnlyFollowed, Stages
<1>7. faults' = 0 => Complete(c, "made", o, m, NoKex)
  BY <1>1, <1>3 DEF Complete, HandedWhole, Stages
<1>8. life' = [life EXCEPT ![c] = "made"] /\ kex' = [kex EXCEPT ![c] = NoKex]
  BY <1>2, Held
<1>9. "made" \in Life \ {"none"}
  BY DEF Life
<1> QED
  BY <1>1, <1>2, <1>4, <1>5, <1>6, <1>7, <1>8, <1>9, StepKeeps DEF Good

\* What the preparation finds.
LEMMA AtStage ==
  ASSUME IInv, NEW c \in Process, call[c].at \in Stages
  PROVE  /\ mem[c] \in MemState /\ kex[parent[c]].params \in Params
         /\ Handed(c, call[c].at, mem[c])
         /\ faults = 0 => HandedWhole(c, call[c].at, mem[c])
<1>1. /\ life[c] = "made" /\ kex[c] = NoKex /\ c # Root /\ Followed(c)
      /\ NoKex.at = "none"
  BY Held DEF InStep, Alone, OnlyFollowed, Stages, NoKex
<1>2. parent[c] \in Process
  BY Held
<1>3. kex[parent[c]].params \in Params
  BY <1>2, Held DEF KexState
<1>4. Handed(c, call[c].at, mem[c])
  BY <1>1, Held DEF Handed, JumpLeads, ParamsWritten, Stages
<1>5. faults = 0 => HandedWhole(c, call[c].at, mem[c])
  BY <1>1, Held DEF Complete, HandedWhole
<1> QED
  BY <1>3, <1>4, <1>5, Held

\* A step that can fail.
LEMMA PrepareKeeps ==
  ASSUME IInv, NEW c \in Process, NEW at \in Stages, NEW next \in Stages, NEW m \in MemState,
         Prepare(c, at, next, m), Handed(c, next, m), faults = 0 => HandedWhole(c, next, m)
  PROVE  IInv'
<1>1. /\ call[c].at \in Stages /\ faults \in 0 .. MaxFaults /\ MaxFaults \in Nat
      /\ UNCHANGED <<life, image, parent, kex>>
  BY Held DEF Prepare
<1>2. CASE /\ call' = [call EXCEPT ![c].at = next]
           /\ mem' = [mem EXCEPT ![c] = m]
           /\ UNCHANGED faults
  <2>1. faults' \in 0 .. MaxFaults /\ faults <= faults' /\ (faults' = 0 => faults = 0)
    BY <1>1, <1>2
  <2> QED
    BY <1>1, <1>2, <2>1, StageKeeps
<1>3. CASE Fault /\ call' = [call EXCEPT ![c].at = "bail"] /\ UNCHANGED mem
  <2>1. faults' \in 0 .. MaxFaults /\ faults <= faults' /\ faults' # 0
    BY <1>1, <1>3 DEF Fault
  <2>2. mem' = [mem EXCEPT ![c] = mem[c]] /\ mem[c] \in MemState
    BY <1>3, Held
  <2>3. "bail" \in Stages /\ Handed(c, "bail", mem[c])
    BY <1>1, AtStage DEF Handed, Stages
  <2> QED
    BY <1>1, <1>3, <2>1, <2>2, <2>3, StageKeeps
<1> QED
  BY <1>2, <1>3 DEF Prepare

LEMMA AllocateHookKeeps ==
  ASSUME IInv, NEW c \in Process, AllocateHook(c)
  PROVE  IInv'
<1> DEFINE m == [mem[c] EXCEPT !.page = "raw"]
<1>1. call[c].at = "alloc_hook" /\ Prepare(c, "alloc_hook", "write_hook", m)
  BY DEF AllocateHook, Prepare
<1>2. {"alloc_hook", "write_hook"} \subseteq Stages
  BY DEF Stages
<1>3. /\ m \in MemState /\ m.page = "raw" /\ m.openKey = mem[c].openKey
      /\ m.stuck = mem[c].stuck /\ m.subsys = mem[c].subsys /\ m.ifeo = mem[c].ifeo
  BY Held DEF MemState
<1> HIDE DEF m
<1>4. Handed(c, "write_hook", m) /\ (faults = 0 => HandedWhole(c, "write_hook", m))
  BY <1>1, <1>2, <1>3, AtStage DEF Handed, HandedWhole
<1> QED
  BY <1>1, <1>2, <1>3, <1>4, PrepareKeeps

LEMMA WriteHookKeeps ==
  ASSUME IInv, NEW c \in Process, WriteHook(c)
  PROVE  IInv'
<1> DEFINE m == [mem[c] EXCEPT !.page = "hook"]
<1>1. call[c].at = "write_hook" /\ Prepare(c, "write_hook", "find_open_key", m)
  BY DEF WriteHook, Prepare
<1>2. {"write_hook", "find_open_key"} \subseteq Stages
  BY DEF Stages
<1>3. /\ m \in MemState /\ m.page = "hook" /\ m.openKey = mem[c].openKey
      /\ m.stuck = mem[c].stuck /\ m.subsys = mem[c].subsys /\ m.ifeo = mem[c].ifeo
  BY Held DEF MemState
<1> HIDE DEF m
<1>4. Handed(c, "find_open_key", m) /\ (faults = 0 => HandedWhole(c, "find_open_key", m))
  BY <1>1, <1>2, <1>3, AtStage DEF Handed, HandedWhole
<1> QED
  BY <1>1, <1>2, <1>3, <1>4, PrepareKeeps

LEMMA FindOpenKeyKeeps ==
  ASSUME IInv, NEW c \in Process, FindOpenKey(c)
  PROVE  IInv'
<1>1. /\ call[c].at = "find_open_key" /\ {"find_open_key", "write_jump"} \subseteq Stages
      /\ faults \in 0 .. MaxFaults /\ mem[c] \in MemState
  BY Held DEF FindOpenKey, Prepare, Stages
<1>2. /\ Handed(c, "write_jump", mem[c])
      /\ faults = 0 => HandedWhole(c, "write_jump", mem[c])
  BY <1>1, AtStage DEF Handed, HandedWhole
<1>3. CASE image[c].bits = image[parent[c]].bits
  <2>1. /\ call' = [call EXCEPT ![c].at = "write_jump"]
        /\ UNCHANGED <<life, image, parent, mem, kex, faults>>
    BY <1>3 DEF FindOpenKey
  <2>2. mem' = [mem EXCEPT ![c] = mem[c]] /\ faults' \in 0 .. MaxFaults /\ faults <= faults'
    BY <1>1, <2>1, Held
  <2> QED
    BY <1>1, <1>2, <2>1, <2>2, StageKeeps
<1>4. CASE image[c].bits # image[parent[c]].bits
  <2>1. Prepare(c, "find_open_key", "write_jump", mem[c])
    BY <1>4 DEF FindOpenKey
  <2> QED
    BY <1>1, <1>2, <2>1, PrepareKeeps
<1> QED
  BY <1>3, <1>4

LEMMA WriteJumpKeeps ==
  ASSUME IInv, NEW c \in Process, WriteJump(c)
  PROVE  IInv'
<1> DEFINE m == [mem[c] EXCEPT !.openKey = "hook"]
           w == [m EXCEPT !.stuck = TRUE]
           s == [mem[c] EXCEPT !.stuck = TRUE]
<1>1. /\ call[c].at = "write_jump" /\ {"write_jump", "alloc_params", "bail"} \subseteq Stages
      /\ faults \in 0 .. MaxFaults /\ MaxFaults \in Nat /\ mem[c] \in MemState
  BY Held DEF WriteJump, WriteProcessMemory, Prepare, Stages
<1>2. WriteProcessMemory(c, "write_jump", "alloc_params", m)
  BY DEF WriteJump
<1>3. /\ m \in MemState /\ m.openKey = "hook" /\ m.page = mem[c].page
      /\ m.stuck = mem[c].stuck /\ m.subsys = mem[c].subsys /\ m.ifeo = mem[c].ifeo
  BY <1>1 DEF MemState
<1>4. /\ s \in MemState /\ s.openKey = mem[c].openKey /\ s.page = mem[c].page
      /\ s.subsys = mem[c].subsys /\ s.ifeo = mem[c].ifeo
  BY <1>1 DEF MemState
<1>5. mem' = [mem EXCEPT ![c].stuck = TRUE] => mem' = [mem EXCEPT ![c] = s]
  OBVIOUS
<1> HIDE DEF m, s
<1>6. /\ w \in MemState /\ w.openKey = "hook" /\ w.page = mem[c].page
      /\ w.subsys = mem[c].subsys /\ w.ifeo = mem[c].ifeo
  BY <1>3 DEF MemState
<1> HIDE DEF w
<1>7. /\ Handed(c, "alloc_params", m) /\ Handed(c, "alloc_params", w) /\ Handed(c, "bail", s)
      /\ faults = 0 => HandedWhole(c, "alloc_params", m)
  BY <1>1, <1>3, <1>4, <1>6, AtStage DEF Handed, HandedWhole
<1>8. CASE Prepare(c, "write_jump", "alloc_params", m)
  BY <1>1, <1>3, <1>7, <1>8, PrepareKeeps
<1>9. CASE /\ Fault /\ call' = [call EXCEPT ![c].at = "alloc_params"]
           /\ mem' = [mem EXCEPT ![c] = w]
           /\ UNCHANGED <<life, image, parent, kex>>
  <2>1. faults' \in 0 .. MaxFaults /\ faults <= faults' /\ faults' # 0
    BY <1>1, <1>9 DEF Fault
  <2> QED
    BY <1>1, <1>6, <1>7, <1>9, <2>1, StageKeeps
<1>10. CASE /\ faults + 2 <= MaxFaults /\ faults' = faults + 2
            /\ call' = [call EXCEPT ![c].at = "bail"]
            /\ mem' = [mem EXCEPT ![c].stuck = TRUE]
            /\ UNCHANGED <<life, image, parent, kex>>
  <2>1. faults' \in 0 .. MaxFaults /\ faults <= faults' /\ faults' # 0
    BY <1>1, <1>10
  <2> QED
    BY <1>1, <1>4, <1>5, <1>7, <1>10, <2>1, StageKeeps
<1> QED
  BY <1>2, <1>8, <1>9, <1>10 DEF WriteProcessMemory, w

LEMMA AllocateParamsKeeps ==
  ASSUME IInv, NEW c \in Process, AllocateParams(c)
  PROVE  IInv'
<1> DEFINE m == [mem[c] EXCEPT !.ifeo = "raw"]
<1>1. call[c].at = "alloc_params" /\ Prepare(c, "alloc_params", "write_params", m)
  BY DEF AllocateParams, Prepare
<1>2. {"alloc_params", "write_params"} \subseteq Stages
  BY DEF Stages
<1>3. /\ m \in MemState /\ m.page = mem[c].page /\ m.openKey = mem[c].openKey
      /\ m.stuck = mem[c].stuck /\ m.subsys = mem[c].subsys
  BY Held DEF MemState
<1> HIDE DEF m
<1>4. Handed(c, "write_params", m) /\ (faults = 0 => HandedWhole(c, "write_params", m))
  BY <1>1, <1>2, <1>3, AtStage DEF Handed, HandedWhole
<1> QED
  BY <1>1, <1>2, <1>3, <1>4, PrepareKeeps

LEMMA WriteParamsKeeps ==
  ASSUME IInv, NEW c \in Process, WriteParams(c)
  PROVE  IInv'
<1> DEFINE p == kex[parent[c]].params
           m == [mem[c] EXCEPT !.ifeo = p]
<1>1. call[c].at = "write_params" /\ Prepare(c, "write_params", "write_subsys", m)
  BY DEF WriteParams, Prepare
<1>2. {"write_params", "write_subsys"} \subseteq Stages
  BY DEF Stages
<1>3. p \in Params
  BY <1>1, <1>2, AtStage
<1> HIDE DEF p
<1>4. /\ m \in MemState /\ m.page = mem[c].page /\ m.openKey = mem[c].openKey
      /\ m.stuck = mem[c].stuck /\ m.subsys = mem[c].subsys /\ m.ifeo = p
  BY <1>3, Held DEF MemState
<1> HIDE DEF m
<1>5. Handed(c, "write_subsys", m) /\ (faults = 0 => HandedWhole(c, "write_subsys", m))
  BY <1>1, <1>2, <1>3, <1>4, AtStage DEF Handed, HandedWhole, p
<1> QED
  BY <1>1, <1>2, <1>4, <1>5, PrepareKeeps

LEMMA WriteSubSystemDataKeeps ==
  ASSUME IInv, NEW c \in Process, WriteSubSystemData(c)
  PROVE  IInv'
<1> DEFINE m == [mem[c] EXCEPT !.subsys = TRUE]
           next == IF ChecksFlagFirst(c) THEN "clear_flag" ELSE "bail"
<1>1. call[c].at = "write_subsys" /\ Prepare(c, "write_subsys", next, m)
  BY DEF WriteSubSystemData, Prepare
<1>2. "write_subsys" \in Stages /\ next \in Stages /\ next \in {"clear_flag", "bail"}
  BY DEF Stages
<1>3. /\ m \in MemState /\ m.page = mem[c].page /\ m.openKey = mem[c].openKey
      /\ m.stuck = mem[c].stuck /\ m.subsys /\ m.ifeo = mem[c].ifeo
  BY Held DEF MemState
<1>4. next = "bail" => ~ChecksFlagFirst(c)
  OBVIOUS
<1> HIDE DEF m, next
<1>5. Handed(c, next, m) /\ (faults = 0 => HandedWhole(c, next, m))
  BY <1>1, <1>2, <1>3, <1>4, AtStage DEF Handed, HandedWhole, Prepared
<1> QED
  BY <1>1, <1>2, <1>3, <1>5, PrepareKeeps

LEMMA ClearKeyMissingKeeps ==
  ASSUME IInv, NEW c \in Process, ClearKeyMissing(c)
  PROVE  IInv'
<1> DEFINE m == [mem[c] EXCEPT !.keyMissing = FALSE]
<1>1. call[c].at = "clear_flag" /\ Prepare(c, "clear_flag", "bail", m)
  BY DEF ClearKeyMissing, Prepare
<1>2. {"clear_flag", "bail"} \subseteq Stages
  BY DEF Stages
<1>3. /\ m \in MemState /\ m.page = mem[c].page /\ m.openKey = mem[c].openKey
      /\ m.stuck = mem[c].stuck /\ m.subsys = mem[c].subsys /\ m.ifeo = mem[c].ifeo
      /\ ~m.keyMissing
  BY Held DEF MemState
<1> HIDE DEF m
<1>4. Handed(c, "bail", m) /\ (faults = 0 => HandedWhole(c, "bail", m))
  BY <1>1, <1>2, <1>3, AtStage DEF Handed, HandedWhole, Prepared
<1> QED
  BY <1>1, <1>2, <1>3, <1>4, PrepareKeeps

-----------------------------------------------------------------------------
(* The end of a call, and its beginning *)

\* The call returns, and the child is left suspended, is let run, or is lost.
LEMMA ReturnKeeps ==
  ASSUME IInv, NEW c \in Process, call[c].at = "bail" \/ (call[c].at = "done" /\ life[c] = "made"),
         NEW l \in {"made", "loading", "failed"},
         life' = [life EXCEPT ![c] = l], Return(c), UNCHANGED <<image, parent, mem, kex>>,
         faults' \in 0 .. MaxFaults, faults <= faults'
  PROVE  IInv'
<1>0. PICK o \in CallState : o = [call[c] EXCEPT !.at = "done"] /\ o.at = "done"
  BY Went
<1>1. call' = [call EXCEPT ![c] = o] /\ o.at = "done"
  BY <1>0 DEF Return
<1>2. /\ life[c] = "made" /\ kex[c] = NoKex /\ c # Root
      /\ mem[c] \in MemState /\ kex[c] \in KexState
      /\ NoKex.at = "none" /\ ~NoKex.propagated /\ ~NoKex.hooks
      /\ mem' = [mem EXCEPT ![c] = mem[c]] /\ kex' = [kex EXCEPT ![c] = NoKex]
  <2>1. life[c] = "made" /\ kex[c] = NoKex /\ c # Root
    BY Held DEF InStep, Alone, Stages
  <2>2. mem[c] \in MemState /\ kex[c] \in KexState
    BY Held
  <2>3. mem' = [mem EXCEPT ![c] = mem[c]] /\ kex' = [kex EXCEPT ![c] = NoKex]
    BY <2>1, Held
  <2>4. NoKex.at = "none" /\ ~NoKex.propagated /\ ~NoKex.hooks
    BY DEF NoKex
  <2> QED
    BY <2>1, <2>2, <2>3, <2>4
<1>3. InStep(l, o, mem[c], NoKex) /\ EnabledRightly(l, NoKex)
  BY <1>1, <1>2 DEF InStep, EnabledRightly, Stages
<1>4. JumpLeads(l, o, mem[c], NoKex) /\ ParamsWritten(o, mem[c])
  BY <1>1, <1>2, Held DEF JumpLeads, ParamsWritten
<1>5. OnlyFollowed(o, mem[c], NoKex, Followed(c))
  BY <1>1, <1>2, Held DEF OnlyFollowed, Stages
<1>6. faults' = 0 /\ Followed(c) => Complete(c, l, o, mem[c], NoKex)
  <2>1. faults' = 0 => faults = 0
    BY Held
  <2>2. faults' = 0 /\ Followed(c) => Complete(c, life[c], call[c], mem[c], kex[c])
    BY <1>2, <2>1, Held
  <2> QED
    BY <1>1, <1>2, <2>2 DEF Complete
<1>7. l \in Life \ {"none"} /\ NoKex \in KexState
  BY <1>2 DEF Life
<1> QED
  BY <1>1, <1>2, <1>3, <1>4, <1>5, <1>6, <1>7, StepKeeps DEF Good

LEMMA BailOutKeeps ==
  ASSUME IInv, NEW c \in Process, BailOut(c)
  PROVE  IInv'
<1>1. /\ call[c].at = "bail" /\ Return(c) /\ UNCHANGED <<image, parent, mem, kex>>
  BY DEF BailOut
<1>2. PICK l \in {"made", "loading", "failed"} :
        life' = [life EXCEPT ![c] = l] /\ (UNCHANGED faults \/ Fault)
  <2>1. life[c] = "made"
    BY <1>1, Held DEF InStep, Stages
  <2>2. life = [life EXCEPT ![c] = life[c]]
    BY Held
  <2> QED
    BY <2>1, <2>2 DEF BailOut
<1>3. faults' \in 0 .. MaxFaults /\ faults <= faults'
  BY <1>2, Held DEF Fault
<1> QED
  BY <1>1, <1>2, <1>3, ReturnKeeps

LEMMA CallerResumesKeeps ==
  ASSUME IInv, NEW c \in Process, CallerResumes(c)
  PROVE  IInv'
<1>1. Return(c)
  <2>1. call[c] \in CallState /\ call[c].at = "done"
    BY Held DEF CallerResumes
  <2>2. [call[c] EXCEPT !.at = "done"] = call[c]
    BY <2>1 DEF CallState
  <2> QED
    BY <2>2, Held DEF Return, CallerResumes
<1>2. faults' \in 0 .. MaxFaults /\ faults <= faults'
  BY Held DEF CallerResumes
<1> QED
  BY <1>1, <1>2, ReturnKeeps DEF CallerResumes

\* The system call makes the child, or not.
LEMMA CreatedKeeps ==
  ASSUME IInv, NEW c \in Process, call[c].at \in {"create", "native"},
         NEW l \in {"made", "loading", "failed"}, NEW next \in {"alloc_hook", "done"},
         Created(c, l, next), UNCHANGED <<image, parent, kex>>,
         faults' \in 0 .. MaxFaults, faults <= faults',
         next = "alloc_hook" => call[c].at = "create" /\ l = "made",
         call[c].at = "create" /\ next = "done" => l = "failed"
  PROVE  IInv'
<1>0. PICK o \in CallState : o = [call[c] EXCEPT !.at = next] /\ o.at = next
  <2>1. next \in Stages \cup {"none", "create", "native", "done"}
    BY DEF Stages
  <2> QED
    BY <2>1, Went
<1>1. call' = [call EXCEPT ![c] = o] /\ o.at = next
  BY <1>0 DEF Created
<1> DEFINE m == [NoMem EXCEPT !.keyMissing = ~image[c].key]
<1>2. /\ mem' = [mem EXCEPT ![c] = m] /\ life' = [life EXCEPT ![c] = l]
  BY DEF Created
<1>3. image[c].key \in BOOLEAN
  BY Held, ImagesAssumption DEF Image
<1>4. /\ m \in MemState /\ m.page = "none" /\ m.openKey = "syscall" /\ ~m.stuck
      /\ m.ifeo = "none" /\ ~m.subsys
  BY <1>3 DEF MemState, NoMem
<1> HIDE DEF m
<1>5. /\ life[c] = "creating" /\ kex[c] = NoKex /\ c # Root
      /\ kex[c] \in KexState /\ kex' = [kex EXCEPT ![c] = NoKex]
      /\ NoKex.at = "none" /\ ~NoKex.propagated /\ ~NoKex.hooks
  <2>1. life[c] = "creating" /\ kex[c] = NoKex
    BY Held DEF InStep
  <2>2. c # Root /\ kex[c] \in KexState
    BY <2>1, Held DEF Alone
  <2>3. kex' = [kex EXCEPT ![c] = NoKex]
    BY <2>1, Held
  <2>4. NoKex.at = "none" /\ ~NoKex.propagated /\ ~NoKex.hooks
    BY DEF NoKex
  <2> QED
    BY <2>1, <2>2, <2>3, <2>4
<1>6. InStep(l, o, m, NoKex) /\ EnabledRightly(l, NoKex)
  BY <1>1, <1>4, <1>5 DEF InStep, EnabledRightly, Stages
<1>7. JumpLeads(l, o, m, NoKex) /\ ParamsWritten(o, m)
  BY <1>1, <1>4, <1>5 DEF JumpLeads, ParamsWritten
<1>8. /\ call[c].at = "create" => Followed(c)
      /\ call[c].at = "native" => ~Followed(c)
  BY <1>5, Held DEF OnlyFollowed
<1>9. OnlyFollowed(o, m, NoKex, Followed(c))
  BY <1>1, <1>4, <1>5, <1>8 DEF OnlyFollowed, Stages
<1>10. Followed(c) => Complete(c, l, o, m, NoKex)
  BY <1>1, <1>4, <1>5, <1>8 DEF Complete
<1>11. l \in Life \ {"none"}
  BY DEF Life
<1> QED
  BY <1>1, <1>2, <1>4, <1>5, <1>6, <1>7, <1>9, <1>10, <1>11, StepKeeps DEF Good

LEMMA NativeCreateKeeps ==
  ASSUME IInv, NEW c \in Process, NativeCreate(c)
  PROVE  IInv'
<1>1. faults' \in 0 .. MaxFaults /\ faults <= faults'
  BY Held DEF NativeCreate
<1> QED
  BY <1>1, CreatedKeeps DEF NativeCreate

LEMMA CreateNativeChildKeeps ==
  ASSUME IInv, NEW c \in Process, CreateNativeChild(c)
  PROVE  IInv'
<1>1. call[c].at = "create" /\ UNCHANGED <<image, parent, kex>>
  BY DEF CreateNativeChild
<1>2. CASE call' = [call EXCEPT ![c].retried = TRUE] /\ UNCHANGED <<life, mem, faults>>
  <2> DEFINE o == [call[c] EXCEPT !.retried = TRUE]
  <2>1. call' = [call EXCEPT ![c] = o] /\ o \in CallState /\ o.at = "create"
    BY <1>1, <1>2, Held DEF CallState
  <2> HIDE DEF o
  <2>2. /\ life[c] = "creating" /\ c # Root /\ mem[c] \in MemState /\ kex[c] \in KexState
        /\ life' = [life EXCEPT ![c] = life[c]] /\ mem' = [mem EXCEPT ![c] = mem[c]]
        /\ kex' = [kex EXCEPT ![c] = kex[c]] /\ "creating" \in Life \ {"none"}
        /\ faults' \in 0 .. MaxFaults /\ faults <= faults' /\ faults' = faults
    BY <1>1, <1>2, Held DEF InStep, Alone, Life
  <2>3. Good(c, "creating", o, mem[c], kex[c])
    BY <1>1, <2>1, <2>2, Held
       DEF Good, InStep, JumpLeads, ParamsWritten, EnabledRightly, OnlyFollowed, Stages
  <2>4. faults = 0 /\ Followed(c) => Complete(c, "creating", o, mem[c], kex[c])
    BY <1>1, <2>1, <2>2, Held DEF Complete
  <2> QED
    BY <1>1, <2>1, <2>2, <2>3, <2>4, StepKeeps
<1>3. CASE Created(c, "made", "alloc_hook") /\ UNCHANGED faults
  <2>1. faults' \in 0 .. MaxFaults /\ faults <= faults'
    BY <1>3, Held
  <2> QED
    BY <1>1, <1>3, <2>1, CreatedKeeps
<1>4. CASE Created(c, "failed", "done") /\ (UNCHANGED faults \/ Fault)
  <2>1. faults' \in 0 .. MaxFaults /\ faults <= faults'
    BY <1>4, Held DEF Fault
  <2> QED
    BY <1>1, <1>4, <2>1, CreatedKeeps
<1> QED
  BY <1>2, <1>3, <1>4 DEF CreateNativeChild

\* A program asks for a child.
LEMMA BeginCreateKeeps ==
  ASSUME IInv, NEW p \in Process, NEW c \in Process, BeginCreate(p, c)
  PROVE  IInv'
<1>1. /\ Typed /\ life[p] = "running" /\ life[c] = "none" /\ p # c
      /\ UNCHANGED <<mem, kex, faults>>
  BY DEF BeginCreate, IInv
<1>2. PICK i \in Images, suspended \in BOOLEAN :
        /\ image' = [image EXCEPT ![c] = i]
        /\ call' = [call EXCEPT ![c] =
             [at |-> IF kex[p].hooks /\ ~i.powershell THEN "create" ELSE "native",
              suspended |-> suspended, retried |-> FALSE]]
  BY DEF BeginCreate
<1> DEFINE followed == kex[p].hooks /\ ~i.powershell
           o == [at |-> IF followed THEN "create" ELSE "native",
                 suspended |-> suspended, retried |-> FALSE]
<1>3. o \in CallState /\ o.at = IF followed THEN "create" ELSE "native"
  BY DEF CallState
<1>4. call' = [call EXCEPT ![c] = o]
  BY <1>2
<1> HIDE DEF o, followed
<1>5. call' \in [Process -> CallState] /\ call'[c] = o /\ \A d \in Process : d # c => call'[d] = call[d]
  BY <1>1, <1>3, <1>4 DEF Typed
<1>6. image' \in [Process -> Images] /\ image'[c] = i /\ \A d \in Process : d # c => image'[d] = image[d]
  BY <1>1, <1>2 DEF Typed
<1>7. /\ parent' \in [Process -> Process] /\ parent'[c] = p
      /\ \A d \in Process : d # c => parent'[d] = parent[d]
  BY <1>1 DEF Typed, BeginCreate
<1>8. /\ life' \in [Process -> Life] /\ life'[c] = "creating"
      /\ \A d \in Process : d # c => life'[d] = life[d]
  BY <1>1 DEF Typed, BeginCreate, Life
<1>9. Typed'
  BY <1>1, <1>5, <1>6, <1>7, <1>8 DEF Typed
<1>10. /\ c # Root /\ kex[c] = NoKex /\ mem[c].page = "none" /\ mem[c].openKey = "syscall"
       /\ ~mem[c].stuck /\ mem[c].ifeo = "none" /\ ~mem[c].subsys
       /\ NoKex.at = "none" /\ ~NoKex.propagated /\ ~NoKex.hooks
  BY <1>1, Held DEF InStep, Alone, NoKex
<1>11. \A d \in Process : d # Root /\ d # c /\ life[d] # "none" =>
         life'[parent'[d]] = "running" /\ (Followed(d)' <=> Followed(d))
  BY <1>1, <1>6, <1>7, <1>8 DEF IInv, ParentsRun, Typed, Followed
<1>12. Followed(c)' <=> followed
  BY <1>1, <1>6, <1>7 DEF Followed, followed
<1>13. ParentsRun'
  BY <1>1, <1>7, <1>8, <1>11 DEF ParentsRun
<1>14. AllGood'
  <2> SUFFICES ASSUME NEW d \in Process
               PROVE  /\ InStep(life'[d], call'[d], mem[d], kex[d])
                      /\ JumpLeads(life'[d], call'[d], mem[d], kex[d])
                      /\ ParamsWritten(call'[d], mem[d])
                      /\ EnabledRightly(life'[d], kex[d])
                      /\ IF d = Root THEN Alone(life'[d], call'[d], mem[d], kex[d])
                         ELSE OnlyFollowed(call'[d], mem[d], kex[d], Followed(d)')
    BY <1>1 DEF AllGood, Good, InStep, JumpLeads, ParamsWritten, EnabledRightly, Alone,
                OnlyFollowed
  <2>1. CASE d = c
    <3>1. InStep("creating", o, mem[c], NoKex) /\ EnabledRightly("creating", NoKex)
      BY <1>3, <1>10 DEF InStep, EnabledRightly, Stages
    <3>2. JumpLeads("creating", o, mem[c], NoKex) /\ ParamsWritten(o, mem[c])
      BY <1>3, <1>10 DEF JumpLeads, ParamsWritten
    <3>3. OnlyFollowed(o, mem[c], NoKex, Followed(c)')
      BY <1>3, <1>10, <1>12 DEF OnlyFollowed, Stages
    <3> QED
      BY <2>1, <3>1, <3>2, <3>3, <1>5, <1>8, <1>10
  <2>2. CASE d # c
    <3>1. life'[d] = life[d] /\ call'[d] = call[d] /\ Good(d, life[d], call[d], mem[d], kex[d])
      BY <1>5, <1>8, <2>2 DEF IInv, AllGood
    <3>2. CASE d = Root \/ life[d] # "none"
      BY <1>11, <2>2, <3>1, <3>2 DEF Good, OnlyFollowed
    <3>3. CASE d # Root /\ life[d] = "none"
      <4>1. call[d].at = "none" /\ mem[d].page = "none" /\ ~mem[d].subsys /\ ~kex[d].propagated
        BY <3>1, <3>3 DEF Good, InStep, NoKex
      <4> QED
        BY <3>1, <3>3, <4>1 DEF Good, OnlyFollowed, Stages
    <3> QED
      BY <3>2, <3>3
  <2> QED
    BY <2>1, <2>2
<1>15. AllComplete'
  <2> SUFFICES ASSUME NEW d \in Process \ {Root}, faults = 0, life'[d] # "none", Followed(d)'
               PROVE  Complete(d, life[d], call[d], mem[d], kex[d])'
    BY <1>1 DEF AllComplete
  <2>1. CASE d = c
    <3>1. ~mem'[d].stuck /\ call'[d].at = "create" /\ life'[d] = "creating" /\ kex'[d].at = "none"
      BY <1>1, <1>3, <1>5, <1>8, <1>10, <1>12, <2>1
    <3> QED
      BY <3>1 DEF Complete
  <2>2. CASE d # c
    <3>1. Complete(d, life[d], call[d], mem[d], kex[d])
      BY <1>8, <1>11, <2>2 DEF IInv, AllComplete
    <3> QED
      BY <1>1, <1>5, <1>6, <1>7, <1>8, <2>2, <3>1
         DEF Complete, Prepared, Expected, Emptied, InitialParams, ChecksFlagFirst
  <2> QED
    BY <2>1, <2>2
<1> QED
  BY <1>9, <1>13, <1>14, <1>15 DEF IInv

-----------------------------------------------------------------------------
(* The child *)

LEMMA LoadKeeps ==
  ASSUME IInv, NEW c \in Process, Load(c)
  PROVE  IInv'
<1> DEFINE opens == ~mem[c].keyMissing \/ ~ChecksFlagFirst(c)
           hooked == mem[c].openKey = "hook"
           crashes == mem[c].stuck \/ (opens /\ hooked /\ mem[c].page # "hook")
           loads == opens /\ (hooked \/ image[c].own # NULL)
<1>1. /\ life[c] = "loading" /\ UNCHANGED <<image, parent, call, mem, faults>>
      /\ mem[c] \in MemState /\ call[c] \in CallState /\ kex[c] \in KexState
      /\ call' = [call EXCEPT ![c] = call[c]] /\ mem' = [mem EXCEPT ![c] = mem[c]]
      /\ faults' \in 0 .. MaxFaults /\ faults <= faults' /\ faults' = faults
  BY Held DEF Load
<1>2. /\ call[c].at = "done" /\ kex[c] = NoKex /\ NoKex \in KexState
      /\ NoKex.at = "none" /\ ~NoKex.propagated /\ ~NoKex.hooks
  BY <1>1, Held DEF InStep, CallState, Stages, NoKex
<1>3. c # Root /\ faults = 0 /\ Followed(c) => ~mem[c].stuck /\ Prepared(c, mem[c])
  BY <1>1, <1>2, Held DEF Complete
<1>4. mem[c].openKey = "hook" => mem[c].page = "hook"
  BY <1>1, <1>2, Held DEF JumpLeads
<1>5. CASE crashes /\ life' = [life EXCEPT ![c] = "crashed"] /\ UNCHANGED kex
  <2>1. mem[c].stuck
    BY <1>4, <1>5
  <2>2. Good(c, "crashed", call[c], mem[c], NoKex)
    BY <1>1, <1>2, <2>1, Held
       DEF Good, InStep, JumpLeads, EnabledRightly, Alone, OnlyFollowed, Stages
  <2>3. "crashed" \in Life \ {"none"} /\ kex' = [kex EXCEPT ![c] = NoKex]
    BY <1>2, <1>5, Held DEF Life
  <2>4. life' = [life EXCEPT ![c] = "crashed"]
    BY <1>5
  <2>5. life[c] \notin {"none", "running"} /\ UNCHANGED <<image, parent>>
    BY <1>1
  <2>6. ~(c # Root /\ faults' = 0 /\ Followed(c))
    BY <1>1, <1>3, <2>1
  <2> HIDE DEF opens, hooked, crashes, loads
  <2> QED
    BY <1>1, <1>2, <2>2, <2>3, <2>4, <2>5, <2>6, StepKeeps
<1>6. CASE /\ life' = [life EXCEPT ![c] = "init"]
           /\ kex' = [kex EXCEPT ![c] = [@ EXCEPT !.at = "inherit", !.params = InitialParams(c)]]
  <2> DEFINE x == [kex[c] EXCEPT !.at = "inherit", !.params = InitialParams(c)]
  <2>1. InitialParams(c) \in Params
    BY Held, ImagesAssumption, ParamsAssumption DEF InitialParams, Image
  <2>2. /\ x \in KexState /\ x.at = "inherit" /\ x.params = InitialParams(c)
        /\ x.propagated = kex[c].propagated /\ x.hooks = kex[c].hooks
    BY <1>1, <2>1 DEF KexState
  <2>3. kex' = [kex EXCEPT ![c] = x] /\ life' = [life EXCEPT ![c] = "init"]
    BY <1>6
  <2> HIDE DEF x
  <2>4. Good(c, "init", call[c], mem[c], x)
    BY <1>1, <1>2, <2>2, Held
       DEF Good, InStep, JumpLeads, EnabledRightly, Alone, OnlyFollowed, Stages
  <2>5. c # Root /\ faults = 0 /\ Followed(c) => Complete(c, "init", call[c], mem[c], x)
    BY <1>2, <1>3, <2>2 DEF Complete
  <2>6. "init" \in Life \ {"none"}
    BY DEF Life
  <2>7. life[c] \notin {"none", "running"} /\ UNCHANGED <<image, parent>>
    BY <1>1
  <2>8. x \in KexState /\ (c # Root /\ faults' = 0 /\ Followed(c) =>
                            Complete(c, "init", call[c], mem[c], x))
    BY <1>1, <2>2, <2>5
  <2> QED
    BY <1>1, <2>3, <2>4, <2>6, <2>7, <2>8, StepKeeps
<1>7. CASE ~crashes /\ ~loads /\ life' = [life EXCEPT ![c] = "running"] /\ UNCHANGED kex
  <2>1. ~(c # Root /\ faults = 0 /\ Followed(c))
    BY <1>3, <1>7 DEF Prepared
  <2>2. Good(c, "running", call[c], mem[c], NoKex)
    BY <1>1, <1>2, Held
       DEF Good, InStep, JumpLeads, EnabledRightly, Alone, OnlyFollowed, Stages
  <2>3. "running" \in Life \ {"none"} /\ kex' = [kex EXCEPT ![c] = NoKex]
    BY <1>2, <1>7, Held DEF Life
  <2>4. life' = [life EXCEPT ![c] = "running"]
    BY <1>7
  <2> HIDE DEF opens, hooked, crashes, loads
  <2> QED
    BY <1>1, <1>2, <2>1, <2>2, <2>3, <2>4, StepKeeps
<1> QED
  BY <1>5, <1>6, <1>7 DEF Load

\* What KexDll finds while it is initialized.
LEMMA InInit ==
  ASSUME IInv, NEW c \in Process, kex[c].at # "none"
  PROVE  /\ life[c] = "init" /\ call[c].at = "done" /\ ~kex[c].hooks
         /\ mem[c] \in MemState /\ call[c] \in CallState /\ kex[c] \in KexState
         /\ life' = life => life' = [life EXCEPT ![c] = "init"]
         /\ call = [call EXCEPT ![c] = call[c]]
         /\ {"init", "running", "crashed"} \subseteq Life \ {"none"}
<1>1. life[c] = "init"
  BY Held DEF InStep
<1>2. {"init", "running", "crashed"} \subseteq Life \ {"none"}
  BY DEF Life
<1>3. call[c].at = "done" /\ ~kex[c].hooks
  BY <1>1, Held DEF InStep, EnabledRightly, CallState, Stages
<1> QED
  BY <1>1, <1>2, <1>3, Held

LEMMA InheritKeeps ==
  ASSUME IInv, NEW c \in Process, Inherit(c)
  PROVE  IInv'
<1>1. /\ kex[c].at = "inherit" /\ UNCHANGED <<life, image, parent, call>>
      /\ faults' \in 0 .. MaxFaults /\ faults <= faults'
      /\ faults' = 0 => UNCHANGED faults
  BY Held DEF Inherit, Fault
<1>2. CASE /\ mem[c].subsys
           /\ kex' = [kex EXCEPT ![c] =
                [@ EXCEPT !.at = "clean", !.propagated = TRUE,
                          !.params = IF image[c].own = NULL THEN mem[c].ifeo ELSE kex[c].params]]
           /\ \/ mem' = [mem EXCEPT ![c] = [@ EXCEPT !.subsys = FALSE, !.ifeo = "none"]]
              \/ Fault /\ mem' = [mem EXCEPT ![c].subsys = FALSE]
  <2> DEFINE p == IF image[c].own = NULL THEN mem[c].ifeo ELSE kex[c].params
             x == [kex[c] EXCEPT !.at = "clean", !.propagated = TRUE, !.params = p]
  <2>0. mem[c] \in MemState /\ kex[c] \in KexState
    BY <1>1, InInit
  <2>1. mem[c].ifeo \in Params
    BY <1>2, Held DEF ParamsWritten
  <2>2. p \in Params
    BY <1>1, <2>1, InInit DEF KexState
  <2>3. kex' = [kex EXCEPT ![c] = x]
    BY <1>2
  <2>4. c # Root /\ faults = 0 /\ Followed(c) =>
          p = Expected(c) /\ mem[c].openKey = "hook" /\ ~mem[c].stuck
    BY <1>1, InInit, Held DEF Complete, Prepared, Expected, InitialParams
  <2> HIDE DEF p
  <2>5. /\ x \in KexState /\ x.at = "clean" /\ x.propagated /\ x.params = p
        /\ x.hooks = kex[c].hooks
    BY <1>1, <2>2, InInit DEF KexState
  <2> HIDE DEF x
  <2>6. PICK m \in MemState :
          /\ mem' = [mem EXCEPT ![c] = m] /\ ~m.subsys /\ (faults' = 0 => m.ifeo = "none")
          /\ m.page = mem[c].page /\ m.openKey = mem[c].openKey /\ m.stuck = mem[c].stuck
    <3> DEFINE a == [mem[c] EXCEPT !.subsys = FALSE, !.ifeo = "none"]
               b == [mem[c] EXCEPT !.subsys = FALSE]
    <3>1. \/ mem' = [mem EXCEPT ![c] = a]
          \/ Fault /\ mem' = [mem EXCEPT ![c] = b]
      BY <1>2
    <3>2. /\ a \in MemState /\ ~a.subsys /\ a.ifeo = "none" /\ a.page = mem[c].page
          /\ a.openKey = mem[c].openKey /\ a.stuck = mem[c].stuck
      BY <2>0 DEF MemState
    <3>3. /\ b \in MemState /\ ~b.subsys /\ b.page = mem[c].page
          /\ b.openKey = mem[c].openKey /\ b.stuck = mem[c].stuck
      BY <2>0 DEF MemState
    <3>4. Fault => faults' # 0
      BY Held DEF Fault
    <3> HIDE DEF a, b
    <3> QED
      BY <3>1, <3>2, <3>3, <3>4
  <2>7. Good(c, "init", call[c], m, x)
    BY <1>1, <1>2, <2>5, <2>6, InInit, Held
       DEF Good, InStep, JumpLeads, ParamsWritten, EnabledRightly, Alone, OnlyFollowed, Stages
  <2>8. c # Root /\ faults' = 0 /\ Followed(c) => Complete(c, "init", call[c], m, x)
    BY <1>1, <2>4, <2>5, <2>6, InInit DEF Complete, Emptied
  <2> QED
    BY <1>1, <2>3, <2>5, <2>6, <2>7, <2>8, InInit, StepKeeps
<1>3. CASE ~mem[c].subsys /\ kex' = [kex EXCEPT ![c].at = "clean"] /\ UNCHANGED <<mem, faults>>
  <2> DEFINE x == [kex[c] EXCEPT !.at = "clean"]
  <2>1. /\ x \in KexState /\ x.at = "clean" /\ x.propagated = kex[c].propagated
        /\ x.hooks = kex[c].hooks
    BY <1>1, InInit DEF KexState
  <2>2. kex' = [kex EXCEPT ![c] = x] /\ mem' = [mem EXCEPT ![c] = mem[c]]
    BY <1>3, Held
  <2> HIDE DEF x
  <2>3. Good(c, "init", call[c], mem[c], x)
    BY <1>1, <2>1, InInit, Held
       DEF Good, InStep, JumpLeads, EnabledRightly, Alone, OnlyFollowed, Stages
  <2>4. ~(c # Root /\ faults' = 0 /\ Followed(c))
    BY <1>1, <1>3, InInit, Held DEF Complete, Prepared
  <2> QED
    BY <1>1, <2>1, <2>2, <2>3, <2>4, InInit, StepKeeps
<1> QED
  BY <1>2, <1>3 DEF Inherit

LEMMA FreeHookKeeps ==
  ASSUME IInv, NEW c \in Process, FreeHook(c)
  PROVE  IInv'
<1>1. /\ kex[c].at = "clean" /\ UNCHANGED <<life, image, parent, call>>
      /\ faults' \in 0 .. MaxFaults /\ faults <= faults'
      /\ faults' = 0 => UNCHANGED faults
  BY Held DEF FreeHook, Fault
<1> DEFINE X(at) == [kex[c] EXCEPT !.at = at]
<1>2. \A at \in {"restore", "enable"} :
        /\ X(at) \in KexState /\ X(at).at = at /\ X(at).propagated = kex[c].propagated
        /\ X(at).params = kex[c].params /\ X(at).hooks = kex[c].hooks
  BY <1>1, InInit DEF KexState
<1>3. CASE /\ kex[c].propagated /\ mem[c].openKey = "hook"
           /\ kex' = [kex EXCEPT ![c].at = "restore"]
           /\ \/ mem' = [mem EXCEPT ![c].page = "none"]
              \/ Fault /\ UNCHANGED mem
  <2> DEFINE x == X("restore")
  <2>1. kex' = [kex EXCEPT ![c] = x]
    BY <1>3
  <2>2. /\ x \in KexState /\ x.at = "restore" /\ x.propagated = kex[c].propagated
        /\ x.params = kex[c].params /\ x.hooks = kex[c].hooks
    BY <1>2
  <2> HIDE DEF x
  <2>3. PICK m \in MemState :
          /\ mem' = [mem EXCEPT ![c] = m] /\ (faults' = 0 => m.page = "none")
          /\ m.page \in {mem[c].page, "none"} /\ m.openKey = mem[c].openKey
          /\ m.stuck = mem[c].stuck /\ m.subsys = mem[c].subsys /\ m.ifeo = mem[c].ifeo
    <3> DEFINE a == [mem[c] EXCEPT !.page = "none"]
    <3>1. mem' = [mem EXCEPT ![c] = a] \/ (Fault /\ mem' = [mem EXCEPT ![c] = mem[c]])
      BY <1>3, Held
    <3>2. /\ a \in MemState /\ a.page = "none" /\ a.openKey = mem[c].openKey
          /\ a.stuck = mem[c].stuck /\ a.subsys = mem[c].subsys /\ a.ifeo = mem[c].ifeo
      BY <1>1, InInit DEF MemState
    <3>3. Fault => faults' # 0
      BY Held DEF Fault
    <3> HIDE DEF a
    <3> QED
      BY <3>1, <3>2, <3>3, Held
  <2>4. Good(c, "init", call[c], m, x)
    BY <1>1, <1>3, <2>2, <2>3, InInit, Held
       DEF Good, InStep, JumpLeads, ParamsWritten, EnabledRightly, Alone, OnlyFollowed, Stages
  <2>5. c # Root /\ faults' = 0 /\ Followed(c) => Complete(c, "init", call[c], m, x)
    BY <1>1, <2>2, <2>3, InInit, Held DEF Complete, Emptied
  <2> QED
    BY <1>1, <2>1, <2>2, <2>3, <2>4, <2>5, InInit, StepKeeps
<1>4. CASE /\ ~(kex[c].propagated /\ mem[c].openKey = "hook")
           /\ kex' = [kex EXCEPT ![c].at = "enable"]
           /\ UNCHANGED <<mem, faults>>
  <2> DEFINE x == X("enable")
  <2>1. kex' = [kex EXCEPT ![c] = x] /\ mem' = [mem EXCEPT ![c] = mem[c]]
    BY <1>4, Held
  <2>2. /\ x \in KexState /\ x.at = "enable" /\ x.propagated = kex[c].propagated
        /\ x.hooks = kex[c].hooks
    BY <1>2
  <2> HIDE DEF x
  <2>3. Good(c, "init", call[c], mem[c], x)
    BY <1>1, <2>2, InInit, Held
       DEF Good, InStep, JumpLeads, EnabledRightly, Alone, OnlyFollowed, Stages
  <2>4. ~(c # Root /\ faults' = 0 /\ Followed(c))
    BY <1>1, <1>4, InInit, Held DEF Complete
  <2> QED
    BY <1>1, <2>1, <2>2, <2>3, <2>4, InInit, StepKeeps
<1> QED
  BY <1>3, <1>4 DEF FreeHook

LEMMA RestoreOpenKeyKeeps ==
  ASSUME IInv, NEW c \in Process, RestoreOpenKey(c)
  PROVE  IInv'
<1>1. /\ kex[c].at = "restore" /\ UNCHANGED <<image, parent, call>>
      /\ faults' \in 0 .. MaxFaults /\ faults <= faults'
      /\ mem[c] \in MemState /\ kex[c] \in KexState
  BY Held DEF RestoreOpenKey, Fault
<1>2. CASE /\ mem' = [mem EXCEPT ![c].openKey = "syscall"]
           /\ kex' = [kex EXCEPT ![c].at = "enable"]
           /\ UNCHANGED <<life, faults>>
  <2> DEFINE m == [mem[c] EXCEPT !.openKey = "syscall"]
             x == [kex[c] EXCEPT !.at = "enable"]
  <2>1. mem' = [mem EXCEPT ![c] = m] /\ kex' = [kex EXCEPT ![c] = x]
    BY <1>2
  <2>2. /\ m \in MemState /\ m.openKey = "syscall" /\ m.page = mem[c].page
        /\ m.stuck = mem[c].stuck /\ m.subsys = mem[c].subsys /\ m.ifeo = mem[c].ifeo
    BY <1>1 DEF MemState
  <2>3. /\ x \in KexState /\ x.at = "enable" /\ x.propagated = kex[c].propagated
        /\ x.params = kex[c].params /\ x.hooks = kex[c].hooks
    BY <1>1 DEF KexState
  <2> HIDE DEF m, x
  <2>4. Good(c, "init", call[c], m, x)
    BY <1>1, <2>2, <2>3, InInit, Held
       DEF Good, InStep, JumpLeads, ParamsWritten, EnabledRightly, Alone, OnlyFollowed, Stages
  <2>5. c # Root /\ faults' = 0 /\ Followed(c) => Complete(c, "init", call[c], m, x)
    BY <1>1, <1>2, <2>2, <2>3, InInit, Held DEF Complete, Emptied
  <2>6. UNCHANGED life
    BY <1>2
  <2> QED
    BY <1>1, <2>1, <2>2, <2>3, <2>4, <2>5, <2>6, InInit, StepKeeps
<1>3. CASE /\ Fault /\ life' = [life EXCEPT ![c] = "crashed"]
           /\ kex' = [kex EXCEPT ![c].at = "none"]
           /\ mem' = [mem EXCEPT ![c].stuck = TRUE]
  <2> DEFINE m == [mem[c] EXCEPT !.stuck = TRUE]
             x == [kex[c] EXCEPT !.at = "none"]
  <2>1. mem' = [mem EXCEPT ![c] = m] /\ kex' = [kex EXCEPT ![c] = x]
    BY <1>3
  <2>2. /\ m \in MemState /\ m.openKey = mem[c].openKey /\ m.page = mem[c].page
        /\ m.stuck /\ m.subsys = mem[c].subsys /\ m.ifeo = mem[c].ifeo
    BY <1>1 DEF MemState
  <2>3. /\ x \in KexState /\ x.at = "none" /\ x.propagated = kex[c].propagated
        /\ x.hooks = kex[c].hooks
    BY <1>1 DEF KexState
  <2> HIDE DEF m, x
  <2>4. Good(c, "crashed", call[c], m, x)
    BY <1>1, <2>2, <2>3, InInit, Held
       DEF Good, InStep, JumpLeads, ParamsWritten, EnabledRightly, Alone, OnlyFollowed, Stages
  <2>5. faults' # 0 /\ life' = [life EXCEPT ![c] = "crashed"]
    BY <1>3, Held DEF Fault
  <2> QED
    BY <1>1, <2>1, <2>2, <2>3, <2>4, <2>5, InInit, StepKeeps
<1> QED
  BY <1>2, <1>3 DEF RestoreOpenKey

LEMMA EnableKeeps ==
  ASSUME IInv, NEW c \in Process, Enable(c)
  PROVE  IInv'
<1>1. /\ kex[c].at = "enable" /\ UNCHANGED <<image, parent, call, mem>>
      /\ life' = [life EXCEPT ![c] = "running"]
      /\ mem' = [mem EXCEPT ![c] = mem[c]]
  BY Held DEF Enable
<1>2. faults' \in 0 .. MaxFaults /\ faults <= faults' /\ (faults' = 0 => faults = 0)
  BY Held DEF Enable, InstallHook, Fault
<1>3. PICK x \in KexState :
        /\ kex' = [kex EXCEPT ![c] = x] /\ x.at = "none"
        /\ x.propagated = kex[c].propagated /\ x.params = kex[c].params
        /\ x.hooks => x.params \notin DisableForChild
  <2> DEFINE a == [kex[c] EXCEPT !.at = "none", !.hooks = TRUE]
             b == [kex[c] EXCEPT !.at = "none"]
  <2>1. \/ kex[c].params \notin DisableForChild /\ kex' = [kex EXCEPT ![c] = a]
        \/ kex' = [kex EXCEPT ![c] = b]
    BY DEF Enable, InstallHook
  <2>2. /\ a \in KexState /\ a.at = "none"
        /\ a.propagated = kex[c].propagated /\ a.params = kex[c].params
    BY <1>1, InInit DEF KexState
  <2>3. /\ b \in KexState /\ b.at = "none" /\ b.hooks = kex[c].hooks
        /\ b.propagated = kex[c].propagated /\ b.params = kex[c].params
    BY <1>1, InInit DEF KexState
  <2> HIDE DEF a, b
  <2> QED
    BY <1>1, <2>1, <2>2, <2>3, InInit
<1>4. Good(c, "running", call[c], mem[c], x)
  BY <1>1, <1>3, InInit, Held
     DEF Good, InStep, JumpLeads, EnabledRightly, Alone, OnlyFollowed, Stages
<1>5. c # Root /\ faults' = 0 /\ Followed(c) => Complete(c, "running", call[c], mem[c], x)
  BY <1>1, <1>2, <1>3, InInit, Held DEF Complete
<1>6. /\ life[c] \notin {"none", "running"} /\ "running" \in Life \ {"none"}
      /\ mem[c] \in MemState /\ call[c] \in CallState
      /\ call' = [call EXCEPT ![c] = call[c]] /\ UNCHANGED <<image, parent>>
  BY <1>1, InInit
<1> QED
  BY <1>1, <1>2, <1>3, <1>4, <1>5, <1>6, StepKeeps

-----------------------------------------------------------------------------
(* The specification *)

LEMMA InitIInv == Init => IInv
<1> SUFFICES ASSUME Init PROVE IInv
  OBVIOUS
<1>1. PICK f \in [Process -> {i \in Images : ~i.powershell}] :
        image = f /\ \A c \in Process : f[c] = f[Root] /\ f[c].own # NULL
  BY DEF Init
<1>2. image \in [Process -> Images]
  BY <1>1
<1>3. NoMem \in MemState /\ NoKex \in KexState
  BY ParamsAssumption DEF NoMem, NoKex, MemState, KexState
<1>4. \A c \in Process :
        /\ life[c] = IF c = Root THEN "loading" ELSE "none"
        /\ call[c] = [at |-> IF c = Root THEN "done" ELSE "none",
                      suspended |-> FALSE, retried |-> FALSE]
        /\ mem[c] = NoMem /\ kex[c] = NoKex
  BY DEF Init
<1>5. Typed
  <2>1. life \in [Process -> Life] /\ call \in [Process -> CallState]
    BY DEF Init, Life, CallState
  <2>2. parent \in [Process -> Process] /\ faults \in 0 .. MaxFaults
    BY ProcessAssumption, SystemAssumption DEF Init
  <2>3. mem \in [Process -> MemState] /\ kex \in [Process -> KexState]
    BY <1>3 DEF Init
  <2> QED
    BY <1>2, <2>1, <2>2, <2>3 DEF Typed
<1>6. AllGood
  <2> SUFFICES ASSUME NEW c \in Process PROVE Good(c, life[c], call[c], mem[c], kex[c])
    BY DEF AllGood
  <2>1. /\ NoMem.page = "none" /\ NoMem.openKey = "syscall" /\ ~NoMem.stuck
        /\ NoMem.ifeo = "none" /\ ~NoMem.subsys
        /\ NoKex.at = "none" /\ ~NoKex.propagated /\ ~NoKex.hooks
    BY DEF NoMem, NoKex
  <2>2. (c = Root => call[c].at = "done") /\ (c # Root => call[c].at = "none")
    <3> DEFINE at == IF c = Root THEN "done" ELSE "none"
    <3>1. call[c] = [at |-> at, suspended |-> FALSE, retried |-> FALSE]
      BY <1>4
    <3>2. (c = Root => at = "done") /\ (c # Root => at = "none")
      OBVIOUS
    <3> HIDE DEF at
    <3> QED
      BY <3>1, <3>2
  <2> QED
    BY <1>4, <2>1, <2>2
       DEF Good, InStep, JumpLeads, ParamsWritten, EnabledRightly, Alone, OnlyFollowed, Stages
<1>7. ParentsRun /\ AllComplete
  BY <1>4 DEF ParentsRun, AllComplete
<1> QED
  BY <1>5, <1>6, <1>7 DEF IInv

LEMMA NextKeeps == IInv /\ [Next]_vars => IInv'
<1> SUFFICES ASSUME IInv, [Next]_vars PROVE IInv'
  OBVIOUS
<1>1. CASE UNCHANGED vars
  BY <1>1
     DEF vars, IInv, Typed, AllGood, ParentsRun, AllComplete, Good, InStep, JumpLeads,
         ParamsWritten, EnabledRightly, Alone, OnlyFollowed, Followed, Complete, Prepared,
         Expected, Emptied, InitialParams, ChecksFlagFirst
<1>2. ASSUME NEW p \in Process, NEW c \in Process, BeginCreate(p, c) PROVE IInv'
  BY <1>2, BeginCreateKeeps
<1>3. ASSUME NEW c \in Process, Parent(c) PROVE IInv'
  <2>1. CASE NativeCreate(c) \/ CreateNativeChild(c)
    BY <2>1, NativeCreateKeeps, CreateNativeChildKeeps
  <2>2. CASE AllocateHook(c) \/ WriteHook(c) \/ FindOpenKey(c) \/ WriteJump(c)
    BY <2>2, AllocateHookKeeps, WriteHookKeeps, FindOpenKeyKeeps, WriteJumpKeeps
  <2>3. CASE AllocateParams(c) \/ WriteParams(c) \/ WriteSubSystemData(c) \/ ClearKeyMissing(c)
    BY <2>3, AllocateParamsKeeps, WriteParamsKeeps, WriteSubSystemDataKeeps, ClearKeyMissingKeeps
  <2>4. CASE BailOut(c)
    BY <2>4, BailOutKeeps
  <2> QED
    BY <1>3, <2>1, <2>2, <2>3, <2>4 DEF Parent
<1>4. ASSUME NEW c \in Process, Child(c) PROVE IInv'
  BY <1>4, LoadKeeps, InheritKeeps, FreeHookKeeps, RestoreOpenKeyKeeps, EnableKeeps DEF Child
<1>5. ASSUME NEW c \in Process, CallerResumes(c) PROVE IInv'
  BY <1>5, CallerResumesKeeps
<1> QED
  BY <1>1, <1>2, <1>3, <1>4, <1>5 DEF Next

\* The inductive invariant holds in every reachable state, for any processes,
\* programs, parameters and system, and any number of failures.
THEOREM Invariance == Spec => []IInv
<1> QED
  BY InitIInv, NextKeeps, PTL DEF Spec

\* What a process finds has its type: it never takes over parameters that were
\* not written (propagte.c:340-347).
THEOREM TypeCorrect == Spec => []TypeOK
<1>1. IInv => TypeOK
  <2> SUFFICES ASSUME IInv PROVE TypeOK
    OBVIOUS
  <2>1. \A c \in Process : mem[c] \in MemState /\ kex[c] \in KexState
    BY DEF IInv, Typed
  <2> QED
    BY <2>1 DEF IInv, Typed, TypeOK, Life, MemState, KexState
<1> QED
  BY <1>1, Invariance, PTL

\* NtOpenKey works in every process whose pages could be protected, whatever
\* else fails while it is prepared and cleaned (propagte.c:161-307, 759-886).
THEOREM JumpsLead == Spec => []OpenKeyWorks
<1>1. IInv => OpenKeyWorks
  <2> SUFFICES ASSUME IInv, NEW c \in Process, ~mem[c].stuck
               PROVE  /\ life[c] # "crashed"
                      /\ mem[c].openKey = "hook" => mem[c].page = "hook" \/ kex[c].at = "restore"
    BY DEF OpenKeyWorks
  <2> QED
    BY Held DEF InStep, JumpLeads
<1> QED
  BY <1>1, Invariance, PTL

\* Without a failure a child that runs has the parameters it should and none of
\* what was put into it (propagte.c:161-384, 661-1195).
THEOREM FollowsAll == Spec => []PropagationIsComplete
<1>1. IInv => PropagationIsComplete
  <2> SUFFICES ASSUME IInv, NEW c \in Process \ {Root}, life[c] = "running",
                      Followed(c), faults = 0
               PROVE  /\ kex[c].propagated /\ kex[c].params = Expected(c)
                      /\ mem[c] = [NoMem EXCEPT !.keyMissing = mem[c].keyMissing]
    BY DEF PropagationIsComplete, Followed, Expected
  <2>1. /\ Complete(c, life[c], call[c], mem[c], kex[c])
        /\ InStep(life[c], call[c], mem[c], kex[c]) /\ mem[c] \in MemState
    BY Held
  <2>2. /\ kex[c].propagated /\ kex[c].params = Expected(c)
        /\ ~mem[c].stuck /\ Emptied(mem[c]) /\ mem[c].page = "none" /\ mem[c].openKey = "syscall"
    BY <2>1 DEF Complete
  <2>3. mem[c] = [NoMem EXCEPT !.keyMissing = mem[c].keyMissing]
    <3>1. \A m \in MemState :
            m = [page |-> m.page, openKey |-> m.openKey, stuck |-> m.stuck, ifeo |-> m.ifeo,
                 subsys |-> m.subsys, keyMissing |-> m.keyMissing]
      BY DEF MemState
    <3>2. /\ mem[c].stuck = FALSE /\ mem[c].subsys = FALSE /\ mem[c].ifeo = "none"
      BY <2>1, <2>2 DEF MemState, Emptied
    <3> DEFINE n == [NoMem EXCEPT !.keyMissing = mem[c].keyMissing]
    <3>3. NoMem \in MemState /\ mem[c].keyMissing \in BOOLEAN
      BY <2>1 DEF NoMem, MemState
    <3>4. n \in MemState
      BY <3>3 DEF MemState
    <3>5. /\ n.page = NoMem.page /\ n.openKey = NoMem.openKey /\ n.stuck = NoMem.stuck
          /\ n.ifeo = NoMem.ifeo /\ n.subsys = NoMem.subsys
          /\ n.keyMissing = mem[c].keyMissing
      BY <3>3 DEF MemState
    <3>6. /\ NoMem.page = "none" /\ NoMem.openKey = "syscall" /\ NoMem.stuck = FALSE
          /\ NoMem.ifeo = "none" /\ NoMem.subsys = FALSE
      BY DEF NoMem
    <3> HIDE DEF n
    <3>7. mem[c] = n
      BY <2>1, <2>2, <3>1, <3>2, <3>4, <3>5, <3>6
    <3> QED
      BY <3>7 DEF n
  <2> QED
    BY <2>2, <2>3
<1> QED
  BY <1>1, Invariance, PTL

\* A program that has opted out, and PowerShell, end propagation
\* (propagte.c:398-404, 647-659).
THEOREM OptOutsStay == Spec => []OptOutIsKept
<1>1. IInv => OptOutIsKept
  <2> SUFFICES ASSUME IInv, NEW c \in Process \ {Root},
                      kex[c].propagated \/ mem[c].page # "none"
               PROVE  kex[parent[c]].params \notin DisableForChild /\ ~image[c].powershell
    BY DEF OptOutIsKept
  <2>1. Followed(c)
    BY Held DEF OnlyFollowed
  <2>2. parent[c] \in Process
    BY Held
  <2>3. EnabledRightly(life[parent[c]], kex[parent[c]])
    BY <2>2, Held
  <2> QED
    BY <2>1, <2>3 DEF Followed, EnabledRightly
<1> QED
  BY <1>1, Invariance, PTL

\* A child does not run while its creator's call prepares it
\* (propagte.c:673-675, 1172-1195).
LEMMA PreparedFirst == Spec => []NoneRunsEarly
<1>1. IInv => NoneRunsEarly
  <2> SUFFICES ASSUME IInv, NEW c \in Process, life[c] \in {"loading", "init", "running"}
               PROVE  call[c].at = "done"
    BY DEF NoneRunsEarly, Live
  <2>1. InStep(life[c], call[c], mem[c], kex[c]) /\ call[c] \in CallState
    BY Held
  <2> QED
    BY <2>1 DEF InStep, CallState, Stages
<1> QED
  BY <1>1, Invariance, PTL

\* Only its creator resumes a child that was to be made suspended
\* (propagte.c:1172-1195).
LEMMA SuspensionsStay == IInv /\ [Next]_vars => ResumedOnlyWhenReturned
<1> SUFFICES ASSUME IInv, [Next]_vars, NEW c \in Process, life[c] # "loading",
                    life'[c] = "loading", call[c].suspended
             PROVE  call[c].at = "done"
  BY DEF ResumedOnlyWhenReturned
<1>1. life \in [Process -> Life]
  BY DEF IInv, Typed
<1>2. ~UNCHANGED life
  OBVIOUS
<1>3. Next /\ ~UNCHANGED vars
  BY <1>2 DEF vars
<1>4. ASSUME NEW p \in Process, NEW d \in Process, BeginCreate(p, d) PROVE FALSE
  <2>1. life' = [life EXCEPT ![d] = "creating"]
    BY <1>4 DEF BeginCreate
  <2> QED
    BY <1>1, <2>1
<1>5. ASSUME NEW d \in Process, Parent(d) PROVE FALSE
  <2>1. \E l \in Life : life' = [life EXCEPT ![d] = l] /\ (l = "loading" => ~call[d].suspended)
    <3>1. CASE NativeCreate(d)
      BY <3>1 DEF NativeCreate, Created, Life
    <3>2. CASE CreateNativeChild(d)
      BY <1>2, <3>2 DEF CreateNativeChild, Created, Life
    <3>3. CASE BailOut(d)
      BY <1>2, <3>3 DEF BailOut, Return, Life
    <3>4. CASE \/ AllocateHook(d) \/ WriteHook(d) \/ FindOpenKey(d) \/ WriteJump(d)
               \/ AllocateParams(d) \/ WriteParams(d) \/ WriteSubSystemData(d)
               \/ ClearKeyMissing(d)
      BY <1>2, <3>4
         DEF AllocateHook, WriteHook, FindOpenKey, WriteJump, AllocateParams, WriteParams,
             WriteSubSystemData, ClearKeyMissing, WriteProcessMemory, Prepare
    <3> QED
      BY <1>5, <3>1, <3>2, <3>3, <3>4 DEF Parent
  <2> QED
    BY <1>1, <2>1
<1>6. ASSUME NEW d \in Process, Child(d) PROVE FALSE
  <2>1. \E l \in {"crashed", "init", "running"} : life' = [life EXCEPT ![d] = l]
    BY <1>2, <1>6 DEF Child, Load, Inherit, FreeHook, RestoreOpenKey, Enable
  <2> QED
    BY <1>1, <2>1
<1>7. ASSUME NEW d \in Process, CallerResumes(d) PROVE call[c].at = "done"
  <2>1. call[d].at = "done" /\ life' = [life EXCEPT ![d] = "loading"]
    BY <1>7 DEF CallerResumes
  <2> QED
    BY <1>1, <2>1
<1> QED
  BY <1>3, <1>4, <1>5, <1>6, <1>7 DEF Next

\* A child is at rest until its creator's call has prepared it, and then until it
\* is resumed by the one who asked for it suspended (propagte.c:673-675, 1172-1195).
THEOREM ChildrenWait == Spec => ChildWaits
<1>1. ResumedOnlyWhenReturned => [ResumedOnlyWhenReturned]_vars
  OBVIOUS
<1> QED
  BY PreparedFirst, SuspensionsStay, Invariance, PTL DEF Spec, ChildWaits
=============================================================================
