--------------------------- MODULE KexConfigProofs ---------------------------
(***************************************************************************)
(* Proofs about KexConfig for any programs, tools, settings and other      *)
(* products: the values keep their types, a launch command of ours works   *)
(* whatever failed, and what other products have in a key is kept.  Then   *)
(* that it implements ProgramSettings: a call that succeeds undisturbed    *)
(* leaves what it was asked for, and set-up keeps and brings back the      *)
(* settings of programs.                                                   *)
(***************************************************************************)
EXTENDS KexConfig, FiniteSetTheorems, TLAPS

Active(t) == op[t].pc \notin Ended

\* Calls that overlap on a key know that they cannot rely on it.
Alone ==
  \A t, u \in Tool :
    t # u /\ Active(t) /\ Active(u) /\ op[t].key = op[u].key =>
      op[t].key \in disputed /\ ~op[t].sure

\* What writes settings has been given some; what deletes them has not.
ConfigFits(o) ==
  /\ o.pc \in {"path", "activate", "values", "vflags", "dlls"} => o.config \in Configuration
  /\ o.pc \in {"settings", "read", "remove", "clear", "forget"} => o.config = NoConfiguration
Configured == \A t \in Tool : ConfigFits(op[t])

\* The command is marked before it is there and gone before the mark.
MarkFits(o, r) ==
  /\ o.pc = "activate" => r.marker = Command /\ installed
  /\ o.pc \in {"unmark", "settings"} => r.debugger # Command
MarkedFirst ==
  \A t \in Tool : op[t].key \notin disputed => MarkFits(op[t], key[op[t].key])

\* A command is saved with its mark.
StoreMarked ==
  store # NoStore =>
    \A k \in DOMAIN store : store[k].debugger = Command => store[k].marker = Command

\* What a call that is sure of its key will write leaves to others what is
\* theirs.
FlagsFit(o, r) == o.flags \ {"verifier"} = ReadFlags(r.flags) \ {"verifier"}
DllsFit(o, r) == o.dlls \ {KexDll, Cut} = Listed(r.dlls) \ {KexDll, Cut}
PlanFits(o, r) ==
  /\ o.config # NoConfiguration => FlagsFit(o, r) /\ DllsFit(o, r)
  /\ o.pc = "activate" => r.debugger \in {Absent, Command}
  /\ o.pc = "remove" => DllsFit(o, r)
  /\ o.pc = "clear" => FlagsFit(o, r)
Planned ==
  \A t \in Tool : Active(t) /\ op[t].sure => PlanFits(op[t], key[op[t].key])

\* The inductive invariant.
IInv ==
  /\ TypeOK
  /\ Alone
  /\ Configured
  /\ MarkedFirst
  /\ StoreMarked
  /\ Planned
  /\ LaunchCommandWorks

\* What OthersAreKept says of a step.
OthersKept ==
  \A k \in Key :
    \/ Others(key[k])' = Others(key[k])
    \/ edits' # edits
    \/ \E t \in On(k) : ~op[t].sure

-----------------------------------------------------------------------------
(* Types *)

LEMMA ListTyped ==
  /\ \A list \in SUBSET (Foreign \cup {KexDll, Cut}) : list \in DllList \ {Absent}
  /\ \A dlls \in DllList :
       /\ Listed(dlls) \in SUBSET (Foreign \cup {KexDll, Cut})
       /\ ReadString(dlls) \in SUBSET (Foreign \cup {KexDll, Cut})
  /\ \A dlls \in SUBSET (Foreign \cup {KexDll, Cut}) :
       /\ AddKexDll(dlls) \in SUBSET (Foreign \cup {KexDll, Cut})
       /\ RemoveKexDll(dlls) \in SUBSET (Foreign \cup {KexDll, Cut})
  /\ \A flags \in {Absent} \cup FlagSet : ReadFlags(flags) \in FlagSet
  /\ \A vflags \in {Absent} \cup VerifierFlags : ReadVerifierFlags(vflags) \in VerifierFlags
<1>1. \A list \in SUBSET (Foreign \cup {KexDll, Cut}) : list \in DllList \ {Absent}
  BY NameAssumption DEF DllList
<1>2. \A dlls \in DllList :
        /\ Listed(dlls) \in SUBSET (Foreign \cup {KexDll, Cut})
        /\ ReadString(dlls) \in SUBSET (Foreign \cup {KexDll, Cut})
  BY DEF DllList, Listed, ReadString
<1>3. \A dlls \in SUBSET (Foreign \cup {KexDll, Cut}) :
        /\ AddKexDll(dlls) \in SUBSET (Foreign \cup {KexDll, Cut})
        /\ RemoveKexDll(dlls) \in SUBSET (Foreign \cup {KexDll, Cut})
  BY DEF AddKexDll, RemoveKexDll
<1>4. \A flags \in {Absent} \cup FlagSet : ReadFlags(flags) \in FlagSet
  BY DEF ReadFlags, FlagSet
<1>5. \A vflags \in {Absent} \cup VerifierFlags : ReadVerifierFlags(vflags) \in VerifierFlags
  BY DEF ReadVerifierFlags, VerifierFlags
<1> QED
  BY <1>1, <1>2, <1>3, <1>4, <1>5

LEMMA ConstantsTyped ==
  NoValues \in Values /\ Empty \in KeyState /\ NoCall \in CallState
<1>1. NoValues \in Values
  BY DEF NoValues, Values
<1>2. Empty \in KeyState
  BY <1>1 DEF Empty, KeyState, DllList
<1>3. {} \in DllList \ {Absent} /\ {} \in FlagSet /\ "zero" \in VerifierFlags
  BY ListTyped DEF FlagSet, VerifierFlags
<1>4. NoCall \in CallState
  BY <1>3, TemplateAssumption DEF NoCall, CallState, Ended
<1> QED
  BY <1>1, <1>2, <1>4

Pc ==
  Ended \cup {"path", "launcher", "activate", "unmark", "values", "vflags",
              "dlls", "settings", "read", "remove", "clear", "forget"}

LEMMA AtTyped ==
  ASSUME NEW o \in CallState, NEW pc \in Pc
  PROVE  /\ At(o, pc) \in CallState
         /\ At(o, pc).pc = pc
         /\ pc \notin Ended =>
              /\ At(o, pc).key = o.key /\ At(o, pc).sure = o.sure
              /\ At(o, pc).config = o.config /\ At(o, pc).i = o.i
              /\ At(o, pc).flags = o.flags /\ At(o, pc).dlls = o.dlls
<1>1. CASE pc \in Ended
  <2>1. [NoCall EXCEPT !.pc = pc] \in CallState
    BY ConstantsTyped DEF CallState, Pc
  <2>2. [NoCall EXCEPT !.pc = pc].pc = pc
    BY DEF NoCall
  <2> QED
    BY <1>1, <2>1, <2>2 DEF At
<1>2. CASE pc \notin Ended
  BY <1>2 DEF At, CallState, Pc
<1> QED
  BY <1>1, <1>2

LEMMA OverlappedTyped ==
  ASSUME TypeOK, NEW ks \in SUBSET Key
  PROVE  /\ Overlapped(ks) \in [Tool -> CallState]
         /\ \A t \in Tool :
              /\ Overlapped(ks)[t].pc = op[t].pc /\ Overlapped(ks)[t].key = op[t].key
              /\ Overlapped(ks)[t].config = op[t].config /\ Overlapped(ks)[t].i = op[t].i
              /\ Overlapped(ks)[t].flags = op[t].flags /\ Overlapped(ks)[t].dlls = op[t].dlls
              /\ Overlapped(ks)[t].sure =>
                   op[t].sure /\ (Active(t) => op[t].key \notin ks)
<1>1. ASSUME NEW t \in Tool
      PROVE  /\ [op[t] EXCEPT !.sure = FALSE] \in CallState /\ op[t] \in CallState
             /\ LET o == [op[t] EXCEPT !.sure = FALSE] IN
                /\ o.pc = op[t].pc /\ o.key = op[t].key /\ o.config = op[t].config /\ o.i = op[t].i
                /\ o.flags = op[t].flags /\ o.dlls = op[t].dlls /\ ~o.sure
  BY DEF TypeOK, CallState
<1>2. ASSUME NEW t \in Tool
      PROVE  /\ Overlapped(ks)[t] \in CallState
             /\ Overlapped(ks)[t].pc = op[t].pc /\ Overlapped(ks)[t].key = op[t].key
             /\ Overlapped(ks)[t].config = op[t].config /\ Overlapped(ks)[t].i = op[t].i
             /\ Overlapped(ks)[t].flags = op[t].flags /\ Overlapped(ks)[t].dlls = op[t].dlls
             /\ Overlapped(ks)[t].sure => op[t].sure /\ (Active(t) => op[t].key \notin ks)
  <2>1. CASE \E k \in ks : t \in On(k)
    <3>1. Overlapped(ks)[t] = [op[t] EXCEPT !.sure = FALSE]
      BY <2>1 DEF Overlapped
    <3> QED
      BY <1>1, <3>1
  <2>2. CASE ~\E k \in ks : t \in On(k)
    <3>1. Overlapped(ks)[t] = op[t]
      BY <2>2 DEF Overlapped
    <3>2. Active(t) => op[t].key \notin ks
      BY <2>2 DEF On, Active
    <3> QED
      BY <1>1, <3>1, <3>2
  <2> QED
    BY <2>1, <2>2
<1>3. Overlapped(ks) \in [Tool -> CallState]
  <2>1. Overlapped(ks) = [t \in Tool |-> Overlapped(ks)[t]]
    BY DEF Overlapped
  <2> QED
    BY <1>2, <2>1
<1> QED
  BY <1>2, <1>3

-----------------------------------------------------------------------------
(* A step of a call *)

\* A step that changes only the call and its key keeps the invariant if what
\* it leaves in the two fits.
LEMMA StepKeeps ==
  ASSUME IInv, NEW t \in Tool, Active(t), NEW r \in KeyState, NEW o \in CallState,
         key' = [key EXCEPT ![op[t].key] = r], op' = [op EXCEPT ![t] = o], Elsewhere,
         o.pc \notin Ended => o.key = op[t].key /\ o.sure = op[t].sure,
         ConfigFits(o),
         r.debugger = Command => op[t].key \in disputed \/ (r.marker = Command /\ installed),
         op[t].key \notin disputed => MarkFits(o, r),
         o.pc \notin Ended /\ op[t].sure => PlanFits(o, r),
         op[t].sure => Others(r) = Others(key[op[t].key])
  PROVE  IInv' /\ OthersKept
<1> DEFINE k == op[t].key
<1>1. k \in Key /\ key \in [Key -> KeyState] /\ op \in [Tool -> CallState]
  BY DEF IInv, TypeOK, CallState
<1>2. /\ key' \in [Key -> KeyState] /\ key'[k] = r
      /\ \A j \in Key : j # k => key'[j] = key[j]
  BY <1>1
<1>3. /\ op' \in [Tool -> CallState] /\ op'[t] = o
      /\ \A u \in Tool : u # t => op'[u] = op[u]
  BY <1>1
<1>4. UNCHANGED <<installed, store, disputed, calls, edits>>
  BY DEF Elsewhere
<1>5. \A u \in Tool : op[u].key \in Key /\ op'[u].key \in Key
  BY <1>1, <1>3 DEF CallState
<1>6. \A u \in Tool : u # t /\ Active(u) /\ op[u].key = k =>
        k \in disputed /\ ~op[u].sure /\ ~op[t].sure
  BY DEF IInv, Alone
<1> HIDE DEF k
<1>7. TypeOK'
  BY <1>2, <1>3, <1>4 DEF IInv, TypeOK
<1>8. Alone'
  <2> SUFFICES ASSUME NEW u \in Tool, NEW v \in Tool, u # v,
                      op'[u].pc \notin Ended, op'[v].pc \notin Ended, op'[u].key = op'[v].key
               PROVE  op'[u].key \in disputed /\ ~op'[u].sure
    BY <1>4 DEF Alone, Active
  <2>1. \A w \in Tool : op'[w].pc \notin Ended =>
          Active(w) /\ op[w].key = op'[w].key /\ op[w].sure = op'[w].sure
    BY <1>3 DEF Active
  <2> QED
    BY <2>1 DEF IInv, Alone
<1>9. Configured'
  BY <1>3 DEF IInv, Configured, ConfigFits
<1>10. MarkedFirst'
  <2> SUFFICES ASSUME NEW u \in Tool, op'[u].key \notin disputed
               PROVE  MarkFits(op'[u], key'[op'[u].key])
    BY <1>4 DEF MarkedFirst, MarkFits
  <2>1. CASE op'[u].pc \in Ended
    BY <2>1 DEF MarkFits, Ended
  <2>2. CASE op'[u].pc \notin Ended /\ u = t
    BY <2>2, <1>2, <1>3 DEF k
  <2>3. CASE op'[u].pc \notin Ended /\ u # t
    <3>1. op'[u] = op[u] /\ op[u].key # k
      BY <2>3, <1>3, <1>6 DEF Active
    <3>2. key'[op[u].key] = key[op[u].key]
      BY <3>1, <1>2, <1>5
    <3> QED
      BY <3>1, <3>2 DEF IInv, MarkedFirst
  <2> QED
    BY <2>1, <2>2, <2>3
<1>11. StoreMarked'
  BY <1>4 DEF IInv, StoreMarked
<1>12. Planned'
  <2> SUFFICES ASSUME NEW u \in Tool, op'[u].pc \notin Ended, op'[u].sure
               PROVE  PlanFits(op'[u], key'[op'[u].key])
    BY DEF Planned, Active
  <2>1. CASE u = t
    BY <2>1, <1>2, <1>3 DEF k
  <2>2. CASE u # t
    <3>1. op'[u] = op[u] /\ op[u].key # k
      BY <2>2, <1>3, <1>6 DEF Active
    <3>2. key'[op[u].key] = key[op[u].key]
      BY <3>1, <1>2, <1>5
    <3> QED
      BY <3>1, <3>2 DEF IInv, Planned, Active
  <2> QED
    BY <2>1, <2>2
<1>13. LaunchCommandWorks'
  BY <1>2, <1>4 DEF IInv, LaunchCommandWorks, k
<1>14. OthersKept
  <2> SUFFICES ASSUME NEW j \in Key
               PROVE  Others(key[j])' = Others(key[j]) \/ \E u \in On(j) : ~op[u].sure
    BY DEF OthersKept
  <2>1. CASE j # k
    BY <2>1, <1>2 DEF Others
  <2>2. CASE j = k /\ op[t].sure
    BY <2>2, <1>2 DEF Others, k
  <2>3. CASE j = k /\ ~op[t].sure
    <3>1. t \in On(j)
      BY <2>3 DEF On, Active, k
    <3> QED
      BY <3>1, <2>3
  <2> QED
    BY <2>1, <2>2, <2>3
<1> QED
  BY <1>7, <1>8, <1>9, <1>10, <1>11, <1>12, <1>13, <1>14 DEF IInv

-----------------------------------------------------------------------------
(* What a write leaves alone *)

LEMMA MineTyped ==
  ASSUME TypeOK, NEW t \in Tool
  PROVE  /\ op[t] \in CallState /\ op[t].key \in Key /\ Mine(t) \in KeyState
         /\ key = [key EXCEPT ![op[t].key] = Mine(t)]
<1>1. op[t] \in CallState /\ op[t].key \in Key
  BY DEF TypeOK, CallState
<1>2. key \in [Key -> KeyState] /\ Mine(t) \in KeyState
  BY <1>1 DEF TypeOK, Mine
<1> QED
  BY <1>1, <1>2 DEF Mine

LEMMA DebuggerWritten ==
  ASSUME TypeOK, NEW t \in Tool, NEW v \in Debugger \cup {Absent, Command}, Write(t, "debugger", v)
  PROVE  \E r \in KeyState :
           /\ key' = [key EXCEPT ![op[t].key] = r] /\ r.debugger = v
           /\ r.dlls = Mine(t).dlls /\ r.flags = Mine(t).flags /\ r.marker = Mine(t).marker
           /\ r.kex = Mine(t).kex
<1> DEFINE r == [Mine(t) EXCEPT !.debugger = v]
<1>1. key' = [key EXCEPT ![op[t].key] = r]
  BY DEF Write, Mine
<1>2. Mine(t) \in KeyState
  BY MineTyped
<1>3. r \in KeyState /\ r.debugger = v
  BY <1>2 DEF KeyState
<1>4. /\ r.dlls = Mine(t).dlls /\ r.flags = Mine(t).flags /\ r.marker = Mine(t).marker
      /\ r.kex = Mine(t).kex
  BY <1>2 DEF KeyState
<1> QED
  BY <1>1, <1>3, <1>4

LEMMA MarkerWritten ==
  ASSUME TypeOK, NEW t \in Tool, NEW v \in {Absent, Command}, Write(t, "marker", v)
  PROVE  \E r \in KeyState :
           /\ key' = [key EXCEPT ![op[t].key] = r] /\ r.marker = v
           /\ r.dlls = Mine(t).dlls /\ r.flags = Mine(t).flags /\ r.debugger = Mine(t).debugger
           /\ r.kex = Mine(t).kex
<1> DEFINE r == [Mine(t) EXCEPT !.marker = v]
<1>1. key' = [key EXCEPT ![op[t].key] = r]
  BY DEF Write, Mine
<1>2. Mine(t) \in KeyState
  BY MineTyped
<1>3. r \in KeyState /\ r.marker = v
  BY <1>2 DEF KeyState
<1>4. /\ r.dlls = Mine(t).dlls /\ r.flags = Mine(t).flags /\ r.debugger = Mine(t).debugger
      /\ r.kex = Mine(t).kex
  BY <1>2 DEF KeyState
<1> QED
  BY <1>1, <1>3, <1>4

LEMMA DllsWritten ==
  ASSUME TypeOK, NEW t \in Tool, NEW v \in DllList, Write(t, "dlls", v)
  PROVE  \E r \in KeyState :
           /\ key' = [key EXCEPT ![op[t].key] = r] /\ r.dlls = v
           /\ r.flags = Mine(t).flags /\ r.marker = Mine(t).marker /\ r.debugger = Mine(t).debugger
           /\ r.kex = Mine(t).kex
<1> DEFINE r == [Mine(t) EXCEPT !.dlls = v]
<1>1. key' = [key EXCEPT ![op[t].key] = r]
  BY DEF Write, Mine
<1>2. Mine(t) \in KeyState
  BY MineTyped
<1>3. r \in KeyState /\ r.dlls = v
  BY <1>2 DEF KeyState
<1>4. /\ r.flags = Mine(t).flags /\ r.marker = Mine(t).marker /\ r.debugger = Mine(t).debugger
      /\ r.kex = Mine(t).kex
  BY <1>2 DEF KeyState
<1> QED
  BY <1>1, <1>3, <1>4

LEMMA FlagsWritten ==
  ASSUME TypeOK, NEW t \in Tool, NEW v \in {Absent} \cup FlagSet, Write(t, "flags", v)
  PROVE  \E r \in KeyState :
           /\ key' = [key EXCEPT ![op[t].key] = r] /\ r.flags = v
           /\ r.dlls = Mine(t).dlls /\ r.marker = Mine(t).marker /\ r.debugger = Mine(t).debugger
           /\ r.kex = Mine(t).kex
<1> DEFINE r == [Mine(t) EXCEPT !.flags = v]
<1>1. key' = [key EXCEPT ![op[t].key] = r]
  BY DEF Write, Mine
<1>2. Mine(t) \in KeyState
  BY MineTyped
<1>3. r \in KeyState /\ r.flags = v
  BY <1>2 DEF KeyState
<1>4. /\ r.dlls = Mine(t).dlls /\ r.marker = Mine(t).marker /\ r.debugger = Mine(t).debugger
      /\ r.kex = Mine(t).kex
  BY <1>2 DEF KeyState
<1> QED
  BY <1>1, <1>3, <1>4

LEMMA VflagsWritten ==
  ASSUME TypeOK, NEW t \in Tool, NEW v \in {Absent} \cup VerifierFlags, Write(t, "vflags", v)
  PROVE  \E r \in KeyState :
           /\ key' = [key EXCEPT ![op[t].key] = r] /\ r.vflags = v
           /\ r.dlls = Mine(t).dlls /\ r.flags = Mine(t).flags
           /\ r.marker = Mine(t).marker /\ r.debugger = Mine(t).debugger
           /\ r.kex = Mine(t).kex
<1> DEFINE r == [Mine(t) EXCEPT !.vflags = v]
<1>1. key' = [key EXCEPT ![op[t].key] = r]
  BY DEF Write, Mine
<1>2. Mine(t) \in KeyState
  BY MineTyped
<1>3. r \in KeyState /\ r.vflags = v
  BY <1>2 DEF KeyState
<1>4. /\ r.dlls = Mine(t).dlls /\ r.flags = Mine(t).flags
      /\ r.marker = Mine(t).marker /\ r.debugger = Mine(t).debugger
      /\ r.kex = Mine(t).kex
  BY <1>2 DEF KeyState
<1> QED
  BY <1>1, <1>3, <1>4

\* The values x are those of y but for that of n.
ValueSet(x, y, n, v) == \A m \in KexName : x[m] = IF m = n THEN v ELSE y[m]

LEMMA KexWritten ==
  ASSUME TypeOK, NEW t \in Tool, NEW n \in KexName, NEW v \in Data \cup {Absent},
         key' = [key EXCEPT ![op[t].key].kex[n] = v]
  PROVE  \E r \in KeyState :
           /\ key' = [key EXCEPT ![op[t].key] = r]
           /\ r.dlls = Mine(t).dlls /\ r.flags = Mine(t).flags
           /\ r.marker = Mine(t).marker /\ r.debugger = Mine(t).debugger
           /\ ValueSet(r.kex, Mine(t).kex, n, v)
<1> DEFINE r == [Mine(t) EXCEPT !.kex = [Mine(t).kex EXCEPT ![n] = v]]
<1>1. key' = [key EXCEPT ![op[t].key] = r]
  BY DEF Mine
<1>2. Mine(t) \in KeyState
  BY MineTyped
<1>3. [Mine(t).kex EXCEPT ![n] = v] \in Values
  BY <1>2 DEF KeyState, Values
<1>4. r \in KeyState
  BY <1>2, <1>3 DEF KeyState, Values, ValueSet
<1>5. /\ r.dlls = Mine(t).dlls /\ r.flags = Mine(t).flags
      /\ r.marker = Mine(t).marker /\ r.debugger = Mine(t).debugger
      /\ ValueSet(r.kex, Mine(t).kex, n, v)
  BY <1>2, <1>3 DEF KeyState, Values, ValueSet
<1> QED
  BY <1>1, <1>4, <1>5

LEMMA OthersFrom ==
  ASSUME NEW r, NEW s,
         Listed(r.dlls) \ {KexDll, Cut} = Listed(s.dlls) \ {KexDll, Cut},
         ReadFlags(r.flags) \ {"verifier"} = ReadFlags(s.flags) \ {"verifier"},
         r.debugger = s.debugger \/ {r.debugger, s.debugger} \subseteq {Absent, Command}
  PROVE  Others(r) = Others(s)
<1>1. (IF r.debugger = Command THEN Absent ELSE r.debugger) =
      (IF s.debugger = Command THEN Absent ELSE s.debugger)
  OBVIOUS
<1> QED
  BY <1>1 DEF Others

-----------------------------------------------------------------------------
(* The steps of KxCfgSetConfiguration *)

LEMMA Went ==
  ASSUME TypeOK, NEW t \in Tool, NEW pc \in Pc, Goto(t, pc)
  PROVE  \E o \in CallState :
           /\ op' = [op EXCEPT ![t] = o] /\ o.pc = pc
           /\ pc \notin Ended =>
                /\ o.key = op[t].key /\ o.sure = op[t].sure /\ o.config = op[t].config
                /\ o.flags = op[t].flags /\ o.dlls = op[t].dlls /\ o.i = op[t].i
<1>1. op[t] \in CallState
  BY MineTyped
<1>2. op' = [op EXCEPT ![t] = At(op[t], pc)]
  BY DEF Goto
<1> QED
  BY <1>1, <1>2, AtTyped

\* What the invariant says of one call and its key.
LEMMA InHand ==
  ASSUME IInv, NEW t \in Tool
  PROVE  /\ TypeOK
         /\ ConfigFits(op[t])
         /\ op[t].key \notin disputed => MarkFits(op[t], Mine(t))
         /\ Active(t) /\ op[t].sure => PlanFits(op[t], Mine(t))
         /\ Mine(t).debugger = Command =>
              op[t].key \in disputed \/ (Mine(t).marker = Command /\ installed)
<1>1. op[t].key \in Key
  BY MineTyped DEF IInv
<1> QED
  BY <1>1 DEF IInv, Configured, MarkedFirst, Planned, LaunchCommandWorks, Mine

LEMMA WritePathKeeps ==
  ASSUME IInv, NEW t \in Tool, WritePath(t)
  PROVE  IInv' /\ OthersKept
<1>1. TypeOK /\ Active(t)
  BY DEF IInv, WritePath, Active, Ended
<1>2. op[t].config \in Configuration
  BY InHand DEF ConfigFits, WritePath
<1>3. op[t].config.data \in Data
  BY <1>2, ConfigurationAssumption
<1>4. PICK r \in KeyState :
        /\ key' = [key EXCEPT ![op[t].key] = r]
        /\ r.dlls = Mine(t).dlls /\ r.flags = Mine(t).flags
        /\ r.marker = Mine(t).marker /\ r.debugger = Mine(t).debugger
  BY <1>1, <1>3, KexWritten DEF WritePath, KexName
<1>5. PICK o \in CallState :
        /\ op' = [op EXCEPT ![t] = o] /\ o.pc = "launcher"
        /\ o.key = op[t].key /\ o.sure = op[t].sure /\ o.config = op[t].config
        /\ o.flags = op[t].flags /\ o.dlls = op[t].dlls
  BY <1>1, Went DEF WritePath, Pc, Ended
<1>6. Others(r) = Others(Mine(t))
  BY <1>4, OthersFrom
<1>7. ConfigFits(o) /\ MarkFits(o, r)
  BY <1>5 DEF ConfigFits, MarkFits
<1>8. op[t].sure => PlanFits(o, r)
  BY <1>1, <1>4, <1>5, InHand DEF PlanFits, FlagsFit, DllsFit
<1>9. Elsewhere
  BY DEF WritePath
<1> QED
  BY <1>1, <1>4, <1>5, <1>6, <1>7, <1>8, <1>9, InHand, StepKeeps DEF Mine

\* A call that ends without a write.
LEMMA StopKeeps ==
  ASSUME IInv, NEW t \in Tool, Active(t), NEW pc \in Ended, Goto(t, pc), UNCHANGED key, Elsewhere
  PROVE  IInv' /\ OthersKept
<1>1. TypeOK
  BY DEF IInv
<1>2. PICK o \in CallState : op' = [op EXCEPT ![t] = o] /\ o.pc = pc
  BY <1>1, Went DEF Pc
<1>3. ConfigFits(o) /\ MarkFits(o, Mine(t))
  BY <1>2 DEF ConfigFits, MarkFits, Ended
<1>4. Mine(t) \in KeyState /\ key' = [key EXCEPT ![op[t].key] = Mine(t)]
  BY <1>1, MineTyped
<1> QED
  BY <1>2, <1>3, <1>4, InHand, StepKeeps DEF Mine

LEMMA ConfigureLauncherKeeps ==
  ASSUME IInv, NEW t \in Tool, ConfigureLauncher(t)
  PROVE  IInv' /\ OthersKept
<1>1. TypeOK /\ Active(t) /\ Mine(t) \in KeyState
  BY MineTyped DEF IInv, ConfigureLauncher, Active, Ended
<1>2. Elsewhere
  BY DEF ConfigureLauncher
<1>3. op[t].config \in Configuration
  <2>1. op[t].config \in Configuration \cup {NoConfiguration}
    BY <1>1, MineTyped DEF CallState
  <2> QED
    BY <2>1 DEF ConfigureLauncher, Launching, Deleting
<1>4. CASE /\ installed /\ (Mine(t).debugger = Absent \/ Mine(t).debugger = Mine(t).marker)
           /\ Write(t, "marker", Command) /\ Goto(t, "activate")
  <2>1. PICK r \in KeyState :
          /\ key' = [key EXCEPT ![op[t].key] = r] /\ r.marker = Command
          /\ r.dlls = Mine(t).dlls /\ r.flags = Mine(t).flags
          /\ r.debugger = Mine(t).debugger
    BY <1>1, <1>4, MarkerWritten
  <2>2. PICK o \in CallState :
          /\ op' = [op EXCEPT ![t] = o] /\ o.pc = "activate"
          /\ o.key = op[t].key /\ o.sure = op[t].sure /\ o.config = op[t].config
          /\ o.flags = op[t].flags /\ o.dlls = op[t].dlls
    BY <1>1, <1>4, Went DEF Pc, Ended
  <2>3. Others(r) = Others(Mine(t))
    BY <2>1, OthersFrom
  <2>4. ConfigFits(o) /\ MarkFits(o, r)
    BY <1>3, <1>4, <2>1, <2>2 DEF ConfigFits, MarkFits
  <2>5. Mine(t).debugger \in {Absent, Command}
    BY <1>1, <1>4 DEF KeyState
  <2>6. op[t].sure => PlanFits(o, r)
    BY <1>1, <2>1, <2>2, <2>5, InHand DEF PlanFits, FlagsFit, DllsFit
  <2> QED
    BY <1>1, <1>2, <1>4, <2>1, <2>2, <2>3, <2>4, <2>6, StepKeeps DEF Mine
<1>5. CASE Goto(t, "idle") /\ UNCHANGED key
  <2>1. "idle" \in Ended
    BY DEF Ended
  <2> QED
    BY <1>1, <1>2, <1>5, <2>1, StopKeeps
<1> QED
  BY <1>4, <1>5 DEF ConfigureLauncher

LEMMA ActivateKeeps ==
  ASSUME IInv, NEW t \in Tool, Activate(t)
  PROVE  IInv' /\ OthersKept
<1>1. TypeOK /\ Active(t)
  BY DEF IInv, Activate, Active, Ended
<1>2. Elsewhere
  BY DEF Activate
<1>3. PICK r \in KeyState :
        /\ key' = [key EXCEPT ![op[t].key] = r] /\ r.debugger = Command
        /\ r.dlls = Mine(t).dlls /\ r.flags = Mine(t).flags
        /\ r.marker = Mine(t).marker
  BY <1>1, DebuggerWritten DEF Activate
<1>4. PICK o \in CallState :
        /\ op' = [op EXCEPT ![t] = o] /\ o.pc = "values"
        /\ o.key = op[t].key /\ o.sure = op[t].sure /\ o.config = op[t].config
        /\ o.flags = op[t].flags /\ o.dlls = op[t].dlls
  BY <1>1, Went DEF Activate, Pc, Ended
<1>5. op[t].sure => PlanFits(op[t], Mine(t)) /\ Mine(t).debugger \in {Absent, Command}
  BY <1>1, InHand DEF PlanFits, Activate
<1>6. op[t].sure => Others(r) = Others(Mine(t))
  BY <1>3, <1>5, OthersFrom
<1>7. ConfigFits(o) /\ MarkFits(o, r)
  BY <1>4, InHand DEF ConfigFits, MarkFits, Activate
<1>8. op[t].sure => PlanFits(o, r)
  BY <1>3, <1>4, <1>5 DEF PlanFits, FlagsFit, DllsFit
<1>9. op[t].key \in disputed \/ (r.marker = Command /\ installed)
  BY <1>3, InHand DEF MarkFits, Activate
<1> QED
  BY <1>1, <1>2, <1>3, <1>4, <1>6, <1>7, <1>8, <1>9, StepKeeps DEF Mine

LEMMA RemoveDebuggerKeeps ==
  ASSUME IInv, NEW t \in Tool, RemoveDebugger(t)
  PROVE  IInv' /\ OthersKept
<1> DEFINE pc == IF Mine(t).marker # Absent THEN "unmark"
                 ELSE IF Deleting(t) THEN "settings" ELSE "values"
<1>1. TypeOK /\ Active(t) /\ Mine(t) \in KeyState
  BY MineTyped DEF IInv, RemoveDebugger, Active, Ended
<1>2. Elsewhere
  BY DEF RemoveDebugger
<1>3. PICK r \in KeyState :
        /\ key' = [key EXCEPT ![op[t].key] = r]
        /\ r.dlls = Mine(t).dlls /\ r.flags = Mine(t).flags
        /\ r.marker = Mine(t).marker
        /\ \/ Mine(t).marker # Absent /\ Mine(t).debugger = Mine(t).marker /\ r.debugger = Absent
           \/ ~(Mine(t).marker # Absent /\ Mine(t).debugger = Mine(t).marker)
              /\ r.debugger = Mine(t).debugger
  <2>1. CASE Mine(t).marker # Absent /\ Mine(t).debugger = Mine(t).marker
    BY <1>1, <2>1, DebuggerWritten DEF RemoveDebugger
  <2>2. CASE ~(Mine(t).marker # Absent /\ Mine(t).debugger = Mine(t).marker)
    BY <1>1, <2>2, MineTyped DEF RemoveDebugger
  <2> QED
    BY <2>1, <2>2
<1>4. PICK o \in CallState :
        /\ op' = [op EXCEPT ![t] = o] /\ o.pc = pc
        /\ o.key = op[t].key /\ o.sure = op[t].sure /\ o.config = op[t].config
        /\ o.flags = op[t].flags /\ o.dlls = op[t].dlls
  <2>1. Goto(t, pc) /\ pc \in Pc /\ pc \notin Ended
    BY DEF RemoveDebugger, Pc, Ended
  <2> QED
    BY <1>1, <2>1, Went
<1>5. Mine(t).marker \in {Absent, Command}
  BY <1>1 DEF KeyState
<1>6. Others(r) = Others(Mine(t))
  BY <1>3, <1>5, OthersFrom
<1>7. ConfigFits(o)
  <2>1. op[t].config \in Configuration \cup {NoConfiguration}
    BY <1>1, MineTyped DEF CallState
  <2> QED
    BY <1>4, <2>1 DEF ConfigFits, Deleting
<1>8. r.debugger = Command => op[t].key \in disputed
  BY <1>1, <1>3, <1>5, InHand, NameAssumption
<1>9. op[t].key \notin disputed => MarkFits(o, r)
  BY <1>4, <1>8 DEF MarkFits
<1>10. op[t].sure => PlanFits(o, r)
  BY <1>1, <1>3, <1>4, InHand DEF PlanFits, FlagsFit, DllsFit
<1> QED
  BY <1>1, <1>2, <1>3, <1>4, <1>6, <1>7, <1>8, <1>9, <1>10, StepKeeps DEF Mine

LEMMA RemoveMarkerKeeps ==
  ASSUME IInv, NEW t \in Tool, RemoveMarker(t)
  PROVE  IInv' /\ OthersKept
<1> DEFINE pc == IF Deleting(t) THEN "settings" ELSE "values"
<1>1. TypeOK /\ Active(t)
  BY DEF IInv, RemoveMarker, Active, Ended
<1>2. Elsewhere
  BY DEF RemoveMarker
<1>3. PICK r \in KeyState :
        /\ key' = [key EXCEPT ![op[t].key] = r] /\ r.marker = Absent
        /\ r.dlls = Mine(t).dlls /\ r.flags = Mine(t).flags
        /\ r.debugger = Mine(t).debugger
  BY <1>1, MarkerWritten DEF RemoveMarker
<1>4. PICK o \in CallState :
        /\ op' = [op EXCEPT ![t] = o] /\ o.pc = pc
        /\ o.key = op[t].key /\ o.sure = op[t].sure /\ o.config = op[t].config
        /\ o.flags = op[t].flags /\ o.dlls = op[t].dlls
  <2>1. Goto(t, pc) /\ pc \in Pc /\ pc \notin Ended
    BY DEF RemoveMarker, Pc, Ended
  <2> QED
    BY <1>1, <2>1, Went
<1>5. Others(r) = Others(Mine(t))
  BY <1>3, OthersFrom
<1>6. ConfigFits(o)
  <2>1. op[t].config \in Configuration \cup {NoConfiguration}
    BY <1>1, MineTyped DEF CallState
  <2> QED
    BY <1>4, <2>1 DEF ConfigFits, Deleting
<1>7. op[t].key \notin disputed => r.debugger # Command
  BY <1>3, InHand DEF MarkFits, RemoveMarker
<1>8. op[t].key \notin disputed => MarkFits(o, r)
  BY <1>4, <1>7 DEF MarkFits
<1>9. op[t].sure => PlanFits(o, r)
  BY <1>1, <1>3, <1>4, InHand DEF PlanFits, FlagsFit, DllsFit
<1> QED
  BY <1>1, <1>2, <1>3, <1>4, <1>5, <1>6, <1>7, <1>8, <1>9, StepKeeps DEF Mine

LEMMA WriteDwordKeeps ==
  ASSUME IInv, NEW t \in Tool, WriteDword(t)
  PROVE  IInv' /\ OthersKept
<1>1. TypeOK /\ Active(t) /\ op[t] \in CallState /\ Mine(t) \in KeyState
  BY MineTyped DEF IInv, WriteDword, Active, Ended
<1>2. Elsewhere
  BY DEF WriteDword
<1>3. op[t].config \in Configuration /\ op[t].config.data \in Data
  BY InHand, ConfigurationAssumption DEF ConfigFits, WriteDword
<1>4. Dwords[op[t].i] \in KexName
  <2>1. op[t].i \in 1 .. Len(Dwords)
    BY <1>1, ConfigurationAssumption DEF WriteDword, CallState
  <2> QED
    BY <2>1, ConfigurationAssumption DEF KexName, Range
<1>5. PICK r \in KeyState :
        /\ key' = [key EXCEPT ![op[t].key] = r]
        /\ r.dlls = Mine(t).dlls /\ r.flags = Mine(t).flags
        /\ r.marker = Mine(t).marker /\ r.debugger = Mine(t).debugger
  BY <1>1, <1>3, <1>4, KexWritten DEF WriteDword
<1> DEFINE o == [op[t] EXCEPT !.i = @ + 1]
<1>6. op' = [op EXCEPT ![t] = o]
  BY DEF WriteDword
<1>7. /\ o \in CallState /\ o.pc = "values"
      /\ o.key = op[t].key /\ o.sure = op[t].sure /\ o.config = op[t].config
      /\ o.flags = op[t].flags /\ o.dlls = op[t].dlls
  BY <1>1 DEF CallState, WriteDword
<1> HIDE DEF o
<1>8. Others(r) = Others(Mine(t))
  BY <1>5, OthersFrom
<1>9. ConfigFits(o) /\ MarkFits(o, r)
  BY <1>3, <1>7 DEF ConfigFits, MarkFits
<1>10. op[t].sure => PlanFits(o, r)
  BY <1>1, <1>5, <1>7, InHand DEF PlanFits, FlagsFit, DllsFit
<1> QED
  BY <1>1, <1>2, <1>5, <1>6, <1>7, <1>8, <1>9, <1>10, InHand, StepKeeps DEF Mine

LEMMA WriteGlobalFlagKeeps ==
  ASSUME IInv, NEW t \in Tool, WriteGlobalFlag(t)
  PROVE  IInv' /\ OthersKept
<1>1. TypeOK /\ Active(t) /\ op[t] \in CallState /\ Mine(t) \in KeyState
  BY MineTyped DEF IInv, WriteGlobalFlag, Active, Ended
<1>2. Elsewhere
  BY DEF WriteGlobalFlag
<1>3. op[t].flags \in FlagSet /\ ReadFlags(op[t].flags) = op[t].flags
  BY <1>1, NameAssumption DEF CallState, FlagSet, ReadFlags
<1>4. PICK r \in KeyState :
        /\ key' = [key EXCEPT ![op[t].key] = r] /\ r.flags = op[t].flags
        /\ r.dlls = Mine(t).dlls /\ r.marker = Mine(t).marker
        /\ r.debugger = Mine(t).debugger
  BY <1>1, <1>3, FlagsWritten DEF WriteGlobalFlag
<1>5. PICK o \in CallState :
        /\ op' = [op EXCEPT ![t] = o] /\ o.pc = "vflags"
        /\ o.key = op[t].key /\ o.sure = op[t].sure /\ o.config = op[t].config
        /\ o.flags = op[t].flags /\ o.dlls = op[t].dlls
  BY <1>1, Went DEF WriteGlobalFlag, Pc, Ended
<1>6. op[t].config \in Configuration /\ op[t].config # NoConfiguration
  BY InHand, ConfigurationAssumption DEF ConfigFits, WriteGlobalFlag
<1>7. op[t].sure => FlagsFit(op[t], Mine(t)) /\ DllsFit(op[t], Mine(t))
  BY <1>1, <1>6, InHand DEF PlanFits
<1>8. op[t].sure => Others(r) = Others(Mine(t))
  BY <1>3, <1>4, <1>7, OthersFrom DEF FlagsFit
<1>9. ConfigFits(o) /\ MarkFits(o, r)
  BY <1>5, <1>6 DEF ConfigFits, MarkFits
<1>10. op[t].sure => PlanFits(o, r)
  BY <1>3, <1>4, <1>5, <1>7 DEF PlanFits, FlagsFit, DllsFit
<1> QED
  BY <1>1, <1>2, <1>4, <1>5, <1>8, <1>9, <1>10, InHand, StepKeeps DEF Mine

LEMMA WriteVerifierFlagsKeeps ==
  ASSUME IInv, NEW t \in Tool, WriteVerifierFlags(t)
  PROVE  IInv' /\ OthersKept
<1>1. TypeOK /\ Active(t) /\ op[t] \in CallState /\ Mine(t) \in KeyState
  BY MineTyped DEF IInv, WriteVerifierFlags, Active, Ended
<1>2. Elsewhere
  BY DEF WriteVerifierFlags
<1>3. op[t].vflags \in {Absent} \cup VerifierFlags
  BY <1>1 DEF CallState
<1>4. PICK r \in KeyState :
        /\ key' = [key EXCEPT ![op[t].key] = r]
        /\ r.dlls = Mine(t).dlls /\ r.flags = Mine(t).flags
        /\ r.marker = Mine(t).marker /\ r.debugger = Mine(t).debugger
  BY <1>1, <1>3, VflagsWritten DEF WriteVerifierFlags
<1>5. PICK o \in CallState :
        /\ op' = [op EXCEPT ![t] = o] /\ o.pc = "dlls"
        /\ o.key = op[t].key /\ o.sure = op[t].sure /\ o.config = op[t].config
        /\ o.flags = op[t].flags /\ o.dlls = op[t].dlls
  BY <1>1, Went DEF WriteVerifierFlags, Pc, Ended
<1>6. Others(r) = Others(Mine(t))
  BY <1>4, OthersFrom
<1>7. ConfigFits(o) /\ MarkFits(o, r)
  BY <1>5, InHand DEF ConfigFits, MarkFits, WriteVerifierFlags
<1>8. op[t].sure => PlanFits(o, r)
  BY <1>1, <1>4, <1>5, InHand DEF PlanFits, FlagsFit, DllsFit
<1> QED
  BY <1>1, <1>2, <1>4, <1>5, <1>6, <1>7, <1>8, InHand, StepKeeps DEF Mine

LEMMA WriteVerifierDllsKeeps ==
  ASSUME IInv, NEW t \in Tool, WriteVerifierDlls(t)
  PROVE  IInv' /\ OthersKept
<1>1. TypeOK /\ Active(t) /\ op[t] \in CallState /\ Mine(t) \in KeyState
  BY MineTyped DEF IInv, WriteVerifierDlls, Active, Ended
<1>2. Elsewhere
  BY DEF WriteVerifierDlls
<1>3. op[t].dlls \in DllList /\ Listed(op[t].dlls) = op[t].dlls
  BY <1>1 DEF CallState, Listed
<1>4. PICK r \in KeyState :
        /\ key' = [key EXCEPT ![op[t].key] = r] /\ r.dlls = op[t].dlls
        /\ r.flags = Mine(t).flags /\ r.marker = Mine(t).marker
        /\ r.debugger = Mine(t).debugger
  BY <1>1, <1>3, DllsWritten DEF WriteVerifierDlls
<1>5. PICK o \in CallState : op' = [op EXCEPT ![t] = o] /\ o.pc = "succeeded"
  BY <1>1, Went DEF WriteVerifierDlls, Pc, Ended
<1>6. o.pc \in Ended /\ ConfigFits(o) /\ MarkFits(o, r)
  BY <1>5 DEF ConfigFits, MarkFits, Ended
<1>7. op[t].config \in Configuration /\ op[t].config # NoConfiguration
  BY InHand, ConfigurationAssumption DEF ConfigFits, WriteVerifierDlls
<1>8. op[t].sure => Others(r) = Others(Mine(t))
  BY <1>1, <1>3, <1>4, <1>7, InHand, OthersFrom DEF PlanFits, DllsFit
<1> QED
  BY <1>1, <1>2, <1>4, <1>5, <1>6, <1>8, InHand, StepKeeps DEF Mine

-----------------------------------------------------------------------------
(* The steps of KxCfgDeleteConfiguration *)

LEMMA DeleteSettingKeeps ==
  ASSUME IInv, NEW t \in Tool, DeleteSetting(t)
  PROVE  IInv' /\ OthersKept
<1>1. TypeOK /\ Active(t) /\ op[t] \in CallState /\ Mine(t) \in KeyState
  BY MineTyped DEF IInv, DeleteSetting, Active, Ended
<1>2. Elsewhere
  BY DEF DeleteSetting
<1>3. /\ op[t].pc = "settings" /\ op[t].config = NoConfiguration
      /\ op[t].key \notin disputed => Mine(t).debugger # Command
  BY InHand DEF ConfigFits, MarkFits, DeleteSetting
<1>4. CASE UNCHANGED op /\ \/ \E n \in KexName : key' = [key EXCEPT ![op[t].key].kex[n] = Absent]
                           \/ Write(t, "marker", Absent)
  <2>1. PICK r \in KeyState :
          /\ key' = [key EXCEPT ![op[t].key] = r]
          /\ r.dlls = Mine(t).dlls /\ r.flags = Mine(t).flags
          /\ r.debugger = Mine(t).debugger
    <3>1. CASE \E n \in KexName : key' = [key EXCEPT ![op[t].key].kex[n] = Absent]
      <4>1. PICK n \in KexName : key' = [key EXCEPT ![op[t].key].kex[n] = Absent]
        BY <3>1
      <4> QED
        BY <1>1, <4>1, KexWritten
    <3>2. CASE Write(t, "marker", Absent)
      BY <1>1, <3>2, MarkerWritten
    <3> QED
      BY <1>4, <3>1, <3>2
  <2>2. op' = [op EXCEPT ![t] = op[t]]
    BY <1>1, <1>4 DEF TypeOK
  <2>3. Others(r) = Others(Mine(t))
    BY <2>1, OthersFrom
  <2>4. ConfigFits(op[t]) /\ (op[t].key \notin disputed => MarkFits(op[t], r))
    BY <1>3, <2>1, InHand DEF MarkFits
  <2>5. op[t].sure => PlanFits(op[t], r)
    BY <1>1, <1>3, <2>1, InHand DEF PlanFits, FlagsFit, DllsFit
  <2> QED
    BY <1>1, <1>2, <1>3, <2>1, <2>2, <2>3, <2>4, <2>5, StepKeeps DEF Mine
<1>5. CASE Goto(t, "read") /\ UNCHANGED key
  <2>1. PICK o \in CallState :
          /\ op' = [op EXCEPT ![t] = o] /\ o.pc = "read"
          /\ o.key = op[t].key /\ o.sure = op[t].sure /\ o.config = op[t].config
          /\ o.flags = op[t].flags /\ o.dlls = op[t].dlls
    BY <1>1, <1>5, Went DEF Pc, Ended
  <2>2. key' = [key EXCEPT ![op[t].key] = Mine(t)]
    BY <1>1, <1>5, MineTyped
  <2>3. ConfigFits(o) /\ MarkFits(o, Mine(t))
    BY <1>3, <2>1 DEF ConfigFits, MarkFits
  <2>4. op[t].sure => PlanFits(o, Mine(t))
    BY <1>1, <1>3, <2>1, InHand DEF PlanFits
  <2> QED
    BY <1>1, <1>2, <2>1, <2>2, <2>3, <2>4, InHand, StepKeeps DEF Mine
<1> QED
  BY <1>4, <1>5 DEF DeleteSetting

LEMMA ReadVerifierDllsKeeps ==
  ASSUME IInv, NEW t \in Tool, ReadVerifierDlls(t)
  PROVE  IInv' /\ OthersKept
<1>1. TypeOK /\ Active(t) /\ op[t] \in CallState /\ Mine(t) \in KeyState
  BY MineTyped DEF IInv, ReadVerifierDlls, Active, Ended
<1>2. Elsewhere
  BY DEF ReadVerifierDlls
<1> DEFINE dlls == Mine(t).dlls
           left == RemoveKexDll(ReadString(dlls))
           pc == IF ~Readable(dlls) THEN "idle"
                 ELSE IF KexDll \in ReadString(dlls) THEN "remove" ELSE "succeeded"
           p == [op[t] EXCEPT !.dlls = left]
           o == At(p, pc)
<1>3. op' = [op EXCEPT ![t] = o]
  BY DEF ReadVerifierDlls
<1>4. left \in DllList \ {Absent}
  BY <1>1, ListTyped DEF KeyState
<1>5. /\ p \in CallState /\ p.key = op[t].key /\ p.sure = op[t].sure
      /\ p.config = op[t].config /\ p.dlls = left
  BY <1>1, <1>4 DEF CallState
<1>6. pc \in Pc /\ (pc \notin Ended => pc = "remove" /\ Readable(dlls))
  BY DEF Pc, Ended
<1> HIDE DEF p
<1>7. /\ o \in CallState /\ o.pc = pc
      /\ pc \notin Ended =>
           /\ o.key = op[t].key /\ o.sure = op[t].sure
           /\ o.config = op[t].config /\ o.dlls = left
  BY <1>5, <1>6, AtTyped
<1> HIDE DEF o, pc
<1>8. op[t].config = NoConfiguration
  BY InHand DEF ConfigFits, ReadVerifierDlls
<1>9. ConfigFits(o) /\ MarkFits(o, Mine(t))
  BY <1>6, <1>7, <1>8 DEF ConfigFits, MarkFits, Ended
<1>10. o.pc \notin Ended => PlanFits(o, Mine(t))
  BY <1>6, <1>7, <1>8 DEF PlanFits, DllsFit, ReadString, RemoveKexDll
<1>11. key' = [key EXCEPT ![op[t].key] = Mine(t)]
  BY <1>1, MineTyped DEF ReadVerifierDlls
<1> QED
  BY <1>1, <1>2, <1>3, <1>7, <1>9, <1>10, <1>11, InHand, StepKeeps DEF Mine

LEMMA RemoveFromListKeeps ==
  ASSUME IInv, NEW t \in Tool, RemoveFromList(t)
  PROVE  IInv' /\ OthersKept
<1>1. TypeOK /\ Active(t) /\ op[t] \in CallState /\ Mine(t) \in KeyState
  BY MineTyped DEF IInv, RemoveFromList, Active, Ended
<1>2. Elsewhere
  BY DEF RemoveFromList
<1> DEFINE left == IF op[t].dlls = {} THEN Absent ELSE op[t].dlls
           flags == ReadFlags(Mine(t).flags)
           pc == IF op[t].dlls = {} /\ "verifier" \in flags THEN "clear" ELSE "succeeded"
           p == [op[t] EXCEPT !.flags = flags]
           o == At(p, pc)
<1>3. op' = [op EXCEPT ![t] = o] /\ Write(t, "dlls", left)
  BY DEF RemoveFromList
<1>4. left \in DllList /\ Listed(left) = op[t].dlls
  BY <1>1 DEF CallState, DllList, Listed
<1>5. flags \in FlagSet
  BY <1>1, ListTyped DEF KeyState
<1>6. /\ p \in CallState /\ p.key = op[t].key /\ p.sure = op[t].sure
      /\ p.config = op[t].config /\ p.flags = flags
  BY <1>1, <1>5 DEF CallState
<1>7. pc \in Pc /\ (pc \notin Ended => pc = "clear")
  BY DEF Pc, Ended
<1> HIDE DEF p
<1>8. /\ o \in CallState /\ o.pc = pc
      /\ pc \notin Ended =>
           /\ o.key = op[t].key /\ o.sure = op[t].sure
           /\ o.config = op[t].config /\ o.flags = flags
  BY <1>6, <1>7, AtTyped
<1> HIDE DEF o, pc, left
<1>9. PICK r \in KeyState :
        /\ key' = [key EXCEPT ![op[t].key] = r] /\ r.dlls = left
        /\ r.flags = Mine(t).flags /\ r.marker = Mine(t).marker
        /\ r.debugger = Mine(t).debugger
  BY <1>1, <1>3, <1>4, DllsWritten
<1>10. op[t].config = NoConfiguration
  BY InHand DEF ConfigFits, RemoveFromList
<1>11. ConfigFits(o) /\ MarkFits(o, r)
  BY <1>7, <1>8, <1>10 DEF ConfigFits, MarkFits, Ended
<1>12. o.pc \notin Ended => PlanFits(o, r)
  BY <1>7, <1>8, <1>9, <1>10 DEF PlanFits, FlagsFit
<1>13. op[t].sure => DllsFit(op[t], Mine(t))
  BY <1>1, InHand DEF PlanFits, RemoveFromList
<1>14. op[t].sure => Others(r) = Others(Mine(t))
  BY <1>4, <1>9, <1>13, OthersFrom DEF DllsFit
<1> QED
  BY <1>1, <1>2, <1>3, <1>8, <1>9, <1>11, <1>12, <1>14, InHand, StepKeeps DEF Mine

LEMMA ClearGlobalFlagKeeps ==
  ASSUME IInv, NEW t \in Tool, ClearGlobalFlag(t)
  PROVE  IInv' /\ OthersKept
<1>1. TypeOK /\ Active(t) /\ op[t] \in CallState /\ Mine(t) \in KeyState
  BY MineTyped DEF IInv, ClearGlobalFlag, Active, Ended
<1>2. Elsewhere
  BY DEF ClearGlobalFlag
<1> DEFINE left == op[t].flags \ {"verifier"}
           flags == IF left = {} THEN Absent ELSE left
<1>3. flags \in {Absent} \cup FlagSet /\ ReadFlags(flags) = left
  BY <1>1, NameAssumption DEF CallState, FlagSet, ReadFlags
<1>4. Write(t, "flags", flags)
  BY DEF ClearGlobalFlag
<1> HIDE DEF flags
<1>5. PICK r \in KeyState :
        /\ key' = [key EXCEPT ![op[t].key] = r] /\ r.flags = flags
        /\ r.dlls = Mine(t).dlls /\ r.marker = Mine(t).marker
        /\ r.debugger = Mine(t).debugger
  BY <1>1, <1>3, <1>4, FlagsWritten
<1>6. PICK o \in CallState :
        /\ op' = [op EXCEPT ![t] = o] /\ o.pc = "forget"
        /\ o.key = op[t].key /\ o.sure = op[t].sure /\ o.config = op[t].config
        /\ o.flags = op[t].flags /\ o.dlls = op[t].dlls
  BY <1>1, Went DEF ClearGlobalFlag, Pc, Ended
<1>7. op[t].config = NoConfiguration
  BY InHand DEF ConfigFits, ClearGlobalFlag
<1>8. op[t].sure => FlagsFit(op[t], Mine(t))
  BY <1>1, InHand DEF PlanFits, ClearGlobalFlag
<1>9. op[t].sure => Others(r) = Others(Mine(t))
  BY <1>3, <1>5, <1>8, OthersFrom DEF FlagsFit
<1>10. ConfigFits(o) /\ MarkFits(o, r) /\ PlanFits(o, r)
  BY <1>6, <1>7 DEF ConfigFits, MarkFits, PlanFits
<1> QED
  BY <1>1, <1>2, <1>5, <1>6, <1>9, <1>10, InHand, StepKeeps DEF Mine

LEMMA DeleteVerifierFlagsKeeps ==
  ASSUME IInv, NEW t \in Tool, DeleteVerifierFlags(t)
  PROVE  IInv' /\ OthersKept
<1>1. TypeOK /\ Active(t) /\ op[t] \in CallState /\ Mine(t) \in KeyState
  BY MineTyped DEF IInv, DeleteVerifierFlags, Active, Ended
<1>2. Elsewhere
  BY DEF DeleteVerifierFlags
<1>3. PICK r \in KeyState :
        /\ key' = [key EXCEPT ![op[t].key] = r]
        /\ r.dlls = Mine(t).dlls /\ r.flags = Mine(t).flags
        /\ r.marker = Mine(t).marker /\ r.debugger = Mine(t).debugger
  <2>1. CASE Write(t, "vflags", Absent)
    BY <1>1, <2>1, VflagsWritten
  <2>2. CASE UNCHANGED key
    BY <1>1, <2>2, MineTyped
  <2> QED
    BY <2>1, <2>2 DEF DeleteVerifierFlags
<1>4. PICK o \in CallState : op' = [op EXCEPT ![t] = o] /\ o.pc = "succeeded"
  BY <1>1, Went DEF DeleteVerifierFlags, Pc, Ended
<1>5. o.pc \in Ended /\ ConfigFits(o) /\ MarkFits(o, r)
  BY <1>4 DEF ConfigFits, MarkFits, Ended
<1>6. Others(r) = Others(Mine(t))
  BY <1>3, OthersFrom
<1> QED
  BY <1>1, <1>2, <1>3, <1>4, <1>5, <1>6, InHand, StepKeeps DEF Mine

LEMMA AbortKeeps ==
  ASSUME IInv, NEW t \in Tool, Abort(t)
  PROVE  IInv' /\ OthersKept
<1>1. /\ Active(t) /\ Goto(t, "idle") /\ UNCHANGED key /\ Elsewhere
      /\ "idle" \in Ended
  BY DEF Abort, Active, Ended
<1> QED
  BY <1>1, StopKeeps

-----------------------------------------------------------------------------
(* A call begins *)

LEMMA CallKeeps ==
  ASSUME IInv, NEW t \in Tool, NEW k \in Key, NEW o \in CallState, Call(t, k, o),
         o.pc \in {"path", "launcher"}, o.key = k, ConfigFits(o),
         o.sure => On(k) = {} /\ PlanFits(o, key[k])
  PROVE  IInv' /\ OthersKept
<1>1. TypeOK /\ op \in [Tool -> CallState]
  BY DEF IInv, TypeOK
<1> DEFINE over == Overlapped({k})
<1>2. /\ over \in [Tool -> CallState]
      /\ \A u \in Tool :
           /\ over[u].pc = op[u].pc /\ over[u].key = op[u].key
           /\ over[u].config = op[u].config
           /\ over[u].flags = op[u].flags /\ over[u].dlls = op[u].dlls
           /\ over[u].sure => op[u].sure /\ (Active(u) => op[u].key # k)
  BY <1>1, OverlappedTyped
<1>3. op' = [over EXCEPT ![t] = o]
  BY DEF Call
<1> HIDE DEF over
<1>4. /\ op' \in [Tool -> CallState] /\ op'[t] = o
      /\ \A u \in Tool : u # t => op'[u] = over[u]
  BY <1>2, <1>3
<1>5. /\ UNCHANGED <<key, installed, store, edits>> /\ calls' \in Nat
      /\ disputed \subseteq disputed' /\ disputed' \subseteq Key
      /\ On(k) # {} => k \in disputed'
      /\ ~Active(t)
  BY <1>1 DEF Call, TypeOK, Active
<1>6. TypeOK'
  BY <1>4, <1>5, <1>1 DEF TypeOK
<1>7. Alone'
  <2> SUFFICES ASSUME NEW u \in Tool, NEW v \in Tool, u # v,
                      op'[u].pc \notin Ended, op'[v].pc \notin Ended, op'[u].key = op'[v].key
               PROVE  op'[u].key \in disputed' /\ ~op'[u].sure
    BY DEF Alone, Active
  <2>1. \A w \in Tool : w # t /\ op'[w].pc \notin Ended =>
          /\ Active(w) /\ op'[w].key = op[w].key
          /\ op'[w].sure => op[w].sure /\ op[w].key # k
    BY <1>2, <1>4 DEF Active
  <2>2. CASE u = t
    <3>1. v \in On(k)
      BY <2>1, <2>2, <1>4 DEF On, Active
    <3> QED
      BY <2>2, <3>1, <1>4, <1>5
  <2>3. CASE u # t /\ v = t
    <3>1. op'[u].key = k /\ u \in On(k)
      BY <2>1, <2>3, <1>4 DEF On, Active
    <3> QED
      BY <2>1, <2>3, <3>1, <1>5
  <2>4. CASE u # t /\ v # t
    BY <2>1, <2>4, <1>5 DEF IInv, Alone
  <2> QED
    BY <2>2, <2>3, <2>4
<1>8. Configured'
  <2>1. \A u \in Tool : u # t => ConfigFits(over[u])
    BY <1>2 DEF IInv, Configured, ConfigFits
  <2> QED
    BY <1>4, <2>1 DEF Configured, ConfigFits
<1>9. MarkedFirst'
  <2> SUFFICES ASSUME NEW u \in Tool, op'[u].key \notin disputed'
               PROVE  MarkFits(op'[u], key[op'[u].key])
    BY <1>5 DEF MarkedFirst, MarkFits
  <2>1. CASE u = t
    BY <2>1, <1>4 DEF MarkFits
  <2>2. CASE u # t
    <3>1. op[u].key \notin disputed /\ op'[u].key = op[u].key /\ op'[u].pc = op[u].pc
      BY <2>2, <1>2, <1>4, <1>5
    <3> QED
      BY <3>1 DEF IInv, MarkedFirst, MarkFits
  <2> QED
    BY <2>1, <2>2
<1>10. StoreMarked'
  BY <1>5 DEF IInv, StoreMarked
<1>11. Planned'
  <2> SUFFICES ASSUME NEW u \in Tool, op'[u].pc \notin Ended, op'[u].sure
               PROVE  PlanFits(op'[u], key[op'[u].key])
    BY <1>5 DEF Planned, Active
  <2>1. CASE u = t
    BY <2>1, <1>4
  <2>2. CASE u # t
    <3>1. /\ op'[u].key = op[u].key /\ op'[u].pc = op[u].pc
          /\ op'[u].config = op[u].config
          /\ op'[u].flags = op[u].flags /\ op'[u].dlls = op[u].dlls
          /\ op[u].sure /\ Active(u)
      BY <2>2, <1>2, <1>4 DEF Active
    <3>2. PlanFits(op[u], key[op[u].key])
      BY <3>1 DEF IInv, Planned
    <3> QED
      BY <3>1, <3>2 DEF PlanFits, FlagsFit, DllsFit
  <2> QED
    BY <2>1, <2>2
<1>12. LaunchCommandWorks'
  BY <1>5 DEF IInv, LaunchCommandWorks
<1>13. OthersKept
  BY <1>5 DEF OthersKept, Others
<1> QED
  BY <1>6, <1>7, <1>8, <1>9, <1>10, <1>11, <1>12, <1>13 DEF IInv

LEMMA SetConfigurationKeeps ==
  ASSUME IInv, NEW t \in Tool, NEW k \in Key, NEW c \in Configuration, SetConfiguration(t, k, c)
  PROVE  IInv' /\ OthersKept
<1> DEFINE r == key[k]
           dlls == ReadString(r.dlls)
           flags == ReadFlags(r.flags)
           off == KexDll \in dlls /\ RemoveKexDll(dlls) = {}
           d == IF c.enabled THEN AddKexDll(dlls) ELSE RemoveKexDll(dlls)
           f == IF c.enabled THEN flags \cup {"verifier"}
                ELSE IF off THEN flags \ {"verifier"} ELSE flags
           v == IF c.enabled THEN "full"
                ELSE IF off THEN "zero" ELSE ReadVerifierFlags(r.vflags)
           s == On(k) = {} /\ Readable(r.dlls) /\ (c.enabled => HasRoom(dlls))
           o == [NoCall EXCEPT !.pc = "path", !.key = k, !.config = c, !.dlls = d,
                               !.flags = f, !.vflags = v, !.sure = s]
<1>1. Call(t, k, o)
  BY DEF SetConfiguration
<1>2. r \in KeyState
  BY DEF IInv, TypeOK
<1>3. /\ dlls \in SUBSET (Foreign \cup {KexDll, Cut})
      /\ flags \in FlagSet /\ ReadVerifierFlags(r.vflags) \in VerifierFlags
  BY <1>2, ListTyped DEF KeyState
<1>4. d \in DllList \ {Absent} /\ f \in FlagSet /\ v \in VerifierFlags /\ s \in BOOLEAN
  <2>1. d \in DllList \ {Absent}
    BY <1>3, ListTyped
  <2>2. f \in FlagSet
    BY <1>3 DEF FlagSet
  <2>3. v \in VerifierFlags
    BY <1>3 DEF VerifierFlags
  <2> QED
    BY <2>1, <2>2, <2>3
<1>5. d \ {KexDll, Cut} = dlls \ {KexDll, Cut}
  BY DEF AddKexDll, RemoveKexDll
<1>6. s => dlls = Listed(r.dlls)
  BY DEF ReadString
<1>7. f \ {"verifier"} = flags \ {"verifier"}
  OBVIOUS
<1>8. s => On(k) = {}
  OBVIOUS
<1> HIDE DEF d, f, v, s
<1>9. /\ o \in CallState /\ o.pc = "path" /\ o.key = k /\ o.config = c
      /\ o.dlls = d /\ o.flags = f /\ o.sure = s
  BY <1>4, ConstantsTyped DEF CallState, Ended
<1> HIDE DEF o
<1>10. ConfigFits(o)
  BY <1>9 DEF ConfigFits
<1>11. o.sure => On(k) = {} /\ PlanFits(o, r)
  BY <1>5, <1>6, <1>7, <1>8, <1>9 DEF PlanFits, FlagsFit, DllsFit
<1> QED
  BY <1>1, <1>9, <1>10, <1>11, CallKeeps

LEMMA DeleteConfigurationKeeps ==
  ASSUME IInv, NEW t \in Tool, NEW k \in Key, DeleteConfiguration(t, k)
  PROVE  IInv' /\ OthersKept
<1> DEFINE s == On(k) = {}
           o == [NoCall EXCEPT !.pc = "launcher", !.key = k, !.sure = s]
<1>1. Call(t, k, o)
  BY DEF DeleteConfiguration
<1>2. s \in BOOLEAN /\ (s => On(k) = {})
  OBVIOUS
<1> HIDE DEF s
<1>3. /\ o \in CallState /\ o.pc = "launcher" /\ o.key = k /\ o.sure = s
      /\ o.config = NoConfiguration
  <2>1. NoCall.config = NoConfiguration
    BY DEF NoCall
  <2> QED
    BY <1>2, <2>1, ConstantsTyped DEF CallState, Ended
<1> HIDE DEF o
<1>4. ConfigFits(o) /\ PlanFits(o, key[k])
  BY <1>3 DEF ConfigFits, PlanFits
<1> QED
  BY <1>1, <1>2, <1>3, <1>4, CallKeeps

-----------------------------------------------------------------------------
(* Other products *)

LEMMA EditKeeps ==
  ASSUME IInv, NEW k \in Key, NEW r \in KeyState, Edit(k, r), r.marker = key[k].marker,
         r.debugger = key[k].debugger \/ r.debugger # Command
  PROVE  IInv' /\ OthersKept
<1>1. TypeOK /\ op \in [Tool -> CallState] /\ key \in [Key -> KeyState]
  BY DEF IInv, TypeOK
<1>2. /\ op' \in [Tool -> CallState]
      /\ \A u \in Tool :
           /\ op'[u].pc = op[u].pc /\ op'[u].key = op[u].key
           /\ op'[u].config = op[u].config
           /\ op'[u].flags = op[u].flags /\ op'[u].dlls = op[u].dlls
           /\ op'[u].sure => op[u].sure /\ (Active(u) => op[u].key # k)
  BY <1>1, OverlappedTyped DEF Edit
<1>3. /\ key' \in [Key -> KeyState] /\ key'[k] = r
      /\ \A j \in Key : j # k => key'[j] = key[j]
  BY <1>1 DEF Edit
<1>4. UNCHANGED <<installed, store, disputed, calls>> /\ edits' = edits + 1 /\ edits \in Nat
  BY <1>1 DEF Edit, TypeOK
<1>5. \A u \in Tool : op[u].key \in Key
  BY <1>1 DEF CallState
<1>6. TypeOK'
  BY <1>1, <1>2, <1>3, <1>4 DEF TypeOK
<1>7. Alone'
  BY <1>2, <1>4 DEF IInv, Alone, Active
<1>8. Configured'
  BY <1>2 DEF IInv, Configured, ConfigFits
<1>9. \A j \in Key : /\ key'[j].marker = key[j].marker
                     /\ key'[j].debugger = Command => key[j].debugger = Command
  BY <1>3
<1>10. MarkedFirst'
  BY <1>2, <1>4, <1>5, <1>9 DEF IInv, MarkedFirst, MarkFits
<1>11. StoreMarked'
  BY <1>4 DEF IInv, StoreMarked
<1>12. Planned'
  <2> SUFFICES ASSUME NEW u \in Tool, op'[u].pc \notin Ended, op'[u].sure
               PROVE  PlanFits(op'[u], key'[op'[u].key])
    BY DEF Planned, Active
  <2>1. PlanFits(op[u], key[op[u].key]) /\ op[u].key # k
    BY <1>2 DEF IInv, Planned, Active
  <2>2. key'[op[u].key] = key[op[u].key]
    BY <2>1, <1>3, <1>5
  <2> QED
    BY <2>1, <2>2, <1>2 DEF PlanFits, FlagsFit, DllsFit
<1>13. LaunchCommandWorks'
  BY <1>4, <1>9 DEF IInv, LaunchCommandWorks
<1>14. OthersKept
  <2>1. edits' # edits
    BY <1>4
  <2> QED
    BY <2>1 DEF OthersKept
<1> QED
  BY <1>6, <1>7, <1>8, <1>10, <1>11, <1>12, <1>13, <1>14 DEF IInv

LEMMA EditVerifierKeeps ==
  ASSUME IInv, NEW k \in Key, NEW others \in Lists, EditVerifier(k, others)
  PROVE  IInv' /\ OthersKept
<1> DEFINE s == key[k]
           on == others # {} \/ KexDll \in Listed(s.dlls)
           dlls == others \cup (Listed(s.dlls) \ Foreign)
           flags == IF on THEN ReadFlags(s.flags) \cup {"verifier"}
                    ELSE ReadFlags(s.flags) \ {"verifier"}
           r == [s EXCEPT !.dlls = dlls, !.flags = flags, !.vflags = "other"]
<1>1. Edit(k, r)
  BY DEF EditVerifier
<1>2. s \in KeyState
  BY DEF IInv, TypeOK
<1>3. Listed(s.dlls) \in SUBSET (Foreign \cup {KexDll, Cut}) /\ ReadFlags(s.flags) \in FlagSet
  BY <1>2, ListTyped DEF KeyState
<1>4. dlls \in DllList
  BY <1>3, NameAssumption DEF DllList
<1>5. flags \in FlagSet
  BY <1>3 DEF FlagSet
<1> HIDE DEF dlls, flags
<1>6. r \in KeyState
  BY <1>2, <1>4, <1>5 DEF KeyState, VerifierFlags
<1>7. r.marker = s.marker /\ r.debugger = s.debugger
  BY <1>2 DEF KeyState
<1> HIDE DEF r
<1> QED
  BY <1>1, <1>6, <1>7, EditKeeps

LEMMA EditFlagsKeeps ==
  ASSUME IInv, NEW k \in Key, EditFlags(k)
  PROVE  IInv' /\ OthersKept
<1> DEFINE s == key[k]
           flags == IF "snaps" \in ReadFlags(s.flags) THEN s.flags \ {"snaps"}
                    ELSE ReadFlags(s.flags) \cup {"snaps"}
           r == [s EXCEPT !.flags = flags]
<1>1. Edit(k, r)
  BY DEF EditFlags
<1>2. s \in KeyState
  BY DEF IInv, TypeOK
<1>3. flags \in FlagSet
  BY <1>2 DEF KeyState, FlagSet, ReadFlags
<1> HIDE DEF flags
<1>4. r \in KeyState
  BY <1>2, <1>3 DEF KeyState
<1>5. r.marker = s.marker /\ r.debugger = s.debugger
  BY <1>2 DEF KeyState
<1> HIDE DEF r
<1> QED
  BY <1>1, <1>4, <1>5, EditKeeps

LEMMA EditDebuggerKeeps ==
  ASSUME IInv, NEW k \in Key, NEW d \in Debugger, EditDebugger(k, d)
  PROVE  IInv' /\ OthersKept
<1> DEFINE s == key[k]
           r == [s EXCEPT !.debugger = d]
<1>1. Edit(k, r)
  BY DEF EditDebugger
<1>2. s \in KeyState
  BY DEF IInv, TypeOK
<1>3. r \in KeyState /\ r.marker = s.marker /\ r.debugger = d
  BY <1>2 DEF KeyState
<1>4. d # Command
  BY NameAssumption
<1> HIDE DEF r
<1> QED
  BY <1>1, <1>3, <1>4, EditKeeps

-----------------------------------------------------------------------------
(* Set-up *)

LEMMA CommitKeeps ==
  ASSUME IInv, Commit, installed' \in BOOLEAN,
         store' = NoStore \/ \E ks \in SUBSET User : store' \in [ks -> Saved],
         StoreMarked',
         key' \in [Key -> KeyState],
         \A k \in Key :
           /\ Others(key'[k]) = Others(key[k])
           /\ key'[k].debugger = Command =>
                k \in disputed \/ (key'[k].marker = Command /\ installed')
  PROVE  IInv' /\ OthersKept
<1>1. TypeOK
  BY DEF IInv
<1>2. /\ op' \in [Tool -> CallState]
      /\ \A u \in Tool :
           /\ op'[u].pc = op[u].pc /\ op'[u].key = op[u].key
           /\ op'[u].config = op[u].config
           /\ op'[u].sure => op[u].sure /\ (Active(u) => op[u].key \notin Key)
  BY <1>1, OverlappedTyped DEF Commit
<1>3. \A u \in Tool : op[u].key \in Key
  BY <1>1 DEF TypeOK, CallState
<1>4. /\ UNCHANGED <<calls, edits>>
      /\ disputed \subseteq disputed' /\ disputed' \subseteq Key
  BY <1>1 DEF Commit, TypeOK
<1>5. \A u \in Tool : Active(u) => op[u].key \in disputed' /\ ~op'[u].sure
  <2> SUFFICES ASSUME NEW u \in Tool, Active(u) PROVE op[u].key \in disputed' /\ ~op'[u].sure
    OBVIOUS
  <2>1. u \in On(op[u].key)
    BY DEF On, Active
  <2> QED
    BY <2>1, <1>2, <1>3 DEF Commit
<1>6. TypeOK'
  BY <1>1, <1>2, <1>4 DEF TypeOK
<1>7. Alone'
  BY <1>2, <1>5 DEF Alone, Active
<1>8. Configured'
  BY <1>2 DEF IInv, Configured, ConfigFits
<1>9. MarkedFirst'
  BY <1>2, <1>5 DEF MarkedFirst, MarkFits, Active, Ended
<1>10. Planned'
  BY <1>2, <1>5 DEF Planned, Active
<1>11. LaunchCommandWorks'
  BY <1>4 DEF LaunchCommandWorks
<1>12. OthersKept
  BY DEF OthersKept, Others
<1> QED
  BY <1>6, <1>7, <1>8, <1>9, <1>10, <1>11, <1>12 DEF IInv

\* What is disabled names no command of ours, unless it has lost its mark.
LEMMA Disabled ==
  ASSUME NEW r \in KeyState
  PROVE  /\ Disable(r) \in KeyState
         /\ Disable(r).debugger = Command => r.debugger = Command /\ r.marker # Command
         /\ Readable(r.dlls) => Others(Disable(r)) = Others(r)
<1> DEFINE ours == KexDll \in ReadString(r.dlls)
           others == RemoveKexDll(ReadString(r.dlls))
           last == ours /\ others = {}
           d == IF Owns(r) THEN Absent ELSE r.debugger
           l == IF last THEN Absent ELSE IF ours THEN others ELSE r.dlls
           f == IF last THEN ReadFlags(r.flags) \ {"verifier"} ELSE r.flags
           v == IF last THEN Absent ELSE r.vflags
           new == [r EXCEPT !.debugger = d, !.marker = Absent, !.kex = NoValues,
                            !.dlls = l, !.flags = f, !.vflags = v]
<1>1. Disable(r) = new
  BY DEF Disable
<1>2. /\ ReadString(r.dlls) \in SUBSET (Foreign \cup {KexDll, Cut})
      /\ ReadFlags(r.flags) \in FlagSet
  BY ListTyped DEF KeyState
<1>3. others \in DllList /\ Absent \in DllList
  BY <1>2, ListTyped DEF DllList
<1>4. l \in DllList
  BY <1>3 DEF KeyState
<1>6. f \in {Absent} \cup FlagSet /\ v \in {Absent} \cup VerifierFlags
  BY <1>2 DEF KeyState, FlagSet
<1>7. d \in Debugger \cup {Absent, Command}
  BY DEF KeyState
<1>8. d = Command => r.debugger = Command /\ r.marker # Command
  BY NameAssumption DEF Owns
<1>9. d = r.debugger \/ {d, r.debugger} \subseteq {Absent, Command}
  BY DEF Owns, KeyState
<1>10. ReadFlags(f) \ {"verifier"} = ReadFlags(r.flags) \ {"verifier"}
  <2>1. CASE last
    <3>1. f # Absent
      BY <1>2, <2>1, NameAssumption DEF FlagSet
    <3> QED
      BY <2>1, <3>1 DEF ReadFlags
  <2>2. CASE ~last
    BY <2>2
  <2> QED
    BY <2>1, <2>2
<1>11. Readable(r.dlls) => Listed(l) \ {KexDll, Cut} = Listed(r.dlls) \ {KexDll, Cut}
  <2> SUFFICES ASSUME Readable(r.dlls)
               PROVE  Listed(l) \ {KexDll, Cut} = Listed(r.dlls) \ {KexDll, Cut}
    OBVIOUS
  <2>1. ReadString(r.dlls) = Listed(r.dlls)
    BY DEF ReadString
  <2>2. Listed(others) = others /\ Listed(Absent) = {}
    <3>1. others \in DllList \ {Absent}
      BY <1>2, ListTyped
    <3> QED
      BY <3>1 DEF Listed
  <2> QED
    BY <2>1, <2>2 DEF RemoveKexDll
<1> HIDE DEF d, l, f, v
<1>12. /\ new \in KeyState
       /\ new.debugger = d /\ new.dlls = l /\ new.flags = f
  BY <1>4, <1>6, <1>7, ConstantsTyped DEF KeyState
<1> HIDE DEF new
<1> QED
  BY <1>1, <1>8, <1>9, <1>10, <1>11, <1>12, OthersFrom

LEMMA SavedMarked ==
  ASSUME NEW r \in KeyState
  PROVE  Save(r) \in Saved /\ (Save(r).debugger = Command => Save(r).marker = Command)
<1>1. Save(r).debugger \in {Absent, Command}
  BY DEF Save, Owns, KeyState
<1>2. Save(r).vflags \in VerifierFlags
  BY ListTyped DEF Save, KeyState
<1>3. Save(r).enabled \in BOOLEAN
  BY DEF Save
<1>4. Save(r) \in Saved
  BY <1>1, <1>2, <1>3 DEF Save, Saved, KeyState
<1>5. Save(r).debugger = Command => Save(r).marker = Command
  BY NameAssumption DEF Save, Owns
<1> QED
  BY <1>4, <1>5

LEMMA RestoredSound ==
  ASSUME NEW r \in KeyState, NEW s \in Saved, ~Conflicts(r, s),
         s.debugger = Command => s.marker = Command
  PROVE  /\ Restored(r, s) \in KeyState
         /\ Others(Restored(r, s)) = Others(r)
         /\ Restored(r, s).debugger = Command /\ (r.debugger = Command => r.marker = Command) =>
              Restored(r, s).marker = Command
<1> DEFINE x == [n \in KexName |-> Chosen(s.kex[n], r.kex[n])]
           m == Chosen(s.marker, r.marker)
           d == Chosen(s.debugger, r.debugger)
           l == IF s.enabled THEN ReadString(r.dlls) \cup {KexDll} ELSE r.dlls
           f == IF s.enabled THEN ReadFlags(r.flags) \cup {"verifier"} ELSE r.flags
           v == IF s.enabled THEN s.vflags ELSE r.vflags
           new == [r EXCEPT !.kex = x, !.marker = m, !.debugger = d, !.dlls = l,
                            !.flags = f, !.vflags = v]
<1>1. Restored(r, s) = new
  BY DEF Restored
<1>2. /\ ReadString(r.dlls) \in SUBSET (Foreign \cup {KexDll, Cut})
      /\ ReadFlags(r.flags) \in FlagSet
  BY ListTyped DEF KeyState
<1>3. x \in Values
  BY DEF KeyState, Saved, Values, Chosen
<1>4. m \in {Absent, Command} /\ d \in Debugger \cup {Absent, Command}
  BY DEF KeyState, Saved, Chosen
<1>5. l \in DllList
  <2>1. ReadString(r.dlls) \cup {KexDll} \in DllList
    BY <1>2, ListTyped
  <2> QED
    BY <2>1 DEF KeyState
<1>6. f \in {Absent} \cup FlagSet /\ v \in {Absent} \cup VerifierFlags
  BY <1>2 DEF KeyState, Saved, FlagSet
<1>7. d = r.debugger \/ {d, r.debugger} \subseteq {Absent, Command}
  BY DEF Conflicts, Chosen, Saved
<1>8. d = Command /\ (r.debugger = Command => r.marker = Command) => m = Command
  BY NameAssumption DEF Chosen, Saved, KeyState
<1>9. ReadFlags(f) \ {"verifier"} = ReadFlags(r.flags) \ {"verifier"}
  <2>1. CASE s.enabled
    <3>1. f # Absent
      BY <1>2, <2>1, NameAssumption DEF FlagSet
    <3> QED
      BY <2>1, <3>1 DEF ReadFlags
  <2>2. CASE ~s.enabled
    BY <2>2
  <2> QED
    BY <2>1, <2>2
<1>10. Listed(l) \ {KexDll, Cut} = Listed(r.dlls) \ {KexDll, Cut}
  <2>1. ReadString(r.dlls) = Listed(r.dlls)
    BY DEF ReadString, Conflicts
  <2>2. Listed(ReadString(r.dlls) \cup {KexDll}) = ReadString(r.dlls) \cup {KexDll}
    <3>1. ReadString(r.dlls) \cup {KexDll} \in DllList \ {Absent}
      BY <1>2, ListTyped
    <3> QED
      BY <3>1 DEF Listed
  <2> QED
    BY <2>1, <2>2
<1> HIDE DEF x, m, d, l, f, v
<1>11. /\ new \in KeyState /\ new.marker = m
       /\ new.debugger = d /\ new.dlls = l /\ new.flags = f
  BY <1>3, <1>4, <1>5, <1>6 DEF KeyState
<1> HIDE DEF new
<1> QED
  BY <1>1, <1>7, <1>8, <1>9, <1>10, <1>11, OthersFrom

LEMMA ProvidedSound ==
  ASSUME NEW r \in KeyState, TemplateFits(r)
  PROVE  /\ Provided(r) \in KeyState
         /\ Others(Provided(r)) = Others(r)
         /\ Provided(r).debugger = r.debugger /\ Provided(r).marker = r.marker
<1> DEFINE others == RemoveKexDll(ReadString(r.dlls))
           l == others \cup {KexDll}
           f == ReadFlags(r.flags) \cup {"verifier"}
           v == IF others = {} /\ ReadVerifierFlags(r.vflags) = "zero" THEN "full"
                ELSE ReadVerifierFlags(r.vflags)
           new == [r EXCEPT !.dlls = l, !.flags = f, !.vflags = v]
<1>1. Provided(r) = new
  BY DEF Provided
<1>2. /\ ReadString(r.dlls) \in SUBSET (Foreign \cup {KexDll, Cut})
      /\ ReadFlags(r.flags) \in FlagSet /\ ReadVerifierFlags(r.vflags) \in VerifierFlags
  BY ListTyped DEF KeyState
<1>3. l \in SUBSET (Foreign \cup {KexDll, Cut})
  BY <1>2 DEF RemoveKexDll
<1>4. l \in DllList /\ f \in FlagSet /\ v \in VerifierFlags
  BY <1>2, <1>3, ListTyped DEF FlagSet, VerifierFlags
<1>5. ReadFlags(f) \ {"verifier"} = ReadFlags(r.flags) \ {"verifier"}
  <2>1. f # Absent
    BY <1>4, NameAssumption DEF FlagSet
  <2> QED
    BY <2>1 DEF ReadFlags
<1>6. Listed(l) \ {KexDll, Cut} = Listed(r.dlls) \ {KexDll, Cut}
  <2>1. ReadString(r.dlls) = Listed(r.dlls)
    BY DEF ReadString, TemplateFits
  <2>2. Listed(l) = l
    <3>1. l \in DllList \ {Absent}
      BY <1>3, ListTyped
    <3> QED
      BY <3>1 DEF Listed
  <2> QED
    BY <2>1, <2>2 DEF RemoveKexDll
<1> HIDE DEF l, f, v
<1>7. /\ new \in KeyState /\ new.dlls = l /\ new.flags = f
      /\ new.debugger = r.debugger /\ new.marker = r.marker
  BY <1>4 DEF KeyState
<1> HIDE DEF new
<1> QED
  BY <1>1, <1>5, <1>6, <1>7, OthersFrom

LEMMA PreserveKeeps ==
  ASSUME IInv, NEW ks \in SUBSET Key, Preserve(ks), Commit, installed' \in BOOLEAN,
         \A k \in ks : Readable(key[k].dlls), installed' = installed \/ ks = Key
  PROVE  IInv' /\ OthersKept
<1>1. TypeOK /\ key \in [Key -> KeyState]
  BY DEF IInv, TypeOK
<1> DEFINE us == {u \in User : HasConfiguration(key[u])}
<1>2. store' = [k \in us |-> Save(key[k])]
  BY DEF Preserve
<1>3. us \in SUBSET User /\ us \subseteq Key
  BY DEF User
<1> HIDE DEF us
<1>4. store' \in [us -> Saved]
  BY <1>1, <1>2, <1>3, SavedMarked
<1>5. StoreMarked'
  BY <1>1, <1>2, <1>3, SavedMarked DEF StoreMarked
<1>6. \A k \in Key : key'[k] = IF k \in ks THEN Disable(key[k]) ELSE key[k]
  BY DEF Preserve
<1>7. key' \in [Key -> KeyState]
  <2>1. key' = [k \in Key |-> IF k \in ks THEN Disable(key[k]) ELSE key[k]]
    BY DEF Preserve
  <2> QED
    BY <1>1, <2>1, Disabled
<1>8. ASSUME NEW k \in Key
      PROVE  /\ Others(key'[k]) = Others(key[k])
             /\ key'[k].debugger = Command =>
                  k \in disputed \/ (key'[k].marker = Command /\ installed')
  <2>1. key[k].debugger = Command => k \in disputed \/ (key[k].marker = Command /\ installed)
    BY DEF IInv, LaunchCommandWorks
  <2>2. CASE k \in ks
    <3>1. key'[k] = Disable(key[k]) /\ Readable(key[k].dlls) /\ key[k] \in KeyState
      BY <1>1, <1>6, <2>2
    <3> QED
      BY <2>1, <3>1, Disabled
  <2>3. CASE k \notin ks
    BY <1>6, <2>1, <2>3
  <2> QED
    BY <2>2, <2>3
<1> QED
  BY <1>3, <1>4, <1>5, <1>7, <1>8, CommitKeeps

LEMMA RemoveConfigurationsKeeps ==
  ASSUME IInv, NEW keep \in BOOLEAN, RemoveConfigurations(keep), Commit, installed' \in BOOLEAN
  PROVE  IInv' /\ OthersKept
<1>1. TypeOK /\ key \in [Key -> KeyState]
  BY DEF IInv, TypeOK
<1>2. CASE keep
  <2>1. Preserve(Key) /\ Readable(key[Template].dlls)
    BY <1>2 DEF RemoveConfigurations
  <2>2. \A k \in Key : Readable(key[k].dlls)
    BY <2>1 DEF Preserve, Refuses, User
  <2> QED
    BY <2>1, <2>2, PreserveKeeps
<1>3. CASE ~keep
  <2>1. /\ \A k \in Key : ~Refuses(key[k])
        /\ key' = [k \in Key |-> Disable(key[k])]
        /\ store' = NoStore
    BY <1>3 DEF RemoveConfigurations
  <2>2. key' \in [Key -> KeyState]
    BY <1>1, <2>1, Disabled
  <2>3. ASSUME NEW k \in Key
        PROVE  /\ Others(key'[k]) = Others(key[k])
               /\ key'[k].debugger = Command => k \in disputed
    <3>1. key'[k] = Disable(key[k]) /\ Readable(key[k].dlls) /\ key[k] \in KeyState
      BY <1>1, <2>1 DEF Refuses
    <3>2. key[k].debugger = Command => k \in disputed \/ key[k].marker = Command
      BY DEF IInv, LaunchCommandWorks
    <3> QED
      BY <3>1, <3>2, Disabled
  <2>4. StoreMarked'
    BY <2>1 DEF StoreMarked
  <2> QED
    BY <2>1, <2>2, <2>3, <2>4, CommitKeeps
<1> QED
  BY <1>2, <1>3

LEMMA RestoreKeeps ==
  ASSUME IInv, NEW ks \in SUBSET Key, Restore(ks), Commit, installed' = TRUE,
         \A k \in ks : TemplateFits(key[k])
  PROVE  IInv' /\ OthersKept
<1>1. TypeOK /\ key \in [Key -> KeyState]
  BY DEF IInv, TypeOK
<1>2. ASSUME NEW k \in Key
      PROVE  /\ key'[k] \in KeyState
             /\ Others(key'[k]) = Others(key[k])
             /\ key'[k].debugger = Command => k \in disputed \/ key'[k].marker = Command
  <2>1. key[k] \in KeyState
    BY <1>1
  <2>2. key[k].debugger = Command => k \in disputed \/ key[k].marker = Command
    BY DEF IInv, LaunchCommandWorks
  <2>3. CASE k \in ks
    <3>1. key'[k] = Provided(key[k])
      BY <2>3 DEF Restore
    <3> QED
      BY <2>1, <2>2, <2>3, <3>1, ProvidedSound
  <2>4. CASE k \notin ks /\ store # NoStore /\ k \in DOMAIN store
    <3>1. key'[k] = Restored(key[k], store[k]) /\ ~Conflicts(key[k], store[k])
      BY <2>4 DEF Restore
    <3>2. store[k] \in Saved
      BY <1>1, <2>4 DEF TypeOK
    <3>3. store[k].debugger = Command => store[k].marker = Command
      BY <2>4 DEF IInv, StoreMarked
    <3> QED
      BY <2>1, <2>2, <3>1, <3>2, <3>3, RestoredSound
  <2>5. CASE k \notin ks /\ ~(store # NoStore /\ k \in DOMAIN store)
    <3>1. key'[k] = key[k]
      BY <2>5 DEF Restore
    <3> QED
      BY <2>1, <2>2, <3>1
  <2> QED
    BY <2>3, <2>4, <2>5
<1>3. key' \in [Key -> KeyState]
  <2>1. key' = [k \in Key |-> key'[k]]
    BY DEF Restore
  <2> QED
    BY <1>2, <2>1
<1>4. store' = NoStore
  BY DEF Restore
<1>5. StoreMarked'
  BY <1>4 DEF StoreMarked
<1> QED
  BY <1>2, <1>3, <1>4, <1>5, CommitKeeps

LEMMA SetupStepKeeps ==
  ASSUME IInv, SetupStep
  PROVE  IInv' /\ OthersKept
<1>1. installed \in BOOLEAN
  BY DEF IInv, TypeOK
<1>2. CASE PreserveAllConfigurations
  <2>1. \A k \in User : Readable(key[k].dlls)
    BY <1>2 DEF PreserveAllConfigurations, Preserve, Refuses
  <2>2. User \in SUBSET Key
    BY DEF User
  <2> QED
    BY <1>1, <1>2, <2>1, <2>2, PreserveKeeps DEF PreserveAllConfigurations
<1>3. CASE RestoreAllConfigurations
  <2>1. {} \in SUBSET Key /\ installed' = TRUE
    BY <1>1, <1>3 DEF RestoreAllConfigurations
  <2> QED
    BY <1>3, <2>1, RestoreKeeps DEF RestoreAllConfigurations
<1>4. CASE StageInstall
  <2>1. {Template} \in SUBSET Key
    BY TemplateAssumption
  <2> QED
    BY <1>4, <2>1, RestoreKeeps DEF StageInstall
<1>5. ASSUME NEW keep \in BOOLEAN, PrepareUninstall(keep) \/ StageUninstall(keep)
      PROVE  IInv' /\ OthersKept
  BY <1>1, <1>5, RemoveConfigurationsKeeps DEF PrepareUninstall, StageUninstall
<1> QED
  BY <1>2, <1>3, <1>4, <1>5 DEF SetupStep

-----------------------------------------------------------------------------
(* All steps together *)

LEMMA InitIInv ==
  Init => IInv
<1> SUFFICES ASSUME Init PROVE IInv
  OBVIOUS
<1>1. \A k \in Key : key[k] = Empty /\ key[k].debugger = Absent
  BY DEF Init, Empty
<1>2. \A t \in Tool : op[t] = NoCall /\ op[t].pc = "idle"
  BY DEF Init, NoCall
<1>3. TypeOK
  BY ConstantsTyped DEF Init, TypeOK
<1>4. LaunchCommandWorks
  BY <1>1, NameAssumption DEF LaunchCommandWorks
<1>5. Alone /\ Planned
  BY <1>2 DEF Alone, Planned, Active, Ended
<1>6. Configured /\ MarkedFirst
  BY <1>2 DEF Configured, ConfigFits, MarkedFirst, MarkFits
<1>7. StoreMarked
  BY DEF Init, StoreMarked
<1> QED
  BY <1>3, <1>4, <1>5, <1>6, <1>7 DEF IInv

LEMMA NextKeeps ==
  IInv /\ [Next]_cfgVars => IInv' /\ OthersKept
<1> SUFFICES ASSUME IInv, [Next]_cfgVars PROVE IInv' /\ OthersKept
  OBVIOUS
<1>1. ASSUME NEW t \in Tool, ToolStep(t)
      PROVE  IInv' /\ OthersKept
  <2>1. CASE \E k \in Key, c \in Configuration : SetConfiguration(t, k, c)
    BY <2>1, SetConfigurationKeeps
  <2>2. CASE \E k \in Key : DeleteConfiguration(t, k)
    BY <2>2, DeleteConfigurationKeeps
  <2>3. CASE WritePath(t) \/ ConfigureLauncher(t) \/ Activate(t)
    BY <2>3, WritePathKeeps, ConfigureLauncherKeeps, ActivateKeeps
  <2>4. CASE RemoveDebugger(t) \/ RemoveMarker(t)
    BY <2>4, RemoveDebuggerKeeps, RemoveMarkerKeeps
  <2>5. CASE WriteDword(t) \/ WriteGlobalFlag(t)
    BY <2>5, WriteDwordKeeps, WriteGlobalFlagKeeps
  <2>6. CASE WriteVerifierFlags(t) \/ WriteVerifierDlls(t)
    BY <2>6, WriteVerifierFlagsKeeps, WriteVerifierDllsKeeps
  <2>7. CASE DeleteSetting(t) \/ ReadVerifierDlls(t) \/ RemoveFromList(t)
    BY <2>7, DeleteSettingKeeps, ReadVerifierDllsKeeps, RemoveFromListKeeps
  <2>8. CASE ClearGlobalFlag(t) \/ DeleteVerifierFlags(t) \/ Abort(t)
    BY <2>8, ClearGlobalFlagKeeps, DeleteVerifierFlagsKeeps, AbortKeeps
  <2> QED
    BY <1>1, <2>1, <2>2, <2>3, <2>4, <2>5, <2>6, <2>7, <2>8 DEF ToolStep
<1>2. ASSUME NEW k \in User, OtherStep(k)
      PROVE  IInv' /\ OthersKept
  BY <1>2, EditVerifierKeeps, EditFlagsKeeps, EditDebuggerKeeps DEF OtherStep, User
<1>3. CASE SetupStep
  BY <1>3, SetupStepKeeps
<1>4. CASE UNCHANGED cfgVars
  <2>1. IInv'
    BY <1>4 DEF cfgVars, IInv, TypeOK, Alone, Active, Configured, MarkedFirst, MarkFits,
                StoreMarked, Planned, LaunchCommandWorks
  <2>2. OthersKept
    BY <1>4 DEF cfgVars, OthersKept, Others
  <2> QED
    BY <2>1, <2>2
<1> QED
  BY <1>1, <1>2, <1>3, <1>4 DEF Next

\* The inductive invariant holds in every reachable state, for any programs,
\* tools, settings and other products.
THEOREM Invariance == Spec => []IInv
<1>1. IInv /\ [Next]_cfgVars => IInv'
  BY NextKeeps
<1> QED
  BY <1>1, InitIInv, PTL DEF Spec

\* The values of a key keep the types that their writers and readers give them
\* (setcfg.c:192-250, delcfg.c:141-282, preserve.c:73-221).
THEOREM TypeCorrect == Spec => []TypeOK
<1>1. IInv => TypeOK
  BY DEF IInv
<1> QED
  BY <1>1, Invariance, PTL

\* A launch command of ours is marked and the program it names is there,
\* wherever a call stopped (setcfg.c:56, VistaLaunch.h:64, setup.c:79).
THEOREM CommandsWork == Spec => []LaunchCommandWorks
<1>1. IInv => LaunchCommandWorks
  BY DEF IInv
<1> QED
  BY <1>1, Invariance, PTL

\* What other products have in a key is theirs to change (kxcfgp.c:40,
\* delcfg.c:245, preserve.c:113-136, 149-221).
THEOREM OthersStay == Spec => OthersAreKept
<1>1. IInv /\ [Next]_cfgVars => OthersKept
  BY NextKeeps
<1>2. IInv /\ [Next]_cfgVars => [OthersKept]_cfgVars
  BY <1>1
<1> QED
  BY <1>2, Invariance, PTL DEF Spec, OthersAreKept, OthersKept

-----------------------------------------------------------------------------
(* KexConfig implements ProgramSettings *)

\* The launch command comes after its mark and goes before it.
LauncherFits(o, r) ==
  /\ o.pc = "activate" => o.config.launch /\ r.marker = Command
  /\ o.pc = "unmark" => ~o.config.launch
  /\ o.pc \in {"values", "vflags", "dlls"} =>
       IF o.config.launch THEN r.debugger = Command /\ r.marker = Command
       ELSE r.marker = Absent

\* How far KxCfgSetConfiguration has come,
VerifierFits(o) ==
  IF o.config.enabled
  THEN (KexDll \in o.dlls \/ Shadowed(o.dlls)) /\ "verifier" \in o.flags
  ELSE KexDll \notin o.dlls
SetFits(o, r) ==
  /\ VerifierFits(o)
  /\ o.pc # "path" => r.kex["KEX_ConfigPath"] = o.config.data
  /\ \A j \in 1 .. Len(Dwords) : j < o.i => r.kex[Dwords[j]] = o.config.data
  /\ o.pc \in {"vflags", "dlls"} =>
       o.i > Len(Dwords) /\ (o.config.enabled => "verifier" \in ReadFlags(r.flags))
  /\ LauncherFits(o, r)

\* and KxCfgDeleteConfiguration.
DeleteFits(o, r) ==
  /\ o.pc \in {"read", "remove", "clear", "forget"} => r.kex = NoValues /\ r.marker = Absent
  /\ o.pc = "remove" => KexDll \notin o.dlls
  /\ o.pc \in {"clear", "forget"} => KexDll \notin Listed(r.dlls)

Fits(o, r) == IF o.config = NoConfiguration THEN DeleteFits(o, r) ELSE SetFits(o, r)

\* What a call that is sure of its key has done is still there.
Progress == \A t \in Tool : Active(t) /\ op[t].sure => Fits(op[t], Mine(t))

\* The mapping of the state to that of ProgramSettings.
Conf == [k \in Key |-> Effective(key[k])]
SavedSetting(s) == [enabled |-> s.enabled, launch |-> s.debugger # Absent, values |-> s.kex]
Kept == IF store = NoStore THEN NoStore ELSE [k \in DOMAIN store |-> SavedSetting(store[k])]
Abstract(o) ==
  [pc |-> IF o.pc \in Ended THEN o.pc ELSE "busy",
   key |-> o.key, goal |-> Asked(o.config),
   sure |-> o.sure /\ ~Prevented(o)]
Calls == [t \in Tool |-> Abstract(op[t])]

Seen == Promised!Step \/ UNCHANGED <<Conf, Kept, Calls, disputed>>

-----------------------------------------------------------------------------
(* The mapping *)

LEMMA AbstractFields ==
  ASSUME NEW o
  PROVE  /\ Abstract(o).pc = IF o.pc \in Ended THEN o.pc ELSE "busy"
         /\ Abstract(o).key = o.key /\ Abstract(o).goal = Asked(o.config)
         /\ Abstract(o).sure = (o.sure /\ ~Prevented(o))
BY DEF Abstract

LEMMA SettingsTyped ==
  /\ \A r \in KeyState : Effective(r) \in Setting
  /\ \A c \in Configuration \cup {NoConfiguration} : Asked(c) \in Setting
<1>1. ASSUME NEW r \in KeyState PROVE Effective(r) \in Setting
  BY DEF Effective, Setting, KeyState
<1>2. ASSUME NEW c \in Configuration PROVE Asked(c) \in Setting
  <2>1. c.enabled \in BOOLEAN /\ c.launch \in BOOLEAN /\ c.data \in Data /\ c # NoConfiguration
    BY ConfigurationAssumption
  <2>2. [n \in KexName |-> c.data] \in Values
    BY <2>1 DEF Values
  <2> QED
    BY <2>1, <2>2 DEF Asked, Setting
<1>3. Asked(NoConfiguration) \in Setting
  BY ConstantsTyped DEF Asked, Setting
<1> QED
  BY <1>1, <1>2, <1>3

LEMMA ConfFields ==
  /\ DOMAIN Conf = Key
  /\ \A k \in Key : Conf[k] = Effective(key[k])
  /\ TypeOK => Conf \in [Key -> Setting]
<1>1. ASSUME TypeOK PROVE Conf \in [Key -> Setting]
  BY <1>1, SettingsTyped DEF TypeOK, Conf
<1> QED
  BY <1>1 DEF Conf

\* What is shown of a key that is not misread is what is in force.
LEMMA ShownIsEffective ==
  ASSUME NEW r \in KeyState, ~Misread(r)
  PROVE  GetConfiguration(r) = Effective(r)
<1> DEFINE e == "verifier" \in ReadFlags(r.flags) /\ KexDll \in Listed(r.dlls)
<1>1. ReadString(r.dlls) = Listed(r.dlls)
  BY DEF Misread, ReadString
<1>2. Mentions(Listed(r.dlls)) <=> KexDll \in Listed(r.dlls)
  BY DEF Misread, Mentions, Shadowed
<1>3. ("verifier" \in ReadFlags(r.flags) /\ Mentions(ReadString(r.dlls))) = e
  BY <1>1, <1>2
<1>4. GetConfiguration(r) = [Effective(r) EXCEPT !.enabled = e]
  BY <1>3 DEF GetConfiguration
<1>5. Effective(r).enabled = e
  BY DEF Effective
<1> HIDE DEF e
<1>6. [Effective(r) EXCEPT !.enabled = e] = Effective(r)
  BY <1>5 DEF Effective
<1> QED
  BY <1>4, <1>6

LEMMA HonestAlways == TypeOK => Promised!Honest
<1> SUFFICES ASSUME TypeOK, NEW k \in Key, ~Misread(key[k])
             PROVE  GetConfiguration(key[k]) = Effective(key[k])
  BY DEF Promised!Honest
<1>1. key[k] \in KeyState
  BY DEF TypeOK
<1> QED
  BY <1>1, ShownIsEffective

\* A call is busy in the abstract where it is active here.
LEMMA CallsFields ==
  ASSUME NEW t \in Tool
  PROVE  /\ Calls[t] = Abstract(op[t])
         /\ Promised!Busy(t) <=> Active(t)
         /\ \A k : t \in Promised!On(k) <=> t \in On(k)
<1>1. Calls[t] = Abstract(op[t])
  BY DEF Calls
<1>2. Promised!Busy(t) <=> Active(t)
  <2>1. Promised!Busy(t) <=> Calls[t].pc = "busy"
    BY DEF Promised!Busy, Calls, Abstract
  <2>2. Calls[t].pc = IF op[t].pc \in Ended THEN op[t].pc ELSE "busy"
    BY <1>1, AbstractFields
  <2> QED
    BY <2>1, <2>2 DEF Active, Ended
<1>3. ASSUME NEW k PROVE t \in Promised!On(k) <=> t \in On(k)
  <2>1. t \in Promised!On(k) <=> Promised!Busy(t) /\ Calls[t].key = k
    BY DEF Promised!On, Calls, Abstract
  <2> QED
    BY <1>1, <1>2, <2>1, AbstractFields DEF On, Active
<1> QED
  BY <1>1, <1>2, <1>3

LEMMA DisturbedFields ==
  ASSUME TypeOK, NEW ks \in SUBSET Key
  PROVE  Promised!Disturbed(ks) = [t \in Tool |-> Abstract(Overlapped(ks)[t])]
<1>1. ASSUME NEW t \in Tool
      PROVE  (IF \E k \in ks : t \in Promised!On(k) THEN [Calls[t] EXCEPT !.sure = FALSE]
              ELSE Calls[t]) = Abstract(Overlapped(ks)[t])
  <2>1. (\E k \in ks : t \in Promised!On(k)) <=> (\E k \in ks : t \in On(k))
    BY CallsFields
  <2>2. CASE \E k \in ks : t \in On(k)
    <3> DEFINE v == FALSE
               o == [op[t] EXCEPT !.sure = v]
    <3>1. Overlapped(ks)[t] = o
      BY <2>2 DEF Overlapped
    <3>2. v \in BOOLEAN /\ ~v
      OBVIOUS
    <3>3. (IF \E k \in ks : t \in Promised!On(k) THEN [Calls[t] EXCEPT !.sure = FALSE]
           ELSE Calls[t]) = [Abstract(op[t]) EXCEPT !.sure = v]
      <4>1. Calls[t] = Abstract(op[t])
        BY CallsFields
      <4> QED
        BY <2>1, <2>2, <4>1
    <3> HIDE DEF v
    <3>4. o.pc = op[t].pc /\ o.key = op[t].key /\ o.config = op[t].config /\ o.sure = v
      BY <3>2 DEF TypeOK, CallState
    <3> HIDE DEF o
    <3>5. [Abstract(op[t]) EXCEPT !.sure = v] =
            [pc |-> IF op[t].pc \in Ended THEN op[t].pc ELSE "busy",
             key |-> op[t].key, goal |-> Asked(op[t].config), sure |-> v]
      BY DEF Abstract
    <3>6. Abstract(o) = [Abstract(op[t]) EXCEPT !.sure = v]
      <4>1. (o.sure /\ ~Prevented(o)) = v
        BY <3>2, <3>4
      <4> QED
        BY <3>4, <3>5, <4>1 DEF Abstract
    <3> QED
      BY <3>1, <3>3, <3>6
  <2>3. CASE ~\E k \in ks : t \in On(k)
    <3>1. Overlapped(ks)[t] = op[t]
      BY <2>3 DEF Overlapped
    <3> QED
      BY <2>1, <2>3, <3>1, CallsFields
  <2> QED
    BY <2>2, <2>3
<1>2. Promised!Disturbed(ks) =
        [t \in Tool |-> IF \E k \in ks : t \in Promised!On(k)
                        THEN [Calls[t] EXCEPT !.sure = FALSE] ELSE Calls[t]]
  BY DEF Promised!Disturbed, Calls, Abstract
<1> QED
  BY <1>1, <1>2

LEMMA DisputeIs ==
  ASSUME NEW ks \in SUBSET Key, disputed' = disputed \cup {k \in ks : On(k) # {}}
  PROVE  Promised!Dispute(ks)
<1>1. \A k \in ks : On(k) = Promised!On(k)
  <2>1. \A k \in ks : On(k) \subseteq Tool /\ Promised!On(k) \subseteq Tool
    BY DEF On, Promised!On
  <2> QED
    BY <2>1, CallsFields
<1> QED
  BY <1>1 DEF Promised!Dispute

-----------------------------------------------------------------------------
(* A step of a call *)

\* What a step of a call has to show: what it leaves fits, and when it
\* succeeds the settings are those it was asked for.
LEMMA StepSeen ==
  ASSUME IInv, Progress, NEW t \in Tool, Active(t), NEW r \in KeyState, NEW o \in CallState,
         key' = [key EXCEPT ![op[t].key] = r], op' = [op EXCEPT ![t] = o], Elsewhere,
         o.pc \notin Ended =>
           /\ o.key = op[t].key /\ o.sure = op[t].sure /\ o.config = op[t].config
           /\ o.dlls = op[t].dlls \/ o.config = NoConfiguration,
         o.pc \notin Ended /\ op[t].sure => Fits(o, r),
         o.pc = "idle" => Effective(r) = Effective(Mine(t)),
         o.pc = "succeeded" /\ op[t].sure /\ ~Prevented(op[t]) =>
           Effective(r) = Asked(op[t].config)
  PROVE  Progress' /\ Seen
<1> DEFINE k == op[t].key
<1>1. k \in Key /\ key \in [Key -> KeyState] /\ op \in [Tool -> CallState]
  BY DEF IInv, TypeOK, CallState
<1>2. /\ key' \in [Key -> KeyState] /\ key'[k] = r
      /\ \A j \in Key : j # k => key'[j] = key[j]
  BY <1>1
<1>3. /\ op' \in [Tool -> CallState] /\ op'[t] = o
      /\ \A u \in Tool : u # t => op'[u] = op[u]
  BY <1>1
<1>4. UNCHANGED <<installed, store, disputed, calls, edits>>
  BY DEF Elsewhere
<1>5. \A u \in Tool : op[u].key \in Key
  BY <1>1 DEF CallState
<1>6. \A u \in Tool : u # t /\ Active(u) /\ op[u].key = k => ~op[u].sure
  BY DEF IInv, Alone
<1>7. Mine(t) = key[k]
  BY DEF Mine
<1> HIDE DEF k
<1>8. Progress'
  <2> SUFFICES ASSUME NEW u \in Tool, op'[u].pc \notin Ended, op'[u].sure
               PROVE  Fits(op'[u], key'[op'[u].key])
    BY DEF Progress, Active, Mine
  <2>1. CASE u = t
    BY <2>1, <1>2, <1>3 DEF k
  <2>2. CASE u # t
    <3>1. op'[u] = op[u] /\ op[u].key # k
      BY <2>2, <1>3, <1>6 DEF Active
    <3>2. key'[op[u].key] = key[op[u].key]
      BY <3>1, <1>2, <1>5
    <3> QED
      BY <3>1, <3>2 DEF Progress, Active, Mine
  <2> QED
    BY <2>1, <2>2
<1>9. Kept' = Kept /\ disputed' = disputed
  BY <1>4 DEF Kept
<1>10. /\ Conf' \in [Key -> Setting]
       /\ Conf'[k] = Effective(r) /\ Conf[k] = Effective(key[k])
       /\ \A j \in Key \ {k} : Conf'[j] = Conf[j]
  BY <1>1, <1>2, SettingsTyped DEF Conf
<1>11. Promised!OnlyOf(k)
  BY <1>10 DEF Promised!OnlyOf, Conf
<1>12. Calls[t] = Abstract(op[t]) /\ Promised!Busy(t)
  BY CallsFields
<1>13. Calls'[t] = Abstract(o) /\ \A u \in Tool \ {t} : Calls'[u] = Calls[u]
  BY <1>3 DEF Calls
<1>14. /\ Calls[t].key = k /\ Calls[t].goal = Asked(op[t].config)
       /\ Calls[t].sure = (op[t].sure /\ ~Prevented(op[t]))
  BY <1>12, AbstractFields DEF k
<1>15. CASE o.pc \notin Ended
  <2>1. Abstract(o) = Abstract(op[t])
    <3>1. Prevented(o) = Prevented(op[t])
      BY <1>15 DEF Prevented
    <3> QED
      BY <1>15, <3>1 DEF Abstract, Active
  <2>2. Calls' = Calls
    <3>1. Calls = [u \in Tool |-> Calls[u]] /\ Calls' = [u \in Tool |-> Calls'[u]]
      BY DEF Calls
    <3> QED
      BY <2>1, <3>1, <1>12, <1>13
  <2>3. Promised!Work(t)
    BY <1>9, <1>11, <1>12, <1>14, <2>2 DEF Promised!Work, Kept, SavedSetting, Calls, Abstract
  <2> QED
    BY <1>8, <2>3 DEF Seen, Promised!Step
<1>16. CASE o.pc = "succeeded"
  <2>1. Abstract(o).pc = "succeeded"
    BY <1>16, AbstractFields DEF Ended
  <2>2. Promised!Ends(t, "succeeded")
    BY <2>1, <1>13 DEF Promised!Ends, Calls, Abstract
  <2>3. Calls[t].sure => Conf'[Calls[t].key] = Calls[t].goal
    BY <1>10, <1>14, <1>16
  <2>4. Promised!Succeed(t)
    BY <1>9, <1>11, <1>12, <1>14, <2>2, <2>3 DEF Promised!Succeed, Kept, SavedSetting, Calls, Abstract, Conf
  <2> QED
    BY <1>8, <2>4 DEF Seen, Promised!Step
<1>17. CASE o.pc = "idle"
  <2>1. Abstract(o).pc = "idle"
    BY <1>17, AbstractFields DEF Ended
  <2>2. Promised!Ends(t, "idle")
    BY <2>1, <1>13 DEF Promised!Ends, Calls, Abstract
  <2>3. Conf' = Conf
    <3>1. Conf = [j \in Key |-> Conf[j]] /\ Conf' = [j \in Key |-> Conf'[j]]
      BY DEF Conf
    <3> QED
      BY <3>1, <1>7, <1>10, <1>17
  <2>4. Promised!Fail(t)
    BY <1>9, <1>12, <2>2, <2>3 DEF Promised!Fail, Kept, SavedSetting, Calls, Abstract, Conf
  <2> QED
    BY <1>8, <2>4 DEF Seen, Promised!Step
<1> QED
  BY <1>15, <1>16, <1>17 DEF Ended

\* What is known of a call that is sure of its key.
LEMMA InProgress ==
  ASSUME IInv, Progress, NEW t \in Tool, Active(t)
  PROVE  /\ TypeOK /\ op[t] \in CallState /\ Mine(t) \in KeyState
         /\ op[t].config \in Configuration \cup {NoConfiguration}
         /\ op[t].sure => Fits(op[t], Mine(t))
         /\ op[t].sure /\ op[t].config \in Configuration => SetFits(op[t], Mine(t))
         /\ op[t].sure /\ op[t].config = NoConfiguration => DeleteFits(op[t], Mine(t))
<1>1. TypeOK /\ op[t] \in CallState /\ Mine(t) \in KeyState
  BY MineTyped DEF IInv
<1>2. op[t].config \in Configuration \cup {NoConfiguration}
  BY <1>1 DEF CallState
<1>3. op[t].sure => Fits(op[t], Mine(t))
  BY DEF Progress
<1> QED
  BY <1>1, <1>2, <1>3, ConfigurationAssumption DEF Fits

LEMMA DwordsNamed ==
  /\ Len(Dwords) \in Nat
  /\ \A j \in 1 .. Len(Dwords) : Dwords[j] \in KexName
  /\ \A n \in KexName : n = "KEX_ConfigPath" \/ \E j \in 1 .. Len(Dwords) : n = Dwords[j]
BY ConfigurationAssumption DEF KexName, Range

\* A step that writes neither values nor the verifier's.
LEMMA SetFitsKept ==
  ASSUME NEW p, NEW s, NEW o, NEW r, SetFits(p, s), p.pc # "path",
         o.config = p.config, o.dlls = p.dlls, o.flags = p.flags, o.i = p.i,
         o.pc \notin {"vflags", "dlls"}, r.kex = s.kex, LauncherFits(o, r)
  PROVE  SetFits(o, r)
BY DEF SetFits, VerifierFits

LEMMA WritePathSeen ==
  ASSUME IInv, Progress, NEW t \in Tool, WritePath(t)
  PROVE  Progress' /\ Seen
<1>1. Active(t) /\ op[t].pc = "path" /\ Elsewhere
  BY DEF WritePath, Active, Ended
<1>2. op[t].config \in Configuration /\ op[t].config.data \in Data
  BY InHand, ConfigurationAssumption DEF ConfigFits, WritePath
<1>3. "KEX_ConfigPath" \in KexName
  BY DEF KexName
<1>4. PICK r \in KeyState :
        /\ key' = [key EXCEPT ![op[t].key] = r]
        /\ ValueSet(r.kex, Mine(t).kex, "KEX_ConfigPath", op[t].config.data)
  BY <1>1, <1>2, <1>3, InProgress, KexWritten DEF WritePath
<1>5. PICK o \in CallState :
        /\ op' = [op EXCEPT ![t] = o] /\ o.pc = "launcher"
        /\ o.key = op[t].key /\ o.sure = op[t].sure /\ o.config = op[t].config
        /\ o.flags = op[t].flags /\ o.dlls = op[t].dlls /\ o.i = op[t].i
  BY <1>1, InProgress, Went DEF WritePath, Pc, Ended
<1>6. op[t].sure => Fits(o, r)
  <2> SUFFICES ASSUME op[t].sure PROVE SetFits(o, r)
    BY <1>2, <1>5, ConfigurationAssumption DEF Fits
  <2>1. SetFits(op[t], Mine(t))
    BY <1>1, <1>2, InProgress
  <2>3. \A j \in 1 .. Len(Dwords) : j < o.i => r.kex[Dwords[j]] = o.config.data
    BY <1>4, <1>5, <2>1, DwordsNamed DEF SetFits, ValueSet
  <2>4. VerifierFits(o) /\ LauncherFits(o, r)
    BY <1>5, <2>1 DEF SetFits, VerifierFits, LauncherFits
  <2> QED
    BY <1>3, <1>4, <1>5, <2>3, <2>4 DEF SetFits, ValueSet
<1> QED
  BY <1>1, <1>4, <1>5, <1>6, StepSeen DEF Ended

LEMMA StopSeen ==
  ASSUME IInv, Progress, NEW t \in Tool, Active(t), Goto(t, "idle"), UNCHANGED key, Elsewhere
  PROVE  Progress' /\ Seen
<1>1. PICK o \in CallState : op' = [op EXCEPT ![t] = o] /\ o.pc = "idle"
  BY InProgress, Went DEF Pc, Ended
<1>2. Mine(t) \in KeyState /\ key' = [key EXCEPT ![op[t].key] = Mine(t)]
  BY InProgress, MineTyped
<1> QED
  BY <1>1, <1>2, StepSeen DEF Ended

LEMMA ConfigureLauncherSeen ==
  ASSUME IInv, Progress, NEW t \in Tool, ConfigureLauncher(t)
  PROVE  Progress' /\ Seen
<1>1. Active(t) /\ op[t].pc = "launcher" /\ Elsewhere
  BY DEF ConfigureLauncher, Active, Ended
<1>2. op[t].config \in Configuration /\ op[t].config.launch
  BY <1>1, InProgress DEF ConfigureLauncher, Launching, Deleting
<1>3. CASE Write(t, "marker", Command) /\ Goto(t, "activate")
  <2>1. PICK r \in KeyState :
          /\ key' = [key EXCEPT ![op[t].key] = r] /\ r.marker = Command
          /\ r.kex = Mine(t).kex
    BY <1>1, <1>3, InProgress, MarkerWritten
  <2>2. PICK o \in CallState :
          /\ op' = [op EXCEPT ![t] = o] /\ o.pc = "activate"
          /\ o.key = op[t].key /\ o.sure = op[t].sure /\ o.config = op[t].config
          /\ o.flags = op[t].flags /\ o.dlls = op[t].dlls /\ o.i = op[t].i
    BY <1>1, <1>3, InProgress, Went DEF Pc, Ended
  <2>3. LauncherFits(o, r)
    BY <1>2, <2>1, <2>2 DEF LauncherFits
  <2>4. op[t].sure => SetFits(op[t], Mine(t))
    BY <1>1, <1>2, InProgress
  <2>5. op[t].sure => SetFits(o, r)
    BY <1>1, <2>1, <2>2, <2>3, <2>4, SetFitsKept
  <2>6. op[t].sure => Fits(o, r)
    BY <1>2, <2>2, <2>5, ConfigurationAssumption DEF Fits
  <2> QED
    BY <1>1, <2>1, <2>2, <2>6, StepSeen DEF Ended
<1>4. CASE Goto(t, "idle") /\ UNCHANGED key
  BY <1>1, <1>4, StopSeen
<1> QED
  BY <1>3, <1>4 DEF ConfigureLauncher

LEMMA ActivateSeen ==
  ASSUME IInv, Progress, NEW t \in Tool, Activate(t)
  PROVE  Progress' /\ Seen
<1>1. Active(t) /\ op[t].pc = "activate" /\ Elsewhere
  BY DEF Activate, Active, Ended
<1>2. op[t].config \in Configuration
  BY <1>1, InHand DEF ConfigFits
<1>3. PICK r \in KeyState :
        /\ key' = [key EXCEPT ![op[t].key] = r] /\ r.debugger = Command
        /\ r.marker = Mine(t).marker /\ r.kex = Mine(t).kex
  BY <1>1, InProgress, DebuggerWritten DEF Activate
<1>4. PICK o \in CallState :
        /\ op' = [op EXCEPT ![t] = o] /\ o.pc = "values"
        /\ o.key = op[t].key /\ o.sure = op[t].sure /\ o.config = op[t].config
        /\ o.flags = op[t].flags /\ o.dlls = op[t].dlls /\ o.i = op[t].i
  BY <1>1, InProgress, Went DEF Activate, Pc, Ended
<1>5. op[t].sure => SetFits(op[t], Mine(t))
  BY <1>1, <1>2, InProgress
<1>6. op[t].sure => LauncherFits(o, r)
  BY <1>1, <1>3, <1>4, <1>5 DEF SetFits, LauncherFits
<1>7. op[t].sure => SetFits(o, r)
  BY <1>1, <1>3, <1>4, <1>5, <1>6, SetFitsKept
<1>8. op[t].sure => Fits(o, r)
  BY <1>2, <1>4, <1>7, ConfigurationAssumption DEF Fits
<1> QED
  BY <1>1, <1>3, <1>4, <1>8, StepSeen DEF Ended

\* What a step after the launcher has to show, for either kind of call.
LEMMA FitsAfterLauncher ==
  ASSUME IInv, Progress, NEW t \in Tool, Active(t), op[t].sure,
         NEW o \in CallState, NEW r \in KeyState,
         op[t].pc # "path", o.pc \notin {"vflags", "dlls", "read", "remove", "clear", "forget"},
         o.config = op[t].config, o.i = op[t].i, o.flags = op[t].flags, o.dlls = op[t].dlls,
         r.kex = Mine(t).kex, op[t].config \in Configuration => LauncherFits(o, r)
  PROVE  Fits(o, r)
<1>1. CASE op[t].config = NoConfiguration
  <2>1. DeleteFits(o, r)
    BY DEF DeleteFits
  <2> QED
    BY <1>1, <2>1 DEF Fits
<1>2. CASE op[t].config \in Configuration
  <2>1. SetFits(op[t], Mine(t))
    BY <1>2, InProgress
  <2>2. SetFits(o, r)
    BY <1>2, <2>1, SetFitsKept
  <2> QED
    BY <1>2, <2>2, ConfigurationAssumption DEF Fits
<1> QED
  BY <1>1, <1>2, InProgress

LEMMA RemoveDebuggerSeen ==
  ASSUME IInv, Progress, NEW t \in Tool, RemoveDebugger(t)
  PROVE  Progress' /\ Seen
<1> DEFINE pc == IF Mine(t).marker # Absent THEN "unmark"
                 ELSE IF Deleting(t) THEN "settings" ELSE "values"
<1>1. Active(t) /\ op[t].pc = "launcher" /\ Elsewhere /\ ~Launching(t)
  BY DEF RemoveDebugger, Active, Ended
<1>2. PICK r \in KeyState :
        /\ key' = [key EXCEPT ![op[t].key] = r]
        /\ r.marker = Mine(t).marker /\ r.kex = Mine(t).kex
  <2>1. CASE Mine(t).marker # Absent /\ Mine(t).debugger = Mine(t).marker
    BY <1>1, <2>1, InProgress, DebuggerWritten DEF RemoveDebugger
  <2>2. CASE ~(Mine(t).marker # Absent /\ Mine(t).debugger = Mine(t).marker)
    BY <1>1, <2>2, InProgress, MineTyped DEF RemoveDebugger
  <2> QED
    BY <2>1, <2>2
<1>3. pc \in {"unmark", "settings", "values"}
  OBVIOUS
<1>4. PICK o \in CallState :
        /\ op' = [op EXCEPT ![t] = o] /\ o.pc = pc
        /\ o.key = op[t].key /\ o.sure = op[t].sure /\ o.config = op[t].config
        /\ o.flags = op[t].flags /\ o.dlls = op[t].dlls /\ o.i = op[t].i
  <2>1. Goto(t, pc) /\ pc \in Pc /\ pc \notin Ended
    BY <1>3 DEF RemoveDebugger, Pc, Ended
  <2> QED
    BY <1>1, <2>1, InProgress, Went
<1>5. op[t].config \in Configuration => LauncherFits(o, r)
  BY <1>1, <1>2, <1>4, ConfigurationAssumption DEF LauncherFits, Launching, Deleting
<1>6. op[t].sure => Fits(o, r)
  <2>1. o.pc \notin {"vflags", "dlls", "read", "remove", "clear", "forget"}
    BY <1>3, <1>4
  <2> QED
    BY <1>1, <1>2, <1>4, <1>5, <2>1, FitsAfterLauncher
<1>7. o.pc \notin Ended /\ o.pc # "idle" /\ o.pc # "succeeded"
  BY <1>3, <1>4 DEF Ended
<1> QED
  BY <1>1, <1>2, <1>4, <1>6, <1>7, StepSeen

LEMMA RemoveMarkerSeen ==
  ASSUME IInv, Progress, NEW t \in Tool, RemoveMarker(t)
  PROVE  Progress' /\ Seen
<1> DEFINE pc == IF Deleting(t) THEN "settings" ELSE "values"
<1>1. Active(t) /\ op[t].pc = "unmark" /\ Elsewhere
  BY DEF RemoveMarker, Active, Ended
<1>2. PICK r \in KeyState :
        /\ key' = [key EXCEPT ![op[t].key] = r] /\ r.marker = Absent
        /\ r.kex = Mine(t).kex
  BY <1>1, InProgress, MarkerWritten DEF RemoveMarker
<1>3. pc \in {"settings", "values"}
  OBVIOUS
<1>4. PICK o \in CallState :
        /\ op' = [op EXCEPT ![t] = o] /\ o.pc = pc
        /\ o.key = op[t].key /\ o.sure = op[t].sure /\ o.config = op[t].config
        /\ o.flags = op[t].flags /\ o.dlls = op[t].dlls /\ o.i = op[t].i
  <2>1. Goto(t, pc) /\ pc \in Pc /\ pc \notin Ended
    BY <1>3 DEF RemoveMarker, Pc, Ended
  <2> QED
    BY <1>1, <2>1, InProgress, Went
<1>5. op[t].sure /\ op[t].config \in Configuration => LauncherFits(o, r)
  <2> SUFFICES ASSUME op[t].sure, op[t].config \in Configuration PROVE LauncherFits(o, r)
    OBVIOUS
  <2>1. ~op[t].config.launch
    BY <1>1, InProgress DEF SetFits, LauncherFits
  <2> QED
    BY <1>2, <1>3, <1>4, <2>1 DEF LauncherFits
<1>6. op[t].sure => Fits(o, r)
  <2>1. o.pc \notin {"vflags", "dlls", "read", "remove", "clear", "forget"}
    BY <1>3, <1>4
  <2> QED
    BY <1>1, <1>2, <1>4, <1>5, <2>1, FitsAfterLauncher
<1>7. o.pc \notin Ended /\ o.pc # "idle" /\ o.pc # "succeeded"
  BY <1>3, <1>4 DEF Ended
<1> QED
  BY <1>1, <1>2, <1>4, <1>6, <1>7, StepSeen

LEMMA WriteDwordSeen ==
  ASSUME IInv, Progress, NEW t \in Tool, WriteDword(t)
  PROVE  Progress' /\ Seen
<1>1. /\ Active(t) /\ op[t].pc = "values" /\ Elsewhere
      /\ op[t].i \in Nat \ {0} /\ op[t].i <= Len(Dwords)
  BY InProgress DEF WriteDword, Active, Ended, CallState
<1>2. op[t].config \in Configuration /\ op[t].config.data \in Data
  BY <1>1, InHand, ConfigurationAssumption DEF ConfigFits
<1>3. Dwords[op[t].i] \in KexName
  BY <1>1, DwordsNamed
<1>4. PICK r \in KeyState :
        /\ key' = [key EXCEPT ![op[t].key] = r]
        /\ ValueSet(r.kex, Mine(t).kex, Dwords[op[t].i], op[t].config.data)
        /\ r.marker = Mine(t).marker /\ r.debugger = Mine(t).debugger
  <2> DEFINE n == Dwords[op[t].i]
             v == op[t].config.data
  <2>1. key' = [key EXCEPT ![op[t].key].kex[n] = v]
    BY DEF WriteDword
  <2>2. TypeOK /\ v \in Data \cup {Absent} /\ n \in KexName
    BY <1>1, <1>2, <1>3, InProgress
  <2> HIDE DEF n, v
  <2>3. \E r \in KeyState :
           /\ key' = [key EXCEPT ![op[t].key] = r]
           /\ r.dlls = Mine(t).dlls /\ r.flags = Mine(t).flags
           /\ r.marker = Mine(t).marker /\ r.debugger = Mine(t).debugger
           /\ ValueSet(r.kex, Mine(t).kex, n, v)
    BY <2>1, <2>2, KexWritten
  <2> QED
    BY <2>3 DEF n, v
<1> DEFINE o == [op[t] EXCEPT !.i = @ + 1]
<1>5. op' = [op EXCEPT ![t] = o]
  BY DEF WriteDword
<1>6. /\ o \in CallState /\ o.pc = "values" /\ o.i = op[t].i + 1
      /\ o.key = op[t].key /\ o.sure = op[t].sure /\ o.config = op[t].config
      /\ o.flags = op[t].flags /\ o.dlls = op[t].dlls
  BY <1>1, InProgress DEF CallState
<1> HIDE DEF o
<1>7. op[t].sure => Fits(o, r)
  <2> SUFFICES ASSUME op[t].sure PROVE SetFits(o, r)
    BY <1>2, <1>6, ConfigurationAssumption DEF Fits
  <2>1. SetFits(op[t], Mine(t))
    BY <1>1, <1>2, InProgress
  <2>2. ASSUME NEW n \in KexName
        PROVE  r.kex[n] = IF n = Dwords[op[t].i] THEN op[t].config.data ELSE Mine(t).kex[n]
    BY <1>4 DEF ValueSet
  <2>3. \A j \in 1 .. Len(Dwords) : j < o.i => r.kex[Dwords[j]] = o.config.data
    <3> SUFFICES ASSUME NEW j \in 1 .. Len(Dwords), j < o.i
                 PROVE  r.kex[Dwords[j]] = op[t].config.data
      BY <1>6
    <3>1. j = op[t].i \/ j < op[t].i
      BY <1>1, <1>6, DwordsNamed
    <3>2. Dwords[j] \in KexName /\ (j < op[t].i => Mine(t).kex[Dwords[j]] = op[t].config.data)
      BY <2>1, DwordsNamed DEF SetFits
    <3> QED
      BY <2>2, <3>1, <3>2
  <2>4. VerifierFits(o) /\ LauncherFits(o, r)
    BY <1>1, <1>4, <1>6, <2>1 DEF SetFits, VerifierFits, LauncherFits
  <2>5. r.kex["KEX_ConfigPath"] = o.config.data
    <3>1. "KEX_ConfigPath" \in KexName
      BY DEF KexName
    <3> QED
      BY <1>1, <1>6, <2>1, <2>2, <3>1 DEF SetFits
  <2> QED
    BY <1>6, <2>3, <2>4, <2>5 DEF SetFits
<1>8. o.pc \notin Ended /\ o.pc # "idle" /\ o.pc # "succeeded"
  BY <1>6 DEF Ended
<1> QED
  BY <1>1, <1>4, <1>5, <1>6, <1>7, <1>8, StepSeen

LEMMA WriteGlobalFlagSeen ==
  ASSUME IInv, Progress, NEW t \in Tool, WriteGlobalFlag(t)
  PROVE  Progress' /\ Seen
<1>1. Active(t) /\ op[t].pc = "values" /\ op[t].i > Len(Dwords) /\ Elsewhere
  BY DEF WriteGlobalFlag, Active, Ended
<1>2. op[t].config \in Configuration
  BY <1>1, InHand DEF ConfigFits
<1>3. op[t].flags \in FlagSet /\ ReadFlags(op[t].flags) = op[t].flags
  BY <1>1, InProgress, NameAssumption DEF CallState, FlagSet, ReadFlags
<1>4. PICK r \in KeyState :
        /\ key' = [key EXCEPT ![op[t].key] = r] /\ r.flags = op[t].flags
        /\ r.marker = Mine(t).marker /\ r.debugger = Mine(t).debugger
        /\ r.kex = Mine(t).kex
  BY <1>1, <1>3, InProgress, FlagsWritten DEF WriteGlobalFlag
<1>5. PICK o \in CallState :
        /\ op' = [op EXCEPT ![t] = o] /\ o.pc = "vflags"
        /\ o.key = op[t].key /\ o.sure = op[t].sure /\ o.config = op[t].config
        /\ o.flags = op[t].flags /\ o.dlls = op[t].dlls /\ o.i = op[t].i
  BY <1>1, InProgress, Went DEF WriteGlobalFlag, Pc, Ended
<1>6. op[t].sure => Fits(o, r)
  <2> SUFFICES ASSUME op[t].sure PROVE SetFits(o, r)
    BY <1>2, <1>5, ConfigurationAssumption DEF Fits
  <2>1. SetFits(op[t], Mine(t))
    BY <1>1, <1>2, InProgress
  <2>2. LauncherFits(o, r) /\ VerifierFits(o)
    BY <1>1, <1>4, <1>5, <2>1 DEF SetFits, LauncherFits, VerifierFits
  <2>3. o.config.enabled => "verifier" \in ReadFlags(r.flags)
    BY <1>3, <1>4, <2>2, <1>5 DEF VerifierFits
  <2> QED
    BY <1>1, <1>4, <1>5, <2>1, <2>2, <2>3 DEF SetFits
<1> QED
  BY <1>1, <1>4, <1>5, <1>6, StepSeen DEF Ended

LEMMA WriteVerifierFlagsSeen ==
  ASSUME IInv, Progress, NEW t \in Tool, WriteVerifierFlags(t)
  PROVE  Progress' /\ Seen
<1>1. Active(t) /\ op[t].pc = "vflags" /\ Elsewhere
  BY DEF WriteVerifierFlags, Active, Ended
<1>2. op[t].config \in Configuration
  BY <1>1, InHand DEF ConfigFits
<1>3. op[t].vflags \in {Absent} \cup VerifierFlags
  BY <1>1, InProgress DEF CallState
<1>4. PICK r \in KeyState :
        /\ key' = [key EXCEPT ![op[t].key] = r] /\ r.flags = Mine(t).flags
        /\ r.marker = Mine(t).marker /\ r.debugger = Mine(t).debugger
        /\ r.kex = Mine(t).kex
  BY <1>1, <1>3, InProgress, VflagsWritten DEF WriteVerifierFlags
<1>5. PICK o \in CallState :
        /\ op' = [op EXCEPT ![t] = o] /\ o.pc = "dlls"
        /\ o.key = op[t].key /\ o.sure = op[t].sure /\ o.config = op[t].config
        /\ o.flags = op[t].flags /\ o.dlls = op[t].dlls /\ o.i = op[t].i
  BY <1>1, InProgress, Went DEF WriteVerifierFlags, Pc, Ended
<1>6. op[t].sure => Fits(o, r)
  <2> SUFFICES ASSUME op[t].sure PROVE SetFits(o, r)
    BY <1>2, <1>5, ConfigurationAssumption DEF Fits
  <2>1. SetFits(op[t], Mine(t))
    BY <1>1, <1>2, InProgress
  <2>2. LauncherFits(o, r) /\ VerifierFits(o)
    BY <1>1, <1>4, <1>5, <2>1 DEF SetFits, LauncherFits, VerifierFits
  <2> QED
    BY <1>1, <1>4, <1>5, <2>1, <2>2 DEF SetFits
<1> QED
  BY <1>1, <1>4, <1>5, <1>6, StepSeen DEF Ended

LEMMA WriteVerifierDllsSeen ==
  ASSUME IInv, Progress, NEW t \in Tool, WriteVerifierDlls(t)
  PROVE  Progress' /\ Seen
<1>1. Active(t) /\ op[t].pc = "dlls" /\ Elsewhere
  BY DEF WriteVerifierDlls, Active, Ended
<1>2. op[t].config \in Configuration
  BY <1>1, InHand DEF ConfigFits
<1>3. op[t].dlls \in DllList /\ Listed(op[t].dlls) = op[t].dlls
  BY <1>1, InProgress DEF CallState, Listed
<1>4. PICK r \in KeyState :
        /\ key' = [key EXCEPT ![op[t].key] = r] /\ r.dlls = op[t].dlls
        /\ r.flags = Mine(t).flags /\ r.marker = Mine(t).marker
        /\ r.debugger = Mine(t).debugger /\ r.kex = Mine(t).kex
  BY <1>1, <1>3, InProgress, DllsWritten DEF WriteVerifierDlls
<1>5. PICK o \in CallState : op' = [op EXCEPT ![t] = o] /\ o.pc = "succeeded"
  BY <1>1, InProgress, Went DEF WriteVerifierDlls, Pc, Ended
<1>6. op[t].sure /\ ~Prevented(op[t]) => Effective(r) = Asked(op[t].config)
  <2> SUFFICES ASSUME op[t].sure, ~Prevented(op[t])
               PROVE  Effective(r) = Asked(op[t].config)
    OBVIOUS
  <2> DEFINE c == op[t].config
  <2>1. SetFits(op[t], Mine(t)) /\ c # NoConfiguration /\ c.enabled \in BOOLEAN /\ c.launch \in BOOLEAN
    BY <1>1, <1>2, InProgress, ConfigurationAssumption
  <2>2. ("verifier" \in ReadFlags(r.flags) /\ KexDll \in Listed(r.dlls)) = c.enabled
    BY <1>1, <1>3, <1>4, <2>1 DEF SetFits, VerifierFits, Prevented
  <2>3. (r.debugger # Absent /\ r.debugger = r.marker) = c.launch
    BY <1>1, <1>4, <2>1, NameAssumption DEF SetFits, LauncherFits
  <2>4. r.kex = [n \in KexName |-> c.data]
    <3>1. r.kex["KEX_ConfigPath"] = c.data
      BY <1>1, <1>4, <2>1 DEF SetFits
    <3>2. ASSUME NEW j \in 1 .. Len(Dwords) PROVE r.kex[Dwords[j]] = c.data
      <4>1. op[t].i \in Nat /\ op[t].i > Len(Dwords)
        BY <1>1, <2>1, InProgress DEF SetFits, CallState
      <4>2. j < op[t].i
        BY <4>1, DwordsNamed
      <4> QED
        BY <1>4, <2>1, <4>2 DEF SetFits
    <3>3. \A n \in KexName : r.kex[n] = c.data
      BY <3>1, <3>2, DwordsNamed
    <3>4. r.kex = [n \in KexName |-> r.kex[n]]
      BY DEF KeyState, Values
    <3> QED
      BY <3>3, <3>4
  <2> QED
    BY <2>1, <2>2, <2>3, <2>4 DEF Effective, Asked
<1> QED
  BY <1>1, <1>4, <1>5, <1>6, StepSeen DEF Ended

-----------------------------------------------------------------------------
(* The steps of KxCfgDeleteConfiguration *)

\* A deletion that has taken everything leaves no settings.
LEMMA NothingLeft ==
  ASSUME NEW r \in KeyState, r.kex = NoValues, r.marker = Absent,
         KexDll \notin Listed(r.dlls)
  PROVE  Effective(r) = Asked(NoConfiguration)
BY DEF Effective, Asked

LEMMA DeleteSettingSeen ==
  ASSUME IInv, Progress, NEW t \in Tool, DeleteSetting(t)
  PROVE  Progress' /\ Seen
<1>1. Active(t) /\ op[t].pc = "settings" /\ Elsewhere
  BY DEF DeleteSetting, Active, Ended
<1>2. op[t].config = NoConfiguration /\ TypeOK /\ op[t] \in CallState
  BY <1>1, InHand, InProgress DEF ConfigFits
<1>3. CASE UNCHANGED op /\ \/ \E n \in KexName : key' = [key EXCEPT ![op[t].key].kex[n] = Absent]
                           \/ Write(t, "marker", Absent)
  <2>1. PICK r \in KeyState : key' = [key EXCEPT ![op[t].key] = r]
    <3>1. CASE \E n \in KexName : key' = [key EXCEPT ![op[t].key].kex[n] = Absent]
      <4>1. PICK n \in KexName : key' = [key EXCEPT ![op[t].key].kex[n] = Absent]
        BY <3>1
      <4> QED
        BY <1>2, <4>1, KexWritten
    <3>2. CASE Write(t, "marker", Absent)
      BY <1>2, <3>2, MarkerWritten
    <3> QED
      BY <1>3, <3>1, <3>2
  <2>2. op' = [op EXCEPT ![t] = op[t]]
    BY <1>2, <1>3 DEF TypeOK
  <2>3. Fits(op[t], r)
    BY <1>1, <1>2 DEF Fits, DeleteFits
  <2> QED
    BY <1>1, <1>2, <2>1, <2>2, <2>3, StepSeen DEF Ended
<1>4. CASE /\ Mine(t).kex = NoValues /\ Mine(t).marker = Absent
           /\ Goto(t, "read") /\ UNCHANGED key
  <2>1. PICK o \in CallState :
          /\ op' = [op EXCEPT ![t] = o] /\ o.pc = "read"
          /\ o.key = op[t].key /\ o.sure = op[t].sure /\ o.config = op[t].config
    BY <1>2, <1>4, Went DEF Pc, Ended
  <2>2. Mine(t) \in KeyState /\ key' = [key EXCEPT ![op[t].key] = Mine(t)]
    BY <1>2, <1>4, MineTyped
  <2>3. Fits(o, Mine(t))
    BY <1>2, <1>4, <2>1 DEF Fits, DeleteFits
  <2> QED
    BY <1>1, <1>2, <2>1, <2>2, <2>3, StepSeen DEF Ended
<1> QED
  BY <1>3, <1>4 DEF DeleteSetting

LEMMA ReadVerifierDllsSeen ==
  ASSUME IInv, Progress, NEW t \in Tool, ReadVerifierDlls(t)
  PROVE  Progress' /\ Seen
<1> DEFINE dlls == Mine(t).dlls
           left == RemoveKexDll(ReadString(dlls))
           pc == IF ~Readable(dlls) THEN "idle"
                 ELSE IF KexDll \in ReadString(dlls) THEN "remove" ELSE "succeeded"
           p == [op[t] EXCEPT !.dlls = left]
           o == At(p, pc)
<1>1. Active(t) /\ op[t].pc = "read" /\ Elsewhere
  BY DEF ReadVerifierDlls, Active, Ended
<1>2. /\ op[t].config = NoConfiguration /\ TypeOK /\ op[t] \in CallState
      /\ Mine(t) \in KeyState
  BY <1>1, InHand, InProgress DEF ConfigFits
<1>3. op' = [op EXCEPT ![t] = o]
  BY DEF ReadVerifierDlls
<1>4. left \in DllList \ {Absent} /\ KexDll \notin left
  BY <1>2, ListTyped DEF KeyState, RemoveKexDll
<1>5. /\ p \in CallState /\ p.key = op[t].key /\ p.sure = op[t].sure
      /\ p.config = op[t].config /\ p.dlls = left
  BY <1>2, <1>4 DEF CallState
<1>6. /\ pc \in Pc /\ (pc \notin Ended => pc = "remove")
      /\ pc = "succeeded" => KexDll \notin Listed(dlls)
  BY DEF Pc, Ended, ReadString
<1> HIDE DEF p
<1>7. /\ o \in CallState /\ o.pc = pc
      /\ pc \notin Ended =>
           /\ o.key = op[t].key /\ o.sure = op[t].sure
           /\ o.config = op[t].config /\ o.dlls = left
  BY <1>5, <1>6, AtTyped
<1> HIDE DEF o, pc, left
<1>8. op[t].sure => Mine(t).kex = NoValues /\ Mine(t).marker = Absent
  BY <1>1, <1>2, InProgress DEF DeleteFits
<1>9. o.pc \notin Ended /\ op[t].sure => Fits(o, Mine(t))
  BY <1>2, <1>4, <1>6, <1>7, <1>8 DEF Fits, DeleteFits
<1>10. o.pc = "succeeded" /\ op[t].sure => Effective(Mine(t)) = Asked(op[t].config)
  BY <1>2, <1>6, <1>7, <1>8, NothingLeft
<1>11. key' = [key EXCEPT ![op[t].key] = Mine(t)]
  BY <1>2, MineTyped DEF ReadVerifierDlls
<1> QED
  BY <1>1, <1>2, <1>3, <1>7, <1>9, <1>10, <1>11, StepSeen

LEMMA RemoveFromListSeen ==
  ASSUME IInv, Progress, NEW t \in Tool, RemoveFromList(t)
  PROVE  Progress' /\ Seen
<1> DEFINE left == IF op[t].dlls = {} THEN Absent ELSE op[t].dlls
           flags == ReadFlags(Mine(t).flags)
           pc == IF op[t].dlls = {} /\ "verifier" \in flags THEN "clear" ELSE "succeeded"
           p == [op[t] EXCEPT !.flags = flags]
           o == At(p, pc)
<1>1. Active(t) /\ op[t].pc = "remove" /\ Elsewhere
  BY DEF RemoveFromList, Active, Ended
<1>2. /\ op[t].config = NoConfiguration /\ TypeOK /\ op[t] \in CallState
      /\ Mine(t) \in KeyState
  BY <1>1, InHand, InProgress DEF ConfigFits
<1>3. op' = [op EXCEPT ![t] = o] /\ Write(t, "dlls", left)
  BY DEF RemoveFromList
<1>4. left \in DllList /\ Listed(left) = op[t].dlls
  BY <1>2 DEF CallState, DllList, Listed
<1>5. flags \in FlagSet
  BY <1>2, ListTyped DEF KeyState
<1>6. /\ p \in CallState /\ p.key = op[t].key /\ p.sure = op[t].sure
      /\ p.config = op[t].config
  BY <1>2, <1>5 DEF CallState
<1>7. pc \in Pc /\ (pc \notin Ended => pc = "clear") /\ pc # "idle"
  BY DEF Pc, Ended
<1> HIDE DEF p
<1>8. /\ o \in CallState /\ o.pc = pc
      /\ pc \notin Ended =>
           o.key = op[t].key /\ o.sure = op[t].sure /\ o.config = op[t].config
  BY <1>6, <1>7, AtTyped
<1> HIDE DEF o, pc, left
<1>9. PICK r \in KeyState :
        /\ key' = [key EXCEPT ![op[t].key] = r] /\ r.dlls = left
        /\ r.marker = Mine(t).marker /\ r.kex = Mine(t).kex
  BY <1>2, <1>3, <1>4, DllsWritten
<1>10. op[t].sure =>
         r.kex = NoValues /\ r.marker = Absent /\ KexDll \notin Listed(r.dlls)
  BY <1>1, <1>2, <1>4, <1>9, InProgress DEF DeleteFits
<1>11. o.pc \notin Ended /\ op[t].sure => Fits(o, r)
  BY <1>2, <1>7, <1>8, <1>10 DEF Fits, DeleteFits
<1>12. op[t].sure => Effective(r) = Asked(op[t].config)
  BY <1>2, <1>10, NothingLeft
<1> QED
  BY <1>1, <1>2, <1>3, <1>7, <1>8, <1>9, <1>11, <1>12, StepSeen

LEMMA ClearGlobalFlagSeen ==
  ASSUME IInv, Progress, NEW t \in Tool, ClearGlobalFlag(t)
  PROVE  Progress' /\ Seen
<1> DEFINE left == op[t].flags \ {"verifier"}
           flags == IF left = {} THEN Absent ELSE left
<1>1. Active(t) /\ op[t].pc = "clear" /\ Elsewhere
  BY DEF ClearGlobalFlag, Active, Ended
<1>2. op[t].config = NoConfiguration /\ TypeOK /\ op[t] \in CallState
  BY <1>1, InHand, InProgress DEF ConfigFits
<1>3. flags \in {Absent} \cup FlagSet
  BY <1>2 DEF CallState, FlagSet
<1>4. Write(t, "flags", flags)
  BY DEF ClearGlobalFlag
<1> HIDE DEF flags
<1>5. PICK r \in KeyState :
        /\ key' = [key EXCEPT ![op[t].key] = r]
        /\ r.dlls = Mine(t).dlls /\ r.marker = Mine(t).marker /\ r.kex = Mine(t).kex
  BY <1>2, <1>3, <1>4, FlagsWritten
<1>6. PICK o \in CallState :
        /\ op' = [op EXCEPT ![t] = o] /\ o.pc = "forget"
        /\ o.key = op[t].key /\ o.sure = op[t].sure /\ o.config = op[t].config
  BY <1>2, Went DEF ClearGlobalFlag, Pc, Ended
<1>7. op[t].sure => Fits(o, r)
  BY <1>1, <1>2, <1>5, <1>6, InProgress DEF Fits, DeleteFits
<1> QED
  BY <1>1, <1>2, <1>5, <1>6, <1>7, StepSeen DEF Ended

LEMMA DeleteVerifierFlagsSeen ==
  ASSUME IInv, Progress, NEW t \in Tool, DeleteVerifierFlags(t)
  PROVE  Progress' /\ Seen
<1>1. Active(t) /\ op[t].pc = "forget" /\ Elsewhere
  BY DEF DeleteVerifierFlags, Active, Ended
<1>2. op[t].config = NoConfiguration /\ TypeOK /\ Mine(t) \in KeyState
  BY <1>1, InHand, InProgress DEF ConfigFits
<1>3. PICK r \in KeyState :
        /\ key' = [key EXCEPT ![op[t].key] = r]
        /\ r.dlls = Mine(t).dlls /\ r.marker = Mine(t).marker /\ r.kex = Mine(t).kex
  <2>1. CASE Write(t, "vflags", Absent)
    BY <1>2, <2>1, VflagsWritten
  <2>2. CASE UNCHANGED key
    BY <1>2, <2>2, MineTyped
  <2> QED
    BY <2>1, <2>2 DEF DeleteVerifierFlags
<1>4. PICK o \in CallState : op' = [op EXCEPT ![t] = o] /\ o.pc = "succeeded"
  BY <1>2, Went DEF DeleteVerifierFlags, Pc, Ended
<1>5. op[t].sure =>
        r.kex = NoValues /\ r.marker = Absent /\ KexDll \notin Listed(r.dlls)
  BY <1>1, <1>2, <1>3, InProgress DEF DeleteFits
<1>6. op[t].sure => Effective(r) = Asked(op[t].config)
  BY <1>2, <1>5, NothingLeft
<1> QED
  BY <1>1, <1>3, <1>4, <1>6, StepSeen DEF Ended

LEMMA AbortSeen ==
  ASSUME IInv, Progress, NEW t \in Tool, Abort(t)
  PROVE  Progress' /\ Seen
<1>1. Active(t) /\ Goto(t, "idle") /\ UNCHANGED key /\ Elsewhere
  BY DEF Abort, Active
<1> QED
  BY <1>1, StopSeen

-----------------------------------------------------------------------------
(* A call begins *)

LEMMA FitsSame ==
  ASSUME NEW o, NEW p, NEW r, Fits(p, r),
         o.pc = p.pc, o.config = p.config, o.i = p.i, o.flags = p.flags, o.dlls = p.dlls
  PROVE  Fits(o, r)
BY DEF Fits, DeleteFits, SetFits, VerifierFits, LauncherFits

\* Our name gets into a list that has room, or one that contains it is there.
LEMMA AddedIsListed ==
  ASSUME NEW dlls, HasRoom(dlls)
  PROVE  KexDll \in AddKexDll(dlls) \/ Shadowed(AddKexDll(dlls))
<1>1. CASE Mentions(dlls)
  BY <1>1 DEF AddKexDll, Mentions, Shadowed
<1>2. CASE ~Mentions(dlls)
  BY <1>2 DEF AddKexDll
<1> QED
  BY <1>1, <1>2

LEMMA CallSeen ==
  ASSUME IInv, Progress, NEW t \in Tool, NEW k \in Key, NEW o \in CallState, Call(t, k, o),
         o.pc \in {"path", "launcher"}, o.key = k,
         o.sure => On(k) = {} /\ Fits(o, key[k])
  PROVE  Progress' /\ Seen
<1>1. TypeOK /\ op \in [Tool -> CallState]
  BY DEF IInv, TypeOK
<1> DEFINE over == Overlapped({k})
<1>2. /\ over \in [Tool -> CallState]
      /\ \A u \in Tool :
           /\ over[u].pc = op[u].pc /\ over[u].key = op[u].key
           /\ over[u].config = op[u].config /\ over[u].i = op[u].i
           /\ over[u].flags = op[u].flags /\ over[u].dlls = op[u].dlls
           /\ over[u].sure => op[u].sure
  BY <1>1, OverlappedTyped
<1>3. op' = [over EXCEPT ![t] = o]
  BY DEF Call
<1>4. Promised!Disturbed({k}) = [u \in Tool |-> Abstract(over[u])]
  BY <1>1, DisturbedFields
<1> HIDE DEF over
<1>5. /\ op' \in [Tool -> CallState] /\ op'[t] = o
      /\ \A u \in Tool : u # t => op'[u] = over[u]
  BY <1>2, <1>3
<1>6. /\ UNCHANGED <<key, store>> /\ ~Active(t)
      /\ disputed' = disputed \cup {j \in {k} : On(j) # {}}
  BY DEF Call, Active
<1>7. Progress'
  <2> SUFFICES ASSUME NEW u \in Tool, op'[u].pc \notin Ended, op'[u].sure
               PROVE  Fits(op'[u], key[op'[u].key])
    BY <1>6 DEF Progress, Active, Mine
  <2>1. CASE u = t
    BY <2>1, <1>5
  <2>2. CASE u # t
    <3>1. /\ op'[u].key = op[u].key /\ op'[u].pc = op[u].pc
          /\ op'[u].config = op[u].config /\ op'[u].i = op[u].i
          /\ op'[u].flags = op[u].flags /\ op'[u].dlls = op[u].dlls
          /\ op[u].sure /\ Active(u)
      BY <2>2, <1>2, <1>5 DEF Active
    <3>2. Fits(op[u], key[op[u].key])
      BY <3>1 DEF Progress, Mine
    <3> QED
      BY <3>1, <3>2, FitsSame
  <2> QED
    BY <2>1, <2>2
<1>8. Calls'[t] = Abstract(o) /\ Calls' = [u \in Tool |-> Abstract(op'[u])]
  BY <1>5 DEF Calls
<1>9. Abstract(o).pc = "busy" /\ Abstract(o).key = k /\ (Abstract(o).sure => o.sure)
  BY AbstractFields DEF Ended
<1>10. Abstract(o) \in [pc : {"busy"}, key : Key, goal : Setting, sure : BOOLEAN]
  <2>1. Asked(o.config) \in Setting /\ o.sure \in BOOLEAN
    BY SettingsTyped DEF CallState
  <2>2. o.pc \notin Ended
    BY DEF Ended
  <2> QED
    BY <2>1, <2>2 DEF Abstract
<1>11. Calls' = [Promised!Disturbed({k}) EXCEPT ![t] = Abstract(o)]
  BY <1>4, <1>5, <1>8
<1>12. Abstract(o).sure => Promised!On(k) = {}
  <2>1. Promised!On(k) \subseteq Tool
    BY DEF Promised!On
  <2> QED
    BY <1>9, <2>1, CallsFields
<1>13. Promised!Dispute({k}) /\ ~Promised!Busy(t)
  BY <1>6, DisputeIs, CallsFields
<1>14. Conf' = Conf /\ Kept' = Kept
  BY <1>6 DEF Conf, Kept
<1>15. Promised!Begin(t)
  BY <1>8, <1>9, <1>10, <1>11, <1>12, <1>13, <1>14
     DEF Promised!Begin, Calls, Abstract, Conf, Kept, SavedSetting
<1> QED
  BY <1>7, <1>15 DEF Seen, Promised!Step

LEMMA SetConfigurationSeen ==
  ASSUME IInv, Progress, NEW t \in Tool, NEW k \in Key, NEW c \in Configuration,
         SetConfiguration(t, k, c)
  PROVE  Progress' /\ Seen
<1> DEFINE r == key[k]
           dlls == ReadString(r.dlls)
           flags == ReadFlags(r.flags)
           off == KexDll \in dlls /\ RemoveKexDll(dlls) = {}
           d == IF c.enabled THEN AddKexDll(dlls) ELSE RemoveKexDll(dlls)
           f == IF c.enabled THEN flags \cup {"verifier"}
                ELSE IF off THEN flags \ {"verifier"} ELSE flags
           v == IF c.enabled THEN "full"
                ELSE IF off THEN "zero" ELSE ReadVerifierFlags(r.vflags)
           s == On(k) = {} /\ Readable(r.dlls) /\ (c.enabled => HasRoom(dlls))
           o == [NoCall EXCEPT !.pc = "path", !.key = k, !.config = c, !.dlls = d,
                               !.flags = f, !.vflags = v, !.sure = s]
<1>1. Call(t, k, o)
  BY DEF SetConfiguration
<1>2. r \in KeyState
  BY DEF IInv, TypeOK
<1>3. /\ dlls \in SUBSET (Foreign \cup {KexDll, Cut}) /\ r.dlls \in DllList
      /\ flags \in FlagSet /\ ReadVerifierFlags(r.vflags) \in VerifierFlags
  BY <1>2, ListTyped DEF KeyState
<1>4. d \in DllList \ {Absent} /\ f \in FlagSet /\ v \in VerifierFlags /\ s \in BOOLEAN
  <2>1. d \in DllList \ {Absent}
    BY <1>3, ListTyped
  <2>2. f \in FlagSet
    BY <1>3 DEF FlagSet
  <2>3. v \in VerifierFlags
    BY <1>3 DEF VerifierFlags
  <2> QED
    BY <2>1, <2>2, <2>3
<1>5. s => On(k) = {} /\ (c.enabled => (KexDll \in d \/ Shadowed(d)) /\ "verifier" \in f)
  BY AddedIsListed
<1>6. ~c.enabled => KexDll \notin d
  BY DEF RemoveKexDll
<1> HIDE DEF d, f, v, s
<1>7. /\ o \in CallState /\ o.pc = "path" /\ o.key = k /\ o.config = c
      /\ o.dlls = d /\ o.flags = f /\ o.sure = s /\ o.i = NoCall.i
  BY <1>4, ConstantsTyped DEF CallState, Ended
<1>8. o.i = 1
  BY <1>7 DEF NoCall
<1> HIDE DEF o
<1>9. o.sure => On(k) = {} /\ Fits(o, r)
  <2> SUFFICES ASSUME s PROVE On(k) = {} /\ SetFits(o, r)
    BY <1>7, ConfigurationAssumption DEF Fits
  <2>1. \A j \in 1 .. Len(Dwords) : ~(j < o.i)
    BY <1>8, DwordsNamed
  <2> QED
    BY <1>5, <1>6, <1>7, <2>1 DEF SetFits, VerifierFits, LauncherFits
<1> QED
  BY <1>1, <1>7, <1>9, CallSeen

LEMMA DeleteConfigurationSeen ==
  ASSUME IInv, Progress, NEW t \in Tool, NEW k \in Key, DeleteConfiguration(t, k)
  PROVE  Progress' /\ Seen
<1> DEFINE s == On(k) = {}
           o == [NoCall EXCEPT !.pc = "launcher", !.key = k, !.sure = s]
<1>1. Call(t, k, o)
  BY DEF DeleteConfiguration
<1>2. s \in BOOLEAN /\ (s => On(k) = {})
  OBVIOUS
<1> HIDE DEF s
<1>3. /\ o \in CallState /\ o.pc = "launcher" /\ o.key = k /\ o.sure = s
      /\ o.config = NoConfiguration
  <2>1. NoCall.config = NoConfiguration
    BY DEF NoCall
  <2> QED
    BY <1>2, <2>1, ConstantsTyped DEF CallState, Ended
<1> HIDE DEF o
<1>4. Fits(o, key[k])
  BY <1>3 DEF Fits, DeleteFits
<1> QED
  BY <1>1, <1>2, <1>3, <1>4, CallSeen

-----------------------------------------------------------------------------
(* Other products *)

\* An edit leaves the settings, or takes the launch command.
LEMMA EditSeen ==
  ASSUME IInv, Progress, NEW k \in Key, NEW r \in KeyState, Edit(k, r),
         Effective(r) \in {Effective(key[k]),
                                  [Effective(key[k]) EXCEPT !.launch = FALSE]}
  PROVE  Progress' /\ Seen
<1>1. TypeOK /\ op \in [Tool -> CallState] /\ key \in [Key -> KeyState]
  BY DEF IInv, TypeOK
<1>2. \A u \in Tool :
           /\ op'[u].pc = op[u].pc /\ op'[u].key = op[u].key
           /\ op'[u].config = op[u].config /\ op'[u].i = op[u].i
           /\ op'[u].flags = op[u].flags /\ op'[u].dlls = op[u].dlls
           /\ op'[u].sure => op[u].sure /\ (Active(u) => op[u].key # k)
  BY <1>1, OverlappedTyped DEF Edit
<1>3. /\ key' \in [Key -> KeyState] /\ key'[k] = r
      /\ \A j \in Key : j # k => key'[j] = key[j]
  BY <1>1 DEF Edit
<1>4. UNCHANGED <<store, disputed>> /\ op' = Overlapped({k})
  BY DEF Edit
<1>5. Progress'
  <2> SUFFICES ASSUME NEW u \in Tool, op'[u].pc \notin Ended, op'[u].sure
               PROVE  Fits(op'[u], key'[op'[u].key])
    BY DEF Progress, Active, Mine
  <2>1. Fits(op[u], key[op[u].key]) /\ op[u].key # k /\ op[u].key \in Key
    BY <1>1, <1>2 DEF Progress, Active, Mine, CallState
  <2>2. key'[op'[u].key] = key[op[u].key]
    BY <1>2, <1>3, <2>1
  <2> QED
    BY <1>2, <2>1, <2>2, FitsSame
<1>6. Calls' = Promised!Disturbed({k})
  BY <1>1, <1>4, DisturbedFields DEF Calls
<1>7. Kept' = Kept
  BY <1>4 DEF Kept
<1>8. Conf' \in {Conf, [Conf EXCEPT ![k].launch = FALSE]}
  <2>1. /\ Conf = [j \in Key |-> Conf[j]] /\ Conf' = [j \in Key |-> Conf'[j]]
        /\ Conf'[k] = Effective(r) /\ Conf[k] = Effective(key[k])
        /\ \A j \in Key : j # k => Conf'[j] = Conf[j]
    BY <1>3 DEF Conf
  <2>2. CASE Effective(r) = Effective(key[k])
    BY <2>1, <2>2
  <2>3. CASE Effective(r) = [Effective(key[k]) EXCEPT !.launch = FALSE]
    <3>1. Conf' = [Conf EXCEPT ![k] = [Conf[k] EXCEPT !.launch = FALSE]]
      BY <2>1, <2>3
    <3> QED
      BY <3>1
  <2> QED
    BY <2>2, <2>3
<1>9. Promised!Edit(k)
  BY <1>4, <1>6, <1>7, <1>8 DEF Promised!Edit, Calls, Abstract, Conf, Kept, SavedSetting
<1> QED
  BY <1>5, <1>9 DEF Seen, Promised!Step

LEMMA EditVerifierSeen ==
  ASSUME IInv, Progress, NEW k \in Key, NEW others \in Lists, EditVerifier(k, others)
  PROVE  Progress' /\ Seen
<1> DEFINE s == key[k]
           on == others # {} \/ KexDll \in Listed(s.dlls)
           dlls == others \cup (Listed(s.dlls) \ Foreign)
           flags == IF on THEN ReadFlags(s.flags) \cup {"verifier"}
                    ELSE ReadFlags(s.flags) \ {"verifier"}
           r == [s EXCEPT !.dlls = dlls, !.flags = flags, !.vflags = "other"]
<1>1. Edit(k, r) /\ Effective(r) = Effective(s)
  BY DEF EditVerifier
<1>2. s \in KeyState
  BY DEF IInv, TypeOK
<1>3. Listed(s.dlls) \in SUBSET (Foreign \cup {KexDll, Cut}) /\ ReadFlags(s.flags) \in FlagSet
  BY <1>2, ListTyped DEF KeyState
<1>4. dlls \in DllList
  BY <1>3, NameAssumption DEF DllList
<1>5. flags \in FlagSet
  BY <1>3 DEF FlagSet
<1> HIDE DEF dlls, flags
<1>6. r \in KeyState
  BY <1>2, <1>4, <1>5 DEF KeyState, VerifierFlags
<1> HIDE DEF r
<1> QED
  BY <1>1, <1>6, EditSeen

LEMMA EditFlagsSeen ==
  ASSUME IInv, Progress, NEW k \in Key, EditFlags(k)
  PROVE  Progress' /\ Seen
<1> DEFINE s == key[k]
           flags == IF "snaps" \in ReadFlags(s.flags) THEN s.flags \ {"snaps"}
                    ELSE ReadFlags(s.flags) \cup {"snaps"}
           r == [s EXCEPT !.flags = flags]
<1>1. Edit(k, r)
  BY DEF EditFlags
<1>2. s \in KeyState
  BY DEF IInv, TypeOK
<1>3. flags \in FlagSet
  BY <1>2 DEF KeyState, FlagSet, ReadFlags
<1>4. flags # Absent
  BY <1>3, NameAssumption DEF FlagSet
<1>5. "verifier" \in ReadFlags(flags) <=> "verifier" \in ReadFlags(s.flags)
  BY <1>4 DEF ReadFlags
<1> HIDE DEF flags
<1>6. /\ r \in KeyState /\ r.flags = flags /\ r.dlls = s.dlls
      /\ r.debugger = s.debugger /\ r.marker = s.marker /\ r.kex = s.kex
  BY <1>2, <1>3 DEF KeyState
<1> HIDE DEF r
<1>7. Effective(r) = Effective(s)
  BY <1>5, <1>6 DEF Effective
<1> QED
  BY <1>1, <1>6, <1>7, EditSeen

LEMMA EditDebuggerSeen ==
  ASSUME IInv, Progress, NEW k \in Key, NEW d \in Debugger, EditDebugger(k, d)
  PROVE  Progress' /\ Seen
<1> DEFINE s == key[k]
           r == [s EXCEPT !.debugger = d]
<1>1. Edit(k, r)
  BY DEF EditDebugger
<1>2. s \in KeyState
  BY DEF IInv, TypeOK
<1>3. /\ r \in KeyState /\ r.debugger = d /\ r.marker = s.marker /\ r.flags = s.flags
      /\ r.dlls = s.dlls /\ r.kex = s.kex
  BY <1>2 DEF KeyState
<1>4. d # r.marker
  BY <1>3, NameAssumption DEF KeyState
<1> HIDE DEF r
<1>5. Effective(r) = [Effective(s) EXCEPT !.launch = FALSE]
  <2> DEFINE v == FALSE
             e == "verifier" \in ReadFlags(s.flags) /\ KexDll \in Listed(s.dlls)
             l == s.debugger # Absent /\ s.debugger = s.marker
  <2>1. (r.debugger # Absent /\ r.debugger = r.marker) = v
    BY <1>3, <1>4
  <2>2. Effective(s) = [enabled |-> e, launch |-> l, values |-> s.kex]
    BY DEF Effective
  <2>3. Effective(r) = [enabled |-> e, launch |-> v, values |-> s.kex]
    BY <1>3, <2>1 DEF Effective
  <2>4. [Effective(s) EXCEPT !.launch = FALSE] = [Effective(s) EXCEPT !.launch = v]
    OBVIOUS
  <2> HIDE DEF v, e, l
  <2> QED
    BY <2>2, <2>3, <2>4
<1> QED
  BY <1>1, <1>3, <1>5, EditSeen

-----------------------------------------------------------------------------
(* Set-up *)

LEMMA CommitSeen ==
  ASSUME IInv, Commit
  PROVE  Progress' /\ Promised!DisturbAll
<1>1. TypeOK /\ \A u \in Tool : op[u].key \in Key
  BY DEF IInv, TypeOK, CallState
<1>2. op' = Overlapped(Key) /\ disputed' = disputed \cup {k \in Key : On(k) # {}}
  BY DEF Commit
<1>3. \A u \in Tool : op'[u].pc = op[u].pc /\ (op'[u].sure => (Active(u) => op[u].key \notin Key))
  BY <1>1, <1>2, OverlappedTyped
<1>4. Progress'
  BY <1>1, <1>3 DEF Progress, Active
<1>5. Calls' = Promised!Disturbed(Key)
  BY <1>1, <1>2, DisturbedFields DEF Calls
<1>6. Promised!Dispute(Key)
  BY <1>2, DisputeIs
<1> QED
  BY <1>4, <1>5, <1>6 DEF Promised!DisturbAll, Calls, Abstract

LEMMA StoreIsStore ==
  /\ \A ks \in SUBSET Key, x \in [Key -> Saved] : [k \in ks |-> x[k]] # NoStore
  /\ \A ks \in SUBSET Key, x \in [Key -> Setting] : [k \in ks |-> x[k]] # NoStore
<1>1. ASSUME NEW ks \in SUBSET Key, NEW x \in [Key -> Saved]
      PROVE  [k \in ks |-> x[k]] # NoStore
  <2>1. [k \in ks |-> x[k]] \in [ks -> Saved]
    OBVIOUS
  <2> QED
    BY <2>1, StoreAssumption
<1>2. ASSUME NEW ks \in SUBSET Key, NEW x \in [Key -> Setting]
      PROVE  [k \in ks |-> x[k]] # NoStore
  <2>1. [k \in ks |-> x[k]] \in [ks -> Setting]
    OBVIOUS
  <2> QED
    BY <2>1, StoreAssumption
<1> QED
  BY <1>1, <1>2

\* What is disabled has no settings, if its list could be read.
LEMMA DisabledHasNone ==
  ASSUME NEW r \in KeyState, Readable(r.dlls)
  PROVE  Effective(Disable(r)) = Asked(NoConfiguration)
<1> DEFINE ours == KexDll \in ReadString(r.dlls)
           others == RemoveKexDll(ReadString(r.dlls))
           last == ours /\ others = {}
           d == IF Owns(r) THEN Absent ELSE r.debugger
           l == IF last THEN Absent ELSE IF ours THEN others ELSE r.dlls
           f == IF last THEN ReadFlags(r.flags) \ {"verifier"} ELSE r.flags
           v == IF last THEN Absent ELSE r.vflags
           new == [r EXCEPT !.debugger = d, !.marker = Absent, !.kex = NoValues,
                            !.dlls = l, !.flags = f, !.vflags = v]
<1>1. Disable(r) = new
  BY DEF Disable
<1>2. Disable(r) \in KeyState
  BY Disabled
<1>3. others \in DllList \ {Absent} /\ KexDll \notin others
  BY ListTyped DEF KeyState, RemoveKexDll
<1>4. KexDll \notin Listed(l)
  <2>1. CASE last
    BY <2>1 DEF Listed
  <2>2. CASE ~last /\ ours
    BY <2>2, <1>3 DEF Listed
  <2>3. CASE ~ours
    BY <2>3 DEF ReadString
  <2> QED
    BY <2>1, <2>2, <2>3
<1> HIDE DEF d, l, f, v
<1>5. new.marker = Absent /\ new.kex = NoValues /\ new.dlls = l
  BY DEF KeyState
<1> HIDE DEF new
<1> QED
  BY <1>1, <1>2, <1>4, <1>5, NothingLeft

\* What is saved are the settings in force, if the list could be read.
LEMMA SavedIsSetting ==
  ASSUME NEW r \in KeyState, Readable(r.dlls)
  PROVE  /\ SavedSetting(Save(r)) = Effective(r)
         /\ ~HasConfiguration(r) => Effective(r) = Asked(NoConfiguration)
<1>1. /\ Save(r).kex = r.kex /\ Save(r).debugger = IF Owns(r) THEN r.debugger ELSE Absent
      /\ Save(r).enabled = (KexDll \in ReadString(r.dlls) /\ "verifier" \in ReadFlags(r.flags))
  BY DEF Save
<1>2. (Save(r).debugger # Absent) = (r.debugger # Absent /\ r.debugger = r.marker)
  BY <1>1 DEF Owns
<1>3. Save(r).enabled = ("verifier" \in ReadFlags(r.flags) /\ KexDll \in Listed(r.dlls))
  BY <1>1 DEF ReadString
<1>4. SavedSetting(Save(r)) = Effective(r)
  BY <1>1, <1>2, <1>3 DEF SavedSetting, Effective
<1>5. ~HasConfiguration(r) => Effective(r) = Asked(NoConfiguration)
  BY NothingLeft DEF HasConfiguration, ReadString
<1> QED
  BY <1>4, <1>5

LEMMA PreserveSeen ==
  ASSUME IInv, NEW all \in BOOLEAN, NEW ks, ks = (IF all THEN Key ELSE User), Preserve(ks), Commit,
         all => Readable(key[Template].dlls)
  PROVE  Progress' /\ Seen
<1>1. TypeOK /\ key \in [Key -> KeyState]
  BY DEF IInv, TypeOK
<1> DEFINE us == {u \in User : HasConfiguration(key[u])}
<1>2. store = NoStore /\ store' = [k \in us |-> Save(key[k])]
  BY DEF Preserve
<1>3. us \in SUBSET (Key \ {Template}) /\ us \in SUBSET Key
  BY DEF User
<1>4. \A k \in Key \ (us \cup {Template}) : Conf[k] = Asked(NoConfiguration)
  <2> SUFFICES ASSUME NEW k \in Key \ (us \cup {Template})
               PROVE  Effective(key[k]) = Asked(NoConfiguration)
    BY ConfFields
  <2>1. key[k] \in KeyState /\ ~HasConfiguration(key[k])
    BY <1>1 DEF User
  <2>2. Readable(key[k].dlls)
    BY DEF User, Preserve, Refuses
  <2> QED
    BY <2>1, <2>2, SavedIsSetting
<1> HIDE DEF us
<1>5. store' # NoStore
  <2>1. [k \in Key |-> Save(key[k])] \in [Key -> Saved]
    BY <1>1, SavedMarked
  <2>2. store' = [k \in us |-> [j \in Key |-> Save(key[j])][k]]
    BY <1>2, <1>3
  <2> QED
    BY <1>3, <2>1, <2>2, StoreIsStore
<1>6. Kept = NoStore
  BY <1>2 DEF Kept
<1>7. Kept' = [k \in us |-> Conf[k]]
  <2>1. DOMAIN store' = us /\ \A k \in us : store'[k] = Save(key[k])
    BY <1>2
  <2>2. Kept' = [k \in us |-> SavedSetting(store'[k])]
    BY <1>5, <2>1 DEF Kept
  <2>3. \A k \in us : SavedSetting(store'[k]) = Conf[k]
    <3> SUFFICES ASSUME NEW k \in us PROVE SavedSetting(store'[k]) = Conf[k]
      OBVIOUS
    <3>1. key[k] \in KeyState /\ Conf[k] = Effective(key[k])
      BY <1>1, <1>3, ConfFields
    <3>2. Readable(key[k].dlls)
      BY <1>3 DEF User, Preserve, Refuses
    <3> QED
      BY <2>1, <3>1, <3>2, SavedIsSetting
  <2> QED
    BY <2>2, <2>3
<1>8. Kept' # NoStore
  BY <1>1, <1>3, <1>7, StoreIsStore, ConfFields
<1>9. Conf' = [k \in Key |-> IF k = Template /\ ~all THEN Conf[k] ELSE Asked(NoConfiguration)]
  <2>1. ASSUME NEW k \in Key
        PROVE  Effective(key'[k]) =
                 IF k = Template /\ ~all THEN Conf[k] ELSE Asked(NoConfiguration)
    <3>1. key'[k] = IF k \in ks THEN Disable(key[k]) ELSE key[k]
      BY DEF Preserve
    <3>2. k \in ks <=> ~(k = Template /\ ~all)
      BY DEF User
    <3>3. key[k] \in KeyState /\ Conf[k] = Effective(key[k])
      BY <1>1, ConfFields
    <3>4. k \in ks => Readable(key[k].dlls)
      BY <3>2 DEF User, Preserve, Refuses
    <3> QED
      BY <3>1, <3>2, <3>3, <3>4, DisabledHasNone
  <2>2. Conf' = [k \in Key |-> Effective(key'[k])]
    BY DEF Conf
  <2> QED
    BY <2>1, <2>2
<1>10. Progress' /\ Promised!DisturbAll
  BY CommitSeen
<1>11. Promised!Keep(all)
  BY <1>3, <1>4, <1>6, <1>7, <1>8, <1>9, <1>10 DEF Promised!Keep, Conf, Kept, SavedSetting
<1> QED
  BY <1>10, <1>11 DEF Seen, Promised!Step

LEMMA RemoveConfigurationsSeen ==
  ASSUME IInv, NEW keep \in BOOLEAN, RemoveConfigurations(keep), Commit
  PROVE  Progress' /\ Seen
<1>1. CASE keep
  <2>1. Preserve(Key) /\ Readable(key[Template].dlls)
    BY <1>1 DEF RemoveConfigurations
  <2> QED
    BY <2>1, PreserveSeen
<1>2. CASE ~keep
  <2>1. key' = [k \in Key |-> Disable(key[k])] /\ store' = NoStore
    BY <1>2 DEF RemoveConfigurations
  <2>2. Kept' = NoStore
    BY <2>1 DEF Kept
  <2>3. Conf' = [k \in Key |-> Asked(NoConfiguration)]
    <3>1. \A k \in Key : Effective(key'[k]) = Asked(NoConfiguration)
      <4> SUFFICES ASSUME NEW k \in Key
                   PROVE  Effective(key'[k]) = Asked(NoConfiguration)
        OBVIOUS
      <4>1. key[k] \in KeyState /\ key'[k] = Disable(key[k])
        BY <2>1 DEF IInv, TypeOK
      <4>2. Readable(key[k].dlls)
        BY <1>2 DEF RemoveConfigurations, Preserve, Refuses
      <4> QED
        BY <4>1, <4>2, DisabledHasNone
    <3> QED
      BY <3>1 DEF Conf
  <2>4. Progress' /\ Promised!DisturbAll
    BY CommitSeen
  <2>5. Promised!Discard
    BY <2>2, <2>3, <2>4 DEF Promised!Discard, Conf, Kept, SavedSetting
  <2> QED
    BY <2>4, <2>5 DEF Seen, Promised!Step
<1> QED
  BY <1>1, <1>2

\* What was saved comes back where nobody has configured anything since.
LEMMA RestoredIsSaved ==
  ASSUME NEW r \in KeyState, NEW s \in Saved, ~Conflicts(r, s),
         s.debugger = Command => s.marker = Command,
         r.debugger = Command => r.marker = Command,
         Effective(r) = Asked(NoConfiguration)
  PROVE  Effective(Restored(r, s)) = SavedSetting(s)
<1> DEFINE x == [n \in KexName |-> Chosen(s.kex[n], r.kex[n])]
           m == Chosen(s.marker, r.marker)
           d == Chosen(s.debugger, r.debugger)
           l == IF s.enabled THEN ReadString(r.dlls) \cup {KexDll} ELSE r.dlls
           f == IF s.enabled THEN ReadFlags(r.flags) \cup {"verifier"} ELSE r.flags
           v == IF s.enabled THEN s.vflags ELSE r.vflags
           new == [r EXCEPT !.kex = x, !.marker = m, !.debugger = d, !.dlls = l,
                            !.flags = f, !.vflags = v]
<1>1. Restored(r, s) = new
  BY DEF Restored
<1>2. /\ ~("verifier" \in ReadFlags(r.flags) /\ KexDll \in Listed(r.dlls))
      /\ ~(r.debugger # Absent /\ r.debugger = r.marker)
      /\ r.kex = NoValues
  <2> DEFINE e == "verifier" \in ReadFlags(r.flags) /\ KexDll \in Listed(r.dlls)
             g == r.debugger # Absent /\ r.debugger = r.marker
  <2>1. /\ Effective(r).enabled = e /\ Effective(r).launch = g
        /\ Effective(r).values = r.kex
    BY DEF Effective
  <2>2. /\ ~Asked(NoConfiguration).enabled /\ ~Asked(NoConfiguration).launch
        /\ Asked(NoConfiguration).values = NoValues
    BY DEF Asked
  <2> QED
    BY <2>1, <2>2
<1>3. x = s.kex
  <2>1. \A n \in KexName : x[n] = s.kex[n]
    BY <1>2 DEF NoValues, Chosen
  <2> QED
    BY <2>1 DEF Saved, Values
<1>4. (d # Absent /\ d = m) = (s.debugger # Absent)
  <2>1. CASE s.debugger # Absent
    BY <2>1 DEF Chosen, Saved
  <2>2. CASE s.debugger = Absent
    <3>1. d = r.debugger /\ m \in {Absent, Command}
      BY <2>2 DEF Chosen, Saved, KeyState
    <3>2. r.debugger # Command
      BY <1>2, NameAssumption
    <3> QED
      BY <2>2, <3>1, <3>2
  <2> QED
    BY <2>1, <2>2
<1>5. ("verifier" \in ReadFlags(f) /\ KexDll \in Listed(l)) = s.enabled
  <2>1. CASE s.enabled
    <3>1. r.dlls \in DllList /\ ReadFlags(r.flags) \in FlagSet
      BY ListTyped DEF KeyState
    <3>2. ReadString(r.dlls) \cup {KexDll} \in DllList \ {Absent}
      BY <3>1, ListTyped
    <3>3. KexDll \in Listed(l)
      BY <2>1, <3>2 DEF Listed
    <3>4. f # Absent /\ "verifier" \in f
      BY <2>1, <3>1, NameAssumption DEF FlagSet
    <3> QED
      BY <2>1, <3>3, <3>4 DEF ReadFlags
  <2>2. CASE ~s.enabled
    BY <1>2, <2>2 DEF Saved
  <2> QED
    BY <2>1, <2>2
<1> HIDE DEF x, m, d, l, f, v
<1>6. /\ new.kex = x /\ new.marker = m /\ new.debugger = d /\ new.dlls = l /\ new.flags = f
  BY DEF KeyState
<1> HIDE DEF new
<1> QED
  BY <1>1, <1>3, <1>4, <1>5, <1>6 DEF Effective, SavedSetting

LEMMA RestoreSeen ==
  ASSUME IInv, IInv', NEW ks \in SUBSET {Template}, Restore(ks), Commit
  PROVE  Progress' /\ Seen
<1>1. TypeOK /\ key \in [Key -> KeyState] /\ key' \in [Key -> KeyState]
  BY DEF IInv, TypeOK
<1>2. Kept' = NoStore
  BY DEF Restore, Kept
<1>3. Conf' \in [Key -> Setting]
  BY <1>1, SettingsTyped DEF Conf
<1>4. \A k \in Key : Conf[k] = Effective(key[k]) /\ Conf'[k] = Effective(key'[k])
  BY DEF Conf
<1>5. \A k \in Key \ {Template} :
        key'[k] = IF store # NoStore /\ k \in DOMAIN store THEN Restored(key[k], store[k])
                  ELSE key[k]
  BY DEF Restore
<1>6. CASE store = NoStore
  <2>1. Kept = NoStore
    BY <1>6 DEF Kept
  <2>2. \A k \in Key \ {Template} : Conf'[k] = Conf[k]
    BY <1>4, <1>5, <1>6
  <2>3. Progress' /\ Promised!DisturbAll
    BY CommitSeen
  <2>4. Promised!Restore
    BY <1>2, <1>3, <2>1, <2>2, <2>3 DEF Promised!Restore, Conf, Kept, SavedSetting
  <2> QED
    BY <2>3, <2>4 DEF Seen, Promised!Step
<1>7. CASE store # NoStore
  <2>1. Kept = [k \in DOMAIN store |-> SavedSetting(store[k])]
    BY <1>7 DEF Kept
  <2>2. Kept # NoStore
    <3>1. DOMAIN store \in SUBSET Key /\ \A k \in DOMAIN store : store[k] \in Saved
      BY <1>1, <1>7 DEF TypeOK, User
    <3>2. \A k \in DOMAIN store : SavedSetting(store[k]) \in Setting
      BY <3>1, NameAssumption DEF Saved, Setting, SavedSetting
    <3>3. Kept \in [DOMAIN store -> Setting]
      BY <2>1, <3>2
    <3> QED
      BY <3>1, <3>3, StoreAssumption
  <2>3. ASSUME NEW k \in Key \ {Template}, k \notin DOMAIN Kept
        PROVE  Conf'[k] = Conf[k]
    BY <1>4, <1>5, <2>1, <2>3
  <2>4. ASSUME NEW k \in Key \ {Template}, k \in DOMAIN Kept \ disputed,
               Conf[k] = Asked(NoConfiguration)
        PROVE  Conf'[k] = Kept[k]
    <3>1. k \in DOMAIN store /\ Kept[k] = SavedSetting(store[k])
      BY <2>1, <2>4
    <3>2. key'[k] = Restored(key[k], store[k]) /\ ~Conflicts(key[k], store[k])
      BY <1>5, <1>7, <3>1 DEF Restore
    <3>3. store[k] \in Saved /\ key[k] \in KeyState
      BY <1>1, <1>7, <3>1 DEF TypeOK
    <3>4. store[k].debugger = Command => store[k].marker = Command
      BY <1>7, <3>1 DEF IInv, StoreMarked
    <3>5. key[k].debugger = Command => key[k].marker = Command
      BY <2>4 DEF IInv, LaunchCommandWorks
    <3>6. Effective(key[k]) = Asked(NoConfiguration)
      BY <1>4, <2>4
    <3>7. Effective(Restored(key[k], store[k])) = SavedSetting(store[k])
      BY <3>2, <3>3, <3>4, <3>5, <3>6, RestoredIsSaved
    <3> QED
      BY <1>4, <3>1, <3>2, <3>7
  <2>5. Progress' /\ Promised!DisturbAll
    BY CommitSeen
  <2>6. Promised!Restore
    BY <1>2, <1>3, <2>2, <2>3, <2>4, <2>5 DEF Promised!Restore, Conf, Kept, SavedSetting
  <2> QED
    BY <2>5, <2>6 DEF Seen, Promised!Step
<1> QED
  BY <1>6, <1>7

LEMMA SetupStepSeen ==
  ASSUME IInv, IInv', SetupStep
  PROVE  Progress' /\ Seen
<1>1. CASE PreserveAllConfigurations
  BY <1>1, PreserveSeen DEF PreserveAllConfigurations
<1>2. CASE RestoreAllConfigurations
  BY <1>2, RestoreSeen DEF RestoreAllConfigurations
<1>3. CASE StageInstall
  BY <1>3, RestoreSeen DEF StageInstall
<1>4. ASSUME NEW keep \in BOOLEAN, PrepareUninstall(keep) \/ StageUninstall(keep)
      PROVE  Progress' /\ Seen
  BY <1>4, RemoveConfigurationsSeen DEF PrepareUninstall, StageUninstall
<1> QED
  BY <1>1, <1>2, <1>3, <1>4 DEF SetupStep

-----------------------------------------------------------------------------
(* All steps together *)

LEMMA InitSeen ==
  Init => Progress /\ Promised!Init
<1> SUFFICES ASSUME Init PROVE Progress /\ Promised!Init
  OBVIOUS
<1>1. \A t \in Tool : op[t].pc = "idle"
  BY DEF Init, NoCall
<1>2. Progress
  BY <1>1 DEF Progress, Active, Ended
<1>3. \A t \in Tool : Calls[t].pc = "idle"
  BY <1>1, CallsFields, AbstractFields DEF Ended
<1>4. \A k \in Key : Conf[k] = Asked(NoConfiguration)
  <2>1. Empty \in KeyState
    BY ConstantsTyped
  <2>2. Empty.kex = NoValues /\ Empty.marker = Absent /\ Empty.dlls = Absent
    BY DEF Empty
  <2>3. KexDll \notin Listed(Empty.dlls)
    BY <2>2 DEF Listed
  <2>4. Effective(Empty) = Asked(NoConfiguration)
    BY <2>1, <2>2, <2>3, NothingLeft
  <2> QED
    BY <2>4, ConfFields DEF Init
<1>5. Conf = [k \in Key |-> Asked(NoConfiguration)]
  BY <1>4 DEF Conf
<1>6. Kept = NoStore /\ disputed = {}
  BY DEF Init, Kept
<1>7. Promised!Honest
  BY InitIInv, HonestAlways DEF IInv
<1> QED
  BY <1>2, <1>3, <1>5, <1>6, <1>7
     DEF Promised!Init, Conf, Kept, SavedSetting, Calls, Abstract

LEMMA NextSeen ==
  IInv /\ IInv' /\ Progress /\ [Next]_cfgVars => Progress' /\ Seen
<1> SUFFICES ASSUME IInv, IInv', Progress, [Next]_cfgVars PROVE Progress' /\ Seen
  OBVIOUS
<1>1. ASSUME NEW t \in Tool, ToolStep(t)
      PROVE  Progress' /\ Seen
  <2>1. CASE \E k \in Key, c \in Configuration : SetConfiguration(t, k, c)
    BY <2>1, SetConfigurationSeen
  <2>2. CASE \E k \in Key : DeleteConfiguration(t, k)
    BY <2>2, DeleteConfigurationSeen
  <2>3. CASE WritePath(t) \/ ConfigureLauncher(t) \/ Activate(t)
    BY <2>3, WritePathSeen, ConfigureLauncherSeen, ActivateSeen
  <2>4. CASE RemoveDebugger(t) \/ RemoveMarker(t)
    BY <2>4, RemoveDebuggerSeen, RemoveMarkerSeen
  <2>5. CASE WriteDword(t) \/ WriteGlobalFlag(t)
    BY <2>5, WriteDwordSeen, WriteGlobalFlagSeen
  <2>6. CASE WriteVerifierFlags(t) \/ WriteVerifierDlls(t)
    BY <2>6, WriteVerifierFlagsSeen, WriteVerifierDllsSeen
  <2>7. CASE DeleteSetting(t) \/ ReadVerifierDlls(t) \/ RemoveFromList(t)
    BY <2>7, DeleteSettingSeen, ReadVerifierDllsSeen, RemoveFromListSeen
  <2>8. CASE ClearGlobalFlag(t) \/ DeleteVerifierFlags(t) \/ Abort(t)
    BY <2>8, ClearGlobalFlagSeen, DeleteVerifierFlagsSeen, AbortSeen
  <2> QED
    BY <1>1, <2>1, <2>2, <2>3, <2>4, <2>5, <2>6, <2>7, <2>8 DEF ToolStep
<1>2. ASSUME NEW k \in User, OtherStep(k)
      PROVE  Progress' /\ Seen
  BY <1>2, EditVerifierSeen, EditFlagsSeen, EditDebuggerSeen DEF OtherStep, User
<1>3. CASE SetupStep
  BY <1>3, SetupStepSeen
<1>4. CASE UNCHANGED cfgVars
  <2>1. Progress'
    BY <1>4 DEF cfgVars, Progress, Active, Mine
  <2>2. UNCHANGED <<Conf, Kept, Calls, disputed>>
    BY <1>4 DEF cfgVars, Conf, Kept, Calls
  <2> QED
    BY <2>1, <2>2 DEF Seen
<1> QED
  BY <1>1, <1>2, <1>3, <1>4 DEF Next

\* What a call that nobody disturbs has done so far is there, in every
\* reachable state, wherever earlier calls stopped (setcfg.c:192-250,
\* delcfg.c:141-282).  The list that a call which switches us on is about to
\* write has our name, or a name that contains it and that keeps ours out
\* (setcfg.c:181).
THEOREM WorkStays == Spec => []Progress
<1>1. Init => Progress
  BY InitSeen
<1>2. IInv /\ IInv' /\ Progress /\ [Next]_cfgVars => Progress'
  BY NextSeen
<1> QED
  BY <1>1, <1>2, Invariance, PTL DEF Spec

\* A call that succeeds undisturbed leaves in force what it was asked for, from
\* whatever earlier calls left half done (setcfg.c:192-250, delcfg.c:141-282),
\* unless it was to switch us on and another product's name that contains ours
\* kept ours out of the list (setcfg.c:181); a removal takes all settings, and
\* the next installation brings back those that were kept (preserve.c:73-221);
\* and what the tools show is what is in force (getcfg.c:72-123), unless the
\* list is too long to be read or has such a name in the place of ours:
\* KexConfig implements ProgramSettings.
THEOREM SettingsAsPromised == Spec => ImplementsProgramSettings
<1>1. Init => Promised!Init
  BY InitSeen
<1>2. IInv /\ IInv' /\ Progress /\ [Next]_cfgVars => Seen /\ TypeOK'
  BY NextSeen DEF IInv
<1>3. TypeOK' => Promised!Honest'
  BY HonestAlways, PTL
<1>4. Seen /\ Promised!Honest' => Promised!Next
  BY DEF Seen, Promised!Next, Conf, Kept, SavedSetting, Calls, Abstract
<1>5. IInv /\ IInv' /\ Progress /\ [Next]_cfgVars =>
        [Promised!Next]_<<[k \in Key |-> Effective(key[k])],
                          [k \in Key |-> GetConfiguration(key[k])],
                          {k \in Key : Misread(key[k])},
                          IF store = NoStore THEN NoStore
                          ELSE [k \in DOMAIN store |->
                                 [enabled |-> store[k].enabled,
                                  launch |-> store[k].debugger # Absent,
                                  values |-> store[k].kex]],
                          [t \in Tool |->
                            [pc |-> IF op[t].pc \in Ended THEN op[t].pc ELSE "busy",
                             key |-> op[t].key, goal |-> Asked(op[t].config),
                             sure |-> op[t].sure /\ ~Prevented(op[t])]],
                          disputed>>
  BY <1>2, <1>3, <1>4
<1> QED
  BY <1>1, <1>5, Invariance, WorkStays, PTL
     DEF Spec, ImplementsProgramSettings, Promised!Spec
=============================================================================
