---------------------------- MODULE VxlLogProofs ----------------------------
(***************************************************************************)
(* Proofs about VxlLog and VxlView for any number of processes, threads,   *)
(* severities and places: the counters account for the entries, a log in   *)
(* use is marked, what a viewer opens is whole, the log is an AppendLog,   *)
(* and the viewer's rows are the entries that pass its filters.            *)
(***************************************************************************)
EXTENDS VxlView, FiniteSetTheorems, SequenceTheorems, TLAPS

\* The sharing mode: at most one process writes.
OneWriter ==
  \A v, w \in Writer : handle[v].pc # "closed" /\ handle[w].pc # "closed" => v = w

\* A handle for reading sets no length, so it never maps a file it created;
\* a writer builds no index.
StepsOfMode ==
  /\ \A r \in Reader : handle[r].pc \notin {"sized", "mapped_new"}
  /\ \A w \in Writer : handle[w].pc \notin {"queried", "indexed"}

OpenFileExists == \A h \in Handle : handle[h].pc # "closed" => exists

\* A thread writes through a handle that its process has open, and holds the
\* lock of the handle once it has it.
CallsAreOpen ==
  \A t \in Thread : thread[t].pc # "idle" =>
    /\ thread[t].handle \in Writer
    /\ handle[thread[t].handle].pc = "open"

LockHeld ==
  \A t \in Thread : thread[t].pc \notin {"idle", "lock"} => holder[thread[t].handle] = t

SeenIsCurrent ==
  \A t \in Thread : thread[t].pc = "store" =>
    thread[t].seen = header.count[thread[t].place.sev]

\* A file has no entry before its header is written.
FreshIsEmpty ==
  \A w \in Writer : handle[w].pc \in {"created", "sized", "mapped_new"} =>
    entries = <<>> /\ lost = NoCount

CheckedIsMagic == \A w \in Writer : handle[w].pc = "checked" => header.magic

IndexIsInFile ==
  \A h \in Handle :
    /\ handle[h].pc = "queried" => handle[h].eof <= Len(entries)
    /\ handle[h].pc = "indexed" => Total(handle[h].indexed) <= Len(entries)

\* The slots that an index may refer to: those of names, and that of a name
\* that was left out, the first one that is free.
Slots(names) == 1 .. Len(names) + 1

\* An index, in the file or in a call, refers to no slot beyond the first that
\* is free, and in a call its slot holds the name that the call was given.
NamesKept ==
  /\ \A t \in Thread : thread[t].pc = "lock" => thread[t].k = 1
  /\ \A i \in DOMAIN entries, k \in Table : entries[i].index[k] \in Slots(header.table[k])
  /\ \A t \in Thread, k \in Table :
       (thread[t].pc = "lookup" /\ k < thread[t].k) \/ thread[t].pc \in {"read", "store", "write"} =>
         /\ thread[t].index[k] \in Slots(header.table[k])
         /\ SlotName(header.table[k], thread[t].index[k]) = thread[t].place.names[k]

\* The inductive invariant.
IInv ==
  /\ TypeOK
  /\ OneWriter
  /\ StepsOfMode
  /\ OpenFileExists
  /\ CallsAreOpen
  /\ LockHeld
  /\ SeenIsCurrent
  /\ FreshIsEmpty
  /\ CheckedIsMagic
  /\ IndexIsInFile
  /\ NamesKept
  /\ CountersAccount
  /\ DirtyWhileWritten

\* The viewer's handle is one for reading.
ViewReads == "handle" \in DOMAIN view /\ view.handle \in Reader \cup {NoReader}

Writing(s) == {t \in Thread : thread[t].pc = "write" /\ thread[t].place.sev = s}

-----------------------------------------------------------------------------
\* What is counted.
LEMMA CountedIsFinite ==
  ASSUME NEW S \in SUBSET Severity, NEW count \in [Severity -> Nat]
  PROVE  IsFiniteSet(UNION {{s} \X (1 .. count[s]) : s \in S})
<1> DEFINE f == [s \in S |-> {s} \X (1 .. count[s])]
           T == {{s} \X (1 .. count[s]) : s \in S}
<1>1. IsFiniteSet(S)
  BY SeverityAssumption, FS_Subset
<1>2. f \in Surjection(S, T)
  <2>1. f \in [S -> T]
    OBVIOUS
  <2>2. \A x \in T : \E s \in S : f[s] = x
    OBVIOUS
  <2> QED
    BY <2>1, <2>2 DEF Surjection
<1>3. IsFiniteSet(T)
  BY <1>1, <1>2, FS_Surjection
<1>4. ASSUME NEW s \in S PROVE IsFiniteSet({s} \X (1 .. count[s]))
  <2>1. IsFiniteSet({s})
    BY FS_Singleton
  <2>2. IsFiniteSet(1 .. count[s])
    BY FS_Interval
  <2> QED
    BY <2>1, <2>2, FS_Product
<1> QED
  BY <1>3, <1>4, FS_UNION

\* The sum of the counters is a number.
LEMMA CountedIsNat ==
  ASSUME NEW S \in SUBSET Severity, NEW count \in [Severity -> Nat]
  PROVE  Counted(count, S) \in Nat
BY CountedIsFinite, FS_CardinalityType DEF Counted

\* The slot of a name that is in the table holds the name.
LEMMA SlotFacts ==
  ASSUME NEW names \in Seq(Fits), NEW name \in Range(names)
  PROVE  Slot(names, name) \in DOMAIN names /\ names[Slot(names, name)] = name
<1> DEFINE T == {i \in DOMAIN names : names[i] = name}
<1>1. T \subseteq Nat /\ T # {}
  BY DEF Range
<1>2. PICK i \in T : \A j \in T : ~(<<j, i>> \in OpToRel(<, Nat))
  BY <1>1, NatLessThanWellFounded, WFMin
<1>3. \A j \in 1 .. i - 1 : names[j] # name
  <2> SUFFICES ASSUME NEW j \in 1 .. i - 1, names[j] = name PROVE FALSE
    OBVIOUS
  <2>1. j \in T
    OBVIOUS
  <2>2. <<j, i>> \in OpToRel(<, Nat)
    BY <1>1, <2>1 DEF OpToRel
  <2> QED
    BY <1>2, <2>1, <2>2
<1> QED
  BY <1>2, <1>3 DEF Slot

\* The cardinalities that CountersAccount speaks of.
LEMMA CountFacts ==
  ASSUME TypeOK, NEW s \in Severity
  PROVE  /\ \A n \in Nat : IsFiniteSet(Of(s, n)) /\ Cardinality(Of(s, n)) \in Nat
         /\ IsFiniteSet(Writing(s)) /\ Cardinality(Writing(s)) \in Nat
         /\ Len(entries) \in Nat
<1>1. ASSUME NEW n \in Nat PROVE IsFiniteSet(Of(s, n)) /\ Cardinality(Of(s, n)) \in Nat
  <2>1. IsFiniteSet(1 .. n)
    BY FS_Interval
  <2> QED
    BY <2>1, FS_Subset, FS_CardinalityType DEF Of
<1>2. IsFiniteSet(Writing(s)) /\ Cardinality(Writing(s)) \in Nat
  BY ThreadAssumption, FS_Subset, FS_CardinalityType DEF Writing
<1> QED
  BY <1>1, <1>2 DEF TypeOK

-----------------------------------------------------------------------------
(* Types *)

LEMMA ConstantsTyped ==
  /\ NoCount \in [Severity -> Nat]
  /\ Closed \in HandleState
  /\ NotWriting \in ThreadState
  /\ ZeroHeader \in HeaderState
<1>1. NoCount \in [Severity -> Nat]
  BY DEF NoCount
<1>2. Closed \in HandleState
  BY <1>1 DEF Closed, HandleState, OpenStep
<1>3. (CHOOSE p \in Place : TRUE) \in Place
  BY NameAssumption
<1>4. NotWriting \in ThreadState
  BY <1>3 DEF NotWriting, ThreadState, Table
<1>5. ZeroHeader \in HeaderState
  <2>1. <<>> \in Seq(Fits)
    OBVIOUS
  <2> QED
    BY <1>1, <2>1 DEF ZeroHeader, HeaderState
<1> QED
  BY <1>1, <1>2, <1>4, <1>5

LEMMA StepTyped ==
  ASSUME handle \in [Handle -> HandleState], NEW h \in Handle, NEW pc \in OpenStep, Step(h, pc)
  PROVE  handle' \in [Handle -> HandleState]
BY DEF Step, HandleState

LEMMA CloseLogTyped ==
  ASSUME TypeOK, NEW h \in Handle, CloseLog(h)
  PROVE  handle' \in [Handle -> HandleState] /\ header' \in HeaderState
<1>1. handle' \in [Handle -> HandleState]
  BY ConstantsTyped DEF TypeOK, CloseLog
<1>2. [header EXCEPT !.dirty = FALSE] \in HeaderState
  BY DEF TypeOK, HeaderState
<1> QED
  BY <1>1, <1>2 DEF TypeOK, CloseLog

LEMMA OpenLogTyped ==
  ASSUME TypeOK, NEW h \in Handle, OpenLog(h)
  PROVE  TypeOK'
<1> USE DEF Unwritten
<1>1. ASSUME NEW d \in Disposition, NEW app \in App \cup {NoApp}, OpenFile(h, d, app)
      PROVE  TypeOK'
  <2>1. handle' \in [Handle -> HandleState]
    <3>1. [Closed EXCEPT !.pc = "opened", !.app = app] \in HandleState
      BY ConstantsTyped DEF HandleState, OpenStep
    <3>2. [Closed EXCEPT !.pc = "created", !.app = app] \in HandleState
      BY ConstantsTyped DEF HandleState, OpenStep
    <3> QED
      BY <1>1, <3>1, <3>2 DEF OpenFile, TypeOK
  <2>2. header' \in HeaderState /\ lost' \in [Severity -> Nat]
    BY <1>1, ConstantsTyped DEF OpenFile, NewFile, TypeOK
  <2>3. entries' \in Seq(Entry)
    <3>1. <<>> \in Seq(Entry)
      OBVIOUS
    <3>2. entries' = entries \/ entries' = <<>>
      BY <1>1 DEF OpenFile, NewFile
    <3> QED
      BY <3>1, <3>2 DEF TypeOK
  <2>4. exists' \in BOOLEAN /\ sized' \in BOOLEAN
    BY <1>1 DEF OpenFile, NewFile, TypeOK
  <2> QED
    BY <1>1, <2>1, <2>2, <2>3, <2>4 DEF OpenFile, TypeOK
<1>2. CASE SetLength(h)
  <2>1. handle' \in [Handle -> HandleState] /\ header' \in HeaderState
    BY <1>2, StepTyped, CloseLogTyped DEF SetLength, TypeOK, OpenStep
  <2> QED
    BY <1>2, <2>1 DEF SetLength, TypeOK
<1>3. CASE MapFile(h)
  <2>1. handle' \in [Handle -> HandleState] /\ header' \in HeaderState
    <3>1. Len(entries) \in Nat
      BY DEF TypeOK
    <3>2. CASE sized
      <4> DEFINE pc == IF handle[h].pc = "sized" THEN "mapped_new" ELSE "mapped"
      <4>1. [handle[h] EXCEPT !.pc = pc, !.mapped = Len(entries)] \in HandleState
        <5>1. handle[h] \in HandleState
          BY DEF TypeOK
        <5>2. pc \in OpenStep
          BY DEF OpenStep
        <5> QED
          BY <3>1, <5>1, <5>2 DEF HandleState
      <4>2. handle' = [handle EXCEPT ![h] = [handle[h] EXCEPT !.pc = pc, !.mapped = Len(entries)]]
        BY <1>3, <3>2 DEF MapFile
      <4> QED
        BY <1>3, <3>2, <4>1, <4>2 DEF MapFile, TypeOK
    <3> QED
      BY <1>3, <3>2, CloseLogTyped DEF MapFile
  <2> QED
    BY <1>3, <2>1 DEF MapFile, TypeOK
<1>4. CASE InitHeader(h)
  <2>1. handle' \in [Handle -> HandleState] /\ header' \in HeaderState
    <3>1. CASE handle[h].app = NoApp
      BY <1>4, <3>1, CloseLogTyped DEF InitHeader
    <3>2. CASE handle[h].app # NoApp
      <4>1. handle[h].app \in App \cup {NoApp}
        BY DEF TypeOK, HandleState
      <4>2. header' \in HeaderState
        BY <1>4, <3>2, <4>1, ConstantsTyped DEF InitHeader, HeaderState
      <4> QED
        BY <1>4, <3>2, <4>2, StepTyped DEF InitHeader, TypeOK, OpenStep
    <3> QED
      BY <3>1, <3>2
  <2> QED
    BY <1>4, <2>1 DEF InitHeader, TypeOK
<1>5. CASE CheckHeader(h)
  <2>1. handle' \in [Handle -> HandleState] /\ header' \in HeaderState
    BY <1>5, StepTyped, CloseLogTyped DEF CheckHeader, TypeOK, OpenStep
  <2> QED
    BY <1>5, <2>1 DEF CheckHeader, TypeOK
<1>6. CASE MarkDirty(h)
  <2>1. handle' \in [Handle -> HandleState]
    BY <1>6, StepTyped DEF MarkDirty, TypeOK, OpenStep
  <2>2. header' \in HeaderState
    BY <1>6 DEF MarkDirty, TypeOK, HeaderState
  <2> QED
    BY <1>6, <2>1, <2>2 DEF MarkDirty, TypeOK
<1>7. CASE QueryFile(h)
  <2>1. handle' \in [Handle -> HandleState]
    <3>1. Len(entries) \in Nat
      BY DEF TypeOK
    <3>2. handle[h] \in HandleState
      BY DEF TypeOK
    <3>3. [handle[h] EXCEPT !.pc = "queried", !.eof = Len(entries)] \in HandleState
      BY <3>1, <3>2 DEF HandleState, OpenStep
    <3> QED
      BY <1>7, <3>3 DEF QueryFile, TypeOK
  <2> QED
    BY <1>7, <2>1 DEF QueryFile, TypeOK
<1>8. CASE FillIndex(h)
  <2>1. handle' \in [Handle -> HandleState] /\ header' \in HeaderState
    <3>1. CASE CloseLog(h)
      BY <3>1, CloseLogTyped
    <3>2. CASE /\ handle' = [handle EXCEPT ![h].pc = "indexed", ![h].indexed = header.count]
               /\ UNCHANGED header
      <4>1. header.count \in [Severity -> Nat] /\ handle[h] \in HandleState
        BY DEF TypeOK, HeaderState
      <4>2. [handle[h] EXCEPT !.pc = "indexed", !.indexed = header.count] \in HandleState
        BY <4>1 DEF HandleState, OpenStep
      <4>3. handle' = [handle EXCEPT
              ![h] = [handle[h] EXCEPT !.pc = "indexed", !.indexed = header.count]]
        BY <3>2
      <4> QED
        BY <3>2, <4>2, <4>3 DEF TypeOK
    <3> QED
      BY <1>8, <3>1, <3>2 DEF FillIndex
  <2> QED
    BY <1>8, <2>1 DEF FillIndex, TypeOK
<1>9. CASE CompareCounts(h)
  <2>1. handle' \in [Handle -> HandleState] /\ header' \in HeaderState
    BY <1>9, StepTyped, CloseLogTyped DEF CompareCounts, TypeOK, OpenStep
  <2> QED
    BY <1>9, <2>1 DEF CompareCounts, TypeOK
<1>10. CASE OpenFails(h)
  <2>1. handle' \in [Handle -> HandleState] /\ header' \in HeaderState
    BY <1>10, CloseLogTyped DEF OpenFails
  <2> QED
    BY <1>10, <2>1, InputAssumption DEF OpenFails, Fault, TypeOK
<1> QED
  BY <1>1, <1>2, <1>3, <1>4, <1>5, <1>6, <1>7, <1>8, <1>9, <1>10 DEF OpenLog

LEMMA KilledTyped ==
  ASSUME TypeOK, NEW h \in Handle, Killed(h)
  PROVE  /\ thread' \in [Thread -> ThreadState]
         /\ holder' \in [Handle -> Thread \cup {NoThread}]
         /\ lost' \in [Severity -> Nat]
<1> DEFINE n(s) == Cardinality({t \in Using(h) : thread[t].pc = "write" /\ thread[t].place.sev = s})
<1>1. \A s \in Severity : n(s) \in Nat
  BY ThreadAssumption, FS_Subset, FS_CardinalityType DEF Using
<1>2. lost' \in [Severity -> Nat]
  <2>1. lost' = [s \in Severity |-> lost[s] + n(s)]
    BY DEF Killed
  <2> HIDE DEF n
  <2> QED
    BY <1>1, <2>1 DEF TypeOK
<1>3. thread' \in [Thread -> ThreadState]
  <2>1. \A t \in Thread : thread[t] \in ThreadState
    BY DEF TypeOK
  <2>2. thread' = [t \in Thread |-> IF t \in Using(h) THEN NotWriting ELSE thread[t]]
    BY DEF Killed
  <2>3. NotWriting \in ThreadState
    BY ConstantsTyped
  <2> HIDE DEF NotWriting, ThreadState, Using
  <2> QED
    BY <2>1, <2>2, <2>3
<1>4. holder' \in [Handle -> Thread \cup {NoThread}]
  BY DEF Killed, TypeOK
<1> QED
  BY <1>2, <1>3, <1>4

LEMMA EndTyped ==
  ASSUME TypeOK, NEW h \in Handle, Exit(h) \/ Crash(h)
  PROVE  TypeOK'
<1>1. CASE Exit(h)
  BY <1>1, KilledTyped, CloseLogTyped DEF Exit, TypeOK
<1>2. CASE Crash(h)
  <2>1. handle' \in [Handle -> HandleState]
    BY <1>2, ConstantsTyped DEF Crash, TypeOK
  <2> QED
    BY <1>2, <2>1, KilledTyped, InputAssumption DEF Crash, Fault, TypeOK
<1> QED
  BY <1>1, <1>2

LEMMA WriteTyped ==
  ASSUME TypeOK, NEW t \in Thread, WriteStep(t)
  PROVE  TypeOK'
<1> USE DEF Opened
<1>0. /\ thread[t] \in ThreadState
      /\ thread[t].place.sev \in Severity
      /\ thread[t].k \in Table
      /\ thread[t].place.names \in [Table -> Name \cup {NoName}]
  BY NameAssumption DEF TypeOK, ThreadState
<1>1. ASSUME NEW h \in Writer, NEW place \in Place, WriteLog(t, h, place) PROVE TypeOK'
  <2>1. thread' \in [Thread -> ThreadState]
    <3>1. [NotWriting EXCEPT !.pc = "lock", !.handle = h, !.place = place] \in ThreadState
      BY ConstantsTyped DEF ThreadState
    <3> QED
      BY <1>1, <3>1 DEF WriteLog, TypeOK
  <2> QED
    BY <1>1, <2>1, InputAssumption DEF WriteLog, TypeOK
<1>2. CASE AcquireLock(t)
  <2>1. thread' \in [Thread -> ThreadState]
    <3>1. [thread[t] EXCEPT !.pc = "lookup"] \in ThreadState
      BY <1>0 DEF ThreadState
    <3>2. thread' = [thread EXCEPT ![t] = [thread[t] EXCEPT !.pc = "lookup"]]
      BY <1>2 DEF AcquireLock
    <3> QED
      BY <3>1, <3>2 DEF TypeOK
  <2>2. holder' \in [Handle -> Thread \cup {NoThread}]
    BY <1>2 DEF AcquireLock, TypeOK
  <2> QED
    BY <1>2, <2>1, <2>2 DEF AcquireLock, TypeOK
<1>3. CASE FindOrCreateIndex(t)
  <2> DEFINE k == thread[t].k
             name == thread[t].place.names[k]
             names == header.table[k]
  <2>1. names \in Seq(Fits) /\ name \in Name \cup {NoName} /\ k \in Table
    BY <1>0 DEF TypeOK, HeaderState
  <2>2. ASSUME NEW i \in Nat, Found(t, i) PROVE thread' \in [Thread -> ThreadState]
    BY <2>2, <1>0 DEF Found, TypeOK, ThreadState, Table
  <2>3. ASSUME Finish(t)
        PROVE  thread' \in [Thread -> ThreadState] /\ holder' \in [Handle -> Thread \cup {NoThread}]
    BY <2>3, ConstantsTyped DEF Finish, TypeOK
  <2>4. CASE name \in Range(names) /\ Found(t, Slot(names, name)) /\ UNCHANGED <<header, holder>>
    <3>1. Slot(names, name) \in Nat
      BY <2>1, <2>4, SlotFacts
    <3> QED
      BY <1>3, <2>2, <2>4, <3>1 DEF FindOrCreateIndex, TypeOK
  <2>5. CASE /\ name # NoName
             /\ header' = [header EXCEPT !.table[k] = Append(names, Copied(name))]
             /\ IF CopyFails(name) THEN Finish(t)
                ELSE Found(t, Len(names) + 1) /\ UNCHANGED holder
    <3>1. Copied(name) \in Fits
      BY <2>1, <2>5, NameAssumption DEF Copied
    <3>2. Append(names, Copied(name)) \in Seq(Fits) /\ Len(names) + 1 \in Nat
      BY <2>1, <3>1
    <3>3. header' \in HeaderState
      BY <2>1, <2>5, <3>2 DEF TypeOK, HeaderState
    <3>4. thread' \in [Thread -> ThreadState] /\ holder' \in [Handle -> Thread \cup {NoThread}]
      BY <2>2, <2>3, <2>5, <3>2 DEF TypeOK
    <3> QED
      BY <1>3, <3>3, <3>4 DEF FindOrCreateIndex, TypeOK
  <2>6. CASE Finish(t) /\ UNCHANGED header
    BY <1>3, <2>3, <2>6 DEF FindOrCreateIndex, TypeOK
  <2>7. CASE Found(t, Len(names) + 1) /\ UNCHANGED <<header, holder>>
    <3>1. Len(names) + 1 \in Nat
      BY <2>1
    <3> QED
      BY <1>3, <2>2, <2>7, <3>1 DEF FindOrCreateIndex, TypeOK
  <2> QED
    BY <1>3, <2>4, <2>5, <2>6, <2>7 DEF FindOrCreateIndex
<1>4. CASE ReadCount(t)
  <2>1. header.count[thread[t].place.sev] \in Nat
    BY <1>0 DEF TypeOK, HeaderState
  <2>2. thread' \in [Thread -> ThreadState]
    <3> DEFINE n == header.count[thread[t].place.sev]
    <3>1. thread' = [thread EXCEPT ![t] = [thread[t] EXCEPT !.pc = "store", !.seen = n]]
      BY <1>4 DEF ReadCount
    <3> HIDE DEF n
    <3>2. [thread[t] EXCEPT !.pc = "store", !.seen = n] \in ThreadState
      BY <1>0, <2>1 DEF ThreadState, n
    <3> QED
      BY <3>1, <3>2 DEF TypeOK
  <2> QED
    BY <1>4, <2>2 DEF ReadCount, TypeOK
<1>5. CASE StoreCount(t)
  <2>1. thread[t].seen + 1 \in Nat
    BY <1>0 DEF ThreadState
  <2>2. header' \in HeaderState
    BY <1>0, <1>5, <2>1 DEF StoreCount, TypeOK, HeaderState
  <2>3. thread' \in [Thread -> ThreadState]
    <3>1. thread' = [thread EXCEPT ![t] = [thread[t] EXCEPT !.pc = "write"]]
      BY <1>5 DEF StoreCount
    <3>2. [thread[t] EXCEPT !.pc = "write"] \in ThreadState
      BY <1>0 DEF ThreadState
    <3> QED
      BY <3>1, <3>2 DEF TypeOK
  <2> QED
    BY <1>5, <2>2, <2>3 DEF StoreCount, TypeOK
<1>6. CASE WriteEntry(t)
  <2>1. thread' \in [Thread -> ThreadState] /\ holder' \in [Handle -> Thread \cup {NoThread}]
    BY <1>6, ConstantsTyped DEF WriteEntry, Finish, TypeOK
  <2>2. [sev |-> thread[t].place.sev, index |-> thread[t].index] \in Entry
    BY <1>0 DEF ThreadState, Entry
  <2>3. entries' \in Seq(Entry)
    <3>1. entries \in Seq(Entry)
      BY DEF TypeOK
    <3>2. Append(entries, [sev |-> thread[t].place.sev, index |-> thread[t].index]) \in Seq(Entry)
      BY <2>2, <3>1
    <3> QED
      BY <1>6, <3>1, <3>2 DEF WriteEntry
  <2>4. lost' \in [Severity -> Nat]
    BY <1>0, <1>6 DEF WriteEntry, TypeOK
  <2>5. faults' \in Nat
    BY <1>6, InputAssumption DEF WriteEntry, Fault, TypeOK
  <2> QED
    BY <1>6, <2>1, <2>3, <2>4, <2>5 DEF WriteEntry, TypeOK
<1> QED
  BY <1>1, <1>2, <1>3, <1>4, <1>5, <1>6 DEF WriteStep

-----------------------------------------------------------------------------
(* One handle moves, the log stays *)

\* No thread is in a call through a handle that is not open, or for reading.
LEMMA NobodyUses ==
  ASSUME IInv, NEW h \in Handle, h \in Reader \/ handle[h].pc # "open",
         NEW t \in Thread, thread[t].pc # "idle"
  PROVE  thread[t].handle # h
BY HandleAssumption DEF IInv, CallsAreOpen

\* The lock is held by one thread, and one process writes.
LEMMA OneInside ==
  ASSUME IInv, NEW t \in Thread, NEW u \in Thread,
         thread[t].pc \notin {"idle", "lock"}, thread[u].pc \notin {"idle", "lock"}
  PROVE  t = u
<1>1. /\ thread[t].handle \in Writer /\ handle[thread[t].handle].pc = "open"
      /\ thread[u].handle \in Writer /\ handle[thread[u].handle].pc = "open"
  BY DEF IInv, CallsAreOpen
<1>2. thread[t].handle = thread[u].handle
  BY <1>1 DEF IInv, OneWriter
<1> QED
  BY <1>2 DEF IInv, LockHeld

\* What a step may do to handle h that leaves the log and the calls alone.
Moves(h) ==
  /\ \A g \in Handle \ {h} : handle'[g] = handle[g]
  /\ handle'[h].pc # "closed" => handle[h].pc # "closed"
  /\ h \in Reader \/ handle[h].pc # "open"
  /\ h \in Reader => header' = header /\ handle'[h].pc \notin {"sized", "mapped_new"}
  /\ h \in Writer =>
       /\ handle[h].pc # "closed" /\ handle'[h].pc \notin {"queried", "indexed"}
       /\ handle'[h].pc \in {"created", "sized", "mapped_new"} =>
            handle[h].pc \in {"created", "sized", "mapped_new"}
       /\ handle'[h].pc = "checked" => header'.magic
       /\ handle'[h].pc = "open" => header'.magic /\ header'.dirty
  /\ handle'[h].pc = "queried" => handle'[h].eof <= Len(entries)
  /\ handle'[h].pc = "indexed" => Total(handle'[h].indexed) <= Len(entries)

LEMMA MoveKeeps ==
  ASSUME IInv, NEW h \in Handle, Moves(h), TypeOK',
         UNCHANGED <<exists, entries, thread, holder, lost>>
  PROVE  /\ OneWriter' /\ StepsOfMode' /\ OpenFileExists'
         /\ CallsAreOpen' /\ LockHeld' /\ FreshIsEmpty'
         /\ CheckedIsMagic' /\ IndexIsInFile' /\ DirtyWhileWritten'
<1>1. OneWriter'
  BY DEF IInv, OneWriter, Moves, Handle
<1>2. StepsOfMode'
  BY DEF IInv, StepsOfMode, Moves, Handle
<1>3. OpenFileExists'
  BY DEF IInv, OpenFileExists, Moves
<1>4. CallsAreOpen'
  BY NobodyUses DEF IInv, CallsAreOpen, Moves, Handle
<1>5. LockHeld'
  BY DEF IInv, LockHeld
<1>6. FreshIsEmpty'
  BY HandleAssumption DEF IInv, FreshIsEmpty, Moves, Handle
<1>7. ASSUME NEW w \in Writer, w # h, handle'[w].pc # "closed" PROVE header' = header
  <2>1. handle[w].pc # "closed"
    BY <1>7 DEF Moves, Handle
  <2>2. CASE h \in Reader
    BY <2>2 DEF Moves
  <2>3. CASE h \in Writer
    <3>1. handle[h].pc # "closed"
      BY <2>3 DEF Moves
    <3> QED
      BY <1>7, <2>1, <2>3, <3>1 DEF IInv, OneWriter
  <2> QED
    BY <2>2, <2>3 DEF Handle
<1>8. CheckedIsMagic'
  BY <1>7, HandleAssumption DEF IInv, CheckedIsMagic, Moves, Handle
<1>9. IndexIsInFile'
  BY DEF IInv, IndexIsInFile, Moves
<1>10. DirtyWhileWritten'
  BY <1>7, HandleAssumption DEF IInv, DirtyWhileWritten, Moves, Handle
<1> QED
  BY <1>1, <1>2, <1>3, <1>4, <1>5, <1>6, <1>8, <1>9, <1>10

\* The counters and the tables stay with the calls and the entries.
LEMMA LogKept ==
  ASSUME IInv, UNCHANGED <<entries, thread, lost>>,
         header'.count = header.count, header'.table = header.table
  PROVE  SeenIsCurrent' /\ NamesKept' /\ CountersAccount'
<1>1. SeenIsCurrent'
  BY DEF IInv, SeenIsCurrent
<1>2. NamesKept'
  BY DEF IInv, NamesKept, Slots, SlotName
<1>3. CountersAccount'
  BY DEF IInv, CountersAccount, Of
<1> QED
  BY <1>1, <1>2, <1>3

\* A log starts: nothing counted, nothing written, nobody writing.
LEMMA LogStarts ==
  ASSUME \A t \in Thread : thread[t].pc = "idle",
         UNCHANGED thread, entries' = <<>>, lost' = NoCount, header'.count = NoCount
  PROVE  SeenIsCurrent' /\ NamesKept' /\ CountersAccount'
<1>1. SeenIsCurrent'
  BY DEF SeenIsCurrent
<1>2. NamesKept'
  BY DEF NamesKept
<1>3. CountersAccount'
  <2> SUFFICES ASSUME NEW s \in Severity
               PROVE  header'.count[s] = Cardinality(Of(s, Len(entries))') + lost'[s] +
                        Cardinality({t \in Thread : thread'[t].pc = "write" /\ thread'[t].place.sev = s})
    BY DEF CountersAccount
  <2>1. Of(s, Len(entries))' = {}
    BY DEF Of
  <2>2. {t \in Thread : thread'[t].pc = "write" /\ thread'[t].place.sev = s} = {}
    OBVIOUS
  <2>3. Cardinality({}) = 0
    BY FS_EmptySet
  <2>4. header'.count[s] = 0 /\ lost'[s] = 0
    BY DEF NoCount
  <2>5. Cardinality(Of(s, Len(entries))') = 0
    BY <2>1, <2>3
  <2>6. Cardinality({t \in Thread : thread'[t].pc = "write" /\ thread'[t].place.sev = s}) = 0
    BY <2>2, <2>3
  <2> QED
    BY <2>4, <2>5, <2>6
<1> QED
  BY <1>1, <1>2, <1>3

\* A handle that is closed moves as Moves says.
LEMMA CloseMoves ==
  ASSUME TypeOK, NEW h \in Handle, handle[h].pc \notin {"closed", "open"}, CloseLog(h)
  PROVE  Moves(h) /\ header'.count = header.count /\ header'.table = header.table
<1>1. handle'[h] = Closed /\ \A g \in Handle \ {h} : handle'[g] = handle[g]
  BY DEF TypeOK, CloseLog
<1>2. handle'[h].pc = "closed"
  BY <1>1 DEF Closed
<1>3. h \in Reader => header' = header
  BY HandleAssumption DEF CloseLog
<1>4. header'.count = header.count /\ header'.table = header.table
  BY DEF CloseLog, TypeOK, HeaderState
<1> QED
  BY <1>1, <1>2, <1>3, <1>4 DEF Moves

\* ... and so is one that takes a step and touches no header.
LEMMA StepMoves ==
  ASSUME TypeOK, NEW h \in Handle, handle[h].pc \notin {"closed", "open"},
         NEW pc \in OpenStep, Step(h, pc), UNCHANGED header,
         pc \notin {"queried", "indexed"},
         h \in Reader => pc \notin {"sized", "mapped_new"},
         h \in Writer =>
           /\ pc # "open"
           /\ pc \in {"created", "sized", "mapped_new"} =>
                handle[h].pc \in {"created", "sized", "mapped_new"}
           /\ pc = "checked" => header.magic
  PROVE  Moves(h) /\ header'.count = header.count /\ header'.table = header.table
<1>1. handle'[h].pc = pc
  BY DEF Step, TypeOK, HandleState
<1>2. \A g \in Handle \ {h} : handle'[g] = handle[g]
  BY DEF Step, TypeOK
<1> QED
  BY <1>1, <1>2 DEF Moves

Kept ==
  /\ OneWriter' /\ StepsOfMode' /\ OpenFileExists'
  /\ CallsAreOpen' /\ LockHeld' /\ SeenIsCurrent'
  /\ FreshIsEmpty' /\ CheckedIsMagic' /\ IndexIsInFile'
  /\ NamesKept' /\ CountersAccount' /\ DirtyWhileWritten'

\* The file is opened, and perhaps emptied: then nobody was writing.
LEMMA OpenFileKeeps ==
  ASSUME IInv, NEW h \in Handle, NEW d \in Disposition, NEW app \in App \cup {NoApp},
         OpenFile(h, d, app), TypeOK'
  PROVE  Kept
<1>1. /\ \A g \in Handle \ {h} : handle'[g] = handle[g]
      /\ handle[h].pc = "closed"
      /\ handle'[h].pc \in {"opened", "created"}
      /\ h \in Writer => \A w \in Writer \ {h} : handle[w].pc = "closed"
      /\ UNCHANGED <<thread, holder>>
      /\ exists'
  <2>1. /\ handle \in [Handle -> HandleState]
        /\ \/ handle' = [handle EXCEPT ![h] = [Closed EXCEPT !.pc = "opened", !.app = app]] /\ exists' = exists /\ exists
           \/ handle' = [handle EXCEPT ![h] = [Closed EXCEPT !.pc = "created", !.app = app]] /\ exists' = TRUE
    BY DEF OpenFile, NewFile, IInv, TypeOK
  <2>2. handle'[h].pc \in {"opened", "created"} /\ \A g \in Handle \ {h} : handle'[g] = handle[g]
    BY <2>1 DEF Closed
  <2> QED
    BY <2>1, <2>2 DEF OpenFile, SharingViolation
<1>2. CASE NewFile(d)
  <2>1. \A g \in Handle : handle[g].pc # "open"
    BY <1>2 DEF NewFile, Mapped, IInv, OpenFileExists
  <2>2. \A t \in Thread : thread[t].pc = "idle"
    BY <2>1 DEF IInv, CallsAreOpen, Handle
  <2>3. \A g \in Handle : handle[g].pc \notin {"checked", "queried", "indexed"}
    BY <1>2 DEF NewFile, Mapped, IInv, OpenFileExists
  <2>4. SeenIsCurrent' /\ NamesKept' /\ CountersAccount'
    BY <1>1, <1>2, <2>2, LogStarts DEF NewFile, ZeroHeader
  <2>5. OneWriter'
    BY <1>1 DEF IInv, OneWriter, Handle
  <2>6. StepsOfMode'
    BY <1>1 DEF IInv, StepsOfMode, Handle
  <2>7. OpenFileExists'
    BY <1>1 DEF OpenFileExists
  <2>8. CallsAreOpen' /\ LockHeld'
    BY <1>1, <2>2 DEF CallsAreOpen, LockHeld
  <2>9. FreshIsEmpty'
    BY <1>2 DEF FreshIsEmpty, NewFile
  <2>10. CheckedIsMagic'
    BY <1>1, <2>3 DEF CheckedIsMagic, Handle
  <2>11. IndexIsInFile'
    BY <1>1, <2>3 DEF IndexIsInFile, Handle
  <2>12. DirtyWhileWritten'
    BY <1>1, <2>1 DEF DirtyWhileWritten, Handle
  <2> QED
    BY <2>4, <2>5, <2>6, <2>7, <2>8, <2>9, <2>10, <2>11, <2>12 DEF Kept
<1>3. CASE /\ UNCHANGED <<exists, sized, header, entries, lost>> /\ exists
           /\ handle' = [handle EXCEPT ![h] = [Closed EXCEPT !.pc = "opened", !.app = app]]
  <2>0. handle'[h].pc = "opened"
    BY <1>3 DEF IInv, TypeOK, Closed
  <2>1. SeenIsCurrent' /\ NamesKept' /\ CountersAccount'
    BY <1>1, <1>3, LogKept
  <2>2. OneWriter'
    BY <1>1 DEF IInv, OneWriter, Handle
  <2>3. StepsOfMode'
    BY <1>1 DEF IInv, StepsOfMode, Handle
  <2>4. OpenFileExists'
    BY <1>1 DEF OpenFileExists
  <2>5. CallsAreOpen'
    BY <1>1, NobodyUses DEF IInv, CallsAreOpen, Handle
  <2>6. LockHeld'
    BY <1>1 DEF IInv, LockHeld
  <2>7. FreshIsEmpty'
    BY <1>1, <1>3, <2>0 DEF IInv, FreshIsEmpty, Handle
  <2>8. CheckedIsMagic' /\ DirtyWhileWritten'
    BY <1>1, <1>3, <2>0 DEF IInv, CheckedIsMagic, DirtyWhileWritten, Handle
  <2>9. IndexIsInFile'
    BY <1>1, <1>3, <2>0 DEF IInv, IndexIsInFile
  <2> QED
    BY <2>1, <2>2, <2>3, <2>4, <2>5, <2>6, <2>7, <2>8, <2>9 DEF Kept
<1> QED
  BY <1>2, <1>3 DEF OpenFile

LEMMA OpenLogKeeps ==
  ASSUME IInv, NEW h \in Handle, OpenLog(h), TypeOK'
  PROVE  Kept
<1> USE DEF Unwritten
<1>0. ASSUME Moves(h), header'.count = header.count, header'.table = header.table,
             UNCHANGED <<exists, entries, thread, holder, lost>>
      PROVE  Kept
  BY <1>0, MoveKeeps, LogKept DEF Kept
<1>1. ASSUME NEW d \in Disposition, NEW app \in App \cup {NoApp}, OpenFile(h, d, app)
      PROVE  Kept
  BY <1>1, OpenFileKeeps
<1>2. CASE SetLength(h)
  <2>1. CASE h \in Writer
    BY <1>0, <1>2, <2>1, StepMoves, HandleAssumption DEF SetLength, IInv, OpenStep
  <2>2. CASE h \notin Writer
    BY <1>0, <1>2, <2>2, CloseMoves DEF SetLength, IInv
  <2> QED
    BY <2>1, <2>2
<1>3. CASE MapFile(h)
  <2>1. CASE sized
    <3> DEFINE pc == IF handle[h].pc = "sized" THEN "mapped_new" ELSE "mapped"
    <3>1. handle[h].pc \in {"sized", "opened"} /\ header' = header
          /\ handle' = [handle EXCEPT ![h].pc = pc, ![h].mapped = Len(entries)]
      BY <1>3, <2>1 DEF MapFile
    <3>2. handle'[h].pc = pc /\ \A g \in Handle \ {h} : handle'[g] = handle[g]
      <4>1. handle' = [handle EXCEPT
              ![h] = [handle[h] EXCEPT !.pc = pc, !.mapped = Len(entries)]]
        BY <3>1
      <4>2. handle \in [Handle -> HandleState] /\ handle[h] \in HandleState
        BY DEF IInv, TypeOK
      <4>3. [handle[h] EXCEPT !.pc = pc, !.mapped = Len(entries)].pc = pc
        BY <4>2 DEF HandleState
      <4> QED
        BY <4>1, <4>2, <4>3
    <3>3. h \in Reader => handle[h].pc # "sized"
      BY DEF IInv, StepsOfMode
    <3>4. /\ header' = header /\ handle[h].pc \in {"sized", "opened"}
          /\ \/ handle[h].pc = "sized" /\ handle'[h].pc = "mapped_new"
             \/ handle'[h].pc = "mapped"
      BY <3>1, <3>2
    <3>5. \A g \in Handle \ {h} : handle'[g] = handle[g]
      BY <3>2
    <3>6. Moves(h)
      BY <3>3, <3>4, <3>5 DEF Moves
    <3> QED
      BY <1>0, <1>3, <3>1, <3>6 DEF MapFile
  <2>2. CASE ~sized
    BY <1>0, <1>3, <2>2, CloseMoves DEF MapFile, IInv
  <2> QED
    BY <2>1, <2>2
<1>4. CASE InitHeader(h)
  <2>1. CASE handle[h].app = NoApp
    BY <1>0, <1>4, <2>1, CloseMoves DEF InitHeader, IInv
  <2>2. CASE handle[h].app # NoApp
    <3>1. /\ handle[h].pc = "mapped_new" /\ Step(h, "checked")
          /\ header' = [ZeroHeader EXCEPT !.magic = TRUE, !.app = handle[h].app]
          /\ UNCHANGED <<exists, entries, thread, holder, lost>>
      BY <1>4, <2>2 DEF InitHeader
    <3>2. h \in Writer
      BY <3>1 DEF IInv, StepsOfMode, Handle
    <3>3. header'.magic /\ header'.count = NoCount
      BY <3>1 DEF ZeroHeader
    <3>4. handle'[h].pc = "checked" /\ \A g \in Handle \ {h} : handle'[g] = handle[g]
      BY <3>1 DEF Step, IInv, TypeOK, HandleState
    <3>5. Moves(h)
      BY <3>1, <3>2, <3>3, <3>4, HandleAssumption DEF Moves
    <3>6. entries = <<>> /\ lost = NoCount
      BY <3>1, <3>2 DEF IInv, FreshIsEmpty
    <3>7. \A t \in Thread : thread[t].pc = "idle"
      BY <3>1, <3>2 DEF IInv, CallsAreOpen, OneWriter
    <3>8. SeenIsCurrent' /\ NamesKept' /\ CountersAccount'
      BY <3>1, <3>3, <3>6, <3>7, LogStarts
    <3> QED
      BY <3>1, <3>5, <3>8, MoveKeeps DEF Kept
  <2> QED
    BY <2>1, <2>2
<1>5. CASE CheckHeader(h)
  <2>1. CASE CloseLog(h)
    BY <1>0, <1>5, <2>1, CloseMoves DEF CheckHeader, IInv
  <2>2. CASE header.magic /\ Step(h, "checked") /\ UNCHANGED header
    BY <1>0, <1>5, <2>2, StepMoves DEF CheckHeader, IInv, OpenStep
  <2> QED
    BY <1>5, <2>1, <2>2 DEF CheckHeader
<1>6. CASE MarkDirty(h)
  <2>1. header'.dirty /\ header'.magic = header.magic
        /\ header'.count = header.count /\ header'.table = header.table
    BY <1>6 DEF MarkDirty, IInv, TypeOK, HeaderState
  <2>2. header.magic
    BY <1>6 DEF MarkDirty, IInv, CheckedIsMagic
  <2>3. handle'[h].pc = "open" /\ \A g \in Handle \ {h} : handle'[g] = handle[g]
    BY <1>6 DEF MarkDirty, Step, IInv, TypeOK, HandleState
  <2>4. Moves(h)
    BY <1>6, <2>1, <2>2, <2>3, HandleAssumption DEF Moves, MarkDirty
  <2> QED
    BY <1>0, <1>6, <2>1, <2>4 DEF MarkDirty
<1>7. CASE QueryFile(h)
  <2>1. handle'[h].pc = "queried" /\ handle'[h].eof = Len(entries)
        /\ \A g \in Handle \ {h} : handle'[g] = handle[g]
    BY <1>7 DEF QueryFile, IInv, TypeOK, HandleState
  <2>2. Len(entries) <= Len(entries)
    BY DEF IInv, TypeOK
  <2>3. Moves(h)
    BY <1>7, <2>1, <2>2, HandleAssumption DEF Moves, QueryFile
  <2> QED
    BY <1>0, <1>7, <2>3 DEF QueryFile
<1>8. CASE FillIndex(h)
  <2>1. CASE CloseLog(h)
    BY <1>0, <1>8, <2>1, CloseMoves DEF FillIndex, IInv
  <2>2. CASE /\ handle' = [handle EXCEPT ![h].pc = "indexed", ![h].indexed = header.count]
             /\ Total(header.count) <= handle[h].eof /\ UNCHANGED header
    <3>1. handle'[h].pc = "indexed" /\ handle'[h].indexed = header.count
          /\ \A g \in Handle \ {h} : handle'[g] = handle[g]
      BY <2>2 DEF IInv, TypeOK, HandleState
    <3>2. handle[h].eof <= Len(entries)
      BY <1>8 DEF FillIndex, IInv, IndexIsInFile
    <3>3. Total(header.count) \in Nat
      BY CountedIsNat DEF Total, IInv, TypeOK, HeaderState
    <3>4. Total(header.count) <= Len(entries)
      BY <2>2, <3>2, <3>3 DEF IInv, TypeOK, HandleState
    <3>5. h \notin Writer
      BY <1>8 DEF FillIndex, IInv, StepsOfMode
    <3>6. Moves(h)
      BY <1>8, <2>2, <3>1, <3>4, <3>5 DEF Moves, FillIndex
    <3> QED
      BY <1>0, <1>8, <2>2, <3>6 DEF FillIndex
  <2> QED
    BY <1>8, <2>1, <2>2 DEF FillIndex
<1>9. CASE CompareCounts(h)
  <2>1. CASE CloseLog(h)
    BY <1>0, <1>9, <2>1, CloseMoves DEF CompareCounts, IInv
  <2>2. CASE Step(h, "open") /\ UNCHANGED header
    BY <1>0, <1>9, <2>2, StepMoves DEF CompareCounts, IInv, StepsOfMode, OpenStep
  <2> QED
    BY <1>9, <2>1, <2>2 DEF CompareCounts
<1>10. CASE OpenFails(h)
  BY <1>0, <1>10, CloseMoves DEF OpenFails, IInv
<1> QED
  BY <1>1, <1>2, <1>3, <1>4, <1>5, <1>6, <1>7, <1>8, <1>9, <1>10 DEF OpenLog

-----------------------------------------------------------------------------
(* A process ends *)

LEMMA EndKeeps ==
  ASSUME IInv, NEW h \in Handle, Exit(h) \/ Crash(h), TypeOK'
  PROVE  Kept
<1>1. /\ handle[h].pc # "closed" /\ handle'[h].pc = "closed"
      /\ \A g \in Handle \ {h} : handle'[g] = handle[g]
      /\ Killed(h)
      /\ UNCHANGED <<exists, entries>>
  <2>1. handle' = [handle EXCEPT ![h] = Closed]
    BY DEF Exit, Crash, CloseLog
  <2>2. handle'[h].pc = "closed" /\ \A g \in Handle \ {h} : handle'[g] = handle[g]
    BY <2>1 DEF Closed, IInv, TypeOK
  <2> QED
    BY <2>2 DEF Exit, Crash
<1>2. /\ header'.count = header.count /\ header'.table = header.table
      /\ header'.magic = header.magic
      /\ h \in Reader => header' = header
  <2>1. header \in HeaderState
    BY DEF IInv, TypeOK
  <2>2. header' = header \/ (h \in Writer /\ header' = [header EXCEPT !.dirty = FALSE])
    BY DEF Exit, Crash, CloseLog
  <2> QED
    BY <2>1, <2>2, HandleAssumption DEF HeaderState
<1>3. \A t \in Thread :
        \/ thread'[t].pc = "idle"
        \/ /\ thread'[t] = thread[t] /\ t \notin Using(h)
           /\ thread[t].pc # "idle" => thread[t].handle # h
  <2>1. thread' = [t \in Thread |-> IF t \in Using(h) THEN NotWriting ELSE thread[t]]
    BY <1>1 DEF Killed
  <2> QED
    BY <2>1 DEF Using, NotWriting
<1>4. OneWriter'
  BY <1>1 DEF IInv, OneWriter, Handle
<1>5. StepsOfMode'
  BY <1>1 DEF IInv, StepsOfMode, Handle
<1>6. OpenFileExists'
  BY <1>1 DEF IInv, OpenFileExists
<1>7. CallsAreOpen'
  BY <1>1, <1>3 DEF IInv, CallsAreOpen, Handle
<1>8. LockHeld'
  <2>1. \A g \in Handle \ {h} : holder'[g] = holder[g]
    BY <1>1 DEF Killed, IInv, TypeOK
  <2> QED
    BY <1>3, <2>1 DEF IInv, LockHeld, CallsAreOpen, Handle
<1>9. SeenIsCurrent'
  BY <1>2, <1>3 DEF IInv, SeenIsCurrent
<1>10. FreshIsEmpty'
  <2> SUFFICES ASSUME NEW w \in Writer, handle'[w].pc \in {"created", "sized", "mapped_new"}
               PROVE  entries' = <<>> /\ lost' = NoCount
    BY DEF FreshIsEmpty
  <2>1. w # h /\ handle[w].pc \in {"created", "sized", "mapped_new"}
    BY <1>1 DEF Handle
  <2>2. entries = <<>> /\ lost = NoCount
    BY <2>1 DEF IInv, FreshIsEmpty
  <2>3. \A t \in Thread : thread[t].pc = "idle"
    BY <2>1 DEF IInv, CallsAreOpen, OneWriter
  <2>4. \A s \in Severity :
          {t \in Using(h) : thread[t].pc = "write" /\ thread[t].place.sev = s} = {}
    BY <2>3 DEF Using
  <2>5. lost' = [s \in Severity |-> lost[s] + Cardinality({})]
    BY <1>1, <2>4 DEF Killed
  <2>6. \A s \in Severity : lost[s] = 0
    BY <2>2 DEF NoCount
  <2>7. lost' = NoCount
    BY <2>5, <2>6, FS_EmptySet DEF NoCount
  <2> QED
    BY <1>1, <2>2, <2>7
<1>11. CheckedIsMagic'
  BY <1>1, <1>2 DEF IInv, CheckedIsMagic, Handle
<1>12. IndexIsInFile'
  BY <1>1 DEF IInv, IndexIsInFile
<1>13. NamesKept'
  BY <1>1, <1>2, <1>3 DEF IInv, NamesKept, Slots, SlotName
<1>14. CountersAccount'
  <2> SUFFICES ASSUME NEW s \in Severity
               PROVE  header'.count[s] = Cardinality(Of(s, Len(entries))') + lost'[s] +
                        Cardinality({t \in Thread : thread'[t].pc = "write" /\ thread'[t].place.sev = s})
    BY DEF CountersAccount
  <2> DEFINE Gone == {t \in Using(h) : thread[t].pc = "write" /\ thread[t].place.sev = s}
             Left == {t \in Thread : thread'[t].pc = "write" /\ thread'[t].place.sev = s}
  <2>1. Gone \subseteq Writing(s) /\ Left = Writing(s) \ Gone
    <3>1. Gone \subseteq Writing(s)
      BY DEF Using, Writing
    <3>2. \A t \in Thread : IF t \in Using(h) THEN thread'[t].pc = "idle" ELSE thread'[t] = thread[t]
      BY <1>1 DEF Killed, NotWriting
    <3>3. ASSUME NEW t \in Thread PROVE t \in Left <=> t \in Writing(s) /\ t \notin Gone
      BY <3>2 DEF Writing
    <3>4. Left \subseteq Thread /\ Writing(s) \subseteq Thread
      BY DEF Writing
    <3> QED
      BY <3>1, <3>3, <3>4
  <2>2. /\ IsFiniteSet(Writing(s)) /\ Cardinality(Writing(s)) \in Nat
        /\ Cardinality(Of(s, Len(entries))) \in Nat
    BY CountFacts DEF IInv
  <2>3. IsFiniteSet(Gone)
    BY <2>1, <2>2, FS_Subset
  <2>4. Cardinality(Gone) \in Nat
    BY <2>3, FS_CardinalityType
  <2>5. Cardinality(Left) = Cardinality(Writing(s)) - Cardinality(Gone)
    <3>1. Cardinality(Writing(s) \ Gone) = Cardinality(Writing(s)) - Cardinality(Writing(s) \cap Gone)
      BY <2>2, FS_Difference
    <3>2. Writing(s) \cap Gone = Gone
      BY <2>1
    <3> QED
      BY <2>1, <3>1, <3>2
  <2>6. lost'[s] = lost[s] + Cardinality(Gone) /\ lost[s] \in Nat
    BY <1>1 DEF Killed, IInv, TypeOK
  <2>7. header.count[s] = Cardinality(Of(s, Len(entries))) + lost[s] + Cardinality(Writing(s))
    BY DEF IInv, CountersAccount, Writing
  <2>8. Of(s, Len(entries))' = Of(s, Len(entries))
    BY <1>1 DEF Of
  <2> HIDE DEF Gone, Left
  <2>9. header'.count[s] = Cardinality(Of(s, Len(entries))') + lost'[s] + Cardinality(Left)
    BY <1>2, <2>2, <2>4, <2>5, <2>6, <2>7, <2>8
  <2> QED
    BY <2>9 DEF Left
<1>15. DirtyWhileWritten'
  <2> SUFFICES ASSUME NEW w \in Writer, handle'[w].pc = "open"
               PROVE  header'.magic /\ header'.dirty
    BY DEF DirtyWhileWritten
  <2>1. w # h /\ handle[w].pc = "open"
    BY <1>1 DEF Handle
  <2>2. h \in Reader
    BY <1>1, <2>1 DEF IInv, OneWriter, Handle
  <2> QED
    BY <1>2, <2>1, <2>2 DEF IInv, DirtyWhileWritten
<1> QED
  BY <1>4, <1>5, <1>6, <1>7, <1>8, <1>9, <1>10, <1>11, <1>12, <1>13, <1>14, <1>15 DEF Kept

-----------------------------------------------------------------------------
(* A call writes *)

LEMMA CallLeavesHandles ==
  ASSUME IInv, NEW t \in Thread, UNCHANGED <<exists, handle>>,
         header'.magic = header.magic, header'.dirty = header.dirty,
         \/ UNCHANGED <<entries, lost>>
         \/ thread[t].pc # "idle" /\ Len(entries) <= Len(entries'),
         TypeOK'
  PROVE  /\ OneWriter' /\ StepsOfMode' /\ OpenFileExists' /\ FreshIsEmpty'
         /\ CheckedIsMagic' /\ IndexIsInFile' /\ DirtyWhileWritten'
<1>1. OneWriter' /\ StepsOfMode' /\ OpenFileExists'
  BY DEF IInv, OneWriter, StepsOfMode, OpenFileExists
<1>2. FreshIsEmpty'
  <2> SUFFICES ASSUME NEW w \in Writer, handle[w].pc \in {"created", "sized", "mapped_new"}
               PROVE  entries' = <<>> /\ lost' = NoCount
    BY DEF FreshIsEmpty
  <2>1. thread[t].pc = "idle"
    BY DEF IInv, CallsAreOpen, OneWriter
  <2> QED
    BY <2>1 DEF IInv, FreshIsEmpty
<1>3. CheckedIsMagic' /\ DirtyWhileWritten'
  BY DEF IInv, CheckedIsMagic, DirtyWhileWritten
<1>4. IndexIsInFile'
  <2>1. Len(entries) \in Nat /\ Len(entries') \in Nat /\ Len(entries) <= Len(entries')
    BY DEF IInv, TypeOK
  <2>2. \A h \in Handle : handle[h].eof \in Nat /\ Total(handle[h].indexed) \in Nat
    BY CountedIsNat DEF IInv, TypeOK, HandleState, Total
  <2> QED
    BY <2>1, <2>2 DEF IInv, IndexIsInFile
<1> QED
  BY <1>1, <1>2, <1>3, <1>4

\* Between its first step and the write a call counts for nothing.
LEMMA CallCountsNot ==
  ASSUME IInv, NEW t \in Thread, UNCHANGED <<entries, lost>>,
         header'.count = header.count,
         \A u \in Thread \ {t} : thread'[u] = thread[u],
         thread[t].pc # "write", thread'[t].pc # "write"
  PROVE  CountersAccount'
<1>1. \A s \in Severity :
        {u \in Thread : thread'[u].pc = "write" /\ thread'[u].place.sev = s} =
        {u \in Thread : thread[u].pc = "write" /\ thread[u].place.sev = s}
  OBVIOUS
<1> QED
  BY <1>1 DEF IInv, CountersAccount, Of

\* A call that has the lock leaves it and ends.
LEMMA FinishKeeps ==
  ASSUME IInv, NEW t \in Thread, Finish(t), thread[t].pc \notin {"idle", "lock"},
         UNCHANGED handle
  PROVE  /\ CallsAreOpen' /\ LockHeld'
         /\ thread'[t].pc = "idle" /\ \A u \in Thread \ {t} : thread'[u] = thread[u]
<1>1. thread'[t].pc = "idle" /\ \A u \in Thread \ {t} : thread'[u] = thread[u]
  BY DEF Finish, IInv, TypeOK, NotWriting
<1>2. CallsAreOpen'
  BY <1>1 DEF IInv, CallsAreOpen
<1>3. LockHeld'
  BY <1>1, OneInside DEF LockHeld
<1> QED
  BY <1>1, <1>2, <1>3

\* What the assignments of a call leave alone.
LEMMA PcFields ==
  ASSUME NEW r \in ThreadState, NEW pc
  PROVE  LET x == [r EXCEPT !.pc = pc] IN
           /\ x.pc = pc /\ x.handle = r.handle /\ x.place = r.place
           /\ x.index = r.index /\ x.k = r.k /\ x.seen = r.seen
BY DEF ThreadState

LEMMA SeenFields ==
  ASSUME NEW r \in ThreadState, NEW pc, NEW n
  PROVE  LET x == [r EXCEPT !.pc = pc, !.seen = n] IN
           /\ x.pc = pc /\ x.handle = r.handle /\ x.place = r.place
           /\ x.index = r.index /\ x.k = r.k /\ x.seen = n
BY DEF ThreadState

LEMMA FoundFields ==
  ASSUME NEW r \in ThreadState, NEW pc, NEW n, NEW k, NEW i
  PROVE  LET x == [r EXCEPT !.index[k] = i, !.k = n, !.pc = pc] IN
           /\ x.pc = pc /\ x.handle = r.handle /\ x.place = r.place
           /\ x.index = [r.index EXCEPT ![k] = i] /\ x.k = n
BY DEF ThreadState

LEMMA WriteLogKeeps ==
  ASSUME IInv, NEW t \in Thread, NEW h \in Writer, NEW place \in Place,
         WriteLog(t, h, place), TypeOK'
  PROVE  Kept
<1>1. /\ thread'[t].pc = "lock" /\ thread'[t].handle = h /\ thread'[t].k = 1
      /\ \A u \in Thread \ {t} : thread'[u] = thread[u]
  <2>1. thread' = [thread EXCEPT ![t] =
          [NotWriting EXCEPT !.pc = "lock", !.handle = h, !.place = place]]
    BY DEF WriteLog
  <2> QED
    BY <2>1 DEF IInv, TypeOK, NotWriting
<1>2. /\ thread[t].pc = "idle" /\ handle[h].pc = "open"
      /\ UNCHANGED <<exists, handle, header, entries, holder, lost>>
  BY DEF WriteLog, Opened
<1>3. CallsAreOpen'
  BY <1>1, <1>2 DEF IInv, CallsAreOpen
<1>4. LockHeld'
  BY <1>1, <1>2 DEF IInv, LockHeld
<1>5. SeenIsCurrent'
  BY <1>1, <1>2 DEF IInv, SeenIsCurrent
<1>6. NamesKept'
  BY <1>1, <1>2 DEF IInv, NamesKept, Slots, SlotName
<1>7. CountersAccount'
  BY <1>1, <1>2, CallCountsNot
<1> QED
  BY <1>2, <1>3, <1>4, <1>5, <1>6, <1>7, CallLeavesHandles DEF Kept

LEMMA AcquireLockKeeps ==
  ASSUME IInv, NEW t \in Thread, AcquireLock(t), TypeOK'
  PROVE  Kept
<1>1. \A u \in Thread \ {t} : thread'[u] = thread[u]
  BY DEF AcquireLock, IInv, TypeOK
<1>2. /\ thread'[t].pc = "lookup" /\ thread'[t].handle = thread[t].handle
      /\ thread'[t].place = thread[t].place /\ thread'[t].index = thread[t].index
      /\ thread'[t].k = thread[t].k
  <2>1. thread[t] \in ThreadState
    BY DEF IInv, TypeOK
  <2>2. thread'[t] = [thread[t] EXCEPT !.pc = "lookup"]
    BY DEF AcquireLock, IInv, TypeOK
  <2> QED
    BY <2>1, <2>2, PcFields
<1>3. /\ thread[t].pc = "lock" /\ holder[thread[t].handle] = NoThread
      /\ UNCHANGED <<exists, handle, header, entries, lost>>
  BY DEF AcquireLock, Opened
<1>4. CallsAreOpen'
  BY <1>1, <1>2, <1>3 DEF IInv, CallsAreOpen
<1>5. LockHeld'
  <2>1. holder'[thread[t].handle] = t
    BY <1>3 DEF AcquireLock, IInv, TypeOK, CallsAreOpen, Handle
  <2>2. ASSUME NEW u \in Thread \ {t}, thread[u].pc \notin {"idle", "lock"}
        PROVE  holder'[thread[u].handle] = u
    <3>1. holder[thread[u].handle] = u
      BY <2>2 DEF IInv, LockHeld
    <3>2. thread[u].handle # thread[t].handle
      BY <1>3, <3>1, ThreadAssumption
    <3> QED
      BY <2>2, <3>1, <3>2 DEF AcquireLock, IInv, TypeOK, CallsAreOpen, Handle
  <2> QED
    BY <1>1, <1>2, <2>1, <2>2 DEF LockHeld
<1>6. SeenIsCurrent'
  BY <1>1, <1>2, <1>3 DEF IInv, SeenIsCurrent
<1>7. CountersAccount'
  BY <1>1, <1>2, <1>3, CallCountsNot
<1>8. thread'[t].k = 1
  BY <1>2, <1>3 DEF IInv, NamesKept
<1>9. NamesKept'
  <2>1. ASSUME NEW i \in DOMAIN entries, NEW k \in Table
        PROVE  entries'[i].index[k] \in Slots(header'.table[k])
    BY <1>3 DEF IInv, NamesKept
  <2>2. ASSUME NEW u \in Thread PROVE thread'[u].pc = "lock" => thread'[u].k = 1
    BY <1>1, <1>2 DEF IInv, NamesKept
  <2>3. ASSUME NEW u \in Thread, NEW k \in Table,
               (thread'[u].pc = "lookup" /\ k < thread'[u].k) \/ thread'[u].pc \in {"read", "store", "write"}
        PROVE  /\ thread'[u].index[k] \in Slots(header'.table[k])
               /\ SlotName(header'.table[k], thread'[u].index[k]) = thread'[u].place.names[k]
    <3>1. u # t
      BY <1>2, <1>8, <2>3 DEF Table
    <3>2. thread'[u] = thread[u] /\ header' = header
      BY <1>1, <1>3, <3>1
    <3> QED
      BY <2>3, <3>2 DEF IInv, NamesKept
  <2> QED
    BY <1>3, <2>1, <2>2, <2>3 DEF NamesKept
<1> QED
  BY <1>3, <1>4, <1>5, <1>6, <1>7, <1>9, CallLeavesHandles DEF Kept

\* No slot is freed.
Grows == \A k \in Table : Len(header.table[k]) <= Len(header'.table[k])

LEMMA LengthsAreNat ==
  ASSUME TypeOK, NEW k \in Table
  PROVE  header.table[k] \in Seq(Fits) /\ Len(header.table[k]) \in Nat
<1>1. header.table[k] \in Seq(Fits)
  BY DEF TypeOK, HeaderState
<1> QED
  BY <1>1

LEMMA LengthsStayNat ==
  ASSUME TypeOK', NEW k \in Table
  PROVE  Len(header'.table[k]) \in Nat
<1>1. header'.table[k] \in Seq(Fits)
  BY DEF TypeOK, HeaderState
<1> QED
  BY <1>1

\* Only the thread that holds the lock has looked anything up.
LEMMA NamesGrow ==
  ASSUME IInv, TypeOK', NEW t \in Thread, Grows, UNCHANGED entries,
         thread[t].pc \notin {"idle", "lock"},
         \A u \in Thread \ {t} : thread'[u] = thread[u],
         thread'[t].pc # "lock",
         \A k \in Table :
           (thread'[t].pc = "lookup" /\ k < thread'[t].k) \/ thread'[t].pc \in {"read", "store", "write"} =>
             /\ thread'[t].index[k] \in Slots(header'.table[k])
             /\ SlotName(header'.table[k], thread'[t].index[k]) = thread'[t].place.names[k]
  PROVE  NamesKept'
<1>1. ASSUME NEW i \in DOMAIN entries, NEW k \in Table PROVE entries[i].index[k] \in Slots(header'.table[k])
  <2>1. entries[i].index[k] \in 1 .. Len(header.table[k]) + 1
    BY DEF IInv, NamesKept, Slots
  <2>2. Len(header.table[k]) \in Nat /\ Len(header'.table[k]) \in Nat
    BY LengthsAreNat, LengthsStayNat DEF IInv
  <2>3. Len(header.table[k]) <= Len(header'.table[k])
    BY DEF Grows
  <2> QED
    BY <2>1, <2>2, <2>3 DEF Slots
<1>2. \A u \in Thread \ {t} : thread[u].pc \in {"idle", "lock"}
  BY OneInside
<1>3. \A u \in Thread : thread'[u].pc = "lock" => thread'[u].k = 1
  BY DEF IInv, NamesKept
<1> QED
  BY <1>1, <1>2, <1>3 DEF NamesKept

LEMMA AppendFacts ==
  ASSUME NEW S, NEW seq \in Seq(S), NEW e \in S
  PROVE  /\ Len(seq) \in Nat
         /\ Len(Append(seq, e)) = Len(seq) + 1
         /\ Len(seq) + 1 \in DOMAIN Append(seq, e)
         /\ Append(seq, e)[Len(seq) + 1] = e
         /\ \A j \in 1 .. Len(seq) : Append(seq, e)[j] = seq[j]
OBVIOUS

\* The name that is looked up.
LEMMA NameFacts ==
  ASSUME IInv, NEW t \in Thread
  PROVE  /\ thread[t] \in ThreadState /\ header \in HeaderState
         /\ thread[t].k \in Table /\ header.table[thread[t].k] \in Seq(Fits)
         /\ thread[t].place.names[thread[t].k] \in Name \cup {NoName}
<1>1. thread[t] \in ThreadState /\ header \in HeaderState
  BY DEF IInv, TypeOK
<1>2. thread[t].k \in Table /\ thread[t].place.names \in [Table -> Name \cup {NoName}]
  BY <1>1, NameAssumption DEF ThreadState
<1> QED
  BY <1>1, <1>2 DEF HeaderState

\* A name is added at the end of its table.
Adds(t) ==
  LET k == thread[t].k
      name == thread[t].place.names[k]
  IN  /\ name \in Name
      /\ header'.table = [header.table EXCEPT ![k] = Append(header.table[k], Copied(name))]

\* The lookup of a name adds it or leaves the header as it is.
LEMMA TablesGrow ==
  ASSUME IInv, NEW t \in Thread, FindOrCreateIndex(t)
  PROVE  /\ header'.count = header.count /\ header'.magic = header.magic
         /\ header'.dirty = header.dirty
         /\ Grows
         /\ \A m \in Table \ {thread[t].k} : header'.table[m] = header.table[m]
         /\ header' = header \/ Adds(t)
<1> DEFINE k == thread[t].k
           name == thread[t].place.names[k]
           names == header.table[k]
<1>0. /\ header \in HeaderState /\ k \in Table /\ names \in Seq(Fits) /\ name \in Name \cup {NoName}
  BY NameFacts
<1>1. CASE header' = header
  BY <1>1, LengthsAreNat DEF Grows, IInv
<1>2. CASE name # NoName /\ header' = [header EXCEPT !.table[k] = Append(names, Copied(name))]
  <2>1. /\ header'.count = header.count /\ header'.magic = header.magic
        /\ header'.dirty = header.dirty
        /\ header'.table = [header.table EXCEPT ![k] = Append(names, Copied(name))]
    BY <1>0, <1>2 DEF HeaderState
  <2>2. Len(names) <= Len(Append(names, Copied(name)))
    <3>1. Copied(name) \in Fits
      BY <1>0, <1>2, NameAssumption DEF Copied
    <3> HIDE DEF names, name
    <3>2. Len(names) \in Nat /\ Len(Append(names, Copied(name))) = Len(names) + 1
      BY <1>0, <3>1, AppendFacts
    <3> QED
      BY <3>2
  <2>3. \A m \in Table : header'.table[m] = IF m = k THEN Append(names, Copied(name)) ELSE header.table[m]
    BY <1>0, <2>1 DEF HeaderState
  <2>4. Grows
    <3> SUFFICES ASSUME NEW m \in Table PROVE Len(header.table[m]) <= Len(header'.table[m])
      BY DEF Grows
    <3>1. CASE m = k
      BY <2>2, <2>3, <3>1
    <3>2. CASE m # k
      <4>1. header'.table[m] = header.table[m] /\ Len(header.table[m]) \in Nat
        BY <2>3, <3>2, LengthsAreNat DEF IInv
      <4> QED
        BY <4>1
    <3> QED
      BY <3>1, <3>2
  <2>5. Adds(t)
    BY <1>0, <1>2, <2>1 DEF Adds
  <2> QED
    BY <2>1, <2>3, <2>4, <2>5
<1> QED
  BY <1>1, <1>2 DEF FindOrCreateIndex

LEMMA FindOrCreateIndexKeeps ==
  ASSUME IInv, NEW t \in Thread, FindOrCreateIndex(t), TypeOK'
  PROVE  Kept
<1> DEFINE k == thread[t].k
           name == thread[t].place.names[k]
           names == header.table[k]
<1>0. /\ thread[t] \in ThreadState /\ header \in HeaderState
      /\ k \in Table /\ names \in Seq(Fits) /\ name \in Name \cup {NoName}
  BY NameFacts
<1>1. /\ thread[t].pc = "lookup"
      /\ UNCHANGED <<exists, handle, entries, lost>>
  BY DEF FindOrCreateIndex, Opened
<1>2. /\ header'.count = header.count /\ header'.magic = header.magic
      /\ header'.dirty = header.dirty
      /\ Grows
      /\ \A m \in Table \ {k} : header'.table[m] = header.table[m]
  BY TablesGrow
<1>3. CASE Finish(t)
  <2>1. /\ CallsAreOpen' /\ LockHeld' /\ thread'[t].pc = "idle"
        /\ \A u \in Thread \ {t} : thread'[u] = thread[u]
    BY <1>1, <1>3, FinishKeeps
  <2>2. SeenIsCurrent'
    BY <1>2, <2>1 DEF IInv, SeenIsCurrent
  <2>3. NamesKept'
    BY <1>1, <1>2, <2>1, NamesGrow
  <2>4. CountersAccount'
    BY <1>1, <1>2, <2>1, CallCountsNot
  <2> QED
    BY <1>1, <1>2, <2>1, <2>2, <2>3, <2>4, CallLeavesHandles DEF Kept
\* The slot that is found, old, new or free, holds the name.
<1>4. ASSUME NEW i \in Nat, Found(t, i), UNCHANGED holder,
             i \in Slots(header'.table[k]), SlotName(header'.table[k], i) = name
      PROVE  Kept
  <2>1. \A u \in Thread \ {t} : thread'[u] = thread[u]
    BY <1>4 DEF Found, IInv, TypeOK
  <2>2. /\ thread'[t].handle = thread[t].handle /\ thread'[t].place = thread[t].place
        /\ thread'[t].index = [thread[t].index EXCEPT ![k] = i]
        /\ \/ k # 3 /\ thread'[t].k = k + 1 /\ thread'[t].pc = "lookup"
           \/ k = 3 /\ thread'[t].pc = "read"
    <3>1. thread'[t] = [thread[t] EXCEPT !.index[k] = i,
                          !.k = IF k = 3 THEN 1 ELSE k + 1,
                          !.pc = IF k = 3 THEN "read" ELSE "lookup"]
      BY <1>4 DEF Found, IInv, TypeOK
    <3> QED
      BY <1>0, <3>1 DEF ThreadState
  <2>3. CallsAreOpen' /\ LockHeld'
    BY <1>1, <1>4, <2>1, <2>2 DEF IInv, CallsAreOpen, LockHeld
  <2>4. SeenIsCurrent'
    BY <1>2, <2>1, <2>2 DEF IInv, SeenIsCurrent
  <2>5. ASSUME NEW m \in Table, m <= k
        PROVE  /\ thread'[t].index[m] \in Slots(header'.table[m])
               /\ SlotName(header'.table[m], thread'[t].index[m]) = thread'[t].place.names[m]
    <3>0. thread[t].index \in [Table -> Nat]
      BY <1>0 DEF ThreadState
    <3>1. CASE m = k
      <4>1. thread'[t].index[m] = i
        BY <2>2, <3>0, <3>1
      <4> QED
        BY <1>4, <2>2, <3>1, <4>1 DEF Slots, SlotName
    <3>2. CASE m # k
      <4>1. thread'[t].index[m] = thread[t].index[m]
        BY <2>2, <3>0, <3>2
      <4>2. m < k
        BY <1>0, <2>5, <3>2 DEF Table
      <4>3. /\ thread[t].index[m] \in Slots(header.table[m])
            /\ SlotName(header.table[m], thread[t].index[m]) = thread[t].place.names[m]
        BY <1>1, <4>2 DEF IInv, NamesKept
      <4>4. header'.table[m] = header.table[m]
        BY <1>2, <3>2
      <4> QED
        BY <2>2, <4>1, <4>3, <4>4 DEF Slots, SlotName
    <3> QED
      BY <3>1, <3>2
  <2>6. \A m \in Table :
          (thread'[t].pc = "lookup" /\ m < thread'[t].k) \/ thread'[t].pc \in {"read", "store", "write"} =>
            m <= k
    BY <1>0, <2>2 DEF Table
  <2>7. NamesKept'
    BY <1>1, <1>2, <2>1, <2>2, <2>5, <2>6, NamesGrow
  <2>8. CountersAccount'
    BY <1>1, <1>2, <2>1, <2>2, CallCountsNot
  <2> QED
    BY <1>1, <1>2, <2>3, <2>4, <2>7, <2>8, CallLeavesHandles DEF Kept
<1>5. CASE name \in Range(names) /\ Found(t, Slot(names, name)) /\ UNCHANGED <<header, holder>>
  <2>1. /\ Slot(names, name) \in DOMAIN names /\ Slot(names, name) \in Nat
        /\ names[Slot(names, name)] = name
    <3>1. names \in Seq(Fits) /\ name \in Range(names)
      BY <1>0, <1>5 DEF HeaderState
    <3> HIDE DEF names, name
    <3> QED
      BY <3>1, SlotFacts
  <2>2. SlotName(header'.table[k], Slot(names, name)) = name
    BY <1>5, <2>1 DEF SlotName
  <2>3. Slot(names, name) \in Slots(header'.table[k])
    <3>1. Len(names) \in Nat /\ Slot(names, name) \in 1 .. Len(names)
      BY <1>0, <2>1
    <3>2. Slots(header'.table[k]) = 1 .. Len(names) + 1
      BY <1>5 DEF Slots
    <3> HIDE DEF names
    <3> QED
      BY <3>1, <3>2
  <2> QED
    BY <1>4, <1>5, <2>1, <2>2, <2>3
<1>6. CASE /\ header' = [header EXCEPT !.table[k] = Append(names, Copied(name))]
           /\ ~CopyFails(name) /\ Found(t, Len(names) + 1) /\ UNCHANGED holder
  <2>1. Copied(name) = name
    BY <1>6 DEF Copied, CopyFails
  <2>2. header'.table[k] = Append(names, name)
    BY <1>0, <1>6, <2>1 DEF HeaderState
  <2>3. /\ Len(names) \in Nat
        /\ Len(Append(names, name)) = Len(names) + 1
        /\ Len(names) + 1 \in DOMAIN Append(names, name)
        /\ Append(names, name)[Len(names) + 1] = name
    <3>1. name \in Fits
      BY <1>6 DEF CopyFails
    <3>2. names \in Seq(Fits)
      BY <1>0 DEF HeaderState
    <3> HIDE DEF names, name
    <3> QED
      BY <3>1, <3>2, AppendFacts
  <2>4. SlotName(header'.table[k], Len(names) + 1) = name
    BY <2>2, <2>3 DEF SlotName
  <2>5. Len(names) + 1 \in Slots(header'.table[k]) /\ Len(names) + 1 \in Nat
    <3>1. Slots(header'.table[k]) = 1 .. Len(names) + 1 + 1
      BY <2>2, <2>3 DEF Slots
    <3> HIDE DEF names
    <3> QED
      BY <2>3, <3>1
  <2> QED
    BY <1>4, <1>6, <2>4, <2>5
<1>7. CASE name = NoName /\ Found(t, Len(names) + 1) /\ UNCHANGED <<header, holder>>
  <2>1. Len(names) \in Nat /\ DOMAIN names = 1 .. Len(names)
    BY <1>0
  <2>2. Slots(header'.table[k]) = 1 .. Len(names) + 1
    BY <1>7 DEF Slots
  <2>3. Len(names) + 1 \in Slots(header'.table[k]) /\ Len(names) + 1 \in Nat
    <3> HIDE DEF names
    <3> QED
      BY <2>1, <2>2
  <2>4. Len(names) + 1 \notin DOMAIN names
    <3> HIDE DEF names
    <3> QED
      BY <2>1
  <2>5. SlotName(header'.table[k], Len(names) + 1) = name
    BY <1>7, <2>4 DEF SlotName
  <2> QED
    BY <1>4, <1>7, <2>3, <2>5
<1> QED
  BY <1>3, <1>5, <1>6, <1>7 DEF FindOrCreateIndex

LEMMA ReadCountKeeps ==
  ASSUME IInv, NEW t \in Thread, ReadCount(t), TypeOK'
  PROVE  Kept
<1>1. \A u \in Thread \ {t} : thread'[u] = thread[u]
  BY DEF ReadCount, IInv, TypeOK
<1>2. /\ thread'[t].pc = "store" /\ thread'[t].handle = thread[t].handle
      /\ thread'[t].place = thread[t].place /\ thread'[t].index = thread[t].index
      /\ thread'[t].seen = header.count[thread[t].place.sev]
  <2>1. thread[t] \in ThreadState
    BY DEF IInv, TypeOK
  <2>2. thread'[t] = [thread[t] EXCEPT !.pc = "store", !.seen = header.count[thread[t].place.sev]]
    BY DEF ReadCount, IInv, TypeOK
  <2> QED
    BY <2>1, <2>2, SeenFields
<1>3. thread[t].pc = "read" /\ UNCHANGED <<exists, handle, header, entries, holder, lost>>
  BY DEF ReadCount, Opened
<1>4. CallsAreOpen' /\ LockHeld'
  BY <1>1, <1>2, <1>3 DEF IInv, CallsAreOpen, LockHeld
<1>5. SeenIsCurrent'
  BY <1>1, <1>2, <1>3 DEF IInv, SeenIsCurrent
<1>6. \A k \in Table :
        /\ thread'[t].index[k] \in Slots(header'.table[k])
        /\ SlotName(header'.table[k], thread'[t].index[k]) = thread'[t].place.names[k]
  BY <1>2, <1>3 DEF IInv, NamesKept, Slots, SlotName
<1>7. NamesKept'
  <2>1. Grows
    BY <1>3, LengthsAreNat DEF Grows
  <2> QED
    BY <1>1, <1>2, <1>3, <1>6, <2>1, NamesGrow
<1>8. CountersAccount'
  BY <1>1, <1>2, <1>3, CallCountsNot
<1> QED
  BY <1>3, <1>4, <1>5, <1>7, <1>8, CallLeavesHandles DEF Kept

LEMMA StoreCountKeeps ==
  ASSUME IInv, NEW t \in Thread, StoreCount(t), TypeOK'
  PROVE  Kept
<1> DEFINE sev == thread[t].place.sev
<1>0. thread[t] \in ThreadState /\ header \in HeaderState /\ sev \in Severity
  <2>1. thread[t] \in ThreadState /\ header \in HeaderState
    BY DEF IInv, TypeOK
  <2> QED
    BY <2>1, NameAssumption DEF ThreadState
<1>1. \A u \in Thread \ {t} : thread'[u] = thread[u]
  BY DEF StoreCount, IInv, TypeOK
<1>2. /\ thread'[t].pc = "write" /\ thread'[t].handle = thread[t].handle
      /\ thread'[t].place = thread[t].place /\ thread'[t].index = thread[t].index
  <2>1. thread'[t] = [thread[t] EXCEPT !.pc = "write"]
    BY DEF StoreCount, IInv, TypeOK
  <2> QED
    BY <1>0, <2>1, PcFields
<1>3. thread[t].pc = "store" /\ UNCHANGED <<exists, handle, entries, holder, lost>>
  BY DEF StoreCount, Opened
<1>4. /\ header'.magic = header.magic /\ header'.dirty = header.dirty
      /\ header'.table = header.table
      /\ header'.count = [header.count EXCEPT ![sev] = thread[t].seen + 1]
  BY <1>0 DEF StoreCount, HeaderState
<1>5. thread[t].seen = header.count[sev]
  BY <1>3 DEF IInv, SeenIsCurrent
<1>6. CallsAreOpen' /\ LockHeld'
  BY <1>1, <1>2, <1>3 DEF IInv, CallsAreOpen, LockHeld
\* Nobody else has read a counter.
<1>7. SeenIsCurrent'
  <2>1. \A u \in Thread \ {t} : thread[u].pc # "store"
    BY <1>3, OneInside
  <2> QED
    BY <1>1, <1>2, <2>1 DEF SeenIsCurrent
<1>8. \A k \in Table :
        /\ thread'[t].index[k] \in Slots(header'.table[k])
        /\ SlotName(header'.table[k], thread'[t].index[k]) = thread'[t].place.names[k]
  BY <1>2, <1>3, <1>4 DEF IInv, NamesKept, Slots, SlotName
<1>9. NamesKept'
  <2>1. Grows
    BY <1>4, LengthsAreNat DEF Grows
  <2> QED
    BY <1>1, <1>2, <1>3, <1>8, <2>1, NamesGrow
<1>10. CountersAccount'
  <2> SUFFICES ASSUME NEW s \in Severity
               PROVE  header'.count[s] = Cardinality(Of(s, Len(entries))') + lost'[s] +
                        Cardinality({u \in Thread : thread'[u].pc = "write" /\ thread'[u].place.sev = s})
    BY DEF CountersAccount
  <2> DEFINE Now == {u \in Thread : thread'[u].pc = "write" /\ thread'[u].place.sev = s}
  <2>1. header.count[s] = Cardinality(Of(s, Len(entries))) + lost[s] + Cardinality(Writing(s))
    BY DEF IInv, CountersAccount, Writing
  <2>2. /\ IsFiniteSet(Writing(s)) /\ Cardinality(Writing(s)) \in Nat
        /\ Cardinality(Of(s, Len(entries))) \in Nat /\ lost[s] \in Nat
    BY CountFacts DEF IInv, TypeOK
  <2>3. Of(s, Len(entries))' = Of(s, Len(entries))
    BY <1>3 DEF Of
  <2>4. CASE s = sev
    <3>1. Now = Writing(s) \cup {t} /\ t \notin Writing(s)
      BY <1>1, <1>2, <1>3, <2>4 DEF Writing
    <3>2. Cardinality(Now) = Cardinality(Writing(s)) + 1
      BY <2>2, <3>1, FS_AddElement
    <3>3. header'.count[s] = header.count[s] + 1
      BY <1>0, <1>4, <1>5, <2>4 DEF HeaderState
    <3> HIDE DEF Now
    <3>4. header'.count[s] = Cardinality(Of(s, Len(entries))') + lost'[s] + Cardinality(Now)
      BY <1>3, <2>1, <2>2, <2>3, <3>2, <3>3
    <3> QED
      BY <3>4 DEF Now
  <2>5. CASE s # sev
    <3>1. Now = Writing(s)
      BY <1>1, <1>2, <1>3, <2>5 DEF Writing
    <3>2. header'.count[s] = header.count[s]
      BY <1>0, <1>4, <2>5 DEF HeaderState
    <3> QED
      BY <1>3, <2>1, <2>3, <3>1, <3>2
  <2> QED
    BY <2>4, <2>5
<1> QED
  BY <1>3, <1>4, <1>6, <1>7, <1>9, <1>10, CallLeavesHandles DEF Kept

LEMMA WriteEntryKeeps ==
  ASSUME IInv, NEW t \in Thread, WriteEntry(t), TypeOK'
  PROVE  Kept
<1> DEFINE sev == thread[t].place.sev
           new == [sev |-> sev, index |-> thread[t].index]
<1>0. sev \in Severity /\ new \in Entry /\ entries \in Seq(Entry) /\ lost \in [Severity -> Nat]
  <2>1. thread[t] \in ThreadState /\ entries \in Seq(Entry) /\ lost \in [Severity -> Nat]
    BY DEF IInv, TypeOK
  <2>2. sev \in Severity /\ thread[t].index \in [Table -> Nat]
    BY <2>1, NameAssumption DEF ThreadState
  <2> QED
    BY <2>1, <2>2 DEF Entry
<1>1. thread[t].pc = "write" /\ Finish(t) /\ UNCHANGED <<exists, handle, header>>
  BY DEF WriteEntry, Opened
<1>2. /\ CallsAreOpen' /\ LockHeld' /\ thread'[t].pc = "idle"
      /\ \A u \in Thread \ {t} : thread'[u] = thread[u]
  BY <1>1, FinishKeeps
<1>3. SeenIsCurrent'
  BY <1>1, <1>2 DEF IInv, SeenIsCurrent
<1>4. \/ entries' = Append(entries, new) /\ lost' = lost
      \/ entries' = entries /\ lost' = [lost EXCEPT ![sev] = lost[sev] + 1]
  BY DEF WriteEntry
<1>5. /\ Len(entries) \in Nat
      /\ Len(Append(entries, new)) = Len(entries) + 1
      /\ Append(entries, new)[Len(entries) + 1] = new
      /\ \A j \in 1 .. Len(entries) : Append(entries, new)[j] = entries[j]
  BY <1>0, AppendFacts
<1>6. /\ Len(entries) <= Len(entries')
      /\ \A i \in DOMAIN entries' : entries'[i] = new \/ (i \in DOMAIN entries /\ entries'[i] = entries[i])
  <2>1. CASE entries' = entries
    BY <1>5, <2>1
  <2>2. CASE entries' = Append(entries, new)
    <3> HIDE DEF new
    <3>1. Len(entries') = Len(entries) + 1
      BY <1>5, <2>2
    <3>2. ASSUME NEW i \in DOMAIN entries'
          PROVE  entries'[i] = new \/ (i \in DOMAIN entries /\ entries'[i] = entries[i])
      <4>1. entries' \in Seq(Entry)
        BY DEF TypeOK
      <4>2. i \in 1 .. Len(entries) \/ i = Len(entries) + 1
        BY <1>5, <3>1, <3>2, <4>1
      <4> QED
        BY <1>0, <1>5, <2>2, <4>2
    <3> QED
      BY <1>5, <3>1, <3>2
  <2> QED
    BY <1>4, <2>1, <2>2
<1>7. NamesKept'
  <2>1. \A k \in Table : new.index[k] \in Slots(header.table[k])
    BY <1>1 DEF IInv, NamesKept
  <2>2. \A i \in DOMAIN entries', k \in Table : entries'[i].index[k] \in Slots(header.table[k])
    BY <1>6, <2>1 DEF IInv, NamesKept
  <2> QED
    BY <1>1, <1>2, <2>2 DEF IInv, NamesKept, Slots, SlotName
<1>8. CountersAccount'
  <2> SUFFICES ASSUME NEW s \in Severity
               PROVE  header'.count[s] = Cardinality(Of(s, Len(entries))') + lost'[s] +
                        Cardinality({u \in Thread : thread'[u].pc = "write" /\ thread'[u].place.sev = s})
    BY DEF CountersAccount
  <2> DEFINE Now == {u \in Thread : thread'[u].pc = "write" /\ thread'[u].place.sev = s}
  <2>1. header'.count[s] = Cardinality(Of(s, Len(entries))) + lost[s] + Cardinality(Writing(s))
    BY <1>1 DEF IInv, CountersAccount, Writing
  <2>2. /\ IsFiniteSet(Writing(s)) /\ Cardinality(Writing(s)) \in Nat
        /\ IsFiniteSet(Of(s, Len(entries)))
        /\ Cardinality(Of(s, Len(entries))) \in Nat /\ lost[s] \in Nat
    BY CountFacts DEF IInv, TypeOK
  <2>3. Cardinality(Now) = IF s = sev THEN Cardinality(Writing(s)) - 1 ELSE Cardinality(Writing(s))
    <3>1. CASE s = sev
      <4>1. Now = Writing(s) \ {t} /\ t \in Writing(s)
        BY <1>1, <1>2, <3>1 DEF Writing
      <4> QED
        BY <2>2, <3>1, <4>1, FS_RemoveElement
    <3>2. CASE s # sev
      <4>1. Now = Writing(s)
        BY <1>1, <1>2, <3>2 DEF Writing
      <4> QED
        BY <3>2, <4>1
    <3> QED
      BY <3>1, <3>2
  <2>4. CASE entries' = entries /\ lost' = [lost EXCEPT ![sev] = lost[sev] + 1]
    <3>1. Of(s, Len(entries))' = Of(s, Len(entries))
      BY <2>4 DEF Of
    <3>2. lost'[s] = IF s = sev THEN lost[s] + 1 ELSE lost[s]
      BY <1>0, <2>4
    <3> HIDE DEF Now, sev
    <3>3. header'.count[s] = Cardinality(Of(s, Len(entries))') + lost'[s] + Cardinality(Now)
      BY <2>1, <2>2, <2>3, <3>1, <3>2
    <3> QED
      BY <3>3 DEF Now
  <2>5. CASE entries' = Append(entries, new) /\ lost' = lost
    <3> DEFINE n == Len(entries) + 1
    <3>1. Of(s, Len(entries))' = IF s = sev THEN Of(s, Len(entries)) \cup {n} ELSE Of(s, Len(entries))
      <4>1. Len(entries') = n /\ n \in Nat
        BY <1>5, <2>5
      <4>2. entries'[n].sev = sev
        <5>1. entries'[n] = new
          BY <1>5, <2>5
        <5> QED
          BY <5>1
      <4>3. \A i \in 1 .. Len(entries) : entries'[i] = entries[i]
        BY <1>5, <2>5
      <4>4. Of(s, Len(entries))' = {i \in 1 .. n : entries'[i].sev = s}
        BY <4>1 DEF Of
      <4>5. 1 .. n = (1 .. Len(entries)) \cup {n}
        BY <1>5
      <4> HIDE DEF n, sev, new
      <4>6. \A i : i \in Of(s, Len(entries))' <=>
                    i \in Of(s, Len(entries)) \/ (i = n /\ s = sev)
        BY <4>2, <4>3, <4>4, <4>5 DEF Of
      <4> QED
        BY <4>6
    <3>2. n \notin Of(s, Len(entries))
      BY <1>5 DEF Of
    <3>3. Cardinality(Of(s, Len(entries))') =
            IF s = sev THEN Cardinality(Of(s, Len(entries))) + 1 ELSE Cardinality(Of(s, Len(entries)))
      <4> HIDE DEF n, sev
      <4> QED
        BY <2>2, <3>1, <3>2, FS_AddElement
    <3> HIDE DEF Now, sev
    <3>4. header'.count[s] = Cardinality(Of(s, Len(entries))') + lost'[s] + Cardinality(Now)
      BY <2>1, <2>2, <2>3, <2>5, <3>3
    <3> QED
      BY <3>4 DEF Now
  <2> QED
    BY <1>4, <2>4, <2>5
<1> QED
  BY <1>1, <1>2, <1>3, <1>6, <1>7, <1>8, CallLeavesHandles DEF Kept

LEMMA WriteKeeps ==
  ASSUME IInv, NEW t \in Thread, WriteStep(t), TypeOK'
  PROVE  Kept
BY WriteLogKeeps, AcquireLockKeeps, FindOrCreateIndexKeeps, ReadCountKeeps, StoreCountKeeps,
   WriteEntryKeeps DEF WriteStep

-----------------------------------------------------------------------------
(* The log with its viewer *)

LEMMA InitIInv == ViewInit => IInv /\ ViewReads
<1> SUFFICES ASSUME ViewInit PROVE IInv /\ ViewReads
  OBVIOUS
<1>1. TypeOK
  <2>1. /\ exists = FALSE /\ sized = FALSE /\ header = ZeroHeader /\ entries = <<>>
        /\ handle = [h \in Handle |-> Closed] /\ thread = [t \in Thread |-> NotWriting]
        /\ holder = [h \in Handle |-> NoThread] /\ lost = NoCount
        /\ writes = 0 /\ faults = 0
    BY DEF ViewInit, Init
  <2>2. <<>> \in Seq(Entry)
    OBVIOUS
  <2> HIDE DEF ZeroHeader, Closed, NotWriting, NoCount
  <2> QED
    BY <2>1, <2>2, ConstantsTyped DEF TypeOK
<1>2. /\ \A h \in Handle : handle[h].pc = "closed"
      /\ \A t \in Thread : thread[t].pc = "idle"
      /\ entries = <<>> /\ lost = NoCount /\ header.count = NoCount
  BY DEF ViewInit, Init, Closed, NotWriting, ZeroHeader
<1>3. OneWriter /\ StepsOfMode /\ OpenFileExists /\ FreshIsEmpty /\ CheckedIsMagic
      /\ IndexIsInFile /\ DirtyWhileWritten
  BY <1>2 DEF OneWriter, StepsOfMode, OpenFileExists, FreshIsEmpty, CheckedIsMagic,
              IndexIsInFile, DirtyWhileWritten, Handle
<1>4. CallsAreOpen /\ LockHeld /\ SeenIsCurrent /\ NamesKept
  BY <1>2 DEF CallsAreOpen, LockHeld, SeenIsCurrent, NamesKept
<1>5. CountersAccount
  <2> SUFFICES ASSUME NEW s \in Severity
               PROVE  header.count[s] = Cardinality(Of(s, Len(entries))) + lost[s] +
                        Cardinality({t \in Thread : thread[t].pc = "write" /\ thread[t].place.sev = s})
    BY DEF CountersAccount
  <2>1. Of(s, Len(entries)) = {}
    BY <1>2 DEF Of
  <2>2. {t \in Thread : thread[t].pc = "write" /\ thread[t].place.sev = s} = {}
    BY <1>2
  <2>3. header.count[s] = 0 /\ lost[s] = 0
    BY <1>2 DEF NoCount
  <2>4. Cardinality(Of(s, Len(entries))) = 0
    BY <2>1, FS_EmptySet
  <2>5. Cardinality({t \in Thread : thread[t].pc = "write" /\ thread[t].place.sev = s}) = 0
    BY <2>2, FS_EmptySet
  <2> QED
    BY <2>3, <2>4, <2>5
<1>6. ViewReads
  BY DEF ViewInit, NoView, ViewReads
<1> QED
  BY <1>1, <1>3, <1>4, <1>5, <1>6 DEF IInv

LEMMA AdoptKeeps ==
  ASSUME IInv, ViewReads, NEW r \in Reader, AdoptLog(r)
  PROVE  IInv' /\ ViewReads'
<1>1. /\ handle' = [h \in Handle |-> IF h = view.handle THEN Closed ELSE handle[h]]
      /\ UNCHANGED <<exists, sized, header, entries, thread, holder, lost, writes, faults>>
  BY DEF AdoptLog
<1>2. TypeOK'
  <2>1. handle' \in [Handle -> HandleState]
    <3>1. Closed \in HandleState /\ \A h \in Handle : handle[h] \in HandleState
      BY ConstantsTyped DEF IInv, TypeOK
    <3> HIDE DEF Closed
    <3> QED
      BY <1>1, <3>1
  <2> QED
    BY <1>1, <2>1 DEF IInv, TypeOK
<1>3. Kept
  <2>1. CASE view.handle \in Reader
    <3>1. Moves(view.handle)
      <4>1. handle'[view.handle].pc = "closed"
        BY <1>1, <2>1 DEF Closed, Handle
      <4>2. view.handle \notin Writer /\ view.handle \in Handle
        BY <2>1, HandleAssumption DEF Handle
      <4>3. \A g \in Handle \ {view.handle} : handle'[g] = handle[g]
        BY <1>1
      <4> QED
        BY <1>1, <2>1, <4>1, <4>2, <4>3 DEF Moves
    <3> QED
      BY <1>1, <1>2, <2>1, <3>1, MoveKeeps, LogKept DEF Kept, Handle
  <2>2. CASE view.handle = NoReader
    <3>1. handle' = handle
      BY <1>1, <2>2, ViewAssumption DEF IInv, TypeOK
    <3>2. SeenIsCurrent' /\ NamesKept' /\ CountersAccount'
      BY <1>1, LogKept
    <3> QED
      BY <1>1, <3>1, <3>2 DEF IInv, Kept, OneWriter, StepsOfMode, OpenFileExists, CallsAreOpen, LockHeld,
         FreshIsEmpty, CheckedIsMagic, IndexIsInFile, DirtyWhileWritten
  <2> QED
    BY <2>1, <2>2 DEF ViewReads
<1>4. ViewReads'
  BY DEF AdoptLog, NoView, ViewReads
<1> QED
  BY <1>2, <1>3, <1>4 DEF IInv, Kept

LEMMA NextKeeps ==
  ASSUME IInv, Next
  PROVE  IInv'
<1>1. ASSUME NEW h \in Handle, OpenLog(h) PROVE IInv'
  <2>1. TypeOK'
    BY <1>1, OpenLogTyped DEF IInv
  <2> QED
    BY <1>1, <2>1, OpenLogKeeps DEF IInv, Kept
<1>2. ASSUME NEW h \in Handle, Exit(h) \/ Crash(h) PROVE IInv'
  <2>1. TypeOK'
    BY <1>2, EndTyped DEF IInv
  <2> QED
    BY <1>2, <2>1, EndKeeps DEF IInv, Kept
<1>3. ASSUME NEW t \in Thread, WriteStep(t) PROVE IInv'
  <2>1. TypeOK'
    BY <1>3, WriteTyped DEF IInv
  <2> QED
    BY <1>3, <2>1, WriteKeeps DEF IInv, Kept
<1> QED
  BY <1>1, <1>2, <1>3 DEF Next

LEMMA StillKeeps ==
  ASSUME IInv, UNCHANGED logVars
  PROVE  IInv'
BY DEF IInv, logVars, TypeOK, OneWriter, StepsOfMode, OpenFileExists, CallsAreOpen, LockHeld,
   SeenIsCurrent, FreshIsEmpty, CheckedIsMagic, IndexIsInFile, NamesKept, Slots, SlotName,
   CountersAccount, Of,
   DirtyWhileWritten

LEMMA ViewNextKeeps ==
  ASSUME IInv, ViewReads, [ViewNext]_viewVars
  PROVE  IInv' /\ ViewReads'
<1>1. CASE LogStep
  <2>1. IInv'
    BY <1>1, NextKeeps DEF LogStep
  <2>2. ViewReads'
    BY <1>1 DEF LogStep, ViewReads, NoView
  <2> QED
    BY <2>1, <2>2
<1>2. ASSUME NEW r \in Reader, AdoptLog(r) PROVE IInv' /\ ViewReads'
  BY <1>2, AdoptKeeps
<1>3. ASSUME NEW f \in Filters, SetBackendFilters(f) PROVE IInv' /\ ViewReads'
  <2>1. IInv'
    BY <1>3, StillKeeps DEF SetBackendFilters
  <2>2. ViewReads'
    BY <1>3 DEF SetBackendFilters, ViewReads
  <2> QED
    BY <2>1, <2>2
<1>4. ASSUME NEW d \in 1 .. Len(view.lookup), GetLogEntryRawIndex(d) PROVE IInv' /\ ViewReads'
  <2>1. IInv'
    BY <1>4, StillKeeps DEF GetLogEntryRawIndex
  <2>2. ViewReads'
    BY <1>4 DEF GetLogEntryRawIndex, ViewReads
  <2> QED
    BY <2>1, <2>2
<1>5. CASE UNCHANGED viewVars
  <2>1. IInv'
    BY <1>5, StillKeeps DEF viewVars
  <2>2. ViewReads'
    BY <1>5 DEF viewVars, ViewReads
  <2> QED
    BY <2>1, <2>2
<1> QED
  BY <1>1, <1>2, <1>3, <1>4, <1>5 DEF ViewNext

\* Whatever processes open, write, fail and view, the invariant holds.
THEOREM Invariance == ViewSpec => [](IInv /\ ViewReads)
<1>1. ViewInit => IInv /\ ViewReads
  BY InitIInv
<1>2. IInv /\ ViewReads /\ [ViewNext]_viewVars => (IInv /\ ViewReads)'
  BY ViewNextKeeps
<1> QED
  BY <1>1, <1>2, PTL DEF ViewSpec

\* Every counter is the number of the entries written, of those on their way,
\* and of those that a failed write or the end of a process lost.
THEOREM CountersAreRight == ViewSpec => []CountersAccount
<1>1. IInv => CountersAccount
  BY DEF IInv
<1> QED
  BY <1>1, Invariance, PTL

\* While a process may write to the log its header is marked.
THEOREM WritersAreMarked == ViewSpec => []DirtyWhileWritten
<1>1. IInv => DirtyWhileWritten
  BY DEF IInv
<1> QED
  BY <1>1, Invariance, PTL

-----------------------------------------------------------------------------
(* What a successful open has seen *)

LEMMA ComparedIsWhole ==
  ASSUME IInv, NEW r \in Reader, CompareCounts(r), Step(r, "open")
  PROVE  /\ Total(handle[r].indexed) = Len(entries)
         /\ lost = NoCount
         /\ \A t \in Thread : thread[t].pc # "write"
<1> DEFINE T == Total(handle[r].indexed)
           n == Len(entries)
<1>1. handle[r].pc = "indexed" /\ handle'[r].pc = "open"
  BY DEF CompareCounts, Step, IInv, TypeOK, HandleState, Handle
<1>2. \A s \in Severity : Cardinality(Of(s, T)) = header.count[s]
  <2>1. handle'[r].pc # Closed.pc
    BY <1>1 DEF Closed
  <2>2. ~CloseLog(r)
    BY <2>1 DEF CloseLog, IInv, TypeOK, Handle
  <2> QED
    BY <2>2 DEF CompareCounts
<1>3. T \in Nat /\ n \in Nat /\ T <= n
  <2>1. T \in Nat
    BY CountedIsNat DEF Total, IInv, TypeOK, HandleState, Handle
  <2>2. n \in Nat
    BY DEF IInv, TypeOK
  <2>3. T <= n
    BY <1>1 DEF IInv, IndexIsInFile, Handle
  <2> QED
    BY <2>1, <2>2, <2>3
<1> HIDE DEF T
<1>4. ASSUME NEW s \in Severity
      PROVE  Of(s, T) = Of(s, n) /\ lost[s] = 0 /\ Writing(s) = {}
  <2>1. Of(s, T) \subseteq Of(s, n)
    BY <1>3 DEF Of
  <2>2. /\ IsFiniteSet(Of(s, n)) /\ Cardinality(Of(s, n)) \in Nat /\ Cardinality(Of(s, T)) \in Nat
        /\ IsFiniteSet(Writing(s)) /\ Cardinality(Writing(s)) \in Nat
    BY <1>3, CountFacts DEF IInv
  <2>3. /\ Cardinality(Of(s, T)) <= Cardinality(Of(s, n))
        /\ Cardinality(Of(s, n)) = Cardinality(Of(s, T)) => Of(s, n) = Of(s, T)
    BY <2>1, <2>2, FS_Subset
  <2>4. header.count[s] = Cardinality(Of(s, n)) + lost[s] + Cardinality(Writing(s))
    BY DEF IInv, CountersAccount, Writing
  <2>5. lost[s] \in Nat
    BY DEF IInv, TypeOK
  <2>6. Cardinality(Of(s, n)) = Cardinality(Of(s, T)) /\ lost[s] = 0 /\ Cardinality(Writing(s)) = 0
    BY <1>2, <2>2, <2>3, <2>4, <2>5
  <2> QED
    BY <2>2, <2>3, <2>6, FS_EmptySet
<1>5. T = n
  <2> SUFFICES ASSUME n > T PROVE FALSE
    BY <1>3
  <2>1. n \in 1 .. n /\ n \notin 1 .. T
    BY <1>3
  <2>2. entries[n].sev \in Severity
    <3>1. entries \in Seq(Entry)
      BY DEF IInv, TypeOK
    <3>2. entries[n] \in Entry
      BY <1>3, <2>1, <3>1
    <3> QED
      BY <3>2 DEF Entry
  <2>3. n \in Of(entries[n].sev, n)
    BY <2>1 DEF Of
  <2>4. n \notin Of(entries[n].sev, T)
    BY <2>1 DEF Of
  <2> QED
    BY <1>4, <2>2, <2>3, <2>4
<1>6. lost = NoCount
  BY <1>4 DEF NoCount, IInv, TypeOK
<1>7. ASSUME NEW t \in Thread, thread[t].pc = "write" PROVE FALSE
  <2>1. thread[t].place.sev \in Severity
    BY NameAssumption DEF IInv, TypeOK, ThreadState
  <2> QED
    BY <1>4, <1>7, <2>1 DEF Writing
<1> QED
  BY <1>5, <1>6, <1>7 DEF T

\* Only the comparison of the counters opens a handle for reading.
LEMMA ReaderOpens ==
  ASSUME IInv, [ViewNext]_viewVars, NEW r \in Reader,
         handle[r].pc # "open", handle'[r].pc = "open"
  PROVE  CompareCounts(r) /\ Step(r, "open")
<1> USE DEF Unwritten
<1>1. r \in Handle /\ r \notin Writer
  BY HandleAssumption DEF Handle
<1>2. \A h \in Handle : CloseLog(h) => handle'[r] = handle[r] \/ handle'[r].pc = "closed"
  BY <1>1 DEF CloseLog, Closed, IInv, TypeOK
<1>3. ASSUME NEW h \in Handle, NEW pc \in OpenStep, Step(h, pc)
      PROVE  h = r /\ pc = "open"
  BY <1>1, <1>3 DEF Step, IInv, TypeOK, HandleState
<1>4. ~UNCHANGED handle
  OBVIOUS
<1>5. ASSUME NEW h \in Handle, OpenLog(h) PROVE CompareCounts(r) /\ Step(r, "open")
  <2>1. ~\E d \in Disposition, app \in App \cup {NoApp} : OpenFile(h, d, app)
    <3> SUFFICES ASSUME NEW d \in Disposition, NEW app \in App \cup {NoApp}, OpenFile(h, d, app)
                 PROVE  FALSE
      OBVIOUS
    <3>1. \/ handle' = [handle EXCEPT ![h] = [Closed EXCEPT !.pc = "opened", !.app = app]]
          \/ handle' = [handle EXCEPT ![h] = [Closed EXCEPT !.pc = "created", !.app = app]]
      BY DEF OpenFile
    <3>2. handle'[r] = handle[r] \/ handle'[r].pc \in {"opened", "created"}
      <4>1. /\ [Closed EXCEPT !.pc = "opened", !.app = app].pc = "opened"
            /\ [Closed EXCEPT !.pc = "created", !.app = app].pc = "created"
        BY DEF Closed
      <4>2. handle \in [Handle -> HandleState]
        BY DEF IInv, TypeOK
      <4> HIDE DEF Closed
      <4> QED
        BY <1>1, <3>1, <4>1, <4>2
    <3> QED
      BY <3>2
  <2>2. ~SetLength(h)
    BY <1>2, <1>3 DEF SetLength, OpenStep
  <2>3. ~MapFile(h)
    <3> SUFFICES ASSUME MapFile(h), sized PROVE FALSE
      BY <1>2 DEF MapFile
    <3> DEFINE pc == IF handle[h].pc = "sized" THEN "mapped_new" ELSE "mapped"
    <3>1. handle' = [handle EXCEPT ![h] = [handle[h] EXCEPT !.pc = pc, !.mapped = Len(entries)]]
      BY DEF MapFile
    <3>2. [handle[h] EXCEPT !.pc = pc, !.mapped = Len(entries)].pc = pc
      BY DEF IInv, TypeOK, HandleState
    <3>3. handle'[r] = handle[r] \/ handle'[r].pc = pc
      BY <1>1, <3>1, <3>2 DEF IInv, TypeOK
    <3> QED
      BY <3>3
  <2>4. ~InitHeader(h)
    BY <1>2, <1>3 DEF InitHeader, OpenStep
  <2>5. ~CheckHeader(h)
    BY <1>2, <1>3 DEF CheckHeader, OpenStep
  <2>6. ~MarkDirty(h)
    BY <1>1, <1>3 DEF MarkDirty, OpenStep
  <2>7. ~QueryFile(h)
    BY <1>1 DEF QueryFile, IInv, TypeOK, HandleState
  <2>8. ~FillIndex(h)
    BY <1>1, <1>2 DEF FillIndex, IInv, TypeOK, HandleState
  <2>9. ~OpenFails(h)
    BY <1>2 DEF OpenFails
  <2>10. CompareCounts(h)
    BY <1>5, <2>1, <2>2, <2>3, <2>4, <2>5, <2>6, <2>7, <2>8, <2>9 DEF OpenLog
  <2>11. Step(h, "open")
    BY <1>2, <2>10 DEF CompareCounts
  <2>12. h = r
    BY <1>3, <2>11 DEF OpenStep
  <2> QED
    BY <2>10, <2>11, <2>12
<1>6. ASSUME NEW h \in Handle, Exit(h) \/ Crash(h) PROVE FALSE
  <2>1. handle' = [handle EXCEPT ![h] = Closed]
    BY <1>6 DEF Exit, Crash, CloseLog
  <2> QED
    BY <1>1, <2>1 DEF Closed, IInv, TypeOK
<1>7. ASSUME NEW t \in Thread, WriteStep(t) PROVE FALSE
  BY <1>4, <1>7 DEF WriteStep, WriteLog, AcquireLock, FindOrCreateIndex, ReadCount, StoreCount,
                    WriteEntry, Opened
<1>8. ASSUME NEW q \in Reader, AdoptLog(q) PROVE FALSE
  BY <1>1, <1>8 DEF AdoptLog, Closed
<1>9. UNCHANGED logVars => FALSE
  BY <1>4 DEF logVars
<1>10. Next
  BY <1>8, <1>9 DEF ViewNext, LogStep, SetBackendFilters, GetLogEntryRawIndex, viewVars
<1> QED
  BY <1>5, <1>6, <1>7, <1>10 DEF Next

\* A reader whose open succeeds has the whole log in its index, none of it
\* lost or on its way, whatever the writers do while it opens.
THEOREM OpenSeesAll == ViewSpec => OpenedLogIsWhole
<1> DEFINE Whole ==
      \A r \in Reader :
        handle[r].pc # "open" /\ handle'[r].pc = "open" =>
          /\ Total(handle[r].indexed) = Len(entries)
          /\ lost = NoCount
          /\ \A t \in Thread : thread[t].pc # "write"
<1>1. IInv /\ [ViewNext]_viewVars => Whole
  BY ReaderOpens, ComparedIsWhole
<1>2. IInv /\ [ViewNext]_viewVars => [Whole]_viewVars
  BY <1>1
<1> QED
  BY <1>2, Invariance, PTL DEF ViewSpec, OpenedLogIsWhole

-----------------------------------------------------------------------------
(* The log implements AppendLog *)

\* The records and the calls of AppendLog.
Log == [i \in DOMAIN entries |-> Named(entries[i])]
Call == [t \in Thread |-> IF thread[t].pc = "idle" THEN NoRecord ELSE thread[t].place]

AnyPlace == [sev : Severity, names : [Table -> Name \cup {NoName}]]

LEMMA FcnSeq ==
  ASSUME NEW S, NEW n \in Nat, NEW f \in [1 .. n -> S]
  PROVE  f \in Seq(S) /\ Len(f) = n
<1>1. f \in Seq(S)
  BY SeqDef
<1>2. Len(f) \in Nat /\ DOMAIN f = 1 .. Len(f)
  BY <1>1, LenProperties
<1>3. 1 .. Len(f) = 1 .. n
  BY <1>2
<1> QED
  BY <1>1, <1>2, <1>3

LEMMA LogIsSeq ==
  ASSUME IInv
  PROVE  Log \in Seq(AnyPlace) /\ Len(Log) = Len(entries)
<1>1. /\ entries \in Seq(Entry) /\ Len(entries) \in Nat /\ DOMAIN entries = 1 .. Len(entries)
  BY DEF IInv, TypeOK
<1>2. ASSUME NEW i \in 1 .. Len(entries) PROVE Named(entries[i]) \in AnyPlace
  <2>0. entries[i] \in Entry
    BY <1>1
  <2>1. entries[i].sev \in Severity
    BY <2>0 DEF Entry
  <2>2. ASSUME NEW k \in Table PROVE SlotName(header.table[k], entries[i].index[k]) \in Name \cup {NoName}
    <3>1. header.table[k] \in Seq(Fits)
      BY DEF IInv, TypeOK, HeaderState
    <3> QED
      BY <3>1, NameAssumption DEF SlotName
  <2> QED
    BY <2>1, <2>2 DEF Named, AnyPlace
<1>3. Log \in [1 .. Len(entries) -> AnyPlace]
  BY <1>1, <1>2 DEF Log
<1> QED
  BY <1>1, <1>3, FcnSeq

TablesSame == header'.table = header.table

\* A step that changes no entry and no table.
LEMMA LogSame ==
  ASSUME IInv, entries' = entries, TablesSame
  PROVE  Log' = Log
BY DEF Log, Named, SlotName, TablesSame

LogShape == Log \in Seq(AnyPlace) /\ Len(Log) = Len(entries)

LEMMA LogShapeNext == IInv' => LogShape'
<1>1. IInv => LogShape
  BY LogIsSeq DEF LogShape
<1> QED
  BY <1>1, PTL

LEMMA EmptyLogNext ==
  ASSUME IInv', entries' = <<>>
  PROVE  Log' = <<>>
<1>1. Len(Log') = 0 /\ Log' \in Seq(AnyPlace)
  BY LogShapeNext DEF LogShape
<1> QED
  BY <1>1, EmptySeq

\* What a step of the log may look like from outside.
Seen == Appended!Next \/ (Log' = Log /\ Call' = Call)

\* The calls of some threads end.
LEMMA EndsSeen ==
  ASSUME Log' = Log, NEW T \in SUBSET Thread,
         \A t \in T : thread'[t].pc = "idle",
         \A t \in Thread \ T : thread'[t] = thread[t]
  PROVE  Seen
<1>1. Call' = [t \in Thread |-> IF t \in T THEN NoRecord ELSE Call[t]]
  BY DEF Call
<1>2. Appended!Abandon(T)
  BY <1>1 DEF Appended!Abandon, Log, Call
<1> QED
  BY <1>2 DEF Appended!Next, Seen

LEMMA OpenLogSeen ==
  ASSUME IInv, IInv', NEW h \in Handle, OpenLog(h)
  PROVE  Seen
<1> USE DEF Unwritten
<1>0. ASSUME TablesSame, UNCHANGED <<entries, thread>> PROVE Seen
  BY <1>0, LogSame DEF Call, Seen
<1>1. CloseLog(h) => TablesSame
  BY DEF CloseLog, IInv, TypeOK, HeaderState, TablesSame
<1>2. header' = header => TablesSame
  BY DEF TablesSame
<1>3. ASSUME NEW d \in Disposition, NEW app \in App \cup {NoApp}, OpenFile(h, d, app)
      PROVE  Seen
  <2>1. CASE NewFile(d)
    <3>1. \A g \in Handle : handle[g].pc # "open"
      BY <2>1 DEF NewFile, Mapped, IInv, OpenFileExists
    <3>2. \A t \in Thread : thread[t].pc = "idle"
      BY <3>1 DEF IInv, CallsAreOpen, Handle
    <3>3. Log' = <<>>
      <4>1. entries' = <<>>
        BY <2>1 DEF NewFile
      <4> QED
        BY <4>1, EmptyLogNext
    <3>4. Call' = Call /\ \A t \in Thread : Call[t] = NoRecord
      BY <1>3, <3>2 DEF OpenFile, Call
    <3>5. Appended!Clear
      BY <3>3, <3>4 DEF Appended!Clear, Log, Call
    <3> QED
      BY <3>5 DEF Appended!Next, Seen
  <2>2. CASE UNCHANGED <<header, entries>>
    BY <1>0, <1>2, <1>3, <2>2 DEF OpenFile
  <2> QED
    BY <1>3, <2>1, <2>2 DEF OpenFile
<1>4. CASE SetLength(h)
  BY <1>0, <1>1, <1>2, <1>4 DEF SetLength
<1>5. CASE MapFile(h)
  BY <1>0, <1>1, <1>2, <1>5 DEF MapFile
<1>6. CASE InitHeader(h)
  <2>1. CASE handle[h].app = NoApp
    BY <1>0, <1>1, <1>6, <2>1 DEF InitHeader
  <2>2. CASE handle[h].app # NoApp
    <3>1. h \in Writer
      BY <1>6 DEF InitHeader, IInv, StepsOfMode, Handle
    <3>2. entries = <<>> /\ entries' = <<>> /\ thread' = thread
      BY <1>6, <3>1 DEF InitHeader, IInv, FreshIsEmpty
    <3> QED
      <4>1. Log = <<>> /\ Log' = <<>>
        BY <3>2, LogIsSeq, EmptySeq, EmptyLogNext
      <4> QED
        BY <3>2, <4>1 DEF Call, Seen
  <2> QED
    BY <2>1, <2>2
<1>7. CASE CheckHeader(h)
  BY <1>0, <1>1, <1>2, <1>7 DEF CheckHeader
<1>8. CASE MarkDirty(h)
  BY <1>0, <1>8 DEF MarkDirty, IInv, TypeOK, HeaderState, TablesSame
<1>9. CASE QueryFile(h)
  BY <1>0, <1>2, <1>9 DEF QueryFile
<1>10. CASE FillIndex(h)
  BY <1>0, <1>1, <1>2, <1>10 DEF FillIndex
<1>11. CASE CompareCounts(h)
  BY <1>0, <1>1, <1>2, <1>11 DEF CompareCounts
<1>12. CASE OpenFails(h)
  BY <1>0, <1>1, <1>12 DEF OpenFails
<1> QED
  BY <1>3, <1>4, <1>5, <1>6, <1>7, <1>8, <1>9, <1>10, <1>11, <1>12 DEF OpenLog

LEMMA EndSeen ==
  ASSUME IInv, NEW h \in Handle, Exit(h) \/ Crash(h)
  PROVE  Seen
<1>1. TablesSame /\ entries' = entries
  BY DEF Exit, Crash, CloseLog, IInv, TypeOK, HeaderState, TablesSame
<1>2. thread' = [t \in Thread |-> IF t \in Using(h) THEN NotWriting ELSE thread[t]]
  BY DEF Exit, Crash, Killed
<1>3. \A t \in Using(h) : thread'[t].pc = "idle"
  BY <1>2 DEF Using, NotWriting
<1>4. \A t \in Thread \ Using(h) : thread'[t] = thread[t]
  BY <1>2
<1>5. Using(h) \in SUBSET Thread
  BY DEF Using
<1> QED
  BY <1>1, <1>3, <1>4, <1>5, LogSame, EndsSeen

\* What the slots of a call's names say is what the call was given.
LEMMA WriteEntrySeen ==
  ASSUME IInv, IInv', NEW t \in Thread, WriteEntry(t)
  PROVE  Seen
<1> DEFINE place == thread[t].place
           new == [sev |-> place.sev, index |-> thread[t].index]
<1>1. thread[t].pc = "write" /\ Finish(t) /\ UNCHANGED <<handle, header>>
  BY DEF WriteEntry, Opened
<1>2. thread'[t].pc = "idle" /\ \A u \in Thread \ {t} : thread'[u] = thread[u]
  BY <1>1 DEF Finish, IInv, TypeOK, NotWriting
<1>3. TablesSame
  BY <1>1 DEF TablesSame
<1>4. CASE entries' = entries
  <2>1. Log' = Log
    BY <1>3, <1>4, LogSame
  <2> DEFINE T == {t}
  <2>2. T \in SUBSET Thread /\ \A u \in T : thread'[u].pc = "idle"
    BY <1>2
  <2>3. \A u \in Thread \ T : thread'[u] = thread[u]
    BY <1>2
  <2> HIDE DEF T
  <2> QED
    BY <2>1, <2>2, <2>3, EndsSeen
<1>5. CASE entries' = Append(entries, new)
  <2>1. place \in Place /\ place \in AnyPlace
    <3>1. place \in Place
      BY DEF IInv, TypeOK, ThreadState
    <3> QED
      BY <3>1, NameAssumption DEF AnyPlace
  <2>2. new \in Entry /\ entries \in Seq(Entry)
    <3>1. thread[t].index \in [Table -> Nat] /\ entries \in Seq(Entry)
      BY DEF IInv, TypeOK, ThreadState
    <3> QED
      BY <2>1, <3>1 DEF Entry, AnyPlace
  <2>3. /\ Len(entries) \in Nat
        /\ Len(Append(entries, new)) = Len(entries) + 1
        /\ Append(entries, new)[Len(entries) + 1] = new
        /\ \A j \in 1 .. Len(entries) : Append(entries, new)[j] = entries[j]
    BY <2>2, AppendFacts
  <2>4. Named(new) = place
    <3>1. \A k \in Table : SlotName(header.table[k], thread[t].index[k]) = place.names[k]
      BY <1>1 DEF IInv, NamesKept
    <3>2. [k \in Table |-> SlotName(header.table[k], new.index[k])] = place.names
      BY <2>1, <3>1 DEF AnyPlace
    <3> QED
      BY <2>1, <3>2 DEF Named, AnyPlace
  <2>5. Log' = Append(Log, place)
    <3>1. /\ Log \in Seq(AnyPlace) /\ Len(Log) = Len(entries)
          /\ Log' \in Seq(AnyPlace) /\ Len(Log') = Len(entries) + 1
      BY <1>5, <2>3, LogIsSeq, LogShapeNext DEF LogShape
    <3>2. /\ Append(Log, place) \in Seq(AnyPlace)
          /\ Len(Append(Log, place)) = Len(entries) + 1
          /\ Append(Log, place)[Len(entries) + 1] = place
          /\ \A j \in 1 .. Len(entries) : Append(Log, place)[j] = Log[j]
      <4> HIDE DEF place, Log
      <4> QED
        BY <2>1, <3>1, AppendFacts
    <3>3. Log'[Len(entries) + 1] = place
      <4>1. Len(entries) + 1 \in DOMAIN entries' /\ entries'[Len(entries) + 1] = new
        BY <1>5, <2>2, <2>3
      <4>2. Log'[Len(entries) + 1] = Named(entries'[Len(entries) + 1])
        BY <1>1, <4>1 DEF Log, Named, SlotName
      <4> QED
        BY <2>4, <4>1, <4>2
    <3>4. ASSUME NEW j \in 1 .. Len(entries) PROVE Log'[j] = Log[j]
      <4>1. j \in DOMAIN entries /\ j \in DOMAIN entries' /\ entries'[j] = entries[j]
        BY <1>5, <2>2, <2>3
      <4> QED
        BY <1>1, <4>1 DEF Log, Named, SlotName
    <3>5. \A j \in 1 .. Len(Log') : Log'[j] = Append(Log, place)[j]
      <4>1. ASSUME NEW j \in 1 .. Len(entries) + 1 PROVE j \in 1 .. Len(entries) \/ j = Len(entries) + 1
        BY <2>3
      <4> HIDE DEF place, Log, new
      <4> QED
        BY <3>1, <3>2, <3>3, <3>4, <4>1
    <3> HIDE DEF place, Log, new
    <3> QED
      BY <3>1, <3>2, <3>5, SeqEqual
  <2>6. Call[t] = place /\ Call[t] # NoRecord /\ Call' = [Call EXCEPT ![t] = NoRecord]
    BY <1>1, <1>2, <2>1, InputAssumption DEF Call
  <2>7. Appended!Write(t)
    BY <2>5, <2>6 DEF Appended!Write, Log, Call
  <2> QED
    BY <2>7 DEF Appended!Next, Seen
<1> QED
  BY <1>4, <1>5 DEF WriteEntry

\* A new name in table k: what the log's records say afterwards.
LEMMA LogFilled ==
  ASSUME IInv, NEW k \in Table, NEW name \in Fits, entries' = entries,
         header'.table = [header.table EXCEPT ![k] = Append(header.table[k], name)]
  PROVE  Log' = [i \in DOMAIN Log |->
           IF Log[i].names[k] = NoName THEN [Log[i] EXCEPT !.names[k] = name] ELSE Log[i]]
<1> DEFINE names == header.table[k]
<1>0. /\ names \in Seq(Fits) /\ Len(names) \in Nat /\ DOMAIN names = 1 .. Len(names)
      /\ header.table \in [Table -> Seq(Fits)]
  <2>1. header.table \in [Table -> Seq(Fits)]
    BY DEF IInv, TypeOK, HeaderState
  <2> QED
    BY <2>1
<1>1. /\ Append(names, name)[Len(names) + 1] = name
      /\ \A j \in 1 .. Len(names) : Append(names, name)[j] = names[j]
      /\ DOMAIN Append(names, name) = 1 .. Len(names) + 1
  <2> HIDE DEF names
  <2> QED
    BY <1>0
<1>2. /\ header'.table[k] = Append(names, name)
      /\ \A m \in Table \ {k} : header'.table[m] = header.table[m]
  BY <1>0
\* What a slot that an index refers to holds.
<1>3. ASSUME NEW j \in Slots(header.table[k])
      PROVE  /\ SlotName(header.table[k], j) = NoName => SlotName(header'.table[k], j) = name
             /\ SlotName(header.table[k], j) # NoName => SlotName(header'.table[k], j) = SlotName(header.table[k], j)
  <2>1. j \in 1 .. Len(names) \/ j = Len(names) + 1
    BY <1>0 DEF Slots
  <2>2. CASE j \in 1 .. Len(names)
    <3>1. SlotName(header.table[k], j) = names[j] /\ names[j] \in Fits
      BY <1>0, <2>2 DEF SlotName
    <3>2. names[j] # NoName
      BY <3>1, NameAssumption
    <3>3. j \in 1 .. Len(names) + 1
      <4> HIDE DEF names
      <4> QED
        BY <1>0, <2>2
    <3>4. SlotName(header'.table[k], j) = names[j]
      BY <1>1, <1>2, <2>2, <3>3 DEF SlotName
    <3> QED
      BY <3>1, <3>2, <3>4
  <2>3. CASE j = Len(names) + 1
    <3>1. j \notin DOMAIN names /\ j \in 1 .. Len(names) + 1
      <4> HIDE DEF names
      <4> QED
        BY <1>0, <2>3
    <3>2. SlotName(header.table[k], j) = NoName
      BY <3>1 DEF SlotName
    <3>3. SlotName(header'.table[k], j) = name
      BY <1>1, <1>2, <2>3, <3>1 DEF SlotName
    <3> QED
      BY <3>2, <3>3, NameAssumption
  <2> QED
    BY <2>1, <2>2, <2>3
<1>4. ASSUME NEW i \in DOMAIN entries
      PROVE  Named(entries[i])' =
               IF Named(entries[i]).names[k] = NoName
               THEN [Named(entries[i]) EXCEPT !.names[k] = name]
               ELSE Named(entries[i])
  <2> DEFINE e == entries[i]
             old == [m \in Table |-> SlotName(header.table[m], e.index[m])]
             new == [m \in Table |-> SlotName(header'.table[m], e.index[m])]
  <2>1. \A m \in Table \ {k} : new[m] = old[m]
    BY <1>2 DEF SlotName
  <2>2. e.index[k] \in Slots(header.table[k])
    BY DEF IInv, NamesKept
  <2>3. /\ old[k] = NoName => new[k] = name
        /\ old[k] # NoName => new[k] = old[k]
    BY <1>3, <2>2
  <2>4. Named(e) = [sev |-> e.sev, names |-> old] /\ Named(e)' = [sev |-> e.sev, names |-> new]
    BY DEF Named
  <2>5. old = [m \in Table |-> old[m]] /\ new = [m \in Table |-> new[m]]
    OBVIOUS
  <2> HIDE DEF e, old, new
  <2>6. new = IF old[k] = NoName THEN [old EXCEPT ![k] = name] ELSE old
    BY <2>1, <2>3, <2>5
  <2>7. Named(e)' = IF Named(e).names[k] = NoName THEN [Named(e) EXCEPT !.names[k] = name]
                    ELSE Named(e)
    BY <2>4, <2>6
  <2> QED
    BY <2>7 DEF e
<1>5. DOMAIN Log = DOMAIN entries /\ \A i \in DOMAIN entries : Log[i] = Named(entries[i])
  BY DEF Log
<1>6. Log' = [i \in DOMAIN entries |-> Named(entries[i])']
  BY DEF Log
<1> QED
  BY <1>4, <1>5, <1>6

\* A lookup that adds a name gives it to the records that left theirs out.
LEMMA FindOrCreateIndexSeen ==
  ASSUME IInv, IInv', NEW t \in Thread, FindOrCreateIndex(t)
  PROVE  Seen
<1> DEFINE k == thread[t].k
           name == thread[t].place.names[k]
           names == header.table[k]
<1>0. /\ thread[t] \in ThreadState /\ header \in HeaderState
      /\ k \in Table /\ names \in Seq(Fits) /\ name \in Name \cup {NoName}
  BY NameFacts
<1>1. thread[t].pc = "lookup" /\ entries' = entries
  BY DEF FindOrCreateIndex
<1>2. ASSUME Finish(t)
      PROVE  thread'[t].pc = "idle" /\ \A u \in Thread \ {t} : thread'[u] = thread[u]
  BY <1>2 DEF Finish, IInv, TypeOK, NotWriting
<1>3. ASSUME NEW i \in Nat, Found(t, i)
      PROVE  Call' = Call
  <2>1. \A u \in Thread \ {t} : thread'[u] = thread[u]
    BY <1>3 DEF Found, IInv, TypeOK
  <2>2. thread'[t] = [thread[t] EXCEPT !.index[k] = i, !.k = IF k = 3 THEN 1 ELSE k + 1,
                        !.pc = IF k = 3 THEN "read" ELSE "lookup"]
    BY <1>3 DEF Found, IInv, TypeOK
  <2>3. thread'[t].pc # "idle" /\ thread'[t].place = thread[t].place
    BY <1>0, <2>2 DEF ThreadState
  <2> QED
    BY <1>1, <2>1, <2>3 DEF Call
<1>4. \/ Finish(t)
      \/ \E i \in Nat : Found(t, i) /\ (Adds(t) => Copied(name) = name)
  <2>1. Len(names) + 1 \in Nat
    BY <1>0
  <2>2. name \in Range(names) => Slot(names, name) \in Nat
    BY <1>0, SlotFacts
  <2>3. CASE name \in Range(names) /\ Found(t, Slot(names, name)) /\ header' = header
    <3>1. ~Adds(t)
      <4> SUFFICES ASSUME Adds(t) PROVE FALSE
        OBVIOUS
      <4>1. header.table[k] = Append(names, Copied(name)) /\ name \in Name
        BY <1>0, <2>3 DEF Adds, HeaderState
      <4>2. Copied(name) \in Fits
        BY <4>1, NameAssumption DEF Copied
      <4>3. Len(Append(names, Copied(name))) = Len(names) + 1 /\ Len(names) \in Nat
        BY <1>0, <4>2, AppendFacts
      <4>4. Len(names) = Len(names) + 1
        BY <4>1, <4>3
      <4> HIDE DEF names
      <4> QED
        BY <4>3, <4>4
    <3> QED
      BY <2>2, <2>3, <3>1
  <2>4. CASE name = NoName /\ Found(t, Len(names) + 1)
    BY <2>1, <2>4, NameAssumption DEF Adds
  <2>5. CASE ~CopyFails(name) /\ Found(t, Len(names) + 1)
    BY <2>1, <2>5 DEF CopyFails, Copied
  <2> QED
    BY <1>0, <2>3, <2>4, <2>5 DEF FindOrCreateIndex
<1>5. CASE header' = header
  <2>1. Log' = Log
    BY <1>1, <1>5, LogSame DEF TablesSame
  <2>2. CASE Finish(t)
    <3> DEFINE T == {t}
    <3>1. T \in SUBSET Thread /\ \A u \in T : thread'[u].pc = "idle"
      BY <1>2, <2>2
    <3>2. \A u \in Thread \ T : thread'[u] = thread[u]
      BY <1>2, <2>2
    <3> HIDE DEF T
    <3> QED
      BY <2>1, <3>1, <3>2, EndsSeen
  <2>3. CASE \E i \in Nat : Found(t, i)
    BY <1>3, <2>1, <2>3 DEF Seen
  <2> QED
    BY <1>4, <2>2, <2>3
<1>6. CASE Adds(t)
  <2>1. name \in Name /\ header'.table = [header.table EXCEPT ![k] = Append(names, Copied(name))]
    BY <1>6 DEF Adds
  <2>2. Copied(name) \in Fits /\ Copied(name) \in Name
    BY <2>1, NameAssumption DEF Copied
  <2>3. Log' = [i \in DOMAIN Log |->
          IF Log[i].names[k] = NoName THEN [Log[i] EXCEPT !.names[k] = Copied(name)] ELSE Log[i]]
    BY <1>0, <1>1, <2>1, <2>2, LogFilled
  <2>4. Call[t] = thread[t].place /\ Call[t] # NoRecord
    <3>1. thread[t].place \in Place
      BY <1>0 DEF ThreadState
    <3> QED
      BY <1>1, <3>1, InputAssumption DEF Call
  <2>5. \/ Call[t].names[k] = Copied(name) /\ Call' = Call
        \/ Call' = [Call EXCEPT ![t] = NoRecord]
    <3>1. CASE Finish(t)
      BY <1>2, <3>1 DEF Call
    <3>2. CASE \E i \in Nat : Found(t, i) /\ Copied(name) = name
      BY <1>3, <2>4, <3>2
    <3> QED
      BY <1>4, <1>6, <3>1, <3>2
  <2>6. PICK field \in Table, given \in Name : field = k /\ given = Copied(name)
    BY <1>0, <2>2
  <2>7. Appended!Fill(field, given)
    BY <2>3, <2>4, <2>5, <2>6 DEF Appended!Fill, Log, Call
  <2> QED
    BY <2>7 DEF Appended!Next, Seen
<1> QED
  BY <1>5, <1>6, TablesGrow

LEMMA WriteSeen ==
  ASSUME IInv, IInv', NEW t \in Thread, WriteStep(t)
  PROVE  Seen
<1>0. ASSUME TablesSame, entries' = entries,
             \A u \in Thread \ {t} : thread'[u] = thread[u],
             thread[t].pc # "idle", thread'[t].pc # "idle", thread'[t].place = thread[t].place
      PROVE  Seen
  <2>1. Call' = Call
    BY <1>0 DEF Call
  <2> QED
    BY <1>0, <2>1, LogSame DEF Seen
<1>1. ASSUME NEW h \in Writer, NEW place \in Place, WriteLog(t, h, place) PROVE Seen
  <2>1. thread' = [thread EXCEPT ![t] =
          [NotWriting EXCEPT !.pc = "lock", !.handle = h, !.place = place]]
    BY <1>1 DEF WriteLog
  <2>2. /\ thread'[t].pc = "lock" /\ thread'[t].place = place
        /\ \A u \in Thread \ {t} : thread'[u] = thread[u]
    BY <2>1 DEF IInv, TypeOK, NotWriting
  <2>3. thread[t].pc = "idle" /\ TablesSame /\ entries' = entries
    BY <1>1 DEF WriteLog, TablesSame
  <2>4. Call[t] = NoRecord /\ Call' = [Call EXCEPT ![t] = place]
    BY <2>2, <2>3 DEF Call
  <2>5. Log' = Log
    BY <2>3, LogSame
  <2>6. Appended!Begin(t, place)
    BY <2>4, <2>5 DEF Appended!Begin, Log, Call
  <2> QED
    BY <2>6 DEF Appended!Next, Seen
<1>2. CASE AcquireLock(t)
  <2>1. thread'[t] = [thread[t] EXCEPT !.pc = "lookup"] /\ thread[t] \in ThreadState
    BY <1>2 DEF AcquireLock, IInv, TypeOK
  <2>2. thread'[t].pc = "lookup" /\ thread'[t].place = thread[t].place
    BY <2>1, PcFields
  <2>3. \A u \in Thread \ {t} : thread'[u] = thread[u]
    BY <1>2 DEF AcquireLock, IInv, TypeOK
  <2>4. thread[t].pc = "lock" /\ TablesSame /\ entries' = entries
    BY <1>2 DEF AcquireLock, TablesSame
  <2> QED
    BY <1>0, <2>2, <2>3, <2>4
<1>3. CASE FindOrCreateIndex(t)
  BY <1>3, FindOrCreateIndexSeen
<1>4. CASE ReadCount(t)
  <2>1. /\ thread'[t] = [thread[t] EXCEPT !.pc = "store", !.seen = header.count[thread[t].place.sev]]
        /\ thread[t] \in ThreadState
    BY <1>4 DEF ReadCount, IInv, TypeOK
  <2>2. thread'[t].pc = "store" /\ thread'[t].place = thread[t].place
    BY <2>1, SeenFields
  <2>3. \A u \in Thread \ {t} : thread'[u] = thread[u]
    BY <1>4 DEF ReadCount, IInv, TypeOK
  <2>4. thread[t].pc = "read" /\ TablesSame /\ entries' = entries
    BY <1>4 DEF ReadCount, TablesSame
  <2> QED
    BY <1>0, <2>2, <2>3, <2>4
<1>5. CASE StoreCount(t)
  <2>1. thread'[t] = [thread[t] EXCEPT !.pc = "write"] /\ thread[t] \in ThreadState
    BY <1>5 DEF StoreCount, IInv, TypeOK
  <2>2. thread'[t].pc = "write" /\ thread'[t].place = thread[t].place
    BY <2>1, PcFields
  <2>3. \A u \in Thread \ {t} : thread'[u] = thread[u]
    BY <1>5 DEF StoreCount, IInv, TypeOK
  <2>4. thread[t].pc = "store" /\ TablesSame /\ entries' = entries
    BY <1>5 DEF StoreCount, TablesSame, IInv, TypeOK, HeaderState
  <2> QED
    BY <1>0, <2>2, <2>3, <2>4
<1>6. CASE WriteEntry(t)
  BY <1>6, WriteEntrySeen
<1> QED
  BY <1>1, <1>2, <1>3, <1>4, <1>5, <1>6 DEF WriteStep

LEMMA ViewSeen ==
  ASSUME IInv, IInv', [ViewNext]_viewVars
  PROVE  Seen
<1>1. ASSUME UNCHANGED <<header, entries, thread>> PROVE Seen
  BY <1>1, LogSame DEF TablesSame, Call, Seen
<1>2. CASE Next
  BY <1>2, OpenLogSeen, EndSeen, WriteSeen DEF Next
<1>3. \/ Next
      \/ UNCHANGED <<header, entries, thread>>
  BY DEF ViewNext, LogStep, AdoptLog, SetBackendFilters, GetLogEntryRawIndex, viewVars, logVars
<1> QED
  BY <1>1, <1>2, <1>3

\* Each call that ends adds one entry with its severity and its names, or
\* none, and no later step changes what an entry says, except that the names
\* left out of a table (vxlwrite.c:65-75) all turn into the next new name that
\* a call brings to it (vxlpriv.c:182-185): the log with all its tables is an
\* AppendLog.
THEOREM LogAppends == ViewSpec => ImplementsAppendLog
<1>1. ViewInit => Appended!Init
  <2> SUFFICES ASSUME ViewInit PROVE Appended!Init
    OBVIOUS
  <2>1. IInv /\ entries = <<>>
    BY InitIInv DEF ViewInit, Init
  <2>2. Log = <<>>
    BY <2>1, LogIsSeq, EmptySeq
  <2>3. Call = [t \in Thread |-> NoRecord]
    BY DEF ViewInit, Init, NotWriting, Call
  <2> QED
    BY <2>2, <2>3 DEF Appended!Init, Log, Call
<1>2. IInv /\ IInv' /\ [ViewNext]_viewVars => Appended!Next \/ UNCHANGED <<Log, Call>>
  BY ViewSeen DEF Seen
<1>3. IInv /\ IInv' /\ [ViewNext]_viewVars =>
        [Appended!Next]_<<[i \in DOMAIN entries |-> Named(entries[i])],
                          [t \in Thread |-> IF thread[t].pc = "idle" THEN NoRecord
                                            ELSE thread[t].place]>>
  BY <1>2 DEF Log, Call
<1> QED
  BY <1>1, <1>3, Invariance, PTL DEF ViewSpec, ImplementsAppendLog, Appended!Spec
-----------------------------------------------------------------------------
(* What the viewer's rows are *)

\* The entries of an index of n are in the file, and the counters say so.
Covers(n) ==
  /\ n <= Len(entries)
  /\ \A s \in Severity : Cardinality(Of(s, n)) <= header.count[s]

\* An open reader's index is in the file, and the counters are no less than
\* they were when it was built.
OpenIsIndexed ==
  \A r \in Reader : handle[r].pc = "open" => Covers(Indexed(r))

ViewState ==
  [handle : Reader \cup {NoReader}, entries : Nat, filtered : BOOLEAN,
   filters : Filters, lookup : Seq(Nat), stray : Stray]

\* The entries in an index of n that pass, and all that the viewer takes for
\* entries that pass.
InIndex(f, n, file) == {i \in 1 .. n : LogEntryMatchesFilters(f, file[i])}
Passing(v, n, file) ==
  {i \in 1 .. v.entries : LogEntryMatchesFilters(v.filters, IF i <= n THEN file[i] ELSE v.stray)}

\* Number i in row d: an entry that passes, and the d-th where rows are exact.
RowFits(P, exact, d, i) ==
  /\ i \in P
  /\ exact => Cardinality({j \in P : j <= i}) = d

RowsFit(v, n, file) ==
  LET P == Passing(v, n, file)
      exact == v.entries < ExactLimit
  IN
  /\ exact => Len(v.lookup) = Cardinality(P)
  /\ Cardinality(InIndex(v.filters, n, file)) <= Len(v.lookup)
  /\ \A d \in 1 .. Len(v.lookup) : v.lookup[d] # 0 => RowFits(P, exact, d, v.lookup[d])

\* What is shown is open, and no shorter than its index.
ShownIsOpen ==
  view.handle # NoReader =>
    /\ handle[view.handle].pc = "open"
    /\ Indexed(view.handle) <= view.entries
    /\ view.entries <= Total(header.count)

ViewFits ==
  /\ view \in ViewState
  /\ ShownIsOpen
  /\ ~view.filtered => view.lookup = <<>>
  /\ view.filtered =>
       view.handle # NoReader /\ RowsFit(view, Indexed(view.handle), entries)

\* The numbers are what can be counted to.
LEMMA Numbers ==
  ASSUME NEW T \in SUBSET Nat, 0 \in T, \A n \in T : n + 1 \in T
  PROVE  T = Nat
<1> DEFINE R == OpToRel(<, Nat)
           M == Nat \ T
<1> SUFFICES ASSUME M # {} PROVE FALSE
  OBVIOUS
<1>1. IsWellFoundedOn(R, Nat)
  BY NatLessThanWellFounded
<1>2. \A x, y \in Nat : x < y => <<x, y>> \in R
  BY DEF OpToRel
<1> HIDE DEF R
<1>3. PICK x \in M : \A y \in M : ~ (<<y, x>> \in R)
  BY <1>1, WFMin
<1>4. \A y \in M : ~(y < x)
  BY <1>2, <1>3
<1>5. x # 0 /\ x \in Nat /\ x \notin T
  BY <1>3
<1>6. x - 1 \in Nat /\ x - 1 < x /\ (x - 1) + 1 = x
  BY <1>5
<1>7. x - 1 \in T
  BY <1>4, <1>6
<1> QED
  BY <1>5, <1>6, <1>7

\* The least of some numbers.
LEMMA LeastOf ==
  ASSUME NEW S \in SUBSET Nat, S # {}
  PROVE  Min(S) \in S /\ \A j \in S : Min(S) <= j
<1> DEFINE R == OpToRel(<, Nat)
<1>1. IsWellFoundedOn(R, Nat)
  BY NatLessThanWellFounded
<1>2. \A x, y \in Nat : x < y => <<x, y>> \in R
  BY DEF OpToRel
<1> HIDE DEF R
<1>3. PICK x \in S : \A y \in S : ~ (<<y, x>> \in R)
  BY <1>1, WFMin
<1>4. \A y \in S : x <= y
  <2>1. \A y \in S : ~ (y < x)
    BY <1>2, <1>3
  <2>2. x \in Nat /\ \A y \in S : y \in Nat
    BY <1>3
  <2> QED
    BY <2>1, <2>2
<1>5. \E m \in S : \A y \in S : m <= y
  BY <1>4
<1>6. Min(S) = CHOOSE m \in S : \A y \in S : m <= y
  BY DEF Min
<1> DEFINE least == CHOOSE m \in S : \A y \in S : m <= y
<1>7. least \in S /\ \A y \in S : least <= y
  BY <1>5
<1> QED
  BY <1>6, <1>7

\* More of each is more in all.
LEMMA CountedGrows ==
  ASSUME NEW S \in SUBSET Severity, NEW c \in [Severity -> Nat], NEW d \in [Severity -> Nat],
         \A s \in Severity : c[s] <= d[s]
  PROVE  Counted(c, S) <= Counted(d, S)
<1> DEFINE C == UNION {{s} \X (1 .. c[s]) : s \in S}
           D == UNION {{s} \X (1 .. d[s]) : s \in S}
<1>1. ASSUME NEW x \in C PROVE x \in D
  <2>1. PICK s \in S : x \in {s} \X (1 .. c[s])
    OBVIOUS
  <2>2. 1 .. c[s] \subseteq 1 .. d[s]
    OBVIOUS
  <2> QED
    BY <2>1, <2>2
<1>2. IsFiniteSet(D)
  BY CountedIsFinite
<1>3. C \in SUBSET D
  BY <1>1
<1> HIDE DEF C, D
<1>4. Cardinality(C) <= Cardinality(D)
  BY <1>2, <1>3, FS_Subset
<1> QED
  BY <1>4 DEF C, D, Counted

\* Counters that are enough for each severity are enough for several: an
\* entry is named by its severity and by how many of it there are up to it.
LEMMA CountedIsEnough ==
  ASSUME TypeOK, NEW n \in Nat, n <= Len(entries), NEW count \in [Severity -> Nat],
         \A s \in Severity : Cardinality(Of(s, n)) <= count[s],
         NEW S \in SUBSET Severity
  PROVE  Cardinality({i \in 1 .. n : entries[i].sev \in S}) <= Counted(count, S)
<1> DEFINE P == {i \in 1 .. n : entries[i].sev \in S}
           C == UNION {{s} \X (1 .. count[s]) : s \in S}
           rank(i) == Cardinality(Of(entries[i].sev, i))
           f == [i \in P |-> <<entries[i].sev, rank(i)>>]
<1>1. ASSUME NEW i \in P
      PROVE  entries[i].sev \in S /\ rank(i) \in 1 .. count[entries[i].sev]
  <2> DEFINE s == entries[i].sev
  <2>1. s \in S /\ i \in Nat /\ i <= n /\ i \in Of(s, i) /\ Of(s, i) \subseteq Of(s, n)
    BY DEF Of
  <2> HIDE DEF s
  <2>2. /\ IsFiniteSet(Of(s, i)) /\ Cardinality(Of(s, i)) \in Nat
        /\ IsFiniteSet(Of(s, n)) /\ Cardinality(Of(s, n)) \in Nat
    BY <2>1, CountFacts
  <2>3. Cardinality(Of(s, i)) <= Cardinality(Of(s, n))
    BY <2>1, <2>2, FS_Subset
  <2>4. Cardinality(Of(s, i)) # 0
    BY <2>1, <2>2, FS_EmptySet
  <2>5. Cardinality(Of(s, n)) <= count[s] /\ count[s] \in Nat
    BY <2>1
  <2>6. Cardinality(Of(s, i)) \in 1 .. count[s]
    BY <2>2, <2>3, <2>4, <2>5
  <2> QED
    BY <2>1, <2>6 DEF s
<1>2. f \in [P -> C]
  <2>1. ASSUME NEW i \in P PROVE <<entries[i].sev, rank(i)>> \in C
    <3> HIDE DEF rank
    <3> QED
      BY <1>1
  <2> QED
    BY <2>1
<1>3. ASSUME NEW i \in P, NEW j \in P, i < j PROVE f[i] # f[j]
  <2> SUFFICES ASSUME entries[i].sev = entries[j].sev PROVE rank(i) # rank(j)
    OBVIOUS
  <2> DEFINE s == entries[i].sev
  <2>1. /\ s \in Severity /\ i \in Nat /\ j \in Nat
        /\ Of(s, i) \subseteq Of(s, j) /\ j \in Of(s, j) /\ j \notin Of(s, i)
    BY <1>3 DEF Of
  <2> HIDE DEF s
  <2>2. IsFiniteSet(Of(s, j))
    BY <2>1, CountFacts
  <2>3. Cardinality(Of(s, i)) # Cardinality(Of(s, j))
    BY <2>1, <2>2, FS_Subset
  <2> QED
    BY <2>3 DEF s
<1>4. f \in Injection(P, C)
  <2>0. DOMAIN f = P
    OBVIOUS
  <2>1. \A i, j \in P : f[i] = f[j] => i = j
    <3> HIDE DEF f
    <3>1. \A i, j \in P : i \in Nat /\ j \in Nat
      OBVIOUS
    <3> QED
      BY <1>3, <3>1
  <2> HIDE DEF f
  <2> QED
    BY <1>2, <2>0, <2>1 DEF Injection, IsInjective
<1>5. IsFiniteSet(C)
  BY CountedIsFinite
<1> HIDE DEF P, C, f
<1>6. Cardinality(P) <= Cardinality(C)
  BY <1>4, <1>5, FS_Injection
<1> QED
  BY <1>6 DEF P, C, Counted
-----------------------------------------------------------------------------
\* While somebody has the file mapped it only grows.
FileGrows ==
  /\ \A s \in Severity : header.count[s] <= header'.count[s]
  /\ Len(entries) <= Len(entries')
  /\ \A i \in 1 .. Len(entries) : entries'[i] = entries[i]

Stays(r) == handle'[r] = handle[r] \/ handle'[r].pc = "closed"

LEMMA SameGrows ==
  ASSUME IInv, header'.count = header.count, entries' = entries
  PROVE  FileGrows
<1>1. Len(entries) \in Nat /\ \A s \in Severity : header.count[s] \in Nat
  BY DEF IInv, TypeOK, HeaderState
<1> QED
  BY <1>1 DEF FileGrows

\* A file whose header is about to be written has counted nothing.
LEMMA FreshCountsNothing ==
  ASSUME IInv, NEW w \in Writer, handle[w].pc = "mapped_new"
  PROVE  \A s \in Severity : header.count[s] = 0
<1> SUFFICES ASSUME NEW s \in Severity PROVE header.count[s] = 0
  OBVIOUS
<1>1. entries = <<>> /\ lost[s] = 0
  BY DEF IInv, FreshIsEmpty, NoCount
<1>2. Of(s, Len(entries)) = {}
  BY <1>1 DEF Of
<1>3. {t \in Thread : thread[t].pc = "write" /\ thread[t].place.sev = s} = {}
  BY DEF IInv, CallsAreOpen, OneWriter
<1>4. /\ Cardinality(Of(s, Len(entries))) = 0
      /\ Cardinality({t \in Thread : thread[t].pc = "write" /\ thread[t].place.sev = s}) = 0
  BY <1>2, <1>3, FS_EmptySet
<1> QED
  BY <1>1, <1>4 DEF IInv, CountersAccount

LEMMA OpenLogGrows ==
  ASSUME IInv, NEW r \in Reader, handle[r].pc = "open", NEW h \in Handle, OpenLog(h)
  PROVE  FileGrows /\ Stays(r)
<1> USE DEF Unwritten
<1>1. r \in Handle /\ r \notin Writer
  BY HandleAssumption DEF Handle
<1>2. CloseLog(h) => header'.count = header.count /\ (h # r => handle'[r] = handle[r])
  BY <1>1 DEF CloseLog, IInv, TypeOK, HeaderState
<1>3. ASSUME NEW pc \in OpenStep, Step(h, pc), h # r PROVE handle'[r] = handle[r]
  BY <1>1, <1>3 DEF Step, IInv, TypeOK
<1>4. ASSUME NEW d \in Disposition, NEW app \in App \cup {NoApp}, OpenFile(h, d, app)
      PROVE  FileGrows /\ Stays(r)
  <2>1. ~NewFile(d)
    BY <1>1 DEF NewFile, Mapped, IInv, OpenFileExists
  <2>2. UNCHANGED <<header, entries>>
    BY <1>4, <2>1 DEF OpenFile
  <2>3. handle'[r] = handle[r]
    <3>1. h # r
      BY <1>4 DEF OpenFile
    <3>2. \E new : handle' = [handle EXCEPT ![h] = new]
      BY <1>4 DEF OpenFile
    <3> QED
      BY <1>1, <3>1, <3>2 DEF IInv, TypeOK
  <2> QED
    BY <2>2, <2>3, SameGrows DEF Stays
<1>5. CASE SetLength(h)
  <2>1. header'.count = header.count /\ entries' = entries /\ h # r /\ handle'[r] = handle[r]
    BY <1>2, <1>3, <1>5 DEF SetLength, OpenStep
  <2> QED
    BY <2>1, SameGrows DEF Stays
<1>6. CASE MapFile(h)
  <2>1. h # r /\ entries' = entries
    BY <1>6 DEF MapFile
  <2>2. header'.count = header.count
    BY <1>2, <1>6 DEF MapFile
  <2>3. handle'[r] = handle[r]
    <3>1. CASE ~sized
      BY <1>2, <1>6, <2>1, <3>1 DEF MapFile
    <3>2. CASE sized
      <4>1. \E new : handle' = [handle EXCEPT ![h] = new]
        BY <1>6, <3>2 DEF MapFile
      <4> QED
        BY <1>1, <2>1, <4>1 DEF IInv, TypeOK
    <3> QED
      BY <3>1, <3>2
  <2> QED
    BY <2>1, <2>2, <2>3, SameGrows DEF Stays
<1>7. CASE InitHeader(h)
  <2>1. h # r /\ entries' = entries /\ handle'[r] = handle[r]
    BY <1>2, <1>3, <1>7 DEF InitHeader, OpenStep
  <2>2. CASE handle[h].app = NoApp
    BY <1>2, <1>7, <2>1, <2>2, SameGrows DEF InitHeader, Stays
  <2>3. CASE handle[h].app # NoApp
    <3>1. h \in Writer /\ handle[h].pc = "mapped_new"
      BY <1>7 DEF InitHeader, IInv, StepsOfMode, Handle
    <3>2. \A s \in Severity : header.count[s] = 0
      BY <3>1, FreshCountsNothing
    <3>3. header'.count = NoCount
      BY <1>7, <2>3 DEF InitHeader, ZeroHeader
    <3>4. \A s \in Severity : header'.count[s] = 0
      BY <3>3 DEF NoCount
    <3>5. header'.count = header.count
      BY <3>2, <3>3 DEF NoCount, IInv, TypeOK, HeaderState
    <3> QED
      BY <2>1, <3>5, SameGrows DEF Stays
  <2> QED
    BY <2>2, <2>3
<1>8. CASE CheckHeader(h)
  <2>1. header'.count = header.count /\ entries' = entries /\ h # r /\ handle'[r] = handle[r]
    BY <1>2, <1>3, <1>8 DEF CheckHeader, OpenStep
  <2> QED
    BY <2>1, SameGrows DEF Stays
<1>9. CASE MarkDirty(h)
  <2>1. header'.count = header.count /\ entries' = entries /\ h # r
    BY <1>9 DEF MarkDirty, IInv, TypeOK, HeaderState
  <2>2. handle'[r] = handle[r]
    BY <1>3, <1>9, <2>1 DEF MarkDirty, OpenStep
  <2> QED
    BY <2>1, <2>2, SameGrows DEF Stays
<1>10. CASE QueryFile(h)
  <2>1. header' = header /\ entries' = entries /\ h # r
    BY <1>10 DEF QueryFile
  <2>2. handle'[r] = handle[r]
    BY <1>1, <1>10, <2>1 DEF QueryFile, IInv, TypeOK
  <2> QED
    BY <2>1, <2>2, SameGrows DEF Stays
<1>11. CASE FillIndex(h)
  <2>1. header'.count = header.count /\ entries' = entries /\ h # r
    BY <1>2, <1>11 DEF FillIndex
  <2>2. handle'[r] = handle[r]
    <3>1. CloseLog(h) \/ \E new : handle' = [handle EXCEPT ![h] = new]
      BY <1>11 DEF FillIndex
    <3> QED
      BY <1>1, <1>2, <2>1, <3>1 DEF IInv, TypeOK
  <2> QED
    BY <2>1, <2>2, SameGrows DEF Stays
<1>12. CASE CompareCounts(h)
  <2>1. header'.count = header.count /\ entries' = entries /\ h # r /\ handle'[r] = handle[r]
    BY <1>2, <1>3, <1>12 DEF CompareCounts, OpenStep
  <2> QED
    BY <2>1, SameGrows DEF Stays
<1>13. CASE OpenFails(h)
  <2>1. header'.count = header.count /\ entries' = entries /\ h # r /\ handle'[r] = handle[r]
    BY <1>2, <1>13 DEF OpenFails
  <2> QED
    BY <2>1, SameGrows DEF Stays
<1> QED
  BY <1>4, <1>5, <1>6, <1>7, <1>8, <1>9, <1>10, <1>11, <1>12, <1>13 DEF OpenLog

LEMMA WriteGrows ==
  ASSUME IInv, NEW t \in Thread, WriteStep(t)
  PROVE  FileGrows /\ handle' = handle
<1>0. thread[t] \in ThreadState /\ header \in HeaderState /\ entries \in Seq(Entry)
  BY DEF IInv, TypeOK
<1>1. ASSUME NEW h \in Writer, NEW place \in Place, WriteLog(t, h, place)
      PROVE  FileGrows /\ handle' = handle
  BY <1>1, SameGrows DEF WriteLog, Opened
<1>2. CASE AcquireLock(t)
  BY <1>2, SameGrows DEF AcquireLock, Opened
<1>3. CASE FindOrCreateIndex(t)
  <2>1. header'.count = header.count
    BY <1>3, TablesGrow
  <2> QED
    BY <1>3, <2>1, SameGrows DEF FindOrCreateIndex, Opened
<1>4. CASE ReadCount(t)
  BY <1>4, SameGrows DEF ReadCount, Opened
<1>5. CASE StoreCount(t)
  <2> DEFINE sev == thread[t].place.sev
  <2>1. sev \in Severity
    BY <1>0, NameAssumption DEF ThreadState
  <2>2. header'.count = [header.count EXCEPT ![sev] = thread[t].seen + 1]
    BY <1>0, <1>5 DEF StoreCount, HeaderState
  <2>3. thread[t].seen = header.count[sev]
    BY <1>5 DEF StoreCount, IInv, SeenIsCurrent
  <2>4. header.count \in [Severity -> Nat] /\ Len(entries) \in Nat
    BY <1>0 DEF HeaderState
  <2>5. \A s \in Severity : header.count[s] <= header'.count[s]
    <3> HIDE DEF sev
    <3> QED
      BY <2>1, <2>2, <2>3, <2>4
  <2>6. entries' = entries /\ handle' = handle
    BY <1>5 DEF StoreCount, Opened
  <2> QED
    BY <2>4, <2>5, <2>6 DEF FileGrows
<1>6. CASE WriteEntry(t)
  <2> DEFINE new == [sev |-> thread[t].place.sev, index |-> thread[t].index]
  <2>1. UNCHANGED <<header, handle>>
    BY <1>6 DEF WriteEntry, Opened
  <2>2. CASE entries' = entries
    BY <2>1, <2>2, SameGrows
  <2>3. CASE entries' = Append(entries, new)
    <3>1. new \in Entry
      BY <1>0, NameAssumption DEF Entry, ThreadState
    <3>2. /\ Len(entries) \in Nat /\ Len(entries') = Len(entries) + 1
          /\ \A j \in 1 .. Len(entries) : entries'[j] = entries[j]
      BY <1>0, <2>3, <3>1, AppendFacts
    <3>3. \A s \in Severity : header.count[s] \in Nat
      BY <1>0 DEF HeaderState
    <3> QED
      BY <2>1, <3>2, <3>3 DEF FileGrows
  <2> QED
    BY <1>6, <2>2, <2>3 DEF WriteEntry
<1> QED
  BY <1>1, <1>2, <1>3, <1>4, <1>5, <1>6 DEF WriteStep

\* What an open reader has indexed stays in the file, unless it is closed.
LEMMA NextGrows ==
  ASSUME IInv, Next, NEW r \in Reader, handle[r].pc = "open"
  PROVE  FileGrows /\ Stays(r)
<1>1. ASSUME NEW h \in Handle, OpenLog(h) PROVE FileGrows /\ Stays(r)
  BY <1>1, OpenLogGrows
<1>2. ASSUME NEW h \in Handle, Exit(h) \/ Crash(h) PROVE FileGrows /\ Stays(r)
  <2>1. header'.count = header.count /\ entries' = entries
    BY <1>2 DEF Exit, Crash, CloseLog, IInv, TypeOK, HeaderState
  <2>2. handle' = [handle EXCEPT ![h] = Closed]
    BY <1>2 DEF Exit, Crash, CloseLog
  <2>3. Stays(r)
    BY <2>2 DEF Stays, Closed, Handle, IInv, TypeOK
  <2> QED
    BY <2>1, <2>3, SameGrows
<1>3. ASSUME NEW t \in Thread, WriteStep(t) PROVE FileGrows /\ Stays(r)
  BY <1>3, WriteGrows DEF Stays
<1> QED
  BY <1>1, <1>2, <1>3 DEF Next

LEMMA CoversGrows ==
  ASSUME IInv, IInv', FileGrows, NEW n \in Nat, Covers(n)
  PROVE  Covers(n)'
<1>1. Len(entries) \in Nat /\ Len(entries') \in Nat
  BY DEF IInv, TypeOK
<1>2. n <= Len(entries')
  BY <1>1 DEF Covers, FileGrows
<1>3. ASSUME NEW s \in Severity PROVE Cardinality(Of(s, n)') <= header'.count[s]
  <2>1. \A i \in 1 .. n : entries'[i] = entries[i]
    BY <1>1 DEF Covers, FileGrows
  <2>2. Of(s, n)' = Of(s, n)
    BY <2>1 DEF Of
  <2>3. /\ Cardinality(Of(s, n)) \in Nat /\ header.count[s] \in Nat /\ header'.count[s] \in Nat
        /\ Cardinality(Of(s, n)) <= header.count[s] /\ header.count[s] <= header'.count[s]
    BY CountFacts DEF Covers, FileGrows, IInv, TypeOK, HeaderState
  <2> QED
    BY <2>2, <2>3
<1> QED
  BY <1>2, <1>3 DEF Covers

LEMMA IndexedIsNat ==
  ASSUME IInv, NEW r \in Reader
  PROVE  Indexed(r) \in Nat
<1>1. handle[r].indexed \in [Severity -> Nat]
  BY DEF IInv, TypeOK, HandleState, Handle
<1> QED
  BY <1>1, CountedIsNat DEF Indexed, Total

LEMMA IndexedKept ==
  ASSUME IInv, IInv', OpenIsIndexed, [ViewNext]_viewVars
  PROVE  OpenIsIndexed'
<1> SUFFICES ASSUME NEW r \in Reader, handle'[r].pc = "open" PROVE Covers(Indexed(r))'
  BY DEF OpenIsIndexed
<1>0. r \in Handle /\ Indexed(r) \in Nat
  BY IndexedIsNat DEF Handle
<1>1. CASE handle[r].pc # "open"
  <2>1. CompareCounts(r) /\ Step(r, "open")
    BY <1>1, ReaderOpens
  <2>2. Total(handle[r].indexed) = Len(entries)
    BY <2>1, ComparedIsWhole
  <2>3. UNCHANGED <<header, entries>>
    <3>1. entries' = entries
      BY <2>1 DEF CompareCounts, Unwritten
    <3>2. ~CloseLog(r)
      BY <1>0 DEF CloseLog, Closed, IInv, TypeOK
    <3> QED
      BY <2>1, <3>1, <3>2 DEF CompareCounts
  <2>4. \A s \in Severity : Cardinality(Of(s, Total(handle[r].indexed))) = header.count[s]
    <3>1. ~CloseLog(r)
      BY <1>0 DEF CloseLog, Closed, IInv, TypeOK
    <3> QED
      BY <2>1, <3>1 DEF CompareCounts
  <2>5. handle'[r].indexed = handle[r].indexed
    BY <1>0, <2>1 DEF Step, IInv, TypeOK, HandleState
  <2>6. Indexed(r)' = Indexed(r)
    BY <2>5 DEF Indexed
  <2>8. \A s \in Severity : Of(s, Indexed(r))' = Of(s, Indexed(r))
    BY <2>3, <2>6 DEF Of
  <2>9. \A s \in Severity : Cardinality(Of(s, Indexed(r))) = header.count[s]
    BY <2>4 DEF Indexed
  <2>10. Indexed(r) <= Len(entries)
    BY <1>0, <2>2 DEF Indexed
  <2>11. \A s \in Severity : header.count[s] \in Nat
    BY DEF IInv, TypeOK, HeaderState
  <2>12. \A s \in Severity : Cardinality(Of(s, Indexed(r)))' <= header'.count[s]
    BY <2>3, <2>8, <2>9, <2>11
  <2> QED
    BY <2>3, <2>6, <2>10, <2>12 DEF Covers
<1>2. CASE handle[r].pc = "open"
  <2>1. FileGrows /\ Stays(r)
    <3>1. CASE Next
      BY <1>2, <3>1, NextGrows
    <3>2. CASE ~Next
      <4>1. CASE \E q \in Reader : AdoptLog(q)
        <5>1. UNCHANGED <<header, entries>>
          BY <4>1 DEF AdoptLog
        <5>2. handle'[r] = IF r = view.handle THEN Closed ELSE handle[r]
          BY <1>0, <4>1 DEF AdoptLog
        <5>3. Stays(r)
          BY <5>2 DEF Stays, Closed
        <5> QED
          BY <5>1, <5>3, SameGrows
      <4>2. CASE UNCHANGED logVars
        <5>1. UNCHANGED <<header, entries>> /\ Stays(r)
          BY <4>2 DEF logVars, Stays
        <5> QED
          BY <5>1, SameGrows
      <4>3. (\E q \in Reader : AdoptLog(q)) \/ UNCHANGED logVars
        BY <3>2 DEF ViewNext, LogStep, SetBackendFilters, GetLogEntryRawIndex, viewVars
      <4> QED
        BY <4>1, <4>2, <4>3
    <3> QED
      BY <3>1, <3>2
  <2>2. Indexed(r)' = Indexed(r)
    BY <2>1 DEF Stays, Indexed
  <2>3. Covers(Indexed(r))
    BY <1>2 DEF OpenIsIndexed
  <2>4. PICK n \in Nat : n = Indexed(r)
    BY <1>0
  <2>5. Covers(n)'
    BY <2>1, <2>3, <2>4, CoversGrows
  <2> QED
    BY <2>2, <2>4, <2>5
<1> QED
  BY <1>1, <1>2

-----------------------------------------------------------------------------
(* The rows *)

Shown == Passing(view, Indexed(view.handle), entries)

LEMMA PassingIsFinite ==
  ASSUME NEW v \in ViewState, NEW n, NEW file
  PROVE  /\ Passing(v, n, file) \subseteq 1 .. v.entries
         /\ Passing(v, n, file) \subseteq Nat
         /\ IsFiniteSet(Passing(v, n, file)) /\ Cardinality(Passing(v, n, file)) \in Nat
<1>1. v.entries \in Nat
  BY DEF ViewState
<1>2. Passing(v, n, file) \subseteq 1 .. v.entries
  BY DEF Passing
<1>3. IsFiniteSet(1 .. v.entries)
  BY <1>1, FS_Interval
<1>4. IsFiniteSet(Passing(v, n, file))
  BY <1>2, <1>3, FS_Subset
<1> QED
  BY <1>1, <1>2, <1>4, FS_CardinalityType

\* The first entry that passes after p, if there is one.
LEMMA NextMatchFacts ==
  ASSUME view \in ViewState, NEW p \in Nat
  PROVE  \/ NextMatch(p) = 0 /\ \A j \in Shown : j <= p
         \/ /\ NextMatch(p) \in Shown /\ p < NextMatch(p)
            /\ \A j \in Shown : j <= p \/ NextMatch(p) <= j
<1> DEFINE after == {i \in p + 1 .. view.entries :
                       LogEntryMatchesFilters(view.filters, RawEntry(i))}
<1>1. view.entries \in Nat
  BY DEF ViewState
<1>2. after = {j \in Shown : p < j}
  <2>1. ASSUME NEW i PROVE i \in p + 1 .. view.entries <=> i \in 1 .. view.entries /\ p < i
    BY <1>1
  <2>2. Shown = {i \in 1 .. view.entries : LogEntryMatchesFilters(view.filters, RawEntry(i))}
    BY DEF Shown, Passing, RawEntry
  <2> QED
    BY <2>1, <2>2
<1>3. Shown \subseteq Nat
  BY PassingIsFinite DEF Shown
<1>4. NextMatch(p) = IF after = {} THEN 0 ELSE Min(after)
  BY DEF NextMatch
<1> HIDE DEF after
<1>5. CASE after = {}
  <2>1. \A j \in Shown : ~(p < j) /\ j \in Nat
    BY <1>2, <1>3, <1>5
  <2> QED
    BY <1>4, <1>5, <2>1
<1>6. CASE after # {}
  <2>1. after \in SUBSET Nat
    BY <1>2, <1>3
  <2>2. Min(after) \in after /\ \A j \in after : Min(after) <= j
    BY <1>6, <2>1, LeastOf
  <2>3. NextMatch(p) \in Shown /\ p < NextMatch(p) /\ \A j \in Shown : p < j => NextMatch(p) <= j
    BY <1>2, <1>4, <1>6, <2>2
  <2>4. \A j \in Shown : j \in Nat
    BY <1>3
  <2> QED
    BY <2>3, <2>4
<1> QED
  BY <1>5, <1>6

Rank(p) == Cardinality({j \in Shown : j <= p})

\* It is the next of them.
LEMMA NextRank ==
  ASSUME view \in ViewState, NEW p \in Nat, NEW k \in Nat,
         Rank(p) = k, k < Cardinality(Shown)
  PROVE  NextMatch(p) \in Shown /\ Rank(NextMatch(p)) = k + 1
<1> DEFINE before == {j \in Shown : j <= p}
           m == NextMatch(p)
<1>1. Shown \subseteq Nat /\ IsFiniteSet(Shown)
  BY PassingIsFinite DEF Shown
<1>2. ~ \A j \in Shown : j <= p
  <2> SUFFICES ASSUME \A j \in Shown : j <= p PROVE FALSE
    OBVIOUS
  <2>1. before = Shown
    OBVIOUS
  <2>2. k = Cardinality(Shown)
    BY <2>1 DEF Rank
  <2> QED
    BY <2>2
<1>3. m \in Shown /\ p < m /\ \A j \in Shown : j <= p \/ m <= j
  BY <1>2, NextMatchFacts
<1>4. m \in Nat
  BY <1>1, <1>3
<1> HIDE DEF m
<1>5. {j \in Shown : j <= m} = before \cup {m}
  <2>1. ASSUME NEW j \in Shown PROVE j <= m <=> j \in before \/ j = m
    <3>1. j \in Nat /\ (j <= p \/ m <= j)
      BY <1>1, <1>3
    <3> QED
      BY <1>3, <1>4, <3>1
  <2> QED
    BY <1>3, <2>1
<1>6. m \notin before
  BY <1>3, <1>4
<1>7. IsFiniteSet(before)
  BY <1>1, FS_Subset
<1>8. Cardinality(before) = k
  BY DEF Rank
<1> HIDE DEF before
<1>9. Cardinality(before \cup {m}) = k + 1
  BY <1>6, <1>7, <1>8, FS_AddElement
<1>10. Rank(m) = k + 1
  BY <1>5, <1>9 DEF Rank
<1> QED
  BY <1>3, <1>10 DEF m

\* The rows up to d, as they are looked for.
Looks(row, d) ==
  row = [k \in 0 .. d |-> IF k = 0 THEN 0
                          ELSE IF view.lookup[k] # 0 THEN view.lookup[k]
                          ELSE NextMatch(row[k - 1])]

LEMMA RowsExist ==
  ASSUME NEW n \in Nat
  PROVE  \E row : Looks(row, n)
<1> DEFINE T == {m \in Nat : \E row : Looks(row, m)}
<1>1. 0 \in T
  <2> DEFINE row == [k \in 0 .. 0 |-> 0]
  <2>1. Looks(row, 0)
    BY DEF Looks
  <2> QED
    BY <2>1
<1>2. ASSUME NEW m \in Nat, NEW g, Looks(g, m) PROVE \E h : Looks(h, m + 1)
  <2> DEFINE next == IF view.lookup[m + 1] # 0 THEN view.lookup[m + 1] ELSE NextMatch(g[m])
             h == [k \in 0 .. m + 1 |-> IF k <= m THEN g[k] ELSE next]
  <2>1. \A k \in 0 .. m : g[k] = IF k = 0 THEN 0
                                 ELSE IF view.lookup[k] # 0 THEN view.lookup[k]
                                 ELSE NextMatch(g[k - 1])
    BY <1>2 DEF Looks
  <2>2. m + 1 \in 0 .. m + 1 /\ ~(m + 1 <= m) /\ \A k \in 0 .. m : k \in 0 .. m + 1 /\ k <= m
    OBVIOUS
  <2>3. (\A k \in 0 .. m : h[k] = g[k]) /\ h[m + 1] = next
    <3> HIDE DEF next
    <3> QED
      BY <2>2
  <2>4. h = [k \in 0 .. m + 1 |-> h[k]]
    OBVIOUS
  <2> HIDE DEF h
  <2>5. \A k \in 0 .. m + 1 : h[k] = IF k = 0 THEN 0
                                     ELSE IF view.lookup[k] # 0 THEN view.lookup[k]
                                     ELSE NextMatch(h[k - 1])
    <3> TAKE k \in 0 .. m + 1
    <3>1. CASE k <= m
      <4>1. k \in 0 .. m /\ (k # 0 => k - 1 \in 0 .. m)
        BY <3>1
      <4> QED
        BY <2>1, <2>3, <4>1
    <3>2. CASE k = m + 1
      <4>1. k # 0 /\ k - 1 = m /\ m \in 0 .. m
        BY <3>2
      <4> QED
        BY <2>3, <3>2, <4>1
    <3> QED
      BY <3>1, <3>2
  <2>6. Looks(h, m + 1)
    BY <2>4, <2>5 DEF Looks
  <2> QED
    BY <2>6
<1>3. T = Nat
  <2> HIDE DEF T
  <2>1. T \in SUBSET Nat
    BY DEF T
  <2>2. ASSUME NEW m \in T PROVE m + 1 \in T
    BY <1>2 DEF T
  <2> QED
    BY <1>1, <2>1, <2>2, Numbers
<1> QED
  BY <1>3

LEMMA LookedUpFacts ==
  ASSUME NEW d \in Nat
  PROVE  \E row : /\ Looks(row, d)
                  /\ LookedUp(d) = [k \in DOMAIN view.lookup |->
                                      IF k <= d THEN row[k] ELSE view.lookup[k]]
<1> DEFINE row == CHOOSE r : r = [k \in 0 .. d |-> IF k = 0 THEN 0
                          ELSE IF view.lookup[k] # 0 THEN view.lookup[k]
                          ELSE NextMatch(r[k - 1])]
<1>1. \E r : r = [k \in 0 .. d |-> IF k = 0 THEN 0
                          ELSE IF view.lookup[k] # 0 THEN view.lookup[k]
                          ELSE NextMatch(r[k - 1])]
  BY RowsExist DEF Looks
<1>2. Looks(row, d)
  BY <1>1 DEF Looks
<1>3. LookedUp(d) = [k \in DOMAIN view.lookup |-> IF k <= d THEN row[k] ELSE view.lookup[k]]
  BY DEF LookedUp
<1> QED
  BY <1>2, <1>3

Exact == view.entries < ExactLimit

\* Every row that has been looked for: a number, of an entry that passes when
\* one was found, and of the right one.
LEMMA RowsRight ==
  ASSUME view \in ViewState, RowsFit(view, Indexed(view.handle), entries),
         NEW d \in 1 .. Len(view.lookup), NEW row, Looks(row, d)
  PROVE  \A k \in 0 .. d :
           /\ row[k] \in Nat
           /\ row[k] # 0 => row[k] \in Shown
           /\ Exact => Rank(row[k]) = k
<1> DEFINE Good(k) == /\ row[k] \in Nat
                      /\ row[k] # 0 => row[k] \in Shown
                      /\ Exact => Rank(row[k]) = k
           T == {k \in Nat : k <= d => Good(k)}
<1>1. /\ view.lookup \in Seq(Nat) /\ d \in Nat /\ Len(view.lookup) \in Nat
      /\ d <= Len(view.lookup)
  BY DEF ViewState
<1>2. Shown \subseteq Nat /\ Shown \subseteq 1 .. view.entries /\ IsFiniteSet(Shown)
      /\ Cardinality(Shown) \in Nat
  BY PassingIsFinite DEF Shown
<1>3. \A k \in 1 .. Len(view.lookup) : view.lookup[k] # 0 =>
        /\ view.lookup[k] \in Shown
        /\ Exact => Rank(view.lookup[k]) = k
  BY DEF RowsFit, RowFits, Shown, Rank, Exact
<1>4. Exact => Len(view.lookup) = Cardinality(Shown)
  BY DEF RowsFit, Shown, Exact
<1>5. \A k \in 0 .. d : row[k] = IF k = 0 THEN 0
                                 ELSE IF view.lookup[k] # 0 THEN view.lookup[k]
                                 ELSE NextMatch(row[k - 1])
  BY DEF Looks
<1>6. Good(0)
  <2>1. row[0] = 0
    BY <1>1, <1>5
  <2>2. {j \in Shown : j <= 0} = {}
    <3>1. view.entries \in Nat
      BY DEF ViewState
    <3>2. \A j \in 1 .. view.entries : ~(j <= 0)
      BY <3>1
    <3> QED
      BY <1>2, <3>2
  <2>3. Rank(0) = 0
    BY <2>2, FS_EmptySet DEF Rank
  <2> QED
    BY <2>1, <2>3
<1>7. ASSUME NEW k \in Nat, k + 1 <= d, Good(k) PROVE Good(k + 1)
  <2>1. k + 1 \in 1 .. Len(view.lookup) /\ k + 1 \in 0 .. d /\ k + 1 # 0 /\ (k + 1) - 1 = k
    BY <1>1, <1>7
  <2>2. row[k + 1] = IF view.lookup[k + 1] # 0 THEN view.lookup[k + 1] ELSE NextMatch(row[k])
    BY <1>5, <2>1
  <2>3. CASE view.lookup[k + 1] # 0
    BY <1>2, <1>3, <2>1, <2>2, <2>3
  <2>4. CASE view.lookup[k + 1] = 0
    <3>1. row[k + 1] = NextMatch(row[k]) /\ row[k] \in Nat
      BY <1>7, <2>2, <2>4
    <3>2. NextMatch(row[k]) = 0 \/ NextMatch(row[k]) \in Shown
      BY <3>1, NextMatchFacts
    <3>4. row[k + 1] \in Nat /\ (row[k + 1] # 0 => row[k + 1] \in Shown)
      <4>1. \A x \in Shown : x \in Nat
        BY <1>2
      <4>2. row[k + 1] = 0 \/ row[k + 1] \in Shown
        BY <3>1, <3>2
      <4> QED
        BY <4>1, <4>2
    <3>3. CASE Exact
      <4>1. Rank(row[k]) = k /\ k < Cardinality(Shown)
        BY <1>1, <1>2, <1>4, <1>7, <3>3
      <4>2. Rank(NextMatch(row[k])) = k + 1
        BY <3>1, <4>1, NextRank
      <4> QED
        BY <3>1, <3>4, <4>2
    <3>5. CASE ~Exact
      BY <3>4, <3>5
    <3> QED
      BY <3>3, <3>5
  <2> QED
    BY <2>3, <2>4
<1>8. T = Nat
  <2> HIDE DEF Good
  <2>1. 0 \in T
    BY <1>6
  <2>2. ASSUME NEW k \in T PROVE k + 1 \in T
    <3>1. k + 1 <= d => k <= d
      BY <1>1
    <3> QED
      BY <1>7, <3>1
  <2>3. T \in SUBSET Nat
    OBVIOUS
  <2> HIDE DEF T
  <2> QED
    BY <2>1, <2>2, <2>3, Numbers
<1>9. \A k \in 0 .. d : Good(k)
  <2> HIDE DEF Good
  <2> QED
    BY <1>1, <1>8
<1> QED
  BY <1>9

\* The rows after one was asked for.
LEMMA LookedUpFits ==
  ASSUME view \in ViewState, RowsFit(view, Indexed(view.handle), entries),
         NEW d \in 1 .. Len(view.lookup)
  PROVE  /\ LookedUp(d) \in Seq(Nat) /\ Len(LookedUp(d)) = Len(view.lookup)
         /\ \A k \in 1 .. Len(view.lookup) : LookedUp(d)[k] # 0 =>
              RowFits(Shown, Exact, k, LookedUp(d)[k])
<1>1. /\ view.lookup \in Seq(Nat) /\ d \in Nat /\ Len(view.lookup) \in Nat
      /\ DOMAIN view.lookup = 1 .. Len(view.lookup)
  BY DEF ViewState
<1>2. PICK row : /\ Looks(row, d)
                 /\ LookedUp(d) = [k \in DOMAIN view.lookup |->
                                     IF k <= d THEN row[k] ELSE view.lookup[k]]
  BY <1>1, LookedUpFacts
<1>3. \A k \in 0 .. d : /\ row[k] \in Nat
                        /\ row[k] # 0 => row[k] \in Shown
                        /\ Exact => Rank(row[k]) = k
  BY <1>2, RowsRight
<1>4. \A k \in 1 .. Len(view.lookup) : view.lookup[k] # 0 => RowFits(Shown, Exact, k, view.lookup[k])
  BY DEF RowsFit, Shown, Exact
<1>5. \A k \in 1 .. Len(view.lookup) : k <= d => k \in 0 .. d
  BY <1>1
<1>6. ASSUME NEW k \in 1 .. Len(view.lookup)
      PROVE  /\ LookedUp(d)[k] = IF k <= d THEN row[k] ELSE view.lookup[k]
             /\ LookedUp(d)[k] \in Nat
             /\ LookedUp(d)[k] # 0 => RowFits(Shown, Exact, k, LookedUp(d)[k])
  <2>1. LookedUp(d)[k] = IF k <= d THEN row[k] ELSE view.lookup[k]
    BY <1>1, <1>2
  <2>2. CASE k <= d
    <3>1. LookedUp(d)[k] = row[k] /\ k \in 0 .. d
      BY <1>5, <2>1, <2>2
    <3>2. row[k] # 0 => RowFits(Shown, Exact, k, row[k])
      BY <1>3, <3>1 DEF RowFits, Rank
    <3> QED
      BY <1>3, <2>1, <3>1, <3>2
  <2>3. CASE ~(k <= d)
    <3>1. LookedUp(d)[k] = view.lookup[k]
      BY <2>1, <2>3
    <3> QED
      BY <1>1, <1>4, <2>1, <3>1
  <2> QED
    BY <2>2, <2>3
<1>7. LookedUp(d) \in [1 .. Len(view.lookup) -> Nat]
  BY <1>1, <1>2, <1>6
<1> QED
  BY <1>1, <1>6, <1>7, FcnSeq

-----------------------------------------------------------------------------
(* The viewer's steps *)

LEMMA NoViewTyped ==
  /\ NoView \in ViewState /\ NoView.handle = NoReader
  /\ ~NoView.filtered /\ NoView.lookup = <<>>
<1>1. (CHOOSE f \in Filters : TRUE) \in Filters /\ (CHOOSE e \in Stray : TRUE) \in Stray
  BY ViewAssumption
<1>2. <<>> \in Seq(Nat)
  OBVIOUS
<1> QED
  BY <1>1, <1>2 DEF NoView, ViewState

\* The rows depend on the entries in the index only.
LEMMA RowsStay ==
  ASSUME NEW v, NEW n \in Nat, NEW f, NEW g, \A i \in 1 .. n : f[i] = g[i], RowsFit(v, n, f)
  PROVE  RowsFit(v, n, g)
<1>1. Passing(v, n, f) = Passing(v, n, g)
  BY DEF Passing
<1>2. InIndex(v.filters, n, f) = InIndex(v.filters, n, g)
  BY DEF InIndex
<1> QED
  BY <1>1, <1>2 DEF RowsFit

LEMMA LogStepFits ==
  ASSUME IInv, IInv', OpenIsIndexed, ViewFits, Next, UNCHANGED view,
         view.handle # NoReader => handle'[view.handle].pc # "closed"
  PROVE  ViewFits'
<1> DEFINE h == view.handle
<1>0. view \in ViewState
  BY DEF ViewFits
<1>1. CASE h = NoReader
  BY <1>1 DEF ViewFits, ShownIsOpen
<1>2. CASE h # NoReader
  <2>1. h \in Reader /\ h \in Handle /\ handle[h].pc = "open"
    BY <1>0, <1>2 DEF ViewState, ViewFits, ShownIsOpen, Handle
  <2> HIDE DEF h
  <2>2. FileGrows /\ handle'[h] = handle[h]
    BY <1>2, <2>1, NextGrows DEF Stays, h
  <2>3. PICK n \in Nat : n = Indexed(h) /\ n <= Len(entries)
    BY <2>1, IndexedIsNat DEF OpenIsIndexed, Covers
  <2>4. Indexed(h)' = n
    BY <2>2, <2>3 DEF Indexed, h
  <2>5. \A i \in 1 .. n : entries[i] = entries'[i]
    <3>1. Len(entries) \in Nat
      BY DEF IInv, TypeOK
    <3> QED
      BY <2>2, <2>3, <3>1 DEF FileGrows
  <2>6. view.filtered => RowsFit(view, n, entries')
    BY <2>3, <2>5, RowsStay DEF ViewFits, h
  <2>7. view.entries <= Total(header.count)'
    <3>1. header.count \in [Severity -> Nat] /\ header'.count \in [Severity -> Nat]
      BY DEF IInv, TypeOK, HeaderState
    <3>2. Counted(header.count, Severity) <= Counted(header'.count, Severity)
      BY <2>2, <3>1, CountedGrows DEF FileGrows
    <3>3. Counted(header.count, Severity) \in Nat /\ Counted(header'.count, Severity) \in Nat
      BY <3>1, CountedIsNat
    <3>4. view.entries \in Nat /\ view.entries <= Counted(header.count, Severity)
      BY <1>0, <1>2 DEF ViewState, ViewFits, ShownIsOpen, Total, h
    <3> QED
      BY <3>2, <3>3, <3>4 DEF Total
  <2>8. n <= view.entries
    BY <1>2, <2>3 DEF ViewFits, ShownIsOpen, h
  <2>9. ShownIsOpen'
    <3>1. Indexed(view.handle)' = n
      BY <2>4 DEF h, Indexed
    <3> QED
      BY <2>1, <2>2, <2>7, <2>8, <3>1 DEF ShownIsOpen, h
  <2>10. view.filtered => view.handle # NoReader /\ RowsFit(view, Indexed(view.handle), entries)'
    <3>1. Indexed(view.handle)' = n
      BY <2>4 DEF h, Indexed
    <3>2. RowsFit(view, Indexed(view.handle), entries)' = RowsFit(view, n, entries')
      BY <3>1 DEF RowsFit, Passing, InIndex
    <3> QED
      BY <1>2, <2>6, <3>2 DEF h
  <2> QED
    BY <2>9, <2>10 DEF ViewFits
<1> QED
  BY <1>1, <1>2

LEMMA AdoptFits ==
  ASSUME IInv, OpenIsIndexed, ViewFits, NEW r \in Reader, AdoptLog(r)
  PROVE  ViewFits'
<1>1. PICK e \in Stray :
        view' = [NoView EXCEPT !.handle = r, !.entries = Total(header.count), !.stray = e]
  BY DEF AdoptLog
<1>2. header.count \in [Severity -> Nat] /\ Total(header.count) \in Nat
  BY CountedIsNat DEF IInv, TypeOK, HeaderState, Total
<1>3. /\ view' \in ViewState /\ view'.handle = r /\ view'.entries = Total(header.count)
      /\ ~view'.filtered /\ view'.lookup = <<>>
  BY <1>1, <1>2, NoViewTyped DEF ViewState
<1>4. /\ handle[r].pc = "open" /\ handle'[r] = handle[r]
      /\ UNCHANGED <<header, entries>>
  BY DEF AdoptLog, Handle
<1>5. r # NoReader
  BY ViewAssumption DEF Handle
<1>6. PICK n \in Nat : n = Indexed(r)
  BY IndexedIsNat
<1>7. n <= Total(header.count)
  <2>1. Covers(n)
    BY <1>4, <1>6 DEF OpenIsIndexed
  <2>2. n <= Len(entries) /\ \A s \in Severity : Cardinality(Of(s, n)) <= header.count[s]
    BY <2>1 DEF Covers
  <2>3. Cardinality({i \in 1 .. n : entries[i].sev \in Severity}) <= Counted(header.count, Severity)
    <3>1. TypeOK /\ Severity \in SUBSET Severity
      BY DEF IInv
    <3> QED
      BY <1>2, <2>2, <3>1, CountedIsEnough
  <2>4. {i \in 1 .. n : entries[i].sev \in Severity} = 1 .. n
    <3>1. entries \in Seq(Entry) /\ Len(entries) \in Nat
      BY DEF IInv, TypeOK
    <3>2. ASSUME NEW i \in 1 .. n PROVE entries[i].sev \in Severity
      <4>1. entries[i] \in Entry
        BY <2>2, <3>1
      <4> QED
        BY <4>1 DEF Entry
    <3> QED
      BY <3>2
  <2>5. Cardinality(1 .. n) = n
    BY FS_Interval
  <2> QED
    BY <2>3, <2>4, <2>5 DEF Total
<1>8. Indexed(view.handle)' = n
  BY <1>3, <1>4, <1>6 DEF Indexed
<1>9. ShownIsOpen'
  <2>1. handle'[view'.handle].pc = "open"
    BY <1>3, <1>4
  <2>2. Indexed(view.handle)' <= view'.entries
    BY <1>3, <1>7, <1>8
  <2>3. Total(header.count)' = Total(header.count)
    BY <1>4
  <2>4. view'.entries <= Total(header.count)'
    BY <1>2, <1>3, <2>3
  <2> QED
    BY <2>1, <2>2, <2>4 DEF ShownIsOpen
<1> QED
  BY <1>3, <1>9 DEF ViewFits

LEMMA SetFiltersFits ==
  ASSUME IInv, OpenIsIndexed, ViewFits, NEW f \in Filters, SetBackendFilters(f)
  PROVE  ViewFits'
<1> DEFINE h == view.handle
           m == EstimateNumberOfFilteredLogEntries(f)
           rows == [d \in 1 .. m |-> 0]
<1>1. /\ h # NoReader /\ UNCHANGED logVars
      /\ view' = [view EXCEPT !.filtered = TRUE, !.filters = f, !.lookup = rows]
  BY DEF SetBackendFilters
<1>2. view \in ViewState /\ view.entries \in Nat /\ h \in Reader /\ handle[h].pc = "open"
  BY <1>1 DEF ViewFits, ViewState, ShownIsOpen
<1>3. PICK n \in Nat : n = Indexed(h) /\ Covers(n) /\ n <= view.entries
  <2>1. Indexed(h) \in Nat /\ Covers(Indexed(h))
    BY <1>2, IndexedIsNat DEF OpenIsIndexed
  <2> QED
    BY <1>1, <2>1 DEF ViewFits, ShownIsOpen
<1> DEFINE P == {i \in 1 .. view.entries :
                   LogEntryMatchesFilters(f, IF i <= n THEN entries[i] ELSE view.stray)}
           I == InIndex(f, n, entries)
<1>4. IsFiniteSet(P) /\ Cardinality(P) \in Nat
  <2>1. view.entries \in Int /\ 1 \in Int
    BY <1>2
  <2>2. IsFiniteSet(1 .. view.entries)
    BY <2>1, FS_Interval
  <2> QED
    BY <2>2, FS_Subset, FS_CardinalityType
<1>5. m = IF view.entries < ExactLimit THEN Cardinality(P) ELSE Counted(header.count, f.severities)
  BY <1>3 DEF EstimateNumberOfFilteredLogEntries, RawEntry
<1>6. f.severities \in SUBSET Severity /\ header.count \in [Severity -> Nat]
  BY ViewAssumption DEF IInv, TypeOK, HeaderState
<1>7. m \in Nat
  BY <1>4, <1>5, <1>6, CountedIsNat
<1>8. Cardinality(I) <= m
  <2>1. CASE view.entries < ExactLimit
    <3>1. I \in SUBSET P
      BY <1>2, <1>3 DEF InIndex
    <3> HIDE DEF I, P, m
    <3>2. Cardinality(I) <= Cardinality(P)
      BY <1>4, <3>1, FS_Subset
    <3> QED
      BY <1>5, <2>1, <3>2
  <2>2. CASE ~(view.entries < ExactLimit)
    <3> DEFINE Q == {i \in 1 .. n : entries[i].sev \in f.severities}
    <3>1. Cardinality(Q) <= Counted(header.count, f.severities)
      <4>1. TypeOK
        BY DEF IInv
      <4>2. n <= Len(entries) /\ \A s \in Severity : Cardinality(Of(s, n)) <= header.count[s]
        BY <1>3 DEF Covers
      <4> QED
        BY <1>6, <4>1, <4>2, CountedIsEnough
    <3>2. I \in SUBSET Q
      BY DEF InIndex, LogEntryMatchesFilters
    <3>3. IsFiniteSet(1 .. n) /\ Q \in SUBSET (1 .. n)
      BY FS_Interval
    <3> HIDE DEF I, Q, m
    <3>4. IsFiniteSet(Q)
      BY <3>3, FS_Subset
    <3>5. Cardinality(I) <= Cardinality(Q) /\ Cardinality(I) \in Nat /\ Cardinality(Q) \in Nat
      BY <3>2, <3>4, FS_Subset, FS_CardinalityType
    <3>6. Counted(header.count, f.severities) \in Nat
      BY <1>6, CountedIsNat
    <3> QED
      BY <1>5, <2>2, <3>1, <3>5, <3>6
  <2> QED
    BY <2>1, <2>2
<1> HIDE DEF m
<1>9. rows \in Seq(Nat) /\ Len(rows) = m /\ \A d \in 1 .. m : rows[d] = 0
  <2>1. rows \in [1 .. m -> Nat]
    OBVIOUS
  <2>2. \A d \in 1 .. m : rows[d] = 0
    OBVIOUS
  <2> HIDE DEF rows
  <2> QED
    BY <1>7, <2>1, <2>2, FcnSeq
<1> HIDE DEF rows
<1>10. /\ view' \in ViewState /\ view'.handle = h /\ view'.entries = view.entries
       /\ view'.filtered /\ view'.filters = f /\ view'.lookup = rows /\ view'.stray = view.stray
  <2> DEFINE t == TRUE
  <2>1. view' = [view EXCEPT !.filtered = t, !.filters = f, !.lookup = rows] /\ t \in BOOLEAN
    BY <1>1
  <2>2. t
    OBVIOUS
  <2> HIDE DEF t
  <2> QED
    BY <1>2, <1>9, <2>1, <2>2 DEF ViewState
<1>11. Indexed(view.handle)' = n
  BY <1>1, <1>3, <1>10 DEF Indexed, logVars
<1>12. ShownIsOpen'
  <2>1. header' = header /\ handle' = handle
    BY <1>1 DEF logVars
  <2>2. view.entries <= Total(header.count)
    BY <1>1 DEF ViewFits, ShownIsOpen
  <2> QED
    BY <1>2, <1>3, <1>10, <1>11, <2>1, <2>2 DEF ShownIsOpen
<1>13. RowsFit(view', n, entries')
  <2>1. entries' = entries
    BY <1>1 DEF logVars
  <2>2. Passing(view', n, entries') = P
    BY <1>10, <2>1 DEF Passing
  <2>3. InIndex(view'.filters, n, entries') = I
    BY <1>10, <2>1
  <2> HIDE DEF P, I
  <2> QED
    BY <1>5, <1>8, <1>9, <1>10, <2>2, <2>3 DEF RowsFit
<1>14. RowsFit(view, Indexed(view.handle), entries)'
  BY <1>11, <1>13
<1> QED
  BY <1>1, <1>10, <1>12, <1>14 DEF ViewFits

LEMMA RawIndexFits ==
  ASSUME IInv, ViewFits, NEW d \in 1 .. Len(view.lookup), GetLogEntryRawIndex(d)
  PROVE  ViewFits'
<1> DEFINE rows == IF view.lookup[d] # 0 THEN view.lookup ELSE LookedUp(d)
<1>1. view' = [view EXCEPT !.lookup = rows] /\ UNCHANGED logVars
  BY DEF GetLogEntryRawIndex
<1>2. view \in ViewState /\ view.lookup \in Seq(Nat)
  BY DEF ViewFits, ViewState
<1>3. view.filtered /\ view.handle # NoReader /\ RowsFit(view, Indexed(view.handle), entries)
  BY <1>2 DEF ViewFits
<1>4. /\ rows \in Seq(Nat) /\ Len(rows) = Len(view.lookup)
      /\ \A k \in 1 .. Len(view.lookup) : rows[k] # 0 => RowFits(Shown, Exact, k, rows[k])
  <2>1. CASE view.lookup[d] # 0
    BY <1>2, <1>3, <2>1 DEF RowsFit, Shown, Exact
  <2>2. CASE view.lookup[d] = 0
    BY <1>2, <1>3, <2>2, LookedUpFits
  <2> QED
    BY <2>1, <2>2
<1> HIDE DEF rows
<1>5. /\ view' \in ViewState /\ view'.handle = view.handle /\ view'.entries = view.entries
      /\ view'.filtered /\ view'.filters = view.filters /\ view'.lookup = rows
      /\ view'.stray = view.stray
  BY <1>1, <1>2, <1>3, <1>4 DEF ViewState
<1>6. header' = header /\ handle' = handle /\ entries' = entries
  BY <1>1 DEF logVars
<1>7. Indexed(view.handle)' = Indexed(view.handle)
  BY <1>5, <1>6 DEF Indexed
<1>8. ShownIsOpen'
  BY <1>5, <1>6, <1>7 DEF ViewFits, ShownIsOpen
<1>9. RowsFit(view, Indexed(view.handle), entries)'
  <2>1. Passing(view', Indexed(view.handle), entries) = Shown
    BY <1>5 DEF Passing, Shown
  <2>2. RowsFit(view', Indexed(view.handle), entries)
    BY <1>3, <1>4, <1>5, <2>1 DEF RowsFit, Shown, Exact
  <2> QED
    BY <1>6, <1>7, <2>2
<1> QED
  BY <1>3, <1>5, <1>8, <1>9 DEF ViewFits

LEMMA ViewFitsKept ==
  ASSUME IInv, IInv', OpenIsIndexed, ViewFits, [ViewNext]_viewVars
  PROVE  ViewFits'
<1>1. CASE LogStep
  <2>1. CASE view' = NoView
    BY <2>1, NoViewTyped DEF ViewFits, ShownIsOpen
  <2>2. CASE view' # NoView
    BY <1>1, <2>2, LogStepFits DEF LogStep
  <2> QED
    BY <2>1, <2>2
<1>2. ASSUME NEW r \in Reader, AdoptLog(r) PROVE ViewFits'
  BY <1>2, AdoptFits
<1>3. ASSUME NEW f \in Filters, SetBackendFilters(f) PROVE ViewFits'
  BY <1>3, SetFiltersFits
<1>4. ASSUME NEW d \in 1 .. Len(view.lookup), GetLogEntryRawIndex(d) PROVE ViewFits'
  BY <1>4, RawIndexFits
<1>5. CASE UNCHANGED viewVars
  BY <1>5 DEF viewVars, logVars, ViewFits, ShownIsOpen, Indexed
<1> QED
  BY <1>1, <1>2, <1>3, <1>4, <1>5 DEF ViewNext

LEMMA ViewKept == ViewSpec => [](IInv /\ OpenIsIndexed /\ ViewFits)
<1>1. ViewInit => OpenIsIndexed /\ ViewFits
  <2> SUFFICES ASSUME ViewInit PROVE OpenIsIndexed /\ ViewFits
    OBVIOUS
  <2>1. \A r \in Reader : handle[r].pc # "open"
    BY DEF ViewInit, Init, Closed, Handle
  <2>2. view = NoView
    BY DEF ViewInit
  <2> QED
    BY <2>1, <2>2, NoViewTyped DEF OpenIsIndexed, ViewFits, ShownIsOpen
<1>2. IInv /\ IInv' /\ OpenIsIndexed /\ ViewFits /\ [ViewNext]_viewVars => OpenIsIndexed' /\ ViewFits'
  BY IndexedKept, ViewFitsKept
<1> QED
  BY <1>1, <1>2, Invariance, PTL DEF ViewSpec

\* The log and what the viewer has of it keep their types.
THEOREM ViewTypeCorrect == ViewSpec => []ViewTypeOK
<1>1. IInv /\ ViewFits => ViewTypeOK
  BY DEF IInv, ViewFits, ViewState, ViewTypeOK
<1> QED
  BY <1>1, ViewKept, PTL

\* Whatever writers have added and in whatever order rows are asked for, the
\* rows of a log that has not been counted further are enough, and the d-th of
\* them is the d-th entry that passes (backend.c:456-493, backendp.c:605-641).
THEOREM RowsAreRight == ViewSpec => []LookupIsExact
<1>1. IInv /\ ViewFits => LookupIsExact
  <2> SUFFICES ASSUME IInv, ViewFits, view.handle # NoReader, view.filtered,
                      Total(header.count) = Indexed(view.handle)
               PROVE  LookupIsExact
    BY DEF LookupIsExact
  <2> DEFINE n == Indexed(view.handle)
             matching == {i \in 1 .. n : LogEntryMatchesFilters(view.filters, entries[i])}
  <2>1. view \in ViewState /\ view.handle \in Reader /\ view.entries \in Nat
    BY DEF ViewFits, ViewState
  <2>2. n \in Nat /\ view.entries = n
    <3>1. n \in Nat
      BY <2>1, IndexedIsNat
    <3>2. n <= view.entries /\ view.entries <= n
      BY DEF ViewFits, ShownIsOpen
    <3> HIDE DEF n
    <3> QED
      BY <2>1, <3>1, <3>2
  <2>3. RowsFit(view, n, entries)
    BY DEF ViewFits
  <2>4. Passing(view, n, entries) = matching /\ InIndex(view.filters, n, entries) = matching
    <3> HIDE DEF n
    <3> QED
      BY <2>2 DEF Passing, InIndex
  <2>5. /\ Cardinality(matching) <= Len(view.lookup)
        /\ view.entries < ExactLimit => Cardinality(matching) = Len(view.lookup)
        /\ \A d \in 1 .. Len(view.lookup) : view.lookup[d] # 0 =>
             /\ view.lookup[d] \in matching
             /\ view.entries < ExactLimit =>
                  Cardinality({i \in matching : i <= view.lookup[d]}) = d
    <3> HIDE DEF n, matching
    <3> QED
      BY <2>3, <2>4 DEF RowsFit, RowFits
  <2>6. DOMAIN view.lookup = 1 .. Len(view.lookup)
    BY <2>1 DEF ViewState
  <2> QED
    BY <2>5, <2>6 DEF LookupIsExact
<1> QED
  BY <1>1, ViewKept, PTL
=============================================================================
