------------------------------- MODULE VxlLog -------------------------------
(***************************************************************************)
(* The log file of KexDll (vxlopcl.c, vxlwrite.c, vxlpriv.c): a header of  *)
(* counters and name tables, mapped into every process that has the file   *)
(* open, and entries that are appended after it.                           *)
(*                                                                         *)
(* A process opens the file for writing or for reading.  The header is     *)
(* shared memory: a reader sees the counters of a writer move.  The SRW    *)
(* lock of a handle excludes the threads of that process from each other;  *)
(* between processes there is only the sharing mode of the file.           *)
(***************************************************************************)
EXTENDS Naturals, Sequences, FiniteSets, Functions

CONSTANTS
  Writer, Reader,        \* handles, each in a process of its own
  Thread, NoThread,      \* threads that write
  Severity,
  Name, Fits,            \* names of source places; those a slot has room for
  Truncated,             \* what StringCchCopy leaves of one that does not fit
  NoName,                \* the empty name: of a free slot, of one left out
  Place,                 \* places that write: a severity, and a name per table
  NoRecord,
  TableSize,
  App, NoApp,            \* source applications; the parameter left out
  Disposition,           \* the dispositions that callers use
  MaxWrites, MaxFaults   \* bounds: calls that write, services that fail

Handle == Writer \cup Reader

\* SourceComponents, SourceFiles, SourceFunctions.
Table == 1 .. 3

Dispositions ==
  {"SUPERSEDE", "CREATE", "OPEN", "OPEN_IF", "OVERWRITE", "OVERWRITE_IF"}

ASSUME HandleAssumption == Writer \cap Reader = {}
ASSUME ThreadAssumption == IsFiniteSet(Thread) /\ NoThread \notin Thread
ASSUME SeverityAssumption == IsFiniteSet(Severity)
ASSUME NameAssumption ==
  /\ Fits \subseteq Name /\ Truncated \in [Name \ Fits -> Fits]
  /\ NoName \notin Name
  /\ Place \subseteq [sev : Severity, names : [Table -> Name \cup {NoName}]]
  /\ Place # {}
  /\ TableSize \in [Table -> Nat]
ASSUME InputAssumption ==
  /\ NoApp \notin App /\ NoRecord \notin Place /\ Disposition \subseteq Dispositions
  /\ MaxWrites \in Nat /\ MaxFaults \in Nat

VARIABLES
  exists, sized,  \* there is a file; its length covers the header
  header,
  entries,        \* what follows the header
  handle,
  thread,
  holder,         \* owner of the lock of a handle
  lost,           \* history: counted entries that were never written
  writes, faults

logVars == <<exists, sized, header, entries, handle, thread, holder, lost, writes, faults>>

NoCount == [s \in Severity |-> 0]

\* The header of a file that has been given its length and no content.
ZeroHeader ==
  [magic |-> FALSE, app |-> NoApp, dirty |-> FALSE, count |-> NoCount,
   table |-> [k \in Table |-> <<>>]]

\* app: the parameter SourceApplication.  mapped, eof: entries in the file
\* when it was mapped and when its length was queried.  indexed: the counters
\* that the index was sized by.
Closed == [pc |-> "closed", app |-> NoApp, mapped |-> 0, eof |-> 0, indexed |-> NoCount]

\* k: the table whose index is looked up.  seen: the counter as it was read.
NotWriting ==
  [pc |-> "idle", handle |-> NoThread, place |-> CHOOSE p \in Place : TRUE,
   k |-> 1, index |-> [k \in Table |-> 1], seen |-> 0]

Init ==
  /\ exists = FALSE /\ sized = FALSE
  /\ header = ZeroHeader
  /\ entries = <<>>
  /\ handle = [h \in Handle |-> Closed]
  /\ thread = [t \in Thread |-> NotWriting]
  /\ holder = [h \in Handle |-> NoThread]
  /\ lost = NoCount
  /\ writes = 0 /\ faults = 0

Fault == faults < MaxFaults /\ faults' = faults + 1

\* The sum of some counters, as the number of the entries that they count.
Counted(count, S) == Cardinality(UNION {{s} \X (1 .. count[s]) : s \in S})

Total(count) == Counted(count, Severity)

Of(s, n) == {i \in 1 .. n : entries[i].sev = s}

Mapped(h) ==
  handle[h].pc \in {"mapped_new", "mapped", "checked", "queried", "indexed", "open"}

-----------------------------------------------------------------------------
(* VxlOpenLog and VxlCloseLog *)

Step(h, pc) == handle' = [handle EXCEPT ![h].pc = pc]

\* A writer that has the header mapped declares it clean, valid or not.
CloseLog(h) ==
  /\ handle' = [handle EXCEPT ![h] = Closed]
  /\ header' = IF h \in Writer /\ Mapped(h) THEN [header EXCEPT !.dirty = FALSE] ELSE header

Unwritten == UNCHANGED <<entries, thread, holder, lost, writes>>

\* Mutant: a writer shares the file with writers too.
SharesAll(h) == FALSE

\* A writer shares the file with readers and with no other writer.
SharingViolation(h) ==
  h \in Writer /\ \E w \in Writer \ {h} : handle[w].pc # "closed"

\* A file that is created, or emptied: the system does not empty one that
\* is mapped somewhere.
NewFile(d) ==
  /\ \/ ~exists /\ d \in {"SUPERSEDE", "CREATE", "OPEN_IF", "OVERWRITE_IF"}
     \/ /\ exists /\ d \in {"SUPERSEDE", "OVERWRITE", "OVERWRITE_IF"}
        /\ \A h \in Handle : ~Mapped(h)
  /\ exists' = TRUE /\ sized' = FALSE
  /\ header' = ZeroHeader /\ entries' = <<>> /\ lost' = NoCount

OpenFile(h, d, app) ==
  /\ handle[h].pc = "closed"
  /\ ~SharingViolation(h)
  /\ h \in Reader => d \in {"OPEN", "OPEN_IF"}
  /\ \/ /\ exists /\ d \in {"OPEN", "OPEN_IF"}
        /\ handle' = [handle EXCEPT ![h] = [Closed EXCEPT !.pc = "opened", !.app = app]]
        /\ UNCHANGED <<exists, sized, header, entries, lost>>
     \/ /\ NewFile(d)
        /\ handle' = [handle EXCEPT ![h] = [Closed EXCEPT !.pc = "created", !.app = app]]
  /\ UNCHANGED <<thread, holder, writes, faults>>

\* The length of a new file is set to that of the header: a handle for
\* reading may not.
SetLength(h) ==
  /\ handle[h].pc = "created"
  /\ IF h \in Writer
     THEN Step(h, "sized") /\ sized' = TRUE /\ UNCHANGED header
     ELSE CloseLog(h) /\ UNCHANGED sized
  /\ Unwritten /\ UNCHANGED <<exists, faults>>

\* A file without content cannot be mapped.
MapFile(h) ==
  /\ handle[h].pc \in {"sized", "opened"}
  /\ IF sized
     THEN /\ handle' = [handle EXCEPT
               ![h].pc = IF handle[h].pc = "sized" THEN "mapped_new" ELSE "mapped",
               ![h].mapped = Len(entries)]
          /\ UNCHANGED header
     ELSE CloseLog(h)
  /\ Unwritten /\ UNCHANGED <<exists, sized, faults>>

InitHeader(h) ==
  /\ handle[h].pc = "mapped_new"
  /\ IF handle[h].app = NoApp
     THEN CloseLog(h)
     ELSE /\ header' = [ZeroHeader EXCEPT !.magic = TRUE, !.app = handle[h].app]
          /\ Step(h, "checked")
  /\ Unwritten /\ UNCHANGED <<exists, sized, faults>>

CheckHeader(h) ==
  /\ handle[h].pc = "mapped"
  /\ IF header.magic /\ (h \in Writer => handle[h].app \in {NoApp, header.app})
     THEN Step(h, "checked") /\ UNCHANGED header
     ELSE CloseLog(h)
  /\ Unwritten /\ UNCHANGED <<exists, sized, faults>>

MarkDirty(h) ==
  /\ h \in Writer /\ handle[h].pc = "checked"
  /\ header' = [header EXCEPT !.dirty = TRUE]
  /\ Step(h, "open")
  /\ Unwritten /\ UNCHANGED <<exists, sized, faults>>

\* VxlpBuildIndex: the length of the file ...
QueryFile(h) ==
  /\ h \in Reader /\ handle[h].pc = "checked"
  /\ handle' = [handle EXCEPT ![h] = [@ EXCEPT !.pc = "queried", !.eof = Len(entries)]]
  /\ Unwritten /\ UNCHANGED <<exists, sized, header, faults>>

\* ... the index, sized by the counters as they are now and filled from the
\* file: what was appended after the file was mapped may not be readable ...
FillIndex(h) ==
  /\ handle[h].pc = "queried"
  /\ LET total == Total(header.count) IN
     \/ /\ 0 < total /\ total <= handle[h].eof
        /\ handle' = [handle EXCEPT ![h].pc = "indexed", ![h].indexed = header.count]
        /\ UNCHANGED header
     \/ /\ total = 0 \/ total > handle[h].eof \/ total > handle[h].mapped
        /\ CloseLog(h)
  /\ Unwritten /\ UNCHANGED <<exists, sized, faults>>

\* Mutant: the entries of each severity are not compared with the counters.
CompareNothing(h) ==
  /\ handle[h].pc = "indexed"
  /\ Step(h, "open") /\ UNCHANGED header
  /\ Unwritten /\ UNCHANGED <<exists, sized, faults>>

\* ... and the comparison with the counters as they are at the end.
CompareCounts(h) ==
  /\ handle[h].pc = "indexed"
  /\ IF \A s \in Severity :
          Cardinality(Of(s, Total(handle[h].indexed))) = header.count[s]
     THEN Step(h, "open") /\ UNCHANGED header
     ELSE CloseLog(h)
  /\ Unwritten /\ UNCHANGED <<exists, sized, faults>>

\* Memory, the section, the view or a query fails.
OpenFails(h) ==
  /\ handle[h].pc \notin {"closed", "open"}
  /\ Fault
  /\ CloseLog(h)
  /\ Unwritten /\ UNCHANGED <<exists, sized>>

\* The threads of a process that ends, wherever they are.
Using(h) == {t \in Thread : thread[t].pc # "idle" /\ thread[t].handle = h}
Killed(h) ==
  /\ thread' = [t \in Thread |-> IF t \in Using(h) THEN NotWriting ELSE thread[t]]
  /\ holder' = [holder EXCEPT ![h] = NoThread]
  /\ lost' = [s \in Severity |-> lost[s] +
       Cardinality({t \in Using(h) : thread[t].pc = "write" /\ thread[t].place.sev = s})]

\* The process exits: the other threads are ended, then DllMain closes the log.
Exit(h) ==
  /\ handle[h].pc = "open"
  /\ Killed(h)
  /\ CloseLog(h)
  /\ UNCHANGED <<exists, sized, entries, writes, faults>>

\* The process is terminated.
Crash(h) ==
  /\ handle[h].pc # "closed"
  /\ Fault
  /\ Killed(h)
  /\ handle' = [handle EXCEPT ![h] = Closed]
  /\ UNCHANGED <<exists, sized, header, entries, writes>>

-----------------------------------------------------------------------------
(* VxlWriteLogEx *)

Opened == UNCHANGED <<exists, sized, handle>>

WriteLog(t, h, place) ==
  /\ thread[t].pc = "idle" /\ h \in Writer /\ handle[h].pc = "open"
  /\ writes < MaxWrites /\ writes' = writes + 1
  /\ thread' = [thread EXCEPT ![t] =
       [NotWriting EXCEPT !.pc = "lock", !.handle = h, !.place = place]]
  /\ Opened /\ UNCHANGED <<header, entries, holder, lost, faults>>

\* Mutant: the lock is taken shared.
AcquireLockShared(t) ==
  /\ thread[t].pc = "lock"
  /\ holder' = [holder EXCEPT ![thread[t].handle] = t]
  /\ thread' = [thread EXCEPT ![t].pc = "lookup"]
  /\ Opened /\ UNCHANGED <<header, entries, lost, writes, faults>>

AcquireLock(t) ==
  /\ thread[t].pc = "lock" /\ holder[thread[t].handle] = NoThread
  /\ holder' = [holder EXCEPT ![thread[t].handle] = t]
  /\ thread' = [thread EXCEPT ![t].pc = "lookup"]
  /\ Opened /\ UNCHANGED <<header, entries, lost, writes, faults>>

Finish(t) ==
  /\ thread' = [thread EXCEPT ![t] = NotWriting]
  /\ holder' = [holder EXCEPT ![thread[t].handle] = NoThread]

\* The first slot of a table that holds the name.
Slot(names, name) ==
  CHOOSE i \in DOMAIN names : names[i] = name /\ \A j \in 1 .. i - 1 : names[j] # name

Found(t, i) ==
  thread' = [thread EXCEPT
    ![t].index[thread[t].k] = i,
    ![t].k = IF thread[t].k = 3 THEN 1 ELSE thread[t].k + 1,
    ![t].pc = IF thread[t].k = 3 THEN "read" ELSE "lookup"]

\* Mutants: StringCchCopy copies the whole name; its failure is not noticed.
CopiedWhole(name) == name
CopyNeverFails(name) == FALSE

\* StringCchCopy into a slot: a name that is too long leaves its beginning
\* there, and the copy fails.
Copied(name) == IF name \in Fits THEN name ELSE Truncated[name]
CopyFails(name) == name \notin Fits

\* VxlpFindOrCreateSource{Component,File,Function}Index: a name that is in
\* no slot takes the first one that is free, too long or not.  The empty name
\* equals what a free slot holds: it gets that slot and does not take it.
FindOrCreateIndex(t) ==
  LET k == thread[t].k
      name == thread[t].place.names[k]
      names == header.table[k]
  IN
  /\ thread[t].pc = "lookup"
  /\ \/ /\ name \in Range(names)
        /\ Found(t, Slot(names, name))
        /\ UNCHANGED <<header, holder>>
     \/ /\ name = NoName /\ Len(names) < TableSize[k]
        /\ Found(t, Len(names) + 1)
        /\ UNCHANGED <<header, holder>>
     \/ /\ name \notin Range(names) \cup {NoName} /\ Len(names) < TableSize[k]
        /\ header' = [header EXCEPT !.table[k] = Append(names, Copied(name))]
        /\ IF CopyFails(name) THEN Finish(t)
           ELSE Found(t, Len(names) + 1) /\ UNCHANGED holder
     \/ /\ name \notin Range(names) /\ Len(names) = TableSize[k]
        /\ Finish(t)
        /\ UNCHANGED header
  /\ Opened /\ UNCHANGED <<entries, lost, writes, faults>>

\* The counter is raised: it is read ...
ReadCount(t) ==
  /\ thread[t].pc = "read"
  /\ thread' = [thread EXCEPT ![t] =
       [@ EXCEPT !.pc = "store", !.seen = header.count[thread[t].place.sev]]]
  /\ Opened /\ UNCHANGED <<header, entries, holder, lost, writes, faults>>

\* ... and stored,
StoreCount(t) ==
  /\ thread[t].pc = "store"
  /\ header' = [header EXCEPT !.count[thread[t].place.sev] = thread[t].seen + 1]
  /\ thread' = [thread EXCEPT ![t].pc = "write"]
  /\ Opened /\ UNCHANGED <<entries, holder, lost, writes, faults>>

\* and then the entry is written at the end of the file, or cannot be.
WriteEntry(t) ==
  LET s == thread[t].place.sev IN
  /\ thread[t].pc = "write"
  /\ \/ /\ entries' = Append(entries, [sev |-> s, index |-> thread[t].index])
        /\ UNCHANGED <<lost, faults>>
     \/ /\ Fault
        /\ lost' = [lost EXCEPT ![s] = lost[s] + 1]
        /\ UNCHANGED entries
  /\ Finish(t)
  /\ Opened /\ UNCHANGED <<header, writes>>

-----------------------------------------------------------------------------
OpenLog(h) ==
  \/ \E d \in Disposition, app \in App \cup {NoApp} : OpenFile(h, d, app)
  \/ SetLength(h) \/ MapFile(h) \/ InitHeader(h) \/ CheckHeader(h) \/ MarkDirty(h)
  \/ QueryFile(h) \/ FillIndex(h) \/ CompareCounts(h) \/ OpenFails(h)

WriteStep(t) ==
  \/ \E h \in Writer, place \in Place : WriteLog(t, h, place)
  \/ AcquireLock(t) \/ FindOrCreateIndex(t)
  \/ ReadCount(t) \/ StoreCount(t) \/ WriteEntry(t)

Next ==
  \/ \E h \in Handle : OpenLog(h) \/ Exit(h) \/ Crash(h)
  \/ \E t \in Thread : WriteStep(t)

Spec == Init /\ [][Next]_logVars

-----------------------------------------------------------------------------
Entry == [sev : Severity, index : [Table -> Nat]]

HeaderState ==
  [magic : BOOLEAN, app : App \cup {NoApp}, dirty : BOOLEAN,
   count : [Severity -> Nat], table : [Table -> Seq(Fits)]]

OpenStep ==
  {"closed", "created", "sized", "opened", "mapped_new", "mapped", "checked",
   "queried", "indexed", "open"}

HandleState ==
  [pc : OpenStep, app : App \cup {NoApp}, mapped : Nat, eof : Nat,
   indexed : [Severity -> Nat]]

ThreadState ==
  [pc : {"idle", "lock", "lookup", "read", "store", "write"},
   handle : Writer \cup {NoThread}, place : Place, k : Table,
   index : [Table -> Nat], seen : Nat]

TypeOK ==
  /\ exists \in BOOLEAN /\ sized \in BOOLEAN
  /\ header \in HeaderState
  /\ entries \in Seq(Entry)
  /\ handle \in [Handle -> HandleState]
  /\ thread \in [Thread -> ThreadState]
  /\ holder \in [Handle -> Thread \cup {NoThread}]
  /\ lost \in [Severity -> Nat]
  /\ writes \in Nat /\ faults \in Nat

\* Every counter is the number of the entries of its severity, of those that
\* a thread has counted and not written yet, and of those that were counted and
\* never written: the lock and the sharing mode keep any two increments
\* apart (vxlwrite.c:203-264), and nothing but a failed write or the end of a
\* process between the two steps (vxlwrite.c:241, 250) makes a log unreadable.
CountersAccount ==
  \A s \in Severity :
    header.count[s] = Cardinality(Of(s, Len(entries))) + lost[s] +
      Cardinality({t \in Thread : thread[t].pc = "write" /\ thread[t].place.sev = s})

\* A log that some process may write to is marked: no failed attempt of
\* another process to open it clears the mark (vxlopcl.c:336-347, 366).
DirtyWhileWritten ==
  \A h \in Writer : handle[h].pc = "open" => header.magic /\ header.dirty

\* What a slot of a table holds.
SlotName(names, i) == IF i \in DOMAIN names THEN names[i] ELSE NoName

Named(e) ==
  [sev |-> e.sev, names |-> [k \in Table |-> SlotName(header.table[k], e.index[k])]]

\* Each call adds its own severity and the names that it was given, however
\* the tables are shared, and no later name changes what an entry says: but
\* for a name that was left out (vxlwrite.c:65-75), which reads as the next new
\* name of its table once there is one, since its entry refers to the slot that
\* name then takes (vxlpriv.c:182-185).
Appended == INSTANCE AppendLog WITH
  Record <- Place,
  log <- [i \in DOMAIN entries |-> Named(entries[i])],
  call <- [t \in Thread |-> IF thread[t].pc = "idle" THEN NoRecord
                            ELSE thread[t].place]

ImplementsAppendLog == Appended!Spec
=============================================================================
