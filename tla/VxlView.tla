------------------------------ MODULE VxlView ------------------------------
(***************************************************************************)
(* The log viewer (VxlView/backend.c, backendp.c) on a log that processes  *)
(* may still be writing.  It shows the entries that pass its filters and   *)
(* finds the number of each one only when its row is asked for, in         *)
(* whatever order the list view asks.                                      *)
(*                                                                         *)
(* The entries are where the index of its handle says they are and never   *)
(* change, so the viewer's copies of them are left out.  The text filter   *)
(* is not told apart from that of source components: both are tests of one *)
(* entry that the header counts nothing of.                                *)
(***************************************************************************)
EXTENDS VxlLog, FiniteSetsExt

CONSTANTS
  NoReader,
  Filters,     \* severities and source components (their slots) to show
  ExactLimit,  \* entries from which on the rows are only estimated: 2000000
  Stray        \* what memory past the end of the index may look like

ASSUME ViewAssumption ==
  /\ NoReader \notin Handle
  /\ Filters \subseteq [severities : SUBSET Severity, components : SUBSET Nat]
  /\ ExactLimit \in Nat
  /\ Stray \subseteq [sev : Severity, index : [Table -> Nat]]
  /\ Filters # {} /\ Stray # {}

VARIABLE view

viewVars == <<logVars, view>>

NoView == [handle |-> NoReader, entries |-> 0, filtered |-> FALSE,
           filters |-> CHOOSE f \in Filters : TRUE,
           lookup |-> <<>>, stray |-> CHOOSE e \in Stray : TRUE]

ViewInit == Init /\ view = NoView

Indexed(h) == Total(handle[h].indexed)

\* VxlReadLog bounds the number of an entry by the counters as they are now;
\* the index is as long as they were when it was built.
RawEntry(i) == IF i <= Indexed(view.handle) THEN entries[i] ELSE view.stray

LogEntryMatchesFilters(f, e) == e.sev \in f.severities /\ e.index[1] \in f.components

-----------------------------------------------------------------------------
\* OpenLogFile, once VxlOpenLog has returned: the log that was shown is closed.
AdoptLog(r) ==
  /\ r \in Reader \ {view.handle} /\ handle[r].pc = "open"
  /\ \E e \in Stray :
       view' = [NoView EXCEPT !.handle = r, !.entries = Total(header.count), !.stray = e]
  /\ handle' = [h \in Handle |-> IF h = view.handle THEN Closed ELSE handle[h]]
  /\ UNCHANGED <<exists, sized, header, entries, thread, holder, lost, writes, faults>>

\* Of a log that is not too long every entry is tested, else the counters of
\* the severities stand for it.
EstimateNumberOfFilteredLogEntries(f) ==
  IF view.entries < ExactLimit
  THEN Cardinality({i \in 1 .. view.entries : LogEntryMatchesFilters(f, RawEntry(i))})
  ELSE Counted(header.count, f.severities)

\* Mutant: rows that were looked up for other filters stay.
SetBackendFiltersOnly(f) ==
  /\ view.handle # NoReader
  /\ view' = [view EXCEPT !.filtered = TRUE, !.filters = f,
       !.lookup = [d \in 1 .. EstimateNumberOfFilteredLogEntries(f) |->
                     IF d \in DOMAIN view.lookup THEN view.lookup[d] ELSE 0]]
  /\ UNCHANGED logVars

\* No row has been looked up: 0 stands for -1, raw numbers count from 1.
SetBackendFilters(f) ==
  /\ view.handle # NoReader
  /\ view' = [view EXCEPT !.filtered = TRUE, !.filters = f,
       !.lookup = [d \in 1 .. EstimateNumberOfFilteredLogEntries(f) |-> 0]]
  /\ UNCHANGED logVars

\* The first entry after raw number p that passes, or 0.
NextMatch(p) ==
  LET after == {i \in p + 1 .. view.entries : LogEntryMatchesFilters(view.filters, RawEntry(i))}
  IN IF after = {} THEN 0 ELSE Min(after)

\* Every row up to d that has not been looked up yet is looked for after the
\* row before it; a row that found nothing is taken for number -1, and the one
\* after it starts over.
LookedUp(d) ==
  LET row[k \in 0 .. d] == IF k = 0 THEN 0
                           ELSE IF view.lookup[k] # 0 THEN view.lookup[k]
                           ELSE NextMatch(row[k - 1])
  IN [k \in DOMAIN view.lookup |-> IF k <= d THEN row[k] ELSE view.lookup[k]]

GetLogEntryRawIndex(d) ==
  /\ d \in DOMAIN view.lookup
  /\ view' = [view EXCEPT !.lookup =
       IF view.lookup[d] # 0 THEN view.lookup ELSE LookedUp(d)]
  /\ UNCHANGED logVars

\* The viewer goes when its handle does.
LogStep ==
  /\ Next
  /\ view' = IF view.handle # NoReader /\ handle'[view.handle].pc = "closed"
             THEN NoView ELSE view

ViewNext ==
  \/ LogStep
  \/ \E r \in Reader : AdoptLog(r)
  \/ \E f \in Filters : SetBackendFilters(f)
  \/ \E d \in 1 .. Len(view.lookup) : GetLogEntryRawIndex(d)

ViewSpec == ViewInit /\ [][ViewNext]_viewVars

-----------------------------------------------------------------------------
ViewTypeOK ==
  /\ TypeOK
  /\ view \in [handle : Reader \cup {NoReader}, entries : Nat, filtered : BOOLEAN,
               filters : Filters, lookup : Seq(Nat), stray : Stray]

\* A reader whose open succeeds has every entry of the log in its index, none
\* was lost, and none was on its way, whatever a writer does meanwhile
\* (vxlpriv.c:97-166).
OpenedLogIsWhole ==
  [][\A r \in Reader :
       handle[r].pc # "open" /\ handle'[r].pc = "open" =>
         /\ Total(handle[r].indexed) = Len(entries)
         /\ lost = NoCount
         /\ \A t \in Thread : thread[t].pc # "write"]_viewVars

\* Unless an entry has been counted since the index was built: the rows are
\* enough for the entries that pass (backendp.c:616-617); a row that has been
\* looked up is such an entry; and of a log that is not too long row d is the
\* d-th of them, in whatever order the rows were asked for
\* (backend.c:456-493).
LookupIsExact ==
  LET h == view.handle
      matching == {i \in 1 .. Indexed(h) : LogEntryMatchesFilters(view.filters, entries[i])}
      exact == view.entries < ExactLimit
  IN
  h # NoReader /\ view.filtered /\ Total(header.count) = Indexed(h) =>
    /\ Cardinality(matching) <= Len(view.lookup)
    /\ exact => Cardinality(matching) = Len(view.lookup)
    /\ \A d \in DOMAIN view.lookup : view.lookup[d] # 0 =>
         /\ view.lookup[d] \in matching
         /\ exact => Cardinality({i \in matching : i <= view.lookup[d]}) = d
=============================================================================
