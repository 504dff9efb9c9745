----------------------------- MODULE AppendLog -----------------------------
(***************************************************************************)
(* What a log promises to those who write to it: a call of a thread adds   *)
(* its own record at the end, once, or adds nothing; what has been written *)
(* stays as it is until the log is started anew, which no call overlaps.   *)
(* One thing changes: names that records left out turn, all those of a     *)
(* field together and once, into a name that another call brings.          *)
(***************************************************************************)
EXTENDS Naturals, Sequences

CONSTANTS Thread, Record, NoRecord, Table, Name, NoName

VARIABLES
  log,   \* the records, oldest first
  call   \* what the thread is writing, or NoRecord

Init == log = <<>> /\ call = [t \in Thread |-> NoRecord]

Begin(t, r) ==
  /\ call[t] = NoRecord
  /\ call' = [call EXCEPT ![t] = r]
  /\ UNCHANGED log

Write(t) ==
  /\ call[t] # NoRecord
  /\ log' = Append(log, call[t])
  /\ call' = [call EXCEPT ![t] = NoRecord]

\* The calls of some threads end without a record: refused, failed, or the
\* threads are gone.
Abandon(T) ==
  /\ call' = [t \in Thread |-> IF t \in T THEN NoRecord ELSE call[t]]
  /\ UNCHANGED log

\* The names that are missing in a field become that of a call, or what is
\* left of one that is too long, and then the call ends.
Fill(k, name) ==
  /\ log' = [i \in DOMAIN log |->
       IF log[i].names[k] = NoName THEN [log[i] EXCEPT !.names[k] = name] ELSE log[i]]
  /\ \E t \in Thread :
       /\ call[t] # NoRecord
       /\ \/ call[t].names[k] = name /\ UNCHANGED call
          \/ call' = [call EXCEPT ![t] = NoRecord]

Clear ==
  /\ \A t \in Thread : call[t] = NoRecord
  /\ log' = <<>>
  /\ UNCHANGED call

Next ==
  \/ \E t \in Thread : Write(t) \/ \E r \in Record : Begin(t, r)
  \/ \E T \in SUBSET Thread : Abandon(T)
  \/ \E k \in Table, name \in Name : Fill(k, name)
  \/ Clear

Spec == Init /\ [][Next]_<<log, call>>
=============================================================================
