-------------------------- MODULE ProgramSettings --------------------------
(***************************************************************************)
(* What the configuration helper promises of the settings of programs: a   *)
(* call that succeeds and was not disturbed leaves the settings it was     *)
(* asked for, whatever earlier calls left behind; a call changes the       *)
(* settings of its own program only; and removing the product takes the    *)
(* settings of every program away, keeping them for the next installation  *)
(* when that was asked for.  What is shown of a program is what is in      *)
(* force, but for masked programs.                                         *)
(***************************************************************************)
EXTENDS FiniteSets

CONSTANTS
  Program, Template,    \* one of the programs is the internal template
  Tool,
  Settings, None,       \* records with a field launch; those of no settings
  NoStore

VARIABLES
  conf,   \* the settings in force for each program
  shown,  \* those that the tools show for it
  masked, \* programs of which something else may be shown
  kept,   \* those kept for the next installation, or NoStore
  call,   \* what a tool executes: for which program, what it shall have in
          \* the end, and whether nobody has disturbed it
  disputed  \* programs for which calls have overlapped

Busy(t) == call[t].pc = "busy"
On(k) == {t \in Tool : Busy(t) /\ call[t].key = k}
Dispute(ks) == disputed' = disputed \cup {k \in ks : On(k) # {}}

\* Every call on one of the programs ks may be disturbed.
Disturbed(ks) ==
  [t \in Tool |-> IF \E k \in ks : t \in On(k) THEN [call[t] EXCEPT !.sure = FALSE] ELSE call[t]]

Honest == \A k \in Program \ masked : shown[k] = conf[k]

Init ==
  /\ conf = [k \in Program |-> None]
  /\ Honest
  /\ kept = NoStore
  /\ \A t \in Tool : call[t].pc = "idle"
  /\ disputed = {}

\* No settings change but those of program k.
OnlyOf(k) ==
  /\ conf' \in [Program -> Settings]
  /\ \A j \in Program \ {k} : conf'[j] = conf[j]

Ends(t, pc) ==
  call'[t].pc = pc /\ \A u \in Tool \ {t} : call'[u] = call[u]

Begin(t) ==
  /\ ~Busy(t) /\ call'[t].pc = "busy"
  /\ call'[t] \in [pc : {"busy"}, key : Program, goal : Settings, sure : BOOLEAN]
  /\ call'[t].sure => On(call'[t].key) = {}
  /\ call' = [Disturbed({call'[t].key}) EXCEPT ![t] = call'[t]]
  /\ Dispute({call'[t].key})
  /\ UNCHANGED <<conf, kept>>

Work(t) ==
  /\ Busy(t)
  /\ UNCHANGED <<kept, call, disputed>>
  /\ OnlyOf(call[t].key)

Succeed(t) ==
  /\ Busy(t) /\ Ends(t, "succeeded")
  /\ OnlyOf(call[t].key)
  /\ call[t].sure => conf'[call[t].key] = call[t].goal
  /\ UNCHANGED <<kept, disputed>>

Fail(t) ==
  /\ Busy(t) /\ Ends(t, "idle")
  /\ UNCHANGED <<conf, kept, disputed>>

\* Another product edits the values of a program, and may put a launch command
\* of its own in the place of ours.
Edit(k) ==
  /\ UNCHANGED <<kept, disputed>>
  /\ call' = Disturbed({k})
  /\ conf' \in {conf, [conf EXCEPT ![k].launch = FALSE]}

\* Removal and installation disturb whatever calls there are.
DisturbAll == call' = Disturbed(Program) /\ Dispute(Program)

Keep(removeTemplate) ==
  /\ kept = NoStore /\ kept' # NoStore
  /\ DisturbAll
  /\ \E saved \in SUBSET (Program \ {Template}) :
       /\ kept' = [k \in saved |-> conf[k]]
       /\ \A k \in Program \ (saved \cup {Template}) : conf[k] = None
  /\ conf' = [k \in Program |-> IF k = Template /\ ~removeTemplate THEN conf[k] ELSE None]

Discard ==
  /\ kept' = NoStore
  /\ DisturbAll
  /\ conf' = [k \in Program |-> None]

\* What was kept comes back to each program that has got no settings since;
\* the template is set up anew.
Restore ==
  /\ kept' = NoStore
  /\ DisturbAll
  /\ conf' \in [Program -> Settings]
  /\ \A k \in Program \ {Template} :
       IF kept = NoStore THEN conf'[k] = conf[k]
       ELSE /\ k \notin DOMAIN kept => conf'[k] = conf[k]
            /\ k \in DOMAIN kept \ disputed /\ conf[k] = None => conf'[k] = kept[k]

Step ==
  \/ \E t \in Tool : Work(t) \/ Succeed(t) \/ Fail(t) \/ Begin(t)
  \/ \E k \in Program : Edit(k)
  \/ \E b \in BOOLEAN : Keep(b)
  \/ Discard \/ Restore

Next == (UNCHANGED <<conf, kept, call, disputed>> \/ Step) /\ Honest'

Spec == Init /\ [][Next]_<<conf, shown, masked, kept, call, disputed>>
=============================================================================
