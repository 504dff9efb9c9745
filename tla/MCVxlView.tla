----------------------------- MODULE MCVxlView -----------------------------
(* Two processes that write one log, one after the other, two threads, and a *)
(* viewer that reads it meanwhile.                                           *)
EXTENDS VxlView, TLC

CONSTANTS w1, w2, r1, t1, t2

\* A place without a function name; one without a file name; and one whose
\* function name is cut down to that of the second.
Places ==
  { [sev |-> "error", names |-> <<"cx", "f", "none">>],
    [sev |-> "debug", names |-> <<"cy", "none", "h">>],
    [sev |-> "debug", names |-> <<"cx", "f", "hh">>] }
CutNames == ("hh" :> "h")
Sizes == <<2, 1, 2>>

AllOrSome ==
  { [severities |-> {"error", "debug"}, components |-> {1, 2}],
    [severities |-> {"error"}, components |-> {1, 2}],
    [severities |-> {"error", "debug"}, components |-> {1}] }

AnEntry == { [sev |-> "error", index |-> <<1, 1, 1>>] }

Symmetric == Permutations({w1, w2}) \cup Permutations({t1, t2})
=============================================================================
