--------------------------- MODULE MCPropagation ---------------------------
(* Propagation from a program to two generations of processes. *)
EXTENDS Propagation, TLC

CONSTANTS root, child1, child2

Program(bits, own, debugger) ==
  [bits |-> bits, powershell |-> FALSE, own |-> own, key |-> own # NULL \/ debugger # "none",
   debugger |-> debugger]

\* Programs of both bitnesses, with and without options and launcher, one that
\* opts out, and PowerShell.
Programs ==
  { Program(64, "own", "none"), Program(32, NULL, "none"), Program(64, NULL, "managed"),
    Program(32, "off", "none"), Program(64, NULL, "other"),
    [Program(64, NULL, "none") EXCEPT !.powershell = TRUE] }
=============================================================================
