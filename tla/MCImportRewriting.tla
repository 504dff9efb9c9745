------------------------- MODULE MCImportRewriting -------------------------
(* A program of two modules, a few DLLs of Windows of each kind that the     *)
(* code tells apart, and VxKex's own.  kxdx stands for a DLL of a later      *)
(* Windows that VxKex brings along, wpf for one that is not to be rewritten. *)
EXTENDS ImportRewriting, TLC

Names == {"kernel32", "ntdll", "user32", "advapi32", "dx", "secur32", "wininet",
          "iertutil", "lib", "wpf", "kxbase", "kxnt", "kxuser", "kxadvapi", "kxdx"}

Modules == Names \cup {"exe", "zip"}

Files32 == [n \in Names |-> n]

OwnFiles == [n \in {"zip"} |-> "zip"]

DllRedirects ==
  [kernel32 |-> "kxbase", ntdll |-> "kxnt", user32 |-> "kxuser",
   advapi32 |-> "kxadvapi", dx |-> "kxdx"]

Directory == [m \in Modules |->
  CASE m \in {"exe", "lib", "wpf", "zip"} -> "program"
    [] m \in {"kxbase", "kxnt", "kxuser", "kxadvapi", "kxdx"} -> "kex"
    [] OTHER -> "windows"]

Known == [m \in Modules |->
  CASE m \in {"secur32", "kernel32", "iertutil"} -> m
    [] m = "wininet" -> "forced"
    [] m = "wpf" -> "hacked"
    [] m \in {"kxbase", "kxnt", "kxuser", "kxadvapi"} -> "kx"
    [] OTHER -> "none"]

ImportTables == [m \in Modules |->
  CASE m = "exe" -> <<"kernel32", "lib">>
    [] m = "ntdll" -> <<>>
    [] m \in {"kernel32", "kxnt"} -> <<"ntdll">>
    [] m = "secur32" -> <<"kernel32", "advapi32">>
    [] m = "wininet" -> <<"kernel32", "secur32", "iertutil">>
    [] m = "kxuser" -> <<"kernel32", "user32">>
    [] OTHER -> <<"kernel32">>]

Ask(call, name, at) == [call |-> call, name |-> name, at |-> at]

Asked == [m \in Modules |->
  CASE m = "exe" -> {Ask("load", "dx", "search"), Ask("load", "zip", "elsewhere")}
    [] m = "lib" -> {Ask("load", "dx", "delay"), Ask("load", "wininet", "search")}
    [] m = "user32" -> {Ask("load", "dx", "search")}
    [] OTHER -> {}]

\* What kxuser asks for here its functions do, called from another's DllMain.
AskedByDllMain == [m \in Modules |->
  CASE m = "lib" -> <<Ask("load", "user32", "search")>>
    [] m \in {"dx", "wininet"} -> <<Ask("load", "advapi32", "search")>>
    [] m = "zip" -> <<Ask("load", "wpf", "search")>>
    [] m = "wpf" -> <<Ask("load", "dx", "search")>>
    [] m = "iertutil" -> <<Ask("handle", "user32", "search")>>
    [] m = "kxuser" -> <<Ask("load", "user32", "search")>>
    [] m = "kxdx" -> <<Ask("handle", "user32", "search"), Ask("load", "kxadvapi", "search")>>
    [] OTHER -> <<>>]

Cchs == [e \in {"", "kex", "a", "bb", "long", "b/", "a0bb"} |->
  CASE e = "" -> 0 [] e = "a" -> 1 [] e \in {"bb", "b/"} -> 2 [] e = "kex" -> 2
    [] e = "a0bb" -> 4 [] e = "long" -> 4]

Normals == [e \in DOMAIN Cchs |->
  CASE e = "b/" -> <<"bb">> [] e = "a0bb" -> <<"a", "bb">> [] OTHER -> <<e>>]

Plain == [ie |-> FALSE, late |-> FALSE, exempt |-> FALSE, hacks |-> TRUE,
          spoof |-> FALSE, path |-> <<"a", "bb", "a", "bb">>]

\* With room for "kex", without, and too short for it.
Paths == {Plain.path, <<"a", "bb">>, <<"a">>}

Processes ==
  {[Plain EXCEPT !.path = p] : p \in BoundedSeq(Entry, 4) \ {<<>>}}
  \cup {[Plain EXCEPT !.ie = TRUE], [Plain EXCEPT !.late = TRUE],
        [Plain EXCEPT !.exempt = TRUE], [Plain EXCEPT !.hacks = FALSE],
        [Plain EXCEPT !.spoof = TRUE]}

\* A process with one of the other paths is followed until it is in use.
FollowedToStart == boot.phase = "entering" \/ settings.path \in Paths
=============================================================================
