------------------------------ MODULE DllPath ------------------------------
(***************************************************************************)
(* KexDll/dllpath.c: how the directory of VxKex's DLLs is put in front of  *)
(* the loader's search path without changing the path's length.  A path is *)
(* a sequence of entries between semicolons, an entry is known by its      *)
(* length (in characters) and equal to itself only: two spellings the      *)
(* code's comparison takes for the same are one entry.                     *)
(*                                                                         *)
(* Left out: systems that have LdrAddDllDirectory and an empty path.       *)
(***************************************************************************)
EXTENDS Naturals, SequencesExt

CONSTANTS
  Entry,      \* what can stand between two semicolons
  Empty,      \* nothing
  KexDir,     \* Kex3264DirPath
  Torn,       \* an entry that was cut in the middle
  Cch,        \* the length of an entry
  Normal,     \* entries of an entry whose slashes and null characters are replaced
  SearchCch   \* characters of the buffer in which an entry is searched for: 261

ASSUME PathAssumption ==
  /\ {Empty, KexDir} \subseteq Entry /\ Torn \notin Entry
  /\ Cch \in [Entry -> Nat] /\ SearchCch \in Nat
  /\ \A e \in Entry : Cch[e] = 0 <=> e = Empty
  /\ Normal \in [Entry -> Seq(Entry)]

PathCch(p) ==
  LET cch[i \in 0 .. Len(p)] == IF i = 0 THEN 0 ELSE cch[i - 1] + (Cch[p[i]] + 1)
  IN cch[Len(p)] - 1

ASSUME NormalAssumption == \A e \in Entry : PathCch(Normal[e]) = Cch[e]

Normalized(p) == FlattenSeq([i \in DOMAIN p |-> Normal[p[i]]])

\* The entry and a semicolon on either side of it fit the thread's buffer.
Searchable(e) == e # Empty /\ Cch[e] + 2 <= SearchCch

\* The entries at the places in keep.
Kept(p, keep) ==
  LET kept[i \in 0 .. Len(p)] ==
        IF i = 0 THEN <<>> ELSE IF i \in keep THEN Append(kept[i - 1], p[i]) ELSE kept[i - 1]
  IN kept[Len(p)]

RemoveDuplicates(p, i) == Kept(p, {j \in DOMAIN p : j <= i \/ p[j] # p[i]})

\* Entry by entry from the front, until the path, and the semicolon that the
\* search has appended to it, is short enough.
KexpShrinkDllPathLength(p, target) ==
  LET shrunk[i \in 0 .. Len(p)] ==
        IF i = 0 THEN p
        ELSE LET q == shrunk[i - 1]
             IN IF PathCch(q) + 1 > target /\ i <= Len(q) /\ Searchable(q[i])
                THEN RemoveDuplicates(q, i) ELSE q
  IN shrunk[Len(p)]

KexpPadDllPathToOriginalLength(p, cch) == p \o [i \in 1 .. (cch - PathCch(p)) |-> Empty]

\* RtlCopyUnicodeString into a buffer of cch characters.
CutTo(p, cch) ==
  LET whole == CHOOSE k \in DOMAIN p :
                 /\ PathCch(SubSeq(p, 1, k)) <= cch
                 /\ k < Len(p) => PathCch(SubSeq(p, 1, k + 1)) > cch
      rest == cch - PathCch(SubSeq(p, 1, whole))
  IN SubSeq(p, 1, whole) \o
     (IF whole = Len(p) \/ rest = 0 THEN <<>> ELSE IF rest = 1 THEN <<Empty>> ELSE <<Torn>>)

TooShort(p) == PathCch(p) <= Cch[KexDir]

\* Mutant: the path is copied back as long as it is.
KexpAddUnpadded(p) ==
  LET n == Normalized(p)
      target == PathCch(n) - (Cch[KexDir] + 1)
      q == KexpShrinkDllPathLength(n, target)
  IN IF TooShort(n) THEN n ELSE CutTo(<<KexDir>> \o q, PathCch(p) + 1)

\* When the duplicates do not make room the result of the shrinking is ignored:
\* its semicolon is still there and the copy loses the end of the path.
KexpAddKex3264ToDllPath(p) ==
  LET n == Normalized(p)
      target == PathCch(n) - (Cch[KexDir] + 1)
      q == KexpShrinkDllPathLength(n, target)
  IN IF TooShort(n) THEN n
     ELSE IF PathCch(q) + 1 <= target
          THEN KexpPadDllPathToOriginalLength(<<KexDir>> \o q, PathCch(p))
          ELSE CutTo(<<KexDir>> \o q \o <<Empty>>, PathCch(p) + 1)

-----------------------------------------------------------------------------
(* What the header of dllpath.c asks for, without the algorithm.           *)

Repeats(p, i) == \E j \in 1 .. i - 1 : p[j] = p[i]

\* The directories of a path in the order in which they are searched.
SearchOrder(p) == Kept(p, {i \in DOMAIN p : p[i] # Empty /\ ~Repeats(p, i)})

\* Without its duplicates the path is short enough for the new directory, with
\* the character to spare that the appended semicolon takes.
HasRoom(p) ==
  LET n == Normalized(p)
      least == Kept(n, {i \in DOMAIN n : ~(Searchable(n[i]) /\ Repeats(n, i))})
  IN PathCch(least) + 1 + Cch[KexDir] + 1 <= PathCch(p)

\* The rules 1 to 3 of dllpath.c:17-27: the directory is searched, before all
\* others; the length stays; no entry is lost or changes its place.
Extended(p, q) ==
  /\ SearchOrder(q) = SearchOrder(<<KexDir>> \o Normalized(p))
  /\ PathCch(q) = PathCch(p)
=============================================================================
