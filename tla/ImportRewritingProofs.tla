----------------------- MODULE ImportRewritingProofs -----------------------
(***************************************************************************)
(* Proofs about ImportRewriting for any modules, imports, requests and     *)
(* threads, and loads nested to any depth: the flag of a thread is what    *)
(* its innermost load has made of it and is given back, KexDll is started  *)
(* once, before the program's imports are resolved, what is loaded by name *)
(* is what an import of that name would have been, and the search path     *)
(* keeps its length and its directories wherever there is room.            *)
(***************************************************************************)
EXTENDS ImportRewriting, SequenceTheorems, WellFoundedInduction, TLAPS

Name == DOMAIN File

Image == [mapped : BOOLEAN, names : Seq(Name), bound : BOOLEAN, ready : BOOLEAN]

CodeFrame == [kind : {"code"}, module : Module, todo : Seq(Request)]

LoadFrame == [kind : {"load"}, by : Module, asked : Request,
              wrapper : {"ext", "system", "none"}, saved : BOOLEAN,
              target : Module, kex : BOOLEAN, todo : Seq(Module), init : Seq(Module)]

Frame == CodeFrame \cup LoadFrame

Typed ==
  /\ settings \in Setting
  /\ boot \in [entered : 0 .. 3, starts : Nat,
               phase : {"entering", "loading", "running", "failed"}]
  /\ image \in [Module -> Image]
  /\ stack \in [Thread -> Seq(Frame)]
  /\ flag \in [Thread -> BOOLEAN]

\* KexDll is started in the entry that is for it.
StartsMatchEntries ==
  boot.starts = IF ~settings.exempt /\ (IF settings.late THEN 3 ELSE 1) <= boot.entered
                THEN 1 ELSE 0

EnteredFirst == boot.phase \in {"loading", "running"} => boot.entered = 3

CalledLater ==
  \A t \in Thread : stack[t] # <<>> => boot.phase # "entering" /\ boot.entered = 3

\* Loads and the code they call, or that calls them, alternate.
Alternates(s) == \A i \in 1 .. Len(s) - 1 : s[i].kind # s[i + 1].kind

\* The flag as it is when the first i - 1 frames of s have returned.
FlagAt(s, i) ==
  /\ i \in DOMAIN s
  /\ IF s[i].kind = "load" THEN Entered(s[i].wrapper, s[i].saved)
     ELSE i + 1 \in DOMAIN s /\ Entered(s[i + 1].wrapper, s[i + 1].saved)

\* Each load has saved what it found.
SavesFlag(s) == \A i \in DOMAIN s : s[i].kind = "load" => s[i].saved = FlagAt(s, i + 1)

Nests(s, now) == Alternates(s) /\ SavesFlag(s) /\ now = FlagAt(s, 1)

FlagsNest == \A t \in Thread : Nests(stack[t], flag[t])

IInv == Typed /\ StartsMatchEntries /\ EnteredFirst /\ CalledLater /\ FlagsNest

-----------------------------------------------------------------------------
(* Types *)

LEMMA RequestNames ==
  ASSUME NEW r \in Request
  PROVE  IF r.at = "elsewhere" THEN Own[r.name] \in Module ELSE r.name \in Name
  BY ModuleAssumption DEF Request, Name, Range

LEMMA FileOf == \A n \in Name : File[n] \in Module
  BY ModuleAssumption DEF Name, Range

LEMMA LookupType ==
  ASSUME NEW n \in Name
  PROVE  KexpLookupDllRewriteEntry(n) \in Name
  BY ModuleAssumption DEF Name, Range, KexpLookupDllRewriteEntry, Table, Restrict

LEMMA FilesType ==
  ASSUME NEW s \in Seq(Name)
  PROVE  Files(s) \in Seq(Module)
  BY FileOf DEF Files

LEMMA FreshType ==
  ASSUME NEW m \in Module
  PROVE  Fresh(m) \in Image
  BY ModuleAssumption DEF Fresh, Image, Name

LEMMA RewrittenType ==
  ASSUME NEW m \in Module, NEW fault
  PROVE  KexRewriteImageImportDirectory(m, fault) \in Image
<1>1. Imports[m] \in Seq(Name)
  BY ModuleAssumption DEF Name
<1>2. \A n \in Name : NewName(m, n) \in Name
  BY LookupType, ModuleAssumption DEF NewName, Name
<1>3. \A left : [i \in DOMAIN Imports[m] |->
                   IF i \in left THEN Imports[m][i] ELSE NewName(m, Imports[m][i])] \in Seq(Name)
  BY <1>1, <1>2
<1> QED
  BY <1>3, FreshType DEF KexRewriteImageImportDirectory, Image

-----------------------------------------------------------------------------
(* Frames that are pushed, popped and changed *)

LEMMA FrameKinds ==
  ASSUME NEW f \in Frame
  PROVE  /\ f.kind \in {"code", "load"}
         /\ f.kind = "load" => f \in LoadFrame
         /\ f.kind = "code" => f \in CodeFrame
BY DEF Frame, LoadFrame, CodeFrame

LEMMA EnteredType ==
  ASSUME NEW w \in {"ext", "system", "none"}, NEW now \in BOOLEAN
  PROVE  /\ Entered(w, now) \in BOOLEAN
         /\ Left(w, now, Entered(w, now)) = now
BY DEF Entered, Left

LEMMA EnteredFrame ==
  ASSUME NEW f \in Frame, f.kind = "load"
  PROVE  Entered(f.wrapper, f.saved) \in BOOLEAN
BY EnteredType, FrameKinds DEF LoadFrame

LEMMA PushFacts ==
  ASSUME NEW s \in Seq(Frame), NEW f \in Frame
  PROVE  /\ Push(f, s) \in Seq(Frame) /\ Push(f, s) # <<>>
         /\ Len(Push(f, s)) = Len(s) + 1
         /\ Push(f, s)[1] = f
         /\ \A i \in 1 .. Len(s) : Push(f, s)[i + 1] = s[i]
BY DEF Push

LEMMA PushNests ==
  ASSUME NEW s \in Seq(Frame), NEW f \in Frame, NEW now \in BOOLEAN, Nests(s, now),
         s # <<>> => f.kind # s[1].kind,
         f.kind = "load" => f.saved = now
  PROVE  Nests(Push(f, s), IF f.kind = "load" THEN Entered(f.wrapper, f.saved) ELSE now)
<1> DEFINE q == Push(f, s)
<1>1. /\ q \in Seq(Frame) /\ Len(q) = Len(s) + 1 /\ q[1] = f
      /\ \A i \in 1 .. Len(s) : q[i + 1] = s[i]
  BY PushFacts
<1>2. f.kind \in {"code", "load"} /\ \A i \in 1 .. Len(s) : s[i].kind \in {"code", "load"}
  BY FrameKinds
<1> HIDE DEF q
<1>3. Alternates(q)
  <2> SUFFICES ASSUME NEW i \in 1 .. Len(q) - 1 PROVE q[i].kind # q[i + 1].kind
    BY DEF Alternates
  <2>1. CASE i = 1
    BY <1>1, <2>1
  <2>2. CASE i # 1
    <3>1. i - 1 \in 1 .. Len(s) - 1 /\ q[i] = s[i - 1] /\ q[i + 1] = s[i]
      BY <1>1, <2>2
    <3> QED
      BY <3>1 DEF Nests, Alternates
  <2> QED
    BY <2>1, <2>2
<1>4. ASSUME NEW i \in Nat \ {0} PROVE FlagAt(q, i + 1) = FlagAt(s, i)
  <2>1. CASE i \in 1 .. Len(s)
    <3>1. i \in DOMAIN s /\ i + 1 \in DOMAIN q /\ q[i + 1] = s[i]
      BY <1>1, <2>1
    <3>2. i + 1 \in DOMAIN s <=> i + 1 + 1 \in DOMAIN q
      BY <1>1, <2>1
    <3>3. i + 1 \in DOMAIN s => q[i + 1 + 1] = s[i + 1]
      BY <1>1
    <3> QED
      BY <1>2, <2>1, <3>1, <3>2, <3>3 DEF FlagAt
  <2>2. CASE i \notin 1 .. Len(s)
    <3>1. i \notin DOMAIN s /\ i + 1 \notin DOMAIN q
      BY <1>1, <2>2
    <3> QED
      BY <3>1 DEF FlagAt
  <2> QED
    BY <2>1, <2>2
<1>5. FlagAt(q, 1) = IF f.kind = "load" THEN Entered(f.wrapper, f.saved) ELSE now
  <2>1. 1 \in DOMAIN q /\ q[1] = f
    BY <1>1
  <2>2. CASE f.kind = "load"
    BY <2>1, <2>2, EnteredFrame DEF FlagAt
  <2>3. CASE f.kind = "code" /\ s = <<>>
    <3>1. 2 \notin DOMAIN q /\ 1 \notin DOMAIN s
      BY <1>1, <2>3
    <3> QED
      BY <2>1, <2>3, <3>1 DEF FlagAt, Nests
  <2>4. CASE f.kind = "code" /\ s # <<>>
    <3>1. 1 \in DOMAIN s /\ 2 \in DOMAIN q /\ q[2] = s[1] /\ s[1].kind = "load"
      BY <1>1, <1>2, <2>4
    <3>2. Entered(s[1].wrapper, s[1].saved) \in BOOLEAN
      BY <3>1, EnteredFrame
    <3>3. now = Entered(s[1].wrapper, s[1].saved)
      BY <3>1, <3>2 DEF Nests, FlagAt
    <3>4. 1 + 1 = 2
      OBVIOUS
    <3>5. FlagAt(q, 1) = Entered(s[1].wrapper, s[1].saved)
      BY <2>1, <2>4, <3>1, <3>2, <3>4 DEF FlagAt
    <3> QED
      BY <2>4, <3>3, <3>5
  <2> QED
    BY <1>2, <2>2, <2>3, <2>4
<1>6. SavesFlag(q)
  <2> SUFFICES ASSUME NEW i \in DOMAIN q, q[i].kind = "load"
               PROVE  q[i].saved = FlagAt(q, i + 1)
    BY DEF SavesFlag
  <2>1. CASE i = 1
    BY <1>1, <1>4, <2>1 DEF Nests
  <2>2. CASE i # 1
    <3>1. i - 1 \in DOMAIN s /\ q[i] = s[i - 1] /\ i = (i - 1) + 1 /\ i \in Nat \ {0}
      BY <1>1, <2>2
    <3>2. s[i - 1].saved = FlagAt(s, i)
      BY <3>1 DEF Nests, SavesFlag
    <3> QED
      BY <1>4, <3>1, <3>2
  <2> QED
    BY <2>1, <2>2
<1> QED
  BY <1>3, <1>5, <1>6 DEF Nests, q

LEMMA PushLoadNests ==
  ASSUME NEW s \in Seq(Frame), NEW f \in LoadFrame, NEW now \in BOOLEAN, Nests(s, now),
         s = <<>> \/ s[1].kind = "code", f.saved = now
  PROVE  Nests(Push(f, s), Entered(f.wrapper, now))
<1>1. f \in Frame /\ f.kind = "load"
  BY DEF Frame, LoadFrame
<1>2. s # <<>> => f.kind # s[1].kind
  BY <1>1
<1>3. Nests(Push(f, s), IF f.kind = "load" THEN Entered(f.wrapper, f.saved) ELSE now)
  BY <1>1, <1>2, PushNests
<1>4. (IF f.kind = "load" THEN Entered(f.wrapper, f.saved) ELSE now) = Entered(f.wrapper, now)
  BY <1>1
<1> QED
  BY <1>3, <1>4

LEMMA PushCodeNests ==
  ASSUME NEW s \in Seq(Frame), NEW f \in CodeFrame, NEW now \in BOOLEAN, Nests(s, now),
         s = <<>> \/ s[1].kind = "load"
  PROVE  Nests(Push(f, s), now)
<1>1. f \in Frame /\ f.kind = "code"
  BY DEF Frame, CodeFrame
<1>2. s # <<>> => f.kind # s[1].kind
  BY <1>1
<1>3. Nests(Push(f, s), IF f.kind = "load" THEN Entered(f.wrapper, f.saved) ELSE now)
  BY <1>1, <1>2, PushNests
<1>4. (IF f.kind = "load" THEN Entered(f.wrapper, f.saved) ELSE now) = now
  BY <1>1
<1> QED
  BY <1>3, <1>4

LEMMA PopNests ==
  ASSUME NEW s \in Seq(Frame), s # <<>>, NEW now \in BOOLEAN, Nests(s, now)
  PROVE  Nests(Tail(s), IF s[1].kind = "load" THEN s[1].saved ELSE now)
<1> DEFINE q == Tail(s)
<1>1. /\ q \in Seq(Frame) /\ Len(q) = Len(s) - 1
      /\ \A i \in 1 .. Len(q) : q[i] = s[i + 1]
  OBVIOUS
<1>2. \A i \in 1 .. Len(s) : s[i] \in Frame /\ s[i].kind \in {"code", "load"}
  BY FrameKinds
<1> HIDE DEF q
<1>3. Alternates(q)
  <2> SUFFICES ASSUME NEW i \in 1 .. Len(q) - 1 PROVE q[i].kind # q[i + 1].kind
    BY DEF Alternates
  <2>1. i + 1 \in 1 .. Len(s) - 1 /\ q[i] = s[i + 1] /\ q[i + 1] = s[i + 1 + 1]
    BY <1>1
  <2> QED
    BY <2>1 DEF Nests, Alternates
<1>4. ASSUME NEW i \in Nat \ {0} PROVE FlagAt(q, i) = FlagAt(s, i + 1)
  <2>1. CASE i \in 1 .. Len(q)
    <3>1. i \in DOMAIN q /\ i + 1 \in DOMAIN s /\ q[i] = s[i + 1]
      BY <1>1, <2>1
    <3>2. i + 1 \in DOMAIN q <=> i + 1 + 1 \in DOMAIN s
      BY <1>1, <2>1
    <3>3. i + 1 \in DOMAIN q => q[i + 1] = s[i + 1 + 1]
      BY <1>1
    <3> QED
      BY <1>2, <2>1, <3>1, <3>2, <3>3 DEF FlagAt
  <2>2. CASE i \notin 1 .. Len(q)
    <3>1. i \notin DOMAIN q /\ i + 1 \notin DOMAIN s
      BY <1>1, <2>2
    <3> QED
      BY <3>1 DEF FlagAt
  <2> QED
    BY <2>1, <2>2
<1>5. SavesFlag(q)
  <2> SUFFICES ASSUME NEW i \in DOMAIN q, q[i].kind = "load"
               PROVE  q[i].saved = FlagAt(q, i + 1)
    BY DEF SavesFlag
  <2>1. i + 1 \in DOMAIN s /\ q[i] = s[i + 1] /\ i \in Nat \ {0}
    BY <1>1
  <2>2. s[i + 1].saved = FlagAt(s, i + 1 + 1)
    BY <2>1 DEF Nests, SavesFlag
  <2> QED
    BY <1>4, <2>1, <2>2
<1>6. Len(s) \in Nat \ {0} /\ DOMAIN s = 1 .. Len(s)
  BY EmptySeq
<1>7. FlagAt(q, 1) = IF s[1].kind = "load" THEN s[1].saved ELSE now
  <2>1. 1 \in DOMAIN s /\ FlagAt(q, 1) = FlagAt(s, 1 + 1)
    BY <1>4
  <2>2. CASE s[1].kind = "load"
    BY <2>1, <2>2 DEF Nests, SavesFlag
  <2>3. CASE s[1].kind = "code" /\ Len(s) = 1
    <3>1. 1 \in DOMAIN s /\ 1 + 1 \notin DOMAIN s
      BY <2>3
    <3>2. ~FlagAt(s, 1 + 1)
      BY <3>1 DEF FlagAt
    <3>3. ~now
      BY <2>3, <3>1 DEF FlagAt, Nests
    <3>4. FlagAt(s, 1 + 1) = now
      BY <3>1, <3>2, <3>3 DEF FlagAt
    <3> QED
      BY <2>1, <2>3, <3>4
  <2>4. CASE s[1].kind = "code" /\ Len(s) # 1
    <3>1. 1 + 1 \in DOMAIN s /\ 1 \in 1 .. Len(s) - 1
      BY <1>6, <2>4
    <3>2. s[1 + 1].kind = "load"
      BY <1>2, <2>4, <3>1 DEF Nests, Alternates
    <3>3. Entered(s[1 + 1].wrapper, s[1 + 1].saved) \in BOOLEAN
      BY <1>2, <3>1, <3>2, EnteredFrame
    <3>4. FlagAt(s, 1 + 1) = Entered(s[1 + 1].wrapper, s[1 + 1].saved)
      BY <3>1, <3>2, <3>3 DEF FlagAt
    <3>5. now = Entered(s[1 + 1].wrapper, s[1 + 1].saved)
      BY <2>1, <2>4, <3>1, <3>3 DEF FlagAt, Nests
    <3> QED
      BY <2>1, <2>4, <3>4, <3>5
  <2> QED
    BY <1>2, <2>1, <2>2, <2>3, <2>4
<1> QED
  BY <1>3, <1>5, <1>7 DEF Nests, q

\* What the wrapper leaves is what it found.
LEMMA PoppedFlag ==
  ASSUME NEW s \in Seq(Frame), s # <<>>, s[1].kind = "load",
         NEW now \in BOOLEAN, Nests(s, now)
  PROVE  Left(s[1].wrapper, s[1].saved, now) = s[1].saved
<1>1. 1 \in DOMAIN s /\ s[1] \in LoadFrame
  BY FrameKinds
<1>2. Entered(s[1].wrapper, s[1].saved) \in BOOLEAN
  BY <1>1, EnteredType DEF LoadFrame
<1>3. now = Entered(s[1].wrapper, s[1].saved)
  BY <1>1, <1>2 DEF Nests, FlagAt
<1> QED
  BY <1>1, <1>3, EnteredType DEF LoadFrame

LEMMA SameFlags ==
  ASSUME NEW s \in Seq(Frame), NEW q \in Seq(Frame), Len(q) = Len(s),
         \A i \in 1 .. Len(s) :
           /\ q[i].kind = s[i].kind
           /\ s[i].kind = "load" => q[i].wrapper = s[i].wrapper /\ q[i].saved = s[i].saved,
         NEW now \in BOOLEAN, Nests(s, now)
  PROVE  Nests(q, now)
<1>1. \A i \in 1 .. Len(s) : s[i] \in Frame /\ s[i].kind \in {"code", "load"}
  BY FrameKinds
<1>2. Alternates(q)
  BY DEF Nests, Alternates
<1>3. ASSUME NEW i \in Nat \ {0} PROVE FlagAt(q, i) = FlagAt(s, i)
  <2>1. CASE i \in DOMAIN s /\ s[i].kind = "load"
    BY <2>1 DEF FlagAt
  <2>2. CASE i \in DOMAIN s /\ s[i].kind # "load" /\ i + 1 \in DOMAIN s
    <3>1. i \in 1 .. Len(s) - 1 /\ s[i + 1].kind = "load"
      BY <1>1, <2>2 DEF Nests, Alternates
    <3> QED
      BY <2>2, <3>1 DEF FlagAt
  <2>3. CASE i \notin DOMAIN s \/ (s[i].kind # "load" /\ i + 1 \notin DOMAIN s)
    BY <2>3 DEF FlagAt
  <2> QED
    BY <2>1, <2>2, <2>3
<1>4. SavesFlag(q)
  <2> SUFFICES ASSUME NEW i \in DOMAIN q, q[i].kind = "load"
               PROVE  q[i].saved = FlagAt(q, i + 1)
    BY DEF SavesFlag
  <2>1. i \in DOMAIN s /\ s[i].saved = FlagAt(s, i + 1)
    BY DEF Nests, SavesFlag
  <2> QED
    BY <1>3, <2>1
<1> QED
  BY <1>2, <1>3, <1>4 DEF Nests

LEMMA NothingNests == Nests(<<>>, FALSE)
<1>1. DOMAIN <<>> = {} /\ Len(<<>>) = 0
  OBVIOUS
<1>2. Alternates(<<>>)
  BY <1>1 DEF Alternates
<1>3. SavesFlag(<<>>)
  BY <1>1 DEF SavesFlag
<1>4. FALSE = FlagAt(<<>>, 1)
  BY <1>1 DEF FlagAt
<1> QED
  BY <1>2, <1>3, <1>4 DEF Nests

LEMMA HeadChanges ==
  ASSUME NEW s \in Seq(Frame), s # <<>>, NEW f \in Frame, f.kind = s[1].kind,
         f.kind = "load" => f.wrapper = s[1].wrapper /\ f.saved = s[1].saved,
         NEW now \in BOOLEAN, Nests(s, now)
  PROVE  /\ [s EXCEPT ![1] = f] \in Seq(Frame)
         /\ Nests([s EXCEPT ![1] = f], now)
<1> DEFINE q == [s EXCEPT ![1] = f]
<1>1. Len(s) \in Nat \ {0} /\ DOMAIN s = 1 .. Len(s)
  BY EmptySeq
<1>2. q \in Seq(Frame) /\ Len(q) = Len(s)
  BY <1>1
<1>3. \A i \in 1 .. Len(s) : q[i] = IF i = 1 THEN f ELSE s[i]
  BY <1>1
<1> HIDE DEF q
<1>4. Nests(q, now)
  BY <1>2, <1>3, SameFlags
<1> QED
  BY <1>2, <1>4 DEF q

\* A step of one thread leaves the others' frames and flags alone.
LEMMA OneThread ==
  ASSUME Typed, FlagsNest, NEW t \in Thread,
         NEW s \in Seq(Frame), NEW now \in BOOLEAN, Nests(s, now),
         stack' = [stack EXCEPT ![t] = s], flag' = [flag EXCEPT ![t] = now]
  PROVE  /\ stack' \in [Thread -> Seq(Frame)] /\ flag' \in [Thread -> BOOLEAN]
         /\ FlagsNest'
<1>1. stack' \in [Thread -> Seq(Frame)] /\ flag' \in [Thread -> BOOLEAN]
  BY DEF Typed
<1>2. ASSUME NEW u \in Thread PROVE Nests(stack'[u], flag'[u])
  <2>1. CASE u = t
    BY <2>1 DEF Typed
  <2>2. CASE u # t
    BY <2>2 DEF Typed, FlagsNest
  <2> QED
    BY <2>1, <2>2
<1> QED
  BY <1>1, <1>2 DEF FlagsNest

-----------------------------------------------------------------------------
(* The steps *)

LEMMA InitHolds == Init => IInv
<1> SUFFICES ASSUME Init PROVE IInv
  OBVIOUS
<1>1. Typed
  <2>1. settings \in Setting
    BY SettingsAssumption DEF Init
  <2>2. image \in [Module -> Image]
    <3>1. \A m \in Module : [Fresh(m) EXCEPT !.mapped = (m = Exe)] \in Image
      BY FreshType DEF Image
    <3> QED
      BY <3>1 DEF Init
  <2>3. boot \in [entered : 0 .. 3, starts : Nat,
                  phase : {"entering", "loading", "running", "failed"}]
    BY DEF Init
  <2> QED
    BY <2>1, <2>2, <2>3 DEF Init, Typed
<1>2. StartsMatchEntries /\ EnteredFirst /\ CalledLater
  BY DEF Init, StartsMatchEntries, EnteredFirst, CalledLater
<1>3. ASSUME NEW t \in Thread PROVE Nests(stack[t], flag[t])
  <2>1. stack[t] = <<>> /\ flag[t] = FALSE
    BY <1>3 DEF Init
  <2> QED
    BY <2>1, NothingNests
<1> QED
  BY <1>1, <1>2, <1>3 DEF IInv, FlagsNest

LEMMA DllMainStep ==
  ASSUME IInv, DllMain
  PROVE  IInv'
<1>1. /\ boot.phase = "entering" /\ boot.entered < 3
      /\ UNCHANGED <<settings, stack, flag>>
  BY DEF DllMain
<1>2. CASE StartsAt(boot.entered + 1)
  <2>1. Start
    BY <1>2 DEF DllMain
  <2>2. \E fault \in {NoFault} \cup FaultsOf(Exe) :
          /\ image' = [image EXCEPT ![Exe] = KexRewriteImageImportDirectory(Exe, fault)]
          /\ \E p \in {"failed", boot.phase} :
               boot' = [boot EXCEPT !.entered = @ + 1, !.starts = @ + 1, !.phase = p]
    BY <2>1 DEF Start
  <2>3. image' \in [Module -> Image]
    BY <2>2, RewrittenType, ModuleAssumption DEF IInv, Typed
  <2>4. /\ boot'.entered = boot.entered + 1 /\ boot'.starts = boot.starts + 1
        /\ boot'.phase \in {"failed", "entering"}
        /\ boot' \in [entered : 0 .. 3, starts : Nat,
                      phase : {"entering", "loading", "running", "failed"}]
    <3>1. PICK p \in {"failed", boot.phase} :
            boot' = [boot EXCEPT !.entered = @ + 1, !.starts = @ + 1, !.phase = p]
      BY <2>2
    <3>2. boot \in [entered : 0 .. 3, starts : Nat,
                    phase : {"entering", "loading", "running", "failed"}]
      BY DEF IInv, Typed
    <3>3. p \in {"failed", "entering"} /\ boot.entered + 1 \in 0 .. 3
      BY <1>1, <3>1, <3>2
    <3>4. boot' = [entered |-> boot.entered + 1, starts |-> boot.starts + 1, phase |-> p]
      BY <3>1, <3>2
    <3> QED
      BY <3>2, <3>3, <3>4
  <2>5. StartsMatchEntries'
    BY <1>1, <1>2, <2>4 DEF IInv, Typed, StartsMatchEntries, StartsAt
  <2> QED
    BY <1>1, <2>3, <2>4, <2>5
       DEF IInv, Typed, EnteredFirst, CalledLater, FlagsNest
<1>3. CASE ~StartsAt(boot.entered + 1)
  <2>1. boot' = [boot EXCEPT !.entered = @ + 1] /\ UNCHANGED image
    BY <1>3 DEF DllMain
  <2>2. /\ boot'.entered = boot.entered + 1 /\ boot'.starts = boot.starts
        /\ boot'.phase = "entering"
        /\ boot' \in [entered : 0 .. 3, starts : Nat,
                      phase : {"entering", "loading", "running", "failed"}]
    BY <1>1, <2>1 DEF IInv, Typed
  <2>3. StartsMatchEntries'
    BY <1>1, <1>3, <2>2 DEF IInv, Typed, StartsMatchEntries, StartsAt
  <2> QED
    BY <1>1, <2>1, <2>2, <2>3
       DEF IInv, Typed, EnteredFirst, CalledLater, FlagsNest
<1> QED
  BY <1>2, <1>3

\* What the steps of a thread have in common.
LEMMA ThreadKeeps ==
  ASSUME IInv, NEW t \in Thread, NEW s \in Seq(Frame), NEW now \in BOOLEAN,
         Nests(s, now), stack' = [stack EXCEPT ![t] = s], flag' = [flag EXCEPT ![t] = now],
         UNCHANGED settings, image' \in [Module -> Image],
         boot.entered = 3, NEW p \in {"loading", "running", "failed"},
         boot' = [boot EXCEPT !.phase = p]
  PROVE  IInv'
<1>1. FlagsNest' /\ stack' \in [Thread -> Seq(Frame)] /\ flag' \in [Thread -> BOOLEAN]
  BY OneThread DEF IInv
<1>2. boot \in [entered : 0 .. 3, starts : Nat,
                phase : {"entering", "loading", "running", "failed"}]
  BY DEF IInv, Typed
<1>3. boot' = [entered |-> 3, starts |-> boot.starts, phase |-> p]
  BY <1>2
<1>4. Typed'
  BY <1>1, <1>2, <1>3 DEF IInv, Typed
<1>5. StartsMatchEntries'
  BY <1>3 DEF IInv, StartsMatchEntries
<1>6. EnteredFirst' /\ CalledLater'
  BY <1>3 DEF EnteredFirst, CalledLater
<1> QED
  BY <1>1, <1>4, <1>5, <1>6 DEF IInv

\* Of a step of a thread that has frames and keeps its flag and the process's phase.
LEMMA FramesKeep ==
  ASSUME IInv, NEW t \in Thread, NEW s \in Seq(Frame), stack[t] # <<>>,
         Nests(s, flag[t]), stack' = [stack EXCEPT ![t] = s],
         UNCHANGED <<settings, boot, flag>>, image' \in [Module -> Image]
  PROVE  IInv'
<1>1. flag[t] \in BOOLEAN /\ flag' = [flag EXCEPT ![t] = flag[t]]
  BY DEF IInv, Typed
<1>2. boot.entered = 3 /\ boot.phase \in {"loading", "running", "failed"}
  BY DEF IInv, Typed, CalledLater
<1>3. boot' = [boot EXCEPT !.phase = boot.phase]
  BY DEF IInv, Typed
<1> QED
  BY <1>1, <1>2, <1>3, ThreadKeeps

LEMMA HeadFrame ==
  ASSUME IInv, NEW t \in Thread, stack[t] # <<>>
  PROVE  /\ stack[t] \in Seq(Frame) /\ Head(stack[t]) = stack[t][1] /\ stack[t][1] \in Frame
         /\ Nests(stack[t], flag[t]) /\ flag[t] \in BOOLEAN
         /\ stack[t][1].kind = "load" => stack[t][1] \in LoadFrame
         /\ stack[t][1].kind = "code" => stack[t][1] \in CodeFrame
<1>1. stack[t] \in Seq(Frame) /\ Nests(stack[t], flag[t]) /\ flag[t] \in BOOLEAN
  BY DEF IInv, Typed, FlagsNest
<1>2. Head(stack[t]) = stack[t][1] /\ stack[t][1] \in Frame
  BY <1>1, EmptySeq
<1> QED
  BY <1>1, <1>2, FrameKinds

LEMMA LoadProgramStep ==
  ASSUME IInv, LoadProgram
  PROVE  IInv'
<1> DEFINE nothing == [call |-> "load", name |-> Kernel, at |-> "search"]
           f == Load(Exe, nothing, "none", FALSE, Exe, KexDirSearched, Files(image[Exe].names))
<1>1. boot.phase = "entering" /\ boot.entered = 3 /\ stack[MainThread] = <<>>
  BY ModuleAssumption DEF LoadProgram, IInv, CalledLater
<1>2. f \in LoadFrame
  <2>1. nothing \in Request
    BY ModuleAssumption DEF Request
  <2>2. Files(image[Exe].names) \in Seq(Module) /\ KexDirSearched \in BOOLEAN
    BY FilesType, ModuleAssumption DEF IInv, Typed, Image, KexDirSearched
  <2> QED
    BY <2>1, <2>2, ModuleAssumption DEF Load, LoadFrame
<1>3. f \in Frame /\ f.kind = "load" /\ f.wrapper = "none" /\ f.saved = FALSE
  BY <1>2 DEF Frame, Load
<1>4. flag[MainThread] = FALSE
  <2>1. flag[MainThread] = FlagAt(<<>>, 1) /\ flag[MainThread] \in BOOLEAN
    BY <1>1, ModuleAssumption DEF IInv, Typed, FlagsNest, Nests
  <2> QED
    BY <2>1, NothingNests DEF Nests
<1> HIDE DEF f
<1>5. Nests(Push(f, <<>>), FALSE) /\ Push(f, <<>>) = <<f>>
  <2>1. <<>> \in Seq(Frame) /\ FALSE \in BOOLEAN
    OBVIOUS
  <2>2. Nests(Push(f, <<>>), Entered(f.wrapper, FALSE))
    BY <1>2, <1>3, <2>1, NothingNests, PushLoadNests
  <2>3. Entered(f.wrapper, FALSE) = FALSE
    BY <1>3 DEF Entered
  <2>4. Push(f, <<>>) = <<f>>
    BY <1>3 DEF Push
  <2> QED
    BY <2>2, <2>3, <2>4
<1>6. stack' = [stack EXCEPT ![MainThread] = <<f>>] /\ flag' = [flag EXCEPT ![MainThread] = FALSE]
  BY <1>4, ModuleAssumption DEF LoadProgram, IInv, Typed, f
<1>7. /\ boot' = [boot EXCEPT !.phase = "loading"] /\ UNCHANGED settings
      /\ image' \in [Module -> Image]
  BY DEF LoadProgram, IInv, Typed
<1>8. <<f>> \in Seq(Frame)
  BY <1>3
<1> QED
  BY <1>1, <1>5, <1>6, <1>7, <1>8, ThreadKeeps, ModuleAssumption

LEMMA MapNextStep ==
  ASSUME IInv, NEW t \in Thread, MapNext(t)
  PROVE  IInv'
<1> DEFINE f == stack[t][1]
           m == Head(f.todo)
<1>1. stack[t] # <<>> /\ f.kind = "load" /\ f.todo # <<>>
  BY HeadFrame DEF MapNext, In
<1>2. /\ stack[t] \in Seq(Frame) /\ Head(stack[t]) = f /\ f \in LoadFrame
      /\ Nests(stack[t], flag[t]) /\ flag[t] \in BOOLEAN
  BY <1>1, HeadFrame
<1>3. m \in Module /\ Tail(f.todo) \in Seq(Module) /\ f.init \in Seq(Module)
  BY <1>1, <1>2 DEF LoadFrame
<1>4. ASSUME NEW todo \in Seq(Module), NEW init \in Seq(Module),
             stack' = [stack EXCEPT ![t] =
               [stack[t] EXCEPT ![1] = [f EXCEPT !.todo = todo, !.init = init]]],
             image' \in [Module -> Image]
      PROVE  IInv'
  <2> DEFINE g == [f EXCEPT !.todo = todo, !.init = init]
  <2>1. /\ g \in Frame /\ g.kind = f.kind
        /\ g.wrapper = f.wrapper /\ g.saved = f.saved
    BY <1>2 DEF Frame, LoadFrame
  <2> HIDE DEF g
  <2>2. /\ [stack[t] EXCEPT ![1] = g] \in Seq(Frame)
        /\ Nests([stack[t] EXCEPT ![1] = g], flag[t])
    BY <1>1, <1>2, <2>1, HeadChanges
  <2>3. stack' = [stack EXCEPT ![t] = [stack[t] EXCEPT ![1] = g]]
    BY <1>4 DEF g
  <2>4. UNCHANGED <<settings, boot, flag>>
    BY DEF MapNext
  <2> QED
    BY <1>1, <1>4, <2>2, <2>3, <2>4, FramesKeep
<1>5. CASE image[m].mapped
  <2>1. /\ stack' = [stack EXCEPT ![t][1] = [f EXCEPT !.todo = Tail(f.todo), !.init = f.init]]
        /\ UNCHANGED image
    BY <1>2, <1>5 DEF MapNext
  <2> HIDE DEF f
  <2>2. stack' = [stack EXCEPT ![t] =
           [stack[t] EXCEPT ![1] = [f EXCEPT !.todo = Tail(f.todo), !.init = f.init]]]
    BY <2>1
  <2> QED
    BY <1>3, <1>4, <2>1, <2>2 DEF IInv, Typed
<1>6. CASE ~image[m].mapped
  <2>1. /\ \E fault \in {NoFault} \cup FaultsOf(m) : Mapped(m, fault)
        /\ stack' = [stack EXCEPT ![t][1] =
             [f EXCEPT !.todo = Tail(f.todo) \o Files(image'[m].names), !.init = <<m>> \o f.init]]
    BY <1>2, <1>6 DEF MapNext
  <2>2. image' \in [Module -> Image]
    <3>1. \E x \in Image : image' = [image EXCEPT ![m] = x]
      BY <1>3, <2>1, RewrittenType, FreshType DEF Mapped
    <3> QED
      BY <3>1 DEF IInv, Typed
  <2>3. Files(image'[m].names) \in Seq(Module)
    BY <1>3, <2>2, FilesType DEF Image
  <2>4. Tail(f.todo) \o Files(image'[m].names) \in Seq(Module) /\ <<m>> \o f.init \in Seq(Module)
    BY <1>3, <2>3
  <2>5. PICK todo \in Seq(Module), init \in Seq(Module) :
          stack' = [stack EXCEPT ![t][1] = [f EXCEPT !.todo = todo, !.init = init]]
    BY <2>1, <2>4
  <2> HIDE DEF f
  <2>6. stack' = [stack EXCEPT ![t] =
           [stack[t] EXCEPT ![1] = [f EXCEPT !.todo = todo, !.init = init]]]
    BY <2>5
  <2> QED
    BY <1>4, <2>2, <2>6
<1> QED
  BY <1>5, <1>6

LEMMA InitNextStep ==
  ASSUME IInv, NEW t \in Thread, InitNext(t)
  PROVE  IInv'
<1> DEFINE f == stack[t][1]
           m == Head(f.init)
           g == [f EXCEPT !.init = Tail(f.init)]
           s == [stack[t] EXCEPT ![1] = g]
           c == Code(m, Loads[m])
<1>1. stack[t] # <<>> /\ f.kind = "load" /\ f.init # <<>>
  BY HeadFrame DEF InitNext, In
<1>2. /\ stack[t] \in Seq(Frame) /\ Head(stack[t]) = f /\ f \in LoadFrame
      /\ Nests(stack[t], flag[t]) /\ flag[t] \in BOOLEAN
  BY <1>1, HeadFrame
<1>3. m \in Module /\ Tail(f.init) \in Seq(Module)
  BY <1>1, <1>2 DEF LoadFrame
<1>4. g \in Frame /\ g.kind = f.kind /\ g.wrapper = f.wrapper /\ g.saved = f.saved
  BY <1>2, <1>3 DEF Frame, LoadFrame
<1>5. c \in CodeFrame
  BY <1>3, ModuleAssumption DEF Code, CodeFrame
<1>6. stack' = [stack EXCEPT ![t] = Push(c, s)] /\ UNCHANGED <<settings, boot, flag, image>>
  <2>1. stack' = [stack EXCEPT ![t] =
                   Push(Code(m, Loads[m]), [stack[t] EXCEPT ![1].init = Tail(@)])]
    BY <1>2 DEF InitNext
  <2>2. [stack[t] EXCEPT ![1].init = Tail(@)] = s
    OBVIOUS
  <2> QED
    BY <2>1, <2>2 DEF InitNext
<1> HIDE DEF g, c
<1>7. s \in Seq(Frame) /\ Nests(s, flag[t])
  BY <1>1, <1>2, <1>4, HeadChanges
<1>8. s[1].kind = "load"
  BY <1>1, <1>2, <1>4, EmptySeq
<1> HIDE DEF s
<1>9. Nests(Push(c, s), flag[t]) /\ Push(c, s) \in Seq(Frame)
  BY <1>2, <1>5, <1>7, <1>8, PushCodeNests, PushFacts DEF Frame
<1> QED
  BY <1>1, <1>6, <1>9, FramesKeep DEF IInv, Typed

LEMMA CodeReturnsStep ==
  ASSUME IInv, NEW t \in Thread, CodeReturns(t)
  PROVE  IInv'
<1>1. stack[t] # <<>> /\ stack[t][1].kind = "code"
  BY HeadFrame DEF CodeReturns, In
<1>2. /\ stack[t] \in Seq(Frame) /\ Head(stack[t]) = stack[t][1] /\ stack[t][1] \in CodeFrame
      /\ Nests(stack[t], flag[t]) /\ flag[t] \in BOOLEAN
  BY <1>1, HeadFrame
<1>3. /\ stack' = [stack EXCEPT ![t] = Tail(stack[t])]
      /\ UNCHANGED <<settings, boot, flag>>
      /\ image' = [image EXCEPT ![stack[t][1].module].ready = TRUE]
  BY <1>2 DEF CodeReturns
<1>4. image' \in [Module -> Image]
  <2>1. stack[t][1].module \in Module
    BY <1>2 DEF CodeFrame
  <2>2. image[stack[t][1].module] \in Image
    BY <2>1 DEF IInv, Typed
  <2>3. [image[stack[t][1].module] EXCEPT !.ready = TRUE] \in Image
    BY <2>2 DEF Image
  <2> QED
    BY <1>3, <2>1, <2>3 DEF IInv, Typed
<1>5. Nests(Tail(stack[t]), flag[t])
  <2>1. Nests(Tail(stack[t]), IF stack[t][1].kind = "load" THEN stack[t][1].saved ELSE flag[t])
    BY <1>1, <1>2, PopNests
  <2>2. (IF stack[t][1].kind = "load" THEN stack[t][1].saved ELSE flag[t]) = flag[t]
    BY <1>1
  <2> QED
    BY <2>1, <2>2
<1>6. Tail(stack[t]) \in Seq(Frame)
  BY <1>1, <1>2
<1> QED
  BY <1>1, <1>3, <1>4, <1>5, <1>6, FramesKeep

LEMMA CallStep ==
  ASSUME IInv, NEW t \in Thread, NEW m \in Module, Call(t, m)
  PROVE  IInv'
<1>1. boot.phase = "running" /\ boot.entered = 3 /\ stack[t] = <<>>
  BY DEF Call, IInv, EnteredFirst
<1>2. PICK r \in Requests[m] : stack' = [stack EXCEPT ![t] = <<Code(m, <<r>>)>>]
  BY DEF Call
<1> DEFINE c == Code(m, <<r>>)
<1>3. c \in CodeFrame
  BY ModuleAssumption DEF Code, CodeFrame
<1>4. flag[t] \in BOOLEAN /\ Nests(<<>>, flag[t])
  BY <1>1 DEF IInv, Typed, FlagsNest
<1> HIDE DEF c
<1>5. Nests(<<c>>, flag[t]) /\ <<c>> \in Seq(Frame)
  <2>1. c \in Frame /\ <<>> \in Seq(Frame)
    BY <1>3 DEF Frame
  <2>2. Nests(Push(c, <<>>), flag[t])
    BY <1>3, <1>4, <2>1, PushCodeNests
  <2>3. Push(c, <<>>) = <<c>>
    BY <2>1 DEF Push
  <2> QED
    BY <2>1, <2>2, <2>3
<1>6. /\ stack' = [stack EXCEPT ![t] = <<c>>] /\ flag' = [flag EXCEPT ![t] = flag[t]]
      /\ boot' = [boot EXCEPT !.phase = "running"]
      /\ UNCHANGED settings /\ image' \in [Module -> Image]
  BY <1>1, <1>2 DEF c, Call, IInv, Typed
<1> QED
  BY <1>1, <1>4, <1>5, <1>6, ThreadKeeps

LEMMA TargetType ==
  ASSUME NEW r \in Request, NEW now
  PROVE  Target(r, now) \in Module
<1>1. CASE r.at = "elsewhere"
  BY <1>1, RequestNames DEF Target
<1>2. CASE r.at # "elsewhere"
  <2>1. r.name \in Name /\ KexpLookupDllRewriteEntry(r.name) \in Name
    BY <1>2, RequestNames, LookupType
  <2> QED
    BY <1>2, <2>1, FileOf DEF Target
<1> QED
  BY <1>1, <1>2

LEMMA LoadLibraryStep ==
  ASSUME IInv, NEW t \in Thread, LoadLibrary(t)
  PROVE  IInv'
<1> DEFINE f == stack[t][1]
           m == f.module
           r == Head(f.todo)
           w == Wrapper(m, r)
           now == Entered(w, flag[t])
           l == Load(m, r, w, flag[t], Target(r, now), Searched(r, now), <<Target(r, now)>>)
           g == [f EXCEPT !.todo = Tail(f.todo)]
           s == [stack[t] EXCEPT ![1] = g]
<1>1. stack[t] # <<>> /\ f.kind = "code" /\ f.todo # <<>>
  BY HeadFrame DEF LoadLibrary, In
<1>2. /\ stack[t] \in Seq(Frame) /\ Head(stack[t]) = f /\ f \in CodeFrame
      /\ Nests(stack[t], flag[t]) /\ flag[t] \in BOOLEAN
  BY <1>1, HeadFrame
<1>3. m \in Module /\ r \in Request /\ Tail(f.todo) \in Seq(Request)
  BY <1>1, <1>2 DEF CodeFrame
<1>4. g \in Frame /\ g.kind = f.kind
  BY <1>2, <1>3 DEF Frame, CodeFrame
<1>5. /\ \/ stack' = [stack EXCEPT ![t] = Push(l, s)] /\ flag' = [flag EXCEPT ![t] = now]
         \/ stack' = [stack EXCEPT ![t] = s] /\ UNCHANGED flag
      /\ UNCHANGED <<settings, boot, image>>
  BY <1>2 DEF LoadLibrary
<1>6. s \in Seq(Frame) /\ Nests(s, flag[t]) /\ s[1].kind = "code"
  <2> HIDE DEF g
  <2>1. s \in Seq(Frame) /\ Nests(s, flag[t])
    BY <1>1, <1>2, <1>4, HeadChanges
  <2>2. s[1] = g
    BY <1>1, <1>2, EmptySeq
  <2> QED
    BY <1>1, <1>4, <2>1, <2>2
<1> HIDE DEF s
<1>7. CASE stack' = [stack EXCEPT ![t] = s] /\ UNCHANGED flag
  BY <1>1, <1>5, <1>6, <1>7, FramesKeep DEF IInv, Typed
<1>8. CASE stack' = [stack EXCEPT ![t] = Push(l, s)] /\ flag' = [flag EXCEPT ![t] = now]
  <2>1. w \in {"ext", "system", "none"}
    BY DEF Wrapper
  <2>2. Target(r, now) \in Module /\ Searched(r, now) \in BOOLEAN
    BY <1>3, TargetType DEF Searched
  <2>3. l \in LoadFrame /\ l.kind = "load" /\ l.wrapper = w /\ l.saved = flag[t]
    BY <1>2, <1>3, <2>1, <2>2 DEF Load, LoadFrame
  <2>4. now \in BOOLEAN
    BY <1>2, <2>1, EnteredType
  <2> HIDE DEF l, w
  <2>5. Nests(Push(l, s), Entered(l.wrapper, flag[t]))
    BY <1>2, <1>6, <2>3, PushLoadNests
  <2>6. Nests(Push(l, s), now)
    BY <2>3, <2>5
  <2>7. Push(l, s) \in Seq(Frame)
    BY <1>6, <2>3, PushFacts DEF Frame
  <2>8. boot.entered = 3 /\ boot.phase \in {"loading", "running", "failed"}
    BY <1>1 DEF IInv, Typed, CalledLater
  <2>9. boot' = [boot EXCEPT !.phase = boot.phase] /\ image' \in [Module -> Image]
        /\ UNCHANGED settings
    BY <1>5 DEF IInv, Typed
  <2> DEFINE q == Push(l, s)
  <2>10. /\ q \in Seq(Frame) /\ Nests(q, now)
         /\ stack' = [stack EXCEPT ![t] = q] /\ flag' = [flag EXCEPT ![t] = now]
    BY <1>8, <2>6, <2>7
  <2> HIDE DEF q, now
  <2> QED
    BY <2>4, <2>8, <2>9, <2>10, ThreadKeeps
<1> QED
  BY <1>5, <1>7, <1>8

LEMMA ReturnKeeps ==
  ASSUME IInv, NEW t \in Thread, In(t, "load"), Return(t),
         UNCHANGED settings, image' \in [Module -> Image],
         NEW p \in {"loading", "running", "failed"}, boot' = [boot EXCEPT !.phase = p]
  PROVE  IInv'
<1> DEFINE f == stack[t][1]
           s == Tail(stack[t])
<1>1. stack[t] # <<>> /\ f.kind = "load"
  BY HeadFrame DEF In
<1>2. /\ stack[t] \in Seq(Frame) /\ Head(stack[t]) = f /\ f \in LoadFrame
      /\ Nests(stack[t], flag[t]) /\ flag[t] \in BOOLEAN
  BY <1>1, HeadFrame
<1>3. Left(f.wrapper, f.saved, flag[t]) = f.saved /\ f.saved \in BOOLEAN
  BY <1>1, <1>2, PoppedFlag DEF LoadFrame
<1>4. /\ stack' = [stack EXCEPT ![t] = s]
      /\ flag' = [flag EXCEPT ![t] = f.saved]
  BY <1>2, <1>3 DEF Return
<1>5. Nests(s, f.saved)
  <2>1. Nests(s, IF f.kind = "load" THEN f.saved ELSE flag[t])
    BY <1>1, <1>2, PopNests
  <2>2. (IF f.kind = "load" THEN f.saved ELSE flag[t]) = f.saved
    BY <1>1
  <2> QED
    BY <2>1, <2>2
<1>6. s \in Seq(Frame) /\ boot.entered = 3
  BY <1>1, <1>2 DEF IInv, CalledLater
<1> HIDE DEF s, f
<1> QED
  BY <1>3, <1>4, <1>5, <1>6, ThreadKeeps

LEMMA LoadReturnsStep ==
  ASSUME IInv, NEW t \in Thread, LoadReturns(t)
  PROVE  IInv'
<1>1. In(t, "load") /\ Return(t) /\ UNCHANGED settings
  BY DEF LoadReturns
<1>2. image' \in [Module -> Image]
  <2>1. [image[Exe] EXCEPT !.ready = TRUE] \in Image
    <3>1. image[Exe] \in Image
      BY ModuleAssumption DEF IInv, Typed
    <3> QED
      BY <3>1 DEF Image
  <2>2. image' = image \/ image' = [image EXCEPT ![Exe].ready = TRUE]
    BY DEF LoadReturns
  <2> QED
    BY <2>1, <2>2 DEF IInv, Typed
<1>3. PICK p \in {"loading", "running", "failed"} : boot' = [boot EXCEPT !.phase = p]
  <2>1. boot.phase \in {"loading", "running", "failed"} /\ boot = [boot EXCEPT !.phase = boot.phase]
    BY <1>1 DEF In, IInv, Typed, CalledLater
  <2>2. boot' = boot \/ boot' = [boot EXCEPT !.phase = "running"]
    BY DEF LoadReturns
  <2> QED
    BY <2>1, <2>2
<1> QED
  BY <1>1, <1>2, <1>3, ReturnKeeps

LEMMA LoadFailsStep ==
  ASSUME IInv, NEW t \in Thread, LoadFails(t)
  PROVE  IInv'
<1>1. In(t, "load") /\ Return(t) /\ UNCHANGED settings
  BY Zenon DEF LoadFails
<1>2. image' \in [Module -> Image]
  <2>1. \A n \in Module : image[n] \in Image /\ [image[n] EXCEPT !.mapped = FALSE] \in Image
    <3>1. \A n \in Module : image[n] \in Image
      BY DEF IInv, Typed
    <3>2. \A x \in Image : [x EXCEPT !.mapped = FALSE] \in Image
      BY DEF Image
    <3> QED
      BY <3>1, <3>2
  <2>2. image' = [n \in Module |-> IF n \in Range(Head(stack[t]).init)
                                   THEN [image[n] EXCEPT !.mapped = FALSE] ELSE image[n]]
    BY DEF LoadFails
  <2> QED
    BY <2>1, <2>2
<1>3. PICK p \in {"loading", "running", "failed"} : boot' = [boot EXCEPT !.phase = p]
  <2>1. boot.phase \in {"loading", "running", "failed"} /\ boot = [boot EXCEPT !.phase = boot.phase]
    BY <1>1 DEF In, IInv, Typed, CalledLater
  <2>2. boot' = boot \/ boot' = [boot EXCEPT !.phase = "failed"]
    BY DEF LoadFails
  <2> QED
    BY <2>1, <2>2
<1> QED
  BY <1>1, <1>2, <1>3, ReturnKeeps

LEMMA Steps == IInv /\ [Next]_vars => IInv'
<1> SUFFICES ASSUME IInv, [Next]_vars PROVE IInv'
  OBVIOUS
<1>1. CASE UNCHANGED vars
  BY <1>1 DEF vars, IInv, Typed, StartsMatchEntries, EnteredFirst, CalledLater, FlagsNest
<1>2. CASE DllMain \/ LoadProgram
  BY <1>2, DllMainStep, LoadProgramStep
<1>3. ASSUME NEW t \in Thread,
             \/ MapNext(t) \/ InitNext(t) \/ CodeReturns(t)
             \/ LoadLibrary(t) \/ LoadReturns(t) \/ LoadFails(t)
             \/ \E m \in Module : Call(t, m)
      PROVE  IInv'
  BY <1>3, MapNextStep, InitNextStep, CodeReturnsStep, LoadLibraryStep, LoadReturnsStep,
     LoadFailsStep, CallStep
<1> QED
  BY <1>1, <1>2, <1>3 DEF Next

-----------------------------------------------------------------------------

\* The inductive invariant.
THEOREM Invariance == Spec => []IInv
  BY InitHolds, Steps, PTL DEF Spec

\* The flag of a thread is as it was before once its calls have returned, however
\* deep loads and DllMains were nested and whichever of them failed
\* (module.c:48-64, loadsyslib.c).
THEOREM FlagsAreReturned == Spec => []FlagIsReturned
<1>1. IInv => FlagIsReturned
  <2> SUFFICES ASSUME IInv, NEW t \in Thread, stack[t] = <<>> PROVE ~flag[t]
    BY DEF FlagIsReturned
  <2>1. flag[t] = FlagAt(<<>>, 1) /\ flag[t] \in BOOLEAN
    BY DEF IInv, Typed, FlagsNest, Nests
  <2> QED
    BY <2>1, NothingNests DEF Nests
<1> QED
  BY <1>1, Invariance, PTL

\* Whatever the process, one entry of DllMain at most starts KexDll, and the
\* program's imports are resolved after it (dllmain.c:125-185).
THEOREM StartsOnce == Spec => []StartedInTime
<1>1. IInv => StartedInTime
  BY DEF IInv, StartsMatchEntries, EnteredFirst, StartedInTime
<1> QED
  BY <1>1, Invariance, PTL

-----------------------------------------------------------------------------
(***************************************************************************)
(* What is loaded.  Import directories are rewritten as a whole when       *)
(* nothing fails, so the names of an image that is mapped are a function   *)
(* of the module; then it is known which modules call KxBase, and the flag *)
(* is set just while a load of theirs is under way.                        *)
(***************************************************************************)

\* Nothing has failed, and kernel32 is not left alone.
Faultless == faults = 0 /\ ~settings.ie

\* The names of a module that was mapped where VxKex sees it.
Expected(m) ==
  IF boot.starts = 1 /\ KexShouldRewriteImportsOfDll(m)
  THEN [i \in DOMAIN Imports[m] |-> NewName(m, Imports[m][i])]
  ELSE Imports[m]

Seen(m) == image[m].names = Expected(m)

ImagesRight ==
  /\ Seen(Exe)
  /\ \A m \in Module :
       /\ image[m].mapped \/ image[m].ready => Seen(m)
       /\ image[m].names # Imports[m] => ~image[m].bound

\* Before the program's imports are resolved nothing else is mapped.
OnlyProgram ==
  boot.phase = "entering" => \A m \in Module \ {Exe} : ~image[m].mapped /\ ~image[m].ready

IsExt(f) == f.kind = "load" /\ f.wrapper = "ext"

HasExt(s) == \E j \in DOMAIN s : IsExt(s[j])

Below(s, i) == \E j \in i + 1 .. Len(s) : IsExt(s[j])

\* Each frame of s is in G together with whether a load of KxBase's is below it.
StackIn(s, G) == \A i \in DOMAIN s : <<s[i], Below(s, i)>> \in G

Agrees(f, below) ==
  f.target # Exe /\ f.asked.at # "elsewhere" =>
    IF Redirected(f.by)
    THEN f.target = File[KexpLookupDllRewriteEntry(f.asked.name)]
    ELSE Special[f.by] = "kx" \/ ~below => f.target = File[f.asked.name]

FrameRight(f, below) ==
  IF f.kind = "code"
  THEN Seen(f.module) /\ Range(f.todo) \subseteq Asks(f.module)
  ELSE /\ \A m \in Range(f.init) : Seen(m)
       /\ f.saved => below
       /\ Agrees(f, below)

Right == {p \in Frame \X BOOLEAN : FrameRight(p[1], p[2])}

FramesRight == \A t \in Thread : StackIn(stack[t], Right)

\* The loader has the file of kernel32 or KxBase before it.
KernelAhead(f) ==
  /\ f.kind = "load"
  /\ \/ File[Kernel] \in Range(f.todo)
     \/ File[KxBase] \in Range(f.todo) /\ ~image[File[KxBase]].mapped

\* No code runs before kernel32 is mapped.
KernelFirst ==
  \/ Seen(File[Kernel])
  \/ /\ boot.phase # "running"
     /\ \A t \in Thread \ {MainThread} : stack[t] = <<>>
     /\ stack[MainThread] # <<>> =>
          Len(stack[MainThread]) = 1 /\ KernelAhead(stack[MainThread][1])

AsExpected == ImagesRight /\ FramesRight /\ KernelFirst

RInv == faults \in Nat /\ OnlyProgram /\ (Faultless => AsExpected)

-----------------------------------------------------------------------------
(* Stacks of frames *)

LEMMA PushIn ==
  ASSUME NEW s \in Seq(Frame), NEW f \in Frame, NEW G, StackIn(s, G), <<f, HasExt(s)>> \in G
  PROVE  StackIn(Push(f, s), G)
<1> DEFINE q == Push(f, s)
<1>1. /\ q \in Seq(Frame) /\ Len(q) = Len(s) + 1 /\ q[1] = f
      /\ \A i \in 1 .. Len(s) : q[i + 1] = s[i]
  BY PushFacts
<1> HIDE DEF q
<1> SUFFICES ASSUME NEW i \in DOMAIN q PROVE <<q[i], Below(q, i)>> \in G
  BY DEF StackIn, q
<1>2. DOMAIN q = 1 .. Len(s) + 1 /\ DOMAIN s = 1 .. Len(s) /\ Len(s) \in Nat
  BY <1>1
<1>3. CASE i = 1
  <2>1. Below(q, 1) <=> HasExt(s)
    <3>1. ASSUME NEW j \in 2 .. Len(q), IsExt(q[j]) PROVE HasExt(s)
      <4>1. j - 1 \in 1 .. Len(s) /\ q[(j - 1) + 1] = q[j]
        BY <1>1, <1>2
      <4> QED
        BY <1>1, <1>2, <3>1, <4>1 DEF HasExt
    <3>2. ASSUME NEW j \in DOMAIN s, IsExt(s[j]) PROVE \E k \in 2 .. Len(q) : IsExt(q[k])
      <4>1. j + 1 \in 2 .. Len(q) /\ q[j + 1] = s[j]
        BY <1>1, <1>2
      <4> QED
        BY <3>2, <4>1
    <3>3. Below(q, 1) <=> \E j \in 2 .. Len(q) : IsExt(q[j])
      BY DEF Below
    <3> QED
      BY <3>1, <3>2, <3>3 DEF HasExt
  <2>2. Below(q, 1) = HasExt(s)
    BY <2>1 DEF Below, HasExt
  <2> QED
    BY <1>1, <1>3, <2>2
<1>4. CASE i # 1
  <2> DEFINE k == i - 1
  <2>1. k \in 1 .. Len(s) /\ i = k + 1 /\ q[i] = s[k]
    BY <1>1, <1>2, <1>4
  <2> HIDE DEF k
  <2>2. Below(q, i) <=> Below(s, k)
    <3>1. ASSUME NEW j \in i + 1 .. Len(q), IsExt(q[j]) PROVE \E l \in k + 1 .. Len(s) : IsExt(s[l])
      <4>1. j - 1 \in k + 1 .. Len(s) /\ j - 1 \in 1 .. Len(s) /\ q[(j - 1) + 1] = q[j]
        BY <1>1, <1>2, <2>1
      <4>2. s[j - 1] = q[j]
        BY <1>1, <4>1
      <4> QED
        BY <3>1, <4>1, <4>2
    <3>2. ASSUME NEW j \in k + 1 .. Len(s), IsExt(s[j]) PROVE \E l \in i + 1 .. Len(q) : IsExt(q[l])
      <4>1. j + 1 \in i + 1 .. Len(q) /\ j \in 1 .. Len(s)
        BY <1>1, <1>2, <2>1
      <4>2. q[j + 1] = s[j]
        BY <1>1, <4>1
      <4> QED
        BY <3>2, <4>1, <4>2
    <3> QED
      BY <3>1, <3>2 DEF Below
  <2>3. Below(q, i) = Below(s, k)
    BY <2>2 DEF Below
  <2> QED
    BY <1>2, <2>1, <2>3 DEF StackIn
<1> QED
  BY <1>3, <1>4

LEMMA PopIn ==
  ASSUME NEW s \in Seq(Frame), s # <<>>, NEW G, StackIn(s, G)
  PROVE  StackIn(Tail(s), G)
<1> DEFINE q == Tail(s)
<1>1. /\ q \in Seq(Frame) /\ Len(q) = Len(s) - 1 /\ Len(s) \in Nat \ {0}
      /\ \A i \in 1 .. Len(q) : q[i] = s[i + 1]
  BY EmptySeq
<1> HIDE DEF q
<1> SUFFICES ASSUME NEW i \in DOMAIN q PROVE <<q[i], Below(q, i)>> \in G
  BY DEF StackIn, q
<1>2. i \in 1 .. Len(q) /\ i + 1 \in DOMAIN s /\ q[i] = s[i + 1]
  BY <1>1
<1>3. Below(q, i) <=> Below(s, i + 1)
  <2>1. ASSUME NEW j \in i + 1 .. Len(q), IsExt(q[j])
        PROVE  \E l \in i + 1 + 1 .. Len(s) : IsExt(s[l])
    <3>1. j + 1 \in i + 1 + 1 .. Len(s) /\ j \in 1 .. Len(q)
      BY <1>1, <1>2
    <3>2. s[j + 1] = q[j]
      BY <1>1, <3>1
    <3> QED
      BY <2>1, <3>1, <3>2
  <2>2. ASSUME NEW j \in i + 1 + 1 .. Len(s), IsExt(s[j])
        PROVE  \E l \in i + 1 .. Len(q) : IsExt(q[l])
    <3>1. j - 1 \in i + 1 .. Len(q) /\ j - 1 \in 1 .. Len(q) /\ (j - 1) + 1 = j
      BY <1>1, <1>2
    <3>2. q[j - 1] = s[j]
      BY <1>1, <3>1
    <3> QED
      BY <2>2, <3>1, <3>2
  <2> QED
    BY <2>1, <2>2 DEF Below
<1>4. Below(q, i) = Below(s, i + 1)
  BY <1>3 DEF Below
<1> QED
  BY <1>2, <1>4 DEF StackIn

LEMMA HeadIn ==
  ASSUME NEW s \in Seq(Frame), s # <<>>, NEW f \in Frame, IsExt(f) <=> IsExt(s[1]),
         NEW G, StackIn(s, G), <<f, Below(s, 1)>> \in G
  PROVE  /\ StackIn([s EXCEPT ![1] = f], G)
         /\ HasExt([s EXCEPT ![1] = f]) = HasExt(s)
<1> DEFINE q == [s EXCEPT ![1] = f]
<1>1. /\ Len(s) \in Nat \ {0} /\ DOMAIN s = 1 .. Len(s)
      /\ q \in Seq(Frame) /\ Len(q) = Len(s) /\ DOMAIN q = DOMAIN s
      /\ \A i \in 1 .. Len(s) : q[i] = IF i = 1 THEN f ELSE s[i]
  BY EmptySeq
<1> HIDE DEF q
<1>2. \A i \in DOMAIN s : IsExt(q[i]) <=> IsExt(s[i])
  BY <1>1
<1>3. HasExt(q) = HasExt(s)
  BY <1>1, <1>2 DEF HasExt
<1>4. ASSUME NEW i \in DOMAIN q PROVE <<q[i], Below(q, i)>> \in G
  <2>1. Below(q, i) = Below(s, i)
    <3>1. \A j \in i + 1 .. Len(s) : j \in DOMAIN s
      BY <1>1
    <3> QED
      BY <1>1, <1>2, <3>1 DEF Below
  <2>2. CASE i = 1
    BY <1>1, <2>1, <2>2
  <2>3. CASE i # 1
    <3>1. q[i] = s[i] /\ i \in DOMAIN s
      BY <1>1, <2>3
    <3> QED
      BY <2>1, <3>1 DEF StackIn
  <2> QED
    BY <2>2, <2>3
<1> QED
  BY <1>3, <1>4 DEF StackIn, q

\* The flag is set by a load that went through KxBase, which is still under way.
LEMMA FlagFromExt ==
  ASSUME NEW s \in Seq(Frame), NEW now \in BOOLEAN, Nests(s, now), now,
         \A i \in DOMAIN s : s[i].kind = "load" /\ s[i].saved => Below(s, i)
  PROVE  HasExt(s)
<1>0. FlagAt(s, 1)
  BY DEF Nests
<1>1. 1 \in DOMAIN s /\ DOMAIN s = 1 .. Len(s) /\ Len(s) \in Nat
  BY <1>0 DEF FlagAt
<1>2. ASSUME NEW i \in DOMAIN s, Below(s, i) PROVE HasExt(s)
  <2>1. PICK j \in i + 1 .. Len(s) : IsExt(s[j])
    BY <1>2 DEF Below
  <2>2. j \in DOMAIN s
    BY <1>1, <2>1
  <2> QED
    BY <2>1, <2>2 DEF HasExt
<1>3. ASSUME NEW i \in DOMAIN s, s[i].kind = "load", Entered(s[i].wrapper, s[i].saved)
      PROVE  HasExt(s)
  <2>1. s[i] \in LoadFrame
    BY <1>3, FrameKinds
  <2>2. s[i].wrapper = "ext" \/ s[i].saved
    BY <1>3, <2>1 DEF Entered, LoadFrame
  <2>3. CASE s[i].wrapper = "ext"
    BY <1>3, <2>3 DEF HasExt, IsExt
  <2>4. CASE s[i].saved
    <3>1. Below(s, i)
      BY <1>3, <2>4
    <3> QED
      BY <1>2, <3>1
  <2> QED
    BY <2>2, <2>3, <2>4
<1>5. CASE s[1].kind = "load"
  BY <1>0, <1>1, <1>3, <1>5 DEF FlagAt
<1>6. CASE s[1].kind # "load"
  <2>1. 1 + 1 \in DOMAIN s /\ Entered(s[1 + 1].wrapper, s[1 + 1].saved)
    BY <1>0, <1>6 DEF FlagAt
  <2>2. s[1].kind # s[1 + 1].kind /\ s[1] \in Frame /\ s[1 + 1] \in Frame
    BY <1>1, <2>1 DEF Nests, Alternates
  <2>3. s[1 + 1].kind = "load"
    BY <1>6, <2>2, FrameKinds
  <2> QED
    BY <1>3, <2>1, <2>3
<1> QED
  BY <1>5, <1>6

-----------------------------------------------------------------------------
(* Names in import directories *)

LEMMA StartsTwice == IInv => boot.starts \in {0, 1}
  BY DEF IInv, StartsMatchEntries

LEMMA ImportsOf ==
  ASSUME NEW m \in Module
  PROVE  /\ Imports[m] \in Seq(Name)
         /\ Range(Imports[m]) = {Imports[m][i] : i \in DOMAIN Imports[m]}
  BY ModuleAssumption DEF Name, Range

LEMMA KernelName ==
  ASSUME ~settings.ie
  PROVE  KexpLookupDllRewriteEntry(Kernel) = KxBase
  BY KernelAssumption DEF KexpLookupDllRewriteEntry, Table

LEMMA KnownModules ==
  /\ Kernel \in Name /\ KxBase \in Name
  /\ File[Kernel] \in Module /\ File[KxBase] \in Module /\ File[KxBase] # Exe
<1>1. Kernel \in Name /\ KxBase \in Name
  BY ModuleAssumption, KernelAssumption DEF Name, Range
<1> QED
  BY <1>1, FileOf, KernelAssumption

\* A module whose imports are rewritten calls KxBase for kernel32.
LEMMA RedirectedNames ==
  ASSUME NEW m \in Module, ~settings.ie, Redirected(m), Kernel \in Range(Imports[m])
  PROVE  KxBase \in Range(Expected(m))
<1>1. PICK i \in DOMAIN Imports[m] : Imports[m][i] = Kernel
  BY ImportsOf
<1>2. NewName(m, Kernel) = KxBase
  BY KernelName DEF Redirected, NewName
<1>3. Expected(m) = [j \in DOMAIN Imports[m] |-> NewName(m, Imports[m][j])]
  BY DEF Expected, Redirected
<1> QED
  BY <1>1, <1>2, <1>3 DEF Range

\* Others do not.
LEMMA OtherNames ==
  ASSUME NEW m \in Module, ~settings.ie, ~Redirected(m), KxBase \notin Range(Imports[m])
  PROVE  KxBase \notin Range(Expected(m))
<1>1. CASE ~(boot.starts = 1 /\ KexShouldRewriteImportsOfDll(m))
  BY <1>1 DEF Expected
<1>2. CASE boot.starts = 1 /\ KexShouldRewriteImportsOfDll(m)
  <2>1. Special[m] \in {"kernel32", "secur32"}
    BY <1>2 DEF Redirected
  <2>2. Expected(m) = [j \in DOMAIN Imports[m] |-> NewName(m, Imports[m][j])]
    BY <1>2 DEF Expected
  <2>3. ASSUME NEW j \in DOMAIN Imports[m] PROVE NewName(m, Imports[m][j]) # KxBase
    <3>1. Imports[m][j] # KxBase
      BY ImportsOf
    <3>2. KexpLookupDllRewriteEntry(Advapi) # KxBase \/ Imports[m][j] # Advapi
      BY <3>1, KernelAssumption DEF KexpLookupDllRewriteEntry, Table
    <3> QED
      BY <2>1, <3>1, <3>2, KernelAssumption DEF NewName
  <2> QED
    BY <2>2, <2>3 DEF Range
<1> QED
  BY <1>1, <1>2

\* kernel32 calls KxNt.
LEMMA KernelNames ==
  ASSUME boot.starts = 1
  PROVE  KxNt \in Range(Expected(File[Kernel]))
<1> DEFINE m == File[Kernel]
<1>1. m \in Module
  BY KnownModules
<1>2. PICK i \in DOMAIN Imports[m] : Imports[m][i] = Ntdll
  BY <1>1, ImportsOf, KernelAssumption
<1>3. KexShouldRewriteImportsOfDll(m) /\ NewName(m, Ntdll) = KxNt
  BY KernelAssumption DEF KexShouldRewriteImportsOfDll, NewName
<1>4. Expected(m) = [j \in DOMAIN Imports[m] |-> NewName(m, Imports[m][j])]
  BY <1>3 DEF Expected
<1> QED
  BY <1>2, <1>3, <1>4 DEF Range

\* KxBase's own imports are left alone.
LEMMA KxBaseNames == Kernel \in Range(Expected(File[KxBase]))
<1>1. ~KexShouldRewriteImportsOfDll(File[KxBase])
  BY KernelAssumption, KnownModules DEF KexShouldRewriteImportsOfDll
<1> QED
  BY <1>1, KernelAssumption DEF Expected

\* The program imports one of them.
LEMMA ProgramNames ==
  ASSUME ~settings.ie
  PROVE  Kernel \in Range(Expected(Exe)) \/ KxBase \in Range(Expected(Exe))
<1>1. Exe \in Module
  BY ModuleAssumption
<1>2. CASE boot.starts = 1
  <2>1. KexShouldRewriteImportsOfDll(Exe)
    BY KernelAssumption DEF KexShouldRewriteImportsOfDll
  <2>2. Redirected(Exe)
    BY <1>2, <2>1, KernelAssumption DEF Redirected
  <2> QED
    BY <1>1, <2>2, RedirectedNames, KernelAssumption
<1>3. CASE boot.starts # 1
  BY <1>3, KernelAssumption DEF Expected
<1> QED
  BY <1>2, <1>3

\* Where nothing fails, an import directory is rewritten as a whole, and what is
\* changed is not bound.
LEMMA RewrittenWhole ==
  ASSUME NEW m \in Module
  PROVE  LET x == KexRewriteImageImportDirectory(m, NoFault)
         IN /\ x.names = [i \in DOMAIN Imports[m] |-> NewName(m, Imports[m][i])]
            /\ x.names # Imports[m] => ~x.bound
            /\ x.mapped = TRUE /\ x.ready = FALSE
<1> DEFINE x == KexRewriteImageImportDirectory(m, NoFault)
           names == [i \in DOMAIN Imports[m] |->
                       IF i \in {} THEN Imports[m][i] ELSE NewName(m, Imports[m][i])]
           counted == {i \in DOMAIN names : /\ names[i] # Imports[m][i]
                                            /\ NoFault # [kind |-> "uncounted", at |-> i]}
<1>1. NoFault.kind = "none"
  BY DEF NoFault
<1>2. x = [Fresh(m) EXCEPT !.names = names, !.bound = (counted = {} \/ NoFault.kind = "bound")]
  BY <1>1 DEF KexRewriteImageImportDirectory
<1>3. names = [i \in DOMAIN Imports[m] |-> NewName(m, Imports[m][i])]
  OBVIOUS
<1>4. names # Imports[m] => counted # {}
  <2> SUFFICES ASSUME counted = {} PROVE names = Imports[m]
    OBVIOUS
  <2>1. \A i \in DOMAIN Imports[m] : NoFault # [kind |-> "uncounted", at |-> i]
    BY <1>1
  <2>2. \A i \in DOMAIN Imports[m] : names[i] = Imports[m][i]
    BY <2>1
  <2>3. Imports[m] = [i \in DOMAIN Imports[m] |-> Imports[m][i]]
    BY ImportsOf
  <2> QED
    BY <2>2, <2>3
<1> HIDE DEF names, counted
<1>5. /\ x.names = names /\ x.bound = (counted = {} \/ NoFault.kind = "bound")
      /\ x.mapped = TRUE /\ x.ready = FALSE
  BY <1>2 DEF Fresh
<1> HIDE DEF x
<1>6. x.names # Imports[m] => ~x.bound
  BY <1>1, <1>4, <1>5
<1> QED
  BY <1>3, <1>5, <1>6 DEF x

(* What a step leaves as it was *)

\* Nothing else counts faults.
LEMMA FaultSteps ==
  ASSUME [Next]_vars
  PROVE  UNCHANGED faults \/ \E m, fault : Fault(m, fault)
<1>1. CASE UNCHANGED vars
  BY <1>1 DEF vars
<1>2. CASE DllMain
  BY <1>2 DEF DllMain, Start
<1>3. CASE LoadProgram
  BY <1>3 DEF LoadProgram
<1>4. ASSUME NEW t \in Thread, MapNext(t)
      PROVE  UNCHANGED faults \/ \E m, fault : Fault(m, fault)
  <2> DEFINE m == Head(Head(stack[t]).todo)
  <2>1. CASE image[m].mapped
    BY <1>4, <2>1, Zenon DEF MapNext
  <2>2. CASE ~image[m].mapped
    <3>1. \E fault \in {NoFault} \cup FaultsOf(m) : Mapped(m, fault)
      BY <1>4, <2>2, Zenon DEF MapNext
    <3> QED
      BY <3>1, Zenon DEF Mapped
  <2> QED
    BY <2>1, <2>2
<1>5. ASSUME NEW t \in Thread,
             \/ InitNext(t) \/ CodeReturns(t)
             \/ LoadLibrary(t) \/ LoadReturns(t) \/ LoadFails(t)
             \/ \E m \in Module : Call(t, m)
      PROVE  UNCHANGED faults
  <2>1. InitNext(t) \/ CodeReturns(t) => UNCHANGED faults
    BY Zenon DEF InitNext, CodeReturns
  <2>2. LoadLibrary(t) \/ LoadReturns(t) => UNCHANGED faults
    BY Zenon DEF LoadLibrary, LoadReturns
  <2>3. LoadFails(t) \/ (\E m \in Module : Call(t, m)) => UNCHANGED faults
    BY Zenon DEF LoadFails, Call
  <2> QED
    BY <1>5, <2>1, <2>2, <2>3
<1> QED
  BY <1>1, <1>2, <1>3, <1>4, <1>5 DEF Next

\* The faults are counted.
LEMMA FaultsCount ==
  ASSUME faults \in Nat, [Next]_vars
  PROVE  faults' \in Nat /\ (faults' = 0 => faults = 0)
<1>1. faults' = faults \/ faults' = faults + 1
  BY FaultSteps DEF Fault
<1> QED
  BY <1>1

LEMMA SettingsStay == [Next]_vars => UNCHANGED settings
<1>1. UNCHANGED vars => UNCHANGED settings
  BY DEF vars
<1>2. DllMain \/ LoadProgram => UNCHANGED settings
  BY DEF DllMain, LoadProgram
<1>3. ASSUME NEW t \in Thread,
             \/ MapNext(t) \/ InitNext(t) \/ CodeReturns(t)
             \/ LoadLibrary(t) \/ LoadReturns(t) \/ LoadFails(t)
             \/ \E m \in Module : Call(t, m)
      PROVE  UNCHANGED settings
  <2>1. MapNext(t) \/ InitNext(t) => UNCHANGED settings
    BY Zenon DEF MapNext, InitNext
  <2>2. CodeReturns(t) \/ LoadLibrary(t) => UNCHANGED settings
    BY Zenon DEF CodeReturns, LoadLibrary
  <2>3. LoadReturns(t) \/ LoadFails(t) => UNCHANGED settings
    BY Zenon DEF LoadReturns, LoadFails
  <2>4. (\E m \in Module : Call(t, m)) => UNCHANGED settings
    BY Zenon DEF Call
  <2> QED
    BY <1>3, <2>1, <2>2, <2>3, <2>4
<1> QED
  BY <1>1, <1>2, <1>3 DEF Next

\* Which names are rewritten depends on nothing else.
LEMMA SameExpected ==
  ASSUME UNCHANGED settings, boot'.starts = boot.starts, NEW m \in Module
  PROVE  /\ Expected(m)' = Expected(m)
         /\ Redirected(m)' <=> Redirected(m)
<1>1. KexShouldRewriteImportsOfDll(m)' <=> KexShouldRewriteImportsOfDll(m)
  BY DEF KexShouldRewriteImportsOfDll
<1>2. \A n : KexpLookupDllRewriteEntry(n)' = KexpLookupDllRewriteEntry(n)
  BY DEF KexpLookupDllRewriteEntry, Table
<1>3. \A n : NewName(m, n)' = NewName(m, n)
  BY <1>2 DEF NewName
<1>4. Redirected(m)' <=> Redirected(m)
  BY <1>1 DEF Redirected
<1> QED
  BY <1>1, <1>3, <1>4 DEF Expected

LEMMA RightStays ==
  ASSUME UNCHANGED settings, boot'.starts = boot.starts,
         \A m \in Module : Seen(m) => Seen(m)'
  PROVE  Right \subseteq Right'
<1> SUFFICES ASSUME NEW f \in Frame, NEW below \in BOOLEAN, FrameRight(f, below)
             PROVE  FrameRight(f, below)'
  BY DEF Right
<1>1. CASE f.kind = "code"
  <2>1. f.module \in Module
    BY <1>1, FrameKinds DEF CodeFrame
  <2> QED
    BY <1>1, <2>1 DEF FrameRight
<1>2. CASE f.kind # "code"
  <2>1. f.kind = "load" /\ f \in LoadFrame
    BY <1>2, FrameKinds
  <2>2. f.by \in Module /\ Range(f.init) \subseteq Module
    BY <2>1 DEF LoadFrame, Range
  <2>3. Redirected(f.by)' <=> Redirected(f.by)
    BY <2>2, SameExpected
  <2>4. KexpLookupDllRewriteEntry(f.asked.name)' = KexpLookupDllRewriteEntry(f.asked.name)
    BY DEF KexpLookupDllRewriteEntry, Table
  <2>5. Agrees(f, below) => Agrees(f, below)'
    BY <2>3, <2>4 DEF Agrees
  <2> QED
    BY <1>2, <2>2, <2>5 DEF FrameRight
<1> QED
  BY <1>1, <1>2

LEMMA FramesStay ==
  ASSUME IInv, FramesRight, Right \subseteq Right', NEW t \in Thread, NEW s,
         stack' = [stack EXCEPT ![t] = s], StackIn(s, Right')
  PROVE  FramesRight'
<1> SUFFICES ASSUME NEW u \in Thread PROVE StackIn(stack'[u], Right')
  BY DEF FramesRight
<1>1. CASE u = t
  BY <1>1 DEF IInv, Typed
<1>2. CASE u # t
  <2>1. stack'[u] = stack[u]
    BY <1>2 DEF IInv, Typed
  <2>2. StackIn(stack[u], Right)
    BY DEF FramesRight
  <2> QED
    BY <2>1, <2>2 DEF StackIn
<1> QED
  BY <1>1, <1>2

LEMMA TopRight ==
  ASSUME IInv, FramesRight, NEW t \in Thread, stack[t] # <<>>
  PROVE  /\ StackIn(stack[t], Right)
         /\ FrameRight(stack[t][1], Below(stack[t], 1))
         /\ Below(stack[t], 1) \in BOOLEAN
<1>1. StackIn(stack[t], Right) /\ 1 \in DOMAIN stack[t]
  BY EmptySeq DEF FramesRight, IInv, Typed
<1>2. <<stack[t][1], Below(stack[t], 1)>> \in Right
  BY <1>1 DEF StackIn
<1> QED
  BY <1>1, <1>2 DEF Right

\* Code runs, and modules have been mapped, after kernel32.
LEMMA KernelReady ==
  ASSUME IInv, KernelFirst, NEW t \in Thread, stack[t] # <<>>,
         stack[t][1].kind = "code" \/ stack[t][1].todo = <<>>
  PROVE  Seen(File[Kernel])
<1> SUFFICES ASSUME ~Seen(File[Kernel]) PROVE FALSE
  OBVIOUS
<1>1. t = MainThread /\ KernelAhead(stack[t][1])
  BY DEF KernelFirst
<1>2. stack[t][1].todo # <<>>
  BY <1>1 DEF KernelAhead, Range
<1> QED
  BY <1>1, <1>2 DEF KernelAhead

\* What holds of the images stays if none of them is changed.
LEMMA ImagesStay ==
  ASSUME ImagesRight, UNCHANGED settings, boot'.starts = boot.starts,
         \A m \in Module : /\ image'[m].names = image[m].names
                           /\ image'[m].bound = image[m].bound
                           /\ image'[m].mapped => image[m].mapped
                           /\ image'[m].ready => image[m].ready \/ Seen(m)
  PROVE  ImagesRight' /\ (\A m \in Module : Seen(m)' <=> Seen(m))
<1>1. ASSUME NEW m \in Module PROVE Seen(m)' <=> Seen(m)
  BY SameExpected DEF Seen
<1> QED
  BY <1>1, ModuleAssumption DEF ImagesRight

LEMMA KernelStays ==
  ASSUME Seen(File[Kernel]), \A m \in Module : Seen(m)' <=> Seen(m)
  PROVE  KernelFirst'
<1>1. File[Kernel] \in Module
  BY KnownModules
<1>2. Seen(File[Kernel])'
  BY <1>1
<1> QED
  BY <1>2 DEF KernelFirst

-----------------------------------------------------------------------------
(* The steps *)

LEMMA RInitHolds == Init => RInv
<1> SUFFICES ASSUME Init PROVE RInv
  OBVIOUS
<1>1. faults \in Nat /\ boot.starts = 0 /\ boot.phase = "entering"
  BY DEF Init
<1>2. ASSUME NEW m \in Module
      PROVE  /\ image[m].names = Imports[m] /\ ~image[m].ready
             /\ image[m].mapped => m = Exe
  <2> DEFINE here == (m = Exe)
  <2>1. image[m] = [Fresh(m) EXCEPT !.mapped = here]
    BY DEF Init
  <2> HIDE DEF here
  <2>2. image[m].names = Imports[m] /\ image[m].ready = FALSE /\ image[m].mapped = here
    BY <2>1 DEF Fresh
  <2>3. ~image[m].ready /\ (image[m].mapped => here)
    BY <2>2
  <2> QED
    BY <2>2, <2>3 DEF here
<1>3. \A m \in Module : Seen(m)
  <2>1. \A m \in Module : Expected(m) = Imports[m]
    BY <1>1 DEF Expected
  <2> QED
    BY <1>2, <2>1 DEF Seen
<1>4. OnlyProgram
  BY <1>2 DEF OnlyProgram
<1>5. ImagesRight
  BY <1>2, <1>3, ModuleAssumption DEF ImagesRight
<1>6. FramesRight
  <2> SUFFICES ASSUME NEW t \in Thread PROVE StackIn(stack[t], Right)
    BY DEF FramesRight
  <2>1. stack[t] = <<>>
    BY DEF Init
  <2> QED
    BY <2>1 DEF StackIn
<1>7. KernelFirst
  BY <1>3, KnownModules DEF KernelFirst
<1> QED
  BY <1>1, <1>4, <1>5, <1>6, <1>7 DEF RInv, AsExpected

\* What is to be shown of a step.
LEMMA ToShow ==
  ASSUME IInv, RInv, [Next]_vars, OnlyProgram',
         faults' = 0 /\ faults = 0 /\ ~settings.ie /\ AsExpected => AsExpected'
  PROVE  RInv'
<1>1. faults' \in Nat /\ (faults' = 0 => faults = 0) /\ UNCHANGED settings
  BY FaultsCount, SettingsStay DEF RInv
<1> QED
  BY <1>1 DEF RInv, Faultless

\* Most steps are of a thread that has begun.
LEMMA Begun ==
  ASSUME IInv, NEW t \in Thread, stack[t] # <<>>, boot'.phase # "entering" \/ UNCHANGED boot
  PROVE  OnlyProgram'
BY DEF OnlyProgram, IInv, CalledLater

LEMMA DllMainRight ==
  ASSUME IInv, RInv, DllMain
  PROVE  RInv'
<1>1. boot.phase = "entering" /\ UNCHANGED <<settings, stack, flag>>
  BY DEF DllMain
<1>2. \A t \in Thread : stack[t] = <<>>
  BY <1>1 DEF IInv, CalledLater
<1>3. /\ Exe \in Module /\ image \in [Module -> Image]
      /\ \A m \in Module \ {Exe} : ~image[m].mapped /\ ~image[m].ready
  BY <1>1, ModuleAssumption DEF IInv, Typed, RInv, OnlyProgram
<1>4. ASSUME NEW m \in Module \ {Exe} PROVE image'[m] = image[m]
  <2>1. UNCHANGED image \/ \E x : image' = [image EXCEPT ![Exe] = x]
    BY DEF DllMain, Start
  <2> QED
    BY <1>3, <2>1
<1>5. OnlyProgram'
  BY <1>3, <1>4 DEF OnlyProgram
<1>6. boot'.phase # "running" /\ boot'.starts \in {0, 1}
  <2>1. IInv'
    BY DllMainStep
  <2>2. boot'.starts \in {0, 1}
    BY <2>1 DEF IInv, StartsMatchEntries
  <2>3. boot'.phase # "running"
    <3>1. CASE boot' = [boot EXCEPT !.entered = @ + 1]
      BY <1>1, <3>1 DEF IInv, Typed
    <3>2. CASE Start
      <4>1. PICK p \in {"failed", boot.phase} :
              boot' = [boot EXCEPT !.entered = @ + 1, !.starts = @ + 1, !.phase = p]
        BY <3>2 DEF Start
      <4> QED
        BY <1>1, <4>1 DEF IInv, Typed
    <3> QED
      BY <3>1, <3>2 DEF DllMain
  <2> QED
    BY <2>2, <2>3
<1>7. ASSUME faults' = 0, faults = 0, ~settings.ie, AsExpected
      PROVE  AsExpected'
  <2>1. FramesRight'
    BY <1>1, <1>2 DEF FramesRight, StackIn
  <2>2. KernelFirst'
    BY <1>1, <1>2, <1>6, ModuleAssumption DEF KernelFirst
  <2>3. Seen(Exe)' /\ (image'[Exe].names # Imports[Exe] => ~image'[Exe].bound)
    <3>1. CASE StartsAt(boot.entered + 1)
      <4>1. PICK fault \in {NoFault} \cup FaultsOf(Exe) :
              /\ Fault(Exe, fault)
              /\ image' = [image EXCEPT ![Exe] = KexRewriteImageImportDirectory(Exe, fault)]
        BY <3>1 DEF DllMain, Start
      <4>2. fault = NoFault
        BY <1>7, <4>1 DEF Fault
      <4> DEFINE x == KexRewriteImageImportDirectory(Exe, NoFault)
      <4>3. image'[Exe] = x
        BY <1>3, <4>1, <4>2
      <4>4. boot'.starts = 1
        <5>1. boot'.starts = boot.starts + 1
          BY <3>1 DEF DllMain, Start, IInv, Typed
        <5> QED
          BY <1>6, <5>1 DEF IInv, Typed
      <4>5. KexShouldRewriteImportsOfDll(Exe)'
        BY KernelAssumption DEF KexShouldRewriteImportsOfDll
      <4>6. Expected(Exe)' = [i \in DOMAIN Imports[Exe] |-> NewName(Exe, Imports[Exe][i])]
        <5>1. \A n : NewName(Exe, n)' = NewName(Exe, n)
          BY <1>1 DEF NewName, KexpLookupDllRewriteEntry, Table
        <5> QED
          BY <4>4, <4>5, <5>1 DEF Expected
      <4>7. /\ x.names = [i \in DOMAIN Imports[Exe] |-> NewName(Exe, Imports[Exe][i])]
            /\ x.names # Imports[Exe] => ~x.bound
        BY <1>3, RewrittenWhole
      <4> HIDE DEF x
      <4> QED
        BY <4>3, <4>6, <4>7 DEF Seen
    <3>2. CASE ~StartsAt(boot.entered + 1)
      <4>1. boot' = [boot EXCEPT !.entered = @ + 1] /\ UNCHANGED image
        BY <3>2 DEF DllMain
      <4>2. boot'.starts = boot.starts
        BY <4>1 DEF IInv, Typed
      <4>3. Expected(Exe)' = Expected(Exe)
        BY <1>1, <1>3, <4>2, SameExpected
      <4> QED
        BY <1>3, <1>7, <4>1, <4>3 DEF AsExpected, ImagesRight, Seen
    <3> QED
      BY <3>1, <3>2
  <2>4. ImagesRight'
    BY <1>3, <1>4, <1>7, <2>3 DEF AsExpected, ImagesRight
  <2> QED
    BY <2>1, <2>2, <2>4 DEF AsExpected
<1>8. [Next]_vars
  BY DEF Next
<1> QED
  BY <1>5, <1>7, <1>8, ToShow

LEMMA LoadProgramRight ==
  ASSUME IInv, RInv, LoadProgram
  PROVE  RInv'
<1> DEFINE nothing == [call |-> "load", name |-> Kernel, at |-> "search"]
<1>0. PICK f : f = Load(Exe, nothing, "none", FALSE, Exe, KexDirSearched, Files(image[Exe].names))
  OBVIOUS
<1>1. /\ boot.phase = "entering" /\ boot' = [boot EXCEPT !.phase = "loading"]
      /\ stack' = [stack EXCEPT ![MainThread] = <<f>>]
      /\ UNCHANGED <<settings, path, image, flag, faults>>
  BY <1>0 DEF LoadProgram
<1>2. \A t \in Thread : stack[t] = <<>>
  BY <1>1 DEF IInv, CalledLater
<1>3. boot'.phase = "loading" /\ boot'.starts = boot.starts
  BY <1>1 DEF IInv, Typed
<1>4. OnlyProgram'
  BY <1>3 DEF OnlyProgram
<1>5. /\ f.kind = "load" /\ f.init = <<>> /\ f.saved = FALSE /\ f.target = Exe
      /\ f.todo = Files(image[Exe].names)
  BY <1>0 DEF Load
<1>6. f \in Frame
  <2>1. IInv'
    BY LoadProgramStep
  <2>2. <<f>> \in Seq(Frame)
    BY <1>1, <2>1, ModuleAssumption DEF IInv, Typed
  <2>3. <<f>>[1] \in Frame
    BY <2>2
  <2> QED
    BY <2>3
<1>7. ASSUME faults' = 0, faults = 0, ~settings.ie, AsExpected
      PROVE  AsExpected'
  <2>1. ImagesRight' /\ (\A m \in Module : Seen(m)' <=> Seen(m))
    <3>1. \A m \in Module : /\ image'[m].names = image[m].names
                            /\ image'[m].bound = image[m].bound
                            /\ image'[m].mapped => image[m].mapped
                            /\ image'[m].ready => image[m].ready \/ Seen(m)
      BY <1>1
    <3> QED
      BY <1>1, <1>3, <1>7, <3>1, ImagesStay DEF AsExpected
  <2>2. Right \subseteq Right'
    BY <1>1, <1>3, <2>1, RightStays
  <2>3. StackIn(<<f>>, Right)
    <3>1. ~Below(<<f>>, 1) /\ Below(<<f>>, 1) \in BOOLEAN
      BY DEF Below
    <3>2. FrameRight(f, Below(<<f>>, 1))
      BY <1>5, <3>1 DEF FrameRight, Agrees, Range
    <3>3. DOMAIN <<f>> = {1} /\ <<f>>[1] = f
      OBVIOUS
    <3> QED
      BY <1>6, <3>1, <3>2, <3>3 DEF StackIn, Right
  <2>4. StackIn(<<f>>, Right')
    BY <2>2, <2>3 DEF StackIn
  <2>5. FramesRight'
    BY <1>1, <1>7, <2>2, <2>4, FramesStay, ModuleAssumption DEF AsExpected
  <2>6. KernelFirst'
    <3>1. Seen(Exe)
      BY <1>7 DEF AsExpected, ImagesRight
    <3>2. PICK n \in {Kernel, KxBase} : n \in Range(image[Exe].names)
      BY <1>7, <3>1, ProgramNames DEF Seen
    <3>3. File[n] \in Range(f.todo)
      BY <1>5, <3>2 DEF Files, Range
    <3>4. ~image'[File[KxBase]].mapped
      BY <1>1, KnownModules DEF RInv, OnlyProgram
    <3>5. KernelAhead(f)'
      BY <1>5, <3>3, <3>4 DEF KernelAhead
    <3>6. /\ stack'[MainThread] = <<f>> /\ \A t \in Thread \ {MainThread} : stack'[t] = <<>>
      BY <1>1, <1>2, ModuleAssumption DEF IInv, Typed
    <3>7. Len(<<f>>) = 1 /\ <<f>>[1] = f
      OBVIOUS
    <3> QED
      BY <1>3, <3>5, <3>6, <3>7 DEF KernelFirst
  <2> QED
    BY <2>1, <2>5, <2>6 DEF AsExpected
<1>8. [Next]_vars
  BY DEF Next
<1> QED
  BY <1>4, <1>7, <1>8, ToShow
\* What a step of a thread has to show, when the names of the images and the
\* calls of KexDll stay.
LEMMA ThreadRight ==
  ASSUME IInv, AsExpected, NEW t \in Thread, NEW s \in Seq(Frame),
         UNCHANGED settings, boot'.starts = boot.starts,
         stack' = [stack EXCEPT ![t] = s], StackIn(s, Right),
         \A m \in Module : /\ image'[m].names = image[m].names
                           /\ image'[m].bound = image[m].bound
                           /\ image'[m].mapped => image[m].mapped
                           /\ image'[m].ready => image[m].ready \/ Seen(m),
         Seen(File[Kernel]) \/ KernelFirst'
  PROVE  AsExpected'
<1>1. ImagesRight' /\ (\A m \in Module : Seen(m)' <=> Seen(m))
  BY ImagesStay DEF AsExpected
<1>2. Right \subseteq Right'
  BY <1>1, RightStays
<1>3. StackIn(s, Right')
  BY <1>2 DEF StackIn
<1>4. FramesRight'
  BY <1>2, <1>3, FramesStay DEF AsExpected
<1>5. KernelFirst'
  BY <1>1, KernelStays
<1> QED
  BY <1>1, <1>4, <1>5 DEF AsExpected

LEMMA InitNextRight ==
  ASSUME IInv, RInv, NEW t \in Thread, InitNext(t)
  PROVE  RInv'
<1>1. stack[t] # <<>> /\ stack[t][1].kind = "load" /\ stack[t][1].todo = <<>>
      /\ stack[t][1].init # <<>>
  BY HeadFrame DEF InitNext, In
<1>2. /\ stack[t] \in Seq(Frame) /\ Head(stack[t]) = stack[t][1] /\ stack[t][1] \in LoadFrame
  BY <1>1, HeadFrame
<1>3. PICK f \in LoadFrame : f = stack[t][1]
  BY <1>2
<1>4. f.kind = "load" /\ f.init \in Seq(Module) /\ f.init # <<>>
  BY <1>1, <1>3 DEF LoadFrame
<1> DEFINE m == Head(f.init)
           g == [f EXCEPT !.init = Tail(f.init)]
           s == [stack[t] EXCEPT ![1] = g]
           c == Code(m, Loads[m])
<1>5. m \in Module /\ m \in Range(f.init) /\ Range(Tail(f.init)) \subseteq Range(f.init)
      /\ Tail(f.init) \in Seq(Module)
  BY <1>4, EmptySeq DEF Range
<1>6. /\ g \in Frame /\ g.kind = "load" /\ g.wrapper = f.wrapper /\ g.saved = f.saved
      /\ g.target = f.target /\ g.by = f.by /\ g.asked = f.asked /\ g.init = Tail(f.init)
  BY <1>4, <1>5 DEF Frame, LoadFrame
<1>7. c \in Frame /\ c.kind = "code" /\ c.module = m /\ c.todo = Loads[m]
  BY <1>5, ModuleAssumption DEF Code, CodeFrame, Frame
<1>8. stack' = [stack EXCEPT ![t] = Push(c, s)]
  <2>1. stack' = [stack EXCEPT ![t] =
                   Push(Code(m, Loads[m]), [stack[t] EXCEPT ![1].init = Tail(@)])]
    BY <1>2, <1>3 DEF InitNext
  <2>2. [stack[t] EXCEPT ![1].init = Tail(@)] = s
    BY <1>3
  <2> QED
    BY <2>1, <2>2
<1>9. UNCHANGED <<settings, boot, path, image, flag, faults>>
  BY DEF InitNext
<1>10. OnlyProgram'
  BY <1>1, <1>9, Begun
<1>11. ASSUME faults' = 0, faults = 0, ~settings.ie, AsExpected
       PROVE  AsExpected'
  <2>1. /\ StackIn(stack[t], Right) /\ FrameRight(f, Below(stack[t], 1))
        /\ Below(stack[t], 1) \in BOOLEAN
    BY <1>1, <1>3, <1>11, TopRight DEF AsExpected
  <2>2. \A n \in Range(f.init) : Seen(n)
    BY <1>4, <2>1 DEF FrameRight
  <2>3. FrameRight(g, Below(stack[t], 1))
    <3>1. Agrees(g, Below(stack[t], 1)) <=> Agrees(f, Below(stack[t], 1))
      BY <1>6 DEF Agrees
    <3> HIDE DEF g
    <3> QED
      BY <1>4, <1>5, <1>6, <2>1, <3>1 DEF FrameRight
  <2>4. FrameRight(c, HasExt(s))
    <3>1. Seen(m) /\ Range(Loads[m]) \subseteq Asks(m)
      BY <1>5, <2>2 DEF Asks
    <3> HIDE DEF c
    <3> QED
      BY <1>7, <3>1 DEF FrameRight
  <2>5. <<g, Below(stack[t], 1)>> \in Right
    BY <1>6, <2>1, <2>3 DEF Right
  <2>6. IsExt(g) <=> IsExt(stack[t][1])
    BY <1>3, <1>4, <1>6 DEF IsExt
  <2> HIDE DEF g, c
  <2>7. StackIn(s, Right)
    BY <1>1, <1>2, <1>6, <2>1, <2>5, <2>6, HeadIn
  <2>8. s \in Seq(Frame)
    BY <1>1, <1>2, <1>6, EmptySeq
  <2>9. <<c, HasExt(s)>> \in Right
    BY <1>7, <2>4 DEF Right, HasExt
  <2> HIDE DEF s
  <2>10. StackIn(Push(c, s), Right) /\ Push(c, s) \in Seq(Frame)
    BY <1>7, <2>7, <2>8, <2>9, PushIn, PushFacts
  <2>11. Seen(File[Kernel])
    BY <1>1, <1>11, KernelReady DEF AsExpected
  <2> QED
    BY <1>8, <1>9, <1>11, <2>10, <2>11, ThreadRight
<1>12. [Next]_vars
  BY DEF Next
<1> QED
  BY <1>10, <1>11, <1>12, ToShow

LEMMA CodeReturnsRight ==
  ASSUME IInv, RInv, NEW t \in Thread, CodeReturns(t)
  PROVE  RInv'
<1>1. stack[t] # <<>> /\ stack[t][1].kind = "code"
  BY HeadFrame DEF CodeReturns, In
<1>2. /\ stack[t] \in Seq(Frame) /\ Head(stack[t]) = stack[t][1] /\ stack[t][1] \in CodeFrame
  BY <1>1, HeadFrame
<1>3. PICK n \in Module : n = stack[t][1].module
  BY <1>2 DEF CodeFrame
<1>4. /\ image' = [image EXCEPT ![n].ready = TRUE]
      /\ stack' = [stack EXCEPT ![t] = Tail(stack[t])]
      /\ UNCHANGED <<settings, boot, path, flag, faults>>
  BY <1>2, <1>3 DEF CodeReturns
<1>5. OnlyProgram'
  BY <1>1, <1>4, Begun
<1>6. ASSUME faults' = 0, faults = 0, ~settings.ie, AsExpected
      PROVE  AsExpected'
  <2>1. Seen(n)
    BY <1>1, <1>3, <1>6, TopRight DEF FrameRight, AsExpected
  <2>2. ASSUME NEW m \in Module
        PROVE  /\ image'[m].names = image[m].names
               /\ image'[m].bound = image[m].bound
               /\ image'[m].mapped => image[m].mapped
               /\ image'[m].ready => image[m].ready \/ Seen(m)
    <3> DEFINE yes == TRUE
    <3>1. image' = [image EXCEPT ![n].ready = yes]
      BY <1>4
    <3> HIDE DEF yes
    <3>2. image[n] \in Image /\ image \in [Module -> Image]
      BY DEF IInv, Typed
    <3>3. CASE m = n
      <4>1. image'[m] = [image[m] EXCEPT !.ready = yes]
        BY <3>1, <3>2, <3>3
      <4>2. /\ image'[m].names = image[m].names
            /\ image'[m].bound = image[m].bound
            /\ image'[m].mapped = image[m].mapped
        BY <3>2, <3>3, <4>1 DEF Image
      <4> QED
        BY <2>1, <3>3, <4>2
    <3>4. CASE m # n
      <4>1. image'[m] = image[m]
        BY <3>1, <3>2, <3>4
      <4> QED
        BY <4>1
    <3> QED
      BY <3>3, <3>4
  <2>3. StackIn(Tail(stack[t]), Right) /\ Tail(stack[t]) \in Seq(Frame)
    BY <1>1, <1>2, <1>6, TopRight, PopIn DEF AsExpected
  <2>4. Seen(File[Kernel])
    BY <1>1, <1>6, KernelReady DEF AsExpected
  <2> QED
    BY <1>4, <1>6, <2>2, <2>3, <2>4, ThreadRight
<1>7. [Next]_vars
  BY DEF Next
<1> QED
  BY <1>5, <1>6, <1>7, ToShow

LEMMA CallRight ==
  ASSUME IInv, RInv, NEW t \in Thread, NEW m \in Module, Call(t, m)
  PROVE  RInv'
<1>1. /\ boot.phase = "running" /\ stack[t] = <<>> /\ image[m].ready
      /\ UNCHANGED <<settings, boot, path, image, flag, faults>>
  BY DEF Call
<1>2. PICK r \in Requests[m] : stack' = [stack EXCEPT ![t] = <<Code(m, <<r>>)>>]
  BY DEF Call
<1> DEFINE c == Code(m, <<r>>)
<1>3. c \in Frame /\ c.kind = "code" /\ c.module = m /\ c.todo = <<r>>
  BY ModuleAssumption DEF Code, CodeFrame, Frame
<1>4. OnlyProgram'
  BY <1>1 DEF OnlyProgram
<1>5. ASSUME faults' = 0, faults = 0, ~settings.ie, AsExpected
      PROVE  AsExpected'
  <2>1. Seen(m)
    BY <1>1, <1>5 DEF AsExpected, ImagesRight
  <2>2. Range(<<r>>) \subseteq Asks(m)
    BY DEF Asks, Range
  <2> HIDE DEF c
  <2>3. FrameRight(c, Below(<<c>>, 1)) /\ Below(<<c>>, 1) \in BOOLEAN
    BY <1>3, <2>1, <2>2 DEF FrameRight, Below
  <2>4. DOMAIN <<c>> = {1} /\ <<c>>[1] = c
    OBVIOUS
  <2>5. StackIn(<<c>>, Right) /\ <<c>> \in Seq(Frame)
    BY <1>3, <2>3, <2>4 DEF StackIn, Right
  <2>6. Seen(File[Kernel])
    BY <1>1, <1>5 DEF AsExpected, KernelFirst
  <2>7. stack' = [stack EXCEPT ![t] = <<c>>]
    BY <1>2 DEF c
  <2> QED
    BY <1>1, <1>5, <2>5, <2>6, <2>7, ThreadRight
<1>6. [Next]_vars
  BY DEF Next
<1> QED
  BY <1>4, <1>5, <1>6, ToShow
\* Where nothing fails a module is mapped with the names it is to have.
LEMMA MappedAs ==
  ASSUME IInv, NEW m \in Module, NEW fault \in {NoFault} \cup FaultsOf(m), Mapped(m, fault),
         faults = 0, faults' = 0
  PROVE  \E x : /\ image' = [image EXCEPT ![m] = x]
                /\ x.names = Expected(m)
                /\ x.names # Imports[m] => ~x.bound
<1>1. CASE boot.starts > 0 /\ KexShouldRewriteImportsOfDll(m)
  <2>1. /\ Fault(m, fault)
        /\ image' = [image EXCEPT ![m] = KexRewriteImageImportDirectory(m, fault)]
    BY <1>1 DEF Mapped
  <2>2. fault = NoFault
    BY <2>1 DEF Fault
  <2>3. boot.starts = 1
    BY <1>1, StartsTwice
  <2>4. Expected(m) = [i \in DOMAIN Imports[m] |-> NewName(m, Imports[m][i])]
    BY <1>1, <2>3 DEF Expected
  <2> DEFINE x == KexRewriteImageImportDirectory(m, NoFault)
  <2>5. x.names = Expected(m) /\ (x.names # Imports[m] => ~x.bound)
    BY <2>4, RewrittenWhole
  <2>6. image' = [image EXCEPT ![m] = x]
    BY <2>1, <2>2
  <2> HIDE DEF x
  <2> QED
    BY <2>5, <2>6
<1>2. CASE ~(boot.starts > 0 /\ KexShouldRewriteImportsOfDll(m))
  <2>1. image' = [image EXCEPT ![m] = Fresh(m)]
    BY <1>2 DEF Mapped
  <2>2. Expected(m) = Imports[m]
    BY <1>2 DEF Expected
  <2>3. Fresh(m).names = Imports[m]
    BY DEF Fresh
  <2> QED
    BY <2>1, <2>2, <2>3
<1> QED
  BY <1>1, <1>2

LEMMA FilesOfNames ==
  ASSUME NEW names, NEW n \in Range(names)
  PROVE  File[n] \in Range(Files(names))
BY DEF Files, Range

LEMMA RangeOfConcat ==
  ASSUME NEW p \in Seq(Module), NEW q \in Seq(Module)
  PROVE  Range(p \o q) = Range(p) \cup Range(q)
<1> DEFINE c == p \o q
<1>1. /\ Len(c) = Len(p) + Len(q) /\ DOMAIN c = 1 .. Len(c)
      /\ Len(p) \in Nat /\ Len(q) \in Nat
      /\ DOMAIN p = 1 .. Len(p) /\ DOMAIN q = 1 .. Len(q)
      /\ \A i \in 1 .. Len(c) : c[i] = IF i <= Len(p) THEN p[i] ELSE q[i - Len(p)]
  OBVIOUS
<1> HIDE DEF c
<1>2. ASSUME NEW i \in DOMAIN c PROVE c[i] \in Range(p) \cup Range(q)
  <2>1. CASE i <= Len(p)
    <3>1. i \in DOMAIN p /\ c[i] = p[i]
      BY <1>1, <2>1
    <3> QED
      BY <3>1 DEF Range
  <2>2. CASE ~(i <= Len(p))
    <3>1. i - Len(p) \in DOMAIN q /\ c[i] = q[i - Len(p)]
      BY <1>1, <2>2
    <3> QED
      BY <3>1 DEF Range
  <2> QED
    BY <2>1, <2>2
<1>3. ASSUME NEW i \in DOMAIN p PROVE p[i] \in Range(c)
  <2>1. i \in DOMAIN c /\ c[i] = p[i]
    BY <1>1
  <2> QED
    BY <2>1 DEF Range
<1>4. ASSUME NEW i \in DOMAIN q PROVE q[i] \in Range(c)
  <2>1. i + Len(p) \in DOMAIN c /\ ~(i + Len(p) <= Len(p)) /\ (i + Len(p)) - Len(p) = i
    BY <1>1
  <2>2. c[i + Len(p)] = q[i]
    BY <1>1, <2>1
  <2> QED
    BY <2>1, <2>2 DEF Range
<1> QED
  BY <1>2, <1>3, <1>4 DEF Range, c

LEMMA RangeOfTail ==
  ASSUME NEW p \in Seq(Module), p # <<>>, NEW n \in Range(p), n # Head(p)
  PROVE  n \in Range(Tail(p))
<1>1. PICK i \in DOMAIN p : p[i] = n
  BY DEF Range
<1>2. i # 1 /\ i \in 1 .. Len(p)
  BY <1>1
<1>3. i - 1 \in DOMAIN Tail(p) /\ Tail(p)[i - 1] = n
  BY <1>1, <1>2
<1> QED
  BY <1>3 DEF Range

\* Until kernel32 is mapped the next thing to map is it, KxBase, or ahead of one of them.
LEMMA KernelStillAhead ==
  ASSUME IInv, AsExpected, ~Seen(File[Kernel]), NEW f \in LoadFrame, KernelAhead(f),
         f.todo # <<>>, NEW todo \in Seq(Module),
         UNCHANGED settings, boot'.starts = boot.starts,
         \/ image[Head(f.todo)].mapped /\ UNCHANGED image /\ todo = Tail(f.todo)
         \/ /\ ~image[Head(f.todo)].mapped
            /\ \E x : image' = [image EXCEPT ![Head(f.todo)] = x] /\ x.names = Expected(Head(f.todo))
            /\ todo = Tail(f.todo) \o Files(image'[Head(f.todo)].names)
  PROVE  \/ Seen(File[Kernel])'
         \/ File[Kernel] \in Range(todo)
         \/ File[KxBase] \in Range(todo) /\ ~image'[File[KxBase]].mapped
<1> DEFINE m == Head(f.todo)
<1>1. f.todo \in Seq(Module) /\ m \in Module /\ Tail(f.todo) \in Seq(Module)
  BY DEF LoadFrame
<1>2. image \in [Module -> Image] /\ File[Kernel] \in Module /\ File[KxBase] \in Module
  BY KnownModules DEF IInv, Typed
<1>3. \/ File[Kernel] \in Range(f.todo)
      \/ File[KxBase] \in Range(f.todo) /\ ~image[File[KxBase]].mapped
  BY DEF KernelAhead
<1>4. CASE image[m].mapped
  <2>1. Seen(m)
    BY <1>1, <1>4 DEF AsExpected, ImagesRight
  <2>2. m # File[Kernel]
    BY <2>1
  <2>3. UNCHANGED image /\ todo = Tail(f.todo)
    BY <1>4
  <2>4. CASE File[Kernel] \in Range(f.todo)
    BY <1>1, <2>2, <2>3, <2>4, RangeOfTail
  <2>5. CASE File[KxBase] \in Range(f.todo) /\ ~image[File[KxBase]].mapped
    <3>1. m # File[KxBase]
      BY <1>4, <2>5
    <3> QED
      BY <1>1, <2>3, <2>5, <3>1, RangeOfTail
  <2> QED
    BY <1>3, <2>4, <2>5
<1>5. CASE ~image[m].mapped
  <2>1. PICK x : image' = [image EXCEPT ![m] = x] /\ x.names = Expected(m)
    BY <1>5
  <2>2. image'[m] = x /\ \A n \in Module \ {m} : image'[n] = image[n]
    BY <1>1, <1>2, <2>1
  <2>3. todo = Tail(f.todo) \o Files(x.names)
    BY <1>5, <2>2
  <2>4. x.names \in Seq(Name)
    <3>1. \A n \in Name : NewName(m, n) \in Name
      BY LookupType, ModuleAssumption DEF NewName, Name
    <3>2. Imports[m] \in Seq(Name)
      BY <1>1, ImportsOf
    <3>3. [i \in DOMAIN Imports[m] |-> NewName(m, Imports[m][i])] \in Seq(Name)
      BY <3>1, <3>2
    <3>4. Expected(m) \in {[i \in DOMAIN Imports[m] |-> NewName(m, Imports[m][i])], Imports[m]}
      BY DEF Expected
    <3> QED
      BY <2>1, <3>2, <3>3, <3>4
  <2>5. Range(todo) = Range(Tail(f.todo)) \cup Range(Files(x.names))
    BY <1>1, <2>3, <2>4, FilesType, RangeOfConcat
  <2>6. CASE m = File[Kernel]
    <3>1. Expected(File[Kernel])' = Expected(File[Kernel])
      BY <1>2, SameExpected
    <3>2. image'[File[Kernel]].names = Expected(File[Kernel])
      BY <2>1, <2>2, <2>6
    <3> QED
      BY <3>1, <3>2 DEF Seen
  <2>7. CASE m = File[KxBase]
    <3>1. Kernel \in Range(x.names)
      BY <2>1, <2>7, KxBaseNames
    <3> QED
      BY <2>5, <3>1, FilesOfNames
  <2>8. CASE m # File[Kernel] /\ m # File[KxBase]
    <3>1. image'[File[KxBase]] = image[File[KxBase]]
      BY <1>2, <2>2, <2>8
    <3>2. \A n \in Range(f.todo) : n # m => n \in Range(todo)
      BY <1>1, <2>5, RangeOfTail
    <3> QED
      BY <1>3, <2>8, <3>1, <3>2
  <2> QED
    BY <2>6, <2>7, <2>8
<1> QED
  BY <1>4, <1>5
LEMMA MapNextRight ==
  ASSUME IInv, RInv, NEW t \in Thread, MapNext(t)
  PROVE  RInv'
<1>1. stack[t] # <<>> /\ stack[t][1].kind = "load" /\ stack[t][1].todo # <<>>
  BY HeadFrame DEF MapNext, In
<1>2. /\ stack[t] \in Seq(Frame) /\ Head(stack[t]) = stack[t][1] /\ stack[t][1] \in LoadFrame
  BY <1>1, HeadFrame
<1>3. PICK f \in LoadFrame : f = stack[t][1]
  BY <1>2
<1>4. f.kind = "load" /\ f.init \in Seq(Module) /\ f.todo \in Seq(Module) /\ f.todo # <<>>
  BY <1>1, <1>3 DEF LoadFrame
<1>5. PICK m \in Module : m = Head(f.todo)
  BY <1>4
<1>5a. Tail(f.todo) \in Seq(Module)
  BY <1>4
<1>6. UNCHANGED <<settings, boot, path, flag>>
  BY DEF MapNext
<1>7. OnlyProgram'
  BY <1>1, <1>6, Begun
<1>8. IInv'
  BY MapNextStep
<1>9. ASSUME faults' = 0, faults = 0, ~settings.ie, AsExpected,
             NEW todo \in Seq(Module), NEW init \in Seq(Module),
             stack' = [stack EXCEPT ![t][1] = [f EXCEPT !.todo = todo, !.init = init]],
             ImagesRight',
             \A n \in Module : Seen(n) => Seen(n)',
             \A n \in Range(init) : n \in Range(f.init) \/ Seen(n)',
             \/ Seen(File[Kernel])
             \/ KernelAhead(f) =>
                  \/ Seen(File[Kernel])'
                  \/ File[Kernel] \in Range(todo)
                  \/ File[KxBase] \in Range(todo) /\ ~image'[File[KxBase]].mapped
      PROVE  AsExpected'
  <2>1. PICK g : g = [f EXCEPT !.todo = todo, !.init = init]
    OBVIOUS
  <2>2. /\ g \in Frame /\ g.kind = "load" /\ g.wrapper = f.wrapper /\ g.saved = f.saved
        /\ g.target = f.target /\ g.by = f.by /\ g.asked = f.asked
        /\ g.init = init /\ g.todo = todo
    BY <1>4, <2>1 DEF Frame, LoadFrame
  <2>3. PICK s : s = [stack[t] EXCEPT ![1] = g]
    OBVIOUS
  <2>4. stack' = [stack EXCEPT ![t] = s]
    BY <1>9, <2>1, <2>3
  <2>5. Right \subseteq Right'
    BY <1>6, <1>9, RightStays
  <2>6. /\ StackIn(stack[t], Right) /\ Below(stack[t], 1) \in BOOLEAN
        /\ <<f, Below(stack[t], 1)>> \in Right
    <3>1. StackIn(stack[t], Right) /\ FrameRight(f, Below(stack[t], 1))
          /\ Below(stack[t], 1) \in BOOLEAN
      BY <1>1, <1>3, <1>9, TopRight DEF AsExpected
    <3> QED
      BY <3>1, <1>3 DEF Right, Frame
  <2>7. PICK below \in BOOLEAN : below = Below(stack[t], 1)
    BY <2>6
  <2>8. FrameRight(f, below)'
    BY <2>5, <2>6, <2>7 DEF Right
  <2>9. Agrees(f, below)' /\ (f.saved => below) /\ \A n \in Range(f.init) : Seen(n)'
    BY <1>4, <2>8 DEF FrameRight
  <2>10. Agrees(g, below)'
    BY <2>2, <2>9 DEF Agrees
  <2>11. FrameRight(g, below)'
    BY <1>9, <2>2, <2>9, <2>10 DEF FrameRight
  <2>12. <<g, below>> \in Right'
    BY <2>2, <2>11 DEF Right
  <2>13. IsExt(g) <=> IsExt(stack[t][1])
    BY <1>3, <1>4, <2>2 DEF IsExt
  <2>14. StackIn(stack[t], Right')
    BY <2>5, <2>6 DEF StackIn
  <2>15. StackIn(s, Right')
    BY <1>1, <1>2, <2>2, <2>3, <2>7, <2>12, <2>13, <2>14, HeadIn
  <2>16. FramesRight'
    BY <1>9, <2>4, <2>5, <2>15, FramesStay DEF AsExpected
  <2>17. KernelFirst'
    <3>1. CASE Seen(File[Kernel])
      BY <1>9, <3>1, KnownModules DEF KernelFirst
    <3>2. CASE ~Seen(File[Kernel]) /\ ~Seen(File[Kernel])'
      <4>1. /\ boot.phase # "running"
            /\ \A u \in Thread \ {MainThread} : stack[u] = <<>>
            /\ stack[MainThread] # <<>> =>
                 Len(stack[MainThread]) = 1 /\ KernelAhead(stack[MainThread][1])
        BY <1>9, <3>2 DEF AsExpected, KernelFirst
      <4>2. t = MainThread
        BY <1>1, <4>1
      <4>3. Len(stack[t]) = 1 /\ KernelAhead(f)
        BY <1>1, <1>3, <4>1, <4>2
      <4>4. \/ File[Kernel] \in Range(todo)
            \/ File[KxBase] \in Range(todo) /\ ~image'[File[KxBase]].mapped
        BY <1>9, <3>2, <4>3
      <4>5. KernelAhead(g)'
        BY <2>2, <4>4 DEF KernelAhead
      <4>6. Len(s) = 1 /\ s[1] = g
        BY <1>2, <2>3, <4>3
      <4>7. stack'[t] = s /\ \A u \in Thread \ {t} : stack'[u] = stack[u]
        BY <2>4 DEF IInv, Typed
      <4> QED
        BY <1>6, <4>1, <4>2, <4>5, <4>6, <4>7 DEF KernelFirst
    <3> QED
      BY <3>1, <3>2 DEF KernelFirst
  <2> QED
    BY <1>9, <2>16, <2>17 DEF AsExpected
<1>10. ASSUME faults' = 0, faults = 0, ~settings.ie, AsExpected, image[m].mapped
       PROVE  AsExpected'
  <2>1. /\ stack' = [stack EXCEPT ![t][1] = [f EXCEPT !.todo = Tail(f.todo), !.init = f.init]]
        /\ UNCHANGED image
    BY <1>2, <1>3, <1>5, <1>10 DEF MapNext
  <2>2. ImagesRight' /\ \A n \in Module : Seen(n)' <=> Seen(n)
    <3>1. \A n \in Module : /\ image'[n].names = image[n].names
                            /\ image'[n].bound = image[n].bound
                            /\ image'[n].mapped => image[n].mapped
                            /\ image'[n].ready => image[n].ready \/ Seen(n)
      BY <2>1
    <3> QED
      BY <1>6, <1>10, <3>1, ImagesStay DEF AsExpected
  <2>3. PICK todo \in Seq(Module) : todo = Tail(f.todo)
    BY <1>5a
  <2>4. \/ Seen(File[Kernel])
        \/ KernelAhead(f) =>
             \/ Seen(File[Kernel])'
             \/ File[Kernel] \in Range(todo)
             \/ File[KxBase] \in Range(todo) /\ ~image'[File[KxBase]].mapped
    BY <1>4, <1>5, <1>6, <1>10, <2>1, <2>3, KernelStillAhead
  <2>5. PICK init \in Seq(Module) : init = f.init
    BY <1>4
  <2>6. stack' = [stack EXCEPT ![t][1] = [f EXCEPT !.todo = todo, !.init = init]]
    BY <2>1, <2>3, <2>5
  <2>7. \A n \in Module : Seen(n) => Seen(n)'
    BY <2>2
  <2>8. \A n \in Range(init) : n \in Range(f.init) \/ Seen(n)'
    BY <2>5
  <2> QED
    BY <1>9, <1>10, <2>2, <2>4, <2>6, <2>7, <2>8
<1>11. ASSUME faults' = 0, faults = 0, ~settings.ie, AsExpected, ~image[m].mapped
       PROVE  AsExpected'
  <2>1. /\ \E fault \in {NoFault} \cup FaultsOf(m) : Mapped(m, fault)
        /\ stack' = [stack EXCEPT ![t][1] =
             [f EXCEPT !.todo = Tail(f.todo) \o Files(image'[m].names), !.init = <<m>> \o f.init]]
    BY <1>2, <1>3, <1>5, <1>11 DEF MapNext
  <2>2. PICK x : /\ image' = [image EXCEPT ![m] = x]
                 /\ x.names = Expected(m)
                 /\ x.names # Imports[m] => ~x.bound
    BY <1>11, <2>1, MappedAs
  <2>3. image'[m] = x /\ \A n \in Module \ {m} : image'[n] = image[n]
    BY <2>2 DEF IInv, Typed
  <2>4. \A n \in Module : Expected(n)' = Expected(n)
    BY <1>6, SameExpected
  <2>5. Seen(m)' /\ \A n \in Module : Seen(n) => Seen(n)'
    BY <2>2, <2>3, <2>4 DEF Seen
  <2>6. ImagesRight'
    <3> SUFFICES ASSUME NEW n \in Module
                 PROVE  /\ image'[n].mapped \/ image'[n].ready => Seen(n)'
                        /\ image'[n].names # Imports[n] => ~image'[n].bound
      BY <1>11, <2>5, ModuleAssumption DEF AsExpected, ImagesRight
    <3>1. CASE n = m
      BY <2>2, <2>3, <2>5, <3>1
    <3>2. CASE n # m
      BY <1>11, <2>3, <2>5, <3>2 DEF AsExpected, ImagesRight
    <3> QED
      BY <3>1, <3>2
  <2>7. image'[m].names \in Seq(Name)
    BY <1>8 DEF IInv, Typed, Image
  <2>8. Files(image'[m].names) \in Seq(Module)
    BY <2>7, FilesType
  <2>9. PICK todo \in Seq(Module) : todo = Tail(f.todo) \o Files(image'[m].names)
    <3>1. Tail(f.todo) \o Files(image'[m].names) \in Seq(Module)
      BY <1>5a, <2>8
    <3> QED
      BY <3>1
  <2>10. \/ Seen(File[Kernel])
         \/ KernelAhead(f) =>
              \/ Seen(File[Kernel])'
              \/ File[Kernel] \in Range(todo)
              \/ File[KxBase] \in Range(todo) /\ ~image'[File[KxBase]].mapped
    <3>1. ~image[Head(f.todo)].mapped
      BY <1>5, <1>11
    <3>2. /\ image' = [image EXCEPT ![Head(f.todo)] = x]
          /\ x.names = Expected(Head(f.todo))
      BY <1>5, <2>2
    <3>3. todo = Tail(f.todo) \o Files(image'[Head(f.todo)].names)
      BY <1>5, <2>9
    <3>4. boot'.starts = boot.starts
      BY <1>6
    <3> QED
      BY <1>4, <1>6, <1>11, <3>1, <3>2, <3>3, <3>4, KernelStillAhead
  <2>11. PICK init \in Seq(Module) : init = <<m>> \o f.init
    <3>1. <<m>> \o f.init \in Seq(Module)
      BY <1>4
    <3> QED
      BY <3>1
  <2>12. \A n \in Range(init) : n \in Range(f.init) \/ Seen(n)'
    <3>1. <<m>> \in Seq(Module) /\ Range(<<m>>) = {m}
      BY DEF Range
    <3>2. Range(init) = Range(<<m>>) \cup Range(f.init)
      BY <1>4, <2>11, <3>1, RangeOfConcat
    <3> QED
      BY <2>5, <3>1, <3>2
  <2>13. stack' = [stack EXCEPT ![t][1] = [f EXCEPT !.todo = todo, !.init = init]]
    BY <2>1, <2>9, <2>11
  <2> QED
    BY <1>9, <1>11, <2>5, <2>6, <2>10, <2>12, <2>13
<1>12. [Next]_vars
  BY DEF Next
<1> QED
  BY <1>7, <1>10, <1>11, <1>12, ToShow

LEMMA LoadReturnsRight ==
  ASSUME IInv, RInv, NEW t \in Thread, LoadReturns(t)
  PROVE  RInv'
<1>1. stack[t] # <<>> /\ stack[t][1].kind = "load" /\ stack[t][1].todo = <<>>
  BY HeadFrame DEF LoadReturns, In
<1>2. stack[t] \in Seq(Frame)
  BY <1>1, HeadFrame
<1>3. stack' = [stack EXCEPT ![t] = Tail(stack[t])] /\ UNCHANGED <<settings, path, faults>>
  BY DEF LoadReturns, Return
<1>4. \/ UNCHANGED <<boot, image>>
      \/ boot' = [boot EXCEPT !.phase = "running"] /\ image' = [image EXCEPT ![Exe].ready = TRUE]
  BY DEF LoadReturns
<1>5. boot'.starts = boot.starts /\ (boot'.phase # "entering" \/ UNCHANGED boot)
  BY <1>4 DEF IInv, Typed
<1>6. OnlyProgram'
  BY <1>1, <1>5, Begun
<1>7. ASSUME faults' = 0, faults = 0, ~settings.ie, AsExpected
      PROVE  AsExpected'
  <2>1. Seen(Exe) /\ Exe \in Module
    BY <1>7, ModuleAssumption DEF AsExpected, ImagesRight
  <2>2. ASSUME NEW m \in Module
        PROVE  /\ image'[m].names = image[m].names
               /\ image'[m].bound = image[m].bound
               /\ image'[m].mapped => image[m].mapped
               /\ image'[m].ready => image[m].ready \/ Seen(m)
    <3>1. CASE m = Exe /\ image' # image
      <4> DEFINE yes == TRUE
      <4>1. image' = [image EXCEPT ![m].ready = yes]
        BY <1>4, <3>1
      <4> HIDE DEF yes
      <4>2. image[m] \in Image /\ image \in [Module -> Image]
        BY DEF IInv, Typed
      <4>3. image'[m] = [image[m] EXCEPT !.ready = yes]
        BY <4>1, <4>2
      <4>4. /\ image'[m].names = image[m].names
            /\ image'[m].bound = image[m].bound
            /\ image'[m].mapped = image[m].mapped
        BY <4>2, <4>3 DEF Image
      <4> QED
        BY <2>1, <3>1, <4>4
    <3>2. CASE m # Exe \/ image' = image
      <4>1. image'[m] = image[m]
        BY <1>4, <3>2 DEF IInv, Typed
      <4> QED
        BY <4>1
    <3> QED
      BY <3>1, <3>2
  <2>3. StackIn(Tail(stack[t]), Right) /\ Tail(stack[t]) \in Seq(Frame)
    BY <1>1, <1>2, <1>7, TopRight, PopIn DEF AsExpected
  <2>4. Seen(File[Kernel])
    BY <1>1, <1>7, KernelReady DEF AsExpected
  <2> QED
    BY <1>3, <1>5, <1>7, <2>2, <2>3, <2>4, ThreadRight
<1>8. [Next]_vars
  BY DEF Next
<1> QED
  BY <1>6, <1>7, <1>8, ToShow

LEMMA LoadFailsRight ==
  ASSUME IInv, RInv, NEW t \in Thread, LoadFails(t)
  PROVE  RInv'
<1>1. stack[t] # <<>> /\ stack[t][1].kind = "load"
  BY HeadFrame DEF LoadFails, In
<1>2. stack[t] \in Seq(Frame)
  BY <1>1, HeadFrame
<1>3. stack' = [stack EXCEPT ![t] = Tail(stack[t])] /\ UNCHANGED <<settings, path, faults>>
  BY DEF LoadFails, Return
<1>4. boot' = boot \/ boot' = [boot EXCEPT !.phase = "failed"]
  BY DEF LoadFails
<1>5. /\ boot'.starts = boot.starts /\ (boot'.phase # "entering" \/ UNCHANGED boot)
      /\ boot'.phase = "running" => boot.phase = "running"
  BY <1>4 DEF IInv, Typed
<1>6. OnlyProgram'
  BY <1>1, <1>5, Begun
<1>7. ASSUME faults' = 0, faults = 0, ~settings.ie, AsExpected
      PROVE  AsExpected'
  <2>1. ASSUME NEW m \in Module
        PROVE  /\ image'[m].names = image[m].names
               /\ image'[m].bound = image[m].bound
               /\ image'[m].mapped => image[m].mapped
               /\ image'[m].ready => image[m].ready \/ Seen(m)
    <3> DEFINE no == FALSE
    <3>1. image' = [n \in Module |-> IF n \in Range(Head(stack[t]).init)
                                     THEN [image[n] EXCEPT !.mapped = no] ELSE image[n]]
      BY DEF LoadFails
    <3>2. image[m] \in Image
      BY DEF IInv, Typed
    <3>3. CASE image'[m] = image[m]
      BY <3>3
    <3>4. CASE image'[m] = [image[m] EXCEPT !.mapped = no]
      <4>1. ~image'[m].mapped
        BY <3>2, <3>4 DEF Image
      <4> HIDE DEF no
      <4>2. /\ image'[m].names = image[m].names
            /\ image'[m].bound = image[m].bound
            /\ image'[m].ready = image[m].ready
        BY <3>2, <3>4 DEF Image
      <4> QED
        BY <4>1, <4>2
    <3> QED
      BY <3>1, <3>3, <3>4
  <2>2. StackIn(Tail(stack[t]), Right) /\ Tail(stack[t]) \in Seq(Frame)
    BY <1>1, <1>2, <1>7, TopRight, PopIn DEF AsExpected
  <2>3. Seen(File[Kernel]) \/ KernelFirst'
    <3> SUFFICES ASSUME ~Seen(File[Kernel]) PROVE KernelFirst'
      OBVIOUS
    <3>0. /\ boot.phase # "running"
          /\ \A u \in Thread \ {MainThread} : stack[u] = <<>>
          /\ stack[MainThread] # <<>> => Len(stack[MainThread]) = 1
      BY <1>7 DEF AsExpected, KernelFirst
    <3>1. t = MainThread /\ Len(stack[t]) = 1
      BY <1>1, <3>0
    <3>2. Tail(stack[t]) = <<>>
      <4>1. Tail(stack[t]) \in Seq(Frame) /\ Len(Tail(stack[t])) = 0
        BY <1>1, <1>2, <3>1
      <4> QED
        BY <4>1, EmptySeq
    <3>3. \A u \in Thread : stack'[u] = <<>>
      BY <1>3, <3>0, <3>1, <3>2 DEF IInv, Typed
    <3> QED
      BY <1>5, <3>0, <3>3, ModuleAssumption DEF KernelFirst
  <2> QED
    BY <1>3, <1>5, <1>7, <2>1, <2>2, <2>3, ThreadRight
<1>8. [Next]_vars
  BY DEF Next
<1> QED
  BY <1>6, <1>7, <1>8, ToShow
\* What a module is to be given for what it asks for: by one whose imports are
\* rewritten VxKex's, because it comes through KxBase; by others the system's,
\* unless the flag is set already.
LEMMA TargetAgrees ==
  ASSUME IInv, ~settings.ie, NEW m \in Module, NEW r \in Request, r \in Asks(m),
         Seen(m), Seen(File[Kernel]), Offered(m, r), r.at # "elsewhere",
         NEW found \in BOOLEAN, NEW below, found => below
  PROVE  IF Redirected(m)
         THEN Target(r, Entered(Wrapper(m, r), found)) = File[KexpLookupDllRewriteEntry(r.name)]
         ELSE Special[m] = "kx" \/ ~below =>
                Target(r, Entered(Wrapper(m, r), found)) = File[r.name]
<1> DEFINE w == Wrapper(m, r)
           now == Entered(w, found)
<1>1. r.at \in {"search", "delay"}
  BY DEF Request
<1>2. Range(image[m].names) = Range(Expected(m))
  BY DEF Seen
<1>3. CASE Redirected(m)
  <2>1. Rewrites(r, now)
    <3>1. CASE r.at = "delay"
      BY <3>1 DEF Rewrites, DelayLoaded
    <3>2. CASE r.at = "search"
      <4>1. Special[m] # "kx"
        BY <1>3, KernelAssumption DEF Redirected, KexShouldRewriteImportsOfDll
      <4>2. Kernel \in Range(Imports[m])
        BY <3>2, <4>1, KernelAssumption
      <4>3. KxBase \in Range(image[m].names)
        BY <1>2, <1>3, <4>2, RedirectedNames
      <4>4. w = "ext"
        BY <3>2, <4>1, <4>3 DEF Wrapper
      <4>5. now
        BY <4>4 DEF Entered
      <4>6. Hooked
        BY <1>3, KernelNames DEF Hooked, Seen, Redirected
      <4> QED
        BY <3>2, <4>5, <4>6 DEF Rewrites
    <3> QED
      BY <1>1, <3>1, <3>2
  <2> HIDE DEF now
  <2>2. Target(r, now) = File[KexpLookupDllRewriteEntry(r.name)]
    BY <2>1 DEF Target
  <2> QED
    BY <1>3, <2>2 DEF now
<1>4. CASE ~Redirected(m)
  <2> SUFFICES ASSUME Special[m] = "kx" \/ ~below PROVE Target(r, now) = File[r.name]
    BY <1>4
  <2>1. r.at = "search"
    <3> SUFFICES ASSUME r.at = "delay" PROVE FALSE
      BY <1>1
    <3>1. KxBase \notin Range(Imports[m])
      BY KernelAssumption
    <3>2. KxBase \notin Range(image[m].names)
      BY <1>2, <1>4, <3>1, OtherNames
    <3> QED
      BY <3>2 DEF Offered, DelayLoaded
  <2>2. ~now
    <3>1. CASE Special[m] = "kx"
      <4>1. w = "system"
        BY <2>1, <3>1 DEF Wrapper
      <4> QED
        BY <4>1 DEF Entered
    <3>2. CASE Special[m] # "kx"
      <4>1. KxBase \notin Range(image[m].names)
        BY <1>2, <1>4, <3>2, OtherNames, KernelAssumption
      <4>2. w = "none"
        BY <2>1, <3>2, <4>1 DEF Wrapper
      <4>3. ~found
        BY <3>2
      <4> QED
        BY <4>2, <4>3 DEF Entered
    <3> QED
      BY <3>1, <3>2
  <2> HIDE DEF now
  <2>3. ~Rewrites(r, now)
    BY <2>1, <2>2 DEF Rewrites, DelayLoaded
  <2> QED
    BY <2>3 DEF Target
<1> QED
  BY <1>3, <1>4

LEMMA LoadLibraryRight ==
  ASSUME IInv, RInv, NEW t \in Thread, LoadLibrary(t)
  PROVE  RInv'
<1>1. stack[t] # <<>> /\ stack[t][1].kind = "code" /\ stack[t][1].todo # <<>>
  BY HeadFrame DEF LoadLibrary, In
<1>2. /\ stack[t] \in Seq(Frame) /\ Head(stack[t]) = stack[t][1] /\ stack[t][1] \in CodeFrame
      /\ Nests(stack[t], flag[t]) /\ flag[t] \in BOOLEAN
  BY <1>1, HeadFrame
<1>3. PICK f \in CodeFrame : f = stack[t][1]
  BY <1>2
<1>4. f.kind = "code" /\ f.module \in Module /\ f.todo \in Seq(Request) /\ f.todo # <<>>
  BY <1>1, <1>3 DEF CodeFrame
<1>5. PICK m \in Module : m = f.module
  BY <1>4
<1>6. PICK r \in Request : r = Head(f.todo)
  BY <1>4
<1>7. /\ Tail(f.todo) \in Seq(Request) /\ r \in Range(f.todo)
      /\ Range(Tail(f.todo)) \subseteq Range(f.todo)
  BY <1>4, <1>6, EmptySeq DEF Range
<1>8. PICK g : g = [f EXCEPT !.todo = Tail(f.todo)]
  OBVIOUS
<1>9. g \in Frame /\ g.kind = "code" /\ g.module = m /\ g.todo = Tail(f.todo)
  BY <1>4, <1>5, <1>7, <1>8 DEF CodeFrame, Frame
<1>10. PICK s : s = [stack[t] EXCEPT ![1] = g]
  OBVIOUS
<1>11. s \in Seq(Frame)
  BY <1>1, <1>2, <1>9, <1>10, EmptySeq
<1> DEFINE w == Wrapper(m, r)
           now == Entered(w, flag[t])
           l == Load(m, r, w, flag[t], Target(r, now), Searched(r, now), <<Target(r, now)>>)
<1>12. /\ \/ stack' = [stack EXCEPT ![t] = Push(l, s)] /\ Offered(m, r)
          \/ stack' = [stack EXCEPT ![t] = s]
       /\ UNCHANGED <<settings, boot, path, image, faults>>
  BY <1>2, <1>3, <1>5, <1>6, <1>8, <1>10 DEF LoadLibrary
<1>13. OnlyProgram'
  BY <1>1, <1>12, Begun
<1>14. ASSUME faults' = 0, faults = 0, ~settings.ie, AsExpected
       PROVE  AsExpected'
  <2>1. /\ StackIn(stack[t], Right) /\ FrameRight(f, Below(stack[t], 1))
        /\ Below(stack[t], 1) \in BOOLEAN
    BY <1>1, <1>3, <1>14, TopRight DEF AsExpected
  <2>2. Seen(m) /\ Range(f.todo) \subseteq Asks(m)
    BY <1>4, <1>5, <2>1 DEF FrameRight
  <2>3. FrameRight(g, Below(stack[t], 1))
    BY <1>7, <1>9, <2>2 DEF FrameRight
  <2>4. <<g, Below(stack[t], 1)>> \in Right
    BY <1>9, <2>1, <2>3 DEF Right
  <2>5. IsExt(g) <=> IsExt(stack[t][1])
    BY <1>3, <1>4, <1>9 DEF IsExt
  <2>6. StackIn(s, Right) /\ HasExt(s) = HasExt(stack[t])
    BY <1>1, <1>2, <1>9, <1>10, <2>1, <2>4, <2>5, HeadIn
  <2>7. Seen(File[Kernel])
    BY <1>1, <1>14, KernelReady DEF AsExpected
  <2>8. \A i \in Module : /\ image'[i].names = image[i].names
                          /\ image'[i].bound = image[i].bound
                          /\ image'[i].mapped => image[i].mapped
                          /\ image'[i].ready => image[i].ready \/ Seen(i)
    BY <1>12
  <2>9. CASE stack' = [stack EXCEPT ![t] = s]
    BY <1>11, <1>12, <1>14, <2>6, <2>7, <2>8, <2>9, ThreadRight
  <2>10. CASE stack' = [stack EXCEPT ![t] = Push(l, s)] /\ Offered(m, r)
    <3>1. flag[t] => HasExt(s)
      <4>1. ASSUME NEW i \in DOMAIN stack[t], stack[t][i].kind = "load", stack[t][i].saved
            PROVE  Below(stack[t], i)
        <5>1. <<stack[t][i], Below(stack[t], i)>> \in Right
          BY <2>1 DEF StackIn
        <5>2. FrameRight(stack[t][i], Below(stack[t], i))
          BY <5>1 DEF Right
        <5> QED
          BY <4>1, <5>2 DEF FrameRight
      <4>2. flag[t] => HasExt(stack[t])
        BY <1>2, <4>1, FlagFromExt
      <4> QED
        BY <2>6, <4>2
    <3>2. PICK below \in BOOLEAN : below = HasExt(s)
      BY DEF HasExt
    <3>3. r \in Asks(m)
      BY <1>7, <2>2
    <3>4. PICK h : h = l
      OBVIOUS
    <3>5. /\ h.kind = "load" /\ h.init = <<>> /\ h.saved = flag[t] /\ h.target = Target(r, now)
          /\ h.by = m /\ h.asked = r
      BY <3>4 DEF Load
    <3>6. h \in Frame
      <4>1. w \in {"ext", "system", "none"}
        BY DEF Wrapper
      <4>2. Target(r, now) \in Module /\ Searched(r, now) \in BOOLEAN
        BY TargetType DEF Searched
      <4> HIDE DEF w, now
      <4> QED
        BY <1>2, <3>4, <4>1, <4>2 DEF Load, LoadFrame, Frame
    <3>7. Agrees(h, below)
      <4>1. r.at # "elsewhere" =>
              IF Redirected(m)
              THEN Target(r, now) = File[KexpLookupDllRewriteEntry(r.name)]
              ELSE Special[m] = "kx" \/ ~below => Target(r, now) = File[r.name]
        BY <1>2, <1>14, <2>2, <2>7, <2>10, <3>1, <3>2, <3>3, TargetAgrees
      <4> HIDE DEF now
      <4> QED
        BY <3>5, <4>1 DEF Agrees
    <3>8. FrameRight(h, below)
      <4>1. Range(h.init) = {}
        BY <3>5 DEF Range
      <4> QED
        BY <3>1, <3>2, <3>5, <3>7, <4>1 DEF FrameRight
    <3>9. <<h, HasExt(s)>> \in Right
      BY <3>2, <3>6, <3>8 DEF Right
    <3>10. StackIn(Push(h, s), Right) /\ Push(h, s) \in Seq(Frame)
      BY <1>11, <2>6, <3>6, <3>9, PushIn, PushFacts
    <3>11. stack' = [stack EXCEPT ![t] = Push(h, s)]
      BY <2>10, <3>4
    <3> QED
      BY <1>12, <1>14, <2>7, <2>8, <3>10, <3>11, ThreadRight
  <2> QED
    BY <1>12, <2>9, <2>10
<1>15. [Next]_vars
  BY DEF Next
<1> QED
  BY <1>13, <1>14, <1>15, ToShow

LEMMA RSteps == IInv /\ RInv /\ [Next]_vars => RInv'
<1> SUFFICES ASSUME IInv, RInv, [Next]_vars PROVE RInv'
  OBVIOUS
<1>1. CASE UNCHANGED vars
  <2>1. OnlyProgram'
    BY <1>1 DEF vars, RInv, OnlyProgram
  <2>2. ASSUME AsExpected PROVE AsExpected'
    <3>1. UNCHANGED settings /\ boot'.starts = boot.starts
      BY <1>1 DEF vars
    <3>2. \A m \in Module : /\ image'[m].names = image[m].names
                            /\ image'[m].bound = image[m].bound
                            /\ image'[m].mapped => image[m].mapped
                            /\ image'[m].ready => image[m].ready \/ Seen(m)
      BY <1>1 DEF vars
    <3>3. ImagesRight' /\ (\A m \in Module : Seen(m)' <=> Seen(m))
      BY <2>2, <3>1, <3>2, ImagesStay DEF AsExpected
    <3>4. Right \subseteq Right'
      BY <3>1, <3>3, RightStays
    <3>5. FramesRight'
      BY <1>1, <2>2, <3>4 DEF vars, AsExpected, FramesRight, StackIn
    <3>6. KernelFirst'
      BY <1>1, <2>2, <3>3, KnownModules DEF vars, AsExpected, KernelFirst, KernelAhead
    <3> QED
      BY <3>3, <3>5, <3>6 DEF AsExpected
  <2> QED
    BY <2>1, <2>2, ToShow
<1>2. CASE DllMain \/ LoadProgram
  BY <1>2, DllMainRight, LoadProgramRight
<1>3. ASSUME NEW t \in Thread,
             \/ MapNext(t) \/ InitNext(t) \/ CodeReturns(t)
             \/ LoadLibrary(t) \/ LoadReturns(t) \/ LoadFails(t)
             \/ \E m \in Module : Call(t, m)
      PROVE  RInv'
  BY <1>3, MapNextRight, InitNextRight, CodeReturnsRight, LoadLibraryRight, LoadReturnsRight,
     LoadFailsRight, CallRight
<1> QED
  BY <1>1, <1>2, <1>3 DEF Next

\* The inductive invariant of what is loaded: where nothing has failed every
\* module that is mapped has the names it is to have, kernel32 is mapped before
\* any code runs, and every load under way is of the file that it should be of.
THEOREM RightInvariance == Spec => [](IInv /\ RInv)
<1>1. Init => IInv /\ RInv
  BY InitHolds, RInitHolds
<1>2. (IInv /\ RInv) /\ [Next]_vars => (IInv /\ RInv)'
  BY Steps, RSteps
<1> QED
  BY <1>1, <1>2, PTL DEF Spec

\* However loads and DllMains nest, what a module loads by name is what an import
\* of that name would give it: VxKex's for one whose imports are rewritten, the
\* system's for VxKex's own and, outside of loads that others asked for, for that
\* of Windows; and no import directory that was changed is bound (module.c:37-64,
\* kexldr.c:540-570, dllrewrt.c).
THEOREM LoadsAgreeWithImports == Spec => []LoadsAgree
<1>1. IInv /\ RInv /\ FlagIsReturned => LoadsAgree
  <2> SUFFICES ASSUME IInv, RInv, FlagIsReturned PROVE LoadsAgree
    OBVIOUS
  <2> SUFFICES ASSUME faults = 0, ~settings.ie
               PROVE  /\ \A t \in Thread : \A i \in DOMAIN stack[t] :
                           LET f == stack[t][i]
                           IN f.kind = "load" => Agrees(f, BelowExt(t, i))
                      /\ \A m \in Module :
                           image[m].mapped /\ image[m].names # Imports[m] => ~image[m].bound
    BY DEF LoadsAgree, Agrees
  <2>1. AsExpected
    BY DEF RInv, Faultless
  <2>2. ASSUME NEW t \in Thread, NEW i \in DOMAIN stack[t], stack[t][i].kind = "load"
        PROVE  Agrees(stack[t][i], BelowExt(t, i))
    <3>1. <<stack[t][i], Below(stack[t], i)>> \in Right
      BY <2>1 DEF AsExpected, FramesRight, StackIn
    <3>2. FrameRight(stack[t][i], Below(stack[t], i))
      BY <3>1 DEF Right
    <3>3. BelowExt(t, i) = Below(stack[t], i)
      BY DEF BelowExt, Below, IsExt
    <3> QED
      BY <2>2, <3>2, <3>3 DEF FrameRight
  <2> QED
    BY <2>1, <2>2 DEF AsExpected, ImagesRight
<1> QED
  BY <1>1, RightInvariance, FlagsAreReturned, PTL
-----------------------------------------------------------------------------
(* Induction over sequences *)

\* Numbers has all of them if it has the first and with each the next.
LEMMA Numbers ==
  ASSUME NEW T \in SUBSET Nat, 0 \in T, \A n \in T : n + 1 \in T
  PROVE  T = Nat
<1> DEFINE R == OpToRel(<, Nat)
           M == Nat \ T
<1> SUFFICES ASSUME M # {} PROVE FALSE
  OBVIOUS
<1>1. IsWellFoundedOn(R, Nat)
  BY NatLessThanWellFounded
<1>2. \A x, y \in Nat : x < y => <<x, y>> \in R
  BY DEF OpToRel
<1> HIDE DEF R
<1>3. PICK x \in M : \A y \in M : ~ (<<y, x>> \in R)
  BY <1>1, WFMin
<1>4. \A y \in M : ~(y < x)
  BY <1>2, <1>3
<1>5. x # 0 /\ x \in Nat /\ x \notin T
  BY <1>3
<1>6. x - 1 \in Nat /\ x - 1 < x /\ (x - 1) + 1 = x
  BY <1>5
<1>7. x - 1 \in T
  BY <1>4, <1>6
<1> QED
  BY <1>5, <1>6, <1>7

\* A set of sequences has all of them if it has the empty one and with each the
\* ones that go on.
LEMMA Sequences ==
  ASSUME NEW U, NEW T, <<>> \in T, \A s \in Seq(U), e \in U : s \in T => Append(s, e) \in T
  PROVE  \A s \in Seq(U) : s \in T
<1> DEFINE N == {n \in Nat : \A s \in Seq(U) : Len(s) = n => s \in T}
<1>1. 0 \in N
  BY EmptySeq
<1>2. ASSUME NEW n \in N PROVE n + 1 \in N
  <2> SUFFICES ASSUME NEW s \in Seq(U), Len(s) = n + 1 PROVE s \in T
    OBVIOUS
  <2>1. s # <<>> /\ n \in Nat
    BY EmptySeq
  <2>2. PICK t \in Seq(U), e \in U : s = Append(t, e)
    BY <2>1, SequenceEmptyOrAppend
  <2>3. Len(s) = Len(t) + 1 /\ Len(t) \in Nat
    BY <2>2
  <2>4. Len(t) = n
    BY <2>1, <2>3
  <2> QED
    BY <2>2, <2>4
<1>3. N = Nat
  <2> HIDE DEF N
  <2>1. N \in SUBSET Nat
    BY DEF N
  <2> QED
    BY <1>1, <1>2, <2>1, Numbers
<1> SUFFICES ASSUME NEW s \in Seq(U) PROVE s \in T
  OBVIOUS
<1>4. Len(s) \in N
  BY <1>3
<1> QED
  BY <1>4

\* The function g counts up to n from base.
Counts(g, n, V, base, F) ==
  /\ g \in [0 .. n -> V] /\ g[0] = base
  /\ \A i \in 1 .. n : g[i] = F[<<i, g[i - 1]>>]

\* Step by step a function can be defined.
LEMMA Recursion ==
  ASSUME NEW V, NEW base \in V, NEW n \in Nat, NEW F \in [(1 .. n) \X V -> V]
  PROVE  \E g : Counts(g, n, V, base, F)
<1> DEFINE Up(g, m) == /\ g \in [0 .. n -> V] /\ g[0] = base
                       /\ \A i \in 1 .. m : g[i] = F[<<i, g[i - 1]>>]
           T == {m \in Nat : m <= n => \E g : Up(g, m)}
<1>1. \E g : Up(g, 0)
  <2> DEFINE h == [i \in 0 .. n |-> base]
  <2>1. h \in [0 .. n -> V] /\ h[0] = base
    OBVIOUS
  <2> HIDE DEF h
  <2>2. Up(h, 0)
    BY <2>1
  <2> QED
    BY <2>2
<1>2. ASSUME NEW m \in Nat, m + 1 <= n, NEW g, Up(g, m) PROVE \E h : Up(h, m + 1)
  <2>1. m <= n /\ m + 1 \in 1 .. n /\ m + 1 \in 0 .. n /\ m \in 0 .. n
    BY <1>2
  <2> DEFINE x == F[<<m + 1, g[m]>>]
             h == [g EXCEPT ![m + 1] = x]
  <2>3. x \in V
    <3>1. <<m + 1, g[m]>> \in (1 .. n) \X V
      BY <1>2, <2>1
    <3> QED
      BY <3>1
  <2> HIDE DEF x
  <2>4. /\ h \in [0 .. n -> V] /\ h[m + 1] = x
        /\ \A i \in 0 .. m : h[i] = g[i]
    BY <1>2, <2>1, <2>3
  <2> HIDE DEF h
  <2>5. ASSUME NEW i \in 1 .. m + 1 PROVE h[i] = F[<<i, h[i - 1]>>]
    <3>1. CASE i = m + 1
      <4>1. h[i] = x /\ h[i - 1] = g[m] /\ i - 1 = m
        BY <2>1, <2>4, <3>1
      <4> QED
        BY <3>1, <4>1 DEF x
    <3>2. CASE i # m + 1
      <4>1. i \in 1 .. m /\ i \in 0 .. m /\ i - 1 \in 0 .. m
        BY <2>1, <3>2
      <4>2. h[i] = g[i] /\ h[i - 1] = g[i - 1]
        BY <2>4, <4>1
      <4> QED
        BY <1>2, <4>1, <4>2
    <3> QED
      BY <3>1, <3>2
  <2>6. h[0] = base
    <3>1. 0 \in 0 .. m
      BY <2>1
    <3> QED
      BY <1>2, <2>4, <3>1
  <2>7. Up(h, m + 1)
    BY <2>4, <2>5, <2>6
  <2> QED
    BY <2>7
<1> HIDE DEF Up
<1>3. T = Nat
  <2>1. 0 \in T
    BY <1>1
  <2>2. ASSUME NEW m \in T PROVE m + 1 \in T
    <3>1. m \in Nat
      OBVIOUS
    <3>2. CASE m + 1 <= n
      <4>1. m <= n
        BY <3>1, <3>2
      <4>2. PICK g : Up(g, m)
        BY <4>1
      <4> QED
        BY <1>2, <3>1, <3>2, <4>2
    <3>3. CASE ~(m + 1 <= n)
      BY <3>1, <3>3
    <3> QED
      BY <3>2, <3>3
  <2> HIDE DEF T
  <2>3. T \in SUBSET Nat
    BY DEF T
  <2> QED
    BY <2>1, <2>2, <2>3, Numbers
<1>4. \E g : Up(g, n)
  BY <1>3
<1> QED
  BY <1>4 DEF Counts, Up

\* F and G step alike, and g and h agree, up to n.
Alike(F, G, n, V) == \A i \in 1 .. n, v \in V : F[<<i, v>>] = G[<<i, v>>]

Agree(g, h, n) == \A i \in 0 .. n : g[i] = h[i]

\* Two that count alike agree as far as the shorter goes.
LEMMA CountAlike ==
  ASSUME NEW V, NEW W, NEW base, NEW n \in Nat, NEW m \in Nat, n <= m, NEW F, NEW G,
         NEW g, NEW h, Counts(g, n, V, base, F), Counts(h, m, W, base, G), Alike(F, G, n, V)
  PROVE  Agree(g, h, n)
<1> DEFINE T == {i \in Nat : i <= n => g[i] = h[i]}
<1>1. 0 \in T
  BY DEF Counts
<1>2. ASSUME NEW i \in Nat, i <= n => g[i] = h[i], i + 1 <= n PROVE g[i + 1] = h[i + 1]
  <2>1. i + 1 \in 1 .. n /\ i + 1 \in 1 .. m /\ i \in 0 .. n /\ (i + 1) - 1 = i /\ g[i] = h[i]
    BY <1>2
  <2>2. g[i] \in V
    BY <2>1 DEF Counts
  <2>3. g[i + 1] = F[<<i + 1, g[i]>>]
    BY <2>1 DEF Counts
  <2>4. h[i + 1] = G[<<i + 1, h[i]>>]
    BY <2>1 DEF Counts
  <2> QED
    BY <2>1, <2>2, <2>3, <2>4 DEF Alike
<1>3. T = Nat
  <2>1. ASSUME NEW i \in T PROVE i + 1 \in T
    BY <1>2
  <2> HIDE DEF T
  <2>2. T \in SUBSET Nat
    BY DEF T
  <2> QED
    BY <1>1, <2>1, <2>2, Numbers
<1> QED
  BY <1>3 DEF Agree

\* What steps like F from base has its values in V and counts.
LEMMA Counting ==
  ASSUME NEW V, NEW base \in V, NEW n \in Nat, NEW F \in [(1 .. n) \X V -> V],
         NEW k, k = [i \in 0 .. n |-> k[i]], k[0] = base,
         \A i \in 1 .. n : k[i - 1] \in V => k[i] = F[<<i, k[i - 1]>>]
  PROVE  Counts(k, n, V, base, F)
<1>1. \A i \in 1 .. n, v \in V : F[<<i, v>>] \in V
  OBVIOUS
<1>2. \A i \in 0 .. n : k[i] \in V
  <2> DEFINE T == {i \in Nat : i <= n => k[i] \in V}
  <2>1. 0 \in T
    OBVIOUS
  <2>2. ASSUME NEW i \in T PROVE i + 1 \in T
    <3> SUFFICES ASSUME i + 1 <= n PROVE k[i + 1] \in V
      OBVIOUS
    <3>1. i + 1 \in 1 .. n /\ i \in Nat /\ i <= n /\ (i + 1) - 1 = i
      OBVIOUS
    <3>2. k[i] \in V
      BY <3>1
    <3>3. k[i + 1] = F[<<i + 1, k[i]>>]
      BY <3>1, <3>2
    <3> QED
      BY <1>1, <3>1, <3>2, <3>3
  <2>3. T = Nat
    <3> HIDE DEF T
    <3>1. T \in SUBSET Nat
      BY DEF T
    <3> QED
      BY <2>1, <2>2, <3>1, Numbers
  <2> QED
    BY <2>3
<1>3. \A i \in 1 .. n : i - 1 \in 0 .. n
  OBVIOUS
<1>4. k \in [0 .. n -> V]
  BY <1>2
<1> QED
  BY <1>2, <1>3, <1>4 DEF Counts

-----------------------------------------------------------------------------
(* The recursive functions, step by step *)

Keeps(p, keep, U) ==
  [x \in (1 .. Len(p)) \X Seq(U) |->
     IF x[1] \in keep THEN Append(x[2], p[x[1]]) ELSE x[2]]

LEMMA KeptCounts ==
  ASSUME NEW U, NEW p \in Seq(U), NEW keep
  PROVE  \E g : /\ Counts(g, Len(p), Seq(U), <<>>, Keeps(p, keep, U))
                /\ Kept(p, keep) = g[Len(p)]
<1> DEFINE n == Len(p)
           F == Keeps(p, keep, U)
           V == Seq(U)
           Eq(g) == g = [i \in 0 .. n |->
                           IF i = 0 THEN <<>>
                           ELSE IF i \in keep THEN Append(g[i - 1], p[i]) ELSE g[i - 1]]
           k == CHOOSE g : Eq(g)
<1>1. n \in Nat /\ <<>> \in V /\ \A i \in 1 .. n : p[i] \in U
  OBVIOUS
<1>2. \A i \in 1 .. n, v \in V :
        /\ F[<<i, v>>] = IF i \in keep THEN Append(v, p[i]) ELSE v
        /\ F[<<i, v>>] \in V
  BY DEF Keeps
<1>3. F \in [(1 .. n) \X V -> V]
  <2>1. \A x \in (1 .. n) \X V : (IF x[1] \in keep THEN Append(x[2], p[x[1]]) ELSE x[2]) \in V
    OBVIOUS
  <2> QED
    BY <2>1 DEF Keeps
<1>4. Kept(p, keep) = k[n]
  BY DEF Kept
<1> HIDE DEF n, F, V
<1>5. PICK h : Counts(h, n, V, <<>>, F)
  BY <1>1, <1>3, Recursion
<1>6. Eq(h)
  <2>1. \A i \in 0 .. n : h[i] = IF i = 0 THEN <<>>
                                 ELSE IF i \in keep THEN Append(h[i - 1], p[i]) ELSE h[i - 1]
    <3> SUFFICES ASSUME NEW i \in 0 .. n, i # 0
                 PROVE  h[i] = IF i \in keep THEN Append(h[i - 1], p[i]) ELSE h[i - 1]
      BY <1>5 DEF Counts
    <3>1. i \in 1 .. n /\ i - 1 \in 0 .. n
      BY <1>1
    <3>2. h[i] = F[<<i, h[i - 1]>>] /\ h[i - 1] \in V
      BY <1>5, <3>1 DEF Counts
    <3> QED
      BY <1>2, <3>1, <3>2
  <2>2. h \in [0 .. n -> V]
    BY <1>5 DEF Counts
  <2> QED
    BY <2>1, <2>2
<1> HIDE DEF Eq
<1>7. Eq(k)
  BY <1>6
<1> HIDE DEF k
<1>8. /\ k[0] = <<>> /\ DOMAIN k = 0 .. n /\ k = [i \in 0 .. n |-> k[i]]
      /\ \A i \in 1 .. n : k[i] = IF i \in keep THEN Append(k[i - 1], p[i]) ELSE k[i - 1]
  <2>1. k = [i \in 0 .. n |-> IF i = 0 THEN <<>>
                              ELSE IF i \in keep THEN Append(k[i - 1], p[i]) ELSE k[i - 1]]
    BY <1>7 DEF Eq
  <2>2. 0 \in 0 .. n /\ \A i \in 1 .. n : i \in 0 .. n /\ i # 0
    BY <1>1
  <2>3. k[0] = <<>>
    BY <2>1, <2>2
  <2>4. \A i \in 1 .. n : k[i] = IF i \in keep THEN Append(k[i - 1], p[i]) ELSE k[i - 1]
    BY <2>1, <2>2
  <2>5. DOMAIN k = 0 .. n /\ k = [i \in 0 .. n |-> k[i]]
    BY <2>1
  <2> QED
    BY <2>3, <2>4, <2>5
<1>9. Counts(k, n, V, <<>>, F)
  <2>1. \A i \in 1 .. n : k[i - 1] \in V => k[i] = F[<<i, k[i - 1]>>]
    BY <1>2, <1>8
  <2> QED
    BY <1>1, <1>3, <1>8, <2>1, Counting
<1> QED
  BY <1>4, <1>9 DEF n, F, V

Adds(p) == [x \in (1 .. Len(p)) \X Nat |-> x[2] + (Cch[p[x[1]]] + 1)]

LEMMA CchCounts ==
  ASSUME NEW p \in Seq(Entry)
  PROVE  \E g : Counts(g, Len(p), Nat, 0, Adds(p)) /\ PathCch(p) = g[Len(p)] - 1
<1> DEFINE n == Len(p)
           F == Adds(p)
           Eq(g) == g = [i \in 0 .. n |-> IF i = 0 THEN 0 ELSE g[i - 1] + (Cch[p[i]] + 1)]
           k == CHOOSE g : Eq(g)
<1>1. n \in Nat /\ \A i \in 1 .. n : Cch[p[i]] \in Nat
  BY PathAssumption
<1>2. \A i \in 1 .. n, v \in Nat : F[<<i, v>>] = v + (Cch[p[i]] + 1)
  BY DEF Adds
<1>3. F \in [(1 .. n) \X Nat -> Nat]
  <2>1. \A x \in (1 .. n) \X Nat : x[2] + (Cch[p[x[1]]] + 1) \in Nat
    BY <1>1
  <2> QED
    BY <2>1 DEF Adds
<1>4. PathCch(p) = k[n] - 1
  BY DEF PathCch
<1> HIDE DEF n, F
<1>5. PICK h : Counts(h, n, Nat, 0, F)
  BY <1>1, <1>3, Recursion
<1>6. Eq(h)
  <2>1. \A i \in 0 .. n : h[i] = IF i = 0 THEN 0 ELSE h[i - 1] + (Cch[p[i]] + 1)
    <3> SUFFICES ASSUME NEW i \in 0 .. n, i # 0 PROVE h[i] = h[i - 1] + (Cch[p[i]] + 1)
      BY <1>5 DEF Counts
    <3>1. i \in 1 .. n /\ i - 1 \in 0 .. n
      BY <1>1
    <3>2. h[i] = F[<<i, h[i - 1]>>] /\ h[i - 1] \in Nat
      BY <1>5, <3>1 DEF Counts
    <3> QED
      BY <1>2, <3>1, <3>2
  <2>2. h \in [0 .. n -> Nat]
    BY <1>5 DEF Counts
  <2> QED
    BY <2>1, <2>2
<1> HIDE DEF Eq
<1>7. Eq(k)
  BY <1>6
<1> HIDE DEF k
<1>8. /\ k[0] = 0 /\ k = [i \in 0 .. n |-> k[i]]
      /\ \A i \in 1 .. n : k[i] = k[i - 1] + (Cch[p[i]] + 1)
  <2>1. k = [i \in 0 .. n |-> IF i = 0 THEN 0 ELSE k[i - 1] + (Cch[p[i]] + 1)]
    BY <1>7 DEF Eq
  <2>2. 0 \in 0 .. n /\ \A i \in 1 .. n : i \in 0 .. n /\ i # 0
    BY <1>1
  <2>3. k[0] = 0
    BY <2>1, <2>2
  <2>4. \A i \in 1 .. n : k[i] = k[i - 1] + (Cch[p[i]] + 1)
    BY <2>1, <2>2
  <2>5. k = [i \in 0 .. n |-> k[i]]
    BY <2>1
  <2> QED
    BY <2>3, <2>4, <2>5
<1>9. Counts(k, n, Nat, 0, F)
  <2>1. \A i \in 1 .. n : k[i - 1] \in Nat => k[i] = F[<<i, k[i - 1]>>]
    BY <1>2, <1>8
  <2>2. 0 \in Nat
    OBVIOUS
  <2> DEFINE z == 0
  <2>3. z \in Nat /\ k[z] = z /\ z = 0
    BY <1>8
  <2> HIDE DEF z
  <2> QED
    BY <1>1, <1>3, <1>8, <2>1, <2>3, Counting
<1> QED
  BY <1>4, <1>9 DEF n, F

-----------------------------------------------------------------------------
(* The length and the kept entries of a path that goes on *)

LEMMA KeptTyped ==
  ASSUME NEW U, NEW p \in Seq(U), NEW keep
  PROVE  Kept(p, keep) \in Seq(U)
<1>1. PICK g : Counts(g, Len(p), Seq(U), <<>>, Keeps(p, keep, U)) /\ Kept(p, keep) = g[Len(p)]
  BY KeptCounts
<1>2. Len(p) \in 0 .. Len(p)
  OBVIOUS
<1> QED
  BY <1>1, <1>2 DEF Counts

LEMMA KeptNothing ==
  ASSUME NEW keep
  PROVE  Kept(<<>>, keep) = <<>>
<1> DEFINE U == {}
           p == <<>>
<1>1. p \in Seq(U) /\ Len(p) = 0
  OBVIOUS
<1>2. Kept(p, keep) \in Seq(U)
  <2> HIDE DEF p, U
  <2> QED
    BY <1>1, KeptTyped
<1> QED
  BY <1>2

LEMMA KeptAppend ==
  ASSUME NEW U, NEW s \in Seq(U), NEW e \in U, NEW keep, NEW more,
         \A i \in 1 .. Len(s) : i \in keep <=> i \in more
  PROVE  Kept(Append(s, e), more) =
           IF Len(s) + 1 \in more THEN Append(Kept(s, keep), e) ELSE Kept(s, keep)
<1> DEFINE a == Append(s, e)
           n == Len(s)
           m == Len(a)
           V == Seq(U)
           F == Keeps(s, keep, U)
           G == Keeps(a, more, U)
<1>1. /\ a \in V /\ n \in Nat /\ m = n + 1 /\ a[n + 1] = e
      /\ \A i \in 1 .. n : a[i] = s[i]
  OBVIOUS
<1>2. \A i \in 1 .. n, v \in V : F[<<i, v>>] = IF i \in keep THEN Append(v, s[i]) ELSE v
  BY DEF Keeps
<1>3. \A i \in 1 .. m, v \in V : G[<<i, v>>] = IF i \in more THEN Append(v, a[i]) ELSE v
  BY DEF Keeps
<1>4. PICK g : Counts(g, n, V, <<>>, F) /\ Kept(s, keep) = g[n]
  BY KeptCounts
<1>5. PICK h : Counts(h, m, V, <<>>, G) /\ Kept(a, more) = h[m]
  BY <1>1, KeptCounts
<1>6. \A i \in 1 .. n : i \in keep <=> i \in more
  OBVIOUS
<1> HIDE DEF a, n, m, V, F, G
<1>7. \A i \in 1 .. n, v \in V : F[<<i, v>>] = G[<<i, v>>]
  <2> TAKE i \in 1 .. n, v \in V
  <2>1. i \in 1 .. m
    BY <1>1
  <2>2. F[<<i, v>>] = IF i \in keep THEN Append(v, s[i]) ELSE v
    BY <1>2
  <2>3. G[<<i, v>>] = IF i \in more THEN Append(v, a[i]) ELSE v
    BY <1>3, <2>1
  <2> QED
    BY <1>1, <1>6, <2>2, <2>3
<1>8. \A i \in 0 .. n : g[i] = h[i]
  <2> DEFINE base == <<>>
  <2>1. n \in Nat /\ m \in Nat /\ n <= m
    BY <1>1
  <2>2. Counts(g, n, V, base, F) /\ Counts(h, m, V, base, G)
    BY <1>4, <1>5
  <2>3. Alike(F, G, n, V)
    BY <1>7 DEF Alike
  <2> HIDE DEF base
  <2>4. Agree(g, h, n)
    BY <2>1, <2>2, <2>3, CountAlike
  <2> QED
    BY <2>4 DEF Agree
<1>9. n \in 0 .. n /\ n \in 0 .. m /\ m \in 1 .. m /\ m - 1 = n
  BY <1>1
<1>10. h[m] = G[<<m, h[n]>>] /\ h[n] \in V /\ h[n] = g[n]
  BY <1>5, <1>8, <1>9 DEF Counts
<1>11. Kept(a, more) = IF n + 1 \in more THEN Append(Kept(s, keep), e) ELSE Kept(s, keep)
  BY <1>1, <1>3, <1>4, <1>5, <1>9, <1>10
<1> QED
  BY <1>11 DEF a, n

LEMMA CchNothing == PathCch(<<>>) + 1 = 0
<1> DEFINE p == <<>>
           n == Len(p)
<1>1. p \in Seq(Entry) /\ n = 0
  OBVIOUS
<1> HIDE DEF p
<1>2. PICK g : Counts(g, n, Nat, 0, Adds(p)) /\ PathCch(p) = g[n] - 1
  BY <1>1, CchCounts
<1> HIDE DEF n
<1>3. g[n] = 0
  BY <1>1, <1>2 DEF Counts
<1>4. PathCch(p) + 1 = 0
  BY <1>2, <1>3
<1> QED
  BY <1>4 DEF p

\* A path is as long as its entries and the semicolons between them.
LEMMA CchAppend ==
  ASSUME NEW s \in Seq(Entry), NEW e \in Entry
  PROVE  /\ PathCch(s) \in Int /\ PathCch(s) + 1 \in Nat /\ Cch[e] \in Nat
         /\ PathCch(Append(s, e)) = PathCch(s) + (Cch[e] + 1)
<1> DEFINE a == Append(s, e)
           n == Len(s)
           m == Len(a)
           F == Adds(s)
           G == Adds(a)
<1>1. /\ a \in Seq(Entry) /\ n \in Nat /\ m \in Nat /\ m = n + 1 /\ a[m] = e
      /\ \A i \in 1 .. n : a[i] = s[i]
  OBVIOUS
<1>2. \A i \in 1 .. n, v \in Nat : F[<<i, v>>] = v + (Cch[s[i]] + 1)
  BY DEF Adds
<1>3. \A i \in 1 .. m, v \in Nat : G[<<i, v>>] = v + (Cch[a[i]] + 1)
  BY DEF Adds
<1>4. PICK g : Counts(g, n, Nat, 0, F) /\ PathCch(s) = g[n] - 1
  BY CchCounts
<1>5. PICK h : Counts(h, m, Nat, 0, G) /\ PathCch(a) = h[m] - 1
  BY <1>1, CchCounts
<1> HIDE DEF a, n, m, F, G
<1>6. \A i \in 1 .. n, v \in Nat : F[<<i, v>>] = G[<<i, v>>]
  <2> TAKE i \in 1 .. n, v \in Nat
  <2>1. i \in 1 .. m
    BY <1>1
  <2>2. F[<<i, v>>] = v + (Cch[s[i]] + 1)
    BY <1>2
  <2>3. G[<<i, v>>] = v + (Cch[a[i]] + 1)
    BY <1>3, <2>1
  <2>4. a[i] = s[i]
    BY <1>1
  <2> QED
    BY <2>2, <2>3, <2>4
<1>7. n <= m
  BY <1>1
<1>8. \A i \in 0 .. n : g[i] = h[i]
  <2> DEFINE base == 0
             V == Nat
  <2>1. Counts(g, n, V, base, F) /\ Counts(h, m, V, base, G)
    BY <1>4, <1>5
  <2>2. Alike(F, G, n, V)
    BY <1>6 DEF Alike
  <2>3. n \in Nat /\ m \in Nat /\ n <= m
    BY <1>1, <1>7
  <2> HIDE DEF base, V
  <2>4. Agree(g, h, n)
    BY <2>1, <2>2, <2>3, CountAlike
  <2> QED
    BY <2>4 DEF Agree
<1>9. n \in 0 .. n /\ n \in 0 .. m /\ m \in 1 .. m /\ m - 1 = n
  BY <1>1
<1>10. h[m] = G[<<m, h[n]>>] /\ h[n] \in Nat /\ h[n] = g[n]
  BY <1>5, <1>8, <1>9 DEF Counts
<1>11. h[m] = g[n] + (Cch[e] + 1) /\ Cch[e] \in Nat /\ g[n] \in Nat
  <2>1. G[<<m, h[n]>>] = h[n] + (Cch[a[m]] + 1)
    BY <1>3, <1>9, <1>10
  <2>2. Cch[e] \in Nat
    BY PathAssumption
  <2> QED
    BY <1>1, <1>10, <2>1, <2>2
<1>12. /\ PathCch(s) \in Int /\ PathCch(s) + 1 \in Nat
       /\ PathCch(a) = PathCch(s) + (Cch[e] + 1)
  BY <1>4, <1>5, <1>11
<1> QED
  BY <1>11, <1>12 DEF a

LEMMA CchTyped ==
  ASSUME NEW p \in Seq(Entry)
  PROVE  PathCch(p) \in Int /\ PathCch(p) + 1 \in Nat
BY CchAppend, PathAssumption

LEMMA CchConcat ==
  ASSUME NEW a \in Seq(Entry), NEW s \in Seq(Entry)
  PROVE  PathCch(a \o s) = PathCch(a) + (PathCch(s) + 1)
<1> DEFINE T == {t \in Seq(Entry) : PathCch(a \o t) = PathCch(a) + (PathCch(t) + 1)}
<1>1. <<>> \in T
  <2> DEFINE p == <<>>
  <2>1. p \in Seq(Entry) /\ a \o p = a /\ PathCch(p) + 1 = 0
    BY ConcatEmptySeq, CchNothing
  <2>2. PathCch(a) \in Int
    BY CchTyped
  <2> HIDE DEF p
  <2>3. PathCch(a \o p) = PathCch(a) + (PathCch(p) + 1)
    BY <2>1, <2>2
  <2> QED
    BY <2>1, <2>3 DEF p
<1>2. ASSUME NEW t \in Seq(Entry), NEW e \in Entry, t \in T PROVE Append(t, e) \in T
  <2>1. a \o Append(t, e) = Append(a \o t, e) /\ a \o t \in Seq(Entry) /\ Append(t, e) \in Seq(Entry)
    OBVIOUS
  <2>2. PathCch(a \o t) = PathCch(a) + (PathCch(t) + 1)
    BY <1>2
  <2>3. /\ PathCch(Append(t, e)) = PathCch(t) + (Cch[e] + 1) /\ PathCch(t) \in Int
        /\ PathCch(Append(a \o t, e)) = PathCch(a \o t) + (Cch[e] + 1) /\ Cch[e] \in Nat
    BY <2>1, CchAppend
  <2>4. PathCch(a) \in Int
    BY CchTyped
  <2>5. PathCch(a \o Append(t, e)) = PathCch(a) + (PathCch(Append(t, e)) + 1)
    BY <2>1, <2>2, <2>3, <2>4
  <2> QED
    BY <2>1, <2>5
<1>3. \A t \in Seq(Entry) : t \in T
  <2> HIDE DEF T
  <2> QED
    BY <1>1, <1>2, Sequences
<1> QED
  BY <1>3

-----------------------------------------------------------------------------
(* Removing duplicates changes no order *)

Has(s, e) == \E j \in 1 .. Len(s) : s[j] = e

\* p without what is in gone and the second and later of what is in once.
Dropped(p, gone, once) ==
  Kept(p, {i \in DOMAIN p : p[i] \notin gone /\ ~(p[i] \in once /\ Repeats(p, i))})

LEMMA AppendIs ==
  ASSUME NEW U, NEW s \in Seq(U), NEW e \in U
  PROVE  /\ Append(s, e) \in Seq(U) /\ Len(s) \in Nat /\ Len(Append(s, e)) = Len(s) + 1
         /\ Append(s, e)[Len(s) + 1] = e
         /\ \A i \in 1 .. Len(s) : Append(s, e)[i] = s[i] /\ s[i] \in U
         /\ DOMAIN Append(s, e) = 1 .. Len(s) + 1 /\ DOMAIN s = 1 .. Len(s)
OBVIOUS

LEMMA HasAppend ==
  ASSUME NEW U, NEW s \in Seq(U), NEW e \in U, NEW d
  PROVE  Has(Append(s, e), d) <=> Has(s, d) \/ d = e
<1> DEFINE a == Append(s, e)
           n == Len(s)
<1>1. /\ n \in Nat /\ Len(a) = n + 1 /\ a[n + 1] = e
      /\ \A i \in 1 .. n : a[i] = s[i]
  BY AppendIs
<1> HIDE DEF a, n
<1>2. ASSUME NEW j \in 1 .. n + 1, a[j] = d PROVE (\E i \in 1 .. n : s[i] = d) \/ d = e
  <2>1. j = n + 1 \/ j \in 1 .. n
    BY <1>1
  <2> QED
    BY <1>1, <1>2, <2>1
<1>3. \A i \in 1 .. n : i \in 1 .. n + 1
  BY <1>1
<1>4. n + 1 \in 1 .. n + 1
  BY <1>1
<1>5. (\E j \in 1 .. n + 1 : a[j] = d) <=> (\E i \in 1 .. n : s[i] = d) \/ d = e
  BY <1>1, <1>2, <1>3, <1>4
<1> QED
  BY <1>1, <1>5 DEF Has, a, n

LEMMA HasConcat ==
  ASSUME NEW U, NEW a \in Seq(U), NEW s \in Seq(U), NEW d
  PROVE  Has(a \o s, d) <=> Has(a, d) \/ Has(s, d)
<1> DEFINE T == {t \in Seq(U) : Has(a \o t, d) <=> Has(a, d) \/ Has(t, d)}
<1>1. <<>> \in T
  <2> DEFINE p == <<>>
  <2>1. p \in Seq(U) /\ a \o p = a /\ Len(p) = 0
    BY ConcatEmptySeq
  <2> HIDE DEF p
  <2>2. ~Has(p, d)
    BY <2>1 DEF Has
  <2>3. p \in T
    BY <2>1, <2>2
  <2> QED
    BY <2>3 DEF p
<1>2. ASSUME NEW t \in Seq(U), NEW e \in U, t \in T PROVE Append(t, e) \in T
  <2>1. a \o Append(t, e) = Append(a \o t, e) /\ a \o t \in Seq(U) /\ Append(t, e) \in Seq(U)
    OBVIOUS
  <2>2. Has(Append(t, e), d) <=> Has(t, d) \/ d = e
    BY HasAppend
  <2>3. Has(Append(a \o t, e), d) <=> Has(a \o t, d) \/ d = e
    <3> DEFINE x == a \o t
    <3>1. x \in Seq(U)
      BY <2>1
    <3> HIDE DEF x, T
    <3>2. Has(Append(x, e), d) <=> Has(x, d) \/ d = e
      BY <3>1, HasAppend
    <3> QED
      BY <3>2 DEF x
  <2>4. Has(a \o t, d) <=> Has(a, d) \/ Has(t, d)
    BY <1>2
  <2>5. Has(Append(a \o t, e), d) <=> Has(a, d) \/ Has(Append(t, e), d)
    BY <2>2, <2>3, <2>4, Zenon
  <2> HIDE DEF T
  <2> QED
    BY <2>1, <2>5 DEF T
<1>3. \A t \in Seq(U) : t \in T
  <2> HIDE DEF T
  <2> QED
    BY <1>1, <1>2, Sequences
<1> QED
  BY <1>3

LEMMA DroppedAppend ==
  ASSUME NEW U, NEW s \in Seq(U), NEW e \in U, NEW gone, NEW once
  PROVE  Dropped(Append(s, e), gone, once) =
           IF e \in gone \/ (e \in once /\ Has(s, e)) THEN Dropped(s, gone, once)
           ELSE Append(Dropped(s, gone, once), e)
<1> DEFINE a == Append(s, e)
           n == Len(s)
           keep == {i \in DOMAIN s : s[i] \notin gone /\ ~(s[i] \in once /\ Repeats(s, i))}
           more == {i \in DOMAIN a : a[i] \notin gone /\ ~(a[i] \in once /\ Repeats(a, i))}
<1>1. /\ n \in Nat /\ a[n + 1] = e /\ DOMAIN a = 1 .. n + 1 /\ DOMAIN s = 1 .. n
      /\ \A i \in 1 .. n : a[i] = s[i]
  BY AppendIs
<1>2. Dropped(a, gone, once) = Kept(a, more) /\ Dropped(s, gone, once) = Kept(s, keep)
  BY DEF Dropped
<1>3. Has(s, e) <=> \E j \in 1 .. n : s[j] = e
  BY DEF Has
<1>4. \A i \in 1 .. n : Repeats(a, i) <=> Repeats(s, i)
  <2> HIDE DEF a, n
  <2> TAKE i \in 1 .. n
  <2>1. \A j \in 1 .. i - 1 : j \in 1 .. n
    BY <1>1
  <2> QED
    BY <1>1, <2>1 DEF Repeats
<1>5. Repeats(a, n + 1) <=> Has(s, e)
  <2> HIDE DEF a, n
  <2>1. (n + 1) - 1 = n
    BY <1>1
  <2> QED
    BY <1>1, <1>3, <2>1 DEF Repeats
<1>6. \A i \in 1 .. n : i \in keep <=> i \in more
  <2> HIDE DEF a, n
  <2>1. \A i \in 1 .. n : i \in 1 .. n + 1
    BY <1>1
  <2> QED
    BY <1>1, <1>4, <2>1
<1>7. n + 1 \in more <=> ~(e \in gone \/ (e \in once /\ Has(s, e)))
  <2> HIDE DEF a, n
  <2>1. n + 1 \in 1 .. n + 1
    BY <1>1
  <2> QED
    BY <1>1, <1>5, <2>1
<1> HIDE DEF keep, more
<1>8. Kept(a, more) = IF n + 1 \in more THEN Append(Kept(s, keep), e) ELSE Kept(s, keep)
  BY <1>6, KeptAppend
<1> QED
  BY <1>2, <1>7, <1>8

LEMMA DroppedTyped ==
  ASSUME NEW U, NEW s \in Seq(U), NEW gone, NEW once
  PROVE  Dropped(s, gone, once) \in Seq(U)
BY KeptTyped DEF Dropped

LEMMA KeptAll ==
  ASSUME NEW U, NEW s \in Seq(U), NEW keep, \A i \in 1 .. Len(s) : i \in keep
  PROVE  Kept(s, keep) = s
<1> DEFINE T == {t \in Seq(U) : \A k : (\A i \in 1 .. Len(t) : i \in k) => Kept(t, k) = t}
<1>1. <<>> \in T
  <2>1. <<>> \in Seq(U)
    OBVIOUS
  <2> QED
    BY <2>1, KeptNothing
<1>2. ASSUME NEW t \in Seq(U), NEW e \in U, t \in T PROVE Append(t, e) \in T
  <2>1. Append(t, e) \in Seq(U) /\ Len(t) \in Nat /\ Len(Append(t, e)) = Len(t) + 1
    BY AppendIs
  <2>2. ASSUME NEW k, \A i \in 1 .. Len(t) + 1 : i \in k PROVE Kept(Append(t, e), k) = Append(t, e)
    <3>1. (\A i \in 1 .. Len(t) : i \in k) /\ Len(t) + 1 \in k
      BY <2>1, <2>2
    <3>2. Kept(t, k) = t
      BY <1>2, <3>1
    <3>3. Kept(Append(t, e), k) = IF Len(t) + 1 \in k THEN Append(Kept(t, k), e) ELSE Kept(t, k)
      <4>1. \A i \in 1 .. Len(t) : i \in k <=> i \in k
        OBVIOUS
      <4> QED
        BY <4>1, KeptAppend
    <3> QED
      BY <3>1, <3>2, <3>3
  <2> QED
    BY <2>1, <2>2
<1>3. \A t \in Seq(U) : t \in T
  <2> HIDE DEF T
  <2> QED
    BY <1>1, <1>2, Sequences
<1> QED
  BY <1>3

LEMMA RemovalAppend ==
  ASSUME NEW U, NEW s \in Seq(U), NEW e \in U, NEW i \in 1 .. Len(s)
  PROVE  RemoveDuplicates(Append(s, e), i) =
           IF e # s[i] THEN Append(RemoveDuplicates(s, i), e) ELSE RemoveDuplicates(s, i)
<1> DEFINE a == Append(s, e)
           n == Len(s)
           keep == {j \in DOMAIN s : j <= i \/ s[j] # s[i]}
           more == {j \in DOMAIN a : j <= i \/ a[j] # a[i]}
<1>1. /\ n \in Nat /\ a[n + 1] = e /\ DOMAIN a = 1 .. n + 1 /\ DOMAIN s = 1 .. n
      /\ \A j \in 1 .. n : a[j] = s[j]
  BY AppendIs
<1>2. RemoveDuplicates(a, i) = Kept(a, more) /\ RemoveDuplicates(s, i) = Kept(s, keep)
  BY DEF RemoveDuplicates
<1>3. i \in 1 .. n
  OBVIOUS
<1>4. (\A j \in 1 .. n : j \in keep <=> j \in more) /\ (n + 1 \in more <=> e # s[i])
  <2> HIDE DEF a, n
  <2>1. /\ \A j \in 1 .. n : j \in 1 .. n + 1
        /\ n + 1 \in 1 .. n + 1 /\ ~(n + 1 <= i)
    BY <1>1, <1>3
  <2> QED
    BY <1>1, <1>3, <2>1
<1> HIDE DEF keep, more
<1>5. Kept(a, more) = IF n + 1 \in more THEN Append(Kept(s, keep), e) ELSE Kept(s, keep)
  BY <1>4, KeptAppend
<1> QED
  BY <1>2, <1>4, <1>5

LEMMA RemovalLast ==
  ASSUME NEW U, NEW a \in Seq(U), NEW i, i = Len(a)
  PROVE  RemoveDuplicates(a, i) = a
<1> DEFINE k == {j \in DOMAIN a : j <= i \/ a[j] # a[i]}
<1>1. \A j \in 1 .. Len(a) : j \in k
  OBVIOUS
<1> HIDE DEF k
<1>2. Kept(a, k) = a
  BY <1>1, KeptAll
<1> QED
  BY <1>2 DEF RemoveDuplicates, k

\* r is s up to i and after it only what s has there and is not s[i].
Thinned(r, s, i) ==
  /\ i <= Len(r) /\ Len(r) <= Len(s)
  /\ \A j \in 1 .. i : r[j] = s[j]
  /\ \A j \in i + 1 .. Len(r) : r[j] # s[i] /\ \E k \in i + 1 .. Len(s) : s[k] = r[j]

LEMMA ThinnedAppend ==
  ASSUME NEW U, NEW s \in Seq(U), NEW r \in Seq(U), NEW e \in U, NEW i \in 1 .. Len(s),
         Thinned(r, s, i)
  PROVE  /\ Thinned(r, Append(s, e), i)
         /\ e # s[i] => Thinned(Append(r, e), Append(s, e), i)
<1> DEFINE a == Append(s, e)
           b == Append(r, e)
           n == Len(s)
           m == Len(r)
<1>1. /\ n \in Nat /\ Len(a) = n + 1 /\ a[n + 1] = e
      /\ \A j \in 1 .. n : a[j] = s[j]
      /\ m \in Nat /\ Len(b) = m + 1 /\ b[m + 1] = e
      /\ \A j \in 1 .. m : b[j] = r[j]
  BY AppendIs
<1>2. /\ i \in 1 .. n /\ i <= m /\ m <= n
      /\ \A j \in 1 .. i : r[j] = s[j]
      /\ \A j \in i + 1 .. m : r[j] # s[i] /\ \E k \in i + 1 .. n : s[k] = r[j]
  BY DEF Thinned
<1> HIDE DEF a, b, n, m
<1>3. /\ i <= n + 1 /\ m <= n + 1 /\ i <= m + 1 /\ m + 1 <= n + 1 /\ n + 1 \in i + 1 .. n + 1
      /\ i \in 1 .. n /\ \A j \in 1 .. i : j \in 1 .. n /\ j \in 1 .. m
  BY <1>1, <1>2
<1>4. \A j \in i + 1 .. n : j \in 1 .. n /\ j \in i + 1 .. n + 1
  BY <1>1, <1>2
<1>5. \A j \in 1 .. i : r[j] = a[j] /\ b[j] = a[j]
  BY <1>1, <1>2, <1>3
<1>6. a[i] = s[i]
  BY <1>1, <1>2
<1>7. \A j \in i + 1 .. m : r[j] # a[i] /\ \E k \in i + 1 .. n + 1 : a[k] = r[j]
  BY <1>1, <1>2, <1>4, <1>6
<1>8. Thinned(r, a, i)
  BY <1>1, <1>2, <1>3, <1>5, <1>7 DEF Thinned, m
<1>9. ASSUME e # s[i] PROVE Thinned(b, a, i)
  <2>1. ASSUME NEW j \in i + 1 .. m + 1
        PROVE  b[j] # a[i] /\ \E k \in i + 1 .. n + 1 : a[k] = b[j]
    <3>1. CASE j = m + 1
      BY <1>1, <1>3, <1>6, <1>9, <3>1
    <3>2. CASE j # m + 1
      <4>1. j \in i + 1 .. m /\ j \in 1 .. m
        BY <1>1, <1>2, <3>2
      <4>2. b[j] = r[j]
        BY <1>1, <4>1
      <4> QED
        BY <1>7, <4>1, <4>2
    <3> QED
      BY <3>1, <3>2
  <2> QED
    BY <1>1, <1>3, <1>5, <2>1 DEF Thinned
<1> QED
  BY <1>8, <1>9 DEF a, b

LEMMA RemovalThins ==
  ASSUME NEW U, NEW s \in Seq(U), NEW i \in 1 .. Len(s)
  PROVE  RemoveDuplicates(s, i) \in Seq(U) /\ Thinned(RemoveDuplicates(s, i), s, i)
<1> DEFINE T == {t \in Seq(U) : \A j \in 1 .. Len(t) : Thinned(RemoveDuplicates(t, j), t, j)}
<1>1. <<>> \in T
  <2> DEFINE p == <<>>
  <2>1. p \in Seq(U) /\ Len(p) = 0
    OBVIOUS
  <2> HIDE DEF p
  <2>2. p \in T
    BY <2>1
  <2> QED
    BY <2>2 DEF p
<1>2. ASSUME NEW t \in Seq(U), NEW e \in U, t \in T PROVE Append(t, e) \in T
  <2>1. Append(t, e) \in Seq(U) /\ Len(t) \in Nat /\ Len(Append(t, e)) = Len(t) + 1
    BY AppendIs
  <2>2. ASSUME NEW j \in 1 .. Len(t) + 1
        PROVE  Thinned(RemoveDuplicates(Append(t, e), j), Append(t, e), j)
    <3>1. CASE j = Len(t) + 1
      <4>1. RemoveDuplicates(Append(t, e), j) = Append(t, e)
        BY <2>1, <3>1, RemovalLast
      <4> DEFINE a == Append(t, e)
                 n == Len(t)
      <4>2. Len(a) = j /\ j \in Nat
        BY <2>1, <3>1
      <4> HIDE DEF a
      <4>3. Thinned(a, a, j)
        BY <4>2 DEF Thinned
      <4> QED
        BY <4>1, <4>3 DEF a
    <3>2. CASE j # Len(t) + 1
      <4>1. j \in 1 .. Len(t)
        BY <2>1, <3>2
      <4> DEFINE r == RemoveDuplicates(t, j)
      <4>2. Thinned(r, t, j)
        BY <1>2, <4>1
      <4>3. r \in Seq(U)
        BY KeptTyped DEF RemoveDuplicates
      <4> HIDE DEF r
      <4>4. Thinned(r, Append(t, e), j) /\ (e # t[j] => Thinned(Append(r, e), Append(t, e), j))
        BY <4>1, <4>2, <4>3, ThinnedAppend
      <4>5. RemoveDuplicates(Append(t, e), j) = IF e # t[j] THEN Append(r, e) ELSE r
        BY <4>1, RemovalAppend DEF r
      <4> QED
        BY <4>4, <4>5
    <3> QED
      BY <3>1, <3>2
  <2> QED
    BY <2>1, <2>2
<1>3. \A t \in Seq(U) : t \in T
  <2> HIDE DEF T
  <2> QED
    BY <1>1, <1>2, Sequences
<1>4. RemoveDuplicates(s, i) \in Seq(U)
  BY KeptTyped DEF RemoveDuplicates
<1> QED
  BY <1>3, <1>4

LEMMA RemovalHides ==
  ASSUME NEW U, NEW pre \in Seq(U), NEW s \in Seq(U), NEW gone, NEW once, NEW i \in 1 .. Len(s),
         s[i] \in gone \cup once
  PROVE  Dropped(pre \o RemoveDuplicates(s, i), gone, once) = Dropped(pre \o s, gone, once)
<1>1. \A u \in Seq(U), e \in U :
        Dropped(Append(u, e), gone, once) =
          IF e \in gone \/ (e \in once /\ Has(u, e)) THEN Dropped(u, gone, once)
          ELSE Append(Dropped(u, gone, once), e)
  BY DroppedAppend
<1>2. \A u \in Seq(U) : \A d : Has(pre \o u, d) <=> Has(pre, d) \/ Has(u, d)
  BY HasConcat
<1>3. \A u \in Seq(U), e \in U :
        pre \o u \in Seq(U) /\ pre \o Append(u, e) = Append(pre \o u, e)
  OBVIOUS
<1> DEFINE Same(r, t) == /\ \A d : Has(r, d) <=> Has(t, d)
                         /\ Dropped(pre \o r, gone, once) = Dropped(pre \o t, gone, once)
           T == {t \in Seq(U) : \A j \in 1 .. Len(t) :
                   t[j] \in gone \cup once => Same(RemoveDuplicates(t, j), t)}
<1>4. <<>> \in T
  <2> DEFINE p == <<>>
  <2>1. p \in Seq(U) /\ Len(p) = 0
    OBVIOUS
  <2> HIDE DEF p
  <2>2. p \in T
    BY <2>1
  <2> QED
    BY <2>2 DEF p
<1>5. ASSUME NEW t \in Seq(U), NEW e \in U, t \in T PROVE Append(t, e) \in T
  <2>1. /\ Append(t, e) \in Seq(U) /\ Len(t) \in Nat /\ Len(Append(t, e)) = Len(t) + 1
        /\ \A j \in 1 .. Len(t) : Append(t, e)[j] = t[j]
    BY AppendIs
  <2>2. ASSUME NEW j \in 1 .. Len(t) + 1, Append(t, e)[j] \in gone \cup once
        PROVE  Same(RemoveDuplicates(Append(t, e), j), Append(t, e))
    <3>1. CASE j = Len(t) + 1
      <4>1. RemoveDuplicates(Append(t, e), j) = Append(t, e)
        BY <2>1, <3>1, RemovalLast
      <4> QED
        BY <4>1
    <3>2. CASE j # Len(t) + 1
      <4>1. j \in 1 .. Len(t) /\ t[j] \in gone \cup once
        BY <2>1, <2>2, <3>2
      <4> DEFINE r == RemoveDuplicates(t, j)
      <4>2. Same(r, t)
        BY <1>5, <4>1
      <4>3. r \in Seq(U)
        BY KeptTyped DEF RemoveDuplicates
      <4>4. RemoveDuplicates(Append(t, e), j) = IF e # t[j] THEN Append(r, e) ELSE r
        BY <4>1, RemovalAppend
      <4> HIDE DEF r, T
      <4> DEFINE x == pre \o r
                 y == pre \o t
      <4>5. /\ x \in Seq(U) /\ y \in Seq(U)
            /\ pre \o Append(r, e) = Append(x, e) /\ pre \o Append(t, e) = Append(y, e)
        BY <1>3, <4>3 DEF x, y
      <4>6. (Has(x, e) <=> Has(pre, e) \/ Has(r, e)) /\ (Has(y, e) <=> Has(pre, e) \/ Has(t, e))
        BY <1>2, <4>3 DEF x, y
      <4>7. (\A d : Has(r, d) <=> Has(t, d)) /\ Dropped(x, gone, once) = Dropped(y, gone, once)
        BY <4>2
      <4> HIDE DEF x, y
      <4>8. Dropped(Append(y, e), gone, once) =
              IF e \in gone \/ (e \in once /\ Has(y, e)) THEN Dropped(y, gone, once)
              ELSE Append(Dropped(y, gone, once), e)
        BY <1>1, <4>5
      <4>9. \A d : Has(Append(t, e), d) <=> Has(t, d) \/ d = e
        BY HasAppend
      <4>10. CASE e # t[j]
        <5>1. Dropped(Append(x, e), gone, once) =
                IF e \in gone \/ (e \in once /\ Has(x, e)) THEN Dropped(x, gone, once)
                ELSE Append(Dropped(x, gone, once), e)
          BY <1>1, <4>5
        <5>2. \A d : Has(Append(r, e), d) <=> Has(r, d) \/ d = e
          BY <4>3, HasAppend
        <5>3. Has(x, e) <=> Has(y, e)
          BY <4>6, <4>7
        <5>4. Dropped(Append(x, e), gone, once) = Dropped(Append(y, e), gone, once)
          BY <4>7, <4>8, <5>1, <5>3
        <5>5. Same(Append(r, e), Append(t, e))
          BY <4>5, <4>7, <4>9, <5>2, <5>4
        <5> QED
          BY <4>4, <4>10, <5>5
      <4>11. CASE e = t[j]
        <5>1. Has(t, e)
          BY <4>1, <4>11 DEF Has
        <5>2. Has(y, e)
          BY <4>6, <5>1
        <5>3. e \in gone \/ (e \in once /\ Has(y, e))
          BY <4>1, <4>11, <5>2
        <5>4. Dropped(Append(y, e), gone, once) = Dropped(y, gone, once)
          BY <4>8, <5>3
        <5>5. \A d : Has(Append(t, e), d) <=> Has(t, d)
          BY <4>9, <5>1
        <5>6. Same(r, Append(t, e))
          BY <4>5, <4>7, <5>4, <5>5 DEF x, y
        <5> QED
          BY <4>4, <4>11, <5>6
      <4> QED
        BY <4>10, <4>11
    <3> QED
      BY <3>1, <3>2
  <2> HIDE DEF Same
  <2> QED
    BY <2>1, <2>2
<1>6. \A t \in Seq(U) : t \in T
  <2> HIDE DEF T
  <2> QED
    BY <1>4, <1>5, Sequences
<1> QED
  BY <1>6

\* Where all that may be there once is, nothing is dropped.
LEMMA NothingDropped ==
  ASSUME NEW U, NEW s \in Seq(U), NEW once,
         \A i, j \in 1 .. Len(s) : i < j /\ s[i] \in once => s[i] # s[j]
  PROVE  Dropped(s, {}, once) = s
<1> DEFINE keep == {i \in DOMAIN s : s[i] \notin {} /\ ~(s[i] \in once /\ Repeats(s, i))}
           n == Len(s)
<1>1. DOMAIN s = 1 .. n /\ n \in Nat
  OBVIOUS
<1>2. \A i, j \in 1 .. n : i < j /\ s[i] \in once => s[i] # s[j]
  OBVIOUS
<1>3. ASSUME NEW i \in 1 .. n, s[i] \in once, Repeats(s, i) PROVE FALSE
  <2>1. PICK j \in 1 .. i - 1 : s[j] = s[i]
    BY <1>3 DEF Repeats
  <2> HIDE DEF n
  <2>2. j \in 1 .. n /\ j < i
    BY <1>1
  <2> QED
    BY <1>2, <1>3, <2>1, <2>2
<1>4. \A i \in 1 .. Len(s) : i \in keep
  BY <1>1, <1>3
<1> HIDE DEF keep
<1>5. Kept(s, keep) = s
  BY <1>4, KeptAll
<1> QED
  BY <1>5 DEF Dropped, keep

-----------------------------------------------------------------------------
(* Shrinking *)

Shrinks(n, target) ==
  [x \in (1 .. n) \X Seq(Entry) |->
     IF PathCch(x[2]) + 1 > target /\ x[1] <= Len(x[2]) /\ Searchable(x[2][x[1]])
     THEN RemoveDuplicates(x[2], x[1]) ELSE x[2]]

LEMMA ShrinkCounts ==
  ASSUME NEW p \in Seq(Entry), NEW target
  PROVE  \E g : /\ Counts(g, Len(p), Seq(Entry), p, Shrinks(Len(p), target))
                /\ KexpShrinkDllPathLength(p, target) = g[Len(p)]
<1> DEFINE n == Len(p)
           F == Shrinks(n, target)
           V == Seq(Entry)
           B(i, q) == IF PathCch(q) + 1 > target /\ i <= Len(q) /\ Searchable(q[i])
                      THEN RemoveDuplicates(q, i) ELSE q
           Eq(g) == g = [i \in 0 .. n |-> IF i = 0 THEN p ELSE B(i, g[i - 1])]
           k == CHOOSE g : Eq(g)
<1>1. n \in Nat /\ p \in V
  OBVIOUS
<1>2. \A i \in 1 .. n, v \in V : F[<<i, v>>] = B(i, v)
  BY DEF Shrinks
<1>3. F \in [(1 .. n) \X V -> V]
  <2>1. \A x \in (1 .. n) \X V : RemoveDuplicates(x[2], x[1]) \in V
    BY KeptTyped DEF RemoveDuplicates
  <2> QED
    BY <2>1 DEF Shrinks
<1>4. KexpShrinkDllPathLength(p, target) = k[n]
  BY DEF KexpShrinkDllPathLength
<1> HIDE DEF n, F, V, B
<1>5. PICK h : Counts(h, n, V, p, F)
  BY <1>1, <1>3, Recursion
<1>6. Eq(h)
  <2>1. \A i \in 0 .. n : h[i] = IF i = 0 THEN p ELSE B(i, h[i - 1])
    <3> SUFFICES ASSUME NEW i \in 0 .. n, i # 0 PROVE h[i] = B(i, h[i - 1])
      BY <1>5 DEF Counts
    <3>1. i \in 1 .. n /\ i - 1 \in 0 .. n
      BY <1>1
    <3>2. h[i] = F[<<i, h[i - 1]>>] /\ h[i - 1] \in V
      BY <1>5, <3>1 DEF Counts
    <3> QED
      BY <1>2, <3>1, <3>2
  <2>2. h \in [0 .. n -> V]
    BY <1>5 DEF Counts
  <2> QED
    BY <2>1, <2>2
<1> HIDE DEF Eq
<1>7. Eq(k)
  BY <1>6
<1> HIDE DEF k
<1>8. /\ k[0] = p /\ k = [i \in 0 .. n |-> k[i]]
      /\ \A i \in 1 .. n : k[i] = B(i, k[i - 1])
  <2>1. k = [i \in 0 .. n |-> IF i = 0 THEN p ELSE B(i, k[i - 1])]
    BY <1>7 DEF Eq
  <2>2. 0 \in 0 .. n /\ \A i \in 1 .. n : i \in 0 .. n /\ i # 0
    BY <1>1
  <2>3. k[0] = p
    BY <2>1, <2>2
  <2>4. \A i \in 1 .. n : k[i] = B(i, k[i - 1])
    BY <2>1, <2>2
  <2>5. k = [i \in 0 .. n |-> k[i]]
    BY <2>1
  <2> QED
    BY <2>3, <2>4, <2>5
<1>9. Counts(k, n, V, p, F)
  <2>1. \A i \in 1 .. n : k[i - 1] \in V => k[i] = F[<<i, k[i - 1]>>]
    BY <1>2, <1>8
  <2> QED
    BY <1>1, <1>3, <1>8, <2>1, Counting
<1> QED
  BY <1>4, <1>9 DEF n, F, V

\* The order of search, and the path when each entry that is found stands once.
InOrder(p) == Dropped(p, {Empty}, Entry)
AllOnce(p) == Dropped(p, {}, {e \in Entry : Searchable(e)})

\* The first i entries stand once, as far as they can be searched for.
Alone(q, i) ==
  \A j, k \in 1 .. Len(q) : j <= i /\ j < k /\ Searchable(q[j]) => q[j] # q[k]

\* q is p after i steps.
Shrunk(q, p, target, i) ==
  /\ q \in Seq(Entry) /\ Len(q) <= Len(p)
  /\ \A pre \in Seq(Entry) : InOrder(pre \o q) = InOrder(pre \o p)
  /\ AllOnce(q) = AllOnce(p)
  /\ PathCch(q) + 1 <= target \/ Alone(q, i)

LEMMA AloneNext ==
  ASSUME NEW q \in Seq(Entry), NEW i \in 1 .. Len(q), Alone(q, i - 1)
  PROVE  Alone(RemoveDuplicates(q, i), i)
<1> DEFINE r == RemoveDuplicates(q, i)
           n == Len(q)
           m == Len(r)
<1>1. r \in Seq(Entry) /\ Thinned(r, q, i)
  BY RemovalThins
<1>2. n \in Nat /\ m \in Nat /\ i \in 1 .. n
  BY <1>1
<1>3. /\ i <= m /\ m <= n
      /\ \A j \in 1 .. i : r[j] = q[j]
      /\ \A j \in i + 1 .. m : r[j] # q[i] /\ \E k \in i + 1 .. n : q[k] = r[j]
  BY <1>1 DEF Thinned
<1>4. \A j, k \in 1 .. n : j <= i - 1 /\ j < k /\ Searchable(q[j]) => q[j] # q[k]
  BY DEF Alone
<1> HIDE DEF r, n, m
<1>5. ASSUME NEW j \in 1 .. m, NEW k \in 1 .. m, j <= i, j < k, Searchable(r[j])
      PROVE  r[j] # r[k]
  <2>1. j \in 1 .. i /\ j \in 1 .. n
    BY <1>2, <1>3, <1>5
  <2>2. r[j] = q[j]
    BY <1>3, <2>1
  <2>3. CASE k <= i
    <3>1. k \in 1 .. i /\ k \in 1 .. n /\ j <= i - 1
      BY <1>2, <1>3, <1>5, <2>3
    <3>2. r[k] = q[k]
      BY <1>3, <3>1
    <3> QED
      BY <1>4, <1>5, <2>1, <2>2, <3>1, <3>2
  <2>4. CASE ~(k <= i)
    <3>1. k \in i + 1 .. m
      BY <1>2, <1>5, <2>4
    <3>2. r[k] # q[i]
      BY <1>3, <3>1
    <3>3. PICK l \in i + 1 .. n : q[l] = r[k]
      BY <1>3, <3>1
    <3>4. CASE j = i
      BY <2>2, <3>2, <3>4
    <3>5. CASE j # i
      <4>1. l \in 1 .. n /\ j <= i - 1 /\ j < l
        BY <1>2, <2>1, <3>3, <3>5
      <4> QED
        BY <1>4, <1>5, <2>1, <2>2, <3>3, <4>1
    <3> QED
      BY <3>4, <3>5
  <2> QED
    BY <2>3, <2>4
<1> QED
  BY <1>5 DEF Alone, r, m

LEMMA ShrunkNext ==
  ASSUME NEW p \in Seq(Entry), NEW target \in Int, NEW i \in Nat \ {0}, NEW q,
         Shrunk(q, p, target, i - 1)
  PROVE  Shrunk(IF PathCch(q) + 1 > target /\ i <= Len(q) /\ Searchable(q[i])
                THEN RemoveDuplicates(q, i) ELSE q, p, target, i)
<1>1. /\ q \in Seq(Entry) /\ Len(q) <= Len(p) /\ Len(q) \in Nat /\ Len(p) \in Nat
      /\ \A pre \in Seq(Entry) : InOrder(pre \o q) = InOrder(pre \o p)
      /\ AllOnce(q) = AllOnce(p)
      /\ PathCch(q) + 1 <= target \/ Alone(q, i - 1)
  BY DEF Shrunk
<1>2. PathCch(q) \in Int
  BY <1>1, CchTyped
<1>3. CASE PathCch(q) + 1 > target /\ i <= Len(q) /\ Searchable(q[i])
  <2> DEFINE r == RemoveDuplicates(q, i)
  <2>1. i \in 1 .. Len(q)
    BY <1>1, <1>3
  <2>2. r \in Seq(Entry) /\ Thinned(r, q, i)
    BY <1>1, <2>1, RemovalThins
  <2>3. Len(r) <= Len(p)
    <3> HIDE DEF r
    <3>1. Len(r) <= Len(q) /\ Len(r) \in Nat
      BY <2>2 DEF Thinned
    <3> QED
      BY <1>1, <3>1
  <2>4. q[i] \in Entry
    BY <1>1, <2>1
  <2>5. \A pre \in Seq(Entry) : InOrder(pre \o r) = InOrder(pre \o q)
    <3> DEFINE gone == {Empty}
               once == Entry
    <3>1. q[i] \in gone \cup once
      BY <2>4
    <3> HIDE DEF gone, once
    <3> TAKE pre \in Seq(Entry)
    <3>2. Dropped(pre \o r, gone, once) = Dropped(pre \o q, gone, once)
      BY <1>1, <2>1, <3>1, RemovalHides
    <3> QED
      BY <3>2 DEF InOrder, gone, once
  <2>6. AllOnce(r) = AllOnce(q)
    <3> DEFINE gone == {}
               once == {e \in Entry : Searchable(e)}
               pre == <<>>
    <3>1. q[i] \in gone \cup once
      BY <1>3, <2>4
    <3>2. pre \in Seq(Entry) /\ pre \o r = r /\ pre \o q = q
      BY <1>1, <2>2, ConcatEmptySeq
    <3> HIDE DEF gone, once, pre
    <3>3. \A u \in Seq(Entry) : Dropped(u \o r, gone, once) = Dropped(u \o q, gone, once)
      BY <1>1, <2>1, <3>1, RemovalHides
    <3> QED
      BY <3>2, <3>3 DEF AllOnce, gone, once
  <2>7. Alone(q, i - 1)
    BY <1>1, <1>2, <1>3
  <2>8. Alone(r, i)
    BY <1>1, <2>1, <2>7, AloneNext
  <2> HIDE DEF r
  <2>9. Shrunk(r, p, target, i)
    BY <1>1, <2>2, <2>3, <2>5, <2>6, <2>8 DEF Shrunk
  <2> QED
    BY <1>3, <2>9 DEF r
<1>4. CASE ~(PathCch(q) + 1 > target /\ i <= Len(q) /\ Searchable(q[i]))
  <2>1. PathCch(q) + 1 <= target \/ Alone(q, i)
    <3> SUFFICES ASSUME Alone(q, i - 1), ~(i <= Len(q) /\ Searchable(q[i])) PROVE Alone(q, i)
      BY <1>1, <1>2, <1>4
    <3> DEFINE n == Len(q)
    <3>1. n \in Nat
      BY <1>1
    <3>2. \A j, k \in 1 .. n : j <= i - 1 /\ j < k /\ Searchable(q[j]) => q[j] # q[k]
      BY DEF Alone
    <3> HIDE DEF n
    <3>3. ASSUME NEW j \in 1 .. n, NEW k \in 1 .. n, j <= i, j < k, Searchable(q[j])
          PROVE  q[j] # q[k]
      <4>1. j # i
        BY <3>3 DEF n
      <4>2. j <= i - 1
        BY <3>1, <3>3, <4>1
      <4> QED
        BY <3>2, <3>3, <4>2
    <3> QED
      BY <3>3 DEF Alone, n
  <2>2. Shrunk(q, p, target, i)
    BY <1>1, <2>1 DEF Shrunk
  <2> QED
    BY <1>4, <2>2
<1> QED
  BY <1>3, <1>4

LEMMA ShrinkRight ==
  ASSUME NEW p \in Seq(Entry), NEW target \in Int
  PROVE  Shrunk(KexpShrinkDllPathLength(p, target), p, target, Len(p))
<1> DEFINE n == Len(p)
           F == Shrinks(n, target)
<1>1. PICK g : Counts(g, n, Seq(Entry), p, F) /\ KexpShrinkDllPathLength(p, target) = g[n]
  BY ShrinkCounts
<1>2. n \in Nat
  OBVIOUS
<1>3. \A i \in 1 .. n, q \in Seq(Entry) : F[<<i, q>>] =
        IF PathCch(q) + 1 > target /\ i <= Len(q) /\ Searchable(q[i])
        THEN RemoveDuplicates(q, i) ELSE q
  BY DEF Shrinks
<1> HIDE DEF n, F
<1> DEFINE T == {i \in Nat : i <= n => Shrunk(g[i], p, target, i)}
<1>4. 0 \in T
  <2>1. g[0] = p
    BY <1>1 DEF Counts
  <2> DEFINE z == 0
  <2>2. \A j \in 1 .. Len(p) : ~(j <= z)
    OBVIOUS
  <2>3. Alone(p, z)
    BY <2>2 DEF Alone
  <2> HIDE DEF z
  <2>4. Len(p) <= Len(p)
    OBVIOUS
  <2>5. Shrunk(p, p, target, z)
    BY <2>3, <2>4 DEF Shrunk
  <2> QED
    BY <2>1, <2>5 DEF z
<1>5. ASSUME NEW i \in T PROVE i + 1 \in T
  <2> SUFFICES ASSUME i + 1 <= n PROVE Shrunk(g[i + 1], p, target, i + 1)
    OBVIOUS
  <2> DEFINE k == i + 1
             q == g[i]
  <2>1. k \in 1 .. n /\ k \in Nat \ {0} /\ k - 1 = i /\ i \in 0 .. n /\ i <= n
    BY <1>2
  <2>2. Shrunk(q, p, target, i)
    BY <2>1
  <2>3. g[k] = F[<<k, g[k - 1]>>] /\ g[i] \in Seq(Entry)
    BY <1>1, <2>1 DEF Counts
  <2> HIDE DEF k, T
  <2>4. g[k] = IF PathCch(q) + 1 > target /\ k <= Len(q) /\ Searchable(q[k])
               THEN RemoveDuplicates(q, k) ELSE q
    BY <1>3, <2>1, <2>3
  <2> HIDE DEF q
  <2>5. Shrunk(q, p, target, k - 1)
    BY <2>1, <2>2
  <2>6. Shrunk(g[k], p, target, k)
    BY <2>1, <2>4, <2>5, ShrunkNext
  <2> QED
    BY <2>6 DEF k
<1>6. T = Nat
  <2> HIDE DEF T
  <2>1. T \in SUBSET Nat
    BY DEF T
  <2> QED
    BY <1>4, <1>5, <2>1, Numbers
<1>7. Shrunk(g[n], p, target, n)
  BY <1>2, <1>6
<1> QED
  BY <1>1, <1>7 DEF n

\* When all are alone that can be, the path is as short as without duplicates.
LEMMA ShrinkReaches ==
  ASSUME NEW p \in Seq(Entry), NEW target \in Int, PathCch(AllOnce(p)) + 1 <= target
  PROVE  PathCch(KexpShrinkDllPathLength(p, target)) + 1 <= target
<1> DEFINE q == KexpShrinkDllPathLength(p, target)
<1>1. Shrunk(q, p, target, Len(p))
  BY ShrinkRight
<1> HIDE DEF q
<1>2. /\ q \in Seq(Entry) /\ Len(q) <= Len(p) /\ AllOnce(q) = AllOnce(p)
      /\ PathCch(q) + 1 <= target \/ Alone(q, Len(p))
  BY <1>1 DEF Shrunk
<1>3. ASSUME Alone(q, Len(p)) PROVE AllOnce(q) = q
  <2> DEFINE once == {e \in Entry : Searchable(e)}
  <2>1. \A i, j \in 1 .. Len(q) : i < j /\ q[i] \in once => q[i] # q[j]
    <3>1. \A i \in 1 .. Len(q) : i <= Len(p)
      BY <1>2
    <3> QED
      BY <1>3, <3>1 DEF Alone
  <2> HIDE DEF once
  <2>2. Dropped(q, {}, once) = q
    BY <1>2, <2>1, NothingDropped
  <2> QED
    BY <2>2 DEF AllOnce, once
<1>4. PathCch(q) + 1 <= target
  BY <1>2, <1>3
<1> QED
  BY <1>4 DEF q

-----------------------------------------------------------------------------
(* Normalizing *)

Joins(ss, U) == [x \in (1 .. Len(ss)) \X Seq(U) |-> x[2] \o ss[x[1]]]

LEMMA FlattenCounts ==
  ASSUME NEW U, NEW ss \in Seq(Seq(U))
  PROVE  \E g : /\ Counts(g, Len(ss), Seq(U), <<>>, Joins(ss, U))
                /\ FlattenSeq(ss) = g[Len(ss)]
<1> DEFINE n == Len(ss)
           F == Joins(ss, U)
           V == Seq(U)
           nil == <<>>
           Eq(g) == g = [i \in 1 .. n |-> IF i = 1 THEN ss[i] ELSE g[i - 1] \o ss[i]]
           k == CHOOSE g : Eq(g)
           k0 == [i \in 0 .. n |-> IF i = 0 THEN nil ELSE k[i]]
<1>1. n \in Nat /\ nil \in V /\ \A i \in 1 .. n : ss[i] \in V
  OBVIOUS
<1>2. \A i \in 1 .. n, v \in V : F[<<i, v>>] = v \o ss[i]
  BY DEF Joins
<1>3. F \in [(1 .. n) \X V -> V]
  <2>1. \A x \in (1 .. n) \X V : x[2] \o ss[x[1]] \in V
    BY <1>1
  <2> QED
    BY <2>1 DEF Joins
<1>4. FlattenSeq(ss) = IF n = 0 THEN ss ELSE k[n]
  BY DEF FlattenSeq
<1>5. n = 0 => ss = nil
  OBVIOUS
<1>6. \A v \in V : nil \o v = v
  BY ConcatEmptySeq
<1> HIDE DEF n, F, V, nil
<1>7. PICK h : Counts(h, n, V, nil, F)
  BY <1>1, <1>3, Recursion
<1>8. \A i \in 1 .. n : h[i] = IF i = 1 THEN ss[i] ELSE h[i - 1] \o ss[i]
  <2> TAKE i \in 1 .. n
  <2>1. i - 1 \in 0 .. n
    BY <1>1
  <2>2. h[i] = h[i - 1] \o ss[i]
    BY <1>2, <1>7, <2>1 DEF Counts
  <2>3. CASE i = 1
    <3>1. i - 1 = 0
      BY <2>3
    <3>2. h[i - 1] = nil
      BY <1>7, <3>1 DEF Counts
    <3> QED
      BY <1>1, <1>6, <2>2, <2>3, <3>2
  <2>4. CASE i # 1
    BY <2>2, <2>4
  <2> QED
    BY <2>3, <2>4
<1> DEFINE h1 == [i \in 1 .. n |-> h[i]]
<1>9. Eq(h1)
  <2>1. \A i \in 1 .. n : i # 1 => i - 1 \in 1 .. n
    BY <1>1
  <2>2. \A i \in 1 .. n : h1[i] = IF i = 1 THEN ss[i] ELSE h1[i - 1] \o ss[i]
    BY <1>8, <2>1
  <2> QED
    BY <2>2
<1> HIDE DEF Eq
<1>10. Eq(k)
  BY <1>9
<1> HIDE DEF k
<1>11. \A i \in 1 .. n : k[i] = IF i = 1 THEN ss[i] ELSE k[i - 1] \o ss[i]
  <2>1. k = [i \in 1 .. n |-> IF i = 1 THEN ss[i] ELSE k[i - 1] \o ss[i]]
    BY <1>10 DEF Eq
  <2> QED
    BY <2>1
<1>12. /\ k0[0] = nil /\ k0 = [i \in 0 .. n |-> k0[i]]
       /\ \A i \in 1 .. n : k0[i] = k[i]
  <2>1. 0 \in 0 .. n /\ \A i \in 1 .. n : i \in 0 .. n /\ i # 0
    BY <1>1
  <2> QED
    BY <2>1
<1>13. \A i \in 1 .. n : k0[i - 1] \in V => k0[i] = F[<<i, k0[i - 1]>>]
  <2> SUFFICES ASSUME NEW i \in 1 .. n, k0[i - 1] \in V PROVE k0[i] = k0[i - 1] \o ss[i]
    BY <1>2
  <2>1. CASE i = 1
    <3>1. i - 1 = 0
      BY <2>1
    <3>2. k0[i - 1] = nil /\ k0[i] = ss[i]
      BY <1>11, <1>12, <2>1, <3>1
    <3> QED
      BY <1>1, <1>6, <3>2
  <2>2. CASE i # 1
    <3>1. i - 1 \in 1 .. n
      BY <1>1, <2>2
    <3> QED
      BY <1>11, <1>12, <2>2, <3>1
  <2> QED
    BY <2>1, <2>2
<1> HIDE DEF k0
<1>14. Counts(k0, n, V, nil, F)
  BY <1>1, <1>3, <1>12, <1>13, Counting
<1>15. FlattenSeq(ss) = k0[n]
  <2>1. CASE n = 0
    BY <1>4, <1>5, <1>12, <2>1
  <2>2. CASE n # 0
    <3>1. n \in 1 .. n
      BY <1>1, <2>2
    <3> QED
      BY <1>4, <1>12, <2>2, <3>1
  <2> QED
    BY <2>1, <2>2
<1> QED
  BY <1>14, <1>15 DEF n, F, V, nil

LEMMA FlattenAppend ==
  ASSUME NEW U, NEW ss \in Seq(Seq(U)), NEW s \in Seq(U)
  PROVE  FlattenSeq(Append(ss, s)) = FlattenSeq(ss) \o s
<1> DEFINE a == Append(ss, s)
           n == Len(ss)
           m == Len(a)
           V == Seq(U)
           F == Joins(ss, U)
           G == Joins(a, U)
           nil == <<>>
<1>1. /\ a \in Seq(V) /\ n \in Nat /\ m = n + 1 /\ a[m] = s
      /\ \A i \in 1 .. n : a[i] = ss[i]
  OBVIOUS
<1>2. \A i \in 1 .. n, v \in V : F[<<i, v>>] = v \o ss[i]
  BY DEF Joins
<1>3. \A i \in 1 .. m, v \in V : G[<<i, v>>] = v \o a[i]
  BY DEF Joins
<1>4. PICK g : Counts(g, n, V, nil, F) /\ FlattenSeq(ss) = g[n]
  BY FlattenCounts
<1>5. PICK h : Counts(h, m, V, nil, G) /\ FlattenSeq(a) = h[m]
  BY <1>1, FlattenCounts
<1> HIDE DEF a, n, m, V, F, G, nil
<1>6. \A i \in 1 .. n, v \in V : F[<<i, v>>] = G[<<i, v>>]
  <2> TAKE i \in 1 .. n, v \in V
  <2>1. i \in 1 .. m /\ a[i] = ss[i]
    BY <1>1
  <2> QED
    BY <1>2, <1>3, <2>1
<1>7. \A i \in 0 .. n : g[i] = h[i]
  <2>1. n \in Nat /\ m \in Nat /\ n <= m
    BY <1>1
  <2>2. Counts(g, n, V, nil, F) /\ Counts(h, m, V, nil, G)
    BY <1>4, <1>5
  <2>3. Alike(F, G, n, V)
    BY <1>6 DEF Alike
  <2>4. Agree(g, h, n)
    BY <2>1, <2>2, <2>3, CountAlike
  <2> QED
    BY <2>4 DEF Agree
<1>8. n \in 0 .. n /\ n \in 0 .. m /\ m \in 1 .. m /\ m - 1 = n
  BY <1>1
<1>9. h[m] = G[<<m, h[n]>>] /\ h[n] \in V /\ h[n] = g[n]
  BY <1>5, <1>7, <1>8 DEF Counts
<1>10. FlattenSeq(a) = FlattenSeq(ss) \o s
  BY <1>1, <1>3, <1>4, <1>5, <1>8, <1>9
<1> QED
  BY <1>10 DEF a

Normals(p) == [i \in DOMAIN p |-> Normal[p[i]]]

LEMMA NormalizedAppend ==
  ASSUME NEW s \in Seq(Entry), NEW e \in Entry
  PROVE  Normalized(Append(s, e)) = Normalized(s) \o Normal[e]
<1> DEFINE a == Append(s, e)
           x == Normals(s)
<1>1. /\ DOMAIN s = 1 .. Len(s) /\ DOMAIN a = 1 .. Len(s) + 1 /\ Len(s) \in Nat
      /\ a[Len(s) + 1] = e /\ \A i \in 1 .. Len(s) : a[i] = s[i] /\ s[i] \in Entry
  BY AppendIs
<1>2. x \in Seq(Seq(Entry)) /\ Len(x) = Len(s) /\ \A i \in 1 .. Len(s) : x[i] = Normal[s[i]]
  BY <1>1, PathAssumption DEF Normals
<1>3. Normal[e] \in Seq(Entry)
  BY PathAssumption
<1>4. Normals(a) = Append(x, Normal[e])
  <2> DEFINE y == Normals(a)
             z == Append(x, Normal[e])
             n == Len(s)
             V == Seq(Entry)
  <2>1. n \in Nat /\ Len(x) = n /\ \A i \in 1 .. n : x[i] = Normal[s[i]]
    BY <1>1, <1>2
  <2>2. y = [i \in 1 .. n + 1 |-> Normal[a[i]]]
    BY <1>1 DEF Normals
  <2>3. \A i \in 1 .. n : a[i] = s[i]
    BY <1>1
  <2>4. a[n + 1] = e
    BY <1>1
  <2> HIDE DEF x, a, n, y
  <2>5. z = [i \in 1 .. n + 1 |-> IF i = n + 1 THEN Normal[e] ELSE x[i]]
    BY <1>2, <1>3, <2>1
  <2> HIDE DEF z
  <2>6. \A i \in 1 .. n + 1 : y[i] = z[i]
    <3> TAKE i \in 1 .. n + 1
    <3>1. CASE i = n + 1
      BY <2>2, <2>4, <2>5, <3>1
    <3>2. CASE i # n + 1
      <4>1. i \in 1 .. n
        BY <2>1, <3>2
      <4> QED
        BY <2>1, <2>2, <2>3, <2>5, <3>2, <4>1
    <3> QED
      BY <3>1, <3>2
  <2>7. y = z
    BY <2>2, <2>5, <2>6
  <2> QED
    BY <2>7 DEF y, z
<1> HIDE DEF x
<1>5. FlattenSeq(Append(x, Normal[e])) = FlattenSeq(x) \o Normal[e]
  BY <1>2, <1>3, FlattenAppend
<1> QED
  BY <1>4, <1>5 DEF Normalized, Normals, x

\* Normalizing leaves the length.
LEMMA NormalizedCch ==
  ASSUME NEW p \in Seq(Entry)
  PROVE  Normalized(p) \in Seq(Entry) /\ PathCch(Normalized(p)) = PathCch(p)
<1> DEFINE T == {s \in Seq(Entry) :
                   Normalized(s) \in Seq(Entry) /\ PathCch(Normalized(s)) = PathCch(s)}
<1>1. <<>> \in T
  <2> DEFINE s == <<>>
  <2>1. s \in Seq(Entry) /\ Normals(s) = s /\ Len(s) = 0
    BY DEF Normals
  <2>2. Normalized(s) = s
    BY <2>1 DEF Normalized, Normals, FlattenSeq
  <2> HIDE DEF s
  <2>3. s \in T
    BY <2>1, <2>2
  <2> QED
    BY <2>3 DEF s
<1>2. ASSUME NEW s \in Seq(Entry), NEW e \in Entry, s \in T PROVE Append(s, e) \in T
  <2>1. Normalized(s) \in Seq(Entry) /\ PathCch(Normalized(s)) = PathCch(s)
    BY <1>2
  <2>2. Normal[e] \in Seq(Entry) /\ PathCch(Normal[e]) = Cch[e]
    BY PathAssumption, NormalAssumption
  <2>3. Normalized(Append(s, e)) = Normalized(s) \o Normal[e]
    BY NormalizedAppend
  <2> HIDE DEF T
  <2>4. PathCch(Normalized(s) \o Normal[e]) = PathCch(Normalized(s)) + (PathCch(Normal[e]) + 1)
    BY <2>1, <2>2, CchConcat
  <2>5. PathCch(Append(s, e)) = PathCch(s) + (Cch[e] + 1)
    BY CchAppend
  <2>6. Append(s, e) \in Seq(Entry) /\ Normalized(s) \o Normal[e] \in Seq(Entry)
    BY <2>1, <2>2
  <2> QED
    BY <2>1, <2>2, <2>3, <2>4, <2>5, <2>6 DEF T
<1>3. \A s \in Seq(Entry) : s \in T
  <2> HIDE DEF T
  <2> QED
    BY <1>1, <1>2, Sequences
<1> QED
  BY <1>3

-----------------------------------------------------------------------------
(* The path that the loader gets *)

LEMMA Padding ==
  ASSUME NEW p \in Seq(Entry), NEW m \in Nat
  PROVE  LET q == p \o [i \in 1 .. m |-> Empty]
         IN q \in Seq(Entry) /\ PathCch(q) = PathCch(p) + m /\ InOrder(q) = InOrder(p)
<1> DEFINE pad(n) == [i \in 1 .. n |-> Empty]
           T == {n \in Nat : /\ p \o pad(n) \in Seq(Entry)
                             /\ PathCch(p \o pad(n)) = PathCch(p) + n
                             /\ InOrder(p \o pad(n)) = InOrder(p)}
<1>1. Empty \in Entry /\ Cch[Empty] = 0
  BY PathAssumption
<1>2. PathCch(p) \in Int
  BY CchTyped
<1>3. 0 \in T
  <2> DEFINE n == 0
             x == pad(n)
  <2>1. x \in Seq(Entry) /\ Len(x) = 0
    OBVIOUS
  <2>2. p \o x = p
    <3> HIDE DEF x
    <3>1. x = <<>>
      BY <2>1
    <3> QED
      BY <3>1, ConcatEmptySeq
  <2>3. PathCch(p) = PathCch(p) + n /\ n \in Nat
    BY <1>2
  <2> HIDE DEF n, pad
  <2>4. n \in T
    BY <2>2, <2>3
  <2> QED
    BY <2>4 DEF n
<1>4. ASSUME NEW n \in T PROVE n + 1 \in T
  <2> DEFINE x == p \o pad(n)
  <2>1. n \in Nat /\ x \in Seq(Entry) /\ PathCch(x) = PathCch(p) + n /\ InOrder(x) = InOrder(p)
    OBVIOUS
  <2>2. p \o pad(n + 1) = Append(x, Empty)
    <3>1. pad(n) \in Seq(Entry) /\ pad(n + 1) = Append(pad(n), Empty)
      BY <1>1, <2>1
    <3> HIDE DEF pad
    <3>2. p \o Append(pad(n), Empty) = Append(p \o pad(n), Empty)
      BY <1>1, <3>1
    <3> QED
      BY <3>1, <3>2
  <2> HIDE DEF x, T, pad
  <2>3. PathCch(Append(x, Empty)) = PathCch(p) + (n + 1)
    <3>1. PathCch(Append(x, Empty)) = PathCch(x) + (Cch[Empty] + 1)
      BY <1>1, <2>1, CchAppend
    <3> QED
      BY <1>1, <1>2, <2>1, <3>1
  <2>4. InOrder(Append(x, Empty)) = InOrder(x)
    <3> DEFINE gone == {Empty}
               once == Entry
    <3>1. Empty \in gone
      OBVIOUS
    <3> HIDE DEF gone, once
    <3>2. Dropped(Append(x, Empty), gone, once) =
            IF Empty \in gone \/ (Empty \in once /\ Has(x, Empty)) THEN Dropped(x, gone, once)
            ELSE Append(Dropped(x, gone, once), Empty)
      BY <1>1, <2>1, DroppedAppend
    <3> QED
      BY <3>1, <3>2 DEF InOrder, gone, once
  <2>5. Append(x, Empty) \in Seq(Entry) /\ n + 1 \in Nat
    BY <1>1, <2>1
  <2> QED
    BY <2>1, <2>2, <2>3, <2>4, <2>5 DEF T
<1>5. T = Nat
  <2> HIDE DEF T
  <2>1. T \in SUBSET Nat
    BY DEF T
  <2> QED
    BY <1>3, <1>4, <2>1, Numbers
<1> QED
  BY <1>5

LEMMA OrderIs ==
  ASSUME NEW p \in Seq(Entry)
  PROVE  SearchOrder(p) = InOrder(p)
<1>1. \A i \in DOMAIN p : p[i] \in Entry
  OBVIOUS
<1>2. {i \in DOMAIN p : p[i] # Empty /\ ~Repeats(p, i)} =
      {i \in DOMAIN p : p[i] \notin {Empty} /\ ~(p[i] \in Entry /\ Repeats(p, i))}
  BY <1>1
<1> QED
  BY <1>2 DEF SearchOrder, InOrder, Dropped

LEMMA RoomIs ==
  ASSUME NEW p \in Seq(Entry)
  PROVE  HasRoom(p) <=> PathCch(AllOnce(Normalized(p))) + 1 + Cch[KexDir] + 1 <= PathCch(p)
<1> DEFINE n == Normalized(p)
<1>1. n \in Seq(Entry)
  BY NormalizedCch
<1> HIDE DEF n
<1>2. \A i \in DOMAIN n : n[i] \in Entry
  BY <1>1
<1>3. {i \in DOMAIN n : ~(Searchable(n[i]) /\ Repeats(n, i))} =
      {i \in DOMAIN n : n[i] \notin {} /\ ~(n[i] \in {e \in Entry : Searchable(e)} /\ Repeats(n, i))}
  BY <1>2
<1> QED
  BY <1>3 DEF HasRoom, AllOnce, Dropped, n

LEMMA CchOne ==
  ASSUME NEW e \in Entry
  PROVE  <<e>> \in Seq(Entry) /\ PathCch(<<e>>) = Cch[e] /\ Cch[e] \in Nat
<1> DEFINE s == <<>>
<1>1. s \in Seq(Entry) /\ Append(s, e) = <<e>> /\ PathCch(s) + 1 = 0
  BY CchNothing
<1> HIDE DEF s
<1>2. /\ PathCch(s) \in Int /\ Cch[e] \in Nat
      /\ PathCch(Append(s, e)) = PathCch(s) + (Cch[e] + 1)
  BY <1>1, CchAppend
<1>3. PathCch(Append(s, e)) = Cch[e]
  BY <1>1, <1>2
<1> QED
  BY <1>1, <1>2, <1>3

\* However the path is cut, what fits of it is still in front.
LEMMA CutKeepsHead ==
  ASSUME NEW p \in Seq(Entry), NEW cch \in Int, 1 <= Len(p), Cch[p[1]] <= cch
  PROVE  CutTo(p, cch) \in Seq(Entry \cup {Torn}) /\ Head(CutTo(p, cch)) = p[1]
<1> DEFINE n == Len(p)
           Fits(k) == PathCch(SubSeq(p, 1, k)) <= cch
           AtEnd(k) == Fits(k) /\ (k < n => PathCch(SubSeq(p, 1, k + 1)) > cch)
           w == CHOOSE k \in DOMAIN p : AtEnd(k)
           rest == cch - PathCch(SubSeq(p, 1, w))
           tail == IF w = n \/ rest = 0 THEN <<>> ELSE IF rest = 1 THEN <<Empty>> ELSE <<Torn>>
<1>1. n \in Nat /\ 1 <= n /\ DOMAIN p = 1 .. n
  OBVIOUS
<1>2. \A k \in 1 .. n : SubSeq(p, 1, k) \in Seq(Entry) /\ PathCch(SubSeq(p, 1, k)) \in Int
  <2> TAKE k \in 1 .. n
  <2>1. \A i \in 1 .. k : p[i] \in Entry
    BY <1>1
  <2>2. SubSeq(p, 1, k) \in Seq(Entry)
    BY <2>1, SubSeqProperties
  <2> QED
    BY <2>2, CchTyped
<1>3. Fits(1)
  <2>1. p[1] \in Entry
    BY <1>1
  <2>2. SubSeq(p, 1, 1) = <<p[1]>>
    <3> DEFINE s == SubSeq(p, 1, 1)
    <3>1. s \in Seq(Entry) /\ Len(s) = 1 /\ s[1] = p[1]
      BY <1>1, <1>2
    <3> HIDE DEF s
    <3>2. s = <<p[1]>>
      BY <3>1
    <3> QED
      BY <3>2 DEF s
  <2> QED
    BY <2>1, <2>2, CchOne
<1>4. CutTo(p, cch) = SubSeq(p, 1, w) \o tail
  BY DEF CutTo
<1> HIDE DEF Fits, n
<1>5. \E k \in 1 .. n : AtEnd(k)
  <2> SUFFICES ASSUME \A k \in 1 .. n : ~AtEnd(k) PROVE FALSE
    OBVIOUS
  <2> DEFINE T == {k \in Nat : k + 1 <= n => Fits(k + 1)}
  <2>1. 0 \in T
    BY <1>3
  <2>2. ASSUME NEW k \in T PROVE k + 1 \in T
    <3> SUFFICES ASSUME k + 1 + 1 <= n PROVE Fits(k + 1 + 1)
      OBVIOUS
    <3> DEFINE j == k + 1
    <3>1. j \in 1 .. n /\ j < n /\ j + 1 \in 1 .. n
      BY <1>1
    <3>2. Fits(j)
      BY <3>1
    <3>3. ~(PathCch(SubSeq(p, 1, j + 1)) > cch)
      BY <3>1, <3>2
    <3> HIDE DEF j
    <3>4. Fits(j + 1)
      BY <1>2, <3>1, <3>3 DEF Fits
    <3> QED
      BY <3>4 DEF j
  <2>3. T = Nat
    <3> HIDE DEF T
    <3>1. T \in SUBSET Nat
      BY DEF T
    <3> QED
      BY <2>1, <2>2, <3>1, Numbers
  <2>4. n - 1 \in Nat /\ (n - 1) + 1 = n /\ n \in 1 .. n
    BY <1>1
  <2>5. Fits(n)
    <3> DEFINE k == n - 1
    <3>1. k \in T /\ k + 1 = n
      BY <2>3, <2>4
    <3> HIDE DEF k
    <3>2. Fits(k + 1)
      BY <1>1, <3>1
    <3> QED
      BY <3>1, <3>2
  <2>6. ~(n < n)
    BY <1>1
  <2> QED
    BY <2>4, <2>5, <2>6
<1> HIDE DEF AtEnd
<1>6. w \in 1 .. n
  BY <1>1, <1>5
<1>7. tail \in Seq(Entry \cup {Torn})
  <2>1. <<>> \in Seq(Entry \cup {Torn}) /\ <<Torn>> \in Seq(Entry \cup {Torn})
    OBVIOUS
  <2>2. Empty \in Entry \cup {Torn}
    BY PathAssumption
  <2>3. <<Empty>> \in Seq(Entry \cup {Torn})
    BY <2>2
  <2> QED
    BY <2>1, <2>3
<1> HIDE DEF w, tail
<1>8. /\ SubSeq(p, 1, w) \in Seq(Entry \cup {Torn})
      /\ Len(SubSeq(p, 1, w)) = w /\ SubSeq(p, 1, w)[1] = p[1]
  BY <1>1, <1>6 DEF n
<1> DEFINE s == SubSeq(p, 1, w)
<1> HIDE DEF s
<1>9. s \o tail \in Seq(Entry \cup {Torn}) /\ Head(s \o tail) = s[1]
  BY <1>6, <1>7, <1>8 DEF s
<1> QED
  BY <1>4, <1>8, <1>9 DEF s

LEMMA InOrderBehind ==
  ASSUME NEW p \in Seq(Entry), NEW target \in Int
  PROVE  LET q == KexpShrinkDllPathLength(p, target)
         IN /\ q \in Seq(Entry)
            /\ \A pre \in Seq(Entry) : InOrder(pre \o q) = InOrder(pre \o p)
BY ShrinkRight DEF Shrunk

LEMMA Wider ==
  ASSUME NEW s \in Seq(Entry)
  PROVE  s \in Seq(Entry \cup {Torn})
<1>1. s \in [1 .. Len(s) -> Entry] /\ Len(s) \in Nat
  OBVIOUS
<1>2. s \in [1 .. Len(s) -> Entry \cup {Torn}]
  BY <1>1
<1> QED
  BY <1>1, <1>2

LEMMA AddedTyped ==
  ASSUME NEW p \in Seq(Entry)
  PROVE  /\ KexpAddKex3264ToDllPath(p) \in Seq(Entry \cup {Torn})
         /\ ~TooShort(Normalized(p)) => Head(KexpAddKex3264ToDllPath(p)) = KexDir
<1> DEFINE n == Normalized(p)
           target == PathCch(n) - (Cch[KexDir] + 1)
           q == KexpShrinkDllPathLength(n, target)
           a == <<KexDir>> \o q
           new == KexpAddKex3264ToDllPath(p)
<1>1. n \in Seq(Entry) /\ PathCch(n) = PathCch(p) /\ PathCch(p) \in Int
  BY NormalizedCch, CchTyped
<1>2. Cch[KexDir] \in Nat /\ KexDir \in Entry /\ Empty \in Entry /\ Cch[Empty] = 0
  BY PathAssumption
<1>3. new = IF TooShort(n) THEN n
            ELSE IF PathCch(q) + 1 <= target
                 THEN KexpPadDllPathToOriginalLength(a, PathCch(p))
                 ELSE CutTo(a \o <<Empty>>, PathCch(p) + 1)
  BY DEF KexpAddKex3264ToDllPath
<1>4. TooShort(n) <=> PathCch(n) <= Cch[KexDir]
  BY DEF TooShort
<1> HIDE DEF n, new
<1>5. target \in Int
  BY <1>1, <1>2
<1>6. q \in Seq(Entry) /\ PathCch(q) \in Int
  BY <1>1, <1>5, InOrderBehind, CchTyped
<1>7. PathCch(q) + 1 <= target <=> PathCch(q) + 1 + (Cch[KexDir] + 1) <= PathCch(p)
  BY <1>1, <1>2, <1>6
<1> HIDE DEF q, target
<1>8. a \in Seq(Entry) /\ Head(a) = KexDir /\ Len(a) >= 1 /\ a[1] = KexDir
  BY <1>2, <1>6
<1>9. PathCch(a) = Cch[KexDir] + (PathCch(q) + 1)
  <2> DEFINE k == <<KexDir>>
  <2>1. k \in Seq(Entry) /\ PathCch(k) = Cch[KexDir]
    BY <1>2, CchOne
  <2> HIDE DEF k
  <2>2. PathCch(k \o q) = PathCch(k) + (PathCch(q) + 1)
    BY <1>6, <2>1, CchConcat
  <2> QED
    BY <2>1, <2>2 DEF k
<1> HIDE DEF a
<1>10. CASE TooShort(n)
  BY <1>1, <1>3, <1>10, Wider DEF n, new
<1>11. CASE ~TooShort(n) /\ PathCch(q) + 1 <= target
  <2> DEFINE m == PathCch(p) - PathCch(a)
             pad == [i \in 1 .. m |-> Empty]
  <2>1. m \in Nat
    BY <1>1, <1>2, <1>6, <1>7, <1>9, <1>11
  <2>2. new = a \o pad
    BY <1>3, <1>11 DEF KexpPadDllPathToOriginalLength
  <2> HIDE DEF m
  <2>3. pad \in Seq(Entry)
    BY <1>2, <2>1
  <2> HIDE DEF pad
  <2>4. a \o pad \in Seq(Entry) /\ Head(a \o pad) = KexDir
    BY <1>8, <2>3
  <2> QED
    BY <2>2, <2>4, Wider DEF new
<1>12. CASE ~TooShort(n) /\ ~(PathCch(q) + 1 <= target)
  <2> DEFINE s == a \o <<Empty>>
             cch == PathCch(p) + 1
  <2>1. s \in Seq(Entry) /\ 1 <= Len(s) /\ s[1] = KexDir
    BY <1>2, <1>8
  <2>2. new = CutTo(s, cch)
    BY <1>3, <1>12
  <2>3. cch \in Int /\ Cch[KexDir] <= cch
    BY <1>1, <1>2, <1>4, <1>12
  <2> HIDE DEF s, cch
  <2>4. CutTo(s, cch) \in Seq(Entry \cup {Torn}) /\ Head(CutTo(s, cch)) = s[1]
    BY <2>1, <2>3, CutKeepsHead
  <2> QED
    BY <2>1, <2>2, <2>4 DEF new
<1> QED
  BY <1>10, <1>11, <1>12

LEMMA AddedInOrder ==
  ASSUME NEW p \in Seq(Entry), ~TooShort(Normalized(p)), HasRoom(p)
  PROVE  Extended(p, KexpAddKex3264ToDllPath(p))
<1> DEFINE n == Normalized(p)
           target == PathCch(n) - (Cch[KexDir] + 1)
           q == KexpShrinkDllPathLength(n, target)
           a == <<KexDir>> \o q
           new == KexpAddKex3264ToDllPath(p)
<1>1. n \in Seq(Entry) /\ PathCch(n) = PathCch(p) /\ PathCch(p) \in Int
  BY NormalizedCch, CchTyped
<1>2. Cch[KexDir] \in Nat /\ KexDir \in Entry
  BY PathAssumption
<1>3. new = IF PathCch(q) + 1 <= target
            THEN KexpPadDllPathToOriginalLength(a, PathCch(p))
            ELSE CutTo(a \o <<Empty>>, PathCch(p) + 1)
  BY DEF KexpAddKex3264ToDllPath
<1>4. PathCch(AllOnce(n)) + 1 + Cch[KexDir] + 1 <= PathCch(p)
  BY RoomIs
<1>5. Extended(p, new) <=>
        SearchOrder(new) = SearchOrder(<<KexDir>> \o n) /\ PathCch(new) = PathCch(p)
  BY DEF Extended
<1> HIDE DEF n, new
<1>6. target \in Int
  BY <1>1, <1>2
<1>7. AllOnce(n) \in Seq(Entry)
  BY <1>1, DroppedTyped DEF AllOnce
<1>8. PathCch(AllOnce(n)) + 1 <= target
  <2>1. PathCch(AllOnce(n)) \in Int
    BY <1>7, CchTyped
  <2> QED
    BY <1>1, <1>2, <1>4, <2>1
<1>9. PathCch(q) + 1 <= target
  BY <1>1, <1>6, <1>8, ShrinkReaches
<1>10. /\ q \in Seq(Entry) /\ PathCch(q) \in Int
       /\ \A pre \in Seq(Entry) : InOrder(pre \o q) = InOrder(pre \o n)
  BY <1>1, <1>6, InOrderBehind, CchTyped
<1>11. PathCch(q) + 1 + (Cch[KexDir] + 1) <= PathCch(p)
  BY <1>1, <1>2, <1>9, <1>10
<1> HIDE DEF q, target
<1> DEFINE k == <<KexDir>>
<1>12. k \in Seq(Entry) /\ PathCch(k) = Cch[KexDir]
  BY <1>2, CchOne
<1>13. a = k \o q /\ a \in Seq(Entry)
  BY <1>10, <1>12
<1> HIDE DEF k
<1>14. PathCch(a) = Cch[KexDir] + (PathCch(q) + 1)
  <2>1. PathCch(k \o q) = PathCch(k) + (PathCch(q) + 1)
    BY <1>10, <1>12, CchConcat
  <2> QED
    BY <1>12, <1>13, <2>1
<1>15. InOrder(a) = InOrder(k \o n)
  BY <1>10, <1>12, <1>13
<1> HIDE DEF a
<1> DEFINE m == PathCch(p) - PathCch(a)
<1>16. m \in Nat /\ PathCch(a) + m = PathCch(p)
  BY <1>1, <1>2, <1>10, <1>11, <1>14
<1>17. new = a \o [i \in 1 .. m |-> Empty]
  BY <1>3, <1>9 DEF KexpPadDllPathToOriginalLength
<1> HIDE DEF m
<1>18. new \in Seq(Entry) /\ PathCch(new) = PathCch(p) /\ InOrder(new) = InOrder(a)
  BY <1>13, <1>16, <1>17, Padding
<1>19. SearchOrder(new) = InOrder(new)
  BY <1>18, OrderIs
<1>20. SearchOrder(k \o n) = InOrder(k \o n)
  <2>1. k \o n \in Seq(Entry)
    BY <1>1, <1>12
  <2> QED
    BY <2>1, OrderIs
<1> QED
  BY <1>5, <1>15, <1>18, <1>19, <1>20 DEF k, new

-----------------------------------------------------------------------------
(***************************************************************************)
(* The search path, and with it what is left of the types.                 *)
(***************************************************************************)

\* The path is changed by the entry that starts KexDll and then no more.
PathRight ==
  /\ path \in Seq(Entry \cup {Torn})
  /\ boot.starts = 0 => path = settings.path

NamesStay == \A m \in Module : Len(image[m].names) = Len(Imports[m])

PInv == PathRight /\ NamesStay /\ faults \in 0 .. MaxFaults

LEMMA NamesKept ==
  ASSUME NEW m \in Module, NEW fault
  PROVE  /\ Len(Fresh(m).names) = Len(Imports[m])
         /\ Len(KexRewriteImageImportDirectory(m, fault).names) = Len(Imports[m])
<1> DEFINE s == Imports[m]
<1>1. Fresh(m).names = s /\ DOMAIN s = 1 .. Len(s) /\ Len(s) \in Nat
  BY ModuleAssumption DEF Fresh
<1>2. KexRewriteImageImportDirectory(m, fault) \in Image
  BY RewrittenType
<1>3. DOMAIN KexRewriteImageImportDirectory(m, fault).names = DOMAIN s
  BY DEF KexRewriteImageImportDirectory, Fresh
<1> DEFINE n == KexRewriteImageImportDirectory(m, fault).names
<1>4. n \in Seq(Name) /\ DOMAIN n = DOMAIN s
  BY <1>2, <1>3 DEF Image
<1> HIDE DEF n, s
<1>5. Len(n) = Len(s)
  BY <1>1, <1>4
<1> QED
  BY <1>1, <1>5 DEF n, s

\* A step leaves the names of an image or maps it again.
LEMMA NamesStayStep ==
  ASSUME IInv, NamesStay, [Next]_vars
  PROVE  NamesStay'
<1>1. IInv'
  BY Steps
<1>2. image \in [Module -> Image] /\ image' \in [Module -> Image]
  BY <1>1 DEF IInv, Typed
<1>3. ASSUME NEW m, NEW x, image' = [image EXCEPT ![m] = x],
             m \in Module => Len(x.names) = Len(Imports[m])
      PROVE  NamesStay'
  BY <1>2, <1>3 DEF NamesStay
<1>4. ASSUME \A m \in Module : image'[m].names = image[m].names
      PROVE  NamesStay'
  BY <1>4 DEF NamesStay
<1>5. CASE UNCHANGED image
  BY <1>4, <1>5
<1>6. CASE DllMain
  <2>1. CASE Start
    <3>1. PICK fault : image' = [image EXCEPT ![Exe] = KexRewriteImageImportDirectory(Exe, fault)]
      BY <2>1 DEF Start
    <3> QED
      BY <1>3, <3>1, NamesKept
  <2> QED
    BY <1>5, <1>6, <2>1 DEF DllMain
<1>7. ASSUME NEW t \in Thread, MapNext(t) PROVE NamesStay'
  <2>1. UNCHANGED image \/ \E m, fault : Mapped(m, fault)
    BY <1>7 DEF MapNext
  <2>2. ASSUME NEW m, NEW fault, Mapped(m, fault) PROVE NamesStay'
    <3>1. \/ image' = [image EXCEPT ![m] = Fresh(m)]
          \/ image' = [image EXCEPT ![m] = KexRewriteImageImportDirectory(m, fault)]
      BY <2>2 DEF Mapped
    <3> QED
      BY <1>3, <3>1, NamesKept
  <2> QED
    BY <1>5, <2>1, <2>2
<1>8. ASSUME NEW m, image' = [image EXCEPT ![m].ready = TRUE] PROVE NamesStay'
  <2>1. \A n \in Module : image'[n].names = image[n].names
    BY <1>2, <1>8 DEF Image
  <2> QED
    BY <1>4, <2>1
<1>9. ASSUME NEW t \in Thread, CodeReturns(t) PROVE NamesStay'
  BY <1>8, <1>9 DEF CodeReturns
<1>10. ASSUME NEW t \in Thread, LoadReturns(t) PROVE NamesStay'
  BY <1>5, <1>8, <1>10 DEF LoadReturns
<1>11. ASSUME NEW t \in Thread, LoadFails(t) PROVE NamesStay'
  <2>1. image' = [n \in Module |-> IF n \in Range(Head(stack[t]).init)
                                   THEN [image[n] EXCEPT !.mapped = FALSE] ELSE image[n]]
    BY <1>11 DEF LoadFails
  <2>2. \A n \in Module : [image[n] EXCEPT !.mapped = FALSE].names = image[n].names
    BY <1>2 DEF Image
  <2>3. \A n \in Module : image'[n].names = image[n].names
    BY <2>1, <2>2
  <2> QED
    BY <1>4, <2>3
<1>12. ASSUME NEW t \in Thread,
              InitNext(t) \/ LoadLibrary(t) \/ \E m \in Module : Call(t, m)
       PROVE  UNCHANGED image
  BY <1>12 DEF InitNext, LoadLibrary, Call
<1>13. LoadProgram \/ UNCHANGED vars => UNCHANGED image
  BY DEF LoadProgram, vars
<1> QED
  BY <1>5, <1>6, <1>7, <1>9, <1>10, <1>11, <1>12, <1>13 DEF Next

LEMMA FaultsBound ==
  ASSUME faults \in 0 .. MaxFaults, [Next]_vars
  PROVE  faults' \in 0 .. MaxFaults
<1>1. MaxFaults \in Nat
  BY SettingsAssumption
<1>2. faults' = faults \/ (faults < MaxFaults /\ faults' = faults + 1)
  BY FaultSteps DEF Fault
<1> QED
  BY <1>1, <1>2

\* Either KexDll is started, or the path stays and so does the count of starts.
LEMMA PathSteps ==
  ASSUME IInv, [Next]_vars
  PROVE  \/ /\ boot.starts = 0 /\ boot'.starts = 1
            /\ path' = KexpAddKex3264ToDllPath(path)
         \/ UNCHANGED path /\ boot'.starts = boot.starts
<1>1. IInv'
  BY Steps
<1>2. boot \in [entered : 0 .. 3, starts : Nat,
                phase : {"entering", "loading", "running", "failed"}]
  BY DEF IInv, Typed
<1>3. boot.starts \in {0, 1} /\ boot'.starts \in {0, 1}
  BY <1>1 DEF IInv, StartsMatchEntries
<1>4. CASE UNCHANGED vars
  BY <1>4 DEF vars
<1>5. CASE DllMain /\ Start
  <2>1. path' = KexpAddKex3264ToDllPath(path) /\ boot'.starts = boot.starts + 1
    BY <1>2, <1>5 DEF Start
  <2> QED
    BY <1>3, <2>1
<1>6. CASE DllMain /\ ~Start
  BY <1>2, <1>6 DEF DllMain
<1>7. CASE LoadProgram
  BY <1>2, <1>7 DEF LoadProgram
<1>8. ASSUME NEW t \in Thread,
             \/ MapNext(t) \/ InitNext(t) \/ CodeReturns(t)
             \/ LoadLibrary(t) \/ LoadReturns(t) \/ LoadFails(t)
             \/ \E m \in Module : Call(t, m)
      PROVE  UNCHANGED path /\ boot'.starts = boot.starts
  <2>1. MapNext(t) => UNCHANGED <<path, boot>>
    BY Zenon DEF MapNext
  <2>2. InitNext(t) \/ CodeReturns(t) => UNCHANGED <<path, boot>>
    BY Zenon DEF InitNext, CodeReturns
  <2>3. LoadLibrary(t) => UNCHANGED <<path, boot>>
    BY Zenon DEF LoadLibrary
  <2>4. (\E m \in Module : Call(t, m)) => UNCHANGED <<path, boot>>
    BY Zenon DEF Call
  <2>5. LoadReturns(t) => /\ UNCHANGED path
                          /\ boot' = boot \/ boot' = [boot EXCEPT !.phase = "running"]
    BY Zenon DEF LoadReturns
  <2>6. LoadFails(t) => /\ UNCHANGED path
                        /\ boot' = boot \/ boot' = [boot EXCEPT !.phase = "failed"]
    BY Zenon DEF LoadFails
  <2>7. UNCHANGED path /\ (boot' = boot \/ \E p : boot' = [boot EXCEPT !.phase = p])
    BY <1>8, <2>1, <2>2, <2>3, <2>4, <2>5, <2>6
  <2> QED
    BY <1>2, <2>7
<1> QED
  BY <1>4, <1>5, <1>6, <1>7, <1>8 DEF Next

LEMMA PathRightStep ==
  ASSUME IInv, PathRight, [Next]_vars
  PROVE  PathRight'
<1>1. settings.path \in Seq(Entry) /\ UNCHANGED settings
  BY SettingsStay DEF IInv, Typed, Setting
<1>2. CASE boot.starts = 0 /\ boot'.starts = 1 /\ path' = KexpAddKex3264ToDllPath(path)
  <2>1. path \in Seq(Entry)
    BY <1>1, <1>2 DEF PathRight
  <2>2. path' \in Seq(Entry \cup {Torn})
    BY <1>2, <2>1, AddedTyped
  <2> QED
    BY <1>2, <2>2 DEF PathRight
<1>3. CASE UNCHANGED path /\ boot'.starts = boot.starts
  BY <1>1, <1>3 DEF PathRight
<1> QED
  BY <1>2, <1>3, PathSteps

LEMMA PInitHolds == Init => PInv
<1> SUFFICES ASSUME Init PROVE PInv
  OBVIOUS
<1>1. IInv
  BY InitHolds
<1>2. settings.path \in Seq(Entry) /\ path = settings.path
  BY <1>1 DEF Init, IInv, Typed, Setting
<1>3. PathRight
  BY <1>2, Wider DEF PathRight
<1>4. NamesStay
  <2> SUFFICES ASSUME NEW m \in Module PROVE Len(image[m].names) = Len(Imports[m])
    BY DEF NamesStay
  <2>1. image[m].names = Fresh(m).names
    BY DEF Init, Fresh
  <2> QED
    BY <2>1, NamesKept
<1>5. faults \in 0 .. MaxFaults
  BY SettingsAssumption DEF Init
<1> QED
  BY <1>3, <1>4, <1>5 DEF PInv

LEMMA PSteps == IInv /\ PInv /\ [Next]_vars => PInv'
BY NamesStayStep, FaultsBound, PathRightStep DEF PInv

THEOREM PathInvariance == Spec => [](IInv /\ PInv)
<1>1. Init => IInv /\ PInv
  BY InitHolds, PInitHolds
<1>2. (IInv /\ PInv) /\ [Next]_vars => (IInv /\ PInv)'
  BY Steps, PSteps
<1> QED
  BY <1>1, <1>2, PTL DEF Spec

\* The type invariant.
THEOREM TypeCorrect == Spec => []TypeOK
<1>1. IInv /\ PInv => TypeOK
  <2> SUFFICES ASSUME IInv, PInv PROVE TypeOK
    OBVIOUS
  <2>1. StartedInTime
    BY DEF IInv, StartsMatchEntries, EnteredFirst, StartedInTime
  <2>2. \A m \in Module :
          /\ image[m] \in [mapped : BOOLEAN, names : Seq(DOMAIN File),
                           bound : BOOLEAN, ready : BOOLEAN]
          /\ Len(image[m].names) = Len(Imports[m])
    BY DEF IInv, Typed, PInv, NamesStay, Image, Name
  <2> QED
    BY <2>1, <2>2 DEF TypeOK, IInv, Typed, PInv, PathRight
<1> QED
  BY <1>1, PathInvariance, PTL

\* The step that starts KexDll puts its directory in front of any path that is
\* long enough; when the path without its duplicates makes room, it is searched
\* in the order it had, to the last directory, and is as long as it was
\* (dllpath.c:17-27).
THEOREM PathStays == Spec => PathIsKept
<1>1. IInv /\ PInv /\ [Next]_vars =>
        [boot'.starts > boot.starts =>
           /\ ~TooShort(Normalized(path)) => Head(path') = KexDir
           /\ ~TooShort(Normalized(path)) /\ HasRoom(path) => Extended(path, path')]_vars
  <2> SUFFICES ASSUME IInv, PInv, [Next]_vars, boot'.starts > boot.starts,
                      ~TooShort(Normalized(path))
               PROVE  /\ Head(path') = KexDir
                      /\ HasRoom(path) => Extended(path, path')
    OBVIOUS
  <2>1. boot.starts \in Nat
    BY DEF IInv, Typed
  <2>2. boot.starts = 0 /\ path' = KexpAddKex3264ToDllPath(path)
    BY <2>1, PathSteps
  <2>3. path \in Seq(Entry)
    BY <2>2 DEF PInv, PathRight, IInv, Typed, Setting
  <2> QED
    BY <2>2, <2>3, AddedTyped, AddedInOrder
<1> QED
  BY <1>1, PathInvariance, PTL DEF Spec, PathIsKept
=============================================================================
