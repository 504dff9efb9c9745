----------------------------- MODULE KexConfig -----------------------------
(***************************************************************************)
(* The configuration of programs (KxCfgHlp): values in a program's key of  *)
(* Image File Execution Options, which the loader, other products and the  *)
(* tools of VxKex share.  KxCfgSetConfiguration and                        *)
(* KxCfgDeleteConfiguration write one value after the other and stop at    *)
(* the first that fails; inside a transaction they are such a sequence     *)
(* that nobody overlaps and that ends well, or nothing.  Setup changes all *)
(* keys in one transaction.                                                *)
(***************************************************************************)
EXTENDS Naturals, Sequences, FiniteSets, Functions

CONSTANTS
  Key, Template,       \* keys of programs, in both views; the internal one
  Tool,                \* processes that change the configuration
  Absent,              \* a value that a key does not have
  Data,                \* contents of a KEX_ value
  Dwords,              \* the KEX_ values that are DWORDs, in writing order
  KexDll, Foreign,     \* names in VerifierDlls: ours, those of other products
  Alike,               \* those of other products that contain ours
  Lists,               \* what other products put into it
  Cut, Room,           \* what is left of a name; names a list has room for
  Command,             \* our launch command; those of other products, among
  Debugger, Legacy,    \* them that of versions before 0.0.0.3
  Configuration,       \* what the tools ask for, and
  NoConfiguration,     \* the one of all zeroes, which means deletion
  NoStore,
  MaxCalls, MaxEdits   \* bounds: calls, edits of others

KexName == {"KEX_ConfigPath"} \cup Range(Dwords)

ASSUME TemplateAssumption == Template \in Key
ASSUME NameAssumption ==
  /\ KexDll \notin Foreign /\ Cut \notin Foreign \cup {KexDll}
  /\ Absent \notin Data \cup Debugger \cup {Command}
  /\ \A list \in SUBSET (Foreign \cup {KexDll, Cut}) : Absent # list
  /\ \A flags \in SUBSET {"verifier", "snaps"} : Absent # flags
  /\ Absent \notin {"zero", "full", "other"}
  /\ Command \notin Debugger /\ Legacy \in Debugger
  /\ Lists \subseteq SUBSET Foreign /\ IsFiniteSet(Foreign)
  /\ Alike \subseteq Foreign
  /\ Room \in Nat \ {0}
ASSUME ConfigurationAssumption ==
  /\ Configuration \subseteq [enabled : BOOLEAN, launch : BOOLEAN, data : Data]
  /\ \A c \in Configuration : c.launch => c.enabled
  /\ NoConfiguration \notin Configuration
  /\ Dwords \in Seq(STRING)

VARIABLES
  key,       \* the values of each key
  op,        \* the call that a tool executes
  installed, \* the files of the product are there
  store,     \* the saved configurations of an uninstallation
  disputed,  \* history: keys on which calls overlapped one another or set-up
  calls, edits

cfgVars == <<key, op, installed, store, disputed, calls, edits>>

NoValues == [n \in KexName |-> Absent]
Empty ==
  [dlls |-> Absent, flags |-> Absent, vflags |-> Absent, kex |-> NoValues,
   marker |-> Absent, debugger |-> Absent]

\* config: the parameter.  dlls, flags, vflags: what will be written.  i: the
\* DWORD that is next.  sure, history: nobody else has changed the key since
\* the call has read it, and its list had room.
NoCall ==
  [pc |-> "idle", key |-> Template, config |-> NoConfiguration, i |-> 1,
   dlls |-> {}, flags |-> {}, vflags |-> "zero", sure |-> TRUE]

Init ==
  /\ key = [k \in Key |-> Empty]
  /\ op = [t \in Tool |-> NoCall]
  /\ installed = FALSE
  /\ store = NoStore
  /\ disputed = {}
  /\ calls = 0 /\ edits = 0

-----------------------------------------------------------------------------
(* Reading a key *)

\* A list that is longer than the buffer cannot be read: RegReadString leaves
\* an empty one, ReadText fails.
Listed(dlls) == IF dlls = Absent THEN {} ELSE dlls
Readable(dlls) == Cardinality(Listed(dlls) \ {Cut}) <= Room
ReadString(dlls) == IF Readable(dlls) THEN Listed(dlls) ELSE {}
ReadFlags(flags) == IF flags = Absent THEN {} ELSE flags
ReadVerifierFlags(vflags) == IF vflags = Absent THEN "zero" ELSE vflags

HasRoom(dlls) == KexDll \in dlls \/ Cardinality(dlls \ {Cut}) < Room

\* Mutant: the name is not looked for as a whole token.
RemoveAll(dlls) == {}

\* KxCfgpRemoveKexDllFromVerifierDlls
RemoveKexDll(dlls) == dlls \ {KexDll}

\* StringSearchI finds our name inside a longer one too.
Mentions(dlls) == dlls \cap ({KexDll} \cup Alike) # {}

\* A name for which there is no room is cut off without notice.
AddKexDll(dlls) ==
  IF Mentions(dlls) THEN dlls ELSE dlls \cup {IF HasRoom(dlls) THEN KexDll ELSE Cut}

\* What a start of the program obeys: the loader parses the list into names.
\* Our launch command is in force if it is the marked one.
Effective(r) ==
  [enabled |-> "verifier" \in ReadFlags(r.flags) /\ KexDll \in Listed(r.dlls),
   launch |-> r.debugger # Absent /\ r.debugger = r.marker,
   values |-> r.kex]

\* KxCfgGetConfiguration: what the tools show of it.
GetConfiguration(r) ==
  [Effective(r) EXCEPT !.enabled =
     "verifier" \in ReadFlags(r.flags) /\ Mentions(ReadString(r.dlls))]

Asked(c) ==
  IF c = NoConfiguration THEN [enabled |-> FALSE, launch |-> FALSE, values |-> NoValues]
  ELSE [enabled |-> c.enabled, launch |-> c.launch, values |-> [n \in KexName |-> c.data]]

-----------------------------------------------------------------------------
(* Steps of a call *)

\* A call that fails leaves its tool idle.
Ended == {"idle", "succeeded"}
On(k) == {t \in Tool : op[t].pc \notin Ended /\ op[t].key = k}
Overlapped(ks) ==
  [t \in Tool |-> IF \E k \in ks : t \in On(k) THEN [op[t] EXCEPT !.sure = FALSE] ELSE op[t]]

At(o, pc) == IF pc \in Ended THEN [NoCall EXCEPT !.pc = pc] ELSE [o EXCEPT !.pc = pc]
Goto(t, pc) == op' = [op EXCEPT ![t] = At(@, pc)]
Write(t, field, value) == key' = [key EXCEPT ![op[t].key][field] = value]
Elsewhere == UNCHANGED <<installed, store, disputed, calls, edits>>

Deleting(t) == op[t].config = NoConfiguration
Launching(t) == IF Deleting(t) THEN FALSE ELSE op[t].config.launch
Mine(t) == key[op[t].key]

\* The tools are files of the product.
Call(t, k, o) ==
  /\ installed /\ op[t].pc \in Ended
  /\ k # Template /\ calls < MaxCalls /\ calls' = calls + 1
  /\ op' = [Overlapped({k}) EXCEPT ![t] = o]
  /\ disputed' = IF On(k) = {} THEN disputed ELSE disputed \cup {k}
  /\ UNCHANGED <<key, installed, store, edits>>

\* KxCfgSetConfiguration computes the verifier's values before it writes.
SetConfiguration(t, k, c) ==
  LET dlls == ReadString(key[k].dlls)
      flags == ReadFlags(key[k].flags)
      off == KexDll \in dlls /\ RemoveKexDll(dlls) = {}
  IN
  Call(t, k,
    [NoCall EXCEPT
      !.pc = "path", !.key = k, !.config = c,
      !.dlls = IF c.enabled THEN AddKexDll(dlls) ELSE RemoveKexDll(dlls),
      !.flags = IF c.enabled THEN flags \cup {"verifier"}
                ELSE IF off THEN flags \ {"verifier"} ELSE flags,
      !.vflags = IF c.enabled THEN "full"
                 ELSE IF off THEN "zero" ELSE ReadVerifierFlags(key[k].vflags),
      !.sure = On(k) = {} /\ Readable(key[k].dlls) /\ (c.enabled => HasRoom(dlls))])

DeleteConfiguration(t, k) ==
  Call(t, k, [NoCall EXCEPT !.pc = "launcher", !.key = k, !.sure = On(k) = {}])

WritePath(t) ==
  /\ op[t].pc = "path"
  /\ key' = [key EXCEPT ![op[t].key].kex["KEX_ConfigPath"] = op[t].config.data]
  /\ Goto(t, "launcher")
  /\ Elsewhere

\* Mutant: the command is activated before its ownership is recorded.
ConfigureLauncherUnmarked(t) ==
  /\ op[t].pc = "launcher" /\ Launching(t)
  /\ IF installed /\ (Mine(t).debugger = Absent \/ Mine(t).debugger = Mine(t).marker)
     THEN Write(t, "debugger", Command) /\ Goto(t, "activate")
     ELSE Goto(t, "idle") /\ UNCHANGED key
  /\ Elsewhere

\* KxCfgpConfigureVistaLauncher: a launch command that is not ours stays.
ConfigureLauncher(t) ==
  /\ op[t].pc = "launcher" /\ Launching(t)
  /\ IF installed /\ (Mine(t).debugger = Absent \/ Mine(t).debugger = Mine(t).marker)
     THEN Write(t, "marker", Command) /\ Goto(t, "activate")
     ELSE Goto(t, "idle") /\ UNCHANGED key
  /\ Elsewhere

Activate(t) ==
  /\ op[t].pc = "activate"
  /\ Write(t, "debugger", Command)
  /\ Goto(t, "values")
  /\ Elsewhere

\* VistaRemoveManagedDebugger: the command, if it is still ours, and then the
\* mark.
RemoveDebugger(t) ==
  /\ op[t].pc = "launcher" /\ ~Launching(t)
  /\ IF Mine(t).marker # Absent /\ Mine(t).debugger = Mine(t).marker
     THEN Write(t, "debugger", Absent) ELSE UNCHANGED key
  /\ Goto(t, IF Mine(t).marker # Absent THEN "unmark"
             ELSE IF Deleting(t) THEN "settings" ELSE "values")
  /\ Elsewhere

RemoveMarker(t) ==
  /\ op[t].pc = "unmark"
  /\ Write(t, "marker", Absent)
  /\ Goto(t, IF Deleting(t) THEN "settings" ELSE "values")
  /\ Elsewhere

WriteDword(t) ==
  /\ op[t].pc = "values" /\ op[t].i <= Len(Dwords)
  /\ key' = [key EXCEPT ![op[t].key].kex[Dwords[op[t].i]] = op[t].config.data]
  /\ op' = [op EXCEPT ![t].i = @ + 1]
  /\ Elsewhere

WriteGlobalFlag(t) ==
  /\ op[t].pc = "values" /\ op[t].i > Len(Dwords)
  /\ Write(t, "flags", op[t].flags)
  /\ Goto(t, "vflags")
  /\ Elsewhere

WriteVerifierFlags(t) ==
  /\ op[t].pc = "vflags"
  /\ Write(t, "vflags", op[t].vflags)
  /\ Goto(t, "dlls")
  /\ Elsewhere

WriteVerifierDlls(t) ==
  /\ op[t].pc = "dlls"
  /\ Write(t, "dlls", op[t].dlls)
  /\ Goto(t, "succeeded")
  /\ Elsewhere

\* KxCfgDeleteConfiguration: every KEX_ value, in the order of enumeration,
DeleteSetting(t) ==
  LET r == Mine(t) IN
  /\ op[t].pc = "settings"
  /\ \/ \E n \in KexName :
          /\ r.kex[n] # Absent
          /\ key' = [key EXCEPT ![op[t].key].kex[n] = Absent]
          /\ UNCHANGED op
     \/ r.marker # Absent /\ Write(t, "marker", Absent) /\ UNCHANGED op
     \/ r.kex = NoValues /\ r.marker = Absent /\ Goto(t, "read") /\ UNCHANGED key
  /\ Elsewhere

\* then the list of verifiers, if we are in it,
ReadVerifierDlls(t) ==
  LET dlls == Mine(t).dlls IN
  /\ op[t].pc = "read"
  /\ op' = [op EXCEPT ![t] =
       At([@ EXCEPT !.dlls = RemoveKexDll(ReadString(dlls))],
          IF ~Readable(dlls) THEN "idle"
          ELSE IF KexDll \in ReadString(dlls) THEN "remove" ELSE "succeeded")]
  /\ Elsewhere /\ UNCHANGED key

RemoveFromList(t) ==
  /\ op[t].pc = "remove"
  /\ Write(t, "dlls", IF op[t].dlls = {} THEN Absent ELSE op[t].dlls)
  /\ op' = [op EXCEPT ![t] =
       At([@ EXCEPT !.flags = ReadFlags(Mine(t).flags)],
          IF op[t].dlls = {} /\ "verifier" \in ReadFlags(Mine(t).flags)
          THEN "clear" ELSE "succeeded")]
  /\ Elsewhere

\* and the verifier itself, if nobody else is in the list.
ClearGlobalFlag(t) ==
  LET flags == op[t].flags \ {"verifier"} IN
  /\ op[t].pc = "clear"
  /\ Write(t, "flags", IF flags = {} THEN Absent ELSE flags)
  /\ Goto(t, "forget")
  /\ Elsewhere

\* Whether this deletion fails is not looked at.
DeleteVerifierFlags(t) ==
  /\ op[t].pc = "forget"
  /\ Write(t, "vflags", Absent) \/ UNCHANGED key
  /\ Goto(t, "succeeded")
  /\ Elsewhere

\* A value cannot be written or deleted, or the process ends: what has been
\* written stays.
Abort(t) ==
  /\ op[t].pc \notin Ended
  /\ Goto(t, "idle")
  /\ Elsewhere /\ UNCHANGED key

ToolStep(t) ==
  \/ \E k \in Key, c \in Configuration : SetConfiguration(t, k, c)
  \/ \E k \in Key : DeleteConfiguration(t, k)
  \/ WritePath(t) \/ ConfigureLauncher(t) \/ Activate(t)
  \/ RemoveDebugger(t) \/ RemoveMarker(t)
  \/ WriteDword(t) \/ WriteGlobalFlag(t) \/ WriteVerifierFlags(t) \/ WriteVerifierDlls(t)
  \/ DeleteSetting(t) \/ ReadVerifierDlls(t) \/ RemoveFromList(t)
  \/ ClearGlobalFlag(t) \/ DeleteVerifierFlags(t) \/ Abort(t)

-----------------------------------------------------------------------------
(* Other products: they know nothing of the template *)

Edit(k, r) ==
  /\ edits < MaxEdits /\ edits' = edits + 1
  /\ key' = [key EXCEPT ![k] = r]
  /\ op' = Overlapped({k})
  /\ UNCHANGED <<installed, store, disputed, calls>>

\* Other verifiers enter or leave the list, with their options: that does not
\* switch us on or off.
EditVerifier(k, others) ==
  LET r == key[k]
      on == others # {} \/ KexDll \in Listed(r.dlls)
      edited == [r EXCEPT
        !.dlls = others \cup (Listed(@) \ Foreign),
        !.flags = IF on THEN ReadFlags(@) \cup {"verifier"} ELSE ReadFlags(@) \ {"verifier"},
        !.vflags = "other"]
  IN
  /\ Effective(edited) = Effective(r)
  /\ Edit(k, edited)

EditFlags(k) ==
  Edit(k, [key[k] EXCEPT !.flags =
    IF "snaps" \in ReadFlags(@) THEN @ \ {"snaps"} ELSE ReadFlags(@) \cup {"snaps"}])

EditDebugger(k, d) == Edit(k, [key[k] EXCEPT !.debugger = d])

OtherStep(k) ==
  \/ \E others \in Lists : EditVerifier(k, others)
  \/ EditFlags(k)
  \/ \E d \in Debugger : EditDebugger(k, d)

-----------------------------------------------------------------------------
(* Set-up: all keys in one transaction, which any error rolls back *)

Owns(r) == r.debugger # Absent /\ r.debugger = r.marker

\* Mutant: only programs for which we are switched on are looked for.
HasConfigurationOn(r) == KexDll \in ReadString(r.dlls)

HasConfiguration(r) ==
  r.kex # NoValues \/ r.marker # Absent \/ KexDll \in ReadString(r.dlls)

\* A configuration of an old version is not left behind in silence.
Refuses(r) == ~Readable(r.dlls) \/ r.debugger = Legacy

\* Mutant: the launch command is saved without a look at its owner.
SaveAnyDebugger(r) ==
  [kex |-> r.kex, marker |-> r.marker, debugger |-> r.debugger,
   enabled |-> KexDll \in ReadString(r.dlls) /\ "verifier" \in ReadFlags(r.flags),
   vflags |-> ReadVerifierFlags(r.vflags)]

\* KxCfgpPreserveIfeoConfiguration: what it saves, and what it leaves.
Save(r) ==
  [kex |-> r.kex, marker |-> r.marker,
   debugger |-> IF Owns(r) THEN r.debugger ELSE Absent,
   enabled |-> KexDll \in ReadString(r.dlls) /\ "verifier" \in ReadFlags(r.flags),
   vflags |-> ReadVerifierFlags(r.vflags)]

Disable(r) ==
  LET ours == KexDll \in ReadString(r.dlls)
      others == RemoveKexDll(ReadString(r.dlls))
      last == ours /\ others = {}
  IN
  [r EXCEPT
    !.debugger = IF Owns(r) THEN Absent ELSE @,
    !.marker = Absent,
    !.kex = NoValues,
    !.dlls = IF last THEN Absent ELSE IF ours THEN others ELSE @,
    !.flags = IF last THEN ReadFlags(@) \ {"verifier"} ELSE @,
    !.vflags = IF last THEN Absent ELSE @]

\* KxCfgpRestoreIfeoConfiguration: what somebody has configured since stays.
Conflicts(r, s) ==
  LET dlls == ReadString(r.dlls) IN
  \/ ~Readable(r.dlls)
  \/ s.debugger # Absent /\ r.debugger \notin {Absent, s.debugger}
  \/ s.marker # Absent /\ r.marker \notin {Absent, s.marker}
  \/ \E n \in KexName : s.kex[n] # Absent /\ r.kex[n] \notin {Absent, s.kex[n]}
  \/ s.enabled /\ RemoveKexDll(dlls) # {} /\ ReadVerifierFlags(r.vflags) # s.vflags
  \/ s.enabled /\ ~HasRoom(dlls)

Chosen(saved, current) == IF saved = Absent THEN current ELSE saved

Restored(r, s) ==
  [r EXCEPT
    !.kex = [n \in KexName |-> Chosen(s.kex[n], r.kex[n])],
    !.marker = Chosen(s.marker, @),
    !.debugger = Chosen(s.debugger, @),
    !.dlls = IF s.enabled THEN ReadString(@) \cup {KexDll} ELSE @,
    !.flags = IF s.enabled THEN ReadFlags(@) \cup {"verifier"} ELSE @,
    !.vflags = IF s.enabled THEN s.vflags ELSE @]

\* KxCfgpConfigurePropagationTemplate
TemplateFits(r) == Readable(r.dlls) /\ HasRoom(ReadString(r.dlls))
Provided(r) ==
  LET others == RemoveKexDll(ReadString(r.dlls)) IN
  [r EXCEPT
    !.dlls = others \cup {KexDll},
    !.flags = ReadFlags(@) \cup {"verifier"},
    !.vflags = IF others = {} /\ ReadVerifierFlags(@) = "zero" THEN "full"
               ELSE ReadVerifierFlags(@)]

Commit ==
  /\ op' = Overlapped(Key)
  /\ disputed' = disputed \cup {k \in Key : On(k) # {}}
  /\ UNCHANGED <<calls, edits>>

User == Key \ {Template}

\* The settings of the user's programs are saved, once.
Preserve(ks) ==
  /\ store = NoStore
  /\ \A k \in User : ~Refuses(key[k])
  /\ store' = [k \in {u \in User : HasConfiguration(key[u])} |-> Save(key[k])]
  /\ key' = [k \in Key |-> IF k \in ks THEN Disable(key[k]) ELSE key[k]]

Restore(ks) ==
  /\ store # NoStore => \A k \in DOMAIN store : ~Conflicts(key[k], store[k])
  /\ key' = [k \in Key |->
       IF k \in ks THEN Provided(key[k])
       ELSE IF store # NoStore /\ k \in DOMAIN store THEN Restored(key[k], store[k])
       ELSE key[k]]
  /\ store' = NoStore

\* KxCfgPrepareUninstall
RemoveConfigurations(keep) ==
  \/ keep /\ Preserve(Key) /\ Readable(key[Template].dlls)
  \/ /\ ~keep
     /\ \A k \in Key : ~Refuses(key[k])
     /\ key' = [k \in Key |-> Disable(key[k])]
     /\ store' = NoStore

PreserveAllConfigurations ==
  installed /\ Preserve(User) /\ Commit /\ UNCHANGED installed

RestoreAllConfigurations ==
  installed /\ Restore({}) /\ Commit /\ UNCHANGED installed

PrepareUninstall(keep) ==
  installed /\ RemoveConfigurations(keep) /\ Commit /\ UNCHANGED installed

\* KxCfgpStageSetup
StageInstall ==
  /\ TemplateFits(key[Template])
  /\ Restore({Template}) /\ Commit
  /\ installed' = TRUE

StageUninstall(keep) ==
  /\ RemoveConfigurations(keep) /\ Commit
  /\ installed' = FALSE

SetupStep ==
  \/ PreserveAllConfigurations \/ RestoreAllConfigurations
  \/ StageInstall
  \/ \E keep \in BOOLEAN : PrepareUninstall(keep) \/ StageUninstall(keep)

-----------------------------------------------------------------------------
Next ==
  \/ \E t \in Tool : ToolStep(t)
  \/ \E k \in User : OtherStep(k)
  \/ SetupStep

Spec == Init /\ [][Next]_cfgVars

-----------------------------------------------------------------------------
DllList == {Absent} \cup SUBSET (Foreign \cup {KexDll, Cut})
FlagSet == SUBSET {"verifier", "snaps"}
VerifierFlags == {"zero", "full", "other"}
Values == [KexName -> Data \cup {Absent}]
Saved ==
  [kex : Values, marker : {Absent, Command}, debugger : {Absent, Command},
   enabled : BOOLEAN, vflags : VerifierFlags]
Setting == [enabled : BOOLEAN, launch : BOOLEAN, values : Values]

ASSUME StoreAssumption ==
  \A ks \in SUBSET Key : NoStore \notin [ks -> Saved] \cup [ks -> Setting]

KeyState ==
  [dlls : DllList, flags : {Absent} \cup FlagSet, vflags : {Absent} \cup VerifierFlags,
   kex : Values, marker : {Absent, Command}, debugger : Debugger \cup {Absent, Command}]

CallState ==
  [pc : Ended \cup {"path", "launcher", "activate", "unmark", "values", "vflags",
                    "dlls", "settings", "read", "remove", "clear", "forget"},
   key : Key, config : Configuration \cup {NoConfiguration}, i : Nat \ {0},
   dlls : DllList \ {Absent}, flags : FlagSet, vflags : VerifierFlags, sure : BOOLEAN]

TypeOK ==
  /\ key \in [Key -> KeyState]
  /\ op \in [Tool -> CallState]
  /\ installed \in BOOLEAN
  /\ store = NoStore \/ \E ks \in SUBSET User : store \in [ks -> Saved]
  /\ disputed \subseteq Key
  /\ calls \in Nat /\ edits \in Nat

\* At every instant, and whatever failed before, a launch command of ours in a
\* key is marked as ours and the program that it names is there: the mark is
\* written first and removed last (setcfg.c:56, VistaLaunch.h:64), and set-up
\* removes the files only with every command (setup.c:79).  Without the
\* command's file the program does not start any more; without the mark
\* nobody removes the command.
LaunchCommandWorks ==
  \A k \in Key : key[k].debugger = Command =>
    k \in disputed \/ (key[k].marker = Command /\ installed)

\* What other products have in the key.
Others(r) ==
  [dlls |-> Listed(r.dlls) \ {KexDll, Cut},
   flags |-> ReadFlags(r.flags) \ {"verifier"},
   debugger |-> IF r.debugger = Command THEN Absent ELSE r.debugger]

\* No call and no set-up changes the verifiers, flags or launch command of
\* another product (kxcfgp.c:40, delcfg.c:245, VistaLaunch.h:64), unless somebody
\* changed the key after the call had read it, or the list was too long.
OthersAreKept ==
  [][\A k \in Key :
       \/ Others(key[k])' = Others(key[k])
       \/ edits' # edits
       \/ \E t \in On(k) : ~op[t].sure]_cfgVars

\* In the place of our name, the list has one that contains it.
Shadowed(dlls) == KexDll \notin dlls /\ dlls \cap Alike # {}

\* The call shall switch us on, but such a name keeps ours out (setcfg.c:181).
Prevented(o) == o.config # NoConfiguration /\ o.config.enabled /\ Shadowed(o.dlls)

\* What is shown of a key may differ from what is in force: its list is too long
\* to be read, or shadowed.
Misread(r) == ~Readable(r.dlls) \/ Shadowed(Listed(r.dlls))

\* A call that succeeds, undisturbed and not prevented, leaves in force for the
\* program what it was asked for, from whatever earlier calls left half done;
\* removal takes all settings and the next installation brings back those that
\* were kept.  What is shown (getcfg.c:108) is what is in force, for every key
\* that is not misread.
Promised == INSTANCE ProgramSettings WITH
  Program <- Key,
  Settings <- Setting,
  None <- Asked(NoConfiguration),
  conf <- [k \in Key |-> Effective(key[k])],
  shown <- [k \in Key |-> GetConfiguration(key[k])],
  masked <- {k \in Key : Misread(key[k])},
  kept <- IF store = NoStore THEN NoStore
          ELSE [k \in DOMAIN store |->
                 [enabled |-> store[k].enabled, launch |-> store[k].debugger # Absent,
                  values |-> store[k].kex]],
  call <- [t \in Tool |->
            [pc |-> IF op[t].pc \in Ended THEN op[t].pc ELSE "busy",
             key |-> op[t].key, goal |-> Asked(op[t].config),
             sure |-> op[t].sure /\ ~Prevented(op[t])]]

ImplementsProgramSettings == Promised!Spec
=============================================================================
