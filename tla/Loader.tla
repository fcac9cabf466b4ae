------------------------------- MODULE Loader -------------------------------
(***************************************************************************)
(* Carbon's module loader: ModuleRegistry, Globals and the operations that *)
(* fill and empty them.                                                    *)
(*                                                                         *)
(* A path is a directory spelling and a module name, <<s, n>>; spellings   *)
(* of one directory have one canonical spelling.  A BinaryFile in memory   *)
(* is an id; it is owned by the registry entry that holds it and freed     *)
(* when that entry goes, while Globals only points into it.  The SsTypes a *)
(* file registers with the GC are left out: they are never removed.        *)
(*                                                                         *)
(* load_module_recursive is a recursion over "requires" whose top-levels   *)
(* and on_unload hooks run script code that may call load-module again, so *)
(* the C++ call stack is part of the state; an action is what happens      *)
(* between two calls.  A call that fails before it registers anything      *)
(* changes nothing and is left out.                                        *)
(***************************************************************************)
EXTENDS SequencesExt, FiniteSetsExt, Integers

CONSTANTS
  Names,       \* modules on disk, by logical name
  BinNames,    \* logical names given to load_module_from_binary
  Spellings,   \* ways to write the directories that hold modules
  CanonOf,     \* weakly_canonical on spellings
  Search,      \* CarbonConfig::search_paths and PROJECT, in order
  Exists,      \* canonical paths that exist on disk
  Symbols,     \* symbols that modules define
  Defs,        \* the symbols of each file on disk
  BinDefs,     \* the symbols a file made in memory may define
  Requires,    \* the "requires" entry of each module on disk: the possible ones
  MaxNesting,  \* loads in progress, one inside the top-level of another
  None

ASSUME LoaderAssumption ==
  /\ IsFiniteSet(Names) /\ IsFiniteSet(BinNames) /\ IsFiniteSet(Symbols)
  /\ CanonOf \in [Spellings -> Spellings]
  /\ \A s \in Spellings : CanonOf[CanonOf[s]] = CanonOf[s]
  /\ Search \in Seq(Spellings) /\ "mem" \notin Spellings
  /\ Exists \subseteq Range(CanonOf) \X Names
  /\ Names \cap BinNames = {}
  /\ Defs \in [Exists -> SUBSET Symbols]
  /\ BinDefs \subseteq SUBSET Symbols
  /\ Requires \subseteq [Names -> SUBSET Names]
  /\ MaxNesting \in Nat
  /\ None \notin Names \cup BinNames
  /\ None \notin [id : Nat, path : (Spellings \cup {"mem"}) \X (Names \cup BinNames)]
  /\ None \notin [id : Nat, owner : Names \cup BinNames]

VARIABLES
  byName,      \* ModuleRegistry::m_by_name
  byPath,      \* ModuleRegistry::m_by_path
  globals,     \* Globals::m_symbols
  stack,       \* calls in progress, innermost last
  visited,     \* already_loaded of each load_module_with_imports in progress
  requires,    \* the "requires" entries, fixed
  inited,      \* history: files whose top-level is reported done since they were registered
  uninit       \* history: files registered by a call that did not get to run their top-level

registry == <<byName, byPath, globals>>
history  == <<inited, uninit>>
vars     == <<registry, stack, visited, requires, history>>

Mem   == "mem"                                  \* m_path of a file made in memory
Paths == (Spellings \X Names) \cup ({Mem} \X BinNames)
Canon(p) == IF p[1] = Mem THEN p ELSE <<CanonOf[p[1]], p[2]>>

Loaded == {n \in Names \cup BinNames : byName[n] # None}
Owned  == {byName[n].id : n \in Loaded}
Held   == {stack[i].id : i \in DOMAIN stack}
Files  == Nat \ {0}                             \* what a BinaryFile's address may be
NoFile == 0

\* A file that nothing points to: the allocator may give a freed one again.
Fresh ==
  LET used == Owned \cup Held \cup {globals[s].id : s \in {s \in Symbols : globals[s] # None}}
  IN  Min((1 .. Cardinality(Names \cup BinNames) + Cardinality(Symbols) + Len(stack) + 1) \ used)

Init ==
  /\ byName = [n \in Names \cup BinNames |-> None]
  /\ byPath = [p \in Paths |-> None]
  /\ globals = [s \in Symbols |-> None]
  /\ stack = <<>> /\ visited = <<>>
  /\ requires \in Requires
  /\ inited = {} /\ uninit = {}

(***************************************************************************)
(* ModuleRegistry and Globals                                              *)
(***************************************************************************)
\* register_file_symbols: the last file to define a name owns it.
RegisterSymbols(n, syms, id) ==
  [s \in Symbols |-> IF s \in syms THEN [id |-> id, owner |-> n] ELSE globals[s]]

\* Globals::remove_module_symbols
Without(g, n) == [s \in Symbols |-> IF g[s] # None /\ g[s].owner = n THEN None ELSE g[s]]

\* Mutant of Insert: the index holds the path itself, not the module's name.
InsertPath(n, p, id) ==
  /\ byName' = [byName EXCEPT ![n] = [id |-> id, path |-> p]]
  /\ byPath' = [byPath EXCEPT ![p] = p]

\* ModuleRegistry::insert: an entry of the same name is freed with its file.
Insert(n, p, id) ==
  /\ byName' = [byName EXCEPT ![n] = [id |-> id, path |-> p]]
  /\ byPath' = [byPath EXCEPT ![p] = n]

\* Mutant of Erase: the path index is left alone.
EraseName(n) ==
  /\ byName' = [byName EXCEPT ![n] = None]
  /\ UNCHANGED byPath

\* ModuleRegistry::erase
Erase(n) ==
  /\ byName' = [byName EXCEPT ![n] = None]
  /\ byPath' = [byPath EXCEPT ![byName[n].path] = None]

\* load_module past its read of the file; a path that is known is "already loaded".
LoadModule(p) ==
  IF byPath[p] # None
  THEN UNCHANGED registry
  ELSE /\ globals' = RegisterSymbols(p[2], Defs[Canon(p)], Fresh)
       /\ Insert(p[2], p, Fresh)

(***************************************************************************)
(* The call stack.  A frame is one call of load_module_recursive ("load"   *)
(* while it goes through the requires, "top" while the top-level runs) or  *)
(* of unload_module ("hook") and reload_module ("again").                  *)
(***************************************************************************)
Frame(op, p, id, todo, root) ==
  [op |-> op, path |-> p, id |-> id, todo |-> todo, root |-> root, called |-> FALSE]

FrameType ==
  [op : {"load", "top", "hook", "again"}, path : Paths, id : Files \cup {NoFile},
   todo : SUBSET Names, root : BOOLEAN, called : BOOLEAN]

Top == Last(stack)
Caller(f) == Append(Front(stack), f)   \* the stack with its last frame changed to f

\* The frame of load_module_recursive for path p, once load_module(p) is done.  A
\* path may be indexed although no module of that name is left: NoFile.
LoadFrame(p, root) ==
  IF byName'[p[2]] # None
  THEN Frame("load", p, byName'[p[2]].id, requires[p[2]], root)
  ELSE Frame("load", p, NoFile, {}, root)

\* Mutant of Begin: a module that is registered is visited again.
BeginAgain(p, fs) ==
  /\ Canon(p) \in Exists
  /\ Len(visited) < MaxNesting
  /\ LoadModule(p)
  /\ stack' = Append(fs, LoadFrame(p, TRUE))
  /\ visited' = Append(visited, {Canon(p)})
  /\ UNCHANGED <<requires, inited, uninit>>

\* load_module_with_imports, from the frames fs of its caller: a path that is
\* registered is taken for initialised.
Begin(p, fs) ==
  /\ Canon(p) \in Exists
  /\ Len(visited) < MaxNesting
  /\ IF byPath[Canon(p)] # None
     THEN stack' = fs /\ UNCHANGED <<registry, visited>>
     ELSE /\ LoadModule(p)
          /\ stack' = Append(fs, LoadFrame(p, TRUE))
          /\ visited' = Append(visited, {Canon(p)})
  /\ UNCHANGED <<requires, inited, uninit>>

HostLoad(p) == stack = <<>> /\ Begin(p, stack)

\* native_load_module, called by a top-level or an on_unload hook.
NativeLoad(p) ==
  /\ stack # <<>> /\ Top.op \in {"top", "hook"} /\ ~Top.called
  /\ Begin(p, Caller([Top EXCEPT !.called = TRUE]))

\* The first existing candidate for "<d>.bin": beside the module that asks, then
\* along the search paths.
SearchDirs == <<Top.path[1]>> \o Search
Candidates(d) == {i \in DOMAIN SearchDirs : <<CanonOf[SearchDirs[i]], d>> \in Exists}

\* Mutant of Skipped: a module counts as visited once its top-level has run, not
\* from before the recursion into its requires.
SkippedRun(c) == c \in inited

\* Why load_module_recursive returns at once.
Skipped(c) == c \in Last(visited) \/ byPath[c] # None

\* One dependency: load_module_recursive up to its own loop over requires.
Require(d) ==
  /\ stack # <<>> /\ Top.op = "load" /\ d \in Top.todo
  /\ Candidates(d) # {}
  /\ LET p  == <<SearchDirs[Min(Candidates(d))], d>>
         fs == Caller([Top EXCEPT !.todo = @ \ {d}])
     IN  /\ visited' = [visited EXCEPT ![Len(visited)] = @ \cup {Canon(p)}]
         /\ IF Skipped(Canon(p))
            THEN stack' = fs /\ UNCHANGED <<registry>>
            ELSE /\ LoadModule(p)
                 /\ stack' = Append(fs, LoadFrame(p, FALSE))
  /\ UNCHANGED <<requires, inited, uninit>>

\* Mutant of StartTop: the top-level runs before the dependencies are up.
StartTopEarly ==
  /\ stack # <<>> /\ Top.op = "load"
  /\ stack' = Caller([Top EXCEPT !.op = "top", !.id = byName[Top.path[2]].id])
  /\ UNCHANGED <<registry, visited, requires, history>>

\* Mutant of StartTop: only the module that was asked for is run.
StartTopRootOnly ==
  /\ stack # <<>> /\ Top.op = "load" /\ Top.todo = {} /\ Top.path[2] \in Loaded
  /\ stack' = IF Top.root
              THEN Caller([Top EXCEPT !.op = "top", !.id = byName[Top.path[2]].id])
              ELSE Front(stack)
  /\ UNCHANGED <<registry, visited, requires, history>>

\* run_top_level of the entry that has the module's name now.
StartTop ==
  /\ stack # <<>> /\ Top.op = "load" /\ Top.todo = {} /\ Top.path[2] \in Loaded
  /\ stack' = Caller([Top EXCEPT !.op = "top", !.id = byName[Top.path[2]].id])
  /\ UNCHANGED <<registry, visited, requires, history>>

\* run_top_level reports success, and load_module_recursive with it.  It reports
\* success too when a nested load-module has replaced the VM's current_frame and the
\* rest of the top-level is never run: "inited" says what the loader believes.
TopReturns ==
  /\ stack # <<>> /\ Top.op = "top"
  /\ stack' = Front(stack)
  /\ visited' = IF Top.root THEN Front(visited) ELSE visited
  /\ inited' = inited \cup {Canon(Top.path)}
  /\ uninit' = uninit \ {Canon(Top.path)}
  /\ UNCHANGED <<registry, requires>>

\* A dependency is missing or unreadable, the module to run is gone, or a top-level
\* ends in an error: every load_module_recursive of this load returns false and
\* leaves its module registered.
Fail ==
  /\ stack # <<>>
  /\ Top.op = "top" \/ (Top.op = "load" /\ (Top.todo # {} \/ Top.path[2] \notin Loaded))
  /\ LET r == Max({i \in DOMAIN stack : stack[i].root})
     IN  /\ stack' = SubSeq(stack, 1, r - 1)
         /\ uninit' = uninit \cup ({Canon(stack[i].path) : i \in r .. Len(stack)} \ inited)
  /\ visited' = Front(visited)
  /\ UNCHANGED <<registry, requires, inited>>

(***************************************************************************)
(* Host operations                                                         *)
(***************************************************************************)
\* load_module alone, as ProcessRunner calls it: the top-level is not run.
HostLoadOnly(p) ==
  /\ stack = <<>> /\ Canon(p) \in Exists
  /\ LoadModule(p)
  /\ uninit' = IF byPath[p] = None THEN uninit \cup ({Canon(p)} \ inited) ELSE uninit
  /\ UNCHANGED <<stack, visited, requires, inited>>

\* Mutant of LoadFromBinary: symbols of the replaced file stay in Globals.
LoadFromBinaryKeep(n, syms) ==
  /\ stack = <<>>
  /\ globals' = RegisterSymbols(n, syms, Fresh)
  /\ Insert(n, <<Mem, n>>, Fresh)
  /\ inited' = inited \ {<<Mem, n>>}
  /\ uninit' = uninit \cup {<<Mem, n>>}
  /\ UNCHANGED <<stack, visited, requires>>

\* load_module_from_binary: the symbols of a module of that name go, the ones just
\* registered too.  Each in-memory file is given a path of its own here; files that
\* share an m_path share one entry of m_by_path, which the loads of other modules
\* never look at.
LoadFromBinary(n, syms) ==
  /\ stack = <<>>
  /\ globals' = LET g == RegisterSymbols(n, syms, Fresh)
                IN  IF byName[n] # None THEN Without(g, n) ELSE g
  /\ Insert(n, <<Mem, n>>, Fresh)
  /\ inited' = inited \ {<<Mem, n>>}
  /\ uninit' = uninit \cup {<<Mem, n>>}
  /\ UNCHANGED <<stack, visited, requires>>

\* run_top_level, which the compiler calls after load_module_from_binary.
RunTopLevel(n) ==
  /\ stack = <<>> /\ n \in Loaded /\ <<Mem, n>> \in uninit
  /\ stack' = <<Frame("top", <<Mem, n>>, byName[n].id, {}, TRUE)>>
  /\ visited' = <<{}>>
  /\ UNCHANGED <<registry, requires, history>>

\* Mutant of Unload: the file is released before the hook runs.
UnloadFirst(n) ==
  /\ stack = <<>> /\ n \in Loaded
  /\ stack' = <<Frame("hook", byName[n].path, byName[n].id, {}, TRUE)>>
  /\ visited' = <<{}>>
  /\ Erase(n)
  /\ globals' = Without(globals, n)
  /\ UNCHANGED <<requires, history>>

\* unload_module as far as its on_unload hook.
Unload(n) ==
  /\ stack = <<>> /\ n \in Loaded
  /\ stack' = <<Frame("hook", byName[n].path, byName[n].id, {}, TRUE)>>
  /\ visited' = <<{}>>
  /\ UNCHANGED <<registry, requires, history>>

\* reload_module unloads the module found under the path, or else under its stem.
Reload(p) ==
  /\ stack = <<>> /\ Canon(p) \in Exists
  /\ LET n == IF byPath[p] # None /\ byName[byPath[p]] # None THEN byPath[p] ELSE p[2]
         again == Frame("again", p, NoFile, {}, FALSE)
     IN  IF n \in Loaded
         THEN /\ stack' = <<again, Frame("hook", byName[n].path, byName[n].id, {}, TRUE)>>
              /\ visited' = <<{}>>
         ELSE stack' = <<again>> /\ UNCHANGED visited
  /\ UNCHANGED <<registry, requires, history>>

\* Mutant of FinishUnload: the module's symbols are left in Globals.
FinishUnloadKeep ==
  /\ stack # <<>> /\ Top.op = "hook"
  /\ Erase(Top.path[2])
  /\ stack' = Front(stack) /\ visited' = Front(visited)
  /\ inited' = inited \ {Canon(Top.path)} /\ uninit' = uninit \ {Canon(Top.path)}
  /\ UNCHANGED <<globals, requires>>

\* unload_module after the hook, whether it returned or threw.
FinishUnload ==
  /\ stack # <<>> /\ Top.op = "hook"
  /\ globals' = Without(globals, Top.path[2])
  /\ Erase(Top.path[2])
  /\ stack' = Front(stack) /\ visited' = Front(visited)
  /\ inited' = inited \ {Canon(Top.path)} /\ uninit' = uninit \ {Canon(Top.path)}
  /\ UNCHANGED <<requires>>

\* reload_module after the unload: load_module only.
FinishReload ==
  /\ stack # <<>> /\ Top.op = "again"
  /\ LoadModule(Top.path)
  /\ uninit' = IF byPath[Top.path] = None THEN uninit \cup ({Canon(Top.path)} \ inited) ELSE uninit
  /\ stack' = Front(stack)
  /\ UNCHANGED <<visited, requires, inited>>

\* shutdown and a new initialize.
Restart ==
  /\ stack = <<>>
  /\ byName' = [n \in Names \cup BinNames |-> None]
  /\ byPath' = [p \in Paths |-> None]
  /\ globals' = [s \in Symbols |-> None]
  /\ inited' = {} /\ uninit' = {}
  /\ UNCHANGED <<stack, visited, requires>>

CallStep ==
  \/ \E d \in Names : Require(d)
  \/ StartTop \/ TopReturns \/ Fail \/ FinishUnload \/ FinishReload

HostStep ==
  \/ \E p \in Spellings \X Names : HostLoad(p) \/ HostLoadOnly(p) \/ Reload(p)
  \/ \E n \in BinNames, syms \in BinDefs : LoadFromBinary(n, syms)
  \/ \E n \in BinNames : RunTopLevel(n)
  \/ \E n \in Names \cup BinNames : Unload(n)
  \/ Restart

Next ==
  \/ CallStep
  \/ HostStep
  \/ \E p \in Spellings \X Names : NativeLoad(p)

Spec == Init /\ [][Next]_vars

\* A host that uses load_module_with_imports only.
ImportSpec ==
  Init /\ [][CallStep \/ \E p \in Spellings \X Names : HostLoad(p) \/ NativeLoad(p)]_vars

(***************************************************************************)
(* Properties                                                              *)
(***************************************************************************)
\* The types of the loader's tables and of its call stack.
TypeOK ==
  /\ byName \in [Names \cup BinNames -> [id : Files, path : Paths] \cup {None}]
  /\ byPath \in [Paths -> Names \cup BinNames \cup {None}]
  /\ globals \in [Symbols -> [id : Files, owner : Names \cup BinNames] \cup {None}]
  /\ \A i \in DOMAIN stack : stack[i] \in FrameType
  /\ \A i \in DOMAIN visited : visited[i] \subseteq Paths
  /\ inited \subseteq Paths /\ uninit \subseteq Paths

\* Globals never points into a BinaryFile that was freed, whatever is loaded,
\* replaced, unloaded or reloaded ("every pointer Globals holds into that file
\* becomes dangling", Carbon.cpp:346).
NoDangling == \A s \in Symbols : globals[s] # None => globals[s].id \in Owned

\* The file whose requires are being read or whose code is running is still owned
\* by the registry, although nested loads may replace entries meanwhile.
HeldIsOwned ==
  \A i \in DOMAIN stack :
    stack[i].op # "again" => stack[i].id \in Owned

\* No pointer into a BinaryFile outlives it, whether Globals or a load under way
\* holds it (Carbon.cpp: load_module_recursive, unload_module).
PointersLive == NoDangling /\ HeldIsOwned

\* A path that counts as already loaded leads to a module that is loaded from that
\* file: load_module never returns true for a module that is not there.
PathMeansLoaded ==
  \A p \in Paths : byPath[p] # None => byPath[p] \in Loaded /\ byName[byPath[p]].path = p

\* When a top-level runs, the top-level of every module it requires has run, unless
\* that module is itself waiting on the stack (a cycle) or was left uninitialised by
\* an earlier call that failed or did not run it
\* ("every dependency has been loaded AND its top-level has run", Carbon.cpp:543).
DepsFirst ==
  \A i \in DOMAIN stack : stack[i].op = "top" /\ stack[i].path[1] # Mem =>
    \A d \in requires[stack[i].path[2]] :
      \E f \in inited \cup uninit \cup {Canon(stack[j].path) : j \in DOMAIN stack} : f[2] = d

\* Between calls every registered module has been initialised, except the ones
\* that a failed load, load_module or reload_module left behind.
RegisteredRan ==
  stack = <<>> => \A n \in Loaded : Canon(byName[n].path) \in inited \cup uninit

\* The registry's two maps agree, and say what was loaded and has run.
RegistryExact == TypeOK /\ PathMeansLoaded /\ RegisteredRan

\* The same without exception: "A module that is already registered is fully
\* initialised: its top-level has already run" (Carbon.cpp:428).
RegisteredIsInitialised ==
  stack = <<>> => \A n \in Loaded : Canon(byName[n].path) \in inited

\* A top-level is started once for each time its file is registered ("A module that
\* has already been loaded (same canonical path) is skipped silently",
\* Carbon.cpp:393).
TopLevelOnce ==
  [][stack # <<>> /\ Top.op = "load" /\ Len(stack') = Len(stack) /\ Last(stack').op = "top"
       => Canon(Top.path) \notin inited]_vars

\* No file is entered while a call for it is under way, neither through requires that
\* lead back to it nor through a load-module in a top-level or hook further in.  The
\* stack then holds at most one frame for each file, and as each frame goes through
\* its own requires once, the recursion is finite ("Cyclic imports terminate because a
\* module is inserted into `already_loaded` BEFORE the recursion into its
\* dependencies", Carbon.cpp:391).
NoReentry ==
  \A i, j \in DOMAIN stack :
    /\ i # j /\ stack[i].op # "again" /\ stack[j].op # "again"
    => Canon(stack[i].path) # Canon(stack[j].path)
=============================================================================
