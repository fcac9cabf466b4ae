------------------------------ MODULE Session -------------------------------
(***************************************************************************)
(* The compile transactions of a sootc session: Compiler::compile_internal *)
(* and require_file over the FileNodes, the global name table and their    *)
(* snapshots.  One input is a stack of compiles, since a (require ...)     *)
(* compiles a file in the middle of another; each form is one action, and  *)
(* an exception unwinds one compile per step.                              *)
(*                                                                         *)
(* A node or a FileNode is its number; numbers are never reused, so a      *)
(* pointer dangles when its number is no longer owned.                     *)
(***************************************************************************)
EXTENDS Integers, Sequences, FiniteSets, SequencesExt

CONSTANTS Names,        \* functions that scripts define
          Method,       \* the one of Names spelt <type>-<method>
          Natives,      \* functions registered by define-native
          Modules,      \* source files of the project
          Disks,        \* the contents the source files may have
          Inputs,       \* what the user types: the forms of one input
          Unreadable,   \* modules whose text the reader refuses, or has no form
          Rejected,     \* modules the runtime may refuse
          Saved,        \* modules that may be saved before they are required
          MaxInputs     \* bound on the inputs, edits and saves of a session

ASSUME /\ Method \in Names
       /\ Names \cap Natives = {}
       /\ Unreadable \cup Rejected \cup Saved \subseteq Modules

\* Forms.
Define(x) == [op |-> "define", x |-> x]
Defmethod == [op |-> "defmethod", x |-> Method]
Deftype == [op |-> "deftype"]
Call(x) == [op |-> "call", x |-> x]
Require(m) == [op |-> "require", m |-> m]
Bad == [op |-> "bad"]

VARIABLES files,      \* m_file_nodes: number -> FileNode
          env,        \* m_global_env: name -> node, 0 for none
          gsnap,      \* m_global_snapshot
          sigs,       \* script functions in m_native_functions
          declared,   \* whether TypeSystem has the type, which no snapshot restores
          loaded,     \* m_loaded_files
          current,    \* m_current_file, and m_input_origin is Repl for an input
          disk,       \* the source files
          stack,      \* the compiles under way, the innermost last
          why,        \* the exception under way, "" for none
          born,       \* nodes and FileNodes made so far
          count,      \* inputs, edits and saves so far
          before      \* files and env when the input began

vars == <<files, env, gsnap, sigs, declared, loaded, current, disk, stack, why, born, count, before>>

(***************************************************************************)
(* FileNode.                                                               *)
(***************************************************************************)
Unbound == [x \in Names |-> 0]

NewFile(nm) == [name |-> nm, kids |-> <<>>, syms |-> Unbound, imports |-> <<>>,
                reqs |-> {}, body |-> <<>>]

Kid(id, k, x) == [id |-> id, k |-> k, x |-> x]

\* A source file is <<m, 0>>, the n-th REPL input <<"<repl>", n>>.
Source(m) == <<m, 0>>
FilesNamed(nm) == {f \in DOMAIN files : files[f].name = nm}

HasKid(file, k) == \E i \in DOMAIN file.kids : file.kids[i].k = k

\* remove_named: the node dies with its entry in m_children.
RemoveNamed(file, x) ==
    [file EXCEPT !.kids = SelectSeq(@, LAMBDA c : c.k # "fn" \/ c.x # x), !.syms[x] = 0]

AddFunction(file, x, id) == [file EXCEPT !.kids = Append(@, Kid(id, "fn", x))]

\* Mutant of AddImport: a file may import itself.
AddImportOfSelf(f, g) ==
    IF g \in ToSet(files[f].imports) THEN files
    ELSE [files EXCEPT ![f].imports = Append(@, g)]

\* Mutant of AddImport: an import is listed once per require.
AddImportAgain(f, g) ==
    IF f = g THEN files ELSE [files EXCEPT ![f].imports = Append(@, g)]

AddImport(f, g) ==
    IF f = g \/ g \in ToSet(files[f].imports) THEN files
    ELSE [files EXCEPT ![f].imports = Append(@, g)]

\* lookup: own symbols, then each import in turn, depth first.  The
\* recursion has no guard: going round a cycle of imports it never ends.
RECURSIVE Search(_, _, _)
Search(f, x, path) ==
    IF x \in Names /\ files[f].syms[x] # 0 THEN files[f].syms[x]
    ELSE IF f \in path THEN -1
    ELSE FoldLeft(LAMBDA r, g : IF r # 0 THEN r ELSE Search(g, x, path \cup {f}),
                  0, files[f].imports)

\* rollback: children by count, symbols as they were, m_top_level derived
\* again; imports, requires and the body of a top level that stays do not
\* come back.
Rollback(file, fr) ==
    LET kids == SubSeq(file.kids, 1, IF fr.kids < Len(file.kids) THEN fr.kids
                                     ELSE Len(file.kids))
    IN [file EXCEPT !.kids = kids, !.syms = fr.syms,
                    !.body = IF \E i \in DOMAIN kids : kids[i].k = "top" THEN @ ELSE <<>>]

(***************************************************************************)
(* compile_internal.                                                       *)
(***************************************************************************)
NoSnapshot == [valid |-> FALSE, syms |-> Unbound]

Init ==
    /\ files = <<>>
    /\ env = Unbound
    /\ gsnap = NoSnapshot
    /\ sigs = {} /\ declared = FALSE
    /\ loaded = {}
    /\ current = Source("none")
    /\ disk \in Disks
    /\ stack = <<>>
    /\ why = ""
    /\ born = 0
    /\ count = 0
    /\ before = <<>>

\* The start of a compile of forms under the name nm: the snapshots, the
\* FileNode found or made.  via is the FileNode that will import it.
Start(nm, forms, via) ==
    LET found == FilesNamed(nm)
        f == IF found # {} THEN CHOOSE g \in found : TRUE ELSE born + 1
        fs == IF found # {} THEN files
              ELSE [g \in DOMAIN files \cup {f} |-> IF g = f THEN NewFile(nm) ELSE files[g]]
    IN /\ files' = fs
       /\ born' = IF found # {} THEN born ELSE born + 1
       /\ gsnap' = [valid |-> TRUE, syms |-> env]
       /\ current' = nm
       /\ stack' = Append(stack, [f |-> f, forms |-> forms, owns |-> found = {},
                                  kids |-> Len(fs[f].kids), syms |-> fs[f].syms,
                                  bodied |-> FALSE, via |-> via])

Idle == stack = <<>> /\ why = "" /\ count < MaxInputs

\* Mutant of Input: every input is called <repl>.
InputOneName(forms) ==
    /\ Idle
    /\ count' = count + 1
    /\ before' = <<files, env>>
    /\ Start(<<"<repl>", 0>>, forms, {})
    /\ UNCHANGED <<env, sigs, declared, loaded, disk, why>>

\* One REPL input, under a name of its own; several forms are those of a
\* (begin ...), which adds its functions to the FileNode itself: it holds no
\* method and no type.
Input(forms) ==
    /\ Idle
    /\ count' = count + 1
    /\ before' = <<files, env>>
    /\ Start(<<"<repl>", count>>, forms, {})
    /\ UNCHANGED <<env, sigs, declared, loaded, disk, why>>

\* save_module compiles a file it has no FileNode of.
Save(m) ==
    /\ Idle
    /\ m \in Saved
    /\ FilesNamed(Source(m)) = {}
    /\ count' = count + 1
    /\ before' = <<files, env>>
    /\ Start(Source(m), disk[m], {})
    /\ UNCHANGED <<env, sigs, declared, loaded, disk, why>>

\* The user edits the source files.
Edit(d) ==
    /\ Idle
    /\ d # disk
    /\ disk' = d
    /\ count' = count + 1
    /\ UNCHANGED <<files, env, gsnap, sigs, declared, loaded, current, stack, why, born, before>>

Top == Last(stack)
File == files[Top.f]
Form == Head(Top.forms)
IsRepl == File.name[1] = "<repl>"

Building(op) == why = "" /\ stack # <<>> /\ Top.forms # <<>> /\ Form.op = op

Advance == stack' = [stack EXCEPT ![Len(stack)].forms = Tail(@)]

Throw(reason) ==
    /\ why' = reason
    /\ UNCHANGED <<files, env, gsnap, sigs, declared, loaded, current, disk, stack, born, count, before>>

\* A FunctionNode named after a type goes to a FileNode that declares the
\* type, in place of the one it has; any other stays with its file.
Owners(x) == IF x # Method THEN {}
             ELSE {f \in DOMAIN files : HasKid(files[f], "type")}

Attach(fs, o, x, id) ==
    IF o = Top.f THEN [fs EXCEPT ![o] = AddFunction(@, x, id)]
    ELSE [fs EXCEPT ![o] = [AddFunction(RemoveNamed(@, x), x, id) EXCEPT !.syms[x] = id]]

\* build_define of a function: refused in a file that has the name, else
\* bound in the file and in the global table.
DefineForm ==
    /\ Building("define")
    /\ LET x == Form.x
           id == born + 1
           own == [RemoveNamed(File, x) EXCEPT !.syms[x] = id]
       IN IF File.syms[x] # 0 THEN Throw("dup")
          ELSE /\ \E o \in IF Owners(x) = {} THEN {Top.f} ELSE Owners(x) :
                     files' = Attach([files EXCEPT ![Top.f] = own], o, x, id)
               /\ env' = [env EXCEPT ![x] = id]
               /\ sigs' = sigs \cup {x}
               /\ born' = id
               /\ Advance
               /\ UNCHANGED <<gsnap, declared, loaded, current, disk, why, count, before>>

\* build_defmethod binds nothing itself; it throws for a method of no known type.
DefmethodForm ==
    /\ Building("defmethod")
    /\ LET id == born + 1
       IN IF ~declared THEN Throw("undeclared")
          ELSE /\ \E o \in IF Owners(Form.x) = {} THEN {Top.f} ELSE Owners(Form.x) :
                     files' = Attach(files, o, Form.x, id)
               /\ born' = id
               /\ Advance
               /\ UNCHANGED <<env, gsnap, sigs, declared, loaded, current, disk, why, count, before>>

\* At the REPL a type that another FileNode declares is not declared again.
DeftypeForm ==
    /\ Building("deftype")
    /\ IF IsRepl /\ \E f \in DOMAIN files \ {Top.f} : HasKid(files[f], "type")
       THEN UNCHANGED <<files, born>>
       ELSE /\ files' = [files EXCEPT ![Top.f].kids = Append(@, Kid(born + 1, "type", ""))]
            /\ born' = born + 1
    /\ declared' = TRUE
    /\ Advance
    /\ UNCHANGED <<env, gsnap, sigs, loaded, current, disk, why, count, before>>

\* flat: whether the flat table counts for this input.
\* build_call: the callee is found through the file and its imports, in the
\* flat table if the input is typed, or native; the call goes to the body
\* of the top-level function.
CallFormOf(flat) ==
    /\ Building("call")
    /\ LET x == Form.x
           r == Search(Top.f, x, {})
           typed == flat /\ x \in sigs
           top == IF HasKid(File, "top") THEN File.kids
                  ELSE Append(File.kids, Kid(born + 1, "top", ""))
       IN IF r = -1 THEN Throw("overflow")
          ELSE IF r = 0 /\ ~typed /\ x \notin Natives THEN Throw("unseen")
          ELSE /\ files' = [files EXCEPT ![Top.f].kids = top,
                                         ![Top.f].body = IF Top.bodied THEN Append(@, x)
                                                         ELSE <<x>>]
               /\ born' = born + 1
               /\ stack' = [stack EXCEPT ![Len(stack)].forms = Tail(@),
                                         ![Len(stack)].bodied = TRUE]
               /\ UNCHANGED <<env, gsnap, sigs, declared, loaded, current, disk, why, count, before>>

\* Mutant of CallForm: the flat table counts for source files too.
CallFormFlat == CallFormOf(TRUE)

CallForm == CallFormOf(current[1] = "<repl>")

BadForm == Building("bad") /\ Throw("bad")

(***************************************************************************)
(* require_file.                                                           *)
(***************************************************************************)
\* The FileNode that is taken for the requirer is the one of m_current_file.
Requirers == FilesNamed(current)

\* build_require, once require_file is back.
AddRequire(fs, f, m) ==
    IF Source(m) = fs[f].name THEN fs ELSE [fs EXCEPT ![f].reqs = @ \cup {m}]

\* Mutant of RequireCached: no import edge for a module loaded before.
RequireCachedNoEdge ==
    /\ Building("require") /\ Form.m \in loaded
    /\ files' = AddRequire(files, Top.f, Form.m)
    /\ Advance
    /\ UNCHANGED <<env, gsnap, sigs, declared, loaded, current, disk, why, born, count, before>>

\* Already loaded: only an import edge is added.
RequireCached ==
    /\ Building("require") /\ Form.m \in loaded
    /\ LET deps == FilesNamed(Source(Form.m))
           fs == IF Requirers = {} \/ deps = {} THEN files
                 ELSE AddImport(CHOOSE f \in Requirers : TRUE, CHOOSE f \in deps : TRUE)
       IN files' = AddRequire(fs, Top.f, Form.m)
    /\ Advance
    /\ UNCHANGED <<env, gsnap, sigs, declared, loaded, current, disk, why, born, count, before>>

\* Not loaded: marked, read and compiled.
RequireCompile ==
    /\ Building("require") /\ Form.m \notin loaded \cup Unreadable
    /\ loaded' = loaded \cup {Form.m}
    /\ Start(Source(Form.m), disk[Form.m], Requirers)
    /\ UNCHANGED <<env, sigs, declared, disk, why, count, before>>

\* A text the reader refuses throws out of compile_file with the mark in place;
\* one without a form is reported, and the mark is removed.
RequireUnreadable ==
    /\ Building("require") /\ Form.m \in Unreadable \ loaded
    /\ loaded' \in {loaded \cup {Form.m}, loaded}
    /\ why' = "syntax"
    /\ UNCHANGED <<files, env, gsnap, sigs, declared, current, disk, stack, born, count, before>>

(***************************************************************************)
(* The end of a compile.                                                   *)
(***************************************************************************)
Done == why = "" /\ stack # <<>> /\ Top.forms = <<>>

Outer == stack[Len(stack) - 1]

\* The compile of an input or of a saved module returns.
Return ==
    /\ Done /\ Len(stack) = 1
    /\ gsnap' = IF File.kids = <<>> THEN gsnap ELSE NoSnapshot
    /\ stack' = <<>>
    /\ before' = <<>>
    /\ UNCHANGED <<files, env, sigs, declared, loaded, current, disk, why, born, count>>

\* require_file goes on: a module without a binary is done, any other is
\* loaded by the runtime and imported.
Popped == [Front(stack) EXCEPT ![Len(stack) - 1].forms = Tail(@)]

ReturnRequired ==
    /\ Done /\ Len(stack) > 1
    /\ LET m == Head(Outer.forms).m
           empty == File.kids = <<>>
           fs == IF empty \/ Top.via = {} THEN files
                 ELSE AddImport(CHOOSE f \in Top.via : TRUE, Top.f)
       IN /\ files' = AddRequire(fs, Outer.f, m)
          /\ gsnap' = IF empty THEN gsnap ELSE NoSnapshot
    /\ stack' = Popped
    /\ UNCHANGED <<env, sigs, declared, loaded, current, disk, why, born, count, before>>

RuntimeRejects ==
    /\ Done /\ Len(stack) > 1
    /\ Head(Outer.forms).m \in Rejected
    /\ File.kids # <<>>
    /\ loaded' = loaded \ {Head(Outer.forms).m}
    /\ gsnap' = NoSnapshot
    /\ stack' = Front(stack)
    /\ why' = "reject"
    /\ UNCHANGED <<files, env, sigs, declared, current, disk, born, count, before>>

UnwindOf(fs, e, l) ==
    /\ why \notin {"", "overflow"}
    /\ files' = fs
    /\ env' = e
    /\ gsnap' = NoSnapshot
    /\ loaded' = l
    /\ stack' = Front(stack)
    /\ why' = IF Len(stack) > 1 THEN "required" ELSE ""
    /\ before' = IF Len(stack) > 1 THEN before ELSE <<>>
    /\ UNCHANGED <<sigs, declared, current, disk, born, count>>

RolledBack == [files EXCEPT ![Top.f] = Rollback(@, Top)]
Erased == IF Top.owns THEN [f \in DOMAIN files \ {Top.f} |-> files[f]] ELSE RolledBack
Restored == IF gsnap.valid THEN gsnap.syms ELSE env
Unmarked == IF Len(stack) > 1 THEN loaded \ {Head(Outer.forms).m} ELSE loaded

\* Mutant of Unwind: the FileNode of a failed compile stays.
UnwindKeepsFile == UnwindOf(RolledBack, Restored, Unmarked)

\* Mutant of Unwind: the global table is not rolled back.
UnwindKeepsNames == UnwindOf(Erased, env, Unmarked)

\* Mutant of Unwind: the mark of a module that did not compile stays.
UnwindKeepsMark == UnwindOf(Erased, Restored, loaded)

\* A handler of compile_internal: the FileNode rolled back, and erased if
\* this compile made it; the global table rolled back if the one snapshot
\* is still valid.  require_file unmarks the module and throws again.
Unwind == UnwindOf(Erased, Restored, Unmarked)

Compile ==
    \/ DefineForm \/ DefmethodForm \/ DeftypeForm \/ CallForm \/ BadForm
    \/ RequireCached \/ RequireCompile \/ RequireUnreadable
    \/ Return \/ ReturnRequired \/ RuntimeRejects \/ Unwind

Next ==
    \/ \E forms \in Inputs : Input(forms)
    \/ \E m \in Modules : Save(m)
    \/ \E d \in Disks : Edit(d)
    \/ Compile

\* A compile runs on the thread that started it until it returns.
Spec == Init /\ [][Next]_vars /\ WF_vars(Compile)

(***************************************************************************)
(* Properties.                                                             *)
(***************************************************************************)
KidsOf(f) == {files[f].kids[i].id : i \in DOMAIN files[f].kids}
Kids == UNION {KidsOf(f) : f \in DOMAIN files}

\* Every compile under way has its FileNode, m_imports lists a file once
\* (FileNode::add_import) and no two files have one name.
TypeOK ==
    /\ env \in [Names -> Nat] /\ sigs \subseteq Names /\ declared \in BOOLEAN /\ loaded \subseteq Modules
    /\ \A i \in DOMAIN stack : stack[i].f \in DOMAIN files
    /\ \A f \in DOMAIN files : /\ files[f].syms \in [Names -> Nat]
                              /\ IsInjective(files[f].imports)
                              /\ FilesNamed(files[f].name) = {f}

\* GlobalNode.hpp:22 "Without this, a build_define that binds a name and then
\* throws would leave a dangling pointer here": between inputs every name
\* of the global table and of every FileNode is bound to a node some
\* FileNode owns, and every import to a FileNode that is there.
NoDangling ==
    stack = <<>> =>
        /\ \A x \in Names : env[x] \in Kids \cup {0}
        /\ \A f \in DOMAIN files : /\ Range(files[f].syms) \subseteq Kids \cup {0}
                                  /\ ToSet(files[f].imports) \subseteq DOMAIN files

\* The same with the types of the compiler's tables.
TablesSound == TypeOK /\ NoDangling

\* FileNode.hpp:228 "This restores the FileNode to exactly the state it had
\* before the input": a failed input leaves the FileNodes and the bindings
\* of before it; new are only the modules it loaded, or that the runtime
\* refused, and their names.
FailureChangesNothing ==
    [][(Unwind /\ Len(stack) = 1) =>
         /\ \A f \in DOMAIN before[1] : f \in DOMAIN files' /\ files'[f] = before[1][f]
         /\ \A f \in DOMAIN files' \ DOMAIN before[1] : files'[f].name[1] \in loaded' \cup Rejected
         /\ \A x \in Names : env'[x] = before[2][x] \/ \E f \in DOMAIN files' \ DOMAIN before[1] :
                                \E i \in DOMAIN files'[f].kids : files'[f].kids[i].id = env'[x]]_vars

\* Compiler.cpp:624 "Remove the marker so that a later require of the same file
\* can be retried": between inputs a module marked as loaded was compiled,
\* unless the reader could not read it.
LoadedIsCompiled ==
    stack = <<>> => \A m \in loaded \ Unreadable : FilesNamed(Source(m)) # {}

\* The same for every module.
MarkedIsCompiled ==
    stack = <<>> => \A m \in loaded : FilesNamed(Source(m)) # {}

\* NodeBuilder.cpp:1799 "In REPL (export_all) redefinition is a normal
\* operation", and a module is compiled once: a define is refused only in a
\* module that the runtime refused or that was saved first.
NeverAlreadyDefined ==
    why = "dup" => File.name[1] \in Rejected \cup Saved

\* A require that failed can be made again, and a module that is marked as
\* loaded is there (Compiler::require_file).
RetryIsSound == LoadedIsCompiled /\ NeverAlreadyDefined

\* The same for every module: after a refusal the require can be retried.
RetryIsPossible == why # "dup"

RECURSIVE Reach(_, _)
Reach(f, path) ==
    {f} \cup UNION {Reach(g, path \cup {f}) : g \in ToSet(files[f].imports) \ (path \cup {f})}

\* Compiler.cpp:652 "the file that contains the (require ...) form now points at
\* the FileNode of the required module": what a file requires, and the reader
\* can read, it can see.
RequiredIsVisible ==
    \A f \in DOMAIN files : \A m \in files[f].reqs \ Unreadable :
        \E g \in Reach(f, {}) : files[g].name = Source(m)

\* The same comment the other way: a file imports only what it requires.
ImportsAreRequired ==
    \A f \in DOMAIN files : \A g \in ToSet(files[f].imports) : files[g].name[1] \in files[f].reqs

\* NodeBuilder.cpp:1440 "A script function that is only in m_native_functions ...
\* is NOT visible": a call compiled into a module reaches its function, and
\* still does after every later input.
CallsResolve ==
    \A f \in DOMAIN files : files[f].name[1] \in Modules =>
        \A x \in ToSet(files[f].body) \ Natives : Search(f, x, {}) # 0

\* Whatever a module requires it sees, and what it calls it finds (FileNode::lookup).
NamesResolve == RequiredIsVisible /\ CallsResolve

\* Every input comes to an end, in a binary or in an error.
InputEnds == (stack # <<>>) ~> (stack = <<>>)
=============================================================================
