------------------------------ MODULE Workspace ------------------------------
(***************************************************************************)
(* The handlers of DiplomatLSP that read the workspace and the project     *)
(* (lsp-server/diplomat/src/diplomat_lsp.cpp, diplomat_lsp_binds.cpp), on  *)
(* top of the document cache they call.                                    *)
(*                                                                         *)
(* One handler runs at a time.  plan holds the phases it has left, and a   *)
(* phase goes on only when the call of the cache it made has returned:     *)
(* files change in between.  Every step of a handler is a step of          *)
(* DocumentCache or leaves the cache alone.  A call that throws ends the   *)
(* handler: what it has done so far stays.                                 *)
(***************************************************************************)
EXTENDS DocumentCache, Sequences

CONSTANTS
    Deps,    \* the modules each module instantiates, in whatever file it is
    Tops,    \* bound: the top levels a client sets
    Excludable \* bound: the files a client leaves out

NoTop == "none"

ASSUME DepsAssumption == Deps \in [Modules -> SUBSET Modules]
ASSUME TopAssumption == Tops \subseteq Modules /\ NoTop \notin Modules
ASSUME ExclusionAssumption == Excludable \subseteq Files

VARIABLES
    top,        \* _settings.top_level
    excluded,   \* the files excluded_paths and the patterns leave out
    treeValid,  \* _project_file_tree_valid
    plan,       \* the phases the running handler has left
    todo,       \* files it has yet to process: a source list, a directory
    asked,      \* the files its caller named
    stack,      \* the dependencies each call of
                \* _add_module_to_project_tree has left, the innermost first
    frontier,   \* to_process of tree-from-module
    seen,       \* modules the walk has entered, processed of tree-from-module
    root,       \* target of tree-from-module
    scanAt      \* history: when the workspace was last read

settings == <<top, excluded, treeValid>>
walk     == <<stack, frontier, seen, root>>
wvars    == <<vars, settings, plan, todo, asked, walk, scanAt>>

Phases == {"compile", "refresh", "read", "reading", "sources", "set", "build",
           "tree", "walking", "query", "search"}

HandlersTypeOK ==
    /\ top \in Tops \union {NoTop} /\ excluded \subseteq Excludable
    /\ treeValid \in BOOLEAN
    /\ plan \in Seq(Phases)
    /\ todo \subseteq Files /\ asked \subseteq Files
    /\ stack \in Seq(SUBSET Modules)
    /\ frontier \subseteq Modules /\ seen \subseteq Modules
    /\ root \in Modules \union {NoTop}
    /\ scanAt \in Nat

WTypeOK == TypeOK /\ HandlersTypeOK

WInit ==
    /\ Init
    /\ top = NoTop /\ excluded = {} /\ treeValid = FALSE
    /\ plan = <<>> /\ todo = {} /\ asked = {}
    /\ stack = <<>> /\ frontier = {} /\ seen = {} /\ root = NoTop
    /\ scanAt = 0

At(phase) == Free /\ plan # <<>> /\ Head(plan) = phase
Goto(phases) == plan' = phases \o Tail(plan)
Done == plan' = Tail(plan)

-----------------------------------------------------------------------------
(* _read_workspace_modules: a directory is read while files come and go.    *)
(* Its source manager is given back only if the scan comes to its end.      *)

Read ==
    /\ At("read") /\ EnableSharedSourceManager
    /\ \E late \in SUBSET {f \in Files : ~Exists(f)} :
         todo' = {f \in Files : Exists(f)} \union late
    /\ scanAt' = clock
    /\ Goto(<<"reading">>)
    /\ UNCHANGED <<settings, asked, walk>>

Skipped_Known(f) == ~Exists(f) \/ f \in excluded \/ f \in wsFiles
Skipped(f) == ~Exists(f) \/ f \in excluded

ReadOne(f) ==
    /\ At("reading") /\ f \in todo
    /\ todo' = todo \ {f}
    /\ IF Skipped(f) THEN UNCHANGED vars ELSE CallProcess(f, FALSE)
    /\ UNCHANGED <<settings, plan, asked, walk, scanAt>>

ReadEnd ==
    /\ At("reading") /\ todo = {} /\ DisableSharedSourceManager
    /\ scanAt' = 0
    /\ Done
    /\ UNCHANGED <<settings, todo, asked, walk>>

-----------------------------------------------------------------------------
(* _compute_project_tree, which keeps the tree, and                         *)
(* _add_module_to_project_tree.                                             *)

(* The module is skipped when nobody defines it, else the file of its black *)
(* box is recorded and the loop over its dependencies begins.               *)
Enter(m, rest) ==
    \/ BoxesNamed(m) = {} /\ stack' = rest /\ UNCHANGED <<vars, seen>>
    \/ AddModule(m) /\ stack' = <<Deps[m]>> \o rest /\ seen' = seen \union {m}

Tree ==
    /\ At("tree")
    /\ IF top = NoTop
       THEN Done /\ UNCHANGED <<vars, stack, seen>>
       ELSE Goto(<<"walking">>) /\ Enter(top, <<>>)
    /\ UNCHANGED <<settings, todo, asked, frontier, root, scanAt>>

(* A dependency the project knows by now is left out.                       *)
WalkDep_Break(d) ==
    IF GotModuleInProject(d)
    THEN stack' = Tail(stack) /\ UNCHANGED <<vars, seen>>
    ELSE Enter(d, <<Head(stack) \ {d}>> \o Tail(stack))

WalkDep(d) ==
    LET rest == <<Head(stack) \ {d}>> \o Tail(stack)
    IN  IF GotModuleInProject(d)
        THEN stack' = rest /\ UNCHANGED <<vars, seen>>
        ELSE Enter(d, rest)

WalkDown ==
    /\ At("walking") /\ stack # <<>>
    /\ \E d \in Head(stack) : WalkDep(d)
    /\ UNCHANGED <<settings, plan, todo, asked, frontier, root, scanAt>>

WalkUp ==
    /\ At("walking") /\ stack # <<>> /\ Head(stack) = {}
    /\ stack' = Tail(stack)
    /\ UNCHANGED <<vars, settings, plan, todo, asked, frontier, seen, root, scanAt>>

WalkEnd ==
    /\ At("walking") /\ stack = <<>>
    /\ treeValid' = TRUE /\ seen' = {}
    /\ Done
    /\ UNCHANGED <<vars, top, excluded, todo, asked, stack, frontier, root, scanAt>>

-----------------------------------------------------------------------------
(* _compile: the workspace is read, or the files of the project refreshed;  *)
(* the tree is computed if there is a top level and no valid tree.  What is *)
(* built from the files is left out.                                        *)

Compile ==
    /\ At("compile")
    /\ Goto(IF treeValid THEN <<"refresh", "build">> ELSE <<"read", "build">>)
    /\ UNCHANGED <<vars, settings, todo, asked, walk, scanAt>>

ReadFiletree ==
    /\ At("refresh") /\ RefreshStart(TRUE)
    /\ Done
    /\ UNCHANGED <<settings, todo, asked, walk, scanAt>>

Build ==
    /\ At("build")
    /\ IF top # NoTop /\ ~treeValid THEN Goto(<<"tree">>) ELSE Done
    /\ UNCHANGED <<vars, settings, todo, asked, walk, scanAt>>

-----------------------------------------------------------------------------
(* tree-from-module: once the workspace is read, the search starts at a     *)
(* module of the file the client named, or fails: the cache does not hold   *)
(* the file, or the file not the module.  The files answered are left out:  *)
(* get_file_from_module finds one for every box (NoLeak).                   *)

Query ==
    /\ At("query")
    /\ \E f \in asked :
         \/ Done /\ UNCHANGED <<frontier, root>>
         \/ \E b \in BoxesOf(f) :
              /\ frontier' = Deps[b.name] /\ root' = b.name
              /\ Goto(<<"search">>)
    /\ asked' = {}
    /\ UNCHANGED <<vars, settings, todo, stack, seen, scanAt>>

Processed_Forgotten(m) == FALSE
Processed(m) == m \in seen

Expand_Direct(m) == frontier' = frontier \ {m}
Expand(m) == frontier' = (frontier \ {m}) \union Deps[m]

Search ==
    /\ At("search")
    /\ \E m \in frontier :
         IF Processed(m) \/ BoxesNamed(m) = {}
         THEN frontier' = frontier \ {m} /\ UNCHANGED seen
         ELSE Expand(m) /\ seen' = seen \union {m}
    /\ UNCHANGED <<vars, settings, plan, todo, asked, stack, root, scanAt>>

SearchEnd ==
    /\ At("search") /\ frontier = {}
    /\ seen' = {} /\ root' = NoTop
    /\ Done
    /\ UNCHANGED <<vars, settings, todo, asked, stack, frontier, scanAt>>

-----------------------------------------------------------------------------
(* set_project, once the project is cleared: the source list is processed,  *)
(* the tree is taken for valid and the top level set if there is one.       *)

Source(f) ==
    /\ At("sources") /\ f \in todo
    /\ CallProcess(f, TRUE)
    /\ todo' = todo \ {f}
    /\ UNCHANGED <<settings, plan, asked, walk, scanAt>>

SourcesEnd ==
    /\ At("sources") /\ todo = {}
    /\ treeValid' = TRUE
    /\ \E t \in Tops \union {NoTop} : top' = IF t = NoTop THEN top ELSE t
    /\ asked' = {}
    /\ Goto(<<"compile">>)
    /\ UNCHANGED <<vars, excluded, todo, walk, scanAt>>

-----------------------------------------------------------------------------
(* The handlers, when no other runs.                                        *)

Ready == plan = <<>> /\ Free

SetProject(S) ==
    /\ Ready /\ ClearProject
    /\ treeValid' = FALSE
    /\ todo' = S /\ asked' = S
    /\ plan' = <<"sources">>
    /\ UNCHANGED <<top, excluded, walk, scanAt>>

DidSave(f) ==
    /\ Ready /\ CallProcess(f, FALSE)
    /\ plan' = <<"compile">>
    /\ UNCHANGED <<settings, todo, asked, walk, scanAt>>

PushConfig(t, X) ==
    /\ Ready
    /\ top' = t /\ excluded' = X
    /\ plan' = <<"compile">>
    /\ UNCHANGED <<vars, treeValid, todo, asked, walk, scanAt>>

SetTopModule(t) ==
    /\ Ready
    /\ top' = t
    /\ plan' = <<"tree", "compile">>
    /\ UNCHANGED <<vars, excluded, treeValid, todo, asked, walk, scanAt>>

Ignore(f) ==
    /\ Ready
    /\ excluded' = excluded \union {f} /\ treeValid' = FALSE
    /\ UNCHANGED <<vars, top, plan, todo, asked, walk, scanAt>>

ForceClearIndex ==
    /\ Ready
    /\ treeValid' = FALSE
    /\ plan' = <<"read", "compile">>
    /\ UNCHANGED <<vars, top, excluded, todo, asked, walk, scanAt>>

GetModules ==
    /\ Ready
    /\ plan' = <<"read">>
    /\ UNCHANGED <<vars, settings, todo, asked, walk, scanAt>>

(* A file the cache does not hold is processed on demand.                   *)
GetFileBB(f) ==
    /\ Ready /\ f \notin paths /\ CallProcess(f, FALSE)
    /\ UNCHANGED <<settings, plan, todo, asked, walk, scanAt>>

ProjectTreeFromModule(f) ==
    /\ Ready
    /\ asked' = {f}
    /\ plan' = <<"read", "query">>
    /\ UNCHANGED <<vars, settings, todo, walk, scanAt>>

-----------------------------------------------------------------------------
Handler ==
    \/ \E S \in SUBSET Files : SetProject(S)
    \/ \E t \in Tops \union {NoTop} :
         SetTopModule(t) \/ \E X \in SUBSET Excludable : PushConfig(t, X)
    \/ \E f \in Files :
         DidSave(f) \/ GetFileBB(f) \/ ProjectTreeFromModule(f)
    \/ \E f \in Excludable : Ignore(f)
    \/ ForceClearIndex \/ GetModules

Phase ==
    \/ Read \/ ReadEnd \/ Tree \/ WalkDown \/ WalkUp \/ WalkEnd
    \/ Compile \/ ReadFiletree \/ Build
    \/ Query \/ Search \/ SearchEnd \/ SourcesEnd
    \/ \E f \in Files : ReadOne(f) \/ Source(f)

(* The steps of the cache that are not calls.                               *)
Unhandled == UNCHANGED <<settings, plan, todo, asked, walk, scanAt>>
CacheStep == (Process \/ Refresh) /\ Unhandled
Outside == (FileSystem \/ Over) /\ Unhandled

(* A parse, a look at a file or the iteration of a directory throws.  The   *)
(* handler is left where it stands, unless the process ends.                *)
Unwind ==
    /\ plan' = <<>> /\ todo' = {} /\ asked' = {} /\ scanAt' = 0
    /\ stack' = <<>> /\ frontier' = {} /\ seen' = {} /\ root' = NoTop
    /\ UNCHANGED settings

HandlerThrows ==
    /\ Free /\ plan # <<>> => Head(plan) \in {"read", "reading", "sources"}
    /\ Failure
    /\ IF job'.op = "dead" THEN Unhandled ELSE Unwind

WNext == Handler \/ Phase \/ CacheStep \/ HandlerThrows \/ Outside

WSpec == WInit /\ [][WNext]_wvars

(* The thread that runs the handlers goes on.                               *)
WFairness == WF_wvars(Phase \/ CacheStep \/ HandlerThrows)
WFairSpec == WSpec /\ WFairness

-----------------------------------------------------------------------------
(* While the workspace is read, a file that was there when the reading      *)
(* began, is not left out and has not changed since is either still to be   *)
(* visited or in the cache as it is, unless it was edited before that,      *)
(* between the reading of its text and its stamp (Raced).                   *)
ScanComplete ==
    At("reading") =>
        \A f \in Files \ (todo \union excluded) :
            Exists(f) /\ mtime[f] <= scanAt =>
                f \in wsFiles /\ (Names(BoxesOf(f)) = disk[f] \/ Raced(f))

(* The recursion forgets nothing it took into its list: every dependency of *)
(* a module the walk entered is in the project, or defined nowhere, or left *)
(* in a loop that is running.  It says nothing of the modules that came     *)
(* into the project with their file, which the walk never enters            *)
(* (WalkAddsAll).                                                           *)
Accounted(m) == GotModuleInProject(m) \/ BoxesNamed(m) = {}
Left(loops) == UNION {loops[i] : i \in DOMAIN loops}
WalkComplete ==
    At("walking") =>
        \A m \in seen : \A d \in Deps[m] :
            Accounted(d) \/ d \in Left(stack)

(* tree-from-module finds exactly the modules that some file defines and    *)
(* that the target needs, directly or through others.                       *)
Known == {m \in Modules : BoxesNamed(m) # {}}
Needed(m) ==
    {x \in Modules : \A S \in SUBSET Known :
        (Deps[m] \intersect Known \subseteq S
            /\ \A y \in S : Deps[y] \intersect Known \subseteq S) => x \in S}
SearchExact == At("search") /\ frontier = {} => seen = Needed(root)

(* Every handler ends: loops in the dependencies do not keep the walk or    *)
(* the search from ending, nor files that change.                           *)
HandlersEnd == []<>(plan = <<>> \/ job.op \in {"threw", "dead"})

-----------------------------------------------------------------------------
(* What the comments of the code say and the code does not do.              *)

(* diplomat_lsp.cpp:400: the module is added with all its dependencies.     *)
WalkAddsAll ==
    At("walking") /\ stack = <<>> /\ top \in Known => Needed(top) \subseteq Names(prjBBs)

(* diplomat_lsp_binds.cpp:499: set_project sets the active project: the     *)
(* files of its list that the cache holds are the project's afterwards.     *)
ListedInProject ==
    At("sources") /\ todo = {} =>
        \A f \in asked : Exists(f) /\ f \in wsFiles => f \in prjFiles
=============================================================================
