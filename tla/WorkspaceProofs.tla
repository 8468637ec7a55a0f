--------------------------- MODULE WorkspaceProofs ---------------------------
(***************************************************************************)
(* Theorems about Workspace, for every value of its constants.             *)
(*                                                                         *)
(* Every step of a handler is a step of DocumentCache or leaves the cache  *)
(* alone, so IInv of CacheProofs holds here.  On top of it RestPends says  *)
(* what can wait behind a phase, which makes the walk and the search run   *)
(* while the cache is idle, and WalkInv, SearchInv and ScanInv are the     *)
(* invariants of the three loops.                                          *)
(***************************************************************************)
EXTENDS Workspace, CacheProofs, SequenceFacts

-----------------------------------------------------------------------------
(* The handlers and the cache.                                              *)

(* What _add_module_to_project_tree does for one module is a call of the    *)
(* cache, or nothing.                                                       *)
LEMMA EnterCalls ==
    ASSUME NEW m \in Modules, NEW rest, Enter(m, rest)
    PROVE  [Next]_vars
  BY DEF Enter, Next, Call

(* Every phase calls the cache as DocumentCache allows.                     *)
LEMMA PhaseCalls == ASSUME HandlersTypeOK, Phase PROVE [Next]_vars
<1>1. ASSUME NEW f \in Files, NEW p \in BOOLEAN, CallProcess(f, p) PROVE Next
  BY <1>1 DEF Next, Call
<1>2. ASSUME NEW f \in Files, ReadOne(f) \/ Source(f) PROVE [Next]_vars
  BY <1>1, <1>2 DEF ReadOne, Source
<1>3. CASE Tree
  <2>1. top = NoTop \/ top \in Modules
    BY TopAssumption DEF HandlersTypeOK
  <2>2. QED
    BY <1>3, <2>1, EnterCalls DEF Tree
<1>4. CASE WalkDown
  <2>1. PICK d \in Head(stack) : WalkDep(d)
    BY <1>4 DEF WalkDown
  <2>2. d \in Modules
    BY <1>4, TailFacts DEF WalkDown, HandlersTypeOK
  <2>3. QED
    BY <2>1, <2>2, EnterCalls DEF WalkDep
<1>5. CASE ReadFiletree
  BY <1>5 DEF ReadFiletree, Next, Call
<1>6. CASE Read \/ ReadEnd
  BY <1>6 DEF Read, ReadEnd, Next, Call
<1>7. CASE \/ WalkUp \/ WalkEnd \/ Compile \/ Build \/ Query \/ Search
           \/ SearchEnd \/ SourcesEnd
  BY <1>7 DEF WalkUp, WalkEnd, Compile, Build, Query, Search, SearchEnd, SourcesEnd
<1>8. QED
  BY <1>2, <1>3, <1>4, <1>5, <1>6, <1>7 DEF Phase

(* So does every handler when it starts.                                    *)
LEMMA HandlerCalls == ASSUME Handler PROVE [Next]_vars
<1>1. ASSUME NEW f \in Files, NEW p \in BOOLEAN, CallProcess(f, p) PROVE Next
  BY <1>1 DEF Next, Call
<1>2. ASSUME NEW S \in SUBSET Files, SetProject(S) PROVE Next
  BY <1>2 DEF SetProject, Next, Call
<1>3. ASSUME NEW t, SetTopModule(t) \/ \E X \in SUBSET Excludable : PushConfig(t, X)
      PROVE  UNCHANGED vars
  BY <1>3 DEF SetTopModule, PushConfig
<1>4. ASSUME NEW f \in Files, DidSave(f) \/ GetFileBB(f) PROVE Next
  BY <1>1, <1>4 DEF DidSave, GetFileBB
<1>5. ASSUME NEW f, ProjectTreeFromModule(f) \/ Ignore(f) PROVE UNCHANGED vars
  BY <1>5 DEF ProjectTreeFromModule, Ignore
<1>6. CASE ForceClearIndex \/ GetModules
  BY <1>6 DEF ForceClearIndex, GetModules
<1>7. QED
  BY <1>2, <1>3, <1>4, <1>5, <1>6 DEF Handler

(* Every step of the server is a step of the cache or leaves it alone.      *)
LEMMA StepCalls == ASSUME HandlersTypeOK, [WNext]_wvars PROVE [Next]_vars
<1>1. CASE CacheStep \/ HandlerThrows \/ Outside
  BY <1>1 DEF CacheStep, HandlerThrows, Outside, Next
<1>2. CASE UNCHANGED wvars
  BY <1>2 DEF wvars
<1>3. QED
  BY <1>1, <1>2, PhaseCalls, HandlerCalls DEF WNext

-----------------------------------------------------------------------------
(* The types of what the handlers keep.                                     *)

(* What can wait behind the first phase of a handler.                       *)
Pending == {"compile", "build", "query"}
RestPends(p) == \A i \in 2 .. Len(p) : p[i] \in Pending

(* The plans a phase can leave: it ends, or gives way to one or two phases, *)
(* the second of them a pending one.                                        *)
LEMMA PlanFacts ==
    ASSUME plan \in Seq(Phases), plan # <<>>, RestPends(plan),
           NEW p \in Phases, NEW q \in Pending
    PROVE  /\ Tail(plan) \in Seq(Phases) /\ RestPends(Tail(plan))
           /\ Tail(plan) # <<>> => Head(Tail(plan)) \in Pending
           /\ <<p>> \o Tail(plan) \in Seq(Phases) /\ RestPends(<<p>> \o Tail(plan))
           /\ <<p, q>> \o Tail(plan) \in Seq(Phases)
           /\ RestPends(<<p, q>> \o Tail(plan))
           /\ <<p>> \o Tail(plan) # <<>> /\ Head(<<p>> \o Tail(plan)) = p
           /\ <<p, q>> \o Tail(plan) # <<>> /\ Head(<<p, q>> \o Tail(plan)) = p
<1> DEFINE rest == Tail(plan)
<1>1. /\ rest \in Seq(Phases) /\ Len(rest) = Len(plan) - 1 /\ Len(plan) \in Nat \ {0}
      /\ \A i \in 1 .. Len(plan) - 1 : rest[i] = plan[i + 1]
  BY TailFacts
<1>2. \A i \in 1 .. Len(rest) : rest[i] \in Pending
  BY <1>1 DEF RestPends
<1>3. rest # <<>> => Head(rest) \in Pending
  <2> SUFFICES ASSUME rest # <<>> PROVE Head(rest) \in Pending
    OBVIOUS
  <2>1. Len(rest) \in Nat \ {0} /\ Head(rest) = rest[1]
    BY <1>1, TailFacts
  <2>2. QED
    BY <1>2, <2>1
<1>4. q \in Phases
  BY DEF Pending, Phases
<1>5. /\ <<p>> \o rest \in Seq(Phases) /\ <<p>> \o rest # <<>> /\ Head(<<p>> \o rest) = p
      /\ Len(rest) \in Nat /\ Len(<<p>> \o rest) = Len(rest) + 1
      /\ \A i \in 2 .. Len(rest) + 1 : (<<p>> \o rest)[i] = rest[i - 1]
  BY <1>1, ConsFacts
<1>6. /\ <<p, q>> \o rest \in Seq(Phases) /\ <<p, q>> \o rest # <<>>
      /\ Head(<<p, q>> \o rest) = p /\ Len(<<p, q>> \o rest) = Len(rest) + 2
      /\ (<<p, q>> \o rest)[2] = q
      /\ \A i \in 3 .. Len(rest) + 2 : (<<p, q>> \o rest)[i] = rest[i - 2]
  BY <1>1, <1>4, PairFacts
<1>7. RestPends(rest)
  BY <1>1, <1>2 DEF RestPends
<1>8. RestPends(<<p>> \o rest)
  <2> SUFFICES ASSUME NEW i \in 2 .. Len(rest) + 1 PROVE rest[i - 1] \in Pending
    BY <1>5 DEF RestPends
  <2>1. i - 1 \in 1 .. Len(rest)
    BY <1>5
  <2>2. QED
    BY <1>2, <2>1
<1>9. RestPends(<<p, q>> \o rest)
  <2> SUFFICES ASSUME NEW i \in 2 .. Len(rest) + 2
               PROVE  (<<p, q>> \o rest)[i] \in Pending
    BY <1>6 DEF RestPends
  <2>1. CASE i = 2
    BY <1>6, <2>1
  <2>2. CASE i # 2
    <3>1. i \in 3 .. Len(rest) + 2 /\ i - 2 \in 1 .. Len(rest)
      BY <1>5, <2>2
    <3>2. QED
      BY <1>2, <1>6, <3>1
  <2>3. QED
    BY <2>1, <2>2
<1>10. QED
  BY <1>1, <1>3, <1>5, <1>6, <1>7, <1>8, <1>9

(* The plans a handler begins with.                                         *)
LEMMA FirstPlans ==
    ASSUME NEW p \in Phases, NEW q \in Pending
    PROVE  /\ <<p>> \in Seq(Phases) /\ RestPends(<<p>>)
           /\ <<p, q>> \in Seq(Phases) /\ RestPends(<<p, q>>)
           /\ <<p>> # <<>> /\ Head(<<p>>) = p /\ <<p, q>> # <<>> /\ Head(<<p, q>>) = p
<1>1. q \in Phases
  BY DEF Pending, Phases
<1>2. QED
  BY <1>1 DEF RestPends

(* The plan a step leaves is a plan, and only pending phases wait in it.    *)
LEMMA PlanStep ==
    ASSUME HandlersTypeOK, RestPends(plan), [WNext]_wvars
    PROVE  plan' \in Seq(Phases) /\ RestPends(plan')
<1>1. plan \in Seq(Phases)
  BY DEF HandlersTypeOK
<1>2. ASSUME plan # <<>>,
             \/ Done
             \/ \E p \in Phases : Goto(<<p>>)
             \/ \E p \in Phases, q \in Pending : Goto(<<p, q>>)
      PROVE  plan' \in Seq(Phases) /\ RestPends(plan')
  <2>1. "compile" \in Pending /\ "compile" \in Phases
    BY DEF Pending, Phases
  <2>2. CASE Done
    BY <1>1, <1>2, <2>1, <2>2, PlanFacts DEF Done
  <2>3. ASSUME NEW p \in Phases, Goto(<<p>>)
        PROVE  plan' \in Seq(Phases) /\ RestPends(plan')
    BY <1>1, <1>2, <2>1, <2>3, PlanFacts DEF Goto
  <2>4. ASSUME NEW p \in Phases, NEW q \in Pending, Goto(<<p, q>>)
        PROVE  plan' \in Seq(Phases) /\ RestPends(plan')
    BY <1>1, <1>2, <2>4, PlanFacts DEF Goto
  <2>5. QED
    BY <1>2, <2>2, <2>3, <2>4
<1>3. CASE Phase
  <2>1. CASE \/ Read \/ ReadEnd \/ Tree \/ WalkEnd \/ ReadFiletree \/ Build
             \/ Query \/ SearchEnd \/ SourcesEnd
    <3>1. plan # <<>>
      BY <2>1 DEF Read, ReadEnd, Tree, WalkEnd, ReadFiletree, Build, Query, SearchEnd,
                  SourcesEnd, At
    <3>2. Done \/ \E p \in Phases : Goto(<<p>>)
      BY <2>1 DEF Read, ReadEnd, Tree, WalkEnd, ReadFiletree, Build, Query, SearchEnd,
                  SourcesEnd, Phases
    <3>3. QED
      BY <1>2, <3>1, <3>2
  <2>2. CASE Compile
    <3>1. plan # <<>> /\ \E p \in Phases, q \in Pending : Goto(<<p, q>>)
      BY <2>2 DEF Compile, At, Phases, Pending
    <3>2. QED
      BY <1>2, <3>1
  <2>3. CASE \/ WalkDown \/ WalkUp \/ Search
             \/ \E f \in Files : ReadOne(f) \/ Source(f)
    BY <1>1, <2>3 DEF WalkDown, WalkUp, Search, ReadOne, Source, RestPends
  <2>4. QED
    BY <1>3, <2>1, <2>2, <2>3 DEF Phase
<1>4. CASE Handler
  <2>1. \/ UNCHANGED plan
        \/ \E p \in Phases : plan' = <<p>>
        \/ \E p \in Phases, q \in Pending : plan' = <<p, q>>
    BY <1>4 DEF Handler, SetProject, SetTopModule, PushConfig, DidSave, Ignore, GetFileBB,
                ProjectTreeFromModule, ForceClearIndex, GetModules, Phases, Pending
  <2>2. ASSUME NEW p \in Phases, plan' = <<p>>
        PROVE  plan' \in Seq(Phases) /\ RestPends(plan')
    BY <2>2, FirstPlans DEF Pending
  <2>3. ASSUME NEW p \in Phases, NEW q \in Pending, plan' = <<p, q>>
        PROVE  plan' \in Seq(Phases) /\ RestPends(plan')
    BY <2>3, FirstPlans
  <2>4. CASE UNCHANGED plan
    BY <1>1, <2>4 DEF RestPends
  <2>5. QED
    BY <2>1, <2>2, <2>3, <2>4
<1>5. CASE CacheStep \/ Outside \/ UNCHANGED wvars
  BY <1>1, <1>5 DEF CacheStep, Outside, Unhandled, wvars, RestPends
<1>6. CASE HandlerThrows
  <2>1. plan' = plan \/ plan' = <<>>
    BY <1>6 DEF HandlerThrows, Unhandled, Unwind
  <2>2. <<>> \in Seq(Phases) /\ RestPends(<<>>)
    BY DEF RestPends
  <2>3. QED
    BY <1>1, <2>1, <2>2
<1>7. QED
  BY <1>3, <1>4, <1>5, <1>6 DEF WNext

(* The loops of the walk stay sets of modules.                              *)
LEMMA EnterTyped ==
    ASSUME NEW m \in Modules, NEW rest \in Seq(SUBSET Modules), seen \subseteq Modules,
           Enter(m, rest)
    PROVE  stack' \in Seq(SUBSET Modules) /\ seen' \subseteq Modules
<1>1. Deps[m] \in SUBSET Modules
  BY DepsAssumption
<1>2. <<Deps[m]>> \o rest \in Seq(SUBSET Modules)
  BY <1>1, ConsFacts
<1>3. QED
  BY <1>2 DEF Enter

(* Every step keeps the types of what the handlers keep.                    *)
LEMMA HandlersTyped ==
    ASSUME TypeOK, HandlersTypeOK, RestPends(plan), [WNext]_wvars
    PROVE  HandlersTypeOK'
<1> USE DEF HandlersTypeOK
<1>1. plan' \in Seq(Phases)
  BY PlanStep
<1>2. CASE Tree
  <2>1. <<>> \in Seq(SUBSET Modules)
    OBVIOUS
  <2>2. top \in Modules => Enter(top, <<>>) \/ UNCHANGED <<stack, seen>>
    BY <1>2 DEF Tree
  <2>3. top \notin Modules => UNCHANGED <<stack, seen>>
    BY <1>2, TopAssumption DEF Tree
  <2>4. stack' \in Seq(SUBSET Modules) /\ seen' \subseteq Modules
    BY <2>1, <2>2, <2>3, EnterTyped
  <2>5. QED
    BY <1>1, <1>2, <2>4 DEF Tree, settings
<1>3. CASE WalkDown
  <2>1. PICK d \in Head(stack) : WalkDep(d)
    BY <1>3 DEF WalkDown
  <2> DEFINE rest == <<Head(stack) \ {d}>> \o Tail(stack)
  <2>2. Head(stack) \in SUBSET Modules /\ Tail(stack) \in Seq(SUBSET Modules)
    BY <1>3, TailFacts DEF WalkDown
  <2>3. Head(stack) \ {d} \in SUBSET Modules
    BY <2>2
  <2>4. rest \in Seq(SUBSET Modules) /\ d \in Modules
    BY <2>2, <2>3, ConsFacts
  <2>5. (stack' = rest /\ UNCHANGED seen) \/ Enter(d, rest)
    BY <2>1 DEF WalkDep
  <2>6. stack' \in Seq(SUBSET Modules) /\ seen' \subseteq Modules
    BY <2>4, <2>5, EnterTyped
  <2>7. QED
    BY <1>1, <1>3, <2>6 DEF WalkDown, settings
<1>4. CASE WalkUp
  BY <1>1, <1>4, TailFacts DEF WalkUp, settings
<1>5. CASE Query
  <2>1. frontier' \subseteq Modules /\ root' \in Modules \union {NoTop}
    BY <1>5, DepsAssumption DEF Query, TypeOK, Box, BoxesOf
  <2>2. QED
    BY <1>1, <1>5, <2>1 DEF Query, settings
<1>6. CASE Search
  <2>1. frontier' \subseteq Modules /\ seen' \subseteq Modules
    BY <1>6, DepsAssumption DEF Search, Expand
  <2>2. QED
    BY <1>1, <1>6, <2>1 DEF Search, settings
<1>7. CASE \/ Read \/ ReadEnd \/ WalkEnd \/ Compile \/ ReadFiletree \/ Build
           \/ SearchEnd \/ SourcesEnd \/ \E f \in Files : ReadOne(f) \/ Source(f)
  <2>1. CASE Read
    <3>1. todo' \subseteq Files /\ scanAt' \in Nat
      BY <2>1 DEF Read, TypeOK
    <3>2. UNCHANGED <<top, excluded, treeValid, asked, stack, frontier, seen, root>>
      BY <2>1 DEF Read, settings, walk
    <3>3. QED
      BY <1>1, <3>1, <3>2
  <2>2. CASE SourcesEnd
    BY <1>1, <2>2 DEF SourcesEnd, walk
  <2>3. CASE Compile \/ ReadFiletree \/ Build
    BY <1>1, <2>3 DEF Compile, ReadFiletree, Build, settings, walk
  <2>4. CASE WalkEnd
    BY <1>1, <2>4 DEF WalkEnd
  <2>5. CASE SearchEnd
    BY <1>1, <2>5 DEF SearchEnd, settings
  <2>6. CASE ReadEnd
    BY <1>1, <2>6 DEF ReadEnd, settings, walk
  <2>7. CASE \E f \in Files : ReadOne(f) \/ Source(f)
    BY <1>1, <2>7 DEF ReadOne, Source, settings, walk
  <2>8. QED
    BY <1>7, <2>1, <2>2, <2>3, <2>4, <2>5, <2>6, <2>7
<1>8. CASE Handler
  BY <1>1, <1>8 DEF Handler, SetProject, SetTopModule, PushConfig, DidSave, Ignore,
                    GetFileBB, ProjectTreeFromModule, ForceClearIndex, GetModules,
                    settings, walk
<1>9. CASE CacheStep \/ Outside \/ UNCHANGED wvars
  BY <1>1, <1>9 DEF CacheStep, Outside, Unhandled, wvars, settings, walk
<1>10. CASE HandlerThrows
  <2>1. CASE Unhandled
    BY <1>1, <2>1 DEF Unhandled, settings, walk
  <2>2. CASE Unwind
    <3>1. <<>> \in Seq(SUBSET Modules) /\ NoTop \in Modules \union {NoTop}
      OBVIOUS
    <3>2. QED
      BY <1>1, <2>2, <3>1 DEF Unwind, settings
  <2>3. QED
    BY <1>10, <2>1, <2>2 DEF HandlerThrows
<1>11. QED
  BY <1>2, <1>3, <1>4, <1>5, <1>6, <1>7, <1>8, <1>9, <1>10 DEF WNext, Phase

(* The invariant of the cache, with the types and the plans.                *)
WIInv == IInv /\ HandlersTypeOK /\ RestPends(plan)

(* It holds before the first message.                                      *)
LEMMA InitWIInv == WInit => WIInv
<1> SUFFICES ASSUME WInit PROVE WIInv
  OBVIOUS
<1>1. IInv
  BY InitIInv DEF WInit
<1>2. HandlersTypeOK
  <2>1. <<>> \in Seq(Phases) /\ <<>> \in Seq(SUBSET Modules)
    OBVIOUS
  <2>2. QED
    BY <2>1 DEF WInit, HandlersTypeOK
<1>3. RestPends(plan)
  BY DEF WInit, RestPends
<1>4. QED
  BY <1>1, <1>2, <1>3 DEF WIInv

(* The invariant of the cache and the types hold at every step.             *)
THEOREM WInductive == WSpec => []WIInv
<1>1. WIInv /\ [WNext]_wvars => WIInv'
  <2> SUFFICES ASSUME WIInv, [WNext]_wvars PROVE WIInv'
    OBVIOUS
  <2>1. IInv /\ TypeOK /\ Owned /\ HandlersTypeOK /\ RestPends(plan)
    BY DEF WIInv, IInv, Agreement
  <2>2. [Next]_vars
    BY <2>1, StepCalls
  <2>3. IInv'
    BY <2>1, <2>2, AgreeStep, TypeStep DEF IInv
  <2>4. QED
    BY <2>1, <2>3, HandlersTyped, PlanStep DEF WIInv
<1>2. QED
  BY <1>1, InitWIInv, PTL DEF WSpec

(* Every variable of the cache and of the handlers keeps its type.          *)
THEOREM WTypeCorrect == WSpec => []WTypeOK
<1>1. WIInv => WTypeOK
  BY DEF WIInv, IInv, WTypeOK
<1>2. QED
  BY <1>1, WInductive, PTL

-----------------------------------------------------------------------------
(* The walk and the search.                                                 *)

In(phase) == plan # <<>> /\ Head(plan) = phase

(* An iteration that does not run has nothing left.                         *)
IterOK == iter.over = "none" => iter.left = {}

WalkInv ==
    In("walking") =>
        /\ Free
        /\ \A m \in seen : \A d \in Deps[m] : Accounted(d) \/ d \in Left(stack)

SearchInv ==
    In("search") =>
        /\ Free /\ root \in Modules
        /\ seen \subseteq Known /\ seen \subseteq Needed(root)
        /\ frontier \intersect Known \subseteq Needed(root)
        /\ Deps[root] \intersect Known \subseteq seen \union frontier
        /\ \A m \in seen : Deps[m] \intersect Known \subseteq seen \union frontier

LoopInv ==
    /\ IterOK /\ WalkInv /\ SearchInv
    /\ seen # {} => In("walking") \/ In("search")

(* Every step of the cache keeps that.                                      *)
LEMMA IterStep == ASSUME TypeOK, IterOK, [Next]_vars PROVE IterOK'
<1> USE DEF Iterations
<1>0. iter \in Iterations
  BY DEF TypeOK
<1>1. CASE Process \/ Over \/ UNCHANGED vars
  BY <1>1 DEF Process, ProcessSkip, ProcessParse, ProcessStamp, Over, vars, IterOK
<1>2. CASE FileSystem
  BY <1>2 DEF FileSystem, Delete, Edit, IterOK
<1>3. CASE Call
  <2>1. CASE \E prjOnly \in BOOLEAN : RefreshStart(prjOnly)
    <3>1. iter'.over = "prj"
      BY <2>1 DEF RefreshStart
    <3>2. QED
      BY <3>1 DEF IterOK
  <2>2. CASE UNCHANGED iter
    BY <2>2 DEF IterOK
  <2>3. QED
    BY <1>3, <2>1, <2>2 DEF Call, CallProcess, ClearProject, AddModule, RecordUri,
                            EnableSharedSourceManager, DisableSharedSourceManager
<1>4. ASSUME NEW f \in Files, RefreshVisit(f) \/ RefreshModified(f) PROVE IterOK'
  <2>1. iter.over # "none"
    BY <1>4 DEF RefreshVisit, RefreshModified, IterOK
  <2>2. iter'.over = iter.over \/ iter' = iter
    BY <1>4, <1>0 DEF RefreshVisit, RefreshModified
  <2>3. QED
    BY <2>1, <2>2 DEF IterOK
<1>5. CASE RefreshCrash \/ RefreshTurn \/ RefreshEnd
  <2>1. iter' = iter \/ iter'.over = "ws" \/ iter' = NoIteration
    BY <1>5, <1>0 DEF RefreshCrash, RefreshTurn, RefreshEnd
  <2>2. QED
    BY <2>1 DEF IterOK, NoIteration
<1>6. CASE Failure
  BY <1>6 DEF Failure, ParseFails, ProcessThrows, Raise, IterOK, NoIteration
<1>7. QED
  BY <1>1, <1>2, <1>3, <1>4, <1>5, <1>6 DEF Next, Refresh

(* While nothing runs, the cache makes no step of its own.                  *)
LEMMA FreeIsQuiet == ASSUME Free, IterOK PROVE ~Process /\ ~Refresh
  BY DEF Free, IterOK, Process, ProcessSkip, ProcessParse, ProcessStamp, Refresh,
         RefreshVisit, RefreshModified, RefreshCrash, RefreshTurn, RefreshEnd

(* What is left in the loops of a walk, when one begins and when one ends.  *)
LEMMA LeftFacts ==
    ASSUME NEW s \in Seq(SUBSET Modules), NEW D \in SUBSET Modules
    PROVE  /\ D \subseteq Left(<<D>> \o s) /\ Left(s) \subseteq Left(<<D>> \o s)
           /\ s # <<>> => Left(s) \subseteq Head(s) \union Left(Tail(s))
<1> DEFINE t == <<D>> \o s
<1>1. /\ t \in Seq(SUBSET Modules) /\ Len(s) \in Nat /\ Len(t) = Len(s) + 1 /\ t[1] = D
      /\ \A i \in 2 .. Len(s) + 1 : t[i] = s[i - 1]
  BY ConsFacts
<1>2. DOMAIN t = 1 .. Len(s) + 1 /\ DOMAIN s = 1 .. Len(s)
  BY <1>1
<1>3. D \subseteq Left(t)
  <2>1. 1 \in DOMAIN t
    BY <1>1, <1>2
  <2>2. QED
    BY <1>1, <2>1 DEF Left
<1>4. Left(s) \subseteq Left(t)
  <2> SUFFICES ASSUME NEW i \in DOMAIN s PROVE s[i] \subseteq Left(t)
    BY DEF Left
  <2>1. i + 1 \in DOMAIN t /\ t[i + 1] = s[i]
    BY <1>1, <1>2
  <2>2. QED
    BY <2>1 DEF Left
<1>5. ASSUME s # <<>> PROVE Left(s) \subseteq Head(s) \union Left(Tail(s))
  <2>1. /\ Tail(s) \in Seq(SUBSET Modules) /\ Len(Tail(s)) = Len(s) - 1
        /\ Head(s) = s[1] /\ Len(s) \in Nat \ {0}
        /\ \A i \in 1 .. Len(s) - 1 : Tail(s)[i] = s[i + 1]
    BY <1>5, TailFacts
  <2> SUFFICES ASSUME NEW i \in DOMAIN s, i # 1 PROVE s[i] \subseteq Left(Tail(s))
    BY <2>1 DEF Left
  <2>2. i - 1 \in 1 .. Len(s) - 1 /\ DOMAIN Tail(s) = 1 .. Len(s) - 1
    BY <1>2, <2>1
  <2>3. Tail(s)[i - 1] = s[i]
    BY <1>2, <2>1, <2>2
  <2>4. QED
    BY <2>2, <2>3 DEF Left
<1>6. QED
  BY <1>3, <1>4, <1>5

(* A module that is added is known to the project from then on, and the     *)
(* project forgets none.                                                    *)
LEMMA AddedIsKnown ==
    ASSUME IInv, NEW m \in Modules, AddModule(m)
    PROVE  /\ Free' /\ GotModuleInProject(m)'
           /\ \A d \in Modules : Accounted(d) => Accounted(d)'
<1>1. Agreement
  BY DEF IInv
<1>2. PICK b \in BoxesNamed(m) :
         IF b \notin located \/ RecordThrows(b.file, TRUE)
         THEN job' = [job EXCEPT !.op = "threw"] /\ UNCHANGED <<prjFiles, wsFiles, prjBBs>>
         ELSE UNCHANGED job /\ RecordFile(b.file, TRUE)
  BY DEF AddModule
<1>3. b \in store /\ b \in bound /\ b \in located /\ b.name = m
  BY <1>1, SameBoxes DEF BoxesNamed
<1>4. UNCHANGED job /\ RecordFile(b.file, TRUE)
  BY <1>1, <1>2, <1>3, NoThrow
<1>5. Free' /\ UNCHANGED wsBBs
  BY <1>4 DEF AddModule, Free
<1>6. b.file \in wsFiles
  <2>1. job.op = "idle" /\ b.file \in paths
    BY <1>1, <1>3 DEF AddModule, Free, Agreement, Owned
  <2>2. QED
    BY <1>1, <2>1 DEF Agreement, FilesAgree
<1>7. prjBBs' = Overlay(prjBBs, BoxesOf(b.file)) /\ b \in BoxesOf(b.file)
  BY <1>3, <1>4, <1>6 DEF RecordFile, BoxesOf
<1>8. b \in prjBBs' /\ Names(prjBBs) \subseteq Names(prjBBs')
  BY <1>7 DEF Overlay, Names
<1>9. GotModuleInProject(m)'
  BY <1>3, <1>8 DEF GotModuleInProject, Names
<1>10. ASSUME NEW d \in Modules, Accounted(d) PROVE Accounted(d)'
  <2>1. CASE GotModuleInProject(d)
    BY <1>8, <2>1 DEF GotModuleInProject, Accounted
  <2>2. CASE BoxesNamed(d) = {}
    <3>1. \A x \in wsBBs : x.name # d
      BY <2>2 DEF BoxesNamed
    <3>2. \A x \in BoxesOf(b.file) : x \in wsBBs
      BY <1>1, SameBoxes DEF BoxesOf
    <3>3. \A x \in prjBBs : x \in wsBBs
      BY <1>1, SameBoxes
    <3>4. \A x \in prjBBs' : x.name # d
      BY <1>7, <3>1, <3>2, <3>3 DEF Overlay
    <3>5. BoxesNamed(d)' = {}
      BY <1>5, <3>1, <3>4 DEF BoxesNamed
    <3>6. QED
      BY <3>5 DEF Accounted
  <2>3. QED
    BY <1>10, <2>1, <2>2 DEF Accounted
<1>11. QED
  BY <1>5, <1>9, <1>10

(* Entering a module leaves no dependency of those entered before behind.   *)
LEMMA EnterCovers ==
    ASSUME IInv, Free, NEW m \in Modules, NEW rest \in Seq(SUBSET Modules),
           seen \subseteq Modules, Enter(m, rest),
           \A x \in seen : \A d \in Deps[x] : Accounted(d) \/ d \in Left(rest) \/ d = m
    PROVE  /\ Free'
           /\ \A x \in seen' : \A d \in Deps[x] : Accounted(d)' \/ d \in Left(stack')
<1>1. Deps \in [Modules -> SUBSET Modules]
  BY DepsAssumption
<1>2. CASE BoxesNamed(m) = {} /\ stack' = rest /\ UNCHANGED <<vars, seen>>
  <2>1. Accounted(m)
    BY <1>2 DEF Accounted
  <2>2. Free' /\ \A d : Accounted(d)' <=> Accounted(d)
    BY <1>2 DEF vars, cache, boxes, Free, Accounted, GotModuleInProject, BoxesNamed, Names
  <2>3. QED
    BY <1>2, <2>1, <2>2
<1>3. CASE AddModule(m) /\ stack' = <<Deps[m]>> \o rest /\ seen' = seen \union {m}
  <2>1. Free' /\ GotModuleInProject(m)' /\ \A d \in Modules : Accounted(d) => Accounted(d)'
    BY <1>3, AddedIsKnown
  <2>2. Deps[m] \subseteq Left(stack') /\ Left(rest) \subseteq Left(stack')
    BY <1>1, <1>3, LeftFacts
  <2>3. Accounted(m)'
    BY <2>1 DEF Accounted
  <2>4. ASSUME NEW x \in seen', NEW d \in Deps[x] PROVE Accounted(d)' \/ d \in Left(stack')
    <3>1. d \in Modules
      BY <1>1, <1>3
    <3>2. CASE x = m
      BY <2>2, <3>2
    <3>3. CASE x \in seen
      BY <2>1, <2>2, <2>3, <3>1, <3>3
    <3>4. QED
      BY <1>3, <3>2, <3>3
  <2>5. QED
    BY <2>1, <2>4
<1>4. QED
  BY <1>2, <1>3 DEF Enter

(* The steps of the walk.                                                   *)
LEMMA WalkStep ==
    ASSUME WIInv, LoopInv, WalkDown \/ WalkUp
    PROVE  WalkInv' /\ In("walking")'
<1>1. /\ IInv /\ stack \in Seq(SUBSET Modules) /\ seen \subseteq Modules /\ stack # <<>>
      /\ UNCHANGED plan /\ In("walking")
  BY DEF WIInv, HandlersTypeOK, WalkDown, WalkUp, At, In
<1>2. Free /\ \A x \in seen : \A d \in Deps[x] : Accounted(d) \/ d \in Left(stack)
  BY <1>1 DEF LoopInv, WalkInv
<1>3. /\ Head(stack) \in SUBSET Modules /\ Tail(stack) \in Seq(SUBSET Modules)
      /\ Left(stack) \subseteq Head(stack) \union Left(Tail(stack))
  BY <1>1, TailFacts, LeftFacts
<1>4. In("walking")'
  BY <1>1 DEF In
<1>5. ASSUME UNCHANGED <<vars, seen>>,
             \A x \in seen : \A d \in Deps[x] : Accounted(d) \/ d \in Left(stack')
      PROVE  WalkInv'
  <2>1. Free' /\ \A d : Accounted(d)' <=> Accounted(d)
    BY <1>2, <1>5 DEF vars, cache, boxes, Free, Accounted, GotModuleInProject, BoxesNamed,
                      Names
  <2>2. QED
    BY <1>5, <2>1 DEF WalkInv
<1>6. CASE WalkUp
  <2>1. Left(stack) \subseteq Left(stack') /\ UNCHANGED <<vars, seen>>
    BY <1>3, <1>6 DEF WalkUp
  <2>2. QED
    BY <1>2, <1>4, <1>5, <2>1
<1>7. CASE WalkDown
  <2>1. PICK d \in Head(stack) : WalkDep(d)
    BY <1>7 DEF WalkDown
  <2> DEFINE rest == <<Head(stack) \ {d}>> \o Tail(stack)
  <2>2. Head(stack) \ {d} \in SUBSET Modules /\ d \in Modules
    BY <1>3
  <2>3. /\ rest \in Seq(SUBSET Modules)
        /\ Head(stack) \ {d} \subseteq Left(rest) /\ Left(Tail(stack)) \subseteq Left(rest)
    BY <1>3, <2>2, ConsFacts, LeftFacts
  <2>4. \A x \in seen : \A e \in Deps[x] : Accounted(e) \/ e \in Left(rest) \/ e = d
    BY <1>2, <1>3, <2>3
  <2>5. CASE GotModuleInProject(d)
    <3>1. Accounted(d) /\ stack' = rest /\ UNCHANGED <<vars, seen>>
      BY <2>1, <2>5 DEF WalkDep, Accounted
    <3>2. QED
      BY <1>4, <1>5, <2>4, <3>1
  <2>6. CASE ~GotModuleInProject(d)
    <3>1. Enter(d, rest)
      BY <2>1, <2>6 DEF WalkDep
    <3>2. QED
      BY <1>1, <1>2, <1>4, <2>2, <2>3, <2>4, <3>1, EnterCovers DEF WalkInv
  <2>7. QED
    BY <1>4, <2>5, <2>6
<1>8. QED
  BY <1>4, <1>6, <1>7

(* What a name stands for depends on two tables only.                       *)
LEMMA SameTables ==
    ASSUME UNCHANGED <<prjBBs, wsBBs>>
    PROVE  /\ Known' = Known /\ \A m : Needed(m)' = Needed(m)
           /\ \A m : Accounted(m)' <=> Accounted(m)
<1>1. \A m : BoxesNamed(m)' = BoxesNamed(m)
  BY DEF BoxesNamed
<1>2. Known' = Known
  BY <1>1 DEF Known
<1>3. \A m : GotModuleInProject(m)' <=> GotModuleInProject(m)
  BY DEF GotModuleInProject, Names
<1>4. QED
  BY <1>1, <1>2, <1>3 DEF Needed, Accounted

(* The steps of the search.                                                 *)
LEMMA SearchStep ==
    ASSUME WIInv, LoopInv, Search
    PROVE  SearchInv' /\ In("search")'
<1>1. UNCHANGED <<vars, plan, root>> /\ In("search") /\ In("search")'
  BY DEF Search, At, In
<1>2. /\ Free /\ root \in Modules
      /\ seen \subseteq Known /\ seen \subseteq Needed(root)
      /\ frontier \intersect Known \subseteq Needed(root)
      /\ Deps[root] \intersect Known \subseteq seen \union frontier
      /\ \A m \in seen : Deps[m] \intersect Known \subseteq seen \union frontier
  BY <1>1 DEF LoopInv, SearchInv
<1>3. Free' /\ Known' = Known /\ Needed(root)' = Needed(root)
  BY <1>1, <1>2, SameTables DEF vars, cache, boxes, Free
<1>4. frontier \subseteq Modules
  BY DEF WIInv, HandlersTypeOK
<1>5. PICK m \in frontier :
         IF Processed(m) \/ BoxesNamed(m) = {}
         THEN frontier' = frontier \ {m} /\ UNCHANGED seen
         ELSE Expand(m) /\ seen' = seen \union {m}
  BY DEF Search
<1>6. CASE Processed(m) \/ BoxesNamed(m) = {}
  <2>1. m \in seen \/ m \notin Known
    BY <1>6 DEF Processed, Known
  <2>2. QED
    BY <1>1, <1>2, <1>3, <1>5, <1>6, <2>1 DEF SearchInv
<1>7. CASE ~(Processed(m) \/ BoxesNamed(m) = {})
  <2>1. m \in Known /\ m \in Needed(root)
    BY <1>2, <1>4, <1>7 DEF Known
  <2>2. Deps[m] \intersect Known \subseteq Needed(root)
    <3> SUFFICES ASSUME NEW x \in Deps[m] \intersect Known,
                        NEW S \in SUBSET Known, Deps[root] \intersect Known \subseteq S,
                        \A y \in S : Deps[y] \intersect Known \subseteq S
                 PROVE  x \in S
      BY DEF Needed, Known
    <3>1. m \in S
      BY <2>1 DEF Needed
    <3>2. QED
      BY <3>1
  <2>3. frontier' = (frontier \ {m}) \union Deps[m] /\ seen' = seen \union {m}
    BY <1>5, <1>7 DEF Expand
  <2>4. /\ seen' \subseteq Known /\ seen' \subseteq Needed(root)
        /\ frontier' \intersect Known \subseteq Needed(root)
    BY <1>2, <2>1, <2>2, <2>3
  <2>5. /\ Deps[root] \intersect Known \subseteq seen' \union frontier'
        /\ \A y \in seen' : Deps[y] \intersect Known \subseteq seen' \union frontier'
    BY <1>2, <2>3
  <2>6. QED
    BY <1>1, <1>2, <1>3, <2>4, <2>5 DEF SearchInv
<1>8. QED
  BY <1>1, <1>6, <1>7

(* A phase other than the walk and the search asks nothing of the loops.    *)
LEMMA ElsewhereStep ==
    ASSUME ~In("walking")', ~In("search")', IterOK', seen' = {}
    PROVE  LoopInv'
  BY DEF LoopInv, WalkInv, SearchInv

(* Nor does a step that leaves the walk, the search and the tables alone.   *)
LEMMA QuietStep ==
    ASSUME LoopInv, UNCHANGED <<prjBBs, wsBBs, job, iter, plan, walk>>
    PROVE  LoopInv'
<1>1. /\ Known' = Known /\ \A m : Needed(m)' = Needed(m)
      /\ \A m : Accounted(m)' <=> Accounted(m)
  BY SameTables
<1>2. /\ UNCHANGED <<stack, frontier, seen, root>>
      /\ \A phase : In(phase)' <=> In(phase)
  BY DEF walk, In
<1>3. (Free' <=> Free) /\ (IterOK' <=> IterOK)
  BY DEF Free, IterOK
<1>4. WalkInv'
  BY <1>1, <1>2, <1>3 DEF LoopInv, WalkInv
<1>5. SearchInv'
  BY <1>1, <1>2, <1>3 DEF LoopInv, SearchInv
<1>6. QED
  BY <1>2, <1>3, <1>4, <1>5 DEF LoopInv

(* The end of a phase leaves a pending one, and the beginning of one is not *)
(* in the middle of a loop.                                                 *)
LEMMA HeadFacts ==
    ASSUME WIInv, plan # <<>>
    PROVE  /\ Done => ~In("walking")' /\ ~In("search")' /\ ~In("reading")'
           /\ \A p \in Phases : Goto(<<p>>) => plan' # <<>> /\ Head(plan') = p
           /\ \A p \in Phases, q \in Pending :
                 Goto(<<p, q>>) => plan' # <<>> /\ Head(plan') = p
<1>1. plan \in Seq(Phases) /\ RestPends(plan)
  BY DEF WIInv, HandlersTypeOK
<1>2. "compile" \in Pending /\ "compile" \in Phases
  BY DEF Pending, Phases
<1>3. Tail(plan) # <<>> => Head(Tail(plan)) \in Pending
  BY <1>1, <1>2, PlanFacts
<1>4. ASSUME NEW p \in Phases, NEW q \in Pending
      PROVE  /\ Goto(<<p>>) => plan' # <<>> /\ Head(plan') = p
             /\ Goto(<<p, q>>) => plan' # <<>> /\ Head(plan') = p
  BY <1>1, PlanFacts DEF Goto
<1>5. Done => ~In("walking")' /\ ~In("search")' /\ ~In("reading")'
  BY <1>3 DEF Done, In, Pending
<1>6. QED
  BY <1>2, <1>4, <1>5

(* The first module of a tree begins the walk.                              *)
LEMMA TreeStep ==
    ASSUME WIInv, LoopInv, IterOK', Tree
    PROVE  LoopInv'
<1>1. plan # <<>> /\ Free /\ ~In("walking") /\ ~In("search")
  BY DEF Tree, At, In
<1>2. seen = {} /\ IInv /\ top \in Tops \union {NoTop}
  BY <1>1 DEF LoopInv, WIInv, HandlersTypeOK
<1>3. CASE top = NoTop
  <2>1. Done /\ seen' = {}
    BY <1>2, <1>3 DEF Tree
  <2>2. QED
    BY <1>1, <2>1, HeadFacts, ElsewhereStep
<1>4. CASE top # NoTop
  <2>1. Enter(top, <<>>) /\ Goto(<<"walking">>) /\ top \in Modules
    BY <1>2, <1>4, TopAssumption DEF Tree
  <2>2. In("walking")' /\ ~In("search")'
    BY <1>1, <2>1, HeadFacts DEF In, Phases
  <2>3. <<>> \in Seq(SUBSET Modules)
    OBVIOUS
  <2>4. /\ Free'
        /\ \A x \in seen' : \A d \in Deps[x] : Accounted(d)' \/ d \in Left(stack')
    BY <1>1, <1>2, <2>1, <2>3, EnterCovers
  <2>5. QED
    BY <2>2, <2>4 DEF LoopInv, WalkInv, SearchInv
<1>5. QED
  BY <1>3, <1>4

(* The target of tree-from-module begins the search.                        *)
LEMMA QueryStep ==
    ASSUME WIInv, LoopInv, IterOK', Query
    PROVE  LoopInv'
<1>1. plan # <<>> /\ Free /\ ~In("walking") /\ ~In("search") /\ UNCHANGED <<vars, seen>>
  BY DEF Query, At, In
<1>2. seen' = {}
  BY <1>1 DEF LoopInv
<1>3. CASE Done
  BY <1>1, <1>2, <1>3, HeadFacts, ElsewhereStep
<1>4. CASE ~Done
  <2>1. PICK f \in asked : \E b \in BoxesOf(f) :
              frontier' = Deps[b.name] /\ root' = b.name /\ Goto(<<"search">>)
    BY <1>4 DEF Query
  <2>2. PICK b \in BoxesOf(f) :
              frontier' = Deps[b.name] /\ root' = b.name /\ Goto(<<"search">>)
    BY <2>1
  <2>3. b.name \in Modules
    BY DEF BoxesOf, WIInv, IInv, TypeOK, Box
  <2>4. frontier' = Deps[root'] /\ root' \in Modules
    BY <2>2, <2>3
  <2>5. In("search")' /\ ~In("walking")'
    BY <1>1, <2>2, HeadFacts DEF In, Phases
  <2>6. Deps[root'] \intersect Known \subseteq Needed(root')
    BY <2>4, DepsAssumption DEF Needed, Known
  <2>7. Free' /\ Known' = Known /\ Needed(root)' = Needed(root')
    BY <1>1, SameTables DEF vars, cache, boxes, Free, Needed
  <2>8. SearchInv'
    BY <1>2, <2>4, <2>6, <2>7 DEF SearchInv
  <2>9. QED
    BY <2>5, <2>8 DEF LoopInv, WalkInv
<1>5. QED
  BY <1>3, <1>4

(* Every step keeps the loop invariants.                                    *)
LEMMA LoopStep == ASSUME WIInv, LoopInv, [WNext]_wvars PROVE LoopInv'
<1>1. IterOK /\ TypeOK /\ HandlersTypeOK
  BY DEF LoopInv, WIInv, IInv
<1>2. IterOK'
  BY <1>1, StepCalls, IterStep
<1>3. CASE \/ Read \/ ReadEnd \/ Compile \/ ReadFiletree \/ Build \/ SourcesEnd
  <2>1. plan # <<>> /\ ~In("walking") /\ ~In("search") /\ UNCHANGED seen
    BY <1>3 DEF Read, ReadEnd, Compile, ReadFiletree, Build, SourcesEnd, At, In, walk
  <2>2. \/ Done
        \/ \E p \in Phases \ {"walking", "search"} :
             Goto(<<p>>) \/ \E q \in Pending : Goto(<<p, q>>)
    BY <1>3 DEF Read, ReadEnd, Compile, ReadFiletree, Build, SourcesEnd, Phases, Pending
  <2>3. ~In("walking")' /\ ~In("search")'
    BY <2>1, <2>2, HeadFacts DEF In
  <2>4. seen' = {}
    BY <2>1 DEF LoopInv
  <2>5. QED
    BY <1>2, <2>3, <2>4, ElsewhereStep
<1>4. CASE WalkEnd \/ SearchEnd
  <2>1. plan # <<>> /\ Done /\ seen' = {}
    BY <1>4 DEF WalkEnd, SearchEnd, At
  <2>2. QED
    BY <1>2, <2>1, HeadFacts, ElsewhereStep
<1>5. CASE WalkDown \/ WalkUp
  <2>1. WalkInv' /\ In("walking")'
    BY <1>5, WalkStep
  <2>2. QED
    BY <1>2, <2>1 DEF LoopInv, SearchInv, In
<1>6. CASE Search
  <2>1. SearchInv' /\ In("search")'
    BY <1>6, SearchStep
  <2>2. QED
    BY <1>2, <2>1 DEF LoopInv, WalkInv, In
<1>7. ASSUME UNCHANGED <<plan, walk>>, ~In("walking"), ~In("search")
      PROVE  LoopInv'
  <2>1. ~In("walking")' /\ ~In("search")' /\ seen' = {}
    BY <1>7 DEF In, LoopInv, walk
  <2>2. QED
    BY <1>2, <2>1, ElsewhereStep
<1>8. CASE \E f \in Files : ReadOne(f) \/ Source(f)
  BY <1>7, <1>8 DEF ReadOne, Source, At, In
<1>9. CASE Handler
  <2>1. plan = <<>> /\ UNCHANGED walk
    BY <1>9 DEF Handler, SetProject, SetTopModule, PushConfig, DidSave, Ignore, GetFileBB,
                ProjectTreeFromModule, ForceClearIndex, GetModules, Ready
  <2>2. \/ UNCHANGED plan
        \/ \E p \in Phases \ {"walking", "search"} :
             plan' = <<p>> \/ \E q \in Pending : plan' = <<p, q>>
    BY <1>9 DEF Handler, SetProject, SetTopModule, PushConfig, DidSave, Ignore, GetFileBB,
                ProjectTreeFromModule, ForceClearIndex, GetModules, Phases, Pending
  <2>3. ~In("walking")' /\ ~In("search")'
    BY <2>1, <2>2, FirstPlans DEF In, Pending
  <2>4. seen' = {}
    BY <2>1 DEF LoopInv, In, walk
  <2>5. QED
    BY <1>2, <2>3, <2>4, ElsewhereStep
<1>10. CASE CacheStep
  <2>1. ~Free
    BY <1>1, <1>10, FreeIsQuiet DEF CacheStep
  <2>2. ~In("walking") /\ ~In("search")
    BY <2>1 DEF LoopInv, WalkInv, SearchInv
  <2>3. QED
    BY <1>7, <1>10, <2>2 DEF CacheStep, Unhandled
<1>11. CASE Outside \/ UNCHANGED wvars
  <2>1. UNCHANGED <<prjBBs, wsBBs, job, iter, plan, walk>>
    BY <1>11 DEF Outside, Unhandled, FileSystem, Edit, Delete, Over, wvars, vars, cache,
                 boxes
  <2>2. QED
    BY <2>1, QuietStep
<1>12. CASE HandlerThrows
  <2>1. ~In("walking") /\ ~In("search")
    BY <1>12 DEF HandlerThrows, LoopInv, WalkInv, SearchInv, In
  <2>2. CASE Unhandled
    BY <1>7, <2>1, <2>2 DEF Unhandled
  <2>3. CASE Unwind
    <3>1. ~In("walking")' /\ ~In("search")' /\ seen' = {}
      BY <2>3 DEF Unwind, In
    <3>2. QED
      BY <1>2, <3>1, ElsewhereStep
  <2>4. QED
    BY <1>12, <2>2, <2>3 DEF HandlerThrows
<1>13. QED
  BY <1>2, <1>3, <1>4, <1>5, <1>6, <1>8, <1>9, <1>10, <1>11, <1>12, TreeStep, QueryStep
  DEF WNext, Phase

(* The loop invariants hold at every step.                                  *)
LEMMA LoopsHold == WSpec => [](WIInv /\ LoopInv)
<1>1. WInit => LoopInv
  BY DEF WInit, Init, LoopInv, IterOK, WalkInv, SearchInv, In, NoIteration
<1>2. WIInv /\ LoopInv /\ [WNext]_wvars => LoopInv'
  BY LoopStep
<1>3. QED
  BY <1>1, <1>2, WInductive, PTL DEF WSpec

(* Of the modules the walk of the project tree enters, no dependency is     *)
(* left behind: each is in the project, defined nowhere, or in a loop that  *)
(* runs.  A module that came with its file is not entered, and what it      *)
(* needs may stay out of the project.                                       *)
THEOREM WalkStaysComplete == WSpec => []WalkComplete
<1>1. LoopInv => WalkComplete
  BY DEF LoopInv, WalkInv, WalkComplete, At, In
<1>2. QED
  BY <1>1, LoopsHold, PTL

(* tree-from-module answers the least set of modules that is closed under   *)
(* dependencies, for any dependencies, loops included.                      *)
THEOREM SearchIsExact == WSpec => []SearchExact
<1>1. WIInv /\ LoopInv => SearchExact
  <2> SUFFICES ASSUME WIInv, LoopInv, At("search"), frontier = {}
               PROVE  seen = Needed(root)
    BY DEF SearchExact
  <2>1. /\ seen \subseteq Known /\ seen \subseteq Needed(root)
        /\ Deps[root] \intersect Known \subseteq seen
        /\ \A m \in seen : Deps[m] \intersect Known \subseteq seen
    BY DEF LoopInv, SearchInv, At, In
  <2>2. Needed(root) \subseteq seen
    BY <2>1 DEF Needed
  <2>3. QED
    BY <2>1, <2>2
<1>2. QED
  BY <1>1, LoopsHold, PTL

-----------------------------------------------------------------------------
(* The reading of the workspace.                                            *)

(* A file the scan has passed is in the cache with a stamp that is not      *)
(* older than its last write, or on its way in: it is being parsed.         *)
Passed(f) ==
    \/ f \in wsFiles /\ mtime[f] <= stamp[f]
    \/ f = job.file /\ job.op \in {"parse", "stamp"}

ScanInv ==
    In("reading") =>
        /\ iter.over = "none" /\ scanAt <= clock
        /\ job.op # "dead" =>
             \A f \in Files \ (todo \union excluded) :
                Exists(f) /\ mtime[f] <= scanAt => Passed(f)

(* No step but Read begins the scan of the files.                           *)
LEMMA ScanElsewhere ==
    ASSUME WIInv, LoopInv, ~In("reading"), [WNext]_wvars, ~Read
    PROVE  ~In("reading")'
<1>1. CASE UNCHANGED plan
  BY <1>1 DEF In
<1>2. ASSUME plan # <<>>,
             \/ Done
             \/ \E p \in Phases \ {"reading"} :
                  Goto(<<p>>) \/ \E q \in Pending : Goto(<<p, q>>)
      PROVE  ~In("reading")'
  BY <1>2, HeadFacts DEF In
<1>3. CASE ReadEnd \/ Tree \/ WalkEnd \/ ReadFiletree \/ Build \/ Query \/ SearchEnd
           \/ SourcesEnd \/ Compile
  <2>1. plan # <<>>
    BY <1>3 DEF ReadEnd, Tree, WalkEnd, ReadFiletree, Build, Query, SearchEnd, SourcesEnd,
                Compile, At
  <2>2. \/ Done
        \/ \E p \in Phases \ {"reading"} :
             Goto(<<p>>) \/ \E q \in Pending : Goto(<<p, q>>)
    BY <1>3 DEF ReadEnd, Tree, WalkEnd, ReadFiletree, Build, Query, SearchEnd, SourcesEnd,
                Compile, Phases, Pending
  <2>3. QED
    BY <1>2, <2>1, <2>2
<1>4. CASE \/ WalkDown \/ WalkUp \/ Search \/ CacheStep \/ Outside \/ UNCHANGED wvars
           \/ \E f \in Files : ReadOne(f) \/ Source(f)
  BY <1>1, <1>4 DEF WalkDown, WalkUp, Search, CacheStep, Outside, Unhandled, wvars,
                    ReadOne, Source
<1>5. CASE Handler
  <2>1. \/ UNCHANGED plan
        \/ \E p \in Phases \ {"reading"} :
             plan' = <<p>> \/ \E q \in Pending : plan' = <<p, q>>
    BY <1>5 DEF Handler, SetProject, SetTopModule, PushConfig, DidSave, Ignore, GetFileBB,
                ProjectTreeFromModule, ForceClearIndex, GetModules, Phases, Pending
  <2>2. QED
    BY <1>1, <2>1, FirstPlans DEF In, Pending
<1>6. CASE HandlerThrows
  <2>1. plan' = plan \/ plan' = <<>>
    BY <1>6 DEF HandlerThrows, Unhandled, Unwind
  <2>2. QED
    BY <1>1, <2>1 DEF In
<1>7. QED
  BY <1>3, <1>4, <1>5, <1>6 DEF WNext, Phase

(* A call of process_file takes the file in, or finds it in as it is, and   *)
(* leaves the other files alone.                                            *)
LEMMA ScanCall ==
    ASSUME IInv, NEW f \in Files, Exists(f), CallProcess(f, FALSE)
    PROVE  Passed(f)' /\ \A g \in Files : Passed(g) => Passed(g)'
<1>1. job.op = "idle" /\ UNCHANGED <<mtime, clock, iter>>
  BY DEF CallProcess, Free, ProcessFile, ProcessMissing, ProcessUnmodified,
         ProcessModified, ProcessNew, world
<1>2. stamp[f] # 0 => f \in wsFiles
  BY DEF IInv, Agreement, FilesAgree
<1>3. ~RemoveThrows(f)
  BY NoThrow DEF IInv
<1>4. CASE ProcessUnmodified(f, FALSE)
  BY <1>1, <1>2, <1>4 DEF ProcessUnmodified, Passed, Unmodified, cache, files
<1>5. CASE ProcessModified(f, FALSE) \/ ProcessNew(f, FALSE)
  <2>1. job'.op = "parse" /\ job'.file = f
    <3>1. \E p \in {KeptInProject(f, FALSE), FALSE} : Start("parse", f, p)
      BY <1>3, <1>5 DEF ProcessModified, ProcessNew
    <3>2. QED
      BY <3>1 DEF Start
  <2>2. \A g \in Files \ {f} : (g \in wsFiles => g \in wsFiles') /\ stamp'[g] = stamp[g]
    BY <1>3, <1>5 DEF ProcessModified, ProcessNew, RemoveFile, cache, files, IInv, TypeOK
  <2>3. QED
    BY <1>1, <2>1, <2>2 DEF Passed
<1>6. QED
  BY <1>4, <1>5 DEF CallProcess, ProcessFile, ProcessMissing

(* The steps inside a call complete it.                                     *)
LEMMA ScanProcess ==
    ASSUME IInv, Current, Process, job'.op # "dead"
    PROVE  \A f \in Files : Passed(f) => Passed(f)'
<1>1. TypeOK /\ Agreement /\ mtime' = mtime /\ clock \in Nat
  BY DEF IInv, TypeOK, Process, ProcessSkip, ProcessParse, ProcessStamp, world
<1>2. CASE ProcessSkip
  <2>1. wsFiles \subseteq wsFiles' /\ stamp' = stamp
    BY <1>1, <1>2, NoThrow DEF ProcessSkip, RecordFile
  <2>2. job.op = "skip"
    BY <1>2 DEF ProcessSkip
  <2>3. QED
    BY <1>1, <2>1, <2>2 DEF Passed
<1>3. CASE ProcessParse
  <2>1. job' = [job EXCEPT !.op = "stamp"] /\ UNCHANGED files
    BY <1>1, <1>3 DEF ProcessParse, TypeOK, Jobs
  <2>2. QED
    BY <1>1, <2>1 DEF Passed, files, TypeOK, Jobs
<1>4. CASE ProcessStamp
  <2>1. job.op = "stamp" /\ job.file \in Files
    BY <1>1, <1>4 DEF ProcessStamp, Agreement, Owned
  <2>2. RecordFile(job.file, job.prj)
    BY <1>1, <1>4, NoThrow DEF ProcessStamp
  <2>3. wsFiles' = wsFiles \union {job.file} /\ stamp' = [stamp EXCEPT ![job.file] = clock]
    BY <1>4, <2>2 DEF ProcessStamp, RecordFile, StampTime
  <2>4. mtime[job.file] <= clock
    BY <1>1, <2>1 DEF Current, Clocked, TypeOK
  <2>5. QED
    BY <1>1, <2>1, <2>3, <2>4 DEF Passed, TypeOK
<1>5. QED
  BY <1>2, <1>3, <1>4 DEF Process

(* Every step keeps the scan complete.                                      *)
LEMMA ScanStep ==
    ASSUME WIInv, LoopInv, Current, ScanInv, [WNext]_wvars
    PROVE  ScanInv'
<1>1. IInv /\ IterOK /\ scanAt \in Nat /\ clock \in Nat /\ mtime \in [Files -> Nat]
  BY DEF WIInv, LoopInv, IInv, TypeOK, HandlersTypeOK
<1>2. CASE Read
  <2>1. /\ scanAt' = clock /\ clock' = clock /\ iter' = iter /\ iter.over = "none"
        /\ \A f \in Files : Exists(f) => f \in todo'
        /\ disk' = disk
    BY <1>2 DEF Read, At, Free, EnableSharedSourceManager, world
  <2>2. QED
    BY <1>1, <2>1 DEF ScanInv, Exists
<1>3. CASE ~Read /\ ~In("reading")
  BY <1>3, ScanElsewhere DEF ScanInv
<1>4. ASSUME In("reading"), NEW f \in Files, ReadOne(f) PROVE ScanInv'
  <2>1. /\ plan' = plan /\ scanAt' = scanAt /\ excluded' = excluded
        /\ todo' = todo \ {f} /\ job.op = "idle"
    BY <1>4 DEF ReadOne, At, Free, settings
  <2>2. CASE Skipped(f)
    <3>1. UNCHANGED vars
      BY <1>4, <2>2 DEF ReadOne
    <3>2. QED
      BY <1>4, <2>1, <2>2, <3>1 DEF ScanInv, In, vars, world, cache, files, Exists, Passed,
                                    Skipped
  <2>3. CASE ~Skipped(f)
    <3>1. Exists(f) /\ CallProcess(f, FALSE)
      BY <1>4, <2>3 DEF ReadOne, Skipped
    <3>2. Passed(f)' /\ \A g \in Files : Passed(g) => Passed(g)'
      BY <1>1, <3>1, ScanCall
    <3>3. UNCHANGED <<disk, mtime, clock, iter>>
      BY <3>1 DEF CallProcess, ProcessFile, ProcessMissing, ProcessUnmodified,
                  ProcessModified, ProcessNew, world
    <3>4. QED
      BY <1>4, <2>1, <3>2, <3>3 DEF ScanInv, In, Exists
  <2>4. QED
    BY <2>2, <2>3
<1>5. CASE ReadEnd
  <2>1. plan # <<>> /\ Done
    BY <1>5 DEF ReadEnd, At
  <2>2. ~In("reading")'
    BY <2>1, HeadFacts
  <2>3. QED
    BY <2>2 DEF ScanInv
<1>6. CASE In("reading") /\ CacheStep
  <2>1. Process
    <3>1. job.op = "idle" => Free
      BY <1>6 DEF ScanInv, Free
    <3>2. Refresh => job.op = "idle"
      BY DEF Refresh, RefreshVisit, RefreshModified, RefreshCrash, RefreshTurn, RefreshEnd
    <3>3. QED
      BY <1>1, <1>6, <3>1, <3>2, FreeIsQuiet DEF CacheStep
  <2>2. /\ UNCHANGED <<disk, mtime, iter, plan, todo, excluded, scanAt>>
        /\ clock' = clock /\ job.op # "dead"
    BY <1>6, <2>1 DEF Process, ProcessSkip, ProcessParse, ProcessStamp, world, CacheStep,
                      Unhandled, settings
  <2>3. job'.op # "dead" => \A f \in Files : Passed(f) => Passed(f)'
    BY <1>1, <2>1, ScanProcess
  <2>4. scanAt <= clock'
    BY <1>1, <1>6, <2>2 DEF ScanInv
  <2>5. QED
    BY <1>6, <2>2, <2>3, <2>4 DEF ScanInv, In, Exists
<1>7. CASE In("reading") /\ Outside
  <2>1. UNCHANGED <<plan, todo, excluded, scanAt, job, iter, wsFiles, stamp>>
    BY <1>7 DEF Outside, Unhandled, FileSystem, Edit, Delete, Over, vars, cache, files,
                settings
  <2>2. CASE UNCHANGED <<disk, mtime, clock>>
    BY <1>7, <2>1, <2>2 DEF ScanInv, In, Exists, Passed
  <2>3. ASSUME NEW g \in Files, Delete(g) PROVE ScanInv'
    <3>1. UNCHANGED <<mtime, clock>> /\ \A f \in Files : Exists(f)' => Exists(f)
      BY <1>1, <2>3 DEF Delete, Exists, IInv, TypeOK
    <3>2. QED
      BY <1>7, <2>1, <3>1 DEF ScanInv, In, Passed
  <2>4. ASSUME NEW g \in Files, NEW c \in Contents, Edit(g, c) PROVE ScanInv'
    <3>1. /\ clock' = clock + 1 /\ mtime'[g] = clock + 1
          /\ \A f \in Files \ {g} : mtime'[f] = mtime[f] /\ disk'[f] = disk[f]
      BY <1>1, <2>4 DEF Edit, IInv, TypeOK
    <3>2. scanAt <= clock' /\ ~(mtime'[g] <= scanAt')
      BY <1>1, <1>7, <2>1, <3>1 DEF ScanInv
    <3>3. QED
      BY <1>7, <2>1, <3>1, <3>2 DEF ScanInv, In, Exists, Passed
  <2>5. QED
    BY <1>7, <2>2, <2>3, <2>4 DEF Outside, FileSystem, Over, vars, world
<1>8. CASE UNCHANGED wvars
  BY <1>8 DEF wvars, vars, world, cache, files, settings, ScanInv, In, Exists, Passed
<1>9. CASE In("reading") /\ HandlerThrows
  <2>1. CASE job'.op = "dead"
    <3>1. UNCHANGED <<plan, scanAt>> /\ UNCHANGED <<clock, iter>>
      BY <1>9, <2>1 DEF HandlerThrows, Unhandled, Failure, ParseFails, ProcessThrows,
                        Raise, Idle
    <3>2. QED
      BY <1>9, <2>1, <3>1 DEF ScanInv, In
  <2>2. CASE job'.op # "dead"
    BY <1>9, <2>2 DEF HandlerThrows, Unwind, ScanInv, In
  <2>3. QED
    BY <2>1, <2>2
<1>10. ASSUME In("reading"), ~Read, ~ReadEnd, ~CacheStep, ~HandlerThrows, ~Outside,
              ~UNCHANGED wvars
      PROVE  \E f \in Files : ReadOne(f)
  BY <1>10 DEF WNext, Phase, Handler, SetProject, SetTopModule, PushConfig, DidSave, Ignore,
              GetFileBB, ProjectTreeFromModule, ForceClearIndex, GetModules, Ready, In, At,
              Tree, WalkDown, WalkUp, WalkEnd, Compile, ReadFiletree, Build, Query, Search,
              SearchEnd, SourcesEnd, Source
<1>11. QED
  BY <1>2, <1>3, <1>4, <1>5, <1>6, <1>7, <1>8, <1>9, <1>10

(* As far as a scan of the workspace has come it has missed no file that    *)
(* was there when it began, whatever happens to the files meanwhile and     *)
(* whichever scans were cut short before.                                   *)
THEOREM ScansAreComplete == WSpec => []ScanComplete
<1>1. WIInv /\ Current /\ ScanInv => ScanComplete
  <2> SUFFICES ASSUME WIInv, Current, ScanInv, At("reading"),
                      NEW f \in Files \ (todo \union excluded),
                      Exists(f), mtime[f] <= scanAt
               PROVE  f \in wsFiles /\ (Names(BoxesOf(f)) = disk[f] \/ Raced(f))
    BY DEF ScanComplete
  <2>1. In("reading") /\ job.op = "idle"
    BY DEF At, In, Free
  <2>2. f \in wsFiles /\ mtime[f] <= stamp[f]
    BY <2>1 DEF ScanInv, Passed
  <2>3. f \in paths /\ mtime[f] \in Nat /\ readAt[f] \in Nat
    BY <2>2 DEF WIInv, IInv, TypeOK, Agreement, FilesAgree
  <2>4. CASE mtime[f] <= readAt[f]
    BY <2>2, <2>3, <2>4 DEF Current, Parsed
  <2>5. CASE readAt[f] < mtime[f]
    BY <2>2, <2>5 DEF Raced
  <2>6. QED
    BY <2>3, <2>4, <2>5
<1>2. WInit => Current /\ ScanInv
  BY InitCurrent DEF WInit, ScanInv, In
<1>3. WIInv /\ LoopInv /\ Current /\ ScanInv /\ [WNext]_wvars => Current' /\ ScanInv'
  <2> SUFFICES ASSUME WIInv, LoopInv, Current, ScanInv, [WNext]_wvars
               PROVE  Current' /\ ScanInv'
    OBVIOUS
  <2>1. [Next]_vars /\ IInv
    BY StepCalls DEF WIInv
  <2>2. QED
    BY <2>1, CurrentStep, ScanStep
<1>4. QED
  BY <1>1, <1>2, <1>3, LoopsHold, PTL DEF WSpec
=============================================================================
