------------------------- MODULE WorkerProcessProofs -------------------------
(* Proofs about WorkerProcess: for any number of threads, any value of      *)
(* JOB_EXECUTORS, and any failing imports and restarts.                    *)
EXTENDS WorkerProcess, TLAPS

\* The deployment is a sequence of sequences of job types, and never changes.
LEMMA DeploymentTyped ==
  ASSUME executors \in Deployments
  PROVE  /\ Modules = 1..Len(executors) /\ Len(executors) \in Nat
         /\ \A m \in Modules : /\ executors[m] \in Seq(JobTypes)
                               /\ DOMAIN executors[m] = 1..Len(executors[m])
                               /\ Len(executors[m]) \in Nat
                               /\ \A i \in DOMAIN executors[m] : executors[m][i] \in JobTypes
<1>1. executors \in Seq(Seq(JobTypes))
  BY WorkerAssumption
<1> QED
  BY <1>1 DEF Modules

-----------------------------------------------------------------------------
(* Type correctness.                                                       *)

LEMMA WorkerInit == Init => TypeOK
<1> SUFFICES ASSUME Init PROVE TypeOK
  OBVIOUS
<1>1. registry \in [JobTypes -> Modules \cup {0}] /\ imported \in SUBSET Modules
  BY DEF Init
<1>2. \A t \in Threads : t # NoThread
  BY WorkerAssumption
<1>3. job \in [Threads -> JobTypes]
  BY WorkerAssumption DEF Init
<1> QED
  BY <1>1, <1>2, <1>3 DEF Init, TypeOK, Phases

\* The steps of a job.
LEMMA JobTyped ==
  ASSUME TypeOK, NEW t \in Threads, JobStep(t) \/ ImportRaises(t)
  PROVE  TypeOK'
<1> USE DEF TypeOK, Goto, Phases, Modules
<1>0. \A u \in Threads : u # NoThread
  BY WorkerAssumption
<1>1. CASE FindRunner(t) \/ AwaitRunner(t) \/ WakeUp(t) \/ GetExecutor(t)
  BY <1>1 DEF FindRunner, AwaitRunner, WakeUp, GetExecutor, imports, dispatch
<1>2. CASE BeginImport(t)
  BY <1>0, <1>2 DEF BeginImport, dispatch
<1>3. CASE Register(t)
  <2>1. /\ module \in Modules /\ done + 1 \in DOMAIN executors[module]
        /\ Decorators[done + 1] \in JobTypes
    <3>1. module \in Modules /\ done \in Nat /\ done < Len(executors[module])
      BY <1>3 DEF Register, Loading, Decorators
    <3> HIDE DEF Modules
    <3>2. done + 1 \in DOMAIN executors[module]
      BY <3>1, DeploymentTyped
    <3> QED
      BY <3>1, <3>2, DeploymentTyped DEF Decorators
  <2>2. registry' \in [JobTypes -> Modules \cup {0}]
    BY <1>3, <2>1 DEF Register
  <2> QED
    BY <1>3, <2>2 DEF Register, dispatch
<1>4. CASE FinishModule(t)
  BY <1>4 DEF FinishModule, dispatch
<1>5. CASE FinishImport(t)
  BY <1>0, <1>5 DEF FinishImport, dispatch
<1>6. CASE RefuseDuplicate(t) \/ ImportRaises(t)
  <2>1. /\ importer = t /\ importer' = NoThread
        /\ pc' = [pc EXCEPT ![t] = "idle"]
        /\ faults' \in Nat
        /\ UNCHANGED <<executors, imported, runner, module, done, registry, dispatch, job,
                       unregistered, restarts>>
    BY <1>6 DEF RefuseDuplicate, ImportRaises, AbandonImport, Loading
  <2>2. \A u \in Threads : pc'[u] = "load" <=> importer' = u
    BY <1>0, <2>1
  <2>3. \A u \in Threads : pc'[u] \in {"recheck", "build"} <=> lock' = u
    BY <2>1 DEF dispatch
  <2> QED
    BY <2>1, <2>2, <2>3 DEF dispatch
<1> QED
  BY <1>1, <1>2, <1>3, <1>4, <1>5, <1>6 DEF JobStep

\* The steps of a tick.
LEMMA TickTyped ==
  ASSUME TypeOK, NEW t \in Threads, TickStep(t)
  PROVE  TypeOK'
<1> USE DEF TypeOK, Goto, Phases, Modules
<1>0. \A u \in Threads : u # NoThread
  BY WorkerAssumption
<1>1. CASE CheckDispatcher(t)
  BY <1>1 DEF CheckDispatcher, imports, dispatch
<1>2. CASE LockDispatcher(t)
  BY <1>0, <1>2 DEF LockDispatcher, imports
<1>3. CASE RecheckDispatcher(t)
  BY <1>0, <1>3 DEF RecheckDispatcher, imports
<1>4. CASE BuildDispatcher(t)
  BY <1>0, <1>4 DEF BuildDispatcher, imports
<1>5. CASE ReturnDispatcher(t)
  BY <1>5 DEF ReturnDispatcher, imports
<1> QED
  BY <1>1, <1>2, <1>3, <1>4, <1>5 DEF TickStep

LEMMA WorkerTyped ==
  ASSUME TypeOK, [Next]_vars
  PROVE  TypeOK'
<1> USE DEF TypeOK, Goto, Phases, Modules
<1>1. ASSUME NEW t \in Threads, NEW type \in JobTypes, ReceiveJob(t, type)
      PROVE  TypeOK'
  BY <1>1 DEF ReceiveJob, imports, dispatch
<1>2. ASSUME NEW t \in Threads, ReceiveTick(t)
      PROVE  TypeOK'
  BY <1>2 DEF ReceiveTick, imports, dispatch
<1>3. CASE Restart
  <2>1. \A t \in Threads : t # NoThread
    BY WorkerAssumption
  <2>2. /\ registry' \in [JobTypes -> Modules' \cup {0}]
        /\ used' \in [Threads -> Nat]
        /\ pc' \in [Threads -> Phases]
    BY <1>3 DEF Restart
  <2>3. \A t \in Threads : pc'[t] = "idle" /\ importer' # t /\ lock' # t
    BY <1>3, <2>1 DEF Restart
  <2>4. /\ \A t \in Threads : pc'[t] = "load" <=> importer' = t
        /\ \A t \in Threads : pc'[t] \in {"recheck", "build"} <=> lock' = t
    BY <2>3
  <2>5. /\ UNCHANGED <<executors, job, unregistered, faults>>
        /\ imported' = {} /\ importer' = NoThread /\ lock' = NoThread
    BY <1>3 DEF Restart
  <2>6. runner' \in BOOLEAN
    BY <1>3 DEF Restart
  <2>7. /\ module' \in Nat /\ done' \in Nat /\ dispatcher' \in Nat /\ built' \in Nat
        /\ restarts' \in Nat
    BY <1>3 DEF Restart
  <2> QED
    BY <2>2, <2>4, <2>5, <2>6, <2>7
<1>4. CASE UNCHANGED vars
  BY <1>4 DEF vars, imports, dispatch
<1> QED
  BY <1>1, <1>2, <1>3, <1>4, JobTyped, TickTyped DEF Next, Receive

LEMMA WorkerSafety == Spec => Init /\ [][Next]_vars
  BY PTL DEF Spec

\* Type correctness; the two locks are held by the threads that are inside.
THEOREM WorkerTypeCorrect == Spec => []TypeOK
  BY WorkerInit, WorkerTyped, WorkerSafety, PTL

-----------------------------------------------------------------------------
(* The registry is complete before anybody reads it.                       *)

\* All types of a module are registered.
Provided(m) == \A i \in DOMAIN executors[m] : registry[executors[m][i]] # 0

\* What is in sys.modules has registered its types; the importer has passed the modules
\* before its own and the decorators before its own; and who runs a job came after it.
ImportsInv ==
  /\ \A m \in imported : Provided(m)
  /\ importer # NoThread =>
       /\ ~runner
       /\ module > 0
       /\ \A m \in Modules : m < module => m \in imported
       /\ module \in Modules \ imported =>
            \A i \in DOMAIN executors[module] : i <= done => registry[executors[module][i]] # 0
  /\ runner => Modules \subseteq imported
  /\ \A t \in Threads : pc[t] = "run" => runner

RegistryInv == TypeOK /\ ImportsInv /\ NoneMisdirected

\* Nothing of the import changes, and who goes on to run a job comes after it.
LEMMA ImportsFrame ==
  ASSUME ImportsInv, UNCHANGED <<executors, imports>>,
         \A t \in Threads : pc'[t] = "run" => pc[t] = "run" \/ runner
  PROVE  ImportsInv'
  BY DEF ImportsInv, Provided, imports, Modules

LEMMA RegisterImports ==
  ASSUME TypeOK, ImportsInv, NEW t \in Threads, Register(t)
  PROVE  ImportsInv'
<1> DEFINE type == executors[module][done + 1]
<1>1. /\ pc[t] = "load" /\ importer = t /\ t # NoThread
      /\ module \in Modules \ imported /\ done \in Nat
      /\ UNCHANGED <<executors, imported, runner, importer, module, pc>>
      /\ done' = done + 1
      /\ registry' = [registry EXCEPT ![type] = module]
  BY WorkerAssumption DEF Register, Loading, Decorators, TypeOK
<1>2. module # 0
  BY <1>1, DeploymentTyped DEF TypeOK
<1>3. \A y \in JobTypes : registry'[y] = registry[y] \/ registry'[y] # 0
  BY <1>1, <1>2 DEF TypeOK
<1>4. \A m \in Modules : \A i \in DOMAIN executors[m] : executors[m][i] \in JobTypes
  BY DeploymentTyped DEF TypeOK
<1>5. \A m \in imported : Provided(m)'
  BY <1>1, <1>3, <1>4 DEF ImportsInv, Provided, TypeOK
<1>6. ASSUME NEW i \in DOMAIN executors[module], i <= done + 1
      PROVE  registry'[executors[module][i]] # 0
  <2>1. CASE i <= done
    BY <1>1, <1>3, <1>4, <1>6, <2>1 DEF ImportsInv
  <2>2. CASE ~(i <= done)
    <3>1. i \in Int
      BY <1>1, DeploymentTyped DEF TypeOK
    <3>2. i = done + 1
      BY <1>1, <1>6, <2>2, <3>1
    <3> QED
      BY <1>1, <1>2, <1>4, <3>2 DEF TypeOK
  <2> QED
    BY <2>1, <2>2
<1> HIDE DEF type
<1> QED
  BY <1>1, <1>5, <1>6 DEF ImportsInv, Modules

LEMMA FinishModuleImports ==
  ASSUME TypeOK, ImportsInv, NEW t \in Threads, FinishModule(t)
  PROVE  ImportsInv'
<1>1. /\ importer = t /\ t # NoThread /\ module \in Modules /\ module \in Nat /\ done \in Nat
      /\ module \in imported \/ done = Len(executors[module])
      /\ imported' = imported \cup {module}
      /\ module' = module + 1 /\ done' = 0
      /\ UNCHANGED <<executors, runner, importer, registry, pc>>
  BY WorkerAssumption DEF FinishModule, Decorators, TypeOK
<1>2. Provided(module)
  <2>1. CASE module \in imported
    BY <2>1 DEF ImportsInv
  <2>2. CASE module \notin imported
    <3>1. \A i \in DOMAIN executors[module] : i <= done
      BY <1>1, <2>2, DeploymentTyped DEF TypeOK
    <3> QED
      BY <1>1, <2>2, <3>1 DEF ImportsInv, Provided
  <2> QED
    BY <2>1, <2>2
<1>3. \A m \in imported' : Provided(m)'
  BY <1>1, <1>2 DEF ImportsInv, Provided
<1>4. \A m \in Modules' : m < module' => m \in imported'
  <2>1. ASSUME NEW m \in Modules, m < module + 1, m # module
        PROVE  m \in imported
    BY <1>1, <2>1, DeploymentTyped DEF ImportsInv, TypeOK
  <2> QED
    BY <1>1, <2>1 DEF Modules
<1>5. module' \in Modules' => \A i \in DOMAIN executors'[module'] : ~(i <= done')
  BY <1>1, DeploymentTyped DEF TypeOK, Modules
<1> QED
  BY <1>1, <1>3, <1>4, <1>5 DEF ImportsInv, Modules

LEMMA ImportsStep ==
  ASSUME TypeOK, ImportsInv, [Next]_vars
  PROVE  ImportsInv'
<1> USE DEF Goto
<1>1. ASSUME NEW t \in Threads, NEW type \in JobTypes, ReceiveJob(t, type)
      PROVE  ImportsInv'
  BY <1>1, ImportsFrame DEF ReceiveJob, TypeOK
<1>2. ASSUME NEW t \in Threads,
             \/ FindRunner(t) \/ AwaitRunner(t) \/ WakeUp(t) \/ GetExecutor(t)
             \/ ReceiveTick(t) \/ TickStep(t)
      PROVE  ImportsInv'
  <2>1. UNCHANGED <<executors, imports>>
    BY <1>2
    DEF FindRunner, AwaitRunner, WakeUp, GetExecutor, ReceiveTick, TickStep,
        CheckDispatcher, LockDispatcher, RecheckDispatcher, BuildDispatcher, ReturnDispatcher
  <2>2. \A u \in Threads : pc'[u] = "run" => pc[u] = "run" \/ runner
    BY <1>2
    DEF FindRunner, AwaitRunner, WakeUp, GetExecutor, ReceiveTick, TickStep,
        CheckDispatcher, LockDispatcher, RecheckDispatcher, BuildDispatcher,
        ReturnDispatcher, TypeOK
  <2> QED
    BY <2>1, <2>2, ImportsFrame
<1>3. ASSUME NEW t \in Threads, BeginImport(t)
      PROVE  ImportsInv'
  <2>1. \A m \in Modules : ~(m < 1)
    BY DeploymentTyped DEF TypeOK
  <2>2. \A i \in DOMAIN executors[1] : 1 \in Modules => ~(i <= 0)
    BY DeploymentTyped DEF TypeOK
  <2> QED
    BY <1>3, <2>1, <2>2 DEF BeginImport, ImportsInv, Provided, Modules, TypeOK
<1>4. ASSUME NEW t \in Threads, FinishImport(t)
      PROVE  ImportsInv'
  <2>1. importer = t /\ t # NoThread /\ module \notin Modules /\ module \in Nat
    BY <1>4, WorkerAssumption DEF FinishImport, TypeOK
  <2>2. \A m \in Modules : m < module
    BY <2>1, DeploymentTyped DEF ImportsInv, TypeOK
  <2>3. Modules \subseteq imported
    BY <2>1, <2>2 DEF ImportsInv
  <2> QED
    BY <1>4, <2>3 DEF FinishImport, ImportsInv, Provided, Modules
<1>5. ASSUME NEW t \in Threads, RefuseDuplicate(t) \/ ImportRaises(t)
      PROVE  ImportsInv'
  BY <1>5 DEF RefuseDuplicate, ImportRaises, AbandonImport, ImportsInv, Provided, Modules, TypeOK
<1>6. CASE Restart
  BY <1>6 DEF Restart, ImportsInv
<1>7. CASE UNCHANGED vars
  BY <1>7, ImportsFrame DEF vars
<1> QED
  BY <1>1, <1>2, <1>3, <1>4, <1>5, <1>6, <1>7, RegisterImports, FinishModuleImports
  DEF Next, Receive, JobStep

\* A job is looked up when every configured type is registered.
LEMMA LookupFinds ==
  ASSUME TypeOK, ImportsInv, NoneMisdirected, NEW t \in Threads, GetExecutor(t)
  PROVE  NoneMisdirected'
<1>1. runner /\ Modules \subseteq imported
  BY DEF GetExecutor, ImportsInv
<1>2. \A type \in Configured : registry[type] # 0
  BY <1>1 DEF Configured, ImportsInv, Provided
<1>3. unregistered' = unregistered \cup {type \in {job[t]} : registry[type] = 0}
  BY DEF GetExecutor
<1>4. Configured' = Configured
  BY DEF GetExecutor, Configured, Modules
<1> QED
  BY <1>2, <1>3, <1>4 DEF NoneMisdirected

LEMMA RegistryStep ==
  ASSUME RegistryInv, [Next]_vars
  PROVE  RegistryInv'
<1>1. TypeOK' /\ ImportsInv'
  BY WorkerTyped, ImportsStep DEF RegistryInv
<1>2. UNCHANGED executors
  BY DEF Next, Receive, ReceiveJob, JobStep, FindRunner, AwaitRunner, BeginImport, WakeUp,
         Register, FinishModule, FinishImport, RefuseDuplicate, ImportRaises, AbandonImport,
         GetExecutor, ReceiveTick, TickStep, CheckDispatcher, LockDispatcher,
         RecheckDispatcher, BuildDispatcher, ReturnDispatcher, Restart, vars
<1>3. UNCHANGED unregistered \/ \E t \in Threads : GetExecutor(t)
  BY DEF Next, Receive, ReceiveJob, JobStep, FindRunner, AwaitRunner, BeginImport, WakeUp,
         Register, FinishModule, FinishImport, RefuseDuplicate, ImportRaises, AbandonImport,
         ReceiveTick, TickStep, CheckDispatcher, LockDispatcher,
         RecheckDispatcher, BuildDispatcher, ReturnDispatcher, Restart, vars
<1>4. NoneMisdirected'
  <2>1. Configured' = Configured
    BY <1>2 DEF Configured, Modules
  <2>2. CASE UNCHANGED unregistered
    BY <2>1, <2>2 DEF RegistryInv, NoneMisdirected
  <2> QED
    BY <1>3, <2>2, LookupFinds DEF RegistryInv
<1> QED
  BY <1>1, <1>4 DEF RegistryInv

\* However threads overlap with an import and however imports fail, no job of a type
\* that JOB_EXECUTORS provides is sent to the DLQ for want of an executor.
THEOREM JobsFindExecutors == Spec => []NoneMisdirected
<1>1. Init => RegistryInv
  <2> SUFFICES ASSUME Init PROVE RegistryInv
    OBVIOUS
  <2>1. ImportsInv
    BY DEF Init, ImportsInv
  <2> QED
    BY <2>1, WorkerInit DEF Init, RegistryInv, NoneMisdirected
<1>2. RegistryInv => NoneMisdirected
  BY DEF RegistryInv
<1> QED
  BY <1>1, <1>2, RegistryStep, WorkerSafety, PTL

-----------------------------------------------------------------------------
(* The dispatcher.                                                         *)

\* Who builds has the lock and found none; who returns one found one or built it.
DispatcherInv ==
  /\ dispatcher = built /\ built \in {0, 1}
  /\ \A t \in Threads :
       /\ pc[t] = "build" => dispatcher = 0
       /\ pc[t] = "return" => dispatcher = 1
       /\ used[t] \in {0, dispatcher}

LEMMA DispatcherStep ==
  ASSUME TypeOK, DispatcherInv, [Next]_vars
  PROVE  DispatcherInv'
<1> USE DEF TypeOK, DispatcherInv, Goto
<1>1. ASSUME NEW t \in Threads, TickStep(t)
      PROVE  DispatcherInv'
  <2>1. CASE CheckDispatcher(t)
    BY <2>1 DEF CheckDispatcher, dispatch
  <2>2. CASE LockDispatcher(t)
    BY <2>2 DEF LockDispatcher
  <2>3. CASE RecheckDispatcher(t)
    BY <2>3 DEF RecheckDispatcher
  <2>4. CASE BuildDispatcher(t)
    <3>1. \A u \in Threads \ {t} : pc[u] # "build"
      BY <2>4 DEF BuildDispatcher
    <3> QED
      BY <2>4, <3>1 DEF BuildDispatcher
  <2>5. CASE ReturnDispatcher(t)
    BY <2>5 DEF ReturnDispatcher
  <2> QED
    BY <1>1, <2>1, <2>2, <2>3, <2>4, <2>5 DEF TickStep
<1>2. ASSUME NEW t \in Threads, JobStep(t) \/ ImportRaises(t)
      PROVE  DispatcherInv'
  <2>1. UNCHANGED dispatch
    BY <1>2
    DEF JobStep, FindRunner, AwaitRunner, BeginImport, WakeUp, Register, FinishModule,
        FinishImport, RefuseDuplicate, ImportRaises, AbandonImport, GetExecutor
  <2>2. \A u \in Threads : pc'[u] \in {"build", "return"} => pc'[u] = pc[u]
    BY <1>2
    DEF JobStep, FindRunner, AwaitRunner, BeginImport, WakeUp, Register, FinishModule,
        FinishImport, RefuseDuplicate, ImportRaises, AbandonImport, GetExecutor
  <2> QED
    BY <2>1, <2>2 DEF dispatch
<1>3. ASSUME NEW t \in Threads, ReceiveTick(t) \/ \E type \in JobTypes : ReceiveJob(t, type)
      PROVE  DispatcherInv'
  BY <1>3 DEF ReceiveTick, ReceiveJob, dispatch
<1>4. CASE Restart
  BY <1>4 DEF Restart
<1>5. CASE UNCHANGED vars
  BY <1>5 DEF vars, dispatch
<1> QED
  BY <1>1, <1>2, <1>3, <1>4, <1>5 DEF Next, Receive

\* Double-checked locking: any number of threads get to use one dispatcher.
THEOREM DispatcherIsOne == Spec => []OneDispatcher
<1>1. Init => DispatcherInv
  BY DEF Init, DispatcherInv
<1>2. DispatcherInv => OneDispatcher
  BY DEF DispatcherInv, OneDispatcher
<1> QED
  BY <1>1, <1>2, DispatcherStep, WorkerTypeCorrect, WorkerSafety, PTL

-----------------------------------------------------------------------------
(* Failed imports.                                                         *)

\* A decorator of a module that is still to be imported will find its type registered.
Trapped ==
  \E m \in Modules \ imported : \E i \in DOMAIN executors[m] :
    /\ registry[executors[m][i]] # 0
    /\ importer # NoThread /\ module = m => done < i

\* An import fails for one of four reasons: the module raises, the process dies, two
\* executors claim one type, or an earlier import of the module failed half-way.
ImportFailuresExplained ==
  [][\A t \in Threads : pc[t] = "load" /\ pc'[t] = "idle" =>
       \/ faults' # faults
       \/ restarts' # restarts
       \/ HalfImported'
       \/ Conflicting]_vars

\* The last reason is for good: nothing but a restart gets a process out of the trap,
\* however often its jobs import the runner again.
TrappedUntilRestart == [][Trapped => Trapped' \/ restarts' # restarts]_vars

\* A registration was made by a decorator of the module it names.
OriginInv ==
  \A type \in JobTypes : registry[type] # 0 =>
    \E i \in DOMAIN executors[registry[type]] : executors[registry[type]][i] = type

\* The steps that leave the import and what is registered alone.
LEMMA QuietSteps ==
  ASSUME [Next]_vars,
         \A t \in Threads : ~(\/ BeginImport(t) \/ Register(t) \/ FinishModule(t)
                              \/ FinishImport(t) \/ RefuseDuplicate(t) \/ ImportRaises(t)),
         ~Restart
  PROVE  UNCHANGED <<executors, imports>>
  BY DEF Next, Receive, ReceiveJob, JobStep, FindRunner, AwaitRunner, WakeUp, GetExecutor,
         ReceiveTick, TickStep, CheckDispatcher, LockDispatcher, RecheckDispatcher,
         BuildDispatcher, ReturnDispatcher, vars

LEMMA Registered ==
  ASSUME TypeOK, NEW t \in Threads, Register(t)
  PROVE  /\ module \in Modules /\ done + 1 \in DOMAIN executors[module]
         /\ registry[executors[module][done + 1]] = 0
         /\ executors[module][done + 1] \in JobTypes
         /\ registry' = [registry EXCEPT ![executors[module][done + 1]] = module]
         /\ done' = done + 1 /\ module \notin imported /\ importer = t
         /\ UNCHANGED <<executors, imported, runner, importer, module>>
<1>1. /\ module \in Modules /\ done \in Nat /\ done < Len(executors[module])
      /\ module \notin imported /\ importer = t
  BY DEF Register, Loading, Decorators, TypeOK
<1>2. done + 1 \in DOMAIN executors[module]
  BY <1>1, DeploymentTyped DEF TypeOK
<1>3. executors[module][done + 1] \in JobTypes
  BY <1>1, <1>2, DeploymentTyped DEF TypeOK
<1> QED
  BY <1>1, <1>2, <1>3 DEF Register, Decorators

LEMMA OriginStep ==
  ASSUME TypeOK, OriginInv, [Next]_vars
  PROVE  OriginInv'
<1>1. ASSUME NEW t \in Threads, Register(t)
      PROVE  OriginInv'
  <2>1. /\ done + 1 \in DOMAIN executors[module]
        /\ registry' = [registry EXCEPT ![executors[module][done + 1]] = module]
        /\ UNCHANGED executors
    BY <1>1, Registered
  <2> QED
    BY <2>1 DEF OriginInv, TypeOK
<1>2. ASSUME NEW t \in Threads,
             \/ BeginImport(t) \/ FinishModule(t) \/ FinishImport(t)
             \/ RefuseDuplicate(t) \/ ImportRaises(t)
      PROVE  OriginInv'
  <2>1. UNCHANGED <<executors, registry>>
    BY <1>2
    DEF BeginImport, FinishModule, FinishImport, RefuseDuplicate, ImportRaises, AbandonImport
  <2> QED
    BY <2>1 DEF OriginInv
<1>3. CASE Restart
  BY <1>3 DEF Restart, OriginInv
<1>4. CASE UNCHANGED <<executors, imports>>
  BY <1>4 DEF imports, OriginInv
<1> QED
  BY <1>1, <1>2, <1>3, <1>4, QuietSteps

LEMMA OriginInvariant == Spec => []OriginInv
<1>1. Init => OriginInv
  BY DEF Init, OriginInv
<1> QED
  BY <1>1, OriginStep, WorkerTypeCorrect, WorkerSafety, PTL

LEMMA ImportsInvariant == Spec => []ImportsInv
<1>1. Init => ImportsInv
  BY DEF Init, ImportsInv
<1> QED
  BY <1>1, ImportsStep, WorkerTypeCorrect, WorkerSafety, PTL

\* A refused decorator meets the registration of a module that is imported, hence of
\* another one, or of a module that is not.
LEMMA RefusalExplained ==
  ASSUME TypeOK, OriginInv, NEW t \in Threads, RefuseDuplicate(t)
  PROVE  HalfImported' \/ Conflicting
<1> DEFINE type == executors[module][done + 1]
           m == registry[type]
<1>1. /\ module \in Modules \ imported /\ done \in Nat /\ done < Len(executors[module])
      /\ importer' = NoThread /\ m # 0
      /\ UNCHANGED <<imported, registry>>
  BY DEF RefuseDuplicate, AbandonImport, Loading, Decorators, TypeOK
<1>2. done + 1 \in DOMAIN executors[module] /\ type \in JobTypes
  BY <1>1, DeploymentTyped DEF TypeOK
<1>3. m \in Modules
  BY <1>1, <1>2 DEF TypeOK
<1>4. PICK i \in DOMAIN executors[m] : executors[m][i] = type
  BY <1>1, <1>2 DEF OriginInv
<1>5. CASE m \in imported
  <2>1. <<module, done + 1>> # <<m, i>>
    BY <1>1, <1>5
  <2> QED
    BY <1>1, <1>2, <1>3, <1>4, <2>1 DEF Conflicting
<1>6. CASE m \notin imported
  BY <1>1, <1>2, <1>6 DEF HalfImported
<1> QED
  BY <1>5, <1>6

\* An import that fails although its module raises nothing and the process lives on was
\* refused; of what is registered nothing is ever forgotten.
THEOREM FailedImportsAreExplained == Spec => ImportFailuresExplained
<1>1. ASSUME TypeOK, OriginInv, [Next]_vars, NEW t \in Threads,
             pc[t] = "load", pc'[t] = "idle"
      PROVE  \/ faults' # faults \/ restarts' # restarts
             \/ HalfImported' \/ Conflicting
  <2>1. CASE Restart
    BY <2>1 DEF Restart, TypeOK
  <2>2. ASSUME NEW u \in Threads, ImportRaises(u)
        PROVE  faults' # faults
    BY <2>2 DEF ImportRaises, TypeOK
  <2>3. ASSUME ~Restart, \A u \in Threads : ~ImportRaises(u) /\ ~RefuseDuplicate(u)
        PROVE  FALSE
    BY <1>1, <2>3
    DEF Next, Receive, ReceiveJob, JobStep, FindRunner, AwaitRunner, BeginImport, WakeUp,
        Register, FinishModule, FinishImport, GetExecutor, ReceiveTick, TickStep,
        CheckDispatcher, LockDispatcher, RecheckDispatcher, BuildDispatcher,
        ReturnDispatcher, vars, Goto, TypeOK
  <2> QED
    BY <1>1, <2>1, <2>2, <2>3, RefusalExplained
<1>2. TypeOK /\ OriginInv /\ [Next]_vars =>
        [\A t \in Threads : pc[t] = "load" /\ pc'[t] = "idle" =>
           \/ faults' # faults
           \/ restarts' # restarts
           \/ HalfImported'
           \/ Conflicting]_vars
  BY <1>1
<1> QED
  BY <1>2, WorkerTypeCorrect, OriginInvariant, WorkerSafety, PTL DEF ImportFailuresExplained

\* The decorator that will be refused is still ahead of every import, and none gets past it.
LEMMA TrapStep ==
  ASSUME TypeOK, ImportsInv, Trapped, [Next]_vars
  PROVE  Trapped' \/ restarts' # restarts
<1>1. PICK m \in Modules \ imported : \E i \in DOMAIN executors[m] :
        /\ registry[executors[m][i]] # 0
        /\ importer # NoThread /\ module = m => done < i
  BY DEF Trapped
<1>2. PICK i \in DOMAIN executors[m] :
        /\ registry[executors[m][i]] # 0
        /\ importer # NoThread /\ module = m => done < i
  BY <1>1
<1>3. /\ i \in 1..Len(executors[m]) /\ Len(executors[m]) \in Nat /\ done \in Nat
      /\ executors[m][i] \in JobTypes
      /\ m \in 1..Len(executors) /\ Modules = 1..Len(executors) /\ Len(executors) \in Nat
  BY DeploymentTyped DEF TypeOK
<1>4. ASSUME NEW t \in Threads, BeginImport(t)
      PROVE  Trapped'
  BY <1>2, <1>3, <1>4 DEF BeginImport, Trapped, Modules
<1>5. ASSUME NEW t \in Threads, Register(t)
      PROVE  Trapped'
  <2>1. /\ registry[executors[module][done + 1]] = 0 /\ done' = done + 1
        /\ registry' = [registry EXCEPT ![executors[module][done + 1]] = module]
        /\ importer # NoThread /\ module \in Modules
        /\ UNCHANGED <<executors, imported, importer, module>>
    BY <1>5, Registered, WorkerAssumption
  <2>2. registry'[executors[m][i]] # 0
    BY <1>2, <1>3, <2>1 DEF TypeOK
  <2>3. module = m => done + 1 < i
    <3>1. module = m => done + 1 # i
      BY <1>2, <2>1
    <3> QED
      BY <1>2, <1>3, <2>1, <3>1
  <2> QED
    BY <1>2, <2>1, <2>2, <2>3 DEF Trapped, Modules
<1>6. ASSUME NEW t \in Threads, FinishModule(t)
      PROVE  Trapped'
  <2>1. /\ importer # NoThread /\ module \in Nat
        /\ module \in imported \/ done = Len(executors[module])
        /\ imported' = imported \cup {module} /\ module' = module + 1 /\ done' = 0
        /\ UNCHANGED <<executors, importer, registry>>
    BY <1>6, WorkerAssumption DEF FinishModule, Decorators, TypeOK
  <2>2. module # m
    BY <1>2, <1>3, <2>1
  <2>3. m \in Modules' \ imported'
    BY <2>1, <2>2 DEF Modules
  <2>4. 0 < i
    BY <1>3
  <2> QED
    BY <1>2, <2>1, <2>3, <2>4 DEF Trapped
<1>7. ASSUME NEW t \in Threads, FinishImport(t)
      PROVE  FALSE
  <2>1. importer # NoThread /\ module \notin Modules /\ module \in Nat
    BY <1>7, WorkerAssumption DEF FinishImport, TypeOK
  <2>2. m < module /\ ~(m \in imported)
    BY <1>3, <2>1 DEF ImportsInv
  <2> QED
    BY <2>1, <2>2 DEF ImportsInv
<1>8. ASSUME NEW t \in Threads, RefuseDuplicate(t) \/ ImportRaises(t)
      PROVE  Trapped'
  <2>1. importer' = NoThread /\ UNCHANGED <<executors, imported, registry>>
    BY <1>8 DEF RefuseDuplicate, ImportRaises, AbandonImport
  <2> QED
    BY <1>2, <2>1 DEF Trapped, Modules
<1>9. CASE Restart
  BY <1>9 DEF Restart, TypeOK
<1>10. CASE UNCHANGED <<executors, imports>>
  BY <1>2, <1>10 DEF Trapped, imports, Modules
<1> QED
  BY <1>4, <1>5, <1>6, <1>7, <1>8, <1>9, <1>10, QuietSteps

\* The trap: an import that failed half-way is never made good by another one, in
\* whichever thread and however often the process tries.
THEOREM TrapHolds == Spec => TrappedUntilRestart
<1>1. TypeOK /\ ImportsInv /\ [Next]_vars => [Trapped => Trapped' \/ restarts' # restarts]_vars
  BY TrapStep
<1> QED
  BY <1>1, WorkerTypeCorrect, ImportsInvariant, WorkerSafety, PTL DEF TrappedUntilRestart

\* What is in the trap: each half-imported process, and none that runs jobs.
THEOREM HalfImportedIsTrapped ==
  Spec => []((HalfImported => Trapped) /\ (Trapped => ~runner))
<1>1. ASSUME TypeOK, OriginInv, HalfImported
      PROVE  Trapped
  <2>1. PICK type \in JobTypes : registry[type] \notin imported \cup {0}
    BY <1>1 DEF HalfImported
  <2>2. registry[type] \in Modules \ imported
    BY <1>1, <2>1 DEF TypeOK
  <2>3. PICK i \in DOMAIN executors[registry[type]] : executors[registry[type]][i] = type
    BY <1>1, <2>1 DEF OriginInv
  <2> QED
    BY <1>1, <2>1, <2>2, <2>3 DEF Trapped, HalfImported
<1>2. ASSUME ImportsInv, Trapped
      PROVE  ~runner
  BY <1>2 DEF ImportsInv, Trapped
<1>3. TypeOK /\ OriginInv /\ ImportsInv => (HalfImported => Trapped) /\ (Trapped => ~runner)
  BY <1>1, <1>2
<1> QED
  BY <1>3, WorkerTypeCorrect, OriginInvariant, ImportsInvariant, PTL

-----------------------------------------------------------------------------
(* Waiting for the two locks.                                              *)

\* The importer has run no more decorators than its module has.
DecoratorsInv == importer # NoThread /\ module \in Modules \ imported => done <= Len(Decorators)

\* t has a step: it waits for neither lock, and an import is at a decorator, at the end
\* of a module or at the end of them all.
CanGoOn(t) ==
  \/ pc[t] \in {"import", "run", "check", "recheck", "build", "return"}
  \/ pc[t] = "wait" /\ importer = NoThread
  \/ pc[t] = "lock" /\ lock = NoThread
  \/ pc[t] = "load" /\ (module \in Modules \ imported => done <= Len(Decorators))

LEMMA DecoratorsStep ==
  ASSUME TypeOK, DecoratorsInv, [Next]_vars
  PROVE  DecoratorsInv'
<1>1. ASSUME NEW t \in Threads, Register(t)
      PROVE  DecoratorsInv'
  <2>1. done + 1 <= Len(executors[module])
    BY <1>1, Registered, DeploymentTyped DEF TypeOK
  <2> QED
    BY <1>1, <2>1, Registered DEF DecoratorsInv, Decorators
<1>2. ASSUME NEW t \in Threads, BeginImport(t) \/ FinishModule(t)
      PROVE  DecoratorsInv'
  <2>1. done' = 0 /\ UNCHANGED executors
    BY <1>2 DEF BeginImport, FinishModule
  <2>2. \A m \in Modules : 0 <= Len(executors[m])
    BY DeploymentTyped DEF TypeOK
  <2> QED
    BY <2>1, <2>2 DEF DecoratorsInv, Decorators, Modules
<1>3. ASSUME NEW t \in Threads, FinishImport(t) \/ RefuseDuplicate(t) \/ ImportRaises(t)
      PROVE  DecoratorsInv'
  BY <1>3 DEF FinishImport, RefuseDuplicate, ImportRaises, AbandonImport, DecoratorsInv
<1>4. CASE Restart
  BY <1>4 DEF Restart, DecoratorsInv
<1>5. CASE UNCHANGED <<executors, imports>>
  BY <1>5 DEF imports, DecoratorsInv, Decorators, Modules
<1> QED
  BY <1>1, <1>2, <1>3, <1>4, <1>5, QuietSteps

\* No deadlock between the import lock and the dispatcher's: while any thread is at work
\* one of them has a step.
THEOREM SomeThreadGoesOn ==
  Spec => []((\E t \in Threads : pc[t] # "idle") => \E t \in Threads : CanGoOn(t))
<1>1. Init => DecoratorsInv
  BY DEF Init, DecoratorsInv
<1>2. ASSUME TypeOK, DecoratorsInv, NEW t \in Threads, pc[t] # "idle"
      PROVE  \E u \in Threads : CanGoOn(u)
  <2>1. CASE pc[t] = "wait" /\ importer # NoThread
    BY <1>2, <2>1 DEF CanGoOn, DecoratorsInv, TypeOK
  <2>2. CASE pc[t] = "lock" /\ lock # NoThread
    BY <1>2, <2>2 DEF CanGoOn, TypeOK
  <2>3. CASE pc[t] = "load"
    BY <1>2, <2>3, WorkerAssumption DEF CanGoOn, DecoratorsInv, TypeOK
  <2> QED
    BY <1>2, <2>1, <2>2, <2>3 DEF CanGoOn, TypeOK, Phases
<1>3. TypeOK /\ DecoratorsInv =>
        ((\E t \in Threads : pc[t] # "idle") => \E t \in Threads : CanGoOn(t))
  BY <1>2
<1> QED
  BY <1>1, <1>3, DecoratorsStep, WorkerTypeCorrect, WorkerSafety, PTL
=============================================================================
