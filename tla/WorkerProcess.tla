---------------------------- MODULE WorkerProcess ----------------------------
(***************************************************************************)
(* What the threads of one worker process share: the executor registry     *)
(* (src/jobs/registry.py), filled while the first process_job imports the  *)
(* runner (src/jobs/tasks.py:27, runner.py:41), and the dispatcher         *)
(* (src/jobs/dispatch.py), built by the first publisher tick that gets to  *)
(* dispatch.  Celery's default pool has one thread per process; a threads  *)
(* pool is what the locks of the two modules are for.                      *)
(*                                                                         *)
(* Python runs a module's body under an import lock of that module, and    *)
(* forgets a module whose body raises.  It does not take back what the     *)
(* body did before: the registrations stay.                                *)
(***************************************************************************)
EXTENDS Integers, Sequences

CONSTANTS
  Threads,
  JobTypes,     \* the types of the jobs that arrive
  Deployments,  \* values of JOB_EXECUTORS: per module, the types its decorators register
  NoThread,
  MaxFaults,    \* bound: imports that raise for a reason of their own
  MaxRestarts   \* bound: restarts of the process

ASSUME WorkerAssumption ==
  /\ JobTypes # {}
  /\ Deployments \subseteq Seq(Seq(JobTypes))
  /\ NoThread \notin Threads
  /\ MaxFaults \in Nat
  /\ MaxRestarts \in Nat

VARIABLES
  executors,     \* the JOB_EXECUTORS of this process
  imported,      \* the executor modules in sys.modules, by their index
  runner,        \* jobs/runner.py is imported
  importer,      \* the thread that is importing it
  module,        \* the executor module it is at
  done,          \* how many decorators of that module have run
  registry,      \* _EXECUTORS: job type to the module that registered it, 0 for none
  dispatcher,    \* _DISPATCHER: the number of the instance, 0 for None
  lock,          \* the holder of _DISPATCHER_LOCK
  built,         \* how many dispatchers were built
  used,          \* used[t]: the dispatcher t dispatched with last
  pc,
  job,           \* job[t]: the type of the job t has at hand
  unregistered,  \* the types of jobs that went to the DLQ for want of an executor
  faults,
  restarts

imports == <<imported, runner, importer, module, done, registry>>
dispatch == <<dispatcher, lock, built, used>>
vars == <<executors, imports, dispatch, pc, job, unregistered, faults, restarts>>

Phases == {"idle", "import", "wait", "load", "run",
           "check", "lock", "recheck", "build", "return"}

Modules == DOMAIN executors
Decorators == executors[module]
Configured == UNION {{executors[m][i] : i \in DOMAIN executors[m]} : m \in Modules}

\* Two decorators of this deployment register one job type.
Conflicting ==
  \E m, n \in Modules : \E i \in DOMAIN executors[m], k \in DOMAIN executors[n] :
    <<m, i>> # <<n, k>> /\ executors[m][i] = executors[n][k]

\* A registration was left behind by a module whose import failed.
HalfImported ==
  importer = NoThread /\ \E type \in JobTypes : registry[type] \notin imported \cup {0}

Goto(t, phase) == pc' = [pc EXCEPT ![t] = phase]

Init ==
  /\ executors \in Deployments
  /\ imported = {}
  /\ runner = FALSE
  /\ importer = NoThread
  /\ module = 1
  /\ done = 0
  /\ registry = [type \in JobTypes |-> 0]
  /\ dispatcher = 0
  /\ lock = NoThread
  /\ built = 0
  /\ used = [t \in Threads |-> 0]
  /\ pc = [t \in Threads |-> "idle"]
  /\ job \in [Threads -> {CHOOSE type \in JobTypes : TRUE}]
  /\ unregistered = {}
  /\ faults = 0
  /\ restarts = 0

-----------------------------------------------------------------------------
\* Celery calls process_job.
ReceiveJob(t, type) ==
  /\ pc[t] = "idle"
  /\ Goto(t, "import")
  /\ job' = [job EXCEPT ![t] = type]
  /\ UNCHANGED <<executors, imports, dispatch, unregistered, faults, restarts>>

\* The import statement finds the runner in sys.modules, ...
FindRunner(t) ==
  /\ pc[t] = "import"
  /\ runner
  /\ Goto(t, "run")
  /\ UNCHANGED <<executors, imports, dispatch, job, unregistered, faults, restarts>>

\* ... finds another thread at it and waits for the import lock, ...
AwaitRunner(t) ==
  /\ pc[t] = "import"
  /\ importer # NoThread
  /\ Goto(t, "wait")
  /\ UNCHANGED <<executors, imports, dispatch, job, unregistered, faults, restarts>>

\* ... or runs its body, down to load_executors().
BeginImport(t) ==
  /\ pc[t] = "import"
  /\ ~runner
  /\ importer = NoThread
  /\ importer' = t
  /\ module' = 1
  /\ done' = 0
  /\ Goto(t, "load")
  /\ UNCHANGED <<executors, imported, runner, registry, dispatch, job, unregistered,
                 faults, restarts>>

\* Mutant: nobody waits for an import under way.
WakeUpEarly(t) ==
  /\ pc[t] = "wait"
  /\ Goto(t, "run")
  /\ UNCHANGED <<executors, imports, dispatch, job, unregistered, faults, restarts>>

\* The import lock is free again.  If the import failed, Python either imports the
\* module anew or has no run_process_job to import from the one that failed.
WakeUp(t) ==
  /\ pc[t] = "wait"
  /\ importer = NoThread
  /\ \/ runner /\ Goto(t, "run")
     \/ ~runner /\ (Goto(t, "import") \/ Goto(t, "idle"))
  /\ UNCHANGED <<executors, imports, dispatch, job, unregistered, faults, restarts>>

\* Mutant: modules that are in sys.modules are run again.
Reloading(t) == pc[t] = "load" /\ module \in Modules

\* The body of a module is run unless it has been.
Loading(t) == pc[t] = "load" /\ module \in Modules \ imported

\* The next decorator of the module registers its function.
Register(t) ==
  /\ Loading(t)
  /\ done < Len(Decorators)
  /\ registry[Decorators[done + 1]] = 0
  /\ registry' = [registry EXCEPT ![Decorators[done + 1]] = module]
  /\ done' = done + 1
  /\ UNCHANGED <<executors, imported, runner, importer, module, dispatch, pc, job,
                 unregistered, faults, restarts>>

\* import_module returns, at once for a module that is in sys.modules.
FinishModule(t) ==
  /\ pc[t] = "load"
  /\ module \in Modules
  /\ module \in imported \/ done = Len(Decorators)
  /\ imported' = imported \cup {module}
  /\ module' = module + 1
  /\ done' = 0
  /\ UNCHANGED <<executors, runner, importer, registry, dispatch, pc, job, unregistered,
                 faults, restarts>>

FinishImport(t) ==
  /\ pc[t] = "load"
  /\ module \notin Modules
  /\ runner' = TRUE
  /\ importer' = NoThread
  /\ Goto(t, "run")
  /\ UNCHANGED <<executors, imported, module, done, registry, dispatch, job, unregistered,
                 faults, restarts>>

\* The exception leaves the module's body, the runner's and the task, and Python
\* forgets both modules.
AbandonImport(t) ==
  /\ importer' = NoThread
  /\ Goto(t, "idle")
  /\ UNCHANGED <<executors, imported, runner, module, done, registry, dispatch, job,
                 unregistered, restarts>>

\* DuplicateExecutorRegistration.
RefuseDuplicate(t) ==
  /\ Loading(t)
  /\ done < Len(Decorators)
  /\ registry[Decorators[done + 1]] # 0
  /\ AbandonImport(t)
  /\ UNCHANGED faults

ImportRaises(t) ==
  /\ Loading(t)
  /\ faults < MaxFaults
  /\ faults' = faults + 1
  /\ AbandonImport(t)

\* get_executor reads the registry without a lock; without an executor the job goes
\* to the DLQ at once.
GetExecutor(t) ==
  /\ pc[t] = "run"
  /\ unregistered' = unregistered \cup {type \in {job[t]} : registry[type] = 0}
  /\ Goto(t, "idle")
  /\ UNCHANGED <<executors, imports, dispatch, job, faults, restarts>>

-----------------------------------------------------------------------------
\* A publisher tick has an event to dispatch and calls get_dispatcher.
ReceiveTick(t) ==
  /\ pc[t] = "idle"
  /\ Goto(t, "check")
  /\ UNCHANGED <<executors, imports, dispatch, job, unregistered, faults, restarts>>

\* "if _DISPATCHER is None" outside the lock.
CheckDispatcher(t) ==
  /\ pc[t] = "check"
  /\ Goto(t, IF dispatcher = 0 THEN "lock" ELSE "return")
  /\ UNCHANGED <<executors, imports, dispatch, job, unregistered, faults, restarts>>

LockDispatcher(t) ==
  /\ pc[t] = "lock"
  /\ lock = NoThread
  /\ lock' = t
  /\ Goto(t, "recheck")
  /\ UNCHANGED <<executors, imports, dispatcher, built, used, job, unregistered,
                 faults, restarts>>

\* Mutant: the check is not repeated under the lock.
NoRecheck(t) ==
  /\ pc[t] = "recheck"
  /\ Goto(t, "build")
  /\ UNCHANGED <<executors, imports, dispatch, job, unregistered, faults, restarts>>

\* "if _DISPATCHER is None" under the lock.
RecheckDispatcher(t) ==
  /\ pc[t] = "recheck"
  /\ IF dispatcher = 0
       THEN Goto(t, "build") /\ UNCHANGED lock
       ELSE Goto(t, "return") /\ lock' = NoThread
  /\ UNCHANGED <<executors, imports, dispatcher, built, used, job, unregistered,
                 faults, restarts>>

\* Mutant: the lock is kept.
BuildAndKeep(t) ==
  /\ pc[t] = "build"
  /\ built' = built + 1
  /\ dispatcher' = built + 1
  /\ Goto(t, "return")
  /\ UNCHANGED <<executors, imports, lock, used, job, unregistered, faults, restarts>>

\* _build_dispatcher, and the lock is released.
BuildDispatcher(t) ==
  /\ pc[t] = "build"
  /\ built' = built + 1
  /\ dispatcher' = built + 1
  /\ lock' = NoThread
  /\ Goto(t, "return")
  /\ UNCHANGED <<executors, imports, used, job, unregistered, faults, restarts>>

\* The global is read once more and dispatch is called.
ReturnDispatcher(t) ==
  /\ pc[t] = "return"
  /\ used' = [used EXCEPT ![t] = dispatcher]
  /\ Goto(t, "idle")
  /\ UNCHANGED <<executors, imports, dispatcher, lock, built, job, unregistered,
                 faults, restarts>>

\* The process dies or is restarted.
Restart ==
  /\ restarts < MaxRestarts
  /\ restarts' = restarts + 1
  /\ imported' = {}
  /\ runner' = FALSE
  /\ importer' = NoThread
  /\ module' = 1
  /\ done' = 0
  /\ registry' = [type \in JobTypes |-> 0]
  /\ dispatcher' = 0
  /\ lock' = NoThread
  /\ built' = 0
  /\ used' = [t \in Threads |-> 0]
  /\ pc' = [t \in Threads |-> "idle"]
  /\ UNCHANGED <<executors, job, unregistered, faults>>

-----------------------------------------------------------------------------
JobStep(t) ==
  \/ FindRunner(t)
  \/ AwaitRunner(t)
  \/ BeginImport(t)
  \/ WakeUp(t)
  \/ Register(t)
  \/ FinishModule(t)
  \/ FinishImport(t)
  \/ RefuseDuplicate(t)
  \/ GetExecutor(t)

TickStep(t) ==
  \/ CheckDispatcher(t)
  \/ LockDispatcher(t)
  \/ RecheckDispatcher(t)
  \/ BuildDispatcher(t)
  \/ ReturnDispatcher(t)

Receive == \E t \in Threads, type \in JobTypes : ReceiveJob(t, type)

Next ==
  \/ Receive
  \/ \E t \in Threads : JobStep(t) \/ ImportRaises(t) \/ ReceiveTick(t) \/ TickStep(t)
  \/ Restart

\* A thread that can go on does.  The queue is served in order and a failed message
\* is queued again, so that among the ticks a job is taken again and again.
Spec ==
  /\ Init
  /\ [][Next]_vars
  /\ \A t \in Threads : WF_vars(JobStep(t)) /\ WF_vars(TickStep(t))
  /\ SF_vars(Receive)

-----------------------------------------------------------------------------
\* The type invariant; the import lock and the dispatcher's lock are held by the
\* threads that are inside.
TypeOK ==
  /\ executors \in Deployments
  /\ imported \in SUBSET Modules
  /\ runner \in BOOLEAN
  /\ importer \in Threads \cup {NoThread}
  /\ module \in Nat
  /\ done \in Nat
  /\ registry \in [JobTypes -> Modules \cup {0}]
  /\ dispatcher \in Nat
  /\ lock \in Threads \cup {NoThread}
  /\ built \in Nat
  /\ used \in [Threads -> Nat]
  /\ pc \in [Threads -> Phases]
  /\ job \in [Threads -> JobTypes]
  /\ unregistered \in SUBSET JobTypes
  /\ faults \in Nat
  /\ restarts \in Nat
  /\ \A t \in Threads : pc[t] = "load" <=> importer = t
  /\ \A t \in Threads : pc[t] \in {"recheck", "build"} <=> lock = t

\* No job of a type that JOB_EXECUTORS provides goes to the DLQ as unregistered: the
\* registry is read without a lock, but only behind the import that fills it, even if
\* that import was under way, failed or half failed when the job arrived.
NoneMisdirected == unregistered \cap Configured = {}

\* The process has one dispatcher, and every tick dispatches with it, although it is
\* read outside the lock.
OneDispatcher ==
  /\ built <= 1
  /\ \A t \in Threads : used[t] \in {0, dispatcher}

\* A process comes to run jobs, after any number of failed imports, unless two
\* executors claim one type or an import failed after it had registered something: then
\* importing the module again is refused as a duplicate until the process is restarted.
EventuallyReady == ~runner ~> (runner \/ HalfImported \/ Conflicting)
=============================================================================
