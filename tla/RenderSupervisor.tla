-------------------------- MODULE RenderSupervisor --------------------------
(***************************************************************************)
(* Containers of backend/app/render_supervisor.py on Render: the migrator, *)
(* then the API and the worker under a poll loop that a signal handler     *)
(* interrupts between any two steps.  Containers share the database, as in *)
(* a rolling deployment.  The platform starts a container again when its   *)
(* process 1, the supervisor, exits; it sends SIGTERM once to retire it,   *)
(* and may destroy it some time after.                                     *)
(***************************************************************************)
EXTENDS Migrations

CONSTANT MaxCrashes     \* bound on failures: of migrators, children, starts

ASSUME MaxCrashesAssumption == MaxCrashes \in Nat

VARIABLES
    sup,        \* program counter and locals of each supervisor
    child,      \* the API and the worker of each container
    retired,    \* containers that were sent SIGTERM
    crashes,    \* failures so far
    asked       \* children that the signal handler has asked to end before the
                \* supervisor had decided to return; no code

svars == <<sup, child, retired, crashes, asked>>
vars  == <<mvars, svars>>

Containers == Migrators

Kids == {"api", "worker"}

\* "zero", "nonzero": the exit code of a child that is gone.
ChildStates == {"none", "running", "terminating", "zero", "nonzero", "killed"}

PCs == {"down", "migrating", "spawning api", "spawning worker", "installing", "polling api",
        "polling worker", "deciding", "cleaning", "exited"}

\* polled: the children whose poll in this turn returned a code; code: the supervisor's.
Locals == [pc : PCs, stopping : BOOLEAN, polled : SUBSET Kids,
           code : {"none", "zero", "nonzero"}]

Fresh(pc) == [pc |-> pc, stopping |-> FALSE, polled |-> {}, code |-> "none"]

Init ==
    /\ MigrationsInit
    /\ sup = [s \in Containers |-> Fresh("down")]
    /\ child = [s \in Containers |-> [k \in Kids |-> "none"]]
    /\ retired = {}
    /\ crashes = 0
    /\ asked = {}

-----------------------------------------------------------------------------
(* Helpers *)

At(s, pc) == sup[s].pc = pc

Goto(s, pc) == sup' = [sup EXCEPT ![s].pc = pc]

Return(s, code) == sup' = [sup EXCEPT ![s].pc = "cleaning", ![s].code = code]

IsAlive(s, k) == child[s][k] \in {"running", "terminating"}

\* poll() is not None
HasCode(s, k) == child[s][k] \in {"zero", "nonzero", "killed"}

\* terminate() of those that run
Terminated(s, ks) ==
    [child EXCEPT ![s] = [k \in Kids |->
        IF k \in ks /\ child[s][k] = "running" THEN "terminating" ELSE child[s][k]]]

Quiet == UNCHANGED <<child, retired, crashes, asked>>

Crash ==
    /\ crashes < MaxCrashes
    /\ crashes' = crashes + 1

-----------------------------------------------------------------------------
(* main *)

Launch(s) ==
    /\ At(s, "down") \/ At(s, "exited")
    /\ s \notin retired
    /\ sup' = [sup EXCEPT ![s] = Fresh("migrating")]
    /\ child' = [child EXCEPT ![s] = [k \in Kids |-> "none"]]
    /\ StartMigrator(s)
    /\ UNCHANGED <<retired, crashes, asked>>

\* returncode of subprocess.run
AnyCode(pc) == TRUE                                          \* mutant

MayServe(pc) == pc = "done"

Migrated(s) ==
    /\ At(s, "migrating")
    /\ migrator[s].pc \in {"done", "failed"}
    /\ sup' = [sup EXCEPT ![s] = IF MayServe(migrator[s].pc) THEN Fresh("spawning api")
                                 ELSE [Fresh("exited") EXCEPT !.code = "nonzero"]]
    /\ DropMigrator(s)
    /\ Quiet

SpawnApi(s) ==
    /\ At(s, "spawning api")
    /\ child' = [child EXCEPT ![s]["api"] = "running"]
    /\ Goto(s, "spawning worker")
    /\ UNCHANGED <<mvars, retired, crashes, asked>>

SpawnWorker(s) ==
    /\ At(s, "spawning worker")
    /\ child' = [child EXCEPT ![s]["worker"] = "running"]
    /\ Goto(s, "installing")
    /\ UNCHANGED <<mvars, retired, crashes, asked>>

InstallHandlers(s) ==
    /\ At(s, "installing")
    /\ Goto(s, "polling api")
    /\ UNCHANGED mvars
    /\ Quiet

Poll(s, k, from, to) ==
    /\ At(s, from)
    /\ sup' = [sup EXCEPT ![s].pc = to,
                          ![s].polled = IF HasCode(s, k) THEN @ \cup {k} ELSE @ \ {k}]
    /\ UNCHANGED mvars
    /\ Quiet

PollApi(s)    == Poll(s, "api", "polling api", "polling worker")
PollWorker(s) == Poll(s, "worker", "polling worker", "deciding")

\* stopping: until both have exited.
AnyHasExited(s) == sup[s].polled # {}                        \* mutant

BothHaveExited(s) == sup[s].polled = Kids

ReturnZero(s) ==
    /\ At(s, "deciding")
    /\ sup[s].stopping
    /\ BothHaveExited(s)
    /\ Return(s, "zero")
    /\ UNCHANGED mvars
    /\ Quiet

\* The other child is terminated, and the code returned is never 0.
ReturnCode(s) ==
    LET k == IF "api" \in sup[s].polled THEN "api" ELSE "worker"
    IN  /\ At(s, "deciding")
        /\ ~sup[s].stopping
        /\ sup[s].polled # {}
        /\ child' = Terminated(s, Kids \ {k})
        /\ Return(s, "nonzero")
        /\ UNCHANGED <<mvars, retired, crashes, asked>>

\* time.sleep(1)
PollAgain(s) ==
    /\ At(s, "deciding")
    /\ IF sup[s].stopping THEN ~BothHaveExited(s) ELSE sup[s].polled = {}
    /\ Goto(s, "polling api")
    /\ UNCHANGED mvars
    /\ Quiet

\* finally: kill() of those that have not exited.
Cleanup(s) ==
    /\ At(s, "cleaning")
    /\ child' = [child EXCEPT ![s] = [k \in Kids |->
                    IF IsAlive(s, k) THEN "killed" ELSE child[s][k]]]
    /\ Goto(s, "exited")
    /\ UNCHANGED <<mvars, retired, crashes, asked>>

-----------------------------------------------------------------------------
(* Signals, children and the platform *)

\* The handler: it interrupts the loop, or the cleanup, and runs to its end.
TerminatesNobody(s) == child                                 \* mutant

TerminatesBoth(s) == Terminated(s, Kids)

StopHandler(s) ==
    /\ sup[s].pc \in {"polling api", "polling worker", "deciding", "cleaning"}
    /\ s \notin retired
    /\ retired' = retired \cup {s}
    /\ sup' = [sup EXCEPT ![s].stopping = TRUE]
    /\ child' = TerminatesBoth(s)
    /\ asked' = IF At(s, "cleaning") THEN asked
                ELSE asked \cup {<<s, k>> : k \in {l \in Kids : child[s][l] = "running"}}
    /\ UNCHANGED <<mvars, crashes>>

\* SIGTERM before the handler is installed does nothing to process 1 of a container.
SignalIsLost(s) ==
    /\ sup[s].pc \in {"down", "migrating", "spawning api", "spawning worker", "installing",
                      "exited"}
    /\ s \notin retired
    /\ retired' = retired \cup {s}
    /\ UNCHANGED <<mvars, sup, child, crashes, asked>>

EndsOnTerm(s, k) ==
    /\ child[s][k] = "terminating"
    /\ \E c \in {"zero", "nonzero"} : child' = [child EXCEPT ![s][k] = c]
    /\ UNCHANGED <<mvars, sup, retired, crashes, asked>>

EndsByItself(s, k) ==
    /\ child[s][k] = "running"
    /\ Crash
    /\ \E c \in {"zero", "nonzero"} : child' = [child EXCEPT ![s][k] = c]
    /\ UNCHANGED <<mvars, sup, retired, asked>>

MigrationBreaks(s) ==
    /\ MigratorBreaks(s)
    /\ Crash
    /\ UNCHANGED <<sup, child, retired, asked>>

\* Popen raises.  What runs goes with the container.
SpawnFails(s) ==
    /\ At(s, "spawning api") \/ At(s, "spawning worker")
    /\ Crash
    /\ sup' = [sup EXCEPT ![s] = [Fresh("exited") EXCEPT !.code = "nonzero"]]
    /\ UNCHANGED <<mvars, child, retired, asked>>

Destroy(s) ==
    /\ s \in retired
    /\ ~At(s, "down")
    /\ sup' = [sup EXCEPT ![s] = Fresh("down")]
    /\ child' = [child EXCEPT ![s] = [k \in Kids |-> "none"]]
    /\ asked' = {a \in asked : a[1] # s}
    /\ DropMigrator(s)
    /\ UNCHANGED <<retired, crashes>>

-----------------------------------------------------------------------------

Main(s) ==
    \/ Migrated(s)
    \/ SpawnApi(s)
    \/ SpawnWorker(s)
    \/ InstallHandlers(s)
    \/ PollApi(s)
    \/ PollWorker(s)
    \/ ReturnZero(s)
    \/ ReturnCode(s)
    \/ PollAgain(s)
    \/ Cleanup(s)

RunMigrator(s) == Migrate(s) /\ UNCHANGED svars

Platform(s) ==
    \/ Launch(s)
    \/ StopHandler(s)
    \/ SignalIsLost(s)
    \/ Destroy(s)
    \/ \E k \in Kids : EndsOnTerm(s, k)

Failure(s) ==
    \/ MigrationBreaks(s)
    \/ SpawnFails(s)
    \/ \E k \in Kids : EndsByItself(s, k)

Next == \E s \in Containers : Main(s) \/ RunMigrator(s) \/ Platform(s) \/ Failure(s)

Spec == Init /\ [][Next]_vars

\* Processes go on, a child that is asked to end does, and the platform starts again
\* what is down and destroys what it retired if that has exited or missed the signal.
Fairness ==
    \A s \in Containers :
        /\ WF_vars(Main(s))
        /\ WF_vars(RunMigrator(s))
        /\ WF_vars(Launch(s))
        /\ \A k \in Kids : WF_vars(EndsOnTerm(s, k))
        /\ WF_vars(Destroy(s) /\ (At(s, "exited") \/ ~sup[s].stopping))

FairSpec == Spec /\ Fairness

-----------------------------------------------------------------------------
(* Properties *)

\* Type correctness.
TypeOK ==
    /\ table \in BOOLEAN
    /\ recorded \subseteq Scripts
    /\ runs \in [Scripts -> Nat]
    /\ migrator \in [Migrators -> MigratorStates]
    /\ sup \in [Containers -> Locals]
    /\ child \in [Containers -> [Kids -> ChildStates]]
    /\ retired \subseteq Containers
    /\ crashes \in 0 .. MaxCrashes
    /\ asked \subseteq Containers \X Kids

\* An API or a worker runs only on a database that has all migrations, also when the
\* migrators of two containers collide and one of them fails.
ServesOnlyMigrated ==
    \A s \in Containers : \A k \in Kids : IsAlive(s, k) => recorded = Scripts

\* A stop that arrives before the supervisor has decided to return lets both children
\* end by themselves, whichever had already exited and wherever the loop was; and the
\* supervisor returns 0 only when it was asked to stop, so that the loss of a child
\* always fails the service.
StopIsOrderly ==
    /\ TypeOK
    /\ \A a \in asked : child[a[1]][a[2]] # "killed"
    /\ \A s \in Containers : sup[s].code = "zero" => sup[s].stopping

Serves(s) ==
    /\ sup[s].pc \in {"polling api", "polling worker", "deciding"}
    /\ \A k \in Kids : child[s][k] = "running"

\* Whatever breaks and collides, every container serves in the end for good or is
\* retired and down: a failed migrator is tried again, a container that loses a child
\* comes back with both, and a stop ends although nothing bounds the wait for children.
EveryContainerSettles ==
    \A s \in Containers : <>[](Serves(s) \/ (s \in retired /\ At(s, "down")))

=============================================================================
