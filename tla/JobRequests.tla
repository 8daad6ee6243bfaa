---------------------------- MODULE JobRequests ----------------------------
(***************************************************************************)
(* The transactions that lock the jobs of one source, statement by statement *)
(* and with the row locks PostgreSQL takes for them: retry_job,              *)
(* create_processing_job, admit of a content that was admitted before, and   *)
(* commit_page_artifacts (backend/app/repositories.py).  DurableProcessing    *)
(* takes each of them as one step; here they meet, wait, are refused by the  *)
(* index of active jobs, and deadlock.  Calls for different sources share no *)
(* row.                                                                      *)
(***************************************************************************)
EXTENDS Integers, FiniteSets

CONSTANTS
    Retries,        \* calls of POST /v1/processing-jobs/{job_id}/retry
    Creations,      \* calls of POST /v1/processing-jobs; each names its job
    Deliveries,     \* admissions of the source's content once more
    OldJobs,        \* jobs of the source that are there at the beginning
    Commits,        \* pages that workers commit, be their lease lapsed or not
    JobOf,          \* the job a retry or a commit is about
    Source,         \* the row of sources
    Index,          \* the entry of the source in uq_processing_jobs_active_source
    MaxInterrupts   \* bound on failures of the database or server

Calls == Retries \cup Creations \cup Deliveries \cup Commits
Jobs  == OldJobs \cup Creations

ASSUME CallsAssumption == /\ Retries \cap (Creations \cup Deliveries \cup Commits) = {}
                          /\ Creations \cap (Deliveries \cup Commits \cup OldJobs) = {}
                          /\ Deliveries \cap Commits = {}
                          /\ JobOf \in [Retries \cup Commits -> OldJobs]
ASSUME RowsAssumption  == Source \notin Jobs /\ Index \notin Jobs /\ Source # Index
ASSUME InterruptsAssumption == MaxInterrupts \in Nat

VARIABLES
    state,      \* processing_jobs.state; "active" is queued or processing
    lock,       \* locks held by transactions
    call        \* program counter and locals of each call

vars == <<state, lock, call>>

-----------------------------------------------------------------------------

Settled == {"partial", "failed", "completed"}
States  == {"absent", "active"} \cup Settled

Rows    == Jobs \cup {Source, Index}
LockRows == [by : Calls, on : Rows, mode : {"share", "update"}]

\* "refused" is 409, "violation" and "deadlock" are 500.
Answers == {"done", "refused", "violation", "deadlock", "interrupted"}
PCs     == {"new", "arrived", "sourcing", "updating", "choosing", "locking"} \cup Answers

\* job is the job a call is about, for a delivery the one it has chosen; none yet is Source.
Locals  == [pc : PCs, job : Jobs \cup {Source}]

FirstJob(c) == CASE c \in Retries \cup Commits -> JobOf[c]
                 [] c \in Creations            -> c
                 [] c \in Deliveries           -> Source

ActiveJobs == {j \in Jobs : state[j] = "active"}

\* admit inserts a source with a job, and the index allows one that is active.
Init ==
    /\ state \in [Jobs -> States]
    /\ \A j \in Jobs : state[j] = "absent" <=> j \in Creations
    /\ Cardinality(ActiveJobs) <= 1
    /\ lock = {}
    /\ call = [c \in Calls |-> [pc |-> "new", job |-> FirstJob(c)]]

-----------------------------------------------------------------------------
(* Locks *)

At(c, pc) == call[c].pc = pc

InFlight(c) == call[c].pc \notin {"new"} \cup Answers

Goto(c, pc) == call' = [call EXCEPT ![c].pc = pc]

\* What a call asks for next.
Asks(on, mode) == [on |-> on, mode |-> mode]

WantsOfRetry(c) ==
    CASE At(c, "arrived")  -> {Asks(call[c].job, "update")}
      [] At(c, "sourcing") -> {Asks(Source, "update")}
      [] At(c, "updating") -> {Asks(Index, "update")}
      [] OTHER             -> {}

WantsOfCreation(c) ==
    CASE At(c, "arrived")  -> {Asks(Index, "update")}
      [] At(c, "sourcing") -> {Asks(Source, "share")}
      [] OTHER             -> {}

WantsOfDelivery(c) ==
    CASE At(c, "arrived")  -> {Asks(Source, "share")}
      [] At(c, "locking")  -> {Asks(call[c].job, "update")}
      [] OTHER             -> {}

WantsOfCommit(c) ==
    CASE At(c, "arrived")  -> {Asks(Source, "share")}
      [] At(c, "locking")  -> {Asks(call[c].job, "share")}
      [] OTHER             -> {}

Wants(c) ==
    CASE c \in Retries    -> WantsOfRetry(c)
      [] c \in Creations  -> WantsOfCreation(c)
      [] c \in Deliveries -> WantsOfDelivery(c)
      [] c \in Commits    -> WantsOfCommit(c)

\* The calls that hold what c waits for.  FOR UPDATE conflicts with everything; the key
\* share locks of foreign keys do not conflict with each other.
Blockers(c) ==
    UNION {{l.by : l \in {k \in lock : k.by # c /\ k.on = a.on /\ "update" \in {k.mode, a.mode}}} :
           a \in Wants(c)}

Free(c) == Blockers(c) = {}

Takes(c) == lock' = lock \cup {[by |-> c, on |-> a.on, mode |-> a.mode] : a \in Wants(c)}

\* Database.connection commits or rolls back when its block is left, also by an exception.
ConnectionIsLeftOpen(c, answer) ==                           \* mutant
    IF answer = "refused" THEN lock ELSE {l \in lock : l.by # c}

LocksAfter(c, answer) == {l \in lock : l.by # c}

Answer(c, answer) ==
    /\ Goto(c, answer)
    /\ lock' = LocksAfter(c, answer)

\* The request is there, the transaction begins.
Arrive(c) ==
    /\ At(c, "new")
    /\ Goto(c, "arrived")
    /\ UNCHANGED <<state, lock>>

-----------------------------------------------------------------------------
(* retry_job *)

\* SELECT ... FROM processing_jobs j JOIN sources s ... FOR UPDATE, without OF, locks the
\* row of the job ...
LockJob(c) ==
    /\ At(c, "arrived")
    /\ Free(c)
    /\ Takes(c)
    /\ Goto(c, "sourcing")
    /\ UNCHANGED state

FailedJobsOnly(j) == state[j] = "failed"                     \* mutant

IsRetryable(j) == state[j] \in {"partial", "failed"}

\* ... and that of the source.  The state is what it is under the lock, and ValueError is
\* answered 409; a job that is not there is answered 404 before all this and locks nothing.
LockSource(c) ==
    /\ At(c, "sourcing")
    /\ Free(c)
    /\ IF IsRetryable(call[c].job) THEN Takes(c) /\ Goto(c, "updating")
                                   ELSE Answer(c, "refused")
    /\ UNCHANGED state

\* UPDATE: refused if another job of the source is active, which the endpoint does not
\* catch.  It waits for a transaction that has inserted one.
UpdateJob(c) ==
    /\ At(c, "updating")
    /\ Free(c)
    /\ IF ActiveJobs # {}
       THEN Answer(c, "violation") /\ UNCHANGED state
       ELSE Answer(c, "done") /\ state' = [state EXCEPT ![call[c].job] = "active"]

Retry(c) == LockJob(c) \/ LockSource(c) \/ UpdateJob(c)

-----------------------------------------------------------------------------
(* create_processing_job *)

\* INSERT: the row and its index entry are made first ...
InsertJob(c) ==
    /\ At(c, "arrived")
    /\ Free(c)
    /\ IF ActiveJobs # {} THEN Answer(c, "violation") ELSE Takes(c) /\ Goto(c, "sourcing")
    /\ UNCHANGED state

\* ... and then the foreign key takes a share of the row of the source.
CheckSource(c) ==
    /\ At(c, "sourcing")
    /\ Free(c)
    /\ Answer(c, "done")
    /\ state' = [state EXCEPT ![c] = "active"]

Create(c) == InsertJob(c) \/ CheckSource(c)

-----------------------------------------------------------------------------
(* admit, for a source that is there *)

\* INSERT INTO source_arrivals, whose foreign key shares the row of the source.
InsertArrival(c) ==
    /\ At(c, "arrived")
    /\ Free(c)
    /\ Takes(c)
    /\ Goto(c, "choosing")
    /\ UNCHANGED state

Rank(s) == CASE s = "active"    -> 0
             [] s = "partial"   -> 1
             [] s = "failed"    -> 2
             [] s = "completed" -> 3

\* SELECT ... ORDER BY state LIMIT 1 FOR UPDATE finds its row ...
ChooseJob(c) ==
    /\ At(c, "choosing")
    /\ \E j \in Jobs :
          /\ state[j] # "absent"
          /\ \A k \in Jobs : state[k] # "absent" => Rank(state[j]) <= Rank(state[k])
          /\ call' = [call EXCEPT ![c] = [pc |-> "locking", job |-> j]]
    /\ UNCHANGED <<state, lock>>

\* ... and locks it; nothing after that waits.
LockChosen(c) ==
    /\ At(c, "locking")
    /\ Free(c)
    /\ Answer(c, "done")
    /\ UNCHANGED state

Deliver(c) == InsertArrival(c) \/ ChooseJob(c) \/ LockChosen(c)

-----------------------------------------------------------------------------
(* commit_page_artifacts *)

\* INSERT INTO derived_representations: the foreign keys share the row of the source ...
InsertRepresentation(c) ==
    /\ At(c, "arrived")
    /\ Free(c)
    /\ Takes(c)
    /\ Goto(c, "locking")
    /\ UNCHANGED state

\* ... and then that of the job, whatever its state and whoever holds its lease.
CommitPage(c) ==
    /\ At(c, "locking")
    /\ Free(c)
    /\ Answer(c, "done")
    /\ UNCHANGED state

Commit(c) == InsertRepresentation(c) \/ CommitPage(c)

-----------------------------------------------------------------------------
(* Workers, the database and failures *)

\* A worker settles a job, in a transaction that waits for the row only; finalize_job
\* locks it for an update.
SettleJob(j) ==
    /\ state[j] = "active"
    /\ \A l \in lock : l.on # j
    /\ \E s \in Settled : state' = [state EXCEPT ![j] = s]
    /\ UNCHANGED <<lock, call>>

Waiting == {c \in Calls : ~Free(c)}

\* Each waits for one of them and is waited for by one.
Deadlocked(cs) ==
    LET for == [c \in cs |-> Blockers(c) \cap cs]
    IN  \A c \in cs : for[c] # {} /\ \E d \in cs : c \in for[d]

\* PostgreSQL aborts one of the transactions of a deadlock: 500.
BreakDeadlock(c) ==
    /\ ~Free(c)
    /\ \E cs \in SUBSET Waiting : c \in cs /\ Deadlocked(cs)
    /\ Answer(c, "deadlock")
    /\ UNCHANGED state

Interrupt(c) ==
    /\ InFlight(c)
    /\ Cardinality({d \in Calls : At(d, "interrupted")}) < MaxInterrupts
    /\ Answer(c, "interrupted")
    /\ UNCHANGED state

-----------------------------------------------------------------------------

\* What a call does once it has arrived.
Step(c) ==
    \/ c \in Retries /\ Retry(c)
    \/ c \in Creations /\ Create(c)
    \/ c \in Deliveries /\ Deliver(c)
    \/ c \in Commits /\ Commit(c)

Next ==
    \/ \E c \in Calls : Arrive(c) \/ Step(c) \/ BreakDeadlock(c) \/ Interrupt(c)
    \/ \E j \in Jobs : SettleJob(j)

Spec == Init /\ [][Next]_vars

\* A call that can go on does, and the detector breaks a deadlock that stays.
Fairness ==
    /\ \A c \in Calls : WF_vars(Step(c))
    /\ WF_vars(\E c \in Calls : BreakDeadlock(c))

FairSpec == Spec /\ Fairness

-----------------------------------------------------------------------------
(* Properties *)

\* Type correctness; a call that has its answer holds nothing.
TypeOK ==
    /\ state \in [Jobs -> States]
    /\ lock \subseteq LockRows
    /\ \A l \in lock : InFlight(l.by)
    /\ call \in [Calls -> Locals]

\* Every call is answered in the end, also when retry_job, which locks a job and then its
\* source, meets one that locks the source first (admit, commit_page_artifacts) or makes
\* its index entry first (create_processing_job), and they deadlock.
EveryCallIsAnswered == \A c \in Calls : InFlight(c) ~> call[c].pc \in Answers

\* A call has lost a deadlock, and none that could make a job active is left.  That takes
\* a call that makes none or an interruption.
LosesForNothing(c) ==
    /\ At(c, "deadlock")
    /\ \A d \in Retries \cup Creations : ~InFlight(d)
    /\ \/ \E d \in Deliveries \cup Commits : call[d].pc # "new"
       \/ \E d \in Calls : At(d, "interrupted")

\* Whoever is refused by the index or loses a deadlock, the source gets what was asked
\* for: of the calls that retry or create, one makes a job active or has met one that is
\* (the code answers 409 or 500 then), unless the job to retry is completed, the call was
\* interrupted, or the deadlock was lost to one that makes none.
SourceIsRevived ==
    \A c \in Retries \cup Creations :
        InFlight(c) ~> \/ ActiveJobs # {}
                       \/ c \in Retries /\ state[JobOf[c]] = "completed"
                       \/ At(c, "interrupted")
                       \/ LosesForNothing(c)

=============================================================================
