------------------------- MODULE DurableProcessing -------------------------
(***************************************************************************)
(* The durable processing pipeline: the tables processing_jobs,            *)
(* page_checkpoints, derived_representations and processing_attempts       *)
(* (backend/app/repositories.py), the worker processes that claim jobs     *)
(* under a lease (backend/app/worker.py) and the API calls that create and *)
(* retry jobs.  One action is one database transaction of the code, or one *)
(* statement where its snapshot matters (mark_page_processing).            *)
(*                                                                         *)
(* Time appears only as the fact the code tests, whether a lease's         *)
(* lease_expires_at has passed: job[j].lease is "live" or "expired".       *)
(* next_attempt_at is always now() when a job is queued, so the test on it *)
(* never delays a claim and it is left out.  A derived representation pair *)
(* is named by the attempt whose commit inserted it.  total_pages NULL is  *)
(* 0, as finalize_job reads it.                                            *)
(***************************************************************************)
EXTENDS Integers, FiniteSets

CONSTANTS
    Jobs,           \* rows of processing_jobs that may come to exist
    Sources,        \* rows of sources
    SourceOf,       \* processing_jobs.source_id
    PageCount,      \* number of pages of the job's canonical PDF
    MaxPages,       \* bound on PageCount
    Workers,        \* worker ids; a restarted process takes a fresh one
    NoWorker,       \* lease_owner IS NULL
    NoJob,          \* a worker between two jobs
    RetryLimit,     \* settings.worker_page_retry_limit
    MaxRetries,     \* bound on retry requests per job
    MaxExits,       \* bound on workers that crash or are stopped
    MaxTimeouts,    \* bound on leases that lapse under a running worker
    MaxFaults,      \* bound on unexpected exceptions
    MaxFailures,    \* bound on PageProcessingError
    MaxMishaps      \* bound on the last four together

Pages == 1..MaxPages

ASSUME SourcesAssumption == SourceOf \in [Jobs -> Sources]
ASSUME PagesAssumption   == MaxPages \in Nat /\ PageCount \in [Jobs -> 0..MaxPages]
ASSUME NullsAssumption   == NoWorker \notin Workers /\ NoJob \notin Jobs
ASSUME BoundsAssumption  == /\ RetryLimit \in Nat
                            /\ MaxRetries \in Nat
                            /\ MaxExits \in Nat
                            /\ MaxTimeouts \in Nat
                            /\ MaxFaults \in Nat
                            /\ MaxFailures \in Nat
                            /\ MaxMishaps \in Nat

VARIABLES
    job,        \* processing_jobs, one record per job id
    page,       \* page_checkpoints and the page's representation pair
    attempts,   \* processing_attempts of each job
    worker,     \* main thread of each worker: program counter and locals
    spent       \* how much of each bound has been used

vars == <<job, page, attempts, worker, spent>>

-----------------------------------------------------------------------------
(* Tables and worker locals *)

JobStates   == {"absent", "queued", "processing", "completed", "partial", "failed"}
\* The schema and mark_page_processing know a state "queued" of pages too; no
\* statement writes it, and TypeOK says so.
PageStates  == {"absent", "pending", "processing", "completed", "failed"}
Outcomes    == {"open", "interrupted", "completed", "partial", "failed", "processing"}
Active      == {"queued", "processing"}

JobRows     == [state : JobStates, lease_owner : Workers \cup {NoWorker},
                lease : {"none", "live", "expired"}, attempt_count : Nat,
                retry_count : Nat, total_pages : 0..MaxPages,
                completed_pages : Nat, failed_pages : Nat]
PageRows    == [state : PageStates, attempt_count : Nat, rep : Nat]
AttemptRows == [number : Nat \ {0}, worker : Workers, outcome : Outcomes]

\* The pcs between the start and the stop of the LeaseHeartbeat thread.
Beating     == {"opening", "ensuring", "listing", "marking", "marked",
                "rendering", "finishing"}
PCs         == {"idle", "claiming", "claimed", "gone"} \cup Beating

\* todo[p] is the local `attempts` of page p; a page the loop will not enter
\* (completed, given up, or not listed) counts as Exhausted.
Exhausted   == RetryLimit + 1
Locals      == [pc : PCs, job : Jobs \cup {NoJob}, attempt : Nat,
                page : 0..MaxPages, todo : [Pages -> 0..Exhausted]]

NewJob      == [state |-> "absent", lease_owner |-> NoWorker, lease |-> "none",
                attempt_count |-> 0, retry_count |-> 0, total_pages |-> 0,
                completed_pages |-> 0, failed_pages |-> 0]
NewPage     == [state |-> "absent", attempt_count |-> 0, rep |-> 0]
NothingTodo == [p \in Pages |-> Exhausted]
Between(pc) == [pc |-> pc, job |-> NoJob, attempt |-> 0, page |-> 0,
                todo |-> NothingTodo]

Init ==
    /\ job = [j \in Jobs |-> NewJob]
    /\ page = [j \in Jobs |-> [p \in Pages |-> NewPage]]
    /\ attempts = [j \in Jobs |-> {}]
    /\ worker = [w \in Workers |-> Between("idle")]
    /\ spent = [exits |-> 0, timeouts |-> 0, faults |-> 0, failures |-> 0]

-----------------------------------------------------------------------------
(* Helpers *)

\* The unique index uq_processing_jobs_active_source refuses a second queued or
\* processing job of a source: the transaction fails and is rolled back.
SourceIsFree(j) ==
    \A k \in Jobs \ {j} : SourceOf[k] = SourceOf[j] => job[k].state \notin Active

Unleased(row, state) ==
    [row EXCEPT !.state = state, !.lease_owner = NoWorker, !.lease = "none"]

\* UPDATE processing_attempts SET ended_at = now(), outcome = ...
\* WHERE job_id = j AND worker_id IN owners AND ended_at IS NULL
CloseAttempts(j, owners, outcome) ==
    {IF a.outcome = "open" /\ a.worker \in owners
     THEN [a EXCEPT !.outcome = outcome] ELSE a : a \in attempts[j]}

OwnerUnchecked(w, j) == job[j].lease_owner # NoWorker        \* mutant

Owns(w, j) == job[j].lease_owner = w

PagesIn(j, state) == {p \in Pages : page[j][p].state = state}

\* The page loop of _process_pages moves to the first page it still has tries
\* for, or leaves the loop.
ContinueWith(w, todo) ==
    LET left == {p \in Pages : todo[p] <= RetryLimit}
        goto(pc, p) == [worker EXCEPT ![w] =
                           [@ EXCEPT !.pc = pc, !.page = p, !.todo = todo]]
    IN  \/ /\ left = {}
           /\ worker' = goto("finishing", 0)
        \/ \E p \in left :
              /\ \A q \in left : p <= q
              /\ worker' = goto("marking", p)

PageDone(w) == [worker[w].todo EXCEPT ![worker[w].page] = Exhausted]

Interruptions == spent.exits + spent.timeouts + spent.faults
Mishaps       == Interruptions + spent.failures

Spend(what, limit) ==
    /\ spent[what] < limit
    /\ Mishaps < MaxMishaps
    /\ spent' = [spent EXCEPT ![what] = @ + 1]

-----------------------------------------------------------------------------
(* The API *)

\* create_processing_job, and the INSERT of admit: a new queued job.
CreateJob(j) ==
    /\ job[j].state = "absent"
    /\ SourceIsFree(j)
    /\ job' = [job EXCEPT ![j].state = "queued"]
    /\ UNCHANGED <<page, attempts, worker, spent>>

\* retry_job.  The failed pages become pending again; their attempt_count and
\* the pages left "processing" by fail_document are not touched.
RetryJob(j) ==
    /\ job[j].state \in {"partial", "failed"}
    /\ SourceIsFree(j)
    /\ job[j].retry_count < MaxRetries
    /\ job' = [job EXCEPT ![j] = [Unleased(job[j], "queued") EXCEPT
                                     !.retry_count = job[j].retry_count + 1]]
    /\ page' = [page EXCEPT ![j] = [p \in Pages |->
                    IF page[j][p].state = "failed"
                    THEN [page[j][p] EXCEPT !.state = "pending", !.rep = 0]
                    ELSE page[j][p]]]
    /\ UNCHANGED <<attempts, worker, spent>>

-----------------------------------------------------------------------------
(* Claiming *)

IsExpired(j) == job[j].state = "processing" /\ job[j].lease = "expired"

\* recover_expired_jobs, the first transaction of claim_job.
RecoverExpired(w) ==
    /\ worker[w].pc = "idle"
    /\ job' = [j \in Jobs |-> IF IsExpired(j) THEN Unleased(job[j], "queued")
                                              ELSE job[j]]
    /\ page' = [j \in Jobs |-> [p \in Pages |->
                    IF IsExpired(j) /\ page[j][p].state = "processing"
                    THEN [page[j][p] EXCEPT !.state = "pending"]
                    ELSE page[j][p]]]
    /\ attempts' = [j \in Jobs |-> IF IsExpired(j)
                                   THEN CloseAttempts(j, Workers, "interrupted")
                                   ELSE attempts[j]]
    /\ worker' = [worker EXCEPT ![w].pc = "claiming"]
    /\ UNCHANGED spent

\* The second transaction of claim_job.  SKIP LOCKED makes any queued job the
\* possible candidate.
ClaimJob(w, j) ==
    /\ worker[w].pc = "claiming"
    /\ job[j].state = "queued"
    /\ LET n == job[j].attempt_count + 1
       IN  /\ job' = [job EXCEPT ![j] =
                  [@ EXCEPT !.state = "processing", !.lease_owner = w,
                            !.lease = "live", !.attempt_count = n]]
           /\ attempts' = [attempts EXCEPT ![j] =
                  @ \cup {[number |-> n, worker |-> w, outcome |-> "open"]}]
           /\ worker' = [worker EXCEPT ![w] =
                  [@ EXCEPT !.pc = "claimed", !.job = j, !.attempt = n]]
    /\ UNCHANGED <<page, spent>>

\* claim_job returns None; the worker waits and polls again.  That a queued job
\* is passed over while another transaction has its row locked only delays it.
ClaimNothing(w) ==
    /\ worker[w].pc = "claiming"
    /\ \A j \in Jobs : job[j].state # "queued"
    /\ worker' = [worker EXCEPT ![w].pc = "idle"]
    /\ UNCHANGED <<job, page, attempts, spent>>

-----------------------------------------------------------------------------
(* process_claimed_job and _process_pages *)

\* The records of source and canonical object are read, the heartbeat starts.
StartProcessing(w) ==
    /\ worker[w].pc = "claimed"
    /\ worker' = [worker EXCEPT ![w].pc = "opening"]
    /\ UNCHANGED <<job, page, attempts, spent>>

\* The PDF opens and its hash agrees: set_total_pages, which asks for the state
\* but not for the lease.
OpenDocument(w) ==
    LET j == worker[w].job
    IN  /\ worker[w].pc = "opening"
        /\ job' = [job EXCEPT ![j].total_pages =
                      IF job[j].state = "processing" THEN PageCount[j] ELSE @]
        /\ worker' = [worker EXCEPT ![w].pc = "ensuring"]
        /\ UNCHANGED <<page, attempts, spent>>

InsertsQueuedPages(w) ==                                     \* mutant
    LET j == worker[w].job
    IN  /\ worker[w].pc = "ensuring"
        /\ page' = [page EXCEPT ![j] = [p \in Pages |->
                       IF p <= PageCount[j] /\ page[j][p].state = "absent"
                       THEN [page[j][p] EXCEPT !.state = "queued"]
                       ELSE page[j][p]]]
        /\ worker' = [worker EXCEPT ![w].pc = "listing"]
        /\ UNCHANGED <<job, attempts, spent>>

\* ensure_page_checkpoints: ON CONFLICT DO NOTHING.
EnsureCheckpoints(w) ==
    LET j == worker[w].job
    IN  /\ worker[w].pc = "ensuring"
        /\ page' = [page EXCEPT ![j] = [p \in Pages |->
                       IF p <= PageCount[j] /\ page[j][p].state = "absent"
                       THEN [page[j][p] EXCEPT !.state = "pending"]
                       ELSE page[j][p]]]
        /\ worker' = [worker EXCEPT ![w].pc = "listing"]
        /\ UNCHANGED <<job, attempts, spent>>

\* The loop works from this snapshot: which pages are completed, and how many
\* tries each page has used, are not read again.
TriesUsedOneLess(row) ==                                     \* mutant
    IF row.state \in {"absent", "completed"} \/ row.attempt_count >= RetryLimit
    THEN Exhausted ELSE row.attempt_count

TriesUsed(row) ==
    IF row.state \in {"absent", "completed"} \/ row.attempt_count > RetryLimit
    THEN Exhausted ELSE row.attempt_count

ListCheckpoints(w) ==
    LET j == worker[w].job
    IN  /\ worker[w].pc = "listing"
        /\ ContinueWith(w, [p \in Pages |-> TriesUsed(page[j][p])])
        /\ UNCHANGED <<job, page, attempts, spent>>

\* mark_page_processing returned a row: a page somebody has completed meanwhile
\* is left alone, any other one is processed, also when it was not marked.
AfterMark(w) ==
    IF page[worker[w].job][worker[w].page].state = "completed"
    THEN ContinueWith(w, PageDone(w))
    ELSE worker' = [worker EXCEPT ![w].pc = "rendering"]

IsMarkable(row) == row.state \in {"pending", "queued"}

\* mark_page_processing, the snapshot of its UPDATE: the EXISTS on the lease is
\* not evaluated again when the row is written.
CheckLease(w) ==
    LET j == worker[w].job
        claimable == /\ IsMarkable(page[j][worker[w].page])
                     /\ job[j].state = "processing" /\ Owns(w, j)
    IN  /\ worker[w].pc = "marking"
        /\ IF claimable
           THEN worker' = [worker EXCEPT ![w].pc = "marked"]
           ELSE AfterMark(w)
        /\ UNCHANGED <<job, page, attempts, spent>>

\* ... and its write, which does look at the state of the page again.
MarkPageProcessing(w) ==
    LET j == worker[w].job
        p == worker[w].page
        row == page[j][p]
    IN  /\ worker[w].pc = "marked"
        /\ page' = [page EXCEPT ![j][p] =
                       IF IsMarkable(row)
                       THEN [row EXCEPT !.state = "processing",
                                        !.attempt_count = row.attempt_count + 1]
                       ELSE row]
        /\ AfterMark(w)
        /\ UNCHANGED <<job, attempts, spent>>

\* process_page and _persist_page succeed: commit_page_artifacts inserts the pair
\* unless the page has one, and completes the page whatever its state and
\* whoever holds the lease.
CommitPage(w) ==
    LET j == worker[w].job
        p == worker[w].page
        row == page[j][p]
    IN  /\ worker[w].pc = "rendering"
        /\ page' = [page EXCEPT ![j][p] =
               [row EXCEPT !.state = "completed",
                           !.rep = IF row.rep = 0 THEN worker[w].attempt ELSE row.rep]]
        /\ ContinueWith(w, PageDone(w))
        /\ UNCHANGED <<job, attempts, spent>>

\* PageProcessingError: mark_page_failed after the last try, else
\* mark_page_pending; both only if the page is "processing".
AfterFailureOfAnyPage(state, used) ==                        \* mutant
    IF used > RetryLimit THEN "failed" ELSE "pending"

AfterFailure(state, used) ==
    IF state = "processing" THEN IF used > RetryLimit THEN "failed" ELSE "pending"
                            ELSE state

PageFails(w) ==
    LET j == worker[w].job
        p == worker[w].page
        used == worker[w].todo[p] + 1
    IN  /\ worker[w].pc = "rendering"
        /\ Spend("failures", MaxFailures)
        /\ page' = [page EXCEPT ![j][p].state = AfterFailure(@, used)]
        /\ ContinueWith(w, [worker[w].todo EXCEPT ![p] = used])
        /\ UNCHANGED <<job, attempts>>

\* finalize_job.  With neither a failed page nor all pages completed the job
\* stays "processing", and its lease is taken away all the same.
FinalStateWithoutTotal(j) ==                                 \* mutant
    IF PagesIn(j, "failed") = {} THEN "completed"
    ELSE IF PagesIn(j, "completed") # {} THEN "partial" ELSE "failed"

FinalState(j) ==
    LET completed == PagesIn(j, "completed")
        failed    == PagesIn(j, "failed")
    IN  IF failed # {} THEN IF completed # {} THEN "partial" ELSE "failed"
        ELSE IF Cardinality(completed) = job[j].total_pages THEN "completed"
        ELSE "processing"

FinalizeJob(w) ==
    LET j == worker[w].job
        state == FinalState(j)
    IN  /\ worker[w].pc = "finishing"
        /\ IF Owns(w, j)
           THEN /\ job' = [job EXCEPT ![j] =
                     [Unleased(@, state) EXCEPT
                         !.completed_pages = Cardinality(PagesIn(j, "completed")),
                         !.failed_pages    = Cardinality(PagesIn(j, "failed"))]]
                /\ attempts' = [attempts EXCEPT ![j] = CloseAttempts(j, {w}, state)]
           ELSE UNCHANGED <<job, attempts>>
        /\ worker' = [worker EXCEPT ![w] = Between("idle")]
        /\ UNCHANGED <<page, spent>>

\* fail_document: does nothing for a worker that has lost the lease.
FailDocument(w) ==
    LET j == worker[w].job
    IN  /\ IF job[j].state = "processing" /\ Owns(w, j)
           THEN /\ job' = [job EXCEPT ![j] = Unleased(@, "failed")]
                /\ attempts' = [attempts EXCEPT ![j] = CloseAttempts(j, {w}, "failed")]
           ELSE UNCHANGED <<job, attempts>>
        /\ worker' = [worker EXCEPT ![w] = Between("idle")]
        /\ UNCHANGED page

\* A record is missing, the hash differs or the PDF does not open.
RejectDocument(w) ==
    /\ worker[w].pc \in {"claimed", "opening"}
    /\ FailDocument(w)
    /\ UNCHANGED spent

\* Any other exception in the try block ends in fail_document ...
Fault(w) ==
    /\ worker[w].pc \in Beating
    /\ Spend("faults", MaxFaults)
    /\ FailDocument(w)

\* ... and one outside it, or one of fail_document itself, is logged by
\* run_forever, which goes on with the claim, if any, still in its name.
DropClaim(w) ==
    /\ worker[w].pc \in Beating \cup {"claiming", "claimed"}
    /\ Spend("faults", MaxFaults)
    /\ worker' = [worker EXCEPT ![w] = Between("idle")]
    /\ UNCHANGED <<job, page, attempts>>

-----------------------------------------------------------------------------
(* Leases and process failures *)

\* A worker at work on j renews its lease every third of lease_seconds, and
\* starts to do so at once after the claim.
Renewing(w, j) == worker[w].job = j /\ worker[w].pc \in Beating \cup {"claimed"}

\* heartbeat_job, called by the LeaseHeartbeat thread of w: it also revives a
\* lease that has expired and was not recovered yet.
HeartbeatJob(w) ==
    LET j == worker[w].job
    IN  /\ worker[w].pc \in Beating
        /\ job[j].state = "processing" /\ Owns(w, j)
        /\ job' = [job EXCEPT ![j].lease = "live"]
        /\ UNCHANGED <<page, attempts, worker, spent>>

\* lease_expires_at passes: always in the end when nobody renews the lease, and
\* a bounded number of times under a heartbeat that stalls or fails.
LeaseLapses(j) ==
    /\ job[j].lease = "live"
    /\ job' = [job EXCEPT ![j].lease = "expired"]
    /\ UNCHANGED <<page, attempts, worker>>

LeaseRunsOut(j) ==
    /\ ~ \E w \in Workers : Owns(w, j) /\ Renewing(w, j)
    /\ LeaseLapses(j)
    /\ UNCHANGED spent

HeartbeatStalls(j) ==
    /\ \E w \in Workers : Owns(w, j) /\ Renewing(w, j)
    /\ LeaseLapses(j)
    /\ Spend("timeouts", MaxTimeouts)

\* The process dies, or returns after SIGTERM: its stop checks return without
\* finalize_job and without giving the lease back, so to the tables both are
\* the same.  Its id is never used again.
WorkerExits(w) ==
    /\ worker[w].pc # "gone"
    /\ Spend("exits", MaxExits)
    /\ worker' = [worker EXCEPT ![w] = Between("gone")]
    /\ UNCHANGED <<job, page, attempts>>

-----------------------------------------------------------------------------

\* What the main thread of a worker does next.
WorkerStep(w) ==
    \/ RecoverExpired(w)
    \/ \E j \in Jobs : ClaimJob(w, j)
    \/ ClaimNothing(w)
    \/ StartProcessing(w)
    \/ OpenDocument(w)
    \/ EnsureCheckpoints(w)
    \/ ListCheckpoints(w)
    \/ CheckLease(w)
    \/ MarkPageProcessing(w)
    \/ CommitPage(w)
    \/ PageFails(w)
    \/ FinalizeJob(w)
    \/ RejectDocument(w)
    \/ Fault(w)
    \/ DropClaim(w)

Next ==
    \/ \E j \in Jobs : \/ CreateJob(j)
                       \/ RetryJob(j)
                       \/ LeaseRunsOut(j)
                       \/ HeartbeatStalls(j)
    \/ \E w \in Workers : \/ WorkerStep(w)
                          \/ HeartbeatJob(w)
                          \/ WorkerExits(w)

Spec == Init /\ [][Next]_vars

\* A running worker goes on, and a lease nobody renews runs out in the end.
\* A heartbeat that stalls, an exit, a fault and a user's request need not
\* happen; that the worker goes on after a heartbeat or without is the
\* scheduler's promise.
Fairness ==
    /\ \A w \in Workers : WF_vars(WorkerStep(w))
    /\ \A j \in Jobs : WF_vars(LeaseRunsOut(j))

FairSpec == Spec /\ Fairness

-----------------------------------------------------------------------------
(* Properties *)

\* Type correctness.
TypeOK ==
    /\ job \in [Jobs -> JobRows]
    /\ page \in [Jobs -> [Pages -> PageRows]]
    /\ attempts \in [Jobs -> SUBSET AttemptRows]
    /\ worker \in [Workers -> Locals]
    /\ spent \in [{"exits", "timeouts", "faults", "failures"} -> Nat]

Leased(j) == job[j].lease_owner # NoWorker

Holding(j) == [number |-> job[j].attempt_count, worker |-> job[j].lease_owner,
               outcome |-> "open"]

\* The attempt history agrees with the lease: a leased job has exactly one open
\* attempt, the last one, in the name of the lease's owner; any other job has
\* none.  finalize_job and fail_document close the attempts of one worker,
\* recovery those of all, and each claim opens one.
OpenAttemptIsTheLease ==
    \A j \in Jobs : {a \in attempts[j] : a.outcome = "open"} =
                      IF Leased(j) THEN {Holding(j)} ELSE {}

\* A completed job has every page of its document, each with representations,
\* and says so in its counts: whatever lost workers, retries and recoveries
\* went on before finalize_job compared two numbers.
CompletedJobIsWhole ==
    \A j \in Jobs : job[j].state = "completed" =>
        /\ \A p \in 1..PageCount[j] : page[j][p].state = "completed" /\ page[j][p].rep # 0
        /\ job[j].completed_pages = PageCount[j]
        /\ job[j].failed_pages = 0

\* "Completed page checkpoints remain durable": once a page is completed no
\* recovery, retry, failure or late worker takes it back, and its
\* representations are never exchanged for those of another attempt.
CompletedPagesAreDurable ==
    [][\A j \in Jobs, p \in Pages : page[j][p].state = "completed" =>
          page'[j][p].state = "completed" /\ page'[j][p].rep = page[j][p].rep]_vars

\* The counts the monitor shows never claim more completed pages than there are.
ProgressIsNotManufactured ==
    \A j \in Jobs : job[j].completed_pages <= Cardinality(PagesIn(j, "completed"))

\* The lease fences the job: what a worker does that works for a job it does not
\* hold, or no longer holds, changes neither the job's state and lease nor its
\* attempt history, however late its finalize_job or fail_document comes.
LeaseFencesTheJob ==
    [][\A w \in Workers : LET j == worker[w].job IN
          worker'[w] # worker[w] /\ j # NoJob /\ job[j].lease_owner # w =>
              /\ job'[j].state = job[j].state
              /\ job'[j].lease_owner = job[j].lease_owner
              /\ attempts'[j] = attempts[j]]_vars

\* README.md: a worker can be stopped and restarted without losing queued jobs.
\* A processing job that nobody has leased is lost: it cannot be claimed,
\* recovery looks for an expired lease, and retry for a settled job.
Lost(j) == job[j].state = "processing" /\ ~Leased(j)

NoJobIsLost == \A j \in Jobs : ~Lost(j)

\* An interrupted page and a failed one have used a try, and retry_job gives none back.
\* Failures alone use the tries up in order, and mark the page.
TriesMayHaveRunOut(j) ==
    /\ Interruptions + job[j].retry_count > 0
    /\ Mishaps + job[j].retry_count > RetryLimit

\* Every queued job is settled in the end, however its pages fail and whoever is
\* interrupted.  The one exception is a job that NoJobIsLost is about, and it takes an
\* interruption or a retry, and as many of them and of failures as use up a page's tries.
EveryJobSettles ==
    \A j \in Jobs : job[j].state = "queued" ~>
        \/ job[j].state \in {"completed", "partial", "failed"}
        \/ Lost(j) /\ TriesMayHaveRunOut(j)

\* The job table, seen without leases and workers, behaves as JobLifecycle.
Lifecycle == INSTANCE JobLifecycle WITH
    state <- [j \in Jobs |-> job[j].state],
    done  <- [j \in Jobs |-> PagesIn(j, "completed")]

ImplementsLifecycle == Lifecycle!Spec

-----------------------------------------------------------------------------
(* The inductive invariant behind the safety properties *)

\* Only a processing job is leased, and a lease has an owner.
LeaseOK ==
    \A j \in Jobs :
        /\ Leased(j) => job[j].state = "processing"
        /\ Leased(j) <=> job[j].lease # "none"

\* Only pages of the document have checkpoints, and a page has representations
\* exactly when it is completed.
PagesOK ==
    \A j \in Jobs, p \in Pages :
        /\ page[j][p].state # "absent" => p <= PageCount[j]
        /\ page[j][p].state = "completed" <=> page[j][p].rep # 0

InLoop == {"marking", "marked", "rendering"}
Opened == {"ensuring", "listing", "finishing"} \cup InLoop

\* A worker with a job works for an attempt of it, on pages that have a
\* checkpoint; while it holds the lease the job knows its number of pages.
WorkerOK(w) ==
    LET j == worker[w].job IN
    /\ worker[w].pc \in {"idle", "claiming", "gone"} => j = NoJob
    /\ worker[w].pc \in Beating \cup {"claimed"} => j \in Jobs
    /\ j \in Jobs =>
         /\ job[j].state # "absent"
         /\ worker[w].attempt # 0
         /\ worker[w].pc \in Opened /\ Owns(w, j) => job[j].total_pages = PageCount[j]
    /\ \A p \in Pages : worker[w].todo[p] <= RetryLimit =>
                         j \in Jobs /\ page[j][p].state # "absent"
    /\ worker[w].pc \in InLoop => /\ worker[w].page \in Pages
                                  /\ worker[w].todo[worker[w].page] <= RetryLimit

WorkersOK == \A w \in Workers : WorkerOK(w)

IInv ==
    /\ TypeOK
    /\ LeaseOK
    /\ OpenAttemptIsTheLease
    /\ PagesOK
    /\ WorkersOK
    /\ CompletedJobIsWhole

=============================================================================
