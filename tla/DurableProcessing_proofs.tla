---------------------- MODULE DurableProcessing_proofs ----------------------
(***************************************************************************)
(* Proofs about DurableProcessing, for every set of jobs and workers, every *)
(* number of pages and every value of the bounds.                          *)
(***************************************************************************)
EXTENDS DurableProcessing, FiniteSetTheorems, TLAPS

USE SourcesAssumption, PagesAssumption, NullsAssumption, BoundsAssumption

-----------------------------------------------------------------------------
(* Lemmas about the helpers *)

\* What ContinueWith does to the locals: the worker is in the page loop, at a
\* page it still has tries for, or at the end of the loop.
LEMMA ContinueLocals ==
    ASSUME worker \in [Workers -> Locals], NEW w \in Workers,
           NEW todo \in [Pages -> 0..Exhausted], ContinueWith(w, todo)
    PROVE  /\ worker' \in [Workers -> Locals]
           /\ \A v \in Workers \ {w} : worker'[v] = worker[v]
           /\ worker'[w].job = worker[w].job
           /\ worker'[w].attempt = worker[w].attempt
           /\ worker'[w].todo = todo
           /\ \/ worker'[w].pc = "finishing"
              \/ /\ worker'[w].pc = "marking"
                 /\ worker'[w].page \in Pages
                 /\ todo[worker'[w].page] <= RetryLimit
  <1> DEFINE Moved(pc, p) == [worker EXCEPT ![w] =
                               [@ EXCEPT !.pc = pc, !.page = p, !.todo = todo]]
  <1>1. ASSUME NEW pc \in {"finishing", "marking"}, NEW p \in 0..MaxPages
        PROVE  /\ Moved(pc, p) \in [Workers -> Locals]
               /\ \A v \in Workers \ {w} : Moved(pc, p)[v] = worker[v]
               /\ Moved(pc, p)[w].job = worker[w].job
               /\ Moved(pc, p)[w].attempt = worker[w].attempt
               /\ Moved(pc, p)[w].todo = todo
               /\ Moved(pc, p)[w].pc = pc
               /\ Moved(pc, p)[w].page = p
    <2>1. pc \in PCs
      BY DEF PCs, Beating
    <2>2. worker[w] \in Locals
      OBVIOUS
    <2> QED
      BY <2>1, <2>2 DEF Locals
  <1>2. CASE worker' = Moved("finishing", 0)
    <2>1. 0 \in 0..MaxPages
      OBVIOUS
    <2>. HIDE DEF Moved
    <2> QED
      BY <1>1, <1>2, <2>1
  <1>3. ASSUME NEW p \in Pages, todo[p] <= RetryLimit, worker' = Moved("marking", p)
        PROVE  /\ worker' \in [Workers -> Locals]
               /\ \A v \in Workers \ {w} : worker'[v] = worker[v]
               /\ worker'[w].job = worker[w].job
               /\ worker'[w].attempt = worker[w].attempt
               /\ worker'[w].todo = todo
               /\ worker'[w].pc = "marking"
               /\ worker'[w].page \in Pages
               /\ todo[worker'[w].page] <= RetryLimit
    <2>1. p \in 0..MaxPages
      BY DEF Pages
    <2>. HIDE DEF Moved
    <2> QED
      BY <1>1, <1>3, <2>1
  <1> QED
    BY <1>2, <1>3 DEF ContinueWith

\* A step that only moves the program counter.
LEMMA PcType ==
    ASSUME worker \in [Workers -> Locals], NEW w \in Workers, NEW pc \in PCs
    PROVE  [worker EXCEPT ![w].pc = pc] \in [Workers -> Locals]
  <1>1. worker[w] \in Locals
    OBVIOUS
  <1>2. [worker[w] EXCEPT !.pc = pc] \in Locals
    BY <1>1 DEF Locals
  <1> QED
    BY <1>2

LEMMA NothingTodoType == NothingTodo \in [Pages -> 0..Exhausted]
  BY DEF NothingTodo, Exhausted

LEMMA BetweenType == \A pc \in PCs : Between(pc) \in Locals
  BY NothingTodoType DEF Between, Locals

LEMMA CloseType ==
    ASSUME attempts \in [Jobs -> SUBSET AttemptRows], NEW j \in Jobs,
           NEW owners, NEW outcome \in Outcomes
    PROVE  CloseAttempts(j, owners, outcome) \in SUBSET AttemptRows
  BY DEF CloseAttempts, AttemptRows

LEMMA UnleasedType ==
    ASSUME NEW row \in JobRows, NEW state \in JobStates
    PROVE  Unleased(row, state) \in JobRows
  BY DEF Unleased, JobRows

\* Rows with one column updated.
LEMMA JobRowType ==
    ASSUME NEW row \in JobRows
    PROVE  /\ \A x \in JobStates : [row EXCEPT !.state = x] \in JobRows
           /\ \A x \in {"none", "live", "expired"} : [row EXCEPT !.lease = x] \in JobRows
           /\ \A x \in 0..MaxPages : [row EXCEPT !.total_pages = x] \in JobRows
  BY DEF JobRows

LEMMA PageRowType ==
    ASSUME NEW row \in PageRows
    PROVE  /\ \A x \in PageStates : [row EXCEPT !.state = x] \in PageRows
           /\ \A x \in PageStates, n \in Nat :
                [row EXCEPT !.state = x, !.rep = n] \in PageRows
           /\ \A x \in PageStates :
                [row EXCEPT !.state = x, !.attempt_count = row.attempt_count + 1] \in PageRows
  <1>1. \A x \in PageStates : [row EXCEPT !.state = x] \in PageRows
    BY DEF PageRows
  <1>2. \A x \in PageStates, n \in Nat : [row EXCEPT !.state = x, !.rep = n] \in PageRows
    BY DEF PageRows
  <1>3. ASSUME NEW x \in PageStates
        PROVE  [row EXCEPT !.state = x, !.attempt_count = row.attempt_count + 1] \in PageRows
    <2>1. row.attempt_count + 1 \in Nat
      BY DEF PageRows
    <2> QED
      BY <2>1 DEF PageRows
  <1> QED
    BY <1>1, <1>2, <1>3

\* The pages counted by finalize_job are finitely many.
LEMMA PagesInFinite ==
    ASSUME NEW j, NEW state
    PROVE  /\ PagesIn(j, state) \in SUBSET Pages
           /\ IsFiniteSet(PagesIn(j, state))
           /\ Cardinality(PagesIn(j, state)) \in Nat
  <1>1. IsFiniteSet(Pages)
    BY FS_Interval DEF Pages
  <1>2. PagesIn(j, state) \in SUBSET Pages
    BY DEF PagesIn
  <1> QED
    BY <1>1, <1>2, FS_Subset, FS_CardinalityType

-----------------------------------------------------------------------------
(* Type correctness *)

LEMMA TypeInit == Init => TypeOK
  <1> SUFFICES ASSUME Init PROVE TypeOK
    OBVIOUS
  <1>1. NewJob \in JobRows
    BY DEF NewJob, JobRows, JobStates
  <1>2. NewPage \in PageRows
    BY DEF NewPage, PageRows, PageStates
  <1>3. Between("idle") \in Locals
    BY BetweenType DEF PCs
  <1> QED
    BY <1>1, <1>2, <1>3 DEF Init, TypeOK

\* One bound is used up a little more.
LEMMA SpendType ==
    ASSUME spent \in [{"exits", "timeouts", "faults", "failures"} -> Nat],
           NEW what \in {"exits", "timeouts", "faults", "failures"}, NEW limit,
           Spend(what, limit)
    PROVE  spent' \in [{"exits", "timeouts", "faults", "failures"} -> Nat]
  BY DEF Spend

\* fail_document keeps the types.
LEMMA FailDocumentType ==
    ASSUME TypeOK, NEW w \in Workers, worker[w].job \in Jobs, FailDocument(w)
    PROVE  /\ job' \in [Jobs -> JobRows]
           /\ page' \in [Jobs -> [Pages -> PageRows]]
           /\ attempts' \in [Jobs -> SUBSET AttemptRows]
           /\ worker' \in [Workers -> Locals]
  <1> DEFINE j == worker[w].job
  <1>1. Between("idle") \in Locals
    BY BetweenType DEF PCs
  <1>2. Unleased(job[j], "failed") \in JobRows
    BY UnleasedType DEF TypeOK, JobStates
  <1>3. CloseAttempts(j, {w}, "failed") \in SUBSET AttemptRows
    BY CloseType DEF TypeOK, Outcomes
  <1>4. worker' \in [Workers -> Locals]
    BY <1>1 DEF FailDocument, TypeOK
  <1>5. page' \in [Jobs -> [Pages -> PageRows]]
    BY DEF FailDocument, TypeOK
  <1>6. CASE job[j].state = "processing" /\ Owns(w, j)
    <2>1. job' \in [Jobs -> JobRows]
      BY <1>2, <1>6 DEF FailDocument, TypeOK
    <2>2. attempts' \in [Jobs -> SUBSET AttemptRows]
      BY <1>3, <1>6 DEF FailDocument, TypeOK
    <2> QED
      BY <1>4, <1>5, <2>1, <2>2
  <1>7. CASE ~ (job[j].state = "processing" /\ Owns(w, j))
    BY <1>4, <1>5, <1>7 DEF FailDocument, TypeOK
  <1> QED
    BY <1>6, <1>7

\* Every step keeps the types; that a busy worker has a job is part of
\* WorkersOK.
LEMMA TypeStep == TypeOK /\ WorkersOK /\ [Next]_vars => TypeOK'
  <1> SUFFICES ASSUME TypeOK, WorkersOK, [Next]_vars PROVE TypeOK'
    OBVIOUS
  <1>a. \A w \in Workers : worker[w].pc \in Beating \cup {"claimed"} => worker[w].job \in Jobs
    BY DEF WorkersOK, WorkerOK
  <1>b. \A w \in Workers : worker[w].pc \in InLoop =>
            worker[w].job \in Jobs /\ worker[w].page \in Pages
    BY <1>a DEF WorkersOK, WorkerOK, InLoop, Beating
  <1>f. /\ \A j \in Jobs : job[j] \in JobRows
        /\ \A j \in Jobs : \A p \in Pages : page[j][p] \in PageRows
    BY DEF TypeOK
  <1>c. Between("idle") \in Locals /\ Between("gone") \in Locals
    BY BetweenType DEF PCs
  <1>1. ASSUME NEW j \in Jobs, CreateJob(j) PROVE TypeOK'
    <2>1. [job[j] EXCEPT !.state = "queued"] \in JobRows
      BY JobRowType DEF TypeOK, JobStates
    <2>2. job' \in [Jobs -> JobRows]
      BY <1>1, <2>1 DEF CreateJob, TypeOK
    <2> QED
      BY <1>1, <2>2 DEF CreateJob, TypeOK
  <1>2. ASSUME NEW j \in Jobs, RetryJob(j) PROVE TypeOK'
    <2>1. Unleased(job[j], "queued") \in JobRows
      BY UnleasedType DEF TypeOK, JobStates
    <2>2. [Unleased(job[j], "queued") EXCEPT !.retry_count = job[j].retry_count + 1] \in JobRows
      BY <1>f, <2>1 DEF JobRows
    <2>3. job' \in [Jobs -> JobRows]
      <3> DEFINE new == [Unleased(job[j], "queued") EXCEPT !.retry_count = job[j].retry_count + 1]
      <3>1. job' = [job EXCEPT ![j] = new]
        BY <1>2 DEF RetryJob
      <3> HIDE DEF new
      <3>2. new \in JobRows
        BY <2>2 DEF new
      <3> QED
        BY <3>1, <3>2 DEF TypeOK
    <2>4. \A p \in Pages : [page[j][p] EXCEPT !.state = "pending", !.rep = 0] \in PageRows
      BY <1>f, PageRowType DEF PageStates
    <2>5. page' \in [Jobs -> [Pages -> PageRows]]
      BY <1>2, <2>4 DEF RetryJob, TypeOK
    <2> QED
      BY <1>2, <2>3, <2>5 DEF RetryJob, TypeOK
  <1>3. ASSUME NEW w \in Workers, RecoverExpired(w) PROVE TypeOK'
    <2>a. \A j \in Jobs : Unleased(job[j], "queued") \in JobRows
      BY UnleasedType DEF TypeOK, JobStates
    <2>1. job' \in [Jobs -> JobRows]
      BY <1>3, <2>a DEF RecoverExpired, TypeOK
    <2>b. \A j \in Jobs, p \in Pages : [page[j][p] EXCEPT !.state = "pending"] \in PageRows
      BY <1>f, PageRowType DEF PageStates
    <2>2. page' \in [Jobs -> [Pages -> PageRows]]
      BY <1>3, <2>b DEF RecoverExpired, TypeOK
    <2>3. attempts' \in [Jobs -> SUBSET AttemptRows]
      <3>1. \A j \in Jobs : CloseAttempts(j, Workers, "interrupted") \in SUBSET AttemptRows
        BY CloseType DEF TypeOK, Outcomes
      <3> QED
        BY <1>3, <3>1 DEF RecoverExpired, TypeOK
    <2>4. worker' \in [Workers -> Locals]
      BY <1>3, PcType DEF RecoverExpired, TypeOK, PCs
    <2> QED
      BY <1>3, <2>1, <2>2, <2>3, <2>4 DEF RecoverExpired, TypeOK
  <1>4. ASSUME NEW w \in Workers, NEW j \in Jobs, ClaimJob(w, j) PROVE TypeOK'
    <2> DEFINE n == job[j].attempt_count + 1
    <2>1. n \in Nat \ {0} /\ job[j] \in JobRows /\ worker[w] \in Locals
      BY DEF TypeOK, JobRows
    <2>2. [number |-> n, worker |-> w, outcome |-> "open"] \in AttemptRows
      BY <2>1 DEF AttemptRows, Outcomes
    <2>3. [job[j] EXCEPT !.state = "processing", !.lease_owner = w,
                         !.lease = "live", !.attempt_count = n] \in JobRows
      BY <2>1 DEF JobRows, JobStates
    <2>4. [worker[w] EXCEPT !.pc = "claimed", !.job = j, !.attempt = n] \in Locals
      BY <2>1 DEF Locals, PCs
    <2> HIDE DEF n
    <2>5. /\ job' = [job EXCEPT ![j] = [@ EXCEPT !.state = "processing", !.lease_owner = w,
                                                 !.lease = "live", !.attempt_count = n]]
          /\ attempts' = [attempts EXCEPT ![j] =
                @ \cup {[number |-> n, worker |-> w, outcome |-> "open"]}]
          /\ worker' = [worker EXCEPT ![w] = [@ EXCEPT !.pc = "claimed", !.job = j, !.attempt = n]]
          /\ UNCHANGED <<page, spent>>
      BY <1>4 DEF ClaimJob, n
    <2>6. job' \in [Jobs -> JobRows]
      BY <2>3, <2>5 DEF TypeOK
    <2>7. attempts' \in [Jobs -> SUBSET AttemptRows]
      BY <2>2, <2>5 DEF TypeOK
    <2>8. worker' \in [Workers -> Locals]
      BY <2>4, <2>5 DEF TypeOK
    <2> QED
      BY <2>5, <2>6, <2>7, <2>8 DEF TypeOK
  <1>5. ASSUME NEW w \in Workers, ClaimNothing(w) PROVE TypeOK'
    BY <1>5, PcType DEF ClaimNothing, TypeOK, PCs
  <1>6. ASSUME NEW w \in Workers, StartProcessing(w) PROVE TypeOK'
    BY <1>6, PcType DEF StartProcessing, TypeOK, PCs, Beating
  <1>7. ASSUME NEW w \in Workers, OpenDocument(w) PROVE TypeOK'
    <2>1. worker' \in [Workers -> Locals]
      BY <1>7, PcType DEF OpenDocument, TypeOK, PCs, Beating
    <2>2. worker[w].job \in Jobs
      BY <1>a, <1>7 DEF OpenDocument, Beating
    <2>3. job' \in [Jobs -> JobRows]
      <3> DEFINE n == IF job[worker[w].job].state = "processing"
                      THEN PageCount[worker[w].job] ELSE job[worker[w].job].total_pages
      <3>1. n \in 0..MaxPages
        BY <2>2 DEF TypeOK, JobRows
      <3>2. [job[worker[w].job] EXCEPT !.total_pages = n] \in JobRows
        BY <2>2, <3>1, JobRowType DEF TypeOK
      <3> QED
        BY <1>7, <2>2, <3>2 DEF OpenDocument, TypeOK
    <2> QED
      BY <1>7, <2>1, <2>3 DEF OpenDocument, TypeOK
  <1>8. ASSUME NEW w \in Workers, EnsureCheckpoints(w) PROVE TypeOK'
    <2>1. worker' \in [Workers -> Locals]
      BY <1>8, PcType DEF EnsureCheckpoints, TypeOK, PCs, Beating
    <2>2. worker[w].job \in Jobs
      BY <1>a, <1>8 DEF EnsureCheckpoints, Beating
    <2>3. page' \in [Jobs -> [Pages -> PageRows]]
      <3>1. \A p \in Pages : [page[worker[w].job][p] EXCEPT !.state = "pending"] \in PageRows
        BY <1>f, <2>2, PageRowType DEF PageStates
      <3> QED
        BY <1>8, <2>2, <3>1 DEF EnsureCheckpoints, TypeOK
    <2> QED
      BY <1>8, <2>1, <2>3 DEF EnsureCheckpoints, TypeOK
  <1>9. ASSUME NEW w \in Workers, ListCheckpoints(w) PROVE TypeOK'
    <2>1. worker[w].job \in Jobs
      BY <1>a, <1>9 DEF ListCheckpoints, Beating
    <2>2. [p \in Pages |-> TriesUsed(page[worker[w].job][p])] \in [Pages -> 0..Exhausted]
      BY <2>1 DEF TypeOK, PageRows, TriesUsed, Exhausted
    <2>3. worker' \in [Workers -> Locals]
      BY <1>9, <2>2, ContinueLocals DEF ListCheckpoints, TypeOK
    <2> QED
      BY <1>9, <2>3 DEF ListCheckpoints, TypeOK
  <1>d. ASSUME NEW w \in Workers, worker[w].pc \in InLoop
        PROVE  PageDone(w) \in [Pages -> 0..Exhausted]
    BY <1>b, <1>d DEF PageDone, TypeOK, Locals, Exhausted
  <1>e. ASSUME NEW w \in Workers, worker[w].pc \in InLoop, AfterMark(w)
        PROVE  worker' \in [Workers -> Locals]
    <2>1. PageDone(w) \in [Pages -> 0..Exhausted]
      BY <1>d, <1>e
    <2>2. CASE ContinueWith(w, PageDone(w))
      BY <2>1, <2>2, ContinueLocals DEF TypeOK
    <2>3. CASE worker' = [worker EXCEPT ![w].pc = "rendering"]
      BY <2>3, PcType DEF TypeOK, PCs, Beating
    <2> QED
      BY <1>e, <2>2, <2>3 DEF AfterMark
  <1>10. ASSUME NEW w \in Workers, CheckLease(w) PROVE TypeOK'
    <2>1. worker' \in [Workers -> Locals]
      <3>1. CASE worker' = [worker EXCEPT ![w].pc = "marked"]
        BY <3>1, PcType DEF TypeOK, PCs, Beating
      <3>2. CASE AfterMark(w)
        BY <1>e, <1>10, <3>2 DEF CheckLease, InLoop
      <3> QED
        BY <1>10, <3>1, <3>2 DEF CheckLease
    <2> QED
      BY <1>10, <2>1 DEF CheckLease, TypeOK
  <1>11. ASSUME NEW w \in Workers, MarkPageProcessing(w) PROVE TypeOK'
    <2>1. worker' \in [Workers -> Locals]
      BY <1>e, <1>11 DEF MarkPageProcessing, InLoop
    <2>2. worker[w].job \in Jobs /\ worker[w].page \in Pages
      BY <1>b, <1>11 DEF MarkPageProcessing, InLoop
    <2>3. page' \in [Jobs -> [Pages -> PageRows]]
      <3> DEFINE row == page[worker[w].job][worker[w].page]
      <3>1. [row EXCEPT !.state = "processing", !.attempt_count = row.attempt_count + 1] \in PageRows
        BY <1>f, <2>2, PageRowType DEF PageStates
      <3> QED
        BY <1>11, <1>f, <2>2, <3>1 DEF MarkPageProcessing, TypeOK
    <2> QED
      BY <1>11, <2>1, <2>3 DEF MarkPageProcessing, TypeOK
  <1>12. ASSUME NEW w \in Workers, CommitPage(w) PROVE TypeOK'
    <2>1. worker[w].job \in Jobs /\ worker[w].page \in Pages /\ worker[w].attempt \in Nat
      BY <1>b, <1>12 DEF CommitPage, InLoop, TypeOK, Locals
    <2>2. worker' \in [Workers -> Locals]
      BY <1>d, <1>12, ContinueLocals DEF CommitPage, InLoop, TypeOK
    <2>3. page' \in [Jobs -> [Pages -> PageRows]]
      <3> DEFINE row == page[worker[w].job][worker[w].page]
                 new == [row EXCEPT !.state = "completed",
                                    !.rep = IF row.rep = 0 THEN worker[w].attempt ELSE row.rep]
      <3>1. new \in PageRows
        <4>1. row \in PageRows
          BY <1>f, <2>1
        <4>2. (IF row.rep = 0 THEN worker[w].attempt ELSE row.rep) \in Nat
          BY <2>1, <4>1 DEF PageRows
        <4> QED
          BY <4>1, <4>2, PageRowType DEF PageStates
      <3>2. page' = [page EXCEPT ![worker[w].job][worker[w].page] = new]
        BY <1>12 DEF CommitPage
      <3> QED
        BY <2>1, <3>1, <3>2 DEF TypeOK
    <2> QED
      BY <1>12, <2>2, <2>3 DEF CommitPage, TypeOK
  <1>13. ASSUME NEW w \in Workers, PageFails(w) PROVE TypeOK'
    <2> DEFINE p == worker[w].page
    <2>1. worker[w].job \in Jobs /\ p \in Pages /\ worker[w].todo \in [Pages -> 0..Exhausted]
      BY <1>b, <1>13 DEF PageFails, InLoop, TypeOK, Locals
    <2>2. worker[w].todo[p] <= RetryLimit
      BY <1>13 DEF PageFails, InLoop, WorkersOK, WorkerOK
    <2>3. [worker[w].todo EXCEPT ![p] = worker[w].todo[p] + 1] \in [Pages -> 0..Exhausted]
      BY <2>1, <2>2 DEF Exhausted
    <2>4. worker' \in [Workers -> Locals]
      BY <1>13, <2>3, ContinueLocals DEF PageFails, TypeOK
    <2>5. page' \in [Jobs -> [Pages -> PageRows]]
      <3> DEFINE row == page[worker[w].job][p]
                 next == AfterFailure(row.state, worker[w].todo[p] + 1)
      <3>1. next \in PageStates
        BY <2>1 DEF TypeOK, PageRows, AfterFailure, PageStates
      <3>2. [row EXCEPT !.state = next] \in PageRows
        BY <1>f, <2>1, <3>1, PageRowType
      <3>3. page' = [page EXCEPT ![worker[w].job][p] = [row EXCEPT !.state = next]]
        BY <1>13 DEF PageFails
      <3> QED
        BY <2>1, <3>2, <3>3 DEF TypeOK
    <2>6. spent' \in [{"exits", "timeouts", "faults", "failures"} -> Nat]
      BY <1>13, SpendType DEF PageFails, TypeOK
    <2> QED
      BY <1>13, <2>4, <2>5, <2>6 DEF PageFails, TypeOK
  <1>14. ASSUME NEW w \in Workers, FinalizeJob(w) PROVE TypeOK'
    <2> DEFINE j == worker[w].job
    <2>1. j \in Jobs
      BY <1>a, <1>14 DEF FinalizeJob, Beating
    <2>2. FinalState(j) \in {"completed", "partial", "failed", "processing"}
      BY DEF FinalState
    <2>3. Cardinality(PagesIn(j, "completed")) \in Nat /\ Cardinality(PagesIn(j, "failed")) \in Nat
      BY PagesInFinite, <2>1
    <2>4. Unleased(job[j], FinalState(j)) \in JobRows
      BY <2>1, <2>2, UnleasedType DEF TypeOK, JobStates
    <2>5. [Unleased(job[j], FinalState(j)) EXCEPT
              !.completed_pages = Cardinality(PagesIn(j, "completed")),
              !.failed_pages = Cardinality(PagesIn(j, "failed"))] \in JobRows
      BY <2>3, <2>4 DEF JobRows
    <2>6. CloseAttempts(j, {w}, FinalState(j)) \in SUBSET AttemptRows
      BY <2>1, <2>2, CloseType DEF TypeOK, Outcomes
    <2>7. job' \in [Jobs -> JobRows]
      BY <1>14, <2>1, <2>5 DEF FinalizeJob, TypeOK
    <2>8. attempts' \in [Jobs -> SUBSET AttemptRows]
      BY <1>14, <2>1, <2>6 DEF FinalizeJob, TypeOK
    <2>9. worker' \in [Workers -> Locals]
      BY <1>14, <1>c DEF FinalizeJob, TypeOK
    <2> QED
      BY <1>14, <2>7, <2>8, <2>9 DEF FinalizeJob, TypeOK
  <1>15. ASSUME NEW w \in Workers, RejectDocument(w) PROVE TypeOK'
    BY <1>15, <1>a, FailDocumentType DEF RejectDocument, TypeOK, Beating
  <1>16. ASSUME NEW w \in Workers, Fault(w) PROVE TypeOK'
    BY <1>16, <1>a, FailDocumentType, SpendType DEF Fault, TypeOK
  <1>17. ASSUME NEW w \in Workers, DropClaim(w) PROVE TypeOK'
    BY <1>17, <1>c, SpendType DEF DropClaim, TypeOK
  <1>18. ASSUME NEW j \in Jobs, LeaseRunsOut(j) \/ HeartbeatStalls(j) PROVE TypeOK'
    <2>0. [job[j] EXCEPT !.lease = "expired"] \in JobRows
      BY <1>f, JobRowType
    <2>1. job' \in [Jobs -> JobRows]
      BY <1>18, <2>0 DEF LeaseRunsOut, HeartbeatStalls, LeaseLapses, TypeOK
    <2>2. spent' \in [{"exits", "timeouts", "faults", "failures"} -> Nat]
      BY <1>18, SpendType DEF LeaseRunsOut, HeartbeatStalls, TypeOK
    <2> QED
      BY <1>18, <2>1, <2>2 DEF LeaseRunsOut, HeartbeatStalls, LeaseLapses, TypeOK
  <1>19. ASSUME NEW w \in Workers, HeartbeatJob(w) PROVE TypeOK'
    <2>1. worker[w].job \in Jobs
      BY <1>a, <1>19 DEF HeartbeatJob
    <2>2. job' \in [Jobs -> JobRows]
      BY <1>19, <2>1, JobRowType DEF HeartbeatJob, TypeOK
    <2> QED
      BY <1>19, <2>2 DEF HeartbeatJob, TypeOK
  <1>20. ASSUME NEW w \in Workers, WorkerExits(w) PROVE TypeOK'
    BY <1>20, <1>c, SpendType DEF WorkerExits, TypeOK
  <1>21. CASE UNCHANGED vars
    BY <1>21 DEF vars, TypeOK
  <1> QED
    BY <1>1, <1>2, <1>3, <1>4, <1>5, <1>6, <1>7, <1>8, <1>9, <1>10, <1>11, <1>12,
       <1>13, <1>14, <1>15, <1>16, <1>17, <1>18, <1>19, <1>20, <1>21
    DEF Next, WorkerStep

-----------------------------------------------------------------------------
(* What the steps do to the job table *)

\* Every step leaves the job table alone or does one of these to it.
JobEffect ==
    \/ UNCHANGED <<job, attempts>>
    \/ \E j \in Jobs : CreateJob(j)
    \/ \E j \in Jobs : RetryJob(j)
    \/ \E w \in Workers : RecoverExpired(w)
    \/ \E w \in Workers, j \in Jobs : ClaimJob(w, j)
    \/ \E w \in Workers : OpenDocument(w)
    \/ \E w \in Workers : FinalizeJob(w)
    \/ \E w \in Workers : worker[w].pc \in Beating \cup {"claimed"} /\ FailDocument(w)
    \/ \E j \in Jobs : LeaseLapses(j)
    \/ \E w \in Workers : HeartbeatJob(w)

LEMMA JobEffects == [Next]_vars => JobEffect
  BY DEF Next, WorkerStep, vars, JobEffect, ClaimNothing, StartProcessing, EnsureCheckpoints,
         ListCheckpoints, CheckLease, MarkPageProcessing, CommitPage, PageFails,
         RejectDocument, Fault, DropClaim, LeaseRunsOut, HeartbeatStalls, WorkerExits, Beating

LEMMA FinalStates ==
    \A j \in Jobs : FinalState(j) \in {"completed", "partial", "failed", "processing"}
  BY DEF FinalState

\* A busy worker has a job.
LEMMA BusyHasJob ==
    WorkersOK => \A w \in Workers : worker[w].pc \in Beating \cup {"claimed"} =>
                                    worker[w].job \in Jobs
  BY DEF WorkersOK, WorkerOK

LEMMA LeaseStep == TypeOK /\ WorkersOK /\ LeaseOK /\ [Next]_vars => LeaseOK'
  <1> SUFFICES ASSUME TypeOK, WorkersOK, LeaseOK, [Next]_vars, NEW k \in Jobs
               PROVE  /\ Leased(k)' => job'[k].state = "processing"
                      /\ Leased(k)' <=> job'[k].lease # "none"
    BY DEF LeaseOK
  <1> DEFINE Goal == /\ job'[k].lease_owner # NoWorker => job'[k].state = "processing"
                     /\ job'[k].lease_owner # NoWorker <=> job'[k].lease # "none"
  <1>a. job \in [Jobs -> JobRows]
    BY DEF TypeOK
  <1>c. /\ job[k].lease_owner # NoWorker => job[k].state = "processing"
        /\ job[k].lease_owner # NoWorker <=> job[k].lease # "none"
    BY DEF LeaseOK, Leased
  <1>u. \A j \in Jobs, s \in JobStates :
            /\ Unleased(job[j], s).lease_owner = NoWorker
            /\ Unleased(job[j], s).lease = "none"
    BY <1>a DEF Unleased, JobRows
  <1>1. CASE UNCHANGED job
    BY <1>1, <1>c DEF Leased
  <1>2. ASSUME NEW j \in Jobs, CreateJob(j) PROVE Goal
    BY <1>2, <1>a, <1>c DEF CreateJob, JobRows
  <1>3. ASSUME NEW j \in Jobs, RetryJob(j) PROVE Goal
    BY <1>3, <1>a, <1>c, <1>u DEF RetryJob, JobRows, Unleased
  <1>4. ASSUME NEW w \in Workers, RecoverExpired(w) PROVE Goal
    BY <1>4, <1>a, <1>c, <1>u DEF RecoverExpired, JobStates
  <1>5. ASSUME NEW w \in Workers, NEW j \in Jobs, ClaimJob(w, j) PROVE Goal
    BY <1>5, <1>a, <1>c DEF ClaimJob, JobRows
  <1>6. ASSUME NEW w \in Workers, OpenDocument(w) PROVE Goal
    BY <1>6, <1>a, <1>c DEF OpenDocument, JobRows
  <1>7. ASSUME NEW w \in Workers, FinalizeJob(w) PROVE Goal
    <2> DEFINE j == worker[w].job
               new == [Unleased(job[j], FinalState(j)) EXCEPT
                          !.completed_pages = Cardinality(PagesIn(j, "completed")),
                          !.failed_pages = Cardinality(PagesIn(j, "failed"))]
    <2>1. j \in Jobs
      BY <1>7, BusyHasJob DEF FinalizeJob, Beating
    <2>2. new.lease_owner = NoWorker /\ new.lease = "none"
      BY <1>a, <2>1 DEF Unleased, JobRows
    <2>3. job' = [job EXCEPT ![j] = new] \/ job' = job
      BY <1>7 DEF FinalizeJob
    <2> HIDE DEF new, j
    <2> QED
      BY <1>a, <1>c, <2>1, <2>2, <2>3
  <1>8. ASSUME NEW w \in Workers, FailDocument(w) PROVE Goal
    BY <1>8, <1>a, <1>c, <1>u DEF FailDocument, JobStates
  <1>9. ASSUME NEW j \in Jobs, LeaseLapses(j) PROVE Goal
    BY <1>9, <1>a, <1>c DEF LeaseLapses, JobRows
  <1>10. ASSUME NEW w \in Workers, HeartbeatJob(w) PROVE Goal
    BY <1>10, <1>a, <1>c DEF HeartbeatJob, Owns, JobRows
  <1> QED
    BY <1>1, <1>2, <1>3, <1>4, <1>5, <1>6, <1>7, <1>8, <1>9, <1>10, JobEffects
    DEF JobEffect, Leased

-----------------------------------------------------------------------------
(* The attempt history *)

OpenOf(rows) == {a \in rows : a.outcome = "open"}

\* Closing leaves open what belongs to other workers.
LEMMA OpenAfterClose ==
    ASSUME TypeOK, NEW j \in Jobs, NEW owners, NEW outcome \in Outcomes \ {"open"}
    PROVE  OpenOf(CloseAttempts(j, owners, outcome)) =
               {a \in OpenOf(attempts[j]) : a.worker \notin owners}
  <1> DEFINE closed(a) == IF a.outcome = "open" /\ a.worker \in owners
                          THEN [a EXCEPT !.outcome = outcome] ELSE a
  <1>1. \A a \in attempts[j] : a \in AttemptRows
    BY DEF TypeOK
  <1>2. \A a \in AttemptRows : closed(a).outcome = "open" =>
                                 closed(a) = a /\ ~ (a.worker \in owners)
    BY DEF AttemptRows, Outcomes
  <1>3. \A a \in AttemptRows : a.outcome = "open" /\ a.worker \notin owners => closed(a) = a
    OBVIOUS
  <1>4. CloseAttempts(j, owners, outcome) = {closed(a) : a \in attempts[j]}
    BY DEF CloseAttempts
  <1> HIDE DEF closed
  <1> QED
    BY <1>1, <1>2, <1>3, <1>4 DEF OpenOf

\* The lease and the number of attempts of a job stay as they are.
SameClaim(k) == /\ job'[k].lease_owner = job[k].lease_owner
                /\ job'[k].attempt_count = job[k].attempt_count

\* The open attempts of job k agree with its lease.
Agrees(k) == OpenOf(attempts[k]) = IF Leased(k) THEN {Holding(k)} ELSE {}

LEMMA OpenAttemptStep ==
    TypeOK /\ WorkersOK /\ LeaseOK /\ OpenAttemptIsTheLease /\ [Next]_vars
        => OpenAttemptIsTheLease'
  <1> SUFFICES ASSUME TypeOK, WorkersOK, LeaseOK, OpenAttemptIsTheLease, [Next]_vars,
                      NEW k \in Jobs
               PROVE  Agrees(k)'
    BY DEF OpenAttemptIsTheLease, Agrees, OpenOf
  <1>a. job \in [Jobs -> JobRows] /\ attempts \in [Jobs -> SUBSET AttemptRows]
    BY DEF TypeOK
  <1>b. Agrees(k)
    BY DEF OpenAttemptIsTheLease, Agrees, OpenOf
  <1>c. Leased(k) => job[k].state = "processing"
    BY DEF LeaseOK
  <1>0. ASSUME SameClaim(k), attempts'[k] = attempts[k]
        PROVE  Agrees(k)'
    BY <1>0, <1>b DEF Agrees, SameClaim, Leased, Holding
  <1>n. ASSUME job'[k].lease_owner = NoWorker, OpenOf(attempts'[k]) = {}
        PROVE  Agrees(k)'
    BY <1>n DEF Agrees, Leased
  <1>1. CASE UNCHANGED <<job, attempts>>
    BY <1>0, <1>1 DEF SameClaim
  <1>2. ASSUME NEW j \in Jobs, CreateJob(j) PROVE Agrees(k)'
    BY <1>0, <1>2, <1>a DEF CreateJob, SameClaim, JobRows
  <1>3. ASSUME NEW j \in Jobs, RetryJob(j) PROVE Agrees(k)'
    <2>1. CASE k = j
      <3>1. job'[k].lease_owner = NoWorker
        BY <1>3, <1>a, <2>1 DEF RetryJob, Unleased, JobRows
      <3>2. ~ Leased(k)
        BY <1>3, <1>c, <2>1 DEF RetryJob
      <3> QED
        BY <1>3, <1>b, <1>n, <3>1, <3>2 DEF RetryJob, Agrees
    <2>2. CASE k # j
      BY <1>0, <1>3, <1>a, <2>2 DEF RetryJob, SameClaim
    <2> QED
      BY <2>1, <2>2
  <1>4. ASSUME NEW w \in Workers, RecoverExpired(w) PROVE Agrees(k)'
    <2>1. CASE IsExpired(k)
      <3>1. job'[k].lease_owner = NoWorker
        BY <1>4, <1>a, <2>1 DEF RecoverExpired, Unleased, JobRows
      <3>2. attempts'[k] = CloseAttempts(k, Workers, "interrupted")
        BY <1>4, <2>1 DEF RecoverExpired
      <3>3. OpenOf(attempts'[k]) = {a \in OpenOf(attempts[k]) : a.worker \notin Workers}
        BY <3>2, OpenAfterClose DEF Outcomes
      <3>4. \A a \in attempts[k] : a.worker \in Workers
        BY <1>a DEF AttemptRows
      <3> QED
        BY <1>n, <3>1, <3>3, <3>4 DEF OpenOf
    <2>2. CASE ~ IsExpired(k)
      BY <1>0, <1>4, <2>2 DEF RecoverExpired, SameClaim
    <2> QED
      BY <2>1, <2>2
  <1>5. ASSUME NEW w \in Workers, NEW j \in Jobs, ClaimJob(w, j) PROVE Agrees(k)'
    <2>1. CASE k = j
      <3> DEFINE n == job[j].attempt_count + 1
                 new == [number |-> n, worker |-> w, outcome |-> "open"]
      <3>1. OpenOf(attempts[k]) = {}
        BY <1>5, <1>b, <1>c, <2>1 DEF ClaimJob, Agrees
      <3>2. attempts'[k] = attempts[k] \cup {new}
        BY <1>5, <1>a, <2>1 DEF ClaimJob
      <3>3. OpenOf(attempts'[k]) = {new}
        BY <3>1, <3>2 DEF OpenOf
      <3>4. job'[k].lease_owner = w /\ job'[k].attempt_count = n
        BY <1>5, <1>a, <2>1 DEF ClaimJob, JobRows
      <3> QED
        BY <3>3, <3>4 DEF Agrees, Leased, Holding
    <2>2. CASE k # j
      BY <1>0, <1>5, <1>a, <2>2 DEF ClaimJob, SameClaim
    <2> QED
      BY <2>1, <2>2
  <1>6. ASSUME NEW w \in Workers, OpenDocument(w) PROVE Agrees(k)'
    BY <1>0, <1>6, <1>a DEF OpenDocument, SameClaim, JobRows
  <1>s. ASSUME NEW w \in Workers, NEW j \in Jobs, Owns(w, j),
               NEW s \in Outcomes \ {"open"},
               job'[j].lease_owner = NoWorker, \A i \in Jobs \ {j} : job'[i] = job[i],
               attempts' = [attempts EXCEPT ![j] = CloseAttempts(j, {w}, s)]
        PROVE  Agrees(k)'
    <2>1. CASE k = j
      <3>1. OpenOf(attempts[k]) = {Holding(k)} /\ Holding(k).worker = w
        BY <1>s, <1>b, <2>1 DEF Agrees, Leased, Owns, Holding
      <3>2. OpenOf(attempts'[k]) = {a \in OpenOf(attempts[k]) : a.worker \notin {w}}
        BY <1>s, <1>a, <2>1, OpenAfterClose
      <3> QED
        BY <1>n, <1>s, <2>1, <3>1, <3>2
    <2>2. CASE k # j
      BY <1>0, <1>s, <1>a, <2>2 DEF SameClaim
    <2> QED
      BY <2>1, <2>2
  <1>7. ASSUME NEW w \in Workers, FinalizeJob(w) PROVE Agrees(k)'
    <2> DEFINE j == worker[w].job
               new == [Unleased(job[j], FinalState(j)) EXCEPT
                          !.completed_pages = Cardinality(PagesIn(j, "completed")),
                          !.failed_pages = Cardinality(PagesIn(j, "failed"))]
    <2>1. j \in Jobs
      BY <1>7, BusyHasJob DEF FinalizeJob, Beating
    <2>2. new.lease_owner = NoWorker
      BY <1>a, <2>1 DEF Unleased, JobRows
    <2>3. CASE Owns(w, j)
      <3>1. job' = [job EXCEPT ![j] = new]
        BY <1>7, <2>3 DEF FinalizeJob
      <3>2. attempts' = [attempts EXCEPT ![j] = CloseAttempts(j, {w}, FinalState(j))]
        BY <1>7, <2>3 DEF FinalizeJob
      <3>3. FinalState(j) \in Outcomes \ {"open"}
        BY <2>1, FinalStates DEF Outcomes
      <3> HIDE DEF new, j
      <3>4. job'[j].lease_owner = NoWorker /\ \A i \in Jobs \ {j} : job'[i] = job[i]
        BY <1>a, <2>1, <2>2, <3>1
      <3> QED
        BY <1>s, <2>1, <2>3, <3>2, <3>3, <3>4
    <2>4. CASE ~ Owns(w, j)
      BY <1>1, <1>7, <2>4 DEF FinalizeJob
    <2> QED
      BY <2>3, <2>4
  <1>8. ASSUME NEW w \in Workers, worker[w].pc \in Beating \cup {"claimed"}, FailDocument(w)
        PROVE  Agrees(k)'
    <2> DEFINE j == worker[w].job
    <2>1. j \in Jobs
      BY <1>8, BusyHasJob
    <2>2. CASE job[j].state = "processing" /\ Owns(w, j)
      <3>1. job' = [job EXCEPT ![j] = Unleased(job[j], "failed")]
        BY <1>8, <2>2 DEF FailDocument
      <3>2. attempts' = [attempts EXCEPT ![j] = CloseAttempts(j, {w}, "failed")]
        BY <1>8, <2>2 DEF FailDocument
      <3>3. job'[j].lease_owner = NoWorker /\ \A i \in Jobs \ {j} : job'[i] = job[i]
        BY <1>a, <2>1, <3>1 DEF Unleased, JobRows
      <3>4. "failed" \in Outcomes \ {"open"}
        BY DEF Outcomes
      <3> HIDE DEF j
      <3> QED
        BY <1>s, <2>1, <2>2, <3>2, <3>3, <3>4
    <2>3. CASE ~ (job[j].state = "processing" /\ Owns(w, j))
      BY <1>1, <1>8, <2>3 DEF FailDocument
    <2> QED
      BY <2>2, <2>3
  <1>9. ASSUME NEW j \in Jobs, LeaseLapses(j) PROVE Agrees(k)'
    BY <1>0, <1>9, <1>a DEF LeaseLapses, SameClaim, JobRows
  <1>10. ASSUME NEW w \in Workers, HeartbeatJob(w) PROVE Agrees(k)'
    BY <1>0, <1>10, <1>a DEF HeartbeatJob, SameClaim, JobRows
  <1> QED
    BY <1>1, <1>2, <1>3, <1>4, <1>5, <1>6, <1>7, <1>8, <1>9, <1>10, JobEffects
    DEF JobEffect

-----------------------------------------------------------------------------
(* What the steps do to a page *)

\* A page that is worked on moves between these states ...
Unfinished == {"pending", "processing", "failed"}

\* ... and every step leaves a page alone, moves it between them, adds its
\* checkpoint or completes it.
PageEffect(k, q) ==
    \/ page'[k][q] = page[k][q]
    \/ /\ page[k][q].state \in Unfinished
       /\ page'[k][q].state \in Unfinished
       /\ page'[k][q].rep \in {page[k][q].rep, 0}
    \/ /\ page[k][q].state = "absent"
       /\ page'[k][q].state = "pending"
       /\ page'[k][q].rep = page[k][q].rep
       /\ q <= PageCount[k]
    \/ /\ page[k][q].state # "absent"
       /\ page'[k][q].state = "completed"
       /\ page'[k][q].rep # 0
       /\ page[k][q].rep # 0 => page'[k][q].rep = page[k][q].rep
       /\ \E w \in Workers : CommitPage(w) /\ worker[w].job = k /\ worker[w].page = q

LEMMA PageEffects ==
    ASSUME TypeOK, WorkersOK, [Next]_vars, NEW k \in Jobs, NEW q \in Pages
    PROVE  PageEffect(k, q)
  <1>a. page \in [Jobs -> [Pages -> PageRows]]
    BY DEF TypeOK
  <1>b. page[k] \in [Pages -> PageRows] /\ page[k][q] \in PageRows
    BY <1>a
  <1>1. CASE UNCHANGED page
    BY <1>1 DEF PageEffect
  <1>2. ASSUME NEW j \in Jobs, RetryJob(j) PROVE PageEffect(k, q)
    <2>1. CASE k = j /\ page[k][q].state = "failed"
      <3>1. page'[k][q] = [page[k][q] EXCEPT !.state = "pending", !.rep = 0]
        BY <1>2, <1>a, <2>1 DEF RetryJob
      <3> QED
        BY <1>b, <2>1, <3>1 DEF PageEffect, PageRows, Unfinished
    <2>2. CASE ~ (k = j /\ page[k][q].state = "failed")
      BY <1>2, <1>a, <2>2 DEF RetryJob, PageEffect
    <2> QED
      BY <2>1, <2>2
  <1>3. ASSUME NEW w \in Workers, RecoverExpired(w) PROVE PageEffect(k, q)
    <2>1. CASE IsExpired(k) /\ page[k][q].state = "processing"
      <3>1. page'[k][q] = [page[k][q] EXCEPT !.state = "pending"]
        BY <1>3, <2>1 DEF RecoverExpired
      <3> QED
        BY <1>b, <2>1, <3>1 DEF PageEffect, PageRows, Unfinished
    <2>2. CASE ~ (IsExpired(k) /\ page[k][q].state = "processing")
      BY <1>3, <2>2 DEF RecoverExpired, PageEffect
    <2> QED
      BY <2>1, <2>2
  <1>4. ASSUME NEW w \in Workers, EnsureCheckpoints(w) PROVE PageEffect(k, q)
    <2>1. CASE worker[w].job = k /\ q <= PageCount[k] /\ page[k][q].state = "absent"
      <3>1. page'[k][q] = [page[k][q] EXCEPT !.state = "pending"]
        BY <1>4, <1>a, <2>1 DEF EnsureCheckpoints
      <3> QED
        BY <1>b, <2>1, <3>1 DEF PageEffect, PageRows
    <2>2. CASE ~ (worker[w].job = k /\ q <= PageCount[k] /\ page[k][q].state = "absent")
      BY <1>4, <1>a, <2>2 DEF EnsureCheckpoints, PageEffect
    <2> QED
      BY <2>1, <2>2
  <1>5. ASSUME NEW w \in Workers, MarkPageProcessing(w) PROVE PageEffect(k, q)
    <2> DEFINE row == page[k][q]
    <2>a. row.state # "queued"
      BY <1>b DEF PageRows, PageStates
    <2>1. CASE worker[w].job = k /\ worker[w].page = q /\ row.state = "pending"
      <3>1. page'[k][q] = [row EXCEPT !.state = "processing",
                                      !.attempt_count = row.attempt_count + 1]
        BY <1>5, <1>a, <1>b, <2>1 DEF MarkPageProcessing, IsMarkable
      <3> QED
        BY <1>b, <2>1, <3>1 DEF PageEffect, PageRows, Unfinished
    <2>2. CASE ~ (worker[w].job = k /\ worker[w].page = q /\ row.state = "pending")
      BY <1>5, <1>a, <1>b, <2>a, <2>2 DEF MarkPageProcessing, IsMarkable, PageEffect
    <2> QED
      BY <2>1, <2>2
  <1>6. ASSUME NEW w \in Workers, CommitPage(w) PROVE PageEffect(k, q)
    <2> DEFINE row == page[k][q]
    <2>1. CASE worker[w].job = k /\ worker[w].page = q
      <3>1. row.state # "absent" /\ worker[w].attempt # 0
        BY <1>6, <2>1 DEF CommitPage, WorkersOK, WorkerOK, InLoop
      <3>2. page'[k][q] = [row EXCEPT !.state = "completed",
                              !.rep = IF row.rep = 0 THEN worker[w].attempt ELSE row.rep]
        BY <1>6, <1>a, <1>b, <2>1 DEF CommitPage
      <3> QED
        BY <1>6, <1>b, <2>1, <3>1, <3>2 DEF PageEffect, PageRows
    <2>2. CASE ~ (worker[w].job = k /\ worker[w].page = q)
      BY <1>6, <1>a, <1>b, <2>2 DEF CommitPage, PageEffect
    <2> QED
      BY <2>1, <2>2
  <1>7. ASSUME NEW w \in Workers, PageFails(w) PROVE PageEffect(k, q)
    <2> DEFINE row == page[k][q]
               next == AfterFailure(row.state, worker[w].todo[q] + 1)
    <2>1. CASE worker[w].job = k /\ worker[w].page = q
      <3>1. page'[k][q] = [row EXCEPT !.state = next]
        BY <1>7, <1>a, <1>b, <2>1 DEF PageFails
      <3>2. next = row.state \/ (row.state = "processing" /\ next \in Unfinished)
        <4>1. CASE row.state = "processing"
          BY <4>1 DEF AfterFailure, Unfinished
        <4>2. CASE row.state # "processing"
          BY <4>2 DEF AfterFailure
        <4> QED
          BY <4>1, <4>2
      <3> QED
        BY <1>b, <3>1, <3>2 DEF PageEffect, PageRows, Unfinished
    <2>2. CASE ~ (worker[w].job = k /\ worker[w].page = q)
      BY <1>7, <1>a, <1>b, <2>2 DEF PageFails, PageEffect
    <2> QED
      BY <2>1, <2>2
  <1> QED
    BY <1>1, <1>2, <1>3, <1>4, <1>5, <1>6, <1>7 DEF Next, WorkerStep, vars,
       CreateJob, ClaimJob, ClaimNothing, StartProcessing, OpenDocument, ListCheckpoints,
       CheckLease, FinalizeJob, RejectDocument, Fault, FailDocument, DropClaim, LeaseLapses,
       LeaseRunsOut, HeartbeatStalls, HeartbeatJob, WorkerExits

LEMMA PagesStep == TypeOK /\ WorkersOK /\ PagesOK /\ [Next]_vars => PagesOK'
  <1> SUFFICES ASSUME TypeOK, WorkersOK, PagesOK, [Next]_vars, NEW k \in Jobs, NEW q \in Pages
               PROVE  /\ page'[k][q].state # "absent" => q <= PageCount[k]
                      /\ page'[k][q].state = "completed" <=> page'[k][q].rep # 0
    BY DEF PagesOK
  <1>1. /\ page[k][q].state # "absent" => q <= PageCount[k]
        /\ page[k][q].state = "completed" <=> page[k][q].rep # 0
    BY DEF PagesOK
  <1>2. PageEffect(k, q)
    BY PageEffects
  <1> QED
    BY <1>1, <1>2 DEF PageEffect, Unfinished

-----------------------------------------------------------------------------
(* What the steps do to a job and to the workers *)

\* No step removes a job or forgets its number of pages, and a lease has the
\* owner it had, none, or a worker that claims.
JobRowEffect(k) ==
    /\ job[k].state # "absent" => job'[k].state # "absent"
    /\ job[k].total_pages = PageCount[k] => job'[k].total_pages = PageCount[k]
    /\ \/ job'[k].lease_owner \in {job[k].lease_owner, NoWorker}
       \/ \E w \in Workers : worker'[w].pc = "claimed" /\ job'[k].lease_owner = w

LEMMA JobRowEffects ==
    ASSUME TypeOK, WorkersOK, LeaseOK, [Next]_vars, NEW k \in Jobs
    PROVE  JobRowEffect(k)
  <1>a. job \in [Jobs -> JobRows] /\ worker \in [Workers -> Locals]
    BY DEF TypeOK
  <1>u. \A s \in JobStates :
            /\ Unleased(job[k], s).lease_owner = NoWorker
            /\ Unleased(job[k], s).state = s
            /\ Unleased(job[k], s).total_pages = job[k].total_pages
    BY <1>a DEF Unleased, JobRows
  <1>1. CASE UNCHANGED <<job, attempts>>
    BY <1>1 DEF JobRowEffect
  <1>2. ASSUME NEW j \in Jobs, CreateJob(j) PROVE JobRowEffect(k)
    BY <1>2, <1>a DEF CreateJob, JobRowEffect, JobRows
  <1>3. ASSUME NEW j \in Jobs, RetryJob(j) PROVE JobRowEffect(k)
    <2>1. CASE k = j
      <3>1. job'[k] = [Unleased(job[k], "queued") EXCEPT !.retry_count = job[k].retry_count + 1]
        BY <1>3, <1>a, <2>1 DEF RetryJob
      <3> QED
        BY <1>a, <3>1 DEF JobRowEffect, Unleased, JobRows
    <2>2. CASE k # j
      BY <1>3, <1>a, <2>2 DEF RetryJob, JobRowEffect
    <2> QED
      BY <2>1, <2>2
  <1>4. ASSUME NEW w \in Workers, RecoverExpired(w) PROVE JobRowEffect(k)
    BY <1>4, <1>a, <1>u DEF RecoverExpired, JobRowEffect, JobStates
  <1>5. ASSUME NEW w \in Workers, NEW j \in Jobs, ClaimJob(w, j) PROVE JobRowEffect(k)
    <2>1. worker'[w].pc = "claimed"
      BY <1>5, <1>a DEF ClaimJob, Locals
    <2>2. CASE k = j
      BY <1>5, <1>a, <2>1, <2>2 DEF ClaimJob, JobRowEffect, JobRows
    <2>3. CASE k # j
      BY <1>5, <1>a, <2>3 DEF ClaimJob, JobRowEffect
    <2> QED
      BY <2>2, <2>3
  <1>6. ASSUME NEW w \in Workers, OpenDocument(w) PROVE JobRowEffect(k)
    BY <1>6, <1>a DEF OpenDocument, JobRowEffect, JobRows
  <1>7. ASSUME NEW w \in Workers, FinalizeJob(w) PROVE JobRowEffect(k)
    <2> DEFINE new == [Unleased(job[k], FinalState(k)) EXCEPT
                          !.completed_pages = Cardinality(PagesIn(k, "completed")),
                          !.failed_pages = Cardinality(PagesIn(k, "failed"))]
    <2>1. job'[k] = new \/ job'[k] = job[k]
      BY <1>7, <1>a DEF FinalizeJob
    <2>2. /\ new.state = FinalState(k)
          /\ new.lease_owner = NoWorker
          /\ new.total_pages = job[k].total_pages
      BY <1>a DEF Unleased, JobRows
    <2>3. FinalState(k) # "absent"
      BY FinalStates
    <2> HIDE DEF new
    <2> QED
      BY <2>1, <2>2, <2>3 DEF JobRowEffect
  <1>8. ASSUME NEW w \in Workers, FailDocument(w) PROVE JobRowEffect(k)
    <2>1. job'[k] = Unleased(job[k], "failed") \/ job'[k] = job[k]
      BY <1>8, <1>a DEF FailDocument
    <2> QED
      BY <1>u, <2>1 DEF JobRowEffect, JobStates
  <1>9. ASSUME NEW j \in Jobs, LeaseLapses(j) PROVE JobRowEffect(k)
    BY <1>9, <1>a DEF LeaseLapses, JobRowEffect, JobRows
  <1>10. ASSUME NEW w \in Workers, HeartbeatJob(w) PROVE JobRowEffect(k)
    BY <1>10, <1>a DEF HeartbeatJob, JobRowEffect, JobRows
  <1> QED
    BY <1>1, <1>2, <1>3, <1>4, <1>5, <1>6, <1>7, <1>8, <1>9, <1>10, JobEffects
    DEF JobEffect

\* A worker that keeps its job and its attempt, with tries left only for pages
\* that it could list, is still in order.
LEMMA WorkerKeeps ==
    ASSUME TypeOK, WorkersOK, LeaseOK, [Next]_vars, NEW v \in Workers,
           worker'[v].job = worker[v].job, worker'[v].attempt = worker[v].attempt,
           worker'[v].pc \in {"idle", "claiming", "gone"} <=>
               worker[v].pc \in {"idle", "claiming", "gone"},
           worker'[v].pc \in PCs, worker[v].pc \in PCs,
           \A p \in Pages : worker'[v].todo[p] <= RetryLimit =>
               worker[v].job \in Jobs /\ page'[worker[v].job][p].state # "absent",
           worker'[v].pc \in InLoop =>
               worker'[v].page \in Pages /\ worker'[v].todo[worker'[v].page] <= RetryLimit,
           worker'[v].pc \in Opened /\ worker[v].pc \notin Opened /\ Owns(v, worker[v].job) =>
               job'[worker[v].job].total_pages = PageCount[worker[v].job]
    PROVE  WorkerOK(v)'
  <1>1. WorkerOK(v)
    BY DEF WorkersOK
  <1>2. ASSUME worker[v].job \in Jobs PROVE JobRowEffect(worker[v].job)
    BY <1>2, JobRowEffects
  <1>3. PCs = {"idle", "claiming", "gone"} \cup (Beating \cup {"claimed"})
    BY DEF PCs
  <1>4. {"idle", "claiming", "gone"} \cap (Beating \cup {"claimed"}) = {}
    BY DEF Beating
  <1>5. ASSUME worker[v].job \in Jobs, worker'[v].pc \in Opened, Owns(v, worker[v].job)'
        PROVE  job'[worker[v].job].total_pages = PageCount[worker[v].job]
    <2>1. Owns(v, worker[v].job)
      <3>1. job'[worker[v].job].lease_owner = v
        BY <1>5 DEF Owns
      <3>2. worker'[v].pc # "claimed"
        BY <1>5 DEF Opened, InLoop
      <3> QED
        BY <1>2, <1>5, <3>1, <3>2 DEF JobRowEffect, Owns
    <2>2. CASE worker[v].pc \in Opened
      BY <1>1, <1>2, <1>5, <2>1, <2>2 DEF WorkerOK, JobRowEffect
    <2>3. CASE worker[v].pc \notin Opened
      BY <1>5, <2>1, <2>3
    <2> QED
      BY <2>2, <2>3
  <1> QED
    BY <1>1, <1>2, <1>3, <1>4, <1>5 DEF WorkerOK, JobRowEffect

\* A step of one worker leaves the locals of the others alone.
LEMMA OthersStay ==
    ASSUME worker \in [Workers -> Locals], NEW w \in Workers, NEW v \in Workers, w # v,
           WorkerStep(w) \/ HeartbeatJob(w) \/ WorkerExits(w)
    PROVE  worker'[v] = worker[v]
  <1>1. \A todo : ContinueWith(w, todo) => worker'[v] = worker[v]
    BY DEF ContinueWith
  <1>2. AfterMark(w) => worker'[v] = worker[v]
    BY <1>1 DEF AfterMark
  <1>3. FailDocument(w) => worker'[v] = worker[v]
    BY DEF FailDocument
  <1> QED
    BY <1>1, <1>2, <1>3 DEF WorkerStep, RecoverExpired, ClaimJob, ClaimNothing,
       StartProcessing, OpenDocument, EnsureCheckpoints, ListCheckpoints, CheckLease,
       MarkPageProcessing, CommitPage, PageFails, FinalizeJob, RejectDocument, Fault,
       DropClaim, HeartbeatJob, WorkerExits

LEMMA WorkersStep ==
    TypeOK /\ WorkersOK /\ LeaseOK /\ PagesOK /\ [Next]_vars => WorkersOK'
  <1> SUFFICES ASSUME TypeOK, WorkersOK, LeaseOK, PagesOK, [Next]_vars, NEW v \in Workers
               PROVE  WorkerOK(v)'
    BY DEF WorkersOK
  <1> DEFINE k == worker[v].job
  <1>a. /\ job \in [Jobs -> JobRows]
        /\ page \in [Jobs -> [Pages -> PageRows]]
        /\ worker \in [Workers -> Locals]
    BY DEF TypeOK
  <1>b. WorkerOK(v)
    BY DEF WorkersOK
  <1>c. /\ worker[v].pc \in PCs
        /\ worker[v].page \in 0..MaxPages
        /\ worker[v].todo \in [Pages -> 0..Exhausted]
    BY <1>a DEF Locals
  <1>d. k \in Jobs => \A p \in Pages : page[k][p].state # "absent" => page'[k][p].state # "absent"
    BY PageEffects DEF PageEffect, Unfinished
  \* The worker stays where it is.
  <1>0. ASSUME worker'[v] = worker[v] PROVE WorkerOK(v)'
    BY <1>0, <1>b, <1>c, <1>d, WorkerKeeps DEF WorkerOK
  \* The worker only moves its program counter, not into the page loop.
  <1>1. ASSUME NEW pc \in PCs, worker' = [worker EXCEPT ![v].pc = pc],
               pc \in {"idle", "claiming", "gone"} <=>
                   worker[v].pc \in {"idle", "claiming", "gone"},
               pc \in InLoop => worker[v].pc \in InLoop,
               pc \in Opened /\ worker[v].pc \notin Opened =>
                   (Owns(v, k) => job'[k].total_pages = PageCount[k])
        PROVE  WorkerOK(v)'
    <2>1. /\ worker'[v].pc = pc
          /\ worker'[v].job = worker[v].job
          /\ worker'[v].attempt = worker[v].attempt
          /\ worker'[v].page = worker[v].page
          /\ worker'[v].todo = worker[v].todo
      BY <1>1, <1>a DEF Locals
    <2> QED
      BY <1>1, <1>b, <1>c, <1>d, <2>1, WorkerKeeps DEF WorkerOK
  \* The worker goes on in the page loop.
  <1>2. ASSUME NEW todo \in [Pages -> 0..Exhausted], ContinueWith(v, todo),
               worker[v].pc \in Opened,
               \A p \in Pages : todo[p] <= RetryLimit => page'[k][p].state # "absent"
        PROVE  WorkerOK(v)'
    <2>1. /\ worker'[v].job = worker[v].job
          /\ worker'[v].attempt = worker[v].attempt
          /\ worker'[v].todo = todo
          /\ \/ worker'[v].pc = "finishing"
             \/ /\ worker'[v].pc = "marking"
                /\ worker'[v].page \in Pages
                /\ todo[worker'[v].page] <= RetryLimit
      BY <1>2, <1>a, ContinueLocals
    <2>4. k \in Jobs
      BY <1>2, <1>b DEF WorkerOK, Opened, InLoop, Beating
    <2>2. /\ worker'[v].pc \in PCs
          /\ worker'[v].pc \notin {"idle", "claiming", "gone"}
          /\ worker[v].pc \notin {"idle", "claiming", "gone"}
      BY <1>2, <2>1 DEF PCs, Beating, Opened, InLoop
    <2>3. worker'[v].pc \in InLoop =>
              worker'[v].page \in Pages /\ worker'[v].todo[worker'[v].page] <= RetryLimit
      BY <2>1 DEF InLoop
    <2> QED
      BY <1>2, <1>c, <2>1, <2>2, <2>3, <2>4, WorkerKeeps
  \* The worker leaves the job.
  <1>3. ASSUME NEW pc \in {"idle", "gone"}, worker' = [worker EXCEPT ![v] = Between(pc)]
        PROVE  WorkerOK(v)'
    <2>1. /\ worker'[v].pc = pc
          /\ worker'[v].job = NoJob
          /\ worker'[v].todo = NothingTodo
      BY <1>3, <1>a DEF Between
    <2>2. \A p \in Pages : ~ (NothingTodo[p] <= RetryLimit)
      BY DEF NothingTodo, Exhausted
    <2> QED
      BY <2>1, <2>2 DEF WorkerOK, Beating, InLoop
  <1>t. worker[v].pc \in InLoop => /\ k \in Jobs
                                  /\ worker[v].page \in Pages
                                  /\ PageDone(v) \in [Pages -> 0..Exhausted]
                                  /\ \A p \in Pages : PageDone(v)[p] <= RetryLimit =>
                                                       page'[k][p].state # "absent"
    <2> SUFFICES ASSUME worker[v].pc \in InLoop
                 PROVE  /\ k \in Jobs
                        /\ worker[v].page \in Pages
                        /\ PageDone(v) \in [Pages -> 0..Exhausted]
                        /\ \A p \in Pages : PageDone(v)[p] <= RetryLimit =>
                                             page'[k][p].state # "absent"
      OBVIOUS
    <2>1. k \in Jobs /\ worker[v].page \in Pages
      BY <1>b DEF WorkerOK, InLoop, Beating
    <2>2. PageDone(v) = [worker[v].todo EXCEPT ![worker[v].page] = Exhausted]
      BY DEF PageDone
    <2>3. Exhausted \in 0..Exhausted /\ ~ (Exhausted <= RetryLimit)
      BY DEF Exhausted
    <2>4. PageDone(v) \in [Pages -> 0..Exhausted]
      BY <1>c, <2>2, <2>3
    <2>5. \A p \in Pages : PageDone(v)[p] <= RetryLimit => worker[v].todo[p] <= RetryLimit
      BY <1>c, <2>2, <2>3
    <2> QED
      BY <1>b, <1>d, <2>1, <2>4, <2>5 DEF WorkerOK
  <1>m. ASSUME AfterMark(v), worker[v].pc \in {"marking", "marked"} PROVE WorkerOK(v)'
    <2>1. worker[v].pc \in InLoop /\ worker[v].pc \in Opened
      BY <1>m DEF InLoop, Opened
    <2>2. CASE ContinueWith(v, PageDone(v))
      BY <1>2, <1>t, <2>1, <2>2
    <2>3. CASE worker' = [worker EXCEPT ![v].pc = "rendering"]
      <3>1. "rendering" \in PCs /\ worker[v].pc \notin {"idle", "claiming", "gone"}
        BY <1>m DEF PCs, Beating
      <3> QED
        BY <1>1, <2>1, <2>3, <3>1
    <2> QED
      BY <1>m, <2>2, <2>3 DEF AfterMark
  <1>4. ASSUME NEW w \in Workers, RecoverExpired(w) PROVE WorkerOK(v)'
    <2>1. CASE w = v
      BY <1>1, <1>4, <2>1 DEF RecoverExpired, PCs, InLoop, Opened
    <2>2. CASE w # v
      BY <1>0, <1>4, <1>a, <2>2 DEF RecoverExpired
    <2> QED
      BY <2>1, <2>2
  <1>5. ASSUME NEW w \in Workers, NEW j \in Jobs, ClaimJob(w, j) PROVE WorkerOK(v)'
    <2>1. CASE w = v
      <3> DEFINE n == job[j].attempt_count + 1
      <3>1. /\ worker'[v].pc = "claimed"
            /\ worker'[v].job = j
            /\ worker'[v].attempt = n
            /\ worker'[v].todo = worker[v].todo
        BY <1>5, <1>a, <2>1 DEF ClaimJob, Locals
      <3>2. n # 0
        BY <1>a DEF JobRows
      <3>3. job'[j].state # "absent"
        BY <1>5, <1>a DEF ClaimJob, JobRows
      <3>4. \A p \in Pages : ~ (worker[v].todo[p] <= RetryLimit)
        BY <1>5, <1>b, <2>1 DEF ClaimJob, WorkerOK
      <3> HIDE DEF n
      <3> QED
        BY <3>1, <3>2, <3>3, <3>4 DEF WorkerOK, InLoop, Opened
    <2>2. CASE w # v
      BY <1>0, <1>5, <1>a, <2>2 DEF ClaimJob
    <2> QED
      BY <2>1, <2>2

  <1>6. ASSUME NEW w \in Workers, w # v, WorkerStep(w) \/ HeartbeatJob(w) \/ WorkerExits(w)
        PROVE  WorkerOK(v)'
    BY <1>0, <1>6, <1>a, OthersStay
  <1>7. CASE UNCHANGED worker
    BY <1>0, <1>7
  <1>8. CASE ClaimNothing(v)
    BY <1>1, <1>8 DEF ClaimNothing, PCs, InLoop, Opened
  <1>9. CASE StartProcessing(v)
    BY <1>1, <1>9 DEF StartProcessing, PCs, Beating, InLoop, Opened
  <1>10. CASE OpenDocument(v)
    <2>1. k \in Jobs
      BY <1>b, <1>10 DEF OpenDocument, WorkerOK, Beating
    <2>2. ASSUME Owns(v, k) PROVE job'[k].total_pages = PageCount[k]
      <3>1. job[k].state = "processing"
        BY <2>1, <2>2 DEF LeaseOK, Leased, Owns
      <3> QED
        BY <1>10, <1>a, <2>1, <3>1 DEF OpenDocument, JobRows
    <2> QED
      BY <1>1, <1>10, <2>2 DEF OpenDocument, PCs, Beating, InLoop
  <1>11. CASE EnsureCheckpoints(v)
    BY <1>1, <1>11 DEF EnsureCheckpoints, PCs, Beating, InLoop, Opened
  <1>12. CASE ListCheckpoints(v)
    <2> DEFINE todo == [p \in Pages |-> TriesUsed(page[k][p])]
    <2>1. k \in Jobs
      BY <1>b, <1>12 DEF ListCheckpoints, WorkerOK, Beating
    <2>2. todo \in [Pages -> 0..Exhausted]
      BY <1>a, <2>1 DEF PageRows, TriesUsed, Exhausted
    <2>3. \A p \in Pages : todo[p] <= RetryLimit => page[k][p].state # "absent"
      BY <1>a, <2>1 DEF PageRows, TriesUsed, Exhausted
    <2>4. ContinueWith(v, todo) /\ worker[v].pc \in Opened
      BY <1>12 DEF ListCheckpoints, Opened
    <2> HIDE DEF todo
    <2> QED
      BY <1>2, <1>d, <2>1, <2>2, <2>3, <2>4
  <1>13. CASE CheckLease(v)
    <2>1. CASE worker' = [worker EXCEPT ![v].pc = "marked"]
      BY <1>1, <1>13, <2>1 DEF CheckLease, PCs, Beating, InLoop, Opened
    <2>2. CASE AfterMark(v)
      BY <1>m, <1>13, <2>2 DEF CheckLease
    <2> QED
      BY <1>13, <2>1, <2>2 DEF CheckLease
  <1>14. CASE MarkPageProcessing(v)
    BY <1>m, <1>14 DEF MarkPageProcessing
  <1>15. CASE CommitPage(v)
    BY <1>2, <1>t, <1>15 DEF CommitPage, InLoop, Opened
  <1>16. CASE PageFails(v)
    <2> DEFINE p == worker[v].page
               todo == [worker[v].todo EXCEPT ![p] = worker[v].todo[p] + 1]
    <2>1. p \in Pages /\ worker[v].todo[p] <= RetryLimit
      BY <1>b, <1>16 DEF PageFails, WorkerOK, InLoop
    <2>2. todo \in [Pages -> 0..Exhausted]
      BY <1>c, <2>1 DEF Exhausted
    <2>3. \A q \in Pages : todo[q] <= RetryLimit => worker[v].todo[q] <= RetryLimit
      BY <1>c, <2>1
    <2>4. ContinueWith(v, todo) /\ worker[v].pc \in Opened
      BY <1>16 DEF PageFails, Opened, InLoop
    <2> HIDE DEF todo
    <2> QED
      BY <1>2, <1>b, <1>d, <2>2, <2>3, <2>4 DEF WorkerOK
  <1>17. CASE FinalizeJob(v)
    BY <1>3, <1>17 DEF FinalizeJob
  <1>18. CASE RejectDocument(v) \/ Fault(v) \/ DropClaim(v)
    BY <1>3, <1>18 DEF RejectDocument, Fault, FailDocument, DropClaim
  <1>19. CASE WorkerExits(v)
    BY <1>3, <1>19 DEF WorkerExits
  <1> QED
    BY <1>4, <1>5, <1>6, <1>7, <1>8, <1>9, <1>10, <1>11, <1>12, <1>13, <1>14, <1>15,
       <1>16, <1>17, <1>18, <1>19
    DEF Next, WorkerStep, vars, CreateJob, RetryJob, LeaseRunsOut, HeartbeatStalls,
        LeaseLapses, HeartbeatJob

-----------------------------------------------------------------------------
(* Completed jobs *)

AllPages(k) == 1..PageCount[k]

\* finalize_job compares two numbers; they are equal only when all pages of the
\* document are completed.
LEMMA CountedAll ==
    ASSUME TypeOK, PagesOK, NEW k \in Jobs,
           Cardinality(PagesIn(k, "completed")) = PageCount[k]
    PROVE  PagesIn(k, "completed") = AllPages(k)
  <1>1. PageCount[k] \in Nat /\ AllPages(k) \subseteq Pages
    BY DEF AllPages, Pages
  <1>2. PagesIn(k, "completed") \subseteq AllPages(k)
    BY <1>1 DEF PagesIn, PagesOK, AllPages, Pages
  <1>3. IsFiniteSet(AllPages(k)) /\ Cardinality(AllPages(k)) = PageCount[k]
    BY <1>1, FS_Interval DEF AllPages
  <1> QED
    BY <1>2, <1>3, FS_Subset

Whole(k) ==
    job[k].state = "completed" =>
        /\ \A p \in AllPages(k) : page[k][p].state = "completed" /\ page[k][p].rep # 0
        /\ job[k].completed_pages = PageCount[k]
        /\ job[k].failed_pages = 0

LEMMA CompletedStep ==
    TypeOK /\ WorkersOK /\ LeaseOK /\ PagesOK /\ CompletedJobIsWhole /\ [Next]_vars
        => CompletedJobIsWhole'
  <1> SUFFICES ASSUME TypeOK, WorkersOK, LeaseOK, PagesOK, CompletedJobIsWhole, [Next]_vars,
                      NEW k \in Jobs
               PROVE  Whole(k)'
    BY DEF CompletedJobIsWhole, Whole, AllPages
  <1>a. job \in [Jobs -> JobRows]
    BY DEF TypeOK
  <1>b. Whole(k)
    BY DEF CompletedJobIsWhole, Whole, AllPages
  <1>c. \A p \in AllPages(k) : p \in Pages
    BY DEF AllPages, Pages
  <1>d. \A p \in AllPages(k) : page[k][p].state = "completed" /\ page[k][p].rep # 0 =>
                               page'[k][p].state = "completed" /\ page'[k][p].rep # 0
    BY <1>c, PageEffects DEF PageEffect, Unfinished
  <1>e. Leased(k) => job[k].state = "processing"
    BY DEF LeaseOK
  <1>0. ASSUME job'[k].state = "completed" =>
                  /\ job[k].state = "completed"
                  /\ job'[k].completed_pages = job[k].completed_pages
                  /\ job'[k].failed_pages = job[k].failed_pages
        PROVE  Whole(k)'
    BY <1>0, <1>b, <1>d DEF Whole, AllPages
  <1>1. CASE UNCHANGED <<job, attempts>>
    BY <1>0, <1>1
  <1>2. ASSUME NEW j \in Jobs, CreateJob(j) PROVE Whole(k)'
    BY <1>0, <1>2, <1>a DEF CreateJob, JobRows
  <1>3. ASSUME NEW j \in Jobs, RetryJob(j) PROVE Whole(k)'
    <2>1. CASE k = j
      <3>1. job'[k] = [Unleased(job[k], "queued") EXCEPT !.retry_count = job[k].retry_count + 1]
        BY <1>3, <1>a, <2>1 DEF RetryJob
      <3> QED
        BY <1>0, <1>a, <3>1 DEF Unleased, JobRows
    <2>2. CASE k # j
      BY <1>0, <1>3, <1>a, <2>2 DEF RetryJob
    <2> QED
      BY <2>1, <2>2
  <1>4. ASSUME NEW w \in Workers, RecoverExpired(w) PROVE Whole(k)'
    <2>1. job'[k].state = "completed" => job'[k] = job[k]
      BY <1>4, <1>a DEF RecoverExpired, Unleased, JobRows
    <2> QED
      BY <1>0, <2>1
  <1>5. ASSUME NEW w \in Workers, NEW j \in Jobs, ClaimJob(w, j) PROVE Whole(k)'
    BY <1>0, <1>5, <1>a DEF ClaimJob, JobRows
  <1>6. ASSUME NEW w \in Workers, OpenDocument(w) PROVE Whole(k)'
    BY <1>0, <1>6, <1>a DEF OpenDocument, JobRows
  <1>7. ASSUME NEW w \in Workers, FinalizeJob(w) PROVE Whole(k)'
    <2> DEFINE done == PagesIn(k, "completed")
               new == [Unleased(job[k], FinalState(k)) EXCEPT
                          !.completed_pages = Cardinality(done),
                          !.failed_pages = Cardinality(PagesIn(k, "failed"))]
    <2>1. CASE worker[w].job = k /\ Owns(w, k) /\ FinalState(k) = "completed"
      <3>1. job[k].total_pages = PageCount[k]
        BY <1>7, <2>1 DEF FinalizeJob, WorkersOK, WorkerOK, Opened
      <3>2. PagesIn(k, "failed") = {} /\ Cardinality(done) = PageCount[k]
        BY <2>1, <3>1 DEF FinalState
      <3>3. done = AllPages(k)
        BY <3>2, CountedAll
      <3>4. \A p \in AllPages(k) : page[k][p].state = "completed" /\ page[k][p].rep # 0
        BY <1>c, <3>3 DEF PagesIn, PagesOK
      <3>5. job'[k] = new
        BY <1>7, <1>a, <2>1 DEF FinalizeJob
      <3>6. Cardinality(PagesIn(k, "failed")) = 0
        BY <3>2, FS_EmptySet
      <3>7. new.completed_pages = Cardinality(done) /\ new.failed_pages = 0
        BY <1>a, <3>6 DEF Unleased, JobRows
      <3> HIDE DEF new, done
      <3> QED
        BY <1>d, <3>2, <3>4, <3>5, <3>7 DEF Whole, AllPages
    <2>2. CASE worker[w].job = k /\ Owns(w, k) /\ FinalState(k) # "completed"
      <3>1. job'[k] = new
        BY <1>7, <1>a, <2>2 DEF FinalizeJob
      <3>2. new.state = FinalState(k)
        BY <1>a DEF Unleased, JobRows
      <3> HIDE DEF new
      <3> QED
        BY <1>0, <2>2, <3>1, <3>2
    <2>3. CASE ~ (worker[w].job = k /\ Owns(w, k))
      <3>1. job'[k] = job[k]
        BY <1>7, <1>a, <2>3 DEF FinalizeJob
      <3> QED
        BY <1>0, <3>1
    <2> QED
      BY <2>1, <2>2, <2>3
  <1>8. ASSUME NEW w \in Workers, FailDocument(w) PROVE Whole(k)'
    <2>1. job'[k] = job[k] \/ job'[k] = Unleased(job[k], "failed")
      BY <1>8, <1>a DEF FailDocument
    <2>2. Unleased(job[k], "failed").state = "failed"
      BY <1>a DEF Unleased, JobRows
    <2> QED
      BY <1>0, <2>1, <2>2
  <1>9. ASSUME NEW j \in Jobs, LeaseLapses(j) PROVE Whole(k)'
    BY <1>0, <1>9, <1>a DEF LeaseLapses, JobRows
  <1>10. ASSUME NEW w \in Workers, HeartbeatJob(w) PROVE Whole(k)'
    BY <1>0, <1>10, <1>a DEF HeartbeatJob, JobRows
  <1> QED
    BY <1>1, <1>2, <1>3, <1>4, <1>5, <1>6, <1>7, <1>8, <1>9, <1>10, JobEffects
    DEF JobEffect

-----------------------------------------------------------------------------
(* The theorems *)

LEMMA InvInit == Init => IInv
  <1> SUFFICES ASSUME Init PROVE IInv
    OBVIOUS
  <1>1. TypeOK
    BY TypeInit
  <1>2. LeaseOK
    BY DEF Init, NewJob, LeaseOK, Leased
  <1>3. OpenAttemptIsTheLease
    BY DEF Init, NewJob, OpenAttemptIsTheLease, Leased
  <1>4. PagesOK
    BY DEF Init, NewPage, PagesOK
  <1>5. WorkersOK
    <2>1. \A p \in Pages : ~ (NothingTodo[p] <= RetryLimit)
      BY DEF NothingTodo, Exhausted
    <2> QED
      BY <2>1 DEF Init, Between, WorkersOK, WorkerOK, Beating, InLoop
  <1>6. CompletedJobIsWhole
    BY DEF Init, NewJob, CompletedJobIsWhole
  <1> QED
    BY <1>1, <1>2, <1>3, <1>4, <1>5, <1>6 DEF IInv

LEMMA InvStep == IInv /\ [Next]_vars => IInv'
  BY TypeStep, LeaseStep, OpenAttemptStep, PagesStep, WorkersStep, CompletedStep DEF IInv

\* The inductive invariant holds throughout.
THEOREM Invariance == Spec => []IInv
  BY InvInit, InvStep, PTL DEF Spec

\* Tables and worker locals keep their types.
THEOREM TypeCorrect == Spec => []TypeOK
  <1>1. IInv => TypeOK
    BY DEF IInv
  <1> QED
    BY <1>1, Invariance, PTL

\* The attempt history agrees with the lease, for any number of workers that
\* crash, lose leases and come late.
THEOREM AttemptsAgree == Spec => []OpenAttemptIsTheLease
  <1>1. IInv => OpenAttemptIsTheLease
    BY DEF IInv
  <1> QED
    BY <1>1, Invariance, PTL

\* A completed job has all pages of its document, with representations.
THEOREM CompletedIsWhole == Spec => []CompletedJobIsWhole
  <1>1. IInv => CompletedJobIsWhole
    BY DEF IInv
  <1> QED
    BY <1>1, Invariance, PTL

\* Completed page checkpoints are durable and their representations immutable.
THEOREM CompletedStaysCompleted == Spec => CompletedPagesAreDurable
  <1> DEFINE Durable == \A j \in Jobs, p \in Pages : page[j][p].state = "completed" =>
          page'[j][p].state = "completed" /\ page'[j][p].rep = page[j][p].rep
  <1>1. IInv /\ [Next]_vars => [Durable]_vars
    <2> SUFFICES ASSUME IInv, [Next]_vars, NEW j \in Jobs, NEW p \in Pages,
                        page[j][p].state = "completed"
                 PROVE  page'[j][p].state = "completed" /\ page'[j][p].rep = page[j][p].rep
      OBVIOUS
    <2>1. PageEffect(j, p)
      BY PageEffects DEF IInv
    <2>2. page[j][p].rep # 0
      BY DEF IInv, PagesOK
    <2> QED
      BY <2>1, <2>2 DEF PageEffect, Unfinished
  <1> QED
    BY <1>1, Invariance, PTL DEF Spec, CompletedPagesAreDurable

-----------------------------------------------------------------------------
(* Fencing, progress and the index of active jobs *)

\* What a step may do to the state of job k and to its progress.
StateEffect(k) ==
    /\ \/ job'[k].state = job[k].state
       \/ /\ CreateJob(k) \/ RetryJob(k)
          /\ job'[k].state = "queued"
       \/ job[k].state \in Active
    /\ \/ job'[k].completed_pages = job[k].completed_pages
       \/ job'[k].completed_pages = Cardinality(PagesIn(k, "completed"))

LEMMA StateEffects ==
    ASSUME TypeOK, WorkersOK, LeaseOK, [Next]_vars, NEW k \in Jobs
    PROVE  StateEffect(k)
  <1>a. job \in [Jobs -> JobRows]
    BY DEF TypeOK
  <1>c. Leased(k) => job[k].state \in Active
    BY DEF LeaseOK, Active
  <1>u. \A s \in JobStates :
            /\ Unleased(job[k], s).state = s
            /\ Unleased(job[k], s).completed_pages = job[k].completed_pages
    BY <1>a DEF Unleased, JobRows
  <1>1. CASE UNCHANGED <<job, attempts>>
    BY <1>1 DEF StateEffect
  <1>2. ASSUME NEW j \in Jobs, CreateJob(j) PROVE StateEffect(k)
    BY <1>2, <1>a DEF CreateJob, StateEffect, JobRows
  <1>3. ASSUME NEW j \in Jobs, RetryJob(j) PROVE StateEffect(k)
    <2>1. CASE k = j
      <3>1. job'[k] = [Unleased(job[k], "queued") EXCEPT !.retry_count = job[k].retry_count + 1]
        BY <1>3, <1>a, <2>1 DEF RetryJob
      <3>2. job'[k].state = "queued" /\ job'[k].completed_pages = job[k].completed_pages
        BY <1>a, <3>1 DEF Unleased, JobRows
      <3> QED
        BY <1>3, <2>1, <3>2 DEF StateEffect
    <2>2. CASE k # j
      BY <1>3, <1>a, <2>2 DEF RetryJob, StateEffect
    <2> QED
      BY <2>1, <2>2
  <1>4. ASSUME NEW w \in Workers, RecoverExpired(w) PROVE StateEffect(k)
    BY <1>4, <1>a, <1>u DEF RecoverExpired, StateEffect, JobStates, IsExpired, Active
  <1>5. ASSUME NEW w \in Workers, NEW j \in Jobs, ClaimJob(w, j) PROVE StateEffect(k)
    BY <1>5, <1>a DEF ClaimJob, StateEffect, JobRows, Active
  <1>6. ASSUME NEW w \in Workers, OpenDocument(w) PROVE StateEffect(k)
    BY <1>6, <1>a DEF OpenDocument, StateEffect, JobRows
  <1>7. ASSUME NEW w \in Workers, FinalizeJob(w) PROVE StateEffect(k)
    <2> DEFINE new == [Unleased(job[k], FinalState(k)) EXCEPT
                          !.completed_pages = Cardinality(PagesIn(k, "completed")),
                          !.failed_pages = Cardinality(PagesIn(k, "failed"))]
    <2>1. new.completed_pages = Cardinality(PagesIn(k, "completed"))
      BY <1>a DEF Unleased, JobRows
    <2>2. job'[k] = job[k] \/ (job'[k] = new /\ Owns(w, k))
      BY <1>7, <1>a DEF FinalizeJob
    <2>3. Owns(w, k) => job[k].state \in Active
      BY <1>c DEF Owns, Leased
    <2> HIDE DEF new
    <2> QED
      BY <2>1, <2>2, <2>3 DEF StateEffect
  <1>8. ASSUME NEW w \in Workers, FailDocument(w) PROVE StateEffect(k)
    <2>1. job'[k] = job[k] \/ (job'[k] = Unleased(job[k], "failed") /\ job[k].state = "processing")
      BY <1>8, <1>a DEF FailDocument
    <2> QED
      BY <1>u, <2>1 DEF StateEffect, JobStates, Active
  <1>9. ASSUME NEW j \in Jobs, LeaseLapses(j) PROVE StateEffect(k)
    BY <1>9, <1>a DEF LeaseLapses, StateEffect, JobRows
  <1>10. ASSUME NEW w \in Workers, HeartbeatJob(w) PROVE StateEffect(k)
    BY <1>10, <1>a DEF HeartbeatJob, StateEffect, JobRows
  <1> QED
    BY <1>1, <1>2, <1>3, <1>4, <1>5, <1>6, <1>7, <1>8, <1>9, <1>10, JobEffects
    DEF JobEffect

\* The unique index: no two jobs of a source are queued or processing at once.
IndexOK ==
    \A j, k \in Jobs : j # k /\ SourceOf[j] = SourceOf[k] =>
        ~ (job[j].state \in Active /\ job[k].state \in Active)

LEMMA IndexStep == IInv /\ IndexOK /\ [Next]_vars => IndexOK'
  <1> SUFFICES ASSUME IInv, IndexOK, [Next]_vars,
                      NEW j \in Jobs, NEW k \in Jobs, j # k, SourceOf[j] = SourceOf[k],
                      job'[j].state \in Active, job'[k].state \in Active
               PROVE  FALSE
    BY DEF IndexOK
  <1>1. StateEffect(j) /\ StateEffect(k)
    BY StateEffects DEF IInv
  <1>2. ~ (job[j].state \in Active /\ job[k].state \in Active)
    BY DEF IndexOK
  <1>3. job \in [Jobs -> JobRows]
    BY DEF IInv, TypeOK
  <1>4. \A i, h \in Jobs : i # h /\ (CreateJob(i) \/ RetryJob(i)) => job'[h] = job[h]
    BY <1>3 DEF CreateJob, RetryJob
  <1>5. \A i, h \in Jobs : i # h /\ SourceOf[h] = SourceOf[i] /\ (CreateJob(i) \/ RetryJob(i))
            => job[h].state \notin Active
    BY DEF CreateJob, RetryJob, SourceIsFree
  <1> QED
    BY <1>1, <1>2, <1>4, <1>5 DEF StateEffect

\* The completed pages of a job never become fewer.
LEMMA DoneGrows ==
    ASSUME IInv, [Next]_vars, NEW k \in Jobs
    PROVE  PagesIn(k, "completed") \subseteq PagesIn(k, "completed")'
  <1>1. ASSUME NEW p \in Pages, page[k][p].state = "completed"
        PROVE  page'[k][p].state = "completed"
    BY <1>1, PageEffects DEF IInv, PageEffect, Unfinished
  <1> QED
    BY <1>1 DEF PagesIn

\* The progress shown never exceeds the pages that are completed.
THEOREM ProgressIsTrue == Spec => []ProgressIsNotManufactured
  <1>1. Init => ProgressIsNotManufactured
    BY PagesInFinite DEF Init, NewJob, ProgressIsNotManufactured
  <1>2. IInv /\ ProgressIsNotManufactured /\ [Next]_vars => ProgressIsNotManufactured'
    <2> SUFFICES ASSUME IInv, ProgressIsNotManufactured, [Next]_vars, NEW k \in Jobs
                 PROVE  job'[k].completed_pages <= Cardinality(PagesIn(k, "completed")')
      BY DEF ProgressIsNotManufactured
    <2>1. PagesIn(k, "completed")' = {p \in Pages : page'[k][p].state = "completed"}
      BY DEF PagesIn
    <2>2. IsFiniteSet(PagesIn(k, "completed")')
      <3>1. 1 \in Int /\ MaxPages \in Int
        BY PagesAssumption
      <3>2. IsFiniteSet(Pages)
        BY <3>1, FS_Interval DEF Pages
      <3>3. PagesIn(k, "completed")' \subseteq Pages
        BY <2>1
      <3> QED
        BY <3>2, <3>3, FS_Subset
    <2>3. /\ Cardinality(PagesIn(k, "completed")) <= Cardinality(PagesIn(k, "completed")')
          /\ Cardinality(PagesIn(k, "completed")) \in Nat
          /\ Cardinality(PagesIn(k, "completed")') \in Nat
      BY <2>2, DoneGrows, PagesInFinite, FS_Subset, FS_CardinalityType
    <2>4. job[k].completed_pages <= Cardinality(PagesIn(k, "completed"))
      BY DEF ProgressIsNotManufactured
    <2>5. job[k].completed_pages \in Nat
      BY DEF IInv, TypeOK, JobRows
    <2>6. StateEffect(k)
      BY StateEffects DEF IInv
    <2> QED
      BY <2>3, <2>4, <2>5, <2>6 DEF StateEffect
  <1> QED
    BY <1>1, <1>2, Invariance, PTL DEF Spec

\* A worker that has lost its lease changes neither state, lease nor history of
\* the job.
THEOREM Fenced == Spec => LeaseFencesTheJob
  <1> DEFINE Fence == \A w \in Workers : LET j == worker[w].job IN
          worker'[w] # worker[w] /\ j # NoJob /\ job[j].lease_owner # w =>
              /\ job'[j].state = job[j].state
              /\ job'[j].lease_owner = job[j].lease_owner
              /\ attempts'[j] = attempts[j]
  <1>1. IInv /\ [Next]_vars => [Fence]_vars
    <2> SUFFICES ASSUME IInv, [Next]_vars, NEW w \in Workers, worker'[w] # worker[w],
                        worker[w].job # NoJob,
                        job[worker[w].job].lease_owner # w
                 PROVE  /\ job'[worker[w].job].state = job[worker[w].job].state
                        /\ job'[worker[w].job].lease_owner = job[worker[w].job].lease_owner
                        /\ attempts'[worker[w].job] = attempts[worker[w].job]
      OBVIOUS
    <2> DEFINE k == worker[w].job
    <2>a. job \in [Jobs -> JobRows] /\ worker \in [Workers -> Locals]
      BY DEF IInv, TypeOK
    <2>b. worker[w].pc \notin {"idle", "claiming", "gone"}
      BY DEF IInv, WorkersOK, WorkerOK
    <2>1. WorkerStep(w) \/ WorkerExits(w)
      BY <2>a, OthersStay DEF Next, vars, CreateJob, RetryJob, LeaseRunsOut, HeartbeatStalls,
         LeaseLapses, HeartbeatJob
    <2>2. ~ RecoverExpired(w) /\ \A j \in Jobs : ~ ClaimJob(w, j)
      BY <2>b DEF RecoverExpired, ClaimJob
    <2>3. CASE OpenDocument(w)
      BY <2>a, <2>3 DEF OpenDocument, JobRows
    <2>4. CASE UNCHANGED <<job, attempts>>
      BY <2>4
    <2>5. FinalizeJob(w) \/ FailDocument(w) => UNCHANGED <<job, attempts>>
      BY DEF FinalizeJob, FailDocument, Owns
    <2> QED
      BY <2>1, <2>2, <2>3, <2>4, <2>5 DEF WorkerStep, ClaimNothing, StartProcessing,
         EnsureCheckpoints, ListCheckpoints, CheckLease, MarkPageProcessing, CommitPage,
         PageFails, RejectDocument, Fault, DropClaim, WorkerExits
  <1> QED
    BY <1>1, Invariance, PTL DEF Spec, LeaseFencesTheJob

-----------------------------------------------------------------------------
(* The history is kept and numbered *)

Numbers(rows) == {a.number : a \in rows}

NumberedRows(rows, n) ==
    /\ Numbers(rows) = 1 .. n
    /\ \A a, b \in rows : a.number = b.number => a = b

\* The attempts of a job are numbered from one without a gap, so that the INSERT of claim_job
\* never meets UNIQUE (job_id, attempt_number).
AttemptsAreNumbered == \A j \in Jobs : NumberedRows(attempts[j], job[j].attempt_count)

\* A closed attempt is never touched again, and no attempt is removed.
HistoryIsKept ==
    [][\A j \in Jobs : \A a \in attempts[j] :
          \/ a \in attempts'[j]
          \/ /\ a.outcome = "open"
             /\ \E s \in Outcomes : [a EXCEPT !.outcome = s] \in attempts'[j]]_vars

\* What a step may do to the history of job k.
Closes(k) ==
    /\ \E owners, s : s \in Outcomes \ {"open"} /\ attempts'[k] = CloseAttempts(k, owners, s)
    /\ job'[k].attempt_count = job[k].attempt_count

Opens(k) ==
    \E w \in Workers :
        LET n == job[k].attempt_count + 1
        IN  /\ attempts'[k] = attempts[k] \cup {[number |-> n, worker |-> w, outcome |-> "open"]}
            /\ job'[k].attempt_count = n

HistoryEffect(k) ==
    \/ attempts'[k] = attempts[k] /\ job'[k].attempt_count = job[k].attempt_count
    \/ Closes(k)
    \/ Opens(k)

LEMMA HistoryEffects ==
    ASSUME TypeOK, WorkersOK, [Next]_vars, NEW k \in Jobs
    PROVE  HistoryEffect(k)
  <1>a. job \in [Jobs -> JobRows] /\ attempts \in [Jobs -> SUBSET AttemptRows]
    BY DEF TypeOK
  <1>u. \A s \in JobStates : Unleased(job[k], s).attempt_count = job[k].attempt_count
    BY <1>a DEF Unleased, JobRows
  <1>1. CASE UNCHANGED <<job, attempts>>
    BY <1>1 DEF HistoryEffect
  <1>2. ASSUME NEW j \in Jobs, CreateJob(j) PROVE HistoryEffect(k)
    BY <1>2, <1>a DEF CreateJob, HistoryEffect, JobRows
  <1>3. ASSUME NEW j \in Jobs, RetryJob(j) PROVE HistoryEffect(k)
    <2>1. CASE k = j
      <3>1. job'[k] = [Unleased(job[k], "queued") EXCEPT !.retry_count = job[k].retry_count + 1]
        BY <1>3, <1>a, <2>1 DEF RetryJob
      <3>2. job'[k].attempt_count = job[k].attempt_count
        BY <1>a, <3>1 DEF Unleased, JobRows
      <3> QED
        BY <1>3, <3>2 DEF RetryJob, HistoryEffect
    <2>2. CASE k # j
      BY <1>3, <1>a, <2>2 DEF RetryJob, HistoryEffect
    <2> QED
      BY <2>1, <2>2
  <1>4. ASSUME NEW w \in Workers, RecoverExpired(w) PROVE HistoryEffect(k)
    <2>1. CASE IsExpired(k)
      <3>1. attempts'[k] = CloseAttempts(k, Workers, "interrupted")
        BY <1>4, <2>1 DEF RecoverExpired
      <3>2. job'[k].attempt_count = job[k].attempt_count
        BY <1>4, <1>u, <2>1 DEF RecoverExpired, JobStates
      <3>3. "interrupted" \in Outcomes \ {"open"}
        BY DEF Outcomes
      <3> QED
        BY <3>1, <3>2, <3>3 DEF HistoryEffect, Closes
    <2>2. CASE ~ IsExpired(k)
      BY <1>4, <2>2 DEF RecoverExpired, HistoryEffect
    <2> QED
      BY <2>1, <2>2
  <1>5. ASSUME NEW w \in Workers, NEW j \in Jobs, ClaimJob(w, j) PROVE HistoryEffect(k)
    <2>1. CASE k = j
      <3> DEFINE n == job[k].attempt_count + 1
      <3>1. attempts'[k] = attempts[k] \cup {[number |-> n, worker |-> w, outcome |-> "open"]}
        BY <1>5, <1>a, <2>1 DEF ClaimJob
      <3>2. job'[k].attempt_count = n
        BY <1>5, <1>a, <2>1 DEF ClaimJob, JobRows
      <3> QED
        BY <3>1, <3>2 DEF HistoryEffect, Opens
    <2>2. CASE k # j
      BY <1>5, <1>a, <2>2 DEF ClaimJob, HistoryEffect
    <2> QED
      BY <2>1, <2>2
  <1>6. ASSUME NEW w \in Workers, OpenDocument(w) PROVE HistoryEffect(k)
    BY <1>6, <1>a DEF OpenDocument, HistoryEffect, JobRows
  <1>7. ASSUME NEW w \in Workers, FinalizeJob(w) PROVE HistoryEffect(k)
    <2> DEFINE s == FinalState(k)
               new == [Unleased(job[k], s) EXCEPT
                          !.completed_pages = Cardinality(PagesIn(k, "completed")),
                          !.failed_pages = Cardinality(PagesIn(k, "failed"))]
    <2>1. new.attempt_count = job[k].attempt_count
      BY <1>a DEF Unleased, JobRows
    <2>2. s \in Outcomes \ {"open"}
      BY FinalStates DEF Outcomes
    <2>3. \/ job'[k] = job[k] /\ attempts'[k] = attempts[k]
          \/ job'[k] = new /\ attempts'[k] = CloseAttempts(k, {w}, s)
      BY <1>7, <1>a DEF FinalizeJob
    <2> HIDE DEF new, s
    <2> QED
      BY <2>1, <2>2, <2>3 DEF HistoryEffect, Closes
  <1>8. ASSUME NEW w \in Workers, FailDocument(w) PROVE HistoryEffect(k)
    <2>1. "failed" \in Outcomes \ {"open"} /\ "failed" \in JobStates
      BY DEF Outcomes, JobStates
    <2>2. \/ job'[k] = job[k] /\ attempts'[k] = attempts[k]
          \/ job'[k] = Unleased(job[k], "failed") /\ attempts'[k] = CloseAttempts(k, {w}, "failed")
      BY <1>8, <1>a DEF FailDocument
    <2> QED
      BY <1>u, <2>1, <2>2 DEF HistoryEffect, Closes
  <1>9. ASSUME NEW j \in Jobs, LeaseLapses(j) PROVE HistoryEffect(k)
    BY <1>9, <1>a DEF LeaseLapses, HistoryEffect, JobRows
  <1>10. ASSUME NEW w \in Workers, HeartbeatJob(w) PROVE HistoryEffect(k)
    BY <1>10, <1>a DEF HeartbeatJob, HistoryEffect, JobRows
  <1> QED
    BY <1>1, <1>2, <1>3, <1>4, <1>5, <1>6, <1>7, <1>8, <1>9, <1>10, JobEffects
    DEF JobEffect

\* Closing gives an outcome to open attempts and leaves the rest of every row as it is.
LEMMA CloseIs ==
    ASSUME TypeOK, NEW k \in Jobs, NEW owners, NEW s \in Outcomes, NEW rows,
           rows = CloseAttempts(k, owners, s)
    PROVE  /\ \A a \in attempts[k] :
                 a \in rows \/ (a.outcome = "open" /\ [a EXCEPT !.outcome = s] \in rows)
           /\ \A n : NumberedRows(attempts[k], n) => NumberedRows(rows, n)
  <1> DEFINE closed(a) == IF a.outcome = "open" /\ a.worker \in owners
                          THEN [a EXCEPT !.outcome = s] ELSE a
  <1>1. rows = {closed(a) : a \in attempts[k]}
    BY DEF CloseAttempts
  <1>2. \A a \in attempts[k] : closed(a).number = a.number
    BY DEF TypeOK, AttemptRows
  <1>3. \A a \in attempts[k] :
            a \in rows \/ (a.outcome = "open" /\ [a EXCEPT !.outcome = s] \in rows)
    BY <1>1
  <1> HIDE DEF closed
  <1>4. Numbers(rows) = Numbers(attempts[k])
    BY <1>1, <1>2 DEF Numbers
  <1>5. ASSUME NEW n, NumberedRows(attempts[k], n)
        PROVE  NumberedRows(rows, n)
    <2>1. \A a, b \in rows : a.number = b.number => a = b
      BY <1>1, <1>2, <1>5 DEF NumberedRows
    <2> QED
      BY <1>4, <1>5, <2>1 DEF NumberedRows
  <1> QED
    BY <1>3, <1>5

\* The attempts of a job have the numbers 1 .. attempt_count, each once: claim_job never
\* fails on UNIQUE (job_id, attempt_number), whatever was recovered and retried before.
THEOREM AreNumbered == Spec => []AttemptsAreNumbered
  <1>1. Init => AttemptsAreNumbered
    BY DEF Init, NewJob, AttemptsAreNumbered, NumberedRows, Numbers
  <1>2. IInv /\ AttemptsAreNumbered /\ [Next]_vars => AttemptsAreNumbered'
    <2> SUFFICES ASSUME IInv, AttemptsAreNumbered, [Next]_vars, NEW k \in Jobs
                 PROVE  NumberedRows(attempts'[k], job'[k].attempt_count)
      BY DEF AttemptsAreNumbered, NumberedRows, Numbers
    <2> DEFINE n == job[k].attempt_count
    <2>1. NumberedRows(attempts[k], n) /\ n \in Nat /\ TypeOK
      BY DEF AttemptsAreNumbered, IInv, TypeOK, JobRows
    <2>2. CASE Closes(k)
      BY <2>1, <2>2, CloseIs DEF Closes
    <2>3. CASE Opens(k)
      <3>1. PICK new : /\ new.number = n + 1
                       /\ attempts'[k] = attempts[k] \cup {new}
                       /\ job'[k].attempt_count = n + 1
        BY <2>3 DEF Opens
      <3> HIDE DEF n
      <3>2. \A a \in attempts[k] : a.number \in 1 .. n
        BY <2>1 DEF NumberedRows, Numbers
      <3>3. \A a \in attempts[k] : a.number # n + 1
        BY <2>1, <3>2
      <3>4. \A a, b \in attempts'[k] : a.number = b.number => a = b
        BY <2>1, <3>1, <3>3 DEF NumberedRows
      <3>5. Numbers(attempts'[k]) = Numbers(attempts[k]) \cup {n + 1}
        BY <3>1 DEF Numbers
      <3>6. 1 .. n + 1 = (1 .. n) \cup {n + 1}
        BY <2>1
      <3> QED
        BY <2>1, <3>1, <3>4, <3>5, <3>6 DEF NumberedRows
    <2>4. CASE attempts'[k] = attempts[k] /\ job'[k].attempt_count = n
      BY <2>1, <2>4
    <2> QED
      BY <2>2, <2>3, <2>4, HistoryEffects DEF HistoryEffect, IInv
  <1> QED
    BY <1>1, <1>2, Invariance, PTL DEF Spec

\* No recovery, retry or late worker rewrites how an attempt ended.
THEOREM HistoryKept == Spec => HistoryIsKept
  <1> DEFINE Kept == \A j \in Jobs : \A a \in attempts[j] :
          \/ a \in attempts'[j]
          \/ /\ a.outcome = "open"
             /\ \E s \in Outcomes : [a EXCEPT !.outcome = s] \in attempts'[j]
  <1>1. IInv /\ [Next]_vars => [Kept]_vars
    <2> SUFFICES ASSUME IInv, [Next]_vars, NEW k \in Jobs, NEW a \in attempts[k]
                 PROVE  \/ a \in attempts'[k]
                        \/ /\ a.outcome = "open"
                           /\ \E s \in Outcomes : [a EXCEPT !.outcome = s] \in attempts'[k]
      OBVIOUS
    <2>1. HistoryEffect(k) /\ TypeOK
      BY HistoryEffects DEF IInv
    <2>2. CASE Closes(k)
      <3>1. PICK owners, s : s \in Outcomes /\ attempts'[k] = CloseAttempts(k, owners, s)
        BY <2>2 DEF Closes
      <3>2. a \in attempts'[k] \/ (a.outcome = "open" /\ [a EXCEPT !.outcome = s] \in attempts'[k])
        BY <2>1, <3>1, CloseIs
      <3> QED
        BY <3>1, <3>2
    <2>3. CASE Opens(k)
      BY <2>3 DEF Opens
    <2> QED
      BY <2>1, <2>2, <2>3 DEF HistoryEffect
  <1> QED
    BY <1>1, Invariance, PTL DEF Spec, HistoryIsKept

-----------------------------------------------------------------------------
(* Completed and lost jobs *)

\* A completed job is not claimed, retried, failed or finalized again.
THEOREM CompletedIsFinal ==
    Spec => [][\A j \in Jobs : job[j].state = "completed" => job'[j].state = "completed"]_vars
  <1> DEFINE Final == \A j \in Jobs : job[j].state = "completed" => job'[j].state = "completed"
  <1>1. IInv /\ [Next]_vars => [Final]_vars
    <2> SUFFICES ASSUME IInv, [Next]_vars, NEW k \in Jobs, job[k].state = "completed"
                 PROVE  job'[k].state = "completed"
      OBVIOUS
    <2>1. StateEffect(k)
      BY StateEffects DEF IInv
    <2> QED
      BY <2>1 DEF StateEffect, Active, CreateJob, RetryJob
  <1> QED
    BY <1>1, Invariance, PTL DEF Spec

\* What becomes of a lost job, and how a job is lost.
LossEffect(k) ==
    /\ Lost(k) => Lost(k)'
    /\ ~Lost(k) /\ Lost(k)' =>
          \E w \in Workers : /\ FinalizeJob(w) /\ worker[w].job = k /\ Owns(w, k)
                             /\ FinalState(k) = "processing"

LEMMA LossEffects ==
    ASSUME TypeOK, WorkersOK, LeaseOK, [Next]_vars, NEW k \in Jobs
    PROVE  LossEffect(k)
  <1>a. job \in [Jobs -> JobRows] /\ NoWorker \notin Workers
    BY NullsAssumption DEF TypeOK
  <1>b. Leased(k) <=> job[k].lease # "none"
    BY DEF LeaseOK
  <1>u. \A s \in JobStates : Unleased(job[k], s).state = s
    BY <1>a DEF Unleased, JobRows
  <1>0. ASSUME job'[k].state = job[k].state /\ job'[k].lease_owner = job[k].lease_owner
        PROVE  LossEffect(k)
    BY <1>0 DEF LossEffect, Lost, Leased
  <1>n. ASSUME ~Lost(k), job'[k].state # "processing"
        PROVE  LossEffect(k)
    BY <1>n DEF LossEffect, Lost
  <1>1. CASE UNCHANGED <<job, attempts>>
    BY <1>0, <1>1
  <1>2. ASSUME NEW j \in Jobs, CreateJob(j) PROVE LossEffect(k)
    <2>1. CASE k = j
      BY <1>2, <1>a, <1>n, <2>1 DEF CreateJob, Lost, JobRows
    <2>2. CASE k # j
      BY <1>0, <1>2, <1>a, <2>2 DEF CreateJob
    <2> QED
      BY <2>1, <2>2
  <1>3. ASSUME NEW j \in Jobs, RetryJob(j) PROVE LossEffect(k)
    <2>1. CASE k = j
      <3>1. job'[k] = [Unleased(job[k], "queued") EXCEPT !.retry_count = job[k].retry_count + 1]
        BY <1>3, <1>a, <2>1 DEF RetryJob
      <3>2. job'[k].state = "queued"
        BY <1>a, <3>1 DEF Unleased, JobRows
      <3>3. ~Lost(k)
        BY <1>3, <2>1 DEF RetryJob, Lost
      <3> QED
        BY <1>n, <3>2, <3>3
    <2>2. CASE k # j
      BY <1>0, <1>3, <1>a, <2>2 DEF RetryJob
    <2> QED
      BY <2>1, <2>2
  <1>4. ASSUME NEW w \in Workers, RecoverExpired(w) PROVE LossEffect(k)
    <2>1. CASE IsExpired(k)
      <3>1. job'[k].state = "queued"
        BY <1>4, <1>u, <2>1 DEF RecoverExpired, JobStates
      <3>2. ~Lost(k)
        BY <1>b, <2>1 DEF Lost, IsExpired
      <3> QED
        BY <1>n, <3>1, <3>2
    <2>2. CASE ~ IsExpired(k)
      BY <1>0, <1>4, <2>2 DEF RecoverExpired
    <2> QED
      BY <2>1, <2>2
  <1>5. ASSUME NEW w \in Workers, NEW j \in Jobs, ClaimJob(w, j) PROVE LossEffect(k)
    <2>1. CASE k = j
      <3>1. job'[k].lease_owner = w
        BY <1>5, <1>a, <2>1 DEF ClaimJob, JobRows
      <3>2. ~Lost(k) /\ ~Lost(k)'
        BY <1>5, <1>a, <2>1, <3>1 DEF ClaimJob, Lost, Leased
      <3> QED
        BY <3>2 DEF LossEffect
    <2>2. CASE k # j
      BY <1>0, <1>5, <1>a, <2>2 DEF ClaimJob
    <2> QED
      BY <2>1, <2>2
  <1>6. ASSUME NEW w \in Workers, OpenDocument(w) PROVE LossEffect(k)
    BY <1>0, <1>6, <1>a DEF OpenDocument, JobRows
  <1>7. ASSUME NEW w \in Workers, FinalizeJob(w) PROVE LossEffect(k)
    <2> DEFINE new == [Unleased(job[k], FinalState(k)) EXCEPT
                          !.completed_pages = Cardinality(PagesIn(k, "completed")),
                          !.failed_pages = Cardinality(PagesIn(k, "failed"))]
    <2>1. CASE worker[w].job = k /\ Owns(w, k)
      <3>1. job'[k] = new
        BY <1>7, <1>a, <2>1 DEF FinalizeJob
      <3>2. new.state = FinalState(k)
        BY <1>a DEF Unleased, JobRows
      <3>3. ~Lost(k)
        BY <1>a, <2>1 DEF Owns, Lost, Leased
      <3> HIDE DEF new
      <3> QED
        BY <1>7, <2>1, <3>1, <3>2, <3>3 DEF LossEffect, Lost
    <2>2. CASE ~ (worker[w].job = k /\ Owns(w, k))
      <3>1. job'[k] = job[k]
        BY <1>7, <1>a, <2>2 DEF FinalizeJob
      <3> QED
        BY <1>0, <3>1
    <2> QED
      BY <2>1, <2>2
  <1>8. ASSUME NEW w \in Workers, FailDocument(w) PROVE LossEffect(k)
    <2>1. \/ job'[k] = job[k]
          \/ job'[k] = Unleased(job[k], "failed") /\ Owns(w, k)
      BY <1>8, <1>a DEF FailDocument
    <2>2. Owns(w, k) => ~Lost(k)
      BY <1>a DEF Owns, Lost, Leased
    <2> QED
      BY <1>0, <1>n, <1>u, <2>1, <2>2 DEF JobStates
  <1>9. ASSUME NEW j \in Jobs, LeaseLapses(j) PROVE LossEffect(k)
    BY <1>0, <1>9, <1>a DEF LeaseLapses, JobRows
  <1>10. ASSUME NEW w \in Workers, HeartbeatJob(w) PROVE LossEffect(k)
    BY <1>0, <1>10, <1>a DEF HeartbeatJob, JobRows
  <1> QED
    BY <1>1, <1>2, <1>3, <1>4, <1>5, <1>6, <1>7, <1>8, <1>9, <1>10, JobEffects
    DEF JobEffect

\* A job that is lost is lost for good: neither claim_job, recover_expired_jobs, retry_job nor
\* a late worker ever changes its state or leases it again.
THEOREM LostForGood == Spec => [][\A j \in Jobs : Lost(j) => Lost(j)']_vars
  <1> DEFINE Stays == \A j \in Jobs : Lost(j) => Lost(j)'
  <1>1. IInv /\ [Next]_vars => [Stays]_vars
    BY LossEffects DEF IInv, LossEffect
  <1> QED
    BY <1>1, Invariance, PTL DEF Spec

\* A lost job takes its source with it: whatever the workers do and whoever asks for a retry
\* or for a new job, no other job of the source is ever queued or processing again.
THEOREM LostBlocksSource ==
    Spec => [][\A j, k \in Jobs : Lost(j) /\ j # k /\ SourceOf[j] = SourceOf[k] =>
                  Lost(j)' /\ job'[k].state \notin Active]_vars
  <1> DEFINE Blocks == \A j, k \in Jobs : Lost(j) /\ j # k /\ SourceOf[j] = SourceOf[k] =>
                          Lost(j)' /\ job'[k].state \notin Active
  <1>1. Init => IndexOK
    BY DEF Init, NewJob, IndexOK, Active
  <1>2. IInv /\ IndexOK /\ [Next]_vars => [Blocks]_vars
    <2> SUFFICES ASSUME IInv, IndexOK, [Next]_vars, NEW j \in Jobs, NEW k \in Jobs,
                        Lost(j), j # k, SourceOf[j] = SourceOf[k]
                 PROVE  Lost(j)' /\ job'[k].state \notin Active
      OBVIOUS
    <2>1. Lost(j)'
      BY LossEffects DEF IInv, LossEffect
    <2>2. job'[j].state \in Active
      BY <2>1 DEF Lost, Active
    <2>3. IndexOK'
      BY IndexStep
    <2> QED
      BY <2>1, <2>2, <2>3 DEF IndexOK
  <1> QED
    BY <1>1, <1>2, IndexStep, Invariance, PTL DEF Spec

\* The owner of the lease finishes, no page has failed, and one is neither completed nor failed.
LeftUnfinished(j) ==
    /\ \E w \in Workers : worker[w].pc = "finishing" /\ worker[w].job = j /\ Owns(w, j)
    /\ \E p \in AllPages(j) : page[j][p].state \notin {"completed", "failed"}
    /\ PagesIn(j, "failed") = {}

\* A job is lost in one way only: finalize_job of the worker that holds the lease meets a
\* page that is neither completed nor failed, and no page that has failed.
THEOREM OnlyFinalizeLoses ==
    Spec => [][\A j \in Jobs : ~Lost(j) /\ Lost(j)' => LeftUnfinished(j)]_vars
  <1> DEFINE Loses == \A j \in Jobs : ~Lost(j) /\ Lost(j)' => LeftUnfinished(j)
  <1>1. IInv /\ [Next]_vars => [Loses]_vars
    <2> SUFFICES ASSUME IInv, [Next]_vars, NEW k \in Jobs, ~Lost(k), Lost(k)'
                 PROVE  LeftUnfinished(k)
      OBVIOUS
    <2>1. PICK w \in Workers : /\ FinalizeJob(w) /\ worker[w].job = k /\ Owns(w, k)
                               /\ FinalState(k) = "processing"
      BY LossEffects DEF IInv, LossEffect
    <2>2. job[k].total_pages = PageCount[k] /\ worker[w].pc = "finishing"
      BY <2>1 DEF FinalizeJob, IInv, WorkersOK, WorkerOK, Opened
    <2>3. PagesIn(k, "failed") = {} /\ Cardinality(PagesIn(k, "completed")) # PageCount[k]
      BY <2>1, <2>2 DEF FinalState
    <2>4. PageCount[k] \in Nat /\ AllPages(k) \subseteq Pages
      BY DEF AllPages, Pages
    <2>5. PagesIn(k, "completed") \subseteq AllPages(k)
      BY <2>4 DEF IInv, PagesIn, PagesOK, AllPages, Pages
    <2>6. Cardinality(AllPages(k)) = PageCount[k]
      BY <2>4, FS_Interval DEF AllPages
    <2>7. PICK p \in AllPages(k) : p \notin PagesIn(k, "completed")
      <3>1. PagesIn(k, "completed") # AllPages(k)
        BY <2>3, <2>6
      <3> QED
        BY <2>5, <3>1
    <2>8. page[k][p].state \notin {"completed", "failed"}
      BY <2>3, <2>4, <2>7 DEF PagesIn
    <2> QED
      BY <2>1, <2>2, <2>3, <2>8 DEF LeftUnfinished
  <1> QED
    BY <1>1, Invariance, PTL DEF Spec

-----------------------------------------------------------------------------
(* DurableProcessing implements JobLifecycle, step by step: the job table seen *)
(* without leases, attempts and workers only makes the transitions the         *)
(* lifecycle allows.  CommitPage is the one step that extracts a page; every   *)
(* other step is one of the job's state or none.                               *)

StateOf == [j \in Jobs |-> job[j].state]
DoneOf  == [j \in Jobs |-> PagesIn(j, "completed")]

\* The mapped variables, under the names used here.
LEMMA Mapped ==
    /\ Lifecycle!vars = <<StateOf, DoneOf>>
    /\ Lifecycle!vars' = <<StateOf', DoneOf'>>
  BY DEF Lifecycle!vars, StateOf, DoneOf

LEMMA LifecycleInit == Init => Lifecycle!Init
  <1> SUFFICES ASSUME Init
               PROVE  Lifecycle!Init
    OBVIOUS
  <1>1. \A j \in Jobs : job[j].state = "absent"
    BY DEF Init, NewJob
  <1>2. \A j \in Jobs, p \in Pages : page[j][p].state # "completed"
    BY DEF Init, NewPage
  <1>3. \A j \in Jobs : PagesIn(j, "completed") = {}
    BY <1>2 DEF PagesIn
  <1> QED
    BY <1>1, <1>3 DEF Lifecycle!Init

\* A commit extracts one page of a job that exists.
LEMMA CommitExtracts ==
    ASSUME IInv, [Next]_vars, NEW w \in Workers, CommitPage(w)
    PROVE  \E j \in Jobs : \E p \in Lifecycle!AllPages(j) : Lifecycle!ExtractPage(j, p)
  <1> DEFINE j == worker[w].job
             p == worker[w].page
  <1>0. j \in Jobs
    BY BusyHasJob DEF CommitPage, IInv, Beating
  <1>a. page \in [Jobs -> [Pages -> PageRows]] /\ PageCount[j] \in Int
    BY <1>0 DEF IInv, TypeOK
  <1>1. /\ j \in Jobs
        /\ p \in Pages
        /\ job[j].state # "absent"
        /\ page[j][p].state # "absent"
    BY DEF CommitPage, IInv, WorkersOK, WorkerOK, InLoop, Beating
  <1>2. p \in 1..PageCount[j]
    BY <1>a, <1>1 DEF IInv, PagesOK, Pages
  <1>3. UNCHANGED job
    BY DEF CommitPage
  <1>4. \A k \in Jobs, q \in Pages :
           page'[k][q].state = "completed" <=> page[k][q].state = "completed" \/ (k = j /\ q = p)
    BY <1>a, <1>1 DEF CommitPage, PageRows
  <1>5. \A k \in Jobs : PagesIn(k, "completed")' =
                          IF k = j THEN PagesIn(k, "completed") \cup {p} ELSE PagesIn(k, "completed")
    BY <1>1, <1>4 DEF PagesIn
  <1>6. DoneOf' = [DoneOf EXCEPT ![j] = DoneOf[j] \cup {p}]
    BY <1>1, <1>5 DEF DoneOf
  <1>7. StateOf' = StateOf /\ StateOf[j] # "absent"
    BY <1>1, <1>3 DEF StateOf
  <1>8. Lifecycle!ExtractPage(j, p)
    BY <1>6, <1>7 DEF Lifecycle!ExtractPage, StateOf, DoneOf
  <1> HIDE DEF j, p
  <1> QED
    BY <1>1, <1>2, <1>8 DEF Lifecycle!AllPages

\* Any other step extracts none.
LEMMA OthersExtractNothing ==
    ASSUME IInv, [Next]_vars, \A w \in Workers : ~ CommitPage(w)
    PROVE  UNCHANGED DoneOf
  <1>1. \A k \in Jobs, q \in Pages : page'[k][q].state = "completed" <=> page[k][q].state = "completed"
    BY PageEffects DEF IInv, PageEffect, Unfinished
  <1>2. \A k \in Jobs : PagesIn(k, "completed")' = PagesIn(k, "completed")
    BY <1>1 DEF PagesIn
  <1> QED
    BY <1>2 DEF DoneOf

\* The verdict of finalize_job is one the lifecycle allows.
LEMMA VerdictIsAllowed ==
    ASSUME IInv, NEW w \in Workers, FinalizeJob(w), Owns(w, worker[w].job),
           FinalState(worker[w].job) # "processing"
    PROVE  Lifecycle!Verdict(worker[w].job, FinalState(worker[w].job))
  <1> DEFINE j == worker[w].job
             completed == PagesIn(j, "completed")
             failed == PagesIn(j, "failed")
  <1>0. j \in Jobs
    BY BusyHasJob DEF FinalizeJob, IInv, Beating
  <1>1. job[j].total_pages = PageCount[j]
    BY <1>0 DEF FinalizeJob, IInv, WorkersOK, WorkerOK, Opened
  <1>2. CASE FinalState(j) = "completed"
    <2>1. Cardinality(completed) = PageCount[j]
      BY <1>1, <1>2 DEF FinalState
    <2>2. completed = 1..PageCount[j]
      BY <1>0, <2>1, CountedAll DEF IInv, AllPages
    <2> QED
      BY <1>0, <1>2, <2>2 DEF Lifecycle!Verdict, Lifecycle!AllPages
  <1>3. CASE FinalState(j) = "partial"
    <2>1. failed # {} /\ completed # {}
      BY <1>3 DEF FinalState
    <2>2. PICK p \in Pages : page[j][p].state = "failed"
      BY <2>1 DEF PagesIn
    <2>3. p \in 1..PageCount[j] /\ p \notin completed
      BY <1>0, <2>2 DEF IInv, PagesOK, Pages, PagesIn
    <2> QED
      BY <1>0, <1>3, <2>1, <2>3 DEF Lifecycle!Verdict, Lifecycle!AllPages
  <1>4. CASE FinalState(j) = "failed"
    BY <1>4 DEF Lifecycle!Verdict
  <1> QED
    BY <1>0, <1>2, <1>3, <1>4, FinalStates

\* One job changes its state, the others keep theirs.
LEMMA OneState ==
    ASSUME TypeOK, NEW j \in Jobs, NEW row, job' = [job EXCEPT ![j] = row]
    PROVE  StateOf' = [StateOf EXCEPT ![j] = row.state]
  BY DEF TypeOK, StateOf

\* A step that extracts no page is a transition of the lifecycle, or leaves the
\* state of every job as it is.
LEMMA StateTransition ==
    ASSUME IInv, [Next]_vars, UNCHANGED DoneOf
    PROVE  [Lifecycle!Next]_(Lifecycle!vars)
  <1>a. job \in [Jobs -> JobRows] /\ TypeOK
    BY DEF IInv, TypeOK
  <1>u. \A k \in Jobs, s \in JobStates : Unleased(job[k], s).state = s
    BY <1>a DEF Unleased, JobRows
  <1>s. ASSUME \A k \in Jobs : job'[k].state = job[k].state
        PROVE  [Lifecycle!Next]_(Lifecycle!vars)
    BY <1>s, Mapped DEF StateOf
  <1>d. \A j \in Jobs, s \in {"completed", "partial", "failed"} :
           Lifecycle!Settle(j, s) => Lifecycle!Next
    BY DEF Lifecycle!Next
  <1>1. CASE UNCHANGED <<job, attempts>>
    BY <1>1, <1>s
  <1>2. ASSUME NEW j \in Jobs, CreateJob(j) PROVE Lifecycle!Next
    <2>1. StateOf' = [StateOf EXCEPT ![j] = "queued"] /\ StateOf[j] = "absent"
      BY <1>2, <1>a DEF CreateJob, StateOf, JobRows
    <2>2. Lifecycle!Create(j)
      BY <2>1 DEF Lifecycle!Create, StateOf, DoneOf
    <2> QED
      BY <2>2 DEF Lifecycle!Next
  <1>3. ASSUME NEW j \in Jobs, RetryJob(j) PROVE Lifecycle!Next
    <2> DEFINE new == [Unleased(job[j], "queued") EXCEPT !.retry_count = job[j].retry_count + 1]
    <2>1. job' = [job EXCEPT ![j] = new]
      BY <1>3 DEF RetryJob
    <2>2. new.state = "queued"
      BY <1>a DEF Unleased, JobRows
    <2> HIDE DEF new
    <2>3. StateOf' = [StateOf EXCEPT ![j] = "queued"] /\ StateOf[j] \in {"partial", "failed"}
      BY <1>3, <1>a, <2>1, <2>2, OneState DEF RetryJob, StateOf
    <2>4. Lifecycle!Retry(j)
      BY <2>3 DEF Lifecycle!Retry, StateOf, DoneOf
    <2> QED
      BY <2>4 DEF Lifecycle!Next
  <1>4. ASSUME NEW w \in Workers, RecoverExpired(w) PROVE Lifecycle!Next
    <2>1. PICK js \in SUBSET Jobs : js = {j \in Jobs : IsExpired(j)}
      OBVIOUS
    <2>2. \A j \in js : StateOf[j] = "processing"
      BY <2>1 DEF IsExpired, StateOf
    <2>3. \A j \in Jobs : job'[j].state = IF j \in js THEN "queued" ELSE job[j].state
      BY <1>4, <1>u, <2>1 DEF RecoverExpired, JobStates
    <2>4. StateOf' = [j \in Jobs |-> IF j \in js THEN "queued" ELSE StateOf[j]]
      BY <2>3 DEF StateOf
    <2>5. Lifecycle!Interrupt(js)
      BY <2>2, <2>4 DEF Lifecycle!Interrupt, StateOf, DoneOf
    <2> QED
      BY <2>5 DEF Lifecycle!Next
  <1>5. ASSUME NEW w \in Workers, NEW j \in Jobs, ClaimJob(w, j) PROVE Lifecycle!Next
    <2>1. /\ \A k \in Jobs : job'[k].state = IF k = j THEN "processing" ELSE job[k].state
          /\ job[j].state = "queued"
      BY <1>5, <1>a DEF ClaimJob, JobRows
    <2>2. StateOf' = [StateOf EXCEPT ![j] = "processing"] /\ StateOf[j] = "queued"
      BY <2>1 DEF StateOf
    <2>3. Lifecycle!Claim(j)
      BY <2>2 DEF Lifecycle!Claim, StateOf, DoneOf
    <2> QED
      BY <2>3 DEF Lifecycle!Next
  <1>6. ASSUME NEW w \in Workers, OpenDocument(w)
        PROVE  \A k \in Jobs : job'[k].state = job[k].state
    BY <1>6, <1>a DEF OpenDocument, JobRows
  <1>7. ASSUME NEW w \in Workers, FinalizeJob(w) PROVE [Lifecycle!Next]_(Lifecycle!vars)
    <2> DEFINE j == worker[w].job
               new == [Unleased(job[j], FinalState(j)) EXCEPT
                          !.completed_pages = Cardinality(PagesIn(j, "completed")),
                          !.failed_pages = Cardinality(PagesIn(j, "failed"))]
    <2>0. j \in Jobs
      BY <1>7, BusyHasJob DEF FinalizeJob, IInv, Beating
    <2>1. CASE Owns(w, j)
      <3>1. job' = [job EXCEPT ![j] = new]
        BY <1>7, <2>0, <2>1 DEF FinalizeJob
      <3>2. new.state = FinalState(j)
        BY <1>a, <2>0 DEF Unleased, JobRows
      <3>3. job[j].state = "processing"
        BY <1>7, <2>0, <2>1 DEF IInv, LeaseOK, Leased, Owns
      <3> HIDE DEF new
      <3>4. StateOf' = [StateOf EXCEPT ![j] = FinalState(j)] /\ StateOf[j] = "processing"
        BY <1>a, <2>0, <3>1, <3>2, <3>3, OneState DEF StateOf
      <3>5. CASE FinalState(j) = "processing"
        <4>1. \A k \in Jobs : job'[k].state = job[k].state
          BY <1>a, <2>0, <3>1, <3>2, <3>3, <3>5
        <4> QED
          BY <1>s, <4>1
      <3>6. CASE FinalState(j) # "processing"
        <4>1. PICK i \in Jobs, s \in {"completed", "partial", "failed"} :
                   i = j /\ s = FinalState(j)
          BY <2>0, <3>6, FinalStates
        <4>2. Lifecycle!Verdict(j, FinalState(j))
          BY <1>7, <2>1, <3>6, VerdictIsAllowed
        <4>3. Lifecycle!Verdict(i, s)
          BY <4>1, <4>2 DEF Lifecycle!Verdict
        <4>4. Lifecycle!Settle(i, s)
          BY <3>4, <4>1, <4>3 DEF Lifecycle!Settle, StateOf, DoneOf
        <4> QED
          BY <1>d, <4>4
      <3> QED
        BY <3>5, <3>6
    <2>2. CASE ~ Owns(w, j)
      BY <1>7, <1>s, <2>2 DEF FinalizeJob
    <2> QED
      BY <2>1, <2>2
  <1>8. ASSUME NEW w \in Workers, worker[w].pc \in Beating \cup {"claimed"}, FailDocument(w)
        PROVE  [Lifecycle!Next]_(Lifecycle!vars)
    <2> DEFINE j == worker[w].job
    <2>0. j \in Jobs
      BY <1>8, BusyHasJob DEF IInv
    <2>1. CASE job[j].state = "processing" /\ Owns(w, j)
      <3>1. job' = [job EXCEPT ![j] = Unleased(job[j], "failed")]
        BY <1>8, <2>1 DEF FailDocument
      <3>2. Unleased(job[j], "failed").state = "failed"
        BY <1>u, <2>0 DEF JobStates
      <3>3. StateOf' = [StateOf EXCEPT ![j] = "failed"] /\ StateOf[j] = "processing"
        BY <1>a, <2>0, <2>1, <3>1, <3>2, OneState DEF StateOf
      <3>4. Lifecycle!Settle(j, "failed")
        BY <3>3 DEF Lifecycle!Settle, Lifecycle!Verdict, StateOf, DoneOf
      <3> QED
        BY <1>d, <2>0, <3>4
    <2>2. CASE ~ (job[j].state = "processing" /\ Owns(w, j))
      BY <1>8, <1>s, <2>2 DEF FailDocument
    <2> QED
      BY <2>1, <2>2
  <1>9. ASSUME NEW j \in Jobs, LeaseLapses(j)
        PROVE  \A k \in Jobs : job'[k].state = job[k].state
    BY <1>9, <1>a DEF LeaseLapses, JobRows
  <1>10. ASSUME NEW w \in Workers, HeartbeatJob(w)
         PROVE  \A k \in Jobs : job'[k].state = job[k].state
    BY <1>10, <1>a DEF HeartbeatJob, JobRows
  <1> QED
    BY <1>1, <1>2, <1>3, <1>4, <1>5, <1>6, <1>7, <1>8, <1>9, <1>10, <1>s, JobEffects
    DEF JobEffect

\* Durable processing implements the lifecycle of transition_job, whatever its
\* workers, leases, crashes and retries do.
THEOREM Implements == Spec => ImplementsLifecycle
  <1>1. IInv /\ [Next]_vars => [Lifecycle!Next]_(Lifecycle!vars)
    <2> SUFFICES ASSUME IInv, [Next]_vars
                 PROVE  [Lifecycle!Next]_(Lifecycle!vars)
      OBVIOUS
    <2>1. CASE \E w \in Workers : CommitPage(w)
      BY <2>1, CommitExtracts DEF Lifecycle!Next
    <2>2. CASE \A w \in Workers : ~ CommitPage(w)
      BY <2>2, OthersExtractNothing, StateTransition
    <2> QED
      BY <2>1, <2>2
  <1> QED
    BY <1>1, LifecycleInit, Invariance, PTL DEF Spec, ImplementsLifecycle, Lifecycle!Spec

=============================================================================
