----------------------------- MODULE Admission -----------------------------
(***************************************************************************)
(* Admission of a PDF: admit_source (backend/app/main.py), which stores the *)
(* bytes and then calls admit (backend/app/repositories.py), one database   *)
(* transaction under two advisory locks.  A request is one HTTP call; a     *)
(* retry is another call with the same key.  Requests of one custodian      *)
(* only: objects, keys and locks are all scoped by custodian.               *)
(*                                                                          *)
(* Requests that fail validation change nothing and are left out, and so    *)
(* are enrollments, an upsert no other row depends on.  A row is named by   *)
(* what inserted it: an arrival and a job by the request, a source and a    *)
(* canonical object, which are one to one, by the content hash.             *)
(***************************************************************************)
EXTENDS Integers, FiniteSets

CONSTANTS
    Requests,       \* HTTP calls
    Objects,        \* content hashes
    Keys,           \* values of the Idempotency-Key header
    NoKey,          \* no such header
    Locks,          \* hashtextextended of custodian:sha256 and custodian:key
    Nobody,         \* a free lock
    ObjectOf,       \* the hash of the bytes a request carries
    KeyOf,          \* its Idempotency-Key
    PrintOf,        \* its request_fingerprint
    LockOf,         \* the advisory lock of an object or of a key
    UserJobs,       \* jobs created by POST /v1/processing-jobs
    MaxInterrupts   \* bound on failures of the blob store, database or server

ASSUME RequestsAssumption == /\ ObjectOf \in [Requests -> Objects]
                             /\ KeyOf \in [Requests -> Keys \cup {NoKey}]
                             /\ LockOf \in [Objects \cup Keys -> Locks]
ASSUME PrintsAssumption == \* the fingerprint digests the content hash
    \A r, q \in Requests : PrintOf[r] = PrintOf[q] => ObjectOf[r] = ObjectOf[q]
ASSUME NamesAssumption == NoKey \notin Keys /\ Nobody \notin Requests
                          /\ UserJobs \cap Requests = {}
ASSUME InterruptsAssumption == MaxInterrupts \in Nat

VARIABLES
    blob,           \* canonical objects in the blob store
    source,         \* rows of canonical_objects and sources
    job,            \* rows of processing_jobs
    arrival,        \* rows of source_arrivals
    recorded,       \* rows of admission_requests
    lock,           \* holder of each advisory lock
    request,        \* program counter and locals of each call
    interrupts      \* failures so far

vars == <<blob, source, job, arrival, recorded, lock, request, interrupts>>
tables == <<source, job, arrival, recorded>>

-----------------------------------------------------------------------------

Jobs == Requests \cup UserJobs

JobRows     == [id : Jobs, source : Objects, active : BOOLEAN]
Receipts    == [object : Objects, arrival : Requests, job : Jobs, duplicate : BOOLEAN]
Recorded    == [key : Keys, by : Requests, receipt : Receipts]

\* The pcs of a call that is inside its transaction and holds locks.
Locking     == {"locking", "keying", "looking", "upserting", "admitting"}
Answers     == {"created", "replayed", "conflict", "error", "interrupted"}
PCs         == {"new", "committed"} \cup Locking \cup Answers

NoReceipt(r) == [object |-> ObjectOf[r], arrival |-> r, job |-> r, duplicate |-> FALSE]

Init ==
    /\ blob = {}
    /\ source = {}
    /\ job = {}
    /\ arrival = {}
    /\ recorded = {}
    /\ lock = [l \in Locks |-> Nobody]
    /\ request = [r \in Requests |-> [pc |-> "new", receipt |-> NoReceipt(r)]]
    /\ interrupts = 0

Goto(r, pc) == request' = [request EXCEPT ![r].pc = pc]

\* pg_advisory_xact_lock: waits for the holder, and a holder has it again.
LockFreeForAll(r, l) == TRUE                                 \* mutant

LockFree(r, l) == lock[l] \in {Nobody, r}

\* The end of the transaction, commit or rollback, frees its locks.
HeldAfterConflict(r, pc) ==                                  \* mutant
    [l \in Locks |-> IF lock[l] = r /\ pc # "conflict" THEN Nobody ELSE lock[l]]

LocksAfter(r, pc) == [l \in Locks |-> IF lock[l] = r THEN Nobody ELSE lock[l]]

EndTransaction(r, pc) == lock' = LocksAfter(r, pc)

JobsOf(o) == {j \in job : j.source = o}

ActiveOf(o) == {j \in JobsOf(o) : j.active}

-----------------------------------------------------------------------------
(* admit_source *)

\* The bytes are staged, hashed and promoted by put_canonical, which keeps an
\* object that is there already.
StoreCanonical(r) ==
    /\ request[r].pc = "new"
    /\ blob' = blob \cup {ObjectOf[r]}
    /\ Goto(r, "locking")
    /\ UNCHANGED <<tables, lock, interrupts>>

\* admit: the lock of the object first ...
LockObject(r) ==
    LET l == LockOf[ObjectOf[r]]
    IN  /\ request[r].pc = "locking"
        /\ LockFree(r, l)
        /\ lock' = [lock EXCEPT ![l] = r]
        /\ Goto(r, IF KeyOf[r] = NoKey THEN "upserting" ELSE "keying")
        /\ UNCHANGED <<blob, tables, interrupts>>

\* ... then that of the key.
LockKey(r) ==
    LET l == LockOf[KeyOf[r]]
    IN  /\ request[r].pc = "keying"
        /\ LockFree(r, l)
        /\ lock' = [lock EXCEPT ![l] = r]
        /\ Goto(r, "looking")
        /\ UNCHANGED <<blob, tables, interrupts>>

SameRequestUnchecked(p, r) == TRUE                           \* mutant

SameRequest(p, r) == PrintOf[p.by] = PrintOf[r]

\* The key is known: the first answer again, or IdempotencyConflict.
FindPrior(r) ==
    \E p \in recorded :
       /\ request[r].pc = "looking"
       /\ p.key = KeyOf[r]
       /\ LET pc == IF SameRequest(p, r) THEN "replayed" ELSE "conflict"
          IN  /\ request' = [request EXCEPT ![r] =
                    [pc |-> pc,
                     receipt |-> IF pc = "replayed" THEN p.receipt ELSE request[r].receipt]]
              /\ EndTransaction(r, pc)
       /\ UNCHANGED <<blob, tables, interrupts>>

FindNoPrior(r) ==
    /\ request[r].pc = "looking"
    /\ \A p \in recorded : p.key # KeyOf[r]
    /\ Goto(r, "upserting")
    /\ UNCHANGED <<blob, tables, lock, interrupts>>

\* exact_duplicate: the source is there already.
DuplicateWhileActive(o) == ActiveOf(o) # {}                  \* mutant

IsDuplicate(o) == o \in source

\* The upsert of canonical_objects waits for the transaction that has written
\* the row, and existing_source is read after it.
UpsertObject(r) ==
    /\ request[r].pc = "upserting"
    /\ \A q \in Requests : request[q].pc = "admitting" => ObjectOf[q] # ObjectOf[r]
    /\ request' = [request EXCEPT ![r] =
          [pc |-> "admitting",
           receipt |-> [request[r].receipt EXCEPT !.duplicate = IsDuplicate(ObjectOf[r])]]]
    /\ UNCHANGED <<blob, tables, lock, interrupts>>

\* The job a repeated delivery is answered with: the active one, or else a
\* settled one.  An empty set stands for "insert one".
ActiveJobsOnly(o) == ActiveOf(o)                             \* mutant

JobsToReuse(o) == IF ActiveOf(o) # {} THEN ActiveOf(o) ELSE JobsOf(o)

\* A key is recorded with the answer.
RecordUnlessDuplicate(r, receipt) ==                         \* mutant
    IF KeyOf[r] = NoKey \/ receipt.duplicate THEN {}
    ELSE {[key |-> KeyOf[r], by |-> r, receipt |-> receipt]}

RecordWithoutKey(r, receipt) ==                              \* mutant
    {[key |-> KeyOf[r], by |-> r, receipt |-> receipt]}

Record(r, receipt) ==
    IF KeyOf[r] = NoKey THEN {}
    ELSE {[key |-> KeyOf[r], by |-> r, receipt |-> receipt]}

\* UNIQUE (custodian_id, idempotency_key)
KeyIsRecorded(r) == \E p \in recorded : p.key = KeyOf[r]

\* Source, arrival, job and key are inserted and the transaction commits, unless
\* the key is refused: rollback, 500.
Admit(r) ==
    LET o == ObjectOf[r]
        reuse == JobsToReuse(o)
    IN  /\ request[r].pc = "admitting"
        /\ IF KeyIsRecorded(r)
           THEN /\ Goto(r, "error")
                /\ EndTransaction(r, "error")
                /\ UNCHANGED tables
           ELSE /\ \E j \in IF reuse = {} THEN {[id |-> r, source |-> o, active |-> TRUE]}
                                         ELSE reuse :
                     LET receipt == [request[r].receipt EXCEPT !.job = j.id]
                     IN  /\ job' = job \cup {j}
                         /\ recorded' = recorded \cup Record(r, receipt)
                         /\ request' = [request EXCEPT ![r] =
                                           [pc |-> "committed", receipt |-> receipt]]
                /\ source' = source \cup {o}
                /\ arrival' = arrival \cup {r}
                /\ EndTransaction(r, "committed")
        /\ UNCHANGED <<blob, interrupts>>

Respond(r) ==
    /\ request[r].pc = "committed"
    /\ Goto(r, "created")
    /\ UNCHANGED <<blob, tables, lock, interrupts>>

-----------------------------------------------------------------------------
(* Failures and the rest of the API *)

\* The blob store, the database or the server fails, or the answer is lost: what
\* is not committed is rolled back.
InterruptTidiesUp(r) ==                                      \* mutant
    /\ request[r].pc \in Locking \cup {"committed"}
    /\ interrupts < MaxInterrupts
    /\ interrupts' = interrupts + 1
    /\ Goto(r, "interrupted")
    /\ EndTransaction(r, "interrupted")
    /\ blob' = IF request[r].pc = "committed" THEN blob ELSE blob \ {ObjectOf[r]}
    /\ UNCHANGED tables

Interrupt(r) ==
    /\ request[r].pc \in Locking \cup {"committed"}
    /\ interrupts < MaxInterrupts
    /\ interrupts' = interrupts + 1
    /\ Goto(r, "interrupted")
    /\ EndTransaction(r, "interrupted")
    /\ UNCHANGED <<blob, tables>>

\* r waits for the lock that blocker holds.
WaitsFor(r, blocker) ==
    /\ blocker # r
    /\ \/ request[r].pc = "locking" /\ lock[LockOf[ObjectOf[r]]] = blocker
       \/ request[r].pc = "keying" /\ lock[LockOf[KeyOf[r]]] = blocker

Deadlocked(rs) == \A r \in rs : \E q \in rs : WaitsFor(r, q)

\* PostgreSQL aborts one of the transactions of a deadlock: 500.
BreakDeadlock(r) ==
    /\ \E rs \in SUBSET Requests : r \in rs /\ Deadlocked(rs)
    /\ Goto(r, "error")
    /\ EndTransaction(r, "error")
    /\ UNCHANGED <<blob, tables, interrupts>>

\* create_processing_job for a source that has no active job.
CreateJob(u, o) ==
    /\ o \in source
    /\ ActiveOf(o) = {}
    /\ \A j \in job : j.id # u
    /\ job' = job \cup {[id |-> u, source |-> o, active |-> TRUE]}
    /\ UNCHANGED <<blob, source, arrival, recorded, lock, request, interrupts>>

\* A worker settles a job.
SettleJob(j) ==
    /\ j.active
    /\ job' = (job \ {j}) \cup {[j EXCEPT !.active = FALSE]}
    /\ UNCHANGED <<blob, source, arrival, recorded, lock, request, interrupts>>

-----------------------------------------------------------------------------

RequestStep(r) ==
    \/ StoreCanonical(r)
    \/ LockObject(r)
    \/ LockKey(r)
    \/ FindPrior(r)
    \/ FindNoPrior(r)
    \/ UpsertObject(r)
    \/ Admit(r)
    \/ Respond(r)

Next ==
    \/ \E r \in Requests : \/ RequestStep(r)
                           \/ Interrupt(r)
                           \/ BreakDeadlock(r)
    \/ \E u \in UserJobs, o \in Objects : CreateJob(u, o)
    \/ \E j \in job : SettleJob(j)

Spec == Init /\ [][Next]_vars

\* A call that can go on does, and the detector breaks a deadlock that stays.
Fairness ==
    /\ \A r \in Requests : WF_vars(RequestStep(r))
    /\ WF_vars(\E r \in Requests : BreakDeadlock(r))

FairSpec == Spec /\ Fairness

-----------------------------------------------------------------------------
(* Properties *)

\* Type correctness.
TypeOK ==
    /\ blob \in SUBSET Objects
    /\ source \in SUBSET Objects
    /\ job \in SUBSET JobRows
    /\ arrival \in SUBSET Requests
    /\ recorded \in SUBSET Recorded
    /\ lock \in [Locks -> Requests \cup {Nobody}]
    /\ request \in [Requests -> [pc : PCs, receipt : Receipts]]
    /\ interrupts \in Nat

Answered(r) == request[r].pc \in {"committed", "created", "replayed"}

\* "An optional Idempotency-Key header makes a completed request replay-safe":
\* however calls with one key overlap, fail and are repeated, one arrival comes
\* of them.
OncePerKey ==
    \A r, q \in arrival : KeyOf[r] = KeyOf[q] /\ KeyOf[r] # NoKey => r = q

\* Calls with one key that succeed are the same request and get the same answer,
\* also a call that raced the one that did the work.
SameAnswerPerKey ==
    \A r, q \in Requests :
        Answered(r) /\ Answered(q) /\ KeyOf[r] = KeyOf[q] /\ KeyOf[r] # NoKey =>
            PrintOf[r] = PrintOf[q] /\ request[r].receipt = request[q].receipt

\* An answer names rows that are there, and the bytes they describe are in the
\* blob store, which no transaction covers.
ReceiptsAreDurable ==
    /\ source \subseteq blob
    /\ \A r \in Requests : Answered(r) =>
          LET receipt == request[r].receipt
          IN  /\ receipt.object = ObjectOf[r]
              /\ receipt.object \in source
              /\ receipt.arrival \in arrival
              /\ ObjectOf[receipt.arrival] = ObjectOf[r]
              /\ \E j \in JobsOf(ObjectOf[r]) : j.id = receipt.job

\* Of the deliveries of one content exactly one is told that it is new, every
\* other that it is an exact duplicate.
OneDeliveryIsNew ==
    \A o \in source : \E r \in arrival :
        /\ ObjectOf[r] = o
        /\ \A q \in arrival : ObjectOf[q] = o =>
              (request[q].receipt.duplicate <=> q # r)

\* "A repeat arrival must not create a redundant active job for bytes already
\* admitted and processed": admissions create one job per source, whatever
\* became of it.
OneJobPerAdmittedSource ==
    \A i, j \in job :
        i.source = j.source /\ i.id \in Requests /\ j.id \in Requests => i = j

\* No call ends in a server error of the database's making, neither a key that
\* is refused by its unique constraint nor a deadlock of the two locks.
NoCallFails == \A r \in Requests : request[r].pc # "error"

\* Every call is answered in the end, also when locks form a deadlock.
EveryCallIsAnswered ==
    \A r \in Requests : request[r].pc = "locking" ~> request[r].pc \in Answers

-----------------------------------------------------------------------------
(* The inductive invariant behind the safety properties *)

\* The locks of a call: that of its content, and that of its key once it has it.
HasKeyLock(r) == KeyOf[r] # NoKey /\ request[r].pc \in {"looking", "upserting", "admitting"}

LocksOf(r) ==
    IF request[r].pc \in Locking \ {"locking"}
    THEN {LockOf[ObjectOf[r]]} \cup (IF HasKeyLock(r) THEN {LockOf[KeyOf[r]]} ELSE {})
    ELSE {}

\* A lock is held by the call that says so, and by nobody else.
LocksOK ==
    /\ \A r \in Requests, l \in Locks : lock[l] = r <=> l \in LocksOf(r)
    /\ \A r \in Requests : request[r].pc \in {"keying", "looking"} => KeyOf[r] # NoKey

\* A call that will record its key still may.
KeysOK ==
    \A r \in Requests :
        KeyOf[r] # NoKey /\ request[r].pc \in {"upserting", "admitting"} => ~ KeyIsRecorded(r)

\* An arrival is that of a call that committed, its key is recorded with the
\* receipt it got, and every recorded key is that of an arrival.
ArrivalsOK ==
    /\ \A r \in Requests :
          /\ request[r].pc \in {"committed", "created"} => r \in arrival
          /\ r \in arrival => request[r].pc \in {"committed", "created", "interrupted"}
    /\ \A r \in arrival : KeyOf[r] # NoKey => \E p \in recorded : p.by = r
    /\ \A p \in recorded : /\ p.by \in arrival
                            /\ p.key = KeyOf[p.by]
                            /\ p.receipt = request[p.by].receipt

ReplaysOK ==
    \A r \in Requests : request[r].pc = "replayed" =>
        \E p \in recorded : /\ p.key = KeyOf[r]
                            /\ PrintOf[p.by] = PrintOf[r]
                            /\ p.receipt = request[r].receipt

\* Until it commits a receipt names the call itself; then a job that is there.
RowsOK ==
    /\ \A r \in Requests :
          /\ request[r].pc # "new" => ObjectOf[r] \in blob
          /\ request[r].pc # "replayed" => /\ request[r].receipt.object = ObjectOf[r]
                                           /\ request[r].receipt.arrival = r
    /\ \A r \in arrival : /\ ObjectOf[r] \in source
                           /\ \E j \in JobsOf(ObjectOf[r]) : j.id = request[r].receipt.job
    /\ source \subseteq blob

\* What a call has read about its content is still true when it commits.
DuplicatesOK ==
    \A r \in Requests : request[r].pc = "admitting" =>
        (request[r].receipt.duplicate <=> ObjectOf[r] \in source)

IInv ==
    /\ TypeOK
    /\ LocksOK
    /\ KeysOK
    /\ ArrivalsOK
    /\ ReplaysOK
    /\ RowsOK
    /\ DuplicatesOK
    /\ OncePerKey
    /\ OneDeliveryIsNew
    /\ OneJobPerAdmittedSource

=============================================================================
