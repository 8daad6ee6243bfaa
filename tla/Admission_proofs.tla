-------------------------- MODULE Admission_proofs --------------------------
(***************************************************************************)
(* Safety of Admission for every number of calls, contents, keys and locks. *)
(***************************************************************************)
EXTENDS Admission, TLAPS

USE RequestsAssumption, PrintsAssumption, NamesAssumption, InterruptsAssumption

-----------------------------------------------------------------------------
(* What a step does to the calls *)

\* A step of call r, whatever it is.
Step(r) == RequestStep(r) \/ Interrupt(r) \/ BreakDeadlock(r)

\* A step is one of a call, or one of the rest of the API.
LEMMA Steps ==
    ASSUME Next
    PROVE  \/ \E r \in Requests : Step(r)
           \/ \E u \in UserJobs, o \in Objects : CreateJob(u, o)
           \/ \E j \in job : SettleJob(j)
  BY DEF Next, Step

\* The call that steps leaves the others alone ...
LEMMA OthersStay ==
    ASSUME TypeOK, NEW r \in Requests, Step(r), NEW q \in Requests \ {r}
    PROVE  request'[q] = request[q]
  BY DEF TypeOK, Step, RequestStep, StoreCanonical, LockObject, LockKey, FindPrior, FindNoPrior,
         UpsertObject, Admit, Respond, Interrupt, BreakDeadlock, Goto

\* ... and a job step leaves them all alone.
LEMMA JobStepsStay ==
    ASSUME (\E u \in UserJobs, o \in Objects : CreateJob(u, o)) \/ (\E j \in job : SettleJob(j))
    PROVE  UNCHANGED <<blob, source, arrival, recorded, lock, request, interrupts>>
  BY DEF CreateJob, SettleJob

-----------------------------------------------------------------------------
(* Type correctness *)

LEMMA InitType == Init => TypeOK
  <1> SUFFICES ASSUME Init PROVE TypeOK
    OBVIOUS
  <1>1. \A r \in Requests : NoReceipt(r) \in Receipts
    BY DEF NoReceipt, Receipts, Jobs
  <1> QED
    BY <1>1 DEF Init, TypeOK, PCs

LEMMA GotoType ==
    ASSUME TypeOK, NEW r \in Requests, NEW pc \in PCs, Goto(r, pc)
    PROVE  request' \in [Requests -> [pc : PCs, receipt : Receipts]]
  BY DEF TypeOK, Goto

LEMMA EndType ==
    ASSUME TypeOK, NEW r \in Requests, NEW pc, EndTransaction(r, pc)
    PROVE  lock' \in [Locks -> Requests \cup {Nobody}]
  BY DEF TypeOK, EndTransaction, LocksAfter

LEMMA NextType ==
    ASSUME TypeOK, [Next]_vars
    PROVE  TypeOK'
  <1>0. CASE UNCHANGED vars
    BY <1>0 DEF TypeOK, vars, tables
  <1>1. ASSUME NEW r \in Requests, StoreCanonical(r) PROVE TypeOK'
    <2>1. request' \in [Requests -> [pc : PCs, receipt : Receipts]]
      BY <1>1, GotoType DEF StoreCanonical, PCs, Locking
    <2> QED
      BY <1>1, <2>1 DEF TypeOK, StoreCanonical, tables
  <1>2. ASSUME NEW r \in Requests, LockObject(r) PROVE TypeOK'
    <2>1. request' \in [Requests -> [pc : PCs, receipt : Receipts]]
      BY <1>2, GotoType DEF LockObject, PCs, Locking
    <2> QED
      BY <1>2, <2>1 DEF TypeOK, LockObject, tables
  <1>3. ASSUME NEW r \in Requests, LockKey(r) PROVE TypeOK'
    <2>1. request' \in [Requests -> [pc : PCs, receipt : Receipts]]
      BY <1>3, GotoType DEF LockKey, PCs, Locking
    <2> QED
      BY <1>3, <2>1 DEF TypeOK, LockKey, tables
  <1>4. ASSUME NEW r \in Requests, FindPrior(r) PROVE TypeOK'
    <2>1. PICK p \in recorded :
             LET pc == IF SameRequest(p, r) THEN "replayed" ELSE "conflict"
             IN  /\ request' = [request EXCEPT ![r] =
                       [pc |-> pc,
                        receipt |-> IF pc = "replayed" THEN p.receipt ELSE request[r].receipt]]
                 /\ EndTransaction(r, pc)
      BY <1>4 DEF FindPrior
    <2>2. p.receipt \in Receipts
      BY DEF TypeOK, Recorded
    <2>3. request' \in [Requests -> [pc : PCs, receipt : Receipts]]
      BY <2>1, <2>2 DEF TypeOK, PCs, Answers
    <2>4. lock' \in [Locks -> Requests \cup {Nobody}]
      BY <2>1, EndType
    <2> QED
      BY <1>4, <2>3, <2>4 DEF TypeOK, FindPrior, tables
  <1>5. ASSUME NEW r \in Requests, FindNoPrior(r) PROVE TypeOK'
    <2>1. request' \in [Requests -> [pc : PCs, receipt : Receipts]]
      BY <1>5, GotoType DEF FindNoPrior, PCs, Locking
    <2> QED
      BY <1>5, <2>1 DEF TypeOK, FindNoPrior, tables
  <1>6. ASSUME NEW r \in Requests, UpsertObject(r) PROVE TypeOK'
    <2>1. [request[r].receipt EXCEPT !.duplicate = IsDuplicate(ObjectOf[r])] \in Receipts
      <3>1. request[r].receipt \in Receipts
        BY DEF TypeOK
      <3>2. IsDuplicate(ObjectOf[r]) \in BOOLEAN
        BY DEF IsDuplicate
      <3>. HIDE DEF IsDuplicate
      <3> QED
        BY <3>1, <3>2 DEF Receipts
    <2>2. request' \in [Requests -> [pc : PCs, receipt : Receipts]]
      BY <1>6, <2>1 DEF TypeOK, UpsertObject, PCs, Locking
    <2> QED
      BY <1>6, <2>2 DEF TypeOK, UpsertObject, tables
  <1>7. ASSUME NEW r \in Requests, Admit(r) PROVE TypeOK'
    <2>1. CASE KeyIsRecorded(r)
      <3>1. request' \in [Requests -> [pc : PCs, receipt : Receipts]]
        BY <1>7, <2>1, GotoType DEF Admit, PCs, Answers
      <3>2. lock' \in [Locks -> Requests \cup {Nobody}]
        BY <1>7, <2>1, EndType DEF Admit
      <3> QED
        BY <1>7, <2>1, <3>1, <3>2 DEF TypeOK, Admit, tables
    <2>2. CASE ~ KeyIsRecorded(r)
      <3> DEFINE o == ObjectOf[r]
                 new == [id |-> r, source |-> o, active |-> TRUE]
      <3>1. PICK j \in IF JobsToReuse(o) = {} THEN {new} ELSE JobsToReuse(o) :
               LET receipt == [request[r].receipt EXCEPT !.job = j.id]
               IN  /\ job' = job \cup {j}
                   /\ recorded' = recorded \cup Record(r, receipt)
                   /\ request' = [request EXCEPT ![r] =
                                     [pc |-> "committed", receipt |-> receipt]]
        BY <1>7, <2>2 DEF Admit
      <3>2. j \in JobRows
        <4>1. new \in JobRows
          BY DEF JobRows, Jobs
        <4>2. JobsToReuse(o) \subseteq JobRows
          BY DEF TypeOK, JobsToReuse, ActiveOf, JobsOf
        <4> QED
          BY <4>1, <4>2
      <3>3. [request[r].receipt EXCEPT !.job = j.id] \in Receipts
        BY <3>2 DEF TypeOK, Receipts, JobRows
      <3>4. recorded' \in SUBSET Recorded
        <4>1. KeyOf[r] # NoKey => KeyOf[r] \in Keys
          OBVIOUS
        <4>2. Record(r, [request[r].receipt EXCEPT !.job = j.id]) \subseteq Recorded
          BY <3>3, <4>1 DEF Record, Recorded
        <4> QED
          BY <3>1, <4>2 DEF TypeOK
      <3>5. request' \in [Requests -> [pc : PCs, receipt : Receipts]]
        BY <3>1, <3>3 DEF TypeOK, PCs
      <3>6. lock' \in [Locks -> Requests \cup {Nobody}]
        BY <1>7, <2>2, EndType DEF Admit
      <3>7. job' \in SUBSET JobRows
        BY <3>1, <3>2 DEF TypeOK
      <3>8. source' = source \cup {o} /\ arrival' = arrival \cup {r} /\ UNCHANGED <<blob, interrupts>>
        BY <1>7, <2>2 DEF Admit
      <3> QED
        BY <3>4, <3>5, <3>6, <3>7, <3>8 DEF TypeOK
    <2> QED
      BY <2>1, <2>2
  <1>8. ASSUME NEW r \in Requests, Respond(r) PROVE TypeOK'
    <2>1. request' \in [Requests -> [pc : PCs, receipt : Receipts]]
      BY <1>8, GotoType DEF Respond, PCs, Answers
    <2> QED
      BY <1>8, <2>1 DEF TypeOK, Respond, tables
  <1>9. ASSUME NEW r \in Requests, Interrupt(r) PROVE TypeOK'
    <2>1. request' \in [Requests -> [pc : PCs, receipt : Receipts]]
      BY <1>9, GotoType DEF Interrupt, PCs, Answers
    <2>2. lock' \in [Locks -> Requests \cup {Nobody}]
      BY <1>9, EndType DEF Interrupt
    <2> QED
      BY <1>9, <2>1, <2>2 DEF TypeOK, Interrupt, tables
  <1>10. ASSUME NEW r \in Requests, BreakDeadlock(r) PROVE TypeOK'
    <2>1. request' \in [Requests -> [pc : PCs, receipt : Receipts]]
      BY <1>10, GotoType DEF BreakDeadlock, PCs, Answers
    <2>2. lock' \in [Locks -> Requests \cup {Nobody}]
      BY <1>10, EndType DEF BreakDeadlock
    <2> QED
      BY <1>10, <2>1, <2>2 DEF TypeOK, BreakDeadlock, tables
  <1>11. ASSUME NEW u \in UserJobs, NEW o \in Objects, CreateJob(u, o) PROVE TypeOK'
    <2>1. job' \in SUBSET JobRows
      <3>1. [id |-> u, source |-> o, active |-> TRUE] \in JobRows
        BY DEF JobRows, Jobs
      <3> QED
        BY <1>11, <3>1 DEF TypeOK, CreateJob
    <2> QED
      BY <1>11, <2>1 DEF TypeOK, CreateJob
  <1>12. ASSUME NEW j \in job, SettleJob(j) PROVE TypeOK'
    <2>1. [j EXCEPT !.active = FALSE] \in JobRows
      <3>1. j \in JobRows
        BY DEF TypeOK
      <3> QED
        BY <3>1 DEF JobRows
    <2>2. job' = (job \ {j}) \cup {[j EXCEPT !.active = FALSE]}
      BY <1>12 DEF SettleJob
    <2>3. job' \in SUBSET JobRows
      BY <2>1, <2>2 DEF TypeOK
    <2> QED
      BY <1>12, <2>3 DEF TypeOK, SettleJob
  <1> QED
    BY <1>0, <1>1, <1>2, <1>3, <1>4, <1>5, <1>6, <1>7, <1>8, <1>9, <1>10, <1>11, <1>12
       DEF Next, RequestStep

-----------------------------------------------------------------------------
(* The two kinds of steps of a call: the one that commits, and the others *)

Commits(r) == Admit(r) /\ ~ KeyIsRecorded(r)

\* What the transaction leaves behind.
LEMMA CommitEffect ==
    ASSUME TypeOK, NEW r \in Requests, Commits(r)
    PROVE  /\ request[r].pc = "admitting"
           /\ request'[r].pc = "committed"
           /\ request'[r].receipt.object = request[r].receipt.object
           /\ request'[r].receipt.arrival = request[r].receipt.arrival
           /\ request'[r].receipt.duplicate = request[r].receipt.duplicate
           /\ source' = source \cup {ObjectOf[r]}
           /\ arrival' = arrival \cup {r}
           /\ recorded' = recorded \cup Record(r, request'[r].receipt)
           /\ blob' = blob
           /\ \E j : /\ job' = job \cup {j}
                     /\ j.source = ObjectOf[r]
                     /\ j.id = request'[r].receipt.job
                     /\ j \in job \/ (j.id = r /\ JobsOf(ObjectOf[r]) = {})
  <1> DEFINE o == ObjectOf[r]
             new == [id |-> r, source |-> o, active |-> TRUE]
  <1>1. PICK j \in IF JobsToReuse(o) = {} THEN {new} ELSE JobsToReuse(o) :
           LET receipt == [request[r].receipt EXCEPT !.job = j.id]
           IN  /\ job' = job \cup {j}
               /\ recorded' = recorded \cup Record(r, receipt)
               /\ request' = [request EXCEPT ![r] =
                                 [pc |-> "committed", receipt |-> receipt]]
    BY DEF Commits, Admit
  <1>2. request'[r] = [pc |-> "committed", receipt |-> [request[r].receipt EXCEPT !.job = j.id]]
    BY <1>1 DEF TypeOK
  <1>3. request[r].receipt \in Receipts
    BY DEF TypeOK
  <1>4. JobsToReuse(o) = {} => JobsOf(o) = {}
    BY DEF JobsToReuse
  <1>5. j.source = o /\ (j \in job \/ (j.id = r /\ JobsOf(o) = {}))
    BY <1>1, <1>4 DEF JobsToReuse, ActiveOf, JobsOf
  <1>6. [request[r].receipt EXCEPT !.job = j.id].job = j.id
    BY <1>3 DEF Receipts
  <1>7. request[r].pc = "admitting" /\ source' = source \cup {o} /\ arrival' = arrival \cup {r}
        /\ blob' = blob
    BY DEF Commits, Admit
  <1>8. /\ request'[r].receipt.object = request[r].receipt.object
        /\ request'[r].receipt.arrival = request[r].receipt.arrival
        /\ request'[r].receipt.duplicate = request[r].receipt.duplicate
    BY <1>2, <1>3 DEF Receipts
  <1> QED
    BY <1>1, <1>2, <1>5, <1>6, <1>7, <1>8

\* Any other step of a call leaves the tables as they are and does not commit;
\* it changes the receipt only to replay another or to note the duplicate.
LEMMA QuietEffect ==
    ASSUME TypeOK, NEW r \in Requests, Step(r), ~ Commits(r)
    PROVE  /\ UNCHANGED tables
           /\ request'[r].pc = "created" => request[r].pc = "committed"
           /\ request'[r].pc # "committed"
           /\ request'[r].pc # "new"
           /\ request'[r].pc = "replayed" => FindPrior(r)
           /\ request'[r].pc = "upserting" => FindNoPrior(r) \/ KeyOf[r] = NoKey
           /\ request'[r].pc = "admitting" => UpsertObject(r)
           /\ request[r].pc \notin {"created", "interrupted", "replayed"}
           /\ request[r].pc = "committed" => request'[r].pc \in {"created", "interrupted"}
           /\ \/ request'[r].receipt = request[r].receipt
              \/ FindPrior(r) /\ request'[r].pc = "replayed"
              \/ UpsertObject(r)
  <1>1. CASE StoreCanonical(r)
    BY <1>1 DEF TypeOK, StoreCanonical, Goto
  <1>2. CASE LockObject(r)
    BY <1>2 DEF TypeOK, LockObject, Goto
  <1>3. CASE LockKey(r)
    BY <1>3 DEF TypeOK, LockKey, Goto
  <1>4. CASE FindPrior(r)
    <2>1. PICK p \in recorded :
             LET pc == IF SameRequest(p, r) THEN "replayed" ELSE "conflict"
             IN  request' = [request EXCEPT ![r] =
                    [pc |-> pc,
                     receipt |-> IF pc = "replayed" THEN p.receipt ELSE request[r].receipt]]
      BY <1>4 DEF FindPrior
    <2>2. request[r].pc = "looking" /\ UNCHANGED tables
      BY <1>4 DEF FindPrior
    <2>3. CASE SameRequest(p, r)
      BY <1>4, <2>1, <2>2, <2>3 DEF TypeOK
    <2>4. CASE ~ SameRequest(p, r)
      BY <2>1, <2>2, <2>4 DEF TypeOK
    <2> QED
      BY <2>3, <2>4
  <1>5. CASE FindNoPrior(r)
    BY <1>5 DEF TypeOK, FindNoPrior, Goto
  <1>6. CASE UpsertObject(r)
    BY <1>6 DEF TypeOK, UpsertObject
  <1>7. CASE Admit(r)
    <2>1. KeyIsRecorded(r)
      BY <1>7 DEF Commits
    <2>2. request[r].pc = "admitting" /\ Goto(r, "error") /\ UNCHANGED tables
      BY <1>7, <2>1 DEF Admit
    <2> QED
      BY <2>2 DEF TypeOK, Goto
  <1>8. CASE Respond(r)
    BY <1>8 DEF TypeOK, Respond, Goto
  <1>9. CASE Interrupt(r)
    BY <1>9 DEF TypeOK, Interrupt, Goto, Locking
  <1>10. CASE BreakDeadlock(r)
    <2>1. request[r].pc \in {"locking", "keying"}
      BY <1>10 DEF BreakDeadlock, Deadlocked, WaitsFor
    <2> QED
      BY <1>10, <2>1 DEF TypeOK, BreakDeadlock, Goto
  <1> QED
    BY <1>1, <1>2, <1>3, <1>4, <1>5, <1>6, <1>7, <1>8, <1>9, <1>10 DEF Step, RequestStep

-----------------------------------------------------------------------------
(* Locks *)

\* Two calls in their transactions are about different contents ...
LEMMA ObjectsExclude ==
    ASSUME LocksOK, NEW r \in Requests, NEW q \in Requests \ {r},
           request[r].pc \in Locking \ {"locking"}, request[q].pc \in Locking \ {"locking"}
    PROVE  ObjectOf[r] # ObjectOf[q]
  <1> SUFFICES ASSUME ObjectOf[r] = ObjectOf[q] PROVE FALSE
    OBVIOUS
  <1>1. LockOf[ObjectOf[r]] \in Locks
    OBVIOUS
  <1>2. LockOf[ObjectOf[r]] \in LocksOf(r) /\ LockOf[ObjectOf[r]] \in LocksOf(q)
    BY DEF LocksOf
  <1> QED
    BY <1>1, <1>2 DEF LocksOK

\* ... and have different keys.
LEMMA KeysExclude ==
    ASSUME LocksOK, NEW r \in Requests, NEW q \in Requests \ {r}, HasKeyLock(r), HasKeyLock(q)
    PROVE  KeyOf[r] # KeyOf[q]
  <1> SUFFICES ASSUME KeyOf[r] = KeyOf[q] PROVE FALSE
    OBVIOUS
  <1>1. KeyOf[r] \in Keys
    BY DEF HasKeyLock
  <1>2. LockOf[KeyOf[r]] \in Locks
    BY <1>1
  <1>3. LockOf[KeyOf[r]] \in LocksOf(r) /\ LockOf[KeyOf[r]] \in LocksOf(q)
    BY DEF LocksOf, HasKeyLock, Locking
  <1> QED
    BY <1>2, <1>3 DEF LocksOK

\* A step of a call keeps its locks, takes a free one, or gives up all.
LockEffect(r) ==
    \/ lock' = lock /\ LocksOf(r)' = LocksOf(r)
    \/ \E l \in Locks : /\ LockFree(r, l)
                        /\ lock' = [lock EXCEPT ![l] = r]
                        /\ LocksOf(r)' = LocksOf(r) \cup {l}
    \/ /\ lock' = [l \in Locks |-> IF lock[l] = r THEN Nobody ELSE lock[l]]
       /\ LocksOf(r)' = {}

LEMMA LockEffects ==
    ASSUME TypeOK, LocksOK, NEW r \in Requests, Step(r)
    PROVE  /\ LockEffect(r)
           /\ request'[r].pc \in {"keying", "looking"} => KeyOf[r] # NoKey
  <1>0. /\ request'[r].pc \in Answers \cup {"committed", "new", "locking"} => LocksOf(r)' = {}
        /\ request[r].pc \in Answers \cup {"committed", "new", "locking"} => LocksOf(r) = {}
    BY DEF LocksOf, Answers, Locking
  <1>1. CASE StoreCanonical(r)
    <2>1. request[r].pc = "new" /\ request'[r].pc = "locking" /\ lock' = lock
      BY <1>1 DEF TypeOK, StoreCanonical, Goto
    <2> QED
      BY <1>0, <2>1 DEF LockEffect
  <1>2. CASE LockObject(r)
    <2>1. LockOf[ObjectOf[r]] \in Locks
      OBVIOUS
    <2>2. /\ request[r].pc = "locking"
          /\ request'[r].pc = IF KeyOf[r] = NoKey THEN "upserting" ELSE "keying"
          /\ LockFree(r, LockOf[ObjectOf[r]])
          /\ lock' = [lock EXCEPT ![LockOf[ObjectOf[r]]] = r]
      BY <1>2 DEF TypeOK, LockObject, Goto
    <2>3. LocksOf(r)' = {LockOf[ObjectOf[r]]} /\ LocksOf(r) = {}
      BY <1>0, <2>2 DEF LocksOf, HasKeyLock, Locking
    <2> QED
      BY <2>1, <2>2, <2>3 DEF LockEffect
  <1>3. CASE LockKey(r)
    <2>1. KeyOf[r] # NoKey
      BY <1>3 DEF LockKey, LocksOK
    <2>2. LockOf[KeyOf[r]] \in Locks
      BY <2>1
    <2>3. /\ request[r].pc = "keying"
          /\ request'[r].pc = "looking"
          /\ LockFree(r, LockOf[KeyOf[r]])
          /\ lock' = [lock EXCEPT ![LockOf[KeyOf[r]]] = r]
      BY <1>3 DEF TypeOK, LockKey, Goto
    <2>4. LocksOf(r)' = LocksOf(r) \cup {LockOf[KeyOf[r]]}
      BY <2>1, <2>3 DEF LocksOf, HasKeyLock, Locking
    <2> QED
      BY <2>1, <2>2, <2>3, <2>4 DEF LockEffect
  <1>4. CASE FindPrior(r)
    <2>1. PICK pc \in {"replayed", "conflict"} : request'[r].pc = pc /\ EndTransaction(r, pc)
      <3>1. PICK p \in recorded :
               LET pc == IF SameRequest(p, r) THEN "replayed" ELSE "conflict"
               IN  /\ request' = [request EXCEPT ![r] =
                         [pc |-> pc,
                          receipt |-> IF pc = "replayed" THEN p.receipt ELSE request[r].receipt]]
                   /\ EndTransaction(r, pc)
        BY <1>4 DEF FindPrior
      <3> QED
        BY <3>1 DEF TypeOK
    <2> QED
      BY <1>0, <2>1 DEF LockEffect, EndTransaction, LocksAfter, Answers
  <1>5. CASE FindNoPrior(r)
    <2>1. request[r].pc = "looking" /\ request'[r].pc = "upserting" /\ lock' = lock
      BY <1>5 DEF TypeOK, FindNoPrior, Goto
    <2>2. LocksOf(r)' = LocksOf(r)
      BY <2>1 DEF LocksOf, HasKeyLock, Locking
    <2> QED
      BY <2>1, <2>2 DEF LockEffect
  <1>6. CASE UpsertObject(r)
    <2>1. request[r].pc = "upserting" /\ request'[r].pc = "admitting" /\ lock' = lock
      BY <1>6 DEF TypeOK, UpsertObject
    <2>2. LocksOf(r)' = LocksOf(r)
      BY <2>1 DEF LocksOf, HasKeyLock, Locking
    <2> QED
      BY <2>1, <2>2 DEF LockEffect
  <1>7. CASE Admit(r)
    <2>1. request'[r].pc \in {"committed", "error"} /\ \E pc : EndTransaction(r, pc)
      <3>1. CASE Commits(r)
        BY <1>7, <3>1, CommitEffect DEF Commits, Admit
      <3>2. CASE KeyIsRecorded(r)
        BY <1>7, <3>2 DEF TypeOK, Admit, Goto
      <3> QED
        BY <1>7, <3>1, <3>2 DEF Commits
    <2> QED
      BY <1>0, <2>1 DEF LockEffect, EndTransaction, LocksAfter, Answers
  <1>8. CASE Respond(r)
    <2>1. request[r].pc = "committed" /\ request'[r].pc = "created" /\ lock' = lock
      BY <1>8 DEF TypeOK, Respond, Goto
    <2> QED
      BY <1>0, <2>1 DEF LockEffect, Answers
  <1>9. CASE Interrupt(r)
    <2>1. request'[r].pc = "interrupted" /\ EndTransaction(r, "interrupted")
      BY <1>9 DEF TypeOK, Interrupt, Goto
    <2> QED
      BY <1>0, <2>1 DEF LockEffect, EndTransaction, LocksAfter, Answers
  <1>10. CASE BreakDeadlock(r)
    <2>1. request'[r].pc = "error" /\ EndTransaction(r, "error")
      BY <1>10 DEF TypeOK, BreakDeadlock, Goto
    <2> QED
      BY <1>0, <2>1 DEF LockEffect, EndTransaction, LocksAfter, Answers
  <1> QED
    BY <1>1, <1>2, <1>3, <1>4, <1>5, <1>6, <1>7, <1>8, <1>9, <1>10 DEF Step, RequestStep

LEMMA LocksStep ==
    ASSUME TypeOK, LocksOK, NEW r \in Requests, Step(r)
    PROVE  LocksOK'
  <1>1. \A q \in Requests \ {r} : request'[q] = request[q]
    BY OthersStay
  <1>2. \A q \in Requests \ {r} : LocksOf(q)' = LocksOf(q)
    BY <1>1 DEF LocksOf, HasKeyLock
  <1>3. \A q \in Requests : request'[q].pc \in {"keying", "looking"} => KeyOf[q] # NoKey
    BY <1>1, LockEffects DEF LocksOK
  <1>4. ASSUME NEW q \in Requests, NEW l \in Locks
        PROVE  lock'[l] = q <=> l \in LocksOf(q)'
    <2>1. \A k \in Requests : lock[l] = k <=> l \in LocksOf(k)
      BY DEF LocksOK
    <2>2. q # Nobody /\ r # Nobody
      OBVIOUS
    <2>3. lock \in [Locks -> Requests \cup {Nobody}]
      BY DEF TypeOK
    <2>4. CASE lock' = lock /\ LocksOf(r)' = LocksOf(r)
      BY <1>2, <2>1, <2>4
    <2>5. ASSUME NEW m \in Locks, LockFree(r, m), lock' = [lock EXCEPT ![m] = r],
                 LocksOf(r)' = LocksOf(r) \cup {m}
          PROVE  lock'[l] = q <=> l \in LocksOf(q)'
      BY <1>2, <2>1, <2>2, <2>3, <2>5 DEF LockFree
    <2>6. CASE /\ lock' = [m \in Locks |-> IF lock[m] = r THEN Nobody ELSE lock[m]]
               /\ LocksOf(r)' = {}
      BY <1>2, <2>1, <2>2, <2>3, <2>6
    <2> QED
      BY <2>4, <2>5, <2>6, LockEffects DEF LockEffect
  <1> QED
    BY <1>3, <1>4 DEF LocksOK

-----------------------------------------------------------------------------
(* Keys, arrivals and replays *)

\* A call is past its lookup of the key only if nobody has recorded the key, and
\* nobody else can while it holds the key's lock.
LEMMA KeysStep ==
    ASSUME TypeOK, LocksOK, KeysOK, NEW r \in Requests, Step(r)
    PROVE  KeysOK'
  <1> SUFFICES ASSUME NEW q \in Requests, KeyOf[q] # NoKey,
                      request'[q].pc \in {"upserting", "admitting"}
               PROVE  ~ KeyIsRecorded(q)'
    BY DEF KeysOK
  <1>1. CASE Commits(r)
    <2>1. q # r
      BY <1>1, CommitEffect
    <2>2. request'[q] = request[q]
      BY <2>1, OthersStay
    <2>3. ~ KeyIsRecorded(q)
      BY <2>2 DEF KeysOK
    <2>4. recorded' = recorded \cup Record(r, request'[r].receipt) /\ request[r].pc = "admitting"
      BY <1>1, CommitEffect
    <2>5. CASE KeyOf[r] = NoKey
      BY <2>3, <2>4, <2>5 DEF Record, KeyIsRecorded
    <2>6. CASE KeyOf[r] # NoKey
      <3>1. HasKeyLock(r) /\ HasKeyLock(q)
        BY <2>2, <2>4, <2>6 DEF HasKeyLock
      <3>2. KeyOf[r] # KeyOf[q]
        BY <2>1, <3>1, KeysExclude
      <3> QED
        BY <2>3, <2>4, <3>2 DEF Record, KeyIsRecorded
    <2> QED
      BY <2>5, <2>6
  <1>2. CASE ~ Commits(r)
    <2>1. recorded' = recorded
      BY <1>2, QuietEffect DEF tables
    <2>2. CASE q # r
      BY <2>1, <2>2, OthersStay DEF KeysOK, KeyIsRecorded
    <2>3. CASE q = r
      <3>1. CASE FindNoPrior(r)
        BY <2>1, <2>3, <3>1 DEF FindNoPrior, KeyIsRecorded
      <3>2. CASE UpsertObject(r)
        BY <2>1, <2>3, <3>2 DEF UpsertObject, KeysOK, KeyIsRecorded
      <3> QED
        BY <1>2, <2>3, <3>1, <3>2, QuietEffect
    <2> QED
      BY <2>2, <2>3
  <1> QED
    BY <1>1, <1>2

LEMMA ArrivalsStep ==
    ASSUME TypeOK, ArrivalsOK, NEW r \in Requests, Step(r)
    PROVE  ArrivalsOK'
  <1>0. \A q \in Requests \ {r} : request'[q] = request[q]
    BY OthersStay
  <1>00. arrival \subseteq Requests /\ \A p \in recorded : p.by \in arrival
    BY DEF TypeOK, ArrivalsOK
  <1>1. CASE Commits(r)
    <2>1. /\ request[r].pc = "admitting"
          /\ request'[r].pc = "committed"
          /\ arrival' = arrival \cup {r}
          /\ recorded' = recorded \cup Record(r, request'[r].receipt)
      BY <1>1, CommitEffect
    <2>2. r \notin arrival
      BY <2>1 DEF ArrivalsOK
    <2>3. \A q \in Requests :
            /\ request'[q].pc \in {"committed", "created"} => q \in arrival'
            /\ q \in arrival' => request'[q].pc \in {"committed", "created", "interrupted"}
      BY <1>0, <2>1 DEF ArrivalsOK
    <2>4. \A q \in arrival' : KeyOf[q] # NoKey => \E p \in recorded' : p.by = q
      <3>1. \A q \in arrival : KeyOf[q] # NoKey => \E p \in recorded : p.by = q
        BY DEF ArrivalsOK
      <3>2. KeyOf[r] # NoKey => \E p \in Record(r, request'[r].receipt) : p.by = r
        BY DEF Record
      <3> QED
        BY <2>1, <3>1, <3>2
    <2>5. \A p \in recorded' : /\ p.by \in arrival'
                               /\ p.key = KeyOf[p.by]
                               /\ p.receipt = request'[p.by].receipt
      <3>1. ASSUME NEW p \in recorded
            PROVE  /\ p.by \in arrival'
                   /\ p.key = KeyOf[p.by]
                   /\ p.receipt = request'[p.by].receipt
        BY <1>0, <1>00, <2>1, <2>2 DEF ArrivalsOK
      <3>2. ASSUME NEW p \in Record(r, request'[r].receipt)
            PROVE  /\ p.by \in arrival'
                   /\ p.key = KeyOf[p.by]
                   /\ p.receipt = request'[p.by].receipt
        BY <2>1 DEF Record
      <3> QED
        BY <2>1, <3>1, <3>2
    <2> QED
      BY <2>3, <2>4, <2>5 DEF ArrivalsOK
  <1>2. CASE ~ Commits(r)
    <2>1. arrival' = arrival /\ recorded' = recorded
      BY <1>2, QuietEffect DEF tables
    <2>2. \A q \in Requests :
            /\ request'[q].pc \in {"committed", "created"} => q \in arrival
            /\ q \in arrival => request'[q].pc \in {"committed", "created", "interrupted"}
      BY <1>0, <1>2, QuietEffect DEF ArrivalsOK
    <2>3. r \in arrival => request'[r].receipt = request[r].receipt
      BY <1>2, QuietEffect DEF ArrivalsOK, FindPrior, UpsertObject
    <2> QED
      BY <1>0, <1>00, <2>1, <2>2, <2>3 DEF ArrivalsOK
  <1> QED
    BY <1>1, <1>2

LEMMA ReplaysStep ==
    ASSUME TypeOK, ReplaysOK, NEW r \in Requests, Step(r)
    PROVE  ReplaysOK'
  <1> SUFFICES ASSUME NEW q \in Requests, request'[q].pc = "replayed"
               PROVE  \E p \in recorded' : /\ p.key = KeyOf[q]
                                           /\ PrintOf[p.by] = PrintOf[q]
                                           /\ p.receipt = request'[q].receipt
    BY DEF ReplaysOK
  <1>1. recorded \subseteq recorded'
    BY CommitEffect, QuietEffect DEF tables
  <1>2. CASE q # r
    BY <1>1, <1>2, OthersStay DEF ReplaysOK
  <1>3. CASE q = r
    <2>1. FindPrior(r)
      <3>1. ~ Commits(r)
        BY <1>3, CommitEffect
      <3> QED
        BY <1>3, <3>1, QuietEffect
    <2>2. PICK p \in recorded :
             /\ p.key = KeyOf[r]
             /\ LET pc == IF SameRequest(p, r) THEN "replayed" ELSE "conflict"
                IN  request' = [request EXCEPT ![r] =
                       [pc |-> pc,
                        receipt |-> IF pc = "replayed" THEN p.receipt ELSE request[r].receipt]]
      BY <2>1 DEF FindPrior
    <2>3. SameRequest(p, r)
      BY <1>3, <2>2 DEF TypeOK
    <2>4. request'[r].receipt = p.receipt
      BY <2>2, <2>3 DEF TypeOK
    <2> QED
      BY <1>1, <1>3, <2>2, <2>3, <2>4 DEF SameRequest
  <1> QED
    BY <1>2, <1>3

-----------------------------------------------------------------------------
(* Rows, duplicates and jobs *)

\* A call that has begun has its content in the blob store.
LEMMA BlobEffect ==
    ASSUME TypeOK, NEW r \in Requests, Step(r)
    PROVE  /\ blob \subseteq blob'
           /\ request[r].pc = "new" => ObjectOf[r] \in blob'
  <1>1. CASE StoreCanonical(r)
    BY <1>1 DEF StoreCanonical
  <1>2. CASE ~ StoreCanonical(r)
    BY <1>2, CommitEffect
       DEF Step, RequestStep, LockObject, LockKey, FindPrior, FindNoPrior, UpsertObject,
           Admit, Respond, Interrupt, BreakDeadlock, Deadlocked, WaitsFor, Locking
  <1> QED
    BY <1>1, <1>2

\* UpsertObject notes the duplicate and nothing else.
LEMMA UpsertEffect ==
    ASSUME TypeOK, NEW r \in Requests, UpsertObject(r)
    PROVE  /\ request'[r].receipt.object = request[r].receipt.object
           /\ request'[r].receipt.arrival = request[r].receipt.arrival
           /\ request'[r].receipt.duplicate <=> ObjectOf[r] \in source
           /\ request[r].pc = "upserting" /\ request'[r].pc = "admitting"
  <1>1. request[r].receipt \in Receipts
    BY DEF TypeOK
  <1> DEFINE known == IsDuplicate(ObjectOf[r])
             noted == [request[r].receipt EXCEPT !.duplicate = known]
  <1>2. request'[r] = [pc |-> "admitting", receipt |-> noted]
    BY DEF TypeOK, UpsertObject
  <1>3. noted.duplicate = known
    <2>. HIDE DEF known
    <2> QED
      BY <1>1 DEF Receipts
  <1>4. request[r].pc = "upserting"
    BY DEF UpsertObject
  <1>5. request'[r].receipt.duplicate <=> ObjectOf[r] \in source
    <2>1. request'[r].receipt.duplicate = known
      <3>. HIDE DEF noted
      <3> QED
        BY <1>2, <1>3
    <2> QED
      BY <2>1, Zenon DEF IsDuplicate
  <1>6. /\ request'[r].receipt.object = request[r].receipt.object
        /\ request'[r].receipt.arrival = request[r].receipt.arrival
    BY <1>1, <1>2 DEF Receipts
  <1> QED
    BY <1>2, <1>4, <1>5, <1>6

LEMMA RowsStep ==
    ASSUME TypeOK, ArrivalsOK, RowsOK, NEW r \in Requests, Step(r)
    PROVE  RowsOK'
  <1>0. \A q \in Requests \ {r} : request'[q] = request[q]
    BY OthersStay
  <1>1. blob \subseteq blob' /\ (request[r].pc = "new" => ObjectOf[r] \in blob')
    BY BlobEffect
  <1>2. \A q \in Requests : request'[q].pc # "new" => ObjectOf[q] \in blob'
    BY <1>0, <1>1 DEF RowsOK
  <1>3. ASSUME NEW q \in Requests, request'[q].pc # "replayed"
        PROVE  request'[q].receipt.object = ObjectOf[q] /\ request'[q].receipt.arrival = q
    <2>1. CASE q # r
      BY <1>0, <1>3, <2>1 DEF RowsOK
    <2>2. CASE q = r /\ Commits(r)
      BY <2>2, CommitEffect DEF RowsOK
    <2>3. CASE q = r /\ UpsertObject(r)
      BY <2>3, UpsertEffect DEF RowsOK
    <2>4. CASE q = r /\ ~ Commits(r) /\ ~ UpsertObject(r)
      BY <1>3, <2>4, QuietEffect DEF RowsOK
    <2> QED
      BY <2>1, <2>2, <2>3, <2>4
  <1>4. CASE Commits(r)
    <2>1. PICK j : /\ job' = job \cup {j}
                   /\ j.source = ObjectOf[r]
                   /\ j.id = request'[r].receipt.job
      BY <1>4, CommitEffect
    <2>2. /\ source' = source \cup {ObjectOf[r]}
          /\ arrival' = arrival \cup {r}
          /\ request[r].pc = "admitting"
          /\ blob' = blob
      BY <1>4, CommitEffect
    <2>3. source' \subseteq blob'
      BY <1>2, <2>2, <1>4, CommitEffect DEF RowsOK
    <2>4. ASSUME NEW q \in arrival'
          PROVE  /\ ObjectOf[q] \in source'
                 /\ \E k \in JobsOf(ObjectOf[q])' : k.id = request'[q].receipt.job
      <3>1. CASE q = r
        BY <2>1, <2>2, <3>1 DEF JobsOf
      <3>2. CASE q # r
        <4>1. q \in arrival /\ q \in Requests
          BY <2>2, <3>2 DEF TypeOK
        <4>2. request'[q] = request[q]
          BY <1>0, <3>2, <4>1
        <4> QED
          BY <2>1, <2>2, <4>1, <4>2 DEF RowsOK, JobsOf
      <3> QED
        BY <3>1, <3>2
    <2> QED
      BY <1>2, <1>3, <2>3, <2>4 DEF RowsOK
  <1>5. CASE ~ Commits(r)
    <2>1. source' = source /\ arrival' = arrival /\ job' = job
      BY <1>5, QuietEffect DEF tables
    <2>2. r \in arrival => request'[r].receipt = request[r].receipt
      BY <1>5, QuietEffect DEF ArrivalsOK, FindPrior, UpsertObject
    <2>3. \A q \in arrival : request'[q].receipt = request[q].receipt
      BY <1>0, <2>2 DEF TypeOK
    <2> QED
      BY <1>1, <1>2, <1>3, <2>1, <2>3 DEF RowsOK, JobsOf
  <1> QED
    BY <1>4, <1>5

LEMMA DuplicatesStep ==
    ASSUME TypeOK, LocksOK, DuplicatesOK, NEW r \in Requests, Step(r)
    PROVE  DuplicatesOK'
  <1> SUFFICES ASSUME NEW q \in Requests, request'[q].pc = "admitting"
               PROVE  request'[q].receipt.duplicate <=> ObjectOf[q] \in source'
    BY DEF DuplicatesOK
  <1>1. CASE q # r
    <2>1. request'[q] = request[q]
      BY <1>1, OthersStay
    <2>2. CASE Commits(r)
      <3>1. source' = source \cup {ObjectOf[r]} /\ request[r].pc = "admitting"
        BY <2>2, CommitEffect
      <3>2. ObjectOf[q] # ObjectOf[r]
        BY <1>1, <2>1, <3>1, ObjectsExclude DEF Locking
      <3> QED
        BY <2>1, <3>1, <3>2 DEF DuplicatesOK
    <2>3. CASE ~ Commits(r)
      BY <2>1, <2>3, QuietEffect DEF tables, DuplicatesOK
    <2> QED
      BY <2>2, <2>3
  <1>2. CASE q = r
    <2>1. ~ Commits(r) /\ UpsertObject(r)
      BY <1>2, CommitEffect, QuietEffect
    <2>2. source' = source
      BY <2>1, QuietEffect DEF tables
    <2> QED
      BY <1>2, <2>1, <2>2, UpsertEffect
  <1> QED
    BY <1>1, <1>2

LEMMA OnceStep ==
    ASSUME TypeOK, ArrivalsOK, OncePerKey, NEW r \in Requests, Step(r)
    PROVE  OncePerKey'
  <1>1. CASE Commits(r)
    <2>1. arrival' = arrival \cup {r}
      BY <1>1, CommitEffect
    <2>2. \A q \in arrival : KeyOf[q] # NoKey => KeyOf[q] # KeyOf[r]
      BY <1>1 DEF Commits, KeyIsRecorded, ArrivalsOK
    <2> QED
      BY <2>1, <2>2 DEF OncePerKey
  <1>2. CASE ~ Commits(r)
    BY <1>2, QuietEffect DEF tables, OncePerKey
  <1> QED
    BY <1>1, <1>2

LEMMA OneNewStep ==
    ASSUME TypeOK, ArrivalsOK, RowsOK, DuplicatesOK, OneDeliveryIsNew,
           NEW r \in Requests, Step(r)
    PROVE  OneDeliveryIsNew'
  <1>0. r \in arrival => ~ Commits(r) /\ request'[r].receipt = request[r].receipt
    BY CommitEffect, QuietEffect DEF ArrivalsOK, FindPrior, UpsertObject
  <1>1. \A q \in arrival : request'[q].receipt = request[q].receipt
    BY <1>0, OthersStay DEF TypeOK
  <1>2. CASE Commits(r)
    <2>1. /\ source' = source \cup {ObjectOf[r]}
          /\ arrival' = arrival \cup {r}
          /\ r \notin arrival
          /\ request'[r].receipt.duplicate <=> ObjectOf[r] \in source
      BY <1>0, <1>2, CommitEffect DEF DuplicatesOK
    <2>2. ASSUME NEW o \in source
          PROVE  \E n \in arrival' : /\ ObjectOf[n] = o
                                     /\ \A q \in arrival' : ObjectOf[q] = o =>
                                           (request'[q].receipt.duplicate <=> q # n)
      <3>1. PICK n \in arrival : /\ ObjectOf[n] = o
                                 /\ \A q \in arrival : ObjectOf[q] = o =>
                                       (request[q].receipt.duplicate <=> q # n)
        BY DEF OneDeliveryIsNew
      <3>2. n # r
        BY <2>1
      <3> QED
        BY <1>1, <2>1, <3>1, <3>2
    <2>3. CASE ObjectOf[r] \notin source
      <3>1. \A q \in arrival : ObjectOf[q] # ObjectOf[r]
        BY <2>3 DEF RowsOK
      <3>2. /\ r \in arrival'
            /\ \A q \in arrival' : ObjectOf[q] = ObjectOf[r] =>
                  (request'[q].receipt.duplicate <=> q # r)
        BY <2>1, <2>3, <3>1
      <3> QED
        BY <2>1, <2>2, <3>2 DEF OneDeliveryIsNew
    <2>4. CASE ObjectOf[r] \in source
      BY <2>1, <2>2, <2>4 DEF OneDeliveryIsNew
    <2> QED
      BY <2>3, <2>4
  <1>3. CASE ~ Commits(r)
    <2>1. source' = source /\ arrival' = arrival
      BY <1>3, QuietEffect DEF tables
    <2> QED
      BY <1>1, <2>1 DEF OneDeliveryIsNew
  <1> QED
    BY <1>2, <1>3

LEMMA OneJobStep ==
    ASSUME TypeOK, OneJobPerAdmittedSource, NEW r \in Requests, Step(r)
    PROVE  OneJobPerAdmittedSource'
  <1>1. CASE Commits(r)
    <2>1. PICK j : /\ job' = job \cup {j}
                   /\ j.source = ObjectOf[r]
                   /\ j \in job \/ JobsOf(ObjectOf[r]) = {}
      BY <1>1, CommitEffect
    <2>2. CASE j \in job
      BY <2>1, <2>2 DEF OneJobPerAdmittedSource
    <2>3. CASE JobsOf(ObjectOf[r]) = {}
      <3>1. \A i \in job : i.source # j.source
        BY <2>1, <2>3 DEF JobsOf
      <3> QED
        BY <2>1, <3>1 DEF OneJobPerAdmittedSource
    <2> QED
      BY <2>1, <2>2, <2>3
  <1>2. CASE ~ Commits(r)
    BY <1>2, QuietEffect DEF tables, OneJobPerAdmittedSource
  <1> QED
    BY <1>1, <1>2

-----------------------------------------------------------------------------
(* The invariant *)

\* A job that settles keeps its name and its source, and a user's job is one more.
LEMMA JobsStep ==
    ASSUME IInv,
           (\E u \in UserJobs, o \in Objects : CreateJob(u, o)) \/ (\E j \in job : SettleJob(j))
    PROVE  IInv'
  <1>1. UNCHANGED <<blob, source, arrival, recorded, lock, request, interrupts>>
    BY JobStepsStay
  <1>2. TypeOK'
    BY NextType DEF IInv, Next
  <1>3. LocksOK' /\ KeysOK' /\ ArrivalsOK' /\ ReplaysOK' /\ DuplicatesOK' /\ OncePerKey'
        /\ OneDeliveryIsNew'
    BY <1>1 DEF IInv, LocksOK, LocksOf, HasKeyLock, KeysOK, KeyIsRecorded, ArrivalsOK, ReplaysOK,
                DuplicatesOK, OncePerKey, OneDeliveryIsNew
  <1>4. \A i \in job : \E k \in job' : k.id = i.id /\ k.source = i.source
    <2>1. ASSUME NEW u \in UserJobs, NEW o \in Objects, CreateJob(u, o)
          PROVE  \A i \in job : \E k \in job' : k.id = i.id /\ k.source = i.source
      BY <2>1 DEF CreateJob
    <2>2. ASSUME NEW j \in job, SettleJob(j)
          PROVE  \A i \in job : \E k \in job' : k.id = i.id /\ k.source = i.source
      <3>1. j \in JobRows
        BY DEF IInv, TypeOK
      <3>2. [j EXCEPT !.active = FALSE].id = j.id /\ [j EXCEPT !.active = FALSE].source = j.source
        BY <3>1 DEF JobRows
      <3> QED
        BY <2>2, <3>2 DEF SettleJob
    <2> QED
      BY <2>1, <2>2
  <1>5. RowsOK'
    BY <1>1, <1>4 DEF IInv, RowsOK, JobsOf
  <1>6. OneJobPerAdmittedSource'
    <2>1. ASSUME NEW u \in UserJobs, NEW o \in Objects, CreateJob(u, o)
          PROVE  OneJobPerAdmittedSource'
      <3>1. job' = job \cup {[id |-> u, source |-> o, active |-> TRUE]} /\ u \notin Requests
        BY <2>1 DEF CreateJob
      <3> QED
        BY <3>1 DEF IInv, OneJobPerAdmittedSource
    <2>2. ASSUME NEW j \in job, SettleJob(j)
          PROVE  OneJobPerAdmittedSource'
      <3> DEFINE settled == [j EXCEPT !.active = FALSE]
      <3>1. j \in JobRows
        BY DEF IInv, TypeOK
      <3>2. settled.id = j.id /\ settled.source = j.source
        BY <3>1 DEF JobRows
      <3>3. job' = (job \ {j}) \cup {settled}
        BY <2>2 DEF SettleJob
      <3>. HIDE DEF settled
      <3> QED
        BY <3>2, <3>3 DEF IInv, OneJobPerAdmittedSource
    <2> QED
      BY <2>1, <2>2
  <1> QED
    BY <1>2, <1>3, <1>5, <1>6 DEF IInv

LEMMA InitInv == Init => IInv
  <1> SUFFICES ASSUME Init PROVE IInv
    OBVIOUS
  <1>1. \A r \in Requests : /\ request[r].pc = "new"
                            /\ request[r].receipt = NoReceipt(r)
    BY DEF Init
  <1>2. \A r \in Requests : LocksOf(r) = {}
    BY <1>1 DEF LocksOf, Locking
  <1>3. LocksOK
    BY <1>1, <1>2 DEF Init, LocksOK
  <1>4. RowsOK
    BY <1>1 DEF Init, RowsOK, NoReceipt
  <1>5. KeysOK /\ ArrivalsOK /\ ReplaysOK /\ DuplicatesOK
    BY <1>1 DEF Init, KeysOK, ArrivalsOK, ReplaysOK, DuplicatesOK
  <1>6. OncePerKey /\ OneDeliveryIsNew /\ OneJobPerAdmittedSource
    BY DEF Init, OncePerKey, OneDeliveryIsNew, OneJobPerAdmittedSource
  <1> QED
    BY <1>3, <1>4, <1>5, <1>6, InitType DEF IInv

LEMMA NextInv == IInv /\ [Next]_vars => IInv'
  <1> SUFFICES ASSUME IInv, [Next]_vars PROVE IInv'
    OBVIOUS
  <1>1. CASE UNCHANGED vars
    <2>1. UNCHANGED <<blob, source, job, arrival, recorded, lock, request, interrupts>>
      BY <1>1 DEF vars
    <2> QED
      BY <2>1, NextType
         DEF IInv, LocksOK, LocksOf, HasKeyLock, KeysOK, KeyIsRecorded, ArrivalsOK, ReplaysOK,
             RowsOK, JobsOf, DuplicatesOK, OncePerKey, OneDeliveryIsNew, OneJobPerAdmittedSource
  <1>2. ASSUME NEW r \in Requests, Step(r) PROVE IInv'
    BY <1>2, NextType, LocksStep, KeysStep, ArrivalsStep, ReplaysStep, RowsStep, DuplicatesStep,
       OnceStep, OneNewStep, OneJobStep DEF IInv
  <1> QED
    BY <1>1, <1>2, Steps, JobsStep

THEOREM Invariance == Spec => []IInv
  BY InitInv, NextInv, PTL DEF Spec

-----------------------------------------------------------------------------
(* The properties *)

\* Type correctness.
THEOREM TypeCorrect == Spec => []TypeOK
  <1>1. IInv => TypeOK
    BY DEF IInv
  <1> QED
    BY <1>1, Invariance, PTL

\* One idempotency key, one arrival.
THEOREM Once == Spec => []OncePerKey
  <1>1. IInv => OncePerKey
    BY DEF IInv
  <1> QED
    BY <1>1, Invariance, PTL

\* One idempotency key, one answer.
THEOREM SameAnswer == Spec => []SameAnswerPerKey
  <1>1. ASSUME IInv, NEW r \in Requests, Answered(r), KeyOf[r] # NoKey
        PROVE  \E p \in recorded : /\ p.key = KeyOf[r]
                                   /\ PrintOf[p.by] = PrintOf[r]
                                   /\ p.receipt = request[r].receipt
    <2>1. CASE request[r].pc = "replayed"
      BY <1>1, <2>1 DEF IInv, ReplaysOK
    <2>2. CASE request[r].pc \in {"committed", "created"}
      BY <1>1, <2>2 DEF IInv, ArrivalsOK
    <2> QED
      BY <1>1, <2>1, <2>2 DEF Answered
  <1>2. ASSUME IInv, NEW p \in recorded, NEW q \in recorded, p.key = q.key
        PROVE  PrintOf[p.by] = PrintOf[q.by] /\ p.receipt = q.receipt
    <2>1. p.key \in Keys
      BY <1>2 DEF IInv, TypeOK, Recorded
    <2>2. p.by = q.by
      BY <1>2, <2>1 DEF IInv, ArrivalsOK, OncePerKey
    <2> QED
      BY <1>2, <2>2 DEF IInv, ArrivalsOK
  <1>3. IInv => SameAnswerPerKey
    BY <1>1, <1>2 DEF SameAnswerPerKey
  <1> QED
    BY <1>3, Invariance, PTL

\* A receipt names rows that are there, and no row is without its bytes.
THEOREM Durable == Spec => []ReceiptsAreDurable
  <1>1. ASSUME IInv, NEW r \in Requests, r \in arrival
        PROVE  LET receipt == request[r].receipt
               IN  /\ receipt.object = ObjectOf[r]
                   /\ receipt.object \in source
                   /\ receipt.arrival = r
                   /\ \E j \in JobsOf(ObjectOf[r]) : j.id = receipt.job
    BY <1>1 DEF IInv, RowsOK, ArrivalsOK
  <1>2. ASSUME IInv, NEW r \in Requests, Answered(r)
        PROVE  LET receipt == request[r].receipt
               IN  /\ receipt.object = ObjectOf[r]
                   /\ receipt.object \in source
                   /\ receipt.arrival \in arrival
                   /\ ObjectOf[receipt.arrival] = ObjectOf[r]
                   /\ \E j \in JobsOf(ObjectOf[r]) : j.id = receipt.job
    <2>1. CASE request[r].pc \in {"committed", "created"}
      BY <1>1, <1>2, <2>1 DEF IInv, ArrivalsOK
    <2>2. CASE request[r].pc = "replayed"
      <3>1. PICK p \in recorded : PrintOf[p.by] = PrintOf[r] /\ p.receipt = request[r].receipt
        BY <1>2, <2>2 DEF IInv, ReplaysOK
      <3>2. p.by \in arrival /\ p.by \in Requests /\ p.receipt = request[p.by].receipt
        BY <1>2 DEF IInv, ArrivalsOK, TypeOK
      <3>3. ObjectOf[p.by] = ObjectOf[r]
        BY <3>1, <3>2
      <3> QED
        BY <1>1, <1>2, <3>1, <3>2, <3>3
    <2> QED
      BY <1>2, <2>1, <2>2 DEF Answered
  <1>3. IInv => ReceiptsAreDurable
    BY <1>2 DEF ReceiptsAreDurable, IInv, RowsOK
  <1> QED
    BY <1>3, Invariance, PTL

\* Exactly one delivery of a content is told that it is new.
THEOREM OneIsNew == Spec => []OneDeliveryIsNew
  <1>1. IInv => OneDeliveryIsNew
    BY DEF IInv
  <1> QED
    BY <1>1, Invariance, PTL

\* Admissions create one job per content.
THEOREM OneJob == Spec => []OneJobPerAdmittedSource
  <1>1. IInv => OneJobPerAdmittedSource
    BY DEF IInv
  <1> QED
    BY <1>1, Invariance, PTL

\* Where the locks of keys are none of contents, a call that is waited for and waits
\* itself waits for a key, and who waits for it does so for its content.
LEMMA WaiterHasNoKey ==
    ASSUME \A o \in Objects, k \in Keys : LockOf[o] # LockOf[k],
           IInv, NEW r \in Requests, NEW q \in Requests, WaitsFor(r, q),
           \E s \in Requests : WaitsFor(q, s)
    PROVE  request[r].pc = "locking" /\ request[q].pc = "keying"
  <1>1. request[q].pc \in {"locking", "keying"}
    BY DEF WaitsFor
  <1>2. LocksOf(q) # {} => request[q].pc = "keying"
    BY <1>1 DEF LocksOf
  <1>3. LocksOf(q) \subseteq {LockOf[ObjectOf[q]]}
    BY <1>1 DEF LocksOf, HasKeyLock
  <1>4. CASE request[r].pc = "locking" /\ lock[LockOf[ObjectOf[r]]] = q
    <2>1. LockOf[ObjectOf[r]] \in Locks
      OBVIOUS
    <2> QED
      BY <1>2, <1>4, <2>1 DEF IInv, LocksOK
  <1>5. CASE request[r].pc = "keying" /\ lock[LockOf[KeyOf[r]]] = q
    <2>1. KeyOf[r] \in Keys
      BY <1>5 DEF IInv, LocksOK
    <2>2. LockOf[KeyOf[r]] \in Locks
      BY <2>1
    <2>3. LockOf[KeyOf[r]] \in LocksOf(q)
      BY <1>5, <2>2 DEF IInv, LocksOK
    <2> QED
      BY <1>3, <2>1, <2>3
  <1> QED
    BY <1>4, <1>5 DEF WaitsFor

\* Where the locks of keys are none of contents, no call fails: a call that waits
\* for a key holds but its content's lock, and nobody who waits for that holds
\* a key's, so a deadlock has nobody to begin with.
THEOREM NoFailure ==
    ASSUME \A o \in Objects, k \in Keys : LockOf[o] # LockOf[k]
    PROVE  Spec => []NoCallFails
  <1>1. ASSUME IInv, NEW r \in Requests PROVE ~ BreakDeadlock(r)
    <2> SUFFICES ASSUME NEW rs \in SUBSET Requests, r \in rs, Deadlocked(rs) PROVE FALSE
      BY DEF BreakDeadlock
    <2>1. PICK q \in rs : WaitsFor(r, q)
      BY DEF Deadlocked
    <2>2. PICK s \in rs : WaitsFor(q, s)
      BY DEF Deadlocked
    <2>3. PICK t \in rs : WaitsFor(s, t)
      BY DEF Deadlocked
    <2>4. request[q].pc = "keying"
      BY <1>1, <2>1, <2>2, WaiterHasNoKey
    <2>5. request[q].pc = "locking"
      BY <1>1, <2>2, <2>3, WaiterHasNoKey
    <2> QED
      BY <2>4, <2>5
  <1>2. ASSUME IInv, NoCallFails, [Next]_vars PROVE NoCallFails'
    <2>1. CASE UNCHANGED vars
      BY <1>2, <2>1 DEF NoCallFails, vars
    <2>2. ASSUME NEW r \in Requests, Step(r) PROVE NoCallFails'
      <3>1. request'[r].pc # "error"
        <4>1. Admit(r) => Commits(r)
          <5>1. \A p \in recorded : p.key \in Keys
            BY <1>2 DEF IInv, TypeOK, Recorded
          <5>2. KeyOf[r] = NoKey => ~ KeyIsRecorded(r)
            BY <5>1 DEF KeyIsRecorded
          <5>3. KeyOf[r] # NoKey /\ request[r].pc = "admitting" => ~ KeyIsRecorded(r)
            BY <1>2 DEF IInv, KeysOK
          <5> QED
            BY <5>2, <5>3 DEF Commits, Admit
        <4>2. CASE Commits(r)
          BY <1>2, <4>2, CommitEffect DEF IInv
        <4>3. CASE FindPrior(r)
          <5>1. PICK p \in recorded :
                   LET pc == IF SameRequest(p, r) THEN "replayed" ELSE "conflict"
                   IN  request' = [request EXCEPT ![r] =
                             [pc |-> pc,
                              receipt |-> IF pc = "replayed" THEN p.receipt ELSE request[r].receipt]]
            BY <4>3 DEF FindPrior
          <5> QED
            BY <1>2, <5>1 DEF IInv, TypeOK
        <4>4. CASE StoreCanonical(r) \/ LockObject(r) \/ LockKey(r) \/ FindNoPrior(r)
          BY <1>2, <4>4 DEF IInv, TypeOK, StoreCanonical, LockObject, LockKey, FindNoPrior, Goto
        <4>5. CASE UpsertObject(r)
          BY <1>2, <4>5, UpsertEffect DEF IInv
        <4>6. CASE Respond(r) \/ Interrupt(r)
          BY <1>2, <4>6 DEF IInv, TypeOK, Respond, Interrupt, Goto
        <4> QED
          BY <1>1, <1>2, <2>2, <4>1, <4>2, <4>3, <4>4, <4>5, <4>6 DEF Step, RequestStep
      <3>2. \A q \in Requests \ {r} : request'[q] = request[q]
        BY <1>2, <2>2, OthersStay DEF IInv
      <3> QED
        BY <1>2, <3>1, <3>2 DEF NoCallFails
    <2>3. CASE \/ \E u \in UserJobs, o \in Objects : CreateJob(u, o)
               \/ \E j \in job : SettleJob(j)
      BY <1>2, <2>3, JobStepsStay DEF NoCallFails
    <2> QED
      BY <1>2, <2>1, <2>2, <2>3, Steps
  <1>3. Init => NoCallFails
    BY DEF Init, NoCallFails
  <1> QED
    BY <1>2, <1>3, Invariance, PTL DEF Spec

-----------------------------------------------------------------------------
(* Who waits, and for how long a chain *)

\* The upsert of canonical_objects never waits for another admission: the lock of
\* the content, taken first, has kept such a call out.
UpsertsDoNotWait ==
    \A r, q \in Requests :
        request[r].pc = "upserting" /\ request[q].pc = "admitting" => ObjectOf[q] # ObjectOf[r]

THEOREM UpsertsGoOn == Spec => []UpsertsDoNotWait
  <1>1. IInv => UpsertsDoNotWait
    <2> SUFFICES ASSUME IInv, NEW r \in Requests, NEW q \in Requests,
                        request[r].pc = "upserting", request[q].pc = "admitting"
                 PROVE  ObjectOf[q] # ObjectOf[r]
      BY DEF UpsertsDoNotWait
    <2>1. q \in Requests \ {r}
      OBVIOUS
    <2> QED
      BY <2>1, ObjectsExclude DEF IInv, Locking
  <1> QED
    BY <1>1, Invariance, PTL

\* Where the locks of keys are none of contents, at most two calls wait in a row,
\* one for its content and one for its key, and who holds that key has all it needs:
\* it waits for nobody.
HeldUp(r) ==
    \/ \E q \in Requests : WaitsFor(r, q)
    \/ /\ request[r].pc = "upserting"
       /\ \E q \in Requests : request[q].pc = "admitting" /\ ObjectOf[q] = ObjectOf[r]

WaitsAreShort ==
    \A r, q, s \in Requests : WaitsFor(r, q) /\ WaitsFor(q, s) => ~ HeldUp(s)

THEOREM WaitsEnd ==
    ASSUME \A o \in Objects, k \in Keys : LockOf[o] # LockOf[k]
    PROVE  Spec => []WaitsAreShort
  <1>1. ASSUME IInv, UpsertsDoNotWait PROVE WaitsAreShort
    <2> SUFFICES ASSUME NEW r \in Requests, NEW q \in Requests, NEW s \in Requests,
                        WaitsFor(r, q), WaitsFor(q, s), HeldUp(s)
                 PROVE  FALSE
      BY DEF WaitsAreShort
    <2>1. request[q].pc = "keying"
      BY <1>1, WaiterHasNoKey
    <2>2. ~ \E t \in Requests : WaitsFor(s, t)
      BY <1>1, <2>1, WaiterHasNoKey
    <2>3. PICK t \in Requests :
             /\ request[s].pc = "upserting"
             /\ request[t].pc = "admitting"
             /\ ObjectOf[t] = ObjectOf[s]
      BY <2>2 DEF HeldUp
    <2> QED
      BY <1>1, <2>3 DEF UpsertsDoNotWait
  <1> QED
    BY <1>1, Invariance, UpsertsGoOn, PTL


=============================================================================
