---------------------- MODULE EphemeralDocuments_proofs ----------------------
(***************************************************************************)
(* The safety of EphemeralDocuments for every number of calls, failures    *)
(* and documents, and every time to live.                                  *)
(***************************************************************************)
EXTENDS EphemeralDocuments, FiniteSetTheorems, SequenceTheorems, TLAPS

USE CallsAssumption, BoundsAssumption

-----------------------------------------------------------------------------
(* The inductive invariant *)

Listed(c) == {call[c].expired[k] : k \in DOMAIN call[c].expired}

IsStored(d) == d \in Extracts /\ At(d, "done") /\ call[d].answer = "stored"

\* No document is there twice, and a record is of a call that has stored it.
TableOK ==
    /\ \A i, j \in DOMAIN table : table[i] = table[j] /\ table[i] # Hole => i = j
    /\ \A d \in Recorded : IsStored(d) /\ dir[d] = "document"

\* A document is lost by its age only.
FateOK ==
    running => \A d \in Extracts : IsStored(d) => d \in Recorded \/ HasExpired(d, now)

DirOK ==
    \A d \in Extracts :
        dir[d] = "document" => \/ d \in Recorded
                               \/ At(d, "inserting")
                               \/ \E c \in Calls : At(c, "removing")
                                                  /\ Head(call[c].expired) = d

\* What is left of a directory.
RestOK ==
    \A d \in Extracts :
        /\ dir[d] = "partial" => At(d, "done") /\ call[d].answer = "oserror"
        /\ dir[d] = "remnant" => IsStored(d) /\ (HasExpired(d, now) \/ ~running)

IsShowing(c) == At(c, "opening") \/ call[c].answer = "served"

LocalsOK(c) ==
    /\ At(c, "idle") => call[c] = Idle
    /\ AtWork(c) => running /\ call[c].wanted \in Extracts
    /\ call[c].start <= now
    /\ \A d \in Listed(c) : IsStored(d) /\ HasExpired(d, call[c].start)
    /\ At(c, "removing") => call[c].expired # <<>> /\ Head(call[c].expired) \notin Recorded
    /\ At(c, "inserting") => c \in Extracts /\ dir[c] = "document"
    /\ call[c].answer # "pending" => At(c, "done")
    /\ call[c].known => IsStored(call[c].wanted)
    /\ IsShowing(c) => IsStored(call[c].wanted)

BreaksOK(c) ==
    call[c].answer = "500" => meanwhile[c] # {}

\* What a sweep can tell of the size.
SizeOK(c) ==
    At(c, "sweeping") =>
        /\ meanwhile[c] = {} => call[c].used = Cardinality(Recorded)
        /\ meanwhile[c] = {"store"} => call[c].used < Cardinality(Recorded)
        /\ meanwhile[c] = {"evict"} => call[c].used > Cardinality(Recorded)

HasLeftSweep(c) ==
    call[c].pc \in {"evicting", "removing", "inserting", "opening"} \/ call[c].answer = "served"

\* A sweep that nobody disturbs finds all that has expired.
SweepOK(c) ==
    /\ At(c, "idle") => meanwhile[c] = {}
    /\ HasLeftSweep(c) => meanwhile[c] \in {{}, {"evict", "store"}}
    /\ meanwhile[c] = {} =>
        /\ At(c, "sweeping") =>
              \A d \in Recorded : HasExpired(d, call[c].start) =>
                 d \in Listed(c) \/ \E i \in DOMAIN table : i >= call[c].next /\ table[i] = d
        /\ At(c, "evicting") \/ At(c, "removing") =>
              \A d \in Recorded : HasExpired(d, call[c].start) => d \in Listed(c)
        /\ IsShowing(c) => ~HasExpired(call[c].wanted, call[c].start)

CallOK(c) == LocalsOK(c) /\ BreaksOK(c) /\ SizeOK(c) /\ SweepOK(c)

IInv == TypeOK /\ TableOK /\ FateOK /\ DirOK /\ RestOK /\ \A c \in Calls : CallOK(c)

-----------------------------------------------------------------------------
(* The table *)

LEMMA RecordedIsFinite ==
    ASSUME table \in Seq(Extracts \cup {Hole})
    PROVE  IsFiniteSet(Recorded) /\ Cardinality(Recorded) \in Nat
  <1> DEFINE f == [d \in Recorded |-> CHOOSE i \in DOMAIN table : table[i] = d]
  <1>1. \A d \in Recorded : f[d] \in 1 .. Len(table) /\ table[f[d]] = d
    BY DEF Recorded
  <1>2. f \in Injection(Recorded, 1 .. Len(table))
    <2>1. f \in [Recorded -> 1 .. Len(table)]
      BY <1>1
    <2> HIDE DEF f
    <2> QED
      BY <1>1, <2>1 DEF Injection, IsInjective
  <1>3. IsFiniteSet(1 .. Len(table))
    BY FS_Interval
  <1>4. IsFiniteSet(Recorded)
    BY <1>2, <1>3, FS_Injection
  <1> QED
    BY <1>4, FS_CardinalityType

LEMMA RecordedIs ==
    ASSUME table \in Seq(Extracts \cup {Hole})
    PROVE  /\ \A i \in DOMAIN table : table[i] # Hole => table[i] \in Recorded
           /\ Hole \notin Recorded
           /\ Recorded \subseteq Extracts
  BY DEF Recorded, Calls

LEMMA PoppedIs ==
    ASSUME table \in Seq(Extracts \cup {Hole}), NEW d \in Recorded, table' = Popped(d)
    PROVE  /\ table' \in Seq(Extracts \cup {Hole})
           /\ Recorded' = Recorded \ {d}
           /\ \A i \in DOMAIN table' : i \in DOMAIN table /\ table'[i] \in {table[i], Hole}
  <1>1. DOMAIN table' = 1 .. Len(table) /\ Len(table) \in Nat
    BY DEF Popped
  <1>2. \A i \in DOMAIN table' : i \in DOMAIN table /\ table'[i] \in {table[i], Hole}
    BY DEF Popped
  <1>3. table' \in [1 .. Len(table) -> Extracts \cup {Hole}]
    BY <1>1 DEF Popped
  <1>4. table' \in Seq(Extracts \cup {Hole})
    BY <1>1, <1>3
  <1>5. Hole \notin Extracts
    BY DEF Calls
  <1>6. Recorded' = Recorded \ {d}
    BY <1>1, <1>5 DEF Popped, Recorded
  <1> QED
    BY <1>2, <1>4, <1>6

\* Compaction keeps the records, each once.
LEMMA CompactedIs ==
    ASSUME table \in Seq(Extracts \cup {Hole}), TableOK, NEW t \in Compacted
    PROVE  /\ t \in Seq(Extracts)
           /\ {d \in Extracts : \E i \in DOMAIN t : t[i] = d} = Recorded
           /\ \A i, j \in DOMAIN t : t[i] = t[j] => i = j
  <1> DEFINE n == Cardinality(Recorded)
  <1>1. IsFiniteSet(Recorded) /\ n \in Nat
    BY RecordedIsFinite
  <1>2. t \in [1 .. n -> Recorded]
    BY DEF Compacted
  <1> HIDE DEF n
  <1>3. ASSUME NEW i \in 1 .. n, NEW j \in 1 .. n, i < j
        PROVE  t[i] # t[j]
    <2>1. PICK k \in DOMAIN table, l \in DOMAIN table :
              k < l /\ t[i] = table[k] /\ t[j] = table[l]
      BY <1>2, <1>3 DEF Compacted, n
    <2>2. t[i] # Hole
      BY <1>2, RecordedIs
    <2> QED
      BY <2>1, <2>2 DEF TableOK
  <1>4. \A i, j \in 1 .. n : t[i] = t[j] => i = j
    <2> TAKE i, j \in 1 .. n
    <2>1. i < j \/ j < i \/ i = j
      OBVIOUS
    <2> QED
      BY <1>3, <2>1
  <1>5. t \in Injection(1 .. n, Recorded)
    BY <1>2, <1>4 DEF Injection, IsInjective
  <1>6. Cardinality(1 .. n) = n
    BY <1>1, FS_Interval
  <1>7. t \in Surjection(1 .. n, Recorded)
    BY <1>1, <1>5, <1>6, FS_Injection DEF n
  <1>8. Recorded \subseteq Extracts
    BY RecordedIs
  <1>9. {d \in Extracts : \E i \in DOMAIN t : t[i] = d} = Recorded
    BY <1>2, <1>7, <1>8 DEF Surjection
  <1>10. t \in Seq(Extracts)
    BY <1>1, <1>2, <1>8
  <1> QED
    BY <1>2, <1>4, <1>9, <1>10

\* An insertion adds the record and moves others.
LEMMA InsertedIs ==
    ASSUME table \in Seq(Extracts \cup {Hole}), TableOK, NEW e \in Extracts \ Recorded,
           NEW kept \in {table} \cup Compacted, table' = Append(kept, e)
    PROVE  /\ table' \in Seq(Extracts \cup {Hole})
           /\ Recorded' = Recorded \cup {e}
           /\ \A i, j \in DOMAIN table' : table'[i] = table'[j] /\ table'[i] # Hole => i = j
  <1>1. /\ kept \in Seq(Extracts \cup {Hole})
        /\ {d \in Extracts : \E i \in DOMAIN kept : kept[i] = d} = Recorded
        /\ \A i, j \in DOMAIN kept : kept[i] = kept[j] /\ kept[i] # Hole => i = j
    <2>1. CASE kept = table
      BY <2>1 DEF Recorded, TableOK
    <2>2. CASE kept \in Compacted
      <3>1. kept \in Seq(Extracts)
        BY <2>2, CompactedIs
      <3>2. kept \in Seq(Extracts \cup {Hole})
        BY <3>1
      <3> QED
        BY <2>2, <3>2, CompactedIs
    <2> QED
      BY <2>1, <2>2
  <1> DEFINE n == Len(kept)
  <1>2. /\ n \in Nat /\ DOMAIN kept = 1 .. n /\ DOMAIN table' = 1 .. n + 1
        /\ \A i \in 1 .. n : table'[i] = kept[i]
        /\ table'[n + 1] = e
        /\ table' \in Seq(Extracts \cup {Hole})
    BY <1>1
  <1>3. \A i \in 1 .. n : kept[i] # e
    BY <1>1, <1>2
  <1> HIDE DEF n
  <1>4. \A i \in 1 .. n + 1 : i \in 1 .. n \/ i = n + 1
    BY <1>2
  <1>5. ASSUME NEW i \in 1 .. n + 1, NEW j \in 1 .. n + 1,
               table'[i] = table'[j], table'[i] # Hole
        PROVE  i = j
    BY <1>1, <1>2, <1>3, <1>4, <1>5
  <1>6. n + 1 \in 1 .. n + 1 /\ \A i \in 1 .. n : i \in 1 .. n + 1
    BY <1>2
  <1>7. Recorded' = Recorded \cup {e}
    <2>1. Recorded' = {d \in Extracts : \E i \in 1 .. n + 1 : table'[i] = d}
      BY <1>2 DEF Recorded
    <2>2. Recorded = {d \in Extracts : \E i \in 1 .. n : kept[i] = d}
      BY <1>1, <1>2
    <2> QED
      BY <1>2, <1>4, <1>6, <2>1, <2>2
  <1> QED
    BY <1>2, <1>5, <1>7

-----------------------------------------------------------------------------
(* What a step does to the calls that do not take it *)

Noted(o, event) ==
    meanwhile'[o] = IF At(o, "sweeping") THEN meanwhile[o] \cup {event} ELSE meanwhile[o]

Evicts(o) ==
    /\ \E d \in Recorded : Recorded' = Recorded \ {d}
    /\ Noted(o, "evict")

Stores(o) ==
    /\ \E d \in Extracts \ Recorded :
          /\ Recorded' = Recorded \cup {d}
          /\ ~IsStored(d)
          /\ created'[d] = now
    /\ Noted(o, "store")

TableEffect(o) ==
    \/ UNCHANGED table /\ meanwhile'[o] = meanwhile[o]
    \/ Evicts(o)
    \/ Stores(o)
    \/ ~AtWork(o) /\ meanwhile'[o] = meanwhile[o]

Effect(o) ==
    /\ call'[o] = call[o]
    /\ now' \in {now, now + 1}
    /\ AtWork(o) => running'
    /\ \A d \in Extracts : IsStored(d) => IsStored(d)' /\ created'[d] = created[d]
    /\ o \in Extracts /\ At(o, "inserting") => dir'[o] = dir[o]
    /\ TableEffect(o)

\* Times are numbers.
LEMMA Times ==
    ASSUME TypeOK
    PROVE  /\ now \in Nat
           /\ \A d \in Extracts : created[d] \in Nat
           /\ \A c \in Calls : call[c] \in Locals /\ call[c].start \in Nat
  BY DEF TypeOK, Locals

LEMMA OtherLocals ==
    ASSUME IInv, TypeOK', NEW o \in Calls, Effect(o)
    PROVE  LocalsOK(o)'
  <1> USE DEF Effect
  <1>1. call'[o] = call[o] /\ LocalsOK(o)
    BY DEF IInv, CallOK
  <1>2. \A d : IsStored(d) => IsStored(d)' /\ created'[d] = created[d] /\ d \in Extracts
    BY DEF IsStored
  <1>3. Listed(o)' = Listed(o)
    BY <1>1 DEF Listed
  <1>4. (\A d \in Listed(o) : IsStored(d) /\ HasExpired(d, call[o].start))'
    BY <1>1, <1>2, <1>3 DEF LocalsOK, HasExpired
  <1>5. (call[o].start <= now)'
    BY <1>1, Times DEF LocalsOK, IInv
  <1>6. (At(o, "removing") => call[o].expired # <<>> /\ Head(call[o].expired) \notin Recorded)'
    <2> SUFFICES ASSUME At(o, "removing")
                 PROVE  call[o].expired # <<>> /\ Head(call[o].expired) \notin Recorded'
      BY <1>1 DEF At
    <2>1. call[o].expired # <<>> /\ Head(call[o].expired) \notin Recorded
      BY <1>1 DEF LocalsOK
    <2>2. call[o].expired \in Seq(Extracts)
      BY DEF IInv, TypeOK, Locals
    <2>3. Head(call[o].expired) \in Listed(o)
      <3>1. Head(call[o].expired) = call[o].expired[1] /\ 1 \in DOMAIN call[o].expired
        BY <2>1, <2>2
      <3> QED
        BY <3>1 DEF Listed
    <2>4. IsStored(Head(call[o].expired))
      BY <1>1, <2>3 DEF LocalsOK
    <2>5. AtWork(o)
      BY DEF At, AtWork
    <2> QED
      BY <2>1, <2>4, <2>5 DEF TableEffect, Evicts, Stores, Recorded
  <1> QED
    BY <1>1, <1>2, <1>4, <1>5, <1>6 DEF LocalsOK, AtWork, At, IsShowing

LEMMA OtherBreaks ==
    ASSUME IInv, NEW o \in Calls, Effect(o)
    PROVE  BreaksOK(o)'
  <1>1. BreaksOK(o)
    BY DEF IInv, CallOK
  <1>2. meanwhile[o] # {} => meanwhile'[o] # {}
    BY DEF Effect, TableEffect, Evicts, Stores, Noted
  <1> QED
    BY <1>1, <1>2 DEF Effect, BreaksOK

LEMMA OtherSize ==
    ASSUME IInv, NEW o \in Calls, Effect(o)
    PROVE  SizeOK(o)'
  <1> DEFINE n == Cardinality(Recorded)
             m == Cardinality(Recorded')
             u == call[o].used
  <1>1. call'[o] = call[o] /\ SizeOK(o)
    BY DEF IInv, CallOK, Effect
  <1> SUFFICES ASSUME At(o, "sweeping")
               PROVE  /\ meanwhile'[o] = {} => u = m
                      /\ meanwhile'[o] = {"store"} => u < m
                      /\ meanwhile'[o] = {"evict"} => u > m
    BY <1>1 DEF SizeOK, At
  <1>2. IsFiniteSet(Recorded) /\ n \in Nat /\ u \in Nat
    BY RecordedIsFinite DEF IInv, TypeOK, Locals
  <1>3. /\ meanwhile[o] = {} => u = n
        /\ meanwhile[o] = {"store"} => u < n
        /\ meanwhile[o] = {"evict"} => u > n
    BY <1>1 DEF SizeOK
  <1>4. AtWork(o)
    BY DEF At, AtWork
  <1>5. CASE UNCHANGED table /\ meanwhile'[o] = meanwhile[o]
    BY <1>3, <1>5 DEF Recorded
  <1>6. CASE Evicts(o)
    <2>1. PICK d \in Recorded : Recorded' = Recorded \ {d}
      BY <1>6 DEF Evicts
    <2>2. m = n - 1
      BY <1>2, <2>1, FS_RemoveElement
    <2>3. meanwhile'[o] = meanwhile[o] \cup {"evict"}
      BY <1>6 DEF Evicts, Noted
    <2>4. meanwhile'[o] # {} /\ meanwhile'[o] # {"store"}
      BY <2>3
    <2>5. meanwhile'[o] = {"evict"} => meanwhile[o] = {} \/ meanwhile[o] = {"evict"}
      BY <2>3
    <2> HIDE DEF n, m, u
    <2>6. meanwhile'[o] = {"evict"} => u > m
      BY <1>2, <1>3, <2>2, <2>5
    <2> QED
      BY <2>4, <2>6
  <1>7. CASE Stores(o)
    <2>1. PICK d \in Extracts \ Recorded : Recorded' = Recorded \cup {d}
      BY <1>7 DEF Stores
    <2>2. m = n + 1
      BY <1>2, <2>1, FS_AddElement
    <2>3. meanwhile'[o] = meanwhile[o] \cup {"store"}
      BY <1>7 DEF Stores, Noted
    <2>4. meanwhile'[o] # {} /\ meanwhile'[o] # {"evict"}
      BY <2>3
    <2>5. meanwhile'[o] = {"store"} => meanwhile[o] = {} \/ meanwhile[o] = {"store"}
      BY <2>3
    <2> HIDE DEF n, m, u
    <2>6. meanwhile'[o] = {"store"} => u < m
      BY <1>2, <1>3, <2>2, <2>5
    <2> QED
      BY <2>4, <2>6
  <1> QED
    BY <1>4, <1>5, <1>6, <1>7 DEF Effect, TableEffect

LEMMA OtherSweep ==
    ASSUME IInv, NEW o \in Calls, Effect(o)
    PROVE  SweepOK(o)'
  <1>1. call'[o] = call[o] /\ SweepOK(o) /\ LocalsOK(o)
    BY DEF IInv, CallOK, Effect
  <1>2. Listed(o)' = Listed(o)
    BY <1>1 DEF Listed
  <1>3. At(o, "sweeping") \/ meanwhile'[o] = meanwhile[o]
    BY DEF Effect, TableEffect, Evicts, Stores, Noted
  <1>4. meanwhile'[o] = {} => meanwhile[o] = {}
    BY DEF Effect, TableEffect, Evicts, Stores, Noted
  <1>5. (At(o, "idle") => meanwhile[o] = {})'
    BY <1>1, <1>3 DEF SweepOK, At
  <1>6. (HasLeftSweep(o) => meanwhile[o] \in {{}, {"evict", "store"}})'
    BY <1>1, <1>3 DEF SweepOK, HasLeftSweep, At, LocalsOK
  <1>7. \A d \in Recorded : created'[d] = created[d]
    BY DEF Effect, IInv, TableOK, IsStored
  <1>8. ASSUME meanwhile'[o] = {}, At(o, "sweeping")
        PROVE  UNCHANGED table
    BY <1>8 DEF Effect, TableEffect, Evicts, Stores, Noted, AtWork, At
  <1>9. ASSUME meanwhile'[o] = {}, At(o, "sweeping"),
               NEW d \in Recorded', HasExpired(d, call[o].start)'
        PROVE  d \in Listed(o) \/ \E i \in DOMAIN table' : i >= call[o].next /\ table'[i] = d
    <2>1. table' = table /\ d \in Recorded
      BY <1>8, <1>9 DEF Recorded
    <2>2. HasExpired(d, call[o].start)
      BY <1>1, <1>7, <1>9, <2>1 DEF HasExpired
    <2> QED
      BY <1>1, <1>4, <1>9, <2>1, <2>2 DEF SweepOK
  <1>10. ASSUME meanwhile'[o] = {}, At(o, "evicting") \/ At(o, "removing"),
                NEW d \in Recorded', HasExpired(d, call[o].start)'
         PROVE  d \in Listed(o)
    <2>1. CASE d \in Recorded
      <3>1. HasExpired(d, call[o].start)
        BY <1>1, <1>7, <1>10, <2>1 DEF HasExpired
      <3> QED
        BY <1>1, <1>4, <1>10, <2>1, <3>1 DEF SweepOK
    <2>2. CASE d \notin Recorded
      <3>1. created'[d] = now
        BY <1>10, <2>2 DEF Effect, TableEffect, Evicts, Stores, AtWork, At, Recorded
      <3>2. call[o].start > now + TTL
        BY <1>1, <1>10, <3>1 DEF HasExpired
      <3>3. call[o].start <= now
        BY <1>1 DEF LocalsOK
      <3> QED
        BY <3>2, <3>3, Times DEF IInv
    <2> QED
      BY <2>1, <2>2
  <1>11. ASSUME meanwhile'[o] = {}, IsShowing(o)
         PROVE  ~HasExpired(call[o].wanted, call[o].start)'
    <2>1. IsStored(call[o].wanted)
      BY <1>1, <1>11 DEF LocalsOK
    <2>2. created'[call[o].wanted] = created[call[o].wanted]
      BY <2>1 DEF Effect, IsStored
    <2>3. ~HasExpired(call[o].wanted, call[o].start)
      BY <1>1, <1>4, <1>11 DEF SweepOK
    <2> QED
      BY <1>1, <2>2, <2>3 DEF HasExpired
  <1> QED
    BY <1>1, <1>2, <1>5, <1>6, <1>9, <1>10, <1>11 DEF SweepOK, At, IsShowing

LEMMA OtherCall ==
    ASSUME IInv, TypeOK', NEW o \in Calls, Effect(o)
    PROVE  CallOK(o)'
  BY OtherLocals, OtherBreaks, OtherSize, OtherSweep DEF CallOK

-----------------------------------------------------------------------------
(* What a step does to its own call *)

LEMMA CallBecomes ==
    ASSUME TypeOK, NEW c \in Calls, NEW new \in Locals, call' = [call EXCEPT ![c] = new]
    PROVE  /\ call' \in [Calls -> Locals]
           /\ call'[c] = new
           /\ \A o \in Calls \ {c} : call'[o] = call[o]
  BY DEF TypeOK

LEMMA IdleIsLocal == Idle \in Locals
  <1>1. 0 \in 0 .. MaxTime /\ 0 \in Nat /\ 1 \in Nat \ {0}
    OBVIOUS
  <1>2. <<>> \in Seq(Extracts)
    OBVIOUS
  <1>3. FALSE \in BOOLEAN
    OBVIOUS
  <1> QED
    BY <1>1, <1>2, <1>3 DEF Idle, Locals, PCs, Answers

LEMMA GotoIs ==
    ASSUME TypeOK, NEW c \in Calls, NEW pc \in PCs, Goto(c, pc)
    PROVE  /\ call' = [call EXCEPT ![c] = [call[c] EXCEPT !.pc = pc]]
           /\ [call[c] EXCEPT !.pc = pc] \in Locals
           /\ [call[c] EXCEPT !.pc = pc].pc = pc
           /\ [call[c] EXCEPT !.pc = pc].wanted = call[c].wanted
           /\ [call[c] EXCEPT !.pc = pc].start = call[c].start
           /\ [call[c] EXCEPT !.pc = pc].expired = call[c].expired
           /\ [call[c] EXCEPT !.pc = pc].known = call[c].known
           /\ [call[c] EXCEPT !.pc = pc].answer = call[c].answer
  BY DEF TypeOK, Goto, Locals

LEMMA AnswerIs ==
    ASSUME TypeOK, NEW c \in Calls, NEW a \in Answers \ {"served"}, Answer(c, a)
    PROVE  /\ call' = [call EXCEPT ![c] = [Idle EXCEPT !.pc = "done", !.answer = a]]
           /\ [Idle EXCEPT !.pc = "done", !.answer = a] \in Locals
  <1>1. Idle \in Locals
    BY IdleIsLocal
  <1> QED
    BY <1>1 DEF Answer, Locals, PCs, TypeOK

LEMMA AnsweredOK ==
    ASSUME IInv, TypeOK', NEW c \in Calls, NEW a \in Answers \ {"served"}, Answer(c, a),
           a = "500" => meanwhile'[c] # {}
    PROVE  CallOK(c)'
  <1> DEFINE new == [Idle EXCEPT !.pc = "done", !.answer = a]
  <1>1. call'[c] = new
    BY AnswerIs, CallBecomes DEF IInv
  <1>2. /\ new.pc = "done" /\ new.answer = a /\ new.start = 0 /\ new.expired = <<>>
        /\ new.known = FALSE
    BY DEF Idle
  <1> HIDE DEF new
  <1>3. LocalsOK(c)'
    <2>1. now' \in Nat
      BY DEF TypeOK
    <2>2. Listed(c)' = {}
      BY <1>1, <1>2 DEF Listed
    <2> QED
      BY <1>1, <1>2, <2>1, <2>2 DEF LocalsOK, AtWork, At, IsShowing
  <1>4. BreaksOK(c)'
    BY <1>1, <1>2 DEF BreaksOK
  <1>5. SizeOK(c)' /\ SweepOK(c)'
    BY <1>1, <1>2 DEF SizeOK, SweepOK, HasLeftSweep, IsShowing, At
  <1> QED
    BY <1>3, <1>4, <1>5 DEF CallOK

\* A step of a call that leaves the registry as it is.
LEMMA QuietStep ==
    ASSUME IInv, NEW c \in Calls, NEW new \in Locals,
           UNCHANGED <<running, now, table, created, dir, meanwhile, faults>>,
           call' = [call EXCEPT ![c] = new],
           call[c].pc \notin {"removing", "inserting", "done"}, new.answer # "stored",
           CallOK(c)'
    PROVE  IInv'
  <1>1. /\ call' \in [Calls -> Locals]
        /\ call'[c] = new
        /\ \A o \in Calls \ {c} : call'[o] = call[o]
    BY CallBecomes DEF IInv
  <1>2. TypeOK'
    BY <1>1 DEF IInv, TypeOK
  <1>3. \A d \in Extracts : IsStored(d)' <=> IsStored(d)
    BY <1>1 DEF IsStored, At, Calls
  <1>4. Recorded' = Recorded
    BY DEF Recorded
  <1>5. TableOK' /\ FateOK'
    BY <1>3, <1>4 DEF IInv, TableOK, FateOK, HasExpired, IsStored
  <1>6. DirOK'
    BY <1>1, <1>4 DEF IInv, DirOK, At, Calls
  <1>7. RestOK'
    BY <1>1, <1>3 DEF IInv, RestOK, HasExpired, At, Calls
  <1>8. ASSUME NEW o \in Calls \ {c}
        PROVE  CallOK(o)'
    <2>1. now \in Nat
      BY Times DEF IInv
    <2>2. LocalsOK(o)
      BY DEF IInv, CallOK
    <2>3. Effect(o)
      BY <1>1, <1>3, <2>1, <2>2 DEF Effect, TableEffect, LocalsOK
    <2> QED
      BY <1>2, <2>3, OtherCall
  <1> QED
    BY <1>2, <1>5, <1>6, <1>7, <1>8 DEF IInv

-----------------------------------------------------------------------------
(* Steps that leave the registry as it is *)

LEMMA BeginSweepStep ==
    ASSUME IInv, NEW c \in Calls, BeginSweep(c), UNCHANGED running
    PROVE  IInv'
  <1>1. PICK d \in Extracts :
            call' = [call EXCEPT ![c].pc = "sweeping", ![c].wanted = d, ![c].start = now,
                                 ![c].used = Cardinality(Recorded),
                                 ![c].known = call[d].answer = "stored"]
    BY DEF BeginSweep
  <1> DEFINE n == Cardinality(Recorded)
             known == call[d].answer = "stored"
             new == [call[c] EXCEPT !.pc = "sweeping", !.wanted = d, !.start = now,
                                    !.used = n, !.known = known]
  <1>2. n \in Nat /\ known \in BOOLEAN /\ now \in 0 .. MaxTime /\ d \in Calls
    BY RecordedIsFinite DEF IInv, TypeOK, Calls
  <1>3. /\ call' = [call EXCEPT ![c] = new]
        /\ UNCHANGED <<running, now, table, created, dir, meanwhile, faults>>
        /\ running /\ At(c, "idle")
    BY <1>1 DEF BeginSweep, IInv, TypeOK
  <1>4. call[c] = Idle /\ call[c] \in Locals /\ LocalsOK(d) /\ SweepOK(c)
    BY <1>2, <1>3 DEF IInv, TypeOK, CallOK, LocalsOK
  <1>5. known => IsStored(d)
    BY <1>4 DEF LocalsOK, IsStored, At
  <1> HIDE DEF n, known
  <1>6. new \in Locals
    BY <1>2, <1>4 DEF Locals, PCs
  <1>7. /\ new.pc = "sweeping" /\ new.wanted = d /\ new.start = now /\ new.used = n
        /\ new.known = known
        /\ new.next = 1 /\ new.expired = <<>> /\ new.answer = "pending"
    BY <1>4 DEF Idle
  <1> HIDE DEF new
  <1>8. call'[c] = new /\ \A o \in Calls \ {c} : call'[o] = call[o]
    BY <1>3, <1>6, CallBecomes DEF IInv
  <1>9. IsStored(d) => IsStored(d)'
    BY <1>2, <1>3, <1>8 DEF IsStored, At
  <1>10. LocalsOK(c)'
    <2>1. Listed(c)' = {}
      BY <1>7, <1>8 DEF Listed
    <2> QED
      BY <1>2, <1>3, <1>5, <1>7, <1>8, <1>9, <2>1 DEF LocalsOK, AtWork, At, IsShowing
  <1>11. meanwhile'[c] = {}
    BY <1>3, <1>4 DEF SweepOK
  <1>12. SizeOK(c)' /\ BreaksOK(c)'
    BY <1>3, <1>7, <1>8, <1>11 DEF SizeOK, BreaksOK, Recorded, n
  <1>13. SweepOK(c)'
    <2>1. \A x \in Recorded' : \E i \in DOMAIN table' : i >= 1 /\ table'[i] = x
      <3>1. DOMAIN table' = 1 .. Len(table)
        BY <1>3 DEF IInv, TypeOK
      <3>2. \A i \in DOMAIN table' : i >= 1
        BY <3>1
      <3> QED
        BY <3>2 DEF Recorded
    <2> QED
      BY <1>7, <1>8, <1>11, <2>1 DEF SweepOK, HasLeftSweep, IsShowing, At
  <1> QED
    BY <1>3, <1>6, <1>7, <1>10, <1>12, <1>13, QuietStep DEF CallOK, At

LEMMA SweepBreaksStep ==
    ASSUME IInv, NEW c \in Calls, SweepBreaks(c), UNCHANGED running
    PROVE  IInv'
  <1> DEFINE new == [Idle EXCEPT !.pc = "done", !.answer = "500"]
  <1>1. /\ UNCHANGED <<running, now, table, created, dir, meanwhile, faults>>
        /\ At(c, "sweeping") /\ Answer(c, "500")
        /\ call[c].used # Cardinality(Recorded)
    BY DEF SweepBreaks
  <1>2. call' = [call EXCEPT ![c] = new] /\ new \in Locals
    BY <1>1, AnswerIs DEF IInv, Answers
  <1>3. TypeOK'
    BY <1>1, <1>2, CallBecomes DEF IInv, TypeOK
  <1>4. meanwhile[c] # {}
    BY <1>1 DEF IInv, CallOK, SizeOK
  <1>5. CallOK(c)'
    BY <1>1, <1>3, <1>4, AnsweredOK DEF Answers
  <1>6. new.answer = "500"
    BY DEF Idle
  <1> HIDE DEF new
  <1> QED
    BY <1>1, <1>2, <1>5, <1>6, QuietStep DEF At

LEMMA SweepNextStep ==
    ASSUME IInv, NEW c \in Calls, SweepNext(c), UNCHANGED running
    PROVE  IInv'
  <1> DEFINE p == call[c]
             i == p.next
             d == table[i]
             isFound == d # Hole /\ IsExpired(d, p.start)
             found == IF isFound THEN Append(p.expired, d) ELSE p.expired
             new == [p EXCEPT !.next = i + 1, !.expired = found]
  <1>1. /\ UNCHANGED <<running, now, table, created, dir, meanwhile, faults>>
        /\ At(c, "sweeping") /\ i \in DOMAIN table
        /\ call' = [call EXCEPT ![c] = new]
    BY DEF SweepNext, IInv, TypeOK
  <1>2. /\ table \in Seq(Extracts \cup {Hole}) /\ p \in Locals /\ p.expired \in Seq(Extracts)
        /\ i \in Nat /\ now \in Nat
    BY Times DEF IInv, TypeOK, Locals
  <1>3. d # Hole => d \in Recorded /\ d \in Extracts
    BY <1>1, <1>2, RecordedIs
  <1>4. found \in Seq(Extracts)
    BY <1>2, <1>3
  <1>5. i + 1 \in Nat \ {0}
    BY <1>2
  <1>6. {found[k] : k \in DOMAIN found} = IF isFound THEN Listed(c) \cup {d} ELSE Listed(c)
    <2>1. CASE isFound
      <3> DEFINE n == Len(p.expired)
      <3>1. d \in Extracts
        BY <1>3, <2>1
      <3>2. /\ n \in Nat /\ DOMAIN p.expired = 1 .. n /\ DOMAIN found = 1 .. n + 1
            /\ \A k \in 1 .. n : found[k] = p.expired[k]
            /\ found[n + 1] = d
        BY <1>2, <2>1, <3>1
      <3> HIDE DEF n, found
      <3>3. /\ \A k \in 1 .. n + 1 : k \in 1 .. n \/ k = n + 1
            /\ n + 1 \in 1 .. n + 1 /\ \A k \in 1 .. n : k \in 1 .. n + 1
        BY <3>2
      <3> QED
        BY <2>1, <3>2, <3>3 DEF Listed
    <2>2. CASE ~isFound
      BY <2>2 DEF Listed
    <2> QED
      BY <2>1, <2>2
  <1>7. isFound <=> d # Hole /\ HasExpired(d, p.start)
    <2>1. d # Hole => created[d] \in Nat /\ p.start \in Nat
      BY <1>3, Times DEF IInv
    <2> QED
      BY <2>1 DEF IsExpired, HasExpired
  <1> HIDE DEF found, isFound
  <1>8. new \in Locals
    BY <1>2, <1>4, <1>5 DEF Locals
  <1>9. /\ new.pc = p.pc /\ new.wanted = p.wanted /\ new.start = p.start
        /\ new.next = i + 1 /\ new.used = p.used /\ new.expired = found
        /\ new.known = p.known /\ new.answer = p.answer
    BY <1>2 DEF Locals
  <1> HIDE DEF new
  <1>10. call'[c] = new /\ \A o \in Calls \ {c} : call'[o] = call[o]
    BY <1>1, <1>8, CallBecomes DEF IInv
  <1>11. LocalsOK(c) /\ BreaksOK(c) /\ SizeOK(c) /\ SweepOK(c)
    BY DEF IInv, CallOK
  <1>12. \A x : IsStored(x) => IsStored(x)'
    BY <1>1, <1>10 DEF IsStored, At, Calls
  <1>13. Listed(c)' = IF isFound THEN Listed(c) \cup {d} ELSE Listed(c)
    BY <1>6, <1>9, <1>10 DEF Listed
  <1>14. \A x \in Listed(c)' : IsStored(x)' /\ HasExpired(x, p.start)
    BY <1>3, <1>7, <1>11, <1>12, <1>13 DEF LocalsOK, IInv, TableOK
  <1>15. LocalsOK(c)'
    BY <1>1, <1>9, <1>10, <1>11, <1>12, <1>14
       DEF LocalsOK, AtWork, At, IsShowing, HasExpired
  <1>16. BreaksOK(c)' /\ SizeOK(c)'
    BY <1>1, <1>9, <1>10, <1>11 DEF BreaksOK, SizeOK, At, Recorded
  <1>17. ASSUME meanwhile'[c] = {}, NEW x \in Recorded', HasExpired(x, p.start)
         PROVE  x \in Listed(c)' \/ \E j \in DOMAIN table' : j >= i + 1 /\ table'[j] = x
    <2>1. x \in Recorded /\ x # Hole
      BY <1>1, <1>2, RecordedIs DEF Recorded
    <2>2. x \in Listed(c) \/ \E j \in DOMAIN table : j >= i /\ table[j] = x
      BY <1>1, <1>11, <1>17, <2>1 DEF SweepOK
    <2>3. ASSUME NEW j \in DOMAIN table, j >= i, table[j] = x
          PROVE  x \in Listed(c)' \/ j >= i + 1
      <3>1. j \in Nat
        BY <1>2
      <3>2. CASE j = i
        BY <1>7, <1>13, <1>17, <2>1, <2>3, <3>2
      <3>3. CASE j # i
        BY <1>2, <2>3, <3>1, <3>3
      <3> QED
        BY <3>2, <3>3
    <2> QED
      BY <1>1, <1>13, <2>2, <2>3
  <1>18. SweepOK(c)'
    BY <1>1, <1>9, <1>10, <1>11, <1>17
       DEF SweepOK, HasLeftSweep, IsShowing, At, HasExpired, LocalsOK
  <1>19. new.answer # "stored"
    BY <1>1, <1>9, <1>11 DEF LocalsOK, At
  <1> QED
    BY <1>1, <1>8, <1>15, <1>16, <1>18, <1>19, QuietStep DEF CallOK, At

LEMMA EndSweepStep ==
    ASSUME IInv, NEW c \in Calls, EndSweep(c), UNCHANGED running
    PROVE  IInv'
  <1> DEFINE p == call[c]
             new == [p EXCEPT !.pc = "evicting", !.next = 1, !.used = 0]
  <1>1. /\ UNCHANGED <<running, now, table, created, dir, meanwhile, faults>>
        /\ At(c, "sweeping") /\ p.next \notin DOMAIN table
        /\ p.used = Cardinality(Recorded)
        /\ call' = [call EXCEPT ![c] = new]
    BY DEF EndSweep, IInv, TypeOK
  <1>2. p \in Locals /\ p.next \in Nat \ {0} /\ table \in Seq(Extracts \cup {Hole})
    BY DEF IInv, TypeOK, Locals
  <1>3. new \in Locals
    <2>1. 1 \in Nat \ {0} /\ 0 \in Nat /\ "evicting" \in PCs
      BY DEF PCs
    <2> QED
      BY <1>2, <2>1 DEF Locals
  <1>4. /\ new.pc = "evicting" /\ new.wanted = p.wanted /\ new.start = p.start
        /\ new.expired = p.expired
        /\ new.known = p.known /\ new.answer = p.answer
    BY <1>2 DEF Locals
  <1> HIDE DEF new
  <1>5. call'[c] = new /\ \A o \in Calls \ {c} : call'[o] = call[o]
    BY <1>1, <1>3, CallBecomes DEF IInv
  <1>6. LocalsOK(c) /\ BreaksOK(c) /\ SizeOK(c) /\ SweepOK(c)
    BY DEF IInv, CallOK
  <1>7. \A x : IsStored(x) => IsStored(x)'
    BY <1>1, <1>5 DEF IsStored, At, Calls
  <1>8. Listed(c)' = Listed(c)
    BY <1>4, <1>5 DEF Listed
  <1>9. LocalsOK(c)'
    BY <1>1, <1>4, <1>5, <1>6, <1>7, <1>8
       DEF LocalsOK, AtWork, At, IsShowing, HasExpired
  <1>10. BreaksOK(c)' /\ SizeOK(c)'
    BY <1>1, <1>4, <1>5, <1>6 DEF BreaksOK, SizeOK, At
  <1>11. meanwhile[c] \in {{}, {"evict", "store"}}
    <2>1. meanwhile[c] \subseteq {"evict", "store"}
      BY DEF IInv, TypeOK
    <2>2. p.used \in Nat
      BY <1>2 DEF Locals
    <2>3. meanwhile[c] # {"store"} /\ meanwhile[c] # {"evict"}
      BY <1>1, <1>6, <2>2 DEF SizeOK
    <2> QED
      BY <2>1, <2>3
  <1>12. ASSUME meanwhile[c] = {}, NEW x \in Recorded, HasExpired(x, p.start)
         PROVE  x \in Listed(c)
    <2>1. DOMAIN table = 1 .. Len(table) /\ Len(table) \in Nat /\ p.next >= 1
      BY <1>2
    <2>2. ~\E i \in DOMAIN table : i >= p.next
      BY <1>1, <1>2, <2>1
    <2> QED
      BY <1>1, <1>6, <1>12, <2>2 DEF SweepOK
  <1>13. SweepOK(c)'
    BY <1>1, <1>4, <1>5, <1>6, <1>8, <1>11, <1>12
       DEF SweepOK, HasLeftSweep, IsShowing, At, HasExpired, LocalsOK, Recorded
  <1>14. new.answer # "stored"
    BY <1>1, <1>4, <1>6 DEF LocalsOK, At
  <1> QED
    BY <1>1, <1>3, <1>9, <1>10, <1>13, <1>14, QuietStep DEF CallOK, At

-----------------------------------------------------------------------------
(* The evictions *)

\* Tail takes the head from the list.
LEMMA Tails ==
    ASSUME NEW s \in Seq(Extracts), s # <<>>
    PROVE  /\ Head(s) \in Extracts
           /\ Tail(s) \in Seq(Extracts)
           /\ \A d : (\E k \in DOMAIN s : s[k] = d)
                     <=> d = Head(s) \/ \E k \in DOMAIN Tail(s) : Tail(s)[k] = d
  <1> DEFINE n == Len(s)
             t == Tail(s)
  <1>1. /\ n \in Nat \ {0} /\ DOMAIN s = 1 .. n /\ Head(s) = s[1] /\ t \in Seq(Extracts)
        /\ DOMAIN t = 1 .. n - 1
        /\ \A k \in 1 .. n - 1 : t[k] = s[k + 1]
    OBVIOUS
  <1> HIDE DEF n, t
  <1>2. ASSUME NEW k \in 1 .. n
        PROVE  k = 1 \/ \E j \in 1 .. n - 1 : t[j] = s[k]
    <2>1. CASE k = 1
      BY <2>1
    <2>2. CASE k # 1
      <3>1. k - 1 \in 1 .. n - 1 /\ (k - 1) + 1 = k
        BY <1>1, <2>2
      <3> QED
        BY <1>1, <3>1
    <2> QED
      BY <2>1, <2>2
  <1>3. 1 \in 1 .. n /\ \A k \in 1 .. n - 1 : k + 1 \in 1 .. n
    BY <1>1
  <1>4. s[1] \in Extracts
    BY <1>1, <1>3
  <1>5. \A d : (\E k \in 1 .. n : s[k] = d) <=> d = s[1] \/ \E k \in 1 .. n - 1 : t[k] = d
    BY <1>1, <1>2, <1>3
  <1> QED
    BY <1>1, <1>4, <1>5 DEF t

\* The head of a list to evict is a document that is stored and has expired.
LEMMA HeadIsExpired ==
    ASSUME IInv, NEW c \in Calls, call[c].expired # <<>>
    PROVE  /\ call[c].expired \in Seq(Extracts)
           /\ Head(call[c].expired) \in Extracts
           /\ Head(call[c].expired) \in Listed(c)
           /\ IsStored(Head(call[c].expired))
           /\ HasExpired(Head(call[c].expired), now)
  <1> DEFINE h == Head(call[c].expired)
  <1>1. call[c].expired \in Seq(Extracts)
    BY DEF IInv, TypeOK, Locals
  <1>2. h \in Extracts /\ h \in Listed(c)
    BY <1>1, Tails DEF Listed
  <1>3. IsStored(h) /\ HasExpired(h, call[c].start) /\ call[c].start <= now
    BY <1>2 DEF IInv, CallOK, LocalsOK
  <1>4. HasExpired(h, now)
    BY <1>2, <1>3, Times DEF IInv, HasExpired
  <1> QED
    BY <1>1, <1>2, <1>3, <1>4

LEMMA TailIsListed ==
    ASSUME IInv, NEW c \in Calls, call[c].expired # <<>>,
           call'[c].expired = Tail(call[c].expired)
    PROVE  \A x : x \in Listed(c) <=> x = Head(call[c].expired) \/ x \in Listed(c)'
  <1> DEFINE s == call[c].expired
  <1>1. s \in Seq(Extracts)
    BY HeadIsExpired
  <1>2. \A x : x \in Listed(c) <=> \E k \in DOMAIN s : s[k] = x
    BY DEF Listed
  <1>3. \A x : x \in Listed(c)' <=> \E k \in DOMAIN Tail(s) : Tail(s)[k] = x
    BY DEF Listed
  <1> HIDE DEF s
  <1>4. \A x : (\E k \in DOMAIN s : s[k] = x)
               <=> x = Head(s) \/ \E k \in DOMAIN Tail(s) : Tail(s)[k] = x
    BY <1>1, Tails DEF s
  <1> QED
    BY <1>2, <1>3, <1>4 DEF s

\* A record that another call took out is passed over.
LEMMA PassOverStep ==
    ASSUME IInv, NEW c \in Calls, Evict(c), Head(call[c].expired) \notin Recorded,
           UNCHANGED running
    PROVE  IInv'
  <1> DEFINE p == call[c]
             new == [p EXCEPT !.expired = Tail(@)]
  <1>1. /\ UNCHANGED <<running, now, table, created, dir, meanwhile, faults>>
        /\ At(c, "evicting") /\ p.expired # <<>>
        /\ call' = [call EXCEPT ![c] = new]
    BY DEF Evict, IInv, TypeOK
  <1>2. p \in Locals
    BY DEF IInv, TypeOK
  <1>3. Tail(p.expired) \in Seq(Extracts)
    BY <1>1, HeadIsExpired, Tails
  <1>4. /\ new \in Locals /\ new.pc = p.pc /\ new.wanted = p.wanted /\ new.start = p.start
        /\ new.expired = Tail(p.expired) /\ new.known = p.known /\ new.answer = p.answer
    BY <1>2, <1>3 DEF Locals
  <1> HIDE DEF new
  <1>5. call'[c] = new /\ \A o \in Calls \ {c} : call'[o] = call[o]
    BY <1>1, <1>4, CallBecomes DEF IInv
  <1>6. LocalsOK(c) /\ BreaksOK(c) /\ SizeOK(c) /\ SweepOK(c)
    BY DEF IInv, CallOK
  <1>7. \A x : IsStored(x) => IsStored(x)'
    BY <1>1, <1>5 DEF IsStored, At, Calls
  <1>8. \A x : x \in Listed(c) <=> x = Head(p.expired) \/ x \in Listed(c)'
    BY <1>1, <1>4, <1>5, TailIsListed
  <1>9. LocalsOK(c)'
    BY <1>1, <1>4, <1>5, <1>6, <1>7, <1>8
       DEF LocalsOK, AtWork, At, IsShowing, HasExpired
  <1>10. BreaksOK(c)' /\ SizeOK(c)'
    BY <1>1, <1>4, <1>5, <1>6 DEF BreaksOK, SizeOK, At
  <1>11. SweepOK(c)'
    BY <1>1, <1>4, <1>5, <1>6, <1>8
       DEF SweepOK, HasLeftSweep, IsShowing, At, HasExpired, LocalsOK, Recorded
  <1>12. new.answer # "stored"
    BY <1>1, <1>4, <1>6 DEF LocalsOK, At
  <1> QED
    BY <1>1, <1>4, <1>9, <1>10, <1>11, <1>12, QuietStep DEF CallOK, At

\* A record is taken out.
LEMMA PopStep ==
    ASSUME IInv, NEW c \in Calls, Evict(c), Head(call[c].expired) \in Recorded,
           UNCHANGED running
    PROVE  IInv'
  <1> DEFINE p == call[c]
             h == Head(p.expired)
             new == [p EXCEPT !.pc = "removing"]
  <1>1. /\ UNCHANGED <<running, now, created, dir, faults>>
        /\ At(c, "evicting") /\ p.expired # <<>> /\ h \in Recorded
        /\ table' = Popped(h) /\ Note(c, "evict") /\ Goto(c, "removing")
    BY DEF Evict
  <1>2. /\ call' = [call EXCEPT ![c] = new] /\ new \in Locals
        /\ new.pc = "removing" /\ new.wanted = p.wanted /\ new.start = p.start
        /\ new.expired = p.expired /\ new.known = p.known /\ new.answer = p.answer
    BY <1>1, GotoIs DEF IInv, PCs
  <1> HIDE DEF new
  <1>3. /\ call' \in [Calls -> Locals]
        /\ call'[c] = new /\ \A o \in Calls \ {c} : call'[o] = call[o]
    BY <1>2, CallBecomes DEF IInv
  <1>4. /\ table' \in Seq(Extracts \cup {Hole})
        /\ Recorded' = Recorded \ {h}
        /\ \A i \in DOMAIN table' : i \in DOMAIN table /\ table'[i] \in {table[i], Hole}
    BY <1>1, PoppedIs DEF IInv, TypeOK
  <1>5. /\ meanwhile' \in [Calls -> SUBSET {"evict", "store"}]
        /\ \A o \in Calls \ {c} : Noted(o, "evict")
        /\ meanwhile'[c] = meanwhile[c]
    BY <1>1 DEF Note, Noted, IInv, TypeOK
  <1>6. TypeOK'
    BY <1>1, <1>3, <1>4, <1>5 DEF IInv, TypeOK
  <1>7. \A x : IsStored(x)' <=> IsStored(x)
    BY <1>1, <1>2, <1>3 DEF IsStored, At, Calls
  <1>8. TableOK'
    <2>1. ASSUME NEW i \in DOMAIN table', NEW j \in DOMAIN table',
                 table'[i] = table'[j], table'[i] # Hole
          PROVE  i = j
      <3>1. table'[i] = table[i] /\ table'[j] = table[j]
        BY <1>4, <2>1
      <3> QED
        BY <1>4, <2>1, <3>1 DEF IInv, TableOK
    <2>2. \A d \in Recorded' : IsStored(d)' /\ dir'[d] = "document"
      BY <1>1, <1>4, <1>7 DEF IInv, TableOK
    <2> QED
      BY <2>1, <2>2 DEF TableOK
  <1>9. FateOK'
    BY <1>1, <1>4, <1>7, HeadIsExpired DEF IInv, FateOK, HasExpired
  <1>10. DirOK'
    <2> SUFFICES ASSUME NEW d \in Extracts, dir[d] = "document"
                 PROVE  \/ d \in Recorded'
                        \/ At(d, "inserting")'
                        \/ \E o \in Calls : At(o, "removing")' /\ Head(call'[o].expired) = d
      BY <1>1 DEF DirOK
    <2>1. CASE d = h
      BY <1>2, <1>3, <2>1 DEF At
    <2>2. CASE d # h
      BY <1>1, <1>3, <1>4, <2>2 DEF IInv, DirOK, At, Calls
    <2> QED
      BY <2>1, <2>2
  <1>11. RestOK'
    BY <1>1, <1>3, <1>7 DEF IInv, RestOK, HasExpired, At, Calls
  <1>12. ASSUME NEW o \in Calls \ {c}
         PROVE  CallOK(o)'
    <2>1. now \in Nat /\ LocalsOK(o)
      BY Times DEF IInv, CallOK
    <2>2. Evicts(o)
      BY <1>1, <1>4, <1>5 DEF Evicts
    <2>3. Effect(o)
      BY <1>1, <1>3, <1>7, <2>1, <2>2 DEF Effect, TableEffect, LocalsOK
    <2> QED
      BY <1>6, <2>3, OtherCall
  <1>13. LocalsOK(c) /\ BreaksOK(c) /\ SizeOK(c) /\ SweepOK(c)
    BY DEF IInv, CallOK
  <1>14. Listed(c)' = Listed(c)
    BY <1>2, <1>3 DEF Listed
  <1>15. LocalsOK(c)'
    BY <1>1, <1>2, <1>3, <1>4, <1>7, <1>13, <1>14
       DEF LocalsOK, AtWork, At, IsShowing, HasExpired
  <1>16. BreaksOK(c)' /\ SizeOK(c)'
    BY <1>1, <1>2, <1>3, <1>5, <1>13 DEF BreaksOK, SizeOK, At
  <1>17. SweepOK(c)'
    BY <1>1, <1>2, <1>3, <1>4, <1>5, <1>13, <1>14
       DEF SweepOK, HasLeftSweep, IsShowing, At, HasExpired, LocalsOK
  <1> QED
    BY <1>6, <1>8, <1>9, <1>10, <1>11, <1>12, <1>15, <1>16, <1>17 DEF IInv, CallOK

LEMMA RemoveDirStep ==
    ASSUME IInv, NEW c \in Calls, RemoveDir(c), UNCHANGED running
    PROVE  IInv'
  <1> DEFINE p == call[c]
             h == Head(p.expired)
             new == [p EXCEPT !.pc = "evicting", !.expired = Tail(@)]
  <1>1. /\ UNCHANGED <<running, now, table, created, meanwhile>>
        /\ At(c, "removing")
        /\ call' = [call EXCEPT ![c] = new]
    BY DEF RemoveDir, IInv, TypeOK
  <1>2. LocalsOK(c) /\ BreaksOK(c) /\ SizeOK(c) /\ SweepOK(c) /\ p \in Locals
    BY DEF IInv, CallOK, TypeOK
  <1>3. p.expired # <<>> /\ h \notin Recorded
    BY <1>1, <1>2 DEF LocalsOK
  <1>4. Tail(p.expired) \in Seq(Extracts)
    BY <1>3, HeadIsExpired, Tails
  <1>5. h \in Extracts /\ IsStored(h) /\ HasExpired(h, now)
    BY <1>3, HeadIsExpired
  <1>6. PICK left \in {"none", "remnant"} : dir' = [dir EXCEPT ![h] = left]
    BY DEF RemoveDir
  <1>7. faults' \in 0 .. MaxFaults
    BY DEF RemoveDir, IInv, TypeOK
  <1>8. /\ dir' \in [Extracts -> Dirs]
        /\ dir'[h] \in {"none", "remnant"}
        /\ \A d \in Extracts \ {h} : dir'[d] = dir[d]
    BY <1>5, <1>6 DEF IInv, TypeOK, Dirs
  <1>9. /\ new \in Locals /\ new.pc = "evicting" /\ new.wanted = p.wanted
        /\ new.start = p.start
        /\ new.expired = Tail(p.expired) /\ new.known = p.known /\ new.answer = p.answer
    BY <1>2, <1>4 DEF Locals, PCs
  <1> HIDE DEF new
  <1>10. /\ call' \in [Calls -> Locals]
         /\ call'[c] = new /\ \A o \in Calls \ {c} : call'[o] = call[o]
    BY <1>1, <1>9, CallBecomes DEF IInv
  <1>11. TypeOK'
    BY <1>1, <1>7, <1>8, <1>10 DEF IInv, TypeOK
  <1>12. \A x : IsStored(x)' <=> IsStored(x)
    BY <1>1, <1>9, <1>10 DEF IsStored, At, Calls
  <1>13. Recorded' = Recorded /\ Recorded \subseteq Extracts
    BY <1>1 DEF Recorded
  <1>14. TableOK' /\ FateOK'
    BY <1>1, <1>3, <1>8, <1>12, <1>13 DEF IInv, TableOK, FateOK, HasExpired
  <1>15. DirOK'
    BY <1>1, <1>8, <1>10, <1>13 DEF IInv, DirOK, At, Calls
  <1>16. RestOK'
    BY <1>1, <1>5, <1>8, <1>10, <1>12 DEF IInv, RestOK, HasExpired, At, Calls
  <1>17. ASSUME NEW o \in Calls \ {c}
         PROVE  CallOK(o)'
    <2>1. now \in Nat /\ LocalsOK(o)
      BY Times DEF IInv, CallOK
    <2>2. o \in Extracts /\ At(o, "inserting") => o # h
      BY <1>5 DEF IsStored, At
    <2>3. Effect(o)
      BY <1>1, <1>8, <1>10, <1>12, <2>1, <2>2 DEF Effect, TableEffect, LocalsOK
    <2> QED
      BY <1>11, <2>3, OtherCall
  <1>18. \A x : x \in Listed(c) <=> x = h \/ x \in Listed(c)'
    BY <1>3, <1>9, <1>10, TailIsListed
  <1>19. LocalsOK(c)'
    BY <1>1, <1>2, <1>9, <1>10, <1>12, <1>18
       DEF LocalsOK, AtWork, At, IsShowing, HasExpired
  <1>20. BreaksOK(c)' /\ SizeOK(c)'
    BY <1>1, <1>2, <1>9, <1>10 DEF BreaksOK, SizeOK, At, LocalsOK
  <1>21. SweepOK(c)'
    BY <1>1, <1>2, <1>3, <1>9, <1>10, <1>13, <1>18
       DEF SweepOK, HasLeftSweep, IsShowing, At, HasExpired, LocalsOK
  <1> QED
    BY <1>11, <1>14, <1>15, <1>16, <1>17, <1>19, <1>20, <1>21 DEF IInv, CallOK

-----------------------------------------------------------------------------
(* The rest of store_document *)

\* What a call that has swept knows.
LEMMA SweptCall ==
    ASSUME IInv, NEW c \in Calls, HasSwept(c)
    PROVE  /\ call[c].pc = "evicting" /\ call[c].answer = "pending"
           /\ ~IsStored(c) /\ c \notin Recorded
           /\ running /\ call[c].wanted \in Extracts
           /\ meanwhile[c] \in {{}, {"evict", "store"}}
           /\ meanwhile[c] = {} => \A d \in Recorded : ~HasExpired(d, call[c].start)
  <1>1. LocalsOK(c) /\ SweepOK(c) /\ call[c].pc = "evicting" /\ call[c].expired = <<>>
    BY DEF IInv, CallOK, HasSwept, At
  <1>2. Listed(c) = {}
    BY <1>1 DEF Listed
  <1>3. ~IsStored(c)
    BY <1>1 DEF IsStored, At
  <1>4. c \notin Recorded
    BY <1>3 DEF IInv, TableOK
  <1> QED
    BY <1>1, <1>2, <1>3, <1>4 DEF LocalsOK, SweepOK, HasLeftSweep, At, AtWork

\* A call writes its own directory, which no record, no eviction and no other call knows.
LEMMA WriteKeeps ==
    ASSUME IInv, NEW e \in Extracts, HasSwept(e),
           UNCHANGED <<running, now, table, created, meanwhile>>,
           NEW left \in {"none", "partial", "document"}, dir' = [dir EXCEPT ![e] = left],
           faults' \in 0 .. MaxFaults,
           NEW new \in Locals, call' = [call EXCEPT ![e] = new],
           new.answer # "stored", left = "document" => new.pc = "inserting",
           left = "partial" => new.pc = "done" /\ new.answer = "oserror"
    PROVE  /\ TypeOK' /\ TableOK' /\ FateOK' /\ DirOK' /\ RestOK'
           /\ dir'[e] = left
           /\ \A o \in Calls \ {e} : CallOK(o)'
           /\ \A x : IsStored(x)' <=> IsStored(x)
  <1>1. e \in Calls
    BY DEF Calls
  <1>2. /\ call' \in [Calls -> Locals]
        /\ call'[e] = new /\ \A o \in Calls \ {e} : call'[o] = call[o]
    BY <1>1, CallBecomes DEF IInv
  <1>3. /\ dir' \in [Extracts -> Dirs]
        /\ dir'[e] = left /\ \A d \in Extracts \ {e} : dir'[d] = dir[d]
    BY DEF IInv, TypeOK, Dirs
  <1>4. TypeOK'
    BY <1>2, <1>3 DEF IInv, TypeOK
  <1>5. call[e].pc = "evicting" /\ ~IsStored(e) /\ e \notin Recorded
    BY <1>1, SweptCall
  <1>6. \A x : IsStored(x)' <=> IsStored(x)
    BY <1>1, <1>2, <1>5 DEF IsStored, At, Calls
  <1>7. Recorded' = Recorded /\ Recorded \subseteq Extracts
    BY DEF Recorded
  <1>8. TableOK' /\ FateOK'
    BY <1>3, <1>5, <1>6, <1>7 DEF IInv, TableOK, FateOK, HasExpired
  <1>9. DirOK'
    <2> SUFFICES ASSUME NEW d \in Extracts, dir'[d] = "document"
                 PROVE  \/ d \in Recorded'
                        \/ At(d, "inserting")'
                        \/ \E o \in Calls : At(o, "removing")' /\ Head(call'[o].expired) = d
      BY DEF DirOK
    <2>1. CASE d = e
      BY <1>2, <1>3, <2>1 DEF At
    <2>2. CASE d # e
      <3>1. \A o \in Calls : At(o, "removing") => call'[o] = call[o]
        BY <1>2, <1>5 DEF At
      <3>2. call'[d] = call[d]
        BY <1>2, <2>2 DEF Calls
      <3> QED
        BY <1>3, <1>7, <2>2, <3>1, <3>2 DEF IInv, DirOK, At
    <2> QED
      BY <2>1, <2>2
  <1>10. RestOK'
    <2> SUFFICES ASSUME NEW d \in Extracts
                 PROVE  /\ dir'[d] = "partial" => (At(d, "done") /\ call[d].answer = "oserror")'
                        /\ dir'[d] = "remnant"
                           => (IsStored(d) /\ (HasExpired(d, now) \/ ~running))'
      BY DEF RestOK
    <2>1. CASE d = e
      BY <1>2, <1>3, <2>1 DEF At
    <2>2. CASE d # e
      BY <1>2, <1>3, <1>6, <2>2 DEF IInv, RestOK, HasExpired, At, Calls
    <2> QED
      BY <2>1, <2>2
  <1>11. ASSUME NEW o \in Calls \ {e}
         PROVE  CallOK(o)'
    <2>1. now \in Nat /\ LocalsOK(o)
      BY Times DEF IInv, CallOK
    <2>2. Effect(o)
      BY <1>2, <1>3, <1>6, <2>1 DEF Effect, TableEffect, LocalsOK
    <2> QED
      BY <1>4, <2>2, OtherCall
  <1> QED
    BY <1>3, <1>4, <1>6, <1>8, <1>9, <1>10, <1>11

LEMMA StageDocumentStep ==
    ASSUME IInv, NEW e \in Extracts, StageDocument(e), UNCHANGED running
    PROVE  IInv'
  <1> DEFINE p == call[e]
             new == [p EXCEPT !.pc = "inserting"]
  <1>1. /\ UNCHANGED <<running, now, table, created, meanwhile, faults>>
        /\ HasSwept(e) /\ Goto(e, "inserting") /\ e \in Calls
        /\ dir' = [dir EXCEPT ![e] = "document"]
    BY DEF StageDocument, Calls
  <1>2. /\ call' = [call EXCEPT ![e] = new] /\ new \in Locals
        /\ new.pc = "inserting" /\ new.wanted = p.wanted /\ new.start = p.start
        /\ new.expired = p.expired /\ new.known = p.known /\ new.answer = p.answer
    BY <1>1, GotoIs DEF IInv, PCs
  <1> HIDE DEF new
  <1>3. p.answer = "pending" /\ p.pc = "evicting" /\ faults' \in 0 .. MaxFaults
    BY <1>1, SweptCall DEF IInv, TypeOK
  <1>4. call'[e] = new
    BY <1>1, <1>2, CallBecomes DEF IInv
  <1>5. /\ TypeOK' /\ TableOK' /\ FateOK' /\ DirOK' /\ RestOK'
        /\ dir'[e] = "document"
        /\ \A o \in Calls \ {e} : CallOK(o)'
        /\ \A x : IsStored(x)' <=> IsStored(x)
    BY <1>1, <1>2, <1>3, WriteKeeps
  <1>6. LocalsOK(e) /\ BreaksOK(e) /\ SizeOK(e) /\ SweepOK(e)
    BY <1>1 DEF IInv, CallOK
  <1>7. Listed(e)' = Listed(e)
    BY <1>2, <1>4 DEF Listed
  <1>8. LocalsOK(e)'
    BY <1>1, <1>2, <1>3, <1>4, <1>5, <1>6, <1>7
       DEF LocalsOK, AtWork, At, IsShowing, HasExpired
  <1>9. BreaksOK(e)' /\ SizeOK(e)'
    BY <1>1, <1>2, <1>3, <1>4 DEF BreaksOK, SizeOK, At
  <1>10. SweepOK(e)'
    BY <1>1, <1>2, <1>3, <1>4, <1>6 DEF SweepOK, HasLeftSweep, IsShowing, At
  <1> QED
    BY <1>1, <1>5, <1>8, <1>9, <1>10 DEF IInv, CallOK

LEMMA StageFailsStep ==
    ASSUME IInv, NEW e \in Extracts, StageFails(e), UNCHANGED running
    PROVE  IInv'
  <1> DEFINE new == [Idle EXCEPT !.pc = "done", !.answer = "oserror"]
  <1>1. /\ UNCHANGED <<running, now, table, created, meanwhile>>
        /\ HasSwept(e) /\ Answer(e, "oserror") /\ e \in Calls
        /\ faults' \in 0 .. MaxFaults
    BY DEF StageFails, Calls, IInv, TypeOK
  <1>2. PICK left \in {"none", "partial"} : dir' = [dir EXCEPT ![e] = left]
    BY DEF StageFails
  <1>3. call' = [call EXCEPT ![e] = new] /\ new \in Locals
    BY <1>1, AnswerIs DEF IInv, Answers
  <1>4. new.pc = "done" /\ new.answer = "oserror"
    BY DEF Idle
  <1> HIDE DEF new
  <1>5. /\ TypeOK' /\ TableOK' /\ FateOK' /\ DirOK' /\ RestOK'
        /\ \A o \in Calls \ {e} : CallOK(o)'
    BY <1>1, <1>2, <1>3, <1>4, WriteKeeps
  <1>6. CallOK(e)'
    BY <1>1, <1>5, AnsweredOK DEF Answers
  <1> QED
    BY <1>5, <1>6 DEF IInv

LEMMA InsertDocumentStep ==
    ASSUME IInv, NEW e \in Extracts, InsertDocument(e), UNCHANGED running
    PROVE  IInv'
  <1> DEFINE new == [Idle EXCEPT !.pc = "done", !.answer = "stored"]
  <1>1. /\ UNCHANGED <<running, now, dir, faults>>
        /\ At(e, "inserting") /\ Note(e, "store") /\ Answer(e, "stored") /\ e \in Calls
        /\ created' = [created EXCEPT ![e] = now]
    BY DEF InsertDocument, Calls
  <1>2. PICK kept \in {table} \cup Compacted : table' = Append(kept, e)
    BY DEF InsertDocument
  <1>3. LocalsOK(e) /\ ~IsStored(e) /\ e \notin Recorded /\ dir[e] = "document"
    BY <1>1 DEF IInv, CallOK, LocalsOK, IsStored, At, TableOK
  <1>4. /\ table' \in Seq(Extracts \cup {Hole})
        /\ Recorded' = Recorded \cup {e}
        /\ \A i, j \in DOMAIN table' : table'[i] = table'[j] /\ table'[i] # Hole => i = j
    BY <1>2, <1>3, InsertedIs DEF IInv, TypeOK
  <1>5. call' = [call EXCEPT ![e] = new] /\ new \in Locals
    BY <1>1, AnswerIs DEF IInv, Answers
  <1>6. new.pc = "done" /\ new.answer = "stored"
    BY DEF Idle
  <1> HIDE DEF new
  <1>7. /\ call' \in [Calls -> Locals]
        /\ call'[e] = new /\ \A o \in Calls \ {e} : call'[o] = call[o]
    BY <1>1, <1>5, CallBecomes DEF IInv
  <1>8. /\ created' \in [Extracts -> 0 .. MaxTime]
        /\ created'[e] = now /\ \A d \in Extracts \ {e} : created'[d] = created[d]
    BY <1>1 DEF IInv, TypeOK
  <1>9. /\ meanwhile' \in [Calls -> SUBSET {"evict", "store"}]
        /\ \A o \in Calls \ {e} : Noted(o, "store")
    BY <1>1 DEF Note, Noted, IInv, TypeOK
  <1>10. TypeOK'
    BY <1>1, <1>4, <1>7, <1>8, <1>9 DEF IInv, TypeOK
  <1>11. /\ IsStored(e)'
         /\ \A x : x # e => (IsStored(x)' <=> IsStored(x))
    BY <1>6, <1>7 DEF IsStored, At, Calls
  <1>12. TableOK'
    BY <1>1, <1>3, <1>4, <1>11 DEF IInv, TableOK
  <1>13. FateOK'
    BY <1>1, <1>4, <1>8, <1>11 DEF IInv, FateOK, HasExpired
  <1>14. DirOK'
    <2> SUFFICES ASSUME NEW d \in Extracts \ {e}, dir[d] = "document"
                 PROVE  \/ d \in Recorded'
                        \/ At(d, "inserting")'
                        \/ \E o \in Calls : At(o, "removing")' /\ Head(call'[o].expired) = d
      BY <1>1, <1>4 DEF DirOK
    <2>1. \A o \in Calls : At(o, "removing") => call'[o] = call[o]
      BY <1>1, <1>7 DEF At
    <2>2. call'[d] = call[d]
      BY <1>7 DEF Calls
    <2> QED
      BY <1>4, <2>1, <2>2 DEF IInv, DirOK, At
  <1>15. RestOK'
    <2> SUFFICES ASSUME NEW d \in Extracts
                 PROVE  /\ dir[d] = "partial" => (At(d, "done") /\ call[d].answer = "oserror")'
                        /\ dir[d] = "remnant"
                           => (IsStored(d) /\ (HasExpired(d, now) \/ ~running))'
      BY <1>1 DEF RestOK
    <2>1. CASE d = e
      BY <1>3, <2>1
    <2>2. CASE d # e
      BY <1>1, <1>7, <1>8, <1>11, <2>2 DEF IInv, RestOK, HasExpired, At, Calls
    <2> QED
      BY <2>1, <2>2
  <1>16. ASSUME NEW o \in Calls \ {e}
         PROVE  CallOK(o)'
    <2>1. now \in Nat /\ LocalsOK(o)
      BY Times DEF IInv, CallOK
    <2>2. Stores(o)
      BY <1>3, <1>4, <1>8, <1>9 DEF Stores
    <2>3. \A d \in Extracts : IsStored(d) => IsStored(d)' /\ created'[d] = created[d]
      BY <1>3, <1>8, <1>11
    <2>4. Effect(o)
      BY <1>1, <1>7, <2>1, <2>2, <2>3 DEF Effect, TableEffect, LocalsOK
    <2> QED
      BY <1>10, <2>4, OtherCall
  <1>17. CallOK(e)'
    BY <1>1, <1>10, AnsweredOK DEF Answers
  <1> QED
    BY <1>10, <1>12, <1>13, <1>14, <1>15, <1>16, <1>17 DEF IInv

-----------------------------------------------------------------------------
(* The rest of get_page_image *)

LEMMA FindDocumentStep ==
    ASSUME IInv, NEW i \in Images, FindDocument(i), UNCHANGED running
    PROVE  IInv'
  <1> DEFINE p == call[i]
  <1>1. /\ UNCHANGED <<running, now, table, created, dir, meanwhile, faults>>
        /\ HasSwept(i) /\ i \in Calls
    BY DEF FindDocument, Calls
  <1>2. /\ p.pc = "evicting" /\ p.answer = "pending"
        /\ meanwhile[i] \in {{}, {"evict", "store"}}
        /\ meanwhile[i] = {} => \A d \in Recorded : ~HasExpired(d, p.start)
    BY <1>1, SweptCall
  <1>3. CASE p.wanted \in Recorded /\ Goto(i, "opening")
    <2> DEFINE new == [p EXCEPT !.pc = "opening"]
    <2>1. /\ call' = [call EXCEPT ![i] = new] /\ new \in Locals
          /\ new.pc = "opening" /\ new.wanted = p.wanted /\ new.start = p.start
          /\ new.expired = p.expired /\ new.known = p.known /\ new.answer = p.answer
      BY <1>1, <1>3, GotoIs DEF IInv, PCs
    <2> HIDE DEF new
    <2>2. call'[i] = new /\ \A o \in Calls \ {i} : call'[o] = call[o]
      BY <1>1, <2>1, CallBecomes DEF IInv
    <2>3. LocalsOK(i) /\ BreaksOK(i)
      BY <1>1 DEF IInv, CallOK
    <2>4. \A x : IsStored(x) => IsStored(x)'
      BY <1>1, <1>2, <2>2 DEF IsStored, At, Calls
    <2>5. IsStored(p.wanted)
      BY <1>3 DEF IInv, TableOK
    <2>6. Listed(i)' = Listed(i)
      BY <2>1, <2>2 DEF Listed
    <2>7. LocalsOK(i)'
      BY <1>1, <1>2, <2>1, <2>2, <2>3, <2>4, <2>5, <2>6
         DEF LocalsOK, AtWork, At, IsShowing, HasExpired
    <2>8. BreaksOK(i)' /\ SizeOK(i)'
      BY <1>1, <2>1, <2>2, <2>3 DEF BreaksOK, SizeOK, At
    <2>9. SweepOK(i)'
      BY <1>1, <1>2, <1>3, <2>1, <2>2 DEF SweepOK, HasLeftSweep, IsShowing, At, HasExpired
    <2> QED
      BY <1>1, <1>2, <2>1, <2>7, <2>8, <2>9, QuietStep DEF CallOK
  <1>4. ASSUME NEW a \in {"badpage", "404"}, Answer(i, a)
        PROVE  IInv'
    <2> DEFINE new == [Idle EXCEPT !.pc = "done", !.answer = a]
    <2>1. a \in Answers \ {"served"} /\ a # "500" /\ a # "stored"
      BY <1>4 DEF Answers
    <2>2. call' = [call EXCEPT ![i] = new] /\ new \in Locals
      BY <1>1, <1>4, <2>1, AnswerIs DEF IInv
    <2>3. new.answer = a
      BY DEF Idle
    <2> HIDE DEF new
    <2>4. TypeOK'
      BY <1>1, <2>2, CallBecomes DEF IInv, TypeOK
    <2>5. CallOK(i)'
      BY <1>1, <1>4, <2>1, <2>4, AnsweredOK
    <2> QED
      BY <1>1, <1>2, <2>1, <2>2, <2>3, <2>5, QuietStep
  <1> QED
    BY <1>3, <1>4 DEF FindDocument

LEMMA OpenDocumentStep ==
    ASSUME IInv, NEW i \in Images, OpenDocument(i), UNCHANGED running
    PROVE  IInv'
  <1> DEFINE p == call[i]
  <1>1. /\ UNCHANGED <<running, now, table, created, dir, meanwhile, faults>>
        /\ p.pc = "opening" /\ i \in Calls /\ p \in Locals
    BY DEF OpenDocument, At, Calls, IInv, TypeOK
  <1>2. CASE Answer(i, "served")
    <2> DEFINE new == [p EXCEPT !.pc = "done", !.answer = "served"]
    <2>1. call' = [call EXCEPT ![i] = new]
      BY <1>1, <1>2 DEF Answer, IInv, TypeOK
    <2>2. /\ new \in Locals
          /\ new.pc = "done" /\ new.wanted = p.wanted /\ new.start = p.start
          /\ new.expired = p.expired /\ new.known = p.known /\ new.answer = "served"
      BY <1>1 DEF Locals, PCs, Answers
    <2> HIDE DEF new
    <2>3. call'[i] = new /\ \A o \in Calls \ {i} : call'[o] = call[o]
      BY <1>1, <2>1, <2>2, CallBecomes DEF IInv
    <2>4. LocalsOK(i) /\ SweepOK(i)
      BY <1>1 DEF IInv, CallOK
    <2>5. \A x : IsStored(x) => IsStored(x)'
      BY <1>1, <2>3 DEF IsStored, At, Calls
    <2>6. Listed(i)' = Listed(i)
      BY <2>2, <2>3 DEF Listed
    <2>7. LocalsOK(i)'
      BY <1>1, <2>2, <2>3, <2>4, <2>5, <2>6
         DEF LocalsOK, AtWork, At, IsShowing, HasExpired
    <2>8. BreaksOK(i)' /\ SizeOK(i)'
      BY <2>2, <2>3 DEF BreaksOK, SizeOK, At
    <2>9. SweepOK(i)'
      BY <1>1, <2>2, <2>3, <2>4 DEF SweepOK, HasLeftSweep, IsShowing, At, HasExpired
    <2> QED
      BY <1>1, <2>1, <2>2, <2>7, <2>8, <2>9, QuietStep DEF CallOK
  <1>3. CASE Answer(i, "422")
    <2> DEFINE new == [Idle EXCEPT !.pc = "done", !.answer = "422"]
    <2>1. call' = [call EXCEPT ![i] = new] /\ new \in Locals
      BY <1>1, <1>3, AnswerIs DEF IInv, Answers
    <2>2. new.answer = "422"
      BY DEF Idle
    <2> HIDE DEF new
    <2>3. TypeOK'
      BY <1>1, <2>1, CallBecomes DEF IInv, TypeOK
    <2>4. CallOK(i)'
      BY <1>1, <1>3, <2>3, AnsweredOK DEF Answers
    <2> QED
      BY <1>1, <2>1, <2>2, <2>4, QuietStep
  <1> QED
    BY <1>2, <1>3 DEF OpenDocument

-----------------------------------------------------------------------------
(* Time and the exit *)

LEMMA TickStep ==
    ASSUME IInv, Tick, UNCHANGED running
    PROVE  IInv'
  <1>1. /\ UNCHANGED <<running, table, created, dir, call, meanwhile, faults>>
        /\ now < MaxTime /\ now' = now + 1
    BY DEF Tick
  <1>2. TypeOK'
    BY <1>1 DEF IInv, TypeOK
  <1>3. \A x : IsStored(x)' <=> IsStored(x)
    BY <1>1 DEF IsStored, At
  <1>4. Recorded' = Recorded
    BY <1>1 DEF Recorded
  <1>5. \A d \in Extracts : HasExpired(d, now) => HasExpired(d, now)'
    BY <1>1, Times DEF IInv, HasExpired
  <1>6. TableOK' /\ FateOK' /\ DirOK'
    BY <1>1, <1>3, <1>4, <1>5 DEF IInv, TableOK, FateOK, DirOK, At
  <1>7. RestOK'
    BY <1>1, <1>3, <1>5 DEF IInv, RestOK, At
  <1>8. ASSUME NEW o \in Calls
        PROVE  CallOK(o)'
    <2>1. LocalsOK(o)
      BY DEF IInv, CallOK
    <2>2. Effect(o)
      BY <1>1, <1>3, <2>1 DEF Effect, TableEffect, LocalsOK
    <2> QED
      BY <1>2, <2>2, OtherCall
  <1> QED
    BY <1>2, <1>6, <1>7, <1>8 DEF IInv

\* No call is at work when the process exits, so no directory waits for an insertion or
\* a removal.
LEMMA ExitStep ==
    ASSUME IInv, Exit
    PROVE  IInv'
  <1>1. /\ UNCHANGED <<now, created, call, meanwhile>>
        /\ \A c \in Calls : ~AtWork(c)
        /\ running' = FALSE /\ table' = <<>>
    BY DEF Exit
  <1>2. PICK left \in SUBSET Recorded :
           /\ faults' = faults + Cardinality(left)
           /\ faults' <= MaxFaults
           /\ dir' = [d \in Extracts |-> IF d \in left THEN "remnant"
                                         ELSE IF d \in Recorded THEN "none" ELSE dir[d]]
    BY DEF Exit
  <1>3. Cardinality(left) \in Nat
    BY RecordedIsFinite, FS_Subset, FS_CardinalityType DEF IInv, TypeOK
  <1>4. faults' \in 0 .. MaxFaults
    BY <1>2, <1>3 DEF IInv, TypeOK
  <1>5. \A d \in Extracts : \/ dir'[d] = dir[d] /\ d \notin Recorded
                            \/ dir'[d] = "none"
                            \/ dir'[d] = "remnant" /\ d \in Recorded
    BY <1>2
  <1>6. dir' \in [Extracts -> Dirs]
    <2>1. dir \in [Extracts -> Dirs] /\ "remnant" \in Dirs /\ "none" \in Dirs
      BY DEF IInv, TypeOK, Dirs
    <2> QED
      BY <1>2, <2>1
  <1>7. table' \in Seq(Extracts \cup {Hole}) /\ DOMAIN table' = {}
    BY <1>1
  <1>8. TypeOK'
    BY <1>1, <1>4, <1>6, <1>7 DEF IInv, TypeOK
  <1>9. \A x : IsStored(x)' <=> IsStored(x)
    BY <1>1 DEF IsStored, At
  <1>10. Recorded' = {}
    BY <1>7 DEF Recorded
  <1>11. TableOK' /\ FateOK'
    BY <1>1, <1>7, <1>10 DEF TableOK, FateOK
  <1>12. DirOK'
    BY <1>1, <1>5 DEF IInv, DirOK, At, AtWork, Calls
  <1>13. RestOK'
    BY <1>1, <1>5, <1>9 DEF IInv, RestOK, TableOK, At
  <1>14. ASSUME NEW o \in Calls
        PROVE  CallOK(o)'
    <2>1. ~At(o, "inserting")
      BY <1>1 DEF At, AtWork
    <2>2. now \in Nat
      BY Times DEF IInv
    <2>3. Effect(o)
      BY <1>1, <1>9, <2>1, <2>2 DEF Effect, TableEffect
    <2> QED
      BY <1>8, <2>3, OtherCall
  <1> QED
    BY <1>8, <1>11, <1>12, <1>13, <1>14 DEF IInv

-----------------------------------------------------------------------------
(* Every behaviour *)

LEMMA InitIInv == Init => IInv
  <1> SUFFICES ASSUME Init
               PROVE  IInv
    OBVIOUS
  <1> USE DEF Init
  <1>1. TypeOK
    BY IdleIsLocal DEF TypeOK, Dirs
  <1>2. Recorded = {}
    BY DEF Recorded
  <1>3. TableOK /\ FateOK /\ DirOK /\ RestOK
    BY <1>2 DEF TableOK, FateOK, DirOK, RestOK, IsStored, At, Calls, Idle
  <1>4. ASSUME NEW c \in Calls
        PROVE  CallOK(c)
    <2>1. Listed(c) = {}
      BY DEF Listed, Idle
    <2>2. LocalsOK(c)
      BY <2>1 DEF LocalsOK, At, AtWork, IsShowing, Idle
    <2>3. BreaksOK(c) /\ SizeOK(c) /\ SweepOK(c)
      BY DEF BreaksOK, SizeOK, SweepOK, HasLeftSweep, IsShowing, At, Idle
    <2> QED
      BY <2>2, <2>3 DEF CallOK
  <1> QED
    BY <1>1, <1>3, <1>4 DEF IInv

LEMMA StutterStep ==
    ASSUME IInv, UNCHANGED vars
    PROVE  IInv'
  <1> USE DEF vars
  <1>1. TypeOK'
    BY DEF IInv, TypeOK
  <1>2. \A x : IsStored(x)' <=> IsStored(x)
    BY DEF IsStored, At
  <1>3. Recorded' = Recorded
    BY DEF Recorded
  <1>4. TableOK' /\ FateOK' /\ DirOK' /\ RestOK'
    BY <1>2, <1>3 DEF IInv, TableOK, FateOK, DirOK, RestOK, At, HasExpired
  <1>5. ASSUME NEW o \in Calls
        PROVE  CallOK(o)'
    <2>1. LocalsOK(o)
      BY DEF IInv, CallOK
    <2>2. Effect(o)
      BY <1>2, <2>1 DEF Effect, TableEffect, LocalsOK
    <2> QED
      BY <1>1, <2>2, OtherCall
  <1> QED
    BY <1>1, <1>4, <1>5 DEF IInv

LEMMA StepIInv == IInv /\ [Next]_vars => IInv'
  <1> SUFFICES ASSUME IInv, [Next]_vars
               PROVE  IInv'
    OBVIOUS
  <1>1. CASE UNCHANGED vars
    BY <1>1, StutterStep
  <1>2. CASE Exit
    BY <1>2, ExitStep
  <1>3. CASE Tick /\ UNCHANGED running
    BY <1>3, TickStep
  <1>4. ASSUME NEW c \in Calls, Sweep(c), UNCHANGED running
        PROVE  IInv'
    <2>1. CASE BeginSweep(c)
      BY <1>4, <2>1, BeginSweepStep
    <2>2. CASE SweepBreaks(c)
      BY <1>4, <2>2, SweepBreaksStep
    <2>3. CASE SweepNext(c)
      BY <1>4, <2>3, SweepNextStep
    <2>4. CASE EndSweep(c)
      BY <1>4, <2>4, EndSweepStep
    <2>5. CASE Evict(c)
      BY <1>4, <2>5, PassOverStep, PopStep
    <2>6. CASE RemoveDir(c)
      BY <1>4, <2>6, RemoveDirStep
    <2> QED
      BY <1>4, <2>1, <2>2, <2>3, <2>4, <2>5, <2>6 DEF Sweep
  <1>5. ASSUME NEW e \in Extracts, Store(e), UNCHANGED running
        PROVE  IInv'
    BY <1>5, StageDocumentStep, StageFailsStep, InsertDocumentStep DEF Store
  <1>6. ASSUME NEW i \in Images, Show(i), UNCHANGED running
        PROVE  IInv'
    BY <1>6, FindDocumentStep, OpenDocumentStep DEF Show
  <1> QED
    BY <1>1, <1>2, <1>3, <1>4, <1>5, <1>6 DEF Next, Serve

\* The inductive invariant holds of every behaviour.
THEOREM Invariance == Spec => []IInv
  <1> QED
    BY InitIInv, StepIInv, PTL DEF Spec

\* A record has its file, and a directory has a record, a call that is about to insert
\* it or just took it out, or what is left of it a call that answered with the failure or
\* a removal that failed after its time: FilesMatchRecords, whatever calls sweep together
\* (store_document, get_document, _evict, clear_all).
THEOREM FilesMatch == Spec => []FilesMatchRecords
  <1>1. IInv => FilesMatchRecords
    BY DEF IInv, FilesMatchRecords, TableOK, DirOK, RestOK, IsStored
  <1> QED
    BY <1>1, Invariance, PTL

\* The loop of _sweep_expired breaks only beside a call that evicted or stored, and misses
\* a document that had expired only beside both: SweepFailsOnlyBesideOthers.
THEOREM FailsBesideOthers == Spec => []SweepFailsOnlyBesideOthers
  <1>1. IInv => SweepFailsOnlyBesideOthers
    <2> SUFFICES ASSUME IInv, NEW c \in Calls
                 PROVE  /\ call[c].answer = "500" => meanwhile[c] # {}
                        /\ call[c].answer = "served" /\ HasExpired(call[c].wanted, call[c].start)
                           => meanwhile[c] = {"evict", "store"}
      BY DEF SweepFailsOnlyBesideOthers
    <2>1. BreaksOK(c) /\ SweepOK(c)
      BY DEF IInv, CallOK
    <2> QED
      BY <2>1 DEF BreaksOK, SweepOK, HasLeftSweep, IsShowing
  <1> QED
    BY <1>1, Invariance, PTL

Lost(i) == call[i].known /\ AtWork(i) /\ call'[i].pc = "done"

Excused(i) ==
    \/ call'[i].answer \in {"served", "badpage", "500"}
    \/ call'[i].answer = "422" /\ dir[call[i].wanted] = "document"
    \/ HasExpired(call[i].wanted, now)

LEMMA LostIsExcused ==
    ASSUME IInv, [Next]_vars, NEW i \in Images, Lost(i)
    PROVE  Excused(i)
  <1>1. /\ i \in Calls /\ i \notin Extracts /\ LocalsOK(i)
        /\ call \in [Calls -> Locals] /\ call[i] \in Locals
    BY DEF Calls, IInv, CallOK, TypeOK
  <1>2. running /\ IsStored(call[i].wanted)
    BY <1>1 DEF LocalsOK, Lost
  <1>3. call[i].wanted \notin Recorded => HasExpired(call[i].wanted, now)
    BY <1>2 DEF IInv, FateOK, IsStored
  <1>4. dir[call[i].wanted] # "document" => call[i].wanted \notin Recorded
    BY DEF IInv, TableOK
  <1>5. call[i].pc # "done" /\ call'[i].pc = "done"
    BY DEF Lost, AtWork
  <1>6. \A a \in Answers : Answer(i, a) => call'[i].answer = a
    BY <1>1 DEF Answer, Idle, Locals
  <1>7. \A pc : Goto(i, pc) => call'[i].pc = pc
    BY <1>1 DEF Goto, Locals
  <1>8. CASE FindDocument(i)
    BY <1>3, <1>5, <1>6, <1>7, <1>8 DEF FindDocument, Excused, Answers
  <1>9. CASE OpenDocument(i)
    BY <1>3, <1>4, <1>6, <1>9 DEF OpenDocument, Excused, Answers
  <1>10. CASE SweepBreaks(i)
    BY <1>6, <1>10 DEF SweepBreaks, Excused, Answers
  <1>11. CASE BeginSweep(i) \/ SweepNext(i) \/ EndSweep(i) \/ Evict(i) \/ RemoveDir(i)
    <2>1. ASSUME BeginSweep(i)
          PROVE  call'[i].pc = "sweeping"
      BY <1>1, <2>1 DEF BeginSweep, Locals
    <2>2. ASSUME EndSweep(i) \/ RemoveDir(i)
          PROVE  call'[i].pc = "evicting"
      BY <1>1, <2>2 DEF EndSweep, RemoveDir, Locals
    <2>3. ASSUME SweepNext(i)
          PROVE  call'[i].pc = call[i].pc
      BY <1>1, <2>3 DEF SweepNext, Locals
    <2>4. ASSUME Evict(i)
          PROVE  call'[i].pc \in {"removing", call[i].pc}
      BY <1>1, <1>7, <2>4 DEF Evict, Locals
    <2> QED
      BY <1>5, <1>11, <2>1, <2>2, <2>3, <2>4
  <1>12. ASSUME NEW c \in Calls \ {i}, Sweep(c) \/ Show(c) \/ Store(c)
         PROVE  call'[i] = call[i]
    <2>1. \A a : Answer(c, a) => call'[i] = call[i]
      BY <1>1 DEF Answer
    <2>2. \A pc : Goto(c, pc) => call'[i] = call[i]
      BY <1>1 DEF Goto
    <2>3. CASE Show(c)
      BY <2>1, <2>2, <2>3 DEF Show, FindDocument, OpenDocument
    <2>4. CASE Store(c)
      BY <2>1, <2>2, <2>4 DEF Store, StageDocument, StageFails, InsertDocument
    <2>5. CASE BeginSweep(c) \/ SweepNext(c) \/ EndSweep(c) \/ RemoveDir(c)
      BY <1>1, <2>5 DEF BeginSweep, SweepNext, EndSweep, RemoveDir
    <2>6. CASE SweepBreaks(c) \/ Evict(c)
      BY <1>1, <2>1, <2>2, <2>6 DEF SweepBreaks, Evict
    <2> QED
      BY <1>12, <2>3, <2>4, <2>5, <2>6 DEF Sweep
  <1>13. CASE Tick \/ Exit \/ UNCHANGED vars
    BY <1>5, <1>13 DEF Tick, Exit, vars
  <1>14. CASE \E c \in Calls : Sweep(c)
    BY <1>5, <1>10, <1>11, <1>12, <1>14 DEF Sweep
  <1>15. CASE \E e \in Extracts : Store(e)
    BY <1>1, <1>5, <1>12, <1>15 DEF Calls
  <1>16. CASE \E j \in Images : Show(j)
    BY <1>5, <1>8, <1>9, <1>12, <1>16 DEF Show, Calls
  <1> QED
    BY <1>13, <1>14, <1>15, <1>16 DEF Next, Serve

\* A call for a page of a document that was stored when it began finds the record and the
\* file, unless the document has expired or the iterator broke: FreshDocumentIsFound,
\* whatever other calls evict, store and remove.
THEOREM FreshFound == Spec => FreshDocumentIsFound
  <1> DEFINE Found == \A i \in Images : Lost(i) => Excused(i)
  <1>1. IInv /\ [Next]_vars => [Found]_vars
    BY LostIsExcused
  <1>2. FreshDocumentIsFound <=> [][Found]_vars
    BY DEF FreshDocumentIsFound, Lost, Excused
  <1> HIDE DEF Found
  <1> QED
    BY <1>1, <1>2, Invariance, PTL DEF Spec

=============================================================================
