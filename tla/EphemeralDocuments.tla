------------------------ MODULE EphemeralDocuments ------------------------
(***************************************************************************)
(* The registry of backend/app/storage.py under its two endpoints.         *)
(* extract stores a document; it is a coroutine that awaits nothing while  *)
(* it does, so one at a time does.  get_page_image looks a document up and *)
(* renders it on threads of a pool.  Both first sweep the registry, a dict *)
(* that nothing locks.  A document is named by the call that stores it.    *)
(***************************************************************************)
EXTENDS Integers, Sequences, FiniteSets

CONSTANTS
    Extracts,   \* calls of extract
    Images,     \* calls of get_page_image
    Hole,       \* the entry of a deleted key
    TTL,        \* DOCUMENT_TTL_SECONDS
    MaxTime,    \* bound on the time of a run
    MaxFaults   \* bound on writes and removals that fail

Calls == Extracts \cup Images

ASSUME CallsAssumption == Extracts \cap Images = {} /\ Hole \notin Calls
ASSUME BoundsAssumption == TTL \in Nat /\ MaxTime \in Nat /\ MaxFaults \in Nat

VARIABLES
    running,    \* the process has not begun to exit
    now,
    table,      \* the entries of _documents in their order
    created,    \* DocumentRecord.created_at
    dir,        \* the temporary directory of each document, see Dirs
    call,       \* program counter and locals of each call
    meanwhile,  \* what other calls did to the registry during each call's sweep
    faults      \* writes and removals that failed

vars == <<running, now, table, created, dir, call, meanwhile, faults>>

\* "500" is of a broken iterator; a failed write ends in a 500 too, named "oserror".
Answers == {"pending", "stored", "served", "badpage", "404", "422", "500", "oserror"}

\* Beside none and the whole document: what a failed write and a failed removal leave.
Dirs == {"none", "partial", "remnant", "document"}

PCs == {"idle", "sweeping", "evicting", "removing", "inserting", "opening", "done"}

\* wanted: the document; start: the time of its sweep; next and used: the position of
\* the iterator and the size it was made for; expired: what it has found; known (no
\* code): the document had been stored when the call began.
Locals == [pc : PCs, wanted : Extracts \cup {Hole}, start : 0 .. MaxTime,
           next : Nat \ {0}, used : Nat, expired : Seq(Extracts), known : BOOLEAN,
           answer : Answers]

Idle == [pc |-> "idle", wanted |-> Hole, start |-> 0, next |-> 1, used |-> 0,
         expired |-> <<>>, known |-> FALSE, answer |-> "pending"]

Init ==
    /\ running = TRUE
    /\ now = 0
    /\ table = <<>>
    /\ created = [d \in Extracts |-> 0]
    /\ dir = [d \in Extracts |-> "none"]
    /\ call = [c \in Calls |-> Idle]
    /\ meanwhile = [c \in Calls |-> {}]
    /\ faults = 0

-----------------------------------------------------------------------------
(* Helpers *)

At(c, pc) == call[c].pc = pc

AtWork(c) == call[c].pc \notin {"idle", "done"}

Recorded == {d \in Extracts : \E i \in DOMAIN table : table[i] = d}

Goto(c, pc) == call' = [call EXCEPT ![c].pc = pc]

\* The locals are gone then; what the properties ask of a call that was served stays.
Answer(c, a) ==
    call' = [call EXCEPT ![c] =
        IF a = "served" THEN [@ EXCEPT !.pc = "done", !.answer = a]
        ELSE [Idle EXCEPT !.pc = "done", !.answer = a]]

\* An event of call c is noted for the other calls that sweep.
Note(c, event) ==
    meanwhile' = [o \in Calls |-> IF o # c /\ At(o, "sweeping") THEN meanwhile[o] \cup {event}
                                  ELSE meanwhile[o]]

HasSwept(c) == At(c, "evicting") /\ call[c].expired = <<>>

-----------------------------------------------------------------------------
(* _sweep_expired *)

\* The handler is entered; extract has read and parsed the upload before.
BeginSweep(c) ==
    /\ At(c, "idle")
    /\ running
    /\ c \in Extracts => \A e \in Extracts : ~AtWork(e)
    /\ \E d \in IF c \in Extracts THEN {c} ELSE Extracts :
          call' = [call EXCEPT ![c].pc = "sweeping", ![c].wanted = d, ![c].start = now,
                               ![c].used = Cardinality(Recorded),
                               ![c].known = call[d].answer = "stored"]
    /\ UNCHANGED <<now, table, created, dir, meanwhile, faults>>

IsExpiredAtLimit(d, t) == t - created[d] >= TTL              \* mutant

IsExpiredLater(d, t) == t - created[d] > TTL + 1             \* mutant

IsExpired(d, t) == t - created[d] > TTL

\* "dictionary changed size during iteration"
SweepBreaks(c) ==
    /\ At(c, "sweeping")
    /\ call[c].used # Cardinality(Recorded)
    /\ Answer(c, "500")
    /\ UNCHANGED <<now, table, created, dir, meanwhile, faults>>

\* The iterator passes over a deleted entry or looks at a record.
SweepNext(c) ==
    LET i == call[c].next
    IN  /\ At(c, "sweeping")
        /\ call[c].used = Cardinality(Recorded)
        /\ i \in DOMAIN table
        /\ call' = [call EXCEPT ![c].next = i + 1,
              ![c].expired = IF table[i] # Hole /\ IsExpired(table[i], call[c].start)
                             THEN Append(@, table[i]) ELSE @]
        /\ UNCHANGED <<now, table, created, dir, meanwhile, faults>>

EndSweep(c) ==
    /\ At(c, "sweeping")
    /\ call[c].used = Cardinality(Recorded)
    /\ call[c].next \notin DOMAIN table
    /\ call' = [call EXCEPT ![c].pc = "evicting", ![c].next = 1, ![c].used = 0]
    /\ UNCHANGED <<now, table, created, dir, meanwhile, faults>>

\* _evict: pop, which finds the record gone if another call was first.
NotPopped(d) == table                                        \* mutant

Popped(d) == [i \in DOMAIN table |-> IF table[i] = d THEN Hole ELSE table[i]]

Evict(c) ==
    /\ At(c, "evicting")
    /\ call[c].expired # <<>>
    /\ IF Head(call[c].expired) \in Recorded
       THEN /\ table' = Popped(Head(call[c].expired))
            /\ Note(c, "evict")
            /\ Goto(c, "removing")
       ELSE /\ call' = [call EXCEPT ![c].expired = Tail(@)]
            /\ UNCHANGED <<table, meanwhile>>
    /\ UNCHANGED <<now, created, dir, faults>>

\* rmtree, whose errors are ignored; the file may be among what it leaves.
RemoveDir(c) ==
    /\ At(c, "removing")
    /\ \/ /\ dir' = [dir EXCEPT ![Head(call[c].expired)] = "none"]
          /\ UNCHANGED faults
       \/ /\ faults < MaxFaults
          /\ faults' = faults + 1
          /\ dir' = [dir EXCEPT ![Head(call[c].expired)] = "remnant"]
    /\ call' = [call EXCEPT ![c].pc = "evicting", ![c].expired = Tail(@)]
    /\ UNCHANGED <<now, table, created, meanwhile>>

-----------------------------------------------------------------------------
(* The rest of store_document *)

\* mkdtemp and write_bytes.
StageDocument(e) ==
    /\ HasSwept(e)
    /\ dir' = [dir EXCEPT ![e] = "document"]
    /\ Goto(e, "inserting")
    /\ UNCHANGED <<now, table, created, meanwhile, faults>>

\* The directory cannot be made or the file not be written; nobody removes the directory.
StageFails(e) ==
    /\ HasSwept(e)
    /\ faults < MaxFaults
    /\ faults' = faults + 1
    /\ \E left \in {"none", "partial"} : dir' = [dir EXCEPT ![e] = left]
    /\ Answer(e, "oserror")
    /\ UNCHANGED <<now, table, created, meanwhile>>

\* The table without the deleted entries; no entry is there twice.
Compacted == {t \in [1 .. Cardinality(Recorded) -> Recorded] :
                 \A i, j \in DOMAIN t : i < j =>
                    \E k, l \in DOMAIN table : k < l /\ t[i] = table[k] /\ t[j] = table[l]}

\* The entry is appended; a table that is full is compacted first.
InsertDocument(e) ==
    /\ At(e, "inserting")
    /\ \E kept \in {table} \cup Compacted :
          table' = Append(kept, e)
    /\ created' = [created EXCEPT ![e] = now]
    /\ Note(e, "store")
    /\ Answer(e, "stored")
    /\ UNCHANGED <<now, dir, faults>>

-----------------------------------------------------------------------------
(* The rest of get_page_image *)

\* _documents.get, and the checks of the page number.
FindDocument(i) ==
    /\ HasSwept(i)
    /\ IF call[i].wanted \in Recorded
       THEN Goto(i, "opening") \/ Answer(i, "badpage")
       ELSE Answer(i, "404")
    /\ UNCHANGED <<now, table, created, dir, meanwhile, faults>>

\* render_page_png opens the file, which stays readable from then on.  A 422 says that
\* the file is gone or that the document does not open or the page not render.
OpenDocument(i) ==
    /\ At(i, "opening")
    /\ \/ dir[call[i].wanted] \in {"document", "remnant"} /\ Answer(i, "served")
       \/ Answer(i, "422")
    /\ UNCHANGED <<now, table, created, dir, meanwhile, faults>>

-----------------------------------------------------------------------------

Tick ==
    /\ now < MaxTime
    /\ running
    /\ now' = now + 1
    /\ UNCHANGED <<table, created, dir, call, meanwhile, faults>>

Sweep(c) ==
    \/ BeginSweep(c)
    \/ SweepBreaks(c)
    \/ SweepNext(c)
    \/ EndSweep(c)
    \/ Evict(c)
    \/ RemoveDir(c)

Store(e) == StageDocument(e) \/ StageFails(e) \/ InsertDocument(e)

Show(i) == FindDocument(i) \/ OpenDocument(i)

Serve ==
    \/ Tick
    \/ \E c \in Calls : Sweep(c)
    \/ \E e \in Extracts : Store(e)
    \/ \E i \in Images : Show(i)

\* clear_all at exit, when the server has let its calls finish and threads are joined.
Exit ==
    /\ running
    /\ \A c \in Calls : ~AtWork(c)
    /\ running' = FALSE
    /\ \E left \in SUBSET Recorded :
          /\ faults' = faults + Cardinality(left)
          /\ faults' <= MaxFaults
          /\ dir' = [d \in Extracts |-> IF d \in left THEN "remnant"
                                        ELSE IF d \in Recorded THEN "none" ELSE dir[d]]
    /\ table' = <<>>
    /\ UNCHANGED <<now, created, call, meanwhile>>

Next == (Serve /\ UNCHANGED running) \/ Exit

Spec == Init /\ [][Next]_vars

-----------------------------------------------------------------------------
(* Properties *)

\* Type correctness.
TypeOK ==
    /\ running \in BOOLEAN
    /\ now \in 0 .. MaxTime
    /\ table \in Seq(Extracts \cup {Hole})
    /\ created \in [Extracts -> 0 .. MaxTime]
    /\ dir \in [Extracts -> Dirs]
    /\ call \in [Calls -> Locals]
    /\ meanwhile \in [Calls -> SUBSET {"evict", "store"}]
    /\ faults \in 0 .. MaxFaults

HasExpired(d, t) == t > created[d] + TTL

\* A record always has its file, although directories are removed after the record is
\* gone and by whoever took it out.  A whole document belongs to a record, to the call
\* about to insert it or to one that has just taken it out; the rest of one to a call
\* that answered with a failure, or to a document that had its time or saw the exit, and
\* whose removal failed: calls that sweep together, each with its own list of the
\* expired, and an exit leave no other behind.
FilesMatchRecords ==
    /\ TypeOK
    /\ \A d \in Extracts :
          /\ d \in Recorded => dir[d] = "document"
          /\ dir[d] = "document" => \/ d \in Recorded
                                    \/ At(d, "inserting")
                                    \/ \E c \in Calls : At(c, "removing")
                                                       /\ Head(call[c].expired) = d
          /\ dir[d] = "partial" => call[d].answer = "oserror"
          /\ dir[d] = "remnant" => /\ call[d].answer = "stored"
                                   /\ HasExpired(d, now) \/ ~running

\* The README of the backend says of extract: "On failure (any 4xx/5xx), nothing is
\* retained."  A write that fails retains the directory, with a part of the upload, and
\* neither a sweep nor clear_all knows of it.
FailedExtractRetainsNothing ==
    \A e \in Extracts : call[e].answer \in {"500", "oserror"} => dir[e] = "none"

\* A document that was stored when a call for its page arrived is found, record and file,
\* whatever other calls sweep and store meanwhile, unless it has expired by now or the
\* iterator broke: the call shows the page, or refuses it for what the page is, its
\* number out of range or a whole file that does not render.
FreshDocumentIsFound ==
    [][\A i \in Images :
          call[i].known /\ AtWork(i) /\ call'[i].pc = "done"
          => \/ call'[i].answer \in {"served", "badpage", "500"}
             \/ call'[i].answer = "422" /\ dir[call[i].wanted] = "document"
             \/ HasExpired(call[i].wanted, now)]_vars

\* The iterator breaks a call only if another changed the registry meanwhile, and shows
\* a document that had expired when the call began only if others both evicted and
\* stored one: then the size is as before and entries have moved under the iterator.
SweepFailsOnlyBesideOthers ==
    \A c \in Calls :
        /\ call[c].answer = "500" => meanwhile[c] # {}
        /\ call[c].answer = "served" /\ HasExpired(call[c].wanted, call[c].start)
           => meanwhile[c] = {"evict", "store"}

=============================================================================
