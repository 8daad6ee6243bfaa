--------------------------- MODULE SourceRegister ---------------------------
(***************************************************************************)
(* The tables of custodians, corpora and sources, as POST /v1/custodians   *)
(* and deliveries write them and readers of the register list them page by *)
(* page.  The rate limit is in the readers' way; other callers have other  *)
(* addresses, whose windows are their own, and repeat what is refused.     *)
(* Deliveries, which Admission models, are transactions here, each of a    *)
(* content of its own.  A row is named by the call that inserted it, and a *)
(* corpus by its custodian; ids are ordered as the deliveries' numbers.    *)
(* created_at is now(), the start of a transaction, on the clock of now.   *)
(***************************************************************************)
EXTENDS RateLimit

CONSTANTS
    Founders,   \* calls of create_custodian
    Slugs,
    Deliveries, \* calls that register a source, a set of numbers
    Readers,    \* walks through the pages of the register
    ClientOf,   \* the client address of a reader
    PageSize,   \* limit
    NoCustodian

ASSUME CallsAssumption ==
    /\ ClientOf \in [Readers -> Clients]
    /\ Deliveries \subseteq Nat
    /\ NoCustodian \notin Founders
    /\ PageSize \in Nat \ {0}
    /\ Slugs # {}

VARIABLES
    custodian,  \* committed rows of custodians
    corpus,     \* committed rows of corpora
    source,     \* committed rows of sources, each with its enrollment
    founder,    \* program counter and locals of each call
    delivery,
    reader

vars == <<wvars, custodian, corpus, source, founder, delivery, reader>>

FounderStates ==
    [pc : {"idle", "inserting", "founding", "201", "409"}, slug : Slugs]

\* to: the custodian; begun: the start of the transaction.
DeliveryStates ==
    [pc : {"idle", "registering", "registered"}, to : Founders \cup {NoCustodian},
     begun : 0 .. MaxTime]

\* of, in: the custodian and the corpus a reader asks for; page: the page it asks for or
\* shows; total: of that page; seen: the rows shown; there (no code): the rows that were
\* there when the first page was asked for; late (no code): rows were committed after
\* those of the page were counted.
ReaderStates ==
    [pc : {"idle", "finding custodian", "finding corpus", "asking", "counting", "reading",
           "showing", "404", "409", "no corpus"},
     of : Founders \cup {NoCustodian}, in : Founders \cup {NoCustodian}, page : Nat,
     total : Nat,
     seen : SUBSET Deliveries, there : SUBSET Deliveries, late : BOOLEAN]

NewFounder  == [pc |-> "idle", slug |-> CHOOSE s \in Slugs : TRUE]

NewDelivery == [pc |-> "idle", to |-> NoCustodian, begun |-> 0]

NewReader   == [pc |-> "idle", of |-> NoCustodian, in |-> NoCustodian, page |-> 0, total |-> 0,
                seen |-> {}, there |-> {}, late |-> FALSE]

Init ==
    /\ WindowsInit
    /\ custodian = {}
    /\ corpus = {}
    /\ source = {}
    /\ founder = [f \in Founders |-> NewFounder]
    /\ delivery = [d \in Deliveries |-> NewDelivery]
    /\ reader = [r \in Readers |-> NewReader]

-----------------------------------------------------------------------------
(* create_custodian *)

BecomesFounder(f, pc) == founder' = [founder EXCEPT ![f].pc = pc]

BeginFounding(f) ==
    /\ founder[f].pc = "idle"
    /\ \E s \in Slugs : founder' = [founder EXCEPT ![f] = [pc |-> "inserting", slug |-> s]]
    /\ UNCHANGED <<wvars, custodian, corpus, source, delivery, reader>>

\* The INSERT waits for a transaction that has inserted the slug, and fails with
\* UniqueViolation if it was committed.
InsertCustodian(f) ==
    LET same == {g \in Founders \ {f} : founder[g].slug = founder[f].slug}
    IN  /\ founder[f].pc = "inserting"
        /\ \A g \in same : founder[g].pc # "founding"
        /\ BecomesFounder(f, IF same \cap custodian = {} THEN "founding" ELSE "409")
        /\ UNCHANGED <<wvars, custodian, corpus, source, delivery, reader>>

\* The second INSERT of the transaction.
NoCorpus(f) == {}                                            \* mutant

DefaultCorpus(f) == {f}

Found(f) ==
    /\ founder[f].pc = "founding"
    /\ custodian' = custodian \cup {f}
    /\ corpus' = corpus \cup DefaultCorpus(f)
    /\ BecomesFounder(f, "201")
    /\ UNCHANGED <<wvars, source, delivery, reader>>

\* The database fails: the transaction is rolled back, and the call may be repeated.
FoundingFails(f) ==
    /\ founder[f].pc \in {"inserting", "founding"}
    /\ founder' = [founder EXCEPT ![f] = NewFounder]
    /\ UNCHANGED <<wvars, custodian, corpus, source, delivery, reader>>

-----------------------------------------------------------------------------
(* The registration of a source *)

\* The transaction begins and finds the corpus to be the custodian's; if it is not, the
\* call changes nothing.
BeginDelivery(d) ==
    /\ delivery[d].pc = "idle"
    /\ \E c \in corpus :
          delivery' = [delivery EXCEPT ![d] = [pc |-> "registering", to |-> c, begun |-> now]]
    /\ UNCHANGED <<wvars, custodian, corpus, source, founder, reader>>

\* Its rows are committed together.  One that is rolled back stays "registering".
CommitDelivery(d) ==
    /\ delivery[d].pc = "registering"
    /\ source' = source \cup {d}
    /\ delivery' = [delivery EXCEPT ![d].pc = "registered"]
    /\ UNCHANGED <<wvars, custodian, corpus, founder, reader>>

-----------------------------------------------------------------------------
(* list_custodian_corpora and list_sources *)

Goto(r, pc) ==
    reader' = [reader EXCEPT ![r] = IF pc \in {"404", "409", "no corpus"}
                                    THEN [NewReader EXCEPT !.pc = pc]
                                    ELSE [@ EXCEPT !.pc = pc]]

NoWrite == UNCHANGED <<custodian, corpus, source, founder, delivery>>

\* The register is opened with the custodian and corpus of a link.
OpenLink(r) ==
    /\ reader[r].pc = "idle"
    /\ \E c, k \in Founders :
          reader' = [reader EXCEPT ![r].pc = "asking", ![r].of = c, ![r].in = k]
    /\ UNCHANGED wvars
    /\ NoWrite

AskForCorpora(r) ==
    /\ reader[r].pc = "idle"
    /\ Admit(ClientOf[r])
    /\ \E c \in Founders :
          reader' = [reader EXCEPT ![r].pc = "finding custodian", ![r].of = c]
    /\ NoWrite

FindCustodian(r) ==
    /\ reader[r].pc = "finding custodian"
    /\ Goto(r, IF reader[r].of \in custodian THEN "finding corpus" ELSE "404")
    /\ UNCHANGED wvars
    /\ NoWrite

FindCorpus(r) ==
    /\ reader[r].pc = "finding corpus"
    /\ IF reader[r].of \in corpus
       THEN reader' = [reader EXCEPT ![r].pc = "asking", ![r].in = reader[r].of]
       ELSE Goto(r, "no corpus")
    /\ UNCHANGED wvars
    /\ NoWrite

\* The rows of the join of sources and enrollments.
Enrolled(c) == {d \in source : delivery[d].to = c}

AskForPage(r) ==
    /\ reader[r].pc = "asking"
    /\ Admit(ClientOf[r])
    /\ reader' = [reader EXCEPT ![r].pc = "counting",
          ![r].there = IF reader[r].seen = {} THEN Enrolled(reader[r].of) ELSE @]
    /\ NoWrite

\* The corpus is checked and the rows are counted: two statements, of which the first
\* reads a row that no one changes.
CountSources(r) ==
    /\ reader[r].pc = "counting"
    /\ IF reader[r].in \in corpus /\ reader[r].in = reader[r].of
       THEN reader' = [reader EXCEPT ![r].pc = "reading",
                          ![r].total = Cardinality(Enrolled(reader[r].of))]
       ELSE Goto(r, "409")
    /\ UNCHANGED wvars
    /\ NoWrite

\* ORDER BY created_at, id
NotLater(a, b) == delivery[a].begun <= delivery[b].begun     \* mutant

Precedes(a, b) ==
    \/ delivery[a].begun < delivery[b].begun
    \/ delivery[a].begun = delivery[b].begun /\ a < b

Sorted(rows) == {q \in [1 .. Cardinality(rows) -> rows] :
                    \A i, j \in DOMAIN q : i < j => q[i] # q[j] /\ Precedes(q[i], q[j])}

\* LIMIT and OFFSET
PageOf(q, page) == {q[i] : i \in DOMAIN q \cap (page * PageSize + 1 .. (page + 1) * PageSize)}

\* The rows are read on a snapshot of their own.
ReadPage(r) ==
    /\ reader[r].pc = "reading"
    /\ \E q \in Sorted(Enrolled(reader[r].of)) :
          reader' = [reader EXCEPT ![r].pc = "showing",
              ![r].seen = @ \cup PageOf(q, reader[r].page),
              ![r].late = Len(q) > reader[r].total]
    /\ UNCHANGED wvars
    /\ NoWrite

HasNext(r) == (reader[r].page + 1) * PageSize < reader[r].total

\* RegisterView turns the page if there is a next one, and asks for the one it shows
\* again when its timer fires.
TurnPage(r) ==
    /\ reader[r].pc = "showing"
    /\ HasNext(r)
    /\ reader' = [reader EXCEPT ![r].pc = "asking", ![r].page = @ + 1]
    /\ UNCHANGED wvars
    /\ NoWrite

Poll(r) ==
    /\ reader[r].pc = "showing"
    /\ Goto(r, "asking")
    /\ UNCHANGED wvars
    /\ NoWrite

-----------------------------------------------------------------------------

\* A request that the limit stops changes nothing more; its caller may repeat it.
Stopped ==
    /\ \E r \in Readers : reader[r].pc \in {"idle", "asking"} /\ Refuse(ClientOf[r])
    /\ NoWrite
    /\ UNCHANGED reader

Write ==
    \/ \E f \in Founders :
          BeginFounding(f) \/ InsertCustodian(f) \/ Found(f) \/ FoundingFails(f)
    \/ \E d \in Deliveries : BeginDelivery(d) \/ CommitDelivery(d)

Read ==
    \E r \in Readers :
        \/ OpenLink(r)
        \/ AskForCorpora(r)
        \/ FindCustodian(r)
        \/ FindCorpus(r)
        \/ AskForPage(r)
        \/ CountSources(r)
        \/ ReadPage(r)
        \/ TurnPage(r)
        \/ Poll(r)

Next == Write \/ Read \/ Stopped \/ (Tick /\ NoWrite /\ UNCHANGED reader)

Spec == Init /\ [][Next]_vars

-----------------------------------------------------------------------------
(* Properties *)

\* Type correctness.
TypeOK ==
    /\ now \in 0 .. MaxTime
    /\ window \in [Clients -> Seq(0 .. MaxTime)]
    /\ admitted \in [Clients -> Seq(0 .. MaxTime)]
    /\ answer \in Answers
    /\ custodian \subseteq Founders
    /\ corpus \subseteq Founders
    /\ source \subseteq Deliveries
    /\ founder \in [Founders -> FounderStates]
    /\ delivery \in [Deliveries -> DeliveryStates]
    /\ reader \in [Readers -> ReaderStates]

\* A reader at the last page has been shown every source that was there when it opened
\* the register, whatever is registered between its requests, also by a transaction that
\* began earlier and sorts before what was already shown.  It may have missed one only if
\* another was committed between the two statements of this page, until it polls again.
NoSourceIsSkipped ==
    \A r \in Readers :
        reader[r].pc = "showing" /\ ~HasNext(r) /\ ~reader[r].late
        => reader[r].there \subseteq reader[r].seen

\* No slug has two custodians, and whoever finds a custodian finds its default corpus,
\* although the answer takes two transactions and the rows two INSERTs.
CustodianHasItsCorpus ==
    /\ TypeOK
    /\ \A f, g \in custodian : founder[f].slug = founder[g].slug => f = g
    /\ \A r \in Readers : reader[r].pc # "no corpus"

=============================================================================
