-------------------------- MODULE SourcePages_proofs --------------------------
(***************************************************************************)
(* The pages of SourceRegister for every page size and number of readers   *)
(* and deliveries: who reads to the last page has been shown all that was  *)
(* there when it began.                                                    *)
(***************************************************************************)
EXTENDS SourceRegister_proofs

-----------------------------------------------------------------------------
(* The order of the rows *)

\* The rows that come before x.
Before(rows, x) == {y \in rows : Precedes(y, x)}

\* The rows a reader reads.
RowsOf(r) == Enrolled(reader[r].of)

LEMMA OrderIsStrict ==
    ASSUME CallsAssumption, CInv, NEW a \in Deliveries, NEW b \in Deliveries
    PROVE  /\ ~Precedes(a, a)
           /\ ~(Precedes(a, b) /\ Precedes(b, a))
  <1>1. a \in Nat /\ b \in Nat
    BY DEF CallsAssumption
  <1>2. delivery[a].begun \in Nat /\ delivery[b].begun \in Nat
    BY DEF CInv, RowTypes, DeliveryStates
  <1> QED
    BY <1>1, <1>2 DEF Precedes

LEMMA BeforeIsFinite ==
    ASSUME CInv, NEW c, NEW x
    PROVE  /\ IsFiniteSet(Before(Enrolled(c), x))
           /\ Cardinality(Before(Enrolled(c), x)) \in Nat
  <1>1. Before(Enrolled(c), x) \subseteq Enrolled(c)
    BY DEF Before
  <1> QED
    BY <1>1, EnrolledAre, FS_Subset, FS_CardinalityType

\* The place of a row in the sorted rows is the number of those before it.
LEMMA Rank ==
    ASSUME CallsAssumption, CInv, NEW c, NEW q \in Sorted(Enrolled(c)), NEW x \in Enrolled(c)
    PROVE  \E i \in 1 .. Cardinality(Enrolled(c)) :
              q[i] = x /\ Cardinality(Before(Enrolled(c), x)) = i - 1
  <1> DEFINE rows == Enrolled(c)
             n == Cardinality(rows)
  <1>1. /\ rows \subseteq Deliveries
        /\ IsFiniteSet(rows)
        /\ n \in Nat
    BY EnrolledAre
  <1>2. /\ q \in [1 .. n -> rows]
        /\ \A i, j \in 1 .. n : i < j => q[i] # q[j] /\ Precedes(q[i], q[j])
    BY DEF Sorted
  <1> HIDE DEF n
  <1>3. q \in Injection(1 .. n, rows)
    BY <1>1, <1>2 DEF Injection, IsInjective
  <1>4. Cardinality(1 .. n) = n
    BY <1>1, FS_Interval
  <1>5. q \in Surjection(1 .. n, rows)
    BY <1>1, <1>3, <1>4, FS_Injection DEF n
  <1>6. \A y \in rows : \E j \in 1 .. n : q[j] = y
    BY <1>5 DEF Surjection
  <1>7. PICK i \in 1 .. n : q[i] = x
    BY <1>6
  <1> DEFINE m == i - 1
             p == [j \in 1 .. m |-> q[j]]
             first == Before(rows, x)
  <1>8. m \in Nat /\ \A j \in 1 .. m : j \in 1 .. n /\ j < i
    BY <1>1
  <1>9. ASSUME NEW j \in 1 .. m
        PROVE  p[j] = q[j] /\ p[j] \in first
    <2>1. j \in 1 .. n /\ j < i
      BY <1>8
    <2>2. Precedes(q[j], q[i]) /\ q[j] \in rows
      BY <1>2, <2>1
    <2> QED
      BY <1>7, <2>2 DEF Before
  <1>10. ASSUME NEW y \in first
         PROVE  \E j \in 1 .. m : p[j] = y
    <2>1. y \in rows /\ Precedes(y, x)
      BY DEF Before
    <2>2. PICK j \in 1 .. n : q[j] = y
      BY <1>6, <2>1
    <2>3. j # i
      BY <1>1, <1>7, <2>1, <2>2, OrderIsStrict
    <2>4. ~(i < j)
      BY <1>1, <1>2, <1>7, <2>1, <2>2, OrderIsStrict
    <2>5. j \in 1 .. m
      BY <1>1, <2>3, <2>4
    <2> QED
      BY <1>9, <2>2, <2>5
  <1> HIDE DEF first, m
  <1>11. p \in [1 .. m -> first]
    BY <1>9
  <1>12. ASSUME NEW j \in 1 .. m, NEW k \in 1 .. m, p[j] = p[k]
         PROVE  j = k
    <2>1. j \in 1 .. n /\ k \in 1 .. n /\ q[j] = q[k]
      BY <1>8, <1>12
    <2>2. ~(j < k) /\ ~(k < j)
      BY <1>2, <2>1
    <2> QED
      BY <2>1, <2>2
  <1> HIDE DEF p
  <1>13. p \in Bijection(1 .. m, first)
    BY <1>10, <1>11, <1>12 DEF Bijection, Injection, IsInjective, Surjection
  <1>14. Cardinality(first) = m
    BY <1>8, <1>13, FS_CountingElements DEF ExistsBijection
  <1> QED
    BY <1>7, <1>14 DEF m, first, n

-----------------------------------------------------------------------------
(* The inductive invariant *)

\* What a reader p knows: the rows it looks for are there, what it has not been shown
\* comes after the pages it has been shown, and it counted no more rows than it reads.
PageOK(p) ==
    LET rows == Enrolled(p.of)
        missed == p.there \ p.seen
    IN  /\ p.there \subseteq rows
        /\ p.pc \in {"idle", "finding custodian", "finding corpus"}
              => p.there = {} /\ p.seen = {}
        /\ p.seen = {} => p.page = 0
        /\ p.pc = "reading" => p.total <= Cardinality(rows)
        /\ p.pc = "showing" /\ p.seen = {} => p.total = 0
        /\ p.pc \in {"asking", "counting", "reading"}
              => \A x \in missed : p.page * PageSize <= Cardinality(Before(rows, x))
        /\ p.pc = "showing"
              => /\ \A x \in missed : (p.page + 1) * PageSize <= Cardinality(Before(rows, x))
                 /\ p.late \/ (p.page + 1) * PageSize < p.total \/ missed = {}

PInv ==
    /\ \A d \in source : delivery[d].pc = "registered"
    /\ \A r \in Readers : PageOK(reader[r])

\* The start of a page is a number, and the page ends PageSize further.
LEMMA PageStarts ==
    ASSUME CallsAssumption, NEW page \in Nat
    PROVE  /\ page * PageSize \in Nat
           /\ (page + 1) * PageSize = page * PageSize + PageSize
           /\ 0 * PageSize = 0
  BY DEF CallsAssumption

LEMMA PInvInit == Init => PInv
  <1> SUFFICES ASSUME Init PROVE PInv
    OBVIOUS
  <1>1. \A r \in Readers : reader[r] = NewReader
    BY DEF Init
  <1>2. PageOK(NewReader)
    BY DEF PageOK, NewReader
  <1> QED
    BY <1>1, <1>2 DEF Init, PInv

-----------------------------------------------------------------------------
(* Writers *)

\* A committed row stays, as it is, and new rows only add to those before another.
LEMMA RowsGrow ==
    ASSUME CInv, CInv', PInv,
           source \subseteq source',
           \A d \in source : delivery'[d] = delivery[d],
           NEW c
    PROVE  /\ Enrolled(c) \subseteq Enrolled(c)'
           /\ Cardinality(Enrolled(c)) <= Cardinality(Enrolled(c)')
           /\ \A x \in Enrolled(c) :
                 Cardinality(Before(Enrolled(c), x)) <= Cardinality(Before(Enrolled(c), x)')
  <1>1. Enrolled(c) \subseteq Enrolled(c)'
    BY DEF Enrolled
  <1>2. IsFiniteSet(Enrolled(c)')
    <2>1. Enrolled(c)' \subseteq source'
      BY DEF Enrolled
    <2> QED
      BY <2>1, FS_Subset DEF CInv, RowTypes
  <1>3. ASSUME NEW x \in Enrolled(c)
        PROVE  Cardinality(Before(Enrolled(c), x)) <= Cardinality(Before(Enrolled(c), x)')
    <2>1. Before(Enrolled(c), x) \subseteq Before(Enrolled(c), x)'
      BY <1>1 DEF Before, Precedes, Enrolled
    <2>2. Before(Enrolled(c), x)' \subseteq Enrolled(c)'
      BY DEF Before
    <2>3. IsFiniteSet(Before(Enrolled(c), x)')
      BY <1>2, <2>2, FS_Subset
    <2> QED
      BY <2>1, <2>3, FS_Subset
  <1> QED
    BY <1>1, <1>2, <1>3, FS_Subset

\* What a reader knows stays true when rows are added.
LEMMA PageStays ==
    ASSUME CallsAssumption, CInv, CInv', PInv,
           source \subseteq source',
           \A d \in source : delivery'[d] = delivery[d],
           NEW p \in ReaderStates, PageOK(p)
    PROVE  PageOK(p)'
  <1> DEFINE rows == Enrolled(p.of)
             start == p.page * PageSize
             end == (p.page + 1) * PageSize
  <1>1. /\ rows \subseteq rows'
        /\ Cardinality(rows) <= Cardinality(rows')
        /\ \A x \in rows :
              Cardinality(Before(rows, x)) <= Cardinality(Before(rows, x)')
    BY RowsGrow
  <1>2. start \in Nat /\ end \in Nat /\ p.total \in Nat
    <2>1. p.page \in Nat /\ p.total \in Nat
      BY DEF ReaderStates
    <2>2. p.page + 1 \in Nat
      BY <2>1
    <2> QED
      BY <2>1, <2>2, PageStarts
  <1>3. Cardinality(rows) \in Nat /\ Cardinality(rows') \in Nat
    <2>1. Cardinality(rows) \in Nat
      BY EnrolledAre
    <2>2. rows' \subseteq source' /\ IsFiniteSet(source')
      BY DEF CInv, RowTypes, Enrolled
    <2> QED
      BY <2>1, <2>2, FS_Subset, FS_CardinalityType
  <1>4. \A x : Cardinality(Before(rows, x)) \in Nat /\ Cardinality(Before(rows, x)') \in Nat
    <2>1. \A x : Cardinality(Before(rows, x)) \in Nat
      BY BeforeIsFinite
    <2>2. \A x : Before(rows, x)' \subseteq source' /\ IsFiniteSet(source')
      BY DEF CInv, RowTypes, Enrolled, Before
    <2> QED
      BY <2>1, <2>2, FS_Subset, FS_CardinalityType
  <1>5. p.there \subseteq rows
    BY DEF PageOK
  <1> HIDE DEF start, end
  <1>6. p.pc = "reading" => p.total <= Cardinality(rows')
    BY <1>1, <1>2, <1>3 DEF PageOK
  <1>7. \A x \in p.there \ p.seen :
            start <= Cardinality(Before(rows, x)) => start <= Cardinality(Before(rows, x)')
    BY <1>1, <1>2, <1>4, <1>5
  <1>8. \A x \in p.there \ p.seen :
            end <= Cardinality(Before(rows, x)) => end <= Cardinality(Before(rows, x)')
    BY <1>1, <1>2, <1>4, <1>5
  <1> QED
    BY <1>1, <1>5, <1>6, <1>7, <1>8 DEF PageOK, start, end

LEMMA ReaderKnows ==
    ASSUME CallsAssumption, CInv, CInv', PInv,
           source \subseteq source',
           \A d \in source : delivery'[d] = delivery[d],
           NEW r \in Readers, NEW p \in ReaderStates, PageOK(p), reader'[r] = p
    PROVE  PageOK(reader[r])'
  <1>1. PageOK(p)'
    BY PageStays
  <1> QED
    BY <1>1 DEF PageOK

LEMMA WriteKeepsPages ==
    ASSUME CallsAssumption, CInv, CInv', PInv, Write
    PROVE  PInv'
  <1>1. UNCHANGED reader
    BY DEF Write, BeginFounding, InsertCustodian, Found, FoundingFails, BeginDelivery,
           CommitDelivery
  <1>2. /\ source \subseteq source'
        /\ \A d \in source : delivery'[d] = delivery[d]
        /\ \A d \in source' : delivery'[d].pc = "registered"
    <2>1. \A d \in source : delivery[d].pc = "registered" /\ d \in Deliveries
      BY DEF PInv, CInv, RowTypes
    <2>2. ASSUME NEW f \in Founders,
                 BeginFounding(f) \/ InsertCustodian(f) \/ Found(f) \/ FoundingFails(f)
          PROVE  UNCHANGED <<source, delivery>>
      BY <2>2 DEF BeginFounding, InsertCustodian, Found, FoundingFails
    <2>3. ASSUME NEW e \in Deliveries, BeginDelivery(e)
          PROVE  source' = source /\ \A d \in source : delivery'[d] = delivery[d]
      BY <2>1, <2>3 DEF BeginDelivery, CInv, RowTypes
    <2>4. ASSUME NEW e \in Deliveries, CommitDelivery(e)
          PROVE  /\ source' = source \cup {e}
                 /\ \A d \in source : delivery'[d] = delivery[d]
                 /\ delivery'[e].pc = "registered"
      <3>1. /\ delivery[e].pc = "registering"
            /\ source' = source \cup {e}
            /\ delivery' = [delivery EXCEPT ![e].pc = "registered"]
        BY <2>4 DEF CommitDelivery
      <3>2. delivery \in [Deliveries -> DeliveryStates] /\ delivery[e] \in DeliveryStates
        BY DEF CInv, RowTypes
      <3>3. e \notin source
        BY <2>1, <3>1
      <3>4. \A d \in source : delivery'[d] = delivery[d]
        BY <2>1, <3>1, <3>2, <3>3
      <3>5. delivery'[e].pc = "registered"
        BY <3>1, <3>2 DEF DeliveryStates
      <3> QED
        BY <3>1, <3>4, <3>5
    <2> QED
      BY <2>1, <2>2, <2>3, <2>4 DEF Write
  <1>3. ASSUME NEW r \in Readers
        PROVE  PageOK(reader[r])'
    <2>1. reader[r] \in ReaderStates /\ PageOK(reader[r]) /\ reader'[r] = reader[r]
      BY <1>1 DEF CInv, RowTypes, PInv
    <2> QED
      BY <1>2, <2>1, ReaderKnows
  <1> QED
    BY <1>2, <1>3 DEF PInv

-----------------------------------------------------------------------------
(* Readers *)

\* A reader that comes to know what is so disturbs no other.
LEMMA PageBecomes ==
    ASSUME CallsAssumption, CInv, CInv', PInv, NEW r \in Readers, NEW new \in ReaderStates,
           PageOK(new), reader' = [reader EXCEPT ![r] = new], NoWrite
    PROVE  PInv'
  <1>1. source' = source /\ delivery' = delivery
    BY DEF NoWrite
  <1>2. /\ reader'[r] = new
        /\ \A o \in Readers \ {r} : reader'[o] = reader[o]
    BY DEF CInv, RowTypes
  <1>3. ASSUME NEW o \in Readers
        PROVE  PageOK(reader[o])'
    <2>1. CASE o = r
      BY <1>1, <1>2, <2>1, ReaderKnows
    <2>2. CASE o # r
      <3>1. reader[o] \in ReaderStates /\ PageOK(reader[o]) /\ reader'[o] = reader[o]
        BY <1>2, <2>2 DEF CInv, RowTypes, PInv
      <3> QED
        BY <1>1, <3>1, ReaderKnows
    <2> QED
      BY <2>1, <2>2
  <1> QED
    BY <1>1, <1>3 DEF PInv

\* A page is shown: what it does not hold of the rows that were there comes after it.
LEMMA ReadPageShows ==
    ASSUME CallsAssumption, CInv, PInv, NEW p \in ReaderStates, PageOK(p),
           p.pc = "reading", NEW q \in Sorted(Enrolled(p.of)), NEW new \in ReaderStates,
           new = [p EXCEPT !.pc = "showing", !.seen = @ \cup PageOf(q, p.page),
                           !.late = Len(q) > p.total]
    PROVE  PageOK(new)
  <1> DEFINE rows == Enrolled(p.of)
             n == Cardinality(rows)
             start == p.page * PageSize
             end == (p.page + 1) * PageSize
             missed == new.there \ new.seen
  <1>1. p.page \in Nat /\ p.total \in Nat /\ PageSize \in Nat \ {0}
    BY DEF ReaderStates, CallsAssumption
  <1>2. start \in Nat /\ end = start + PageSize /\ end \in Nat
    BY <1>1, PageStarts
  <1>3. n \in Nat
    BY EnrolledAre
  <1>4. /\ new.of = p.of /\ new.there = p.there /\ new.page = p.page /\ new.total = p.total
        /\ new.pc = "showing"
        /\ new.seen = p.seen \cup PageOf(q, p.page)
        /\ new.late = (Len(q) > p.total)
    BY DEF ReaderStates
  <1>5. DOMAIN q = 1 .. n /\ Len(q) = n
    <2>1. q \in [1 .. n -> rows]
      BY DEF Sorted
    <2> HIDE DEF n, rows
    <2>2. q \in Seq(rows) /\ DOMAIN q = 1 .. n
      BY <1>3, <2>1
    <2> QED
      BY <1>3, <2>2
  <1>6. p.total <= n
    BY DEF PageOK
  <1>7. \A i \in 1 .. n : start < i /\ i <= end => q[i] \in new.seen
    <2>1. ASSUME NEW i \in 1 .. n, start < i, i <= end
          PROVE  i \in start + 1 .. end
      BY <1>2, <2>1
    <2> QED
      BY <1>4, <1>5, <2>1 DEF PageOf
  <1>8. ASSUME NEW x \in missed
        PROVE  \E i \in 1 .. n : /\ Cardinality(Before(rows, x)) = i - 1
                                 /\ end < i
    <2>1. x \in rows /\ x \in p.there \ p.seen /\ x \notin new.seen
      BY <1>4 DEF PageOK
    <2>2. PICK i \in 1 .. n : q[i] = x /\ Cardinality(Before(rows, x)) = i - 1
      BY <2>1, Rank
    <2>3. start <= Cardinality(Before(rows, x))
      BY <2>1 DEF PageOK
    <2> HIDE DEF n, rows, start, end, missed
    <2>4. start < i
      BY <1>2, <2>2, <2>3
    <2>5. end < i
      BY <1>2, <1>3, <1>7, <2>1, <2>2, <2>4
    <2> QED
      BY <2>2, <2>5
  <1>9. new.seen = {} => new.page = 0 /\ new.total = 0
    <2> SUFFICES ASSUME new.seen = {} PROVE new.page = 0 /\ new.total = 0
      OBVIOUS
    <2>1. p.page = 0
      BY <1>4 DEF PageOK
    <2>2. start = 0 /\ end >= 1
      BY <1>1, <1>2, <2>1, PageStarts
    <2>3. n = 0
      BY <1>2, <1>3, <1>7, <2>2
    <2> QED
      BY <1>1, <1>3, <1>4, <1>6, <2>1, <2>3
  <1>10. \A x \in missed : end <= Cardinality(Before(rows, x))
    <2> HIDE DEF missed, rows, end, n
    <2>1. ASSUME NEW i \in 1 .. n, end < i
          PROVE  end <= i - 1
      BY <1>2, <1>3, <2>1
    <2> QED
      BY <1>8, <2>1
  <1>11. new.late \/ end < new.total \/ missed = {}
    <2> SUFFICES ASSUME ~(n > p.total), ~(end < p.total), NEW x \in missed
                 PROVE  FALSE
      BY <1>4, <1>5
    <2>1. PICK i \in 1 .. n : end < i
      BY <1>8
    <2> HIDE DEF n, end
    <2> QED
      BY <1>1, <1>2, <1>3, <2>1
  <1>12. new.there \subseteq rows
    BY <1>4 DEF PageOK
  <1> QED
    BY <1>4, <1>9, <1>10, <1>11, <1>12 DEF PageOK

LEMMA ReadKeepsPages ==
    ASSUME CallsAssumption, CInv, CInv', PInv, Read
    PROVE  PInv'
  <1>1. NoWrite
    BY DEF Read, OpenLink, AskForCorpora, FindCustodian, FindCorpus, AskForPage, CountSources,
           ReadPage, TurnPage, Poll
  <1>2. reader \in [Readers -> ReaderStates] /\ \A r \in Readers : reader[r] \in ReaderStates
    BY DEF CInv, RowTypes
  <1>3. \A r \in Readers : PageOK(reader[r])
    BY DEF PInv
  <1>4. ASSUME NEW r \in Readers, NEW new \in ReaderStates, PageOK(new),
               reader' = [reader EXCEPT ![r] = new]
        PROVE  PInv'
    BY <1>1, <1>4, PageBecomes
  \* A reader that has not yet asked for a page knows of none.
  <1>5. ASSUME NEW r \in Readers, NEW new \in ReaderStates,
               reader[r].pc \in {"idle", "finding custodian", "finding corpus"},
               new.there = reader[r].there, new.seen = reader[r].seen,
               new.page = reader[r].page,
               new.pc \in {"asking", "finding custodian", "finding corpus"},
               reader' = [reader EXCEPT ![r] = new]
        PROVE  PInv'
    <2>1. reader[r].there = {} /\ reader[r].seen = {} /\ reader[r].page = 0
      BY <1>3, <1>5 DEF PageOK
    <2>2. PageOK(new)
      BY <1>5, <2>1 DEF PageOK
    <2> QED
      BY <1>4, <1>5, <2>2
  <1>6. ASSUME NEW r \in Readers, NEW pc \in {"404", "409", "no corpus"},
               reader' = [reader EXCEPT ![r] = [NewReader EXCEPT !.pc = pc]]
        PROVE  PInv'
    <2>1. [NewReader EXCEPT !.pc = pc] \in ReaderStates
      BY DEF NewReader, ReaderStates
    <2>2. PageOK([NewReader EXCEPT !.pc = pc])
      BY DEF PageOK, NewReader
    <2> QED
      BY <1>4, <1>6, <2>1, <2>2
  <1>7. ASSUME NEW r \in Readers, OpenLink(r)
        PROVE  PInv'
    <2>1. PICK c \in Founders, k \in Founders :
              reader' = [reader EXCEPT ![r].pc = "asking", ![r].of = c, ![r].in = k]
      BY <1>7 DEF OpenLink
    <2> DEFINE new == [reader[r] EXCEPT !.pc = "asking", !.of = c, !.in = k]
    <2>2. /\ new \in ReaderStates /\ new.pc = "asking"
          /\ new.there = reader[r].there /\ new.seen = reader[r].seen
          /\ new.page = reader[r].page
          /\ reader' = [reader EXCEPT ![r] = new]
      BY <1>2, <2>1 DEF ReaderStates
    <2>3. reader[r].pc = "idle"
      BY <1>7 DEF OpenLink
    <2> HIDE DEF new
    <2> QED
      BY <1>5, <2>2, <2>3
  <1>8. ASSUME NEW r \in Readers, AskForCorpora(r)
        PROVE  PInv'
    <2>1. PICK c \in Founders :
              reader' = [reader EXCEPT ![r].pc = "finding custodian", ![r].of = c]
      BY <1>8 DEF AskForCorpora
    <2> DEFINE new == [reader[r] EXCEPT !.pc = "finding custodian", !.of = c]
    <2>2. /\ new \in ReaderStates /\ new.pc = "finding custodian"
          /\ new.there = reader[r].there /\ new.seen = reader[r].seen
          /\ new.page = reader[r].page
          /\ reader' = [reader EXCEPT ![r] = new]
      BY <1>2, <2>1 DEF ReaderStates
    <2>3. reader[r].pc = "idle"
      BY <1>8 DEF AskForCorpora
    <2> HIDE DEF new
    <2> QED
      BY <1>5, <2>2, <2>3
  <1>9. ASSUME NEW r \in Readers, FindCustodian(r)
        PROVE  PInv'
    <2>1. reader[r].pc = "finding custodian"
      BY <1>9 DEF FindCustodian
    <2>2. CASE reader[r].of \in custodian
      <3> DEFINE new == [reader[r] EXCEPT !.pc = "finding corpus"]
      <3>1. reader' = [reader EXCEPT ![r] = new]
        BY <1>2, <1>9, <2>2 DEF FindCustodian, Goto
      <3>2. /\ new \in ReaderStates /\ new.pc = "finding corpus"
            /\ new.there = reader[r].there /\ new.seen = reader[r].seen
            /\ new.page = reader[r].page
        BY <1>2 DEF ReaderStates
      <3> HIDE DEF new
      <3> QED
        BY <1>5, <2>1, <3>1, <3>2
    <2>3. CASE reader[r].of \notin custodian
      <3>1. reader' = [reader EXCEPT ![r] = [NewReader EXCEPT !.pc = "404"]]
        BY <1>2, <1>9, <2>3 DEF FindCustodian, Goto
      <3> QED
        BY <1>6, <3>1
    <2> QED
      BY <2>2, <2>3
  <1>10. ASSUME NEW r \in Readers, FindCorpus(r)
         PROVE  PInv'
    <2>1. reader[r].pc = "finding corpus"
      BY <1>10 DEF FindCorpus
    <2>2. reader[r].of \in corpus
      BY <1>10 DEF FindCorpus, CInv, ReadingOK
    <2> DEFINE new == [reader[r] EXCEPT !.pc = "asking", !.in = reader[r].of]
    <2>3. reader' = [reader EXCEPT ![r] = new]
      BY <1>2, <1>10, <2>2 DEF FindCorpus
    <2>4. /\ new \in ReaderStates /\ new.pc = "asking"
          /\ new.there = reader[r].there /\ new.seen = reader[r].seen
          /\ new.page = reader[r].page
      BY <1>2 DEF ReaderStates
    <2> HIDE DEF new
    <2> QED
      BY <1>5, <2>1, <2>3, <2>4
  <1>11. ASSUME NEW r \in Readers, AskForPage(r)
         PROVE  PInv'
    <2> DEFINE p == reader[r]
               there == IF p.seen = {} THEN Enrolled(p.of) ELSE p.there
               new == [p EXCEPT !.pc = "counting", !.there = there]
    <2>1. reader' = [reader EXCEPT ![r] = new] /\ p.pc = "asking"
      BY <1>2, <1>11 DEF AskForPage
    <2>2. p \in ReaderStates /\ there \in SUBSET Deliveries
      BY <1>2, EnrolledAre DEF ReaderStates
    <2>3. PageOK(p)
      BY <1>3
    <2> HIDE DEF p, there
    <2>4. /\ new \in ReaderStates /\ new.pc = "counting" /\ new.there = there
          /\ new.of = p.of /\ new.seen = p.seen /\ new.page = p.page
      BY <2>2 DEF ReaderStates
    <2> HIDE DEF new
    <2>5. CASE p.seen = {}
      <3>1. new.page = 0 /\ new.there = Enrolled(new.of)
        BY <2>3, <2>4, <2>5 DEF PageOK, there
      <3>2. \A x : new.page * PageSize <= Cardinality(Before(Enrolled(new.of), x))
        <4>1. ASSUME NEW x
              PROVE  Cardinality(Before(Enrolled(new.of), x)) \in Nat
          BY BeforeIsFinite
        <4>2. new.page * PageSize = 0
          BY <3>1, PageStarts
        <4> QED
          BY <4>1, <4>2
      <3>3. PageOK(new)
        BY <2>4, <3>1, <3>2 DEF PageOK
      <3> QED
        BY <1>4, <2>1, <2>4, <3>3
    <2>6. CASE p.seen # {}
      <3>1. new.there = p.there
        BY <2>4, <2>6 DEF there
      <3>2. PageOK(new)
        BY <2>1, <2>3, <2>4, <2>6, <3>1 DEF PageOK
      <3> QED
        BY <1>4, <2>1, <2>4, <3>2
    <2> QED
      BY <2>5, <2>6
  <1>12. ASSUME NEW r \in Readers, CountSources(r)
         PROVE  PInv'
    <2> DEFINE p == reader[r]
               total == Cardinality(Enrolled(p.of))
    <2>1. CASE p.in \in corpus /\ p.in = p.of
      <3> DEFINE new == [p EXCEPT !.pc = "reading", !.total = total]
      <3>1. reader' = [reader EXCEPT ![r] = new] /\ p.pc = "counting"
        BY <1>2, <1>12, <2>1 DEF CountSources
      <3>2. total \in Nat /\ p \in ReaderStates /\ PageOK(p)
        BY <1>2, <1>3, EnrolledAre
      <3> HIDE DEF p
      <3>3. /\ new \in ReaderStates /\ new.pc = "reading" /\ new.there = p.there
            /\ new.of = p.of /\ new.seen = p.seen /\ new.page = p.page
            /\ new.total = total
        BY <3>2 DEF ReaderStates
      <3> HIDE DEF new
      <3>4. new.total <= Cardinality(Enrolled(new.of))
        BY <3>2, <3>3
      <3>5. PageOK(new)
        BY <3>1, <3>2, <3>3, <3>4 DEF PageOK
      <3> QED
        BY <1>4, <3>1, <3>3, <3>5
    <2>2. CASE ~(p.in \in corpus /\ p.in = p.of)
      <3>1. reader' = [reader EXCEPT ![r] = [NewReader EXCEPT !.pc = "409"]]
        BY <1>2, <1>12, <2>2 DEF CountSources, Goto
      <3> QED
        BY <1>6, <3>1
    <2> QED
      BY <2>1, <2>2
  <1>13. ASSUME NEW r \in Readers, ReadPage(r)
         PROVE  PInv'
    <2> DEFINE p == reader[r]
    <2>1. PICK q \in Sorted(Enrolled(p.of)) :
              reader' = [reader EXCEPT ![r].pc = "showing",
                            ![r].seen = @ \cup PageOf(q, p.page),
                            ![r].late = Len(q) > p.total]
      BY <1>13 DEF ReadPage
    <2> DEFINE new == [p EXCEPT !.pc = "showing", !.seen = @ \cup PageOf(q, p.page),
                                !.late = Len(q) > p.total]
    <2>2. reader' = [reader EXCEPT ![r] = new]
      BY <1>2, <2>1
    <2>3. new \in ReaderStates
      <3>1. reader' \in [Readers -> ReaderStates]
        BY DEF CInv, RowTypes
      <3>2. reader'[r] = new
        BY <1>2, <2>2
      <3> QED
        BY <3>1, <3>2
    <2>4. p \in ReaderStates /\ PageOK(p) /\ p.pc = "reading"
      BY <1>2, <1>3, <1>13 DEF ReadPage
    <2>5. PageOK(new)
      BY <2>3, <2>4, ReadPageShows
    <2> HIDE DEF new
    <2> QED
      BY <1>4, <2>2, <2>3, <2>5
  <1>14. ASSUME NEW r \in Readers, TurnPage(r)
         PROVE  PInv'
    <2> DEFINE p == reader[r]
               next == p.page + 1
               new == [p EXCEPT !.pc = "asking", !.page = next]
    <2>1. /\ reader' = [reader EXCEPT ![r] = new] /\ p.pc = "showing"
          /\ (p.page + 1) * PageSize < p.total
      BY <1>2, <1>14 DEF TurnPage, HasNext
    <2>2. p \in ReaderStates /\ PageOK(p)
      BY <1>2, <1>3
    <2> HIDE DEF p
    <2>3. p.page \in Nat /\ next \in Nat
      <3>1. p.page \in Nat
        BY <2>2 DEF ReaderStates
      <3> QED
        BY <3>1
    <2> HIDE DEF next
    <2>4. /\ new \in ReaderStates /\ new.pc = "asking" /\ new.there = p.there
          /\ new.of = p.of /\ new.seen = p.seen /\ new.page = next
      BY <2>2, <2>3 DEF ReaderStates
    <2> HIDE DEF new
    <2>5. p.seen # {}
      <3>1. (p.page + 1) * PageSize \in Nat
        BY <2>3, PageStarts DEF CallsAssumption
      <3>2. p.total # 0
        BY <2>1, <3>1
      <3> QED
        BY <2>1, <2>2, <3>2 DEF PageOK
    <2>6. PageOK(new)
      BY <2>1, <2>2, <2>4, <2>5 DEF PageOK, next
    <2> QED
      BY <1>4, <2>1, <2>4, <2>6
  <1>15. ASSUME NEW r \in Readers, Poll(r)
         PROVE  PInv'
    <2> DEFINE p == reader[r]
               new == [p EXCEPT !.pc = "asking"]
    <2>1. reader' = [reader EXCEPT ![r] = new] /\ p.pc = "showing"
      BY <1>2, <1>15 DEF Poll, Goto
    <2>2. p \in ReaderStates /\ PageOK(p)
      BY <1>2, <1>3
    <2> HIDE DEF p
    <2>3. /\ new \in ReaderStates /\ new.pc = "asking" /\ new.there = p.there
          /\ new.of = p.of /\ new.seen = p.seen /\ new.page = p.page
      BY <2>2 DEF ReaderStates
    <2> HIDE DEF new
    <2>4. ASSUME NEW x \in new.there \ new.seen
          PROVE  new.page * PageSize <= Cardinality(Before(Enrolled(new.of), x))
      <3>1. p.page \in Nat /\ PageSize \in Nat
        BY <2>2 DEF ReaderStates, CallsAssumption
      <3>2. /\ p.page * PageSize \in Nat
            /\ (p.page + 1) * PageSize = p.page * PageSize + PageSize
        BY <3>1, PageStarts
      <3>3. Cardinality(Before(Enrolled(p.of), x)) \in Nat
        BY BeforeIsFinite
      <3>4. (p.page + 1) * PageSize <= Cardinality(Before(Enrolled(p.of), x))
        BY <2>1, <2>2, <2>3 DEF PageOK
      <3>5. p.page * PageSize <= Cardinality(Before(Enrolled(p.of), x))
        BY <3>1, <3>2, <3>3, <3>4
      <3> QED
        BY <2>3, <3>5
    <2>5. PageOK(new)
      BY <2>2, <2>3, <2>4 DEF PageOK
    <2> QED
      BY <1>4, <2>1, <2>3, <2>5
  <1> QED
    BY <1>7, <1>8, <1>9, <1>10, <1>11, <1>12, <1>13, <1>14, <1>15 DEF Read

\* A step that touches neither the rows nor the readers.
LEMMA OthersKeepPages ==
    ASSUME CallsAssumption, CInv, CInv', PInv, UNCHANGED <<source, delivery, reader>>
    PROVE  PInv'
  <1>1. ASSUME NEW r \in Readers
        PROVE  PageOK(reader[r])'
    <2>1. reader[r] \in ReaderStates /\ PageOK(reader[r]) /\ reader'[r] = reader[r]
      BY DEF CInv, RowTypes, PInv
    <2> QED
      BY <2>1, ReaderKnows
  <1> QED
    BY <1>1 DEF PInv

\* What readers know of the register stays true, whatever is registered meanwhile.
THEOREM PagesInvariant == Spec => [](CInv /\ PInv)
  <1>1. Init => CInv /\ PInv
    BY CInvInit, PInvInit, CallsAssumption
  <1>2. CInv /\ PInv /\ [Next]_vars => (CInv /\ PInv)'
    <2> SUFFICES ASSUME CInv, PInv, [Next]_vars PROVE CInv' /\ PInv'
      OBVIOUS
    <2>1. CallsAssumption /\ CInv'
      BY CInvStep, CallsAssumption
    <2>2. CASE Write
      BY <2>1, <2>2, WriteKeepsPages
    <2>3. CASE Read
      BY <2>1, <2>3, ReadKeepsPages
    <2>4. CASE Stopped \/ (Tick /\ NoWrite /\ UNCHANGED reader) \/ UNCHANGED vars
      <3>1. UNCHANGED <<source, delivery, reader>>
        BY <2>4 DEF Stopped, NoWrite, vars
      <3> QED
        BY <2>1, <3>1, OthersKeepPages
    <2> QED
      BY <2>1, <2>2, <2>3, <2>4 DEF Next
  <1> QED
    BY <1>1, <1>2, PTL DEF Spec

\* Who reads to the last page has been shown every source that was there when it opened
\* the register, unless one was committed between the two statements of that page.
THEOREM NothingSkipped == Spec => []NoSourceIsSkipped
  <1>1. CInv /\ PInv => NoSourceIsSkipped
    BY DEF PInv, PageOK, NoSourceIsSkipped, HasNext
  <1> QED
    BY <1>1, PagesInvariant, PTL

=============================================================================
