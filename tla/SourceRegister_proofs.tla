------------------------ MODULE SourceRegister_proofs ------------------------
(***************************************************************************)
(* The rate limit of SourceRegister for every limit, span and number of    *)
(* clients, readers and requests, and its custodians for every number of   *)
(* founders, slugs and readers.                                            *)
(***************************************************************************)
EXTENDS SourceRegister, TLAPS, SequenceTheorems, FiniteSetTheorems

USE LimitAssumption, SpanAssumption, MaxTimeAssumption

-----------------------------------------------------------------------------
(* The inductive invariant *)

WindowTypes ==
    /\ now \in Nat
    /\ window \in [Clients -> Seq(Nat)]
    /\ admitted \in [Clients -> Seq(Nat)]

\* w is what is left of a without its first k entries, and those are past.
IsLeft(w, a, k) ==
    /\ k \in 0 .. Len(a)
    /\ Len(w) = Len(a) - k
    /\ \A i \in 1 .. Len(w) : w[i] = a[k + i]
    /\ \A i \in 1 .. k : IsPast(a[i])

\* A deque holds the last requests of its client, and has lost only past ones.
WindowsAreLeft == \A c \in Clients : \E k \in Nat : IsLeft(window[c], admitted[c], k)

\* Requests are noted in the order of time.
TimesAreOrdered ==
    \A c \in Clients :
        /\ \A i \in DOMAIN admitted[c] : admitted[c][i] <= now
        /\ \A i, j \in DOMAIN admitted[c] : i <= j => admitted[c][i] <= admitted[c][j]

WInv == WindowTypes /\ WindowsAreLeft /\ TimesAreOrdered

\* What a step does to the windows.
WindowStep ==
    \/ Tick
    \/ \E c \in Clients : Admit(c) \/ Refuse(c)
    \/ UNCHANGED wvars

LEMMA Steps ==
    ASSUME [Next]_vars, ClientOf \in [Readers -> Clients]
    PROVE  WindowStep
  BY DEF Next, Write, Read, Stopped, vars, WindowStep, BeginFounding, InsertCustodian, Found,
         FoundingFails, BeginDelivery, CommitDelivery, OpenLink, AskForCorpora, FindCustodian,
         FindCorpus, AskForPage, CountSources, ReadPage, TurnPage, Poll

-----------------------------------------------------------------------------
(* What popleft leaves *)

\* After the drops the deque holds exactly the requests that are not past.
LEMMA DropsLeave ==
    ASSUME WInv, NEW c \in Clients, NEW n \in 0 .. Len(window[c]), Drops(window[c], n)
    PROVE  \E k \in Nat :
              /\ IsLeft(Rest(window[c], n), admitted[c], k)
              /\ k < Len(admitted[c]) => ~IsPast(admitted[c][k + 1])
  <1> DEFINE w == window[c]
             a == admitted[c]
             rest == Rest(w, n)
  <1>1. w \in Seq(Nat) /\ a \in Seq(Nat) /\ now \in Nat
    BY DEF WInv, WindowTypes
  <1>2. PICK k \in Nat : IsLeft(w, a, k)
    BY DEF WInv, WindowsAreLeft
  <1>3. n \in Nat /\ n <= Len(w) /\ Len(w) \in Nat /\ Len(a) \in Nat
    BY <1>1
  <1>4. Len(rest) = Len(w) - n /\ \A i \in 1 .. Len(rest) : rest[i] = w[n + i]
    BY <1>1, <1>3 DEF Rest
  <1>5. k + n \in 0 .. Len(a) /\ Len(rest) = Len(a) - (k + n)
    BY <1>2, <1>3, <1>4 DEF IsLeft
  <1>6. ASSUME NEW i \in 1 .. Len(rest)
        PROVE  rest[i] = a[k + n + i]
    <2>1. n + i \in 1 .. Len(w)
      BY <1>3, <1>4
    <2>2. w[n + i] = a[k + (n + i)]
      BY <1>2, <2>1 DEF IsLeft
    <2>3. k + (n + i) = k + n + i
      BY <1>3
    <2>4. rest[i] = w[n + i]
      BY <1>4
    <2> QED
      BY <2>2, <2>3, <2>4
  <1>7. ASSUME NEW i \in 1 .. k + n
        PROVE  IsPast(a[i])
    <2>1. CASE i <= k
      BY <1>2, <2>1 DEF IsLeft
    <2>2. CASE i > k
      <3>1. i - k \in 1 .. n /\ i - k \in 1 .. Len(w)
        BY <2>2, <1>3
      <3>2. w[i - k] = a[k + (i - k)]
        BY <1>2, <3>1 DEF IsLeft
      <3>3. IsPast(w[i - k])
        BY <3>1 DEF Drops
      <3>4. k + (i - k) = i
        OBVIOUS
      <3> QED
        BY <3>2, <3>3, <3>4
    <2> QED
      BY <2>1, <2>2
  <1>8. ASSUME k + n < Len(a)
        PROVE  ~IsPast(a[k + n + 1])
    <2>1. n < Len(w) /\ n + 1 \in 1 .. Len(w)
      BY <1>2, <1>3, <1>8 DEF IsLeft
    <2>2. w[n + 1] = a[k + (n + 1)]
      BY <1>2, <2>1 DEF IsLeft
    <2>3. ~IsPast(w[n + 1])
      BY <2>1 DEF Drops
    <2>4. k + (n + 1) = k + n + 1
      BY <1>3
    <2> QED
      BY <2>2, <2>3, <2>4
  <1>9. IsLeft(rest, a, k + n)
    BY <1>5, <1>6, <1>7, <1>3 DEF IsLeft
  <1> QED
    BY <1>3, <1>8, <1>9

-----------------------------------------------------------------------------
(* The invariant is inductive *)

LEMMA WInvInit == Init => WInv
  <1> SUFFICES ASSUME Init PROVE WInv
    OBVIOUS
  <1>1. now = 0 /\ window = [c \in Clients |-> <<>>] /\ admitted = [c \in Clients |-> <<>>]
    BY DEF Init, WindowsInit
  <1>2. WindowTypes
    BY <1>1 DEF WindowTypes
  <1>3. \A c \in Clients : IsLeft(window[c], admitted[c], 0)
    BY <1>1 DEF IsLeft
  <1>4. WindowsAreLeft
    BY <1>3 DEF WindowsAreLeft
  <1>5. TimesAreOrdered
    BY <1>1 DEF TimesAreOrdered
  <1> QED
    BY <1>2, <1>4, <1>5 DEF WInv

\* The clients a step does not concern keep what they have.
LEMMA OthersKeep ==
    ASSUME WInv, NEW c \in Clients, Admit(c) \/ Refuse(c), NEW o \in Clients \ {c}
    PROVE  window'[o] = window[o] /\ admitted'[o] = admitted[o] /\ now' = now
  BY DEF WInv, WindowTypes, Admit, Refuse

LEMMA TickKeeps ==
    ASSUME WInv, Tick
    PROVE  WInv'
  <1>1. now \in Nat /\ now' = now + 1 /\ window' = window /\ admitted' = admitted
    BY DEF WInv, WindowTypes, Tick
  <1>2. WindowTypes'
    BY <1>1 DEF WInv, WindowTypes
  <1>3. ASSUME NEW c \in Clients
        PROVE  \E k \in Nat : IsLeft(window[c], admitted[c], k)'
    <2>1. PICK k \in Nat : IsLeft(window[c], admitted[c], k)
      BY DEF WInv, WindowsAreLeft
    <2>2. admitted[c] \in Seq(Nat) /\ k \in 0 .. Len(admitted[c])
      BY <2>1 DEF WInv, WindowTypes, IsLeft
    <2>3. ASSUME NEW i \in 1 .. k
          PROVE  IsPast(admitted[c][i])'
      <3>1. admitted[c][i] \in Nat
        BY <2>2
      <3>2. IsPast(admitted[c][i])
        BY <2>1 DEF IsLeft
      <3> QED
        BY <1>1, <3>1, <3>2 DEF IsPast
    <2> QED
      BY <1>1, <2>1, <2>3 DEF IsLeft
  <1>4. WindowsAreLeft'
    BY <1>3 DEF WindowsAreLeft
  <1>5. TimesAreOrdered'
    <2> SUFFICES ASSUME NEW c \in Clients
                 PROVE  /\ \A i \in DOMAIN admitted[c] : admitted[c][i] <= now + 1
                        /\ \A i, j \in DOMAIN admitted[c] :
                              i <= j => admitted[c][i] <= admitted[c][j]
      BY <1>1 DEF TimesAreOrdered
    <2>1. admitted[c] \in Seq(Nat)
      BY DEF WInv, WindowTypes
    <2>2. \A i \in DOMAIN admitted[c] : admitted[c][i] <= now /\ admitted[c][i] \in Nat
      BY <2>1 DEF WInv, TimesAreOrdered
    <2> QED
      BY <1>1, <2>2 DEF WInv, TimesAreOrdered
  <1> QED
    BY <1>2, <1>4, <1>5 DEF WInv

LEMMA RefuseKeeps ==
    ASSUME WInv, NEW c \in Clients, Refuse(c)
    PROVE  WInv'
  <1>1. PICK n \in 0 .. Len(window[c]) :
            Drops(window[c], n) /\ window' = [window EXCEPT ![c] = Rest(@, n)]
    BY DEF Refuse
  <1>2. now' = now /\ admitted' = admitted
    BY DEF Refuse
  <1>3. window[c] \in Seq(Nat) /\ window \in [Clients -> Seq(Nat)]
    BY DEF WInv, WindowTypes
  <1>4. Rest(window[c], n) \in Seq(Nat)
    BY <1>3, SubSeqProperties DEF Rest
  <1>5. window' \in [Clients -> Seq(Nat)] /\ window'[c] = Rest(window[c], n)
    BY <1>1, <1>3, <1>4
  <1>6. WindowTypes'
    BY <1>2, <1>5 DEF WInv, WindowTypes
  <1>7. ASSUME NEW o \in Clients
        PROVE  \E k \in Nat : IsLeft(window[o], admitted[o], k)'
    <2>1. CASE o = c
      <3>1. PICK k \in Nat : IsLeft(Rest(window[c], n), admitted[c], k)
        BY <1>1, DropsLeave
      <3> QED
        BY <1>2, <1>5, <2>1, <3>1 DEF IsLeft, IsPast
    <2>2. CASE o # c
      <3>1. window'[o] = window[o] /\ admitted'[o] = admitted[o]
        BY <2>2, OthersKeep
      <3>2. PICK k \in Nat : IsLeft(window[o], admitted[o], k)
        BY DEF WInv, WindowsAreLeft
      <3> QED
        BY <1>2, <3>1, <3>2 DEF IsLeft, IsPast
    <2> QED
      BY <2>1, <2>2
  <1>8. WindowsAreLeft'
    BY <1>7 DEF WindowsAreLeft
  <1>9. TimesAreOrdered'
    BY <1>2 DEF WInv, TimesAreOrdered
  <1> QED
    BY <1>6, <1>8, <1>9 DEF WInv

LEMMA AdmitKeeps ==
    ASSUME WInv, NEW c \in Clients, Admit(c)
    PROVE  WInv'
  <1> DEFINE a == admitted[c]
  <1>1. PICK n \in 0 .. Len(window[c]) :
            Drops(window[c], n) /\ window' = [window EXCEPT ![c] = Append(Rest(@, n), now)]
    BY DEF Admit
  <1>2. now' = now /\ now \in Nat
    BY DEF WInv, WindowTypes, Admit
  <1>3. /\ window \in [Clients -> Seq(Nat)]
        /\ admitted \in [Clients -> Seq(Nat)]
        /\ window[c] \in Seq(Nat)
        /\ a \in Seq(Nat)
    BY DEF WInv, WindowTypes
  <1> DEFINE rest == Rest(window[c], n)
  <1>4. rest \in Seq(Nat)
    BY <1>3, SubSeqProperties DEF Rest
  <1>5. /\ window' \in [Clients -> Seq(Nat)]
        /\ admitted' \in [Clients -> Seq(Nat)]
        /\ window'[c] = Append(rest, now)
        /\ admitted'[c] = Append(a, now)
    <2>1. Append(rest, now) \in Seq(Nat) /\ Append(a, now) \in Seq(Nat)
      BY <1>2, <1>3, <1>4
    <2>2. window' = [window EXCEPT ![c] = Append(rest, now)]
      BY <1>1
    <2>3. admitted' = [admitted EXCEPT ![c] = Append(a, now)]
      BY DEF Admit
    <2> HIDE DEF rest, a
    <2> QED
      BY <1>3, <2>1, <2>2, <2>3
  <1>6. WindowTypes'
    BY <1>2, <1>5 DEF WindowTypes
  <1>7. \E k \in Nat : IsLeft(Append(rest, now), Append(a, now), k)
    <2>1. PICK k \in Nat : IsLeft(rest, a, k)
      BY <1>1, DropsLeave
    <2>2. k \in 0 .. Len(a) /\ Len(rest) = Len(a) - k /\ Len(a) \in Nat
      BY <1>3, <2>1 DEF IsLeft
    <2>3. /\ Len(Append(rest, now)) = Len(rest) + 1
          /\ Len(Append(a, now)) = Len(a) + 1
      BY <1>2, <1>3, <1>4
    <2>4. ASSUME NEW i \in 1 .. Len(rest) + 1
          PROVE  Append(rest, now)[i] = Append(a, now)[k + i]
      <3>1. CASE i <= Len(rest)
        <4>1. i \in 1 .. Len(rest) /\ k + i \in 1 .. Len(a)
          BY <2>2, <3>1
        <4>2. rest[i] = a[k + i]
          BY <2>1, <4>1 DEF IsLeft
        <4> QED
          BY <1>2, <1>3, <1>4, <4>1, <4>2
      <3>2. CASE i = Len(rest) + 1
        <4>1. k + i = Len(a) + 1
          BY <2>2, <3>2
        <4> QED
          BY <1>2, <1>3, <1>4, <3>2, <4>1
      <3> QED
        BY <2>2, <3>1, <3>2
    <2>5. ASSUME NEW i \in 1 .. k
          PROVE  IsPast(Append(a, now)[i])
      <3>1. i \in 1 .. Len(a) /\ IsPast(a[i])
        BY <2>1, <2>2 DEF IsLeft
      <3>2. Append(a, now)[i] = a[i]
        BY <1>2, <1>3, <3>1
      <3> QED
        BY <3>1, <3>2
    <2>6. /\ k \in 0 .. Len(Append(a, now))
          /\ Len(Append(rest, now)) = Len(Append(a, now)) - k
      BY <2>2, <2>3
    <2>7. /\ \A i \in 1 .. Len(Append(rest, now)) : Append(rest, now)[i] = Append(a, now)[k + i]
          /\ \A i \in 1 .. k : IsPast(Append(a, now)[i])
      BY <2>3, <2>4, <2>5
    <2> HIDE DEF rest, a
    <2>8. IsLeft(Append(rest, now), Append(a, now), k)
      BY <2>6, <2>7 DEF IsLeft
    <2> QED
      BY <2>8
  <1>8. ASSUME NEW o \in Clients
        PROVE  \E k \in Nat : IsLeft(window[o], admitted[o], k)'
    <2>1. CASE o = c
      BY <1>2, <1>5, <1>7, <2>1 DEF IsLeft, IsPast
    <2>2. CASE o # c
      <3>1. window'[o] = window[o] /\ admitted'[o] = admitted[o]
        BY <2>2, OthersKeep
      <3>2. PICK k \in Nat : IsLeft(window[o], admitted[o], k)
        BY DEF WInv, WindowsAreLeft
      <3> QED
        BY <1>2, <3>1, <3>2 DEF IsLeft, IsPast
    <2> QED
      BY <2>1, <2>2
  <1>9. WindowsAreLeft'
    BY <1>8 DEF WindowsAreLeft
  <1>10. TimesAreOrdered'
    <2> SUFFICES ASSUME NEW o \in Clients
                 PROVE  /\ \A i \in DOMAIN admitted'[o] : admitted'[o][i] <= now
                        /\ \A i, j \in DOMAIN admitted'[o] :
                              i <= j => admitted'[o][i] <= admitted'[o][j]
      BY <1>2 DEF TimesAreOrdered
    <2>1. CASE o # c
      <3>1. admitted'[o] = admitted[o]
        BY <2>1, OthersKeep
      <3> QED
        BY <3>1 DEF WInv, TimesAreOrdered
    <2>2. CASE o = c
      <3>1. /\ DOMAIN a = 1 .. Len(a)
            /\ Len(a) \in Nat
            /\ DOMAIN Append(a, now) = 1 .. Len(a) + 1
            /\ Append(a, now)[Len(a) + 1] = now
            /\ \A i \in 1 .. Len(a) : Append(a, now)[i] = a[i] /\ a[i] \in Nat
        BY <1>2, <1>3
      <3>2. /\ \A i \in 1 .. Len(a) : a[i] <= now
            /\ \A i, j \in 1 .. Len(a) : i <= j => a[i] <= a[j]
        BY <3>1 DEF WInv, TimesAreOrdered
      <3>3. ASSUME NEW i \in 1 .. Len(a) + 1
            PROVE  Append(a, now)[i] <= now
        BY <1>2, <3>1, <3>2
      <3>4. ASSUME NEW i \in 1 .. Len(a) + 1, NEW j \in 1 .. Len(a) + 1, i <= j
            PROVE  Append(a, now)[i] <= Append(a, now)[j]
        <4>1. CASE j = Len(a) + 1
          BY <3>1, <3>3, <4>1
        <4>2. CASE j # Len(a) + 1
          <5>1. i \in 1 .. Len(a) /\ j \in 1 .. Len(a)
            BY <3>1, <3>4, <4>2
          <5> QED
            BY <3>1, <3>2, <3>4, <5>1
        <4> QED
          BY <4>1, <4>2
      <3> QED
        BY <1>5, <2>2, <3>1, <3>3, <3>4
    <2> QED
      BY <2>1, <2>2
  <1> QED
    BY <1>6, <1>9, <1>10 DEF WInv

LEMMA WInvNext ==
    ASSUME WInv, WindowStep
    PROVE  WInv'
  <1>1. CASE Tick
    BY <1>1, TickKeeps
  <1>2. ASSUME NEW c \in Clients, Admit(c)
        PROVE  WInv'
    BY <1>2, AdmitKeeps
  <1>3. ASSUME NEW c \in Clients, Refuse(c)
        PROVE  WInv'
    BY <1>3, RefuseKeeps
  <1>4. CASE UNCHANGED wvars
    BY <1>4 DEF wvars, WInv, WindowTypes, WindowsAreLeft, TimesAreOrdered, IsLeft, IsPast
  <1> QED
    BY <1>1, <1>2, <1>3, <1>4 DEF WindowStep

\* The invariant of the windows holds throughout, whatever readers and writers do.
THEOREM WindowInvariant == Spec => []WInv
  <1>1. Init => WInv
    BY WInvInit
  <1>2. WInv /\ [Next]_vars => WInv'
    BY CallsAssumption, Steps, WInvNext
  <1> QED
    BY <1>1, <1>2, PTL DEF Spec

-----------------------------------------------------------------------------
(* The limit *)

\* A request is admitted only if the one Limit admissions ago is past: the deque without
\* its past entries is short, so what it has lost reaches that far.
LEMMA AdmittedHasRoom ==
    ASSUME WInv, NEW c \in Clients, Admit(c)
    PROVE  Window!HasRoom(c)
  <1> DEFINE a == admitted[c]
  <1>1. PICK n \in 0 .. Len(window[c]) :
            Drops(window[c], n) /\ ~IsFull(Rest(window[c], n))
    BY DEF Admit
  <1>2. PICK k \in Nat : IsLeft(Rest(window[c], n), a, k)
    BY <1>1, DropsLeave
  <1>3. a \in Seq(Nat) /\ now \in Nat
    BY DEF WInv, WindowTypes
  <1>4. k \in 0 .. Len(a) /\ Len(a) \in Nat /\ Len(a) - k < Limit
    BY <1>1, <1>2, <1>3 DEF IsLeft, IsFull
  <1>5. CASE Len(a) < Limit
    BY <1>5 DEF Window!HasRoom
  <1>6. CASE Len(a) >= Limit
    <2>1. Len(a) - Limit + 1 \in 1 .. k
      BY <1>4, <1>6
    <2>2. IsPast(a[Len(a) - Limit + 1])
      BY <1>2, <2>1 DEF IsLeft
    <2> QED
      BY <2>2 DEF IsPast, Window!HasRoom
  <1> QED
    BY <1>4, <1>5, <1>6

\* A request is refused only while the one Limit admissions ago is recent: it is still in
\* the deque, behind one that is recent.
LEMMA RefusedHasNoRoom ==
    ASSUME WInv, NEW c \in Clients, Refuse(c)
    PROVE  ~Window!HasRoom(c)
  <1> DEFINE a == admitted[c]
  <1>1. PICK n \in 0 .. Len(window[c]) :
            Drops(window[c], n) /\ IsFull(Rest(window[c], n))
    BY DEF Refuse
  <1>2. PICK k \in Nat :
            /\ IsLeft(Rest(window[c], n), a, k)
            /\ k < Len(a) => ~IsPast(a[k + 1])
    BY <1>1, DropsLeave
  <1>3. a \in Seq(Nat) /\ now \in Nat
    BY DEF WInv, WindowTypes
  <1>4. k \in 0 .. Len(a) /\ Len(a) \in Nat /\ Len(a) - k >= Limit
    BY <1>1, <1>2, <1>3 DEF IsLeft, IsFull
  <1>5. PICK first \in 1 .. Len(a), last \in 1 .. Len(a) :
            first = k + 1 /\ last = Len(a) - Limit + 1 /\ first <= last
    <2>1. k + 1 \in 1 .. Len(a) /\ Len(a) - Limit + 1 \in 1 .. Len(a)
      BY <1>4
    <2>2. k + 1 <= Len(a) - Limit + 1
      BY <1>4
    <2> QED
      BY <2>1, <2>2
  <1>6. a[first] \in Nat /\ a[last] \in Nat
    BY <1>3
  <1>7. DOMAIN a = 1 .. Len(a)
    BY <1>3
  <1>8. a[first] <= a[last]
    BY <1>5, <1>7 DEF WInv, TimesAreOrdered
  <1>9. ~(now - a[first] >= Span)
    BY <1>2, <1>4, <1>5 DEF IsPast
  <1>10. ~(now - a[last] >= Span)
    <2> HIDE DEF a
    <2> QED
      BY <1>3, <1>6, <1>8, <1>9
  <1>11. ~(Len(a) < Limit)
    BY <1>4
  <1> QED
    BY <1>5, <1>10, <1>11 DEF Window!HasRoom

LEMMA LimitKept ==
    ASSUME WInv, AtMostLimitPerSpan, WindowStep
    PROVE  AtMostLimitPerSpan'
  <1>1. ASSUME NEW c \in Clients, Admit(c)
        PROVE  AtMostLimitPerSpan'
    <2> DEFINE a == admitted[c]
    <2>1. a \in Seq(Nat) /\ now \in Nat /\ Len(a) \in Nat
      BY DEF WInv, WindowTypes
    <2>2. admitted'[c] = Append(a, now)
      BY <1>1 DEF WInv, WindowTypes, Admit
    <2>3. /\ DOMAIN a = 1 .. Len(a)
          /\ DOMAIN Append(a, now) = 1 .. Len(a) + 1
          /\ Append(a, now)[Len(a) + 1] = now
          /\ \A i \in 1 .. Len(a) : Append(a, now)[i] = a[i]
      BY <2>1
    <2>4. Window!HasRoom(c)
      BY <1>1, AdmittedHasRoom
    <2>5. ASSUME NEW o \in Clients, NEW i \in DOMAIN admitted'[o], i + Limit \in DOMAIN admitted'[o]
          PROVE  admitted'[o][i + Limit] - admitted'[o][i] >= Span
      <3>1. CASE o # c
        <4>1. admitted'[o] = admitted[o]
          BY <1>1, <3>1, OthersKeep
        <4> QED
          BY <2>5, <4>1 DEF AtMostLimitPerSpan
      <3>2. CASE o = c /\ i + Limit <= Len(a)
        <4>1. i \in DOMAIN a /\ i + Limit \in DOMAIN a
          BY <2>2, <2>3, <2>5, <3>2
        <4>2. a[i + Limit] - a[i] >= Span
          BY <4>1 DEF AtMostLimitPerSpan
        <4> QED
          BY <2>2, <2>3, <3>2, <4>1, <4>2
      <3>3. CASE o = c /\ i + Limit > Len(a)
        <4>1. i \in 1 .. Len(a) + 1 /\ i + Limit \in 1 .. Len(a) + 1
          BY <2>2, <2>3, <2>5, <3>3
        <4> HIDE DEF a
        <4>2. i \in 1 .. Len(a) /\ i + Limit = Len(a) + 1 /\ i = Len(a) - Limit + 1
          BY <2>1, <3>3, <4>1
        <4> USE DEF a
        <4>3. now - a[i] >= Span
          BY <2>1, <2>4, <4>2 DEF Window!HasRoom
        <4> QED
          BY <2>2, <2>3, <3>3, <4>2, <4>3
      <3>4. i \in Nat /\ i + Limit \in Nat
        <4>1. DOMAIN admitted'[o] \subseteq Nat
          BY WInvNext DEF WInv, WindowTypes
        <4> QED
          BY <2>5, <4>1
      <3> QED
        BY <2>1, <3>1, <3>2, <3>3, <3>4
    <2> QED
      BY <2>5 DEF AtMostLimitPerSpan
  <1>2. CASE admitted' = admitted
    BY <1>2 DEF AtMostLimitPerSpan
  <1> QED
    BY <1>1, <1>2 DEF WindowStep, Tick, Refuse, wvars

\* No client gets more than Limit requests through within a minute, wherever the minute
\* begins: the deque of security_middleware forgets nothing that still counts.
THEOREM NeverMoreThanLimit == Spec => []AtMostLimitPerSpan
  <1>1. Init => AtMostLimitPerSpan
    BY DEF Init, WindowsInit, AtMostLimitPerSpan
  <1>2. WInv /\ AtMostLimitPerSpan /\ [Next]_vars => AtMostLimitPerSpan'
    BY CallsAssumption, Steps, LimitKept
  <1> QED
    BY <1>1, <1>2, WindowInvariant, PTL DEF Spec

-----------------------------------------------------------------------------
(* The refinement *)

LEMMA WindowRefines ==
    ASSUME WInv, WindowStep
    PROVE  [Window!Next]_(Window!vars)
  <1>1. CASE Tick
    BY <1>1 DEF Tick, Window!Tick, Window!Next
  <1>2. ASSUME NEW c \in Clients, Admit(c)
        PROVE  Window!Next
    BY <1>2, AdmittedHasRoom DEF Admit, Window!Admit, Window!Next
  <1>3. ASSUME NEW c \in Clients, Refuse(c)
        PROVE  Window!Next
    BY <1>3, RefusedHasNoRoom DEF Refuse, Window!Refuse, Window!Next
  <1>4. CASE UNCHANGED wvars
    BY <1>4 DEF wvars, Window!vars
  <1> QED
    BY <1>1, <1>2, <1>3, <1>4 DEF WindowStep

\* The deque of security_middleware, which drops what is past and does not note what it
\* refuses, answers every request as the sliding window that remembers all would.
THEOREM Implements == Spec => ImplementsSlidingWindow
  <1>1. Init => Window!Init
    BY DEF Init, WindowsInit, Window!Init
  <1>2. WInv /\ [Next]_vars => [Window!Next]_(Window!vars)
    BY CallsAssumption, Steps, WindowRefines
  <1> QED
    BY <1>1, <1>2, WindowInvariant, PTL DEF Spec, ImplementsSlidingWindow, Window!Spec

-----------------------------------------------------------------------------
(* Custodians *)

FoundingOK ==
    /\ custodian \subseteq Founders
    /\ founder \in [Founders -> FounderStates]
    /\ \A f \in Founders : f \in custodian <=> founder[f].pc = "201"
    /\ \A f, g \in Founders :
          f # g /\ founder[f].slug = founder[g].slug /\ founder[f].pc \in {"founding", "201"}
          => founder[g].pc \notin {"founding", "201"}

\* Who has found a custodian finds its corpus.
ReadingOK ==
    /\ corpus \subseteq Founders
    /\ custodian \subseteq corpus
    /\ \A r \in Readers :
          /\ reader[r].pc = "finding corpus" => reader[r].of \in custodian
          /\ reader[r].pc # "no corpus"

RowTypes ==
    /\ source \subseteq Deliveries
    /\ IsFiniteSet(source)
    /\ delivery \in [Deliveries -> DeliveryStates]
    /\ reader \in [Readers -> ReaderStates]

TimeTypes ==
    /\ now \in 0 .. MaxTime
    /\ window \in [Clients -> Seq(0 .. MaxTime)]
    /\ admitted \in [Clients -> Seq(0 .. MaxTime)]
    /\ answer \in Answers

CInv == FoundingOK /\ ReadingOK /\ RowTypes /\ TimeTypes

LEMMA FounderBecomes ==
    ASSUME FoundingOK, NEW f \in Founders, NEW new \in FounderStates,
           founder' = [founder EXCEPT ![f] = new]
    PROVE  /\ founder' \in [Founders -> FounderStates]
           /\ founder'[f] = new
           /\ \A g \in Founders \ {f} : founder'[g] = founder[g]
  BY DEF FoundingOK

\* A call that is not founding, nor has founded, leaves the slugs in order.
LEMMA NotFounding ==
    ASSUME FoundingOK, NEW f \in Founders, NEW new \in FounderStates,
           founder' = [founder EXCEPT ![f] = new], UNCHANGED custodian,
           founder[f].pc # "201", new.pc \notin {"founding", "201"}
    PROVE  FoundingOK'
  BY FounderBecomes DEF FoundingOK

LEMMA PcChanges ==
    ASSUME FoundingOK, NEW f \in Founders,
           NEW pc \in {"idle", "inserting", "founding", "201", "409"}
    PROVE  [founder[f] EXCEPT !.pc = pc] \in FounderStates
  BY DEF FoundingOK, FounderStates

LEMMA InsertKeeps ==
    ASSUME FoundingOK, NEW f \in Founders, InsertCustodian(f)
    PROVE  FoundingOK'
  <1> DEFINE same == {g \in Founders \ {f} : founder[g].slug = founder[f].slug}
             pc == IF same \cap custodian = {} THEN "founding" ELSE "409"
             new == [founder[f] EXCEPT !.pc = pc]
  <1>1. /\ founder[f].pc = "inserting"
        /\ \A g \in same : founder[g].pc # "founding"
        /\ founder' = [founder EXCEPT ![f] = new]
        /\ UNCHANGED custodian
    BY DEF InsertCustodian, BecomesFounder, FoundingOK
  <1>2. new \in FounderStates /\ new.pc = pc /\ new.slug = founder[f].slug
    BY PcChanges DEF FoundingOK, FounderStates
  <1>3. CASE same \cap custodian = {}
    <2>1. /\ founder' \in [Founders -> FounderStates]
          /\ founder'[f] = new
          /\ \A g \in Founders \ {f} : founder'[g] = founder[g]
      BY <1>1, <1>2, FounderBecomes
    <2>2. \A g \in same : founder[g].pc \notin {"founding", "201"}
      BY <1>1, <1>3 DEF FoundingOK
    <2>3. new.pc = "founding"
      BY <1>2, <1>3
    <2>4. \A g \in Founders : g \in custodian' <=> founder'[g].pc = "201"
      BY <1>1, <2>1, <2>3 DEF FoundingOK
    <2>5. ASSUME NEW g \in Founders, NEW h \in Founders, g # h,
                 founder'[g].slug = founder'[h].slug,
                 founder'[g].pc \in {"founding", "201"}
          PROVE  founder'[h].pc \notin {"founding", "201"}
      <3>1. CASE g = f
        <4>1. h \in same
          BY <1>2, <2>1, <2>5, <3>1
        <4> QED
          BY <2>1, <2>2, <4>1
      <3>2. CASE h = f
        <4>1. g \in same
          BY <1>2, <2>1, <2>5, <3>2
        <4> QED
          BY <2>1, <2>2, <2>5, <4>1
      <3>3. CASE g # f /\ h # f
        BY <2>1, <2>5, <3>3 DEF FoundingOK
      <3> QED
        BY <3>1, <3>2, <3>3
    <2> QED
      BY <1>1, <2>1, <2>4, <2>5 DEF FoundingOK
  <1>4. CASE same \cap custodian # {}
    <2>1. new.pc = "409"
      BY <1>2, <1>4
    <2> HIDE DEF new
    <2> QED
      BY <1>1, <1>2, <2>1, NotFounding
  <1> QED
    BY <1>3, <1>4

LEMMA FoundKeeps ==
    ASSUME FoundingOK, NEW f \in Founders, Found(f)
    PROVE  FoundingOK'
  <1> DEFINE new == [founder[f] EXCEPT !.pc = "201"]
  <1>1. /\ founder[f].pc = "founding"
        /\ founder' = [founder EXCEPT ![f] = new]
        /\ custodian' = custodian \cup {f}
    BY DEF Found, BecomesFounder, FoundingOK
  <1>2. new \in FounderStates /\ new.pc = "201" /\ new.slug = founder[f].slug
    BY PcChanges DEF FoundingOK, FounderStates
  <1>3. /\ founder' \in [Founders -> FounderStates]
        /\ founder'[f] = new
        /\ \A g \in Founders \ {f} : founder'[g] = founder[g]
    BY <1>1, <1>2, FounderBecomes
  <1> HIDE DEF new
  <1> QED
    BY <1>1, <1>2, <1>3 DEF FoundingOK

LEMMA WriteKeepsFounding ==
    ASSUME FoundingOK, Slugs # {}, Write
    PROVE  FoundingOK'
  <1>1. ASSUME NEW f \in Founders, BeginFounding(f)
        PROVE  FoundingOK'
    <2>1. PICK t \in Slugs : founder' = [founder EXCEPT ![f] = [pc |-> "inserting", slug |-> t]]
      BY <1>1 DEF BeginFounding
    <2>2. [pc |-> "inserting", slug |-> t] \in FounderStates
      BY DEF FounderStates
    <2>3. founder[f].pc = "idle" /\ UNCHANGED custodian
      BY <1>1 DEF BeginFounding
    <2> QED
      BY <2>1, <2>2, <2>3, NotFounding
  <1>2. ASSUME NEW f \in Founders, FoundingFails(f)
        PROVE  FoundingOK'
    <2>1. NewFounder \in FounderStates /\ NewFounder.pc = "idle"
      BY DEF NewFounder, FounderStates
    <2>2. /\ founder' = [founder EXCEPT ![f] = NewFounder]
          /\ founder[f].pc # "201" /\ UNCHANGED custodian
      BY <1>2 DEF FoundingFails
    <2> QED
      BY <2>1, <2>2, NotFounding
  <1>3. ASSUME NEW d \in Deliveries, BeginDelivery(d) \/ CommitDelivery(d)
        PROVE  FoundingOK'
    BY <1>3 DEF BeginDelivery, CommitDelivery, FoundingOK
  <1> QED
    BY <1>1, <1>2, <1>3, InsertKeeps, FoundKeeps DEF Write

LEMMA TimeKeeps ==
    ASSUME TimeTypes, WindowStep
    PROVE  TimeTypes'
  <1>1. CASE Tick
    BY <1>1 DEF Tick, TimeTypes
  <1>2. CASE UNCHANGED wvars
    BY <1>2 DEF wvars, TimeTypes
  <1>3. ASSUME NEW c \in Clients, NEW n \in 0 .. Len(window[c])
        PROVE  Rest(window[c], n) \in Seq(0 .. MaxTime)
    <2>1. window[c] \in Seq(0 .. MaxTime)
      BY DEF TimeTypes
    <2> QED
      BY <2>1, SubSeqProperties DEF Rest
  <1>4. ASSUME NEW c \in Clients, Refuse(c)
        PROVE  TimeTypes'
    <2>1. PICK n \in 0 .. Len(window[c]) :
              /\ window' = [window EXCEPT ![c] = Rest(window[c], n)]
              /\ answer' = "refused"
              /\ UNCHANGED <<now, admitted>>
      BY <1>4 DEF Refuse, TimeTypes
    <2> QED
      BY <1>3, <2>1 DEF TimeTypes, Answers
  <1>5. ASSUME NEW c \in Clients, Admit(c)
        PROVE  TimeTypes'
    <2>1. PICK n \in 0 .. Len(window[c]) :
              /\ window' = [window EXCEPT ![c] = Append(Rest(window[c], n), now)]
              /\ admitted' = [admitted EXCEPT ![c] = Append(admitted[c], now)]
              /\ answer' = "admitted"
              /\ UNCHANGED now
      BY <1>5 DEF Admit, TimeTypes
    <2>2. /\ Append(Rest(window[c], n), now) \in Seq(0 .. MaxTime)
          /\ Append(admitted[c], now) \in Seq(0 .. MaxTime)
      BY <1>3 DEF TimeTypes
    <2> QED
      BY <2>1, <2>2 DEF TimeTypes, Answers
  <1> QED
    BY <1>1, <1>2, <1>4, <1>5 DEF WindowStep

\* What the register's writers do to its rows and to those who read them.
LEMMA WriteKeepsRows ==
    ASSUME CInv, Write
    PROVE  RowTypes' /\ ReadingOK'
  <1> USE DEF CInv, RowTypes, ReadingOK, FoundingOK
  <1>1. UNCHANGED reader
    BY DEF Write, BeginFounding, InsertCustodian, Found, FoundingFails, BeginDelivery,
           CommitDelivery
  <1>2. ASSUME NEW f \in Founders, BeginFounding(f) \/ InsertCustodian(f) \/ FoundingFails(f)
        PROVE  RowTypes' /\ ReadingOK'
    BY <1>1, <1>2 DEF BeginFounding, InsertCustodian, FoundingFails
  <1>3. ASSUME NEW f \in Founders, Found(f)
        PROVE  RowTypes' /\ ReadingOK'
    BY <1>1, <1>3 DEF Found, DefaultCorpus
  <1>4. ASSUME NEW d \in Deliveries, BeginDelivery(d)
        PROVE  RowTypes' /\ ReadingOK'
    <2>1. PICK c \in corpus :
              delivery' = [delivery EXCEPT ![d] =
                              [pc |-> "registering", to |-> c, begun |-> now]]
      BY <1>4 DEF BeginDelivery
    <2>2. [pc |-> "registering", to |-> c, begun |-> now] \in DeliveryStates
      BY DEF DeliveryStates, TimeTypes
    <2>3. UNCHANGED <<custodian, corpus, source>>
      BY <1>4 DEF BeginDelivery
    <2> QED
      BY <1>1, <2>1, <2>2, <2>3
  <1>5. ASSUME NEW d \in Deliveries, CommitDelivery(d)
        PROVE  RowTypes' /\ ReadingOK'
    <2>1. /\ source' = source \cup {d}
          /\ delivery' = [delivery EXCEPT ![d].pc = "registered"]
          /\ UNCHANGED <<custodian, corpus>>
      BY <1>5 DEF CommitDelivery
    <2>2. [delivery[d] EXCEPT !.pc = "registered"] \in DeliveryStates
      <3>1. delivery[d] \in DeliveryStates
        OBVIOUS
      <3> QED
        BY <3>1 DEF DeliveryStates
    <2>3. delivery' \in [Deliveries -> DeliveryStates]
      BY <2>1, <2>2
    <2>4. IsFiniteSet(source')
      BY <2>1, FS_AddElement
    <2> QED
      BY <1>1, <2>1, <2>3, <2>4
  <1> QED
    BY <1>2, <1>3, <1>4, <1>5 DEF Write

LEMMA ReaderBecomes ==
    ASSUME CInv, NEW r \in Readers, NEW new \in ReaderStates,
           reader' = [reader EXCEPT ![r] = new], NoWrite,
           new.pc = "finding corpus" => new.of \in custodian,
           new.pc # "no corpus"
    PROVE  RowTypes' /\ ReadingOK'
  <1>1. /\ reader' \in [Readers -> ReaderStates]
        /\ reader'[r] = new
        /\ \A o \in Readers \ {r} : reader'[o] = reader[o]
    BY DEF CInv, RowTypes
  <1> QED
    BY <1>1 DEF CInv, RowTypes, ReadingOK, NoWrite

LEMMA EnrolledAre ==
    ASSUME CInv, NEW c
    PROVE  /\ Enrolled(c) \subseteq Deliveries
           /\ IsFiniteSet(Enrolled(c))
           /\ Cardinality(Enrolled(c)) \in Nat
  <1>1. Enrolled(c) \subseteq source
    BY DEF Enrolled
  <1> QED
    BY <1>1, FS_Subset, FS_CardinalityType DEF CInv, RowTypes

LEMMA IsMore ==
    ASSUME NEW a \in Nat, NEW b \in Nat
    PROVE  (a > b) \in BOOLEAN
  OBVIOUS

LEMMA ReadKeepsRows ==
    ASSUME CInv, CallsAssumption, Read
    PROVE  RowTypes' /\ ReadingOK'
  <1> USE DEF ReaderStates
  <1>1. NoWrite
    BY DEF Read, OpenLink, AskForCorpora, FindCustodian, FindCorpus, AskForPage, CountSources,
           ReadPage, TurnPage, Poll
  <1>2. \A r \in Readers : reader[r] \in ReaderStates
    BY DEF CInv, RowTypes
  <1>3. reader \in [Readers -> ReaderStates]
    BY DEF CInv, RowTypes
  <1>4. ASSUME NEW r \in Readers, OpenLink(r)
        PROVE  RowTypes' /\ ReadingOK'
    <2>1. PICK c \in Founders, k \in Founders :
              reader' = [reader EXCEPT ![r].pc = "asking", ![r].of = c, ![r].in = k]
      BY <1>4 DEF OpenLink
    <2> DEFINE new == [reader[r] EXCEPT !.pc = "asking", !.of = c, !.in = k]
    <2>2. new \in ReaderStates /\ new.pc = "asking" /\ reader' = [reader EXCEPT ![r] = new]
      BY <1>2, <1>3, <2>1
    <2> HIDE DEF new
    <2> QED
      BY <1>1, <2>2, ReaderBecomes
  <1>5. ASSUME NEW r \in Readers, AskForCorpora(r)
        PROVE  RowTypes' /\ ReadingOK'
    <2>1. PICK c \in Founders :
              reader' = [reader EXCEPT ![r].pc = "finding custodian", ![r].of = c]
      BY <1>5 DEF AskForCorpora
    <2> DEFINE new == [reader[r] EXCEPT !.pc = "finding custodian", !.of = c]
    <2>2. /\ new \in ReaderStates /\ new.pc = "finding custodian"
          /\ reader' = [reader EXCEPT ![r] = new]
      BY <1>2, <1>3, <2>1
    <2> HIDE DEF new
    <2> QED
      BY <1>1, <2>2, ReaderBecomes
  <1>6. NewReader \in ReaderStates
    BY DEF NewReader
  <1>7. ASSUME NEW pc \in {"404", "409"}
        PROVE  /\ [NewReader EXCEPT !.pc = pc] \in ReaderStates
               /\ [NewReader EXCEPT !.pc = pc].pc = pc
    BY <1>6
  <1>8. ASSUME NEW r \in Readers, NEW pc \in {"asking", "finding corpus"}
        PROVE  /\ [reader[r] EXCEPT !.pc = pc] \in ReaderStates
               /\ [reader[r] EXCEPT !.pc = pc].pc = pc
               /\ [reader[r] EXCEPT !.pc = pc].of = reader[r].of
    BY <1>2
  <1>9. ASSUME NEW r \in Readers, FindCustodian(r)
        PROVE  RowTypes' /\ ReadingOK'
    <2>1. CASE reader[r].of \in custodian
      <3>1. reader' = [reader EXCEPT ![r] = [reader[r] EXCEPT !.pc = "finding corpus"]]
        BY <1>3, <1>9, <2>1 DEF FindCustodian, Goto
      <3> QED
        BY <1>1, <1>8, <2>1, <3>1, ReaderBecomes
    <2>2. CASE reader[r].of \notin custodian
      <3>1. reader' = [reader EXCEPT ![r] = [NewReader EXCEPT !.pc = "404"]]
        BY <1>3, <1>9, <2>2 DEF FindCustodian, Goto
      <3> QED
        BY <1>1, <1>7, <3>1, ReaderBecomes
    <2> QED
      BY <2>1, <2>2
  <1>10. ASSUME NEW r \in Readers, FindCorpus(r)
         PROVE  RowTypes' /\ ReadingOK'
    <2>1. reader[r].of \in corpus
      BY <1>10 DEF FindCorpus, CInv, ReadingOK
    <2>2. reader' = [reader EXCEPT ![r].pc = "asking", ![r].in = reader[r].of]
      BY <1>10, <2>1 DEF FindCorpus
    <2> DEFINE new == [reader[r] EXCEPT !.pc = "asking", !.in = reader[r].of]
    <2>3. new \in ReaderStates /\ new.pc = "asking" /\ reader' = [reader EXCEPT ![r] = new]
      BY <1>2, <1>3, <2>2
    <2> HIDE DEF new
    <2> QED
      BY <1>1, <2>3, ReaderBecomes
  <1>11. ASSUME NEW r \in Readers, AskForPage(r)
         PROVE  RowTypes' /\ ReadingOK'
    <2> DEFINE there == IF reader[r].seen = {} THEN Enrolled(reader[r].of) ELSE reader[r].there
               new == [reader[r] EXCEPT !.pc = "counting", !.there = there]
    <2>1. reader' = [reader EXCEPT ![r] = new]
      BY <1>3, <1>11 DEF AskForPage
    <2>2. there \in SUBSET Deliveries
      BY <1>2, EnrolledAre
    <2>3. new \in ReaderStates /\ new.pc = "counting"
      BY <1>2, <2>2
    <2> HIDE DEF new
    <2> QED
      BY <1>1, <2>1, <2>3, ReaderBecomes
  <1>12. ASSUME NEW r \in Readers, CountSources(r)
         PROVE  RowTypes' /\ ReadingOK'
    <2>1. CASE reader[r].in \in corpus /\ reader[r].in = reader[r].of
      <3> DEFINE total == Cardinality(Enrolled(reader[r].of))
                 new == [reader[r] EXCEPT !.pc = "reading", !.total = total]
      <3>1. total \in Nat
        BY EnrolledAre
      <3>2. reader' = [reader EXCEPT ![r] = new]
        BY <1>3, <1>12, <2>1 DEF CountSources
      <3> HIDE DEF total
      <3>3. new \in ReaderStates /\ new.pc = "reading"
        BY <1>2, <3>1
      <3> HIDE DEF new
      <3> QED
        BY <1>1, <3>2, <3>3, ReaderBecomes
    <2>2. CASE ~(reader[r].in \in corpus /\ reader[r].in = reader[r].of)
      <3>1. reader' = [reader EXCEPT ![r] = [NewReader EXCEPT !.pc = "409"]]
        BY <1>3, <1>12, <2>2 DEF CountSources, Goto
      <3> QED
        BY <1>1, <1>7, <3>1, ReaderBecomes
    <2> QED
      BY <2>1, <2>2
  <1>13. ASSUME NEW r \in Readers, ReadPage(r)
         PROVE  RowTypes' /\ ReadingOK'
    <2>1. PICK q \in Sorted(Enrolled(reader[r].of)) :
              reader' = [reader EXCEPT ![r].pc = "showing",
                            ![r].seen = @ \cup PageOf(q, reader[r].page),
                            ![r].late = Len(q) > reader[r].total]
      BY <1>13 DEF ReadPage
    <2> DEFINE late == Len(q) > reader[r].total
               seen == reader[r].seen \cup PageOf(q, reader[r].page)
               new == [reader[r] EXCEPT !.pc = "showing", !.seen = seen, !.late = late]
    <2>2. PageOf(q, reader[r].page) \subseteq Deliveries
      <3>1. \A i \in DOMAIN q : q[i] \in Enrolled(reader[r].of)
        BY DEF Sorted
      <3> QED
        BY <3>1, EnrolledAre DEF PageOf
    <2>3. seen \in SUBSET Deliveries
      BY <1>2, <2>2
    <2>4. late \in BOOLEAN
      <3> DEFINE n == Cardinality(Enrolled(reader[r].of))
      <3>1. q \in [1 .. n -> Enrolled(reader[r].of)] /\ n \in Nat
        BY EnrolledAre DEF Sorted
      <3> HIDE DEF n
      <3>2. q \in Seq(Enrolled(reader[r].of))
        BY <3>1
      <3>3. Len(q) \in Nat
        BY <3>2
      <3>4. reader[r].total \in Nat
        BY <1>2
      <3> QED
        BY <3>3, <3>4, IsMore
    <2>5. reader' = [reader EXCEPT ![r] = new]
      BY <1>3, <2>1
    <2> HIDE DEF late, seen
    <2>6. new \in ReaderStates /\ new.pc = "showing"
      BY <1>2, <2>3, <2>4
    <2> HIDE DEF new
    <2> QED
      BY <1>1, <2>5, <2>6, ReaderBecomes
  <1>14. ASSUME NEW r \in Readers, TurnPage(r)
         PROVE  RowTypes' /\ ReadingOK'
    <2> DEFINE new == [reader[r] EXCEPT !.pc = "asking", !.page = @ + 1]
    <2>1. reader[r].page + 1 \in Nat
      <3>1. reader[r].page \in Nat
        BY <1>2
      <3> QED
        BY <3>1
    <2>2. new \in ReaderStates /\ new.pc = "asking"
      BY <1>2, <2>1
    <2>3. reader' = [reader EXCEPT ![r] = new]
      BY <1>3, <1>14 DEF TurnPage
    <2> HIDE DEF new
    <2> QED
      BY <1>1, <2>2, <2>3, ReaderBecomes
  <1>15. ASSUME NEW r \in Readers, Poll(r)
         PROVE  RowTypes' /\ ReadingOK'
    <2>1. reader' = [reader EXCEPT ![r] = [reader[r] EXCEPT !.pc = "asking"]]
      BY <1>3, <1>15 DEF Poll, Goto
    <2> QED
      BY <1>1, <1>8, <2>1, ReaderBecomes
  <1> QED
    BY <1>4, <1>5, <1>9, <1>10, <1>11, <1>12, <1>13, <1>14, <1>15 DEF Read

LEMMA CInvInit == Init /\ CallsAssumption => CInv
  <1> SUFFICES ASSUME Init, CallsAssumption PROVE CInv
    OBVIOUS
  <1>1. NewFounder \in FounderStates /\ NewFounder.pc = "idle"
    BY DEF CallsAssumption, NewFounder, FounderStates
  <1>2. FoundingOK
    BY <1>1 DEF Init, FoundingOK
  <1>3. NewDelivery \in DeliveryStates /\ NewReader \in ReaderStates /\ NewReader.pc = "idle"
    BY DEF NewDelivery, DeliveryStates, NewReader, ReaderStates
  <1>4. RowTypes
    BY <1>3, FS_EmptySet DEF Init, RowTypes
  <1>5. ReadingOK
    BY <1>3 DEF Init, ReadingOK
  <1>6. TimeTypes
    BY DEF Init, WindowsInit, TimeTypes, Answers
  <1> QED
    BY <1>2, <1>4, <1>5, <1>6 DEF CInv

LEMMA CInvStep ==
    ASSUME CInv, CallsAssumption, [Next]_vars
    PROVE  CInv'
  <1>1. TimeTypes'
    BY Steps, TimeKeeps DEF CInv, CallsAssumption
  <1>2. CASE Write
    BY <1>1, <1>2, WriteKeepsFounding, WriteKeepsRows DEF CInv, CallsAssumption
  <1>3. CASE Read
    <2>1. NoWrite
      BY <1>3 DEF Read, OpenLink, AskForCorpora, FindCustodian, FindCorpus, AskForPage,
                  CountSources, ReadPage, TurnPage, Poll
    <2>2. FoundingOK'
      BY <2>1 DEF NoWrite, CInv, FoundingOK
    <2> QED
      BY <1>1, <1>3, <2>2, ReadKeepsRows DEF CInv
  <1>4. CASE NoWrite /\ UNCHANGED reader
    BY <1>1, <1>4 DEF NoWrite, CInv, FoundingOK, RowTypes, ReadingOK
  <1>5. CASE UNCHANGED vars
    BY <1>1, <1>5 DEF vars, CInv, FoundingOK, RowTypes, ReadingOK
  <1> QED
    BY <1>2, <1>3, <1>4, <1>5 DEF Next, Stopped

\* The rows of the register and what its callers know of them, for any number of each.
THEOREM RowsInvariant == Spec => []CInv
  <1>1. Init => CInv
    BY CInvInit, CallsAssumption
  <1>2. CInv /\ [Next]_vars => CInv'
    BY CInvStep, CallsAssumption
  <1> QED
    BY <1>1, <1>2, PTL DEF Spec

\* No slug has two custodians, and no reader finds one without its corpus.
THEOREM HasItsCorpus == Spec => []CustodianHasItsCorpus
  <1>1. CInv => CustodianHasItsCorpus
    <2> SUFFICES ASSUME CInv PROVE CustodianHasItsCorpus
      OBVIOUS
    <2>1. TypeOK
      BY DEF CInv, FoundingOK, ReadingOK, RowTypes, TimeTypes, TypeOK
    <2>2. ASSUME NEW f \in custodian, NEW g \in custodian, founder[f].slug = founder[g].slug
          PROVE  f = g
      BY <2>2 DEF CInv, FoundingOK
    <2> QED
      BY <2>1, <2>2 DEF CustodianHasItsCorpus, CInv, ReadingOK
  <1> QED
    BY <1>1, RowsInvariant, PTL

=============================================================================
