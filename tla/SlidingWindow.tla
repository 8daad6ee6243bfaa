--------------------------- MODULE SlidingWindow ---------------------------
(***************************************************************************)
(* What the rate limit of backend/app/main.py promises: of the requests of *)
(* a client address, one is admitted exactly when fewer than Limit were    *)
(* admitted within the last Span of time.  Refused requests do not count.  *)
(***************************************************************************)
EXTENDS Integers, Sequences

CONSTANTS Clients, Limit, Span

VARIABLES
    now,
    admitted,   \* the times of the admitted requests of each client
    answer      \* the last answer

vars == <<now, admitted, answer>>

Init ==
    /\ now = 0
    /\ admitted = [c \in Clients |-> <<>>]
    /\ answer = "none"

\* The request Limit admissions ago, if there is one, is at least Span old.
HasRoom(c) ==
    \/ Len(admitted[c]) < Limit
    \/ now - admitted[c][Len(admitted[c]) - Limit + 1] >= Span

Admit(c) ==
    /\ HasRoom(c)
    /\ admitted' = [admitted EXCEPT ![c] = Append(@, now)]
    /\ answer' = "admitted"
    /\ UNCHANGED now

Refuse(c) ==
    /\ ~HasRoom(c)
    /\ answer' = "refused"
    /\ UNCHANGED <<now, admitted>>

Tick ==
    /\ now' = now + 1
    /\ UNCHANGED <<admitted, answer>>

Next == Tick \/ \E c \in Clients : Admit(c) \/ Refuse(c)

Spec == Init /\ [][Next]_vars

=============================================================================
