----------------------------- MODULE RateLimit -----------------------------
(***************************************************************************)
(* security_middleware of backend/app/main.py.  It runs on the event loop  *)
(* and awaits nothing before it has decided, so a request is one step.     *)
(* Time is that of time.monotonic, in units of which a minute has Span.    *)
(* The requests are those of the module that extends this one.  One that   *)
(* is OPTIONS, outside the API, without its token (401) or met by a wrong  *)
(* configuration (503) does not reach the window.                          *)
(***************************************************************************)
EXTENDS Integers, Sequences, FiniteSets

CONSTANTS
    Clients,    \* request.client.host
    Limit,      \* settings.rate_limit_per_minute
    Span,       \* 60 seconds
    MaxTime     \* bound on the time of a run

ASSUME LimitAssumption == Limit \in Nat \ {0}
ASSUME SpanAssumption == Span \in Nat \ {0}
ASSUME MaxTimeAssumption == MaxTime \in Nat

VARIABLES
    now,
    window,     \* _rate_windows: the deque of each client
    admitted,   \* the times of all requests of each client that were let through
    answer      \* what became of the last request

wvars == <<now, window, admitted, answer>>

Answers == {"none", "admitted", "refused"}

WindowsInit ==
    /\ now = 0
    /\ window = [c \in Clients |-> <<>>]
    /\ admitted = [c \in Clients |-> <<>>]
    /\ answer = "none"

-----------------------------------------------------------------------------

\* while window and now - window[0] >= 60
IsOlder(t) == now - t > Span                                 \* mutant

IsPast(t) == now - t >= Span

\* popleft takes n entries: they are the longest prefix of past ones.
Drops(w, n) ==
    /\ \A i \in 1 .. n : IsPast(w[i])
    /\ n < Len(w) => ~IsPast(w[n + 1])

Rest(w, n) == SubSeq(w, n + 1, Len(w))

IsOverfull(w) == Len(w) > Limit                              \* mutant

IsFull(w) == Len(w) >= Limit

\* 429; the request is not counted.
Refuse(c) ==
    \E n \in 0 .. Len(window[c]) :
        /\ Drops(window[c], n)
        /\ IsFull(Rest(window[c], n))
        /\ window' = [window EXCEPT ![c] = Rest(@, n)]
        /\ answer' = "refused"
        /\ UNCHANGED <<now, admitted>>

Admit(c) ==
    \E n \in 0 .. Len(window[c]) :
        /\ Drops(window[c], n)
        /\ ~IsFull(Rest(window[c], n))
        /\ window' = [window EXCEPT ![c] = Append(Rest(@, n), now)]
        /\ admitted' = [admitted EXCEPT ![c] = Append(@, now)]
        /\ answer' = "admitted"
        /\ UNCHANGED now

Tick ==
    /\ now < MaxTime
    /\ now' = now + 1
    /\ UNCHANGED <<window, admitted, answer>>

-----------------------------------------------------------------------------
(* Properties *)

\* Of Limit + 1 requests of a client that were let through, the last came at least a
\* minute after the first: no window of 60 seconds, wherever it begins, has more than
\* Limit of them, although the deque forgets and requests share a clock tick.
AtMostLimitPerSpan ==
    \A c \in Clients : \A i \in DOMAIN admitted[c] :
        i + Limit \in DOMAIN admitted[c] => admitted[c][i + Limit] - admitted[c][i] >= Span

\* The deque decides as if it remembered every request: one is refused only while Limit
\* were let through within the last minute, however many were refused meanwhile.
Window == INSTANCE SlidingWindow

ImplementsSlidingWindow == Window!Spec

=============================================================================
