---------------------------- MODULE JobLifecycle ----------------------------
(***************************************************************************)
(* What durable processing promises about a job, without workers, leases,  *)
(* attempts or crashes: the transitions that transition_job allows         *)
(* (backend/app/repositories.py), and pages that, once extracted, stay     *)
(* extracted.                                                              *)
(***************************************************************************)
EXTENDS Integers

CONSTANTS Jobs, PageCount

VARIABLES
    state,      \* state of each job
    done        \* pages of each job that are extracted

vars == <<state, done>>

AllPages(j) == 1..PageCount[j]

Init ==
    /\ state = [j \in Jobs |-> "absent"]
    /\ done = [j \in Jobs |-> {}]

Create(j) ==
    /\ state[j] = "absent"
    /\ state' = [state EXCEPT ![j] = "queued"]
    /\ UNCHANGED done

Claim(j) ==
    /\ state[j] = "queued"
    /\ state' = [state EXCEPT ![j] = "processing"]
    /\ UNCHANGED done

\* The jobs of one round of recovery go back to the queue together.
Interrupt(js) ==
    /\ \A j \in js : state[j] = "processing"
    /\ state' = [j \in Jobs |-> IF j \in js THEN "queued" ELSE state[j]]
    /\ UNCHANGED done

ExtractPage(j, p) ==
    /\ state[j] # "absent"
    /\ done' = [done EXCEPT ![j] = @ \cup {p}]
    /\ UNCHANGED state

\* A job completes with all its pages, is partial with some of them, and may
\* fail with any.
Verdict(j, s) ==
    \/ s = "completed" /\ done[j] = AllPages(j)
    \/ s = "partial" /\ done[j] # {} /\ done[j] # AllPages(j)
    \/ s = "failed"

Settle(j, s) ==
    /\ state[j] = "processing"
    /\ Verdict(j, s)
    /\ state' = [state EXCEPT ![j] = s]
    /\ UNCHANGED done

Retry(j) ==
    /\ state[j] \in {"partial", "failed"}
    /\ state' = [state EXCEPT ![j] = "queued"]
    /\ UNCHANGED done

Next ==
    \/ \E j \in Jobs :
          \/ Create(j)
          \/ Claim(j)
          \/ \E p \in AllPages(j) : ExtractPage(j, p)
          \/ \E s \in {"completed", "partial", "failed"} : Settle(j, s)
          \/ Retry(j)
    \/ \E js \in SUBSET Jobs : Interrupt(js)

Spec == Init /\ [][Next]_vars

=============================================================================
