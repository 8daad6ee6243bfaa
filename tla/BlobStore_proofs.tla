--------------------------- MODULE BlobStore_proofs ---------------------------
(***************************************************************************)
(* The safety of BlobStore, and that it implements BlobVault, for every    *)
(* number of puts, keys, exits, errors and stalls.                         *)
(***************************************************************************)
EXTENDS BlobStore, TLAPS

USE KeysAssumption, NoPutAssumption

-----------------------------------------------------------------------------
(* The inductive invariant *)

Early == {"idle", "sweeping", "unlinking", "opening"}

\* What is about to get the final key is whole, if it is there.
ContentsOK(p) ==
    /\ put[p].pc \in {"putting", "moving"} => part[p] # "torn"
    /\ put[p].pc = "copying" => remote[p] # "torn"

\* A put that has not failed by the time it tidies up has its object.
PromiseOK(p) ==
    (put[p].ok /\ put[p].pc \in {"tidying", "closing"}) \/ put[p].pc = "done"
        => object[KeyOf[p]] = "whole"

\* Where a put leaves what.
StagingOK(p) ==
    /\ put[p].pc \in {"done", "failed"} => part[p] = "absent"
    /\ put[p].pc \notin {"copying", "tidying", "closing", "done", "failed"} =>
          remote[p] = "absent"
    /\ put[p].pc \in {"closing", "done", "failed"} => remote[p] = "absent" \/ p \in struck
    /\ p \in Uploads /\ put[p].pc \in Early => part[p] = "absent"
    /\ put[p].pc \in {"sweeping", "unlinking"} => p \in Uploads

\* An upload that goes on in time is old for nobody, and finds what it has written.
Fresh(p) ==
    /\ p \in Uploads
    /\ p \notin exited \cup stalled
    /\ put[p].pc \notin {"done", "failed"}

FreshContents(p) ==
    /\ put[p].pc = "writing" => part[p] # "absent"
    /\ put[p].pc \in {"putting", "moving", "uploading"} => part[p] = "whole"
    /\ put[p].pc = "copying" => remote[p] = "whole"

FreshOK(p) ==
    Fresh(p) => /\ p \notin old \cup oldRemote
                /\ \A q \in Puts : put[q].name # p
                /\ FreshContents(p)

FailuresOK(p) ==
    /\ p \in Uploads /\ ~put[p].ok => p \in struck \cup stalled
    /\ put[p].pc = "failed" => ~put[p].ok

PutOK(p) == ContentsOK(p) /\ PromiseOK(p) /\ StagingOK(p) /\ FreshOK(p) /\ FailuresOK(p)

IInv == TypeOK /\ ObjectsAreWhole /\ \A p \in Puts : PutOK(p)

-----------------------------------------------------------------------------
(* What a step of one put does to the others *)

Others(p) ==
    \A q \in Puts \ {p} :
        /\ put'[q] = put[q]
        /\ part'[q] = part[q] \/ (part'[q] = "absent" /\ q = put[p].name)
        /\ remote'[q] = remote[q] \/ (remote'[q] = "absent" /\ q \in oldRemote)
        /\ q \in exited' <=> q \in exited
        /\ q \in stalled' <=> q \in stalled
        /\ q \in struck => q \in struck'
        /\ q \in old' => q \in old
        /\ q \in oldRemote' => q \in oldRemote

Effects(p) ==
    /\ Others(p)
    /\ \A k \in Keys : object'[k] \in {object[k], "whole"}
    /\ put'[p].name \in {put[p].name, NoPut} \cup old

LEMMA OtherPut ==
    ASSUME IInv, NEW p \in Puts, NEW q \in Puts \ {p}, Effects(p)
    PROVE  PutOK(q)'
  <1> USE DEF IInv, PutOK
  <1>1. /\ put'[q] = put[q]
        /\ part'[q] = part[q] \/ (part'[q] = "absent" /\ q = put[p].name)
        /\ remote'[q] = remote[q] \/ (remote'[q] = "absent" /\ q \in oldRemote)
        /\ q \in exited' <=> q \in exited
        /\ q \in stalled' <=> q \in stalled
        /\ q \in struck => q \in struck'
        /\ q \in old' => q \in old
        /\ q \in oldRemote' => q \in oldRemote
    BY DEF Effects, Others
  <1>2. ContentsOK(q)'
    BY <1>1 DEF ContentsOK
  <1>3. PromiseOK(q)'
    <2>1. object'[KeyOf[q]] \in {object[KeyOf[q]], "whole"}
      BY DEF Effects
    <2> QED
      BY <1>1, <2>1 DEF PromiseOK
  <1>4. StagingOK(q)'
    BY <1>1 DEF StagingOK
  <1>5. FailuresOK(q)'
    BY <1>1 DEF FailuresOK
  <1>6. FreshOK(q)'
    <2> SUFFICES ASSUME Fresh(q)
                 PROVE  /\ q \notin old' \cup oldRemote'
                        /\ \A r \in Puts : put'[r].name # q
                        /\ FreshContents(q)'
      BY <1>1 DEF FreshOK, Fresh
    <2>1. /\ q \notin old \cup oldRemote
          /\ \A r \in Puts : put[r].name # q
          /\ FreshContents(q)
      BY DEF FreshOK
    <2>2. ASSUME NEW r \in Puts
          PROVE  put'[r].name # q
      <3>1. CASE r = p
        BY <2>1, <3>1 DEF Effects
      <3>2. CASE r # p
        BY <2>1, <3>2 DEF Effects, Others
      <3> QED
        BY <3>1, <3>2
    <2>3. part'[q] = part[q] /\ remote'[q] = remote[q]
      BY <1>1, <2>1
    <2> QED
      BY <1>1, <2>1, <2>2, <2>3 DEF FreshContents
  <1> QED
    BY <1>2, <1>3, <1>4, <1>5, <1>6

\* A step is good if it leaves the types, the objects and its own put in order.
Good(p) == TypeOK' /\ ObjectsAreWhole' /\ Effects(p) /\ PutOK(p)'

LEMMA GoodSteps ==
    ASSUME IInv, NEW p \in Puts, Good(p)
    PROVE  IInv'
  BY OtherPut DEF Good, IInv

-----------------------------------------------------------------------------
(* Program counters *)

LEMMA PutBecomes ==
    ASSUME TypeOK, NEW p \in Puts, NEW new \in Locals, put' = [put EXCEPT ![p] = new]
    PROVE  /\ put' \in [Puts -> Locals]
           /\ put'[p] = new
           /\ \A q \in Puts \ {p} : put'[q] = put[q]
  BY DEF TypeOK

LEMMA GotoIs ==
    ASSUME TypeOK, NEW p \in Puts, NEW pc \in PCs, Goto(p, pc)
    PROVE  /\ put' \in [Puts -> Locals]
           /\ put'[p].pc = pc /\ put'[p].ok = put[p].ok /\ put'[p].name = put[p].name
           /\ \A q \in Puts \ {p} : put'[q] = put[q]
  <1> DEFINE new == [put[p] EXCEPT !.pc = pc]
  <1>1. put[p] \in Locals
    BY DEF TypeOK
  <1>2. new \in Locals /\ new.pc = pc /\ new.ok = put[p].ok /\ new.name = put[p].name
    BY <1>1 DEF Locals
  <1>3. put' = [put EXCEPT ![p] = new]
    BY DEF Goto, TypeOK
  <1> HIDE DEF new
  <1> QED
    BY <1>2, <1>3, PutBecomes

LEMMA FailIs ==
    ASSUME TypeOK, NEW p \in Puts, NEW pc \in PCs, Fail(p, pc)
    PROVE  /\ put' \in [Puts -> Locals]
           /\ put'[p].pc = pc /\ put'[p].ok = FALSE /\ put'[p].name = put[p].name
           /\ \A q \in Puts \ {p} : put'[q] = put[q]
  <1> DEFINE new == [put[p] EXCEPT !.pc = pc, !.ok = FALSE]
  <1>1. put[p] \in Locals
    BY DEF TypeOK
  <1>2. new \in Locals /\ new.pc = pc /\ new.ok = FALSE /\ new.name = put[p].name
    BY <1>1 DEF Locals
  <1>3. put' = [put EXCEPT ![p] = new]
    BY DEF Fail, TypeOK
  <1> HIDE DEF new
  <1> QED
    BY <1>2, <1>3, PutBecomes

-----------------------------------------------------------------------------
(* Steps of a put on its own files *)

OwnFiles(p) ==
    /\ part' \in [Puts -> Contents]
    /\ remote' \in [Puts -> Contents]
    /\ \A q \in Puts \ {p} : part'[q] = part[q] /\ remote'[q] = remote[q]
    /\ old' \subseteq old
    /\ oldRemote' \subseteq oldRemote
    /\ struck \subseteq struck' /\ struck' \subseteq Puts
    /\ UNCHANGED <<backend, exited, stalled>>

OwnPut(p) ==
    /\ put' \in [Puts -> Locals]
    /\ put'[p].name \in {put[p].name, NoPut} \cup old
    /\ \A q \in Puts \ {p} : put'[q] = put[q]

LEMMA OwnStep ==
    ASSUME IInv, NEW p \in Puts, OwnFiles(p), OwnPut(p),
           object' \in {object, [object EXCEPT ![KeyOf[p]] = "whole"]},
           put[p].pc \notin {"done", "failed"},
           ContentsOK(p)', PromiseOK(p)', StagingOK(p)', FailuresOK(p)',
           Fresh(p) => FreshContents(p)'
    PROVE  IInv'
  <1>1. object' \in [Keys -> Contents] /\ \A k \in Keys : object'[k] \in {object[k], "whole"}
    BY DEF IInv, TypeOK, Contents
  <1>2. TypeOK'
    BY <1>1 DEF IInv, TypeOK, OwnFiles, OwnPut
  <1>3. ObjectsAreWhole'
    BY <1>1 DEF IInv, ObjectsAreWhole
  <1>4. Effects(p)
    BY <1>1 DEF Effects, Others, OwnFiles, OwnPut
  <1>5. FreshOK(p)'
    <2> SUFFICES ASSUME Fresh(p)'
                 PROVE  /\ p \notin old' \cup oldRemote'
                        /\ \A q \in Puts : put'[q].name # p
                        /\ FreshContents(p)'
      BY DEF FreshOK
    <2>1. Fresh(p)
      BY DEF Fresh, OwnFiles
    <2>2. /\ p \notin old \cup oldRemote
          /\ \A q \in Puts : put[q].name # p
      BY <2>1 DEF IInv, PutOK, FreshOK
    <2>3. \A q \in Puts : put'[q].name # p
      BY <2>2 DEF OwnPut
    <2> QED
      BY <2>1, <2>2, <2>3 DEF OwnFiles
  <1> QED
    BY <1>2, <1>3, <1>4, <1>5, GoodSteps DEF Good, PutOK

LEMMA Quiet ==
    ASSUME IInv, NEW p \in Puts, UNCHANGED <<backend, staging, past>>
    PROVE  OwnFiles(p)
  BY DEF IInv, TypeOK, staging, past, OwnFiles

LEMMA Unlinking ==
    ASSUME IInv, NEW p \in Puts, part' = Unlinked(p), old' = old \ {p},
           UNCHANGED <<backend, remote, oldRemote, past>>
    PROVE  OwnFiles(p) /\ part'[p] = "absent"
  <1>1. /\ part' \in [Puts -> Contents]
        /\ part'[p] = "absent"
        /\ \A q \in Puts \ {p} : part'[q] = part[q]
    BY DEF IInv, TypeOK, Unlinked, Remove, Contents
  <1> QED
    BY <1>1 DEF IInv, TypeOK, past, OwnFiles

LEMMA StartUploadStep ==
    ASSUME IInv, NEW p \in Puts, StartUpload(p), UNCHANGED backend
    PROVE  IInv'
  <1>1. PartFiles \in SUBSET Puts
    BY DEF PartFiles
  <1>2. OwnPut(p) /\ put'[p].pc = "sweeping" /\ put'[p].ok = put[p].ok
    <2> DEFINE new == [put[p] EXCEPT !.pc = "sweeping", !.todo = PartFiles]
    <2>1. put[p] \in Locals
      BY DEF IInv, TypeOK
    <2>2. /\ new \in Locals /\ new.pc = "sweeping" /\ new.ok = put[p].ok
          /\ new.name = put[p].name
      BY <1>1, <2>1 DEF Locals, PCs
    <2>3. put' = [put EXCEPT ![p] = new]
      BY DEF StartUpload, IInv, TypeOK
    <2> HIDE DEF new
    <2> QED
      BY <2>2, <2>3, PutBecomes DEF IInv, OwnPut
  <1>3. OwnFiles(p) /\ UNCHANGED <<object, part, remote, struck, stalled>>
    BY Quiet DEF StartUpload, staging, past
  <1>4. put[p].pc = "idle" /\ PutOK(p) /\ p \in Uploads
    BY DEF StartUpload, At, IInv
  <1>5. ContentsOK(p)' /\ PromiseOK(p)' /\ StagingOK(p)' /\ FailuresOK(p)' /\ FreshContents(p)'
    BY <1>2, <1>3, <1>4
       DEF PutOK, ContentsOK, PromiseOK, StagingOK, FailuresOK, FreshContents, Early
  <1> QED
    BY <1>2, <1>3, <1>4, <1>5, OwnStep

\* What is left to show of a step that changes no file: the counter and the flag.
LEMMA QuietStep ==
    ASSUME IInv, NEW p \in Puts, UNCHANGED <<backend, staging, object, past>>, OwnPut(p),
           put[p].pc \notin {"done", "failed"},
           ContentsOK(p)', PromiseOK(p)', StagingOK(p)', FailuresOK(p)',
           Fresh(p) => FreshContents(p)'
    PROVE  IInv'
  BY Quiet, OwnStep

LEMMA PassOverStep ==
    ASSUME IInv, NEW p \in Puts, PassOver(p), UNCHANGED backend
    PROVE  IInv'
  <1>1. PICK n \in put[p].todo :
            /\ At(p, "sweeping")
            /\ put' = [put EXCEPT ![p].todo = @ \ {n}]
            /\ UNCHANGED <<staging, object, past>>
    BY DEF PassOver
  <1>2. OwnPut(p) /\ put'[p].pc = put[p].pc /\ put'[p].ok = put[p].ok
    <2> DEFINE new == [put[p] EXCEPT !.todo = @ \ {n}]
    <2>1. put[p] \in Locals
      BY DEF IInv, TypeOK
    <2>2. /\ new \in Locals /\ new.pc = put[p].pc /\ new.ok = put[p].ok
          /\ new.name = put[p].name
      BY <2>1 DEF Locals
    <2>3. put' = [put EXCEPT ![p] = new]
      BY <1>1 DEF IInv, TypeOK
    <2> HIDE DEF new
    <2> QED
      BY <2>2, <2>3, PutBecomes DEF IInv, OwnPut
  <1>3. put[p].pc = "sweeping" /\ PutOK(p) /\ UNCHANGED <<part, remote, struck, stalled, object>>
    BY <1>1 DEF At, IInv, staging, past
  <1>4. ContentsOK(p)' /\ PromiseOK(p)' /\ StagingOK(p)' /\ FailuresOK(p)' /\ FreshContents(p)'
    BY <1>2, <1>3
       DEF PutOK, ContentsOK, PromiseOK, StagingOK, FailuresOK, FreshContents, Early
  <1> QED
    BY <1>1, <1>2, <1>3, <1>4, QuietStep

LEMMA FindStaleStep ==
    ASSUME IInv, NEW p \in Puts, FindStale(p), UNCHANGED backend
    PROVE  IInv'
  <1>1. PICK n \in put[p].todo :
            /\ At(p, "sweeping")
            /\ IsStale(n)
            /\ put' = [put EXCEPT ![p].pc = "unlinking", ![p].todo = @ \ {n}, ![p].name = n]
            /\ UNCHANGED <<staging, object, past>>
    BY DEF FindStale
  <1>2. OwnPut(p) /\ put'[p].pc = "unlinking" /\ put'[p].ok = put[p].ok
    <2> DEFINE new == [put[p] EXCEPT !.pc = "unlinking", !.todo = @ \ {n}, !.name = n]
    <2>1. put[p] \in Locals
      BY DEF IInv, TypeOK
    <2>2. /\ new \in Locals /\ new.pc = "unlinking" /\ new.ok = put[p].ok /\ new.name = n
      BY <2>1 DEF Locals, PCs
    <2>3. put' = [put EXCEPT ![p] = new]
      BY <1>1 DEF IInv, TypeOK
    <2>4. n \in old
      BY <1>1 DEF IsStale
    <2> HIDE DEF new
    <2> QED
      BY <2>2, <2>3, <2>4, PutBecomes DEF IInv, OwnPut
  <1>3. put[p].pc = "sweeping" /\ PutOK(p) /\ UNCHANGED <<part, remote, struck, stalled, object>>
    BY <1>1 DEF At, IInv, staging, past
  <1>4. ContentsOK(p)' /\ PromiseOK(p)' /\ StagingOK(p)' /\ FailuresOK(p)' /\ FreshContents(p)'
    BY <1>2, <1>3
       DEF PutOK, ContentsOK, PromiseOK, StagingOK, FailuresOK, FreshContents, Early
  <1> QED
    BY <1>1, <1>2, <1>3, <1>4, QuietStep

LEMMA StartPageStep ==
    ASSUME IInv, NEW p \in Puts, StartPage(p), UNCHANGED backend
    PROVE  IInv'
  <1>1. OwnPut(p) /\ put'[p].pc = "opening" /\ put'[p].ok = put[p].ok
    BY GotoIs DEF StartPage, IInv, OwnPut, PCs
  <1>2. /\ put[p].pc = "idle" /\ PutOK(p) /\ p \notin exited /\ p \in Pages
        /\ UNCHANGED <<part, remote, struck, stalled, object>>
    BY DEF StartPage, At, IInv, staging, past
  <1>3. /\ ContentsOK(p)' /\ PromiseOK(p)' /\ StagingOK(p)' /\ FailuresOK(p)'
        /\ Fresh(p) => FreshContents(p)'
    BY <1>1, <1>2
       DEF PutOK, ContentsOK, PromiseOK, StagingOK, FailuresOK, Fresh, FreshOK, FreshContents,
           Early
  <1> QED
    BY <1>1, <1>2, <1>3, QuietStep DEF StartPage

LEMMA PartIsGoneStep ==
    ASSUME IInv, NEW p \in Puts, PartIsGone(p), UNCHANGED backend
    PROVE  IInv'
  <1>1. OwnPut(p) /\ put'[p].pc = "closing" /\ put'[p].ok = FALSE
    BY FailIs DEF PartIsGone, IInv, OwnPut, PCs
  <1>2. /\ put[p].pc = "putting" /\ PutOK(p) /\ p \notin exited /\ part[p] = "absent"
        /\ UNCHANGED <<part, remote, struck, stalled, object>>
    BY DEF PartIsGone, At, IInv, staging, past
  <1>3. /\ ContentsOK(p)' /\ PromiseOK(p)' /\ StagingOK(p)' /\ FailuresOK(p)'
        /\ Fresh(p) => FreshContents(p)'
    BY <1>1, <1>2
       DEF PutOK, ContentsOK, PromiseOK, StagingOK, FailuresOK, Fresh, FreshOK, FreshContents,
           Early
  <1> QED
    BY <1>1, <1>2, <1>3, QuietStep DEF PartIsGone

LEMMA BeginPutStep ==
    ASSUME IInv, NEW p \in Puts, BeginPut(p), UNCHANGED backend
    PROVE  IInv'
  <1>1. OwnPut(p) /\ put'[p].pc \in {"uploading", "moving"} /\ put'[p].ok = put[p].ok
    BY GotoIs DEF BeginPut, IInv, OwnPut, PCs
  <1>2. /\ put[p].pc = "putting" /\ PutOK(p) /\ p \notin exited
        /\ UNCHANGED <<part, remote, struck, stalled, object>>
    BY DEF BeginPut, At, IInv, staging, past
  <1>3. /\ ContentsOK(p)' /\ PromiseOK(p)' /\ StagingOK(p)' /\ FailuresOK(p)'
        /\ Fresh(p) => FreshContents(p)'
    BY <1>1, <1>2
       DEF PutOK, ContentsOK, PromiseOK, StagingOK, FailuresOK, Fresh, FreshOK, FreshContents,
           Early
  <1> QED
    BY <1>1, <1>2, <1>3, QuietStep DEF BeginPut

LEMMA ReuseStoredStep ==
    ASSUME IInv, NEW p \in Puts, ReuseStored(p), UNCHANGED backend
    PROVE  IInv'
  <1>1. /\ put[p].pc = "putting" /\ PutOK(p) /\ p \notin exited
        /\ object[KeyOf[p]] = "whole"
    BY DEF ReuseStored, At, IsStored, IInv, ObjectsAreWhole
  <1>2. /\ part' = Unlinked(p) /\ old' = old \ {p} /\ Goto(p, "closing")
        /\ UNCHANGED <<remote, oldRemote, object, past>>
    BY <1>1 DEF ReuseStored
  <1>3. OwnPut(p) /\ put'[p].pc = "closing" /\ put'[p].ok = put[p].ok
    BY <1>2, GotoIs DEF IInv, OwnPut, PCs
  <1>4. OwnFiles(p) /\ part'[p] = "absent" /\ UNCHANGED <<remote, struck, stalled, object>>
    BY <1>2, Unlinking DEF past
  <1>5. /\ ContentsOK(p)' /\ PromiseOK(p)' /\ StagingOK(p)' /\ FailuresOK(p)'
        /\ Fresh(p) => FreshContents(p)'
    BY <1>1, <1>3, <1>4
       DEF PutOK, ContentsOK, PromiseOK, StagingOK, FailuresOK, Fresh, FreshOK, FreshContents,
           Early
  <1> QED
    BY <1>1, <1>3, <1>4, <1>5, OwnStep

\* What a put does to its own part.
LEMMA Writing ==
    ASSUME IInv, NEW p \in Puts, NEW x \in Contents, part' = [part EXCEPT ![p] = x],
           old' = old \ {p}, UNCHANGED <<backend, remote, oldRemote, past>>
    PROVE  OwnFiles(p) /\ part'[p] = x
  <1>1. /\ part' \in [Puts -> Contents]
        /\ part'[p] = x
        /\ \A q \in Puts \ {p} : part'[q] = part[q]
    BY DEF IInv, TypeOK
  <1> QED
    BY <1>1 DEF IInv, TypeOK, past, OwnFiles

LEMMA OpenPartStep ==
    ASSUME IInv, NEW p \in Puts, OpenPart(p), UNCHANGED backend
    PROVE  IInv'
  <1>1. /\ put[p].pc = "opening" /\ PutOK(p) /\ p \notin exited
        /\ UNCHANGED <<remote, struck, stalled, object>>
    BY DEF OpenPart, At, IInv, past
  <1>2. OwnPut(p) /\ put'[p].pc = "writing" /\ put'[p].ok = put[p].ok
    BY GotoIs DEF OpenPart, IInv, OwnPut, PCs
  <1>3. OwnFiles(p) /\ part'[p] = "torn"
    BY Writing DEF OpenPart, Contents
  <1>4. /\ ContentsOK(p)' /\ PromiseOK(p)' /\ StagingOK(p)' /\ FailuresOK(p)'
        /\ Fresh(p) => FreshContents(p)'
    BY <1>1, <1>2, <1>3
       DEF PutOK, ContentsOK, PromiseOK, StagingOK, FailuresOK, Fresh, FreshOK, FreshContents,
           Early
  <1> QED
    BY <1>1, <1>2, <1>3, <1>4, OwnStep

LEMMA WritePartStep ==
    ASSUME IInv, NEW p \in Puts, WritePart(p), UNCHANGED backend
    PROVE  IInv'
  <1>1. /\ put[p].pc = "writing" /\ PutOK(p) /\ p \notin exited
        /\ UNCHANGED <<remote, struck, stalled, object>>
    BY DEF WritePart, At, IInv, past
  <1>2. OwnPut(p) /\ put'[p].pc = "putting" /\ put'[p].ok = put[p].ok
    BY GotoIs DEF WritePart, IInv, OwnPut, PCs
  <1>3. OwnFiles(p) /\ part'[p] = Written(p) /\ Written(p) \in {"absent", "whole"}
              /\ (part[p] # "absent" => Written(p) = "whole")
    <2>1. Written(p) \in {"absent", "whole"} /\ (part[p] # "absent" => Written(p) = "whole")
      BY DEF Written
    <2> QED
      BY <2>1, Writing DEF WritePart, Contents
  <1>4. /\ ContentsOK(p)' /\ PromiseOK(p)' /\ StagingOK(p)' /\ FailuresOK(p)'
        /\ Fresh(p) => FreshContents(p)'
    BY <1>1, <1>2, <1>3
       DEF PutOK, ContentsOK, PromiseOK, StagingOK, FailuresOK, Fresh, FreshOK, FreshContents,
           Early
  <1> QED
    BY <1>1, <1>2, <1>3, <1>4, OwnStep

LEMMA CloseStep ==
    ASSUME IInv, NEW p \in Puts, Close(p), UNCHANGED backend
    PROVE  IInv'
  <1>1. /\ put[p].pc = "closing" /\ PutOK(p) /\ p \notin exited
        /\ UNCHANGED <<remote, struck, stalled, object>>
    BY DEF Close, At, IInv, past
  <1>2. /\ OwnPut(p) /\ put'[p].ok = put[p].ok
        /\ put'[p].pc = IF put[p].ok THEN "done" ELSE "failed"
    BY GotoIs DEF Close, IInv, OwnPut, PCs
  <1>3. OwnFiles(p) /\ part'[p] = "absent"
    BY Unlinking DEF Close
  <1>4. /\ ContentsOK(p)' /\ PromiseOK(p)' /\ StagingOK(p)' /\ FailuresOK(p)'
        /\ Fresh(p) => FreshContents(p)'
    BY <1>1, <1>2, <1>3
       DEF PutOK, ContentsOK, PromiseOK, StagingOK, FailuresOK, Fresh, FreshOK, FreshContents,
           Early
  <1> QED
    BY <1>1, <1>2, <1>3, <1>4, OwnStep

LEMMA MovePartStep ==
    ASSUME IInv, NEW p \in Puts, MovePart(p), UNCHANGED backend
    PROVE  IInv'
  <1>1. put[p].pc = "moving" /\ PutOK(p) /\ p \notin exited
    BY DEF MovePart, At, IInv
  <1>2. CASE part[p] = "absent"
    <2>1. OwnPut(p) /\ put'[p].pc = "closing" /\ put'[p].ok = FALSE
      BY <1>2, FailIs DEF MovePart, IInv, OwnPut, PCs
    <2>2. UNCHANGED <<backend, staging, object, past>>
      BY <1>2 DEF MovePart, staging
    <2>3. UNCHANGED <<part, remote, struck, stalled, object>>
      BY <2>2 DEF staging, past
    <2>4. /\ ContentsOK(p)' /\ PromiseOK(p)' /\ StagingOK(p)' /\ FailuresOK(p)'
          /\ Fresh(p) => FreshContents(p)'
      BY <1>1, <1>2, <2>1, <2>3
         DEF PutOK, ContentsOK, PromiseOK, StagingOK, FailuresOK, Fresh, FreshOK, FreshContents,
             Early
    <2> QED
      BY <1>1, <2>1, <2>2, <2>4, QuietStep
  <1>3. CASE part[p] # "absent"
    <2>1. part[p] = "whole"
      BY <1>1, <1>3 DEF PutOK, ContentsOK, IInv, TypeOK, Contents
    <2>2. /\ object' = [object EXCEPT ![KeyOf[p]] = "whole"]
          /\ part' = Unlinked(p) /\ old' = old \ {p} /\ Goto(p, "closing")
          /\ UNCHANGED <<remote, oldRemote, past>>
      BY <1>3, <2>1 DEF MovePart
    <2>3. OwnPut(p) /\ put'[p].pc = "closing" /\ put'[p].ok = put[p].ok
      BY <2>2, GotoIs DEF IInv, OwnPut, PCs
    <2>4. OwnFiles(p) /\ part'[p] = "absent" /\ UNCHANGED <<remote, struck, stalled>>
      BY <2>2, Unlinking DEF past
    <2>5. object'[KeyOf[p]] = "whole"
      BY <2>2 DEF IInv, TypeOK
    <2>6. /\ ContentsOK(p)' /\ PromiseOK(p)' /\ StagingOK(p)' /\ FailuresOK(p)'
          /\ Fresh(p) => FreshContents(p)'
      BY <1>1, <2>3, <2>4, <2>5
         DEF PutOK, ContentsOK, PromiseOK, StagingOK, FailuresOK, Fresh, FreshOK, FreshContents,
             Early
    <2> QED
      BY <1>1, <2>2, <2>3, <2>4, <2>6, OwnStep
  <1> QED
    BY <1>2, <1>3

\* What a put does to its own staging object.
LEMMA Sending ==
    ASSUME IInv, NEW p \in Puts, NEW x \in Contents, remote' = [remote EXCEPT ![p] = x],
           UNCHANGED <<backend, part, old, oldRemote, past>>
    PROVE  OwnFiles(p) /\ remote'[p] = x
  <1>1. /\ remote' \in [Puts -> Contents]
        /\ remote'[p] = x
        /\ \A q \in Puts \ {p} : remote'[q] = remote[q]
    BY DEF IInv, TypeOK
  <1> QED
    BY <1>1 DEF IInv, TypeOK, past, OwnFiles

LEMMA UploadPartStep ==
    ASSUME IInv, NEW p \in Puts, UploadPart(p), UNCHANGED backend
    PROVE  IInv'
  <1>1. /\ put[p].pc = "uploading" /\ PutOK(p) /\ p \notin exited
        /\ part[p] \in Contents
        /\ UNCHANGED <<part, struck, stalled, object>>
    BY DEF UploadPart, At, IInv, TypeOK, past
  <1>2. OwnFiles(p) /\ remote'[p] = part[p]
    BY <1>1, Sending DEF UploadPart
  <1>3. CASE part[p] = "whole"
    <2>1. OwnPut(p) /\ put'[p].pc = "copying" /\ put'[p].ok = put[p].ok
      BY <1>3, GotoIs DEF UploadPart, IInv, OwnPut, PCs
    <2>2. /\ ContentsOK(p)' /\ PromiseOK(p)' /\ StagingOK(p)' /\ FailuresOK(p)'
          /\ Fresh(p) => FreshContents(p)'
      BY <1>1, <1>2, <1>3, <2>1
         DEF PutOK, ContentsOK, PromiseOK, StagingOK, FailuresOK, Fresh, FreshOK, FreshContents,
             Early
    <2> QED
      BY <1>1, <1>2, <2>1, <2>2, OwnStep
  <1>4. CASE part[p] # "whole"
    <2>1. OwnPut(p) /\ put'[p].pc = "tidying" /\ put'[p].ok = FALSE
      BY <1>4, FailIs DEF UploadPart, IInv, OwnPut, PCs
    <2>2. /\ ContentsOK(p)' /\ PromiseOK(p)' /\ StagingOK(p)' /\ FailuresOK(p)'
          /\ Fresh(p) => FreshContents(p)'
      BY <1>1, <1>2, <1>4, <2>1
         DEF PutOK, ContentsOK, PromiseOK, StagingOK, FailuresOK, Fresh, FreshOK, FreshContents,
             Early
    <2> QED
      BY <1>1, <1>2, <2>1, <2>2, OwnStep
  <1> QED
    BY <1>3, <1>4

LEMMA CopyToKeyStep ==
    ASSUME IInv, NEW p \in Puts, CopyToKey(p), UNCHANGED backend
    PROVE  IInv'
  <1>1. /\ put[p].pc = "copying" /\ PutOK(p) /\ p \notin exited
        /\ UNCHANGED <<part, remote, struck, stalled>>
    BY DEF CopyToKey, At, IInv, staging, past
  <1>2. OwnFiles(p)
    BY Quiet DEF CopyToKey
  <1>3. CASE remote[p] = "absent"
    <2>1. OwnPut(p) /\ put'[p].pc = "tidying" /\ put'[p].ok = FALSE /\ UNCHANGED object
      BY <1>3, FailIs DEF CopyToKey, IInv, OwnPut, PCs
    <2>2. /\ ContentsOK(p)' /\ PromiseOK(p)' /\ StagingOK(p)' /\ FailuresOK(p)'
          /\ Fresh(p) => FreshContents(p)'
      BY <1>1, <1>3, <2>1
         DEF PutOK, ContentsOK, PromiseOK, StagingOK, FailuresOK, Fresh, FreshOK, FreshContents,
             Early
    <2> QED
      BY <1>1, <1>2, <2>1, <2>2, OwnStep
  <1>4. CASE remote[p] # "absent"
    <2>1. remote[p] = "whole"
      BY <1>1, <1>4 DEF PutOK, ContentsOK, IInv, TypeOK, Contents
    <2>2. OwnPut(p) /\ put'[p].pc = "tidying" /\ put'[p].ok = put[p].ok
      BY <1>4, GotoIs DEF CopyToKey, IInv, OwnPut, PCs
    <2>3. /\ object' = [object EXCEPT ![KeyOf[p]] = "whole"]
          /\ object'[KeyOf[p]] = "whole"
      BY <1>4, <2>1 DEF CopyToKey, IInv, TypeOK
    <2>4. /\ ContentsOK(p)' /\ PromiseOK(p)' /\ StagingOK(p)' /\ FailuresOK(p)'
          /\ Fresh(p) => FreshContents(p)'
      BY <1>1, <2>2, <2>3
         DEF PutOK, ContentsOK, PromiseOK, StagingOK, FailuresOK, Fresh, FreshOK, FreshContents,
             Early
    <2> QED
      BY <1>1, <1>2, <2>2, <2>3, <2>4, OwnStep
  <1> QED
    BY <1>3, <1>4

LEMMA TidyStep ==
    ASSUME IInv, NEW p \in Puts, Tidy(p), UNCHANGED backend
    PROVE  IInv'
  <1>1. /\ put[p].pc = "tidying" /\ PutOK(p) /\ p \notin exited /\ UNCHANGED object
        /\ part' = Unlinked(p) /\ old' = old \ {p} /\ Goto(p, "closing")
    BY DEF Tidy, At, IInv
  <1>2. OwnPut(p) /\ put'[p].pc = "closing" /\ put'[p].ok = put[p].ok
    BY <1>1, GotoIs DEF IInv, OwnPut, PCs
  <1>3. /\ part' \in [Puts -> Contents]
        /\ part'[p] = "absent"
        /\ \A q \in Puts \ {p} : part'[q] = part[q]
    BY <1>1 DEF IInv, TypeOK, Unlinked, Remove, Contents
  <1>4. CASE remote' = Remove(remote, {p}) /\ oldRemote' = oldRemote \ {p} /\ UNCHANGED past
    <2>1. /\ remote' \in [Puts -> Contents]
          /\ remote'[p] = "absent"
          /\ \A q \in Puts \ {p} : remote'[q] = remote[q]
      BY <1>4 DEF IInv, TypeOK, Remove, Contents
    <2>2. OwnFiles(p) /\ UNCHANGED <<struck, stalled>>
      BY <1>1, <1>3, <1>4, <2>1 DEF IInv, TypeOK, past, OwnFiles
    <2>3. /\ ContentsOK(p)' /\ PromiseOK(p)' /\ StagingOK(p)' /\ FailuresOK(p)'
          /\ Fresh(p) => FreshContents(p)'
      BY <1>1, <1>2, <1>3, <2>1, <2>2
         DEF PutOK, ContentsOK, PromiseOK, StagingOK, FailuresOK, Fresh, FreshOK, FreshContents,
             Early
    <2> QED
      BY <1>1, <1>2, <2>2, <2>3, OwnStep
  <1>5. CASE Strike(p) /\ UNCHANGED <<remote, oldRemote>>
    <2>1. OwnFiles(p) /\ struck' = struck \cup {p} /\ UNCHANGED <<stalled, remote>>
      BY <1>1, <1>3, <1>5 DEF IInv, TypeOK, Strike, OwnFiles
    <2>2. /\ ContentsOK(p)' /\ PromiseOK(p)' /\ StagingOK(p)' /\ FailuresOK(p)'
          /\ Fresh(p) => FreshContents(p)'
      BY <1>1, <1>2, <1>3, <2>1
         DEF PutOK, ContentsOK, PromiseOK, StagingOK, FailuresOK, Fresh, FreshOK, FreshContents,
             Early
    <2> QED
      BY <1>1, <1>2, <2>1, <2>2, OwnStep
  <1> QED
    BY <1>4, <1>5 DEF Tidy

LEMMA FileFailsStep ==
    ASSUME IInv, NEW p \in Puts, FileFails(p), UNCHANGED backend
    PROVE  IInv'
  <1>1. /\ put[p].pc \in {"opening", "writing", "putting", "moving"} /\ PutOK(p)
        /\ struck' = struck \cup {p} /\ UNCHANGED <<part, remote, stalled, object>>
    BY DEF FileFails, At, IInv, Strike, staging
  <1>2. OwnPut(p) /\ put'[p].pc = "closing" /\ put'[p].ok = FALSE
    BY FailIs DEF FileFails, IInv, OwnPut, PCs
  <1>3. OwnFiles(p)
    BY <1>1 DEF FileFails, IInv, TypeOK, Strike, staging, OwnFiles
  <1>4. /\ ContentsOK(p)' /\ PromiseOK(p)' /\ StagingOK(p)' /\ FailuresOK(p)'
        /\ Fresh(p) => FreshContents(p)'
    BY <1>1, <1>2, <1>3
       DEF PutOK, ContentsOK, PromiseOK, StagingOK, FailuresOK, Fresh, FreshOK, FreshContents,
           Early
  <1> QED
    BY <1>1, <1>2, <1>3, <1>4, OwnStep

LEMMA ServiceFailsStep ==
    ASSUME IInv, NEW p \in Puts, ServiceFails(p), UNCHANGED backend
    PROVE  IInv'
  <1>1. /\ put[p].pc \in {"uploading", "copying"} /\ PutOK(p)
        /\ struck' = struck \cup {p} /\ UNCHANGED <<part, stalled>>
    BY DEF ServiceFails, At, IInv, Strike
  <1>2. OwnPut(p) /\ put'[p].pc = "tidying" /\ put'[p].ok = FALSE
    BY FailIs DEF ServiceFails, IInv, OwnPut, PCs
  <1>3. /\ remote' \in [Puts -> Contents]
        /\ \A q \in Puts \ {p} : remote'[q] = remote[q]
        /\ object' \in {object, [object EXCEPT ![KeyOf[p]] = "whole"]}
    <2>1. CASE /\ remote' \in {remote, [remote EXCEPT ![p] = part[p]]}
               /\ UNCHANGED object
      BY <2>1 DEF IInv, TypeOK
    <2>2. CASE /\ At(p, "copying")
               /\ remote[p] # "absent"
               /\ object' \in {object, [object EXCEPT ![KeyOf[p]] = remote[p]]}
               /\ UNCHANGED remote
      <3>1. remote[p] = "whole"
        BY <1>1, <2>2 DEF PutOK, ContentsOK, IInv, TypeOK, Contents, At
      <3> QED
        BY <2>2, <3>1 DEF IInv, TypeOK
    <2> QED
      BY <2>1, <2>2 DEF ServiceFails
  <1>4. OwnFiles(p)
    BY <1>1, <1>3 DEF ServiceFails, IInv, TypeOK, Strike, OwnFiles
  <1>5. /\ ContentsOK(p)' /\ PromiseOK(p)' /\ StagingOK(p)' /\ FailuresOK(p)'
        /\ Fresh(p) => FreshContents(p)'
    BY <1>1, <1>2, <1>3
       DEF PutOK, ContentsOK, PromiseOK, StagingOK, FailuresOK, Fresh, FreshOK, FreshContents,
           Early
  <1> QED
    BY <1>1, <1>2, <1>3, <1>4, <1>5, OwnStep

-----------------------------------------------------------------------------
(* The steps of a cleanup that remove something, exits and time *)

LEMMA CleaningStep ==
    ASSUME IInv, NEW p \in Puts, OwnPut(p),
           put[p].pc \in {"sweeping", "unlinking"},
           \/ put'[p].pc \in {"sweeping", "opening"} /\ put'[p].ok = put[p].ok
           \/ put'[p].pc = "failed" /\ put'[p].ok = FALSE /\ p \in struck',
           part' \in [Puts -> Contents],
           remote' \in [Puts -> Contents],
           \A q \in Puts :
              /\ part'[q] = part[q] \/ (part'[q] = "absent" /\ q = put[p].name)
              /\ remote'[q] = remote[q] \/ (remote'[q] = "absent" /\ q \in oldRemote),
           old' \subseteq old, oldRemote' \subseteq oldRemote,
           struck \subseteq struck', struck' \subseteq Puts,
           UNCHANGED <<backend, object, exited, stalled>>
    PROVE  IInv'
  <1>1. TypeOK' /\ ObjectsAreWhole'
    BY DEF IInv, TypeOK, ObjectsAreWhole, OwnPut
  <1>2. Effects(p)
    BY DEF Effects, Others, OwnPut
  <1>3. PutOK(p)
    BY DEF IInv
  <1>4. ContentsOK(p)' /\ PromiseOK(p)' /\ StagingOK(p)' /\ FailuresOK(p)'
    BY <1>3 DEF PutOK, ContentsOK, PromiseOK, StagingOK, FailuresOK, Early
  <1>5. FreshOK(p)'
    <2> SUFFICES ASSUME Fresh(p)'
                 PROVE  /\ p \notin old' \cup oldRemote'
                        /\ \A q \in Puts : put'[q].name # p
                        /\ FreshContents(p)'
      BY DEF FreshOK
    <2>1. Fresh(p)
      BY DEF Fresh
    <2>2. /\ p \notin old \cup oldRemote
          /\ \A q \in Puts : put[q].name # p
      BY <1>3, <2>1 DEF PutOK, FreshOK
    <2>3. \A q \in Puts : put'[q].name # p
      BY <2>2 DEF OwnPut
    <2>4. FreshContents(p)'
      BY DEF FreshContents
    <2> QED
      BY <2>2, <2>3, <2>4
  <1> QED
    BY <1>1, <1>2, <1>4, <1>5, GoodSteps DEF Good, PutOK

LEMMA UnlinkStaleStep ==
    ASSUME IInv, NEW p \in Puts, UnlinkStale(p), UNCHANGED backend
    PROVE  IInv'
  <1>1. put[p].pc = "unlinking" /\ UNCHANGED <<remote, oldRemote, object, exited, struck, stalled>>
    BY DEF UnlinkStale, At, past
  <1>2. OwnPut(p) /\ put'[p].pc = "sweeping" /\ put'[p].ok = put[p].ok
    <2> DEFINE new == [put[p] EXCEPT !.pc = "sweeping", !.name = NoPut]
    <2>1. put[p] \in Locals
      BY DEF IInv, TypeOK
    <2>2. /\ new \in Locals /\ new.pc = "sweeping" /\ new.ok = put[p].ok /\ new.name = NoPut
      BY <2>1 DEF Locals, PCs
    <2>3. put' = [put EXCEPT ![p] = new]
      BY DEF UnlinkStale, IInv, TypeOK
    <2> HIDE DEF new
    <2> QED
      BY <2>2, <2>3, PutBecomes DEF IInv, OwnPut
  <1>3. /\ part' \in [Puts -> Contents]
        /\ \A q \in Puts : part'[q] = part[q] \/ (part'[q] = "absent" /\ q = put[p].name)
        /\ old' \subseteq old
    BY DEF UnlinkStale, Remove, IInv, TypeOK, Contents
  <1>4. remote \in [Puts -> Contents] /\ struck \subseteq Puts
    BY DEF IInv, TypeOK
  <1> QED
    BY <1>1, <1>2, <1>3, <1>4, CleaningStep

LEMMA Deleting ==
    ASSUME IInv, NEW gone \in SUBSET oldRemote, DeleteStale([remote |-> gone, keys |-> {}])
    PROVE  /\ remote' \in [Puts -> Contents]
           /\ \A q \in Puts : remote'[q] = remote[q] \/ (remote'[q] = "absent" /\ q \in oldRemote)
           /\ oldRemote' \subseteq oldRemote
           /\ UNCHANGED <<part, old, object>>
  <1>1. /\ remote' = Remove(remote, gone)
        /\ oldRemote' = oldRemote \ gone
        /\ object' = [k \in Keys |-> object[k]]
        /\ UNCHANGED <<part, old>>
    BY DEF DeleteStale
  <1>2. object' = object
    BY <1>1 DEF IInv, TypeOK
  <1> QED
    BY <1>1, <1>2 DEF Remove, IInv, TypeOK, Contents

LEMMA EndSweepStep ==
    ASSUME IInv, NEW p \in Puts, EndSweep(p), UNCHANGED backend
    PROVE  IInv'
  <1>1. put[p].pc = "sweeping" /\ UNCHANGED <<exited, struck, stalled>>
    BY DEF EndSweep, At, past
  <1>2. OwnPut(p) /\ put'[p].pc = "opening" /\ put'[p].ok = put[p].ok
    BY GotoIs DEF EndSweep, IInv, OwnPut, PCs
  <1>3. part \in [Puts -> Contents] /\ remote \in [Puts -> Contents] /\ struck \subseteq Puts
    BY DEF IInv, TypeOK
  <1>4. CASE backend = "s3"
    <2>1. DeleteStale([remote |-> oldRemote, keys |-> {}])
      BY <1>4 DEF EndSweep, StaleObjects
    <2> QED
      BY <1>1, <1>2, <1>3, <2>1, Deleting, CleaningStep
  <1>5. CASE backend # "s3"
    <2>1. UNCHANGED <<part, old, remote, oldRemote, object>>
      BY <1>5 DEF EndSweep, staging
    <2> QED
      BY <1>1, <1>2, <1>3, <2>1, CleaningStep
  <1> QED
    BY <1>4, <1>5

LEMMA ListingFailsStep ==
    ASSUME IInv, NEW p \in Puts, ListingFails(p), UNCHANGED backend
    PROVE  IInv'
  <1>1. /\ put[p].pc = "sweeping"
        /\ struck' = struck \cup {p} /\ UNCHANGED <<exited, stalled>>
    BY DEF ListingFails, At, Strike
  <1>2. OwnPut(p) /\ put'[p].pc = "failed" /\ put'[p].ok = FALSE
    BY FailIs DEF ListingFails, IInv, OwnPut, PCs
  <1>3. part \in [Puts -> Contents] /\ struck \subseteq Puts
    BY DEF IInv, TypeOK
  <1>4. PICK gone \in SUBSET oldRemote : DeleteStale([remote |-> gone, keys |-> {}])
    BY DEF ListingFails
  <1> QED
    BY <1>1, <1>2, <1>3, <1>4, Deleting, CleaningStep

LEMMA ExitStep ==
    ASSUME IInv, NEW p \in Puts, Exit(p), UNCHANGED backend
    PROVE  IInv'
  <1>1. /\ exited' = exited \cup {p}
        /\ UNCHANGED <<part, old, remote, oldRemote, object, put, struck, stalled>>
    BY DEF Exit, staging
  <1>2. TypeOK' /\ ObjectsAreWhole' /\ Effects(p)
    BY <1>1 DEF IInv, TypeOK, ObjectsAreWhole, Effects, Others
  <1>3. PutOK(p)'
    BY <1>1 DEF IInv, PutOK, ContentsOK, PromiseOK, StagingOK, FailuresOK, FreshOK, Fresh
  <1> QED
    BY <1>2, <1>3, GoodSteps DEF Good

LEMMA GetOldStep ==
    ASSUME IInv, NEW p \in Puts, GetOld(p), UNCHANGED backend
    PROVE  IInv'
  <1>1. UNCHANGED <<part, remote, object, put, exited, struck>>
    BY DEF GetOld
  <1>2. /\ old' \in {old, old \cup {p}}
        /\ oldRemote' \in {oldRemote, oldRemote \cup {p}}
        /\ stalled' \in {stalled, stalled \cup {p}}
        /\ AtWork(p) => p \in stalled'
    BY DEF GetOld
  <1>3. TypeOK' /\ ObjectsAreWhole' /\ Effects(p)
    BY <1>1, <1>2 DEF IInv, TypeOK, ObjectsAreWhole, Effects, Others
  <1>4. PutOK(p)
    BY DEF IInv
  <1>5. ContentsOK(p)' /\ PromiseOK(p)' /\ StagingOK(p)' /\ FailuresOK(p)'
    BY <1>1, <1>2, <1>4 DEF PutOK, ContentsOK, PromiseOK, StagingOK, FailuresOK
  <1>6. FreshOK(p)'
    <2> SUFFICES ASSUME Fresh(p)' PROVE FALSE
      BY DEF FreshOK
    <2>1. p \in Uploads /\ p \notin exited /\ put[p].pc \notin {"done", "failed"} /\ ~AtWork(p)
      BY <1>1, <1>2 DEF Fresh
    <2>2. put[p].pc = "idle"
      BY <2>1 DEF AtWork, Outside
    <2>3. part[p] = "absent" /\ remote[p] = "absent"
      BY <1>4, <2>1, <2>2 DEF PutOK, StagingOK, Early
    <2> QED
      BY <2>3 DEF GetOld
  <1> QED
    BY <1>3, <1>5, <1>6, GoodSteps DEF Good, PutOK

-----------------------------------------------------------------------------
(* The invariant *)

LEMMA InitIInv == Init => IInv
  <1> SUFFICES ASSUME Init PROVE IInv
    OBVIOUS
  <1>1. /\ put = [p \in Puts |-> [pc |-> "idle", todo |-> {}, name |-> NoPut, ok |-> TRUE]]
        /\ old = {} /\ oldRemote = {} /\ exited = {} /\ struck = {} /\ stalled = {}
        /\ remote = [p \in Puts |-> "absent"]
        /\ object = [k \in Keys |-> "absent"]
        /\ part \in [Puts -> {"absent", "torn"}]
        /\ \A p \in Uploads : part[p] = "absent"
        /\ backend \in Backends
    BY DEF Init
  <1>2. [pc |-> "idle", todo |-> {}, name |-> NoPut, ok |-> TRUE] \in Locals
    BY DEF Locals, PCs
  <1>3. TypeOK
    <2>1. put \in [Puts -> Locals]
      BY <1>1, <1>2
    <2>2. part \in [Puts -> Contents]
      BY <1>1 DEF Contents
    <2> QED
      BY <1>1, <2>1, <2>2 DEF TypeOK, Contents
  <1>4. ObjectsAreWhole
    BY <1>1 DEF ObjectsAreWhole
  <1>5. ASSUME NEW p \in Puts
        PROVE  PutOK(p)
    <2>1. /\ put[p].pc = "idle" /\ put[p].ok = TRUE /\ remote[p] = "absent"
          /\ p \in Uploads => part[p] = "absent"
          /\ p \notin old \cup oldRemote
      BY <1>1
    <2>2. \A q \in Puts : put[q].name # p
      BY <1>1
    <2> QED
      BY <2>1, <2>2 DEF PutOK, ContentsOK, PromiseOK, StagingOK, FreshOK, FreshContents,
                        FailuresOK
  <1> QED
    BY <1>3, <1>4, <1>5 DEF IInv

LEMMA StepIInv ==
    ASSUME IInv, [Next]_vars
    PROVE  IInv'
  <1>1. CASE UNCHANGED vars
    BY <1>1 DEF vars, IInv, TypeOK, ObjectsAreWhole, PutOK, ContentsOK, PromiseOK, StagingOK,
                FreshOK, Fresh, FreshContents, FailuresOK
  <1>2. ASSUME NEW p \in Puts, Sweep(p), UNCHANGED backend
        PROVE  IInv'
    BY <1>2, StartUploadStep, PassOverStep, FindStaleStep, UnlinkStaleStep, EndSweepStep DEF Sweep
  <1>3. ASSUME NEW p \in Puts, Put(p), UNCHANGED backend
        PROVE  IInv'
    BY <1>3, StartPageStep, OpenPartStep, WritePartStep, PartIsGoneStep, ReuseStoredStep,
       BeginPutStep, MovePartStep, UploadPartStep, CopyToKeyStep, TidyStep, CloseStep DEF Put
  <1>4. ASSUME NEW p \in Puts, Misfortune(p), UNCHANGED backend
        PROVE  IInv'
    BY <1>4, ListingFailsStep, FileFailsStep, ServiceFailsStep, ExitStep, GetOldStep DEF Misfortune
  <1> QED
    BY <1>1, <1>2, <1>3, <1>4 DEF Next

\* The invariant of puts beside cleanups holds for any number of both.
THEOREM Invariance == Spec => []IInv
  BY InitIInv, StepIInv, PTL DEF Spec

\* Every variable keeps its type.
THEOREM TypeCorrect == Spec => []TypeOK
  <1>1. IInv => TypeOK
    BY DEF IInv
  <1> QED
    BY <1>1, Invariance, PTL

\* No object is ever torn.
THEOREM Whole == Spec => []ObjectsAreWhole
  <1>1. IInv => ObjectsAreWhole
    BY DEF IInv
  <1> QED
    BY <1>1, Invariance, PTL

\* An upload fails only by an error or a stall of its own.
THEOREM FailsByItself == Spec => []UploadFailsByItself
  <1>1. IInv => UploadFailsByItself
    BY DEF IInv, PutOK, FailuresOK, UploadFailsByItself, Puts
  <1> QED
    BY <1>1, Invariance, PTL

\* A put that is through leaves nothing of its own in staging.
THEOREM LeftClean == Spec => []StagingIsLeftClean
  <1>1. IInv => StagingIsLeftClean
    BY DEF IInv, PutOK, StagingOK, StagingIsLeftClean
  <1> QED
    BY <1>1, Invariance, PTL

-----------------------------------------------------------------------------
(* The store is a vault *)

AStep(p) == Sweep(p) \/ Put(p) \/ Misfortune(p)

LEMMA OnePut ==
    ASSUME TypeOK, NEW p \in Puts, AStep(p)
    PROVE  \A q \in Puts \ {p} : put'[q] = put[q]
  <1> USE DEF TypeOK, Goto, Fail
  <1>1. CASE Sweep(p)
    BY <1>1 DEF Sweep, StartUpload, PassOver, FindStale, UnlinkStale, EndSweep
  <1>2. CASE Put(p)
    BY <1>2 DEF Put, StartPage, OpenPart, WritePart, PartIsGone, ReuseStored, BeginPut, MovePart,
                UploadPart, CopyToKey, Tidy, Close
  <1>3. CASE Misfortune(p)
    BY <1>3 DEF Misfortune, ListingFails, FileFails, ServiceFails, Exit, GetOld
  <1> QED
    BY <1>1, <1>2, <1>3 DEF AStep

\* An object comes whole and by a put of its key, and none goes.
LEMMA ObjectsStay ==
    ASSUME IInv, NEW p \in Puts, AStep(p)
    PROVE  object' \in {object, [object EXCEPT ![KeyOf[p]] = "whole"]}
  <1>1. CASE Sweep(p)
    <2>1. CASE EndSweep(p)
      <3>1. CASE backend = "s3"
        <4>1. DeleteStale([remote |-> oldRemote, keys |-> {}])
          BY <2>1, <3>1 DEF EndSweep, StaleObjects
        <4> QED
          BY <4>1, Deleting
      <3> QED
        BY <2>1, <3>1 DEF EndSweep
    <2> QED
      BY <1>1, <2>1 DEF Sweep, StartUpload, PassOver, FindStale, UnlinkStale
  <1>2. CASE Put(p)
    <2>1. CASE MovePart(p)
      <3>1. part[p] # "absent" => part[p] = "whole"
        BY <2>1 DEF MovePart, At, IInv, PutOK, ContentsOK, TypeOK, Contents
      <3> QED
        BY <2>1, <3>1 DEF MovePart
    <2>2. CASE CopyToKey(p)
      <3>1. remote[p] # "absent" => remote[p] = "whole"
        BY <2>2 DEF CopyToKey, At, IInv, PutOK, ContentsOK, TypeOK, Contents
      <3> QED
        BY <2>2, <3>1 DEF CopyToKey
    <2> QED
      BY <1>2, <2>1, <2>2 DEF Put, StartPage, OpenPart, WritePart, PartIsGone, ReuseStored,
                              BeginPut, UploadPart, Tidy, Close
  <1>3. CASE Misfortune(p)
    <2>1. CASE ListingFails(p)
      BY <2>1, Deleting DEF ListingFails
    <2>2. CASE ServiceFails(p)
      <3>1. At(p, "copying") /\ remote[p] # "absent" => remote[p] = "whole"
        BY DEF At, IInv, PutOK, ContentsOK, TypeOK, Contents
      <3> QED
        BY <2>2, <3>1 DEF ServiceFails
    <2> QED
      BY <1>3, <2>1, <2>2 DEF Misfortune, FileFails, Exit, GetOld
  <1> QED
    BY <1>1, <1>2, <1>3 DEF AStep

LEMMA ReturnedStays ==
    ASSUME TypeOK, NEW p \in Puts, AStep(p), Returned(p)
    PROVE  Returned(p)'
  <1>1. put[p].pc \in {"closing", "done"}
    BY DEF Returned
  <1>2. Close(p) \/ UNCHANGED put
    BY <1>1 DEF AStep, Sweep, Put, Misfortune, StartUpload, PassOver, FindStale, UnlinkStale,
                EndSweep, ListingFails, StartPage, OpenPart, WritePart, PartIsGone, ReuseStored,
                BeginPut, MovePart, UploadPart, CopyToKey, Tidy, FileFails, ServiceFails, Exit,
                GetOld, At
  <1>3. CASE Close(p)
    <2>1. put[p].ok
      BY <1>3 DEF Close, At, Returned
    <2>2. put'[p].pc = "done"
      BY <1>3, <2>1, GotoIs DEF Close, PCs
    <2> QED
      BY <2>2 DEF Returned
  <1>4. CASE UNCHANGED put
    BY <1>4 DEF Returned
  <1> QED
    BY <1>2, <1>3, <1>4

Stored == {k \in Keys : object[k] = "whole"}

Promised == {KeyOf[p] : p \in {q \in Puts : Returned(q)}}

LEMMA StepMaps ==
    ASSUME IInv, IInv', NEW p \in Puts, AStep(p)
    PROVE  [Vault!Next]_(Vault!vars)
  <1> DEFINE k == KeyOf[p]
  <1>1. k \in Keys
    OBVIOUS
  <1>2. /\ TypeOK
        /\ \A q \in Puts \ {p} : Returned(q)' <=> Returned(q)
        /\ Returned(p) => Returned(p)'
    BY OnePut, ReturnedStays DEF IInv, Returned
  <1>3. Stored' \in {Stored, Stored \cup {k}}
    <2>1. object \in [Keys -> Contents]
      BY DEF IInv, TypeOK
    <2>2. CASE object' = object
      BY <2>2 DEF Stored
    <2>3. CASE object' = [object EXCEPT ![k] = "whole"]
      BY <1>1, <2>1, <2>3 DEF Stored
    <2> QED
      BY <2>2, <2>3, ObjectsStay
  <1>4. CASE Returned(p)' <=> Returned(p)
    <2>1. Promised' = Promised
      BY <1>2, <1>4 DEF Promised
    <2>2. UNCHANGED <<Stored, Promised>> \/ (Stored' = Stored \cup {k} /\ UNCHANGED Promised)
      BY <1>3, <2>1
    <2> QED
      BY <1>1, <2>2 DEF Vault!Next, Vault!Store, Vault!vars, Stored, Promised
  <1>5. CASE Returned(p)' /\ ~Returned(p)
    <2>1. Promised' = Promised \cup {k}
      BY <1>2, <1>5 DEF Promised
    <2>2. k \in Stored'
      BY <1>1, <1>5 DEF IInv, PutOK, PromiseOK, Returned, Stored
    <2> QED
      BY <1>1, <1>3, <2>1, <2>2 DEF Vault!Next, Vault!Return, Stored, Promised
  <1> QED
    BY <1>2, <1>4, <1>5

\* The blob store implements BlobVault.
THEOREM Implements == Spec => ImplementsVault
  <1>1. Init => Vault!Init
    <2> SUFFICES ASSUME Init PROVE Vault!Init
      OBVIOUS
    <2>1. Stored = {}
      BY DEF Init, Stored
    <2>2. \A p \in Puts : ~Returned(p)
      BY DEF Init, Returned
    <2>3. Promised = {}
      BY <2>2 DEF Promised
    <2> QED
      BY <2>1, <2>3 DEF Vault!Init, Stored, Promised
  <1>2. IInv /\ IInv' /\ [Next]_vars => [Vault!Next]_(Vault!vars)
    <2> SUFFICES ASSUME IInv, IInv', [Next]_vars PROVE [Vault!Next]_(Vault!vars)
      OBVIOUS
    <2>1. CASE UNCHANGED vars
      BY <2>1 DEF vars, Vault!vars, Returned
    <2>2. CASE Next
      BY <2>2, StepMaps DEF Next, AStep
    <2> QED
      BY <2>1, <2>2
  <1> QED
    BY <1>1, <1>2, Invariance, PTL DEF Spec, ImplementsVault, Vault!Spec

\* What the vault's clients rely on follows from the vault alone: a key once returned
\* names bytes that are there, and from then on.
KeysReturnedAreThere == Promised \subseteq Stored

PromisesStay == Promised \subseteq Promised' /\ Stored \subseteq Stored'

THEOREM PromisesKept == Spec => []KeysReturnedAreThere /\ [][PromisesStay]_(Vault!vars)
  <1>1. Vault!Init => KeysReturnedAreThere
    BY DEF Vault!Init, KeysReturnedAreThere, Stored, Promised
  <1>2. KeysReturnedAreThere /\ [Vault!Next]_(Vault!vars) => KeysReturnedAreThere'
    <2> SUFFICES ASSUME KeysReturnedAreThere, [Vault!Next]_(Vault!vars)
                 PROVE  KeysReturnedAreThere'
      OBVIOUS
    <2>1. ASSUME NEW k \in Keys, Vault!Store(k) PROVE KeysReturnedAreThere'
      BY <2>1 DEF Vault!Store, KeysReturnedAreThere, Stored, Promised
    <2>2. ASSUME NEW k \in Keys, Vault!Return(k) PROVE KeysReturnedAreThere'
      BY <2>2 DEF Vault!Return, KeysReturnedAreThere, Stored, Promised
    <2>3. CASE UNCHANGED Vault!vars
      BY <2>3 DEF Vault!vars, KeysReturnedAreThere, Stored, Promised
    <2> QED
      BY <2>1, <2>2, <2>3 DEF Vault!Next
  <1>3. [Vault!Next]_(Vault!vars) => [PromisesStay]_(Vault!vars)
    <2> SUFFICES ASSUME NEW k \in Keys, Vault!Store(k) \/ Vault!Return(k)
                 PROVE  PromisesStay
      BY DEF Vault!Next
    <2>1. CASE Vault!Store(k)
      BY <2>1 DEF Vault!Store, PromisesStay, Stored, Promised
    <2>2. CASE Vault!Return(k)
      BY <2>2 DEF Vault!Return, PromisesStay, Stored, Promised
    <2> QED
      BY <2>1, <2>2
  <1> QED
    BY <1>1, <1>2, <1>3, Implements, PTL DEF ImplementsVault, Vault!Spec


=============================================================================
