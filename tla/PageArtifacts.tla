--------------------------- MODULE PageArtifacts ---------------------------
(***************************************************************************)
(* Calls of _persist_page (backend/app/worker.py) for one page of one job, *)
(* by workers that share a staging directory: a worker whose lease lapsed  *)
(* and the one that took over.  The names of the staging files are made of *)
(* the job, the page and the kind, so all calls use the same two names;    *)
(* the derived objects are named by a fresh uuid and belong to one call.   *)
(*                                                                         *)
(* A file is told from its name, as the operating system does: open("wb")  *)
(* truncates the file that has the name, os.replace gives it another name, *)
(* and a worker that has it open goes on writing into it.  A file is named *)
(* here by the call whose open created it.  The bytes of a page are the    *)
(* same for every call, so they are "whole" or not; one write call of a    *)
(* regular file is one step of it.                                         *)
(***************************************************************************)
EXTENDS Naturals, FiniteSets

CONSTANTS
    Calls,          \* calls of _persist_page for the page
    NoCall,         \* no call, no file
    Backends,       \* what settings.blob_store_backend may be: "local", "s3"
    MaxExits,       \* bound on calls whose process exits in the middle
    MaxFaults       \* bound on calls that meet an I/O or database error

ASSUME NoCallAssumption == NoCall \notin Calls
ASSUME BackendsAssumption == Backends \subseteq {"local", "s3"}

Kinds == {"json", "render"}

VARIABLES
    backend,    \* settings.blob_store_backend
    stage,      \* the file under each staging name
    bytes,      \* what each file holds
    derived,    \* local: the file under the name of each call's derived object
    remote,     \* S3: each call's object under its staging key and final key
    rep,        \* the call whose pair of rows is in derived_representations
    call,       \* program counter and locals of each call
    exited,     \* calls whose process is gone
    struck,     \* calls that met an error
    met         \* calls that shared the staging names with another one

files == <<stage, bytes, derived>>
past  == <<exited, struck, met>>
vars  == <<backend, stage, bytes, derived, remote, rep, call, exited, struck, met>>

-----------------------------------------------------------------------------

Contents == {"absent", "empty", "whole"}
Files    == Calls \cup {NoCall}
PCs      == {"idle", "opening", "writing", "storing", "uploading", "copying", "tidying",
             "committing", "unlinking", "done", "failed"}
Outside  == {"idle", "done", "failed"}

\* half[k] is the file of kind k that the call has opened and not written: it
\* stays there when the call fails or its process exits in between.
Locals   == [pc : PCs, kind : Kinds, ok : BOOLEAN, half : [Kinds -> Files]]
Remote   == [staged : Contents, final : Contents]

Init ==
    /\ backend \in Backends
    /\ stage = [k \in Kinds |-> NoCall]
    /\ bytes = [k \in Kinds |-> [c \in Calls |-> "absent"]]
    /\ derived = [c \in Calls |-> [k \in Kinds |-> NoCall]]
    /\ remote = [c \in Calls |-> [k \in Kinds |-> [staged |-> "absent", final |-> "absent"]]]
    /\ rep = NoCall
    /\ call = [c \in Calls |-> [pc |-> "idle", kind |-> "json", ok |-> TRUE,
                                half |-> [k \in Kinds |-> NoCall]]]
    /\ exited = {}
    /\ struck = {}
    /\ met = {}

-----------------------------------------------------------------------------
(* Helpers *)

At(c, pc) == call[c].pc = pc /\ c \notin exited

Goto(c, pc, kind) == [call[c] EXCEPT !.pc = pc, !.kind = kind]

Becomes(c, locals) == call' = [call EXCEPT ![c] = locals]

\* An exception goes through the finally block of _persist_page.
AbandonWithoutCleanup(c) ==                                  \* mutant
    [Goto(c, "failed", "json") EXCEPT !.ok = FALSE]

Abandon(c) == [Goto(c, "unlinking", "json") EXCEPT !.ok = FALSE]

UsesFiles(c) == call[c].pc \notin Outside /\ c \notin exited

Strike(c) ==
    /\ c \notin struck
    /\ Cardinality(struck) < MaxFaults
    /\ struck' = struck \cup {c}
    /\ UNCHANGED <<exited, met>>

-----------------------------------------------------------------------------
(* _write_staged *)

\* A worker has rendered the page, which was not completed before that; another
\* call may have completed it since.
Begin(c) ==
    LET others == {d \in Calls \ {c} : UsesFiles(d)}
    IN  /\ At(c, "idle")
        /\ Becomes(c, Goto(c, "opening", "json"))
        /\ met' = IF others = {} THEN met ELSE met \cup others \cup {c}
        /\ UNCHANGED <<files, remote, rep, exited, struck>>

\* path.open("wb")
OpenStaged(c) ==
    LET k == call[c].kind
        file == IF stage[k] = NoCall THEN c ELSE stage[k]
    IN  /\ At(c, "opening")
        /\ stage' = [stage EXCEPT ![k] = file]
        /\ bytes' = [bytes EXCEPT ![k][file] = "empty"]
        /\ Becomes(c, [Goto(c, "writing", k) EXCEPT !.half[k] = file])
        /\ UNCHANGED <<derived, remote, rep, past>>

\* What the file holds after output.write, flush and fsync.
NotFlushed(before) == before                                 \* mutant

WrittenAtItsEnd(before) ==                                   \* mutant
    IF before = "whole" THEN "twice" ELSE "whole"

Written(before) == "whole"

WriteStaged(c) ==
    LET k == call[c].kind
        file == call[c].half[k]
        next == IF k = "json" THEN Goto(c, "opening", "render")
                              ELSE Goto(c, "storing", "json")
    IN  /\ At(c, "writing")
        /\ bytes' = [bytes EXCEPT ![k][file] = Written(bytes[k][file])]
        /\ Becomes(c, [next EXCEPT !.half[k] = NoCall])
        /\ UNCHANGED <<stage, derived, remote, rep, past>>

-----------------------------------------------------------------------------
(* put_derived *)

IsFile(k) == stage[k] # NoCall

\* is_file finds the name gone: FileNotFoundError.  (The local store raises the
\* same when os.replace finds that.)
StagedIsGone(c) ==
    /\ At(c, "storing")
    /\ ~IsFile(call[c].kind)
    /\ Becomes(c, Abandon(c))
    /\ UNCHANGED <<files, remote, rep, past>>

\* _put of LocalFilesystemBlobStore up to os.replace.
MoveStaged(c) ==
    LET k == call[c].kind
    IN  /\ backend = "local"
        /\ At(c, "storing")
        /\ IsFile(k)
        /\ derived' = [derived EXCEPT ![c][k] = stage[k]]
        /\ stage' = [stage EXCEPT ![k] = NoCall]
        /\ Becomes(c, Goto(c, "tidying", k))
        /\ UNCHANGED <<bytes, remote, rep, past>>

\* ContentLength is compared with the size of the bytes in memory.
SizeUnchecked(content) == TRUE                               \* mutant

SizeAgrees(content) == content = "whole"

\* _finalize of S3BlobStore finds the file, and nothing under the final key.
CheckStaged(c) ==
    /\ backend = "s3"
    /\ At(c, "storing")
    /\ IsFile(call[c].kind)
    /\ Becomes(c, Goto(c, "uploading", call[c].kind))
    /\ UNCHANGED <<files, remote, rep, past>>

\* upload_file under a random staging key, then head.
Upload(c, k) ==
    /\ At(c, "uploading")
    /\ call[c].kind = k
    /\ IsFile(k)
    /\ remote' = [remote EXCEPT ![c][k].staged = bytes[k][stage[k]]]
    /\ UNCHANGED <<files, rep, past>>

UploadStaged(c) ==
    \E k \in Kinds :
        /\ Upload(c, k)
        /\ SizeAgrees(bytes[k][stage[k]])
        /\ Becomes(c, Goto(c, "copying", k))

UploadTorn(c) ==
    \E k \in Kinds :
        /\ Upload(c, k)
        /\ ~SizeAgrees(bytes[k][stage[k]])
        /\ Becomes(c, [Goto(c, "tidying", k) EXCEPT !.ok = FALSE])

\* upload_file finds the name gone.
StagedIsLost(c) ==
    /\ At(c, "uploading")
    /\ ~IsFile(call[c].kind)
    /\ Becomes(c, [Goto(c, "tidying", call[c].kind) EXCEPT !.ok = FALSE])
    /\ UNCHANGED <<files, remote, rep, past>>

\* ... copy_object to the final key, and head again.
CopyRemote(c) ==
    LET k == call[c].kind
    IN  /\ At(c, "copying")
        /\ remote' = [remote EXCEPT ![c][k].final = remote[c][k].staged]
        /\ Becomes(c, Goto(c, "tidying", k))
        /\ UNCHANGED <<files, rep, past>>

\* The end of both: the staging object is deleted, and whatever file has the
\* staging name by now.
AllNames(k) == Kinds                                         \* mutant

TidiedNames(k) == {k}

AfterPutRegardless(c) ==                                     \* mutant
    IF call[c].kind = "json" THEN Goto(c, "storing", "render")
                             ELSE Goto(c, "committing", "json")

AfterPut(c) ==
    IF ~call[c].ok THEN Abandon(c)
    ELSE IF call[c].kind = "json" THEN Goto(c, "storing", "render")
                                  ELSE Goto(c, "committing", "json")

TidyUp(c) ==
    LET k == call[c].kind
    IN  /\ At(c, "tidying")
        /\ stage' = [n \in Kinds |-> IF n \in TidiedNames(k) THEN NoCall ELSE stage[n]]
        /\ remote' = [remote EXCEPT ![c][k].staged = "absent"]
        /\ Becomes(c, AfterPut(c))
        /\ UNCHANGED <<bytes, derived, rep, past>>

-----------------------------------------------------------------------------
(* commit_page_artifacts and the finally block *)

\* ON CONFLICT DO NOTHING for both rows.
Inserted(c) == IF rep = NoCall THEN c ELSE rep

Commit(c) ==
    /\ At(c, "committing")
    /\ rep' = Inserted(c)
    /\ Becomes(c, Goto(c, "unlinking", "json"))
    /\ UNCHANGED <<files, remote, past>>

UnlinkStaged(c) ==
    LET k == call[c].kind
    IN  /\ At(c, "unlinking")
        /\ stage' = [stage EXCEPT ![k] = NoCall]
        /\ Becomes(c, IF k = "json" THEN Goto(c, "unlinking", "render")
                      ELSE Goto(c, IF call[c].ok THEN "done" ELSE "failed", "json"))
        /\ UNCHANGED <<bytes, derived, remote, rep, past>>

-----------------------------------------------------------------------------
(* Errors *)

\* Opening, writing or moving a file fails, or the first head of _finalize.
FileFails(c) ==
    /\ \E pc \in {"opening", "writing", "storing"} : At(c, pc)
    /\ Strike(c)
    /\ Becomes(c, Abandon(c))
    /\ UNCHANGED <<files, remote, rep>>

\* upload_file or the head after it fails, with or without effect.
UploadFails(c) ==
    LET k == call[c].kind
    IN  /\ At(c, "uploading")
        /\ IsFile(k)
        /\ Strike(c)
        /\ \E content \in {"absent", bytes[k][stage[k]]} :
              remote' = [remote EXCEPT ![c][k].staged = content]
        /\ Becomes(c, [Goto(c, "tidying", k) EXCEPT !.ok = FALSE])
        /\ UNCHANGED <<files, rep>>

CopyFails(c) ==
    LET k == call[c].kind
    IN  /\ At(c, "copying")
        /\ Strike(c)
        /\ \E content \in {"absent", remote[c][k].staged} :
              remote' = [remote EXCEPT ![c][k].final = content]
        /\ Becomes(c, [Goto(c, "tidying", k) EXCEPT !.ok = FALSE])
        /\ UNCHANGED <<files, rep>>

\* delete_object is best effort: its error is swallowed.
DeleteFails(c) ==
    LET k == call[c].kind
    IN  /\ backend = "s3"
        /\ At(c, "tidying")
        /\ Strike(c)
        /\ stage' = [stage EXCEPT ![k] = NoCall]
        /\ Becomes(c, AfterPut(c))
        /\ UNCHANGED <<bytes, derived, remote, rep>>

\* The transaction fails, or its commit is not acknowledged.
CommitFails(c) ==
    /\ At(c, "committing")
    /\ Strike(c)
    /\ rep' \in {rep, Inserted(c)}
    /\ Becomes(c, Abandon(c))
    /\ UNCHANGED <<files, remote>>

\* The process is killed: no finally block runs.
Exit(c) ==
    /\ UsesFiles(c)
    /\ Cardinality(exited) < MaxExits
    /\ exited' = exited \cup {c}
    /\ UNCHANGED <<files, remote, rep, call, struck, met>>

-----------------------------------------------------------------------------

Persist(c) ==
    \/ Begin(c)
    \/ OpenStaged(c)
    \/ WriteStaged(c)
    \/ StagedIsGone(c)
    \/ MoveStaged(c)
    \/ CheckStaged(c)
    \/ UploadStaged(c)
    \/ UploadTorn(c)
    \/ StagedIsLost(c)
    \/ CopyRemote(c)
    \/ TidyUp(c)
    \/ Commit(c)
    \/ UnlinkStaged(c)

Fail(c) ==
    \/ FileFails(c)
    \/ UploadFails(c)
    \/ CopyFails(c)
    \/ DeleteFails(c)
    \/ CommitFails(c)
    \/ Exit(c)

Next ==
    /\ \E c \in Calls : Persist(c) \/ Fail(c)
    /\ UNCHANGED backend

Spec == Init /\ [][Next]_vars

-----------------------------------------------------------------------------
(* Properties *)

\* Type correctness.
TypeOK ==
    /\ backend \in Backends
    /\ stage \in [Kinds -> Files]
    /\ bytes \in [Kinds -> [Calls -> Contents]]
    /\ derived \in [Calls -> [Kinds -> Files]]
    /\ remote \in [Calls -> [Kinds -> Remote]]
    /\ rep \in Files
    /\ call \in [Calls -> Locals]
    /\ exited \subseteq Calls
    /\ struck \subseteq Calls
    /\ met \subseteq Calls

\* What the derived object of kind k of call c holds.
Stored(c, k) ==
    IF backend = "s3" THEN remote[c][k].final
    ELSE IF derived[c][k] = NoCall THEN "absent"
    ELSE bytes[k][derived[c][k]]

\* commit_page_artifacts comes after both put_derived and nothing removes a derived
\* object: whatever the other calls move and unlink, and whoever exits, the rows
\* of the page name two objects that are there.
CommittedPairIsStored ==
    rep # NoCall => \A k \in Kinds : Stored(rep, k) # "absent"

\* With local files a committed object can lack its bytes, since another call that
\* opened the file under its staging name truncates it under its final name too.
\* That call is the only cause: it is about to write the bytes again, or it
\* failed or exited before it could.
TornOnlyByAWriter ==
    rep # NoCall => \A k \in Kinds :
        backend = "local" /\ Stored(rep, k) # "whole" =>
            \E d \in Calls \ {rep} :
                /\ call[d].half[k] = derived[rep][k]
                /\ At(d, "writing") \/ d \in exited \cup struck

\* With S3 the sizes that _finalize compares keep that away: an object under a
\* final key is whole, also that of a call that failed after the copy.
FinalObjectsAreWhole ==
    \A c \in Calls, k \in Kinds : remote[c][k].final \in {"absent", "whole"}

\* What ends in an exception, and with it in fail_document, is a call that met an
\* error or shared the names with another call.  What an exited call has left
\* under the names does no harm to a later one.
LoneCallSucceeds ==
    \A c \in Calls : call[c].pc = "failed" => c \in struck \cup met

\* The finally blocks leave nothing: when no call is at work any more, the names
\* are free and the staging keys empty, unless a process exited or a delete failed.
StagingIsEmptied ==
    /\ exited = {} /\ (\A c \in Calls : ~UsesFiles(c)) =>
          \A k \in Kinds : stage[k] = NoCall
    /\ \A c \in Calls, k \in Kinds :
          remote[c][k].staged # "absent" => UsesFiles(c) \/ c \in exited \cup struck

-----------------------------------------------------------------------------
(* The inductive invariant *)

\* A file that has a name has been opened, and who emptied it is known.
FilesOK ==
    \A k \in Kinds :
        /\ stage[k] # NoCall => bytes[k][stage[k]] # "absent"
        /\ \A c \in Calls : derived[c][k] # NoCall => bytes[k][derived[c][k]] # "absent"
        /\ \A i \in Calls : bytes[k][i] = "empty" => \E d \in Calls : call[d].half[k] = i

\* A call has a half written file only while it writes, or after it has failed to.
HalvesOK ==
    \A c \in Calls, k \in Kinds : call[c].half[k] # NoCall =>
        (call[c].pc = "writing" /\ call[c].kind = k) \/ ~call[c].ok

\* A call that goes wrong is on its way out, and has a reason.
FailuresOK ==
    \A c \in Calls :
        /\ call[c].pc = "failed" => ~call[c].ok
        /\ ~call[c].ok => call[c].pc \in {"tidying", "unlinking", "failed"}
        /\ ~call[c].ok => c \in struck \cup met
        /\ \A k \in Kinds : call[c].half[k] # NoCall /\ ~call[c].ok => c \in struck

\* The object of kind k has its final name.
Has(c, k) == IF backend = "s3" THEN remote[c][k].final # "absent"
                               ELSE derived[c][k] # NoCall

\* A call that goes on has its earlier objects, and S3 objects pass by the sizes.
ObjectsOK ==
    \A c \in Calls :
        /\ call[c].ok /\ call[c].pc = "tidying" => Has(c, call[c].kind)
        /\ call[c].ok /\ call[c].pc \in {"storing", "uploading", "copying", "tidying"}
              /\ call[c].kind = "render" => Has(c, "json")
        /\ call[c].pc = "committing" => \A k \in Kinds : Has(c, k)
        /\ call[c].pc \in {"uploading", "copying"} => backend = "s3"
        /\ call[c].pc = "copying" => remote[c][call[c].kind].staged = "whole"
        /\ \A k \in Kinds : remote[c][k].staged # "absent" =>
              (call[c].pc \in {"copying", "tidying"} /\ call[c].kind = k) \/ c \in struck

RepOK ==
    rep # NoCall =>
        /\ call[rep].pc \in {"unlinking", "done", "failed"}
        /\ \A k \in Kinds : Has(rep, k) /\ call[rep].half[k] = NoCall

\* The kinds whose staging file a call has written and not stored.
Waiting(c) ==
    CASE call[c].pc \in {"opening", "writing"} /\ call[c].kind = "render" -> {"json"}
      [] call[c].pc \in {"storing", "uploading"} /\ call[c].kind = "json" -> Kinds
      [] call[c].pc \in {"storing", "uploading"} /\ call[c].kind = "render" -> {"render"}
      [] call[c].pc \in {"copying", "tidying"} /\ call[c].kind = "json" -> {"render"}
      [] OTHER -> {}

\* Two calls at work have met, and a call that has met nobody finds its files.
LoneOK ==
    /\ \A c, d \in Calls : UsesFiles(c) /\ UsesFiles(d) /\ c # d => c \in met
    /\ \A c \in Calls : UsesFiles(c) /\ c \notin met /\ call[c].ok =>
          /\ call[c].pc = "writing" => /\ stage[call[c].kind] = call[c].half[call[c].kind]
                                       /\ stage[call[c].kind] # NoCall
          /\ \A k \in Waiting(c) : /\ stage[k] # NoCall
                                    /\ bytes[k][stage[k]] = "whole"

\* A name that is taken has somebody who will unlink it.
CleanedOK ==
    \A k \in Kinds : stage[k] # NoCall =>
        \E d \in Calls :
            \/ d \in exited
            \/ /\ call[d].pc \notin Outside
               /\ ~(call[d].pc = "unlinking" /\ call[d].kind = "render" /\ k = "json")

IInv ==
    /\ TypeOK
    /\ FilesOK
    /\ HalvesOK
    /\ FailuresOK
    /\ ObjectsOK
    /\ FinalObjectsAreWhole
    /\ RepOK
    /\ LoneOK
    /\ CleanedOK

=============================================================================
