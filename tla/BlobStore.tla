----------------------------- MODULE BlobStore -----------------------------
(***************************************************************************)
(* Puts into the blob store of backend/app/blobstore.py beside the cleanup *)
(* of its staging area.  An upload is a call of admit_source (main.py): it *)
(* cleans up, writes its part under a fresh name, and puts it under the    *)
(* canonical key of its content, which other uploads may put at the same   *)
(* time.  A page put is one put_derived of _persist_page (worker.py): the  *)
(* name of its part is made of job, page and kind, so an earlier worker    *)
(* that was killed may have left a file there.  (Two workers of one page   *)
(* at a time are the subject of PageArtifacts.)                            *)
(*                                                                         *)
(* A part is named here by the put that uses the name.  Of time the code   *)
(* asks only whether a part is older than the cutoff, 24 hours.            *)
(***************************************************************************)
EXTENDS Naturals, FiniteSets

CONSTANTS
    Uploads,        \* calls of admit_source
    Pages,          \* calls of put_derived by a worker
    Keys,           \* storage keys
    KeyOf,          \* the key that each put computes
    NoPut,          \* no put
    Backends,       \* what settings.blob_store_backend may be: "local", "s3"
    MaxExits,       \* bound on puts whose process exits in the middle
    MaxFaults,      \* bound on puts that meet an error
    MaxStalls       \* bound on parts that get old while a put uses them

Puts == Uploads \cup Pages

ASSUME KeysAssumption == KeyOf \in [Puts -> Keys]
ASSUME NoPutAssumption == NoPut \notin Puts
ASSUME BackendsAssumption == Backends \subseteq {"local", "s3"}

VARIABLES
    backend,    \* settings.blob_store_backend
    part,       \* what the file under each staging name holds
    old,        \* parts last written before the cutoff
    remote,     \* S3: the object under each put's random staging key
    oldRemote,  \* S3: staging objects last modified before the cutoff
    object,     \* what is stored under each key
    put,        \* program counter and locals of each put
    exited,     \* puts whose process is gone
    struck,     \* puts that met an error
    stalled     \* puts that took so long that their part got old

staging == <<part, old, remote, oldRemote>>
past    == <<exited, struck, stalled>>
vars    == <<backend, part, old, remote, oldRemote, object, put, exited, struck, stalled>>

-----------------------------------------------------------------------------

Contents == {"absent", "torn", "whole"}
PCs      == {"idle", "sweeping", "unlinking", "opening", "writing", "putting", "moving",
             "uploading", "copying", "tidying", "closing", "done", "failed"}
Outside  == {"idle", "done", "failed"}

\* todo: the parts that a cleanup has listed and not looked at; name: the one it
\* has found old; ok: no exception is on its way.
Locals == [pc : PCs, todo : SUBSET Puts, name : Puts \cup {NoPut}, ok : BOOLEAN]

\* Killed workers have left parts of pages; names of uploads are fresh.
Init ==
    /\ backend \in Backends
    /\ part \in [Puts -> {"absent", "torn"}]
    /\ \A p \in Uploads : part[p] = "absent"
    /\ old = {}
    /\ remote = [p \in Puts |-> "absent"]
    /\ oldRemote = {}
    /\ object = [k \in Keys |-> "absent"]
    /\ put = [p \in Puts |-> [pc |-> "idle", todo |-> {}, name |-> NoPut, ok |-> TRUE]]
    /\ exited = {}
    /\ struck = {}
    /\ stalled = {}

-----------------------------------------------------------------------------
(* Helpers *)

At(p, pc) == put[p].pc = pc /\ p \notin exited

AtWork(p) == put[p].pc \notin Outside /\ p \notin exited

Goto(p, pc) == put' = [put EXCEPT ![p].pc = pc]

Fail(p, pc) == put' = [put EXCEPT ![p].pc = pc, ![p].ok = FALSE]

Remove(f, gone) == [p \in Puts |-> IF p \in gone THEN "absent" ELSE f[p]]

Strike(p) ==
    /\ Cardinality(struck) < MaxFaults
    /\ struck' = struck \cup {p}
    /\ UNCHANGED <<exited, stalled>>

\* The names *.part in the staging directory.
PartFiles == {p \in Puts : part[p] # "absent"}

\* staged_path.unlink(missing_ok=True)
NotUnlinked(p) == part                                       \* mutant

Unlinked(p) == Remove(part, {p})

-----------------------------------------------------------------------------
(* cleanup_staging, which admit_source calls first *)

\* The cutoff is taken and the names *.part are listed.
StartUpload(p) ==
    /\ p \in Uploads
    /\ At(p, "idle")
    /\ put' = [put EXCEPT ![p].pc = "sweeping", ![p].todo = PartFiles]
    /\ UNCHANGED <<staging, object, past>>

IsAnyPart(n) == part[n] # "absent"                           \* mutant

IsStale(n) == n \in old

\* stat: either recent or gone, or older than the cutoff and to be unlinked.
PassOver(p) ==
    \E n \in put[p].todo :
        /\ At(p, "sweeping")
        /\ ~IsStale(n)
        /\ put' = [put EXCEPT ![p].todo = @ \ {n}]
        /\ UNCHANGED <<staging, object, past>>

FindStale(p) ==
    \E n \in put[p].todo :
        /\ At(p, "sweeping")
        /\ IsStale(n)
        /\ put' = [put EXCEPT ![p].pc = "unlinking", ![p].todo = @ \ {n}, ![p].name = n]
        /\ UNCHANGED <<staging, object, past>>

\* unlink of the name; a FileNotFoundError is passed over.
UnlinkStale(p) ==
    /\ At(p, "unlinking")
    /\ part' = Remove(part, {put[p].name})
    /\ old' = old \ {put[p].name}
    /\ put' = [put EXCEPT ![p].pc = "sweeping", ![p].name = NoPut]
    /\ UNCHANGED <<remote, oldRemote, object, past>>

\* The listing of the prefix staging/ and the deletes; the keys it names are random
\* and never used again, so it is one step.
StaleAndFinal == [remote |-> oldRemote, keys |-> Keys]       \* mutant

StaleObjects == [remote |-> oldRemote, keys |-> {}]

DeleteStale(stale) ==
    /\ remote' = Remove(remote, stale.remote)
    /\ oldRemote' = oldRemote \ stale.remote
    /\ object' = [k \in Keys |-> IF k \in stale.keys THEN "absent" ELSE object[k]]
    /\ UNCHANGED <<part, old>>

EndSweep(p) ==
    /\ At(p, "sweeping")
    /\ put[p].todo = {}
    /\ IF backend = "s3" THEN DeleteStale(StaleObjects) ELSE UNCHANGED <<staging, object>>
    /\ Goto(p, "opening")
    /\ UNCHANGED past

\* The listing or a delete raises.  Only AttributeError and NotImplementedError are
\* caught; that of a service that cannot be reached is neither, and the call ends
\* before its try block.
ListingFails(p) ==
    /\ backend = "s3"
    /\ At(p, "sweeping")
    /\ put[p].todo = {}
    /\ Strike(p)
    /\ \E gone \in SUBSET oldRemote :
          DeleteStale([remote |-> gone, keys |-> {}])
    /\ Fail(p, "failed")

-----------------------------------------------------------------------------
(* _stream_pdf_to_stage and _write_staged *)

StartPage(p) ==
    /\ p \in Pages
    /\ At(p, "idle")
    /\ Goto(p, "opening")
    /\ UNCHANGED <<staging, object, past>>

\* open("wb"): the file is created or truncated.
OpenPart(p) ==
    /\ At(p, "opening")
    /\ part' = [part EXCEPT ![p] = "torn"]
    /\ old' = old \ {p}
    /\ Goto(p, "writing")
    /\ UNCHANGED <<remote, oldRemote, object, past>>

\* The bytes go into the opened file, whether its name is still there or not.
NotWritten(p) == part[p]                                     \* mutant

Written(p) == IF part[p] = "absent" THEN "absent" ELSE "whole"

WritePart(p) ==
    /\ At(p, "writing")
    /\ part' = [part EXCEPT ![p] = Written(p)]
    /\ old' = old \ {p}
    /\ Goto(p, "putting")
    /\ UNCHANGED <<remote, oldRemote, object, past>>

-----------------------------------------------------------------------------
(* _put of the local store, _finalize of S3 *)

\* is_file finds the name gone: FileNotFoundError.
PartIsGone(p) ==
    /\ At(p, "putting")
    /\ part[p] = "absent"
    /\ Fail(p, "closing")
    /\ UNCHANGED <<staging, object, past>>

IsStored(k) == object[k] # "absent"

\* destination.exists(), or the first head: the key is there, the part is unlinked.
\* S3 compares the sizes before that.
ReuseStored(p) ==
    LET agrees == backend = "local" \/ object[KeyOf[p]] = "whole"
    IN  /\ At(p, "putting")
        /\ part[p] # "absent"
        /\ IsStored(KeyOf[p])
        /\ IF agrees
           THEN part' = Unlinked(p) /\ old' = old \ {p} /\ Goto(p, "closing")
           ELSE UNCHANGED <<part, old>> /\ Fail(p, "closing")
        /\ UNCHANGED <<remote, oldRemote, object, past>>

BeginPut(p) ==
    /\ At(p, "putting")
    /\ part[p] # "absent"
    /\ ~IsStored(KeyOf[p])
    /\ Goto(p, IF backend = "s3" THEN "uploading" ELSE "moving")
    /\ UNCHANGED <<staging, object, past>>

\* os.replace; another put of the key may have come first.
MovePart(p) ==
    /\ At(p, "moving")
    /\ IF part[p] = "absent"
       THEN Fail(p, "closing") /\ UNCHANGED <<part, old, object>>
       ELSE /\ object' = [object EXCEPT ![KeyOf[p]] = part[p]]
            /\ part' = Unlinked(p)
            /\ old' = old \ {p}
            /\ Goto(p, "closing")
    /\ UNCHANGED <<remote, oldRemote, past>>

\* upload_file under a random staging key, then head: size and digest.
UploadPart(p) ==
    /\ At(p, "uploading")
    /\ remote' = [remote EXCEPT ![p] = part[p]]
    /\ IF part[p] = "whole" THEN Goto(p, "copying") ELSE Fail(p, "tidying")
    /\ UNCHANGED <<part, old, oldRemote, object, past>>

\* copy_object to the final key, then head of that.  A stalled put's staging object
\* may have been deleted.
CopyToKey(p) ==
    /\ At(p, "copying")
    /\ IF remote[p] = "absent"
       THEN Fail(p, "tidying") /\ UNCHANGED object
       ELSE Goto(p, "tidying") /\ object' = [object EXCEPT ![KeyOf[p]] = remote[p]]
    /\ UNCHANGED <<staging, past>>

\* finally: the staging object is deleted at best, the part is unlinked.
Tidy(p) ==
    /\ At(p, "tidying")
    /\ \/ remote' = Remove(remote, {p}) /\ oldRemote' = oldRemote \ {p} /\ UNCHANGED past
       \/ Strike(p) /\ UNCHANGED <<remote, oldRemote>>
    /\ part' = Unlinked(p)
    /\ old' = old \ {p}
    /\ Goto(p, "closing")
    /\ UNCHANGED object

\* finally of admit_source and _persist_page.
Close(p) ==
    /\ At(p, "closing")
    /\ part' = Unlinked(p)
    /\ old' = old \ {p}
    /\ Goto(p, IF put[p].ok THEN "done" ELSE "failed")
    /\ UNCHANGED <<remote, oldRemote, object, past>>

-----------------------------------------------------------------------------
(* Errors, exits and time *)

\* A file cannot be opened, written or moved, or the first head raises.
FileFails(p) ==
    /\ \E pc \in {"opening", "writing", "putting", "moving"} : At(p, pc)
    /\ Strike(p)
    /\ Fail(p, "closing")
    /\ UNCHANGED <<staging, object>>

\* upload_file, copy_object or a head raises, with or without effect.
ServiceFails(p) ==
    /\ Strike(p)
    /\ \/ /\ At(p, "uploading")
          /\ remote' \in {remote, [remote EXCEPT ![p] = part[p]]}
          /\ UNCHANGED object
       \/ /\ At(p, "copying")
          /\ remote[p] # "absent"
          /\ object' \in {object, [object EXCEPT ![KeyOf[p]] = remote[p]]}
          /\ UNCHANGED remote
    /\ Fail(p, "tidying")
    /\ UNCHANGED <<part, old, oldRemote>>

Exit(p) ==
    /\ AtWork(p)
    /\ Cardinality(exited) < MaxExits
    /\ exited' = exited \cup {p}
    /\ UNCHANGED <<staging, object, put, struck, stalled>>

\* 24 hours pass without a write; for a part in use that is a stall.
GetOld(p) ==
    /\ part[p] # "absent" \/ remote[p] # "absent"
    /\ IF AtWork(p) THEN /\ Cardinality(stalled) < MaxStalls
                         /\ stalled' = stalled \cup {p}
                    ELSE UNCHANGED stalled
    /\ old' = IF part[p] = "absent" THEN old ELSE old \cup {p}
    /\ oldRemote' = IF remote[p] = "absent" THEN oldRemote ELSE oldRemote \cup {p}
    /\ UNCHANGED <<part, remote, object, put, exited, struck>>

-----------------------------------------------------------------------------

Sweep(p) ==
    \/ StartUpload(p)
    \/ PassOver(p)
    \/ FindStale(p)
    \/ UnlinkStale(p)
    \/ EndSweep(p)

Put(p) ==
    \/ StartPage(p)
    \/ OpenPart(p)
    \/ WritePart(p)
    \/ PartIsGone(p)
    \/ ReuseStored(p)
    \/ BeginPut(p)
    \/ MovePart(p)
    \/ UploadPart(p)
    \/ CopyToKey(p)
    \/ Tidy(p)
    \/ Close(p)

Misfortune(p) ==
    \/ ListingFails(p)
    \/ FileFails(p)
    \/ ServiceFails(p)
    \/ Exit(p)
    \/ GetOld(p)

Next ==
    /\ \E p \in Puts : Sweep(p) \/ Put(p) \/ Misfortune(p)
    /\ UNCHANGED backend

Spec == Init /\ [][Next]_vars

-----------------------------------------------------------------------------
(* Properties *)

\* Type correctness.
TypeOK ==
    /\ backend \in Backends
    /\ part \in [Puts -> Contents]
    /\ old \subseteq Puts
    /\ remote \in [Puts -> Contents]
    /\ oldRemote \subseteq Puts
    /\ object \in [Keys -> Contents]
    /\ put \in [Puts -> Locals]
    /\ exited \subseteq Puts
    /\ struck \subseteq Puts
    /\ stalled \subseteq Puts

\* put_canonical or put_derived has returned.
Returned(p) ==
    \/ put[p].pc = "done"
    \/ put[p].ok /\ put[p].pc = "closing"

\* Whatever other puts of the key, cleanups, errors and exits do in between, the
\* store is a vault: an object that is there stays there whole, and a key is
\* returned only for one that is there.  This is what Admission takes put_canonical
\* for, and PageArtifacts put_derived.
Vault == INSTANCE BlobVault WITH
            stored   <- {k \in Keys : object[k] = "whole"},
            promised <- {KeyOf[p] : p \in {q \in Puts : Returned(q)}}

ImplementsVault == Vault!Spec

\* No object is ever torn: not by uploads of one content that pass destination.exists()
\* together, nor by what a killed worker left under a staging name.
ObjectsAreWhole == \A k \in Keys : object[k] \in {"absent", "whole"}

\* The cleanups of other calls do no harm to an upload: one that fails has met an
\* error or a stall of more than 24 hours itself.
UploadFailsByItself ==
    \A p \in Uploads : put[p].pc = "failed" => p \in struck \cup stalled

\* A call that is through, also by an error, leaves no part behind, and a staging
\* object only if the service failed it; what else lies there belongs to a put at work
\* or to a process that is gone, and is for a later cleanup to find.
StagingIsLeftClean ==
    \A p \in Puts : put[p].pc \in {"done", "failed"} =>
        part[p] = "absent" /\ (remote[p] = "absent" \/ p \in struck)

\* "... must never make admission fail merely because a cleanup listing is unavailable"
\* (blobstore.py:222): no upload ends in its cleanup.  False, by ListingFails.
CleanupFailsNoUpload ==
    [][\A p \in Uploads : At(p, "sweeping") => put'[p].pc # "failed"]_vars

=============================================================================
