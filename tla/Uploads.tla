------------------------------ MODULE Uploads -------------------------------
(***************************************************************************)
(* Uploads to a source: the intent with its presigned address, the bytes   *)
(* the client puts into quarantine, and complete_upload, which copies them *)
(* and then makes revision, blob and job.  Object storage takes part in no *)
(* transaction; what follows a completed upload is module Ingestion.       *)
(***************************************************************************)
EXTENDS Requests

CONSTANTS
    UploadIds,
    Digests         \* expected_sha256; a revision's id is made from it

VARIABLES
    status,         \* source.processing_status
    intent,         \* upload_intent
    address,        \* uploads whose presigned address has not expired
    quarantine,     \* the object a client has put, and is it the one announced
    original,       \* its copy
    revision,       \* source_revision of each digest
    blobs,          \* number of source_blob rows of each digest
    jobs,           \* number of jobs with the key upload-complete:<id>
    repeated        \* uploads that two requests were completing at a time

storage == <<quarantine, original>>
uploadVars == <<status, intent, address, storage, revision, blobs, jobs, repeated>>

Intent == [made : {TRUE}, digest : Digests, done : BOOLEAN]
Object == {"absent", "announced", "other"}
Revision == [made : {TRUE}, object : UploadIds, bytes : Object]

CreateSource == [op : {"create_source"}]
BeginUpload == [op : {"begin_upload"}, upload : UploadIds, digest : Digests]
CompleteUpload == [op : {"complete_upload"}, upload : UploadIds]
UploadRequest == CreateSource \cup BeginUpload \cup CompleteUpload

UploadsTypeOK ==
    /\ RequestsTypeOK(UploadRequest)
    /\ status \in {"absent", "draft", "upload_pending", "queued"}
    /\ intent \in [UploadIds -> {NoRow} \cup Intent]
    /\ address \subseteq UploadIds
    /\ quarantine \in [UploadIds -> Object] /\ original \in [UploadIds -> Object]
    /\ revision \in [Digests -> {NoRow} \cup Revision]
    /\ blobs \in [Digests -> Nat] /\ jobs \in [UploadIds -> Nat]
    /\ repeated \subseteq UploadIds

UploadsInit ==
    /\ status = "absent"
    /\ intent = [u \in UploadIds |-> NoRow]
    /\ address = {}
    /\ quarantine = [u \in UploadIds |-> "absent"]
    /\ original = [u \in UploadIds |-> "absent"]
    /\ revision = [d \in Digests |-> NoRow]
    /\ blobs = [d \in Digests |-> 0]
    /\ jobs = [u \in UploadIds |-> 0]
    /\ repeated = {}

-----------------------------------------------------------------------------
(* The source, the intent and the client.                                  *)

\* A source of a fresh id; a key of the request would be handled as in
\* Documents.
create_source(h) ==
    /\ At(h, "create_source", "read")
    /\ status = "absent"
    /\ status' = "draft"
    /\ End(h)
    /\ UNCHANGED <<intent, address, storage, revision, blobs, jobs, repeated>>

\* The source is asked for before the scope; no source raises.  The address
\* is valid whether or not the intent is committed.
SignUpload(h) ==
    LET u == tx[h].q.upload IN
    /\ At(h, "begin_upload", "read")
    /\ ~intent[u].made /\ u \notin address
    /\ IF Seen(status # "absent", FALSE)
       THEN address' = address \cup {u} /\ Goto(h, "commit", NoRow, [status |-> status])
       ELSE UNCHANGED address /\ End(h)
    /\ UNCHANGED <<status, intent, storage, revision, blobs, jobs, repeated>>

\* Mutant: only the completions of the same upload exclude each other.
UploadHeld(h) ==
    \E g \in Rivals(h) : /\ tx[g].q.op = "complete_upload" /\ tx[g].at \in {"locked", "commit"}
                         /\ tx[g].q.upload = tx[h].q.upload

\* Another has written the source's row and not committed; every completion
\* and every intent writes it.
SourceHeld(h) ==
    \E g \in Rivals(h) : tx[g].q.op = "complete_upload" /\ tx[g].at \in {"locked", "commit"}

\* The column is written if the value differs from the one that was read.
SetStatus(h, new) ==
    status' = IF tx[h].known.status = new THEN status ELSE new

begin_upload(h) ==
    LET q == tx[h].q IN
    /\ At(h, "begin_upload", "commit") /\ ~SourceHeld(h)
    /\ SetStatus(h, "upload_pending")
    /\ intent' = [intent EXCEPT ![q.upload] =
                     [made |-> TRUE, digest |-> q.digest, done |-> FALSE]]
    /\ End(h)
    /\ UNCHANGED <<address, storage, revision, blobs, jobs, repeated>>

\* Size, type and digest are signed with the address; the bytes are the
\* client's, which may put them several times.
Put(u, bytes) ==
    /\ u \in address
    /\ quarantine' = [quarantine EXCEPT ![u] = bytes]
    /\ UNCHANGED <<requestVars, status, intent, address, original, revision, blobs, jobs, repeated>>

ExpireAddress(u) ==
    /\ u \in address /\ intent[u].made
    /\ address' = address \ {u}
    /\ UNCHANGED <<requestVars, status, intent, storage, revision, blobs, jobs, repeated>>

-----------------------------------------------------------------------------
(* complete_upload.                                                        *)

\* Mutant: completed_at is not looked at.
VerifyUploadAgain(h) ==
    LET u == tx[h].q.upload
        seen == Seen(intent[u], NoRow)
    IN /\ At(h, "complete_upload", "read")
       /\ IF seen.made /\ quarantine[u] # "absent"
          THEN Goto(h, "next", seen, [status |-> status]) ELSE End(h)
       /\ UNCHANGED uploadVars

\* Source and intent; a completed one is answered with its revision.  Then
\* verify_upload_completion: an object is there, with the size and the digest
\* its metadata claim.
VerifyUpload(h) ==
    LET u == tx[h].q.upload
        seen == Seen(intent[u], NoRow)
    IN /\ At(h, "complete_upload", "read")
       /\ IF seen.made /\ ~seen.done /\ quarantine[u] # "absent"
          THEN Goto(h, "next", seen, [status |-> status]) ELSE End(h)
       /\ UNCHANGED uploadVars

\* promote_from_quarantine copies what is in quarantine now.
Promote(h) ==
    LET u == tx[h].q.upload IN
    /\ At(h, "complete_upload", "next")
    /\ original' = [original EXCEPT ![u] = quarantine[u]]
    /\ Goto(h, "then", tx[h].seen, tx[h].known)
    /\ UNCHANGED <<status, intent, address, quarantine, revision, blobs, jobs, repeated>>

LookForRevision(h) ==
    /\ At(h, "complete_upload", "then")
    /\ Goto(h, "flush", tx[h].seen,
            [status |-> tx[h].known.status, existed |-> revision[tx[h].seen.digest].made])
    /\ UNCHANGED uploadVars

\* The revision is flushed, and at the end of tenant_scope its blob, the intent
\* and the source.  The insertion waits for another completion that inserts
\* the same revision, the update for any that has written the source, which
\* every completion does: so one wait stands for both.  A revision that was
\* committed meanwhile makes the insertion fail.
FlushCompletion(h) ==
    /\ At(h, "complete_upload", "flush") /\ ~SourceHeld(h)
    /\ tx[h].known.existed \/ ~revision[tx[h].seen.digest].made
    /\ Goto(h, "locked", tx[h].seen, tx[h].known)
    /\ UNCHANGED uploadVars

\* enqueue_job_with_outbox looks for a job with this key.  No index enforces
\* the key.
LookForJob(h) ==
    /\ At(h, "complete_upload", "locked")
    /\ Goto(h, "commit", tx[h].seen,
            [status |-> tx[h].known.status, existed |-> tx[h].known.existed,
             queued |-> jobs[tx[h].q.upload] > 0])
    /\ UNCHANGED uploadVars

complete_upload(h) ==
    LET u == tx[h].q.upload
        d == tx[h].seen.digest
    IN
    /\ At(h, "complete_upload", "commit")
    /\ IF tx[h].known.existed THEN UNCHANGED <<revision, blobs>>
       ELSE /\ revision' = [revision EXCEPT ![d] = [made |-> TRUE, object |-> u,
                                                    bytes |-> original[u]]]
            /\ blobs' = [blobs EXCEPT ![d] = @ + 1]
    /\ intent' = [intent EXCEPT ![u].done = TRUE]
    /\ SetStatus(h, "queued")
    /\ jobs' = IF tx[h].known.queued THEN jobs ELSE [jobs EXCEPT ![u] = @ + 1]
    /\ repeated' = IF \E g \in Rivals(h) : tx[g].q.op = "complete_upload" /\ tx[g].q.upload = u
                   THEN repeated \cup {u} ELSE repeated
    /\ End(h)
    /\ UNCHANGED <<address, storage>>

UploadsNext ==
    \/ \E h \in Handlers :
          \/ \E q \in UploadRequest : Receive(h, q) /\ UNCHANGED uploadVars
          \/ create_source(h)
          \/ SignUpload(h)
          \/ begin_upload(h)
          \/ VerifyUpload(h)
          \/ Promote(h)
          \/ LookForRevision(h)
          \/ FlushCompletion(h)
          \/ LookForJob(h)
          \/ complete_upload(h)
    \/ \E u \in UploadIds :
          \/ \E bytes \in {"announced", "other"} : Put(u, bytes)
          \/ ExpireAddress(u)

-----------------------------------------------------------------------------
\* An upload is completed as a whole and once, however often that is asked
\* for and wherever it breaks off: with the intent done there are its
\* revision and its one job, and before that no job.  A revision has its one
\* blob and its object in storage, and the object stays what it was when the
\* revision was made ("immutable objects", TRD-DATA-013), unless two
\* requests were completing the upload at a time: the second may copy
\* what was put since.
CompletedTogether ==
    /\ \A u \in UploadIds :
          IF intent[u].made /\ intent[u].done
          THEN jobs[u] = 1 /\ revision[intent[u].digest].made
          ELSE jobs[u] = 0
    /\ \A d \in Digests :
          LET r == revision[d] IN
          IF r.made
          THEN /\ blobs[d] = 1 /\ original[r.object] # "absent"
               /\ r.object \notin repeated => original[r.object] = r.bytes
          ELSE blobs[d] = 0
=============================================================================
