----------------------------- MODULE AlbumStore -----------------------------
(***************************************************************************)
(* The album store of CS6650_final: an API whose photo uploads go on in    *)
(* the background after the client has been answered, and a worker that    *)
(* completes photos again from a queue.                                    *)
(*                                                                         *)
(* A photo is named by the POST that uploads it: its id is fresh and its   *)
(* S3 key is made of that id.  PostgreSQL, Redis, S3 and SQS are external; *)
(* each statement, command or call to one of them is a step, and between   *)
(* any two steps of a handler, goroutine or poller all others may run.  A  *)
(* call that returns an error may or may not have had its effect.          *)
(* Requests that are rejected before they touch one of them are left out,  *)
(* and so are the GETs, which show albums and row as they are.             *)
(***************************************************************************)
EXTENDS Integers, FiniteSets

CONSTANTS Albums,
          Puts,        \* PUT /albums/{album_id} requests
          Photos,      \* POST /albums/{album_id}/photos requests
          Deletes,     \* DELETE /albums/{album_id}/photos/{photo_id} requests
          AlbumOf,     \* the album in the path of each request
          Target,      \* Target[d]: the photo in the path of DELETE d
          Pollers,     \* poll loops, five in each worker task
          MaxFailures, \* bound on calls that return an error
          MaxCrashes,  \* bound on stops of an API or worker task
          MaxReceives  \* maxReceiveCount of the queue's redrive policy

ASSUME RequestAssumption == /\ AlbumOf \in [Puts \cup Photos \cup Deletes -> Albums]
                            /\ Target \in [Deletes -> Photos]
ASSUME BoundAssumption ==
  MaxFailures \in Nat /\ MaxCrashes \in Nat /\ MaxReceives \in Nat \ {0}

VARIABLES
  albums,    \* the albums with a row
  put,       \* put[x]: where PutAlbum x is, at the end the status it answered
  silent,    \* ghost: PUTs that made an album they took for new, and whose
             \* clients were not told so
  seqs,      \* seqs[a]: the Redis counter seq:<a>
  upload,    \* upload[u]: where UploadPhoto u and its goroutine are
  seq,       \* seq[u]: the number Redis gave to u, 0 before it did
  row,       \* row[u]: the status in the photos table, "none" without a row
  objects,   \* the photos with an object in S3
  deletion,  \* deletion[d]: where DeletePhoto d is
  queue,     \* queue[u]: the message about u
  receives,  \* receives[u]: how often the message about u was received
  working,   \* working[w]: the messages poller w has received and not finished
  finishing, \* finishing[w]: the message w has acted on and will delete
  failing,   \* failing[w]: the message w could not act on
  failures,  \* number of calls that returned an error
  crashes,   \* number of tasks that stopped
  after      \* ghost, after[u]: the photos answered 202 before u got its number

apiVars    == <<albums, put, silent, seqs, upload, seq, after>>
deleteVars == <<deletion>>
queueVars  == <<receives, working, finishing, failing>>
vars       == <<apiVars, deleteVars, queueVars, row, objects, queue, failures, crashes>>

Init ==
  /\ albums = {}
  /\ put = [x \in Puts |-> "none"]
  /\ silent = {}
  /\ seqs = [a \in Albums |-> 0]
  /\ upload = [u \in Photos |-> "none"]
  /\ seq = [u \in Photos |-> 0]
  /\ row = [u \in Photos |-> "none"]
  /\ objects = {}
  /\ deletion = [d \in Deletes |-> "none"]
  /\ queue = [u \in Photos |-> "none"]
  /\ receives = [u \in Photos |-> 0]
  /\ working = [w \in Pollers |-> {}]
  /\ finishing = [w \in Pollers |-> {}]
  /\ failing = [w \in Pollers |-> {}]
  /\ failures = 0
  /\ crashes = 0
  /\ after = [u \in Photos |-> {}]

Fail == failures < MaxFailures /\ failures' = failures + 1

-----------------------------------------------------------------------------
(* PutAlbum: GetAlbum, where any error means "new", UpsertAlbum, the answer. *)
(* put[x] goes through                                                     *)
(*   none               the request has not got to PostgreSQL              *)
(*   new, known         what GetAlbum made of it                           *)
(*   created, updated   UpsertAlbum has returned no error                  *)
(*   201, 200, 500      the answer                                         *)
(*   lost               the task stopped before it could answer            *)

Found_Inverted(x) == IF AlbumOf[x] \in albums THEN "new" ELSE "known"

Found(x) == IF AlbumOf[x] \in albums THEN "known" ELSE "new"

CheckAlbum(x) ==
  /\ put[x] = "none"
  /\ \/ put' = [put EXCEPT ![x] = Found(x)] /\ UNCHANGED failures
     \/ put' = [put EXCEPT ![x] = "new"] /\ Fail
  /\ UNCHANGED <<albums, silent, seqs, upload, seq, after, row, objects, deleteVars, queue,
                 queueVars, crashes>>

UpsertAlbum(x) ==
  /\ put[x] \in {"new", "known"}
  /\ \/ /\ albums' = albums \cup {AlbumOf[x]}
        /\ put' = [put EXCEPT ![x] = IF @ = "new" THEN "created" ELSE "updated"]
        /\ UNCHANGED <<silent, failures>>
     \/ /\ put' = [put EXCEPT ![x] = "500"]
        /\ Fail
        /\ \/ UNCHANGED <<albums, silent>>
           \/ /\ albums' = albums \cup {AlbumOf[x]}
              /\ silent' = IF put[x] = "new" THEN silent \cup {x} ELSE silent
  /\ UNCHANGED <<seqs, upload, seq, after, row, objects, deleteVars, queue,
                 queueVars, crashes>>

AnswerPut(x) ==
  /\ put[x] \in {"created", "updated"}
  /\ put' = [put EXCEPT ![x] = IF @ = "created" THEN "201" ELSE "200"]
  /\ UNCHANGED <<albums, silent, seqs, upload, seq, after, row, objects, deleteVars, queue,
                 queueVars, failures, crashes>>

\* The API task that runs PUT x stops.
CrashPut(x) ==
  /\ crashes < MaxCrashes
  /\ crashes' = crashes + 1
  /\ put[x] \in {"new", "known", "created", "updated"}
  /\ put' = [put EXCEPT ![x] = "lost"]
  /\ silent' = IF put[x] = "created" THEN silent \cup {x} ELSE silent
  /\ UNCHANGED <<albums, seqs, upload, seq, after, row, objects, deleteVars, queue,
                 queueVars, failures>>

-----------------------------------------------------------------------------
(* UploadPhoto.  upload[u] goes through                                    *)
(*   none       the request has not got to Redis                           *)
(*   numbered   INCR has given u its number                                *)
(*   rejected   the client was answered 500, or nothing after a crash       *)
(*   accepted   the client was answered 202, the goroutine uploads         *)
(*   unstored   the upload returned an error                               *)
(*   stored     the upload returned a URL                                  *)
(*   marked     MarkPhotoCompleted returned no error                       *)
(*   done       the goroutine has marked the photo and ended               *)
(*   stranded   it has ended, here or by a crash, and could not mark it    *)

Incr_CountRows(u) ==
  seq' = [seq EXCEPT ![u] =
    1 + Cardinality({v \in Photos : row[v] # "none" /\ AlbumOf[v] = AlbumOf[u]})]

Incr(u) == seq' = [seq EXCEPT ![u] = seqs[AlbumOf[u]] + 1]

NumberPhoto(u) ==
  /\ upload[u] = "none"
  /\ \/ /\ Incr(u)
        /\ seqs' = [seqs EXCEPT ![AlbumOf[u]] = @ + 1]
        /\ upload' = [upload EXCEPT ![u] = "numbered"]
        /\ after' = [after EXCEPT ![u] = {v \in Photos :
                       upload[v] \notin {"none", "numbered", "rejected"}}]
        /\ UNCHANGED failures
     \/ /\ upload' = [upload EXCEPT ![u] = "rejected"]
        /\ Fail
        /\ seqs' \in {seqs, [seqs EXCEPT ![AlbumOf[u]] = @ + 1]}
        /\ UNCHANGED <<seq, after>>
  /\ UNCHANGED <<albums, put, silent, row, objects, deleteVars, queue, queueVars, crashes>>

\* InsertPhoto and the answer, between which nothing is shared; the foreign key
\* asks for the album's row.
InsertPhoto(u) ==
  /\ upload[u] = "numbered"
  /\ \/ /\ AlbumOf[u] \in albums
        /\ row' = [row EXCEPT ![u] = "processing"]
        /\ upload' = [upload EXCEPT ![u] = "accepted"]
        /\ UNCHANGED failures
     \/ /\ AlbumOf[u] \in albums
        /\ Fail
        /\ row' \in {row, [row EXCEPT ![u] = "processing"]}
        /\ upload' = [upload EXCEPT ![u] = "rejected"]
     \/ /\ AlbumOf[u] \notin albums
        /\ upload' = [upload EXCEPT ![u] = "rejected"]
        /\ UNCHANGED <<row, failures>>
  /\ UNCHANGED <<albums, put, silent, seqs, seq, after, objects, deleteVars, queue,
                 queueVars, crashes>>

\* The variant forgets to mark the photo after an error.
StorePhoto_ReturnOnError(u) ==
  /\ upload[u] = "accepted"
  /\ \/ /\ objects' = objects \cup {u}
        /\ upload' = [upload EXCEPT ![u] = "stored"]
        /\ UNCHANGED failures
     \/ /\ Fail
        /\ upload' = [upload EXCEPT ![u] = "done"]
        /\ UNCHANGED objects
  /\ UNCHANGED <<albums, put, silent, seqs, seq, after, row, deleteVars, queue,
                 queueVars, crashes>>

\* S3.Upload in the goroutine.  An error may come without or with an object:
\* the answer of the PUT is lost, or the URL cannot be presigned.
StorePhoto(u) ==
  /\ upload[u] = "accepted"
  /\ \/ /\ objects' = objects \cup {u}
        /\ upload' = [upload EXCEPT ![u] = "stored"]
        /\ UNCHANGED failures
     \/ /\ Fail
        /\ objects' \in {objects, objects \cup {u}}
        /\ upload' = [upload EXCEPT ![u] = "unstored"]
  /\ UNCHANGED <<albums, put, silent, seqs, seq, after, row, deleteVars, queue,
                 queueVars, crashes>>

\* UPDATE photos SET status = s: no effect on a photo without a row.
Status_Upsert(u, s) == [row EXCEPT ![u] = s]

Status(u, s) == [row EXCEPT ![u] = IF @ = "none" THEN @ ELSE s]

SetStatus(u, s) == row' = Status(u, s)

\* MarkPhotoFailed, whose own error is ignored.
MarkFailed(u) ==
  /\ upload[u] = "unstored"
  /\ \/ /\ SetStatus(u, "failed")
        /\ upload' = [upload EXCEPT ![u] = "done"]
        /\ UNCHANGED failures
     \/ /\ SetStatus(u, "failed") \/ UNCHANGED row
        /\ upload' = [upload EXCEPT ![u] = "stranded"]
        /\ Fail
  /\ UNCHANGED <<albums, put, silent, seqs, seq, after, objects, deleteVars, queue,
                 queueVars, crashes>>

MarkCompleted_Early(u) ==
  /\ upload[u] \in {"accepted", "stored"}
  /\ SetStatus(u, "completed")
  /\ upload' = [upload EXCEPT ![u] = "marked"]
  /\ UNCHANGED <<albums, put, silent, seqs, seq, after, objects, deleteVars, queue,
                 queueVars, failures, crashes>>

\* MarkPhotoCompleted in the goroutine; after an error it returns, and neither
\* the row nor the queue hears of the photo again.
MarkCompleted(u) ==
  /\ upload[u] = "stored"
  /\ \/ /\ SetStatus(u, "completed")
        /\ upload' = [upload EXCEPT ![u] = "marked"]
        /\ UNCHANGED failures
     \/ /\ upload' = [upload EXCEPT ![u] = "stranded"]
        /\ SetStatus(u, "completed") \/ UNCHANGED row
        /\ Fail
  /\ UNCHANGED <<albums, put, silent, seqs, seq, after, objects, deleteVars, queue,
                 queueVars, crashes>>

\* SQS.Publish, whose error is ignored.
PublishPhoto(u) ==
  /\ upload[u] = "marked"
  /\ upload' = [upload EXCEPT ![u] = "done"]
  /\ \/ queue' = [queue EXCEPT ![u] = "visible"] /\ UNCHANGED failures
     \/ queue' \in {queue, [queue EXCEPT ![u] = "visible"]} /\ Fail
  /\ UNCHANGED <<albums, put, silent, seqs, seq, after, row, objects, deleteVars,
                 queueVars, crashes>>

\* The API task that runs the upload of u stops.
CrashUpload(u) ==
  /\ crashes < MaxCrashes
  /\ crashes' = crashes + 1
  /\ upload[u] \notin {"none", "rejected", "done", "stranded"}
  /\ upload' = [upload EXCEPT ![u] = CASE @ = "numbered" -> "rejected"
                                       [] @ = "marked"   -> "done"
                                       [] OTHER          -> "stranded"]
  /\ UNCHANGED <<albums, put, silent, seqs, seq, after, row, objects, deleteVars, queue,
                 queueVars, failures>>

-----------------------------------------------------------------------------
(* DeletePhoto: GetPhotoS3Key by photo id alone, S3.Delete, DB.DeletePhoto. *)
(* deletion[d] ends as "absent" (204, the lookup gave no key), "204", "500", *)
(* or, its task having stopped, as "dropped" or, with the object erased,   *)
(* "halved".                                                               *)

LookupPhoto(d) ==
  /\ deletion[d] = "none"
  /\ \/ /\ row[Target[d]] # "none"
        /\ deletion' = [deletion EXCEPT ![d] = "found"]
        /\ UNCHANGED failures
     \/ /\ deletion' = [deletion EXCEPT ![d] = "absent"]
        /\ IF row[Target[d]] # "none" THEN Fail ELSE UNCHANGED failures
  /\ UNCHANGED <<apiVars, row, objects, queue, queueVars, crashes>>

\* An error of S3 is logged and the handler goes on.
DeleteObject(d) ==
  /\ deletion[d] = "found"
  /\ deletion' = [deletion EXCEPT ![d] = "erased"]
  /\ \/ objects' = objects \ {Target[d]} /\ UNCHANGED failures
     \/ objects' \in {objects, objects \ {Target[d]}} /\ Fail
  /\ UNCHANGED <<apiVars, row, queue, queueVars, crashes>>

\* The row goes only if the album is the photo's; the answer is 204 all the same.
DeleteRow(d) ==
  LET without == [row EXCEPT ![Target[d]] =
                    IF AlbumOf[d] = AlbumOf[Target[d]] THEN "none" ELSE @]
  IN
  /\ deletion[d] = "erased"
  /\ \/ /\ row' = without
        /\ deletion' = [deletion EXCEPT ![d] = "204"]
        /\ UNCHANGED failures
     \/ /\ deletion' = [deletion EXCEPT ![d] = "500"]
        /\ row' \in {row, without}
        /\ Fail
  /\ UNCHANGED <<apiVars, objects, queue, queueVars, crashes>>

\* The API task that runs DELETE d stops.
CrashDelete(d) ==
  /\ crashes < MaxCrashes
  /\ crashes' = crashes + 1
  /\ deletion[d] \in {"found", "erased"}
  /\ deletion' = [deletion EXCEPT ![d] = IF @ = "found" THEN "dropped" ELSE "halved"]
  /\ UNCHANGED <<apiVars, row, objects, queue, queueVars, failures>>

-----------------------------------------------------------------------------
(* The queue and the worker.  A message is visible, in flight for up to    *)
(* the visibility timeout, and deleted, or dead after too many receives.   *)

Receive(w) ==
  /\ working[w] = {}
  /\ \E ms \in SUBSET {u \in Photos : queue[u] = "visible"} :
       /\ ms # {}
       /\ working' = [working EXCEPT ![w] = ms]
       /\ queue' = [u \in Photos |-> IF u \in ms THEN "inflight" ELSE queue[u]]
       /\ receives' = [u \in Photos |-> IF u \in ms THEN receives[u] + 1 ELSE receives[u]]
  /\ UNCHANGED <<apiVars, deleteVars, row, objects, finishing, failing,
                 failures, crashes>>

\* processMessage up to the outcome of MarkPhotoCompleted, ...
WorkerMark(w, u) ==
  /\ u \in working[w]
  /\ finishing[w] = {} /\ failing[w] = {}
  /\ \/ /\ SetStatus(u, "completed")
        /\ finishing' = [finishing EXCEPT ![w] = {u}]
        /\ UNCHANGED <<failing, failures>>
     \/ /\ Fail
        /\ SetStatus(u, "completed") \/ UNCHANGED row
        /\ failing' = [failing EXCEPT ![w] = {u}]
        /\ UNCHANGED finishing
  /\ UNCHANGED <<apiVars, deleteVars, objects, queue, receives, working, crashes>>

\* ... MarkPhotoFailed after an error, whose own error is ignored; the message is
\* left alone, ...
WorkerFail(w, u) ==
  /\ u \in failing[w]
  /\ failing' = [failing EXCEPT ![w] = {}]
  /\ working' = [working EXCEPT ![w] = @ \ {u}]
  /\ \/ SetStatus(u, "failed") /\ UNCHANGED failures
     \/ (SetStatus(u, "failed") \/ UNCHANGED row) /\ Fail
  /\ UNCHANGED <<apiVars, deleteVars, objects, queue, receives, finishing, crashes>>

\* ... and otherwise the Delete at the end, whose error is ignored.
WorkerDelete(w, u) ==
  /\ u \in finishing[w]
  /\ finishing' = [finishing EXCEPT ![w] = {}]
  /\ working' = [working EXCEPT ![w] = @ \ {u}]
  /\ \/ /\ queue' = [queue EXCEPT ![u] = IF @ = "dead" THEN @ ELSE "deleted"]
        /\ UNCHANGED failures
     \/ UNCHANGED queue /\ Fail
  /\ UNCHANGED <<apiVars, deleteVars, row, objects, receives, failing, crashes>>

\* The redrive policy: a message that has been received often enough dies.
WornOut_OffByOne(u) == receives[u] > MaxReceives

WornOut(u) == receives[u] >= MaxReceives

\* The visibility timeout of a message ends, perhaps while a poller is still
\* busy with it or with others of its batch.
VisibilityEnds(u) ==
  /\ queue[u] = "inflight"
  /\ queue' = [queue EXCEPT ![u] = IF WornOut(u) THEN "dead" ELSE "visible"]
  /\ UNCHANGED <<apiVars, deleteVars, queueVars, row, objects, failures, crashes>>

\* The worker task of poller w stops and another one takes its place.
CrashWorker(w) ==
  /\ crashes < MaxCrashes
  /\ crashes' = crashes + 1
  /\ working[w] # {}
  /\ working' = [working EXCEPT ![w] = {}]
  /\ finishing' = [finishing EXCEPT ![w] = {}]
  /\ failing' = [failing EXCEPT ![w] = {}]
  /\ UNCHANGED <<apiVars, deleteVars, row, objects, queue, receives, failures>>

-----------------------------------------------------------------------------
Next ==
  \/ \E x \in Puts : CheckAlbum(x) \/ UpsertAlbum(x) \/ AnswerPut(x) \/ CrashPut(x)
  \/ \E u \in Photos :
       \/ NumberPhoto(u)
       \/ InsertPhoto(u)
       \/ StorePhoto(u)
       \/ MarkFailed(u)
       \/ MarkCompleted(u)
       \/ PublishPhoto(u)
       \/ CrashUpload(u)
       \/ VisibilityEnds(u)
  \/ \E d \in Deletes : LookupPhoto(d) \/ DeleteObject(d) \/ DeleteRow(d) \/ CrashDelete(d)
  \/ \E w \in Pollers : Receive(w) \/ CrashWorker(w)
  \/ \E w \in Pollers, u \in Photos :
       WorkerMark(w, u) \/ WorkerFail(w, u) \/ WorkerDelete(w, u)

Spec == Init /\ [][Next]_vars

Goroutine(u) == StorePhoto(u) \/ MarkFailed(u) \/ MarkCompleted(u) \/ PublishPhoto(u)

\* A goroutine that can go on does; of the worker nothing is asked.
Fairness == \A u \in Photos : WF_vars(Goroutine(u))

FairSpec == Spec /\ Fairness

-----------------------------------------------------------------------------
TypeOK ==
  /\ albums \subseteq Albums
  /\ put \in [Puts -> {"none", "new", "known", "created", "updated", "200", "201", "500",
                      "lost"}]
  /\ silent \subseteq Puts
  /\ seqs \in [Albums -> Nat]
  /\ upload \in [Photos -> {"none", "numbered", "rejected", "accepted", "unstored",
                           "stored", "marked", "done", "stranded"}]
  /\ seq \in [Photos -> Nat]
  /\ row \in [Photos -> {"none", "processing", "completed", "failed"}]
  /\ objects \subseteq Photos
  /\ deletion \in [Deletes -> {"none", "found", "absent", "erased", "204", "500", "dropped",
                              "halved"}]
  /\ queue \in [Photos -> {"none", "visible", "inflight", "deleted", "dead"}]
  /\ receives \in [Photos -> 0 .. MaxReceives]
  /\ working \in [Pollers -> SUBSET Photos]
  /\ finishing \in [Pollers -> SUBSET Photos]
  /\ failing \in [Pollers -> SUBSET Photos]
  /\ failures \in 0 .. MaxFailures
  /\ crashes \in 0 .. MaxCrashes
  /\ after \in [Photos -> SUBSET Photos]

\* No two photos of an album ever have one number, and a photo posted after
\* another one was accepted has a higher number, although handlers of several
\* API tasks interleave, some reject their photo and photos are deleted.
SeqOrdersPhotos ==
  \A u, v \in Photos : AlbumOf[u] = AlbumOf[v] /\ seq[u] # 0 =>
    /\ u # v => seq[u] # seq[v]
    /\ v \in after[u] => seq[v] < seq[u]

\* A photo that is shown as completed can be downloaded: its object is in S3,
\* until a DELETE that names the photo erases it.
CompletedIsStored ==
  \A u \in Photos : row[u] = "completed" =>
    \/ u \in objects
    \/ \E d \in Deletes :
         Target[d] = u /\ deletion[d] \in {"erased", "204", "500", "halved"}

\* A deleted photo does not come back: neither the goroutine of its upload nor
\* a message received late or twice makes a row again.
DeletedStaysDeleted ==
  [][\A u \in Photos : row[u] = "none" /\ upload[u] \notin {"none", "numbered"}
       => row'[u] = "none"]_vars

\* Somebody is told that an album is new: for every album a PUT has been or is
\* being answered 201, unless the one that made it was answered 500 by an upsert
\* that did take effect, or its task stopped between the upsert and the answer.
\* (Two PUTs that overlap may both be answered 201.)
SomebodyCreates ==
  \A a \in albums : \E x \in Puts :
    AlbumOf[x] = a /\ (put[x] \in {"created", "201"} \/ x \in silent)

\* Every photo that was accepted settles: it is shown as completed or failed, or
\* is deleted, whatever failed or stopped elsewhere, and if its own upload
\* failed.  Only where its goroutine stopped, or could not update the row, may
\* the photo stay as it is.
PhotosSettle ==
  \A u \in Photos :
    upload[u] = "accepted" ~> (row[u] # "processing" \/ upload[u] = "stranded")

\* README.md: uploading from the handler ensures durability before we
\* acknowledge the client.  A photo whose POST was answered 202 is in S3, unless
\* it is shown as failed or somebody deletes it.
AcceptedIsDurable ==
  \A u \in Photos :
    upload[u] \notin {"none", "numbered", "rejected"} =>
      \/ u \in objects
      \/ row[u] = "failed"
      \/ \E d \in Deletes : Target[d] = u /\ deletion[d] # "none"

\* handlers.go: the worker is a no-op if the photo is already completed.
CompletedIsFinal ==
  [][\A u \in Photos : row[u] = "completed" => row'[u] \in {"completed", "none"}]_vars
=============================================================================
