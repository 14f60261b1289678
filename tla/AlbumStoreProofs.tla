-------------------------- MODULE AlbumStoreProofs --------------------------
(***************************************************************************)
(* Safety of AlbumStore for any number of albums, requests, poll loops,    *)
(* failing calls and crashes.                                              *)
(***************************************************************************)
EXTENDS AlbumStore, TLAPS

\* A message is published when the goroutine is done with its photo, dies when
\* it has been received often enough, and only then has pollers.
QueueInv ==
  /\ \A u \in Photos :
       /\ queue[u] # "none" => upload[u] = "done"
       /\ queue[u] = "none" => receives[u] = 0
       /\ queue[u] = "visible" => receives[u] < MaxReceives
  /\ \A w \in Pollers :
       \A u \in working[w] \cup finishing[w] \cup failing[w] : queue[u] # "none"

TypeInv == TypeOK /\ QueueInv

\* The counter of an album has reached all its photos' numbers, which differ.
SeqInv ==
  /\ \A u \in Photos :
       /\ seq[u] <= seqs[AlbumOf[u]]
       /\ upload[u] = "none" => seq[u] = 0
       /\ upload[u] \notin {"none", "rejected"} => seq[u] # 0
       /\ \A v \in after[u] : /\ seq[v] # 0
                              /\ AlbumOf[u] = AlbumOf[v] => seq[v] < seq[u]
  /\ \A u, v \in Photos :
       AlbumOf[u] = AlbumOf[v] /\ seq[u] # 0 /\ u # v => seq[u] # seq[v]

\* A PUT that found its album will not be the one to create it.
CreateInv ==
  /\ \A x \in Puts : put[x] \in {"known", "updated"} => AlbumOf[x] \in albums
  /\ SomebodyCreates

Erased(u) == \E d \in Deletes : Target[d] = u /\ deletion[d] \in {"erased", "204", "500", "halved"}

\* From the upload on, in the row and in the queue, the photo is stored or erased.
StoredInv ==
  \A u \in Photos :
    \/ upload[u] \in {"stored", "marked"}
    \/ queue[u] # "none"
    \/ row[u] = "completed"
    => u \in objects \/ Erased(u)

AlbumInv == TypeInv /\ SeqInv /\ CreateInv /\ StoredInv

-----------------------------------------------------------------------------
(* Types *)

LEMMA RequestTypes ==
  /\ \A x \in Puts : AlbumOf[x] \in Albums
  /\ \A u \in Photos : AlbumOf[u] \in Albums
  /\ \A d \in Deletes : AlbumOf[d] \in Albums /\ Target[d] \in Photos
BY RequestAssumption

LEMMA FailType ==
  ASSUME failures \in 0 .. MaxFailures, Fail \/ UNCHANGED failures
  PROVE  failures' \in 0 .. MaxFailures
BY BoundAssumption DEF Fail

LEMMA TypeInit == Init => TypeInv
BY BoundAssumption DEF Init, TypeInv, TypeOK, QueueInv

LEMMA TypeNext == TypeInv /\ [Next]_vars => TypeInv'
<1> SUFFICES ASSUME TypeInv, [Next]_vars PROVE TypeInv'
  OBVIOUS
<1> USE RequestTypes, FailType
<1>1. ASSUME NEW x \in Puts, CheckAlbum(x) PROVE TypeInv'
  <2>1. TypeOK'
    BY <1>1 DEF CheckAlbum, Found, TypeInv, TypeOK, deleteVars, queueVars
  <2> QED BY <1>1, <2>1 DEF CheckAlbum, TypeInv, QueueInv, queueVars
<1>2. ASSUME NEW x \in Puts, UpsertAlbum(x) PROVE TypeInv'
  <2>1. TypeOK'
    BY <1>2 DEF UpsertAlbum, TypeInv, TypeOK, deleteVars, queueVars
  <2> QED BY <1>2, <2>1 DEF UpsertAlbum, TypeInv, QueueInv, queueVars
<1>17. ASSUME NEW x \in Puts, AnswerPut(x) \/ CrashPut(x) PROVE TypeInv'
  <2>1. TypeOK'
    BY <1>17, BoundAssumption
    DEF AnswerPut, CrashPut, TypeInv, TypeOK, deleteVars, queueVars
  <2> QED BY <1>17, <2>1 DEF AnswerPut, CrashPut, TypeInv, QueueInv, queueVars
<1>3. ASSUME NEW u \in Photos, NumberPhoto(u) PROVE TypeInv'
  <2>1. TypeOK'
    BY <1>3 DEF NumberPhoto, Incr, TypeInv, TypeOK, deleteVars, queueVars
  <2> QED BY <1>3, <2>1 DEF NumberPhoto, TypeInv, TypeOK, QueueInv, queueVars
<1>4. ASSUME NEW u \in Photos, InsertPhoto(u) PROVE TypeInv'
  <2>1. TypeOK'
    BY <1>4 DEF InsertPhoto, TypeInv, TypeOK, deleteVars, queueVars
  <2> QED BY <1>4, <2>1 DEF InsertPhoto, TypeInv, TypeOK, QueueInv, queueVars
<1>5. ASSUME NEW u \in Photos, StorePhoto(u) PROVE TypeInv'
  <2>1. TypeOK'
    BY <1>5 DEF StorePhoto, TypeInv, TypeOK, deleteVars, queueVars
  <2> QED BY <1>5, <2>1 DEF StorePhoto, TypeInv, TypeOK, QueueInv, queueVars
<1>6. ASSUME NEW u \in Photos, MarkFailed(u) PROVE TypeInv'
  <2>1. TypeOK'
    BY <1>6 DEF MarkFailed, SetStatus, Status, TypeInv, TypeOK, deleteVars, queueVars
  <2> QED BY <1>6, <2>1 DEF MarkFailed, TypeInv, TypeOK, QueueInv, queueVars
<1>7. ASSUME NEW u \in Photos, MarkCompleted(u) PROVE TypeInv'
  <2>1. TypeOK'
    BY <1>7 DEF MarkCompleted, SetStatus, Status, TypeInv, TypeOK, deleteVars, queueVars
  <2> QED BY <1>7, <2>1 DEF MarkCompleted, TypeInv, TypeOK, QueueInv, queueVars
<1>8. ASSUME NEW u \in Photos, PublishPhoto(u) PROVE TypeInv'
  <2>1. TypeOK'
    BY <1>8 DEF PublishPhoto, TypeInv, TypeOK, deleteVars, queueVars
  <2>2. queue[u] = "none" /\ receives[u] = 0
    BY <1>8 DEF PublishPhoto, TypeInv, QueueInv
  <2> QED BY <1>8, <2>1, <2>2, BoundAssumption
          DEF PublishPhoto, TypeInv, TypeOK, QueueInv, queueVars
<1>9. ASSUME NEW u \in Photos, CrashUpload(u) PROVE TypeInv'
  <2>1. TypeOK'
    BY <1>9, BoundAssumption DEF CrashUpload, TypeInv, TypeOK, deleteVars, queueVars
  <2> QED BY <1>9, <2>1 DEF CrashUpload, TypeInv, TypeOK, QueueInv, queueVars
<1>10. ASSUME NEW u \in Photos, VisibilityEnds(u) PROVE TypeInv'
  <2>1. TypeOK'
    BY <1>10 DEF VisibilityEnds, TypeInv, TypeOK, apiVars, deleteVars, queueVars
  <2>2. receives[u] \in 0 .. MaxReceives
    BY DEF TypeInv, TypeOK
  <2> QED BY <1>10, <2>1, <2>2, BoundAssumption
          DEF VisibilityEnds, WornOut, TypeInv, TypeOK, QueueInv, apiVars, queueVars
<1>11. ASSUME NEW d \in Deletes, LookupPhoto(d) \/ DeleteObject(d) \/ DeleteRow(d)
       PROVE  TypeInv'
  <2>1. UNCHANGED <<apiVars, queueVars, queue, crashes>> /\ (Fail \/ UNCHANGED failures)
    BY <1>11 DEF LookupPhoto, DeleteObject, DeleteRow
  <2>2. /\ row' \in [Photos -> {"none", "processing", "completed", "failed"}]
        /\ objects' \subseteq Photos
        /\ deletion' \in [Deletes -> {"none", "found", "absent", "erased", "204", "500",
                                     "dropped", "halved"}]
    BY <1>11 DEF LookupPhoto, DeleteObject, DeleteRow, TypeInv, TypeOK
  <2> QED BY <2>1, <2>2 DEF TypeInv, TypeOK, QueueInv, apiVars, queueVars
<1>18. ASSUME NEW d \in Deletes, CrashDelete(d) PROVE TypeInv'
  <2>1. TypeOK'
    BY <1>18, BoundAssumption DEF CrashDelete, TypeInv, TypeOK, apiVars, queueVars
  <2> QED BY <1>18, <2>1 DEF CrashDelete, TypeInv, QueueInv, apiVars, queueVars
<1>12. ASSUME NEW w \in Pollers, Receive(w) PROVE TypeInv'
  <2>1. PICK ms \in SUBSET {u \in Photos : queue[u] = "visible"} :
          /\ working' = [working EXCEPT ![w] = ms]
          /\ queue' = [u \in Photos |-> IF u \in ms THEN "inflight" ELSE queue[u]]
          /\ receives' = [u \in Photos |-> IF u \in ms THEN receives[u] + 1 ELSE receives[u]]
    BY <1>12 DEF Receive
  <2>2. UNCHANGED <<apiVars, deleteVars, row, objects, finishing, failing, failures, crashes>>
    BY <1>12 DEF Receive
  <2>3. \A u \in ms : receives[u] < MaxReceives
    BY DEF TypeInv, QueueInv
  <2>4. TypeOK'
    BY <2>1, <2>2, <2>3, BoundAssumption DEF TypeInv, TypeOK, apiVars, deleteVars
  <2>5. QueueInv'
    BY <2>1, <2>2 DEF TypeInv, TypeOK, QueueInv, apiVars
  <2> QED BY <2>4, <2>5 DEF TypeInv
<1>13. ASSUME NEW w \in Pollers, CrashWorker(w) PROVE TypeInv'
  BY <1>13, BoundAssumption DEF CrashWorker, TypeInv, TypeOK, QueueInv, apiVars, deleteVars
<1>14. ASSUME NEW w \in Pollers, NEW u \in Photos, WorkerMark(w, u) PROVE TypeInv'
  <2>1. TypeOK'
    BY <1>14 DEF WorkerMark, SetStatus, Status, TypeInv, TypeOK, apiVars, deleteVars
  <2> QED BY <1>14, <2>1 DEF WorkerMark, TypeInv, TypeOK, QueueInv, apiVars
<1>19. ASSUME NEW w \in Pollers, NEW u \in Photos, WorkerFail(w, u) PROVE TypeInv'
  <2>1. TypeOK'
    BY <1>19 DEF WorkerFail, SetStatus, Status, TypeInv, TypeOK, apiVars, deleteVars
  <2> QED BY <1>19, <2>1 DEF WorkerFail, TypeInv, TypeOK, QueueInv, apiVars
<1>15. ASSUME NEW w \in Pollers, NEW u \in Photos, WorkerDelete(w, u) PROVE TypeInv'
  <2>1. TypeOK'
    BY <1>15 DEF WorkerDelete, TypeInv, TypeOK, apiVars, deleteVars
  <2>2. queue[u] # "none"
    BY <1>15 DEF WorkerDelete, TypeInv, QueueInv
  <2> QED BY <1>15, <2>1, <2>2 DEF WorkerDelete, TypeInv, TypeOK, QueueInv, apiVars
<1>16. ASSUME UNCHANGED vars PROVE TypeInv'
  BY <1>16 DEF vars, apiVars, deleteVars, queueVars, TypeInv, TypeOK, QueueInv
<1> QED BY <1>1, <1>2, <1>3, <1>4, <1>5, <1>6, <1>7, <1>8, <1>9, <1>10, <1>11, <1>12,
           <1>13, <1>14, <1>15, <1>16, <1>17, <1>18, <1>19 DEF Next

\* Every variable keeps its type; a message is not received more often than the
\* redrive policy allows.
THEOREM TypeCorrect == Spec => []TypeOK
<1>1. TypeInv => TypeOK
  BY DEF TypeInv
<1> QED BY <1>1, TypeInit, TypeNext, PTL DEF Spec

-----------------------------------------------------------------------------
(* The numbers of photos *)

\* Only NumberPhoto gives numbers, and only to an upload that has none.
LEMMA NumberStep ==
  ASSUME TypeInv, [Next]_vars
  PROVE  \/ \E u \in Photos : NumberPhoto(u)
         \/ /\ UNCHANGED <<seq, seqs, after>>
            /\ \A u \in Photos :
                 \/ upload'[u] = upload[u]
                 \/ upload[u] \notin {"none", "rejected"} /\ upload'[u] # "none"
<1> USE DEF TypeInv, TypeOK
<1>1. ASSUME NEW x \in Puts,
             CheckAlbum(x) \/ UpsertAlbum(x) \/ AnswerPut(x) \/ CrashPut(x)
      PROVE  UNCHANGED <<seq, seqs, after, upload>>
  BY <1>1 DEF CheckAlbum, UpsertAlbum, AnswerPut, CrashPut
<1>2. ASSUME NEW u \in Photos,
             \/ InsertPhoto(u) \/ StorePhoto(u) \/ MarkFailed(u)
             \/ MarkCompleted(u) \/ PublishPhoto(u) \/ CrashUpload(u)
      PROVE  /\ UNCHANGED <<seq, seqs, after>>
             /\ \A v \in Photos :
                  \/ upload'[v] = upload[v]
                  \/ upload[v] \notin {"none", "rejected"} /\ upload'[v] # "none"
  BY <1>2 DEF InsertPhoto, StorePhoto, MarkFailed, MarkCompleted, PublishPhoto, CrashUpload
<1>3. ASSUME \/ \E u \in Photos : VisibilityEnds(u)
             \/ \E d \in Deletes :
                  LookupPhoto(d) \/ DeleteObject(d) \/ DeleteRow(d) \/ CrashDelete(d)
             \/ \E w \in Pollers : Receive(w) \/ CrashWorker(w)
             \/ \E w \in Pollers, u \in Photos :
                  WorkerMark(w, u) \/ WorkerFail(w, u) \/ WorkerDelete(w, u)
             \/ UNCHANGED vars
      PROVE  UNCHANGED <<seq, seqs, after, upload>>
  BY <1>3 DEF VisibilityEnds, LookupPhoto, DeleteObject, DeleteRow, CrashDelete, Receive,
              CrashWorker, WorkerMark, WorkerFail, WorkerDelete, vars, apiVars
<1> QED BY <1>1, <1>2, <1>3 DEF Next

LEMMA SeqNext == TypeInv /\ SeqInv /\ [Next]_vars => SeqInv'
<1> SUFFICES ASSUME TypeInv, SeqInv, [Next]_vars PROVE SeqInv'
  OBVIOUS
<1>1. CASE /\ UNCHANGED <<seq, seqs, after>>
           /\ \A u \in Photos :
                \/ upload'[u] = upload[u]
                \/ upload[u] \notin {"none", "rejected"} /\ upload'[u] # "none"
  BY <1>1 DEF SeqInv, TypeInv, TypeOK
<1>2. ASSUME NEW u \in Photos, NumberPhoto(u) PROVE SeqInv'
  <2> DEFINE a == AlbumOf[u]
  <2>1. /\ a \in Albums /\ seqs \in [Albums -> Nat] /\ seq \in [Photos -> Nat]
        /\ upload[u] = "none" /\ seq[u] = 0
        /\ \A v \in Photos : AlbumOf[v] \in Albums /\ after[v] \subseteq Photos
    BY <1>2, RequestTypes DEF NumberPhoto, SeqInv, TypeInv, TypeOK
  <2>2. CASE upload' = [upload EXCEPT ![u] = "rejected"] /\ UNCHANGED <<seq, after>>
    <3>1. \A v \in Photos : seqs'[AlbumOf[v]] >= seqs[AlbumOf[v]]
      BY <1>2, <2>1, <2>2 DEF NumberPhoto
    <3>2. seqs' \in [Albums -> Nat]
      BY <1>2, TypeNext DEF Next, TypeInv, TypeOK
    <3>3. \A v \in Photos : seq[v] <= seqs'[AlbumOf[v]]
      BY <2>1, <3>1, <3>2 DEF SeqInv
    <3> QED BY <2>1, <2>2, <3>3 DEF SeqInv, TypeInv, TypeOK
  <2>3. CASE /\ seq' = [seq EXCEPT ![u] = seqs[a] + 1]
             /\ seqs' = [seqs EXCEPT ![a] = @ + 1]
             /\ upload' = [upload EXCEPT ![u] = "numbered"]
             /\ after' = [after EXCEPT ![u] = {v \in Photos :
                            upload[v] \notin {"none", "numbered", "rejected"}}]
    <3>1. \A v \in Photos : /\ seq[v] <= seqs[AlbumOf[v]]
                            /\ AlbumOf[v] = a => seq[v] < seqs[a] + 1
      BY <2>1 DEF SeqInv
    <3>2. \A v \in Photos : seq'[v] <= seqs'[AlbumOf[v]]
      BY <2>1, <2>3, <3>1
    <3>3. \A v \in Photos : /\ upload'[v] = "none" => seq'[v] = 0
                            /\ upload'[v] \notin {"none", "rejected"} => seq'[v] # 0
      BY <2>1, <2>3 DEF SeqInv, TypeInv, TypeOK
    <3>4. \A v, x \in Photos :
            AlbumOf[v] = AlbumOf[x] /\ seq'[v] # 0 /\ v # x => seq'[v] # seq'[x]
      BY <2>1, <2>3, <3>1 DEF SeqInv
    <3>5. ASSUME NEW x \in Photos, NEW v \in after'[x]
          PROVE  /\ seq'[v] # 0
                 /\ AlbumOf[x] = AlbumOf[v] => seq'[v] < seq'[x]
      <4>1. CASE x = u
        <5>1. v \in Photos /\ v # u /\ seq[v] # 0
          BY <2>1, <2>3, <4>1 DEF SeqInv, TypeInv, TypeOK
        <5> QED BY <2>1, <2>3, <3>1, <4>1, <5>1
      <4>2. CASE x # u
        <5>1. v \in after[x] /\ v \in Photos
          BY <2>1, <2>3, <4>2 DEF TypeInv, TypeOK
        <5>2. seq[v] # 0 /\ v # u /\ (AlbumOf[x] = AlbumOf[v] => seq[v] < seq[x])
          BY <2>1, <5>1 DEF SeqInv
        <5> QED BY <2>1, <2>3, <4>2, <5>1, <5>2
      <4> QED BY <4>1, <4>2
    <3> QED BY <3>2, <3>3, <3>4, <3>5 DEF SeqInv
  <2> QED BY <1>2, <2>2, <2>3 DEF NumberPhoto, Incr
<1> QED BY <1>1, <1>2, NumberStep

\* No two photos of an album get one number, and numbers follow real time.
THEOREM NumbersOrderPhotos == Spec => []SeqOrdersPhotos
<1>1. Init => SeqInv
  BY RequestTypes DEF Init, SeqInv
<1>2. TypeInv /\ SeqInv => SeqOrdersPhotos
  BY DEF TypeInv, TypeOK, SeqInv, SeqOrdersPhotos
<1> QED BY <1>1, <1>2, TypeInit, TypeNext, SeqNext, PTL DEF Spec

-----------------------------------------------------------------------------
(* Who creates an album *)

LEMMA CreateNext == TypeInv /\ CreateInv /\ [Next]_vars => CreateInv'
<1> SUFFICES ASSUME TypeInv, CreateInv, [Next]_vars PROVE CreateInv'
  OBVIOUS
<1> USE DEF TypeInv, TypeOK, CreateInv, SomebodyCreates
<1>1. ASSUME NEW x \in Puts, CheckAlbum(x) PROVE CreateInv'
  <2>1. /\ UNCHANGED <<albums, silent>>
        /\ \A y \in Puts : put[y] \in {"created", "201"} => put'[y] = put[y]
    BY <1>1 DEF CheckAlbum
  <2>2. \A y \in Puts : put'[y] \in {"known", "updated"} =>
          put[y] \in {"known", "updated"} \/ AlbumOf[y] \in albums
    BY <1>1 DEF CheckAlbum, Found
  <2> QED BY <2>1, <2>2
<1>2. ASSUME NEW x \in Puts, UpsertAlbum(x) PROVE CreateInv'
  <2>1. /\ albums \subseteq albums' /\ albums' \subseteq albums \cup {AlbumOf[x]}
        /\ silent \subseteq silent'
        /\ put[x] \in {"new", "known"} /\ put'[x] \in {"created", "updated", "500"}
        /\ put'[x] = "updated" => put[x] = "known"
        /\ \A y \in Puts \ {x} : put'[y] = put[y]
    BY <1>2 DEF UpsertAlbum
  <2>2. ASSUME NEW a \in albums'
        PROVE  \E y \in Puts :
                 AlbumOf[y] = a /\ (put'[y] \in {"created", "201"} \/ y \in silent')
    <3>1. CASE a \in albums
      <4>1. PICK y \in Puts : AlbumOf[y] = a /\ (put[y] \in {"created", "201"} \/ y \in silent)
        BY <3>1
      <4> QED BY <2>1, <4>1
    <3>2. CASE a \notin albums
      <4>1. a = AlbumOf[x] /\ put[x] = "new"
        BY <2>1, <3>2
      <4>2. put'[x] = "created" \/ x \in silent'
        BY <1>2, <3>2, <4>1 DEF UpsertAlbum
      <4> QED BY <4>1, <4>2
    <3> QED BY <3>1, <3>2
  <2> QED BY <2>1, <2>2
<1>5. ASSUME NEW x \in Puts, AnswerPut(x) \/ CrashPut(x) PROVE CreateInv'
  <2>1. /\ albums' = albums /\ silent \subseteq silent'
        /\ put[x] \in {"new", "known", "created", "updated"}
        /\ put'[x] \in {"200", "201", "lost"}
        /\ put[x] = "created" => put'[x] = "201" \/ x \in silent'
        /\ \A y \in Puts \ {x} : put'[y] = put[y]
    BY <1>5 DEF AnswerPut, CrashPut
  <2>2. ASSUME NEW y \in Puts, put[y] \in {"created", "201"} \/ y \in silent
        PROVE  put'[y] \in {"created", "201"} \/ y \in silent'
    BY <2>1, <2>2
  <2> QED BY <2>1, <2>2
<1>3. ASSUME \A x \in Puts : ~CheckAlbum(x) /\ ~UpsertAlbum(x) /\ ~AnswerPut(x) /\ ~CrashPut(x)
      PROVE  UNCHANGED <<albums, put, silent>>
  BY <1>3 DEF Next, NumberPhoto, InsertPhoto, StorePhoto, MarkFailed, MarkCompleted,
              PublishPhoto, CrashUpload, VisibilityEnds, LookupPhoto, DeleteObject,
              DeleteRow, CrashDelete, Receive, CrashWorker, WorkerMark, WorkerFail,
              WorkerDelete, vars, apiVars
<1>4. ASSUME UNCHANGED <<albums, put, silent>> PROVE CreateInv'
  BY <1>4
<1> QED BY <1>1, <1>2, <1>3, <1>4, <1>5

\* For every album there is, a PUT has been or is being answered 201, or the PUT
\* that made it could not say so: after the upsert it was answered 500 or its
\* task stopped.
THEOREM SomePutCreates == Spec => []SomebodyCreates
<1>1. Init => CreateInv
  BY DEF Init, CreateInv, SomebodyCreates
<1>2. CreateInv => SomebodyCreates
  BY DEF CreateInv
<1> QED BY <1>1, <1>2, TypeInit, TypeNext, CreateNext, PTL DEF Spec

-----------------------------------------------------------------------------
(* Completed photos are stored, deleted ones stay deleted *)

\* An object goes only as a DELETE of its photo erases it.
LEMMA ObjectsStay ==
  ASSUME TypeInv, [Next]_vars, NEW u \in Photos, u \in objects \/ Erased(u)
  PROVE  (u \in objects \/ Erased(u))'
<1> USE DEF TypeInv, TypeOK, Erased
<1>1. ASSUME NEW d \in Deletes, LookupPhoto(d) \/ DeleteRow(d) PROVE (u \in objects \/ Erased(u))'
  <2>1. objects' = objects /\ deletion[d] \in {"none", "erased"}
    BY <1>1 DEF LookupPhoto, DeleteRow
  <2>2. deletion[d] = "erased" => deletion'[d] \in {"204", "500"}
    BY <1>1 DEF LookupPhoto, DeleteRow
  <2>3. \A e \in Deletes \ {d} : deletion'[e] = deletion[e]
    BY <1>1 DEF LookupPhoto, DeleteRow
  <2> QED BY <2>1, <2>2, <2>3
<1>2. ASSUME NEW d \in Deletes, DeleteObject(d) PROVE (u \in objects \/ Erased(u))'
  <2>1. /\ objects \ {Target[d]} \subseteq objects' /\ deletion[d] = "found"
        /\ deletion' = [deletion EXCEPT ![d] = "erased"]
    BY <1>2 DEF DeleteObject
  <2> QED BY <2>1
<1>3. ASSUME NEW d \in Deletes, CrashDelete(d) PROVE (u \in objects \/ Erased(u))'
  <2>1. /\ objects' = objects
        /\ deletion[d] = "found" \/ (deletion[d] = "erased" /\ deletion'[d] = "halved")
        /\ \A e \in Deletes \ {d} : deletion'[e] = deletion[e]
    BY <1>3 DEF CrashDelete
  <2> QED BY <2>1
<1>4. ASSUME \A d \in Deletes :
               ~LookupPhoto(d) /\ ~DeleteObject(d) /\ ~DeleteRow(d) /\ ~CrashDelete(d)
      PROVE  objects \subseteq objects' /\ deletion' = deletion
  BY <1>4 DEF Next, CheckAlbum, UpsertAlbum, AnswerPut, CrashPut, NumberPhoto, InsertPhoto,
              StorePhoto, MarkFailed, MarkCompleted, PublishPhoto, CrashUpload,
              VisibilityEnds, Receive, CrashWorker, WorkerMark, WorkerFail, WorkerDelete,
              vars, deleteVars
<1>5. ASSUME objects \subseteq objects' /\ deletion' = deletion
      PROVE  (u \in objects \/ Erased(u))'
  BY <1>5
<1> QED BY <1>1, <1>2, <1>3, <1>4, <1>5

LEMMA StoredNext == TypeInv /\ StoredInv /\ [Next]_vars => StoredInv'
<1> SUFFICES ASSUME TypeInv, StoredInv, [Next]_vars, NEW u \in Photos,
                    \/ upload'[u] \in {"stored", "marked"}
                    \/ queue'[u] # "none"
                    \/ row'[u] = "completed"
             PROVE  (u \in objects \/ Erased(u))'
  BY DEF StoredInv
<1>1. CASE \/ upload[u] \in {"stored", "marked"}
           \/ queue[u] # "none"
           \/ row[u] = "completed"
  BY <1>1, ObjectsStay DEF StoredInv
<1>2. CASE ~ \/ upload[u] \in {"stored", "marked"}
             \/ queue[u] # "none"
             \/ row[u] = "completed"
  <2> USE DEF TypeInv, TypeOK
  <2>1. CASE StorePhoto(u)
    BY <1>2, <2>1 DEF StorePhoto, queueVars
  <2>2. ASSUME NEW v \in Photos, NumberPhoto(v) \/ InsertPhoto(v) \/ (v # u /\ StorePhoto(v))
        PROVE  FALSE
    BY <1>2, <2>2 DEF NumberPhoto, InsertPhoto, StorePhoto
  <2>3. ASSUME NEW v \in Photos, MarkFailed(v) \/ MarkCompleted(v) \/ PublishPhoto(v)
        PROVE  FALSE
    BY <1>2, <2>3 DEF MarkFailed, MarkCompleted, PublishPhoto, SetStatus, Status
  <2>4. ASSUME NEW v \in Photos, CrashUpload(v) \/ VisibilityEnds(v) PROVE FALSE
    BY <1>2, <2>4 DEF CrashUpload, VisibilityEnds, apiVars
  <2>5. ASSUME NEW d \in Deletes,
               LookupPhoto(d) \/ DeleteObject(d) \/ DeleteRow(d) \/ CrashDelete(d)
        PROVE  FALSE
    BY <1>2, <2>5 DEF LookupPhoto, DeleteObject, DeleteRow, CrashDelete, apiVars
  <2>6. ASSUME NEW w \in Pollers, Receive(w) \/ CrashWorker(w) PROVE FALSE
    BY <1>2, <2>6 DEF Receive, CrashWorker, apiVars
  <2>7. ASSUME NEW w \in Pollers, NEW v \in Photos,
               WorkerMark(w, v) \/ WorkerFail(w, v) \/ WorkerDelete(w, v)
        PROVE  FALSE
    <3>1. queue[v] # "none" /\ v # u
      BY <1>2, <2>7 DEF WorkerMark, WorkerFail, WorkerDelete, QueueInv
    <3> QED BY <1>2, <2>7, <3>1
            DEF WorkerMark, WorkerFail, WorkerDelete, SetStatus, Status, apiVars
  <2>8. ASSUME NEW x \in Puts,
               CheckAlbum(x) \/ UpsertAlbum(x) \/ AnswerPut(x) \/ CrashPut(x)
        PROVE  FALSE
    BY <1>2, <2>8 DEF CheckAlbum, UpsertAlbum, AnswerPut, CrashPut
  <2>9. ASSUME UNCHANGED vars PROVE FALSE
    BY <1>2, <2>9 DEF vars, apiVars
  <2> QED BY <2>1, <2>2, <2>3, <2>4, <2>5, <2>6, <2>7, <2>8, <2>9 DEF Next
<1> QED BY <1>1, <1>2

\* A photo shown as completed has its object, until a DELETE erases it.
THEOREM CompletedPhotosAreStored == Spec => []CompletedIsStored
<1>1. Init => StoredInv
  BY DEF Init, StoredInv
<1>2. StoredInv => CompletedIsStored
  BY DEF StoredInv, CompletedIsStored, Erased
<1> QED BY <1>1, <1>2, TypeInit, TypeNext, StoredNext, PTL DEF Spec

\* No late goroutine or message gives a deleted photo a row again.
THEOREM DeletedPhotosStayDeleted == Spec => DeletedStaysDeleted
<1>1. TypeInv /\ [Next]_vars =>
        [\A u \in Photos : row[u] = "none" /\ upload[u] \notin {"none", "numbered"}
           => row'[u] = "none"]_vars
  <2> SUFFICES ASSUME TypeInv, Next, NEW u \in Photos,
                      row[u] = "none", upload[u] \notin {"none", "numbered"}
               PROVE  row'[u] = "none"
    BY DEF vars, apiVars
  <2> USE DEF TypeInv, TypeOK
  <2>1. ASSUME NEW v \in Photos, InsertPhoto(v) PROVE row'[u] = "none"
    BY <2>1 DEF InsertPhoto
  <2>2. ASSUME NEW v \in Photos, MarkFailed(v) \/ MarkCompleted(v) PROVE row'[u] = "none"
    BY <2>2 DEF MarkFailed, MarkCompleted, SetStatus, Status
  <2>3. ASSUME NEW w \in Pollers, NEW v \in Photos, WorkerMark(w, v) \/ WorkerFail(w, v)
        PROVE  row'[u] = "none"
    BY <2>3 DEF WorkerMark, WorkerFail, SetStatus, Status
  <2>4. ASSUME NEW d \in Deletes, DeleteRow(d) PROVE row'[u] = "none"
    BY <2>4, RequestTypes DEF DeleteRow
  <2>5. ASSUME /\ \A v \in Photos : ~InsertPhoto(v) /\ ~MarkFailed(v) /\ ~MarkCompleted(v)
               /\ \A w \in Pollers, v \in Photos : ~WorkerMark(w, v) /\ ~WorkerFail(w, v)
               /\ \A d \in Deletes : ~DeleteRow(d)
        PROVE  row' = row
    BY <2>5 DEF Next, CheckAlbum, UpsertAlbum, AnswerPut, CrashPut, NumberPhoto,
                StorePhoto, PublishPhoto, CrashUpload, VisibilityEnds, LookupPhoto,
                DeleteObject, CrashDelete, Receive, CrashWorker, WorkerDelete
  <2> QED BY <2>1, <2>2, <2>3, <2>4, <2>5
<1> QED BY <1>1, TypeInit, TypeNext, PTL DEF Spec, DeletedStaysDeleted
=============================================================================
