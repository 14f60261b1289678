------------------------------ MODULE WordCount ------------------------------
(***************************************************************************)
(* The word count of CS6650_hw4: a splitter, mappers and a reducer, which  *)
(* pass their data on through one bucket under names that all jobs share   *)
(* (input.txt, chunks/chunk_i, mapped/chunk_i and final/word_counts).      *)
(*                                                                         *)
(* The client is a script.  It calls the splitter, a mapper for one chunk  *)
(* after the other and the reducer, once each, and downloads the counts.   *)
(* It looks at no answer: a call that is answered 500, or whose connection *)
(* is lost while its handler goes on, only takes it to the next call.      *)
(*                                                                         *)
(* A text is a sequence of letters, other word characters (digits, the     *)
(* underscore) and separators.  An object is the set of its one content,   *)
(* empty when the bucket has no such object.                               *)
(***************************************************************************)
EXTENDS Integers, Sequences, FiniteSets

CONSTANTS Letters, OtherWordChars, Separators,
          Texts,      \* Texts[j]: the texts job j may be about
          Chunks,     \* Chunks[j]: the number of chunks job j asks for
          MaxMishaps  \* bound on calls that fail and connections that are lost

Characters == Letters \cup OtherWordChars \cup Separators

Jobs == DOMAIN Chunks

ASSUME ChunksAssumption == Chunks \in [Jobs -> Nat \ {0}]
ASSUME TextsAssumption == \A j \in Jobs : Texts[j] \subseteq Seq(Characters)

Numbers == UNION {0 .. Chunks[j] - 1 : j \in Jobs}

VARIABLES
  text,     \* text[j]: what job j is about
  input,    \* the object input.txt
  chunk,    \* chunk[i]: the object chunks/chunk_i
  mapped,   \* mapped[i]: the object mapped/chunk_i
  final,    \* the object final/word_counts
  job,      \* job[j]: the step its script is at, whether all has gone well so far,
            \* and the object it has downloaded
  calls,    \* the calls whose handlers are at work
  mishaps   \* number of calls that failed and connections that were lost

objects == <<input, chunk, mapped, final>>

wordVars == <<text, objects, job, calls, mishaps>>

-----------------------------------------------------------------------------
(* Words *)

\* The matches of \b[a-z]+\b: runs of letters with no word character beside.
Matches(t) ==
  {m \in (DOMAIN t) \X (DOMAIN t) :
     /\ m[1] <= m[2]
     /\ \A i \in m[1] .. m[2] : t[i] \in Letters
     /\ \A i \in {m[1] - 1, m[2] + 1} \cap DOMAIN t : t[i] \notin Letters \cup OtherWordChars}

CountWords(t) ==
  LET Word(m) == SubSeq(t, m[1], m[2]) IN
    [w \in {Word(m) : m \in Matches(t)} |-> Cardinality({m \in Matches(t) : Word(m) = w})]

Sum(f, g) ==
  LET At(h, w) == IF w \in DOMAIN h THEN h[w] ELSE 0 IN
    [w \in DOMAIN f \cup DOMAIN g |-> At(f, w) + At(g, w)]

NoWords == CountWords(<<>>)

ChunkSize_Floor(t, n) == Len(t) \div n

ChunkSize(t, n) == (Len(t) + n - 1) \div n

ChunkOf(t, n, i) ==
  LET size == ChunkSize(t, n)  end == (i + 1) * size IN
    SubSeq(t, i * size + 1, IF end < Len(t) THEN end ELSE Len(t))

-----------------------------------------------------------------------------
(* The script.  Step 1 is the call of the splitter, steps 2 to n + 1 those *)
(* of the mappers, n + 2 the reducer's, n + 3 the download; n + 4 is the   *)
(* end and 0 the time before.                                              *)

DownloadStep(j) == Chunks[j] + 3

UnderWay(j) == job[j].step \in 1 .. DownloadStep(j)

HasEnded(j) == job[j].step = DownloadStep(j) + 1

Mishap == mishaps < MaxMishaps /\ mishaps' = mishaps + 1

\* The call the script makes at step k, if it is one.
CallOf(j, k) ==
  IF k < DownloadStep(j)
  THEN {[job |-> j, step |-> k, next |-> 0, text |-> {}, words |-> NoWords]}
  ELSE {}

WordInit ==
  /\ text = [j \in Jobs |-> <<>>]
  /\ input = {}
  /\ chunk = [i \in Numbers |-> {}]
  /\ mapped = [i \in Numbers |-> {}]
  /\ final = {}
  /\ job = [j \in Jobs |-> [step |-> 0, well |-> FALSE, words |-> {}]]
  /\ calls = {}
  /\ mishaps = 0

\* Somebody puts a text and runs the script, no other being under way.  Handlers
\* of an earlier one may still be at work: that is not well.
Begin(j) ==
  /\ job[j].step = 0
  /\ \A x \in Jobs : ~UnderWay(x)
  /\ \E t \in Texts[j] : text' = [text EXCEPT ![j] = t] /\ input' = {t}
  /\ job' = [job EXCEPT ![j].step = 1, ![j].well = (calls = {})]
  /\ calls' = calls \cup CallOf(j, 1)
  /\ UNCHANGED <<chunk, mapped, final, mishaps>>

Download(j) ==
  /\ job[j].step = DownloadStep(j)
  /\ \/ /\ job' = [job EXCEPT ![j].step = @ + 1, ![j].words = final,
                               ![j].well = @ /\ final # {}]
        /\ UNCHANGED mishaps
     \/ /\ job' = [job EXCEPT ![j].step = @ + 1, ![j].well = FALSE]
        /\ Mishap
  /\ UNCHANGED <<text, objects, calls>>

WaitsFor(h) == job[h.job].step = h.step

\* The script, if it waits for h, goes to its next step; others are still at work.
GoesOn(h, well, others) ==
  IF WaitsFor(h)
  THEN /\ job' = [job EXCEPT ![h.job].step = @ + 1, ![h.job].well = @ /\ well]
       /\ calls' = others \cup CallOf(h.job, h.step + 1)
  ELSE calls' = others /\ UNCHANGED job

-----------------------------------------------------------------------------
(* The handlers.  h.next counts what h has put, or added up, so far.       *)

Splits(h)  == h.step = 1
Maps(h)    == h.step \in 2 .. Chunks[h.job] + 1
Reduces(h) == h.step = Chunks[h.job] + 2

Number(h) == h.step - 2

Work(h) == IF Splits(h) THEN Chunks[h.job] ELSE IF Maps(h) THEN 1 ELSE Chunks[h.job] + 1

Becomes(h, next, txt, words) ==
  /\ calls' = (calls \ {h}) \cup
                {[job |-> h.job, step |-> h.step, next |-> next, text |-> txt,
                  words |-> words]}
  /\ UNCHANGED <<text, input, job, mishaps>>

\* split_file gets the input, map_words its chunk.
ReadText(h) ==
  /\ Splits(h) \/ Maps(h)
  /\ h.text = {}
  /\ \E t \in IF Splits(h) THEN input ELSE chunk[Number(h)] : Becomes(h, 0, {t}, h.words)
  /\ UNCHANGED <<chunk, mapped, final>>

\* split_file puts its next chunk.
PutChunk(h) ==
  /\ Splits(h)
  /\ h.next < Chunks[h.job]
  /\ \E t \in h.text :
       chunk' = [chunk EXCEPT ![h.next] = {ChunkOf(t, Chunks[h.job], h.next)}]
  /\ Becomes(h, h.next + 1, h.text, h.words)
  /\ UNCHANGED <<mapped, final>>

\* map_words puts the counts.
PutCounts(h) ==
  /\ Maps(h)
  /\ h.next = 0
  /\ \E t \in h.text : mapped' = [mapped EXCEPT ![Number(h)] = {CountWords(t)}]
  /\ Becomes(h, 1, h.text, h.words)
  /\ UNCHANGED <<chunk, final>>

\* reduce_results gets the next result and adds it up, ...
AddCounts(h) ==
  /\ Reduces(h)
  /\ h.next < Chunks[h.job]
  /\ \E counts \in mapped[h.next] : Becomes(h, h.next + 1, h.text, Sum(h.words, counts))
  /\ UNCHANGED <<chunk, mapped, final>>

\* ... and puts the sums.
PutSums(h) ==
  /\ Reduces(h)
  /\ h.next = Chunks[h.job]
  /\ final' = {h.words}
  /\ Becomes(h, h.next + 1, h.text, h.words)
  /\ UNCHANGED <<chunk, mapped>>

Succeeds(h) ==
  /\ h.next = Work(h)
  /\ GoesOn(h, TRUE, calls \ {h})
  /\ UNCHANGED <<text, objects, mishaps>>

\* There is no object where h looks for its next one.
Misses(h) ==
  \/ Maps(h) /\ chunk[Number(h)] = {}
  \/ Reduces(h) /\ h.next < Chunks[h.job] /\ mapped[h.next] = {}

\* A get or put fails, perhaps after its effect, and the handler answers 500.
FailsOut(h) ==
  /\ IF Misses(h) THEN UNCHANGED mishaps ELSE Mishap
  /\ GoesOn(h, FALSE, calls \ {h})
  /\ UNCHANGED <<text, objects>>

\* The connection is lost.
ConnectionLost(h) ==
  /\ WaitsFor(h)
  /\ Mishap
  /\ GoesOn(h, FALSE, calls)
  /\ UNCHANGED <<text, objects>>

WordNext ==
  \/ \E j \in Jobs : Begin(j) \/ Download(j)
  \/ \E h \in calls : \/ ReadText(h) \/ PutChunk(h) \/ PutCounts(h)
                      \/ AddCounts(h) \/ PutSums(h)
                      \/ Succeeds(h) \/ FailsOut(h) \/ ConnectionLost(h)

WordSpec == WordInit /\ [][WordNext]_wordVars

-----------------------------------------------------------------------------
\* A chunk border cuts a word if it has word characters on both sides.
CutsNoWord(t, n) ==
  LET size == ChunkSize(t, n) IN
    \A b \in {i * size : i \in 1 .. n - 1} :
      b \in 1 .. Len(t) - 1 =>
        ~ {t[b], t[b + 1]} \subseteq Letters \cup OtherWordChars

\* A job whose calls were all answered with success, and that began when no handler
\* of an earlier one was still at work, downloads exactly the words of its text, if
\* no chunk border cuts a word: no character is lost or counted twice at any length,
\* and nothing that earlier jobs left counts, be it that they had more chunks, failed
\* half-way or went on from a failure with other jobs' objects.
CountsAreRight ==
  \A j \in Jobs :
    HasEnded(j) /\ job[j].well /\ CutsNoWord(text[j], Chunks[j]) =>
      job[j].words = {CountWords(text[j])}
=============================================================================
