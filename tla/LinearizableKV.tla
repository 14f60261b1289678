--------------------------- MODULE LinearizableKV ---------------------------
(***************************************************************************)
(* What the leader of the key-value store promises its clients, in every   *)
(* replication mode: one log of writes per key, and reads that return an   *)
(* entry of the log no older than any request answered before they began.  *)
(* A write takes its place in the log when it is handled, whatever the     *)
(* client is told afterwards: after an error it may well be visible.       *)
(***************************************************************************)
EXTENDS Integers, Sequences

CONSTANTS Keys, Writes, Reads, KeyOf, NoWrite

VARIABLES log,     \* log[k]: the writes of key k, in order
          status,  \* status[x]: what the client of request x has been told
          before,  \* before[r]: the requests answered before read r began
          result   \* result[r]: the entry read r returned

vars == <<log, status, before, result>>

Init ==
  /\ log = [k \in Keys |-> <<>>]
  /\ status = [x \in Writes \cup Reads |-> "none"]
  /\ before = [r \in Reads |-> {}]
  /\ result = [r \in Reads |-> [value |-> NoWrite, version |-> 0]]

Write(w) ==
  /\ status[w] = "none"
  /\ log' = [log EXCEPT ![KeyOf[w]] = Append(@, w)]
  /\ \E told \in {"pending", "created"} : status' = [status EXCEPT ![w] = told]
  /\ UNCHANGED <<before, result>>

AnswerWrite(w) ==
  /\ status[w] = "pending"
  /\ \E told \in {"created", "error"} : status' = [status EXCEPT ![w] = told]
  /\ UNCHANGED <<log, before, result>>

BeginRead(r) ==
  /\ status[r] = "none"
  /\ status' = [status EXCEPT ![r] = "collecting"]
  /\ before' = [before EXCEPT ![r] =
                  {x \in Writes \cup Reads : status[x] \in {"created", "done"}}]
  /\ UNCHANGED <<log, result>>

\* Position i of the log is recent enough for read r.
Recent(r, i) ==
  \A x \in before[r] : KeyOf[x] = KeyOf[r] =>
    IF x \in Reads
    THEN result[x].version <= i
    ELSE \E j \in 1 .. i : log[KeyOf[r]][j] = x

EndRead(r) ==
  /\ status[r] = "collecting"
  /\ status' = [status EXCEPT ![r] = "done"]
  /\ \E i \in 0 .. Len(log[KeyOf[r]]) :
       /\ Recent(r, i)
       /\ result' = [result EXCEPT ![r] =
            [value   |-> IF i = 0 THEN NoWrite ELSE log[KeyOf[r]][i],
             version |-> i]]
  /\ UNCHANGED <<log, before>>

Next ==
  \/ \E w \in Writes : Write(w) \/ AnswerWrite(w)
  \/ \E r \in Reads : BeginRead(r) \/ EndRead(r)

Spec == Init /\ [][Next]_vars
=============================================================================
