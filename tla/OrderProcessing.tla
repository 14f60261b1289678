--------------------------- MODULE OrderProcessing ---------------------------
(***************************************************************************)
(* The orders of CS6650_hw7: order-receiver takes them, either paying in   *)
(* the request (one payment at a time) or publishing to a topic that feeds *)
(* a queue; order-processor polls the queue with a bounded number of       *)
(* goroutines and deletes a message when its order is done.                *)
(*                                                                         *)
(* The topic and the queue are external.  A message stays in the queue     *)
(* until it is deleted; while it is invisible nobody receives it, and when *)
(* the visibility timeout ends it can be received again.  A message is     *)
(* named by its order, a receipt by the order and the number of receipts.  *)
(***************************************************************************)
EXTENDS Integers, FiniteSets

CONSTANTS Orders,
          NumWorkers,  \* size of the processor's semaphore
          BatchSize,   \* MaxNumberOfMessages of a receive call
          MaxFailedCalls, \* bound on failed Publish and DeleteMessage calls
          MaxCrashes,  \* bound on restarts of the processor
          MaxTimeouts  \* bound on timeouts of messages the processor holds

VARIABLES
  status,     \* status[o]: what the client of o waits for or was told
  messages,   \* messages in the queue
  visible,    \* those of them a receive call may return
  receipts,   \* receipts[o]: how often o was received
  received,      \* receipts the poll loop has and has not started
  running,    \* receipts a goroutine is paying
  deleting,   \* receipts whose order is done and whose message is not deleted
  busy,       \* places taken in the semaphore
  completed,  \* ghost: orders the processor has completed
  failedCalls, crashes, timeouts

orderVars == <<status, messages, visible, receipts, received, running, deleting, busy,
          completed, failedCalls, crashes, timeouts>>

queueVars  == <<messages, visible>>
workerVars == <<received, running, deleting, busy, completed>>
bounds     == <<failedCalls, crashes, timeouts>>

OrderInit ==
  /\ status = [o \in Orders |-> "none"]
  /\ messages = {} /\ visible = {}
  /\ receipts = [o \in Orders |-> 0]
  /\ received = {} /\ running = {} /\ deleting = {} /\ busy = 0
  /\ completed = {}
  /\ failedCalls = 0 /\ crashes = 0 /\ timeouts = 0

CallFails == failedCalls < MaxFailedCalls /\ failedCalls' = failedCalls + 1

-----------------------------------------------------------------------------
(* order-receiver *)

\* syncOrderHandler: the order waits for the one payment slot, ...
SyncOrder(o) ==
  /\ status[o] = "none"
  /\ status' = [status EXCEPT ![o] = "waiting"]
  /\ UNCHANGED <<queueVars, receipts, workerVars, bounds>>

\* ... takes it from the channel, ...
TakeSlot(o) ==
  /\ status[o] = "waiting"
  /\ \A x \in Orders : status[x] # "paying"
  /\ status' = [status EXCEPT ![o] = "paying"]
  /\ UNCHANGED <<queueVars, receipts, workerVars, bounds>>

\* ... gives it back, and the client gets its 200.
Pay(o) ==
  /\ status[o] = "paying"
  /\ status' = [status EXCEPT ![o] = "paid"]
  /\ UNCHANGED <<queueVars, receipts, workerVars, bounds>>

Enqueue(o) == messages' = messages \cup {o} /\ visible' = visible \cup {o}

\* asyncOrderHandler: 202 once the topic has the order; on an error 500, and
\* the topic may have it all the same.
AsyncOrder(o) ==
  /\ status[o] = "none"
  /\ \/ /\ Enqueue(o)
        /\ status' = [status EXCEPT ![o] = "accepted"]
        /\ UNCHANGED failedCalls
     \/ /\ CallFails
        /\ Enqueue(o) \/ UNCHANGED queueVars
        /\ status' = [status EXCEPT ![o] = "error"]
  /\ UNCHANGED <<receipts, workerVars, crashes, timeouts>>

-----------------------------------------------------------------------------
(* order-processor *)

\* The messages that stay in the queue when `taken` are received.
Kept_OnlyOthers(taken) == messages \ taken

Kept(taken) == messages

\* poll: the loop has started all it had, and receives again.
Receive ==
  /\ received = {}
  /\ \E taken \in SUBSET visible \ {{}} :
       /\ Cardinality(taken) <= BatchSize
       /\ messages' = Kept(taken)
       /\ visible' = visible \ taken
       /\ receipts' = [o \in Orders |-> receipts[o] + IF o \in taken THEN 1 ELSE 0]
       /\ received' = {<<o, receipts'[o]>> : o \in taken}
  /\ UNCHANGED <<status, running, deleting, busy, completed, bounds>>

\* poll: a place in the semaphore, and a goroutine for the message.
Start(m) ==
  /\ m \in received
  /\ busy < NumWorkers
  /\ busy' = busy + 1
  /\ received' = received \ {m}
  /\ running' = running \cup {m}
  /\ UNCHANGED <<status, queueVars, receipts, deleting, completed, bounds>>

\* processOrder up to its call of DeleteMessage.
Complete(m) ==
  /\ m \in running
  /\ running' = running \ {m}
  /\ deleting' = deleting \cup {m}
  /\ completed' = completed \cup {m[1]}
  /\ UNCHANGED <<status, queueVars, receipts, received, busy, bounds>>

\* The semaphore when a goroutine returns, after its message was deleted or not.
Released_IfDeleted(deleted) == IF deleted THEN busy - 1 ELSE busy

Released(deleted) == busy - 1

\* The end of processOrder: an error of DeleteMessage is logged.
Delete(m) ==
  /\ m \in deleting
  /\ deleting' = deleting \ {m}
  /\ \/ /\ messages' = messages \ {m[1]}
        /\ visible' = visible \ {m[1]}
        /\ busy' = Released(TRUE)
        /\ UNCHANGED failedCalls
     \/ /\ CallFails
        /\ busy' = Released(FALSE)
        /\ UNCHANGED queueVars
  /\ UNCHANGED <<status, receipts, received, running, completed, crashes, timeouts>>

\* The processor stops, whatever it holds, and starts again.
Crash ==
  /\ crashes < MaxCrashes
  /\ crashes' = crashes + 1
  /\ received' = {} /\ running' = {} /\ deleting' = {} /\ busy' = 0
  /\ UNCHANGED <<status, queueVars, receipts, completed, failedCalls, timeouts>>

Held(o) == \E m \in received \cup running \cup deleting : m[1] = o

\* The visibility timeout of o ends, perhaps while the processor still holds it.
Timeout(o) ==
  /\ o \in messages \ visible
  /\ visible' = visible \cup {o}
  /\ \/ Held(o) /\ timeouts < MaxTimeouts /\ timeouts' = timeouts + 1
     \/ ~Held(o) /\ UNCHANGED timeouts
  /\ UNCHANGED <<status, messages, receipts, workerVars, failedCalls, crashes>>

-----------------------------------------------------------------------------
Receipts == {<<o, n>> : o \in Orders, n \in 1 .. 1 + MaxFailedCalls + MaxCrashes + MaxTimeouts}

OrderNext ==
  \/ \E o \in Orders : SyncOrder(o) \/ TakeSlot(o) \/ Pay(o) \/ AsyncOrder(o) \/ Timeout(o)
  \/ \E m \in Receipts : Start(m) \/ Complete(m) \/ Delete(m)
  \/ Receive
  \/ Crash

\* Goroutines and the poll loop go on, the queue delivers what is visible, and
\* a message nobody holds or deletes becomes visible again.
OrderFairness ==
  /\ WF_orderVars(Receive)
  /\ \A o \in Orders :
       /\ WF_orderVars(TakeSlot(o) \/ Pay(o))
       /\ WF_orderVars(\E m \in Receipts : m[1] = o /\ (Start(m) \/ Complete(m) \/ Delete(m)))
       /\ WF_orderVars(~Held(o) /\ Timeout(o))

OrderSpec == OrderInit /\ [][OrderNext]_orderVars /\ OrderFairness

-----------------------------------------------------------------------------
\* An accepted order is never lost: until it is completed its message is in the
\* queue, through crashes, failed deletes and messages received twice.
NothingLost ==
  \A o \in Orders : status[o] = "accepted" => o \in messages \cup completed

\* An order somebody waits for: accepted and not completed, or being paid.
Unfinished(o) ==
  \/ status[o] = "accepted" /\ o \notin completed
  \/ status[o] \in {"waiting", "paying"}

\* Every accepted order is completed and every client of a synchronous order is
\* answered (no order stays unfinished): neither the semaphore nor the slot of
\* the payments is ever used up, through crashes, failed deletes and timeouts.
EveryOrderCompleted == []<>(\A o \in Orders : ~Unfinished(o))
=============================================================================
