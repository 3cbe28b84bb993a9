-------------------------------- MODULE OSAL --------------------------------
(***************************************************************************)
(* The OSAL scheduler, its message queue and its task events               *)
(* (src/Components/osal/common/OSAL.c).                                    *)
(*                                                                         *)
(* One main thread runs osal_run_system() for ever: it scans tasksEvents   *)
(* for the first task with an event, takes a snapshot of that task's       *)
(* events, calls the task, and puts back the events the task returns.      *)
(* Task handlers never preempt one another; interrupt service routines     *)
(* run between any two steps of the main thread, except inside a critical  *)
(* section.  A step of this module is therefore one critical section, or   *)
(* one unprotected read, of the main thread, or one whole interrupt.       *)
(***************************************************************************)
EXTENDS Naturals, Sequences, FiniteSets

CONSTANTS tasksCnt,    \* number of tasks; a smaller id is a higher priority
          Buffers,     \* the message buffers the heap can hold
          Evts,        \* event bits other than SYS_EVENT_MSG
          DrainTasks,  \* tasks whose handler loops until no message is left
          MaxPosts,    \* bound on the messages and events posted in a run
          NULL         \* the null message pointer

SYS_EVENT_MSG == "SYS_EVENT_MSG"
TASK_NO_TASK  == 255

Tasks  == 0 .. tasksCnt - 1
Events == Evts \cup {SYS_EVENT_MSG}

ASSUME ConstAssumption ==
  /\ tasksCnt \in 1 .. 254
  /\ SYS_EVENT_MSG \notin Evts
  /\ DrainTasks \subseteq Tasks
  /\ MaxPosts \in Nat
  /\ NULL \notin Buffers

VARIABLES
  tasksEvents,   \* events pending for each task
  osal_qHead,    \* the one queue that holds the messages of all tasks
  dest_id,       \* header field of each buffer
  heap,          \* buffers that are not allocated
  pc,            \* where the main thread is
  idx,           \* the task the scan looks at, then the task that runs
  events,        \* local copy of the events of the running task
  msg,           \* message the handler works on, NULL if none
  sendTo,        \* destination of the osal_msg_send in progress
  activeTaskID,
  posts          \* messages and events posted so far

vars == <<tasksEvents, osal_qHead, dest_id, heap, pc, idx, events, msg,
          sendTo, activeTaskID, posts>>

Queued == {osal_qHead[i] : i \in DOMAIN osal_qHead}

\* positions of the queue that hold a message for task t
MsgsFor(t) == {i \in DOMAIN osal_qHead : dest_id[osal_qHead[i]] = t}

\* queue q without its element at position i (osal_msg_extract)
Extract(q, i) == [j \in 1 .. Len(q) - 1 |-> IF j < i THEN q[j] ELSE q[j + 1]]

osal_set_event(t, e)   == [tasksEvents EXCEPT ![t] = @ \cup {e}]
osal_clear_event(t, e) == [tasksEvents EXCEPT ![t] = @ \ {e}]

\* Mutant: a queued buffer is freed too.
Deallocate_queued(m) == IF m = NULL THEN heap ELSE heap \cup {m}

\* osal_msg_deallocate: a null or a queued buffer is refused
Deallocate(m) ==
  IF m = NULL THEN heap
  ELSE IF dest_id[m] # TASK_NO_TASK THEN heap ELSE heap \cup {m}

Init ==
  /\ tasksEvents = [t \in Tasks |-> {}]
  /\ osal_qHead = <<>>
  /\ dest_id = [m \in Buffers |-> TASK_NO_TASK]
  /\ heap = Buffers
  /\ pc = "scan"
  /\ idx = 0
  /\ events = {}
  /\ msg = NULL
  /\ sendTo = TASK_NO_TASK
  /\ activeTaskID = TASK_NO_TASK
  /\ posts = 0

-----------------------------------------------------------------------------
(* osal_run_system: the scan, the snapshot and the return of the handler   *)

ScanMiss ==
  /\ pc = "scan" /\ idx < tasksCnt /\ tasksEvents[idx] = {}
  /\ idx' = idx + 1
  /\ UNCHANGED <<tasksEvents, osal_qHead, dest_id, heap, pc, events, msg,
                 sendTo, activeTaskID, posts>>

ScanHit ==
  /\ pc = "scan" /\ idx < tasksCnt /\ tasksEvents[idx] # {}
  /\ pc' = "snapshot"
  /\ UNCHANGED <<tasksEvents, osal_qHead, dest_id, heap, idx, events, msg,
                 sendTo, activeTaskID, posts>>

\* no task was ready: this pass is over and the next one starts
PassOver ==
  /\ pc = "scan" /\ idx = tasksCnt
  /\ idx' = 0
  /\ UNCHANGED <<tasksEvents, osal_qHead, dest_id, heap, pc, events, msg,
                 sendTo, activeTaskID, posts>>

Snapshot ==
  /\ pc = "snapshot"
  /\ events' = tasksEvents[idx]
  /\ tasksEvents' = [tasksEvents EXCEPT ![idx] = {}]
  /\ activeTaskID' = idx
  /\ pc' = "handler"
  /\ UNCHANGED <<osal_qHead, dest_id, heap, idx, msg, sendTo, posts>>

\* Mutant: the events the task returns replace the pending ones.
AddBack_assigns ==
  /\ pc = "return"
  /\ tasksEvents' = [tasksEvents EXCEPT ![idx] = events]
  /\ activeTaskID' = TASK_NO_TASK
  /\ events' = {}
  /\ idx' = 0
  /\ pc' = "scan"
  /\ UNCHANGED <<osal_qHead, dest_id, heap, msg, sendTo, posts>>

AddBack ==
  /\ pc = "return"
  /\ tasksEvents' = [tasksEvents EXCEPT ![idx] = @ \cup events]
  /\ activeTaskID' = TASK_NO_TASK
  /\ events' = {}
  /\ idx' = 0
  /\ pc' = "scan"
  /\ UNCHANGED <<osal_qHead, dest_id, heap, msg, sendTo, posts>>

-----------------------------------------------------------------------------
(* The task handler: it serves SYS_EVENT_MSG first, or one other event     *)

\* Mutant: the message event is cleared even if the task has more messages.
ReceiveSome_clears ==
  /\ pc \in {"handler", "next"} /\ SYS_EVENT_MSG \in events
  /\ \E i \in MsgsFor(idx) :
       /\ \A j \in MsgsFor(idx) : i <= j
       /\ tasksEvents' = osal_clear_event(idx, SYS_EVENT_MSG)
       /\ osal_qHead' = Extract(osal_qHead, i)
       /\ dest_id' = [dest_id EXCEPT ![osal_qHead[i]] = TASK_NO_TASK]
       /\ msg' = osal_qHead[i]
  /\ pc' = "process"
  /\ UNCHANGED <<heap, idx, events, sendTo, activeTaskID, posts>>

\* osal_msg_receive takes the oldest message of the task and leaves
\* SYS_EVENT_MSG set exactly when the task has another one.
ReceiveSome ==
  /\ pc \in {"handler", "next"} /\ SYS_EVENT_MSG \in events
  /\ \E i \in MsgsFor(idx) :
       /\ \A j \in MsgsFor(idx) : i <= j
       /\ tasksEvents' = IF MsgsFor(idx) # {i}
                         THEN osal_set_event(idx, SYS_EVENT_MSG)
                         ELSE osal_clear_event(idx, SYS_EVENT_MSG)
       /\ osal_qHead' = Extract(osal_qHead, i)
       /\ dest_id' = [dest_id EXCEPT ![osal_qHead[i]] = TASK_NO_TASK]
       /\ msg' = osal_qHead[i]
  /\ pc' = "process"
  /\ UNCHANGED <<heap, idx, events, sendTo, activeTaskID, posts>>

ReceiveNone ==
  /\ pc \in {"handler", "next"} /\ SYS_EVENT_MSG \in events
  /\ MsgsFor(idx) = {}
  /\ tasksEvents' = osal_clear_event(idx, SYS_EVENT_MSG)
  /\ events' = events \ {SYS_EVENT_MSG}
  /\ pc' = "return"
  /\ UNCHANGED <<osal_qHead, dest_id, heap, idx, msg, sendTo, activeTaskID,
                 posts>>

HandleEvent ==
  /\ pc = "handler" /\ SYS_EVENT_MSG \notin events
  /\ \E e \in events : events' = events \ {e}
  /\ pc' = "process"
  /\ UNCHANGED <<tasksEvents, osal_qHead, dest_id, heap, idx, msg, sendTo,
                 activeTaskID, posts>>

\* The handler is done with the message (or event): it frees the message,
\* and receives the next one or returns the events it did not process.
Done ==
  /\ pc = "process"
  /\ heap' = Deallocate(msg)
  /\ msg' = NULL
  /\ IF SYS_EVENT_MSG \in events /\ idx \in DrainTasks
     THEN pc' = "next" /\ UNCHANGED events
     ELSE pc' = "return" /\ events' = events \ {SYS_EVENT_MSG}
  /\ UNCHANGED <<tasksEvents, osal_qHead, dest_id, idx, sendTo, activeTaskID,
                 posts>>

-----------------------------------------------------------------------------
(* osal_msg_send and osal_set_event called by the running handler          *)

\* A handler sends a buffer it allocates, the message it received, or a
\* buffer it found in place in the queue (osal_msg_find).
Sendable == (heap \cup {msg} \cup Queued) \ {NULL}

\* no such task: the buffer is freed, unless it is queued
SendNowhere(m) ==
  /\ heap' = Deallocate(m)
  /\ msg' = IF m = msg THEN NULL ELSE msg
  /\ UNCHANGED <<osal_qHead, dest_id, pc, sendTo>>

\* the header says that the buffer is queued: neither sent nor freed
SendRefused(m) ==
  /\ dest_id[m] # TASK_NO_TASK
  /\ heap' = Deallocate(m)
  /\ UNCHANGED <<osal_qHead, dest_id, msg, pc, sendTo>>

\* Mutant: the message goes to the head of the queue.
SendQueue_first(m, t) ==
  /\ dest_id[m] = TASK_NO_TASK
  /\ dest_id' = [dest_id EXCEPT ![m] = t]
  /\ osal_qHead' = <<m>> \o osal_qHead
  /\ heap' = heap \ {m}
  /\ msg' = IF m = msg THEN NULL ELSE msg
  /\ sendTo' = t
  /\ pc' = "signal"

SendQueue(m, t) ==
  /\ dest_id[m] = TASK_NO_TASK
  /\ dest_id' = [dest_id EXCEPT ![m] = t]
  /\ osal_qHead' = Append(osal_qHead, m)
  /\ heap' = heap \ {m}
  /\ msg' = IF m = msg THEN NULL ELSE msg
  /\ sendTo' = t
  /\ pc' = "signal"

MsgSend ==
  /\ pc = "process" /\ posts < MaxPosts
  /\ posts' = posts + 1
  /\ \E m \in Sendable :
       \/ SendNowhere(m)
       \/ SendRefused(m)
       \/ \E t \in Tasks : SendQueue(m, t)
  /\ UNCHANGED <<tasksEvents, idx, events, activeTaskID>>

Signal ==
  /\ pc = "signal"
  /\ tasksEvents' = osal_set_event(sendTo, SYS_EVENT_MSG)
  /\ sendTo' = TASK_NO_TASK
  /\ pc' = "process"
  /\ UNCHANGED <<osal_qHead, dest_id, heap, idx, events, msg, activeTaskID,
                 posts>>

SetEvent ==
  /\ pc = "process" /\ posts < MaxPosts
  /\ posts' = posts + 1
  /\ \E t \in Tasks, e \in Evts : tasksEvents' = osal_set_event(t, e)
  /\ UNCHANGED <<osal_qHead, dest_id, heap, pc, idx, events, msg, sendTo,
                 activeTaskID>>

-----------------------------------------------------------------------------
(* Interrupt service routines: they run between any two steps above        *)

IsrSend ==
  /\ posts < MaxPosts
  /\ posts' = posts + 1
  /\ \E m \in heap, t \in Tasks :
       /\ heap' = heap \ {m}
       /\ dest_id' = [dest_id EXCEPT ![m] = t]
       /\ osal_qHead' = Append(osal_qHead, m)
       /\ tasksEvents' = osal_set_event(t, SYS_EVENT_MSG)
  /\ UNCHANGED <<pc, idx, events, msg, sendTo, activeTaskID>>

IsrSetEvent ==
  /\ posts < MaxPosts
  /\ posts' = posts + 1
  /\ \E t \in Tasks, e \in Evts : tasksEvents' = osal_set_event(t, e)
  /\ UNCHANGED <<osal_qHead, dest_id, heap, pc, idx, events, msg, sendTo,
                 activeTaskID>>

-----------------------------------------------------------------------------

\* the steps the main thread takes on its own; it may, but need not, post
MainStep ==
  \/ ScanMiss \/ ScanHit \/ PassOver \/ Snapshot \/ AddBack
  \/ ReceiveSome \/ ReceiveNone \/ HandleEvent \/ Done \/ Signal

Next == MainStep \/ MsgSend \/ SetEvent \/ IsrSend \/ IsrSetEvent

Spec     == Init /\ [][Next]_vars
FairSpec == Spec /\ WF_vars(MainStep)

-----------------------------------------------------------------------------

TypeOK ==
  /\ tasksEvents \in [Tasks -> SUBSET Events]
  /\ osal_qHead \in Seq(Buffers)
  /\ dest_id \in [Buffers -> Tasks \cup {TASK_NO_TASK}]
  /\ heap \in SUBSET Buffers
  /\ pc \in {"scan", "snapshot", "handler", "next", "process", "signal",
             "return"}
  /\ idx \in 0 .. tasksCnt
  /\ (pc # "scan" => idx \in Tasks)
  /\ events \in SUBSET Events
  /\ msg \in Buffers \cup {NULL}
  /\ sendTo \in Tasks \cup {TASK_NO_TASK}
  /\ (pc = "signal" => sendTo \in Tasks)
  /\ activeTaskID \in Tasks \cup {TASK_NO_TASK}
  /\ posts \in 0 .. MaxPosts

\* Every buffer is in exactly one place: free, queued once, or held by the
\* running handler; its header names a task exactly while it is queued, which
\* is what the refusals in osal_msg_send and osal_msg_deallocate rely on.
OneOwner ==
  /\ \A i, j \in DOMAIN osal_qHead :
       osal_qHead[i] = osal_qHead[j] => i = j
  /\ \A m \in Buffers : dest_id[m] # TASK_NO_TASK <=> m \in Queued
  /\ heap \cap Queued = {}
  /\ msg \notin heap \cup Queued
  /\ (msg # NULL => pc \in {"process", "signal"})
  /\ Buffers \subseteq heap \cup Queued \cup {msg}

\* No lost wake-up: while a message waits for a task, its SYS_EVENT_MSG is
\* pending, or the send that queued it is about to set it, or the handler has
\* it in its snapshot and is about to receive.
Awake(t) ==
  \/ SYS_EVENT_MSG \in tasksEvents[t]
  \/ pc = "signal" /\ sendTo = t
  \/ pc = "handler" /\ idx = t /\ SYS_EVENT_MSG \in events

NoLostWakeup == \A t \in Tasks : MsgsFor(t) # {} => Awake(t)

\* An event set for a task stays pending, in tasksEvents or in the snapshot of
\* the running handler, until that handler processes it: neither the snapshot
\* nor the put-back of unprocessed events drops one that an interrupt sets.
PendingFor(t) ==
  tasksEvents[t] \cup (IF activeTaskID = t THEN events ELSE {})

EventsConserved ==
  [][\A t \in Tasks, e \in Evts :
       e \in PendingFor(t) /\ e \notin PendingFor(t)'
         => activeTaskID = t /\ pc = "handler"]_vars

\* the messages for task t among the first n of queue q, oldest first
Box(q, dest, t) ==
  LET box[n \in 0 .. Len(q)] ==
        IF n = 0 THEN <<>>
        ELSE IF dest[q[n]] = t THEN Append(box[n - 1], q[n]) ELSE box[n - 1]
  IN  box

\* What the queue promises: one mailbox per task, first in first out.
Mailboxes ==
  INSTANCE Mailbox WITH
    mbox <- [t \in Tasks |-> Box(osal_qHead, dest_id, t)[Len(osal_qHead)]]

ImplementsMailbox == Mailboxes!Spec
=============================================================================
