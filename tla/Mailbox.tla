------------------------------ MODULE Mailbox -------------------------------
(***************************************************************************)
(* What a task may rely on when it uses OSAL messages: every task has a    *)
(* mailbox of its own, messages leave it in the order in which they were   *)
(* posted, and a message that was posted is taken in the end.              *)
(***************************************************************************)
EXTENDS Naturals, Sequences

CONSTANTS Tasks, Buffers

VARIABLE mbox

InSomeBox(m) == \E t \in Tasks : \E i \in DOMAIN mbox[t] : mbox[t][i] = m

Init == mbox = [t \in Tasks |-> <<>>]

Post(t, m) ==
  /\ ~InSomeBox(m)
  /\ mbox' = [mbox EXCEPT ![t] = Append(@, m)]

Take(t) ==
  /\ mbox[t] # <<>>
  /\ mbox' = [mbox EXCEPT ![t] = Tail(@)]

Next == \E t \in Tasks : Take(t) \/ \E m \in Buffers : Post(t, m)

Fifo == Init /\ [][Next]_mbox

Spec == Fifo /\ \A t \in Tasks : WF_mbox(Take(t))
=============================================================================
