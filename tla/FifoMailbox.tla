---------------------------- MODULE FifoMailbox ----------------------------
(***************************************************************************)
(* What a worker's mailbox promises to the threads that use it            *)
(* (packages-llvm/workers.ohn): a bounded first-in first-out channel.      *)
(* Every message that was accepted is received at most once, in the order *)
(* of acceptance, and at most Capacity messages are accepted and not yet  *)
(* received.  The lock-free ring of WorkerMailbox implements it.           *)
(***************************************************************************)
EXTENDS Integers, Sequences

CONSTANTS Message,   \* what postMessage can be given
          Capacity   \* QUEUE_SIZE

VARIABLES sent,      \* every message accepted so far, in order of acceptance
          received,  \* every message handed to the worker so far, in order
          phase      \* "open", "exited" (exit(1) was called), "closed" (joined)

fifoVars == <<sent, received, phase>>

Init ==
  /\ sent = <<>>
  /\ received = <<>>
  /\ phase = "open"

\* postMessage accepts a message.
Send(m) ==
  /\ phase = "open"
  /\ Len(sent) - Len(received) < Capacity
  /\ sent' = Append(sent, m)
  /\ UNCHANGED <<received, phase>>

\* receiveMessage returns the oldest message not yet received.
Receive ==
  /\ phase = "open"
  /\ Len(received) < Len(sent)
  /\ received' = Append(received, sent[Len(received) + 1])
  /\ UNCHANGED <<sent, phase>>

\* postMessage gives up: the process ends.
Exit ==
  /\ phase = "open"
  /\ phase' = "exited"
  /\ UNCHANGED <<sent, received>>

\* joinWorker: what is left is discarded with the queue.
Close ==
  /\ phase = "open"
  /\ phase' = "closed"
  /\ UNCHANGED <<sent, received>>

Next ==
  \/ \E m \in Message : Send(m)
  \/ Receive
  \/ Exit
  \/ Close

Spec == Init /\ [][Next]_fifoVars
=============================================================================
