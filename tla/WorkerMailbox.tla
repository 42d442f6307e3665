--------------------------- MODULE WorkerMailbox ---------------------------
(***************************************************************************)
(* The lock-free mailbox of a worker thread: sys_mpsc_push, sys_mpsc_pop,  *)
(* sys_worker_sleep and sys_thread_join of workers.ohn/src/bindings.c and  *)
(* their callers postMessage, receiveMessage and joinWorker in worker.ohn. *)
(*                                                                         *)
(* One action is one access to shared memory.  head and tail are unsigned *)
(* 32-bit counters in the code; here they count modulo Modulus.  The      *)
(* atomics are release stores and acquire loads: with StoreBuffers every   *)
(* thread's plain stores wait in a store buffer and drain in order, which *)
(* is what the x86-64 build does with them; without it memory is           *)
(* sequentially consistent, which is what AArch64's stlr/ldar give.        *)
(***************************************************************************)
EXTENDS Integers, Sequences

CONSTANTS
  Producers,     \* the threads that call postMessage
  QueueSize,     \* QUEUE_SIZE, 256 in the code
  Modulus,       \* 2^32 in the code
  Start,         \* messages that had gone through the mailbox before Init
  MaxPush,       \* bound: reservations after Init
  StoreBuffers,  \* TRUE: stores are buffered (TSO); FALSE: SC
  NULL           \* an empty cell, and the absence of a buffered store

Index   == 0 .. Modulus - 1
Cells   == 0 .. QueueSize - 1
Message == Producers \X (1 .. MaxPush)   \* arena pointers: the n-th one p posts

ASSUME MailboxAssumption ==
  /\ QueueSize \in Nat \ {0}
  /\ Modulus \in Nat \ {0}
  /\ Modulus % QueueSize = 0
  /\ Start \in Nat
  /\ MaxPush \in Nat
  /\ MaxPush + QueueSize < Modulus
  /\ StoreBuffers \in BOOLEAN
  /\ NULL \notin Message
  /\ NULL \notin [at : Index, msg : Message]

VARIABLES
  head, tail,   \* the two counters of MPSCQueue, in memory
  buffer,       \* its cells, in memory
  isSleeping,   \* WorkerState.is_sleeping, in memory
  sem,          \* value of wakeup_sem
  ppc,          \* where each producer is in postMessage
  h,            \* each producer's local copy of head
  pushes,       \* how many pushes each producer has begun
  cellStore,    \* a producer's store to its cell that has not drained yet
  wpc,          \* where the worker is
  attempt,      \* which of receiveMessage's two pops is running
  got,          \* the pointer sys_mpsc_pop took out of its cell
  sb,           \* the worker's store buffer, oldest store first
  exited,       \* postMessage called exit(1)
  freed,        \* what the drain of sys_thread_join freed
  reserved,     \* history: messages in the order their cells were reserved
  delivered     \* history: messages receiveMessage returned

queueVars    == <<head, tail, buffer>>
producerVars == <<ppc, h, pushes, cellStore>>
workerVars   == <<wpc, attempt, got, sb>>
history      == <<reserved, delivered>>
vars == <<queueVars, isSleeping, sem, producerVars, workerVars, exited, freed, history>>

ProducerPC == {"idle", "loadTail", "cas", "store", "checkSleep", "post"}
WorkerPC   == {"idle", "load", "exchange", "advance", "setFlag", "recheck",
               "wait", "clear", "done", "joined"}

Inc(n)    == (n + 1) % Modulus
Sub(m, n) == (m - n) % Modulus      \* uint32_t subtraction

\* sys_worker_alloc, in the state it is in after Start messages were received.
Init ==
  /\ head = Start % Modulus
  /\ tail = Start % Modulus
  /\ buffer = [c \in Cells |-> NULL]
  /\ isSleeping = 0
  /\ sem = 0
  /\ ppc = [p \in Producers |-> "idle"]
  /\ h = [p \in Producers |-> 0]
  /\ pushes = [p \in Producers |-> 0]
  /\ cellStore = [p \in Producers |-> NULL]
  /\ wpc = "idle"
  /\ attempt = 1
  /\ got = NULL
  /\ sb = <<>>
  /\ exited = FALSE
  /\ freed = {}
  /\ reserved = <<>>
  /\ delivered = <<>>

-----------------------------------------------------------------------------
(* Producers: postMessage, sys_mpsc_push *)

ProducerAt(p, at, next) ==
  /\ ~exited
  /\ ppc[p] = at
  /\ ppc' = [ppc EXCEPT ![p] = next]

\* The arena of the push p has begun.
Arena(p) == <<p, pushes[p]>>

\* The call, and the relaxed load of head.
BeginPush(p) ==
  /\ wpc # "joined"
  /\ Len(reserved) < MaxPush /\ pushes[p] < MaxPush
  /\ ProducerAt(p, "idle", "loadTail")
  /\ h' = [h EXCEPT ![p] = head]
  /\ pushes' = [pushes EXCEPT ![p] = @ + 1]
  /\ UNCHANGED <<queueVars, isSleeping, sem, cellStore, workerVars, exited, freed, history>>

\* Fault: the check lets one message too many in.
PassCheckOffByOne(p) ==
  /\ ProducerAt(p, "loadTail", "cas")
  /\ Sub(h[p], tail) <= QueueSize
  /\ UNCHANGED <<queueVars, isSleeping, sem, h, pushes, cellStore, workerVars, exited, freed, history>>

\* The acquire load of tail finds room.
PassCheck(p) ==
  /\ ProducerAt(p, "loadTail", "cas")
  /\ Sub(h[p], tail) < QueueSize
  /\ UNCHANGED <<queueVars, isSleeping, sem, h, pushes, cellStore, workerVars, exited, freed, history>>

\* Fault: the ring is taken for full one cell early.
RejectPushEarly(p) ==
  /\ ProducerAt(p, "loadTail", "idle")
  /\ Sub(h[p], tail) >= QueueSize - 1
  /\ exited' = TRUE
  /\ UNCHANGED <<queueVars, isSleeping, sem, h, pushes, cellStore, workerVars, freed, history>>

\* It finds none: -1, on which postMessage ends the process.
RejectPush(p) ==
  /\ ProducerAt(p, "loadTail", "idle")
  /\ Sub(h[p], tail) >= QueueSize
  /\ exited' = TRUE
  /\ UNCHANGED <<queueVars, isSleeping, sem, h, pushes, cellStore, workerVars, freed, history>>

\* Fault: a plain store of head + 1 instead of the compare-exchange.
ReserveBlindly(p) ==
  /\ ProducerAt(p, "cas", "store")
  /\ cellStore[p] = NULL
  /\ Len(reserved) < MaxPush
  /\ head' = Inc(h[p])
  /\ reserved' = Append(reserved, Arena(p))
  /\ UNCHANGED <<tail, buffer, isSleeping, sem, h, pushes, cellStore, workerVars, exited, freed, delivered>>

\* The compare-exchange reserves a cell; a locked instruction drains first.
Reserve(p) ==
  /\ ProducerAt(p, "cas", "store")
  /\ cellStore[p] = NULL
  /\ Len(reserved) < MaxPush
  /\ head = h[p]
  /\ head' = Inc(head)
  /\ reserved' = Append(reserved, Arena(p))
  /\ UNCHANGED <<tail, buffer, isSleeping, sem, h, pushes, cellStore, workerVars, exited, freed, delivered>>

\* It fails, because head moved or spuriously (weak), and reloads head.
FailReserve(p) ==
  /\ ProducerAt(p, "cas", "loadTail")
  /\ h' = [h EXCEPT ![p] = head]
  /\ UNCHANGED <<queueVars, isSleeping, sem, pushes, cellStore, workerVars, exited, freed, history>>

StoreCell(p) ==
  /\ ProducerAt(p, "store", "checkSleep")
  /\ IF StoreBuffers
     THEN /\ cellStore' = [cellStore EXCEPT ![p] = [at |-> h[p], msg |-> Arena(p)]]
          /\ UNCHANGED buffer
     ELSE /\ buffer' = [buffer EXCEPT ![h[p] % QueueSize] = Arena(p)]
          /\ UNCHANGED cellStore
  /\ UNCHANGED <<head, tail, isSleeping, sem, h, pushes, workerVars, exited, freed, history>>

\* Fault: is_sleeping is never looked at.
CheckSleepNever(p) ==
  /\ ProducerAt(p, "checkSleep", "idle")
  /\ UNCHANGED <<queueVars, isSleeping, sem, h, pushes, cellStore, workerVars, exited, freed, history>>

\* The acquire load of is_sleeping decides whether to enter the kernel.
CheckSleep(p) ==
  /\ \/ /\ isSleeping = 1
        /\ ProducerAt(p, "checkSleep", "post")
     \/ /\ isSleeping = 0
        /\ ProducerAt(p, "checkSleep", "idle")
  /\ UNCHANGED <<queueVars, isSleeping, sem, h, pushes, cellStore, workerVars, exited, freed, history>>

Post(p) ==
  /\ ProducerAt(p, "post", "idle")
  /\ cellStore[p] = NULL
  /\ sem' = sem + 1
  /\ UNCHANGED <<queueVars, isSleeping, h, pushes, cellStore, workerVars, exited, freed, history>>

\* The memory system makes a buffered cell store visible.
DrainCell(p) ==
  /\ ~exited
  /\ cellStore[p] # NULL
  /\ buffer' = [buffer EXCEPT ![cellStore[p].at % QueueSize] = cellStore[p].msg]
  /\ cellStore' = [cellStore EXCEPT ![p] = NULL]
  /\ UNCHANGED <<head, tail, isSleeping, sem, ppc, h, pushes, workerVars, exited, freed, history>>

-----------------------------------------------------------------------------
(* The worker: receiveMessage, sys_mpsc_pop, sys_worker_sleep *)

WorkerAt(at, next) ==
  /\ ~exited
  /\ wpc = at
  /\ wpc' = next

BufferedStore == [loc : {"tail"}, val : Index] \cup [loc : {"sleeping"}, val : {0, 1}]
TailStore(n)  == [loc |-> "tail", val |-> n]
SleepStore(b) == [loc |-> "sleeping", val |-> b]

\* A store takes effect in memory ...
Apply(s) ==
  /\ tail' = IF s.loc = "tail" THEN s.val ELSE tail
  /\ isSleeping' = IF s.loc = "sleeping" THEN s.val ELSE isSleeping

\* ... at once, or when it leaves the worker's store buffer.
Store(s) ==
  IF StoreBuffers
  THEN sb' = Append(sb, s) /\ UNCHANGED <<tail, isSleeping>>
  ELSE Apply(s) /\ UNCHANGED sb

\* What the worker, the only one to store tail, reads of it: its own last
\* store, of which at most one is buffered (the exchange before it drains).
OwnTail ==
  LET pending == {i \in 1 .. Len(sb) : sb[i].loc = "tail"}
  IN  IF pending = {} THEN tail ELSE sb[CHOOSE i \in pending : TRUE].val

\* A pop finds nothing: sleep after the first one, return 0 after the second.
AfterEmptyPop == IF attempt = 1 THEN "setFlag" ELSE "idle"

\* The worker's function calls receiveMessage.
Receive ==
  /\ WorkerAt("idle", "load")
  /\ attempt' = 1
  /\ UNCHANGED <<queueVars, isSleeping, sem, producerVars, got, sb, exited, freed, history>>

PopLoad ==
  /\ WorkerAt("load", IF OwnTail = head THEN AfterEmptyPop ELSE "exchange")
  /\ UNCHANGED <<queueVars, isSleeping, sem, producerVars, attempt, got, sb, exited, freed, history>>

\* Fault: a plain load that leaves the pointer in the cell.
PopExchangeLoad ==
  LET c == OwnTail % QueueSize IN
  /\ sb = <<>>
  /\ WorkerAt("exchange", IF buffer[c] = NULL THEN AfterEmptyPop ELSE "advance")
  /\ got' = buffer[c]
  /\ UNCHANGED <<queueVars, isSleeping, sem, producerVars, attempt, sb, exited, freed, history>>

\* Fault: a cell that is reserved but not stored yet is taken for a message.
PopExchangeBlindly ==
  LET c == OwnTail % QueueSize IN
  /\ sb = <<>>
  /\ WorkerAt("exchange", "advance")
  /\ got' = buffer[c]
  /\ buffer' = [buffer EXCEPT ![c] = NULL]
  /\ UNCHANGED <<head, tail, isSleeping, sem, producerVars, attempt, sb, exited, freed, history>>

\* Takes the pointer out of the cell; NULL: reserved, but not stored yet.
PopExchange ==
  LET c == OwnTail % QueueSize IN
  /\ sb = <<>>
  /\ WorkerAt("exchange", IF buffer[c] = NULL THEN AfterEmptyPop ELSE "advance")
  /\ got' = buffer[c]
  /\ buffer' = [buffer EXCEPT ![c] = NULL]
  /\ UNCHANGED <<head, tail, isSleeping, sem, producerVars, attempt, sb, exited, freed, history>>

\* Stores tail + 1 and returns the pointer.
PopAdvance ==
  /\ WorkerAt("advance", "idle")
  /\ Store(TailStore(Inc(OwnTail)))
  /\ delivered' = Append(delivered, got)
  /\ got' = NULL
  /\ UNCHANGED <<head, buffer, sem, producerVars, attempt, exited, freed, reserved>>

SetFlag ==
  /\ WorkerAt("setFlag", "recheck")
  /\ Store(SleepStore(1))
  /\ UNCHANGED <<head, buffer, sem, producerVars, attempt, got, exited, freed, history>>

\* Fault: no double check.
RecheckSkipped ==
  /\ WorkerAt("recheck", "wait")
  /\ UNCHANGED <<queueVars, isSleeping, sem, producerVars, attempt, got, sb, exited, freed, history>>

\* The double check: something was reserved meanwhile, so do not sleep.
Recheck ==
  /\ WorkerAt("recheck", IF OwnTail # head THEN "clear" ELSE "wait")
  /\ UNCHANGED <<queueVars, isSleeping, sem, producerVars, attempt, got, sb, exited, freed, history>>

SemWait ==
  /\ sb = <<>>
  /\ sem > 0
  /\ WorkerAt("wait", "clear")
  /\ sem' = sem - 1
  /\ UNCHANGED <<queueVars, isSleeping, producerVars, attempt, got, sb, exited, freed, history>>

\* is_sleeping = 0, and the second pop.
ClearFlag ==
  /\ WorkerAt("clear", "load")
  /\ Store(SleepStore(0))
  /\ attempt' = 2
  /\ UNCHANGED <<head, buffer, sem, producerVars, got, exited, freed, history>>

\* The memory system makes the worker's oldest buffered store visible.
DrainWorker ==
  /\ ~exited
  /\ sb # <<>>
  /\ Apply(Head(sb))
  /\ sb' = Tail(sb)
  /\ UNCHANGED <<head, buffer, sem, producerVars, wpc, attempt, got, exited, freed, history>>

\* The worker's function returns: thread_runner ends.
Finish ==
  /\ sb = <<>>
  /\ WorkerAt("idle", "done")
  /\ UNCHANGED <<queueVars, isSleeping, sem, producerVars, attempt, got, sb, exited, freed, history>>

-----------------------------------------------------------------------------
(* joinWorker, sys_thread_join *)

\* Fault: the drain starts one cell late.
DrainedCellsLate == {n % QueueSize : n \in tail + 1 .. head - 1}

\* Cells the loop "while (tail < head)" visits.
DrainedCells == {n % QueueSize : n \in tail .. head - 1}

\* Called once nobody posts any more: the mailbox is freed with it.
Join ==
  /\ \A p \in Producers : ppc[p] = "idle" /\ cellStore[p] = NULL
  /\ WorkerAt("done", "joined")
  /\ freed' = {buffer[c] : c \in DrainedCells} \ {NULL}
  /\ buffer' = [c \in Cells |-> IF c \in DrainedCells THEN NULL ELSE buffer[c]]
  /\ UNCHANGED <<head, tail, isSleeping, sem, producerVars, attempt, got, sb, exited, history>>

-----------------------------------------------------------------------------
ProducerStep(p) ==
  \/ PassCheck(p) \/ RejectPush(p)
  \/ Reserve(p)
  \/ StoreCell(p)
  \/ CheckSleep(p)
  \/ Post(p)

Producer(p) == BeginPush(p) \/ FailReserve(p) \/ DrainCell(p) \/ ProducerStep(p)

WorkerStep ==
  \/ Receive
  \/ PopLoad \/ PopExchange \/ PopAdvance
  \/ SetFlag \/ Recheck \/ SemWait \/ ClearFlag

Worker == WorkerStep \/ DrainWorker \/ Finish

Next == (\E p \in Producers : Producer(p)) \/ Worker \/ Join

Spec == Init /\ [][Next]_vars

(* Threads that can run do run, and buffered stores drain.  A compare-      *)
(* exchange does not fail for ever while it could succeed.  Nobody has to   *)
(* begin a push, and the worker's function may return at any time.          *)
Fairness ==
  /\ \A p \in Producers :
       /\ WF_vars(ProducerStep(p))
       /\ WF_vars(DrainCell(p))
       /\ SF_vars(Reserve(p))
  /\ WF_vars(WorkerStep)
  /\ WF_vars(DrainWorker)

FairSpec == Spec /\ Fairness

-----------------------------------------------------------------------------
(* Properties *)

\* Messages reserved and not yet received, in any hands.
InFlight == Len(reserved) - Len(delivered)

TypeOK ==
  /\ head \in Index /\ tail \in Index
  /\ buffer \in [Cells -> Message \cup {NULL}]
  /\ isSleeping \in {0, 1}
  /\ sem \in Nat
  /\ ppc \in [Producers -> ProducerPC]
  /\ h \in [Producers -> Index]
  /\ pushes \in [Producers -> 0 .. MaxPush]
  /\ \A p \in Producers : ppc[p] # "idle" => pushes[p] > 0
  /\ cellStore \in [Producers -> [at : Index, msg : Message] \cup {NULL}]
  /\ wpc \in WorkerPC
  /\ attempt \in {1, 2}
  /\ got \in Message \cup {NULL}
  /\ wpc = "advance" => got # NULL
  /\ sb \in Seq(BufferedStore)
  /\ exited \in BOOLEAN
  /\ freed \subseteq Message
  /\ reserved \in Seq(Message)
  /\ delivered \in Seq(Message)

\* A producer never stores into a cell whose message was not taken out yet
\* (line 65, "Write data safely"), whether the store is buffered or not.
NoOverwrite ==
  \A p \in Producers :
    /\ ppc[p] = "store" => buffer[h[p] % QueueSize] = NULL
    /\ cellStore[p] # NULL => buffer[cellStore[p].at % QueueSize] = NULL

\* The worker receives the messages in the order their cells were reserved,
\* each once, and never more than the ring holds are under way.
InOrder ==
  /\ 0 <= InFlight /\ InFlight <= QueueSize
  /\ \A j \in 1 .. Len(delivered) : delivered[j] = reserved[j]

\* While the worker is blocked on its semaphore with something in its mailbox,
\* a producer is still on its way to wake it (the double check, line 108).
NoLostWakeup ==
  wpc = "wait" /\ sem = 0 /\ InFlight > 0
    => \E p \in Producers : ppc[p] \in {"store", "checkSleep", "post"}

\* postMessage fails only when QUEUE_SIZE messages are under way (line 48).
RejectOnlyWhenFull ==
  [][exited' # exited => InFlight = QueueSize]_vars

\* After joinWorker no arena is left behind: each was received or freed by
\* the drain (line 147, "Automatically clear unread items from the queue").
NothingLeaked ==
  wpc = "joined" =>
    \A j \in 1 .. Len(reserved) : j <= Len(delivered) \/ reserved[j] \in freed

\* A message whose cell was reserved is eventually received, unless the
\* worker's function returns or the process exits first.
EventuallyReceived ==
  \A n \in 1 .. MaxPush :
    Len(reserved) >= n ~>
      \/ Len(delivered) >= n
      \/ wpc \in {"done", "joined"}
      \/ exited

-----------------------------------------------------------------------------
(* The inductive invariant *)

\* The counter value under which the j-th reserved message has its cell.
Ticket(j) == (Start + j - 1) % Modulus

PendingTail == \E i \in 1 .. Len(sb) : sb[i].loc = "tail"

\* A producer has reserved the j-th message's cell and its store is not visible.
InProducer(j) ==
  \E p \in Producers :
    \/ ppc[p] = "store" /\ h[p] = Ticket(j)
    \/ cellStore[p] # NULL /\ cellStore[p].at = Ticket(j)

\* The worker has taken the j-th message out of its cell and not advanced tail.
InWorker(j) == wpc = "advance" /\ j = Len(delivered) + 1

CounterInv ==
  /\ Len(delivered) <= Len(reserved)
  /\ Len(reserved) <= MaxPush
  /\ InFlight <= QueueSize
  /\ head = Ticket(Len(reserved) + 1)
  /\ \A i \in 1 .. Len(sb) : sb[i].loc = "tail" => sb[i].val = Ticket(Len(delivered) + 1)
  /\ \E k \in 0 .. Len(delivered) :
       /\ tail = Ticket(k + 1)
       /\ ~PendingTail => k = Len(delivered)

\* What a producer read of head is a value head had; if head still has it and
\* the check was passed there is room.
LocalInv ==
  \A p \in Producers : ppc[p] \in {"loadTail", "cas"} =>
    \E k \in 0 .. Len(reserved) :
      /\ h[p] = Ticket(k + 1)
      /\ ppc[p] = "cas" /\ k = Len(reserved) => InFlight < QueueSize

\* A cell in a producer's hands is that of a message it reserved.
HandsInv ==
  \A p \in Producers :
    /\ ppc[p] = "store" =>
         /\ cellStore[p] = NULL
         /\ \E j \in Len(delivered) + 1 .. Len(reserved) :
              h[p] = Ticket(j) /\ reserved[j] = Arena(p)
    /\ cellStore[p] # NULL =>
         /\ cellStore[p].msg[1] = p
         /\ \E j \in Len(delivered) + 1 .. Len(reserved) :
              cellStore[p].at = Ticket(j) /\ reserved[j] = cellStore[p].msg

WorkerInv ==
  /\ wpc = "advance" =>
       /\ sb = <<>>
       /\ Len(delivered) < Len(reserved)
       /\ got = reserved[Len(delivered) + 1]
       /\ ~InProducer(Len(delivered) + 1)
  /\ wpc = "exchange" => Len(delivered) < Len(reserved)
  /\ wpc = "joined" => \A p \in Producers : ppc[p] = "idle" /\ cellStore[p] = NULL

\* The ring holds exactly the messages under way that are in nobody's hands.
CellInv ==
  wpc # "joined" =>
    \A j \in Len(delivered) + 1 .. Len(delivered) + QueueSize :
      buffer[Ticket(j) % QueueSize] =
        IF j <= Len(reserved) /\ ~InProducer(j) /\ ~InWorker(j)
        THEN reserved[j] ELSE NULL

DeliveredInv == \A j \in 1 .. Len(delivered) : delivered[j] = reserved[j]

\* In sequentially consistent memory the flag is up while the worker goes to sleep.
SleepInv ==
  ~StoreBuffers =>
    /\ sb = <<>>
    /\ wpc \in {"recheck", "wait"} => isSleeping = 1
    /\ NoLostWakeup

\* All of it: what the steps of the mailbox preserve.
IInv ==
  /\ TypeOK
  /\ CounterInv /\ LocalInv /\ HandsInv /\ WorkerInv
  /\ CellInv /\ DeliveredInv /\ SleepInv

-----------------------------------------------------------------------------
(* When the mailbox fails its callers *)

\* A producer's view of the ring is out of date: head moved since it was read,
\* or the worker's last store of tail is still in its buffer.
StaleView(p) == h[p] # head \/ PendingTail

\* The failures that the interleavings, the store buffers and the wrapped
\* counters allow, and no others.  A push is rejected only with a full ring or
\* by a producer whose view of it is out of date (line 56); receiveMessage
\* returns without a message only if none is under way or the next one is
\* still in its producer's hands, and never while it is in the ring (line 96);
\* the drain of sys_thread_join (line 152) misses an arena only if head has
\* wrapped and tail has not.
RejectsForAReason ==
  exited' # exited =>
    \/ InFlight = QueueSize
    \/ \E p \in Producers : ppc'[p] # ppc[p] /\ StaleView(p)

EmptyHandedForAReason ==
  wpc # "idle" /\ wpc' = "idle" /\ delivered' = delivered =>
    attempt = 2 /\ (InFlight = 0 \/ InProducer(Len(delivered) + 1))

LeaksForAReason ==
  wpc' = "joined" =>
    \/ head < tail
    \/ \A j \in 1 .. Len(reserved) : j <= Len(delivered) \/ reserved[j] \in freed'

OnlyKnownLosses ==
  [][RejectsForAReason /\ EmptyHandedForAReason /\ LeaksForAReason]_vars

-----------------------------------------------------------------------------
Fifo ==
  INSTANCE FifoMailbox WITH
    Capacity <- QueueSize,
    sent     <- reserved,
    received <- delivered,
    phase    <- IF exited THEN "exited" ELSE IF wpc = "joined" THEN "closed" ELSE "open"

\* The ring implements the bounded first-in first-out channel.
ImplementsFifo == Fifo!Spec
=============================================================================
