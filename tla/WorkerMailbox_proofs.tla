------------------------ MODULE WorkerMailbox_proofs ------------------------
(***************************************************************************)
(* Proofs about the worker mailbox, for any number of producers, ring     *)
(* size, counter width and start, with and without store buffers.          *)
(***************************************************************************)
EXTENDS WorkerMailbox, TLAPS

-----------------------------------------------------------------------------
(* Counters kept modulo d, such as the uint32_t head and tail of the ring. *)

\* Division with remainder.
LEMMA DivMod ==
  ASSUME NEW a \in Int, NEW d \in Nat \ {0}
  PROVE  /\ a = d * (a \div d) + (a % d)
         /\ a \div d \in Int
         /\ a % d \in 0 .. d - 1
OBVIOUS

\* The remainder is the only number below d that is a multiple of d away.
LEMMA ModUnique ==
  ASSUME NEW d \in Nat \ {0}, NEW a \in Int, NEW k \in Int,
         NEW r \in 0 .. d - 1, a = d * k + r
  PROVE  a % d = r
OBVIOUS

\* Two numbers less than d apart with the same remainder are equal.
LEMMA ModInjective ==
  ASSUME NEW d \in Nat \ {0}, NEW a \in Int, NEW b \in Int,
         a <= b, b < a + d, a % d = b % d
  PROVE  a = b
<1> DEFINE qa == a \div d
           qb == b \div d
           r  == a % d
<1>1. /\ a = d * qa + r
      /\ b = d * qb + r
      /\ qa \in Int /\ qb \in Int /\ r \in 0 .. d - 1
  BY DivMod
<1> HIDE DEF qa, qb, r
<1>2. b - a = d * (qb - qa)
  BY <1>1
<1>3. 0 <= d * (qb - qa) /\ d * (qb - qa) < d /\ d * (qb - qa) \in Int
  BY <1>1, <1>2
<1>4. CASE qb = qa
  BY <1>1, <1>4
<1>5. CASE qb - qa <= -1
  <2>1. d * (qb - qa) <= -d
    BY <1>1, <1>5
  <2> QED
    BY <1>3, <2>1
<1>6. CASE qb - qa >= 1
  <2>1. d * (qb - qa) >= d
    BY <1>1, <1>6
  <2> QED
    BY <1>3, <2>1
<1> QED
  BY <1>1, <1>4, <1>5, <1>6

\* A counter is incremented modulo d without losing count.
LEMMA ModIncrement ==
  ASSUME NEW d \in Nat \ {0}, NEW a \in Int
  PROVE  ((a % d) + 1) % d = (a + 1) % d
<1> DEFINE qa == a \div d
           r  == a % d
           qc == (r + 1) \div d
           s  == (r + 1) % d
<1>1. a = d * qa + r /\ qa \in Int /\ r \in 0 .. d - 1
  BY DivMod
<1>2. r + 1 = d * qc + s /\ qc \in Int /\ s \in 0 .. d - 1
  BY DivMod, <1>1
<1> HIDE DEF qa, r, qc, s
<1>3. a + 1 = d * (qa + qc) + s
  BY <1>1, <1>2
<1>4. (a + 1) % d = s
  BY <1>1, <1>2, <1>3, ModUnique
<1> QED
  BY <1>4 DEF s, r

\* The modular difference of two counters is their difference while that is below d.
LEMMA ModDifference ==
  ASSUME NEW d \in Nat \ {0}, NEW a \in Int, NEW b \in Int,
         0 <= b - a, b - a < d
  PROVE  ((b % d) - (a % d)) % d = b - a
<1> DEFINE qa == a \div d
           ra == a % d
           qb == b \div d
           rb == b % d
<1>1. a = d * qa + ra /\ qa \in Int /\ ra \in 0 .. d - 1
  BY DivMod
<1>2. b = d * qb + rb /\ qb \in Int /\ rb \in 0 .. d - 1
  BY DivMod
<1> HIDE DEF qa, ra, qb, rb
<1>3. rb - ra = d * (qa - qb) + (b - a)
  BY <1>1, <1>2
<1>4. rb - ra \in Int /\ qa - qb \in Int /\ b - a \in 0 .. d - 1
  BY <1>1, <1>2
<1>5. (rb - ra) % d = b - a
  BY <1>3, <1>4, ModUnique
<1> QED
  BY <1>5 DEF ra, rb

\* Where e divides d, a counter modulo d still selects its cell modulo e.
LEMMA ModOfMod ==
  ASSUME NEW d \in Nat \ {0}, NEW e \in Nat \ {0}, d % e = 0, NEW a \in Int
  PROVE  (a % d) % e = a % e
<1> DEFINE qa == a \div d
           ra == a % d
           qd == d \div e
           qr == ra \div e
           rr == ra % e
<1>1. a = d * qa + ra /\ qa \in Int /\ ra \in 0 .. d - 1
  BY DivMod
<1>2. d = e * qd /\ qd \in Int
  BY DivMod
<1>3. ra = e * qr + rr /\ qr \in Int /\ rr \in 0 .. e - 1
  BY DivMod, <1>1
<1> HIDE DEF qa, ra, qd, qr, rr
<1>4. a = e * (qd * qa + qr) + rr
  BY <1>1, <1>2, <1>3
<1>5. a % e = rr
  BY <1>1, <1>2, <1>3, <1>4, ModUnique
<1> QED
  BY <1>5 DEF rr, ra

\* A lap of d later a counter selects the same cell.
LEMMA ModLap ==
  ASSUME NEW d \in Nat \ {0}, NEW a \in Int
  PROVE  (a + d) % d = a % d
<1> DEFINE qa == a \div d
           r  == a % d
<1>1. a = d * qa + r /\ qa \in Int /\ r \in 0 .. d - 1
  BY DivMod
<1> HIDE DEF qa, r
<1>2. a + d = d * (qa + 1) + r
  BY <1>1
<1>3. (a + d) % d = r
  BY <1>1, <1>2, ModUnique
<1> QED
  BY <1>3 DEF r

\* If b has not wrapped past a, the counters from a up to b lie between them.
LEMMA ModBetween ==
  ASSUME NEW d \in Nat \ {0}, NEW a \in Int, NEW b \in Int, NEW c \in Int,
         a <= c, c < b, b - a < d, a % d <= b % d
  PROVE  c % d \in (a % d) .. (b % d) - 1
<1> DEFINE qa == a \div d
           ra == a % d
           rb == b % d
           rc == c % d
<1>1. a = d * qa + ra /\ qa \in Int /\ ra \in 0 .. d - 1 /\ rb \in 0 .. d - 1
  BY DivMod
<1>2. (rb - ra) % d = b - a
  <2>1. 0 <= b - a /\ b - a < d
    OBVIOUS
  <2> QED
    BY ONLY <2>1, ModDifference, d \in Nat \ {0}, a \in Int, b \in Int
<1>3. (rb - ra) % d = rb - ra
  <2>1. rb - ra \in 0 .. d - 1 /\ rb - ra = d * 0 + (rb - ra) /\ rb - ra \in Int
    BY <1>1
  <2> QED
    BY ONLY <2>1, ModUnique, d \in Nat \ {0}
<1> HIDE DEF qa, ra, rb
<1>4. rb = ra + (b - a)
  BY <1>1, <1>2, <1>3
<1>5. ra + (c - a) \in 0 .. d - 1 /\ c = d * qa + (ra + (c - a))
  BY <1>1, <1>4
<1>6. rc = ra + (c - a)
  BY <1>1, <1>5, ModUnique
<1> QED
  BY <1>1, <1>4, <1>6 DEF ra, rb

-----------------------------------------------------------------------------
(* The counters *)

LEMMA TicketType ==
  ASSUME NEW j \in Nat
  PROVE  Ticket(j) \in Index /\ Ticket(j) % QueueSize \in Cells
<1>1. Start + j - 1 \in Int
  BY MailboxAssumption
<1>2. Ticket(j) \in Index
  BY <1>1, MailboxAssumption, DivMod DEF Ticket, Index
<1>3. Ticket(j) % QueueSize \in Cells
  BY <1>2, MailboxAssumption, DivMod DEF Index, Cells
<1> QED
  BY <1>2, <1>3

\* The next ticket is the incremented one.
LEMMA TicketNext ==
  ASSUME NEW j \in Nat
  PROVE  Inc(Ticket(j)) = Ticket(j + 1)
<1>1. Start + j - 1 \in Int /\ (Start + j - 1) + 1 = Start + (j + 1) - 1
  BY MailboxAssumption
<1> QED
  BY <1>1, MailboxAssumption, ModIncrement DEF Ticket, Inc

\* Tickets of messages less than a counter lap apart differ.
LEMMA TicketInjective ==
  ASSUME NEW i \in Nat, NEW j \in Nat, i <= MaxPush + QueueSize, j <= MaxPush + QueueSize,
         i > 0, j > 0, Ticket(i) = Ticket(j)
  PROVE  i = j
<1> DEFINE a == Start + i - 1
           b == Start + j - 1
<1>1. a \in Int /\ b \in Int /\ a < b + Modulus /\ b < a + Modulus
  BY MailboxAssumption
<1>2. a % Modulus = b % Modulus
  BY DEF Ticket
<1>3. a = b
  <2>1. CASE a <= b
    BY ONLY <1>1, <1>2, <2>1, MailboxAssumption, ModInjective
  <2>2. CASE b <= a
    BY ONLY <1>1, <1>2, <2>2, MailboxAssumption, ModInjective
  <2> QED
    BY <1>1, <2>1, <2>2
<1>4. Start \in Nat
  BY MailboxAssumption
<1> QED
  BY <1>3, <1>4

\* The distance of two tickets is that of their messages.
LEMMA TicketDistance ==
  ASSUME NEW i \in Nat, NEW j \in Nat, i <= j, j - i <= MaxPush
  PROVE  Sub(Ticket(j), Ticket(i)) = j - i
<1> DEFINE a == Start + i - 1
           b == Start + j - 1
<1>1. a \in Int /\ b \in Int /\ 0 <= b - a /\ b - a < Modulus /\ b - a = j - i
  BY MailboxAssumption
<1>2. ((b % Modulus) - (a % Modulus)) % Modulus = b - a
  BY ONLY <1>1, MailboxAssumption, ModDifference
<1> QED
  BY <1>1, <1>2 DEF Sub, Ticket

\* Messages less than a ring lap apart have different cells.
LEMMA CellInjective ==
  ASSUME NEW i \in Nat, NEW j \in Nat, i <= j, j < i + QueueSize,
         Ticket(i) % QueueSize = Ticket(j) % QueueSize
  PROVE  i = j
<1> DEFINE a == Start + i - 1
           b == Start + j - 1
<1>1. a \in Int /\ b \in Int /\ a <= b /\ b < a + QueueSize
  BY MailboxAssumption
<1>2. /\ (a % Modulus) % QueueSize = a % QueueSize
      /\ (b % Modulus) % QueueSize = b % QueueSize
  BY ONLY <1>1, MailboxAssumption, ModOfMod
<1>3. a % QueueSize = b % QueueSize
  BY <1>2 DEF Ticket
<1>4. a = b
  BY ONLY <1>1, <1>3, MailboxAssumption, ModInjective
<1> QED
  BY <1>4, MailboxAssumption

\* A ring lap later a message has the same cell.
LEMMA CellLap ==
  ASSUME NEW j \in Nat
  PROVE  Ticket(j + QueueSize) % QueueSize = Ticket(j) % QueueSize
<1> DEFINE a == Start + j - 1
           b == Start + (j + QueueSize) - 1
<1>1. a \in Int /\ b \in Int /\ b = a + QueueSize
  BY MailboxAssumption
<1>2. /\ (a % Modulus) % QueueSize = a % QueueSize
      /\ (b % Modulus) % QueueSize = b % QueueSize
  BY ONLY <1>1, MailboxAssumption, ModOfMod
<1>3. b % QueueSize = a % QueueSize
  BY ONLY <1>1, MailboxAssumption, ModLap
<1> QED
  BY <1>2, <1>3 DEF Ticket

-----------------------------------------------------------------------------
(* Types *)

LEMMA IncType == ASSUME NEW n \in Index PROVE Inc(n) \in Index
<1>1. n + 1 \in Int
  BY MailboxAssumption DEF Index
<1> QED
  BY <1>1, MailboxAssumption, DivMod DEF Inc, Index

LEMMA ModCell == ASSUME NEW n \in Index PROVE n % QueueSize \in Cells
  BY MailboxAssumption, DivMod DEF Index, Cells

LEMMA OwnTailType == ASSUME TypeOK PROVE OwnTail \in Index
<1> DEFINE pending == {i \in 1 .. Len(sb) : sb[i].loc = "tail"}
<1>1. CASE pending = {}
  BY <1>1 DEF OwnTail, TypeOK
<1>2. CASE pending # {}
  <2> DEFINE i == CHOOSE i \in pending : TRUE
  <2>1. i \in pending
    BY <1>2
  <2>2. sb[i] \in BufferedStore
    BY <2>1 DEF TypeOK
  <2>3. sb[i].val \in Index
    BY <2>1, <2>2 DEF BufferedStore
  <2> QED
    BY <1>2, <2>3 DEF OwnTail
<1> QED
  BY <1>1, <1>2

LEMMA ApplyType ==
  ASSUME TypeOK, NEW s \in BufferedStore, Apply(s)
  PROVE  tail' \in Index /\ isSleeping' \in {0, 1}
BY DEF TypeOK, Apply, BufferedStore

LEMMA StoreType ==
  ASSUME TypeOK, NEW s \in BufferedStore, Store(s)
  PROVE  tail' \in Index /\ isSleeping' \in {0, 1} /\ sb' \in Seq(BufferedStore)
<1>1. CASE StoreBuffers
  <2>1. sb' = Append(sb, s) /\ tail' = tail /\ isSleeping' = isSleeping
    BY <1>1 DEF Store
  <2>2. sb \in Seq(BufferedStore) /\ tail \in Index /\ isSleeping \in {0, 1}
    BY DEF TypeOK
  <2> QED
    BY <2>1, <2>2
<1>2. CASE ~StoreBuffers
  BY <1>2, ApplyType DEF TypeOK, Store
<1> QED
  BY <1>1, <1>2

LEMMA ArenaType ==
  ASSUME TypeOK, NEW p \in Producers, ppc[p] # "idle"
  PROVE  Arena(p) \in Message
BY MailboxAssumption DEF TypeOK, Arena, Message

LEMMA InitType == Init => TypeOK
<1> SUFFICES ASSUME Init PROVE TypeOK
  OBVIOUS
<1>1. Start % Modulus \in Index
  <2>1. Start \in Int /\ Modulus \in Nat \ {0}
    BY MailboxAssumption
  <2>2. Start % Modulus \in 0 .. Modulus - 1
    BY ONLY <2>1, DivMod
  <2> QED
    BY <2>2 DEF Index
<1>2. 0 \in Index /\ 0 \in 0 .. MaxPush
  BY MailboxAssumption DEF Index
<1>3. Start % Modulus \in Index => head \in Index /\ tail \in Index
  BY DEF Init
<1>4. /\ buffer \in [Cells -> Message \cup {NULL}]
      /\ cellStore \in [Producers -> [at : Index, msg : Message] \cup {NULL}]
  BY DEF Init
<1>5. /\ h \in [Producers -> Index]
      /\ pushes \in [Producers -> 0 .. MaxPush]
  BY <1>2 DEF Init
<1>6. /\ ppc \in [Producers -> ProducerPC]
      /\ \A p \in Producers : ppc[p] = "idle"
      /\ wpc \in WorkerPC /\ wpc # "advance"
  BY DEF Init, ProducerPC, WorkerPC
<1>7. sb \in Seq(BufferedStore) /\ reserved \in Seq(Message) /\ delivered \in Seq(Message)
  BY DEF Init
<1> QED
  BY <1>1, <1>3, <1>4, <1>5, <1>6, <1>7 DEF Init, TypeOK

\* Every step keeps every variable in its range.
LEMMA StepType == TypeOK /\ [Next]_vars => TypeOK'
<1> SUFFICES ASSUME TypeOK, [Next]_vars PROVE TypeOK'
  OBVIOUS
<1> USE DEF queueVars, producerVars, workerVars, history
<1>1. ASSUME NEW p \in Producers, BeginPush(p) PROVE TypeOK'
  BY <1>1, MailboxAssumption DEF TypeOK, BeginPush, ProducerAt, ProducerPC
<1>2. ASSUME NEW p \in Producers, PassCheck(p) PROVE TypeOK'
  BY <1>2 DEF TypeOK, PassCheck, ProducerAt, ProducerPC
<1>3. ASSUME NEW p \in Producers, RejectPush(p) PROVE TypeOK'
  BY <1>3 DEF TypeOK, RejectPush, ProducerAt, ProducerPC
<1>4. ASSUME NEW p \in Producers, Reserve(p) PROVE TypeOK'
  <2>1. Arena(p) \in Message /\ Inc(head) \in Index
    BY <1>4, ArenaType, IncType DEF TypeOK, Reserve, ProducerAt
  <2> QED
    BY <1>4, <2>1 DEF TypeOK, Reserve, ProducerAt, ProducerPC
<1>5. ASSUME NEW p \in Producers, FailReserve(p) PROVE TypeOK'
  BY <1>5 DEF TypeOK, FailReserve, ProducerAt, ProducerPC
<1>6. ASSUME NEW p \in Producers, StoreCell(p) PROVE TypeOK'
  <2>1. Arena(p) \in Message /\ h[p] \in Index /\ h[p] % QueueSize \in Cells
    BY <1>6, ArenaType, ModCell DEF TypeOK, StoreCell, ProducerAt
  <2>2. /\ buffer' \in [Cells -> Message \cup {NULL}]
        /\ cellStore' \in [Producers -> [at : Index, msg : Message] \cup {NULL}]
    <3>1. CASE StoreBuffers
      <4>1. /\ cellStore' = [cellStore EXCEPT ![p] = [at |-> h[p], msg |-> Arena(p)]]
            /\ buffer' = buffer
        BY <1>6, <3>1 DEF StoreCell
      <4>2. [at |-> h[p], msg |-> Arena(p)] \in [at : Index, msg : Message]
        BY <2>1
      <4>3. /\ buffer \in [Cells -> Message \cup {NULL}]
            /\ cellStore \in [Producers -> [at : Index, msg : Message] \cup {NULL}]
        BY DEF TypeOK
      <4> QED
        BY ONLY <4>1, <4>2, <4>3
    <3>2. CASE ~StoreBuffers
      BY <1>6, <2>1, <3>2 DEF TypeOK, StoreCell
    <3> QED
      BY <3>1, <3>2
  <2>3. ppc' \in [Producers -> ProducerPC] /\ \A q \in Producers : ppc'[q] # "idle" => pushes[q] > 0
    BY <1>6 DEF TypeOK, StoreCell, ProducerAt, ProducerPC
  <2> QED
    BY <1>6, <2>2, <2>3 DEF TypeOK, StoreCell
<1>7. ASSUME NEW p \in Producers, CheckSleep(p) PROVE TypeOK'
  BY <1>7 DEF TypeOK, CheckSleep, ProducerAt, ProducerPC
<1>8. ASSUME NEW p \in Producers, Post(p) PROVE TypeOK'
  BY <1>8 DEF TypeOK, Post, ProducerAt, ProducerPC
<1>9. ASSUME NEW p \in Producers, DrainCell(p) PROVE TypeOK'
  <2>1. cellStore[p] \in [at : Index, msg : Message]
    BY <1>9 DEF TypeOK, DrainCell
  <2>2. cellStore[p].at % QueueSize \in Cells /\ cellStore[p].msg \in Message
    BY <2>1, ModCell
  <2> QED
    BY <1>9, <2>2 DEF TypeOK, DrainCell
<1>10. ASSUME Receive PROVE TypeOK'
  BY <1>10 DEF TypeOK, Receive, WorkerAt, WorkerPC
<1>11. ASSUME PopLoad PROVE TypeOK'
  BY <1>11 DEF TypeOK, PopLoad, WorkerAt, WorkerPC, AfterEmptyPop
<1>12. ASSUME PopExchange PROVE TypeOK'
  <2>1. OwnTail % QueueSize \in Cells
    BY OwnTailType, ModCell
  <2> QED
    BY <1>12, <2>1 DEF TypeOK, PopExchange, WorkerAt, WorkerPC, AfterEmptyPop
<1>13. ASSUME PopAdvance PROVE TypeOK'
  <2>1. TailStore(Inc(OwnTail)) \in BufferedStore
    BY OwnTailType, IncType DEF TailStore, BufferedStore
  <2>2. tail' \in Index /\ isSleeping' \in {0, 1} /\ sb' \in Seq(BufferedStore)
    BY <1>13, <2>1, StoreType DEF PopAdvance
  <2> QED
    BY <1>13, <2>2 DEF TypeOK, PopAdvance, WorkerAt, WorkerPC
<1>14. ASSUME SetFlag PROVE TypeOK'
  <2>1. SleepStore(1) \in BufferedStore
    BY DEF SleepStore, BufferedStore
  <2>2. tail' \in Index /\ isSleeping' \in {0, 1} /\ sb' \in Seq(BufferedStore)
    BY <1>14, <2>1, StoreType DEF SetFlag
  <2> QED
    BY <1>14, <2>2 DEF TypeOK, SetFlag, WorkerAt, WorkerPC
<1>15. ASSUME Recheck PROVE TypeOK'
  BY <1>15 DEF TypeOK, Recheck, WorkerAt, WorkerPC
<1>16. ASSUME SemWait PROVE TypeOK'
  BY <1>16 DEF TypeOK, SemWait, WorkerAt, WorkerPC
<1>17. ASSUME ClearFlag PROVE TypeOK'
  <2>1. SleepStore(0) \in BufferedStore
    BY DEF SleepStore, BufferedStore
  <2>2. tail' \in Index /\ isSleeping' \in {0, 1} /\ sb' \in Seq(BufferedStore)
    BY <1>17, <2>1, StoreType DEF ClearFlag
  <2> QED
    BY <1>17, <2>2 DEF TypeOK, ClearFlag, WorkerAt, WorkerPC
<1>18. ASSUME DrainWorker PROVE TypeOK'
  <2>1. Head(sb) \in BufferedStore /\ Tail(sb) \in Seq(BufferedStore)
    BY <1>18 DEF TypeOK, DrainWorker
  <2>2. tail' \in Index /\ isSleeping' \in {0, 1}
    BY <1>18, <2>1, ApplyType DEF DrainWorker
  <2> QED
    BY <1>18, <2>1, <2>2 DEF TypeOK, DrainWorker
<1>19. ASSUME Finish PROVE TypeOK'
  BY <1>19 DEF TypeOK, Finish, WorkerAt, WorkerPC
<1>20. ASSUME Join PROVE TypeOK'
  <2>1. DrainedCells \subseteq Cells
    BY MailboxAssumption, DivMod DEF DrainedCells, Cells, TypeOK, Index
  <2> QED
    BY <1>20, <2>1 DEF TypeOK, Join, WorkerAt, WorkerPC
<1>21. CASE UNCHANGED vars
  BY <1>21 DEF TypeOK, vars
<1> QED
  BY <1>1, <1>2, <1>3, <1>4, <1>5, <1>6, <1>7, <1>8, <1>9, <1>10, <1>11, <1>12, <1>13,
     <1>14, <1>15, <1>16, <1>17, <1>18, <1>19, <1>20, <1>21
  DEF Next, Producer, ProducerStep, Worker, WorkerStep

\* The mailbox keeps its counters, cells and threads' positions in range.
THEOREM TypeCorrect == Spec => []TypeOK
BY InitType, StepType, PTL DEF Spec

-----------------------------------------------------------------------------
(* The inductive invariant: consequences *)

\* The worker's view of tail is the ticket of the next message to receive.
LEMMA OwnTailTicket ==
  ASSUME TypeOK, CounterInv
  PROVE  OwnTail = Ticket(Len(delivered) + 1)
<1> DEFINE pending == {i \in 1 .. Len(sb) : sb[i].loc = "tail"}
<1>1. CASE pending = {}
  <2>1. ~PendingTail
    BY <1>1 DEF PendingTail
  <2> QED
    BY <1>1, <2>1 DEF OwnTail, CounterInv
<1>2. CASE pending # {}
  <2> DEFINE i == CHOOSE i \in pending : TRUE
  <2>1. i \in pending
    BY <1>2
  <2>2. sb[i].val = Ticket(Len(delivered) + 1)
    BY <2>1 DEF CounterInv
  <2> QED
    BY <1>2, <2>2 DEF OwnTail
<1> QED
  BY <1>1, <1>2

LEMMA Lengths ==
  ASSUME TypeOK, CounterInv
  PROVE  /\ Len(reserved) \in Nat /\ Len(delivered) \in Nat
         /\ MaxPush \in Nat /\ QueueSize \in Nat \ {0} /\ Start \in Nat
         /\ Len(delivered) <= Len(reserved) /\ Len(reserved) <= MaxPush
         /\ Len(reserved) - Len(delivered) <= QueueSize
BY MailboxAssumption DEF TypeOK, CounterInv, InFlight

\* The worker finds the ring empty exactly when nothing is under way.
LEMMA EmptyTest ==
  ASSUME TypeOK, CounterInv
  PROVE  OwnTail = head <=> Len(reserved) = Len(delivered)
<1> DEFINE i == Len(delivered) + 1
           j == Len(reserved) + 1
<1>1. OwnTail = Ticket(i) /\ head = Ticket(j)
  BY OwnTailTicket DEF CounterInv
<1>2. i \in Nat /\ j \in Nat /\ i > 0 /\ j > 0 /\ i <= MaxPush + QueueSize /\ j <= MaxPush + QueueSize
  BY Lengths
<1>3. Ticket(i) = Ticket(j) => i = j
  BY ONLY <1>2, TicketInjective
<1> QED
  BY <1>1, <1>3, Lengths

\* The invariant implies what the runs check.
LEMMA IInvImpliesNoOverwrite == IInv => NoOverwrite
<1> SUFFICES ASSUME IInv, NEW p \in Producers
             PROVE  /\ ppc[p] = "store" => buffer[h[p] % QueueSize] = NULL
                    /\ cellStore[p] # NULL => buffer[cellStore[p].at % QueueSize] = NULL
  BY DEF NoOverwrite
<1>1. ASSUME NEW j \in Len(delivered) + 1 .. Len(reserved), InProducer(j), wpc # "joined"
      PROVE  buffer[Ticket(j) % QueueSize] = NULL
  <2>1. j \in Len(delivered) + 1 .. Len(delivered) + QueueSize
    BY Lengths DEF IInv
  <2> QED
    BY <1>1, <2>1 DEF IInv, CellInv
<1>2. ASSUME ppc[p] = "store"
      PROVE  buffer[h[p] % QueueSize] = NULL
  <2>1. PICK j \in Len(delivered) + 1 .. Len(reserved) : h[p] = Ticket(j)
    BY <1>2 DEF IInv, HandsInv
  <2>2. InProducer(j) /\ wpc # "joined"
    BY <1>2, <2>1 DEF InProducer, IInv, WorkerInv
  <2> QED
    BY <1>1, <2>1, <2>2
<1>3. ASSUME cellStore[p] # NULL
      PROVE  buffer[cellStore[p].at % QueueSize] = NULL
  <2>1. PICK j \in Len(delivered) + 1 .. Len(reserved) : cellStore[p].at = Ticket(j)
    BY <1>3 DEF IInv, HandsInv
  <2>2. InProducer(j) /\ wpc # "joined"
    BY <1>3, <2>1 DEF InProducer, IInv, WorkerInv
  <2> QED
    BY <1>1, <2>1, <2>2
<1> QED
  BY <1>2, <1>3

LEMMA IInvImpliesInOrder == IInv => InOrder
<1> SUFFICES ASSUME IInv PROVE InOrder
  OBVIOUS
<1> QED
  BY Lengths DEF IInv, InOrder, InFlight, DeliveredInv

-----------------------------------------------------------------------------
(* The inductive invariant: the initial state *)

LEMMA InitIInv == Init => IInv
<1> SUFFICES ASSUME Init PROVE IInv
  OBVIOUS
<1>1. TypeOK
  BY InitType
<1>2. Len(reserved) = 0 /\ Len(delivered) = 0 /\ Len(sb) = 0
  BY DEF Init
<1>3. head = Ticket(1) /\ tail = Ticket(1)
  <2>1. Start + 1 - 1 = Start
    BY MailboxAssumption
  <2> QED
    BY <2>1 DEF Init, Ticket
<1>4. CounterInv
  BY <1>2, <1>3, MailboxAssumption DEF CounterInv, InFlight, PendingTail
<1>5. LocalInv /\ HandsInv
  BY DEF Init, LocalInv, HandsInv
<1>6. WorkerInv
  BY DEF Init, WorkerInv
<1>7. CellInv
  <2> SUFFICES ASSUME NEW j \in 1 .. QueueSize
               PROVE  buffer[Ticket(j) % QueueSize] = NULL /\ ~(j <= Len(reserved))
    BY <1>2, MailboxAssumption DEF CellInv
  <2>1. Ticket(j) % QueueSize \in Cells
    BY TicketType
  <2> QED
    BY <1>2, <2>1 DEF Init
<1>8. DeliveredInv
  BY <1>2 DEF DeliveredInv
<1>9. SleepInv
  BY DEF Init, SleepInv, NoLostWakeup
<1> QED
  BY <1>1, <1>4, <1>5, <1>6, <1>7, <1>8, <1>9 DEF IInv

-----------------------------------------------------------------------------
(* The inductive invariant: producers' steps *)

\* Which messages are in producers' hands depends on few things.
LEMMA HandsFrame ==
  ASSUME NEW j,
         \A p \in Producers : ppc'[p] = "store" <=> ppc[p] = "store",
         \A p \in Producers : ppc[p] = "store" => h'[p] = h[p],
         cellStore' = cellStore
  PROVE  InProducer(j)' <=> InProducer(j)
BY DEF InProducer, Ticket

\* A producer moving between the points at which it holds no cell disturbs
\* only what concerns its locals and the semaphore.
LEMMA ProducerMoves ==
  ASSUME IInv, NEW p \in Producers, NEW x \in ProducerPC,
         UNCHANGED <<queueVars, workerVars, cellStore, history>>,
         ppc' = [ppc EXCEPT ![p] = x],
         ppc[p] # "store", x # "store", wpc # "joined",
         \A q \in Producers : q # p => h'[q] = h[q] /\ pushes'[q] = pushes[q]
  PROVE  CounterInv' /\ HandsInv' /\ WorkerInv' /\ CellInv' /\ DeliveredInv'
<1> USE DEF queueVars, workerVars, history
<1>1. CounterInv'
  BY DEF IInv, CounterInv, InFlight, PendingTail, Ticket
<1>2. \A q \in Producers : /\ ppc'[q] = "store" <=> ppc[q] = "store"
                           /\ ppc[q] = "store" => q # p
  BY DEF IInv, TypeOK
<1>3. \A j : InProducer(j)' <=> InProducer(j)
  BY <1>2, HandsFrame
<1>4. HandsInv'
  <2> SUFFICES ASSUME NEW q \in Producers
               PROVE  /\ ppc'[q] = "store" =>
                           /\ cellStore'[q] = NULL
                           /\ \E j \in Len(delivered) + 1 .. Len(reserved) :
                                h'[q] = Ticket(j) /\ reserved[j] = Arena(q)'
                      /\ cellStore'[q] # NULL =>
                           /\ cellStore'[q].msg[1] = q
                           /\ \E j \in Len(delivered) + 1 .. Len(reserved) :
                                cellStore'[q].at = Ticket(j) /\ reserved[j] = cellStore'[q].msg
    BY DEF HandsInv, Ticket
  <2>1. ppc'[q] = "store" => ppc[q] = "store" /\ h'[q] = h[q] /\ Arena(q)' = Arena(q)
    BY <1>2 DEF Arena
  <2> QED
    BY <2>1 DEF IInv, HandsInv
<1>5. WorkerInv'
  BY <1>3 DEF IInv, WorkerInv
<1>6. CellInv'
  BY <1>3 DEF IInv, CellInv, InWorker, Ticket
<1>7. DeliveredInv'
  BY DEF IInv, DeliveredInv
<1> QED
  BY <1>1, <1>4, <1>5, <1>6, <1>7

LEMMA BeginPushStep ==
  ASSUME IInv, NEW p \in Producers, BeginPush(p), TypeOK'
  PROVE  IInv'
<1> USE DEF queueVars, workerVars, history
<1>1. CounterInv' /\ HandsInv' /\ WorkerInv' /\ CellInv' /\ DeliveredInv'
  BY ProducerMoves DEF BeginPush, ProducerAt, ProducerPC, IInv, TypeOK
<1>2. LocalInv'
  <2>1. ppc'[p] = "loadTail" /\ h'[p] = Ticket(Len(reserved) + 1)
    BY DEF BeginPush, ProducerAt, IInv, TypeOK, CounterInv
  <2>2. Len(reserved) \in 0 .. Len(reserved)
    BY DEF IInv, TypeOK
  <2> QED
    BY <2>1, <2>2 DEF BeginPush, ProducerAt, IInv, TypeOK, LocalInv, InFlight, Ticket
<1>3. SleepInv'
  BY DEF BeginPush, ProducerAt, IInv, TypeOK, SleepInv, NoLostWakeup, InFlight
<1> QED
  BY <1>1, <1>2, <1>3 DEF IInv

\* The check of room, made with a value head had and one tail had.
LEMMA PassCheckStep ==
  ASSUME IInv, NEW p \in Producers, PassCheck(p), TypeOK'
  PROVE  IInv'
<1> USE DEF queueVars, workerVars, history
<1>1. CounterInv' /\ HandsInv' /\ WorkerInv' /\ CellInv' /\ DeliveredInv'
  BY ProducerMoves DEF PassCheck, ProducerAt, ProducerPC, IInv, TypeOK, WorkerInv
<1>2. LocalInv'
  <2>1. PICK k \in 0 .. Len(reserved) : h[p] = Ticket(k + 1)
    BY DEF PassCheck, ProducerAt, IInv, LocalInv
  <2>2. k = Len(reserved) => InFlight < QueueSize
    <3> SUFFICES ASSUME k = Len(reserved) PROVE InFlight < QueueSize
      OBVIOUS
    <3>1. PICK t \in 0 .. Len(delivered) : tail = Ticket(t + 1)
      BY DEF IInv, CounterInv
    <3>2. Sub(h[p], tail) = (k + 1) - (t + 1)
      BY <2>1, <3>1, Lengths, TicketDistance DEF IInv
    <3>3. Sub(h[p], tail) < QueueSize
      BY DEF PassCheck
    <3> QED
      BY <3>1, <3>2, <3>3, Lengths DEF IInv, InFlight
  <2> QED
    BY <2>1, <2>2 DEF PassCheck, ProducerAt, IInv, TypeOK, LocalInv, InFlight, Ticket
<1>3. SleepInv'
  BY DEF PassCheck, ProducerAt, IInv, TypeOK, SleepInv, NoLostWakeup, InFlight
<1> QED
  BY <1>1, <1>2, <1>3 DEF IInv

LEMMA RejectPushStep ==
  ASSUME IInv, NEW p \in Producers, RejectPush(p), TypeOK'
  PROVE  IInv'
<1> USE DEF queueVars, workerVars, history
<1>1. CounterInv' /\ HandsInv' /\ WorkerInv' /\ CellInv' /\ DeliveredInv'
  BY ProducerMoves DEF RejectPush, ProducerAt, ProducerPC, IInv, TypeOK, WorkerInv
<1>2. LocalInv'
  BY DEF RejectPush, ProducerAt, IInv, TypeOK, LocalInv, InFlight, Ticket
<1>3. SleepInv'
  BY DEF RejectPush, ProducerAt, IInv, TypeOK, SleepInv, NoLostWakeup, InFlight
<1> QED
  BY <1>1, <1>2, <1>3 DEF IInv

LEMMA FailReserveStep ==
  ASSUME IInv, NEW p \in Producers, FailReserve(p), TypeOK'
  PROVE  IInv'
<1> USE DEF queueVars, workerVars, history
<1>1. CounterInv' /\ HandsInv' /\ WorkerInv' /\ CellInv' /\ DeliveredInv'
  BY ProducerMoves DEF FailReserve, ProducerAt, ProducerPC, IInv, TypeOK, WorkerInv
<1>2. LocalInv'
  <2>1. ppc'[p] = "loadTail" /\ h'[p] = Ticket(Len(reserved) + 1)
    BY DEF FailReserve, ProducerAt, IInv, TypeOK, CounterInv
  <2>2. Len(reserved) \in 0 .. Len(reserved)
    BY DEF IInv, TypeOK
  <2> QED
    BY <2>1, <2>2 DEF FailReserve, ProducerAt, IInv, TypeOK, LocalInv, InFlight, Ticket
<1>3. SleepInv'
  BY DEF FailReserve, ProducerAt, IInv, TypeOK, SleepInv, NoLostWakeup, InFlight
<1> QED
  BY <1>1, <1>2, <1>3 DEF IInv

\* A sleeping worker is seen to sleep, so its producer goes on to post.
LEMMA CheckSleepStep ==
  ASSUME IInv, NEW p \in Producers, CheckSleep(p), TypeOK'
  PROVE  IInv'
<1> USE DEF queueVars, workerVars, history
<1>1. CounterInv' /\ HandsInv' /\ WorkerInv' /\ CellInv' /\ DeliveredInv'
  BY ProducerMoves DEF CheckSleep, ProducerAt, ProducerPC, IInv, TypeOK, WorkerInv
<1>2. LocalInv'
  BY DEF CheckSleep, ProducerAt, IInv, TypeOK, LocalInv, InFlight, Ticket
<1>3. SleepInv'
  <2> SUFFICES ASSUME ~StoreBuffers
               PROVE  /\ sb' = <<>>
                      /\ wpc' \in {"recheck", "wait"} => isSleeping' = 1
                      /\ NoLostWakeup'
    BY DEF SleepInv
  <2>1. CASE isSleeping = 1
    BY <2>1 DEF CheckSleep, ProducerAt, IInv, TypeOK, SleepInv, NoLostWakeup, InFlight
  <2>2. CASE isSleeping = 0
    BY <2>2 DEF CheckSleep, ProducerAt, IInv, TypeOK, SleepInv, NoLostWakeup, InFlight
  <2> QED
    BY <2>1, <2>2 DEF CheckSleep
<1> QED
  BY <1>1, <1>2, <1>3 DEF IInv

LEMMA PostStep ==
  ASSUME IInv, NEW p \in Producers, Post(p), TypeOK'
  PROVE  IInv'
<1> USE DEF queueVars, workerVars, history
<1>1. CounterInv' /\ HandsInv' /\ WorkerInv' /\ CellInv' /\ DeliveredInv'
  BY ProducerMoves DEF Post, ProducerAt, ProducerPC, IInv, TypeOK, WorkerInv
<1>2. LocalInv'
  BY DEF Post, ProducerAt, IInv, TypeOK, LocalInv, InFlight, Ticket
<1>3. SleepInv'
  <2>1. sem' # 0
    BY DEF Post, IInv, TypeOK
  <2> QED
    BY <2>1 DEF Post, ProducerAt, IInv, SleepInv, NoLostWakeup
<1> QED
  BY <1>1, <1>2, <1>3 DEF IInv

\* No two producers hold the same message, and none holds one twice.
LEMMA OneHolder ==
  ASSUME IInv, NEW p \in Producers, NEW q \in Producers,
         NEW j \in Len(delivered) + 1 .. Len(reserved),
         \/ ppc[p] = "store" /\ h[p] = Ticket(j)
         \/ cellStore[p] # NULL /\ cellStore[p].at = Ticket(j),
         \/ ppc[q] = "store" /\ h[q] = Ticket(j)
         \/ cellStore[q] # NULL /\ cellStore[q].at = Ticket(j)
  PROVE  p = q
<1>1. ASSUME NEW r \in Producers,
             \/ ppc[r] = "store" /\ h[r] = Ticket(j)
             \/ cellStore[r] # NULL /\ cellStore[r].at = Ticket(j)
      PROVE  reserved[j][1] = r
  <2>1. PICK i \in Len(delivered) + 1 .. Len(reserved) :
          Ticket(i) = Ticket(j) /\ (reserved[i] = Arena(r) \/ reserved[i][1] = r)
    BY <1>1 DEF IInv, HandsInv
  <2>2. i = j
    BY <2>1, Lengths, TicketInjective DEF IInv
  <2> QED
    BY <2>1, <2>2 DEF Arena
<1>2. reserved[j][1] = p
  BY <1>1
<1>3. reserved[j][1] = q
  BY <1>1
<1> QED
  BY <1>2, <1>3

\* The compare-exchange succeeds only while there is room: head has not moved
\* since the check, for it could not have gone all the way round.
LEMMA ReserveRoom ==
  ASSUME IInv, NEW p \in Producers, Reserve(p)
  PROVE  /\ InFlight < QueueSize
         /\ h[p] = Ticket(Len(reserved) + 1)
         /\ Len(reserved) < MaxPush
<1>1. PICK k \in 0 .. Len(reserved) :
        /\ h[p] = Ticket(k + 1)
        /\ k = Len(reserved) => InFlight < QueueSize
  BY DEF Reserve, ProducerAt, IInv, LocalInv
<1>2. h[p] = Ticket(Len(reserved) + 1)
  BY DEF Reserve, IInv, CounterInv
<1>3. k + 1 = Len(reserved) + 1
  <2>1. /\ k + 1 \in Nat /\ Len(reserved) + 1 \in Nat
        /\ k + 1 <= MaxPush + QueueSize /\ Len(reserved) + 1 <= MaxPush + QueueSize
        /\ k + 1 > 0 /\ Len(reserved) + 1 > 0
    BY Lengths DEF IInv
  <2>2. Ticket(k + 1) = Ticket(Len(reserved) + 1)
    BY <1>1, <1>2
  <2> QED
    BY ONLY <2>1, <2>2, TicketInjective
<1> QED
  BY <1>1, <1>2, <1>3, Lengths DEF Reserve, IInv

LEMMA ReserveStep ==
  ASSUME IInv, NEW p \in Producers, Reserve(p), TypeOK'
  PROVE  IInv'
<1> DEFINE n == Len(reserved) + 1
<1>0. /\ Len(reserved') = n /\ reserved'[n] = Arena(p) /\ n \in Nat
      /\ \A j \in 1 .. Len(reserved) : reserved'[j] = reserved[j]
      /\ delivered' = delivered
  BY DEF Reserve, IInv, TypeOK
<1>1. InFlight < QueueSize /\ h[p] = Ticket(n) /\ n <= MaxPush
  BY ReserveRoom, Lengths DEF IInv
<1>2. CounterInv'
  <2>1. head' = Ticket(n + 1)
    BY <1>1, Lengths, TicketNext DEF Reserve, IInv
  <2>2. /\ Len(delivered') <= Len(reserved')
        /\ Len(reserved') <= MaxPush
        /\ InFlight' <= QueueSize
    BY <1>0, <1>1, Lengths DEF IInv, InFlight
  <2>3. PendingTail' <=> PendingTail
    BY DEF Reserve, workerVars, PendingTail
  <2> QED
    BY <1>0, <2>1, <2>2, <2>3 DEF Reserve, workerVars, IInv, CounterInv, Ticket
<1>3. LocalInv'
  <2> SUFFICES ASSUME NEW q \in Producers, ppc'[q] \in {"loadTail", "cas"}
               PROVE  \E k \in 0 .. Len(reserved') :
                        /\ h'[q] = Ticket(k + 1)
                        /\ ppc'[q] = "cas" /\ k = Len(reserved') => InFlight' < QueueSize
    BY DEF LocalInv, Ticket
  <2>1. ppc[q] \in {"loadTail", "cas"} /\ h'[q] = h[q]
    BY DEF Reserve, ProducerAt, IInv, TypeOK
  <2>2. PICK k \in 0 .. Len(reserved) : h[q] = Ticket(k + 1)
    BY <2>1 DEF IInv, LocalInv
  <2>3. k \in 0 .. Len(reserved') /\ k # Len(reserved')
    BY <1>0, Lengths DEF IInv
  <2> QED
    BY <2>1, <2>2, <2>3
<1>4. \A q \in Producers : q # p => /\ ppc'[q] = ppc[q] /\ h'[q] = h[q]
                                    /\ cellStore'[q] = cellStore[q] /\ Arena(q)' = Arena(q)
  BY DEF Reserve, ProducerAt, IInv, TypeOK, Arena
<1>5. ppc'[p] = "store" /\ h'[p] = h[p] /\ cellStore'[p] = NULL /\ Arena(p)' = Arena(p)
  BY DEF Reserve, ProducerAt, IInv, TypeOK, Arena
<1>6. HandsInv'
  <2> SUFFICES ASSUME NEW q \in Producers
               PROVE  /\ ppc'[q] = "store" =>
                           /\ cellStore'[q] = NULL
                           /\ \E j \in Len(delivered) + 1 .. n :
                                h'[q] = Ticket(j) /\ reserved'[j] = Arena(q)'
                      /\ cellStore'[q] # NULL =>
                           /\ cellStore'[q].msg[1] = q
                           /\ \E j \in Len(delivered) + 1 .. n :
                                cellStore'[q].at = Ticket(j) /\ reserved'[j] = cellStore'[q].msg
    BY <1>0 DEF HandsInv, Ticket
  <2>1. CASE q = p
    <3>1. n \in Len(delivered) + 1 .. n
      BY Lengths DEF IInv
    <3> QED
      BY <1>0, <1>1, <1>5, <2>1, <3>1
  <2>2. CASE q # p
    <3>1. \A j \in Len(delivered) + 1 .. Len(reserved) :
            j \in Len(delivered) + 1 .. n /\ reserved'[j] = reserved[j]
      BY <1>0, Lengths DEF IInv
    <3> QED
      BY <1>4, <2>2, <3>1 DEF IInv, HandsInv
  <2> QED
    BY <2>1, <2>2
<1>7. ASSUME NEW j \in Len(delivered) + 1 .. Len(delivered) + QueueSize
      PROVE  InProducer(j)' <=> (InProducer(j) \/ j = n)
  <2>1. h[p] = Ticket(j) <=> j = n
    <3>1. /\ j \in Nat /\ n \in Nat /\ j > 0 /\ n > 0
          /\ j <= MaxPush + QueueSize /\ n <= MaxPush + QueueSize
      BY <1>0, <1>1, Lengths DEF IInv
    <3>2. Ticket(j) = Ticket(n) => j = n
      BY ONLY <3>1, TicketInjective
    <3> QED
      BY <1>1, <3>2
  <2>2. cellStore[p] = NULL /\ ppc[p] # "store"
    BY DEF Reserve, ProducerAt
  <2> QED
    BY <1>4, <1>5, <2>1, <2>2 DEF InProducer, Ticket
<1>8. WorkerInv'
  <2>1. wpc # "joined"
    BY DEF Reserve, ProducerAt, IInv, WorkerInv
  <2>2. ASSUME wpc = "advance"
        PROVE  /\ sb' = <<>>
               /\ Len(delivered') < Len(reserved')
               /\ got' = reserved'[Len(delivered') + 1]
               /\ ~InProducer(Len(delivered) + 1)'
    <3>1. /\ Len(delivered) + 1 \in 1 .. Len(reserved)
          /\ Len(delivered) + 1 \in Len(delivered) + 1 .. Len(delivered) + QueueSize
          /\ Len(delivered) + 1 # n
      BY <2>2, Lengths DEF IInv, WorkerInv
    <3> QED
      BY <1>0, <1>7, <2>2, <3>1, Lengths DEF IInv, WorkerInv, Reserve, workerVars
  <2>3. wpc = "exchange" => Len(delivered') < Len(reserved')
    BY <1>0, Lengths DEF IInv
  <2> QED
    BY <1>0, <2>1, <2>2, <2>3 DEF WorkerInv, Reserve, workerVars
<1>9. CellInv'
  <2> SUFFICES ASSUME NEW j \in Len(delivered) + 1 .. Len(delivered) + QueueSize, wpc # "joined"
               PROVE  buffer[Ticket(j) % QueueSize] =
                        IF j <= n /\ ~InProducer(j)' /\ ~InWorker(j)
                        THEN reserved'[j] ELSE NULL
    BY <1>0 DEF CellInv, Ticket, Reserve, workerVars, InWorker
  <2>1. CASE j = n
    BY <1>7, <2>1, Lengths DEF IInv, CellInv
  <2>2. CASE j # n
    <3>1. j <= n <=> j <= Len(reserved)
      BY <2>2, Lengths DEF IInv
    <3>2. j <= Len(reserved) => reserved'[j] = reserved[j]
      BY <1>0, Lengths DEF IInv
    <3> QED
      BY <1>7, <2>2, <3>1, <3>2 DEF IInv, CellInv
  <2> QED
    BY <2>1, <2>2
<1>10. DeliveredInv'
  BY <1>0, Lengths DEF DeliveredInv, IInv
<1>11. SleepInv'
  BY <1>5 DEF SleepInv, NoLostWakeup, Reserve, workerVars, IInv
<1> QED
  BY <1>2, <1>3, <1>6, <1>8, <1>9, <1>10, <1>11 DEF IInv

\* A producer holds at most one message.
LEMMA HoldsOne ==
  ASSUME IInv, NEW p \in Producers,
         NEW i \in Len(delivered) + 1 .. Len(reserved),
         NEW j \in Len(delivered) + 1 .. Len(reserved),
         \/ ppc[p] = "store" /\ h[p] = Ticket(i)
         \/ cellStore[p] # NULL /\ cellStore[p].at = Ticket(i),
         \/ ppc[p] = "store" /\ h[p] = Ticket(j)
         \/ cellStore[p] # NULL /\ cellStore[p].at = Ticket(j)
  PROVE  i = j
<1>1. Ticket(i) = Ticket(j)
  BY DEF IInv, HandsInv
<1>2. /\ i \in Nat /\ j \in Nat /\ i > 0 /\ j > 0
      /\ i <= MaxPush + QueueSize /\ j <= MaxPush + QueueSize
  BY Lengths DEF IInv
<1> QED
  BY ONLY <1>1, <1>2, TicketInjective

\* A store of the j-th message becomes visible: it was in p's hands and now
\* is in its cell.
LEMMA CellFilled ==
  ASSUME IInv, NEW p \in Producers, wpc # "joined",
         NEW j \in Len(delivered) + 1 .. Len(reserved),
         \/ ppc[p] = "store" /\ h[p] = Ticket(j)
         \/ cellStore[p] # NULL /\ cellStore[p].at = Ticket(j),
         buffer' = [buffer EXCEPT ![Ticket(j) % QueueSize] = reserved[j]],
         ppc'[p] # "store", cellStore'[p] = NULL,
         \A q \in Producers : q # p => /\ ppc'[q] = ppc[q] /\ h'[q] = h[q]
                                      /\ cellStore'[q] = cellStore[q],
         UNCHANGED <<workerVars, history>>
  PROVE  WorkerInv' /\ CellInv'
<1> USE DEF workerVars, history
<1>1. ASSUME NEW i \in Len(delivered) + 1 .. Len(delivered) + QueueSize
      PROVE  i <= Len(reserved) => (InProducer(i)' <=> (InProducer(i) /\ i # j))
  <2>1. SUFFICES ASSUME i <= Len(reserved)
                 PROVE  InProducer(i)' <=> (InProducer(i) /\ i # j)
    OBVIOUS
  <2>2. i \in Len(delivered) + 1 .. Len(reserved)
    BY <2>1, Lengths DEF IInv
  <2>3. CASE i = j
    <3>1. ~InProducer(j)'
      BY OneHolder DEF InProducer, Ticket
    <3> QED
      BY <2>3, <3>1
  <2>4. CASE i # j
    <3>1. ~\/ ppc[p] = "store" /\ h[p] = Ticket(i)
           \/ cellStore[p] # NULL /\ cellStore[p].at = Ticket(i)
      BY <2>2, <2>4, HoldsOne
    <3> QED
      BY <3>1 DEF InProducer, Ticket
  <2> QED
    BY <2>3, <2>4
<1>2. InProducer(j)
  BY DEF InProducer
<1>3. WorkerInv'
  <2>1. ASSUME wpc = "advance"
        PROVE  /\ Len(delivered) < Len(reserved)
               /\ ~InProducer(Len(delivered) + 1)'
    <3>1. /\ Len(delivered) < Len(reserved)
          /\ Len(delivered) + 1 \in Len(delivered) + 1 .. Len(delivered) + QueueSize
      BY <2>1, Lengths DEF IInv, WorkerInv
    <3> QED
      BY <1>1, <2>1, <3>1, Lengths DEF IInv, WorkerInv
  <2> QED
    BY <2>1 DEF IInv, WorkerInv
<1>4. CellInv'
  <2> SUFFICES ASSUME NEW i \in Len(delivered) + 1 .. Len(delivered) + QueueSize
               PROVE  buffer'[Ticket(i) % QueueSize] =
                        IF i <= Len(reserved) /\ ~InProducer(i)' /\ ~InWorker(i)
                        THEN reserved[i] ELSE NULL
    BY DEF CellInv, Ticket, InWorker
  <2>1. Ticket(j) % QueueSize \in Cells /\ Ticket(i) % QueueSize \in Cells
    BY Lengths, TicketType DEF IInv
  <2>2. CASE i = j
    <3>1. ~InWorker(j)
      BY <1>2 DEF InWorker, IInv, WorkerInv
    <3> QED
      BY <1>1, <2>1, <2>2, <3>1 DEF IInv, TypeOK
  <2>3. CASE i # j
    <3>1. Ticket(i) % QueueSize # Ticket(j) % QueueSize
      <4>1. /\ i \in Nat /\ j \in Nat /\ QueueSize \in Nat
            /\ i < j + QueueSize /\ j < i + QueueSize
        BY Lengths DEF IInv
      <4>2. CASE i <= j
        BY ONLY <4>1, <4>2, <2>3, CellInjective
      <4>3. CASE j <= i
        BY ONLY <4>1, <4>3, <2>3, CellInjective
      <4> QED
        BY <4>1, <4>2, <4>3
    <3>2. buffer'[Ticket(i) % QueueSize] = buffer[Ticket(i) % QueueSize]
      BY <2>1, <3>1 DEF IInv, TypeOK
    <3> QED
      BY <1>1, <2>3, <3>2 DEF IInv, CellInv
  <2> QED
    BY <2>2, <2>3
<1> QED
  BY <1>3, <1>4

LEMMA StoreCellStep ==
  ASSUME IInv, NEW p \in Producers, StoreCell(p), TypeOK'
  PROVE  IInv'
<1> USE DEF queueVars, workerVars, history
<1>1. ppc[p] = "store" /\ cellStore[p] = NULL /\ wpc # "joined" /\ ppc'[p] = "checkSleep"
  BY DEF StoreCell, ProducerAt, IInv, HandsInv, WorkerInv, TypeOK
<1>2. PICK j \in Len(delivered) + 1 .. Len(reserved) : h[p] = Ticket(j) /\ reserved[j] = Arena(p)
  BY <1>1 DEF IInv, HandsInv
<1>3. \A q \in Producers : q # p => /\ ppc'[q] = ppc[q] /\ h'[q] = h[q]
                                    /\ cellStore'[q] = cellStore[q] /\ Arena(q)' = Arena(q)
  BY DEF StoreCell, ProducerAt, IInv, TypeOK, Arena
<1>4. CounterInv'
  BY DEF StoreCell, IInv, CounterInv, InFlight, PendingTail, Ticket
<1>5. LocalInv'
  BY DEF StoreCell, ProducerAt, IInv, TypeOK, LocalInv, InFlight, Ticket
<1>6. DeliveredInv'
  BY DEF StoreCell, IInv, DeliveredInv
<1>7. SleepInv'
  BY <1>1, <1>3 DEF StoreCell, IInv, SleepInv, NoLostWakeup, InFlight
<1>8. HandsInv' /\ WorkerInv' /\ CellInv'
  <2>1. CASE StoreBuffers
    <3>1. /\ cellStore'[p] = [at |-> h[p], msg |-> Arena(p)]
          /\ buffer' = buffer
      BY <2>1 DEF StoreCell, IInv, TypeOK
    <3>2. cellStore'[p] # NULL
      BY <1>1, <3>1, ArenaType, MailboxAssumption DEF IInv, TypeOK
    <3>3. \A i : InProducer(i)' <=> InProducer(i)
      BY <1>1, <1>3, <3>1, <3>2 DEF InProducer, Ticket
    <3>4. HandsInv'
      <4> SUFFICES ASSUME NEW q \in Producers
                   PROVE  /\ ppc'[q] = "store" =>
                               /\ cellStore'[q] = NULL
                               /\ \E i \in Len(delivered) + 1 .. Len(reserved) :
                                    h'[q] = Ticket(i) /\ reserved[i] = Arena(q)'
                          /\ cellStore'[q] # NULL =>
                               /\ cellStore'[q].msg[1] = q
                               /\ \E i \in Len(delivered) + 1 .. Len(reserved) :
                                    cellStore'[q].at = Ticket(i) /\ reserved[i] = cellStore'[q].msg
        BY DEF HandsInv, Ticket, StoreCell
      <4>1. CASE q = p
        BY <1>1, <1>2, <3>1, <4>1 DEF Arena
      <4>2. CASE q # p
        BY <1>3, <4>2 DEF IInv, HandsInv
      <4> QED
        BY <4>1, <4>2
    <3>5. WorkerInv'
      BY <1>1, <3>3 DEF StoreCell, IInv, WorkerInv
    <3>6. CellInv'
      BY <3>1, <3>3 DEF StoreCell, IInv, CellInv, InWorker, Ticket
    <3> QED
      BY <3>4, <3>5, <3>6
  <2>2. CASE ~StoreBuffers
    <3>1. /\ cellStore' = cellStore
          /\ buffer' = [buffer EXCEPT ![Ticket(j) % QueueSize] = reserved[j]]
      BY <1>2, <2>2 DEF StoreCell
    <3>2. WorkerInv' /\ CellInv'
      BY <1>1, <1>2, <1>3, <3>1, CellFilled DEF StoreCell
    <3>3. HandsInv'
      <4> SUFFICES ASSUME NEW q \in Producers
                   PROVE  /\ ppc'[q] = "store" =>
                               /\ cellStore'[q] = NULL
                               /\ \E i \in Len(delivered) + 1 .. Len(reserved) :
                                    h'[q] = Ticket(i) /\ reserved[i] = Arena(q)'
                          /\ cellStore'[q] # NULL =>
                               /\ cellStore'[q].msg[1] = q
                               /\ \E i \in Len(delivered) + 1 .. Len(reserved) :
                                    cellStore'[q].at = Ticket(i) /\ reserved[i] = cellStore'[q].msg
        BY DEF HandsInv, Ticket, StoreCell
      <4>1. CASE q = p
        BY <1>1, <3>1, <4>1
      <4>2. CASE q # p
        BY <1>3, <4>2 DEF IInv, HandsInv
      <4> QED
        BY <4>1, <4>2
    <3> QED
      BY <3>2, <3>3
  <2> QED
    BY <2>1, <2>2
<1> QED
  BY <1>4, <1>5, <1>6, <1>7, <1>8 DEF IInv

LEMMA DrainCellStep ==
  ASSUME IInv, NEW p \in Producers, DrainCell(p), TypeOK'
  PROVE  IInv'
<1> USE DEF queueVars, workerVars, history
<1>1. /\ cellStore[p] # NULL /\ ppc[p] # "store" /\ wpc # "joined"
      /\ cellStore'[p] = NULL /\ ppc' = ppc
  BY DEF DrainCell, IInv, HandsInv, WorkerInv, TypeOK
<1>2. PICK j \in Len(delivered) + 1 .. Len(reserved) :
        cellStore[p].at = Ticket(j) /\ reserved[j] = cellStore[p].msg
  BY <1>1 DEF IInv, HandsInv
<1>3. \A q \in Producers : q # p => /\ ppc'[q] = ppc[q] /\ h'[q] = h[q]
                                    /\ cellStore'[q] = cellStore[q] /\ Arena(q)' = Arena(q)
  BY DEF DrainCell, IInv, TypeOK, Arena
<1>4. CounterInv'
  BY DEF DrainCell, IInv, CounterInv, InFlight, PendingTail, Ticket
<1>5. LocalInv'
  BY DEF DrainCell, IInv, LocalInv, InFlight, Ticket
<1>6. DeliveredInv'
  BY DEF DrainCell, IInv, DeliveredInv
<1>7. SleepInv'
  BY DEF DrainCell, IInv, SleepInv, NoLostWakeup, InFlight
<1>8. WorkerInv' /\ CellInv'
  <2>1. buffer' = [buffer EXCEPT ![Ticket(j) % QueueSize] = reserved[j]]
    BY <1>2 DEF DrainCell
  <2>2. UNCHANGED <<head, tail, workerVars, history>> /\ h' = h
    BY DEF DrainCell
  <2> QED
    BY <1>1, <1>2, <1>3, <2>1, <2>2, CellFilled
<1>9. HandsInv'
  <2> SUFFICES ASSUME NEW q \in Producers
               PROVE  /\ ppc'[q] = "store" =>
                           /\ cellStore'[q] = NULL
                           /\ \E i \in Len(delivered) + 1 .. Len(reserved) :
                                h'[q] = Ticket(i) /\ reserved[i] = Arena(q)'
                      /\ cellStore'[q] # NULL =>
                           /\ cellStore'[q].msg[1] = q
                           /\ \E i \in Len(delivered) + 1 .. Len(reserved) :
                                cellStore'[q].at = Ticket(i) /\ reserved[i] = cellStore'[q].msg
    BY DEF HandsInv, Ticket, DrainCell
  <2>1. CASE q = p
    BY <1>1, <2>1
  <2>2. CASE q # p
    BY <1>3, <2>2 DEF IInv, HandsInv
  <2> QED
    BY <2>1, <2>2
<1> QED
  BY <1>4, <1>5, <1>6, <1>7, <1>8, <1>9 DEF IInv

-----------------------------------------------------------------------------
(* The inductive invariant: the worker's steps *)

\* The worker moving without touching memory, its buffer or the pointer in hand.
LEMMA WorkerMoves ==
  ASSUME IInv, UNCHANGED <<queueVars, producerVars, got, sb, history>>,
         wpc # "advance", wpc' # "advance", wpc # "joined", wpc' # "joined",
         wpc' = "exchange" => Len(delivered) < Len(reserved)
  PROVE  CounterInv' /\ LocalInv' /\ HandsInv' /\ WorkerInv' /\ CellInv' /\ DeliveredInv'
<1> USE DEF queueVars, producerVars, history
<1>1. \A j : InProducer(j)' <=> InProducer(j)
  BY DEF InProducer, Ticket
<1>2. CounterInv'
  BY DEF IInv, CounterInv, InFlight, PendingTail, Ticket
<1>3. LocalInv'
  BY DEF IInv, LocalInv, InFlight, Ticket
<1>4. HandsInv'
  BY DEF IInv, HandsInv, Arena, Ticket
<1>5. WorkerInv'
  BY DEF WorkerInv
<1>6. CellInv'
  BY <1>1 DEF IInv, CellInv, InWorker, Ticket
<1>7. DeliveredInv'
  BY DEF IInv, DeliveredInv
<1> QED
  BY <1>2, <1>3, <1>4, <1>5, <1>6, <1>7

LEMMA ReceiveStep == ASSUME IInv, Receive, TypeOK' PROVE IInv'
<1>1. CounterInv' /\ LocalInv' /\ HandsInv' /\ WorkerInv' /\ CellInv' /\ DeliveredInv'
  BY WorkerMoves DEF Receive, WorkerAt
<1>2. SleepInv'
  BY DEF Receive, WorkerAt, IInv, SleepInv, NoLostWakeup
<1> QED
  BY <1>1, <1>2 DEF IInv

LEMMA PopLoadStep == ASSUME IInv, PopLoad, TypeOK' PROVE IInv'
<1>1. wpc' = "exchange" => Len(delivered) < Len(reserved)
  BY EmptyTest, Lengths DEF PopLoad, WorkerAt, AfterEmptyPop, IInv
<1>2. CounterInv' /\ LocalInv' /\ HandsInv' /\ WorkerInv' /\ CellInv' /\ DeliveredInv'
  BY <1>1, WorkerMoves DEF PopLoad, WorkerAt, AfterEmptyPop
<1>3. SleepInv'
  BY DEF PopLoad, WorkerAt, AfterEmptyPop, IInv, SleepInv, NoLostWakeup
<1> QED
  BY <1>2, <1>3 DEF IInv

\* The exchange takes the oldest message under way, if its producer stored it.
LEMMA PopExchangeStep == ASSUME IInv, PopExchange, TypeOK' PROVE IInv'
<1> USE DEF queueVars, producerVars, history
<1> DEFINE n == Len(delivered) + 1
           c == Ticket(n) % QueueSize
<1>1. /\ wpc = "exchange" /\ sb = <<>> /\ got' = buffer[c]
      /\ buffer' = [buffer EXCEPT ![c] = NULL]
      /\ wpc' = IF buffer[c] = NULL THEN AfterEmptyPop ELSE "advance"
  BY OwnTailTicket DEF PopExchange, WorkerAt, IInv
<1>2. /\ n \in Len(delivered) + 1 .. Len(delivered) + QueueSize
      /\ n \in 1 .. Len(reserved) /\ n \in Nat
  BY <1>1, Lengths DEF IInv, WorkerInv
<1>3. c \in Cells
  BY <1>2, TicketType
<1>4. buffer[c] = IF ~InProducer(n) THEN reserved[n] ELSE NULL
  BY <1>1, <1>2 DEF IInv, CellInv, InWorker
<1>5. reserved[n] # NULL
  BY <1>2, MailboxAssumption DEF IInv, TypeOK
<1>6. \A j : InProducer(j)' <=> InProducer(j)
  BY DEF PopExchange, InProducer, Ticket
<1>7. CounterInv'
  BY DEF PopExchange, IInv, CounterInv, InFlight, PendingTail, Ticket
<1>8. LocalInv'
  BY DEF PopExchange, IInv, LocalInv, InFlight, Ticket
<1>9. HandsInv'
  BY DEF PopExchange, IInv, HandsInv, Arena, Ticket
<1>10. DeliveredInv'
  BY DEF PopExchange, IInv, DeliveredInv
<1>11. SleepInv'
  BY <1>1 DEF PopExchange, AfterEmptyPop, IInv, SleepInv, NoLostWakeup
<1>12. wpc' # "joined" /\ wpc' # "exchange"
  BY <1>1 DEF AfterEmptyPop
<1>13. wpc' = "advance" <=> ~InProducer(n)
  BY <1>1, <1>4, <1>5 DEF AfterEmptyPop
<1>14. WorkerInv'
  BY <1>1, <1>2, <1>4, <1>6, <1>12, <1>13, Lengths DEF PopExchange, IInv, WorkerInv
<1>15. CellInv'
  <2> SUFFICES ASSUME NEW j \in Len(delivered) + 1 .. Len(delivered) + QueueSize
               PROVE  buffer'[Ticket(j) % QueueSize] =
                        IF j <= Len(reserved) /\ ~InProducer(j) /\ ~(wpc' = "advance" /\ j = n)
                        THEN reserved[j] ELSE NULL
    BY <1>6 DEF CellInv, Ticket, InWorker, PopExchange
  <2>1. Ticket(j) % QueueSize \in Cells
    BY Lengths, TicketType DEF IInv
  <2>2. CASE j = n
    BY <1>1, <1>3, <1>13, <2>2 DEF IInv, TypeOK
  <2>3. CASE j # n
    <3>1. Ticket(j) % QueueSize # c
      <4>1. j \in Nat /\ n <= j /\ j < n + QueueSize
        BY <1>2, Lengths DEF IInv
      <4> QED
        BY ONLY <1>2, <2>3, <4>1, CellInjective
    <3>2. buffer'[Ticket(j) % QueueSize] = buffer[Ticket(j) % QueueSize]
      BY <1>1, <2>1, <3>1 DEF IInv, TypeOK
    <3> QED
      BY <1>1, <2>3, <3>2 DEF IInv, CellInv, InWorker
  <2> QED
    BY <2>2, <2>3
<1> QED
  BY <1>7, <1>8, <1>9, <1>10, <1>11, <1>14, <1>15 DEF IInv

\* Advancing tail hands the message over and frees its cell for the next lap.
LEMMA PopAdvanceStep == ASSUME IInv, PopAdvance, TypeOK' PROVE IInv'
<1> USE DEF producerVars
<1> DEFINE n == Len(delivered) + 1
<1>1. /\ wpc = "advance" /\ wpc' = "idle" /\ sb = <<>>
      /\ got = reserved[n] /\ n <= Len(reserved) /\ ~InProducer(n)
      /\ n \in Nat /\ n \in 1 .. Len(reserved)
  BY Lengths DEF PopAdvance, WorkerAt, IInv, WorkerInv
<1>2. /\ Len(delivered') = n /\ delivered'[n] = reserved[n]
      /\ \A j \in 1 .. Len(delivered) : delivered'[j] = delivered[j]
      /\ reserved' = reserved
  BY <1>1, MailboxAssumption DEF PopAdvance, IInv, TypeOK
<1>3. Inc(OwnTail) = Ticket(n + 1)
  BY <1>1, OwnTailTicket, TicketNext DEF IInv
<1>4. CounterInv'
  <2>1. /\ Len(delivered') <= Len(reserved')
        /\ Len(reserved') <= MaxPush
        /\ InFlight' <= QueueSize
    BY <1>1, <1>2, Lengths DEF IInv, InFlight
  <2>2. head' = Ticket(Len(reserved') + 1)
    BY <1>2 DEF PopAdvance, IInv, CounterInv
  <2>3. /\ \A i \in 1 .. Len(sb') : sb'[i].loc = "tail" => sb'[i].val = Ticket(n + 1)
        /\ \E k \in 0 .. n : tail' = Ticket(k + 1) /\ (~PendingTail' => k = n)
    <3>1. CASE StoreBuffers
      <4>1. Len(sb') = 1 /\ sb'[1] = [loc |-> "tail", val |-> Ticket(n + 1)] /\ tail' = tail
        BY <1>1, <1>3, <3>1 DEF PopAdvance, Store, TailStore
      <4>2. PendingTail'
        BY <4>1 DEF PendingTail
      <4>3. PICK k \in 0 .. Len(delivered) : tail = Ticket(k + 1)
        BY DEF IInv, CounterInv
      <4>4. k \in 0 .. n
        BY <1>1, Lengths DEF IInv
      <4> QED
        BY <4>1, <4>2, <4>3, <4>4
    <3>2. CASE ~StoreBuffers
      <4>1. sb' = <<>> /\ tail' = Ticket(n + 1)
        BY <1>1, <1>3, <3>2 DEF PopAdvance, Store, Apply, TailStore
      <4>2. n \in 0 .. n
        BY <1>1
      <4> QED
        BY <4>1, <4>2
    <3> QED
      BY <3>1, <3>2
  <2> QED
    BY <1>2, <2>1, <2>2, <2>3 DEF CounterInv, Ticket
<1>5. LocalInv'
  <2>1. InFlight' < InFlight
    BY <1>1, <1>2, Lengths DEF IInv, InFlight
  <2> QED
    BY <1>2, <2>1, Lengths DEF PopAdvance, IInv, LocalInv, Ticket, InFlight
<1>6. \A j : InProducer(j)' <=> InProducer(j)
  BY DEF PopAdvance, InProducer, Ticket
<1>7. HandsInv'
  <2> SUFFICES ASSUME NEW q \in Producers
               PROVE  /\ ppc'[q] = "store" =>
                           /\ cellStore'[q] = NULL
                           /\ \E j \in Len(delivered') + 1 .. Len(reserved') :
                                h'[q] = Ticket(j) /\ reserved'[j] = Arena(q)'
                      /\ cellStore'[q] # NULL =>
                           /\ cellStore'[q].msg[1] = q
                           /\ \E j \in Len(delivered') + 1 .. Len(reserved') :
                                cellStore'[q].at = Ticket(j) /\ reserved'[j] = cellStore'[q].msg
    BY DEF HandsInv, Ticket
  <2>0. ppc' = ppc /\ h' = h /\ cellStore' = cellStore /\ Arena(q)' = Arena(q)
    BY DEF PopAdvance, Arena
  <2>1. ASSUME NEW j \in Len(delivered) + 1 .. Len(reserved), InProducer(j)
        PROVE  j \in n + 1 .. Len(reserved)
    BY <1>1, <2>1, Lengths DEF IInv
  <2>2. ASSUME ppc[q] = "store"
        PROVE  \E j \in n + 1 .. Len(reserved) : h[q] = Ticket(j) /\ reserved[j] = Arena(q)
    <3>1. PICK j \in Len(delivered) + 1 .. Len(reserved) : h[q] = Ticket(j) /\ reserved[j] = Arena(q)
      BY <2>2 DEF IInv, HandsInv
    <3>2. InProducer(j)
      BY <2>2, <3>1 DEF InProducer
    <3> QED
      BY <2>1, <3>1, <3>2
  <2>3. ASSUME cellStore[q] # NULL
        PROVE  \E j \in n + 1 .. Len(reserved) :
                 cellStore[q].at = Ticket(j) /\ reserved[j] = cellStore[q].msg
    <3>1. PICK j \in Len(delivered) + 1 .. Len(reserved) :
            cellStore[q].at = Ticket(j) /\ reserved[j] = cellStore[q].msg
      BY <2>3 DEF IInv, HandsInv
    <3>2. InProducer(j)
      BY <2>3, <3>1 DEF InProducer
    <3> QED
      BY <2>1, <3>1, <3>2
  <2> QED
    BY <1>2, <2>0, <2>2, <2>3 DEF IInv, HandsInv
<1>8. WorkerInv'
  BY <1>1 DEF WorkerInv
<1>9. CellInv'
  <2> SUFFICES ASSUME NEW j \in n + 1 .. n + QueueSize
               PROVE  buffer[Ticket(j) % QueueSize] =
                        IF j <= Len(reserved) /\ ~InProducer(j) THEN reserved[j] ELSE NULL
    BY <1>1, <1>2, <1>6 DEF CellInv, Ticket, InWorker, PopAdvance
  <2>1. CASE j = n + QueueSize
    <3>1. Ticket(j) % QueueSize = Ticket(n) % QueueSize
      BY <1>1, <2>1, CellLap
    <3>2. n \in Len(delivered) + 1 .. Len(delivered) + QueueSize
      BY <1>1, Lengths DEF IInv
    <3>3. buffer[Ticket(n) % QueueSize] = NULL
      BY <1>1, <3>2 DEF IInv, CellInv, InWorker
    <3>4. ~(j <= Len(reserved))
      BY <2>1, Lengths DEF IInv
    <3> QED
      BY <3>1, <3>3, <3>4
  <2>2. CASE j # n + QueueSize
    <3>1. j \in Len(delivered) + 1 .. Len(delivered) + QueueSize /\ j # n
      BY <1>1, <2>2, Lengths DEF IInv
    <3> QED
      BY <1>1, <3>1 DEF IInv, CellInv, InWorker
  <2> QED
    BY <2>1, <2>2
<1>10. DeliveredInv'
  <2>1. \A j \in 1 .. n : j = n \/ j \in 1 .. Len(delivered)
    BY <1>1, Lengths DEF IInv
  <2> QED
    BY <1>2, <2>1 DEF IInv, DeliveredInv
<1>11. SleepInv'
  BY <1>1 DEF PopAdvance, Store, IInv, SleepInv, NoLostWakeup
<1> QED
  BY <1>4, <1>5, <1>7, <1>8, <1>9, <1>10, <1>11 DEF IInv

\* Storing is_sleeping concerns neither the counters nor the cells.
LEMMA SleepStoreMoves ==
  ASSUME IInv, NEW b \in {0, 1}, Store(SleepStore(b)),
         UNCHANGED <<head, buffer, producerVars, history>>,
         wpc \notin {"advance", "joined"}, wpc' \notin {"advance", "joined", "exchange"}
  PROVE  CounterInv' /\ LocalInv' /\ HandsInv' /\ WorkerInv' /\ CellInv' /\ DeliveredInv'
<1> USE DEF producerVars, history
<1>1. tail' = tail
  BY DEF Store, Apply, SleepStore
<1>2. /\ \A i \in 1 .. Len(sb') : sb'[i].loc = "tail" => i \in 1 .. Len(sb) /\ sb'[i] = sb[i]
      /\ PendingTail' <=> PendingTail
  <2>1. CASE StoreBuffers
    <3>1. sb' = Append(sb, SleepStore(b)) /\ sb \in Seq(BufferedStore)
      BY <2>1 DEF Store, IInv, TypeOK
    <3>2. /\ Len(sb') = Len(sb) + 1 /\ Len(sb) \in Nat
          /\ \A i \in 1 .. Len(sb) : sb'[i] = sb[i]
          /\ sb'[Len(sb) + 1].loc = "sleeping"
      BY <3>1 DEF SleepStore
    <3>3. \A i \in 1 .. Len(sb') : sb'[i].loc = "tail" => i \in 1 .. Len(sb)
      BY <3>2
    <3> QED
      BY <3>2, <3>3 DEF PendingTail
  <2>2. CASE ~StoreBuffers
    BY <2>2 DEF Store, PendingTail
  <2> QED
    BY <2>1, <2>2
<1>3. CounterInv'
  BY <1>1, <1>2 DEF IInv, CounterInv, InFlight, Ticket
<1>4. \A j : InProducer(j)' <=> InProducer(j)
  BY DEF InProducer, Ticket
<1>5. LocalInv'
  BY DEF IInv, LocalInv, InFlight, Ticket
<1>6. HandsInv'
  BY DEF IInv, HandsInv, Arena, Ticket
<1>7. WorkerInv'
  BY DEF WorkerInv
<1>8. CellInv'
  BY <1>4 DEF IInv, CellInv, InWorker, Ticket
<1>9. DeliveredInv'
  BY DEF IInv, DeliveredInv
<1> QED
  BY <1>3, <1>5, <1>6, <1>7, <1>8, <1>9

LEMMA SetFlagStep == ASSUME IInv, SetFlag, TypeOK' PROVE IInv'
<1>1. CounterInv' /\ LocalInv' /\ HandsInv' /\ WorkerInv' /\ CellInv' /\ DeliveredInv'
  BY SleepStoreMoves DEF SetFlag, WorkerAt
<1>2. SleepInv'
  BY DEF SetFlag, WorkerAt, Store, Apply, SleepStore, IInv, SleepInv, NoLostWakeup
<1> QED
  BY <1>1, <1>2 DEF IInv

\* The worker goes to wait only after it saw the ring empty with its flag up.
LEMMA RecheckStep == ASSUME IInv, Recheck, TypeOK' PROVE IInv'
<1>1. CounterInv' /\ LocalInv' /\ HandsInv' /\ WorkerInv' /\ CellInv' /\ DeliveredInv'
  BY WorkerMoves DEF Recheck, WorkerAt
<1>2. wpc' = "wait" => InFlight' = 0
  BY EmptyTest, Lengths DEF Recheck, WorkerAt, IInv, InFlight, history
<1>3. SleepInv'
  BY <1>2 DEF Recheck, WorkerAt, IInv, SleepInv, NoLostWakeup
<1> QED
  BY <1>1, <1>3 DEF IInv

LEMMA SemWaitStep == ASSUME IInv, SemWait, TypeOK' PROVE IInv'
<1>1. CounterInv' /\ LocalInv' /\ HandsInv' /\ WorkerInv' /\ CellInv' /\ DeliveredInv'
  BY WorkerMoves DEF SemWait, WorkerAt
<1>2. SleepInv'
  BY DEF SemWait, WorkerAt, IInv, SleepInv, NoLostWakeup
<1> QED
  BY <1>1, <1>2 DEF IInv

LEMMA ClearFlagStep == ASSUME IInv, ClearFlag, TypeOK' PROVE IInv'
<1>1. CounterInv' /\ LocalInv' /\ HandsInv' /\ WorkerInv' /\ CellInv' /\ DeliveredInv'
  BY SleepStoreMoves DEF ClearFlag, WorkerAt
<1>2. SleepInv'
  BY DEF ClearFlag, WorkerAt, Store, IInv, SleepInv, NoLostWakeup
<1> QED
  BY <1>1, <1>2 DEF IInv

LEMMA DrainWorkerStep == ASSUME IInv, DrainWorker, TypeOK' PROVE IInv'
<1> USE DEF producerVars, history
<1>1. /\ wpc \notin {"advance"} /\ wpc' = wpc
      /\ sb # <<>> /\ sb' = Tail(sb) /\ sb \in Seq(BufferedStore)
  BY DEF DrainWorker, IInv, WorkerInv, TypeOK
<1>2. /\ Len(sb) \in Nat \ {0} /\ Len(sb') = Len(sb) - 1 /\ Head(sb) = sb[1]
      /\ \A i \in 1 .. Len(sb') : sb'[i] = sb[i + 1] /\ i + 1 \in 1 .. Len(sb)
  BY <1>1
<1>3. CounterInv'
  <2>1. \A i \in 1 .. Len(sb') : sb'[i].loc = "tail" => sb'[i].val = Ticket(Len(delivered) + 1)
    BY <1>2 DEF IInv, CounterInv
  <2>2. \E k \in 0 .. Len(delivered) :
          tail' = Ticket(k + 1) /\ (~PendingTail' => k = Len(delivered))
    <3>1. CASE Head(sb).loc = "tail"
      <4>1. tail' = Ticket(Len(delivered) + 1)
        BY <1>2, <3>1 DEF DrainWorker, Apply, IInv, CounterInv
      <4>2. Len(delivered) \in 0 .. Len(delivered)
        BY Lengths DEF IInv
      <4> QED
        BY <4>1, <4>2
    <3>2. CASE Head(sb).loc # "tail"
      <4>1. tail' = tail
        BY <3>2 DEF DrainWorker, Apply
      <4>2. ASSUME PendingTail PROVE PendingTail'
        <5>1. PICK i \in 1 .. Len(sb) : sb[i].loc = "tail"
          BY <4>2 DEF PendingTail
        <5>2. i - 1 \in 1 .. Len(sb') /\ sb'[i - 1] = sb[i]
          <6>1. i # 1
            BY <1>2, <3>2, <5>1
          <6>2. i - 1 \in 1 .. Len(sb')
            BY <1>2, <6>1
          <6> QED
            BY <1>2, <6>2
        <5> QED
          BY <5>1, <5>2 DEF PendingTail
      <4> QED
        BY <4>1, <4>2 DEF IInv, CounterInv
    <3> QED
      BY <3>1, <3>2
  <2> QED
    BY <2>1, <2>2 DEF DrainWorker, IInv, CounterInv, InFlight, Ticket
<1>4. \A j : InProducer(j)' <=> InProducer(j)
  BY DEF DrainWorker, InProducer, Ticket
<1>5. LocalInv'
  BY DEF DrainWorker, IInv, LocalInv, InFlight, Ticket
<1>6. HandsInv'
  BY DEF DrainWorker, IInv, HandsInv, Arena, Ticket
<1>7. WorkerInv'
  BY <1>1 DEF DrainWorker, IInv, WorkerInv
<1>8. CellInv'
  BY <1>4 DEF DrainWorker, IInv, CellInv, InWorker, Ticket
<1>9. DeliveredInv'
  BY DEF DrainWorker, IInv, DeliveredInv
<1>10. SleepInv'
  BY <1>1 DEF IInv, SleepInv
<1> QED
  BY <1>3, <1>5, <1>6, <1>7, <1>8, <1>9, <1>10 DEF IInv

LEMMA FinishStep == ASSUME IInv, Finish, TypeOK' PROVE IInv'
<1>1. CounterInv' /\ LocalInv' /\ HandsInv' /\ WorkerInv' /\ CellInv' /\ DeliveredInv'
  BY WorkerMoves DEF Finish, WorkerAt
<1>2. SleepInv'
  BY DEF Finish, WorkerAt, IInv, SleepInv, NoLostWakeup
<1> QED
  BY <1>1, <1>2 DEF IInv

LEMMA JoinStep == ASSUME IInv, Join, TypeOK' PROVE IInv'
<1> USE DEF producerVars, history
<1>1. wpc' = "joined"
  BY DEF Join, WorkerAt
<1>2. CounterInv'
  BY DEF Join, IInv, CounterInv, InFlight, PendingTail, Ticket
<1>3. LocalInv' /\ HandsInv' /\ DeliveredInv'
  BY DEF Join, IInv, LocalInv, HandsInv, DeliveredInv
<1>4. WorkerInv' /\ CellInv'
  BY <1>1 DEF Join, WorkerInv, CellInv
<1>5. SleepInv'
  BY <1>1 DEF Join, IInv, SleepInv, NoLostWakeup
<1> QED
  BY <1>2, <1>3, <1>4, <1>5 DEF IInv

\* Every step of the mailbox preserves the invariant.
LEMMA StepIInv == IInv /\ [Next]_vars => IInv'
<1> SUFFICES ASSUME IInv, [Next]_vars PROVE IInv'
  OBVIOUS
<1>1. TypeOK'
  BY StepType DEF IInv
<1>2. CASE UNCHANGED vars
  <2> USE DEF vars, queueVars, producerVars, workerVars, history
  <2>1. \A j : InProducer(j)' <=> InProducer(j)
    BY <1>2 DEF InProducer, Ticket
  <2>2. CounterInv'
    BY <1>2 DEF IInv, CounterInv, InFlight, PendingTail, Ticket
  <2>3. LocalInv'
    BY <1>2 DEF IInv, LocalInv, InFlight, Ticket
  <2>4. HandsInv'
    BY <1>2 DEF IInv, HandsInv, Arena, Ticket
  <2>5. WorkerInv'
    BY <1>2, <2>1 DEF IInv, WorkerInv
  <2>6. CellInv'
    BY <1>2, <2>1 DEF IInv, CellInv, InWorker, Ticket
  <2>7. DeliveredInv' /\ SleepInv'
    BY <1>2 DEF IInv, DeliveredInv, SleepInv, NoLostWakeup, InFlight
  <2> QED
    BY <1>1, <2>2, <2>3, <2>4, <2>5, <2>6, <2>7 DEF IInv
<1>3. ASSUME NEW p \in Producers, Producer(p) PROVE IInv'
  BY <1>1, <1>3, BeginPushStep, PassCheckStep, RejectPushStep, ReserveStep, FailReserveStep,
     StoreCellStep, CheckSleepStep, PostStep, DrainCellStep
  DEF Producer, ProducerStep
<1>4. ASSUME Worker PROVE IInv'
  BY <1>1, <1>4, ReceiveStep, PopLoadStep, PopExchangeStep, PopAdvanceStep, SetFlagStep,
     RecheckStep, SemWaitStep, ClearFlagStep, DrainWorkerStep, FinishStep
  DEF Worker, WorkerStep
<1> QED
  BY <1>1, <1>2, <1>3, <1>4, JoinStep DEF Next

-----------------------------------------------------------------------------
(* The theorems *)

\* The inductive invariant holds throughout, for any number of producers, any
\* ring size and counter width, with and without store buffers.
THEOREM Invariance == Spec => []IInv
BY InitIInv, StepIInv, PTL DEF Spec

\* No producer ever stores over a message that was not taken out yet.
THEOREM NeverOverwrites == Spec => []NoOverwrite
BY Invariance, IInvImpliesNoOverwrite, PTL

\* Messages are received in the order of reservation, each at most once, and
\* never more than the ring holds are under way.
THEOREM ReceivesInOrder == Spec => []InOrder
BY Invariance, IInvImpliesInOrder, PTL

\* In sequentially consistent memory the worker never blocks with a message in
\* its mailbox unless a producer is on its way to wake it.
THEOREM WakeupsArrive ==
  ASSUME ~StoreBuffers
  PROVE  Spec => []NoLostWakeup
<1>1. IInv => NoLostWakeup
  BY DEF IInv, SleepInv
<1> QED
  BY <1>1, Invariance, PTL

\* Every step of the ring is a step of the first-in first-out channel, or none.
LEMMA FifoStep == IInv /\ [Next]_vars => [Fifo!Next]_(Fifo!fifoVars)
<1> SUFFICES ASSUME IInv, [Next]_vars PROVE Fifo!Next \/ UNCHANGED Fifo!fifoVars
  OBVIOUS
<1> USE DEF queueVars, producerVars, workerVars, history
<1>1. ASSUME NEW p \in Producers, Reserve(p) PROVE Fifo!Next
  <2>1. ~exited /\ wpc # "joined" /\ exited' = exited /\ wpc' = wpc
    BY <1>1 DEF Reserve, ProducerAt, IInv, WorkerInv
  <2>2. Arena(p) \in Message
    BY <1>1, ArenaType DEF Reserve, ProducerAt, IInv
  <2>3. Len(reserved) - Len(delivered) < QueueSize
    BY <1>1, ReserveRoom DEF InFlight
  <2>4. reserved' = Append(reserved, Arena(p)) /\ delivered' = delivered
    BY <1>1 DEF Reserve
  <2>5. Fifo!Send(Arena(p))
    BY <2>1, <2>3, <2>4 DEF Fifo!Send
  <2> QED
    BY <2>2, <2>5 DEF Fifo!Next
<1>2. ASSUME PopAdvance PROVE Fifo!Next
  <2>1. ~exited /\ wpc = "advance" /\ exited' = exited /\ wpc' = "idle"
    BY <1>2 DEF PopAdvance, WorkerAt
  <2>2. /\ Len(delivered) < Len(reserved)
        /\ delivered' = Append(delivered, reserved[Len(delivered) + 1])
        /\ reserved' = reserved
    BY <1>2, <2>1 DEF PopAdvance, IInv, WorkerInv
  <2>3. Fifo!Receive
    BY <2>1, <2>2 DEF Fifo!Receive
  <2> QED
    BY <2>3 DEF Fifo!Next
<1>3. ASSUME NEW p \in Producers, RejectPush(p) PROVE Fifo!Next
  <2>1. ~exited /\ wpc # "joined" /\ exited' /\ wpc' = wpc /\ reserved' = reserved /\ delivered' = delivered
    BY <1>3 DEF RejectPush, ProducerAt, IInv, WorkerInv
  <2>2. Fifo!Exit
    BY <2>1 DEF Fifo!Exit
  <2> QED
    BY <2>2 DEF Fifo!Next
<1>4. ASSUME Join PROVE Fifo!Next
  <2>1. ~exited /\ wpc = "done" /\ exited' = exited /\ wpc' = "joined" /\ reserved' = reserved /\ delivered' = delivered
    BY <1>4 DEF Join, WorkerAt
  <2>2. Fifo!Close
    BY <2>1 DEF Fifo!Close
  <2> QED
    BY <2>2 DEF Fifo!Next
<1>5. ASSUME reserved' = reserved, delivered' = delivered, exited' = exited,
             wpc' = "joined" <=> wpc = "joined"
      PROVE  UNCHANGED Fifo!fifoVars
  BY <1>5 DEF Fifo!fifoVars
<1>6. ASSUME NEW p \in Producers, Producer(p), ~Reserve(p), ~RejectPush(p)
      PROVE  UNCHANGED Fifo!fifoVars
  BY <1>5, <1>6 DEF Producer, ProducerStep, BeginPush, PassCheck, FailReserve, StoreCell,
                    CheckSleep, Post, DrainCell
<1>7. ASSUME Worker, ~PopAdvance PROVE UNCHANGED Fifo!fifoVars
  BY <1>5, <1>7 DEF Worker, WorkerStep, Receive, PopLoad, PopExchange, SetFlag, Recheck,
                    SemWait, ClearFlag, DrainWorker, Finish, WorkerAt, AfterEmptyPop
<1>8. CASE UNCHANGED vars
  BY <1>5, <1>8 DEF vars
<1> QED
  BY <1>1, <1>2, <1>3, <1>4, <1>6, <1>7, <1>8 DEF Next

LEMMA FifoInit == Init => Fifo!Init
BY DEF Init, Fifo!Init

\* The lock-free ring implements the bounded first-in first-out channel.
THEOREM Refinement == Spec => ImplementsFifo
BY FifoInit, FifoStep, Invariance, PTL DEF Spec, Fifo!Spec, ImplementsFifo

-----------------------------------------------------------------------------
(* When the mailbox fails its callers *)

\* A worker that has returned has no store left in its buffer.
ReturnedInv == wpc \in {"done", "joined"} => sb = <<>>

LEMMA StepReturned ==
  ASSUME IInv, ReturnedInv, [Next]_vars
  PROVE  ReturnedInv'
<1> USE DEF ReturnedInv, workerVars
<1>1. ASSUME NEW p \in Producers, Producer(p) PROVE ReturnedInv'
  BY <1>1 DEF Producer, ProducerStep, BeginPush, PassCheck, RejectPush, Reserve, FailReserve,
              StoreCell, CheckSleep, Post, DrainCell
<1>2. ASSUME WorkerStep PROVE ReturnedInv'
  BY <1>2 DEF WorkerStep, Receive, PopLoad, PopExchange, PopAdvance, SetFlag, Recheck, SemWait,
              ClearFlag, WorkerAt, AfterEmptyPop
<1>3. ASSUME DrainWorker \/ Finish \/ Join PROVE ReturnedInv'
  BY <1>3 DEF DrainWorker, Finish, Join, WorkerAt
<1>4. CASE UNCHANGED vars
  BY <1>4 DEF vars
<1> QED
  BY <1>1, <1>2, <1>3, <1>4 DEF Next, Worker

\* Nothing moves once the mailbox was joined.
LEMMA JoinedIsOver ==
  ASSUME IInv, ReturnedInv, wpc = "joined", Next
  PROVE  FALSE
<1>1. ASSUME NEW p \in Producers, Producer(p) PROVE FALSE
  BY <1>1 DEF IInv, WorkerInv, Producer, ProducerStep, BeginPush, PassCheck, RejectPush, Reserve,
              FailReserve, StoreCell, CheckSleep, Post, DrainCell, ProducerAt
<1>2. ASSUME Worker \/ Join PROVE FALSE
  BY <1>2 DEF ReturnedInv, Worker, WorkerStep, Receive, PopLoad, PopExchange, PopAdvance, SetFlag,
              Recheck, SemWait, ClearFlag, DrainWorker, Finish, Join, WorkerAt
<1> QED
  BY <1>1, <1>2 DEF Next

\* A producer that reads both counters as they are is rejected by a full ring only.
LEMMA RejectStep ==
  ASSUME IInv, NEW p \in Producers, RejectPush(p), ~StaleView(p)
  PROVE  InFlight = QueueSize
<1> DEFINE i == Len(delivered) + 1
           j == Len(reserved) + 1
<1>1. i \in Nat /\ j \in Nat /\ i <= j /\ j - i <= MaxPush /\ j - i <= QueueSize
      /\ InFlight = j - i
  BY Lengths DEF IInv, InFlight
<1>2. h[p] = Ticket(j) /\ tail = Ticket(i)
  BY DEF StaleView, IInv, CounterInv
<1>3. Sub(h[p], tail) = j - i
  BY ONLY <1>1, <1>2, TicketDistance
<1>4. Sub(h[p], tail) >= QueueSize
  BY DEF RejectPush
<1> QED
  BY <1>1, <1>3, <1>4, MailboxAssumption

LEMMA RejectsStep == IInv /\ Next => RejectsForAReason
<1> SUFFICES ASSUME IInv, Next, exited' # exited, InFlight # QueueSize
             PROVE  \E p \in Producers : ppc'[p] # ppc[p] /\ StaleView(p)
  BY DEF RejectsForAReason
<1>1. PICK p \in Producers : RejectPush(p)
  BY DEF Next, Producer, ProducerStep, BeginPush, PassCheck, Reserve, FailReserve, StoreCell,
         CheckSleep, Post, DrainCell, Worker, WorkerStep, Receive, PopLoad, PopExchange, PopAdvance,
         SetFlag, Recheck, SemWait, ClearFlag, DrainWorker, Finish, Join
<1>2. StaleView(p)
  BY <1>1, RejectStep
<1>3. ppc[p] = "loadTail" /\ ppc'[p] = "idle"
  BY <1>1 DEF RejectPush, ProducerAt, IInv, TypeOK
<1> QED
  BY <1>2, <1>3

\* The cell the worker finds empty is that of a message in a producer's hands.
LEMMA EmptyCellStep ==
  ASSUME IInv, wpc = "exchange", buffer[OwnTail % QueueSize] = NULL
  PROVE  InProducer(Len(delivered) + 1)
<1> DEFINE j == Len(delivered) + 1
<1>1. j \in Len(delivered) + 1 .. Len(delivered) + QueueSize /\ j <= Len(reserved) /\ j \in 1 .. Len(reserved)
  BY Lengths DEF IInv, WorkerInv
<1>2. OwnTail = Ticket(j)
  BY OwnTailTicket DEF IInv
<1>3. ~InWorker(j)
  BY DEF InWorker
<1>4. reserved[j] # NULL
  BY <1>1, MailboxAssumption DEF IInv, TypeOK
<1>5. buffer[Ticket(j) % QueueSize] = IF ~InProducer(j) THEN reserved[j] ELSE NULL
  BY <1>1, <1>3 DEF IInv, CellInv
<1> QED
  BY <1>2, <1>4, <1>5

LEMMA EmptyHandedStep == IInv /\ Next => EmptyHandedForAReason
<1> SUFFICES ASSUME IInv, Next, wpc # "idle", wpc' = "idle", delivered' = delivered
             PROVE  attempt = 2 /\ (InFlight = 0 \/ InProducer(Len(delivered) + 1))
  BY DEF EmptyHandedForAReason
<1> USE DEF WorkerAt, workerVars
<1>1. ASSUME NEW p \in Producers, Producer(p) PROVE FALSE
  BY <1>1 DEF Producer, ProducerStep, BeginPush, PassCheck, RejectPush, Reserve, FailReserve,
              StoreCell, CheckSleep, Post, DrainCell
<1>2. CASE PopLoad
  <2>1. OwnTail = head /\ attempt = 2
    BY <1>2 DEF PopLoad, AfterEmptyPop, IInv, TypeOK
  <2> QED
    BY <2>1, EmptyTest, Lengths DEF IInv, InFlight
<1>3. CASE PopExchange
  <2>1. wpc = "exchange" /\ buffer[OwnTail % QueueSize] = NULL /\ attempt = 2
    BY <1>3 DEF PopExchange, AfterEmptyPop, IInv, TypeOK
  <2> QED
    BY <2>1, EmptyCellStep
<1>4. CASE PopAdvance
  <2>1. delivered \in Seq(Message) /\ delivered' = Append(delivered, got)
    BY <1>4 DEF PopAdvance, IInv, TypeOK
  <2>2. Len(Append(delivered, got)) = Len(delivered) + 1 /\ Len(delivered) \in Nat
    BY <2>1
  <2> QED
    BY <2>1, <2>2
<1>5. ~(Receive \/ SetFlag \/ Recheck \/ SemWait \/ ClearFlag \/ DrainWorker \/ Finish \/ Join)
  BY DEF Receive, SetFlag, Recheck, SemWait, ClearFlag, DrainWorker, Finish, Join
<1>6. PopLoad \/ PopExchange \/ PopAdvance
  <2>1. Worker
    BY <1>1, <1>5 DEF Next
  <2> QED
    BY ONLY <1>5, <2>1 DEF Worker, WorkerStep
<1> QED
  BY <1>2, <1>3, <1>4, <1>6

\* Where tail and head are in order the drain visits the cell of every message under way.
LEMMA DrainVisits ==
  ASSUME IInv, sb = <<>>, tail <= head, NEW j \in Len(delivered) + 1 .. Len(reserved)
  PROVE  Ticket(j) % QueueSize \in DrainedCells
<1> DEFINE a == Start + (Len(delivered) + 1) - 1
           b == Start + (Len(reserved) + 1) - 1
           c == Start + j - 1
<1>1. a \in Int /\ b \in Int /\ c \in Int /\ a <= c /\ c < b /\ b - a < Modulus
  <2>1. /\ Len(reserved) \in Nat /\ Len(delivered) \in Nat /\ Start \in Nat
        /\ Len(reserved) - Len(delivered) <= QueueSize
    BY Lengths DEF IInv
  <2>2. QueueSize \in Nat /\ Modulus \in Nat /\ QueueSize < Modulus
    BY MailboxAssumption
  <2> QED
    BY ONLY <2>1, <2>2, j \in Len(delivered) + 1 .. Len(reserved)
<1>2. ~PendingTail
  BY DEF PendingTail
<1>3. tail = a % Modulus /\ head = b % Modulus
  BY <1>2 DEF IInv, CounterInv, Ticket
<1>4. c % Modulus \in tail .. head - 1
  BY ONLY <1>1, <1>3, ModBetween, MailboxAssumption, tail <= head
<1> QED
  BY <1>4 DEF Ticket, DrainedCells

\* Only sys_thread_join ends the mailbox.
LEMMA OnlyJoinEnds == ASSUME IInv, ReturnedInv, Next, wpc' = "joined" PROVE Join
<1>1. wpc # "joined"
  BY JoinedIsOver
<1> QED
  BY <1>1 DEF Next, Producer, ProducerStep, BeginPush, PassCheck, RejectPush, Reserve, FailReserve,
              StoreCell, CheckSleep, Post, DrainCell, Worker, WorkerStep, Receive, PopLoad,
              PopExchange, PopAdvance, SetFlag, Recheck, SemWait, ClearFlag, DrainWorker, Finish,
              WorkerAt, workerVars, AfterEmptyPop

LEMMA LeaksStep == IInv /\ ReturnedInv /\ Next => LeaksForAReason
<1> SUFFICES ASSUME IInv, ReturnedInv, Next, wpc' = "joined", ~(head < tail),
                    NEW j \in 1 .. Len(reserved), ~(j <= Len(delivered))
             PROVE  reserved[j] \in freed'
  BY DEF LeaksForAReason
<1>1. Join
  BY OnlyJoinEnds
<1>2. wpc = "done" /\ sb = <<>> /\ \A p \in Producers : ppc[p] = "idle" /\ cellStore[p] = NULL
  BY <1>1 DEF Join, WorkerAt, ReturnedInv
<1>3. j \in Len(delivered) + 1 .. Len(reserved) /\ j \in Len(delivered) + 1 .. Len(delivered) + QueueSize
  BY Lengths DEF IInv
<1>4. tail <= head
  BY DEF IInv, TypeOK, Index
<1>5. Ticket(j) % QueueSize \in DrainedCells
  BY <1>2, <1>3, <1>4, DrainVisits
<1>6. ~InProducer(j) /\ ~InWorker(j)
  BY <1>2 DEF InProducer, InWorker
<1>7. buffer[Ticket(j) % QueueSize] = reserved[j]
  BY <1>2, <1>3, <1>6 DEF IInv, CellInv
<1>8. reserved[j] # NULL
  BY MailboxAssumption DEF IInv, TypeOK
<1> QED
  BY <1>1, <1>5, <1>7, <1>8 DEF Join

\* The mailbox rejects, comes back empty or leaks for the known reasons only:
\* a full ring or an outdated view of it; nothing there, or a store not visible
\* yet; counters that have wrapped between tail and head.
THEOREM LossesAreKnown == Spec => OnlyKnownLosses
<1>1. Init => ReturnedInv
  BY DEF Init, ReturnedInv
<1>2. Spec => []ReturnedInv
  BY <1>1, StepReturned, Invariance, PTL DEF Spec
<1>3. IInv /\ ReturnedInv /\ [Next]_vars
        => [RejectsForAReason /\ EmptyHandedForAReason /\ LeaksForAReason]_vars
  BY RejectsStep, EmptyHandedStep, LeaksStep
<1> QED
  BY <1>2, <1>3, Invariance, PTL DEF Spec, OnlyKnownLosses

\* Before 2^32 messages have gone through the mailbox head is not behind tail.
LEMMA CountersInOrder ==
  ASSUME IInv, Start + MaxPush < Modulus
  PROVE  tail <= head
<1>1. PICK k \in 0 .. Len(delivered) : tail = (Start + k) % Modulus
  BY Lengths, MailboxAssumption DEF IInv, CounterInv, Ticket
<1>2. PICK m \in Nat : m = Len(reserved) /\ k <= m /\ m <= MaxPush
  BY Lengths, MailboxAssumption DEF IInv, CounterInv
<1>3. head = (Start + m) % Modulus
  <2>1. Start + (m + 1) - 1 = Start + m
    BY <1>2, MailboxAssumption
  <2>2. head = (Start + (m + 1) - 1) % Modulus
    BY <1>2 DEF IInv, CounterInv, Ticket
  <2> QED
    BY <2>1, <2>2
<1>4. (Start + k) % Modulus = Start + k /\ (Start + m) % Modulus = Start + m
  <2>1. Start \in Nat /\ k \in Nat /\ m \in Nat /\ Modulus \in Nat \ {0} /\ MaxPush \in Nat
    BY <1>1, <1>2, MailboxAssumption
  <2>2. /\ Start + k \in 0 .. Modulus - 1 /\ Start + k = Modulus * 0 + (Start + k)
        /\ Start + m \in 0 .. Modulus - 1 /\ Start + m = Modulus * 0 + (Start + m)
    BY ONLY <1>2, <2>1, Start + MaxPush < Modulus
  <2>3. 0 \in Int /\ Start + k \in Int /\ Start + m \in Int
    BY <2>1
  <2> QED
    BY ONLY <2>1, <2>2, <2>3, ModUnique
<1> QED
  BY <1>1, <1>2, <1>3, <1>4, MailboxAssumption

\* As long as fewer than 2^32 messages were posted, sys_thread_join leaves no arena
\* behind: what the worker has not received, the drain frees.
THEOREM JoinFreesTheRest == Start + MaxPush < Modulus => (Spec => []NothingLeaked)
<1> SUFFICES ASSUME Start + MaxPush < Modulus PROVE Spec => []NothingLeaked
  OBVIOUS
<1>1. Init => ReturnedInv /\ NothingLeaked
  BY DEF Init, ReturnedInv, NothingLeaked
<1>2. Spec => []ReturnedInv
  BY <1>1, StepReturned, Invariance, PTL DEF Spec
<1>3. ASSUME IInv, ReturnedInv, NothingLeaked, [Next]_vars PROVE NothingLeaked'
  <2>1. CASE UNCHANGED vars
    BY <1>3, <2>1 DEF NothingLeaked, vars, workerVars, history
  <2>2. CASE Next
    <3> SUFFICES ASSUME wpc' = "joined", NEW j \in 1 .. Len(reserved'), ~(j <= Len(delivered'))
                 PROVE  reserved'[j] \in freed'
      BY DEF NothingLeaked
    <3>1. UNCHANGED <<reserved, delivered>>
      BY <1>3, <2>2, OnlyJoinEnds DEF Join, history
    <3>2. ~(head < tail)
      BY <1>3, CountersInOrder DEF IInv, TypeOK, Index
    <3>3. LeaksForAReason
      BY <1>3, <2>2, LeaksStep
    <3> QED
      BY <3>1, <3>2, <3>3 DEF LeaksForAReason
  <2> QED
    BY <1>3, <2>1, <2>2
<1> QED
  BY <1>1, <1>2, <1>3, Invariance, PTL DEF Spec
=============================================================================
