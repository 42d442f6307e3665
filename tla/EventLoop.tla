----------------------------- MODULE EventLoop ------------------------------
(***************************************************************************)
(* node.ohn's event loop (loop.ohn) over the poll calls of bindings.c: one *)
(* thread, woken by the kernel with a batch of ready descriptors, evicts   *)
(* the connections whose deadline is over and then handles the events one  *)
(* by one.  The kernel and the clients act between any two handlers, so a  *)
(* batch may speak of descriptors that have been closed, or reused, since. *)
(*                                                                         *)
(* The timers are the table of TimerTable, which the heap of timeout.ohn   *)
(* implements; the loop only compares deadlines with the clock, so they    *)
(* are kept as the seconds that remain.  What the bytes of a request say   *)
(* is left to the environment: a read is followed by "more to come", by a  *)
(* request line that never ends, or by a complete request.                 *)
(***************************************************************************)
EXTENDS Integers, FiniteSetsExt

CONSTANTS
    MaxConn,        \* MAX_CONN
    Fds,            \* descriptors the kernel can give to accepted connections
    Listen,         \* the listening descriptor
    MergedEvents,   \* TRUE: epoll, one event per descriptor; FALSE: kqueue
    HandshakeSecs,  \* 5, the deadline of a new connection
    KeepAliveSecs,  \* 30, the deadline after each read or write
    MaxTick,        \* bound: seconds one turn of the loop may take
    MaxBacklog,     \* bound: connections waiting in the accept queue
    RespLen,        \* bound: pieces in which a response may be written
    MaxCompletions  \* MPSC_CAPACITY - 1

ASSUME LoopAssumption ==
    /\ MaxConn \in Nat \ {0} /\ MaxBacklog \in Nat /\ MaxTick \in Nat
    /\ Fds \subseteq Nat \ {0} /\ IsFiniteSet(Fds) /\ Listen \in Nat \ Fds
    /\ MergedEvents \in BOOLEAN
    /\ HandshakeSecs \in Nat \ {0} /\ KeepAliveSecs \in Nat \ {0}
    /\ RespLen \in Nat \ {0} /\ MaxCompletions \in Nat

Slots == 0 .. MaxConn - 1

VARIABLES
    benchmark,      \* is OHN_BENCHMARK set in the process's environment: no TLS
    fd_table, state_table, bytes_written, active_count,
    remaining,      \* timed slot -> its deadline minus current_sec
    completions,    \* events mpsc_push has queued; the server has no consumer
    pc,             \* where the thread is
    batch,          \* the events of event_results not handled yet, whose order is the kernel's
    cur,            \* the slot of the current event, when its write part is next
    peer,           \* descriptor -> what the kernel knows of the other side
    input,          \* descriptor -> are there bytes to read
    interest,       \* registered descriptor -> events it is registered for
    backlog,        \* connections waiting to be accepted
    silent          \* history: connections that sent nothing that was read

tables == <<fd_table, state_table, bytes_written, active_count, remaining>>
kernel == <<peer, input, interest, backlog>>
vars == <<benchmark, tables, completions, pc, batch, cur, kernel, silent>>

Init ==
    /\ benchmark \in BOOLEAN
    /\ fd_table = [s \in Slots |-> 0]
    /\ state_table = [s \in Slots |-> "IDLE"]
    /\ bytes_written = [s \in Slots |-> 0]
    /\ active_count = 0
    /\ remaining = [s \in {} |-> 0]
    /\ completions = 0
    /\ pc = "wait" /\ batch = {} /\ cur = 0
    /\ peer = [f \in Fds |-> "none"]
    /\ input = [f \in Fds |-> FALSE]
    /\ interest = [f \in {Listen} |-> {"r"}]
    /\ backlog = 0
    /\ silent = {}

Timers == INSTANCE TimerTable WITH
             Times <- Int, deadline <- remaining, reply <- 0

Used(s) == state_table[s] # "IDLE"
Open(f) == peer[f] # "none"

-----------------------------------------------------------------------------
(* The clients and the kernel.                                             *)

Connect ==
    /\ backlog < MaxBacklog
    /\ backlog' = backlog + 1
    /\ UNCHANGED <<peer, input, interest>>

Send(f) ==
    /\ peer[f] = "up" /\ ~input[f]
    /\ input' = [input EXCEPT ![f] = TRUE]
    /\ UNCHANGED <<peer, interest, backlog>>

\* The client ends its side of the connection, or resets it.
Leave(f) ==
    /\ \/ peer[f] = "up" /\ peer' = [peer EXCEPT ![f] = "fin"]
       \/ peer[f] \in {"up", "fin"} /\ peer' = [peer EXCEPT ![f] = "reset"]
    /\ UNCHANGED <<input, interest, backlog>>

Client ==
    /\ Connect \/ \E f \in Fds : Send(f) \/ Leave(f)
    /\ UNCHANGED <<tables, completions, pc, batch, cur, silent>>

\* Errors and hangups are reported whatever the descriptor is registered for.
Gone(f) == peer[f] \in {"reset", "hup"}
Readable(f) == input[f] \/ peer[f] # "up"

\* The bits sys_poll_wait may report: reading is certain, writing depends on the
\* kernel's send buffer.
Bits(f) ==
    LET r == IF f = Listen THEN (IF backlog > 0 THEN {"r"} ELSE {})
             ELSE IF ("r" \in interest[f] /\ Readable(f)) \/ (MergedEvents /\ Gone(f))
                  THEN {"r"} ELSE {}
        w == interest[f] \cap {"w"}
    IN  {b \in {r, r \cup w} : b # {}}

\* What sys_poll_wait may write: epoll merges the bits of a descriptor, kqueue
\* reports them one by one; a full event_results leaves some out.
Batches ==
    LET events == UNION {[fd : {f}, bits : Bits(f)] : f \in DOMAIN interest}
    IN  IF MergedEvents
        THEN {b \in SUBSET events : \A d, e \in b : d.fd = e.fd => d = e}
        ELSE SUBSET {e \in [fd : DOMAIN interest, bits : {{"r"}, {"w"}}] :
                        \E d \in events : d.fd = e.fd /\ e.bits \subseteq d.bits}

-----------------------------------------------------------------------------
(* Slots.                                                                  *)

\* timeout_touch: a slot that has no timer is left alone.
Touched(s) == IF s \in DOMAIN remaining
              THEN [remaining EXCEPT ![s] = KeepAliveSecs] ELSE remaining

\* Fault: the registration of a connection never changes.
PollModIgnored(f, ev) == interest

\* sys_poll_mod: fails on a descriptor that is not registered.
PollMod(f, ev) == IF f \in DOMAIN interest THEN [interest EXCEPT ![f] = ev] ELSE interest

\* What closing the socket does in the kernel, and the slot's entries in the tables.
Release(s) ==
    LET f == fd_table[s] IN
    /\ fd_table' = [fd_table EXCEPT ![s] = 0]
    /\ state_table' = [state_table EXCEPT ![s] = "IDLE"]
    /\ bytes_written' = [bytes_written EXCEPT ![s] = 0]
    /\ interest' = [g \in DOMAIN interest \ {f} |-> interest[g]]
    /\ peer' = [peer EXCEPT ![f] = "none"]
    /\ input' = [input EXCEPT ![f] = FALSE]
    /\ silent' = silent \ {s}
    /\ UNCHANGED <<backlog, completions>>

\* Fault: closing a slot does not count it.
CloseSlotUncounted(s) == Release(s) /\ remaining' = Timers!Without(s) /\ UNCHANGED active_count

\* Fault: closing a slot leaves its timer.
CloseSlotTimed(s) == Release(s) /\ active_count' = active_count - 1 /\ UNCHANGED remaining

CloseSlot(s) ==
    /\ Release(s)
    /\ active_count' = active_count - 1
    /\ remaining' = Timers!Without(s)

\* findSlotByFd
SlotsOf(f) == {s \in Slots : fd_table[s] = f /\ Used(s)}

-----------------------------------------------------------------------------
(* The handlers.                                                           *)

\* Bytes are taken from the socket; more may have arrived by then.
Consume(f) == \E more \in BOOLEAN : input' = [input EXCEPT ![f] = more]

\* handleHandshake on a socket that gives no fatal result.
HandshakeStep(s) ==
    LET f == fd_table[s] IN
    /\ \/ /\ \/ input[f] /\ Consume(f)
             \/ peer[f] = "up" /\ UNCHANGED input
          /\ \E want \in {"r", "w"} : interest' = PollMod(f, {want})
          /\ UNCHANGED <<state_table, completions, silent>>
       \/ /\ input[f] /\ Consume(f)
          /\ state_table' = [state_table EXCEPT ![s] = "READING"]
          /\ interest' = PollMod(f, {"r"})
          /\ completions' = IF completions < MaxCompletions THEN completions + 1
                            ELSE completions
          /\ silent' = silent \ {s}
    /\ UNCHANGED <<fd_table, bytes_written, active_count, remaining, peer, backlog>>

\* The peer has gone or sent something that is not a handshake.
HandshakeFails(s) ==
    /\ input[fd_table[s]] \/ peer[fd_table[s]] # "up"
    /\ CloseSlot(s)

HandleHandshake(s) == HandshakeStep(s) \/ HandshakeFails(s)

\* handleRead with nothing to read yet; a plain socket that was reset returns -1
\* too, once, and end of file afterwards.
ReadNothing(s) ==
    LET f == fd_table[s] IN
    /\ \/ ~input[f] /\ peer[f] = "up" /\ UNCHANGED <<peer, input>>
       \/ ~benchmark /\ input[f] /\ Consume(f) /\ UNCHANGED peer
       \/ /\ benchmark /\ ~input[f] /\ peer[f] = "reset"
          /\ peer' = [peer EXCEPT ![f] = "hup"] /\ UNCHANGED input
    /\ UNCHANGED <<tables, completions, interest, backlog, silent>>

\* handleRead at the end of the stream, or on a TLS error.
ReadEnds(s) ==
    LET f == fd_table[s] IN
    /\ \/ ~input[f] /\ peer[f] \in {"fin", "hup"}
       \/ ~benchmark /\ (input[f] \/ peer[f] = "reset")
    /\ CloseSlot(s)

\* handleRead with bytes that do not complete a request.
ReadPart(s) ==
    LET f == fd_table[s] IN
    /\ input[f] /\ Consume(f)
    /\ remaining' = Touched(s)
    /\ silent' = silent \ {s}
    /\ UNCHANGED <<fd_table, state_table, bytes_written, active_count,
                   completions, peer, interest, backlog>>

\* handleRead with a request line longer than 2048 bytes.
ReadTooLong(s) == input[fd_table[s]] /\ CloseSlot(s)

\* handleRead with the last bytes of a request: the response is written next.
ReadRequest(s) ==
    LET f == fd_table[s] IN
    /\ input[f] /\ Consume(f)
    /\ remaining' = Touched(s)
    /\ silent' = silent \ {s}
    /\ bytes_written' = [bytes_written EXCEPT ![s] = RespLen]
    /\ state_table' = [state_table EXCEPT ![s] = "WRITING"]
    /\ interest' = PollMod(f, {"w"})
    /\ UNCHANGED <<fd_table, active_count, completions, peer, backlog>>

HandleRead(s) ==
    \/ state_table[s] = "TLS_HANDSHAKE" /\ HandleHandshake(s)
    \/ /\ state_table[s] # "TLS_HANDSHAKE"
       /\ \/ ReadNothing(s) \/ ReadEnds(s) \/ ReadPart(s)
          \/ ReadTooLong(s) \/ ReadRequest(s)

\* Fault: writing nothing to descriptor 0 succeeds.
WriteResultsOnZero(s) ==
    LET f == fd_table[s] IN
    IF bytes_written[s] = 0 THEN {0}
    ELSE IF Gone(f) THEN {-1} ELSE {-1} \cup 1 .. bytes_written[s]

\* What a write may return: -1 for nothing now, or an error.  The slot may have
\* been closed by the read part of the same event: then it is descriptor 0, not
\* a socket, or a TLS context that was freed.
WriteResults(s) ==
    LET f == fd_table[s] IN
    IF f \notin Fds \/ Gone(f) THEN {-1}
    ELSE IF bytes_written[s] = 0 THEN {0}
    ELSE {-1} \cup 1 .. bytes_written[s]

WriteNothing(s) ==
    /\ -1 \in WriteResults(s)
    /\ peer' = IF fd_table[s] \in Fds /\ peer[fd_table[s]] = "reset"
               THEN [peer EXCEPT ![fd_table[s]] = "hup"] ELSE peer
    /\ UNCHANGED <<tables, completions, input, interest, backlog, silent>>

WriteSome(s) ==
    \E n \in WriteResults(s) \ {-1} :
        /\ remaining' = Touched(s)
        /\ bytes_written' = [bytes_written EXCEPT ![s] = @ - n]
        /\ IF bytes_written[s] - n <= 0
           THEN /\ state_table' = [state_table EXCEPT ![s] = "READING"]
                /\ interest' = PollMod(fd_table[s], {"r"})
           ELSE UNCHANGED <<state_table, interest>>
        /\ UNCHANGED <<fd_table, active_count, completions, peer, input, backlog, silent>>

HandleWrite(s) ==
    \/ state_table[s] = "TLS_HANDSHAKE" /\ HandleHandshake(s)
    \/ state_table[s] # "TLS_HANDSHAKE" /\ (WriteNothing(s) \/ WriteSome(s))

-----------------------------------------------------------------------------
(* The thread.                                                             *)

\* sys_poll_wait, and the clock read after it.
PollWait(tick) ==
    /\ pc = "wait"
    /\ batch' \in Batches
    /\ remaining' = [s \in DOMAIN remaining |-> remaining[s] - tick]
    /\ pc' = "evict"
    /\ UNCHANGED <<fd_table, state_table, bytes_written, active_count,
                   completions, cur, kernel, silent>>

\* Fault: one eviction per turn.
EvictOne ==
    /\ pc = "evict"
    /\ \/ \E s \in Timers!Due(0) : CloseSlot(s)
       \/ Timers!Due(0) = {} /\ UNCHANGED <<tables, completions, kernel, silent>>
    /\ pc' = "dispatch"
    /\ UNCHANGED <<batch, cur>>

\* The loop over timeout_poll.
Evict ==
    /\ pc = "evict"
    /\ \/ /\ \E s \in Timers!Due(0) : CloseSlot(s)
          /\ UNCHANGED pc
       \/ /\ Timers!Due(0) = {}
          /\ pc' = "dispatch"
          /\ UNCHANGED <<tables, completions, kernel, silent>>
    /\ UNCHANGED <<batch, cur>>

\* The loop over the batch, up to the handlers.
Dispatch ==
    /\ pc = "dispatch"
    /\ \/ batch = {} /\ pc' = "wait" /\ UNCHANGED <<batch, cur>>
       \/ \E e \in batch :
             /\ batch' = batch \ {e}
             /\ \/ e.fd = Listen /\ pc' = "accept" /\ UNCHANGED cur
                \/ e.fd # Listen /\ SlotsOf(e.fd) = {} /\ UNCHANGED <<pc, cur>>
                \/ /\ "r" \notin e.bits /\ SlotsOf(e.fd) # {}
                   /\ cur' = Min(SlotsOf(e.fd)) /\ pc' = "write"
    /\ UNCHANGED <<tables, completions, kernel, silent>>

\* The read part of an event; the write part follows with the same slot.
ReadEvent ==
    /\ pc = "dispatch"
    /\ \E e \in batch :
          /\ e.fd # Listen /\ "r" \in e.bits /\ SlotsOf(e.fd) # {}
          /\ HandleRead(Min(SlotsOf(e.fd)))
          /\ batch' = batch \ {e}
          /\ IF "w" \in e.bits
             THEN pc' = "write" /\ cur' = Min(SlotsOf(e.fd))
             ELSE UNCHANGED <<pc, cur>>

WriteEvent ==
    /\ pc = "write"
    /\ HandleWrite(cur)
    /\ pc' = "dispatch"
    /\ UNCHANGED <<batch, cur>>

FreeFds == {f \in Fds : ~Open(f)}
FreeSlots == {s \in Slots : ~Used(s)}

\* Fault: a connection over capacity is not closed.
RejectLeaky(f) ==
    /\ FreeSlots = {}
    /\ peer' = [peer EXCEPT ![f] = "up"]
    /\ UNCHANGED <<tables, input, interest, silent>>

\* At capacity the new connection is closed at once.
Reject(f) ==
    /\ FreeSlots = {}
    /\ UNCHANGED <<tables, peer, input, interest, silent>>

\* A new connection takes a slot and gets `secs' to show itself.
AdmitFor(f, secs) ==
    /\ FreeSlots # {}
    /\ LET s == Min(FreeSlots) IN
        /\ fd_table' = [fd_table EXCEPT ![s] = f]
        /\ state_table' = [state_table EXCEPT
              ![s] = IF benchmark THEN "READING" ELSE "TLS_HANDSHAKE"]
        /\ bytes_written' = [bytes_written EXCEPT ![s] = 0]
        /\ active_count' = active_count + 1
        /\ remaining' = [r \in DOMAIN remaining \cup {s} |->
                            IF r = s THEN secs ELSE remaining[r]]
        /\ interest' = [g \in DOMAIN interest \cup {f} |->
                            IF g = f THEN {"r"} ELSE interest[g]]
        /\ peer' = [peer EXCEPT ![f] = "up"]
        /\ input' = [input EXCEPT ![f] = FALSE]
        /\ silent' = silent \cup {s}

\* Fault: a new connection gets the time of an active one.
AdmitLong(f) == AdmitFor(f, KeepAliveSecs)

\* Fault: a new connection has no timer.
AdmitUntimed(f) ==
    /\ FreeSlots # {}
    /\ LET s == Min(FreeSlots) IN
        /\ fd_table' = [fd_table EXCEPT ![s] = f]
        /\ state_table' = [state_table EXCEPT
              ![s] = IF benchmark THEN "READING" ELSE "TLS_HANDSHAKE"]
        /\ active_count' = active_count + 1
        /\ interest' = [g \in DOMAIN interest \cup {f} |->
                            IF g = f THEN {"r"} ELSE interest[g]]
        /\ peer' = [peer EXCEPT ![f] = "up"]
        /\ silent' = silent \cup {s}
        /\ UNCHANGED <<bytes_written, remaining, input>>

Admit(f) == AdmitFor(f, HandshakeSecs)

\* One turn of acceptConnections; the kernel gives the lowest free descriptor.
AcceptOne ==
    /\ pc = "accept" /\ backlog > 0 /\ FreeFds # {}
    /\ backlog' = backlog - 1
    /\ Reject(Min(FreeFds)) \/ Admit(Min(FreeFds))
    /\ UNCHANGED <<completions, pc, batch, cur>>

AcceptNone ==
    /\ pc = "accept" /\ (backlog = 0 \/ FreeFds = {})
    /\ pc' = "dispatch"
    /\ UNCHANGED <<batch, cur, tables, completions, kernel, silent>>

Loop ==
    \/ \E tick \in 0 .. MaxTick : PollWait(tick)
    \/ Evict \/ Dispatch \/ ReadEvent \/ WriteEvent \/ AcceptOne \/ AcceptNone

\* The environment of the process does not change.
Next == (Loop \/ Client) /\ UNCHANGED benchmark

Spec == Init /\ [][Next]_vars

-----------------------------------------------------------------------------
(* Properties.                                                             *)

Events == [fd : Fds \cup {Listen}, bits : SUBSET {"r", "w"}]

TypeOK ==
    /\ benchmark \in BOOLEAN
    /\ fd_table \in [Slots -> Fds \cup {0}]
    /\ state_table \in [Slots -> {"IDLE", "READING", "WRITING", "TLS_HANDSHAKE"}]
    /\ bytes_written \in [Slots -> 0 .. RespLen]
    /\ active_count \in 0 .. MaxConn
    /\ DOMAIN remaining \subseteq Slots /\ \A s \in DOMAIN remaining : remaining[s] \in Int
    /\ completions \in 0 .. MaxCompletions
    /\ pc \in {"wait", "evict", "dispatch", "write", "accept"}
    /\ batch \subseteq Events
    /\ cur \in Slots
    /\ peer \in [Fds -> {"none", "up", "fin", "reset", "hup"}]
    /\ input \in [Fds -> BOOLEAN]
    /\ DOMAIN interest \subseteq Fds \cup {Listen}
    /\ \A f \in DOMAIN interest : interest[f] \subseteq {"r", "w"}
    /\ backlog \in 0 .. MaxBacklog
    /\ silent \subseteq Slots

\* A slot in use has an open socket of its own, registered with the kernel, and a
\* timer; nothing else is open, registered or timed; active_count is their number.
NothingLeaked ==
    /\ \A s \in Slots : Used(s) => fd_table[s] \in Fds
    /\ \A s, r \in Slots : Used(s) /\ Used(r) /\ fd_table[s] = fd_table[r] => s = r
    /\ {f \in Fds : Open(f)} = {fd_table[s] : s \in {r \in Slots : Used(r)}}
    /\ DOMAIN interest = {Listen} \cup {f \in Fds : Open(f)}
    /\ DOMAIN remaining = {s \in Slots : Used(s)}
    /\ active_count = Cardinality(DOMAIN remaining)

\* A connection is registered for what its state waits for, so an event that can
\* move it on is never missed.
ListensForItsState ==
    \A s \in Slots :
        /\ state_table[s] = "READING" => interest[fd_table[s]] = {"r"}
        /\ state_table[s] = "WRITING" => interest[fd_table[s]] = {"w"} /\ bytes_written[s] > 0
        /\ state_table[s] = "TLS_HANDSHAKE" => interest[fd_table[s]] \in {{"r"}, {"w"}}

\* When the events of a batch are handled no connection's time is over.
EvictedOnTime ==
    pc \in {"dispatch", "write", "accept"} =>
        \A s \in DOMAIN remaining : remaining[s] > 0

\* Only accepting a connection takes a slot into use: no late event revives one.
OnlyAcceptStarts ==
    [][\A s \in Slots : ~Used(s) /\ Used(s)' => pc = "accept"]_vars

\* A client of which nothing was read, or that did not finish its handshake, has
\* no more time left than a new connection ("5 second Slowloris timeout", loop.ohn:172).
SilentSoonEvicted ==
    \A s \in Slots : s \in silent \/ state_table[s] = "TLS_HANDSHAKE" =>
        remaining[s] <= HandshakeSecs

\* With TLS that is so: a handshake that makes no end is not given more time.
HandshakeSoonEvicted == ~benchmark => SilentSoonEvicted

\* The loop runs, time passes, and clients do not refill the accept queue before
\* every accept for ever.
FairSpec ==
    /\ Spec
    /\ WF_vars(Loop /\ UNCHANGED benchmark)
    /\ SF_vars(\E tick \in 1 .. MaxTick : PollWait(tick) /\ UNCHANGED benchmark)
    /\ SF_vars(AcceptNone /\ UNCHANGED benchmark)

\* A connection from which nothing is ever read is closed at last.
SilentEvicted == \A s \in Slots : s \in silent ~> s \notin silent

=============================================================================
