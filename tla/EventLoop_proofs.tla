-------------------------- MODULE EventLoop_proofs --------------------------
(***************************************************************************)
(* Proofs about the event loop, for any number of slots and descriptors,   *)
(* any deadlines, under epoll and kqueue, with and without TLS.            *)
(***************************************************************************)
EXTENDS EventLoop, FiniteSetTheorems, WellFoundedInduction, TLAPS

-----------------------------------------------------------------------------
(* Sets of slots *)

LEMMA MinIn ==
  ASSUME NEW S, S \subseteq Nat, S # {}
  PROVE  Min(S) \in S
<1>1. PICK x \in S : \A y \in S : ~(<<y, x>> \in OpToRel(<, Nat))
  BY NatLessThanWellFounded, WFMin
<1>2. ASSUME NEW y \in S PROVE x <= y
  <2>1. x \in Nat /\ y \in Nat
    OBVIOUS
  <2>2. ~(y < x)
    BY <1>1, <2>1 DEF OpToRel
  <2> QED
    BY <2>1, <2>2
<1> QED
  BY <1>2 DEF Min

LEMMA SlotsFinite == IsFiniteSet(Slots) /\ Cardinality(Slots) = MaxConn /\ Slots \subseteq Nat
<1>1. 0 \in Int /\ MaxConn - 1 \in Int /\ ~(0 > MaxConn - 1) /\ MaxConn - 1 - 0 + 1 = MaxConn
  BY LoopAssumption
<1>2. IsFiniteSet(0 .. MaxConn - 1) /\ Cardinality(0 .. MaxConn - 1) = MaxConn
  BY ONLY <1>1, FS_Interval
<1> QED
  BY <1>2, LoopAssumption DEF Slots

LEMMA SubsetsFinite ==
  ASSUME NEW S, S \subseteq Slots
  PROVE  IsFiniteSet(S) /\ Cardinality(S) \in 0 .. MaxConn
<1>1. IsFiniteSet(S) /\ Cardinality(S) <= MaxConn
  BY SlotsFinite, FS_Subset
<1>2. Cardinality(S) \in Nat
  BY <1>1, FS_CardinalityType
<1> QED
  BY <1>1, <1>2, LoopAssumption

\* Among deadlines of a set of slots one is the earliest.
LEMMA EarliestExists ==
  ASSUME NEW S, S \subseteq Slots, S # {}, NEW d, \A s \in S : d[s] \in Int
  PROVE  \E s \in S : \A r \in S : d[s] <= d[r]
<1> DEFINE Below(s) == {r \in S : d[r] < d[s]}
           Ranks == {Cardinality(Below(s)) : s \in S}
<1>1. \A s \in S : Below(s) \subseteq Slots /\ IsFiniteSet(Below(s)) /\ Cardinality(Below(s)) \in Nat
  <2> TAKE s \in S
  <2>1. Below(s) \subseteq Slots
    OBVIOUS
  <2> HIDE DEF Below
  <2>2. IsFiniteSet(Below(s)) /\ Cardinality(Below(s)) \in 0 .. MaxConn
    BY <2>1, SubsetsFinite
  <2> QED
    BY <2>1, <2>2
<1>2. Ranks \subseteq Nat /\ Ranks # {}
  BY <1>1
<1>3. PICK n \in Ranks : \A m \in Ranks : ~(<<m, n>> \in OpToRel(<, Nat))
  <2> HIDE DEF Ranks
  <2> QED
    BY <1>2, NatLessThanWellFounded, WFMin
<1>4. PICK s \in S : n = Cardinality(Below(s))
  OBVIOUS
<1>5. ASSUME NEW r \in S, d[r] < d[s] PROVE FALSE
  <2>1. Below(r) \in SUBSET Below(s) /\ r \in Below(s) /\ r \notin Below(r)
    BY <1>5
  <2>2. Cardinality(Below(r)) <= Cardinality(Below(s)) /\ Cardinality(Below(r)) # Cardinality(Below(s))
    <3>1. IsFiniteSet(Below(s)) /\ Below(r) # Below(s)
      BY <1>1, <2>1
    <3> HIDE DEF Below
    <3> QED
      BY ONLY <2>1, <3>1, FS_Subset
  <2>3. Cardinality(Below(r)) \in Ranks /\ Cardinality(Below(r)) \in Nat /\ n \in Nat
    BY <1>1, <1>4
  <2> HIDE DEF Below, Ranks
  <2>4. <<Cardinality(Below(r)), n>> \in OpToRel(<, Nat)
    BY <1>4, <2>2, <2>3 DEF OpToRel
  <2> QED
    BY <1>3, <2>3, <2>4
<1> HIDE DEF Below
<1> QED
  BY <1>5

\* The open sockets are those of the slots in use, said of sets and of each socket.
LEMMA OpenSockets ==
  ASSUME NEW p, NEW st, NEW fd, \A s \in Slots : st[s] # "IDLE" => fd[s] \in Fds
  PROVE  {f \in Fds : p[f] # "none"} = {fd[s] : s \in {r \in Slots : st[r] # "IDLE"}}
           <=> \A f \in Fds : p[f] # "none" <=> \E s \in Slots : st[s] # "IDLE" /\ fd[s] = f
OBVIOUS

-----------------------------------------------------------------------------
(* The inductive invariant *)

\* A slot that is not in use names no socket; only a slot that writes has
\* bytes to write; without TLS there is no handshake, and with it nobody is
\* silent but in a handshake.
SlotInv ==
  \A s \in Slots :
    /\ ~Used(s) => fd_table[s] = 0
    /\ state_table[s] # "WRITING" => bytes_written[s] = 0
    /\ benchmark => state_table[s] # "TLS_HANDSHAKE"
    /\ s \in silent => Used(s) /\ (~benchmark => state_table[s] = "TLS_HANDSHAKE")

LoopInv ==
  /\ TypeOK /\ NothingLeaked /\ ListensForItsState /\ SlotInv
  /\ EvictedOnTime /\ HandshakeSoonEvicted

-----------------------------------------------------------------------------
(* The steps *)

PCs == {"wait", "evict", "dispatch", "write", "accept"}
Late == {"dispatch", "write", "accept"}

\* What a handler leaves to the loop: the rest of the batch and where to go on.
Control ==
  /\ UNCHANGED benchmark
  /\ pc' \in PCs /\ (pc' \in Late => pc \in Late)
  /\ batch' \subseteq Events /\ cur' \in Slots

LEMMA InitLoop == Init => LoopInv
<1> SUFFICES ASSUME Init PROVE LoopInv
  OBVIOUS
<1>1. DOMAIN remaining = {} /\ 0 \in Slots /\ \A s \in Slots : ~Used(s)
  BY LoopAssumption DEF Init, Slots, Used
<1>2. DOMAIN interest = {Listen} /\ interest[Listen] = {"r"}
  BY DEF Init
<1>3. TypeOK
  BY <1>1, <1>2, LoopAssumption DEF Init, TypeOK
<1>4. NothingLeaked
  <2>1. Cardinality({}) = 0
    BY FS_EmptySet
  <2>2. \A f \in Fds : ~Open(f)
    BY DEF Init, Open
  <2> QED
    BY <1>1, <1>2, <2>1, <2>2 DEF Init, NothingLeaked
<1>5. ListensForItsState /\ SlotInv /\ EvictedOnTime /\ HandshakeSoonEvicted
  BY <1>1 DEF Init, ListensForItsState, SlotInv, EvictedOnTime, HandshakeSoonEvicted, SilentSoonEvicted
<1> QED
  BY <1>3, <1>4, <1>5 DEF LoopInv

\* What the invariant says of a slot in use.
LEMMA UsedSlot ==
  ASSUME LoopInv, NEW s \in Slots, Used(s)
  PROVE  /\ fd_table[s] \in Fds /\ fd_table[s] # Listen /\ fd_table[s] # 0
         /\ Open(fd_table[s]) /\ fd_table[s] \in DOMAIN interest
         /\ s \in DOMAIN remaining
         /\ \A r \in Slots : Used(r) /\ r # s => fd_table[r] # fd_table[s]
<1>1. fd_table[s] \in Fds /\ fd_table[s] # Listen /\ fd_table[s] # 0
  BY LoopAssumption DEF LoopInv, NothingLeaked
<1>2. Open(fd_table[s])
  BY <1>1, OpenSockets DEF LoopInv, NothingLeaked, Open, Used
<1> QED
  BY <1>1, <1>2 DEF LoopInv, NothingLeaked

\* Closing a slot in use.
LEMMA CloseStep ==
  ASSUME LoopInv, Control, NEW s \in Slots, Used(s), CloseSlot(s)
  PROVE  LoopInv'
<1> DEFINE f == fd_table[s]
<1>1. /\ f \in Fds /\ f # Listen /\ f # 0 /\ s \in DOMAIN remaining
      /\ \A r \in Slots : Used(r) /\ r # s => fd_table[r] # f
  BY UsedSlot
<1>2. /\ fd_table' = [fd_table EXCEPT ![s] = 0]
      /\ state_table' = [state_table EXCEPT ![s] = "IDLE"]
      /\ bytes_written' = [bytes_written EXCEPT ![s] = 0]
      /\ interest' = [g \in DOMAIN interest \ {f} |-> interest[g]]
      /\ peer' = [peer EXCEPT ![f] = "none"]
      /\ input' = [input EXCEPT ![f] = FALSE]
      /\ silent' = silent \ {s}
      /\ backlog' = backlog /\ completions' = completions
      /\ active_count' = active_count - 1
      /\ remaining' = [r \in DOMAIN remaining \ {s} |-> remaining[r]]
  BY DEF CloseSlot, Release, Timers!Without, Timers!Timed
<1>3. \A r \in Slots : Used(r)' <=> Used(r) /\ r # s
  BY <1>2 DEF Used, LoopInv, TypeOK
<1>4. DOMAIN remaining' = DOMAIN remaining \ {s} /\ \A r \in DOMAIN remaining' : remaining'[r] = remaining[r]
  BY <1>2
<1>5. active_count' = Cardinality(DOMAIN remaining') /\ active_count' \in 0 .. MaxConn
  <2>1. DOMAIN remaining \subseteq Slots /\ DOMAIN remaining' \subseteq Slots
    BY <1>4 DEF LoopInv, TypeOK
  <2>2. IsFiniteSet(DOMAIN remaining)
    BY <2>1, SubsetsFinite
  <2>3. Cardinality(DOMAIN remaining \ {s}) = Cardinality(DOMAIN remaining) - 1
    BY <1>1, <2>2, FS_RemoveElement
  <2>4. Cardinality(DOMAIN remaining') \in 0 .. MaxConn
    BY <2>1, SubsetsFinite
  <2> QED
    BY <1>2, <1>4, <2>3, <2>4 DEF LoopInv, NothingLeaked
<1>6. TypeOK'
  <2>1. \A g \in DOMAIN interest' : g \in DOMAIN interest /\ interest'[g] = interest[g]
    BY <1>2
  <2>2. /\ fd_table' \in [Slots -> Fds \cup {0}]
        /\ state_table' \in [Slots -> {"IDLE", "READING", "WRITING", "TLS_HANDSHAKE"}]
        /\ bytes_written' \in [Slots -> 0 .. RespLen]
    BY <1>2, LoopAssumption DEF LoopInv, TypeOK
  <2>3. /\ peer' \in [Fds -> {"none", "up", "fin", "reset", "hup"}]
        /\ input' \in [Fds -> BOOLEAN]
    BY <1>1, <1>2 DEF LoopInv, TypeOK
  <2>4. DOMAIN remaining' \subseteq Slots /\ \A r \in DOMAIN remaining' : remaining'[r] \in Int
    BY <1>4 DEF LoopInv, TypeOK
  <2> QED
    BY <1>2, <1>5, <2>1, <2>2, <2>3, <2>4 DEF LoopInv, TypeOK, Control, PCs
<1>7. \A r \in Slots : Used(r)' => fd_table'[r] = fd_table[r] /\ fd_table'[r] \in Fds /\ fd_table'[r] # f
  BY <1>1, <1>2, <1>3 DEF LoopInv, NothingLeaked, TypeOK
<1>8. NothingLeaked'
  <2>1. \A g \in Fds : peer'[g] # "none" <=> peer[g] # "none" /\ g # f
    BY <1>1, <1>2 DEF LoopInv, TypeOK
  <2>2. \A g \in Fds : peer[g] # "none" <=> \E r \in Slots : state_table[r] # "IDLE" /\ fd_table[r] = g
    BY OpenSockets DEF LoopInv, NothingLeaked, Open, Used
  <2>3. \A g \in Fds : peer'[g] # "none" <=> \E r \in Slots : state_table'[r] # "IDLE" /\ fd_table'[r] = g
    BY <1>3, <1>7, <2>1, <2>2 DEF Used
  <2>4. {g \in Fds : Open(g)}' = {fd_table[r] : r \in {q \in Slots : Used(q)}}'
    BY <1>7, <2>3, OpenSockets DEF Open, Used
  <2>5. DOMAIN interest' = {Listen} \cup {g \in Fds : Open(g)'}
    BY <1>1, <1>2, <2>1 DEF LoopInv, NothingLeaked, Open
  <2>6. DOMAIN remaining' = {r \in Slots : Used(r)'}
    BY <1>3, <1>4 DEF LoopInv, NothingLeaked
  <2>7. \A r, q \in Slots : Used(r)' /\ Used(q)' /\ fd_table'[r] = fd_table'[q] => r = q
    BY <1>3, <1>7 DEF LoopInv, NothingLeaked
  <2> QED
    BY <1>5, <1>7, <2>4, <2>5, <2>6, <2>7 DEF NothingLeaked
<1>9. ListensForItsState'
  <2> SUFFICES ASSUME NEW r \in Slots, Used(r)'
               PROVE  /\ state_table'[r] = state_table[r] /\ bytes_written'[r] = bytes_written[r]
                      /\ interest'[fd_table'[r]] = interest[fd_table[r]]
    BY DEF ListensForItsState, LoopInv, Used
  <2>1. r # s /\ Used(r)
    BY <1>3
  <2>2. fd_table[r] \in DOMAIN interest
    BY <2>1, UsedSlot
  <2> QED
    BY <1>2, <1>7, <2>1, <2>2 DEF LoopInv, TypeOK
<1>10. SlotInv'
  BY <1>2, <1>3 DEF SlotInv, LoopInv, TypeOK, Used, Control
<1>11. EvictedOnTime'
  BY <1>4 DEF EvictedOnTime, LoopInv, Control, Late
<1>12. HandshakeSoonEvicted'
  <2> SUFFICES ASSUME ~benchmark', NEW r \in Slots, r \in silent' \/ state_table'[r] = "TLS_HANDSHAKE"
               PROVE  remaining'[r] <= HandshakeSecs
    BY DEF HandshakeSoonEvicted, SilentSoonEvicted
  <2>1. Used(r)' /\ r # s /\ (r \in silent \/ state_table[r] = "TLS_HANDSHAKE")
    BY <1>2, <1>3, <1>10 DEF Used, LoopInv, TypeOK, SlotInv
  <2>2. r \in DOMAIN remaining'
    BY <1>3, <1>4, <2>1 DEF LoopInv, NothingLeaked
  <2> QED
    BY <1>4, <2>1, <2>2 DEF LoopInv, HandshakeSoonEvicted, SilentSoonEvicted, Control
<1> QED
  BY <1>6, <1>8, <1>9, <1>10, <1>11, <1>12 DEF LoopInv

\* A step that neither opens nor closes nor registers anything.
LEMMA SameConnections ==
  ASSUME NothingLeaked, UNCHANGED <<fd_table, active_count>>,
         \A r \in Slots : Used(r)' <=> Used(r),
         \A g \in Fds : Open(g)' <=> Open(g),
         DOMAIN interest' = DOMAIN interest, DOMAIN remaining' = DOMAIN remaining
  PROVE  NothingLeaked'
<1>1. {g \in Fds : Open(g)}' = {g \in Fds : Open(g)}
  OBVIOUS
<1>2. {r \in Slots : Used(r)}' = {r \in Slots : Used(r)}
  OBVIOUS
<1>3. {fd_table[r] : r \in {q \in Slots : Used(q)}}' = {fd_table[r] : r \in {q \in Slots : Used(q)}}
  BY <1>2
<1> QED
  BY <1>1, <1>2, <1>3 DEF NothingLeaked

\* A step that leaves the slots as they are: clocks may advance, the clients and
\* the kernel may act.
LEMMA QuietStep ==
  ASSUME LoopInv, EvictedOnTime',
         UNCHANGED <<benchmark, fd_table, state_table, bytes_written, active_count, completions,
                     interest, silent>>,
         DOMAIN remaining' = DOMAIN remaining,
         \A r \in DOMAIN remaining : remaining'[r] \in Int /\ remaining'[r] <= remaining[r],
         peer' \in [Fds -> {"none", "up", "fin", "reset", "hup"}],
         \A g \in Fds : Open(g)' <=> Open(g),
         input' \in [Fds -> BOOLEAN], backlog' \in 0 .. MaxBacklog,
         pc' \in PCs, batch' \subseteq Events, cur' \in Slots
  PROVE  LoopInv'
<1>1. TypeOK'
  BY DEF LoopInv, TypeOK, PCs
<1>2. NothingLeaked'
  BY SameConnections DEF LoopInv, Used
<1>3. ListensForItsState'
  BY DEF LoopInv, ListensForItsState
<1>4. SlotInv'
  BY DEF LoopInv, SlotInv, Used
<1>5. HandshakeSoonEvicted'
  <2> SUFFICES ASSUME ~benchmark, NEW r \in Slots, r \in silent \/ state_table[r] = "TLS_HANDSHAKE"
               PROVE  remaining'[r] <= HandshakeSecs
    BY DEF HandshakeSoonEvicted, SilentSoonEvicted
  <2>1. r \in DOMAIN remaining /\ remaining[r] <= HandshakeSecs
    BY DEF LoopInv, NothingLeaked, SlotInv, Used, HandshakeSoonEvicted, SilentSoonEvicted
  <2>2. remaining[r] \in Int /\ HandshakeSecs \in Int
    BY <2>1, LoopAssumption DEF LoopInv, TypeOK
  <2> QED
    BY <2>1, <2>2
<1> QED
  BY <1>1, <1>2, <1>3, <1>4, <1>5 DEF LoopInv

\* A handler that goes on with the connection of slot s: st is its next state,
\* n the bytes left to write, ev what its socket is registered for.
LEMMA SlotStep ==
  ASSUME LoopInv, Control, NEW s \in Slots, Used(s),
         NEW st \in {"READING", "WRITING", "TLS_HANDSHAKE"},
         NEW n \in 0 .. RespLen, NEW ev \in SUBSET {"r", "w"},
         UNCHANGED <<fd_table, active_count, backlog>>,
         state_table' = [state_table EXCEPT ![s] = st],
         bytes_written' = [bytes_written EXCEPT ![s] = n],
         DOMAIN interest' = DOMAIN interest, interest'[fd_table[s]] = ev,
         \A g \in DOMAIN interest : g # fd_table[s] => interest'[g] = interest[g],
         DOMAIN remaining' = DOMAIN remaining,
         \A r \in DOMAIN remaining : r # s => remaining'[r] = remaining[r],
         remaining'[s] \in Int, pc \in Late => remaining'[s] > 0,
         completions' \in 0 .. MaxCompletions,
         peer' \in [Fds -> {"none", "up", "fin", "reset", "hup"}],
         \A g \in Fds : Open(g)' <=> Open(g),
         input' \in [Fds -> BOOLEAN], silent' \subseteq silent,
         st = "READING" => ev = {"r"} /\ n = 0,
         st = "WRITING" => ev = {"w"} /\ n > 0,
         st = "TLS_HANDSHAKE" => /\ ev \in {{"r"}, {"w"}} /\ n = 0 /\ ~benchmark
                                 /\ remaining'[s] <= HandshakeSecs,
         ~benchmark /\ s \in silent' => st = "TLS_HANDSHAKE"
  PROVE  LoopInv'
<1>1. /\ state_table'[s] = st /\ bytes_written'[s] = n /\ st # "IDLE"
      /\ \A r \in Slots : r # s => state_table'[r] = state_table[r] /\ bytes_written'[r] = bytes_written[r]
  BY DEF LoopInv, TypeOK
<1>2. \A r \in Slots : Used(r)' <=> Used(r)
  BY <1>1 DEF Used
<1>3. s \in DOMAIN remaining /\ fd_table[s] \in DOMAIN interest
  BY UsedSlot
<1>4. TypeOK'
  <2>1. /\ state_table' \in [Slots -> {"IDLE", "READING", "WRITING", "TLS_HANDSHAKE"}]
        /\ bytes_written' \in [Slots -> 0 .. RespLen]
    BY DEF LoopInv, TypeOK
  <2>2. \A r \in DOMAIN remaining' : remaining'[r] \in Int
    BY DEF LoopInv, TypeOK
  <2>3. \A g \in DOMAIN interest' : interest'[g] \subseteq {"r", "w"}
    BY DEF LoopInv, TypeOK
  <2> QED
    BY <2>1, <2>2, <2>3 DEF LoopInv, TypeOK, Control, PCs
<1>5. NothingLeaked'
  BY <1>2, SameConnections DEF LoopInv
<1>6. ListensForItsState'
  <2> SUFFICES ASSUME NEW r \in Slots, Used(r)'
               PROVE  /\ state_table'[r] = "READING" => interest'[fd_table'[r]] = {"r"}
                      /\ state_table'[r] = "WRITING" => interest'[fd_table'[r]] = {"w"} /\ bytes_written'[r] > 0
                      /\ state_table'[r] = "TLS_HANDSHAKE" => interest'[fd_table'[r]] \in {{"r"}, {"w"}}
    BY DEF ListensForItsState, Used
  <2>1. CASE r = s
    BY <1>1, <2>1
  <2>2. CASE r # s
    <3>1. fd_table[r] \in DOMAIN interest /\ fd_table[r] # fd_table[s]
      BY <1>2, <2>2, UsedSlot
    <3> QED
      BY <1>1, <2>2, <3>1 DEF LoopInv, ListensForItsState
  <2> QED
    BY <2>1, <2>2
<1>7. SlotInv'
  <2> SUFFICES ASSUME NEW r \in Slots
               PROVE  /\ ~Used(r)' => fd_table'[r] = 0
                      /\ state_table'[r] # "WRITING" => bytes_written'[r] = 0
                      /\ benchmark' => state_table'[r] # "TLS_HANDSHAKE"
                      /\ r \in silent' => Used(r)' /\ (~benchmark' => state_table'[r] = "TLS_HANDSHAKE")
    BY DEF SlotInv
  <2>1. CASE r = s
    BY <1>1, <1>2, <2>1 DEF Control
  <2>2. CASE r # s
    BY <1>1, <1>2, <2>2 DEF LoopInv, SlotInv, Control
  <2> QED
    BY <2>1, <2>2
<1>8. EvictedOnTime'
  BY <1>3 DEF LoopInv, EvictedOnTime, Control, Late
<1>9. HandshakeSoonEvicted'
  <2> SUFFICES ASSUME ~benchmark', NEW r \in Slots, r \in silent' \/ state_table'[r] = "TLS_HANDSHAKE"
               PROVE  remaining'[r] <= HandshakeSecs
    BY DEF HandshakeSoonEvicted, SilentSoonEvicted
  <2>1. CASE r = s
    BY <1>1, <2>1 DEF Control
  <2>2. CASE r # s
    <3>1. r \in silent \/ state_table[r] = "TLS_HANDSHAKE"
      BY <1>1, <2>2
    <3>2. remaining[r] <= HandshakeSecs /\ r \in DOMAIN remaining
      BY <3>1 DEF LoopInv, HandshakeSoonEvicted, SilentSoonEvicted, SlotInv, NothingLeaked, Used, Control
    <3> QED
      BY <2>2, <3>2
  <2> QED
    BY <2>1, <2>2
<1> QED
  BY <1>4, <1>5, <1>6, <1>7, <1>8, <1>9 DEF LoopInv

\* Giving a free slot to a connection that was waiting.
LEMMA AdmitStep ==
  ASSUME LoopInv, Control, pc = "accept", backlog > 0, backlog' = backlog - 1,
         UNCHANGED completions, NEW f \in Fds, ~Open(f), Admit(f)
  PROVE  LoopInv'
<1> DEFINE m == Min(FreeSlots)
<1>0. PICK s \in Slots : s = m /\ ~Used(s)
  <2>1. FreeSlots # {} /\ FreeSlots \subseteq Nat
    BY SlotsFinite DEF Admit, AdmitFor, FreeSlots
  <2>2. m \in FreeSlots
    BY <2>1, MinIn
  <2> QED
    BY <2>2 DEF FreeSlots
<1> DEFINE st == IF benchmark THEN "READING" ELSE "TLS_HANDSHAKE"
<1>1. /\ fd_table' = [fd_table EXCEPT ![s] = f]
      /\ state_table' = [state_table EXCEPT ![s] = st]
      /\ bytes_written' = [bytes_written EXCEPT ![s] = 0]
      /\ active_count' = active_count + 1
      /\ remaining' = [r \in DOMAIN remaining \cup {s} |-> IF r = s THEN HandshakeSecs ELSE remaining[r]]
      /\ interest' = [g \in DOMAIN interest \cup {f} |-> IF g = f THEN {"r"} ELSE interest[g]]
      /\ peer' = [peer EXCEPT ![f] = "up"]
      /\ input' = [input EXCEPT ![f] = FALSE]
      /\ silent' = silent \cup {s}
  BY <1>0 DEF Admit, AdmitFor
<1>2. f # Listen /\ f # 0 /\ st # "IDLE" /\ s \notin DOMAIN remaining /\ benchmark \in BOOLEAN
      /\ HandshakeSecs \in Int /\ HandshakeSecs > 0
  BY <1>0, LoopAssumption DEF LoopInv, NothingLeaked, TypeOK
<1> HIDE DEF m
<1>3. /\ state_table'[s] = st /\ bytes_written'[s] = 0 /\ fd_table'[s] = f
      /\ \A r \in Slots : r # s => /\ state_table'[r] = state_table[r] /\ bytes_written'[r] = bytes_written[r]
                                   /\ fd_table'[r] = fd_table[r]
  BY <1>1 DEF LoopInv, TypeOK
<1>4. \A r \in Slots : Used(r)' <=> Used(r) \/ r = s
  BY <1>2, <1>3 DEF Used
<1>5. \A r \in Slots : Used(r) => fd_table[r] # f /\ r # s
  BY <1>0, UsedSlot
<1>6. DOMAIN remaining' = DOMAIN remaining \cup {s} /\ remaining'[s] = HandshakeSecs
      /\ \A r \in DOMAIN remaining : remaining'[r] = remaining[r]
  BY <1>1, <1>2
<1>7. DOMAIN interest' = DOMAIN interest \cup {f} /\ interest'[f] = {"r"}
      /\ \A g \in DOMAIN interest : g # f => interest'[g] = interest[g]
  BY <1>1
<1>8. active_count' = Cardinality(DOMAIN remaining') /\ active_count' \in 0 .. MaxConn
  <2>1. DOMAIN remaining \subseteq Slots /\ DOMAIN remaining' \subseteq Slots
    BY <1>6 DEF LoopInv, TypeOK
  <2>2. IsFiniteSet(DOMAIN remaining)
    BY <2>1, SubsetsFinite
  <2>3. Cardinality(DOMAIN remaining \cup {s}) = Cardinality(DOMAIN remaining) + 1
    BY <1>2, <2>2, FS_AddElement
  <2>4. Cardinality(DOMAIN remaining') \in 0 .. MaxConn
    BY <2>1, SubsetsFinite
  <2> QED
    BY <1>1, <1>6, <2>3, <2>4 DEF LoopInv, NothingLeaked
<1>9. TypeOK'
  <2>1. \A g \in DOMAIN interest' : interest'[g] \subseteq {"r", "w"}
    BY <1>1 DEF LoopInv, TypeOK
  <2>2. /\ fd_table' \in [Slots -> Fds \cup {0}]
        /\ state_table' \in [Slots -> {"IDLE", "READING", "WRITING", "TLS_HANDSHAKE"}]
        /\ bytes_written' \in [Slots -> 0 .. RespLen]
    BY <1>1, LoopAssumption DEF LoopInv, TypeOK
  <2>3. /\ peer' \in [Fds -> {"none", "up", "fin", "reset", "hup"}]
        /\ input' \in [Fds -> BOOLEAN]
    BY <1>1 DEF LoopInv, TypeOK
  <2>4. DOMAIN remaining' \subseteq Slots /\ \A r \in DOMAIN remaining' : remaining'[r] \in Int
    BY <1>2, <1>6 DEF LoopInv, TypeOK
  <2>5. DOMAIN interest' \subseteq Fds \cup {Listen} /\ silent' \subseteq Slots
    BY <1>1 DEF LoopInv, TypeOK
  <2>6. backlog' \in 0 .. MaxBacklog
    BY LoopAssumption DEF LoopInv, TypeOK
  <2> QED
    BY <1>8, <2>1, <2>2, <2>3, <2>4, <2>5, <2>6 DEF LoopInv, TypeOK, Control, PCs
<1>10. NothingLeaked'
  <2>0. \A r \in Slots : Used(r)' => fd_table'[r] \in Fds
    BY <1>3, <1>4 DEF LoopInv, NothingLeaked
  <2>1. \A g \in Fds : peer'[g] # "none" <=> peer[g] # "none" \/ g = f
    BY <1>1 DEF LoopInv, TypeOK
  <2>2. \A g \in Fds : peer[g] # "none" <=> \E r \in Slots : state_table[r] # "IDLE" /\ fd_table[r] = g
    BY OpenSockets DEF LoopInv, NothingLeaked, Open, Used
  <2>3. \A g \in Fds : peer'[g] # "none" <=> \E r \in Slots : state_table'[r] # "IDLE" /\ fd_table'[r] = g
    BY <1>0, <1>3, <1>4, <1>5, <2>1, <2>2 DEF Used
  <2>4. {g \in Fds : Open(g)}' = {fd_table[r] : r \in {q \in Slots : Used(q)}}'
    BY <2>0, <2>3, OpenSockets DEF Open, Used
  <2>5. DOMAIN interest' = {Listen} \cup {g \in Fds : Open(g)'}
    BY <1>7, <2>1 DEF LoopInv, NothingLeaked, Open
  <2>6. DOMAIN remaining' = {r \in Slots : Used(r)'}
    BY <1>4, <1>6 DEF LoopInv, NothingLeaked
  <2>7. \A r, q \in Slots : Used(r)' /\ Used(q)' /\ fd_table'[r] = fd_table'[q] => r = q
    BY <1>3, <1>4, <1>5 DEF LoopInv, NothingLeaked
  <2> QED
    BY <1>8, <2>0, <2>4, <2>5, <2>6, <2>7 DEF NothingLeaked
<1>11. ListensForItsState'
  <2> SUFFICES ASSUME NEW r \in Slots, Used(r)'
               PROVE  /\ state_table'[r] = "READING" => interest'[fd_table'[r]] = {"r"}
                      /\ state_table'[r] = "WRITING" => interest'[fd_table'[r]] = {"w"} /\ bytes_written'[r] > 0
                      /\ state_table'[r] = "TLS_HANDSHAKE" => interest'[fd_table'[r]] \in {{"r"}, {"w"}}
    BY DEF ListensForItsState, Used
  <2>1. CASE r = s
    BY <1>3, <1>7, <2>1
  <2>2. CASE r # s
    <3>1. fd_table[r] \in DOMAIN interest /\ fd_table[r] # f
      BY <1>4, <1>5, <2>2, UsedSlot
    <3> QED
      BY <1>3, <1>7, <2>2, <3>1 DEF LoopInv, ListensForItsState
  <2> QED
    BY <2>1, <2>2
<1>12. SlotInv'
  <2> SUFFICES ASSUME NEW r \in Slots
               PROVE  /\ ~Used(r)' => fd_table'[r] = 0
                      /\ state_table'[r] # "WRITING" => bytes_written'[r] = 0
                      /\ benchmark' => state_table'[r] # "TLS_HANDSHAKE"
                      /\ r \in silent' => Used(r)' /\ (~benchmark' => state_table'[r] = "TLS_HANDSHAKE")
    BY DEF SlotInv
  <2>1. CASE r = s
    BY <1>3, <1>4, <2>1 DEF Control
  <2>2. CASE r # s
    BY <1>1, <1>3, <1>4, <2>2 DEF LoopInv, SlotInv, Control
  <2> QED
    BY <2>1, <2>2
<1>13. EvictedOnTime'
  BY <1>2, <1>6 DEF LoopInv, EvictedOnTime, Control, Late
<1>14. HandshakeSoonEvicted'
  <2> SUFFICES ASSUME ~benchmark', NEW r \in Slots, r \in silent' \/ state_table'[r] = "TLS_HANDSHAKE"
               PROVE  remaining'[r] <= HandshakeSecs
    BY DEF HandshakeSoonEvicted, SilentSoonEvicted
  <2>1. CASE r = s
    BY <1>2, <1>6, <2>1
  <2>2. CASE r # s
    <3>1. r \in silent \/ state_table[r] = "TLS_HANDSHAKE"
      BY <1>1, <1>3, <2>2
    <3>2. remaining[r] <= HandshakeSecs /\ r \in DOMAIN remaining
      BY <3>1 DEF LoopInv, HandshakeSoonEvicted, SilentSoonEvicted, SlotInv, NothingLeaked, Used, Control
    <3> QED
      BY <1>6, <3>2
  <2> QED
    BY <2>1, <2>2
<1> QED
  BY <1>9, <1>10, <1>11, <1>12, <1>13, <1>14 DEF LoopInv

-----------------------------------------------------------------------------
(* The handlers *)

\* Registering the socket of a slot in use for other events.
LEMMA PollModOf ==
  ASSUME LoopInv, NEW s \in Slots, Used(s), NEW ev, interest' = PollMod(fd_table[s], ev)
  PROVE  /\ DOMAIN interest' = DOMAIN interest /\ interest'[fd_table[s]] = ev
         /\ \A g \in DOMAIN interest : g # fd_table[s] => interest'[g] = interest[g]
BY UsedSlot DEF PollMod

\* Reading from a socket leaves the others' bytes where they are.
LEMMA ConsumeType ==
  ASSUME LoopInv, NEW s \in Slots, Used(s), Consume(fd_table[s])
  PROVE  input' \in [Fds -> BOOLEAN]
BY DEF Consume, LoopInv, TypeOK

\* A slot that is read or written gets the time of an active connection.
LEMMA TouchedOf ==
  ASSUME LoopInv, NEW s \in Slots, Used(s), remaining' = Touched(s)
  PROVE  /\ DOMAIN remaining' = DOMAIN remaining
         /\ \A r \in DOMAIN remaining : r # s => remaining'[r] = remaining[r]
         /\ remaining'[s] \in Int /\ remaining'[s] > 0
BY UsedSlot, LoopAssumption DEF Touched

\* The kernel does not open or close a socket that stays as it is.
LEMMA SameSockets ==
  ASSUME LoopInv, UNCHANGED peer
  PROVE  /\ peer' \in [Fds -> {"none", "up", "fin", "reset", "hup"}]
         /\ \A g \in Fds : Open(g)' <=> Open(g)
BY DEF LoopInv, TypeOK, Open

\* A timer that is left alone is still later than now.
LEMMA SameTimer ==
  ASSUME LoopInv, NEW s \in Slots, Used(s), UNCHANGED remaining
  PROVE  /\ DOMAIN remaining' = DOMAIN remaining
         /\ \A r \in DOMAIN remaining : r # s => remaining'[r] = remaining[r]
         /\ remaining'[s] \in Int /\ (pc \in Late => remaining'[s] > 0)
BY UsedSlot DEF LoopInv, TypeOK, EvictedOnTime, Late

LEMMA HandshakeKeeps ==
  ASSUME LoopInv, Control, NEW s \in Slots, state_table[s] = "TLS_HANDSHAKE", HandshakeStep(s)
  PROVE  LoopInv'
<1>1. Used(s) /\ ~benchmark /\ bytes_written[s] = 0 /\ remaining[s] <= HandshakeSecs
  BY DEF Used, LoopInv, SlotInv, HandshakeSoonEvicted, SilentSoonEvicted
<1>2. UNCHANGED <<fd_table, bytes_written, active_count, remaining, peer, backlog>>
  BY DEF HandshakeStep
<1>3. bytes_written' = [bytes_written EXCEPT ![s] = 0] /\ 0 \in 0 .. RespLen
  BY <1>1, <1>2, LoopAssumption DEF LoopInv, TypeOK
<1>4. completions \in 0 .. MaxCompletions /\ silent \subseteq Slots /\ input \in [Fds -> BOOLEAN]
  BY DEF LoopInv, TypeOK
<1>5. CASE /\ UNCHANGED input \/ Consume(fd_table[s])
           /\ \E want \in {"r", "w"} : interest' = PollMod(fd_table[s], {want})
           /\ UNCHANGED <<state_table, completions, silent>>
  <2>1. PICK ev \in SUBSET {"r", "w"} : ev \in {{"r"}, {"w"}} /\ interest' = PollMod(fd_table[s], ev)
    BY <1>5
  <2>2. state_table' = [state_table EXCEPT ![s] = "TLS_HANDSHAKE"]
    BY <1>5 DEF LoopInv, TypeOK
  <2>3. input' \in [Fds -> BOOLEAN]
    BY <1>1, <1>4, <1>5, ConsumeType
  <2>4. /\ DOMAIN interest' = DOMAIN interest /\ interest'[fd_table[s]] = ev
        /\ \A g \in DOMAIN interest : g # fd_table[s] => interest'[g] = interest[g]
    BY <1>1, <2>1, PollModOf
  <2>5. /\ DOMAIN remaining' = DOMAIN remaining
        /\ \A r \in DOMAIN remaining : r # s => remaining'[r] = remaining[r]
        /\ remaining'[s] \in Int /\ (pc \in Late => remaining'[s] > 0)
    BY <1>1, <1>2, SameTimer
  <2> QED
    BY <1>1, <1>2, <1>3, <1>4, <1>5, <2>1, <2>2, <2>3, <2>4, <2>5, SameSockets,
       SlotStep, ZenonT(60)
<1>6. CASE /\ Consume(fd_table[s])
           /\ state_table' = [state_table EXCEPT ![s] = "READING"]
           /\ interest' = PollMod(fd_table[s], {"r"})
           /\ completions' = IF completions < MaxCompletions THEN completions + 1 ELSE completions
           /\ silent' = silent \ {s}
  <2>1. completions' \in 0 .. MaxCompletions
    BY <1>4, <1>6, LoopAssumption
  <2>2. {"r"} \in SUBSET {"r", "w"} /\ silent' \subseteq silent /\ s \notin silent'
    BY <1>6
  <2>3. input' \in [Fds -> BOOLEAN]
    BY <1>1, <1>6, ConsumeType
  <2>4. /\ DOMAIN interest' = DOMAIN interest /\ interest'[fd_table[s]] = {"r"}
        /\ \A g \in DOMAIN interest : g # fd_table[s] => interest'[g] = interest[g]
    BY <1>1, <1>6, PollModOf
  <2>5. /\ DOMAIN remaining' = DOMAIN remaining
        /\ \A r \in DOMAIN remaining : r # s => remaining'[r] = remaining[r]
        /\ remaining'[s] \in Int /\ (pc \in Late => remaining'[s] > 0)
    BY <1>1, <1>2, SameTimer
  <2> QED
    BY <1>1, <1>2, <1>3, <1>6, <2>1, <2>2, <2>3, <2>4, <2>5, SameSockets,
       SlotStep, ZenonT(60)
<1> QED
  BY <1>5, <1>6 DEF HandshakeStep

LEMMA HandshakeInv ==
  ASSUME LoopInv, Control, NEW s \in Slots, state_table[s] = "TLS_HANDSHAKE", HandleHandshake(s)
  PROVE  LoopInv'
<1>1. Used(s)
  BY DEF Used
<1> QED
  BY <1>1, HandshakeKeeps, CloseStep DEF HandleHandshake, HandshakeFails

\* A socket that is reset is still open when the error has been told.
LEMMA ResetTold ==
  ASSUME LoopInv, NEW f \in Fds, peer[f] = "reset", peer' = [peer EXCEPT ![f] = "hup"]
  PROVE  /\ peer' \in [Fds -> {"none", "up", "fin", "reset", "hup"}]
         /\ \A g \in Fds : Open(g)' <=> Open(g)
BY DEF LoopInv, TypeOK, Open

\* A step of the clients, or of the loop, that leaves the server's tables.
LEMMA TablesKept ==
  ASSUME LoopInv, Control,
         UNCHANGED <<tables, completions, interest, silent>>,
         peer' \in [Fds -> {"none", "up", "fin", "reset", "hup"}],
         \A g \in Fds : Open(g)' <=> Open(g),
         input' \in [Fds -> BOOLEAN], backlog' \in 0 .. MaxBacklog
  PROVE  LoopInv'
<1>1. UNCHANGED <<fd_table, state_table, bytes_written, active_count, remaining>>
  BY DEF tables
<1>2. EvictedOnTime'
  BY <1>1 DEF LoopInv, EvictedOnTime, Control, Late
<1>3. \A r \in DOMAIN remaining : remaining'[r] \in Int /\ remaining'[r] <= remaining[r]
  BY <1>1 DEF LoopInv, TypeOK
<1> QED
  BY <1>1, <1>2, <1>3, QuietStep DEF Control

\* A handler that finds nothing to do.
LEMMA NothingDone ==
  ASSUME LoopInv, Control,
         UNCHANGED <<tables, completions, interest, backlog, silent>>,
         peer' \in [Fds -> {"none", "up", "fin", "reset", "hup"}],
         \A g \in Fds : Open(g)' <=> Open(g), input' \in [Fds -> BOOLEAN]
  PROVE  LoopInv'
<1>1. backlog' \in 0 .. MaxBacklog
  BY DEF LoopInv, TypeOK
<1> QED
  BY <1>1, TablesKept

\* A slot past its handshake is never a silent one, with TLS.
LEMMA NotSilent ==
  ASSUME LoopInv, NEW s \in Slots, Used(s), state_table[s] # "TLS_HANDSHAKE"
  PROVE  ~benchmark => s \notin silent
BY DEF LoopInv, SlotInv

LEMMA ReadNothingInv ==
  ASSUME LoopInv, Control, NEW s \in Slots, Used(s), ReadNothing(s)
  PROVE  LoopInv'
<1>1. fd_table[s] \in Fds /\ input \in [Fds -> BOOLEAN]
  BY UsedSlot DEF LoopInv, TypeOK
<1>2. UNCHANGED <<tables, completions, interest, backlog, silent>>
  BY DEF ReadNothing
<1>3. CASE UNCHANGED peer /\ (UNCHANGED input \/ Consume(fd_table[s]))
  <2>1. input' \in [Fds -> BOOLEAN]
    BY <1>1, <1>3, ConsumeType
  <2> QED
    BY <1>2, <1>3, <2>1, SameSockets, NothingDone
<1>4. CASE peer[fd_table[s]] = "reset" /\ peer' = [peer EXCEPT ![fd_table[s]] = "hup"] /\ UNCHANGED input
  BY <1>1, <1>2, <1>4, ResetTold, NothingDone
<1> QED
  BY <1>3, <1>4 DEF ReadNothing

LEMMA ReadPartInv ==
  ASSUME LoopInv, Control, NEW s \in Slots, Used(s), state_table[s] # "TLS_HANDSHAKE",
         ListensForItsState, ReadPart(s)
  PROVE  LoopInv'
<1>1. /\ Consume(fd_table[s]) /\ remaining' = Touched(s) /\ silent' = silent \ {s}
      /\ UNCHANGED <<fd_table, state_table, bytes_written, active_count, completions, peer,
                     interest, backlog>>
  BY DEF ReadPart
<1>2. PICK st \in {"READING", "WRITING", "TLS_HANDSHAKE"} : st = state_table[s]
  BY DEF Used, LoopInv, TypeOK
<1>3. PICK n \in 0 .. RespLen : n = bytes_written[s]
  BY DEF LoopInv, TypeOK
<1>4. fd_table[s] \in DOMAIN interest
  BY UsedSlot
<1>5. PICK ev \in SUBSET {"r", "w"} : ev = interest[fd_table[s]]
  BY <1>4 DEF LoopInv, TypeOK
<1>6. /\ state_table' = [state_table EXCEPT ![s] = st]
      /\ bytes_written' = [bytes_written EXCEPT ![s] = n]
  BY <1>1, <1>2, <1>3 DEF LoopInv, TypeOK
<1>7. /\ DOMAIN interest' = DOMAIN interest /\ interest'[fd_table[s]] = ev
      /\ \A g \in DOMAIN interest : g # fd_table[s] => interest'[g] = interest[g]
  BY <1>1, <1>5
<1>8. /\ st = "READING" => ev = {"r"} /\ n = 0
      /\ st = "WRITING" => ev = {"w"} /\ n > 0
      /\ st # "TLS_HANDSHAKE"
  BY <1>2, <1>3, <1>5 DEF ListensForItsState, LoopInv, SlotInv
<1>9. input' \in [Fds -> BOOLEAN] /\ completions' \in 0 .. MaxCompletions
      /\ silent' \subseteq silent /\ s \notin silent'
  BY <1>1, ConsumeType DEF LoopInv, TypeOK
<1>10. /\ DOMAIN remaining' = DOMAIN remaining
       /\ \A r \in DOMAIN remaining : r # s => remaining'[r] = remaining[r]
       /\ remaining'[s] \in Int /\ remaining'[s] > 0
  BY <1>1, TouchedOf
<1> QED
  BY <1>1, <1>6, <1>7, <1>8, <1>9, <1>10, SameSockets, SlotStep, ZenonT(60)

LEMMA ReadRequestInv ==
  ASSUME LoopInv, Control, NEW s \in Slots, Used(s), ReadRequest(s)
  PROVE  LoopInv'
<1>1. /\ Consume(fd_table[s]) /\ remaining' = Touched(s) /\ silent' = silent \ {s}
      /\ bytes_written' = [bytes_written EXCEPT ![s] = RespLen]
      /\ state_table' = [state_table EXCEPT ![s] = "WRITING"]
      /\ interest' = PollMod(fd_table[s], {"w"})
      /\ UNCHANGED <<fd_table, active_count, completions, peer, backlog>>
  BY DEF ReadRequest
<1>2. RespLen \in 0 .. RespLen /\ RespLen > 0 /\ {"w"} \in SUBSET {"r", "w"}
  BY LoopAssumption
<1>3. /\ DOMAIN interest' = DOMAIN interest /\ interest'[fd_table[s]] = {"w"}
      /\ \A g \in DOMAIN interest : g # fd_table[s] => interest'[g] = interest[g]
  BY <1>1, PollModOf
<1>4. input' \in [Fds -> BOOLEAN] /\ completions' \in 0 .. MaxCompletions
      /\ silent' \subseteq silent /\ s \notin silent'
  BY <1>1, ConsumeType DEF LoopInv, TypeOK
<1>5. /\ DOMAIN remaining' = DOMAIN remaining
      /\ \A r \in DOMAIN remaining : r # s => remaining'[r] = remaining[r]
      /\ remaining'[s] \in Int /\ remaining'[s] > 0
  BY <1>1, TouchedOf
<1> QED
  BY <1>1, <1>2, <1>3, <1>4, <1>5, SameSockets, SlotStep, ZenonT(60)

LEMMA HandleReadInv ==
  ASSUME LoopInv, Control, NEW s \in Slots, Used(s), HandleRead(s)
  PROVE  LoopInv'
<1>1. CASE state_table[s] = "TLS_HANDSHAKE" /\ HandleHandshake(s)
  BY <1>1, HandshakeInv
<1>2. CASE ReadNothing(s)
  BY <1>2, ReadNothingInv
<1>3. CASE ReadEnds(s) \/ ReadTooLong(s)
  BY <1>3, CloseStep DEF ReadEnds, ReadTooLong
<1>4. CASE state_table[s] # "TLS_HANDSHAKE" /\ ReadPart(s)
  BY <1>4, ReadPartInv DEF LoopInv
<1>5. CASE ReadRequest(s)
  BY <1>5, ReadRequestInv
<1> QED
  BY <1>1, <1>2, <1>3, <1>4, <1>5 DEF HandleRead

LEMMA WriteNothingInv ==
  ASSUME LoopInv, Control, NEW s \in Slots, WriteNothing(s)
  PROVE  LoopInv'
<1>1. UNCHANGED <<tables, completions, input, interest, backlog, silent>>
  BY DEF WriteNothing
<1>2. input' \in [Fds -> BOOLEAN]
  BY <1>1 DEF LoopInv, TypeOK
<1>3. CASE UNCHANGED peer
  BY <1>1, <1>2, <1>3, SameSockets, NothingDone
<1>4. CASE /\ fd_table[s] \in Fds /\ peer[fd_table[s]] = "reset"
           /\ peer' = [peer EXCEPT ![fd_table[s]] = "hup"]
  BY <1>1, <1>2, <1>4, ResetTold, NothingDone
<1> QED
  BY <1>3, <1>4 DEF WriteNothing

LEMMA WriteSomeInv ==
  ASSUME LoopInv, Control, NEW s \in Slots, state_table[s] # "TLS_HANDSHAKE", WriteSome(s)
  PROVE  LoopInv'
<1>1. PICK k \in WriteResults(s) \ {-1} :
        /\ remaining' = Touched(s)
        /\ bytes_written' = [bytes_written EXCEPT ![s] = @ - k]
        /\ IF bytes_written[s] - k <= 0
           THEN /\ state_table' = [state_table EXCEPT ![s] = "READING"]
                /\ interest' = PollMod(fd_table[s], {"r"})
           ELSE UNCHANGED <<state_table, interest>>
        /\ UNCHANGED <<fd_table, active_count, completions, peer, input, backlog, silent>>
  BY DEF WriteSome
<1>2. bytes_written[s] \in 0 .. RespLen /\ RespLen \in Nat
  BY LoopAssumption DEF LoopInv, TypeOK
<1>3. /\ fd_table[s] \in Fds /\ k \in 0 .. bytes_written[s]
      /\ k = 0 => bytes_written[s] = 0
  BY <1>1, <1>2 DEF WriteResults
<1>4. Used(s)
  BY <1>3, LoopAssumption DEF LoopInv, SlotInv
<1>5. PICK n \in 0 .. RespLen : n = bytes_written[s] - k
  BY <1>2, <1>3
<1>6. bytes_written' = [bytes_written EXCEPT ![s] = n]
  BY <1>1, <1>5
<1>7. input' \in [Fds -> BOOLEAN] /\ completions' \in 0 .. MaxCompletions /\ silent' = silent
  BY <1>1 DEF LoopInv, TypeOK
<1>8. /\ DOMAIN remaining' = DOMAIN remaining
      /\ \A r \in DOMAIN remaining : r # s => remaining'[r] = remaining[r]
      /\ remaining'[s] \in Int /\ remaining'[s] > 0
  BY <1>1, <1>4, TouchedOf
<1>9. ~benchmark => s \notin silent'
  BY <1>4, <1>7, NotSilent
<1>10. CASE n = 0
  <2>1. state_table' = [state_table EXCEPT ![s] = "READING"] /\ interest' = PollMod(fd_table[s], {"r"})
    BY <1>1, <1>5, <1>10
  <2>2. /\ DOMAIN interest' = DOMAIN interest /\ interest'[fd_table[s]] = {"r"}
        /\ \A g \in DOMAIN interest : g # fd_table[s] => interest'[g] = interest[g]
    BY <1>4, <2>1, PollModOf
  <2>3. {"r"} \in SUBSET {"r", "w"}
    OBVIOUS
  <2> QED
    BY <1>1, <1>4, <1>6, <1>7, <1>8, <1>9, <1>10, <2>1, <2>2, <2>3, SameSockets, SlotStep, ZenonT(60)
<1>11. CASE n # 0
  <2>1. UNCHANGED <<state_table, interest>> /\ bytes_written[s] # 0
    BY <1>1, <1>2, <1>3, <1>5, <1>11
  <2>2. state_table[s] = "WRITING" /\ interest[fd_table[s]] = {"w"}
    BY <2>1 DEF LoopInv, SlotInv, ListensForItsState
  <2>3. state_table' = [state_table EXCEPT ![s] = "WRITING"]
    BY <2>1, <2>2 DEF LoopInv, TypeOK
  <2>4. {"w"} \in SUBSET {"r", "w"} /\ n > 0
    BY <1>11
  <2> QED
    BY <1>1, <1>4, <1>6, <1>7, <1>8, <1>9, <2>1, <2>2, <2>3, <2>4, SameSockets, SlotStep, ZenonT(60)
<1> QED
  BY <1>10, <1>11

LEMMA HandleWriteInv ==
  ASSUME LoopInv, Control, NEW s \in Slots, HandleWrite(s)
  PROVE  LoopInv'
BY HandshakeInv, WriteNothingInv, WriteSomeInv DEF HandleWrite

-----------------------------------------------------------------------------
(* The thread and the clients *)

LEMMA BatchesTyped ==
  ASSUME LoopInv, NEW b \in Batches
  PROVE  b \subseteq Events
<1>1. \A f \in DOMAIN interest : Bits(f) \subseteq SUBSET {"r", "w"}
  BY DEF Bits
<1>2. DOMAIN interest \subseteq Fds \cup {Listen}
  BY DEF LoopInv, TypeOK
<1>3. CASE MergedEvents
  <2>1. b \subseteq UNION {[fd : {f}, bits : Bits(f)] : f \in DOMAIN interest}
    BY <1>3 DEF Batches
  <2> QED
    BY <1>1, <1>2, <2>1 DEF Events
<1>4. CASE ~MergedEvents
  <2>1. b \subseteq [fd : DOMAIN interest, bits : {{"r"}, {"w"}}]
    BY <1>4 DEF Batches
  <2> QED
    BY <1>2, <2>1 DEF Events
<1> QED
  BY <1>3, <1>4

LEMMA SlotsOfIn ==
  ASSUME NEW f, SlotsOf(f) # {}
  PROVE  Min(SlotsOf(f)) \in Slots /\ Used(Min(SlotsOf(f)))
<1>1. SlotsOf(f) \subseteq Nat
  BY SlotsFinite DEF SlotsOf
<1>2. Min(SlotsOf(f)) \in SlotsOf(f)
  BY <1>1, MinIn
<1> QED
  BY <1>2 DEF SlotsOf

LEMMA PollWaitInv ==
  ASSUME LoopInv, UNCHANGED benchmark, NEW tick \in 0 .. MaxTick, PollWait(tick)
  PROVE  LoopInv'
<1>1. /\ batch' \in Batches /\ pc' = "evict" /\ cur' = cur
      /\ remaining' = [s \in DOMAIN remaining |-> remaining[s] - tick]
      /\ UNCHANGED <<fd_table, state_table, bytes_written, active_count,
                     completions, peer, input, interest, backlog, silent>>
  BY DEF PollWait, kernel
<1>2. batch' \subseteq Events
  BY <1>1, BatchesTyped
<1>3. DOMAIN remaining' = DOMAIN remaining
      /\ \A r \in DOMAIN remaining : remaining'[r] \in Int /\ remaining'[r] <= remaining[r]
  <2>1. tick \in Nat /\ \A r \in DOMAIN remaining : remaining[r] \in Int
    BY LoopAssumption DEF LoopInv, TypeOK
  <2> QED
    BY <1>1, <2>1
<1>4. EvictedOnTime'
  BY <1>1 DEF EvictedOnTime
<1>5. cur' \in Slots /\ input' \in [Fds -> BOOLEAN] /\ backlog' \in 0 .. MaxBacklog /\ pc' \in PCs
  BY <1>1 DEF LoopInv, TypeOK, PCs
<1> QED
  BY <1>1, <1>2, <1>3, <1>4, <1>5, SameSockets, QuietStep

LEMMA EvictInv ==
  ASSUME LoopInv, UNCHANGED benchmark, Evict
  PROVE  LoopInv'
<1>1. \A s \in Timers!Due(0) : s \in DOMAIN remaining /\ remaining[s] <= 0
  BY DEF Timers!Due, Timers!Earliest, Timers!Timed
<1>2. batch' \subseteq Events /\ cur' \in Slots
  BY DEF Evict, LoopInv, TypeOK
<1>3. ASSUME NEW s \in Timers!Due(0), CloseSlot(s), UNCHANGED pc PROVE LoopInv'
  <2>1. s \in Slots /\ Used(s)
    BY <1>1 DEF LoopInv, NothingLeaked
  <2>2. Control
    BY <1>2, <1>3 DEF Control, PCs, LoopInv, TypeOK
  <2> QED
    BY <1>3, <2>1, <2>2, CloseStep
<1>4. CASE /\ Timers!Due(0) = {} /\ pc' = "dispatch"
           /\ UNCHANGED <<tables, completions, kernel, silent>>
  <2>1. /\ UNCHANGED <<fd_table, state_table, bytes_written, active_count, remaining,
                       completions, peer, input, interest, backlog, silent>>
    BY <1>4 DEF tables, kernel
  <2>2. ASSUME NEW s \in DOMAIN remaining, remaining[s] <= 0 PROVE FALSE
    <3>1. PICK e \in DOMAIN remaining : \A r \in DOMAIN remaining : remaining[e] <= remaining[r]
      BY EarliestExists DEF LoopInv, TypeOK
    <3>2. remaining[e] <= 0
      BY <2>2, <3>1 DEF LoopInv, TypeOK
    <3> QED
      BY <1>4, <3>1, <3>2 DEF Timers!Due, Timers!Earliest, Timers!Timed
  <2>3. EvictedOnTime'
    BY <2>1, <2>2 DEF EvictedOnTime, LoopInv, TypeOK
  <2>4. \A r \in DOMAIN remaining : remaining'[r] \in Int /\ remaining'[r] <= remaining[r]
    BY <2>1 DEF LoopInv, TypeOK
  <2>5. input' \in [Fds -> BOOLEAN] /\ backlog' \in 0 .. MaxBacklog /\ pc' \in PCs
    BY <1>4, <2>1 DEF LoopInv, TypeOK, PCs
  <2> QED
    BY <1>2, <2>1, <2>3, <2>4, <2>5, SameSockets, QuietStep
<1> QED
  BY <1>3, <1>4 DEF Evict

\* A step that only decides where to go on.
LEMMA ControlInv ==
  ASSUME LoopInv, Control, UNCHANGED <<tables, completions, kernel, silent>>
  PROVE  LoopInv'
<1>1. UNCHANGED <<tables, completions, peer, input, interest, backlog, silent>>
  BY DEF kernel
<1>2. input' \in [Fds -> BOOLEAN]
  BY <1>1 DEF LoopInv, TypeOK
<1> QED
  BY <1>1, <1>2, SameSockets, NothingDone

LEMMA DispatchInv ==
  ASSUME LoopInv, UNCHANGED benchmark, Dispatch
  PROVE  LoopInv'
<1>1. pc = "dispatch" /\ UNCHANGED <<tables, completions, kernel, silent>>
  BY DEF Dispatch
<1>2. cur' \in Slots /\ pc' \in PCs
  BY SlotsOfIn DEF Dispatch, LoopInv, TypeOK, PCs
<1>3. batch' \subseteq Events
  BY DEF Dispatch, LoopInv, TypeOK
<1>4. Control
  BY <1>1, <1>2, <1>3 DEF Control, Late
<1> QED
  BY <1>1, <1>4, ControlInv

LEMMA ReadEventInv ==
  ASSUME LoopInv, UNCHANGED benchmark, ReadEvent
  PROVE  LoopInv'
<1>1. PICK e \in batch :
        /\ SlotsOf(e.fd) # {}
        /\ HandleRead(Min(SlotsOf(e.fd)))
        /\ batch' = batch \ {e}
        /\ IF "w" \in e.bits
           THEN pc' = "write" /\ cur' = Min(SlotsOf(e.fd))
           ELSE UNCHANGED <<pc, cur>>
  BY DEF ReadEvent
<1>2. PICK s \in Slots : s = Min(SlotsOf(e.fd)) /\ Used(s)
  BY <1>1, SlotsOfIn
<1>3. Control
  BY <1>1, <1>2 DEF Control, ReadEvent, LoopInv, TypeOK, PCs, Late
<1> QED
  BY <1>1, <1>2, <1>3, HandleReadInv

LEMMA WriteEventInv ==
  ASSUME LoopInv, UNCHANGED benchmark, WriteEvent
  PROVE  LoopInv'
<1>1. cur \in Slots
  BY DEF LoopInv, TypeOK
<1>2. Control
  BY DEF Control, WriteEvent, LoopInv, TypeOK, PCs, Late
<1> QED
  BY <1>1, <1>2, HandleWriteInv DEF WriteEvent

LEMMA AcceptOneInv ==
  ASSUME LoopInv, UNCHANGED benchmark, AcceptOne
  PROVE  LoopInv'
<1>1. /\ pc = "accept" /\ backlog > 0 /\ FreeFds # {} /\ backlog' = backlog - 1
      /\ UNCHANGED <<completions, pc, batch, cur>>
  BY DEF AcceptOne
<1>2. Control
  BY <1>1 DEF Control, LoopInv, TypeOK, PCs
<1>3. PICK f \in Fds : f = Min(FreeFds) /\ ~Open(f)
  <2>1. FreeFds \subseteq Nat
    BY LoopAssumption DEF FreeFds
  <2>2. Min(FreeFds) \in FreeFds
    BY <1>1, <2>1, MinIn
  <2> QED
    BY <2>2 DEF FreeFds
<1>4. CASE Reject(f)
  <2>1. backlog' \in 0 .. MaxBacklog
    BY <1>1, LoopAssumption DEF LoopInv, TypeOK
  <2>2. UNCHANGED <<tables, peer, input, interest, silent>> /\ input' \in [Fds -> BOOLEAN]
    BY <1>4 DEF Reject, LoopInv, TypeOK
  <2> QED
    BY <1>1, <1>2, <2>1, <2>2, SameSockets, TablesKept
<1>5. CASE Admit(f)
  BY <1>1, <1>2, <1>3, <1>5, AdmitStep
<1> QED
  BY <1>3, <1>4, <1>5 DEF AcceptOne

LEMMA AcceptNoneInv ==
  ASSUME LoopInv, UNCHANGED benchmark, AcceptNone
  PROVE  LoopInv'
<1>1. UNCHANGED <<tables, completions, kernel, silent>>
  BY DEF AcceptNone
<1>2. Control
  BY DEF AcceptNone, Control, LoopInv, TypeOK, PCs, Late
<1> QED
  BY <1>1, <1>2, ControlInv

LEMMA ClientInv ==
  ASSUME LoopInv, UNCHANGED benchmark, Client
  PROVE  LoopInv'
<1>1. UNCHANGED <<tables, completions, pc, batch, cur, silent>>
  BY DEF Client
<1>2. Control
  BY <1>1 DEF Control, LoopInv, TypeOK, PCs
<1>3. CASE Connect
  <2>1. backlog' \in 0 .. MaxBacklog /\ input' \in [Fds -> BOOLEAN] /\ UNCHANGED <<peer, interest>>
    BY <1>3, LoopAssumption DEF Connect, LoopInv, TypeOK
  <2> QED
    BY <1>1, <1>2, <2>1, SameSockets, TablesKept
<1>4. ASSUME NEW f \in Fds, Send(f) PROVE LoopInv'
  <2>1. backlog' \in 0 .. MaxBacklog /\ input' \in [Fds -> BOOLEAN] /\ UNCHANGED <<peer, interest>>
    BY <1>4 DEF Send, LoopInv, TypeOK
  <2> QED
    BY <1>1, <1>2, <2>1, SameSockets, TablesKept
<1>5. ASSUME NEW f \in Fds, Leave(f) PROVE LoopInv'
  <2>1. backlog' \in 0 .. MaxBacklog /\ input' \in [Fds -> BOOLEAN] /\ UNCHANGED interest
    BY <1>5 DEF Leave, LoopInv, TypeOK
  <2>2. /\ peer' \in [Fds -> {"none", "up", "fin", "reset", "hup"}]
        /\ \A g \in Fds : Open(g)' <=> Open(g)
    BY <1>5 DEF Leave, LoopInv, TypeOK, Open
  <2> QED
    BY <1>1, <1>2, <2>1, <2>2, TablesKept
<1> QED
  BY <1>3, <1>4, <1>5 DEF Client

LEMMA NextInv == LoopInv /\ [Next]_vars => LoopInv'
<1> SUFFICES ASSUME LoopInv, [Next]_vars PROVE LoopInv'
  OBVIOUS
<1>1. CASE UNCHANGED vars
  <2>1. UNCHANGED <<benchmark, tables, completions, pc, batch, cur, kernel, silent>>
    BY <1>1 DEF vars
  <2>2. Control
    BY <2>1 DEF Control, LoopInv, TypeOK, PCs
  <2> QED
    BY <2>1, <2>2, ControlInv
<1>2. CASE Loop /\ UNCHANGED benchmark
  BY <1>2, PollWaitInv, EvictInv, DispatchInv, ReadEventInv, WriteEventInv, AcceptOneInv,
     AcceptNoneInv DEF Loop
<1>3. CASE Client /\ UNCHANGED benchmark
  BY <1>3, ClientInv
<1> QED
  BY <1>1, <1>2, <1>3 DEF Next

-----------------------------------------------------------------------------
(* Only accepting starts a connection *)

\* A handler gives a state only to the slot it was called for.
LEMMA HandlersKeepIdle ==
  ASSUME LoopInv, NEW s \in Slots, Used(s),
         HandleRead(s) \/ (state_table[s] = "TLS_HANDSHAKE" /\ HandleHandshake(s)),
         NEW r \in Slots, ~Used(r)
  PROVE  ~Used(r)'
<1>1. r # s
  OBVIOUS
<1>2. state_table' = state_table \/ \E st : state_table' = [state_table EXCEPT ![s] = st]
  BY DEF HandleRead, HandleHandshake, HandshakeStep, HandshakeFails, ReadNothing, ReadEnds,
         ReadPart, ReadTooLong, ReadRequest, CloseSlot, Release, tables
<1> QED
  BY <1>1, <1>2 DEF Used, LoopInv, TypeOK

LEMMA WritesKeepIdle ==
  ASSUME LoopInv, NEW s \in Slots, HandleWrite(s), NEW r \in Slots, ~Used(r)
  PROVE  ~Used(r)'
<1>1. CASE state_table[s] = "TLS_HANDSHAKE" /\ HandleHandshake(s)
  BY <1>1, HandlersKeepIdle DEF Used
<1>2. CASE WriteNothing(s)
  BY <1>2 DEF WriteNothing, tables, Used
<1>3. CASE WriteSome(s)
  <2>1. WriteResults(s) # {-1}
    BY <1>3 DEF WriteSome
  <2>2. fd_table[s] \in Fds
    BY <2>1 DEF WriteResults
  <2>3. Used(s)
    BY <2>2, LoopAssumption DEF LoopInv, SlotInv
  <2>4. state_table' = state_table \/ \E st : state_table' = [state_table EXCEPT ![s] = st]
    BY <1>3 DEF WriteSome
  <2> QED
    BY <2>3, <2>4 DEF Used, LoopInv, TypeOK
<1> QED
  BY <1>1, <1>2, <1>3 DEF HandleWrite

LEMMA IdleUnlessAccepted ==
  ASSUME LoopInv, [Next]_vars, NEW r \in Slots, ~Used(r), Used(r)'
  PROVE  pc = "accept"
<1>1. CASE UNCHANGED state_table
  BY <1>1 DEF Used
<1>2. CASE Evict
  <2>1. CASE UNCHANGED tables
    BY <1>1, <2>1 DEF tables
  <2>2. CASE \E s \in Timers!Due(0) : CloseSlot(s)
    <3>1. PICK s : state_table' = [state_table EXCEPT ![s] = "IDLE"]
      BY <2>2 DEF CloseSlot, Release
    <3> QED
      BY <3>1 DEF Used, LoopInv, TypeOK
  <2> QED
    BY <1>2, <2>1, <2>2 DEF Evict
<1>3. CASE ReadEvent
  <2>1. PICK e \in batch : SlotsOf(e.fd) # {} /\ HandleRead(Min(SlotsOf(e.fd)))
    BY <1>3 DEF ReadEvent
  <2> QED
    BY <2>1, SlotsOfIn, HandlersKeepIdle
<1>4. CASE WriteEvent
  <2>1. cur \in Slots /\ HandleWrite(cur)
    BY <1>4 DEF WriteEvent, LoopInv, TypeOK
  <2> QED
    BY <2>1, WritesKeepIdle
<1>5. CASE AcceptOne
  BY <1>5 DEF AcceptOne
<1>6. CASE Dispatch \/ AcceptNone \/ Client \/ \E tick \in 0 .. MaxTick : PollWait(tick)
  BY <1>1, <1>6 DEF Dispatch, AcceptNone, Client, PollWait, tables
<1>7. CASE UNCHANGED vars
  BY <1>1, <1>7 DEF vars, tables
<1> QED
  BY <1>2, <1>3, <1>4, <1>5, <1>6, <1>7 DEF Next, Loop

-----------------------------------------------------------------------------
(* The theorems *)

LEMMA LoopInvHolds == Spec => []LoopInv
<1>1. Init => LoopInv
  BY InitLoop
<1>2. LoopInv /\ [Next]_vars => LoopInv'
  BY NextInv
<1> QED
  BY <1>1, <1>2, PTL DEF Spec

\* Every table of loop.ohn stays within its type, and active_count between 0
\* and MAX_CONN, whatever the clients and the kernel do.
THEOREM LoopTypes == Spec => []TypeOK
<1>1. LoopInv => TypeOK
  BY DEF LoopInv
<1> QED
  BY <1>1, LoopInvHolds, PTL

\* The slots in use, the open sockets, the registrations with the kernel and the
\* timers are always the same set, and active_count counts it: no path through
\* closeSlot, the handlers or acceptConnections leaks one of them.
THEOREM NothingIsLeaked == Spec => []NothingLeaked
<1>1. LoopInv => NothingLeaked
  BY DEF LoopInv
<1> QED
  BY <1>1, LoopInvHolds, PTL

\* The registration that sys_poll_add and sys_poll_mod leave is the one the
\* slot's state waits for, and a writing slot has something to write.
THEOREM RegisteredForItsState == Spec => []ListensForItsState
<1>1. LoopInv => ListensForItsState
  BY DEF LoopInv
<1> QED
  BY <1>1, LoopInvHolds, PTL

\* When onLoop's eviction is over, no connection whose time is over is left, and
\* none is handled in that turn.
THEOREM ExpiredAreEvicted == Spec => []EvictedOnTime
<1>1. LoopInv => EvictedOnTime
  BY DEF LoopInv
<1> QED
  BY <1>1, LoopInvHolds, PTL

\* With TLS, a connection that has not finished its handshake has at most the five
\* seconds it was accepted with, whatever it sends.
THEOREM HandshakesAreShort == Spec => []HandshakeSoonEvicted
<1>1. LoopInv => HandshakeSoonEvicted
  BY DEF LoopInv
<1> QED
  BY <1>1, LoopInvHolds, PTL

\* No handler, run for an event that comes late or twice, takes a closed slot into
\* use again; only acceptConnections does.
THEOREM OnlyAcceptStartsSlots == Spec => OnlyAcceptStarts
<1>1. LoopInv /\ [Next]_vars => [\A s \in Slots : ~Used(s) /\ Used(s)' => pc = "accept"]_vars
  BY IdleUnlessAccepted
<1> QED
  BY <1>1, LoopInvHolds, PTL DEF Spec, OnlyAcceptStarts
=============================================================================
