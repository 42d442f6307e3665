---------------------------- MODULE Database_proofs ----------------------------
(***************************************************************************)
(* Proofs about the buffer pool, for any threads, frames and pages.  The   *)
(* argument: a thread that changes a frame, or that relies on its contents *)
(* over several steps, holds the frame's lock, so a step of one thread     *)
(* only matters to the frame it works on and to nobody else who works on   *)
(* that frame.                                                             *)
(***************************************************************************)
EXTENDS BufferPool, SlottedPage, WellFoundedInduction, TLAPS

Counters == {"idle", "using", "wlock", "append", "image", "count", "advance", "writeback", "load",
             "unlock"}

PoolTypeOK ==
    /\ pageTable \in [Frames -> [lba : Lbas \cup {NoPage}, dirty : BOOLEAN]]
    /\ frame \in [Frames -> [lba : Lbas \cup {NoPage}, write : Nat]]
    /\ disk \in [Lbas -> Nat]
    /\ lock \in [Frames -> [readers : SUBSET Threads, writer : Threads \cup {Nobody}]]
    /\ pc \in [Threads -> Counters]
    /\ page \in [Threads -> Lbas \cup {NoPage}]
    /\ mode \in [Threads -> {"read", "write", "flush"}]
    /\ index \in [Threads -> Frames]
    /\ writes \in Nat
    /\ latest \in [Lbas -> Nat]
    /\ flushFrom \in [Threads -> [Lbas -> Nat]]
    /\ durable \in [Lbas -> Nat]

\* The page in a frame is on disk as it was last changed.
Clean(f) == pageTable[f].lba # NoPage => disk[pageTable[f].lba] = latest[pageTable[f].lba]

\* A lock has readers or a writer; a frame holds the page the table names,
\* with its last change, and is clean or marked dirty.
FrameInv(f) ==
    /\ lock[f].writer # Nobody => lock[f].readers = {}
    /\ pageTable[f].lba # NoPage =>
          /\ PageFrame(pageTable[f].lba) = f
          /\ frame[f] = [lba |-> pageTable[f].lba, write |-> latest[pageTable[f].lba]]
    /\ pageTable[f].dirty => pageTable[f].lba # NoPage
    /\ ~pageTable[f].dirty => Clean(f)

\* A page that is in no frame is on disk.
PageInv(l) == pageTable[PageFrame(l)].lba # l => disk[l] = latest[l]

\* What a thread knows at each place of its call.
ThreadInv(t) ==
    /\ pc[t] = "idle" => mode[t] = "read" /\ index[t] = 0
    /\ pc[t] = "wlock" => mode[t] = "flush" \/ (mode[t] = "read" /\ page[t] \in Lbas)
    /\ pc[t] \in {"append", "image", "count", "advance", "writeback"} =>
          /\ mode[t] = "flush" \/ page[t] \in Lbas
          /\ lock[FrameOf(t)].writer = t
          /\ pageTable[FrameOf(t)].dirty
    /\ pc[t] = "load" =>
          /\ mode[t] # "flush" /\ page[t] \in Lbas
          /\ lock[FrameOf(t)].writer = t
          /\ Clean(FrameOf(t))
    /\ pc[t] = "unlock" =>
          /\ mode[t] = "flush"
          /\ lock[FrameOf(t)].writer = t
          /\ Clean(FrameOf(t))
    /\ pc[t] = "using" =>
          /\ mode[t] # "flush" /\ page[t] \in Lbas
          /\ lock[FrameOf(t)].writer = t \/ (mode[t] = "read" /\ t \in lock[FrameOf(t)].readers)
          /\ pageTable[FrameOf(t)].lba = page[t]
          /\ mode[t] = "write" => pageTable[FrameOf(t)].dirty

PoolInv ==
    /\ PoolTypeOK
    /\ \A f \in Frames : FrameInv(f)
    /\ \A l \in Lbas : PageInv(l)
    /\ \A t \in Threads : ThreadInv(t)

\* What has reached the disk, page by page and flush by flush.
DurableInv ==
    /\ \A l \in Lbas : durable[l] <= disk[l] /\ disk[l] <= latest[l] /\ latest[l] <= writes
    /\ \A t \in Threads : \A l \in Lbas :
          /\ flushFrom[t][l] <= latest[l]
          /\ mode[t] = "flush" /\ PageFrame(l) < index[t] => flushFrom[t][l] <= disk[l]

\* What an append that meets no other has written is where the tail was, and
\* no thread has read a tail from before it.
Alone(t) == ~met[t]
SafeAt(t, p) ==
    /\ p \in DOMAIN log /\ log[p] = frame[FrameOf(t)]
    /\ p < wal_tail_lba
    /\ \A s \in Threads \ {t} : InAppend(s) => p < tail[s]

AloneInv(t) ==
    Alone(t) =>
        /\ InAppend(t) => OthersInAppend(t) = {}
        /\ pc[t] \in {"image", "count"} => tail[t] = wal_tail_lba
        /\ pc[t] = "advance" => tail[t] = wal_tail_lba + 1
        /\ pc[t] \in {"count", "advance"} =>
              wal_tail_lba \in DOMAIN log /\ log[wal_tail_lba] = frame[FrameOf(t)]
        /\ pc[t] = "writeback" => \E p \in Nat : SafeAt(t, p)

LogInv == \A t \in Threads : AloneInv(t)
LogTypeOK ==
    /\ wal_tail_lba \in Nat /\ DOMAIN log \subseteq Nat
    /\ tail \in [Threads -> Nat] /\ met \in [Threads -> BOOLEAN]

-----------------------------------------------------------------------------
(* Frames, locks and a step that touches one frame *)

LEMMA PagesHaveFrames ==
  /\ NoPage \notin Lbas /\ 0 \in Frames
  /\ \A l \in Lbas : PageFrame(l) \in Frames
  BY PoolAssumption DEF NoPage, Frames, PageFrame

LEMMA CallHasFrame ==
  ASSUME PoolTypeOK, NEW t \in Threads, mode[t] = "flush" \/ page[t] \in Lbas
  PROVE  /\ FrameOf(t) \in Frames
         /\ mode[t] # "flush" => FrameOf(t) = PageFrame(page[t])
  BY PagesHaveFrames DEF PoolTypeOK, FrameOf, PageFrame

Locks == [Frames -> [readers : SUBSET Threads, writer : Threads \cup {Nobody}]]

LEMMA ReadLock ==
  ASSUME PoolTypeOK, NEW t \in Threads, NEW f \in Frames, CanRead(t, f),
         lock[f].writer # Nobody => lock[f].readers = {}
  PROVE  /\ RLocked(t, f) \in Locks
         /\ \A g \in Frames \ {f} : RLocked(t, f)[g] = lock[g]
         /\ RLocked(t, f)[f].writer = lock[f].writer
         /\ RLocked(t, f)[f].writer = t \/ t \in RLocked(t, f)[f].readers
         /\ RLocked(t, f)[f].writer # Nobody => RLocked(t, f)[f].readers = {}
         /\ lock[f].readers \subseteq RLocked(t, f)[f].readers
<1>1. lock[f] \in [readers : SUBSET Threads, writer : Threads \cup {Nobody}] /\ lock \in Locks
  BY DEF PoolTypeOK, Locks
<1>2. CASE lock[f].writer = t
  BY <1>1, <1>2, PoolAssumption DEF RLocked
<1>3. CASE lock[f].writer # t
  <2>1. lock[f].writer = Nobody
    BY <1>3 DEF CanRead
  <2>2. RLocked(t, f) = [lock EXCEPT ![f].readers = @ \cup {t}]
    BY <1>3 DEF RLocked
  <2> QED
    BY <1>1, <2>1, <2>2 DEF Locks
<1> QED
  BY <1>2, <1>3

LEMMA WriteLock ==
  ASSUME PoolTypeOK, NEW t \in Threads, NEW f \in Frames, CanWrite(t, f),
         lock[f].writer # Nobody => lock[f].readers = {}
  PROVE  /\ WLocked(t, f) \in Locks
         /\ \A g \in Frames \ {f} : WLocked(t, f)[g] = lock[g]
         /\ WLocked(t, f)[f].writer = t /\ WLocked(t, f)[f].readers = {}
         /\ lock[f].writer \in {t, Nobody} /\ lock[f].readers = {}
<1>1. lock[f] \in [readers : SUBSET Threads, writer : Threads \cup {Nobody}] /\ lock \in Locks
  BY DEF PoolTypeOK, Locks
<1>2. t # Nobody
  BY PoolAssumption
<1>3. lock[f].writer \in {t, Nobody} /\ lock[f].readers = {}
  BY <1>2 DEF CanWrite, Free
<1> QED
  BY <1>1, <1>3 DEF WLocked, Locks

LEMMA Unlock ==
  ASSUME NEW L \in Locks, NEW t \in Threads, NEW f \in Frames
  PROVE  /\ Unlocked(t, f, L) \in Locks
         /\ \A g \in Frames \ {f} : Unlocked(t, f, L)[g] = L[g]
         /\ L[f].writer = t => Unlocked(t, f, L)[f].writer = Nobody
         /\ L[f].writer # t => Unlocked(t, f, L)[f].writer = L[f].writer
         /\ L[f].readers \ {t} \subseteq Unlocked(t, f, L)[f].readers
         /\ Unlocked(t, f, L)[f].readers \subseteq L[f].readers
<1>1. L[f] \in [readers : SUBSET Threads, writer : Threads \cup {Nobody}]
  BY DEF Locks
<1>2. CASE L[f].writer = t
  BY <1>1, <1>2 DEF Unlocked, Locks
<1>3. CASE L[f].writer # t
  BY <1>1, <1>3 DEF Unlocked, Locks
<1> QED
  BY <1>2, <1>3

\* A step of thread t that touches nothing but frame f and its pages, and
\* changes those only with f to itself.
Confined(t, f) ==
    /\ \A s \in Threads \ {t} : /\ pc'[s] = pc[s] /\ page'[s] = page[s]
                                /\ mode'[s] = mode[s] /\ index'[s] = index[s]
    /\ \A g \in Frames \ {f} : /\ pageTable'[g] = pageTable[g] /\ frame'[g] = frame[g]
                               /\ lock'[g] = lock[g]
    /\ \A l \in Lbas : PageFrame(l) # f => disk'[l] = disk[l] /\ latest'[l] = latest[l]
    /\ \A s \in Threads \ {t} : /\ lock[f].writer = s => lock'[f].writer = s
                                /\ s \in lock[f].readers => s \in lock'[f].readers
    /\ \/ lock[f].writer \in {t, Nobody} /\ lock[f].readers = {}
       \/ /\ pageTable'[f] = pageTable[f]
          /\ \A l \in Lbas : disk'[l] = disk[l] /\ latest'[l] = latest[l]

LEMMA OthersKnow ==
  ASSUME PoolInv, PoolTypeOK', NEW t \in Threads, NEW f \in Frames, Confined(t, f),
         NEW s \in Threads \ {t}
  PROVE  ThreadInv(s)'
<1>1. /\ pc'[s] = pc[s] /\ page'[s] = page[s] /\ mode'[s] = mode[s] /\ index'[s] = index[s]
  BY DEF Confined
<1>2. FrameOf(s)' = FrameOf(s)
  BY <1>1 DEF FrameOf
<1>3. ThreadInv(s)
  BY DEF PoolInv
<1>4. CASE pc[s] \in {"idle", "wlock"}
  BY <1>1, <1>3, <1>4 DEF ThreadInv
<1>5. CASE pc[s] \notin {"idle", "wlock"}
  <2>1. pc[s] \in {"using", "append", "image", "count", "advance", "writeback", "load", "unlock"}
    BY <1>5 DEF PoolInv, PoolTypeOK, Counters
  <2>2. mode[s] = "flush" \/ page[s] \in Lbas
    BY <1>3, <2>1 DEF ThreadInv
  <2>3. PICK h \in Frames : h = FrameOf(s)
    BY <2>2, CallHasFrame DEF PoolInv
  <2>4. lock[h].writer = s \/ (pc[s] = "using" /\ mode[s] = "read" /\ s \in lock[h].readers)
    BY <1>3, <2>1, <2>3 DEF ThreadInv
  <2>5. lock'[h].writer = s \/ (pc[s] = "using" /\ mode[s] = "read" /\ s \in lock'[h].readers)
    BY <2>3, <2>4 DEF Confined
  <2>6. lock'[h].writer = s \/ (mode[s] = "read" /\ s \in lock'[h].readers)
    BY <2>5
  <2>7. s # Nobody /\ s # t
    BY PoolAssumption
  <2>8. pageTable'[h] = pageTable[h]
    BY <2>3, <2>4, <2>7 DEF Confined
  <2>9. ASSUME pageTable[h].lba \in Lbas PROVE Clean(h) => Clean(h)'
    <3> DEFINE l == pageTable[h].lba
    <3>1. PageFrame(l) = h
      BY <2>3, <2>9, PagesHaveFrames DEF PoolInv, FrameInv
    <3>2. disk'[l] = disk[l] /\ latest'[l] = latest[l]
      BY <2>3, <2>4, <2>7, <2>9, <3>1 DEF Confined
    <3> QED
      BY <2>8, <3>2 DEF Clean
  <2>10. Clean(h) => Clean(h)'
    <3>1. pageTable[h].lba \in Lbas \cup {NoPage}
      BY <2>3 DEF PoolInv, PoolTypeOK
    <3> QED
      BY <3>1, <2>9, <2>8 DEF Clean
  <2>11. lock[h].writer = s => lock'[h].writer = s
    BY <2>3 DEF Confined
  <2>12. FrameOf(s) = h /\ FrameOf(s)' = h
    BY <1>2, <2>3
  <2>13. Clean(FrameOf(s))' = Clean(h)'
    BY <2>12 DEF Clean
  <2> QED
    BY <1>1, <1>3, <2>1, <2>6, <2>8, <2>10, <2>11, <2>12, <2>13 DEF ThreadInv
<1> QED
  BY <1>4, <1>5

LEMMA StepIsLocal ==
  ASSUME PoolInv, PoolTypeOK', NEW t \in Threads, NEW f \in Frames, Confined(t, f),
         FrameInv(f)', \A l \in Lbas : PageFrame(l) = f => PageInv(l)', ThreadInv(t)'
  PROVE  PoolInv'
<1>1. ASSUME NEW g \in Frames PROVE FrameInv(g)'
  <2>1. CASE g # f
    <3>1. FrameInv(g) /\ pageTable'[g] = pageTable[g] /\ frame'[g] = frame[g] /\ lock'[g] = lock[g]
      BY <2>1 DEF PoolInv, Confined
    <3>2. pageTable[g].lba \in Lbas \cup {NoPage}
      BY DEF PoolInv, PoolTypeOK
    <3>3. pageTable[g].lba # NoPage =>
             /\ latest'[pageTable[g].lba] = latest[pageTable[g].lba]
             /\ disk'[pageTable[g].lba] = disk[pageTable[g].lba]
      BY <2>1, <3>1, <3>2 DEF FrameInv, Confined
    <3> QED
      BY <3>1, <3>3 DEF FrameInv, Clean, PageFrame
  <2> QED
    BY <2>1
<1>2. ASSUME NEW l \in Lbas PROVE PageInv(l)'
  <2>1. CASE PageFrame(l) # f
    <3>1. /\ pageTable'[PageFrame(l)] = pageTable[PageFrame(l)]
          /\ disk'[l] = disk[l] /\ latest'[l] = latest[l] /\ PageInv(l)
      BY <2>1, PagesHaveFrames DEF PoolInv, Confined
    <3> QED
      BY <3>1 DEF PageInv, PageFrame
  <2> QED
    BY <2>1
<1>3. \A s \in Threads : ThreadInv(s)'
  BY OthersKnow
<1> QED
  BY <1>1, <1>2, <1>3 DEF PoolInv

-----------------------------------------------------------------------------
(* Every step keeps the invariant *)

\* The frame, its lock and its page are as the invariant says.
LEMMA FrameKnown ==
  ASSUME PoolInv, NEW f \in Frames
  PROVE  /\ FrameInv(f)
         /\ lock \in Locks
         /\ lock[f] \in [readers : SUBSET Threads, writer : Threads \cup {Nobody}]
         /\ pageTable[f] \in [lba : Lbas \cup {NoPage}, dirty : BOOLEAN]
         /\ frame[f] \in [lba : Lbas \cup {NoPage}, write : Nat]
  BY DEF PoolInv, PoolTypeOK, Locks

LEMMA HitKeeps ==
  ASSUME PoolInv, NEW t \in Threads, NEW l \in Lbas, Hit(t, l)
  PROVE  PoolInv'
<1>1. PICK f \in Frames : f = PageFrame(l)
  BY PagesHaveFrames
<1>2. /\ pc[t] = "idle" /\ pc' = [pc EXCEPT ![t] = "using"]
      /\ mode' = [mode EXCEPT ![t] = "read"] /\ page' = [page EXCEPT ![t] = l]
      /\ UNCHANGED <<index, pageTable, frame, disk, writes, latest, flushFrom, durable>>
      /\ CanRead(t, f) /\ pageTable[f].lba = l /\ lock' = RLocked(t, f)
  BY <1>1 DEF Hit, Goto, Calls, pool, store, history
<1>3. /\ RLocked(t, f) \in Locks
      /\ \A g \in Frames \ {f} : RLocked(t, f)[g] = lock[g]
      /\ RLocked(t, f)[f].writer = lock[f].writer
      /\ RLocked(t, f)[f].writer = t \/ t \in RLocked(t, f)[f].readers
      /\ RLocked(t, f)[f].writer # Nobody => RLocked(t, f)[f].readers = {}
      /\ lock[f].readers \subseteq RLocked(t, f)[f].readers
  BY <1>2, FrameKnown, ReadLock DEF PoolInv, FrameInv
<1>4. PoolTypeOK'
  BY <1>2, <1>3 DEF PoolInv, PoolTypeOK, Locks, Counters
<1>5. Confined(t, f)
  BY <1>2, <1>3 DEF Confined, PoolInv, PoolTypeOK
<1>6. FrameInv(f)'
  BY <1>2, <1>3, FrameKnown DEF FrameInv, Clean, PageFrame
<1>7. \A m \in Lbas : PageInv(m)'
  BY <1>2 DEF PoolInv, PageInv, PageFrame
<1>8. ThreadInv(t)'
  <2>1. pc'[t] = "using" /\ mode'[t] = "read" /\ page'[t] = l
    BY <1>2 DEF PoolInv, PoolTypeOK
  <2>2. FrameOf(t)' = f
    BY <2>1, <1>1 DEF FrameOf, PageFrame
  <2> QED
    BY <2>1, <2>2, <1>2, <1>3 DEF ThreadInv
<1> QED
  BY <1>4, <1>5, <1>6, <1>7, <1>8, StepIsLocal

LEMMA EscalateKeeps ==
  ASSUME PoolInv, NEW t \in Threads, NEW l \in Lbas, Escalate(t, l)
  PROVE  PoolInv'
<1>1. PICK f \in Frames : f = PageFrame(l)
  BY PagesHaveFrames
<1>2. /\ pc[t] = "idle" /\ pc' = [pc EXCEPT ![t] = "wlock"]
      /\ mode' = [mode EXCEPT ![t] = "read"] /\ page' = [page EXCEPT ![t] = l]
      /\ UNCHANGED <<index, pageTable, frame, disk, writes, latest, flushFrom, durable>>
      /\ CanRead(t, f) /\ lock' = Unlocked(t, f, RLocked(t, f))
  BY <1>1 DEF Escalate, Goto, Calls, pool, store, history
<1> DEFINE L == RLocked(t, f)
<1>3. /\ L \in Locks
      /\ \A g \in Frames \ {f} : L[g] = lock[g]
      /\ L[f].writer = lock[f].writer
      /\ L[f].writer # Nobody => L[f].readers = {}
      /\ lock[f].readers \subseteq L[f].readers
  BY <1>2, FrameKnown, ReadLock DEF PoolInv, FrameInv
<1> HIDE DEF L
<1>4. /\ Unlocked(t, f, L) \in Locks
      /\ \A g \in Frames \ {f} : Unlocked(t, f, L)[g] = L[g]
      /\ L[f].writer = t => Unlocked(t, f, L)[f].writer = Nobody
      /\ L[f].writer # t => Unlocked(t, f, L)[f].writer = L[f].writer
      /\ L[f].readers \ {t} \subseteq Unlocked(t, f, L)[f].readers
      /\ Unlocked(t, f, L)[f].readers \subseteq L[f].readers
  BY <1>3, Unlock
<1>5. lock' = Unlocked(t, f, L)
  BY <1>2 DEF L
<1>6. PoolTypeOK'
  BY <1>2, <1>4, <1>5 DEF PoolInv, PoolTypeOK, Locks, Counters
<1>7. Confined(t, f)
  BY <1>2, <1>3, <1>4, <1>5 DEF Confined, PoolInv, PoolTypeOK
<1>8. FrameInv(f)'
  BY <1>2, <1>3, <1>4, <1>5, FrameKnown DEF FrameInv, Clean, PageFrame
<1>9. \A m \in Lbas : PageInv(m)'
  BY <1>2 DEF PoolInv, PageInv, PageFrame
<1>10. ThreadInv(t)'
  BY <1>2 DEF ThreadInv, PoolInv, PoolTypeOK
<1> QED
  BY <1>6, <1>7, <1>8, <1>9, <1>10, StepIsLocal

\* The lock of a frame is taken to evict its page, which is written to the log
\* and to its place first if it is dirty.
EvictStep(t, f, to, m, l) ==
    /\ pc' = [pc EXCEPT ![t] = to] /\ mode' = [mode EXCEPT ![t] = m] /\ page' = [page EXCEPT ![t] = l]
    /\ UNCHANGED <<index, pageTable, frame, disk, writes, latest, flushFrom, durable>>
    /\ CanWrite(t, f) /\ lock' = WLocked(t, f)
    /\ IF m = "flush" THEN f = index[t] ELSE l \in Lbas /\ f = PageFrame(l)
    /\ \/ to = "append" /\ pageTable[f].dirty
       \/ to = "load" /\ ~pageTable[f].dirty /\ m # "flush"

LEMMA EvictKeeps ==
  ASSUME PoolInv, NEW t \in Threads, NEW f \in Frames, NEW to, NEW m \in {"read", "write", "flush"},
         NEW l \in Lbas \cup {NoPage}, EvictStep(t, f, to, m, l)
  PROVE  PoolInv'
<1>1. /\ WLocked(t, f) \in Locks
      /\ \A g \in Frames \ {f} : WLocked(t, f)[g] = lock[g]
      /\ WLocked(t, f)[f].writer = t /\ WLocked(t, f)[f].readers = {}
      /\ lock[f].writer \in {t, Nobody} /\ lock[f].readers = {}
  BY FrameKnown, WriteLock DEF PoolInv, FrameInv, EvictStep
<1> USE DEF EvictStep
<1>2. PoolTypeOK'
  BY <1>1 DEF PoolInv, PoolTypeOK, Locks, Counters
<1>3. Confined(t, f)
  BY <1>1, PoolAssumption DEF Confined, PoolInv, PoolTypeOK
<1>4. FrameInv(f)'
  BY <1>1, FrameKnown DEF FrameInv, Clean, PageFrame
<1>5. \A k \in Lbas : PageInv(k)'
  BY DEF PoolInv, PageInv, PageFrame
<1>6. ThreadInv(t)'
  <2>1. pc'[t] = to /\ mode'[t] = m /\ page'[t] = l /\ index'[t] = index[t]
    BY DEF PoolInv, PoolTypeOK
  <2>2. FrameOf(t)' = f
    BY <2>1 DEF FrameOf, PageFrame
  <2>3. lock'[f].writer = t /\ pageTable'[f] = pageTable[f]
    BY <1>1
  <2>4. ~pageTable[f].dirty => Clean(f)
    BY FrameKnown DEF FrameInv
  <2>5. Clean(FrameOf(t))' <=> Clean(f)
    BY <2>2 DEF Clean
  <2> QED
    BY <2>1, <2>2, <2>3, <2>4, <2>5 DEF ThreadInv
<1> QED
  BY <1>2, <1>3, <1>4, <1>5, <1>6, StepIsLocal

LEMMA ReadMissKeeps ==
  ASSUME PoolInv, NEW t \in Threads, ReadMiss(t)
  PROVE  PoolInv'
<1>1. pc[t] = "wlock" /\ mode[t] = "read" /\ page[t] \in Lbas
  BY DEF ReadMiss, Goto, PoolInv, ThreadInv
<1>2. PICK f \in Frames : f = FrameOf(t)
  BY <1>1, CallHasFrame DEF PoolInv
<1>3. f = PageFrame(page[t])
  BY <1>1, <1>2, CallHasFrame DEF PoolInv
<1>4. EvictStep(t, f, Evicting(f), "read", page[t])
  BY <1>1, <1>2, <1>3 DEF EvictStep, Evicting, ReadMiss, Goto, pool, store, call, history,
                          PoolInv, PoolTypeOK
<1> QED
  BY <1>1, <1>4, EvictKeeps

LEMMA WriteMissKeeps ==
  ASSUME PoolInv, NEW t \in Threads, NEW l \in Lbas, WriteMiss(t, l)
  PROVE  PoolInv'
<1>1. PICK f \in Frames : f = PageFrame(l)
  BY PagesHaveFrames
<1>2. EvictStep(t, f, Evicting(f), "write", l)
  BY <1>1 DEF EvictStep, Evicting, WriteMiss, Goto, Calls, pool, store, history
<1> QED
  BY <1>2, EvictKeeps

LEMMA FlushDirtyKeeps ==
  ASSUME PoolInv, NEW t \in Threads, FlushDirty(t)
  PROVE  PoolInv'
<1>1. PICK f \in Frames : f = index[t]
  BY DEF PoolInv, PoolTypeOK
<1>2. EvictStep(t, f, "append", "flush", page[t]) /\ page[t] \in Lbas \cup {NoPage}
  BY <1>1 DEF EvictStep, FlushDirty, Goto, pool, store, call, history, PoolInv, PoolTypeOK
<1> QED
  BY <1>2, EvictKeeps

LEMMA WriteHitKeeps ==
  ASSUME PoolInv, NEW t \in Threads, NEW l \in Lbas, WriteHit(t, l)
  PROVE  PoolInv'
<1>1. PICK f \in Frames : f = PageFrame(l)
  BY PagesHaveFrames
<1>2. /\ pc' = [pc EXCEPT ![t] = "using"]
      /\ mode' = [mode EXCEPT ![t] = "write"] /\ page' = [page EXCEPT ![t] = l]
      /\ pageTable' = [pageTable EXCEPT ![f].dirty = TRUE]
      /\ UNCHANGED <<index, frame, disk, writes, latest, flushFrom, durable>>
      /\ CanWrite(t, f) /\ lock' = WLocked(t, f) /\ pageTable[f].lba = l
  BY <1>1 DEF WriteHit, Goto, Calls, store, history
<1>3. /\ WLocked(t, f) \in Locks
      /\ \A g \in Frames \ {f} : WLocked(t, f)[g] = lock[g]
      /\ WLocked(t, f)[f].writer = t /\ WLocked(t, f)[f].readers = {}
      /\ lock[f].writer \in {t, Nobody} /\ lock[f].readers = {}
  BY <1>2, FrameKnown, WriteLock DEF PoolInv, FrameInv
<1>4. /\ pageTable'[f].lba = l /\ pageTable'[f].dirty = TRUE
      /\ pageTable' \in [Frames -> [lba : Lbas \cup {NoPage}, dirty : BOOLEAN]]
      /\ \A g \in Frames \ {f} : pageTable'[g] = pageTable[g]
  BY <1>2, FrameKnown DEF PoolInv, PoolTypeOK
<1>5. PoolTypeOK'
  BY <1>2, <1>3, <1>4 DEF PoolInv, PoolTypeOK, Locks, Counters
<1>6. Confined(t, f)
  BY <1>2, <1>3, <1>4, PoolAssumption DEF Confined, PoolInv, PoolTypeOK
<1>7. FrameInv(f)'
  BY <1>2, <1>3, <1>4, FrameKnown, PagesHaveFrames DEF FrameInv, Clean, PageFrame
<1>8. ASSUME NEW m \in Lbas, PageFrame(m) = f PROVE PageInv(m)'
  BY <1>2, <1>4, <1>8 DEF PoolInv, PageInv, PageFrame
<1>9. ThreadInv(t)'
  <2>1. pc'[t] = "using" /\ mode'[t] = "write" /\ page'[t] = l
    BY <1>2 DEF PoolInv, PoolTypeOK
  <2>2. FrameOf(t)' = f
    BY <2>1, <1>1 DEF FrameOf, PageFrame
  <2> QED
    BY <2>1, <2>2, <1>2, <1>3, <1>4 DEF ThreadInv
<1> QED
  BY <1>5, <1>6, <1>7, <1>8, <1>9, StepIsLocal

\* A step of a call that leaves the lock, the frame and the disk as they are.
LEMMA CallFlushKeeps ==
  ASSUME PoolInv, NEW t \in Threads, CallFlush(t)
  PROVE  PoolInv'
<1>1. PICK f \in Frames : f = index[t]
  BY DEF PoolInv, PoolTypeOK
<1>2. /\ pc' = [pc EXCEPT ![t] = "wlock"] /\ mode' = [mode EXCEPT ![t] = "flush"]
      /\ flushFrom' = [flushFrom EXCEPT ![t] = latest]
      /\ UNCHANGED <<pageTable, frame, disk, lock, page, index, writes, latest, durable>>
  BY DEF CallFlush, Goto, pool, store
<1>3. PoolTypeOK'
  BY <1>2 DEF PoolInv, PoolTypeOK, Counters
<1>4. Confined(t, f)
  BY <1>2 DEF Confined, PoolInv, PoolTypeOK
<1>5. FrameInv(f)' /\ \A l \in Lbas : PageInv(l)'
  BY <1>2 DEF PoolInv, FrameInv, Clean, PageFrame, PageInv
<1>6. ThreadInv(t)'
  BY <1>2 DEF ThreadInv, PoolInv, PoolTypeOK
<1> QED
  BY <1>3, <1>4, <1>5, <1>6, StepIsLocal

\* The steps of db_wal_append.
LEMMA AppendKeeps ==
  ASSUME PoolInv, NEW t \in Threads,
         ReadTail(t) \/ AppendImage(t) \/ CountImage(t) \/ Advance(t)
  PROVE  PoolInv'
<1>1. PICK to \in {"image", "count", "advance", "writeback"} :
        /\ pc[t] \in {"append", "image", "count", "advance"} /\ pc' = [pc EXCEPT ![t] = to]
        /\ UNCHANGED <<pageTable, frame, disk, lock, page, mode, index, writes, latest, flushFrom, durable>>
  BY DEF ReadTail, AppendImage, CountImage, Advance, Goto, pool, call, history
<1>2. ThreadInv(t)
  BY DEF PoolInv
<1>3. PICK f \in Frames : f = FrameOf(t)
  BY <1>1, <1>2, CallHasFrame DEF PoolInv, ThreadInv
<1>4. PoolTypeOK'
  BY <1>1 DEF PoolInv, PoolTypeOK, Counters
<1>5. Confined(t, f)
  BY <1>1 DEF Confined, PoolInv, PoolTypeOK
<1>6. FrameInv(f)' /\ \A l \in Lbas : PageInv(l)'
  BY <1>1 DEF PoolInv, FrameInv, Clean, PageFrame, PageInv
<1>7. ThreadInv(t)'
  BY <1>1, <1>2 DEF ThreadInv, FrameOf, PoolInv, PoolTypeOK
<1> QED
  BY <1>4, <1>5, <1>6, <1>7, StepIsLocal

\* The page of the frame reaches its place with its last change.
LEMMA WriteBackStep ==
  ASSUME PoolInv, NEW t \in Threads, WriteBack(t)
  PROVE  \E f \in Frames, l \in Lbas :
            /\ f = FrameOf(t) /\ l = pageTable[f].lba /\ PageFrame(l) = f
            /\ lock[f].writer = t /\ lock[f].readers = {}
            /\ frame[f] = [lba |-> l, write |-> latest[l]]
            /\ disk' = [disk EXCEPT ![l] = latest[l]]
            /\ UNCHANGED <<pageTable, frame, lock, page, mode, index, writes, latest, flushFrom, durable>>
            /\ pc[t] = "writeback"
            /\ pc' = [pc EXCEPT ![t] = IF mode[t] = "flush" THEN "unlock" ELSE "load"]
<1>1. pc[t] = "writeback" /\ ThreadInv(t)
  BY DEF WriteBack, Goto, PoolInv
<1>2. PICK f \in Frames : f = FrameOf(t)
  BY <1>1, CallHasFrame DEF PoolInv, ThreadInv
<1>3. lock[f].writer = t /\ pageTable[f].dirty
  BY <1>1, <1>2 DEF ThreadInv
<1>4. PICK l \in Lbas : l = pageTable[f].lba
  BY <1>3, FrameKnown DEF FrameInv
<1>5. PageFrame(l) = f /\ frame[f] = [lba |-> l, write |-> latest[l]] /\ lock[f].readers = {}
  BY <1>3, <1>4, FrameKnown, PagesHaveFrames, PoolAssumption DEF FrameInv
<1>6. disk' = [disk EXCEPT ![l] = latest[l]]
  <2>1. disk' = [disk EXCEPT ![pageTable[f].lba] = frame[f].write]
    BY <1>2 DEF WriteBack
  <2>2. frame[f].write = latest[l]
    BY <1>5
  <2> QED
    BY <2>1, <2>2, <1>4
<1>7. /\ UNCHANGED <<pageTable, frame, lock, page, mode, index, writes, latest, flushFrom, durable>>
      /\ pc' = [pc EXCEPT ![t] = IF mode[t] = "flush" THEN "unlock" ELSE "load"]
  BY DEF WriteBack, Goto, pool, call, history
<1> QED
  BY ONLY <1>1, <1>2, <1>3, <1>4, <1>5, <1>6, <1>7

LEMMA WriteBackKeeps ==
  ASSUME PoolInv, NEW t \in Threads, WriteBack(t)
  PROVE  PoolInv'
<1>1. PICK f \in Frames, l \in Lbas :
            /\ f = FrameOf(t) /\ l = pageTable[f].lba /\ PageFrame(l) = f
            /\ lock[f].writer = t /\ lock[f].readers = {}
            /\ frame[f] = [lba |-> l, write |-> latest[l]]
            /\ disk' = [disk EXCEPT ![l] = latest[l]]
            /\ UNCHANGED <<pageTable, frame, lock, page, mode, index, writes, latest, flushFrom, durable>>
            /\ pc[t] = "writeback"
            /\ pc' = [pc EXCEPT ![t] = IF mode[t] = "flush" THEN "unlock" ELSE "load"]
  BY WriteBackStep
<1>2. disk'[l] = latest[l] /\ \A m \in Lbas \ {l} : disk'[m] = disk[m]
  BY <1>1 DEF PoolInv, PoolTypeOK
<1>3. PoolTypeOK'
  BY <1>1 DEF PoolInv, PoolTypeOK, Counters
<1>4. Confined(t, f)
  BY <1>1, <1>2, PoolAssumption DEF Confined, PoolInv, PoolTypeOK
<1>5. FrameInv(f)'
  BY <1>1, <1>2, FrameKnown DEF FrameInv, Clean, PageFrame
<1>6. ASSUME NEW m \in Lbas, PageFrame(m) = f PROVE PageInv(m)'
  BY <1>1, <1>2, <1>6 DEF PoolInv, PageInv, PageFrame
<1>7. ThreadInv(t)'
  <2>1. ThreadInv(t)
    BY DEF PoolInv
  <2>2. FrameOf(t)' = f
    BY <1>1 DEF FrameOf
  <2>3. Clean(FrameOf(t))'
    BY <1>1, <1>2, <2>2 DEF Clean
  <2>4. pc'[t] = IF mode[t] = "flush" THEN "unlock" ELSE "load"
    BY <1>1 DEF PoolInv, PoolTypeOK
  <2> QED
    BY <1>1, <2>1, <2>2, <2>3, <2>4 DEF ThreadInv
<1> QED
  BY <1>3, <1>4, <1>5, <1>6, <1>7, StepIsLocal

LEMMA LoadKeeps ==
  ASSUME PoolInv, NEW t \in Threads, Load(t)
  PROVE  PoolInv'
<1>1. pc[t] = "load" /\ ThreadInv(t)
  BY DEF Load, Goto, PoolInv
<1>2. PICK f \in Frames : f = FrameOf(t)
  BY <1>1, CallHasFrame DEF PoolInv, ThreadInv
<1>3. PICK l \in Lbas : l = page[t]
  BY <1>1 DEF ThreadInv
<1>4. /\ mode[t] # "flush" /\ lock[f].writer = t /\ Clean(f) /\ PageFrame(l) = f
  BY <1>1, <1>2, <1>3, CallHasFrame DEF ThreadInv, PoolInv
<1>5. /\ pc' = [pc EXCEPT ![t] = "using"]
      /\ frame' = [frame EXCEPT ![f] = [lba |-> l, write |-> disk[l]]]
      /\ pageTable' = [pageTable EXCEPT ![f] = [lba |-> l, dirty |-> mode[t] = "write"]]
      /\ UNCHANGED <<disk, lock, page, mode, index, writes, latest, flushFrom, durable>>
  BY <1>2, <1>3 DEF Load, Goto, store, call, history
<1>6. /\ frame'[f] = [lba |-> l, write |-> disk[l]]
      /\ pageTable'[f] = [lba |-> l, dirty |-> mode[t] = "write"]
      /\ \A g \in Frames \ {f} : frame'[g] = frame[g] /\ pageTable'[g] = pageTable[g]
  BY <1>5 DEF PoolInv, PoolTypeOK
<1>7. disk[l] = latest[l]
  <2>1. CASE pageTable[f].lba = l
    BY <2>1, <1>4, PagesHaveFrames DEF Clean
  <2>2. CASE pageTable[f].lba # l
    BY <2>2, <1>4 DEF PoolInv, PageInv
  <2> QED
    BY <2>1, <2>2
<1>8. PoolTypeOK'
  BY <1>5 DEF PoolInv, PoolTypeOK, Counters
<1>9. lock[f].readers = {}
  BY <1>4, FrameKnown, PoolAssumption DEF FrameInv
<1>10. Confined(t, f)
  BY <1>4, <1>5, <1>6, <1>9 DEF Confined, PoolInv, PoolTypeOK
<1>11. pageTable'[f].lba = l /\ (mode[t] = "write" => pageTable'[f].dirty)
  <2>1. PICK d \in BOOLEAN : d <=> mode[t] = "write"
    OBVIOUS
  <2>2. [lba |-> l, dirty |-> mode[t] = "write"] = [lba |-> l, dirty |-> d]
    BY <2>1
  <2>3. pageTable'[f] = [lba |-> l, dirty |-> d]
    BY ONLY <1>6, <2>2
  <2> QED
    BY ONLY <2>1, <2>3
<1>12. FrameInv(f)'
  <2>1. latest'[l] = latest[l] /\ disk'[l] = latest[l] /\ lock'[f] = lock[f]
    BY <1>5, <1>7
  <2>2. frame'[f] = [lba |-> l, write |-> latest'[l]]
    BY <1>6, <1>7, <2>1
  <2> QED
    BY <1>4, <1>9, <1>11, <2>1, <2>2, PagesHaveFrames DEF FrameInv, Clean, PageFrame
<1>13. ASSUME NEW m \in Lbas, PageFrame(m) = f PROVE PageInv(m)'
  <2>1. pageTable[f].lba = m => disk[m] = latest[m]
    BY <1>4, PagesHaveFrames DEF Clean
  <2>2. pageTable[f].lba # m => disk[m] = latest[m]
    BY <1>13 DEF PoolInv, PageInv
  <2> QED
    BY <1>5, <2>1, <2>2 DEF PageInv
<1>14. ThreadInv(t)'
  <2>1. pc'[t] = "using" /\ FrameOf(t)' = f
    BY <1>2, <1>5 DEF FrameOf, PoolInv, PoolTypeOK
  <2> QED
    BY <2>1, <1>3, <1>4, <1>5, <1>11 DEF ThreadInv
<1> QED
  BY <1>8, <1>10, <1>12, <1>13, <1>14, StepIsLocal

\* The lock of the frame is given up at the end of a round of db_flush_all,
\* when its page is on disk.
LEMMA RoundClean ==
  ASSUME PoolInv, NEW t \in Threads, NEW to, RoundEnds(t, to)
  PROVE  /\ Clean(index[t]) /\ mode[t] = "flush" /\ FrameOf(t) = index[t]
         /\ \A l \in Lbas : PageFrame(l) = index[t] => disk[l] = latest[l]
         /\ lock[index[t]].writer \in {t, Nobody} /\ lock[index[t]].readers = {}
         /\ lock' \in Locks
         /\ \A g \in Frames \ {index[t]} : lock'[g] = lock[g]
         /\ lock'[index[t]].writer = Nobody /\ lock'[index[t]].readers = {}
<1>1. PICK f \in Frames : f = index[t]
  BY DEF PoolInv, PoolTypeOK
<1>2. mode[t] = "flush" /\ FrameOf(t) = f
  BY <1>1 DEF RoundEnds, FrameOf
<1>3. CanWrite(t, f) /\ Clean(f)
  <2>1. CASE pc[t] = "unlock"
    BY <1>2, <2>1 DEF PoolInv, ThreadInv, CanWrite
  <2>2. CASE pc[t] # "unlock"
    BY <1>1, <2>2, FrameKnown DEF RoundEnds, Goto, FrameInv
  <2> QED
    BY <2>1, <2>2
<1>4. /\ WLocked(t, f) \in Locks
      /\ \A g \in Frames \ {f} : WLocked(t, f)[g] = lock[g]
      /\ WLocked(t, f)[f].writer = t /\ WLocked(t, f)[f].readers = {}
      /\ lock[f].writer \in {t, Nobody} /\ lock[f].readers = {}
  BY <1>3, FrameKnown, WriteLock DEF PoolInv, FrameInv
<1>5. lock' = Unlocked(t, f, WLocked(t, f))
  BY <1>1 DEF RoundEnds
<1>6. /\ lock' \in Locks /\ \A g \in Frames \ {f} : lock'[g] = lock[g]
      /\ lock'[f].writer = Nobody /\ lock'[f].readers = {}
  BY <1>4, <1>5, Unlock
<1>7. ASSUME NEW l \in Lbas, PageFrame(l) = f PROVE disk[l] = latest[l]
  BY <1>3, <1>7, PagesHaveFrames DEF Clean, PoolInv, PageInv
<1> QED
  BY <1>1, <1>2, <1>3, <1>4, <1>6, <1>7

LEMMA RoundKeeps ==
  ASSUME PoolInv, NEW t \in Threads, NextFrame(t) \/ EndFlush(t)
  PROVE  PoolInv'
<1>1. PICK to \in {"wlock", "idle"} :
        /\ RoundEnds(t, to)
        /\ UNCHANGED <<frame, disk, writes, latest>>
        /\ \/ /\ to = "wlock" /\ index' = [index EXCEPT ![t] = @ + 1] /\ index[t] + 1 < NUM_FRAMES
              /\ UNCHANGED <<page, mode, flushFrom, durable>>
           \/ /\ to = "idle" /\ Return(t)
              /\ durable' = [l \in Lbas |-> Larger(flushFrom[t][l], durable[l])]
  BY DEF NextFrame, EndFlush, store, history
<1>2. PICK f \in Frames : f = index[t]
  BY DEF PoolInv, PoolTypeOK
<1>3. /\ Clean(f) /\ mode[t] = "flush" /\ FrameOf(t) = f
      /\ \A l \in Lbas : PageFrame(l) = f => disk[l] = latest[l]
      /\ lock[f].writer \in {t, Nobody} /\ lock[f].readers = {}
      /\ lock' \in Locks
      /\ \A g \in Frames \ {f} : lock'[g] = lock[g]
      /\ lock'[f].writer = Nobody /\ lock'[f].readers = {}
  BY <1>1, <1>2, RoundClean
<1>4. /\ pc' = [pc EXCEPT ![t] = to] /\ pageTable' = [pageTable EXCEPT ![f].dirty = FALSE]
  BY <1>1, <1>2 DEF RoundEnds, Goto
<1>5. /\ pageTable' \in [Frames -> [lba : Lbas \cup {NoPage}, dirty : BOOLEAN]]
      /\ pageTable'[f].lba = pageTable[f].lba /\ pageTable'[f].dirty = FALSE
      /\ \A g \in Frames \ {f} : pageTable'[g] = pageTable[g]
  BY <1>4, FrameKnown DEF PoolInv, PoolTypeOK
<1>6. /\ index' \in [Threads -> Frames] /\ \A s \in Threads \ {t} : index'[s] = index[s]
      /\ page' \in [Threads -> Lbas \cup {NoPage}] /\ \A s \in Threads \ {t} : page'[s] = page[s]
      /\ mode' \in [Threads -> {"read", "write", "flush"}]
      /\ \A s \in Threads \ {t} : mode'[s] = mode[s]
      /\ to = "wlock" => mode'[t] = "flush"
      /\ to = "idle" => mode'[t] = "read" /\ index'[t] = 0
  <2>1. CASE to = "wlock"
    <3>1. index[t] + 1 \in Frames
      BY <1>1, <1>2, <2>1, PoolAssumption DEF Frames
    <3>2. page' = page /\ mode' = mode /\ index' = [index EXCEPT ![t] = @ + 1]
      BY <1>1, <2>1
    <3>3. index' \in [Threads -> Frames] /\ \A s \in Threads \ {t} : index'[s] = index[s]
      BY <3>1, <3>2 DEF PoolInv, PoolTypeOK
    <3>4. /\ page \in [Threads -> Lbas \cup {NoPage}]
          /\ mode \in [Threads -> {"read", "write", "flush"}]
      BY DEF PoolInv, PoolTypeOK
    <3> QED
      BY ONLY <1>3, <2>1, <3>2, <3>3, <3>4
  <2>2. CASE to = "idle"
    <3>1. /\ page' = [page EXCEPT ![t] = NoPage] /\ mode' = [mode EXCEPT ![t] = "read"]
          /\ index' = [index EXCEPT ![t] = 0]
      BY <1>1, <2>2 DEF Return
    <3> QED
      BY <2>2, <3>1, PagesHaveFrames DEF PoolInv, PoolTypeOK
  <2> QED
    BY <2>1, <2>2
<1>7. flushFrom' \in [Threads -> [Lbas -> Nat]] /\ durable' \in [Lbas -> Nat]
  <2>1. CASE to = "wlock"
    BY <1>1, <2>1 DEF PoolInv, PoolTypeOK
  <2>2. CASE to = "idle"
    <3>1. \A l \in Lbas : Larger(flushFrom[t][l], durable[l]) \in Nat
      BY DEF Larger, PoolInv, PoolTypeOK
    <3>2. [l \in Lbas |-> 0] \in [Lbas -> Nat]
      OBVIOUS
    <3>3. flushFrom' = [flushFrom EXCEPT ![t] = [l \in Lbas |-> 0]]
      BY <1>1, <2>2 DEF Return
    <3>4. durable' = [l \in Lbas |-> Larger(flushFrom[t][l], durable[l])]
      BY <1>1, <2>2
    <3> QED
      BY <3>1, <3>2, <3>3, <3>4 DEF PoolInv, PoolTypeOK
  <2> QED
    BY <2>1, <2>2
<1>8. PoolTypeOK'
  BY <1>1, <1>3, <1>4, <1>5, <1>6, <1>7 DEF PoolInv, PoolTypeOK, Locks, Counters
<1>9. Confined(t, f)
  BY <1>1, <1>3, <1>4, <1>5, <1>6, PoolAssumption DEF Confined, PoolInv, PoolTypeOK
<1>10. FrameInv(f)'
  BY <1>1, <1>3, <1>5, FrameKnown DEF FrameInv, Clean, PageFrame
<1>11. ASSUME NEW l \in Lbas, PageFrame(l) = f PROVE PageInv(l)'
  BY <1>1, <1>3, <1>11 DEF PageInv
<1>12. ThreadInv(t)'
  <2>1. pc'[t] = to
    BY <1>4 DEF PoolInv, PoolTypeOK
  <2> QED
    BY <2>1, <1>1, <1>6 DEF ThreadInv
<1> QED
  BY <1>8, <1>9, <1>10, <1>11, <1>12, StepIsLocal

LEMMA ChangeKeeps ==
  ASSUME PoolInv, NEW t \in Threads, Change(t)
  PROVE  PoolInv'
<1>1. pc[t] = "using" /\ mode[t] = "write" /\ ThreadInv(t)
  BY DEF Change, PoolInv
<1>2. PICK f \in Frames : f = FrameOf(t)
  BY <1>1, CallHasFrame DEF PoolInv, ThreadInv
<1>3. PICK l \in Lbas : l = page[t]
  BY <1>1 DEF ThreadInv
<1>4. /\ lock[f].writer = t /\ PageFrame(l) = f /\ pageTable[f].lba = l /\ pageTable[f].dirty
  BY <1>1, <1>2, <1>3, CallHasFrame DEF ThreadInv, PoolInv
<1>5. lock[f].readers = {}
  BY <1>4, FrameKnown, PoolAssumption DEF FrameInv
<1>6. /\ writes' = writes + 1
      /\ frame' = [frame EXCEPT ![f].write = writes + 1]
      /\ latest' = [latest EXCEPT ![l] = writes + 1]
      /\ UNCHANGED <<pageTable, disk, lock, pc, page, mode, index, flushFrom, durable>>
  BY <1>2, <1>3 DEF Change, store, call
<1>7. frame[f] = [lba |-> l, write |-> latest[l]]
  BY <1>4, FrameKnown, PagesHaveFrames DEF FrameInv
<1>8. /\ writes + 1 \in Nat
      /\ frame'[f] = [lba |-> l, write |-> writes + 1] /\ latest'[l] = writes + 1
      /\ \A g \in Frames \ {f} : frame'[g] = frame[g]
      /\ \A m \in Lbas \ {l} : latest'[m] = latest[m]
  BY <1>6, <1>7 DEF PoolInv, PoolTypeOK
<1>9. PoolTypeOK'
  BY <1>6, <1>8 DEF PoolInv, PoolTypeOK
<1>10. Confined(t, f)
  BY <1>4, <1>5, <1>6, <1>8 DEF Confined, PoolInv, PoolTypeOK
<1>11. FrameInv(f)'
  <2>1. frame'[f] = [lba |-> l, write |-> latest'[l]]
    BY <1>8
  <2> QED
    BY <1>4, <1>5, <1>6, <2>1, PagesHaveFrames DEF FrameInv, PageFrame
<1>12. ASSUME NEW m \in Lbas, PageFrame(m) = f PROVE PageInv(m)'
  BY <1>4, <1>6, <1>8, <1>12 DEF PoolInv, PageInv, PageFrame
<1>13. ThreadInv(t)'
  BY <1>1, <1>6 DEF ThreadInv, FrameOf
<1> QED
  BY <1>9, <1>10, <1>11, <1>12, <1>13, StepIsLocal

\* A page is given back, or forgotten with its lock.
LEMMA ReleaseKeeps ==
  ASSUME PoolInv, NEW t \in Threads, Release(t) \/ Forget(t)
  PROVE  PoolInv'
<1>1. pc[t] = "using" /\ ThreadInv(t)
  BY DEF Release, Forget, Goto, PoolInv
<1>2. PICK f \in Frames : f = FrameOf(t)
  BY <1>1, CallHasFrame DEF PoolInv, ThreadInv
<1>3. /\ Return(t) /\ pc' = [pc EXCEPT ![t] = "idle"]
      /\ lock' \in {lock, Unlocked(t, f, lock)}
      /\ UNCHANGED <<pageTable, frame, disk, writes, latest, durable>>
  BY <1>2 DEF Release, Forget, Goto, pool, store
<1>4. /\ lock' \in Locks
      /\ \A g \in Frames \ {f} : lock'[g] = lock[g]
      /\ lock[f].writer = t => lock'[f].writer \in {t, Nobody}
      /\ lock[f].writer # t => lock'[f].writer = lock[f].writer
      /\ lock[f].readers \ {t} \subseteq lock'[f].readers
      /\ lock'[f].readers \subseteq lock[f].readers
  BY <1>3, Unlock, FrameKnown
<1>5. /\ page' \in [Threads -> Lbas \cup {NoPage}] /\ index' \in [Threads -> Frames]
      /\ mode' \in [Threads -> {"read", "write", "flush"}]
      /\ mode'[t] = "read" /\ index'[t] = 0 /\ pc'[t] = "idle"
      /\ \A s \in Threads \ {t} : /\ page'[s] = page[s] /\ index'[s] = index[s]
                                  /\ mode'[s] = mode[s] /\ pc'[s] = pc[s]
  BY <1>3, PagesHaveFrames DEF Return, PoolInv, PoolTypeOK
<1>6. flushFrom' \in [Threads -> [Lbas -> Nat]]
  <2>1. [l \in Lbas |-> 0] \in [Lbas -> Nat]
    OBVIOUS
  <2>2. flushFrom' = [flushFrom EXCEPT ![t] = [l \in Lbas |-> 0]]
    BY <1>3 DEF Return
  <2> QED
    BY <2>1, <2>2 DEF PoolInv, PoolTypeOK
<1>7. PoolTypeOK'
  BY <1>3, <1>4, <1>5, <1>6 DEF PoolInv, PoolTypeOK, Locks, Counters
<1>8. Confined(t, f)
  BY <1>3, <1>4, <1>5, PoolAssumption DEF Confined, PoolInv, PoolTypeOK
<1>9. FrameInv(f)'
  <2>1. lock'[f].writer # Nobody => lock[f].writer # Nobody
    BY <1>4
  <2>2. lock[f].writer # Nobody => lock[f].readers = {}
    BY FrameKnown DEF FrameInv
  <2>3. lock'[f].writer # Nobody => lock'[f].readers = {}
    BY <1>4, <2>1, <2>2
  <2> QED
    BY <1>3, <2>3, FrameKnown DEF FrameInv, Clean, PageFrame
<1>10. \A l \in Lbas : PageInv(l)'
  BY <1>3 DEF PoolInv, PageInv, PageFrame
<1>11. ThreadInv(t)'
  BY <1>5 DEF ThreadInv
<1> QED
  BY <1>7, <1>8, <1>9, <1>10, <1>11, StepIsLocal

LEMMA RestartKeeps ==
  ASSUME PoolInv, Restart
  PROVE  PoolInv'
<1>1. /\ pageTable' = Empty /\ lock' = [f \in Frames |-> Free]
      /\ frame' = [f \in Frames |-> Unread] /\ pc' = [t \in Threads |-> "idle"]
      /\ page' = [t \in Threads |-> NoPage] /\ mode' = [t \in Threads |-> "read"]
      /\ index' = [t \in Threads |-> 0] /\ latest' = disk
      /\ flushFrom' = [t \in Threads |-> [l \in Lbas |-> 0]]
      /\ UNCHANGED <<disk, writes, durable>>
  BY DEF Restart
<1>2. PoolTypeOK'
  <2>1. [l \in Lbas |-> 0] \in [Lbas -> Nat]
    OBVIOUS
  <2>2. flushFrom' \in [Threads -> [Lbas -> Nat]]
    BY <1>1, <2>1
  <2>3. lock' \in Locks /\ lock' = [f \in Frames |-> Free]
    BY <1>1 DEF Locks, Free
  <2> QED
    BY <1>1, <2>2, <2>3, PagesHaveFrames
       DEF PoolInv, PoolTypeOK, Empty, Unread, Locks, Counters
<1>3. ASSUME NEW f \in Frames PROVE FrameInv(f)'
  BY <1>1 DEF FrameInv, Clean, Empty, Free
<1>4. ASSUME NEW l \in Lbas PROVE PageInv(l)'
  BY <1>1 DEF PageInv
<1>5. ASSUME NEW t \in Threads PROVE ThreadInv(t)'
  BY <1>1 DEF ThreadInv
<1> QED
  BY <1>2, <1>3, <1>4, <1>5 DEF PoolInv

LEMMA PoolInvHolds == PoolSpec => []PoolInv
<1>1. PoolInit => PoolInv
  <2> SUFFICES ASSUME PoolInit PROVE PoolInv
    OBVIOUS
  <2>1. [l \in Lbas |-> 0] \in [Lbas -> Nat]
    OBVIOUS
  <2>2. flushFrom \in [Threads -> [Lbas -> Nat]] /\ disk \in [Lbas -> Nat]
        /\ latest = disk /\ durable = disk
    BY <2>1 DEF PoolInit
  <2>3. lock \in Locks
    BY DEF PoolInit, Locks, Free
  <2>4. PoolTypeOK
    BY <2>2, <2>3, PagesHaveFrames DEF PoolInit, PoolTypeOK, Empty, Unread, Locks, Counters
  <2>5. \A f \in Frames : FrameInv(f)
    BY DEF PoolInit, FrameInv, Clean, Empty, Free
  <2>6. \A l \in Lbas : PageInv(l)
    BY <2>2 DEF PageInv
  <2>7. \A t \in Threads : ThreadInv(t)
    BY DEF PoolInit, ThreadInv
  <2> QED
    BY <2>4, <2>5, <2>6, <2>7 DEF PoolInv
<1>2. PoolInv /\ [PoolNext]_poolVars => PoolInv'
  <2> SUFFICES ASSUME PoolInv, [PoolNext]_poolVars PROVE PoolInv'
    OBVIOUS
  <2>1. ASSUME NEW t \in Threads, Thread(t) PROVE PoolInv'
    BY <2>1, HitKeeps, EscalateKeeps, WriteHitKeeps, WriteMissKeeps, ReadMissKeeps, CallFlushKeeps,
       FlushDirtyKeeps, AppendKeeps, WriteBackKeeps, LoadKeeps, RoundKeeps, ChangeKeeps, ReleaseKeeps
       DEF Thread
  <2>2. CASE UNCHANGED poolVars
    <3>1. PoolTypeOK'
      BY <2>2 DEF poolVars, PoolInv, PoolTypeOK, Counters
    <3>2. \A f \in Frames : FrameInv(f)'
      BY <2>2 DEF poolVars, PoolInv, FrameInv, Clean, PageFrame
    <3>3. \A l \in Lbas : PageInv(l)'
      BY <2>2 DEF poolVars, PoolInv, PageInv, PageFrame
    <3>4. \A t \in Threads : ThreadInv(t)'
      BY <2>2 DEF poolVars, PoolInv, ThreadInv, Clean, FrameOf
    <3> QED
      BY <3>1, <3>2, <3>3, <3>4 DEF PoolInv
  <2> QED
    BY <2>1, <2>2, RestartKeeps DEF PoolNext
<1> QED
  BY <1>1, <1>2, PTL DEF PoolSpec

\* Whoever uses a page sees it with the last change anybody made to it: the
\* lock given up between the look at the page table and the eviction, and the
\* read that ends with a write lock, do no harm.
THEOREM PagesStayAsWritten == PoolSpec => []PagesAsWritten
<1>1. PoolInv => PagesAsWritten
  <2> SUFFICES ASSUME PoolInv, NEW t \in Threads, pc[t] = "using"
               PROVE  /\ pageTable[FrameOf(t)].lba = page[t]
                      /\ frame[FrameOf(t)] = [lba |-> page[t], write |-> latest[page[t]]]
    BY DEF PagesAsWritten
  <2>1. mode[t] # "flush" /\ page[t] \in Lbas /\ pageTable[FrameOf(t)].lba = page[t]
    BY DEF PoolInv, ThreadInv
  <2>2. FrameOf(t) \in Frames
    BY <2>1, CallHasFrame DEF PoolInv
  <2> QED
    BY <2>1, <2>2, PagesHaveFrames DEF PoolInv, FrameInv
<1> QED
  BY <1>1, PoolInvHolds, PTL

-----------------------------------------------------------------------------
(* What db_flush_all promises *)

LEMMA DurableKept ==
  ASSUME DurableInv, UNCHANGED <<disk, latest, writes, durable, flushFrom>>,
         \A t \in Threads : mode'[t] = "flush" => mode[t] = "flush" /\ index'[t] = index[t]
  PROVE  DurableInv'
  BY DEF DurableInv, PageFrame

LEMMA DurableTypes ==
  ASSUME PoolInv
  PROVE  /\ writes \in Nat
         /\ \A l \in Lbas : /\ disk[l] \in Nat /\ latest[l] \in Nat /\ durable[l] \in Nat
                            /\ PageFrame(l) \in Nat
         /\ \A t \in Threads : index[t] \in Nat /\ \A l \in Lbas : flushFrom[t][l] \in Nat
  BY PagesHaveFrames DEF PoolInv, PoolTypeOK, Frames

LEMMA FlushCovers ==
  ASSUME PoolInv, DurableInv, NEW t \in Threads, NextFrame(t) \/ EndFlush(t)
  PROVE  DurableInv'
<1>1. PICK to : RoundEnds(t, to)
  BY DEF NextFrame, EndFlush
<1>2. mode[t] = "flush" /\ \A l \in Lbas : PageFrame(l) = index[t] => disk[l] = latest[l]
  BY <1>1, RoundClean
<1>3. ASSUME NEW l \in Lbas, PageFrame(l) < index[t] + 1
      PROVE  flushFrom[t][l] <= disk[l]
  <2>1. PageFrame(l) < index[t] \/ PageFrame(l) = index[t]
    BY <1>3, DurableTypes
  <2> QED
    BY <2>1, <1>2 DEF DurableInv
<1>4. CASE NextFrame(t)
  <2>1. /\ index' = [index EXCEPT ![t] = @ + 1]
        /\ UNCHANGED <<disk, latest, writes, durable, flushFrom, mode>>
    BY <1>4 DEF NextFrame, store, history
  <2>2. index'[t] = index[t] + 1 /\ \A s \in Threads \ {t} : index'[s] = index[s]
    BY <2>1 DEF PoolInv, PoolTypeOK
  <2>3. ASSUME NEW s \in Threads, NEW l \in Lbas, mode[s] = "flush", PageFrame(l) < index'[s]
        PROVE  flushFrom[s][l] <= disk[l]
    <3>1. CASE s = t
      BY <3>1, <2>2, <2>3, <1>3
    <3>2. CASE s # t
      BY <3>2, <2>2, <2>3 DEF DurableInv
    <3> QED
      BY <3>1, <3>2
  <2> QED
    BY <2>1, <2>3 DEF DurableInv, PageFrame
<1>5. CASE EndFlush(t)
  <2>1. /\ durable' = [l \in Lbas |-> Larger(flushFrom[t][l], durable[l])]
        /\ flushFrom' = [flushFrom EXCEPT ![t] = [l \in Lbas |-> 0]]
        /\ mode' = [mode EXCEPT ![t] = "read"]
        /\ index' = [index EXCEPT ![t] = 0]
        /\ UNCHANGED <<disk, latest, writes>>
        /\ index[t] + 1 = NUM_FRAMES
    BY <1>5 DEF EndFlush, Return, store
  <2>2. ASSUME NEW l \in Lbas PROVE durable'[l] <= disk[l]
    <3>1. PageFrame(l) < index[t] + 1
      BY <2>1, PagesHaveFrames, PoolAssumption DEF Frames
    <3>2. flushFrom[t][l] <= disk[l] /\ durable[l] <= disk[l]
      BY <3>1, <1>3 DEF DurableInv
    <3> QED
      BY <2>1, <3>2 DEF Larger
  <2>3. /\ mode'[t] = "read" /\ \A l \in Lbas : flushFrom'[t][l] = 0
        /\ \A s \in Threads \ {t} : /\ mode'[s] = mode[s] /\ index'[s] = index[s]
                                    /\ flushFrom'[s] = flushFrom[s]
    BY <2>1 DEF PoolInv, PoolTypeOK
  <2>4. \A l \in Lbas : 0 <= latest[l]
    BY DurableTypes
  <2>5. \A l \in Lbas : durable'[l] <= disk'[l] /\ disk'[l] <= latest'[l] /\ latest'[l] <= writes'
    BY <2>1, <2>2 DEF DurableInv
  <2>6. ASSUME NEW s \in Threads, NEW l \in Lbas
        PROVE  /\ flushFrom'[s][l] <= latest'[l]
               /\ mode'[s] = "flush" /\ PageFrame(l) < index'[s] => flushFrom'[s][l] <= disk'[l]
    <3>1. CASE s = t
      BY <3>1, <2>1, <2>3, <2>4
    <3>2. CASE s # t
      BY <3>2, <2>1, <2>3 DEF DurableInv
    <3> QED
      BY <3>1, <3>2
  <2> QED
    BY <2>5, <2>6 DEF DurableInv, PageFrame
<1> QED
  BY <1>4, <1>5

LEMMA DurableStep ==
  ASSUME PoolInv, DurableInv, [PoolNext]_poolVars
  PROVE  DurableInv'
<1>1. ASSUME NEW t \in Threads, Thread(t) PROVE DurableInv'
  <2>1. ASSUME NEW l \in Lbas, Hit(t, l) \/ Escalate(t, l) \/ WriteHit(t, l) \/ WriteMiss(t, l)
        PROVE  DurableInv'
    <3>1. PICK m \in {"read", "write"} : mode' = [mode EXCEPT ![t] = m]
      BY <2>1 DEF Hit, Escalate, WriteHit, WriteMiss, Calls
    <3>2. UNCHANGED <<disk, latest, writes, durable, flushFrom, index>>
      BY <2>1 DEF Hit, Escalate, WriteHit, WriteMiss, Calls, store, history
    <3>3. \A s \in Threads : mode'[s] = "flush" => mode[s] = "flush"
      BY <3>1 DEF PoolInv, PoolTypeOK
    <3> QED
      BY <3>2, <3>3, DurableKept
  <2>2. CASE \/ ReadMiss(t) \/ FlushDirty(t) \/ Load(t)
             \/ ReadTail(t) \/ AppendImage(t) \/ CountImage(t) \/ Advance(t)
    BY <2>2, DurableKept DEF ReadMiss, FlushDirty, ReadTail, AppendImage, CountImage, Advance, Load,
       pool, store, call, history
  <2>3. CASE CallFlush(t)
    <3>1. /\ pc[t] = "idle" /\ mode' = [mode EXCEPT ![t] = "flush"]
          /\ flushFrom' = [flushFrom EXCEPT ![t] = latest]
          /\ UNCHANGED <<disk, latest, writes, durable, index>>
      BY <2>3 DEF CallFlush, Goto, store
    <3>2. index[t] = 0
      BY <3>1 DEF PoolInv, ThreadInv
    <3>3. flushFrom'[t] = latest /\ \A s \in Threads \ {t} : mode'[s] = mode[s] /\ flushFrom'[s] = flushFrom[s]
      BY <3>1 DEF PoolInv, PoolTypeOK
    <3>4. ASSUME NEW s \in Threads, NEW l \in Lbas
          PROVE  /\ flushFrom'[s][l] <= latest'[l]
                 /\ mode'[s] = "flush" /\ PageFrame(l) < index'[s] => flushFrom'[s][l] <= disk'[l]
      <4>1. CASE s = t
        BY <4>1, <3>1, <3>2, <3>3, DurableTypes
      <4>2. CASE s # t
        BY <4>2, <3>1, <3>3 DEF DurableInv
      <4> QED
        BY <4>1, <4>2
    <3> QED
      BY <3>1, <3>4 DEF DurableInv, PageFrame
  <2>4. CASE WriteBack(t)
    <3>1. PICK l \in Lbas : /\ disk' = [disk EXCEPT ![l] = latest[l]]
                            /\ UNCHANGED <<mode, index, writes, latest, flushFrom, durable>>
      BY <2>4, WriteBackStep
    <3>2. \A m \in Lbas : disk'[m] = (IF m = l THEN latest[m] ELSE disk[m])
      BY <3>1 DEF PoolInv, PoolTypeOK
    <3>3. \A m \in Lbas : disk[m] <= disk'[m] /\ disk'[m] <= latest[m] /\ disk'[m] \in Nat
      BY <3>2, DurableTypes DEF DurableInv
    <3>4. ASSUME NEW m \in Lbas PROVE durable[m] <= disk'[m]
      BY <3>3, DurableTypes DEF DurableInv
    <3>5. ASSUME NEW s \in Threads, NEW m \in Lbas, mode[s] = "flush", PageFrame(m) < index[s]
          PROVE  flushFrom[s][m] <= disk'[m]
      BY <3>3, <3>5, DurableTypes DEF DurableInv
    <3> QED
      BY <3>1, <3>3, <3>4, <3>5 DEF DurableInv, PageFrame
  <2>5. CASE NextFrame(t) \/ EndFlush(t)
    BY <2>5, FlushCovers
  <2>6. CASE Change(t)
    <3>1. PICK l : /\ latest' = [latest EXCEPT ![l] = writes + 1] /\ writes' = writes + 1
                   /\ UNCHANGED <<disk, mode, index, flushFrom, durable>>
      BY <2>6 DEF Change, store, call
    <3>2. \A m \in Lbas : latest[m] <= latest'[m] /\ latest'[m] <= writes' /\ latest'[m] \in Nat
      BY <3>1, DurableTypes DEF DurableInv, PoolInv, PoolTypeOK
    <3>3. ASSUME NEW m \in Lbas PROVE disk[m] <= latest'[m]
      BY <3>2, DurableTypes DEF DurableInv
    <3>4. ASSUME NEW s \in Threads, NEW m \in Lbas PROVE flushFrom[s][m] <= latest'[m]
      BY <3>2, DurableTypes DEF DurableInv
    <3> QED
      BY <3>1, <3>2, <3>3, <3>4 DEF DurableInv, PageFrame
  <2>7. CASE Release(t) \/ Forget(t)
    <3>1. /\ flushFrom' = [flushFrom EXCEPT ![t] = [l \in Lbas |-> 0]]
          /\ mode' = [mode EXCEPT ![t] = "read"]
          /\ index' = [index EXCEPT ![t] = 0]
          /\ UNCHANGED <<disk, latest, writes, durable>>
      BY <2>7 DEF Release, Forget, Return, store
    <3>2. /\ mode'[t] = "read" /\ \A l \in Lbas : flushFrom'[t][l] = 0
          /\ \A s \in Threads \ {t} : /\ mode'[s] = mode[s] /\ index'[s] = index[s]
                                      /\ flushFrom'[s] = flushFrom[s]
      BY <3>1 DEF PoolInv, PoolTypeOK
    <3>3. ASSUME NEW s \in Threads, NEW l \in Lbas
          PROVE  /\ flushFrom'[s][l] <= latest'[l]
                 /\ mode'[s] = "flush" /\ PageFrame(l) < index'[s] => flushFrom'[s][l] <= disk'[l]
      <4>1. CASE s = t
        BY <4>1, <3>1, <3>2, DurableTypes
      <4>2. CASE s # t
        BY <4>2, <3>1, <3>2 DEF DurableInv
      <4> QED
        BY <4>1, <4>2
    <3> QED
      BY <3>1, <3>3 DEF DurableInv, PageFrame
  <2> QED
    BY <1>1, <2>1, <2>2, <2>3, <2>4, <2>5, <2>6, <2>7 DEF Thread
<1>2. CASE Restart
  <2>1. /\ latest' = disk /\ mode' = [t \in Threads |-> "read"]
        /\ flushFrom' = [t \in Threads |-> [l \in Lbas |-> 0]]
        /\ UNCHANGED <<disk, writes, durable>>
    BY <1>2 DEF Restart
  <2>2. ASSUME NEW l \in Lbas PROVE durable[l] <= disk[l] /\ disk[l] <= disk[l] /\ disk[l] <= writes /\ 0 <= disk[l]
    BY DurableTypes DEF DurableInv
  <2> QED
    BY <2>1, <2>2 DEF DurableInv
<1>3. CASE UNCHANGED poolVars
  BY <1>3, DurableKept DEF poolVars
<1> QED
  BY <1>1, <1>2, <1>3 DEF PoolNext

\* What a completed db_flush_all covered is on disk for good, whichever threads
\* changed, read or evicted which pages meanwhile and however often the process
\* is killed.
THEOREM FlushedIsDurable == PoolSpec => []Durable
<1>1. PoolInit => DurableInv
  <2> SUFFICES ASSUME PoolInit PROVE DurableInv
    OBVIOUS
  <2>1. /\ \A l \in Lbas : disk[l] = 0 /\ latest[l] = 0 /\ durable[l] = 0
        /\ writes = 0
        /\ \A t \in Threads : mode[t] = "read" /\ \A l \in Lbas : flushFrom[t][l] = 0
    BY DEF PoolInit
  <2> QED
    BY <2>1 DEF DurableInv
<1>2. PoolInv /\ DurableInv /\ [PoolNext]_poolVars => DurableInv'
  BY DurableStep
<1>3. PoolInv /\ DurableInv => Durable
  BY DurableTypes DEF DurableInv, Durable
<1> QED
  BY <1>1, <1>2, <1>3, PoolInvHolds, PTL DEF PoolSpec

-----------------------------------------------------------------------------
(* The log before the page *)

\* A thread that does not append and takes no other thread's frame.
QuietStep(t) ==
    /\ UNCHANGED <<log, wal_tail_lba, tail>>
    /\ ~InAppend(t) /\ ~InAppend(t)' /\ pc'[t] # "writeback"
    /\ \A s \in Threads \ {t} : /\ pc'[s] = pc[s] /\ page'[s] = page[s]
                                /\ mode'[s] = mode[s] /\ index'[s] = index[s] /\ met'[s] = met[s]
    /\ \/ frame' = frame
       \/ \E f \in Frames : lock[f].writer = t /\ \A g \in Frames \ {f} : frame'[g] = frame[g]

\* A thread in its append, or between it and the page, keeps its frame.
LEMMA FrameIsKept ==
  ASSUME PoolInv, NEW t \in Threads, NEW s \in Threads \ {t},
         pc[s] \in {"image", "count", "advance", "writeback"},
         page'[s] = page[s], mode'[s] = mode[s], index'[s] = index[s],
         \/ frame' = frame
         \/ \E f \in Frames : lock[f].writer = t /\ \A g \in Frames \ {f} : frame'[g] = frame[g]
  PROVE  frame'[FrameOf(s)'] = frame[FrameOf(s)]
<1>1. FrameOf(s)' = FrameOf(s)
  BY DEF FrameOf
<1>2. ThreadInv(s)
  BY DEF PoolInv
<1>3. lock[FrameOf(s)].writer = s /\ FrameOf(s) \in Frames
  BY <1>2, CallHasFrame DEF ThreadInv, PoolInv
<1> QED
  BY <1>1, <1>3

LEMMA LogQuiet ==
  ASSUME PoolInv, LogInv, NEW t \in Threads, QuietStep(t)
  PROVE  LogInv'
<1> SUFFICES ASSUME NEW s \in Threads PROVE AloneInv(s)'
  BY DEF LogInv
<1>1. CASE s = t
  BY <1>1 DEF QuietStep, AloneInv, InAppend
<1>2. CASE s # t
  <2>1. AloneInv(s) /\ pc'[s] = pc[s] /\ met'[s] = met[s]
    BY <1>2 DEF QuietStep, LogInv
  <2>2. ASSUME pc[s] \in {"image", "count", "advance", "writeback"}
        PROVE  frame'[FrameOf(s)'] = frame[FrameOf(s)]
    BY <1>2, <2>2, FrameIsKept DEF QuietStep
  <2>3. \A r \in Threads : InAppend(r)' <=> InAppend(r)
    BY DEF QuietStep, InAppend
  <2>4. OthersInAppend(s)' = OthersInAppend(s)
    BY <2>3 DEF OthersInAppend
  <2>5. ASSUME NEW p \in Nat, SafeAt(s, p), pc[s] = "writeback" PROVE SafeAt(s, p)'
    BY <2>2, <2>3, <2>5 DEF SafeAt, QuietStep
  <2> QED
    BY <2>1, <2>2, <2>3, <2>4, <2>5 DEF AloneInv, Alone, QuietStep
<1> QED
  BY <1>1, <1>2

LEMMA ReadTailLogs ==
  ASSUME PoolInv, LogInv, LogTypeOK, NEW t \in Threads, ReadTail(t)
  PROVE  LogInv' /\ LogTypeOK'
<1>1. /\ pc[t] = "append" /\ pc' = [pc EXCEPT ![t] = "image"]
      /\ tail' = [tail EXCEPT ![t] = wal_tail_lba]
      /\ met' = [s \in Threads |-> IF s = t THEN OthersInAppend(t) # {}
                                   ELSE met[s] \/ s \in OthersInAppend(t)]
      /\ UNCHANGED <<frame, log, wal_tail_lba, page, mode, index>>
  BY DEF ReadTail, Goto, pool, call
<1>2. /\ pc'[t] = "image" /\ tail'[t] = wal_tail_lba
      /\ \A s \in Threads \ {t} : pc'[s] = pc[s] /\ tail'[s] = tail[s]
      /\ \A s \in Threads : FrameOf(s)' = FrameOf(s)
  BY <1>1 DEF PoolInv, PoolTypeOK, LogTypeOK, FrameOf
<1>3. LogTypeOK'
  BY <1>1 DEF LogTypeOK
<1>4. \A s \in Threads \ {t} : InAppend(s)' <=> InAppend(s)
  BY <1>2 DEF InAppend
<1>5. OthersInAppend(t)' = OthersInAppend(t)
  BY <1>4 DEF OthersInAppend
<1>6. AloneInv(t)'
  BY <1>1, <1>2, <1>5 DEF AloneInv, Alone
<1>7. ASSUME NEW s \in Threads \ {t} PROVE AloneInv(s)'
  <2>1. SUFFICES ASSUME ~met'[s] PROVE AloneInv(s)'
    BY DEF AloneInv, Alone
  <2>2. ~met[s] /\ ~InAppend(s) /\ ~InAppend(s)' /\ AloneInv(s)
    BY <1>1, <1>4, <2>1 DEF LogInv, OthersInAppend
  <2>3. ASSUME pc[s] = "writeback" PROVE \E p \in Nat : SafeAt(s, p)'
    <3>1. PICK p \in Nat : SafeAt(s, p)
      BY <2>2, <2>3 DEF AloneInv, Alone
    <3> QED
      BY <3>1, <1>1, <1>2, <1>4 DEF SafeAt
  <2> QED
    BY <2>2, <2>3, <1>2 DEF AloneInv, Alone, InAppend
<1> QED
  BY <1>3, <1>6, <1>7 DEF LogInv

LEMMA AppendLogs ==
  ASSUME PoolInv, LogInv, LogTypeOK, NEW t \in Threads, AppendImage(t)
  PROVE  LogInv' /\ LogTypeOK'
<1>1. /\ pc[t] = "image" /\ pc' = [pc EXCEPT ![t] = "count"]
      /\ log' = [p \in DOMAIN log \cup {tail[t]} |->
                    IF p = tail[t] THEN frame[FrameOf(t)] ELSE log[p]]
      /\ UNCHANGED <<frame, wal_tail_lba, tail, met, page, mode, index>>
  BY DEF AppendImage, Goto, pool, call, appending
<1>2. /\ pc'[t] = "count" /\ \A s \in Threads \ {t} : pc'[s] = pc[s]
      /\ \A s \in Threads : FrameOf(s)' = FrameOf(s)
  BY <1>1 DEF PoolInv, PoolTypeOK, FrameOf
<1>3. LogTypeOK'
  BY <1>1 DEF LogTypeOK
<1>4. /\ DOMAIN log' = DOMAIN log \cup {tail[t]}
      /\ log'[tail[t]] = frame[FrameOf(t)]
      /\ \A p \in DOMAIN log : p # tail[t] => log'[p] = log[p]
  BY <1>1
<1>5. \A s \in Threads : InAppend(s)' <=> InAppend(s)
  BY <1>1, <1>2 DEF InAppend
<1>6. \A s \in Threads : OthersInAppend(s)' = OthersInAppend(s)
  BY <1>5 DEF OthersInAppend
<1>7. AloneInv(t)'
  <2>1. AloneInv(t) /\ FrameOf(t)' = FrameOf(t)
    BY <1>2 DEF LogInv
  <2> QED
    BY <1>1, <1>2, <1>4, <1>5, <1>6, <2>1 DEF AloneInv, Alone
<1>8. ASSUME NEW s \in Threads \ {t} PROVE AloneInv(s)'
  <2>1. SUFFICES ASSUME ~met[s] PROVE AloneInv(s)'
    BY <1>1 DEF AloneInv, Alone
  <2>2. AloneInv(s) /\ t \in OthersInAppend(s)
    BY <1>1 DEF LogInv, OthersInAppend, InAppend
  <2>3. ~InAppend(s) /\ ~InAppend(s)'
    BY <2>1, <2>2, <1>5 DEF AloneInv, Alone
  <2>4. ASSUME pc[s] = "writeback" PROVE \E p \in Nat : SafeAt(s, p)'
    <3>1. PICK p \in Nat : SafeAt(s, p)
      BY <2>1, <2>2, <2>4 DEF AloneInv, Alone
    <3>2. p # tail[t]
      BY <3>1, <1>1 DEF SafeAt, InAppend, LogTypeOK
    <3>3. FrameOf(s)' = FrameOf(s)
      BY <1>2
    <3> QED
      BY <3>1, <3>2, <3>3, <1>1, <1>4, <1>5 DEF SafeAt
  <2> QED
    BY <2>3, <2>4, <1>2 DEF AloneInv, Alone, InAppend
<1> QED
  BY <1>3, <1>7, <1>8 DEF LogInv

\* The last two steps: the tail is counted up, then stored.
LEMMA AdvanceLogs ==
  ASSUME PoolInv, LogInv, LogTypeOK, NEW t \in Threads, CountImage(t) \/ Advance(t)
  PROVE  LogInv' /\ LogTypeOK'
<1>1. /\ UNCHANGED <<frame, log, met, page, mode, index>>
      /\ \/ /\ pc[t] = "count" /\ pc' = [pc EXCEPT ![t] = "advance"]
            /\ tail' = [tail EXCEPT ![t] = wal_tail_lba + 1] /\ wal_tail_lba' = wal_tail_lba
         \/ /\ pc[t] = "advance" /\ pc' = [pc EXCEPT ![t] = "writeback"]
            /\ tail' = [tail EXCEPT ![t] = 0] /\ wal_tail_lba' = tail[t]
  BY DEF CountImage, Advance, Goto, pool, call
<1>2. /\ \A s \in Threads \ {t} : pc'[s] = pc[s] /\ tail'[s] = tail[s]
      /\ \A s \in Threads : FrameOf(s)' = FrameOf(s)
      /\ pc[t] = "count" => pc'[t] = "advance" /\ tail'[t] = wal_tail_lba + 1
      /\ pc[t] = "advance" => pc'[t] = "writeback"
  BY <1>1 DEF PoolInv, PoolTypeOK, LogTypeOK, FrameOf
<1>3. LogTypeOK'
  BY <1>1 DEF LogTypeOK
<1>4. InAppend(t) /\ (pc[t] = "count" => InAppend(t)') /\ (pc[t] = "advance" => ~InAppend(t)')
  BY <1>1, <1>2 DEF InAppend
<1>5. \A s \in Threads \ {t} : InAppend(s)' <=> InAppend(s)
  BY <1>2 DEF InAppend
<1>6. AloneInv(t)'
  <2>1. SUFFICES ASSUME ~met[t] PROVE AloneInv(t)'
    BY <1>1 DEF AloneInv, Alone
  <2>2. /\ OthersInAppend(t) = {} /\ OthersInAppend(t)' = {}
        /\ wal_tail_lba \in DOMAIN log /\ log[wal_tail_lba] = frame[FrameOf(t)]
        /\ pc[t] = "advance" => tail[t] = wal_tail_lba + 1
    BY <2>1, <1>1, <1>4, <1>5 DEF LogInv, AloneInv, Alone, OthersInAppend
  <2>3. CASE pc[t] = "count"
    BY <2>2, <2>3, <1>1, <1>2 DEF AloneInv
  <2>4. CASE pc[t] = "advance"
    <3>1. wal_tail_lba' = wal_tail_lba + 1 /\ wal_tail_lba \in Nat /\ pc'[t] = "writeback"
      BY <2>2, <2>4, <1>1, <1>2 DEF LogTypeOK
    <3>2. \A s \in Threads \ {t} : ~InAppend(s)'
      BY <2>2 DEF OthersInAppend
    <3>3. PICK p \in Nat : p = wal_tail_lba
      BY <3>1
    <3>4. p \in DOMAIN log' /\ log'[p] = frame'[FrameOf(t)'] /\ p < wal_tail_lba'
      BY <2>2, <3>1, <3>3, <1>1, <1>2
    <3>5. SafeAt(t, p)'
      BY <3>2, <3>4 DEF SafeAt
    <3> QED
      BY <3>1, <3>5, <1>4, <2>4 DEF AloneInv
  <2> QED
    BY <2>3, <2>4, <1>1
<1>7. ASSUME NEW s \in Threads \ {t} PROVE AloneInv(s)'
  <2>1. SUFFICES ASSUME ~met[s] PROVE AloneInv(s)'
    BY <1>1 DEF AloneInv, Alone
  <2>2. AloneInv(s) /\ t \in OthersInAppend(s)
    BY <1>4 DEF LogInv, OthersInAppend
  <2>3. ~InAppend(s) /\ ~InAppend(s)'
    BY <2>1, <2>2, <1>5 DEF AloneInv, Alone
  <2>4. ASSUME pc[s] = "writeback" PROVE \E p \in Nat : SafeAt(s, p)'
    <3>1. PICK p \in Nat : SafeAt(s, p)
      BY <2>1, <2>2, <2>4 DEF AloneInv, Alone
    <3>2. p < wal_tail_lba /\ p < tail[t] /\ wal_tail_lba \in Nat /\ tail[t] \in Nat
      BY <3>1, <1>4 DEF SafeAt, LogTypeOK
    <3>3. p < wal_tail_lba' /\ \A r \in Threads \ {s} : InAppend(r)' => p < tail'[r]
      BY <3>1, <3>2, <1>1, <1>2, <1>4, <1>5 DEF SafeAt
    <3>4. FrameOf(s)' = FrameOf(s)
      BY <1>2
    <3> QED
      BY <3>1, <3>3, <3>4, <1>1 DEF SafeAt
  <2> QED
    BY <2>3, <2>4, <1>2 DEF AloneInv, Alone, InAppend
<1> QED
  BY <1>3, <1>6, <1>7 DEF LogInv

LEMMA LogStep ==
  ASSUME PoolInv, LogInv, LogTypeOK, [PoolNext]_poolVars
  PROVE  LogInv' /\ LogTypeOK'
<1>1. ASSUME NEW t \in Threads, Thread(t),
             ~ReadTail(t), ~AppendImage(t), ~CountImage(t), ~Advance(t)
      PROVE  QuietStep(t)
  <2>1. ASSUME NEW l \in Lbas, Hit(t, l) \/ Escalate(t, l) \/ WriteHit(t, l) \/ WriteMiss(t, l)
        PROVE  QuietStep(t)
    <3>1. PICK m, to : /\ to \in {"using", "wlock", "append", "load"}
                       /\ pc[t] = "idle" /\ pc' = [pc EXCEPT ![t] = to]
                       /\ mode' = [mode EXCEPT ![t] = m] /\ page' = [page EXCEPT ![t] = l]
                       /\ UNCHANGED <<index, frame, log, wal_tail_lba, tail, met>>
      BY <2>1 DEF Hit, Escalate, WriteHit, WriteMiss, Goto, Calls, Evicting, pool, store, appending
    <3> QED
      BY <3>1 DEF QuietStep, InAppend, PoolInv, PoolTypeOK
  <2>2. CASE ReadMiss(t) \/ FlushDirty(t)
    <3>1. PICK to : /\ to \in {"append", "load"}
                    /\ pc[t] = "wlock" /\ pc' = [pc EXCEPT ![t] = to]
                    /\ UNCHANGED <<mode, page, index, frame, log, wal_tail_lba, tail, met>>
      BY <2>2 DEF ReadMiss, FlushDirty, Goto, Evicting, pool, store, appending, call
    <3> QED
      BY <3>1 DEF QuietStep, InAppend, PoolInv, PoolTypeOK
  <2>3. CASE CallFlush(t)
    BY <2>3 DEF CallFlush, Goto, pool, store, appending, QuietStep, InAppend, PoolInv, PoolTypeOK
  <2>4. CASE WriteBack(t)
    <3>1. PICK to : /\ to \in {"unlock", "load"}
                    /\ pc[t] = "writeback" /\ pc' = [pc EXCEPT ![t] = to]
                    /\ met' = [met EXCEPT ![t] = FALSE]
                    /\ UNCHANGED <<mode, page, index, frame, log, wal_tail_lba, tail>>
      BY <2>4 DEF WriteBack, Goto, pool, call
    <3>2. \A s \in Threads \ {t} : met'[s] = met[s]
      BY <3>1 DEF LogTypeOK
    <3> QED
      BY <3>1, <3>2 DEF QuietStep, InAppend, PoolInv, PoolTypeOK
  <2>5. CASE Load(t)
    <3>1. /\ pc[t] = "load" /\ pc' = [pc EXCEPT ![t] = "using"]
          /\ frame' = [frame EXCEPT ![FrameOf(t)] = [lba |-> page[t], write |-> disk[page[t]]]]
          /\ UNCHANGED <<mode, page, index, log, wal_tail_lba, tail, met>>
      BY <2>5 DEF Load, Goto, store, appending, call
    <3>2. ThreadInv(t)
      BY DEF PoolInv
    <3>3. FrameOf(t) \in Frames /\ lock[FrameOf(t)].writer = t
      BY <3>1, <3>2, CallHasFrame DEF ThreadInv, PoolInv
    <3>4. \A g \in Frames \ {FrameOf(t)} : frame'[g] = frame[g]
      BY <3>1 DEF PoolInv, PoolTypeOK
    <3> QED
      BY <3>1, <3>3, <3>4 DEF QuietStep, InAppend, PoolInv, PoolTypeOK
  <2>6. CASE NextFrame(t) \/ EndFlush(t)
    <3>1. PICK to \in {"wlock", "idle"} : RoundEnds(t, to)
      BY <2>6 DEF NextFrame, EndFlush
    <3>2. pc[t] \in {"unlock", "wlock"} /\ pc' = [pc EXCEPT ![t] = to]
      BY <3>1 DEF RoundEnds, Goto
    <3>3. UNCHANGED <<frame, log, wal_tail_lba, tail, met>>
      BY <2>6 DEF NextFrame, EndFlush, store, appending
    <3>4. \A s \in Threads \ {t} : page'[s] = page[s] /\ mode'[s] = mode[s] /\ index'[s] = index[s]
      BY <2>6 DEF NextFrame, EndFlush, Return, PoolInv, PoolTypeOK
    <3> QED
      BY <3>2, <3>3, <3>4 DEF QuietStep, InAppend, PoolInv, PoolTypeOK
  <2>7. CASE Change(t)
    <3>1. /\ pc[t] = "using" /\ mode[t] = "write"
          /\ frame' = [frame EXCEPT ![FrameOf(t)].write = writes + 1]
          /\ UNCHANGED <<pc, mode, page, index, log, wal_tail_lba, tail, met>>
      BY <2>7 DEF Change, store, appending, call
    <3>2. ThreadInv(t)
      BY DEF PoolInv
    <3>3. FrameOf(t) \in Frames /\ lock[FrameOf(t)].writer = t
      BY <3>1, <3>2, CallHasFrame DEF ThreadInv, PoolInv
    <3>4. \A g \in Frames \ {FrameOf(t)} : frame'[g] = frame[g]
      BY <3>1 DEF PoolInv, PoolTypeOK
    <3> QED
      BY <3>1, <3>3, <3>4 DEF QuietStep, InAppend
  <2>8. CASE Release(t) \/ Forget(t)
    <3>1. /\ pc[t] = "using" /\ pc' = [pc EXCEPT ![t] = "idle"] /\ Return(t)
          /\ UNCHANGED <<frame, log, wal_tail_lba, tail, met>>
      BY <2>8 DEF Release, Forget, Goto, pool, store, appending
    <3> QED
      BY <3>1 DEF QuietStep, InAppend, Return, PoolInv, PoolTypeOK
  <2> QED
    BY <1>1, <2>1, <2>2, <2>3, <2>4, <2>5, <2>6, <2>7, <2>8 DEF Thread
<1>2. ASSUME NEW t \in Threads, Thread(t) PROVE LogInv' /\ LogTypeOK'
  <2>1. CASE ReadTail(t) \/ AppendImage(t) \/ CountImage(t) \/ Advance(t)
    BY <2>1, ReadTailLogs, AppendLogs, AdvanceLogs
  <2>2. CASE ~ReadTail(t) /\ ~AppendImage(t) /\ ~CountImage(t) /\ ~Advance(t)
    <3>1. QuietStep(t)
      BY <1>1, <1>2, <2>2
    <3>2. met' = met \/ met' = [met EXCEPT ![t] = FALSE]
      BY <1>2, <2>2 DEF Thread, Hit, Escalate, WriteHit, WriteMiss, ReadMiss, CallFlush, FlushDirty,
         WriteBack, Load, NextFrame, EndFlush, Change, Release, Forget, store, appending
    <3>3. LogTypeOK'
      BY <3>1, <3>2 DEF QuietStep, LogTypeOK
    <3> QED
      BY <3>1, <3>3, LogQuiet
  <2> QED
    BY <2>1, <2>2
<1>3. CASE Restart
  <2>1. /\ pc' = [t \in Threads |-> "idle"] /\ log' = [p \in {} |-> Unread]
        /\ wal_tail_lba' = WAL_BASE
        /\ tail' = [t \in Threads |-> 0] /\ met' = [t \in Threads |-> FALSE]
    BY <1>3 DEF Restart
  <2> QED
    BY <2>1, PoolAssumption DEF LogInv, AloneInv, InAppend, LogTypeOK
<1>4. CASE UNCHANGED poolVars
  <2>1. UNCHANGED <<log, wal_tail_lba, tail, met, pc, frame, page, mode, index>>
    BY <1>4 DEF poolVars
  <2>2. \A s \in Threads : FrameOf(s)' = FrameOf(s)
    BY <2>1 DEF FrameOf
  <2> QED
    BY <2>1, <2>2 DEF LogInv, AloneInv, Alone, SafeAt, InAppend, OthersInAppend, LogTypeOK
<1> QED
  BY <1>2, <1>3, <1>4 DEF PoolNext

\* Only a page is written to its place, and what is written is the image that
\* the log holds, unless another append ran beside its own.
LEMMA OnlyLoggedPages ==
  ASSUME PoolInv, LogInv, [PoolNext]_poolVars, NEW l \in Lbas, disk'[l] # disk[l]
  PROVE  InLog([lba |-> l, write |-> disk'[l]]) \/ \E t \in Threads : Writes(t) /\ met[t]
<1>1. PICK t \in Threads : WriteBack(t)
  <2>1. ASSUME NEW t \in Threads, Thread(t), ~WriteBack(t) PROVE disk' = disk
    <3>1. CASE \E m \in Lbas : Hit(t, m) \/ Escalate(t, m) \/ WriteHit(t, m) \/ WriteMiss(t, m)
      BY <3>1 DEF Hit, Escalate, WriteHit, WriteMiss, store
    <3>2. CASE \/ ReadMiss(t) \/ CallFlush(t) \/ FlushDirty(t) \/ Load(t) \/ NextFrame(t) \/ EndFlush(t)
               \/ Change(t) \/ Release(t) \/ Forget(t)
      BY <3>2 DEF ReadMiss, CallFlush, FlushDirty, Load, NextFrame, EndFlush, Change, Release, Forget, store
    <3>3. CASE ReadTail(t) \/ AppendImage(t) \/ CountImage(t) \/ Advance(t)
      BY <3>3 DEF ReadTail, AppendImage, CountImage, Advance
    <3> QED
      BY <2>1, <3>1, <3>2, <3>3 DEF Thread
  <2>2. CASE Restart \/ UNCHANGED poolVars
    BY <2>2 DEF Restart, poolVars
  <2> QED
    BY <2>1, <2>2 DEF PoolNext
<1>2. PICK f \in Frames, m \in Lbas :
        /\ f = FrameOf(t) /\ frame[f] = [lba |-> m, write |-> latest[m]]
        /\ disk' = [disk EXCEPT ![m] = latest[m]] /\ pc[t] = "writeback"
  BY <1>1, WriteBackStep
<1>3. l = m /\ disk'[l] = latest[l]
  BY <1>2 DEF PoolInv, PoolTypeOK
<1>4. ~met[t] => InLog(frame[FrameOf(t)])
  BY <1>2 DEF LogInv, AloneInv, Alone, SafeAt, InLog
<1>5. Writes(t)
  <2>1. pc'[t] # "writeback"
    BY <1>1 DEF WriteBack, Goto, PoolInv, PoolTypeOK
  <2> QED
    BY <2>1, <1>2 DEF Writes
<1> QED
  BY <1>2, <1>3, <1>4, <1>5

\* A page whose image was appended while nobody else appended is in the log
\* when it is written, for any number of threads and whatever appends that
\* met each other did to the log and its tail before or have done since.
THEOREM LoggedBeforeWritten == PoolSpec => LogBeforePage
<1>1. PoolInit => LogInv /\ LogTypeOK
  <2> SUFFICES ASSUME PoolInit PROVE LogInv /\ LogTypeOK
    OBVIOUS
  <2>1. /\ \A t \in Threads : pc[t] = "idle"
        /\ DOMAIN log = {} /\ wal_tail_lba = WAL_BASE
        /\ tail = [t \in Threads |-> 0] /\ met = [t \in Threads |-> FALSE]
    BY DEF PoolInit
  <2> QED
    BY <2>1, PoolAssumption DEF LogInv, AloneInv, InAppend, LogTypeOK
<1>2. PoolInv /\ LogInv /\ LogTypeOK /\ [PoolNext]_poolVars => LogInv' /\ LogTypeOK'
  BY LogStep
<1>3. PoolInv /\ LogInv /\ [PoolNext]_poolVars =>
        [\A l \in Lbas : disk'[l] # disk[l] =>
            InLog([lba |-> l, write |-> disk'[l]]) \/ \E t \in Threads : Writes(t) /\ met[t]]_poolVars
  BY OnlyLoggedPages
<1> QED
  BY <1>1, <1>2, <1>3, PoolInvHolds, PTL DEF PoolSpec, LogBeforePage

-----------------------------------------------------------------------------
(* The slotted page, for any size of a page and any tuples.  The argument:  *)
(* as long as the tuples fit beside the header and their slots, the three   *)
(* writes of an insert touch words that nothing else lies on, so the page   *)
(* keeps saying what was inserted.                                          *)

Tuples == Rids \X Rids \X Hashes \X Payloads

\* Where the i-th tuple that was inserted lies, and where its slot.
TupleAt(i) == PageWords - TUPLE_WORDS * i
SlotAt(i) == HEADER_WORDS + (i - 1) * SLOT_WORDS

PageTypeOK ==
    /\ inserted \in Seq(Tuples) /\ Len(inserted) <= MaxInserts
    /\ DOMAIN words = 0..(PageWords - 1)

\* As long as they fit, header, slots and tuples say what was inserted.
PageLayout ==
    /\ NumSlots = Len(inserted) /\ FreeSpaceOffset = TupleAt(Len(inserted))
    /\ \A i \in 1..Len(inserted) :
          /\ words[SlotAt(i)] = TupleAt(i)
          /\ \A k \in 1..TUPLE_WORDS : words[TupleAt(i) + k - 1] = inserted[i][k]

SlotsInv == PageTypeOK /\ (Fits(Len(inserted)) => PageLayout)

\* The words a write changes are those from its start, as many as it has values.
LEMMA WriteWordsAt ==
  ASSUME NEW old, DOMAIN old = 0..(PageWords - 1), NEW at \in Int, NEW m \in Nat,
         NEW values, DOMAIN values = 1..m
  PROVE  /\ DOMAIN WriteWords(old, at, values) = 0..(PageWords - 1)
         /\ \A w \in 0..(PageWords - 1) :
               WriteWords(old, at, values)[w] =
                   IF at <= w /\ w < at + m THEN values[w - at + 1] ELSE old[w]
<1>1. \A w \in 0..(PageWords - 1) : w - at + 1 \in 1..m <=> at <= w /\ w < at + m
  BY PageAssumption
<1> QED
  BY <1>1 DEF WriteWords

\* A set of naturals has a least element.
LEMMA LeastExists ==
  ASSUME NEW S, S \subseteq Nat, S # {}
  PROVE  LET x == CHOOSE s \in S : \A r \in S : s <= r
         IN  x \in S /\ \A r \in S : x <= r
<1>1. PICK x \in S : \A y \in S : ~(<<y, x>> \in OpToRel(<, Nat))
  BY NatLessThanWellFounded, WFMin
<1>2. ASSUME NEW y \in S PROVE x <= y
  <2>1. x \in Nat /\ y \in Nat
    OBVIOUS
  <2>2. ~(y < x)
    BY <1>1, <2>1 DEF OpToRel
  <2> QED
    BY <2>1, <2>2
<1> QED
  BY <1>2

LEMMA SubSeqOfFour ==
  ASSUME NEW a, NEW b, NEW c, NEW d
  PROVE  SubSeq(<<a, b, c, d>>, 1, 3) = <<a, b, c>>
<1> DEFINE s == <<a, b, c, d>>
           t == <<a, b, c>>
<1>1. SubSeq(s, 1, 3) = [i \in 1..3 |-> s[i]]
  OBVIOUS
<1>2. t = [i \in 1..3 |-> t[i]]
  OBVIOUS
<1>3. \A i \in 1..3 : s[i] = t[i]
  <2>1. s[1] = t[1] /\ s[2] = t[2] /\ s[3] = t[3]
    OBVIOUS
  <2> QED
    BY <2>1
<1> HIDE DEF s, t
<1>4. [i \in 1..3 |-> s[i]] = [i \in 1..3 |-> t[i]]
  BY <1>3
<1>5. SubSeq(s, 1, 3) = t
  BY <1>1, <1>2, <1>4
<1> QED
  BY <1>5 DEF s, t

LEMMA PageInitInv == PageInit => SlotsInv
<1> SUFFICES ASSUME PageInit PROVE SlotsInv
  OBVIOUS
<1> DEFINE blank == [w \in 0..(PageWords - 1) |-> 0]
           values == <<728581, 0, 0, PageWords>>
<1>1. DOMAIN blank = 0..(PageWords - 1) /\ DOMAIN values = 1..4
      /\ words = WriteWords(blank, 0, values) /\ inserted = <<>>
  BY DEF PageInit
<1>2. PageWords \in Nat /\ 4 <= PageWords /\ MaxInserts \in Nat
  BY PageAssumption DEF HEADER_WORDS, SLOT_WORDS
<1>3. values[3] = 0 /\ values[4] = PageWords
  OBVIOUS
<1> HIDE DEF blank, values
<1>4. /\ DOMAIN words = 0..(PageWords - 1)
      /\ \A w \in 0..(PageWords - 1) : words[w] = IF 0 <= w /\ w < 0 + 4 THEN values[w - 0 + 1] ELSE blank[w]
  <2>1. 0 \in Int /\ 4 \in Nat /\ DOMAIN blank = 0..(PageWords - 1) /\ DOMAIN values = 1..4
    BY <1>1
  <2>2. /\ DOMAIN WriteWords(blank, 0, values) = 0..(PageWords - 1)
        /\ \A w \in 0..(PageWords - 1) :
              WriteWords(blank, 0, values)[w] = IF 0 <= w /\ w < 0 + 4 THEN values[w - 0 + 1] ELSE blank[w]
    BY ONLY <2>1, WriteWordsAt, Zenon
  <2> QED
    BY <1>1, <2>2, Zenon
<1>5. words[2] = values[3] /\ words[3] = values[4]
  BY <1>2, <1>4
<1> QED
  BY <1>1, <1>2, <1>3, <1>4, <1>5
  DEF SlotsInv, PageTypeOK, PageLayout, NumSlots, FreeSpaceOffset, TupleAt, TUPLE_WORDS

LEMMA SlotInsertInv ==
  ASSUME SlotsInv, NEW tuple \in Tuples, SlotInsert(tuple)
  PROVE  SlotsInv'
<1> DEFINE m == Len(inserted)
           free == FreeSpaceOffset - TUPLE_WORDS
           withTuple == WriteWords(words, free, tuple)
           slot == <<free, TUPLE_WORDS>>
           withSlot == WriteWords(withTuple, HEADER_WORDS + NumSlots * SLOT_WORDS, slot)
           header == <<NumSlots + 1, free>>
<1>1. /\ m < MaxInserts /\ words' = WriteWords(withSlot, 2, header)
      /\ inserted' = Append(inserted, tuple)
  BY DEF SlotInsert
<1>2. /\ m \in Nat /\ MaxInserts \in Nat /\ PageWords \in Nat /\ m + 1 <= MaxInserts
      /\ inserted \in Seq(Tuples) /\ DOMAIN words = 0..(PageWords - 1)
  BY <1>1, PageAssumption DEF SlotsInv, PageTypeOK
<1>3. /\ inserted' \in Seq(Tuples) /\ Len(inserted') = m + 1
      /\ inserted'[m + 1] = tuple /\ \A i \in 1..m : inserted'[i] = inserted[i]
  BY <1>1, <1>2
<1>4. DOMAIN words' = 0..(PageWords - 1)
  BY <1>1, <1>2 DEF WriteWords
<1>5. PageTypeOK'
  BY <1>2, <1>3, <1>4 DEF PageTypeOK
<1>6. ASSUME Fits(m + 1) PROVE PageLayout'
  <2>1. PageLayout /\ 4 + 6 * (m + 1) <= PageWords
    BY <1>2, <1>6 DEF SlotsInv, Fits, HEADER_WORDS, SLOT_WORDS, TUPLE_WORDS
  <2>2. /\ NumSlots = m /\ free = PageWords - 4 * (m + 1) /\ free \in Int
        /\ HEADER_WORDS + NumSlots * SLOT_WORDS = 4 + 2 * m
    BY <1>2, <2>1 DEF PageLayout, TupleAt, TUPLE_WORDS, HEADER_WORDS, SLOT_WORDS
  <2>3. /\ DOMAIN tuple = 1..4 /\ DOMAIN slot = 1..2 /\ DOMAIN header = 1..2
        /\ 2 \in Int /\ 2 \in Nat /\ 4 \in Nat
        /\ DOMAIN words = 0..(PageWords - 1) /\ free \in Int
    BY <1>2, <2>2 DEF Tuples
  <2>4. slot[1] = free /\ header[1] = m + 1 /\ header[2] = free
    BY <2>2
  <2> HIDE DEF free, slot, header
  <2>5. /\ DOMAIN withTuple = 0..(PageWords - 1)
        /\ \A w \in 0..(PageWords - 1) :
              withTuple[w] = IF free <= w /\ w < free + 4 THEN tuple[w - free + 1] ELSE words[w]
    <3>1. free \in Int /\ 4 \in Nat /\ DOMAIN words = 0..(PageWords - 1) /\ DOMAIN tuple = 1..4
      BY <2>3
    <3> QED
      BY ONLY <3>1, WriteWordsAt, Zenon
  <2> HIDE DEF withTuple
  <2>6. /\ DOMAIN withSlot = 0..(PageWords - 1)
        /\ \A w \in 0..(PageWords - 1) :
              withSlot[w] = IF 4 + 2 * m <= w /\ w < 4 + 2 * m + 2 THEN slot[w - (4 + 2 * m) + 1] ELSE withTuple[w]
    <3>1. PICK at \in Int : at = 4 + 2 * m
      BY <1>2
    <3>2. at \in Int /\ 2 \in Nat /\ DOMAIN withTuple = 0..(PageWords - 1) /\ DOMAIN slot = 1..2
      BY <2>3, <2>5, <3>1
    <3>3. withSlot = WriteWords(withTuple, at, slot)
      BY <2>2, <3>1
    <3>4. /\ DOMAIN WriteWords(withTuple, at, slot) = 0..(PageWords - 1)
          /\ \A w \in 0..(PageWords - 1) :
                WriteWords(withTuple, at, slot)[w] =
                  IF at <= w /\ w < at + 2 THEN slot[w - at + 1] ELSE withTuple[w]
      BY ONLY <3>2, WriteWordsAt, Zenon
    <3> QED
      BY ONLY <3>1, <3>3, <3>4, Zenon
  <2> HIDE DEF withSlot
  <2>7. \A w \in 0..(PageWords - 1) :
              words'[w] = IF 2 <= w /\ w < 2 + 2 THEN header[w - 2 + 1] ELSE withSlot[w]
    <3>1. words' = WriteWords(withSlot, 2, header)
      BY <1>1
    <3>2. 2 \in Int /\ 2 \in Nat /\ DOMAIN withSlot = 0..(PageWords - 1) /\ DOMAIN header = 1..2
      BY <2>3, <2>6
    <3>3. \A w \in 0..(PageWords - 1) :
             WriteWords(withSlot, 2, header)[w] = IF 2 <= w /\ w < 2 + 2 THEN header[w - 2 + 1] ELSE withSlot[w]
      BY ONLY <3>2, WriteWordsAt, Zenon
    <3> QED
      BY ONLY <3>1, <3>3, Zenon
  <2>8. words'[2] = m + 1 /\ words'[3] = PageWords - 4 * (m + 1)
    BY <1>2, <2>1, <2>2, <2>4, <2>7
  <2>9. ASSUME NEW i \in 1..(m + 1)
        PROVE  words'[4 + 2 * (i - 1)] = PageWords - 4 * i
    <3>1. 4 + 2 * (i - 1) \in 0..(PageWords - 1) /\ ~(4 + 2 * (i - 1) < free + 4 /\ free <= 4 + 2 * (i - 1))
          /\ ~(4 + 2 * (i - 1) < 4)
      BY <1>2, <2>1, <2>2
    <3>2. CASE i = m + 1
      <4>1. words'[4 + 2 * m] = slot[1]
        BY <1>2, <2>6, <2>7, <3>1, <3>2
      <4> QED
        BY <1>2, <2>2, <2>4, <3>2, <4>1
    <3>3. CASE i # m + 1
      <4>1. i \in 1..m /\ words[4 + 2 * (i - 1)] = PageWords - 4 * i
        BY <1>2, <2>1, <3>3 DEF PageLayout, SlotAt, TupleAt, HEADER_WORDS, SLOT_WORDS, TUPLE_WORDS
      <4>2. words'[4 + 2 * (i - 1)] = words[4 + 2 * (i - 1)]
        BY <1>2, <2>5, <2>6, <2>7, <3>1, <4>1
      <4> QED
        BY <4>1, <4>2
    <3> QED
      BY <3>2, <3>3
  <2>10. ASSUME NEW i \in 1..(m + 1), NEW k \in 1..4
         PROVE  words'[PageWords - 4 * i + k - 1] = inserted'[i][k]
    <3> DEFINE w == PageWords - 4 * i + k - 1
    <3>1. w \in 0..(PageWords - 1) /\ ~(w < 4 + 2 * m + 2) /\ free <= w
      BY <1>2, <2>1, <2>2
    <3>2. words'[w] = withTuple[w]
      BY <1>2, <2>6, <2>7, <3>1
    <3>3. CASE i = m + 1
      <4>1. w - free + 1 = k /\ w < free + 4
        BY <1>2, <2>2, <3>3
      <4> QED
        BY <1>3, <2>5, <3>1, <3>2, <3>3, <4>1
    <3>4. CASE i # m + 1
      <4>1. i \in 1..m /\ ~(w < free + 4)
        BY <1>2, <2>2, <3>4
      <4>2. words[w] = inserted[i][k]
        BY <2>1, <4>1 DEF PageLayout, TupleAt, TUPLE_WORDS
      <4> QED
        BY <1>3, <2>5, <3>1, <3>2, <4>1, <4>2
    <3> QED
      BY <3>3, <3>4
  <2> QED
    BY <1>3, <2>8, <2>9, <2>10
    DEF PageLayout, NumSlots, FreeSpaceOffset, SlotAt, TupleAt, HEADER_WORDS, SLOT_WORDS, TUPLE_WORDS
<1> QED
  BY <1>3, <1>5, <1>6 DEF SlotsInv

LEMMA SlotsInvHolds == PageSpec => []SlotsInv
<1>1. ASSUME SlotsInv, [PageNext]_pageVars PROVE SlotsInv'
  <2>1. CASE PageNext
    <3>1. PICK high \in Rids, low \in Rids, h \in Hashes, v \in Payloads : SlotInsert(<<high, low, h, v>>)
      BY <2>1 DEF PageNext
    <3>2. <<high, low, h, v>> \in Tuples
      BY DEF Tuples
    <3> QED
      BY <1>1, <3>1, <3>2, SlotInsertInv
  <2>2. CASE UNCHANGED pageVars
    BY <1>1, <2>2 DEF pageVars, SlotsInv, PageTypeOK, PageLayout, NumSlots, FreeSpaceOffset
  <2> QED
    BY <1>1, <2>1, <2>2
<1> QED
  BY <1>1, PageInitInv, PTL DEF PageSpec

\* The first slot that matches is that of the first tuple that does.
LEMMA SearchIsRight == SlotsInv => SearchFindsInserted
<1> SUFFICES ASSUME SlotsInv, Fits(Len(inserted)), NEW high \in Rids, NEW low \in Rids, NEW h \in Hashes
             PROVE  LET matches == {i \in DOMAIN inserted : SubSeq(inserted[i], 1, 3) = <<high, low, h>>}
                    IN  TupleSearch(<<high, low, h>>) =
                          IF matches = {} THEN -1
                          ELSE inserted[CHOOSE i \in matches : \A j \in matches : i <= j][4]
  BY DEF SearchFindsInserted
<1> DEFINE key == <<high, low, h>>
           matches == {i \in DOMAIN inserted : SubSeq(inserted[i], 1, 3) = key}
           found == {i \in 0..(NumSlots - 1) : SlotMatches(i, key)}
<1>1. /\ PageLayout /\ inserted \in Seq(Tuples) /\ Len(inserted) \in Nat /\ PageWords \in Nat
      /\ DOMAIN inserted = 1..Len(inserted) /\ NumSlots = Len(inserted)
      /\ 4 + 6 * Len(inserted) <= PageWords /\ DOMAIN words = 0..(PageWords - 1)
  BY PageAssumption DEF SlotsInv, PageTypeOK, PageLayout, Fits, HEADER_WORDS, SLOT_WORDS, TUPLE_WORDS
<1>2. ASSUME NEW i \in 1..Len(inserted)
      PROVE  /\ words[HEADER_WORDS + (i - 1) * SLOT_WORDS] = PageWords - 4 * i
             /\ \A k \in 1..4 : /\ PageWords - 4 * i + k - 1 \in DOMAIN words
                                /\ words[PageWords - 4 * i + k - 1] = inserted[i][k]
  <2>1. /\ words[SlotAt(i)] = TupleAt(i)
        /\ \A k \in 1..4 : words[TupleAt(i) + k - 1] = inserted[i][k]
    BY <1>1 DEF PageLayout, TUPLE_WORDS
  <2>2. SlotAt(i) = HEADER_WORDS + (i - 1) * SLOT_WORDS /\ TupleAt(i) = PageWords - 4 * i
    BY DEF SlotAt, TupleAt, TUPLE_WORDS
  <2>3. \A k \in 1..4 : PageWords - 4 * i + k - 1 \in 0..(PageWords - 1)
    BY <1>1
  <2> QED
    BY <1>1, <2>1, <2>2, <2>3
<1>3. ASSUME NEW i \in 1..Len(inserted)
      PROVE  SlotMatches(i - 1, key) <=> SubSeq(inserted[i], 1, 3) = key
  <2>1. SlotMatches(i - 1, key) <=> \A k \in 1..3 : inserted[i][k] = key[k]
    <3>1. \A k \in 1..3 : k \in 1..4
      OBVIOUS
    <3> QED
      BY <1>2, <3>1 DEF SlotMatches
  <2>2. inserted[i] \in Tuples
    BY <1>1
  <2>3. PICK a, b, c, d : inserted[i] = <<a, b, c, d>>
    BY <2>2 DEF Tuples
  <2>4. SubSeq(<<a, b, c, d>>, 1, 3) = <<a, b, c>>
    BY SubSeqOfFour
  <2> QED
    BY <2>1, <2>3, <2>4
<1>4. \A i \in 1..Len(inserted) : i \in matches <=> i - 1 \in found
  BY <1>1, <1>3
<1>5. matches \subseteq 1..Len(inserted) /\ found \subseteq 0..(Len(inserted) - 1)
  BY <1>1
<1>6. TupleSearch(key) = IF found = {} THEN -1
                         ELSE words[words[HEADER_WORDS + (CHOOSE i \in found : \A j \in found : i <= j) * SLOT_WORDS] + 3]
  BY DEF TupleSearch
<1> HIDE DEF matches, found
<1>7. \A j \in found : j + 1 \in matches /\ j + 1 \in 1..Len(inserted)
  BY <1>1, <1>4, <1>5
<1>8. ASSUME matches = {} PROVE TupleSearch(key) = -1
  <2>1. found = {}
    BY <1>7, <1>8
  <2> QED
    BY <1>6, <1>8, <2>1, Zenon
<1>9. ASSUME matches # {}
      PROVE  TupleSearch(key) = inserted[CHOOSE i \in matches : \A j \in matches : i <= j][4]
  <2>1. matches \subseteq Nat
    BY <1>5
  <2>2. PICK i \in matches : i = CHOOSE x \in matches : \A j \in matches : x <= j
    BY <1>9, <2>1, LeastExists
  <2>3. \A j \in matches : i <= j
    BY <1>9, <2>1, <2>2, LeastExists
  <2>4. i \in 1..Len(inserted) /\ i - 1 \in found /\ \A j \in found : i - 1 <= j
    BY <1>1, <1>4, <1>5, <1>7, <2>3
  <2>5. i - 1 = CHOOSE x \in found : \A j \in found : x <= j
    <3>1. found \subseteq Nat /\ found # {}
      BY <1>5, <2>4
    <3>2. PICK x \in found : x = CHOOSE y \in found : \A j \in found : y <= j
      BY <3>1, LeastExists
    <3>3. \A j \in found : x <= j
      BY <3>1, <3>2, LeastExists
    <3>4. x = i - 1
      BY <2>4, <3>1, <3>3
    <3> QED
      BY <3>2, <3>4, Zenon
  <2>6. TupleSearch(key) = words[words[HEADER_WORDS + (i - 1) * SLOT_WORDS] + 3]
    BY <1>6, <2>4, <2>5
  <2>7. 4 \in 1..4 /\ PageWords - 4 * i + 4 - 1 = PageWords - 4 * i + 3
    BY <1>1, <2>4
  <2>8. TupleSearch(key) = inserted[i][4]
    BY <1>2, <2>4, <2>6, <2>7
  <2> QED
    BY <1>9, <2>2, <2>8, Zenon
<1>10. TupleSearch(key) = IF matches = {} THEN -1
                          ELSE inserted[CHOOSE i \in matches : \A j \in matches : i <= j][4]
  BY <1>8, <1>9
<1> QED
  BY <1>10 DEF matches

\* A search finds the first tuple inserted under a key, or nothing if there
\* was none, as long as the page had room for what was inserted.
THEOREM SearchFindsFirst == PageSpec => []SearchFindsInserted
<1> QED
  BY SlotsInvHolds, SearchIsRight, PTL

=============================================================================
