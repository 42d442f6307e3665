------------------------------ MODULE BufferPool ------------------------------
(***************************************************************************)
(* The buffer pool of packages-llvm/db.ohn/src/db.ohn: a page lba can only *)
(* be in frame lba % NUM_FRAMES, whose lock a thread holds from            *)
(* db_read_page or db_write_page until it releases the page.  A frame that *)
(* is dirty is appended to a log and written to its place before another   *)
(* page is read into it; db_flush_all does the same to every dirty frame.  *)
(* The process may be killed at any moment; nothing reads the log again.   *)
(*                                                                         *)
(* A page image is its lba and the number of the write that made it.  The  *)
(* threads, which db.ohn leaves to its user, are external.                 *)
(***************************************************************************)
EXTENDS Integers

CONSTANTS
    Threads,
    Nobody,      \* no thread
    NUM_FRAMES,
    Lbas,        \* the pages that are used
    WAL_BASE,    \* 1000000 in the code: where the log begins
    Forgetful,   \* threads that may never release a page, as main.ohn does
    MaxWrites,   \* bound on the changes of pages, of the model only
    MaxLog       \* bound on the log between two restarts, of the model only

ASSUME PoolAssumption ==
    /\ NUM_FRAMES \in Nat \ {0}
    /\ Lbas \subseteq Nat
    /\ WAL_BASE \in Nat
    /\ Nobody \notin Threads
    /\ Forgetful \subseteq Threads
    /\ MaxWrites \in Nat /\ MaxLog \in Nat

Frames == 0..(NUM_FRAMES - 1)
NoPage == -1

VARIABLES
    pageTable,     \* the lba of every frame, or -1, and is_dirty
    frame,         \* the contents of the frames
    disk,          \* the contents of the pages on disk: the last write of each
    log,           \* the images appended since the last start, by position
    wal_tail_lba,
    lock,          \* the readers and the writer of every frame's lock
    pc,            \* where each thread is
    page,          \* the lba of its db_read_page or db_write_page
    mode,          \* which of db_read_page, db_write_page and db_flush_all it runs
    index,         \* i of db_flush_all
    writes,        \* history: the number of changes
    latest,        \* history: the last change of each page since the last start
    tail,          \* what each thread's db_wal_append has read of wal_tail_lba
    flushFrom,     \* history: latest when a thread's db_flush_all began
    durable,       \* history: what completed calls of db_flush_all covered
    met            \* history: another append ran while a thread was in its own

poolVars == <<pageTable, frame, disk, log, wal_tail_lba, lock, pc, page, mode, index, tail,
              writes, latest, flushFrom, durable, met>>

Free == [readers |-> {}, writer |-> Nobody]
Empty == [f \in Frames |-> [lba |-> NoPage, dirty |-> FALSE]]

Unread == [lba |-> NoPage, write |-> 0]

\* db_init
PoolInit ==
    /\ pageTable = Empty
    /\ frame = [f \in Frames |-> Unread]
    /\ disk = [l \in Lbas |-> 0]
    /\ log = [p \in {} |-> Unread]
    /\ wal_tail_lba = WAL_BASE
    /\ lock = [f \in Frames |-> Free]
    /\ pc = [t \in Threads |-> "idle"]
    /\ page = [t \in Threads |-> NoPage]
    /\ mode = [t \in Threads |-> "read"]
    /\ index = [t \in Threads |-> 0]
    /\ writes = 0
    /\ latest = disk
    /\ flushFrom = [t \in Threads |-> [l \in Lbas |-> 0]]
    /\ durable = disk
    /\ tail = [t \in Threads |-> 0]
    /\ met = [t \in Threads |-> FALSE]

-----------------------------------------------------------------------------
(***************************************************************************)
(* pthread_rwlock.  Every result is ignored by the code, so a request of   *)
(* the thread that already is the writer changes nothing (EDEADLK).        *)
(***************************************************************************)
CanRead(t, f) == lock[f].writer \in {Nobody, t}
CanWrite(t, f) == lock[f].writer = t \/ lock[f] = Free

RLocked(t, f) ==
    IF lock[f].writer = t THEN lock
    ELSE [lock EXCEPT ![f].readers = @ \cup {t}]
WLocked(t, f) == [lock EXCEPT ![f].writer = t]
Unlocked(t, f, locks) ==
    IF locks[f].writer = t THEN [locks EXCEPT ![f].writer = Nobody]
    ELSE [locks EXCEPT ![f].readers = @ \ {t}]

-----------------------------------------------------------------------------
\* The frame a thread works on: lba % NUM_FRAMES, or i of db_flush_all.
FrameOf(t) == IF mode[t] = "flush" THEN index[t] ELSE page[t] % NUM_FRAMES

\* The locals of a call end with it.
Return(t) ==
    /\ page' = [page EXCEPT ![t] = NoPage]
    /\ mode' = [mode EXCEPT ![t] = "read"]
    /\ index' = [index EXCEPT ![t] = 0]
    /\ flushFrom' = [flushFrom EXCEPT ![t] = [l \in Lbas |-> 0]]

Goto(t, from, to) == pc[t] = from /\ pc' = [pc EXCEPT ![t] = to]

pool == <<pageTable, frame>>
appending == <<tail, met>>
store == <<disk, log, wal_tail_lba, appending>>
call == <<page, mode, index>>
history == <<writes, latest, flushFrom, durable>>

\* A call for page l.  A thread that waits for the first lock of its call has
\* done nothing yet, so the call and that lock are one step.
Calls(t, m, l) ==
    /\ mode' = [mode EXCEPT ![t] = m]
    /\ page' = [page EXCEPT ![t] = l]
    /\ UNCHANGED index
PageFrame(l) == l % NUM_FRAMES

\* db_read_page with the read lock: the page is there, and the lock is kept;
\* or it is not, and the lock is given up before the write lock is asked for.
Hit(t, l) ==
    /\ Goto(t, "idle", "using")
    /\ Calls(t, "read", l)
    /\ CanRead(t, PageFrame(l))
    /\ pageTable[PageFrame(l)].lba = l
    /\ lock' = RLocked(t, PageFrame(l))
    /\ UNCHANGED <<pool, store, history>>

Escalate(t, l) ==
    /\ Goto(t, "idle", "wlock")
    /\ Calls(t, "read", l)
    /\ CanRead(t, PageFrame(l))
    /\ pageTable[PageFrame(l)].lba # l
    /\ lock' = Unlocked(t, PageFrame(l), RLocked(t, PageFrame(l)))
    /\ UNCHANGED <<pool, store, history>>

\* Fault: a dirty page is not written first.
EvictingBlindly(f) == "load"

\* What follows on the write lock when another page has to be read.
Evicting(f) == IF pageTable[f].dirty THEN "append" ELSE "load"

\* db_read_page, which does not look for the page again.
ReadMiss(t) ==
    /\ mode[t] = "read"
    /\ Goto(t, "wlock", Evicting(FrameOf(t)))
    /\ CanWrite(t, FrameOf(t))
    /\ lock' = WLocked(t, FrameOf(t))
    /\ UNCHANGED <<pool, store, call, history>>

\* db_write_page: it returns with the write lock, the frame marked dirty.
WriteHit(t, l) ==
    /\ Goto(t, "idle", "using")
    /\ Calls(t, "write", l)
    /\ CanWrite(t, PageFrame(l))
    /\ pageTable[PageFrame(l)].lba = l
    /\ lock' = WLocked(t, PageFrame(l))
    /\ pageTable' = [pageTable EXCEPT ![PageFrame(l)].dirty = TRUE]
    /\ UNCHANGED <<frame, store, history>>

WriteMiss(t, l) ==
    /\ Goto(t, "idle", Evicting(PageFrame(l)))
    /\ Calls(t, "write", l)
    /\ CanWrite(t, PageFrame(l))
    /\ pageTable[PageFrame(l)].lba # l
    /\ lock' = WLocked(t, PageFrame(l))
    /\ UNCHANGED <<pool, store, history>>

\* db_flush_all, and the lock of a frame that is dirty.
CallFlush(t) ==
    /\ Goto(t, "idle", "wlock")
    /\ mode' = [mode EXCEPT ![t] = "flush"]
    /\ flushFrom' = [flushFrom EXCEPT ![t] = latest]
    /\ UNCHANGED <<pool, store, lock, page, index, writes, latest, durable>>

FlushDirty(t) ==
    /\ mode[t] = "flush"
    /\ Goto(t, "wlock", "append")
    /\ CanWrite(t, index[t])
    /\ pageTable[index[t]].dirty
    /\ lock' = WLocked(t, index[t])
    /\ UNCHANGED <<pool, store, call, history>>

\* db_wal_append.  No lock guards wal_tail_lba: it is read for the position
\* of the image, and read again and stored to be advanced.
InAppend(t) == pc[t] \in {"image", "count", "advance"}
OthersInAppend(t) == {s \in Threads \ {t} : InAppend(s)}

ReadTail(t) ==
    /\ Goto(t, "append", "image")
    /\ wal_tail_lba < WAL_BASE + MaxLog
    /\ tail' = [tail EXCEPT ![t] = wal_tail_lba]
    /\ met' = [s \in Threads |-> IF s = t THEN OthersInAppend(t) # {}
                                 ELSE met[s] \/ s \in OthersInAppend(t)]
    /\ UNCHANGED <<pool, disk, log, wal_tail_lba, lock, call, history>>

AppendImage(t) ==
    /\ Goto(t, "image", "count")
    /\ log' = [p \in DOMAIN log \cup {tail[t]} |->
                  IF p = tail[t] THEN frame[FrameOf(t)] ELSE log[p]]
    /\ UNCHANGED <<pool, disk, wal_tail_lba, appending, lock, call, history>>

CountImage(t) ==
    /\ Goto(t, "count", "advance")
    /\ tail' = [tail EXCEPT ![t] = wal_tail_lba + 1]
    /\ UNCHANGED <<pool, disk, log, wal_tail_lba, met, lock, call, history>>

\* Fault: the tail stays where it is.
AdvanceNowhere(t) ==
    /\ Goto(t, "advance", "writeback")
    /\ tail' = [tail EXCEPT ![t] = 0]
    /\ UNCHANGED <<pool, disk, log, wal_tail_lba, met, lock, call, history>>

Advance(t) ==
    /\ Goto(t, "advance", "writeback")
    /\ wal_tail_lba' = tail[t]
    /\ tail' = [tail EXCEPT ![t] = 0]
    /\ UNCHANGED <<pool, disk, log, met, lock, call, history>>

\* sys_lba_write to the place of the page that is in the frame.  The entry
\* stays dirty until the next page is read, or db_flush_all goes on.
WriteBack(t) ==
    /\ Goto(t, "writeback", IF mode[t] = "flush" THEN "unlock" ELSE "load")
    /\ disk' = [disk EXCEPT ![pageTable[FrameOf(t)].lba] = frame[FrameOf(t)].write]
    /\ met' = [met EXCEPT ![t] = FALSE]
    /\ UNCHANGED <<pool, log, wal_tail_lba, tail, lock, call, history>>

\* sys_lba_read, and the new entry of the page table.
Load(t) ==
    /\ Goto(t, "load", "using")
    /\ frame' = [frame EXCEPT ![FrameOf(t)] = [lba |-> page[t], write |-> disk[page[t]]]]
    /\ pageTable' = [pageTable EXCEPT ![FrameOf(t)] = [lba |-> page[t], dirty |-> mode[t] = "write"]]
    /\ UNCHANGED <<store, lock, call, history>>

\* A round of db_flush_all ends: for a frame that is clean right after the
\* lock was taken, for a dirty one after it was written.
RoundEnds(t, to) ==
    /\ mode[t] = "flush"
    /\ \/ Goto(t, "unlock", to)
       \/ Goto(t, "wlock", to) /\ CanWrite(t, index[t]) /\ ~pageTable[index[t]].dirty
    /\ pageTable' = [pageTable EXCEPT ![index[t]].dirty = FALSE]
    /\ lock' = Unlocked(t, index[t], WLocked(t, index[t]))

NextFrame(t) ==
    /\ RoundEnds(t, "wlock")
    /\ index[t] + 1 < NUM_FRAMES
    /\ index' = [index EXCEPT ![t] = @ + 1]
    /\ UNCHANGED <<frame, store, page, mode, history>>

Larger(a, b) == IF a > b THEN a ELSE b

\* Fault: the last frame is left out.
EndFlushEarly(t) ==
    /\ RoundEnds(t, "idle")
    /\ index[t] + 2 >= NUM_FRAMES
    /\ durable' = [l \in Lbas |-> Larger(flushFrom[t][l], durable[l])]
    /\ Return(t)
    /\ UNCHANGED <<frame, store, writes, latest>>

EndFlush(t) ==
    /\ RoundEnds(t, "idle")
    /\ index[t] + 1 = NUM_FRAMES
    /\ durable' = [l \in Lbas |-> Larger(flushFrom[t][l], durable[l])]
    /\ Return(t)
    /\ UNCHANGED <<frame, store, writes, latest>>

-----------------------------------------------------------------------------
\* External: what a thread does with the page it was given.
Change(t) ==
    /\ pc[t] = "using" /\ mode[t] = "write"
    /\ writes < MaxWrites
    /\ writes' = writes + 1
    /\ frame' = [frame EXCEPT ![FrameOf(t)].write = writes']
    /\ latest' = [latest EXCEPT ![page[t]] = writes']
    /\ UNCHANGED <<pageTable, store, lock, pc, call, flushFrom, durable>>

\* db_release_read_lock and db_release_write_lock are the same.
Release(t) ==
    /\ Goto(t, "using", "idle")
    /\ lock' = Unlocked(t, FrameOf(t), lock)
    /\ Return(t)
    /\ UNCHANGED <<pool, store, writes, latest, durable>>

\* main.ohn reads a page that is not cached and never releases it.
Forget(t) ==
    /\ t \in Forgetful
    /\ Goto(t, "using", "idle")
    /\ lock[FrameOf(t)].writer = t
    /\ Return(t)
    /\ UNCHANGED <<pool, store, lock, writes, latest, durable>>

\* The process is killed and started again: db_init.
Restart ==
    /\ pageTable' = Empty
    /\ wal_tail_lba' = WAL_BASE
    /\ lock' = [f \in Frames |-> Free]
    /\ pc' = [t \in Threads |-> "idle"]
    /\ latest' = disk
    /\ frame' = [f \in Frames |-> Unread]
    /\ page' = [t \in Threads |-> NoPage]
    /\ mode' = [t \in Threads |-> "read"]
    /\ index' = [t \in Threads |-> 0]
    /\ flushFrom' = [t \in Threads |-> [l \in Lbas |-> 0]]
    /\ log' = [p \in {} |-> Unread]
    /\ tail' = [t \in Threads |-> 0]
    /\ met' = [t \in Threads |-> FALSE]
    /\ UNCHANGED <<disk, writes, durable>>

Thread(t) ==
    \/ \E l \in Lbas : Hit(t, l) \/ Escalate(t, l) \/ WriteHit(t, l) \/ WriteMiss(t, l)
    \/ ReadMiss(t) \/ CallFlush(t) \/ FlushDirty(t)
    \/ ReadTail(t) \/ AppendImage(t) \/ CountImage(t) \/ Advance(t) \/ WriteBack(t) \/ Load(t)
    \/ NextFrame(t) \/ EndFlush(t)
    \/ Change(t) \/ Release(t) \/ Forget(t)

PoolNext == (\E t \in Threads : Thread(t)) \/ Restart

PoolSpec == PoolInit /\ [][PoolNext]_poolVars

-----------------------------------------------------------------------------
(***************************************************************************)
(* Properties                                                              *)
(***************************************************************************)
\* Whoever was given a page finds that page in the frame, with the last
\* change anybody made to it, until it is released: although the read lock is
\* given up before the write lock is taken and the page table is not looked
\* at again, although the page may have been evicted and read again in
\* between, and although a page that was not cached comes with a write lock.
PagesAsWritten ==
    \A t \in Threads :
        pc[t] = "using" =>
            /\ pageTable[FrameOf(t)].lba = page[t]
            /\ frame[FrameOf(t)] = [lba |-> page[t], write |-> latest[page[t]]]

\* A change that was made before a completed db_flush_all began is on disk, or
\* a later one of the same page, for good: no eviction and no kill takes it
\* back.
Durable == \A l \in Lbas : disk[l] >= durable[l]

\* A page is written to its place only while the log holds its new contents,
\* unless another append ran while the image was appended.  Appends that meet
\* take each other's place in the log, may leave holes in it and may even move
\* the tail back; but they only lose their own images and those of pages that
\* were written before: an append that meets nobody is safe until its page
\* is written, wherever the others left the tail and whatever they do next.
InLog(image) == \E p \in DOMAIN log : log[p] = image
Writes(t) == pc[t] = "writeback" /\ pc'[t] # "writeback"
LogBeforePage ==
    [][\A l \in Lbas : disk'[l] # disk[l] =>
          InLog([lba |-> l, write |-> disk'[l]]) \/ \E t \in Threads : Writes(t) /\ met[t]]_poolVars

=============================================================================
