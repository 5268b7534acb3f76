----------------------------- MODULE VhdBackend -----------------------------
(***************************************************************************)
(* A VHD image behind its reader-writer lock (backend.rs, vhd.rs), with the*)
(* read-ahead cache in front of it (read_ahead.rs): the disk a super client*)
(* writes to directly.                                                     *)
(*                                                                         *)
(* The file grows by whole VHD blocks, each found through the block        *)
(* allocation table (BAT).  The table in memory is what reads and writes   *)
(* use; the table on disk is what the next open of the file will load.  A  *)
(* block absent from the child is read from the parent image, and copied   *)
(* from it when first written.  With Original all zeroes this is the plain *)
(* (non-differencing) VHD as well.                                         *)
(*                                                                         *)
(* A unit is the smallest piece the properties tell apart: Spb units to a  *)
(* VHD block, Cpu units to a read-ahead chunk.  The payload of unit u in a *)
(* write of v is <<v, u>>: data that end up under another unit show.  An   *)
(* access to the file under the lock is one step per VHD block.            *)
(***************************************************************************)
EXTENDS Integers, Sequences, FiniteSets

CONSTANTS
  NumBlocks,    (* Entries of the BAT.                                     *)
  Spb,          (* Units per VHD block (2 MB in the files this code makes).*)
  Cpu,          (* Units per read-ahead chunk (256 KB).                    *)
  MaxSpan,      (* Bound: the VHD blocks one write command touches.        *)
  MaxRestarts,  (* Bound: server restarts.                                 *)
  Commands,     (* The extents initiators read and write.                  *)
  Values,       (* What a write may carry.                                 *)
  Writers, Readers,   (* Write and read tasks in flight.                   *)
  Original,     (* What the parent image holds, as if one write had made it.*)
  ReadCaches,   (* Whether read_cache_gb > 0: the settings considered.     *)
  IoErrors,     (* Whether a write to the file may fail.                   *)
  ChunkQuiet,   (* Whether the initiator of a cached image keeps reads and *)
                (* writes of one chunk apart.                              *)
  Free,         (* 0xFFFFFFFF: no block.                                   *)
  NoData        (* No payload.                                             *)

Units   == 0 .. NumBlocks * Spb - 1
VBlocks == 0 .. NumBlocks - 1
VBlock(u) == u \div Spb
Chunk(u)  == u \div Cpu
Chunks    == {Chunk(u) : u \in Units}
Extents == {e \in [first : Units, n : 1 .. MaxSpan * Spb] :
              /\ e.first + e.n <= NumBlocks * Spb
              /\ VBlock(e.first + e.n - 1) - VBlock(e.first) < MaxSpan}
Data    == (Values \cup {Original}) \X Units
Slot    == [0 .. Spb - 1 -> Data]

ASSUME VhdAssumption ==
  /\ NumBlocks \in Nat \ {0} /\ Spb \in Nat \ {0} /\ Cpu \in Nat \ {0}
  /\ Spb % Cpu = 0   \* a chunk never straddles two VHD blocks
  /\ MaxSpan \in Nat \ {0} /\ MaxRestarts \in Nat
  /\ Commands \subseteq Extents
  /\ Values # {} /\ Writers \cap Readers = {}
  /\ ReadCaches \in (SUBSET BOOLEAN) \ {{}} /\ IoErrors \in BOOLEAN /\ ChunkQuiet \in BOOLEAN
  /\ Free \notin Nat /\ NoData \notin Data

VARIABLES
  file,       (* The data blocks appended to the file, in order.           *)
  bat,        (* The table in memory: a position in file, or Free.         *)
  diskBat,    (* The table in the file.                                    *)
  cache,      (* The read-ahead cache: a chunk's units, or empty.          *)
  shared,     (* Tasks that hold the lock for reading.                     *)
  excl,       (* Tasks that hold it for writing (at most one).             *)
  wpc, wjob,  (* Write tasks: where they are, the extent and payload.      *)
  wpos,       (* The VHD block reached, or the table entry.                *)
  wupd,       (* bat_updates: the VHD blocks this write allocated.         *)
  rpc, rext, rpos, buf,   (* Read tasks; rpos is the unit reached.         *)
  loaded,     (* Read tasks: the chunk read from the file, not yet cached. *)
  restarts,   (* Restarts so far.                                          *)
  caching,    (* Whether the image has a read-ahead cache.                 *)
  failed,     (* Auxiliary: since the image was opened, a write failed that*)
              (* had allocated blocks and not put them all in diskBat.     *)
  window      (* Auxiliary: values a unit held since the read began.       *)

fileVars   == <<file, bat, diskBat>>
lockVars   == <<shared, excl>>
writerVars == <<wpc, wjob, wpos, wupd>>
envVars    == <<restarts, caching, failed>>
readerVars == <<rpc, rext, rpos, buf, loaded>>
vars == <<fileVars, cache, lockVars, writerVars, readerVars, envVars, window>>

Parent == [u \in Units |-> <<Original, u>>]
Piece(j, u) == <<j.val, u>>

NoBuf  == [u \in Units |-> NoData]
NoTable == [k \in VBlocks |-> Free]
Span(x) == x.first .. x.first + x.n - 1
FirstBlock(x) == VBlock(x.first)
LastBlock(x)  == VBlock(x.first + x.n - 1)

(* diff_read_blocks for one unit: child first, then parent. *)
Stored(table, u) ==
  IF table[VBlock(u)] = Free THEN Parent[u] ELSE file[table[VBlock(u)]][u % Spb]
View(u)      == Stored(bat, u)
Persisted(u) == Stored(diskBat, u)

NoJob == [first |-> 0, n |-> 1, val |-> CHOOSE v \in Values : TRUE]
NoExt == [first |-> 0, n |-> 1]

NoTasks ==
  /\ shared = {} /\ excl = {}
  /\ wpc = [w \in Writers |-> "idle"]
  /\ wjob = [w \in Writers |-> NoJob]
  /\ wpos = [w \in Writers |-> 0]
  /\ wupd = [w \in Writers |-> << >>]
  /\ rpc = [r \in Readers |-> "idle"]
  /\ rext = [r \in Readers |-> NoExt]
  /\ rpos = [r \in Readers |-> 0]
  /\ buf = [r \in Readers |-> NoBuf]
  /\ loaded = [r \in Readers |-> NoBuf]
  /\ window = [r \in Readers |-> [u \in Units |-> {}]]

Init ==
  /\ file = << >> /\ bat = NoTable /\ diskBat = NoTable
  /\ cache = [c \in Chunks |-> NoBuf]
  /\ restarts = 0 /\ caching \in ReadCaches /\ failed = FALSE
  /\ NoTasks

LockShared(t) == excl = {} /\ shared' = shared \cup {t} /\ UNCHANGED excl
LockExcl(t)   == excl = {} /\ shared = {} /\ excl' = {t} /\ UNCHANGED shared
Unlock(t)     == shared' = shared \ {t} /\ excl' = excl \ {t}

(* The task ends: its locals and its lock go. *)
RetireWrite(w) ==
  /\ wpc' = [wpc EXCEPT ![w] = "idle"]
  /\ wjob' = [wjob EXCEPT ![w] = NoJob]
  /\ wpos' = [wpos EXCEPT ![w] = 0]
  /\ wupd' = [wupd EXCEPT ![w] = << >>]
  /\ Unlock(w)

WGoto(w, pc) == wpc' = [wpc EXCEPT ![w] = pc]
RGoto(r, pc) == rpc' = [rpc EXCEPT ![r] = pc]
ChunksOf(x)  == {Chunk(u) : u \in Span(x)}

(* A step that writes job j to the units of S, seen by every read of them. *)
Witness(S, j) ==
  window' = [r \in Readers |-> [u \in Units |->
               IF u \in S /\ rpc[r] # "idle" /\ u \in Span(rext[r])
               THEN window[r][u] \cup {Piece(j, u)} ELSE window[r][u]]]

-----------------------------------------------------------------------------
(* Backend::write_blocks *)

StartWrite(w, e, v) ==
  /\ wpc[w] = "idle"
  /\ ChunkQuiet /\ caching => \A r \in Readers : rpc[r] # "idle" => ChunksOf(e) \cap ChunksOf(rext[r]) = {}
  /\ WGoto(w, IF caching THEN "invalidate" ELSE "check")
  /\ wjob' = [wjob EXCEPT ![w] = [first |-> e.first, n |-> e.n, val |-> v]]
  /\ UNCHANGED <<fileVars, cache, lockVars, wpos, wupd, readerVars, envVars, window>>

(* The chunks are dropped before the data is written. *)
MutInvalidate(w) ==
  /\ wpc[w] = "invalidate"
  /\ cache' = [cache EXCEPT ![Chunk(wjob[w].first)] = NoBuf]   \* the first chunk only
  /\ WGoto(w, "check")
  /\ UNCHANGED <<fileVars, lockVars, wjob, wpos, wupd, readerVars, envVars, window>>

Invalidate(w) ==
  /\ wpc[w] = "invalidate"
  /\ cache' = [c \in Chunks |-> IF c \in ChunksOf(wjob[w]) THEN NoBuf ELSE cache[c]]
  /\ WGoto(w, "check")
  /\ UNCHANGED <<fileVars, lockVars, wjob, wpos, wupd, readerVars, envVars, window>>

(* A definition named Mut... is a variant of the one after it with a       *)
(* plausible bug; the specification never uses it.                         *)
MutCheckAllocation(w) ==
  /\ wpc[w] = "check"
  /\ excl = {}                       \* asks for the first block only
  /\ WGoto(w, IF bat[FirstBlock(wjob[w])] = Free THEN "lockX" ELSE "lockS")
  /\ UNCHANGED <<fileVars, cache, lockVars, wjob, wpos, wupd, readerVars, envVars, window>>

(* needs_allocation, under a read lock that is given back at once. *)
CheckAllocation(w) ==
  LET needs == \E k \in FirstBlock(wjob[w]) .. LastBlock(wjob[w]) : bat[k] = Free IN
  /\ wpc[w] = "check"
  /\ excl = {}
  /\ WGoto(w, IF needs THEN "lockX" ELSE "lockS")
  /\ UNCHANGED <<fileVars, cache, lockVars, wjob, wpos, wupd, readerVars, envVars, window>>

AcquireShared(w) ==
  /\ wpc[w] = "lockS" /\ LockShared(w)
  /\ WGoto(w, "data")
  /\ wpos' = [wpos EXCEPT ![w] = FirstBlock(wjob[w])]
  /\ UNCHANGED <<fileVars, cache, wjob, wupd, readerVars, envVars, window>>

AcquireExcl(w) ==
  /\ wpc[w] = "lockX" /\ LockExcl(w)
  /\ WGoto(w, "alloc")
  /\ wpos' = [wpos EXCEPT ![w] = FirstBlock(wjob[w])]
  /\ wupd' = [wupd EXCEPT ![w] = << >>]
  /\ UNCHANGED <<fileVars, cache, wjob, readerVars, envVars, window>>

(* Copy-on-write: the parent's whole block is appended at end of file, then*)
(* the table in memory points to it.                                       *)
MutCopyOf(k) == [i \in 0 .. Spb - 1 |-> Parent[i]]   \* always the parent's first block

CopyOf(k) == [i \in 0 .. Spb - 1 |-> Parent[k * Spb + i]]
MutAllocBlock(w) ==
  LET k == wpos[w] IN
  /\ wpc[w] = "alloc" /\ k <= LastBlock(wjob[w])
  /\ IF bat[k] = Free
     THEN /\ file' = Append(file, CopyOf(k))   \* end of file read once, before the loop
          /\ bat' = [bat EXCEPT ![k] = Len(file) + 1 - Len(wupd[w])]
          /\ wupd' = [wupd EXCEPT ![w] = Append(@, k)]
     ELSE UNCHANGED <<file, bat, wupd>>
  /\ wpos' = [wpos EXCEPT ![w] = k + 1]
  /\ UNCHANGED <<diskBat, cache, lockVars, wpc, wjob, readerVars, envVars, window>>

MutAllocBlockEof(w) ==
  LET k == wpos[w] IN
  /\ wpc[w] = "alloc" /\ k <= LastBlock(wjob[w])
  /\ IF bat[k] = Free
     THEN /\ file' = Append(file, CopyOf(k))   \* end of file read after the append
          /\ bat' = [bat EXCEPT ![k] = Len(file) + 2]
          /\ wupd' = [wupd EXCEPT ![w] = Append(@, k)]
     ELSE UNCHANGED <<file, bat, wupd>>
  /\ wpos' = [wpos EXCEPT ![w] = k + 1]
  /\ UNCHANGED <<diskBat, cache, lockVars, wpc, wjob, readerVars, envVars, window>>

AllocBlock(w) ==
  LET k == wpos[w] IN
  /\ wpc[w] = "alloc" /\ k <= LastBlock(wjob[w])
  /\ IF bat[k] = Free
     THEN /\ file' = Append(file, CopyOf(k))
          /\ bat' = [bat EXCEPT ![k] = Len(file) + 1]
          /\ wupd' = [wupd EXCEPT ![w] = Append(@, k)]
     ELSE UNCHANGED <<file, bat, wupd>>
  /\ wpos' = [wpos EXCEPT ![w] = k + 1]
  /\ UNCHANGED <<diskBat, cache, lockVars, wpc, wjob, readerVars, envVars, window>>

(* An access to the file fails: the command ends with an error, and what   *)
(* its earlier steps did to the file and to the table in memory stays.     *)
WriteFails(w) ==
  /\ IoErrors
  /\ \/ wpc[w] = "alloc" /\ wpos[w] <= LastBlock(wjob[w]) /\ bat[wpos[w]] = Free
     \/ wpc[w] = "bat" /\ wpos[w] <= Len(wupd[w])
     \/ wpc[w] = "data" /\ wpos[w] <= LastBlock(wjob[w])
  /\ RetireWrite(w)
  /\ failed' = (failed \/ (wpc[w] # "data" /\ wupd[w] # << >>))
  /\ UNCHANGED <<fileVars, cache, readerVars, restarts, caching, window>>

(* The table entries are written one after the other, starting at the slot *)
(* of the first block allocated.                                           *)
BeginBat(w) ==
  /\ wpc[w] = "alloc" /\ wpos[w] > LastBlock(wjob[w])
  /\ WGoto(w, "bat")
  /\ wpos' = [wpos EXCEPT ![w] = 1]
  /\ UNCHANGED <<fileVars, cache, lockVars, wjob, wupd, readerVars, envVars, window>>

MutWriteBatEntry(w) ==
  /\ wpc[w] = "bat" /\ wpos[w] <= Len(wupd[w])   \* every entry in the first slot
  /\ diskBat' = [diskBat EXCEPT ![wupd[w][1]] = bat[wupd[w][wpos[w]]]]
  /\ wpos' = [wpos EXCEPT ![w] = @ + 1]
  /\ UNCHANGED <<file, bat, cache, lockVars, wpc, wjob, wupd, readerVars, envVars, window>>

WriteBatEntry(w) ==
  /\ wpc[w] = "bat" /\ wpos[w] <= Len(wupd[w])
  /\ diskBat' = [diskBat EXCEPT ![wupd[w][1] + wpos[w] - 1] = bat[wupd[w][wpos[w]]]]
  /\ wpos' = [wpos EXCEPT ![w] = @ + 1]
  /\ UNCHANGED <<file, bat, cache, lockVars, wpc, wjob, wupd, readerVars, envVars, window>>

EndBat(w) ==
  /\ wpc[w] = "bat" /\ wpos[w] > Len(wupd[w])
  /\ WGoto(w, "data")
  /\ wpos' = [wpos EXCEPT ![w] = FirstBlock(wjob[w])]
  /\ UNCHANGED <<fileVars, cache, lockVars, wjob, wupd, readerVars, envVars, window>>

(* The data itself, under either lock, one VHD block at a time. *)
WriteData(w) ==
  LET k == wpos[w]
      S == {u \in Span(wjob[w]) : VBlock(u) = k}
  IN
  /\ wpc[w] = "data" /\ k <= LastBlock(wjob[w])
  /\ bat[k] # Free
  /\ file' = [file EXCEPT ![bat[k]] =
                [i \in 0 .. Spb - 1 |-> IF k * Spb + i \in S THEN Piece(wjob[w], k * Spb + i) ELSE @[i]]]
  /\ Witness(S, wjob[w])
  /\ wpos' = [wpos EXCEPT ![w] = k + 1]
  /\ UNCHANGED <<bat, diskBat, cache, lockVars, wpc, wjob, wupd, readerVars, envVars>>

AckWrite(w) ==
  /\ wpc[w] = "data" /\ wpos[w] > LastBlock(wjob[w])
  /\ RetireWrite(w)
  /\ UNCHANGED <<fileVars, cache, readerVars, envVars, window>>

-----------------------------------------------------------------------------
(* READ: try_read_from_cache, then Backend::read_blocks *)

StartRead(r, e) ==
  /\ rpc[r] = "idle"
  /\ ChunkQuiet /\ caching => \A w \in Writers : wpc[w] # "idle" => ChunksOf(e) \cap ChunksOf(wjob[w]) = {}
  /\ RGoto(r, IF caching THEN "fast" ELSE "lock")
  /\ rext' = [rext EXCEPT ![r] = e]
  /\ rpos' = [rpos EXCEPT ![r] = e.first]
  /\ window' = [window EXCEPT ![r] = [u \in Units |-> IF u \in Span(e) THEN {View(u)} ELSE {}]]
  /\ UNCHANGED <<fileVars, cache, lockVars, writerVars, buf, loaded, envVars>>

(* The units of the read's extent in the chunk (or VHD block) it is at, and*)
(* the state after it has got data for them.                               *)
Here(r, of(_)) == {u \in Span(rext[r]) : of(u) = of(rpos[r])}
Take(r, S, from(_), pc) ==
  /\ buf' = [buf EXCEPT ![r] = [u \in Units |-> IF u \in S THEN from(u) ELSE buf[r][u]]]
  /\ rpos' = [rpos EXCEPT ![r] = @ + Cardinality(S)]
  /\ RGoto(r, IF rpos[r] + Cardinality(S) = rext[r].first + rext[r].n THEN "done" ELSE pc)

Cached(r) == cache[Chunk(rpos[r])] # NoBuf

HitChunk(r, pc) ==
  LET c == Chunk(rpos[r]) IN
  /\ rpc[r] = pc
  /\ Cached(r)
  /\ Take(r, Here(r, Chunk), LAMBDA u : cache[c][u], pc)
  /\ UNCHANGED <<fileVars, cache, lockVars, writerVars, rext, loaded, envVars, window>>

MissFast(r) ==
  /\ rpc[r] = "fast" /\ ~Cached(r)
  /\ RGoto(r, "chunk")
  /\ rpos' = [rpos EXCEPT ![r] = rext[r].first]
  /\ buf' = [buf EXCEPT ![r] = NoBuf]
  /\ UNCHANGED <<fileVars, cache, lockVars, writerVars, rext, loaded, envVars, window>>

(* try_get_with: at most one task loads a chunk, the others wait for it.   *)
(* The loader reads the file under the lock, gives the lock back, and the  *)
(* chunk is inserted afterwards.                                           *)
LoadChunk(r) ==
  LET c == Chunk(rpos[r]) IN
  /\ rpc[r] = "chunk" /\ ~Cached(r) /\ excl = {}
  /\ \A x \in Readers : rpc[x] = "insert" => Chunk(rpos[x]) # c
  /\ loaded' = [loaded EXCEPT ![r] = [u \in Units |-> IF Chunk(u) = c THEN View(u) ELSE NoData]]
  /\ RGoto(r, "insert")
  /\ UNCHANGED <<fileVars, cache, lockVars, writerVars, rext, rpos, buf, envVars, window>>

InsertChunk(r) ==
  LET c == Chunk(rpos[r]) IN
  /\ rpc[r] = "insert"
  /\ cache' = [cache EXCEPT ![c] = loaded[r]]
  /\ Take(r, Here(r, Chunk), LAMBDA u : loaded[r][u], "chunk")
  /\ loaded' = [loaded EXCEPT ![r] = NoBuf]
  /\ UNCHANGED <<fileVars, lockVars, writerVars, rext, envVars, window>>

(* Idle or crowded-out chunks leave the cache at any time. *)
EvictChunk(c) ==
  /\ cache[c] # NoBuf
  /\ cache' = [cache EXCEPT ![c] = NoBuf]
  /\ UNCHANGED <<fileVars, lockVars, writerVars, readerVars, envVars, window>>

(* Without a read-ahead cache the whole extent is read under one lock. *)
LockRead(r) ==
  /\ rpc[r] = "lock" /\ LockShared(r)
  /\ RGoto(r, "read")
  /\ UNCHANGED <<fileVars, cache, writerVars, rext, rpos, buf, loaded, envVars, window>>

ReadBlock(r) ==
  /\ rpc[r] = "read"
  /\ Take(r, Here(r, VBlock), View, "read")
  /\ UNCHANGED <<fileVars, cache, lockVars, writerVars, rext, loaded, envVars, window>>

FinishRead(r) ==
  /\ rpc[r] = "done"
  /\ RGoto(r, "idle") /\ Unlock(r)
  /\ rext' = [rext EXCEPT ![r] = NoExt]
  /\ rpos' = [rpos EXCEPT ![r] = 0]
  /\ buf' = [buf EXCEPT ![r] = NoBuf]
  /\ window' = [window EXCEPT ![r] = [u \in Units |-> {}]]
  /\ UNCHANGED <<fileVars, cache, writerVars, loaded, envVars>>

-----------------------------------------------------------------------------
(* The server dies and the image is opened again: VhdBackend::open loads   *)
(* the table from the file; tasks, lock and cache are gone.                *)
Restart ==
  /\ restarts < MaxRestarts
  /\ restarts' = restarts + 1
  /\ bat' = diskBat
  /\ cache' = [c \in Chunks |-> NoBuf]
  /\ shared' = {} /\ excl' = {}
  /\ wpc' = [w \in Writers |-> "idle"] /\ wjob' = [w \in Writers |-> NoJob]
  /\ wpos' = [w \in Writers |-> 0]     /\ wupd' = [w \in Writers |-> << >>]
  /\ rpc' = [r \in Readers |-> "idle"] /\ rext' = [r \in Readers |-> NoExt]
  /\ rpos' = [r \in Readers |-> 0]
  /\ buf' = [r \in Readers |-> NoBuf]  /\ loaded' = [r \in Readers |-> NoBuf]
  /\ window' = [r \in Readers |-> [u \in Units |-> {}]]
  /\ failed' = FALSE
  /\ UNCHANGED <<file, diskBat, caching>>

Write(w) ==
  \/ Invalidate(w) \/ CheckAllocation(w) \/ AcquireShared(w) \/ AcquireExcl(w)
  \/ AllocBlock(w) \/ WriteFails(w) \/ BeginBat(w) \/ WriteBatEntry(w) \/ EndBat(w)
  \/ WriteData(w) \/ AckWrite(w)
Read(r) ==
  \/ HitChunk(r, "fast") \/ MissFast(r) \/ HitChunk(r, "chunk") \/ LoadChunk(r)
  \/ InsertChunk(r) \/ LockRead(r) \/ ReadBlock(r) \/ FinishRead(r)

Next ==
  \/ \E w \in Writers : Write(w) \/ \E e \in Commands, v \in Values : StartWrite(w, e, v)
  \/ \E r \in Readers : Read(r) \/ \E e \in Commands : StartRead(r, e)
  \/ \E c \in Chunks : EvictChunk(c)
  \/ Restart

Spec == Init /\ [][Next]_vars

-----------------------------------------------------------------------------
(* Properties *)

Tables == [VBlocks -> 1 .. Len(file) \cup {Free}]

TypeOK ==
  /\ file \in Seq(Slot)
  /\ bat \in Tables /\ diskBat \in Tables
  /\ cache \in [Chunks -> [Units -> Data \cup {NoData}]]
  /\ shared \subseteq Writers \cup Readers /\ excl \subseteq Writers
  /\ wpc \in [Writers -> {"idle", "invalidate", "check", "lockS", "lockX", "alloc", "bat", "data"}]
  /\ wjob \in [Writers -> [first : Units, n : 1 .. MaxSpan * Spb, val : Values]]
  /\ \A w \in Writers : [first |-> wjob[w].first, n |-> wjob[w].n] \in Extents
  /\ wpos \in [Writers -> 0 .. NumBlocks + 1]
  /\ wupd \in [Writers -> Seq(VBlocks)]
  /\ rpc \in [Readers -> {"idle", "fast", "chunk", "insert", "lock", "read", "done"}]
  /\ rext \in [Readers -> Extents]
  /\ rpos \in [Readers -> 0 .. NumBlocks * Spb]
  /\ buf \in [Readers -> [Units -> Data \cup {NoData}]]
  /\ loaded \in [Readers -> [Units -> Data \cup {NoData}]]
  /\ restarts \in 0 .. MaxRestarts /\ caching \in ReadCaches /\ failed \in BOOLEAN
  /\ window \in [Readers -> [Units -> SUBSET Data]]

(* At every instant - between any two of a write's steps - the table in the*)
(* file describes the same disk contents as the table in memory, so a      *)
(* restart changes nothing: acknowledged data survive, and a write that was*)
(* cut short leaves each unit old or new, never another block's data.  A   *)
(* write that fails between allocating a block and saving its table entry  *)
(* voids it until the next open: the block stays in the table in memory,   *)
(* and no later write puts it in the file's.                               *)
DiskMatchesMemory == ~failed => \A u \in Units : Persisted(u) = View(u)

(* No two VHD blocks share a place in the file, in memory or on disk.      *)
Injective(table) ==
  \A k, l \in VBlocks : table[k] # Free /\ table[k] = table[l] => k = l
SlotsExclusive == Injective(bat) /\ Injective(diskBat)

(* needs_allocation is asked under one lock and acted on under another; in *)
(* between another writer may have run.  Still the data phase never meets a*)
(* block without a place ("concurrent write hit unallocated block").       *)
AllocatedBeforeData ==
  \A w \in Writers : wpc[w] = "data" =>
    \A k \in FirstBlock(wjob[w]) .. LastBlock(wjob[w]) : bat[k] # Free

(* A read answers every unit with a payload it held during the read.  With *)
(* the read-ahead cache this needs an initiator that does not read a chunk *)
(* while writing it: the chunk is dropped before the write, and a loader   *)
(* that read the file before the write may insert it after.                *)
AnswersHeld ==
  \A r \in Readers : rpc[r] = "done" =>
    \A u \in Span(rext[r]) : buf[r][u] \in window[r][u]

Device == INSTANCE BlockDevice WITH
  Values  <- Data,
  Blocks  <- Units,
  disk    <- [u \in Units |-> View(u)],
  pending <- [w \in Writers |->
                {<<u, Piece(wjob[w], u)>> : u \in {x \in Span(wjob[w]) :
                   wpc[w] # "idle" /\ (wpc[w] = "data" => VBlock(x) >= wpos[w])}}],
  busy    <- {w \in Writers : wpc[w] # "idle"},
  answer  <- [r \in Readers |-> IF rpc[r] = "done" THEN buf[r] ELSE NoBuf]

(* Without the read-ahead cache, the lock, the allocation and the copy on  *)
(* write implement a plain disk: allocating never changes what a unit      *)
(* holds, and a write is applied before it is acknowledged.                *)
ImplementsDevice == Device!Spec
=============================================================================
