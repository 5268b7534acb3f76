---------------------------- MODULE ClientCache ----------------------------
(***************************************************************************)
(* The per-client write-back cache of a diskless session                   *)
(* (writeback_gamedisk.rs) with the READ path that consults it             *)
(* (session/scsi_handler.rs).                                              *)
(*                                                                         *)
(* A write lands in the RAM cache block by block, is queued to a background*)
(* flusher thread, and is acknowledged; the flusher appends it to the .bin *)
(* file and then publishes its offsets in the block map.  A read looks in  *)
(* RAM, then in the block map (.bin), then in the shared base image.  Every*)
(* access to a concurrent map is a step of its own.                        *)
(*                                                                         *)
(* The payload of block b in a write of v is <<v, b>>: data that end up    *)
(* under another block show.  Offsets in .bin are counted in blocks.       *)
(***************************************************************************)
EXTENDS Integers, Sequences

CONSTANTS
  NumBlocks,     (* Blocks (LBAs) of the disk.                             *)
  Values,        (* What a write may carry.                                *)
  Writers,       (* Write tasks in flight (spawn_blocking threads).        *)
  Readers,       (* Read tasks in flight.                                  *)
  QueueCap,      (* Capacity of the flusher's sync_channel.                *)
  MaxOffset,     (* Bound on .bin: no write starts beyond it.              *)
  Base,          (* The shared base image: a payload per block.            *)
  LoadedMaps,    (* The block maps that .map may hold when the cache opens.*)
  LoadedBin,     (* What .bin held when the cache opened; NoData is a hole.*)
  LoadedNext,    (* The write offset that loading computed.                *)
  DiskErrors,    (* Whether writing .bin may fail.                         *)
  Overlap,       (* Whether the initiator overlaps outstanding writes.     *)
  NoData,        (* No payload.                                            *)
  NoOffset       (* No offset.                                             *)

Blocks  == 0 .. NumBlocks - 1
Offsets == 0 .. MaxOffset - 1
Data    == Values \X Blocks
Extents == {e \in [first : Blocks, n : 1 .. NumBlocks] : e.first + e.n <= NumBlocks}
Jobs    == {j \in [first : Blocks, n : 1 .. NumBlocks, off : Offsets, val : Values] :
              j.first + j.n <= NumBlocks /\ j.off + j.n <= MaxOffset}

(* What a loaded block map may say of a block. *)
LoadedOffsets == (0 .. LoadedNext - 1) \cup {NoOffset}

ASSUME CacheAssumption ==
  /\ NumBlocks \in Nat \ {0} /\ MaxOffset \in Nat /\ QueueCap \in Nat \ {0}
  /\ LoadedNext \in 0 .. MaxOffset
  /\ NoData \notin Data /\ NoOffset \notin Int
  /\ Base \in [Blocks -> Data]
  /\ LoadedBin \in [Offsets -> Data \cup {NoData}]
  /\ LoadedMaps \subseteq [Blocks -> LoadedOffsets]
  /\ DiskErrors \in BOOLEAN /\ Overlap \in BOOLEAN

VARIABLES
  ram,        (* ram_cache: the payload of every block written, or NoData. *)
  blockMap,   (* block_map: the .bin offset of a block, or NoOffset.       *)
  bin,        (* Contents of the .bin file.                                *)
  nextOff,    (* next_write_offset.                                        *)
  chan,       (* The channel to the flusher.                               *)
  fpc, fjob, fpos,        (* The flusher thread: where it is, with what.   *)
  wpc, wjob, wpos,        (* Write tasks.                                  *)
  rpc, rext, rpos,        (* Read tasks: the extent read and the cursor.   *)
  rrun, roff, buf,        (* Read tasks: run being extended; the buffer.   *)
  window      (* Auxiliary: values a block held since the read began.      *)

flusherVars == <<fpc, fjob, fpos>>
writerVars  == <<wpc, wjob, wpos>>
readerVars  == <<rpc, rext, rpos, rrun, roff, buf>>
storeVars   == <<ram, blockMap, bin, nextOff, chan>>
vars == <<storeVars, flusherVars, writerVars, readerVars, window>>

NoBuf == [b \in Blocks |-> NoData]
Idle  == [first |-> 0, n |-> 1]
NoJob == [first |-> 0, n |-> 1, off |-> 0, val |-> CHOOSE v \in Values : TRUE]

Span(x) == x.first .. x.first + x.n - 1
(* What job j carries for block b, and where it lies in .bin. *)
Piece(j, b) == <<j.val, b>>
Home(j, b)  == j.off + (b - j.first)

(* What the disk holds for a block: the answer a read that met no other    *)
(* command would give.                                                     *)
Stored(b) == IF blockMap[b] # NoOffset THEN bin[blockMap[b]] ELSE Base[b]
View(b)   == IF ram[b] # NoData THEN ram[b] ELSE Stored(b)

Init ==
  /\ ram = NoBuf
  /\ blockMap \in LoadedMaps
  /\ bin = LoadedBin
  /\ nextOff = LoadedNext
  /\ chan = << >>
  /\ fpc = "recv" /\ fjob = NoJob /\ fpos = 0
  /\ wpc = [w \in Writers |-> "idle"]
  /\ wjob = [w \in Writers |-> NoJob]
  /\ wpos = [w \in Writers |-> 0]
  /\ rpc = [r \in Readers |-> "idle"]
  /\ rext = [r \in Readers |-> Idle]
  /\ rpos = [r \in Readers |-> 0]
  /\ rrun = [r \in Readers |-> 0]
  /\ roff = [r \in Readers |-> 0]
  /\ buf = [r \in Readers |-> NoBuf]
  /\ window = [r \in Readers |-> [b \in Blocks |-> {}]]

-----------------------------------------------------------------------------
(* write_stream *)

Disjoint(x, y) == Span(x) \cap Span(y) = {}

(* A definition named Mut... is a variant of the one after it with a       *)
(* plausible bug; the specification never uses it.                         *)
MutClaimOffset(w, e, v) ==
  /\ wpc[w] = "idle"
  /\ nextOff + e.n <= MaxOffset
  /\ Overlap \/ \A x \in Writers : wpc[x] # "idle" => Disjoint(e, wjob[x])
  /\ wjob' = [wjob EXCEPT ![w] = [first |-> e.first, n |-> e.n, off |-> nextOff, val |-> v]]
  /\ nextOff' = nextOff + 1                 \* claims one block, not n
  /\ wpc' = [wpc EXCEPT ![w] = "ram"]
  /\ wpos' = [wpos EXCEPT ![w] = 0]
  /\ UNCHANGED <<ram, blockMap, bin, chan, flusherVars, readerVars, window>>

(* The offset range is claimed with one fetch_add, before anything else. *)
ClaimOffset(w, e, v) ==
  /\ wpc[w] = "idle"
  /\ nextOff + e.n <= MaxOffset
  /\ Overlap \/ \A x \in Writers : wpc[x] # "idle" => Disjoint(e, wjob[x])
  /\ wjob' = [wjob EXCEPT ![w] = [first |-> e.first, n |-> e.n, off |-> nextOff, val |-> v]]
  /\ nextOff' = nextOff + e.n
  /\ wpc' = [wpc EXCEPT ![w] = "ram"]
  /\ wpos' = [wpos EXCEPT ![w] = 0]
  /\ UNCHANGED <<ram, blockMap, bin, chan, flusherVars, readerVars, window>>

MutInsertRam(w) ==
  LET b == wjob[w].first + wpos[w] IN
  /\ wpc[w] = "ram"
  /\ ram' = IF wpos[w] = 0 THEN [ram EXCEPT ![b] = Piece(wjob[w], b)] ELSE ram   \* first block only
  /\ wpos' = [wpos EXCEPT ![w] = @ + 1]
  /\ wpc' = [wpc EXCEPT ![w] = IF wpos[w] + 1 = wjob[w].n THEN "send" ELSE "ram"]
  /\ UNCHANGED <<blockMap, bin, nextOff, chan, wjob, flusherVars, readerVars, window>>

InsertRam(w) ==
  LET b == wjob[w].first + wpos[w]
      v == Piece(wjob[w], b)
  IN
  /\ wpc[w] = "ram"
  /\ ram' = [ram EXCEPT ![b] = v]
  /\ wpos' = [wpos EXCEPT ![w] = @ + 1]
  /\ wpc' = [wpc EXCEPT ![w] = IF wpos[w] + 1 = wjob[w].n THEN "send" ELSE "ram"]
  /\ window' = [r \in Readers |-> IF rpc[r] # "idle" /\ b \in Span(rext[r])
                                  THEN [window[r] EXCEPT ![b] = @ \cup {v}]
                                  ELSE window[r]]
  /\ UNCHANGED <<blockMap, bin, nextOff, chan, wjob, flusherVars, readerVars>>

(* The send blocks while the channel is full; the write then returns Ok    *)
(* and the session acknowledges the command.                               *)
SendAndAck(w) ==
  /\ wpc[w] = "send"
  /\ Len(chan) < QueueCap
  /\ chan' = Append(chan, wjob[w])
  /\ wpc' = [wpc EXCEPT ![w] = "idle"]
  /\ UNCHANGED <<ram, blockMap, bin, nextOff, wjob, wpos, flusherVars, readerVars, window>>

-----------------------------------------------------------------------------
(* The background flusher thread *)

MutFlushRecv ==
  /\ fpc = "recv" /\ Len(chan) > 1            \* waits for a batch
  /\ fjob' = Head(chan)
  /\ chan' = Tail(chan)
  /\ fpc' = "write" /\ fpos' = 0
  /\ UNCHANGED <<ram, blockMap, bin, nextOff, writerVars, readerVars, window>>

FlushRecv ==
  /\ fpc = "recv" /\ chan # << >>
  /\ fjob' = Head(chan)
  /\ chan' = Tail(chan)
  /\ fpc' = "write" /\ fpos' = 0
  /\ UNCHANGED <<ram, blockMap, bin, nextOff, writerVars, readerVars, window>>

(* A failed write leaves a prefix of the data in the file, is logged, and  *)
(* the thread goes on as if it had succeeded.                              *)
FlushWrite ==
  /\ fpc = "write"
  /\ \E m \in IF DiskErrors THEN 0 .. fjob.n ELSE {fjob.n} :
       bin' = [o \in Offsets |-> IF o \in fjob.off .. fjob.off + m - 1
                                 THEN Piece(fjob, fjob.first + (o - fjob.off)) ELSE bin[o]]
  /\ fpc' = "map"
  /\ UNCHANGED <<ram, blockMap, nextOff, chan, fjob, fpos,
                 writerVars, readerVars, window>>

MutFlushMap ==
  /\ fpc = "map"
  /\ blockMap' = [blockMap EXCEPT ![fjob.first + fpos] = fjob.off]   \* + fpos forgotten
  /\ fpos' = fpos + 1
  /\ fpc' = IF fpos + 1 = fjob.n THEN "recv" ELSE "map"
  /\ UNCHANGED <<ram, bin, nextOff, chan, fjob, writerVars, readerVars, window>>

MutFlushMapLast ==
  /\ fpc = "map"
  /\ blockMap' = [blockMap EXCEPT ![fjob.first + fpos] = fjob.off + fpos]
  /\ fpos' = fpos + 1
  /\ fpc' = IF fpos + 1 >= fjob.n - 1 THEN "recv" ELSE "map"         \* last block left out
  /\ UNCHANGED <<ram, bin, nextOff, chan, fjob, writerVars, readerVars, window>>

FlushMap ==
  /\ fpc = "map"
  /\ blockMap' = [blockMap EXCEPT ![fjob.first + fpos] = fjob.off + fpos]
  /\ fpos' = fpos + 1
  /\ fpc' = IF fpos + 1 = fjob.n THEN "recv" ELSE "map"
  /\ UNCHANGED <<ram, bin, nextOff, chan, fjob, writerVars, readerVars, window>>

-----------------------------------------------------------------------------
(* READ: the fast path of handle_scsi_cmd, then read_blocks_cached *)

Goto(r, pc) == rpc' = [rpc EXCEPT ![r] = pc]
Cursor(r)   == rext[r].first + rpos[r]
AtEnd(r)    == rpos[r] = rext[r].n
Advance(r)  == rpos' = [rpos EXCEPT ![r] = @ + 1]
LastStep(r, pc, next) == IF rpos[r] + 1 = rext[r].n THEN next ELSE pc

StartRead(r, e) ==
  /\ rpc[r] = "idle"
  /\ Goto(r, "fast")
  /\ rext' = [rext EXCEPT ![r] = e]
  /\ rpos' = [rpos EXCEPT ![r] = 0]
  /\ buf' = [buf EXCEPT ![r] = NoBuf]
  /\ window' = [window EXCEPT ![r] = [b \in Blocks |-> IF b \in Span(e) THEN {View(b)} ELSE {}]]
  /\ UNCHANGED <<storeVars, flusherVars, writerVars, rrun, roff>>

(* A block of the fast path or of the walk that is found in RAM. *)
CopyRam(r, pc) ==
  /\ rpc[r] = pc
  /\ ram[Cursor(r)] # NoData
  /\ buf' = [buf EXCEPT ![r][Cursor(r)] = ram[Cursor(r)]]
  /\ Advance(r)
  /\ Goto(r, LastStep(r, pc, "done"))
  /\ UNCHANGED <<storeVars, flusherVars, writerVars, rext, rrun, roff, window>>

(* try_read_ram_cache gives up at the first block that is not in RAM. *)
FastMiss(r) ==
  /\ rpc[r] = "fast"
  /\ ram[Cursor(r)] = NoData
  /\ Goto(r, "probe")
  /\ rpos' = [rpos EXCEPT ![r] = 0]
  /\ UNCHANGED <<storeVars, flusherVars, writerVars, rext, rrun, roff, buf, window>>

(* The slow path starts over with a zeroed buffer of its own. *)
GoSlow(r) ==
  /\ Goto(r, "walk")
  /\ rpos' = [rpos EXCEPT ![r] = 0]
  /\ buf' = [buf EXCEPT ![r] = NoBuf]

(* contains_lba, block by block, until one is cached. *)
MutProbe(r) ==
  LET cached == ram[Cursor(r)] # NoData IN   \* the block map is not asked
  /\ rpc[r] = "probe"
  /\ \/ cached /\ GoSlow(r)
     \/ ~cached /\ Advance(r) /\ Goto(r, LastStep(r, "probe", "ahead")) /\ UNCHANGED buf
  /\ UNCHANGED <<storeVars, flusherVars, writerVars, rext, rrun, roff, window>>

Probe(r) ==
  LET cached == ram[Cursor(r)] # NoData \/ blockMap[Cursor(r)] # NoOffset IN
  /\ rpc[r] = "probe"
  /\ \/ cached /\ GoSlow(r)
     \/ ~cached /\ Advance(r) /\ Goto(r, LastStep(r, "probe", "ahead")) /\ UNCHANGED buf
  /\ UNCHANGED <<storeVars, flusherVars, writerVars, rext, rrun, roff, window>>

(* With nothing cached the base image's read-ahead cache may have it all. *)
ReadAhead(r) ==
  /\ rpc[r] = "ahead"
  /\ \/ /\ buf' = [buf EXCEPT ![r] = [b \in Blocks |-> IF b \in Span(rext[r]) THEN Base[b] ELSE NoData]]
        /\ Goto(r, "done")
        /\ UNCHANGED rpos
     \/ GoSlow(r)
  /\ UNCHANGED <<storeVars, flusherVars, writerVars, rext, rrun, roff, window>>

WalkMiss(r) ==
  /\ rpc[r] = "walk"
  /\ ram[Cursor(r)] = NoData
  /\ Goto(r, "lookup")
  /\ UNCHANGED <<storeVars, flusherVars, writerVars, rext, rpos, rrun, roff, buf, window>>

(* The block map is consulted some time after RAM was. *)
Lookup(r) ==
  LET o == blockMap[Cursor(r)] IN
  /\ rpc[r] = "lookup"
  /\ rrun' = [rrun EXCEPT ![r] = rpos[r]]
  /\ Advance(r)
  /\ \/ o # NoOffset /\ Goto(r, "bin") /\ roff' = [roff EXCEPT ![r] = o]
     \/ o = NoOffset /\ Goto(r, "base") /\ UNCHANGED roff
  /\ UNCHANGED <<storeVars, flusherVars, writerVars, rext, buf, window>>

(* Whether the next block joins the run: the same tier, not in RAM, and in *)
(* .bin right after the previous one.  The two lookups of a block are one  *)
(* step here; Walk and Lookup show them apart.                             *)
MutJoins(r) ==
  /\ ~AtEnd(r)                               \* RAM is not asked
  /\ \/ rpc[r] = "bin" /\ blockMap[Cursor(r)] = roff[r] + (rpos[r] - rrun[r])
     \/ rpc[r] = "base" /\ blockMap[Cursor(r)] = NoOffset

Joins(r) ==
  /\ ~AtEnd(r)
  /\ ram[Cursor(r)] = NoData
  /\ \/ rpc[r] = "bin" /\ blockMap[Cursor(r)] = roff[r] + (rpos[r] - rrun[r])
     \/ rpc[r] = "base" /\ blockMap[Cursor(r)] = NoOffset

ExtendRun(r) ==
  /\ rpc[r] \in {"bin", "base"}
  /\ Joins(r)
  /\ Advance(r)
  /\ UNCHANGED <<storeVars, flusherVars, writerVars, rpc, rext, rrun, roff, buf, window>>

(* The blocks of the run, read in one go from .bin or from the base. *)
Run(r) == rext[r].first + rrun[r] .. rext[r].first + rpos[r] - 1
ReadRun(r) ==
  LET from(b) == IF rpc[r] = "bin" THEN bin[roff[r] + (b - rext[r].first - rrun[r])] ELSE Base[b] IN
  /\ rpc[r] \in {"bin", "base"}
  /\ ~Joins(r)
  /\ buf' = [buf EXCEPT ![r] = [b \in Blocks |-> IF b \in Run(r) THEN from(b) ELSE buf[r][b]]]
  /\ Goto(r, IF AtEnd(r) THEN "done" ELSE "walk")
  /\ UNCHANGED <<storeVars, flusherVars, writerVars, rext, rpos, rrun, roff, window>>

Forget(r) ==
  /\ Goto(r, "idle")
  /\ buf' = [buf EXCEPT ![r] = NoBuf]
  /\ window' = [window EXCEPT ![r] = [b \in Blocks |-> {}]]
  /\ UNCHANGED <<storeVars, flusherVars, writerVars, rext, rpos, rrun, roff>>

(* A failed file read ends the command with CHECK CONDITION, no data. *)
ReadError(r) == rpc[r] \in {"bin", "base"} /\ ~Joins(r) /\ Forget(r)

(* The buffer leaves as Data-In. *)
FinishRead(r) == rpc[r] = "done" /\ Forget(r)

-----------------------------------------------------------------------------
Write(w) == InsertRam(w) \/ SendAndAck(w)
Flush    == FlushRecv \/ FlushWrite \/ FlushMap
Read(r)  ==
  \/ CopyRam(r, "fast") \/ FastMiss(r) \/ Probe(r) \/ ReadAhead(r)
  \/ CopyRam(r, "walk") \/ WalkMiss(r) \/ Lookup(r) \/ ExtendRun(r)
  \/ ReadRun(r) \/ ReadError(r) \/ FinishRead(r)

Next ==
  \/ \E w \in Writers : Write(w) \/ \E e \in Extents, v \in Values : ClaimOffset(w, e, v)
  \/ Flush
  \/ \E r \in Readers : Read(r) \/ \E e \in Extents : StartRead(r, e)

Spec == Init /\ [][Next]_vars

(* A started write task and the flusher are threads the scheduler runs. *)
FairSpec == Spec /\ WF_vars(Flush) /\ \A w \in Writers : WF_vars(Write(w))

-----------------------------------------------------------------------------
(* Properties *)

StoreTypes ==
  /\ ram \in [Blocks -> Data \cup {NoData}]
  /\ blockMap \in [Blocks -> Offsets \cup {NoOffset}]
  /\ bin \in [Offsets -> Data \cup {NoData}]
  /\ nextOff \in LoadedNext .. MaxOffset
  /\ chan \in Seq(Jobs) /\ Len(chan) <= QueueCap

FlusherTypes ==
  /\ fpc \in {"recv", "write", "map"}
  /\ fjob \in Jobs \cup {NoJob} /\ fpos \in 0 .. NumBlocks
  /\ fpc # "recv" => fjob \in Jobs
  /\ (fpc = "write" => fpos = 0) /\ (fpc = "map" => fpos < fjob.n)

WriterTypes ==
  /\ wpc \in [Writers -> {"idle", "ram", "send"}]
  /\ wjob \in [Writers -> Jobs \cup {NoJob}]
  /\ wpos \in [Writers -> 0 .. NumBlocks]
  /\ \A w \in Writers : wpc[w] # "idle" => wjob[w] \in Jobs
  /\ \A w \in Writers : wpc[w] = "ram" => wpos[w] < wjob[w].n
  /\ \A w \in Writers : wpc[w] = "send" => wpos[w] = wjob[w].n

(* The cursors of a read stay inside its extent, and a run read from .bin  *)
(* ends inside the file.                                                   *)
ReaderTypes ==
  /\ rpc \in [Readers -> {"idle", "fast", "probe", "ahead", "walk", "lookup", "bin", "base", "done"}]
  /\ rext \in [Readers -> Extents]
  /\ rpos \in [Readers -> 0 .. NumBlocks] /\ rrun \in [Readers -> 0 .. NumBlocks]
  /\ roff \in [Readers -> Nat]
  /\ buf \in [Readers -> [Blocks -> Data \cup {NoData}]]
  /\ \A r \in Readers :
       /\ rpc[r] \in {"fast", "probe", "walk", "lookup"} => rpos[r] < rext[r].n
       /\ rpc[r] \in {"bin", "base"} => rrun[r] < rpos[r] /\ rpos[r] <= rext[r].n
       /\ rpc[r] = "bin" => roff[r] + (rpos[r] - rrun[r]) <= MaxOffset

TypeOK ==
  /\ StoreTypes /\ FlusherTypes /\ WriterTypes /\ ReaderTypes
  /\ window \in [Readers -> [Blocks -> SUBSET (Data \cup {NoData})]]

(* A read answers, for every block it covers, with a payload the block     *)
(* held while the read was outstanding: never a payload overwritten before *)
(* the read began, never what another block or an earlier write left in    *)
(* .bin.  read_blocks_cached looks in RAM, the block map and the file at   *)
(* different moments, racing write_stream and the flusher.                 *)
AnswersHeld ==
  \A r \in Readers : rpc[r] = "done" =>
    \A b \in Span(rext[r]) : buf[r][b] \in window[r][b]

(* Until a block has been written to RAM in this session, its block map    *)
(* entry is a loaded one: the flusher never exposes a block to a read      *)
(* before the write that owns it is visible in RAM.                        *)
RamMasksFlusher ==
  \A b \in Blocks : ram[b] = NoData => blockMap[b] \in LoadedOffsets

(* Jobs claimed by a write task, queued, and in the flusher's hands. *)
Claimed == {wjob[w] : w \in {x \in Writers : wpc[x] # "idle"}}
Queued  == {chan[i] : i \in DOMAIN chan}
Flushing == IF fpc = "recv" THEN {} ELSE {fjob}

(* No two writes share a byte of .bin, and a write not yet in the file is  *)
(* never given a range the block map already points into: fetch_add alone  *)
(* keeps concurrent appends apart.                                         *)
OffsetsExclusive ==
  \A j \in Claimed \cup Queued \cup (IF fpc = "write" THEN {fjob} ELSE {}) :
    /\ \A b \in Blocks : blockMap[b] \notin j.off .. j.off + j.n - 1
    /\ \A k \in Claimed \cup Queued \cup Flushing :
         k # j => (j.off .. j.off + j.n - 1) \cap (k.off .. k.off + k.n - 1) = {}

(* Once every write has been flushed, .bin and the block map hold what RAM *)
(* holds, but for the holes that failed writes left: a saved .map never    *)
(* sends a block to another block's data or to an earlier write's.  It     *)
(* needs an initiator that does not overlap its outstanding writes.        *)
TiersAgree ==
  (Claimed \cup Queued \cup Flushing = {}) =>
    \A b \in Blocks : ram[b] # NoData =>
      blockMap[b] # NoOffset /\ bin[blockMap[b]] \in {ram[b], NoData}

(* A write task that has claimed its range always gets to acknowledge: a   *)
(* full channel only ever delays it.                                       *)
WritesComplete == \A w \in Writers : wpc[w] # "idle" ~> wpc[w] = "idle"

(* Every block written reaches the block map: no write is left in RAM only.*)
WritesReachDisk ==
  \A b \in Blocks : ram[b] # NoData ~> blockMap[b] \in LoadedNext .. MaxOffset - 1

(* The cache over its base is a plain disk. *)
Device == INSTANCE BlockDevice WITH
  Values  <- Data,
  disk    <- [b \in Blocks |-> View(b)],
  pending <- [w \in Writers |-> IF wpc[w] # "ram" THEN {}
                                ELSE {<<b, Piece(wjob[w], b)>> : b \in wjob[w].first + wpos[w] .. wjob[w].first + wjob[w].n - 1}],
  busy    <- {w \in Writers : wpc[w] # "idle"},
  answer  <- [r \in Readers |-> IF rpc[r] = "done" THEN buf[r] ELSE NoBuf]

(* The write-back cache, its flusher and its read path implement a disk    *)
(* whose writes take effect before their acknowledgement and whose reads   *)
(* answer with what the blocks held meanwhile.                             *)
ImplementsDevice == Device!Spec
=============================================================================
