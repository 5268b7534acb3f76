-------------------------- MODULE ClientCacheProofs --------------------------
(***************************************************************************)
(* Theorems of ClientCache for every disk, cache file, number of tasks and *)
(* queue length: its types and its tiers, then what a read may answer, then*)
(* that every step of the cache, its flusher and its reads is a step of a  *)
(* plain disk (BlockDevice) or none at all, and at last that the file holds*)
(* what RAM holds once all is flushed.                                     *)
(***************************************************************************)
EXTENDS ClientCache, TLAPS

-----------------------------------------------------------------------------
(* Data *)

LEMMA IdleJob == NoJob.val \in Values /\ NoJob.n = 1
  <1>1. 0 \in Blocks /\ Base[0] \in Values \X Blocks
    BY CacheAssumption DEF Blocks, Data
  <1>2. \E v \in Values : TRUE
    BY <1>1
  <1> QED BY <1>2 DEF NoJob

(* Where a job's blocks lie, on the disk and in the file. *)
LEMMA JobFits ==
  ASSUME NEW j \in Jobs
  PROVE  /\ j.first \in Nat /\ j.n \in Nat \ {0} /\ j.n <= NumBlocks
         /\ j.off \in Nat /\ j.val \in Values
         /\ j.first + j.n <= NumBlocks /\ j.off + j.n <= MaxOffset
  BY CacheAssumption DEF Jobs, Blocks, Offsets

LEMMA PieceIsData ==
  ASSUME NEW j \in Jobs, NEW b \in Blocks
  PROVE  Piece(j, b) \in Data /\ Piece(j, b) # NoData
  BY JobFits, CacheAssumption DEF Piece, Data

LEMMA ExtentFits ==
  ASSUME NEW e \in Extents
  PROVE  e.first \in Nat /\ e.n \in Nat \ {0} /\ e.n <= NumBlocks /\ e.first + e.n <= NumBlocks
  BY CacheAssumption DEF Extents, Blocks

LEMMA ViewIsValue ==
  ASSUME StoreTypes, NEW b \in Blocks
  PROVE  View(b) \in Data \cup {NoData}
  BY CacheAssumption DEF StoreTypes, View, Stored

-----------------------------------------------------------------------------
(* Every variable keeps its type. *)

LEMMA InitTypes == Init => TypeOK
  <1> SUFFICES ASSUME Init PROVE TypeOK
    OBVIOUS
  <1>1. StoreTypes
    BY CacheAssumption DEF Init, StoreTypes, NoBuf, Blocks, Offsets, LoadedOffsets
  <1>2. FlusherTypes /\ WriterTypes
    BY CacheAssumption, IdleJob DEF Init, FlusherTypes, WriterTypes
  <1>3. ReaderTypes
    BY CacheAssumption DEF Init, ReaderTypes, NoBuf, Idle, Blocks, Extents
  <1>4. window \in [Readers -> [Blocks -> SUBSET (Data \cup {NoData})]]
    BY DEF Init
  <1> QED BY <1>1, <1>2, <1>3, <1>4 DEF TypeOK

LEMMA ClaimTypes ==
  ASSUME TypeOK, NEW w \in Writers, NEW e \in Extents, NEW v \in Values, ClaimOffset(w, e, v)
  PROVE  TypeOK'
  <1> DEFINE j == [first |-> e.first, n |-> e.n, off |-> nextOff, val |-> v]
  <1>1. j \in Jobs /\ nextOff' \in LoadedNext .. MaxOffset
    BY CacheAssumption, ExtentFits DEF TypeOK, StoreTypes, ClaimOffset, Jobs, Extents, Blocks, Offsets
  <1>2. wjob' = [wjob EXCEPT ![w] = j]
    BY DEF ClaimOffset
  <1> HIDE DEF j
  <1>3. StoreTypes'
    BY <1>1 DEF TypeOK, StoreTypes, ClaimOffset
  <1>4. WriterTypes'
    BY <1>1, <1>2, JobFits, CacheAssumption DEF TypeOK, WriterTypes, ClaimOffset
  <1>5. UNCHANGED <<flusherVars, readerVars, window>>
    BY DEF ClaimOffset
  <1> QED BY <1>3, <1>4, <1>5 DEF TypeOK, FlusherTypes, ReaderTypes, flusherVars, readerVars

(* The block a write task puts in RAM. *)
LEMMA InsertPut ==
  ASSUME TypeOK, NEW w \in Writers, InsertRam(w)
  PROVE  LET c == wjob[w].first + wpos[w] IN
         /\ c \in Blocks
         /\ Piece(wjob[w], c) \in Data /\ Piece(wjob[w], c) # NoData
         /\ ram' = [ram EXCEPT ![c] = Piece(wjob[w], c)]
  <1> DEFINE c == wjob[w].first + wpos[w]
  <1>1. wjob[w] \in Jobs /\ wpos[w] < wjob[w].n /\ wpos[w] \in Nat
    BY DEF TypeOK, WriterTypes, InsertRam
  <1>2. c \in Blocks
    BY <1>1, JobFits, CacheAssumption DEF Blocks
  <1> QED BY <1>1, <1>2, PieceIsData DEF InsertRam

LEMMA InsertTypes ==
  ASSUME TypeOK, NEW w \in Writers, InsertRam(w)
  PROVE  TypeOK'
  <1>1. wjob[w] \in Jobs /\ wpos[w] < wjob[w].n /\ wpos[w] \in Nat
    BY DEF TypeOK, WriterTypes, InsertRam
  <1> DEFINE n == wjob[w].n
  <1>a. n \in Nat /\ n <= NumBlocks /\ NumBlocks \in Nat
    BY <1>1, JobFits, CacheAssumption
  <1>b. wpos[w] + 1 \in 0 .. NumBlocks /\ (wpos[w] + 1 # n => wpos[w] + 1 < n)
    BY <1>1, <1>a
  <1>2. StoreTypes'
    BY InsertPut DEF TypeOK, StoreTypes, InsertRam
  <1>3. WriterTypes'
    BY <1>b DEF TypeOK, WriterTypes, InsertRam
  <1>4. window' \in [Readers -> [Blocks -> SUBSET (Data \cup {NoData})]]
    BY InsertPut DEF TypeOK, InsertRam
  <1>5. UNCHANGED <<flusherVars, readerVars>>
    BY DEF InsertRam
  <1> QED BY <1>2, <1>3, <1>4, <1>5 DEF TypeOK, FlusherTypes, ReaderTypes, flusherVars, readerVars

LEMMA SendTypes ==
  ASSUME TypeOK, NEW w \in Writers, SendAndAck(w)
  PROVE  TypeOK'
  <1>1. wjob[w] \in Jobs
    BY DEF TypeOK, WriterTypes, SendAndAck
  <1>2. StoreTypes'
    BY <1>1, JobFits, CacheAssumption DEF TypeOK, StoreTypes, SendAndAck
  <1>3. WriterTypes'
    BY DEF TypeOK, WriterTypes, SendAndAck
  <1>4. UNCHANGED <<flusherVars, readerVars, window>>
    BY DEF SendAndAck
  <1> QED BY <1>2, <1>3, <1>4 DEF TypeOK, FlusherTypes, ReaderTypes, flusherVars, readerVars

LEMMA FlushTypes ==
  ASSUME TypeOK, Flush
  PROVE  TypeOK'
  <1>1. UNCHANGED <<writerVars, readerVars, window>>
    BY DEF Flush, FlushRecv, FlushWrite, FlushMap
  <1>2. StoreTypes' /\ FlusherTypes'
    <2>1. CASE FlushRecv
      <3>1. Head(chan) \in Jobs /\ Tail(chan) \in Seq(Jobs) /\ Len(Tail(chan)) <= QueueCap
        BY <2>1, CacheAssumption DEF TypeOK, StoreTypes, FlushRecv
      <3> QED BY <2>1, <3>1, CacheAssumption DEF TypeOK, StoreTypes, FlusherTypes, FlushRecv
    <2>2. CASE FlushWrite
      <3>1. fjob \in Jobs /\ fjob.n > 0
        BY <2>2, JobFits DEF TypeOK, FlusherTypes, FlushWrite
      <3>2. PICK m \in 0 .. fjob.n : bin' = [o \in Offsets |-> IF o \in fjob.off .. fjob.off + m - 1
                                               THEN Piece(fjob, fjob.first + (o - fjob.off)) ELSE bin[o]]
        BY <2>2, <3>1, JobFits DEF FlushWrite
      <3>3. bin' \in [Offsets -> Data \cup {NoData}]
        <4>1. fjob.off \in Nat /\ fjob.n \in Nat /\ m \in Nat /\ m <= fjob.n
              /\ fjob.first \in Nat /\ fjob.first + fjob.n <= NumBlocks
          BY <3>1, <3>2, JobFits
        <4>2. ASSUME NEW o \in Offsets, o \in fjob.off .. fjob.off + m - 1
              PROVE  Piece(fjob, fjob.first + (o - fjob.off)) \in Data
          <5>1. fjob.first + (o - fjob.off) \in Blocks
            BY <4>1, <4>2, CacheAssumption DEF Blocks
          <5> QED BY <3>1, <5>1, PieceIsData
        <4> QED BY <3>2, <4>2 DEF TypeOK, StoreTypes
      <3>4. StoreTypes'
        BY <2>2, <3>3 DEF TypeOK, StoreTypes, FlushWrite
      <3>5. FlusherTypes'
        BY <2>2, <3>1 DEF TypeOK, FlusherTypes, FlushWrite
      <3> QED BY <3>4, <3>5
    <2>3. CASE FlushMap
      <3>1. fjob \in Jobs /\ fjob.off + fpos \in Offsets /\ fpos + 1 \in 0 .. NumBlocks
        <4>1. fjob \in Jobs /\ fpos \in Nat /\ fpos < fjob.n
          BY <2>3 DEF TypeOK, FlusherTypes, FlushMap
        <4>2. fjob.off \in Nat /\ fjob.n \in Nat /\ fjob.off + fjob.n <= MaxOffset /\ fjob.n <= NumBlocks
          BY <4>1, JobFits
        <4> QED BY <4>1, <4>2, CacheAssumption DEF Offsets
      <3>2. StoreTypes'
        BY <2>3, <3>1 DEF TypeOK, StoreTypes, FlushMap
      <3>3. fpos + 1 # fjob.n => fpos + 1 < fjob.n
        BY <2>3, <3>1, JobFits DEF TypeOK, FlusherTypes, FlushMap
      <3>4. FlusherTypes'
        BY <2>3, <3>1, <3>3 DEF TypeOK, FlusherTypes, FlushMap
      <3> QED BY <3>2, <3>4
    <2> QED BY <2>1, <2>2, <2>3 DEF Flush
  <1> QED BY <1>1, <1>2 DEF TypeOK, WriterTypes, ReaderTypes, writerVars, readerVars

LEMMA StartReadTypes ==
  ASSUME TypeOK, NEW r \in Readers, NEW e \in Extents, StartRead(r, e)
  PROVE  TypeOK'
  <1>1. StoreTypes' /\ FlusherTypes' /\ WriterTypes'
    BY DEF TypeOK, StoreTypes, FlusherTypes, WriterTypes, StartRead, storeVars, flusherVars, writerVars
  <1>2. ReaderTypes'
    BY ExtentFits, CacheAssumption DEF TypeOK, ReaderTypes, StartRead, Goto, NoBuf
  <1>3. window' \in [Readers -> [Blocks -> SUBSET (Data \cup {NoData})]]
    BY ViewIsValue DEF TypeOK, StartRead
  <1> QED BY <1>1, <1>2, <1>3 DEF TypeOK

(* A step of one read sets its own locals, to values that fit. *)
ReaderPCs == {"idle", "fast", "probe", "ahead", "walk", "lookup", "bin", "base", "done"}
Buffers == [Blocks -> Data \cup {NoData}]

ReaderSets(r, pc, p, q, o, x) ==
  /\ rpc' = [rpc EXCEPT ![r] = pc]  /\ rpos' = [rpos EXCEPT ![r] = p]
  /\ rrun' = [rrun EXCEPT ![r] = q] /\ roff' = [roff EXCEPT ![r] = o]
  /\ buf' = [buf EXCEPT ![r] = x]   /\ rext' = rext

ReaderFits(r, pc, p, q, o, x) ==
  /\ pc \in ReaderPCs
  /\ p \in 0 .. NumBlocks /\ q \in 0 .. NumBlocks /\ o \in Nat /\ x \in Buffers
  /\ pc \in {"fast", "probe", "walk", "lookup"} => p < rext[r].n
  /\ pc \in {"bin", "base"} => q < p /\ p <= rext[r].n
  /\ pc = "bin" => o + (p - q) <= MaxOffset

LEMMA ReaderStep ==
  ASSUME ReaderTypes, NEW r \in Readers, NEW pc, NEW p, NEW q, NEW o, NEW x,
         ReaderSets(r, pc, p, q, o, x), ReaderFits(r, pc, p, q, o, x)
  PROVE  ReaderTypes'
  <1>1. /\ rpc' \in [Readers -> ReaderPCs] /\ rext' \in [Readers -> Extents]
        /\ rpos' \in [Readers -> 0 .. NumBlocks] /\ rrun' \in [Readers -> 0 .. NumBlocks]
        /\ roff' \in [Readers -> Nat] /\ buf' \in [Readers -> Buffers]
    BY DEF ReaderTypes, ReaderSets, ReaderFits, ReaderPCs, Buffers
  <1>2. ASSUME NEW y \in Readers
        PROVE  /\ rpc'[y] \in {"fast", "probe", "walk", "lookup"} => rpos'[y] < rext'[y].n
               /\ rpc'[y] \in {"bin", "base"} => rrun'[y] < rpos'[y] /\ rpos'[y] <= rext'[y].n
               /\ rpc'[y] = "bin" => roff'[y] + (rpos'[y] - rrun'[y]) <= MaxOffset
    <2>1. CASE y = r
      BY <2>1 DEF ReaderTypes, ReaderSets, ReaderFits
    <2>2. CASE y # r
      BY <2>2 DEF ReaderTypes, ReaderSets
    <2> QED BY <2>1, <2>2
  <1> QED BY <1>1, <1>2 DEF ReaderTypes, ReaderPCs, Buffers

LEMMA ReadTypes ==
  ASSUME TypeOK, NEW r \in Readers, Read(r)
  PROVE  TypeOK'
  <1> DEFINE first == rext[r].first
             n == rext[r].n
             p == rpos[r]
             q == rrun[r]
             o == roff[r]
             c == Cursor(r)
  <1>1. UNCHANGED <<storeVars, flusherVars, writerVars, rext>>
    BY DEF Read, CopyRam, FastMiss, Probe, ReadAhead, WalkMiss, Lookup, ExtendRun, ReadRun,
           ReadError, FinishRead, Forget
  <1>2. /\ first \in Nat /\ n \in Nat \ {0} /\ n <= NumBlocks
        /\ first + n <= NumBlocks /\ p \in 0 .. NumBlocks /\ NumBlocks \in Nat
    BY ExtentFits, CacheAssumption DEF TypeOK, ReaderTypes
  <1>3. p < n => c \in Blocks
    BY <1>2 DEF Cursor, Blocks
  <1>4. p < n => p + 1 \in 0 .. NumBlocks /\ (p + 1 # n => p + 1 < n)
    BY <1>2
  <1>5. NoBuf \in Buffers /\ buf[r] \in Buffers /\ q \in 0 .. NumBlocks /\ o \in Nat
    BY DEF NoBuf, Buffers, TypeOK, ReaderTypes
  <1>6. /\ rpos = [rpos EXCEPT ![r] = p] /\ rrun = [rrun EXCEPT ![r] = q]
        /\ roff = [roff EXCEPT ![r] = o] /\ buf = [buf EXCEPT ![r] = buf[r]]
        /\ rpc = [rpc EXCEPT ![r] = rpc[r]]
    BY DEF TypeOK, ReaderTypes
  <1>7. /\ rpc[r] \in {"fast", "probe", "walk", "lookup"} => p < n
        /\ rpc[r] \in {"bin", "base"} => q < p /\ p <= n
        /\ rpc[r] = "bin" => o + (p - q) <= MaxOffset
    BY DEF TypeOK, ReaderTypes
  <1>8. ReaderTypes'
    <2> SUFFICES \E pc, np, nq, no, x :
                   ReaderSets(r, pc, np, nq, no, x) /\ ReaderFits(r, pc, np, nq, no, x)
      BY ReaderStep DEF TypeOK
    <2>1. ASSUME NEW pc \in {"fast", "walk"}, CopyRam(r, pc)
          PROVE  \E npc, x : ReaderSets(r, npc, p + 1, q, o, x) /\ ReaderFits(r, npc, p + 1, q, o, x)
      <3> DEFINE x == [buf[r] EXCEPT ![c] = ram[c]]
                 next == IF p + 1 = n THEN "done" ELSE pc
      <3>1. p < n /\ x \in Buffers
        BY <2>1, <1>3, <1>5, <1>7 DEF TypeOK, StoreTypes, CopyRam, Buffers
      <3>2. ReaderSets(r, next, p + 1, q, o, x)
        BY <2>1, <1>6 DEF CopyRam, Goto, Advance, LastStep, ReaderSets
      <3>3. next \in {"fast", "walk", "done"} /\ (next # "done" => p + 1 < n)
        BY <3>1, <1>4
      <3>4. ReaderFits(r, next, p + 1, q, o, x)
        BY <3>1, <3>3, <1>4, <1>5 DEF ReaderFits, ReaderPCs
      <3> QED BY <3>2, <3>4
    <2>2. CASE FastMiss(r)
      <3>1. ReaderSets(r, "probe", 0, q, o, buf[r])
        BY <2>2, <1>6 DEF FastMiss, Goto, ReaderSets
      <3>2. ReaderFits(r, "probe", 0, q, o, buf[r])
        BY <1>2, <1>5 DEF ReaderFits, ReaderPCs
      <3> QED BY <3>1, <3>2
    <2>3. CASE Probe(r)
      <3>1. CASE GoSlow(r)
        <4>1. ReaderSets(r, "walk", 0, q, o, NoBuf)
          BY <2>3, <3>1, <1>6 DEF Probe, GoSlow, Goto, ReaderSets
        <4>2. ReaderFits(r, "walk", 0, q, o, NoBuf)
          BY <1>2, <1>5 DEF ReaderFits, ReaderPCs
        <4> QED BY <4>1, <4>2
      <3>2. CASE Advance(r) /\ Goto(r, LastStep(r, "probe", "ahead")) /\ UNCHANGED buf
        <4> DEFINE next == IF p + 1 = n THEN "ahead" ELSE "probe"
        <4>1. ReaderSets(r, next, p + 1, q, o, buf[r])
          BY <2>3, <3>2, <1>6 DEF Probe, Advance, Goto, LastStep, ReaderSets
        <4>2. p < n /\ (next = "probe" => p + 1 < n)
          BY <2>3, <1>4, <1>7 DEF Probe
        <4>3. ReaderFits(r, next, p + 1, q, o, buf[r])
          BY <4>2, <1>4, <1>5 DEF ReaderFits, ReaderPCs
        <4> QED BY <4>1, <4>3
      <3> QED BY <2>3, <3>1, <3>2 DEF Probe
    <2>4. CASE ReadAhead(r)
      <3>1. CASE GoSlow(r)
        <4>1. ReaderSets(r, "walk", 0, q, o, NoBuf)
          BY <2>4, <3>1, <1>6 DEF ReadAhead, GoSlow, Goto, ReaderSets
        <4>2. ReaderFits(r, "walk", 0, q, o, NoBuf)
          BY <1>2, <1>5 DEF ReaderFits, ReaderPCs
        <4> QED BY <4>1, <4>2
      <3>2. CASE ~GoSlow(r)
        <4> DEFINE x == [b \in Blocks |-> IF b \in Span(rext[r]) THEN Base[b] ELSE NoData]
        <4>1. x \in Buffers
          BY CacheAssumption DEF Buffers
        <4>2. ReaderSets(r, "done", p, q, o, x)
          BY <2>4, <3>2, <1>6 DEF ReadAhead, Goto, ReaderSets
        <4>3. ReaderFits(r, "done", p, q, o, x)
          BY <4>1, <1>2, <1>5 DEF ReaderFits, ReaderPCs
        <4> QED BY <4>2, <4>3
      <3> QED BY <3>1, <3>2
    <2>5. CASE WalkMiss(r)
      <3>1. ReaderSets(r, "lookup", p, q, o, buf[r])
        BY <2>5, <1>6 DEF WalkMiss, Goto, ReaderSets
      <3>2. ReaderFits(r, "lookup", p, q, o, buf[r])
        BY <2>5, <1>2, <1>5, <1>7 DEF WalkMiss, ReaderFits, ReaderPCs
      <3> QED BY <3>1, <3>2
    <2>6. CASE Lookup(r)
      <3>1. p < n /\ blockMap[c] \in Offsets \cup {NoOffset}
        BY <2>6, <1>3, <1>7 DEF TypeOK, StoreTypes, Lookup
      <3>2. CASE blockMap[c] = NoOffset
        <4>1. ReaderSets(r, "base", p + 1, p, o, buf[r])
          BY <2>6, <3>2, <1>6 DEF Lookup, Goto, Advance, ReaderSets
        <4>2. ReaderFits(r, "base", p + 1, p, o, buf[r])
          BY <3>1, <1>2, <1>4, <1>5 DEF ReaderFits, ReaderPCs
        <4> QED BY <4>1, <4>2
      <3>3. CASE blockMap[c] # NoOffset
        <4>1. ReaderSets(r, "bin", p + 1, p, blockMap[c], buf[r])
          BY <2>6, <3>3, <1>6 DEF Lookup, Goto, Advance, ReaderSets
        <4>2. ReaderFits(r, "bin", p + 1, p, blockMap[c], buf[r])
          BY <3>1, <3>3, <1>2, <1>4, <1>5, CacheAssumption DEF ReaderFits, ReaderPCs, Offsets
        <4> QED BY <4>1, <4>2
      <3> QED BY <3>2, <3>3
    <2>7. CASE ExtendRun(r)
      <3>1. rpc[r] \in {"bin", "base"} /\ p # n
        BY <2>7 DEF ExtendRun, Joins, AtEnd
      <3>2. p < n
        BY <3>1, <1>2, <1>7
      <3>3. rpc[r] = "bin" => o + (p + 1 - q) <= MaxOffset
        <4>1. blockMap[c] \in Offsets \cup {NoOffset} /\ NoOffset \notin Int
          BY <3>2, <1>3, CacheAssumption DEF TypeOK, StoreTypes
        <4>2. rpc[r] = "bin" => blockMap[c] = o + (p - q)
          BY <2>7 DEF ExtendRun, Joins
        <4> QED BY <4>1, <4>2, <1>2, <1>5, CacheAssumption DEF Offsets
      <3>4. ReaderSets(r, rpc[r], p + 1, q, o, buf[r])
        BY <2>7, <1>6 DEF ExtendRun, Advance, ReaderSets
      <3>5. q < p + 1 /\ p + 1 <= n
        BY <3>1, <3>2, <1>2, <1>5, <1>7
      <3>6. /\ rpc[r] \in ReaderPCs /\ rpc[r] \notin {"fast", "probe", "walk", "lookup"}
            /\ p + 1 \in 0 .. NumBlocks
        BY <3>1, <3>2, <1>4 DEF ReaderPCs
      <3>7. ReaderFits(r, rpc[r], p + 1, q, o, buf[r])
        BY <3>3, <3>5, <3>6, <1>2, <1>5 DEF ReaderFits
      <3> QED BY <3>4, <3>7
    <2>8. CASE ReadRun(r)
      <3> DEFINE from(b) == IF rpc[r] = "bin" THEN bin[o + (b - first - q)] ELSE Base[b]
                 x == [b \in Blocks |-> IF b \in Run(r) THEN from(b) ELSE buf[r][b]]
                 next == IF p = n THEN "done" ELSE "walk"
      <3>1. ASSUME NEW b \in Blocks, b \in Run(r) PROVE from(b) \in Data \cup {NoData}
        <4>1. CASE rpc[r] = "bin"
          <5>1. b \in Int /\ first + q <= b /\ b <= first + p - 1
            BY <3>1, <1>2, <1>5 DEF Run, Blocks
          <5>2. o + (b - first - q) \in 0 .. MaxOffset - 1
            BY <4>1, <5>1, <1>2, <1>5, <1>7, CacheAssumption
          <5> QED BY <4>1, <5>2 DEF TypeOK, StoreTypes, Offsets
        <4>2. CASE rpc[r] # "bin"
          BY <4>2, CacheAssumption
        <4> QED BY <4>1, <4>2
      <3>2. x \in Buffers
        BY <3>1, <1>5 DEF Buffers
      <3>3. ReaderSets(r, next, p, q, o, x)
        BY <2>8, <1>6 DEF ReadRun, Goto, AtEnd, ReaderSets
      <3>4. p <= n
        BY <2>8, <1>7 DEF ReadRun
      <3>5. ReaderFits(r, next, p, q, o, x)
        BY <3>2, <3>4, <1>2, <1>5 DEF ReaderFits, ReaderPCs
      <3> QED BY <3>3, <3>5
    <2>9. CASE ReadError(r) \/ FinishRead(r)
      <3>1. ReaderSets(r, "idle", p, q, o, NoBuf)
        BY <2>9, <1>6 DEF ReadError, FinishRead, Forget, Goto, ReaderSets
      <3>2. ReaderFits(r, "idle", p, q, o, NoBuf)
        BY <1>2, <1>5 DEF ReaderFits, ReaderPCs
      <3> QED BY <3>1, <3>2
    <2> QED BY <2>1, <2>2, <2>3, <2>4, <2>5, <2>6, <2>7, <2>8, <2>9 DEF Read
  <1>9. window' \in [Readers -> [Blocks -> SUBSET (Data \cup {NoData})]]
    BY DEF Read, CopyRam, FastMiss, Probe, ReadAhead, WalkMiss, Lookup, ExtendRun, ReadRun,
           ReadError, FinishRead, Forget, TypeOK
  <1> QED BY <1>1, <1>8, <1>9 DEF TypeOK, StoreTypes, FlusherTypes, WriterTypes, storeVars,
                                  flusherVars, writerVars

LEMMA NextTypes == TypeOK /\ [Next]_vars => TypeOK'
  <1> SUFFICES ASSUME TypeOK, [Next]_vars PROVE TypeOK'
    OBVIOUS
  <1>1. ASSUME NEW w \in Writers, Write(w) PROVE TypeOK'
    BY <1>1, InsertTypes, SendTypes DEF Write
  <1>2. ASSUME NEW w \in Writers, NEW e \in Extents, NEW v \in Values, ClaimOffset(w, e, v)
        PROVE TypeOK'
    BY <1>2, ClaimTypes
  <1>3. CASE Flush
    BY <1>3, FlushTypes
  <1>4. ASSUME NEW r \in Readers, Read(r) PROVE TypeOK'
    BY <1>4, ReadTypes
  <1>5. ASSUME NEW r \in Readers, NEW e \in Extents, StartRead(r, e) PROVE TypeOK'
    BY <1>5, StartReadTypes
  <1>6. CASE UNCHANGED vars
    BY <1>6 DEF TypeOK, StoreTypes, FlusherTypes, WriterTypes, ReaderTypes,
                vars, storeVars, flusherVars, writerVars, readerVars
  <1> QED BY <1>1, <1>2, <1>3, <1>4, <1>5, <1>6 DEF Next

(* Every variable of the cache keeps its type: in particular no write goes *)
(* past the end of the disk or of the bounded file, and the run that       *)
(* read_blocks_cached builds always ends inside both.                      *)
THEOREM TypeCorrect == Spec => []TypeOK
  BY InitTypes, NextTypes, PTL DEF Spec

-----------------------------------------------------------------------------
(* The flusher never exposes a block that RAM does not mask. *)

Busy(w) == wpc[w] # "idle"
(* The blocks a write task has put into RAM so far. *)
Inserted(w) == wjob[w].first .. wjob[w].first + wpos[w] - 1

(* Whatever a write task, the queue or the flusher holds is in RAM already.*)
Masks ==
  /\ RamMasksFlusher
  /\ \A w \in Writers : Busy(w) => \A b \in Inserted(w) : ram[b] # NoData
  /\ \A i \in DOMAIN chan : \A b \in Span(chan[i]) : ram[b] # NoData
  /\ fpc # "recv" => \A b \in Span(fjob) : ram[b] # NoData

(* The channel, seen by position. *)
LEMMA AppendAt ==
  ASSUME NEW S, NEW q \in Seq(S), NEW x \in S
  PROVE  /\ DOMAIN Append(q, x) = 1 .. Len(q) + 1
         /\ \A i \in DOMAIN q : Append(q, x)[i] = q[i]
         /\ Append(q, x)[Len(q) + 1] = x
  OBVIOUS

LEMMA TailAt ==
  ASSUME NEW S, NEW q \in Seq(S), q # << >>
  PROVE  /\ Head(q) = q[1] /\ 1 \in DOMAIN q
         /\ DOMAIN Tail(q) = 1 .. Len(q) - 1
         /\ \A i \in DOMAIN Tail(q) : i + 1 \in DOMAIN q /\ Tail(q)[i] = q[i + 1]
  OBVIOUS

LEMMA InitMasks == Init => Masks
  BY CacheAssumption DEF Init, Masks, RamMasksFlusher, Busy, LoadedOffsets

LEMMA NextMasks == TypeOK /\ Masks /\ [Next]_vars => Masks'
  <1> SUFFICES ASSUME TypeOK, Masks, [Next]_vars PROVE Masks'
    OBVIOUS
  <1> USE DEF Busy, Inserted, Span
  <1>1. ASSUME NEW w \in Writers, NEW e \in Extents, NEW v \in Values, ClaimOffset(w, e, v)
        PROVE Masks'
    <2>1. UNCHANGED <<ram, blockMap, chan, fpc, fjob>>
      BY <1>1 DEF ClaimOffset, flusherVars
    <2>2. ASSUME NEW x \in Writers, Busy(x)', NEW b \in Inserted(x)' PROVE ram'[b] # NoData
      <3>1. CASE x = w
        <4>1. wjob'[w].first = e.first /\ wpos'[w] = 0 /\ e.first \in Nat
          BY <1>1, ExtentFits DEF ClaimOffset, TypeOK, WriterTypes
        <4> QED BY <2>2, <3>1, <4>1
      <3>2. CASE x # w
        BY <1>1, <2>1, <2>2, <3>2 DEF ClaimOffset, Masks, TypeOK, WriterTypes
      <3> QED BY <3>1, <3>2
    <2> QED BY <2>1, <2>2 DEF Masks, RamMasksFlusher
  <1>2. ASSUME NEW w \in Writers, InsertRam(w) PROVE Masks'
    <2> DEFINE c == wjob[w].first + wpos[w]
    <2>1. wjob[w] \in Jobs /\ wjob[w].first \in Nat /\ wpos[w] \in Nat
      BY <1>2, JobFits, CacheAssumption DEF InsertRam, TypeOK, WriterTypes
    <2> DEFINE p == Piece(wjob[w], c)
    <2>p. c \in Blocks /\ p # NoData /\ ram' = [ram EXCEPT ![c] = p]
      BY <1>2, InsertPut
    <2> HIDE DEF p
    <2>2. \A b : ram[b] # NoData => ram'[b] # NoData
      BY <2>p DEF TypeOK, StoreTypes
    <2>3. c \in Blocks /\ ram'[c] # NoData
      BY <2>p DEF TypeOK, StoreTypes
    <2>4. UNCHANGED <<blockMap, chan, fpc, fjob, wjob>>
      BY <1>2 DEF InsertRam, flusherVars
    <2>5. ASSUME NEW x \in Writers, Busy(x)', NEW b \in Inserted(x)' PROVE ram'[b] # NoData
      <3>1. CASE x = w
        <4>1. wpos'[w] = wpos[w] + 1 /\ Busy(w)
          BY <1>2 DEF InsertRam, TypeOK, WriterTypes
        <4>2. b \in Inserted(w) \/ b = c
          BY <2>1, <2>4, <2>5, <3>1, <4>1
        <4> QED BY <2>2, <2>3, <4>1, <4>2 DEF Masks
      <3>2. CASE x # w
        BY <1>2, <2>2, <2>4, <2>5, <3>2 DEF InsertRam, Masks, TypeOK, WriterTypes
      <3> QED BY <3>1, <3>2
    <2> QED BY <2>2, <2>4, <2>5 DEF Masks, RamMasksFlusher
  <1>3. ASSUME NEW w \in Writers, SendAndAck(w) PROVE Masks'
    <2>1. wjob[w] \in Jobs /\ wpos[w] = wjob[w].n /\ Busy(w)
      BY <1>3 DEF SendAndAck, TypeOK, WriterTypes
    <2>2. \A b \in Span(wjob[w]) : ram[b] # NoData
      BY <2>1 DEF Masks
    <2>3. UNCHANGED <<ram, blockMap, fpc, fjob, wjob, wpos>>
      BY <1>3 DEF SendAndAck, flusherVars
    <2>4. \A x \in Writers : Busy(x)' => Busy(x)
      BY <1>3 DEF SendAndAck, TypeOK, WriterTypes
    <2>5. ASSUME NEW i \in DOMAIN chan' PROVE \A b \in Span(chan'[i]) : ram[b] # NoData
      <3>1. chan' = Append(chan, wjob[w]) /\ chan \in Seq(Jobs)
        BY <1>3 DEF SendAndAck, TypeOK, StoreTypes
      <3>2. (i \in DOMAIN chan /\ chan'[i] = chan[i]) \/ chan'[i] = wjob[w]
        BY <2>1, <2>5, <3>1, AppendAt
      <3> QED BY <2>2, <3>2 DEF Masks
    <2> QED BY <2>3, <2>4, <2>5 DEF Masks, RamMasksFlusher
  <1>4. CASE FlushRecv
    <2>1. UNCHANGED <<ram, blockMap, wpc, wjob, wpos>>
      BY <1>4 DEF FlushRecv, writerVars
    <2>2. chan \in Seq(Jobs) /\ chan # << >> /\ chan' = Tail(chan) /\ fjob' = Head(chan)
      BY <1>4 DEF FlushRecv, TypeOK, StoreTypes
    <2>3. \A i \in DOMAIN chan' : \E k \in DOMAIN chan : chan'[i] = chan[k]
      BY <2>2, TailAt
    <2>4. \E k \in DOMAIN chan : fjob' = chan[k]
      BY <2>2, TailAt
    <2> QED BY <2>1, <2>3, <2>4 DEF Masks, RamMasksFlusher
  <1>5. CASE FlushWrite
    BY <1>5 DEF FlushWrite, Masks, RamMasksFlusher, writerVars
  <1>6. CASE FlushMap
    <2>1. fjob \in Jobs /\ fpos \in Nat /\ fpos < fjob.n
      BY <1>6 DEF FlushMap, TypeOK, FlusherTypes
    <2>2. ram[fjob.first + fpos] # NoData
      BY <1>6, <2>1, JobFits DEF FlushMap, Masks
    <2>3. UNCHANGED <<ram, chan, fjob, wpc, wjob, wpos>>
      BY <1>6 DEF FlushMap, writerVars
    <2>4. RamMasksFlusher'
      BY <1>6, <2>2, <2>3 DEF FlushMap, Masks, RamMasksFlusher, TypeOK, StoreTypes
    <2> QED BY <1>6, <2>3, <2>4 DEF FlushMap, Masks
  <1>7. CASE UNCHANGED <<storeVars, flusherVars, writerVars>>
    BY <1>7 DEF Masks, RamMasksFlusher, storeVars, flusherVars, writerVars
  <1>8. ASSUME NEW r \in Readers, Read(r) \/ \E e \in Extents : StartRead(r, e)
        PROVE UNCHANGED <<storeVars, flusherVars, writerVars>>
    BY <1>8 DEF StartRead, Read, CopyRam, FastMiss, Probe, ReadAhead, WalkMiss, Lookup, ExtendRun,
                ReadRun, ReadError, FinishRead, Forget
  <1> QED
    BY <1>1, <1>2, <1>3, <1>4, <1>5, <1>6, <1>7, <1>8 DEF Next, Write, Flush, vars

(* Until a block has been written to RAM in this session, reads find what  *)
(* was loaded with the cache file: the background flusher never runs ahead *)
(* of the RAM cache that masks it.                                         *)
THEOREM FlusherMasked == Spec => []RamMasksFlusher
  <1>1. Init => TypeOK /\ Masks
    BY InitTypes, InitMasks
  <1>2. TypeOK /\ Masks /\ [Next]_vars => TypeOK' /\ Masks'
    BY NextTypes, NextMasks
  <1>3. Masks => RamMasksFlusher
    BY DEF Masks
  <1> QED BY <1>1, <1>2, <1>3, PTL DEF Spec
-----------------------------------------------------------------------------
(* No two writes share a place in the file. *)

Apart(j, k) == j.off + j.n <= k.off \/ k.off + k.n <= j.off
Below(j) == j.off + j.n <= nextOff
(* No block is mapped into the range of job j. *)
Unmapped(j) ==
  \A b \in Blocks : blockMap[b] # NoOffset => blockMap[b] < j.off \/ j.off + j.n <= blockMap[b]

(* All that is claimed or mapped lies below the next offset, and nothing is*)
(* mapped into a range before the flusher has written it.                  *)
Ranges ==
  /\ \A b \in Blocks : blockMap[b] # NoOffset => blockMap[b] < nextOff
  /\ \A w \in Writers : Busy(w) => Below(wjob[w]) /\ Unmapped(wjob[w])
  /\ \A i \in DOMAIN chan : Below(chan[i]) /\ Unmapped(chan[i])
  /\ fpc # "recv" => Below(fjob)
  /\ fpc = "write" => Unmapped(fjob)

(* The jobs at different places - a task's hands, a position of the queue, *)
(* the flusher's hands - have ranges apart.  Seen as sets of jobs this is  *)
(* not inductive: a job that stood at two places would count as one.       *)
Separate ==
  /\ \A w, x \in Writers : Busy(w) /\ Busy(x) /\ w # x => Apart(wjob[w], wjob[x])
  /\ \A w \in Writers, i \in DOMAIN chan : Busy(w) => Apart(wjob[w], chan[i])
  /\ \A i, k \in DOMAIN chan : i # k => Apart(chan[i], chan[k])
  /\ fpc # "recv" => \A w \in Writers : Busy(w) => Apart(wjob[w], fjob)
  /\ fpc # "recv" => \A i \in DOMAIN chan : Apart(chan[i], fjob)

LEMMA InitRanges == Init => Ranges /\ Separate
  <1> SUFFICES ASSUME Init PROVE Ranges /\ Separate
    OBVIOUS
  <1>1. blockMap \in [Blocks -> LoadedOffsets] /\ nextOff = LoadedNext /\ LoadedNext \in Nat
    BY CacheAssumption DEF Init
  <1>2. \A b \in Blocks : blockMap[b] # NoOffset => blockMap[b] < nextOff
    BY <1>1 DEF LoadedOffsets
  <1>3. chan = << >> /\ fpc = "recv" /\ \A w \in Writers : ~Busy(w)
    BY DEF Init, Busy
  <1> QED BY <1>2, <1>3 DEF Ranges, Separate

(* The jobs in flight are jobs. *)
LEMMA JobsInFlight ==
  ASSUME TypeOK
  PROVE  /\ \A w \in Writers : Busy(w) => wjob[w] \in Jobs
         /\ \A i \in DOMAIN chan : chan[i] \in Jobs
         /\ fpc # "recv" => fjob \in Jobs
         /\ nextOff \in Nat
         /\ \A b \in Blocks : blockMap[b] # NoOffset => blockMap[b] \in Nat
  BY CacheAssumption DEF TypeOK, StoreTypes, FlusherTypes, WriterTypes, Busy, Offsets

LEMMA ClaimRanges ==
  ASSUME TypeOK, Ranges, Separate, NEW w \in Writers, NEW e \in Extents, NEW v \in Values,
         ClaimOffset(w, e, v)
  PROVE  Ranges' /\ Separate'
  <1>1. /\ wjob' = [wjob EXCEPT ![w] = [first |-> e.first, n |-> e.n, off |-> nextOff, val |-> v]]
        /\ nextOff' = nextOff + e.n /\ UNCHANGED <<blockMap, chan, fpc, fjob>>
    BY DEF ClaimOffset, flusherVars
  <1>2. /\ wjob'[w].off = nextOff /\ wjob'[w].n = e.n
        /\ \A x \in Writers : x # w => wjob'[x] = wjob[x]
    BY <1>1 DEF TypeOK, WriterTypes
  <1>3. \A x \in Writers : x # w => (Busy(x)' <=> Busy(x))
    BY DEF ClaimOffset, Busy, TypeOK, WriterTypes
  <1>4. nextOff \in Nat /\ e.n \in Nat
    BY JobsInFlight, ExtentFits
  <1>5. \A j \in Jobs : Below(j) => Below(j)' /\ Apart(j, wjob'[w]) /\ Apart(wjob'[w], j)
    BY <1>1, <1>2, <1>4, JobFits DEF Below, Apart
  <1>6. Below(wjob[w])' /\ Unmapped(wjob[w])'
    BY <1>1, <1>2, <1>4, JobsInFlight DEF Ranges, Below, Unmapped
  <1>7. \A j : Unmapped(j)' = Unmapped(j)
    BY <1>1 DEF Unmapped
  <1>8. Ranges'
    <2>1. \A b \in Blocks : blockMap'[b] # NoOffset => blockMap'[b] < nextOff'
      BY <1>1, <1>4, JobsInFlight DEF Ranges
    <2>2. \A x \in Writers : Busy(x)' => Below(wjob[x])' /\ Unmapped(wjob[x])'
      BY <1>2, <1>3, <1>5, <1>6, <1>7, JobsInFlight DEF Ranges
    <2>3. \A i \in DOMAIN chan' : Below(chan[i])' /\ Unmapped(chan[i])'
      BY <1>1, <1>5, <1>7, JobsInFlight DEF Ranges
    <2>4. (fpc' # "recv" => Below(fjob)') /\ (fpc' = "write" => Unmapped(fjob)')
      BY <1>1, <1>5, <1>7, JobsInFlight DEF Ranges
    <2> QED BY <2>1, <2>2, <2>3, <2>4 DEF Ranges
  <1>9. Separate'
    <2>1. \A x, y \in Writers : Busy(x)' /\ Busy(y)' /\ x # y => Apart(wjob'[x], wjob'[y])
      BY <1>2, <1>3, <1>5, JobsInFlight DEF Ranges, Separate
    <2>2. \A x \in Writers, i \in DOMAIN chan : Busy(x)' => Apart(wjob'[x], chan[i])
      BY <1>2, <1>3, <1>5, JobsInFlight DEF Ranges, Separate
    <2>3. fpc # "recv" => \A x \in Writers : Busy(x)' => Apart(wjob'[x], fjob)
      BY <1>2, <1>3, <1>5, JobsInFlight DEF Ranges, Separate
    <2> QED BY <1>1, <2>1, <2>2, <2>3 DEF Separate
  <1> QED BY <1>8, <1>9

(* The job goes from the task to the end of the queue. *)
LEMMA SendRanges ==
  ASSUME TypeOK, Ranges, Separate, NEW w \in Writers, SendAndAck(w)
  PROVE  Ranges' /\ Separate'
  <1>1. /\ chan' = Append(chan, wjob[w]) /\ Busy(w)
        /\ UNCHANGED <<blockMap, nextOff, fpc, fjob, wjob>>
    BY DEF SendAndAck, flusherVars, Busy
  <1>2. \A x \in Writers : Busy(x)' => Busy(x) /\ x # w
    BY DEF SendAndAck, Busy, TypeOK, WriterTypes
  <1>3. chan \in Seq(Jobs) /\ wjob[w] \in Jobs
    BY <1>1, JobsInFlight DEF TypeOK, StoreTypes
  <1>4. \A i \in DOMAIN chan' : \/ i \in DOMAIN chan /\ chan'[i] = chan[i]
                                \/ i = Len(chan) + 1 /\ chan'[i] = wjob[w]
    BY <1>1, <1>3, AppendAt
  <1>5. \A j : (Unmapped(j)' = Unmapped(j)) /\ (Below(j)' = Below(j))
    BY <1>1 DEF Unmapped, Below
  <1>6. \A j, k : Apart(j, k) => Apart(k, j)
    BY DEF Apart
  <1>7. Ranges'
    BY <1>1, <1>2, <1>4, <1>5 DEF Ranges
  <1>8. Separate'
    <2>1. \A x, y \in Writers : Busy(x)' /\ Busy(y)' /\ x # y => Apart(wjob'[x], wjob'[y])
      BY <1>1, <1>2 DEF Separate
    <2>2. \A x \in Writers, i \in DOMAIN chan' : Busy(x)' => Apart(wjob'[x], chan'[i])
      BY <1>1, <1>2, <1>4 DEF Separate
    <2>3. \A i, k \in DOMAIN chan' : i # k => Apart(chan'[i], chan'[k])
      BY <1>1, <1>4, <1>6 DEF Separate
    <2>4. fpc' # "recv" => \A x \in Writers : Busy(x)' => Apart(wjob'[x], fjob')
      BY <1>1, <1>2 DEF Separate
    <2>5. fpc' # "recv" => \A i \in DOMAIN chan' : Apart(chan'[i], fjob')
      BY <1>1, <1>4 DEF Separate
    <2> QED BY <2>1, <2>2, <2>3, <2>4, <2>5 DEF Separate
  <1> QED BY <1>7, <1>8

(* The job goes from the front of the queue to the flusher. *)
LEMMA RecvRanges ==
  ASSUME TypeOK, Ranges, Separate, FlushRecv
  PROVE  Ranges' /\ Separate'
  <1>1. /\ chan \in Seq(Jobs) /\ chan # << >> /\ chan' = Tail(chan) /\ fjob' = Head(chan)
        /\ UNCHANGED <<blockMap, nextOff, wpc, wjob>>
    BY DEF FlushRecv, TypeOK, StoreTypes, writerVars
  <1>2. 1 \in DOMAIN chan /\ fjob' = chan[1]
    BY <1>1, TailAt
  <1>3. \A i \in DOMAIN chan' : i + 1 \in DOMAIN chan /\ chan'[i] = chan[i + 1] /\ i + 1 # 1
    BY <1>1, TailAt
  <1>4. \A i, k \in DOMAIN chan' : i # k => i + 1 # k + 1
    BY <1>1, TailAt
  <1>5. \A j : (Unmapped(j)' = Unmapped(j)) /\ (Below(j)' = Below(j))
    BY <1>1 DEF Unmapped, Below
  <1>6. \A w : Busy(w)' = Busy(w)
    BY <1>1 DEF Busy
  <1>7. Ranges'
    BY <1>1, <1>2, <1>3, <1>5, <1>6 DEF Ranges
  <1>8. Separate'
    <2>1. \A i, k \in DOMAIN chan' : i # k => Apart(chan'[i], chan'[k])
      BY <1>3, <1>4 DEF Separate
    <2>2. \A i \in DOMAIN chan' : Apart(chan'[i], fjob')
      BY <1>2, <1>3 DEF Separate
    <2>3. \A w \in Writers : Busy(w)' => Apart(wjob'[w], fjob')
      BY <1>1, <1>2, <1>6 DEF Separate
    <2>4. \A w \in Writers, i \in DOMAIN chan' : Busy(w)' => Apart(wjob'[w], chan'[i])
      BY <1>1, <1>3, <1>6 DEF Separate
    <2>5. \A w, x \in Writers : Busy(w)' /\ Busy(x)' /\ w # x => Apart(wjob'[w], wjob'[x])
      BY <1>1, <1>6 DEF Separate
    <2> QED BY <2>1, <2>2, <2>3, <2>4, <2>5 DEF Separate
  <1> QED BY <1>7, <1>8

(* The flusher maps a block into its own range, which is apart from those  *)
(* of all others.                                                          *)
LEMMA MapRanges ==
  ASSUME TypeOK, Ranges, Separate, FlushMap
  PROVE  Ranges' /\ Separate'
  <1> DEFINE o == fjob.off + fpos
  <1>1. /\ fjob \in Jobs /\ fpos \in Nat /\ fpos < fjob.n /\ fpc = "map"
        /\ UNCHANGED <<nextOff, chan, fjob, wpc, wjob>> /\ fpc' # "write"
    BY DEF FlushMap, TypeOK, FlusherTypes, writerVars
  <1>2. \A b \in Blocks : blockMap'[b] = blockMap[b] \/ blockMap'[b] = o
    BY DEF FlushMap, TypeOK, StoreTypes
  <1>3. o \in Nat /\ fjob.off <= o /\ o < fjob.off + fjob.n
    BY <1>1, JobFits
  <1>4. ASSUME NEW j \in Jobs, Unmapped(j), Apart(j, fjob)
        PROVE  Unmapped(j)'
    <2>1. o < j.off \/ j.off + j.n <= o
      BY <1>1, <1>3, <1>4, JobFits DEF Apart
    <2> QED BY <1>2, <1>4, <2>1 DEF Unmapped
  <1>5. \A j : Below(j)' = Below(j)
    BY <1>1 DEF Below
  <1>6. \A w : Busy(w)' = Busy(w)
    BY <1>1 DEF Busy
  <1>7. Ranges'
    <2>1. \A b \in Blocks : blockMap'[b] # NoOffset => blockMap'[b] < nextOff'
      <3>1. o < nextOff
        BY <1>1, <1>3, JobFits, JobsInFlight DEF Ranges, Below
      <3> QED BY <1>1, <1>2, <3>1 DEF Ranges
    <2>2. \A w \in Writers : Busy(w)' => Below(wjob[w])' /\ Unmapped(wjob[w])'
      BY <1>1, <1>4, <1>5, <1>6, JobsInFlight DEF Ranges, Separate
    <2>3. \A i \in DOMAIN chan' : Below(chan[i])' /\ Unmapped(chan[i])'
      BY <1>1, <1>4, <1>5, JobsInFlight DEF Ranges, Separate
    <2>4. (fpc' # "recv" => Below(fjob)') /\ (fpc' = "write" => Unmapped(fjob)')
      BY <1>1, <1>5 DEF Ranges
    <2> QED BY <2>1, <2>2, <2>3, <2>4 DEF Ranges
  <1>8. Separate'
    BY <1>1, <1>6 DEF Separate
  <1> QED BY <1>7, <1>8

LEMMA NextRanges == TypeOK /\ Ranges /\ Separate /\ [Next]_vars => Ranges' /\ Separate'
  <1> SUFFICES ASSUME TypeOK, Ranges, Separate, [Next]_vars PROVE Ranges' /\ Separate'
    OBVIOUS
  <1>1. ASSUME NEW w \in Writers, InsertRam(w) PROVE Ranges' /\ Separate'
    <2>1. UNCHANGED <<blockMap, nextOff, chan, fpc, fjob, wjob>>
      BY <1>1 DEF InsertRam, flusherVars
    <2>2. \A x \in Writers : Busy(x)' <=> Busy(x)
      BY <1>1 DEF InsertRam, Busy, TypeOK, WriterTypes
    <2> QED BY <2>1, <2>2 DEF Ranges, Separate, Below, Unmapped
  <1>2. CASE FlushWrite
    <2>1. UNCHANGED <<blockMap, nextOff, chan, fjob, wpc, wjob>> /\ fpc = "write" /\ fpc' = "map"
      BY <1>2 DEF FlushWrite, writerVars
    <2> QED BY <2>1 DEF Ranges, Separate, Below, Unmapped, Busy
  <1>3. CASE UNCHANGED <<storeVars, flusherVars, writerVars>>
    BY <1>3 DEF Ranges, Separate, Below, Unmapped, Busy, storeVars, flusherVars, writerVars
  <1>4. ASSUME NEW r \in Readers, Read(r) \/ \E e \in Extents : StartRead(r, e)
        PROVE UNCHANGED <<storeVars, flusherVars, writerVars>>
    BY <1>4 DEF StartRead, Read, CopyRam, FastMiss, Probe, ReadAhead, WalkMiss, Lookup, ExtendRun,
                ReadRun, ReadError, FinishRead, Forget
  <1> QED
    BY <1>1, <1>2, <1>3, <1>4, ClaimRanges, SendRanges, RecvRanges, MapRanges
    DEF Next, Write, Flush, vars

LEMMA RangesExclude == TypeOK /\ Ranges /\ Separate => OffsetsExclusive
  <1> SUFFICES ASSUME TypeOK, Ranges, Separate PROVE OffsetsExclusive
    OBVIOUS
  <1> DEFINE Pending == Claimed \cup Queued \cup (IF fpc = "write" THEN {fjob} ELSE {})
             All == Claimed \cup Queued \cup Flushing
  <1>1. ASSUME NEW j \in Pending PROVE j \in Jobs /\ j \in All /\ Unmapped(j)
    BY <1>1, JobsInFlight DEF Claimed, Queued, Flushing, Ranges, Busy
  <1>2. \A k \in All : k \in Jobs
    BY JobsInFlight DEF Claimed, Queued, Flushing, Busy
  <1>3. ASSUME NEW j \in All, NEW k \in All, k # j PROVE Apart(j, k)
    <2>1. \A x, y : Apart(x, y) => Apart(y, x)
      BY DEF Apart
    <2>2. \A x \in Claimed : \E w \in Writers : Busy(w) /\ x = wjob[w]
      BY DEF Claimed, Busy
    <2>3. \A x \in Queued : \E i \in DOMAIN chan : x = chan[i]
      BY DEF Queued
    <2>4. \A x \in Flushing : fpc # "recv" /\ x = fjob
      BY DEF Flushing
    <2>5. CASE j \in Claimed
      BY <1>3, <2>2, <2>3, <2>4, <2>5 DEF Separate
    <2>6. CASE j \in Queued
      BY <1>3, <2>1, <2>2, <2>3, <2>4, <2>6 DEF Separate
    <2>7. CASE j \in Flushing
      BY <1>3, <2>1, <2>2, <2>3, <2>4, <2>7 DEF Separate
    <2> QED BY <1>3, <2>5, <2>6, <2>7
  <1>4. ASSUME NEW j \in Jobs, NEW k \in Jobs, Apart(j, k)
        PROVE  (j.off .. j.off + j.n - 1) \cap (k.off .. k.off + k.n - 1) = {}
    BY <1>4, JobFits DEF Apart
  <1>5. ASSUME NEW j \in Jobs, Unmapped(j), NEW b \in Blocks
        PROVE  blockMap[b] \notin j.off .. j.off + j.n - 1
    <2>1. CASE blockMap[b] = NoOffset
      BY <2>1, CacheAssumption, JobFits
    <2>2. CASE blockMap[b] # NoOffset
      BY <1>5, <2>2, JobFits, JobsInFlight DEF Unmapped
    <2> QED BY <2>1, <2>2
  <1> HIDE DEF Pending, All
  <1>6. \A j \in Pending :
          /\ \A b \in Blocks : blockMap[b] \notin j.off .. j.off + j.n - 1
          /\ \A k \in All : k # j => (j.off .. j.off + j.n - 1) \cap (k.off .. k.off + k.n - 1) = {}
    BY <1>1, <1>2, <1>3, <1>4, <1>5
  <1> QED BY <1>6 DEF OffsetsExclusive, Pending, All

(* Writes append to the file concurrently with no lock but one fetch_add:  *)
(* no two of them ever share a block of it, and none is given a range that *)
(* reads already follow the block map into.                                *)
THEOREM AppendsApart == Spec => []OffsetsExclusive
  <1>1. Init => TypeOK /\ Ranges /\ Separate
    BY InitTypes, InitRanges
  <1>2. TypeOK /\ Ranges /\ Separate /\ [Next]_vars => TypeOK' /\ Ranges' /\ Separate'
    BY NextTypes, NextRanges
  <1> QED BY <1>1, <1>2, RangesExclude, PTL DEF Spec

-----------------------------------------------------------------------------
(* A read answers with what its blocks held. *)

(* Jobs that the flusher has not yet written, and places in the file that  *)
(* none of them will write to.                                             *)
Unwritten == Claimed \cup Queued \cup (IF fpc = "write" THEN {fjob} ELSE {})
Settled(o) == o \in Nat /\ o < nextOff /\ \A j \in Unwritten : o < j.off \/ j.off + j.n <= o

(* What the jobs in flight that have put block b into RAM will store of it.*)
Coming(b) ==
  {Piece(wjob[w], b) : w \in {x \in Writers : Busy(x) /\ b \in Inserted(x)}}
  \cup {Piece(j, b) : j \in {k \in Queued \cup Flushing : b \in Span(k)}}

(* A job being mapped is in the file: no write of .bin has failed. *)
Filled == fpc = "map" => \A b \in Span(fjob) : bin[Home(fjob, b)] = Piece(fjob, b)

Reading(r) == rpc[r] # "idle"
(* The blocks of a read before its i-th one, and the place in the file of  *)
(* one in its run.                                                         *)
Before(r, i) == rext[r].first .. rext[r].first + i - 1
Place(r, b)  == roff[r] + (b - rext[r].first - rrun[r])
(* Whatever .bin or the base come to hold for b, the read may answer it.   *)
Cold(r, b) == Stored(b) \in window[r][b] /\ Coming(b) \subseteq window[r][b]
(* How far the buffer is filled. *)
FilledTo(r) == CASE rpc[r] \in {"fast", "walk", "lookup"} -> rpos[r]
                 [] rpc[r] \in {"bin", "base"} -> rrun[r]
                 [] rpc[r] = "done" -> rext[r].n
                 [] OTHER -> 0

Current(r) == \A b \in Span(rext[r]) :
  IF ram[b] # NoData THEN ram[b] \in window[r][b] ELSE Stored(b) \in window[r][b]
BufferHeld(r) == \A b \in Before(r, FilledTo(r)) : buf[r][b] \in window[r][b]
BaseHeld(r) ==
  /\ rpc[r] = "probe" => \A b \in Before(r, rpos[r]) : Base[b] \in window[r][b]
  /\ rpc[r] = "ahead" => \A b \in Span(rext[r]) : Base[b] \in window[r][b]
  /\ rpc[r] = "base"  => \A b \in Run(r) : Base[b] \in window[r][b]
LookupHeld(r) == rpc[r] = "lookup" => Cold(r, Cursor(r))
BinHeld(r) == rpc[r] = "bin" => \A b \in Run(r) : bin[Place(r, b)] \in window[r][b] /\ Settled(Place(r, b))

ReadHeld(r) == Current(r) /\ BufferHeld(r) /\ BaseHeld(r) /\ LookupHeld(r) /\ BinHeld(r)
ReadsHeld == \A r \in Readers : Reading(r) => ReadHeld(r)

(* Where the blocks of a read are. *)
LEMMA ReadFits ==
  ASSUME TypeOK, NEW r \in Readers
  PROVE  /\ rext[r] \in Extents /\ rext[r].first \in Nat /\ rext[r].n \in Nat \ {0}
         /\ rpos[r] \in Nat /\ rrun[r] \in Nat /\ roff[r] \in Nat
         /\ Span(rext[r]) \subseteq Blocks /\ Span(rext[r]) = Before(r, rext[r].n)
         /\ Span(rext[r]) \subseteq Int
         /\ \A i \in Nat : i <= rext[r].n => Before(r, i) \subseteq Span(rext[r])
  <1>1. rext[r] \in Extents /\ rpos[r] \in Nat /\ rrun[r] \in Nat /\ roff[r] \in Nat
    BY CacheAssumption DEF TypeOK, ReaderTypes
  <1>2. /\ rext[r].first \in Nat /\ rext[r].n \in Nat \ {0}
        /\ rext[r].first + rext[r].n <= NumBlocks
    BY <1>1, ExtentFits
  <1>3. Span(rext[r]) \subseteq Blocks /\ Span(rext[r]) \subseteq Int
    BY <1>1, <1>2, CacheAssumption DEF Span, Blocks
  <1>4. Span(rext[r]) = Before(r, rext[r].n)
    BY DEF Span, Before
  <1>5. \A i \in Nat : i <= rext[r].n => Before(r, i) \subseteq Span(rext[r])
    BY <1>1, <1>2 DEF Span, Before
  <1> QED BY <1>1, <1>2, <1>3, <1>4, <1>5

(* Who has put a block into RAM has put it into RAM. *)
LEMMA NothingComing ==
  ASSUME Masks, NEW b \in Blocks, ram[b] = NoData
  PROVE  Coming(b) = {}
  BY DEF Masks, Coming, Queued, Flushing

-----------------------------------------------------------------------------
(* What a step of a writer, of the flusher or of another read means to a  *)
(* read.                                                                   *)

Untouched(r) ==
  /\ rpc'[r] = rpc[r] /\ rext'[r] = rext[r] /\ rpos'[r] = rpos[r]
  /\ rrun'[r] = rrun[r] /\ roff'[r] = roff[r] /\ buf'[r] = buf[r]

Benign(r) ==
  /\ \A b \in Span(rext[r]) :
       /\ window[r][b] \subseteq window'[r][b]
       /\ Coming(b)' \subseteq Coming(b) \cup window'[r][b]
       /\ Stored(b)' = Stored(b) \/ Stored(b)' \in Coming(b)
       /\ ram'[b] = ram[b] \/ ram'[b] \in window'[r][b]
       /\ ram'[b] = NoData => ram[b] = NoData
  /\ \A o : Settled(o) => Settled(o)' /\ bin'[o] = bin[o]
  /\ Untouched(r)

LEMMA BenignHeld ==
  ASSUME TypeOK, Masks, NEW r \in Readers, Reading(r), ReadHeld(r), Benign(r)
  PROVE  ReadHeld(r)'
  <1>1. Untouched(r)
    BY DEF Benign
  <1>2. rpc'[r] = rpc[r] /\ FilledTo(r)' = FilledTo(r) /\ Cursor(r)' = Cursor(r) /\ Run(r)' = Run(r)
    BY <1>1 DEF Untouched, FilledTo, Cursor, Run
  <1>3. /\ \A i : Before(r, i)' = Before(r, i)
        /\ \A b : Place(r, b)' = Place(r, b)
    BY <1>1 DEF Untouched, Before, Place
  <1>4. /\ FilledTo(r) \in Nat /\ FilledTo(r) <= rext[r].n
        /\ rpc[r] \in {"probe", "lookup"} => rpos[r] < rext[r].n
        /\ rpc[r] \in {"bin", "base"} => rpos[r] <= rext[r].n
    BY ReadFits DEF FilledTo, TypeOK, ReaderTypes
  <1>5. /\ Before(r, FilledTo(r)) \subseteq Span(rext[r])
        /\ rpc[r] = "probe" => Before(r, rpos[r]) \subseteq Span(rext[r])
        /\ rpc[r] = "lookup" => Cursor(r) \in Span(rext[r])
        /\ rpc[r] \in {"bin", "base"} => Run(r) \subseteq Span(rext[r])
    BY <1>4, ReadFits DEF Before, Cursor, Run, Span
  <1>6. Current(r)'
    <2> SUFFICES ASSUME NEW b \in Span(rext[r])
                 PROVE  IF ram'[b] # NoData THEN ram'[b] \in window'[r][b]
                        ELSE Stored(b)' \in window'[r][b]
      BY <1>1 DEF Current, Untouched
    <2>1. b \in Blocks
      BY ReadFits
    <2>2. CASE ram'[b] = NoData
      <3>1. ram[b] = NoData /\ Coming(b) = {}
        BY <2>1, <2>2, NothingComing DEF Benign
      <3> QED BY <2>2, <3>1 DEF Benign, ReadHeld, Current
    <2>3. CASE ram'[b] # NoData
      BY <2>3 DEF Benign, ReadHeld, Current
    <2> QED BY <2>2, <2>3
  <1>7. BufferHeld(r)'
    BY <1>1, <1>2, <1>3, <1>5 DEF Benign, ReadHeld, BufferHeld, Untouched
  <1>8. BaseHeld(r)'
    BY <1>1, <1>2, <1>3, <1>5 DEF Benign, ReadHeld, BaseHeld, Untouched
  <1>9. LookupHeld(r)'
    BY <1>2, <1>5 DEF Benign, ReadHeld, LookupHeld, Cold
  <1>10. BinHeld(r)'
    BY <1>2, <1>3, <1>5 DEF Benign, ReadHeld, BinHeld
  <1> QED BY <1>6, <1>7, <1>8, <1>9, <1>10 DEF ReadHeld

(* A place that no unwritten job covers stays so, whoever holds the jobs. *)
LEMMA SettledStays ==
  ASSUME TypeOK, nextOff' \in Nat, nextOff' >= nextOff,
         \A j \in Unwritten' : j \in Unwritten \/ j.off = nextOff,
         NEW o, Settled(o)
  PROVE  Settled(o)'
  <1>1. nextOff \in Nat
    BY JobsInFlight
  <1> SUFFICES ASSUME NEW j \in Unwritten' PROVE o < j.off \/ j.off + j.n <= o
    BY <1>1 DEF Settled
  <1>2. CASE j \in Unwritten
    BY <1>2 DEF Settled
  <1>3. CASE j.off = nextOff
    BY <1>3 DEF Settled
  <1> QED BY <1>2, <1>3

LEMMA ClaimBenign ==
  ASSUME TypeOK, NEW r \in Readers, NEW w \in Writers, NEW e \in Extents, NEW v \in Values,
         ClaimOffset(w, e, v)
  PROVE  Benign(r)
  <1> DEFINE job == [first |-> e.first, n |-> e.n, off |-> nextOff, val |-> v]
  <1>1. /\ ~Busy(w) /\ nextOff' = nextOff + e.n
        /\ wjob' = [wjob EXCEPT ![w] = job] /\ wpc' = [wpc EXCEPT ![w] = "ram"]
        /\ wpos' = [wpos EXCEPT ![w] = 0]
        /\ UNCHANGED <<ram, blockMap, bin, chan, fpc, fjob, readerVars, window>>
    BY DEF ClaimOffset, Busy, flusherVars
  <1>2. /\ wjob'[w] = job /\ wpos'[w] = 0
        /\ \A x \in Writers : x # w => wjob'[x] = wjob[x] /\ wpos'[x] = wpos[x] /\ wpc'[x] = wpc[x]
    BY <1>1 DEF TypeOK, WriterTypes
  <1>3. nextOff \in Nat /\ e.n \in Nat /\ e.first \in Nat
    BY JobsInFlight, ExtentFits
  <1>4. ASSUME NEW b PROVE Coming(b)' \subseteq Coming(b)
    <2>1. Inserted(w)' = {}
      BY <1>2, <1>3 DEF Inserted
    <2>2. ASSUME NEW x \in Writers, Busy(x)', b \in Inserted(x)'
          PROVE  x # w /\ Busy(x) /\ b \in Inserted(x) /\ wjob'[x] = wjob[x]
      BY <1>2, <2>1, <2>2 DEF Busy, Inserted
    <2>3. Queued' = Queued /\ Flushing' = Flushing
      BY <1>1 DEF Queued, Flushing
    <2> QED BY <2>2, <2>3 DEF Coming, Piece
  <1>5. ASSUME NEW o, Settled(o) PROVE Settled(o)' /\ bin'[o] = bin[o]
    <2>1. \A j \in Unwritten' : j \in Unwritten \/ j.off = nextOff
      BY <1>1, <1>2, <1>3 DEF Unwritten, Claimed, Queued
    <2> QED BY <1>1, <1>3, <1>5, <2>1, SettledStays
  <1> QED BY <1>1, <1>4, <1>5 DEF Benign, Stored, readerVars, Untouched

LEMMA InsertBenign ==
  ASSUME TypeOK, NEW r \in Readers, Reading(r), NEW w \in Writers, InsertRam(w)
  PROVE  Benign(r)
  <1> DEFINE c == wjob[w].first + wpos[w]
             p == Piece(wjob[w], c)
  <1>1. /\ Busy(w) /\ Busy(w)' /\ c \in Blocks
        /\ ram' = [ram EXCEPT ![c] = p]
        /\ p # NoData
        /\ wpos' = [wpos EXCEPT ![w] = @ + 1]
        /\ \A x \in Writers : Busy(x)' = Busy(x)
        /\ UNCHANGED <<blockMap, bin, nextOff, chan, wjob, fpc, fjob, readerVars>>
    BY InsertPut DEF InsertRam, Busy, flusherVars, TypeOK, WriterTypes
  <1>2. wpos'[w] = wpos[w] + 1 /\ \A x \in Writers : x # w => wpos'[x] = wpos[x]
    BY <1>1 DEF TypeOK, WriterTypes
  <1>3. wjob[w].first \in Nat /\ wpos[w] \in Nat
    BY <1>1, JobsInFlight, JobFits DEF TypeOK, WriterTypes
  <1>4. window'[r] = IF c \in Span(rext[r]) THEN [window[r] EXCEPT ![c] = @ \cup {p}] ELSE window[r]
    BY DEF InsertRam, Reading
  <1> HIDE DEF p
  <1>5. ASSUME NEW b \in Span(rext[r])
        PROVE  /\ window[r][b] \subseteq window'[r][b]
               /\ b = c => p \in window'[r][b]
    <2>1. b \in Blocks /\ window[r] \in [Blocks -> SUBSET (Data \cup {NoData})]
      BY ReadFits DEF TypeOK
    <2> QED BY <1>1, <1>4, <2>1
  <1>6. ASSUME NEW b \in Span(rext[r]) PROVE Coming(b)' \subseteq Coming(b) \cup window'[r][b]
    <2>1. ASSUME NEW x \in Writers, Busy(x)', b \in Inserted(x)'
          PROVE  Busy(x) /\ (b \in Inserted(x) \/ (x = w /\ b = c))
      <3>1. CASE x = w
        BY <1>1, <1>2, <1>3, <2>1, <3>1 DEF Inserted
      <3>2. CASE x # w
        BY <1>1, <1>2, <2>1, <3>2 DEF Inserted
      <3> QED BY <3>1, <3>2
    <2>2. Queued' = Queued /\ Flushing' = Flushing
      BY <1>1 DEF Queued, Flushing
    <2>3. b = c => Piece(wjob[w], b) \in window'[r][b]
      BY <1>5 DEF p
    <2> QED BY <1>1, <2>1, <2>2, <2>3 DEF Coming, Piece
  <1>7. ASSUME NEW b \in Span(rext[r])
        PROVE  /\ ram'[b] = ram[b] \/ ram'[b] \in window'[r][b]
               /\ ram'[b] = NoData => ram[b] = NoData
    <2>1. ram \in [Blocks -> Data \cup {NoData}]
      BY DEF TypeOK, StoreTypes
    <2> QED BY <1>1, <1>5, <2>1, ReadFits
  <1>8. ASSUME NEW o, Settled(o) PROVE Settled(o)' /\ bin'[o] = bin[o]
    <2>1. Unwritten' = Unwritten
      BY <1>1 DEF Unwritten, Claimed, Queued, Busy
    <2> QED BY <1>1, <1>8, <2>1 DEF Settled
  <1> QED BY <1>1, <1>5, <1>6, <1>7, <1>8 DEF Benign, Stored, readerVars, Untouched

LEMMA SendBenign ==
  ASSUME TypeOK, NEW r \in Readers, NEW w \in Writers, SendAndAck(w)
  PROVE  Benign(r)
  <1>1. /\ Busy(w) /\ chan' = Append(chan, wjob[w]) /\ wpos[w] = wjob[w].n
        /\ \A x \in Writers : Busy(x)' => Busy(x) /\ x # w
        /\ UNCHANGED <<ram, blockMap, bin, nextOff, wjob, wpos, fpc, fjob, readerVars, window>>
    BY DEF SendAndAck, Busy, flusherVars, TypeOK, WriterTypes
  <1>2. chan \in Seq(Jobs) /\ wjob[w] \in Jobs /\ nextOff \in Nat
    BY <1>1, JobsInFlight DEF TypeOK, StoreTypes
  <1>3. Queued' \subseteq Queued \cup {wjob[w]}
    BY <1>1, <1>2, AppendAt DEF Queued
  <1>4. Inserted(w) = Span(wjob[w])
    BY <1>1 DEF Inserted, Span
  <1>5. ASSUME NEW b PROVE Coming(b)' \subseteq Coming(b)
    <2>1. Flushing' = Flushing
      BY <1>1 DEF Flushing
    <2>2. ASSUME NEW x \in Writers, Busy(x)', b \in Inserted(x)'
          PROVE  Piece(wjob'[x], b) \in Coming(b)
      BY <1>1, <2>2 DEF Inserted, Coming
    <2>3. ASSUME NEW k \in Queued' \cup Flushing', b \in Span(k)
          PROVE  Piece(k, b) \in Coming(b)
      BY <1>1, <1>3, <1>4, <2>1, <2>3 DEF Coming
    <2> QED BY <2>2, <2>3 DEF Coming, Piece, Span
  <1>6. ASSUME NEW o, Settled(o) PROVE Settled(o)' /\ bin'[o] = bin[o]
    <2>1. \A j \in Unwritten' : j \in Unwritten
      BY <1>1, <1>3 DEF Unwritten, Claimed, Busy
    <2> QED BY <1>1, <1>2, <1>6, <2>1, SettledStays
  <1> QED BY <1>1, <1>5, <1>6 DEF Benign, Stored, readerVars, Untouched

LEMMA RecvBenign ==
  ASSUME TypeOK, NEW r \in Readers, FlushRecv
  PROVE  Benign(r)
  <1>1. /\ chan # << >> /\ chan' = Tail(chan) /\ fjob' = Head(chan) /\ fpc = "recv" /\ fpc' = "write"
        /\ UNCHANGED <<ram, blockMap, bin, nextOff, wpc, wjob, wpos, readerVars, window>>
    BY DEF FlushRecv, writerVars
  <1>2. chan \in Seq(Jobs) /\ nextOff \in Nat
    BY JobsInFlight DEF TypeOK, StoreTypes
  <1>3. Queued' \cup {fjob'} \subseteq Queued
    BY <1>1, <1>2, TailAt DEF Queued
  <1>4. ASSUME NEW b PROVE Coming(b)' \subseteq Coming(b)
    <2>1. Flushing' = {fjob'}
      BY <1>1 DEF Flushing
    <2>2. \A x \in Writers : Busy(x)' = Busy(x) /\ Inserted(x)' = Inserted(x)
      BY <1>1 DEF Busy, Inserted
    <2> QED BY <1>1, <1>3, <2>1, <2>2 DEF Coming, Piece, Span
  <1>5. ASSUME NEW o, Settled(o) PROVE Settled(o)' /\ bin'[o] = bin[o]
    <2>1. \A j \in Unwritten' : j \in Unwritten
      BY <1>1, <1>3 DEF Unwritten, Claimed
    <2> QED BY <1>1, <1>2, <1>5, <2>1, SettledStays
  <1> QED BY <1>1, <1>4, <1>5 DEF Benign, Stored, readerVars, Untouched

(* Writing a job changes no place outside its range. *)
LEMMA WriteKeeps ==
  ASSUME TypeOK, FlushWrite, NEW o \in Nat, o < nextOff, o < fjob.off \/ fjob.off + fjob.n <= o
  PROVE  bin'[o] = bin[o]
  <1>1. PICK m \in IF DiskErrors THEN 0 .. fjob.n ELSE {fjob.n} :
          bin' = [p \in Offsets |-> IF p \in fjob.off .. fjob.off + m - 1
                                    THEN Piece(fjob, fjob.first + (p - fjob.off)) ELSE bin[p]]
    BY DEF FlushWrite
  <1>2. fjob \in Jobs
    BY JobsInFlight DEF FlushWrite
  <1>3. /\ fjob.off \in Nat /\ fjob.n \in Nat /\ nextOff \in Nat /\ nextOff <= MaxOffset
        /\ MaxOffset \in Nat
    BY <1>2, JobFits, CacheAssumption DEF TypeOK, StoreTypes
  <1>4. m \in Nat /\ m <= fjob.n
    BY <1>1, <1>3
  <1>5. o \in Offsets /\ o \notin fjob.off .. fjob.off + m - 1
    BY <1>3, <1>4 DEF Offsets
  <1> QED BY <1>1, <1>5

LEMMA WriteKeepsStored ==
  ASSUME TypeOK, Ranges, FlushWrite, NEW b \in Blocks
  PROVE  Stored(b)' = Stored(b)
  <1>1. UNCHANGED blockMap /\ fpc = "write"
    BY DEF FlushWrite
  <1>2. CASE blockMap[b] = NoOffset
    BY <1>1, <1>2 DEF Stored
  <1>3. CASE blockMap[b] # NoOffset
    <2>1. blockMap[b] \in Nat /\ blockMap[b] < nextOff
      BY <1>3, JobsInFlight DEF Ranges
    <2>2. blockMap[b] < fjob.off \/ fjob.off + fjob.n <= blockMap[b]
      BY <1>1, <1>3 DEF Ranges, Unmapped
    <2> QED BY <1>1, <1>3, <2>1, <2>2, WriteKeeps DEF Stored
  <1> QED BY <1>2, <1>3

(* Writing a job changes no place that reads follow the block map to. *)
LEMMA WriteBenign ==
  ASSUME TypeOK, Ranges, NEW r \in Readers, FlushWrite
  PROVE  Benign(r)
  <1>1. /\ fpc = "write" /\ fpc' = "map"
        /\ UNCHANGED <<ram, blockMap, nextOff, chan, fjob, wpc, wjob, wpos, readerVars, window>>
    BY DEF FlushWrite, writerVars
  <1>2. nextOff \in Nat
    BY JobsInFlight
  <1>3. ASSUME NEW b PROVE Coming(b)' = Coming(b)
    <2>1. Flushing' = Flushing /\ Queued' = Queued
      BY <1>1 DEF Flushing, Queued
    <2>2. \A x \in Writers : Busy(x)' = Busy(x) /\ Inserted(x)' = Inserted(x)
      BY <1>1 DEF Busy, Inserted
    <2> QED BY <1>1, <2>1, <2>2 DEF Coming, Piece, Span
  <1>4. ASSUME NEW o, Settled(o) PROVE Settled(o)' /\ bin'[o] = bin[o]
    <2>1. \A j \in Unwritten' : j \in Unwritten
      BY <1>1 DEF Unwritten, Claimed, Queued
    <2>2. fjob \in Unwritten
      BY <1>1 DEF Unwritten
    <2>3. bin'[o] = bin[o]
      BY <1>4, <2>2, WriteKeeps DEF Settled
    <2> QED BY <1>1, <1>2, <1>4, <2>1, <2>3, SettledStays
  <1>5. Span(rext[r]) \subseteq Blocks
    BY ReadFits
  <1> QED BY <1>1, <1>3, <1>4, <1>5, WriteKeepsStored DEF Benign, readerVars, Untouched

(* Mapping a block of a job that is in the file. *)
LEMMA MapBenign ==
  ASSUME TypeOK, Filled, NEW r \in Readers, FlushMap
  PROVE  Benign(r)
  <1> DEFINE c == fjob.first + fpos
  <1>1. /\ fpc = "map" /\ fpc' # "write" /\ fjob \in Jobs /\ fpos \in Nat /\ fpos < fjob.n
        /\ blockMap' = [blockMap EXCEPT ![c] = fjob.off + fpos]
        /\ UNCHANGED <<ram, bin, nextOff, chan, fjob, wpc, wjob, wpos, readerVars, window>>
    BY DEF FlushMap, TypeOK, FlusherTypes, writerVars
  <1>2. fjob.first \in Nat /\ fjob.off \in Nat /\ fjob.n \in Nat
    BY <1>1, JobFits
  <1>3. c \in Span(fjob) /\ Home(fjob, c) = fjob.off + fpos /\ fjob.off + fpos # NoOffset
    BY <1>1, <1>2, CacheAssumption DEF Span, Home
  <1>4. bin[fjob.off + fpos] = Piece(fjob, c)
    BY <1>1, <1>3 DEF Filled
  <1>5. ASSUME NEW b PROVE Coming(b)' \subseteq Coming(b)
    <2>1. Flushing' \subseteq Flushing /\ Queued' = Queued
      BY <1>1 DEF Flushing, Queued
    <2>2. \A x \in Writers : Busy(x)' = Busy(x) /\ Inserted(x)' = Inserted(x)
      BY <1>1 DEF Busy, Inserted
    <2> QED BY <1>1, <2>1, <2>2 DEF Coming, Piece, Span
  <1>6. ASSUME NEW o, Settled(o) PROVE Settled(o)' /\ bin'[o] = bin[o]
    <2>1. \A j \in Unwritten' : j \in Unwritten
      BY <1>1 DEF Unwritten, Claimed, Queued
    <2>2. nextOff \in Nat
      BY JobsInFlight
    <2> QED BY <1>1, <1>6, <2>1, <2>2, SettledStays
  <1>7. ASSUME NEW b \in Blocks PROVE Stored(b)' = Stored(b) \/ Stored(b)' \in Coming(b)
    <2>1. CASE b = c
      <3>1. Stored(b)' = Piece(fjob, c)
        BY <1>1, <1>3, <1>4, <2>1 DEF Stored, TypeOK, StoreTypes
      <3>2. Piece(fjob, c) \in Coming(c)
        BY <1>1, <1>3 DEF Coming, Flushing
      <3> QED BY <2>1, <3>1, <3>2
    <2>2. CASE b # c
      BY <1>1, <2>2 DEF Stored, TypeOK, StoreTypes
    <2> QED BY <2>1, <2>2
  <1>8. Span(rext[r]) \subseteq Blocks
    BY ReadFits
  <1> QED BY <1>1, <1>5, <1>6, <1>7, <1>8 DEF Benign, readerVars, Untouched

-----------------------------------------------------------------------------
(* A job is in the file before it is mapped. *)

LEMMA WriteFills ==
  ASSUME ~DiskErrors, TypeOK, FlushWrite
  PROVE  Filled'
  <1>1. /\ fjob \in Jobs /\ fjob' = fjob
        /\ bin' = [o \in Offsets |-> IF o \in fjob.off .. fjob.off + fjob.n - 1
                                     THEN Piece(fjob, fjob.first + (o - fjob.off)) ELSE bin[o]]
    BY JobsInFlight DEF FlushWrite
  <1>2. ASSUME NEW b \in Span(fjob) PROVE bin'[Home(fjob, b)] = Piece(fjob, b)
    <2>1. /\ fjob.first \in Nat /\ fjob.n \in Nat /\ fjob.off \in Nat
          /\ fjob.off + fjob.n <= MaxOffset /\ MaxOffset \in Nat
      BY <1>1, JobFits, CacheAssumption
    <2>2. b \in Int /\ fjob.first <= b /\ b < fjob.first + fjob.n
      BY <1>2, <2>1 DEF Span
    <2>3. /\ Home(fjob, b) \in Offsets /\ Home(fjob, b) \in fjob.off .. fjob.off + fjob.n - 1
          /\ fjob.first + (Home(fjob, b) - fjob.off) = b
      BY <2>1, <2>2 DEF Home, Offsets
    <2> QED BY <1>1, <2>3
  <1> QED BY <1>1, <1>2 DEF Filled, Span, Home, Piece

LEMMA NextFilled ==
  ASSUME ~DiskErrors
  PROVE  TypeOK /\ Filled /\ [Next]_vars => Filled'
  <1> SUFFICES ASSUME TypeOK, Filled, [Next]_vars PROVE Filled'
    OBVIOUS
  <1>1. CASE UNCHANGED <<bin, fpc, fjob>>
    BY <1>1 DEF Filled, Span, Home, Piece
  <1>2. CASE FlushRecv
    BY <1>2 DEF FlushRecv, Filled
  <1>3. CASE FlushMap
    <2>1. UNCHANGED <<bin, fjob>> /\ fpc = "map"
      BY <1>3 DEF FlushMap
    <2> QED BY <2>1 DEF Filled, Span, Home, Piece
  <1>4. ASSUME NEW w \in Writers, Write(w) \/ \E e \in Extents, v \in Values : ClaimOffset(w, e, v)
        PROVE  UNCHANGED <<bin, fpc, fjob>>
    BY <1>4 DEF Write, ClaimOffset, InsertRam, SendAndAck, flusherVars
  <1>5. ASSUME NEW r \in Readers, Read(r) \/ \E e \in Extents : StartRead(r, e)
        PROVE  UNCHANGED <<bin, fpc, fjob>>
    BY <1>5 DEF StartRead, Read, CopyRam, FastMiss, Probe, ReadAhead, WalkMiss, Lookup, ExtendRun,
                ReadRun, ReadError, FinishRead, Forget, storeVars, flusherVars
  <1>6. UNCHANGED vars => UNCHANGED <<bin, fpc, fjob>>
    BY DEF vars, storeVars, flusherVars
  <1> QED BY <1>1, <1>2, <1>3, <1>4, <1>5, <1>6, WriteFills DEF Next, Flush

-----------------------------------------------------------------------------
(* A step of a read *)

(* What .bin holds where the block map points is there to stay. *)
LEMMA MappedSettled ==
  ASSUME TypeOK, Ranges, NEW b \in Blocks, blockMap[b] # NoOffset
  PROVE  Settled(blockMap[b])
  <1>1. blockMap[b] \in Nat /\ blockMap[b] < nextOff
    BY JobsInFlight DEF Ranges
  <1>2. \A j \in Unwritten : Unmapped(j)
    BY DEF Ranges, Unwritten, Claimed, Queued, Busy
  <1> QED BY <1>1, <1>2 DEF Settled, Unmapped

(* A step of a read leaves the store and all other reads alone. *)
Alone(r) ==
  /\ UNCHANGED <<storeVars, flusherVars, writerVars>>
  /\ \A y \in Readers : y # r => Untouched(y) /\ window'[y] = window[y]

LEMMA StoreSame ==
  ASSUME UNCHANGED <<storeVars, flusherVars, writerVars>>
  PROVE  /\ \A b : Stored(b)' = Stored(b) /\ Coming(b)' = Coming(b)
         /\ \A o : Settled(o)' = Settled(o)
  <1>1. UNCHANGED <<ram, blockMap, bin, nextOff, chan, fpc, fjob, wpc, wjob, wpos>>
    BY DEF storeVars, flusherVars, writerVars
  <1>2. \A w : Busy(w)' = Busy(w) /\ Inserted(w)' = Inserted(w)
    BY <1>1 DEF Busy, Inserted
  <1>3. Queued' = Queued /\ Flushing' = Flushing /\ Unwritten' = Unwritten
    BY <1>1 DEF Queued, Flushing, Unwritten, Claimed
  <1>4. \A b : Coming(b)' = Coming(b)
    BY <1>1, <1>2, <1>3 DEF Coming, Piece, Span
  <1> QED BY <1>1, <1>3, <1>4 DEF Stored, Settled

LEMMA OthersHeld ==
  ASSUME TypeOK, Masks, ReadsHeld, NEW r \in Readers, Alone(r),
         NEW y \in Readers, y # r, Reading(y)'
  PROVE  ReadHeld(y)'
  <1>1. Untouched(y) /\ window'[y] = window[y]
    BY DEF Alone
  <1>2. Reading(y) /\ ReadHeld(y)
    BY <1>1 DEF Reading, Untouched, ReadsHeld
  <1>3. UNCHANGED <<ram, bin>>
    BY DEF Alone, storeVars
  <1>4. Benign(y)
    BY <1>1, <1>3, StoreSame DEF Benign, Alone
  <1> QED BY <1>2, <1>4, BenignHeld

(* What a read's own step leaves of what is known of it. *)
LEMMA OwnStep ==
  ASSUME NEW r \in Readers, Current(r), UNCHANGED <<storeVars, flusherVars, writerVars>>,
         rext'[r] = rext[r], window'[r] = window[r]
  PROVE  Current(r)' /\ \A i : Before(r, i)' = Before(r, i)
  <1>1. UNCHANGED ram /\ \A b : Stored(b)' = Stored(b)
    BY StoreSame DEF storeVars
  <1> QED BY <1>1 DEF Current, Before

(* The blocks before the cursor, and the block at it. *)
LEMMA AtCursor ==
  ASSUME TypeOK, NEW r \in Readers, rpos[r] < rext[r].n
  PROVE  /\ Cursor(r) \in Span(rext[r]) /\ Cursor(r) \in Blocks
         /\ Before(r, rpos[r] + 1) = Before(r, rpos[r]) \cup {Cursor(r)}
         /\ Cursor(r) \notin Before(r, rpos[r])
         /\ Before(r, rpos[r]) \subseteq Span(rext[r])
  <1>1. Cursor(r) \in Span(rext[r]) /\ Cursor(r) \in Blocks
    BY ReadFits DEF Cursor, Span
  <1>2. /\ Before(r, rpos[r] + 1) = Before(r, rpos[r]) \cup {Cursor(r)}
        /\ Cursor(r) \notin Before(r, rpos[r])
    BY ReadFits DEF Cursor, Before
  <1>3. Before(r, rpos[r]) \subseteq Span(rext[r])
    BY ReadFits
  <1> QED BY <1>1, <1>2, <1>3

LEMMA StartHeld ==
  ASSUME TypeOK, NEW r \in Readers, NEW e \in Extents, StartRead(r, e)
  PROVE  ReadHeld(r)'
  <1>1. /\ rpc'[r] = "fast" /\ rext'[r] = e /\ rpos'[r] = 0
        /\ window'[r] = [b \in Blocks |-> IF b \in Span(e) THEN {View(b)} ELSE {}]
        /\ UNCHANGED <<storeVars, flusherVars, writerVars>>
    BY DEF StartRead, Goto, TypeOK, ReaderTypes
  <1>2. Span(e) \subseteq Blocks
    BY ExtentFits, CacheAssumption DEF Span, Blocks
  <1>3. UNCHANGED ram /\ \A b : Stored(b)' = Stored(b)
    BY <1>1, StoreSame DEF storeVars
  <1>4. Current(r)'
    BY <1>1, <1>2, <1>3 DEF Current, View
  <1>5. Before(r, FilledTo(r))' = {}
    BY <1>1, ExtentFits DEF Before, FilledTo
  <1> QED BY <1>1, <1>4, <1>5 DEF ReadHeld, BufferHeld, BaseHeld, LookupHeld, BinHeld

LEMMA CopyRamHeld ==
  ASSUME TypeOK, NEW r \in Readers, ReadHeld(r), NEW pc \in {"fast", "walk"}, CopyRam(r, pc)
  PROVE  ReadHeld(r)'
  <1> DEFINE c == Cursor(r)
  <1>1. /\ rpc[r] = pc /\ ram[c] # NoData /\ rpos[r] < rext[r].n
        /\ UNCHANGED <<storeVars, flusherVars, writerVars>>
        /\ rext' = rext /\ window' = window
        /\ rpos'[r] = rpos[r] + 1
        /\ rpc'[r] = IF rpos[r] + 1 = rext[r].n THEN "done" ELSE pc
        /\ buf'[r] = [buf[r] EXCEPT ![c] = ram[c]]
    BY DEF CopyRam, Goto, Advance, LastStep, TypeOK, ReaderTypes
  <1>2. Current(r)' /\ \A i : Before(r, i)' = Before(r, i)
    BY <1>1, OwnStep DEF ReadHeld
  <1>3. FilledTo(r)' = rpos[r] + 1 /\ FilledTo(r) = rpos[r]
    BY <1>1 DEF FilledTo
  <1>4. ram[c] \in window[r][c]
    BY <1>1, AtCursor DEF ReadHeld, Current
  <1>5. \A b \in Before(r, rpos[r]) : buf'[r][b] = buf[r][b]
    BY <1>1, AtCursor DEF TypeOK, ReaderTypes
  <1>6. buf'[r][c] = ram[c]
    BY <1>1, AtCursor DEF TypeOK, ReaderTypes
  <1> HIDE DEF c
  <1>7. BufferHeld(r)'
    <2>1. Before(r, FilledTo(r))' = Before(r, rpos[r]) \cup {c}
      BY <1>1, <1>2, <1>3, AtCursor DEF c
    <2>2. \A b \in Before(r, rpos[r]) : buf[r][b] \in window[r][b]
      BY <1>3 DEF ReadHeld, BufferHeld
    <2> QED BY <1>1, <1>4, <1>5, <1>6, <2>1, <2>2 DEF BufferHeld
  <1> QED BY <1>1, <1>2, <1>7 DEF ReadHeld, BaseHeld, LookupHeld, BinHeld

(* The slow path starts with nothing read, and so does its probing. *)
LEMMA RestartHeld ==
  ASSUME TypeOK, NEW r \in Readers, ReadHeld(r), rpc'[r] \in {"probe", "walk"}, rpos'[r] = 0,
         UNCHANGED <<storeVars, flusherVars, writerVars, rext, window>>
  PROVE  ReadHeld(r)'
  <1>1. Current(r)' /\ \A i : Before(r, i)' = Before(r, i)
    BY OwnStep DEF ReadHeld
  <1>2. Before(r, 0) = {}
    BY ReadFits DEF Before
  <1>3. Before(r, FilledTo(r))' = {} /\ Before(r, rpos[r])' = {}
    BY <1>1, <1>2 DEF FilledTo
  <1> QED BY <1>1, <1>3 DEF ReadHeld, BufferHeld, BaseHeld, LookupHeld, BinHeld

LEMMA ProbeHeld ==
  ASSUME TypeOK, NEW r \in Readers, ReadHeld(r), Probe(r), ~GoSlow(r)
  PROVE  ReadHeld(r)'
  <1> DEFINE c == Cursor(r)
  <1>1. /\ rpc[r] = "probe" /\ ram[c] = NoData /\ blockMap[c] = NoOffset /\ rpos[r] < rext[r].n
        /\ UNCHANGED <<storeVars, flusherVars, writerVars>>
        /\ rext' = rext /\ window' = window /\ rpos'[r] = rpos[r] + 1
        /\ rpc'[r] = IF rpos[r] + 1 = rext[r].n THEN "ahead" ELSE "probe"
    BY DEF Probe, Goto, Advance, LastStep, TypeOK, ReaderTypes
  <1>2. Current(r)' /\ \A i : Before(r, i)' = Before(r, i)
    BY <1>1, OwnStep DEF ReadHeld
  <1>3. Base[c] \in window[r][c]
    BY <1>1, AtCursor DEF ReadHeld, Current, Stored
  <1> HIDE DEF c
  <1>4. \A b \in Before(r, rpos[r] + 1) : Base[b] \in window[r][b]
    BY <1>1, <1>3, AtCursor DEF ReadHeld, BaseHeld, c
  <1>5. BaseHeld(r)'
    <2>1. Span(rext[r])' = Before(r, rext[r].n)
      BY <1>1, ReadFits
    <2> QED BY <1>1, <1>2, <1>4, <2>1 DEF BaseHeld
  <1>6. Before(r, FilledTo(r))' = {}
    <2>1. FilledTo(r)' = 0 /\ Before(r, 0) = {}
      BY <1>1, ReadFits DEF FilledTo, Before
    <2> QED BY <1>2, <2>1
  <1> QED BY <1>1, <1>2, <1>5, <1>6 DEF ReadHeld, BufferHeld, LookupHeld, BinHeld

LEMMA AheadHeld ==
  ASSUME TypeOK, NEW r \in Readers, ReadHeld(r), ReadAhead(r), ~GoSlow(r)
  PROVE  ReadHeld(r)'
  <1>1. /\ rpc[r] = "ahead" /\ rpc'[r] = "done" /\ rext' = rext /\ window' = window
        /\ buf'[r] = [b \in Blocks |-> IF b \in Span(rext[r]) THEN Base[b] ELSE NoData]
        /\ UNCHANGED <<storeVars, flusherVars, writerVars>>
    BY DEF ReadAhead, Goto, TypeOK, ReaderTypes
  <1>2. Current(r)' /\ \A i : Before(r, i)' = Before(r, i)
    BY <1>1, OwnStep DEF ReadHeld
  <1>3. Before(r, FilledTo(r))' = Span(rext[r]) /\ Span(rext[r]) \subseteq Blocks
    BY <1>1, <1>2, ReadFits DEF FilledTo
  <1>4. \A b \in Span(rext[r]) : Base[b] \in window[r][b]
    BY <1>1 DEF ReadHeld, BaseHeld
  <1> QED BY <1>1, <1>2, <1>3, <1>4 DEF ReadHeld, BufferHeld, BaseHeld, LookupHeld, BinHeld

(* A block that is not in RAM is in the window as .bin or the base has it, *)
(* and nothing on its way there can change that unseen.                    *)
LEMMA WalkMissHeld ==
  ASSUME TypeOK, Masks, NEW r \in Readers, ReadHeld(r), WalkMiss(r)
  PROVE  ReadHeld(r)'
  <1>1. /\ rpc[r] = "walk" /\ rpc'[r] = "lookup" /\ ram[Cursor(r)] = NoData /\ rpos[r] < rext[r].n
        /\ UNCHANGED <<storeVars, flusherVars, writerVars, rext, rpos, buf, window>>
    BY DEF WalkMiss, Goto, TypeOK, ReaderTypes
  <1>2. Current(r)' /\ \A i : Before(r, i)' = Before(r, i)
    BY <1>1, OwnStep DEF ReadHeld
  <1>3. FilledTo(r)' = FilledTo(r) /\ Cursor(r)' = Cursor(r)
    BY <1>1 DEF FilledTo, Cursor
  <1>4. Stored(Cursor(r)) \in window[r][Cursor(r)] /\ Coming(Cursor(r)) = {}
    BY <1>1, AtCursor, NothingComing DEF ReadHeld, Current
  <1>5. LookupHeld(r)'
    <2>1. \A b : Stored(b)' = Stored(b) /\ Coming(b)' = Coming(b)
      BY <1>1, StoreSame
    <2> QED BY <1>1, <1>3, <1>4, <2>1 DEF LookupHeld, Cold
  <1>6. BufferHeld(r)'
    BY <1>1, <1>2, <1>3 DEF ReadHeld, BufferHeld
  <1> QED BY <1>1, <1>2, <1>5, <1>6 DEF ReadHeld, BaseHeld, BinHeld

LEMMA LookupStepHeld ==
  ASSUME TypeOK, Ranges, NEW r \in Readers, ReadHeld(r), Lookup(r)
  PROVE  ReadHeld(r)'
  <1>c. PICK c : c = Cursor(r)
    OBVIOUS
  <1>1. /\ rpc[r] = "lookup" /\ rpos[r] < rext[r].n
        /\ UNCHANGED <<storeVars, flusherVars, writerVars, rext, buf, window>>
        /\ rrun'[r] = rpos[r] /\ rpos'[r] = rpos[r] + 1
        /\ \/ blockMap[c] # NoOffset /\ rpc'[r] = "bin" /\ roff'[r] = blockMap[c]
           \/ blockMap[c] = NoOffset /\ rpc'[r] = "base"
    BY <1>c DEF Lookup, Goto, Advance, TypeOK, ReaderTypes
  <1>2. Current(r)' /\ \A i : Before(r, i)' = Before(r, i)
    BY <1>1, OwnStep DEF ReadHeld
  <1>3. c \in Blocks /\ Stored(c) \in window[r][c]
    BY <1>1, <1>c, AtCursor DEF ReadHeld, LookupHeld, Cold
  <1>4. Run(r)' = {c}
    BY <1>1, <1>c, ReadFits DEF Run, Cursor
  <1>5. FilledTo(r)' = FilledTo(r)
    BY <1>1 DEF FilledTo
  <1>6. BufferHeld(r)'
    BY <1>1, <1>2, <1>5 DEF ReadHeld, BufferHeld
  <1>7. BinHeld(r)'
    <2> SUFFICES ASSUME rpc'[r] = "bin"
                 PROVE  bin[Place(r, c)'] \in window[r][c] /\ Settled(Place(r, c)')
      BY <1>1, <1>4, StoreSame DEF BinHeld, storeVars
    <2>1. blockMap[c] # NoOffset /\ roff'[r] = blockMap[c]
      BY <1>1
    <2>2. Place(r, c)' = blockMap[c]
      BY <1>1, <1>c, <1>3, <2>1, JobsInFlight, ReadFits DEF Place, Cursor
    <2> QED BY <1>3, <2>1, <2>2, MappedSettled DEF Stored
  <1>8. BaseHeld(r)'
    BY <1>1, <1>3, <1>4 DEF BaseHeld, Stored
  <1> QED BY <1>1, <1>2, <1>6, <1>7, <1>8 DEF ReadHeld, LookupHeld

LEMMA ExtendHeld ==
  ASSUME TypeOK, Ranges, NEW r \in Readers, ReadHeld(r), ExtendRun(r)
  PROVE  ReadHeld(r)'
  <1> DEFINE c == Cursor(r)
  <1>1. /\ rpc[r] \in {"bin", "base"} /\ rpc' = rpc /\ rpos[r] < rext[r].n /\ rrun[r] < rpos[r]
        /\ UNCHANGED <<storeVars, flusherVars, writerVars, rext, rrun, roff, buf, window>>
        /\ rpos'[r] = rpos[r] + 1
    <2>1. rpos[r] # rext[r].n
      BY DEF ExtendRun, Joins, AtEnd
    <2>2. rpc[r] \in {"bin", "base"}
      BY DEF ExtendRun
    <2>3. rpos[r] <= rext[r].n /\ rrun[r] < rpos[r]
      BY <2>2 DEF TypeOK, ReaderTypes
    <2>4. rpos[r] < rext[r].n
      BY <2>1, <2>3, ReadFits
    <2> QED BY <2>2, <2>3, <2>4 DEF ExtendRun, Advance, TypeOK, ReaderTypes
  <1>j. /\ ram[c] = NoData
        /\ rpc[r] = "bin" => blockMap[c] = roff[r] + (rpos[r] - rrun[r])
        /\ rpc[r] = "base" => blockMap[c] = NoOffset
    BY DEF ExtendRun, Joins
  <1>2. Current(r)' /\ \A i : Before(r, i)' = Before(r, i)
    BY <1>1, OwnStep DEF ReadHeld
  <1>3. c \in Blocks /\ Stored(c) \in window[r][c]
    BY <1>1, <1>j, AtCursor DEF ReadHeld, Current
  <1>4. Run(r)' = Run(r) \cup {c}
    BY <1>1, ReadFits DEF Run, Cursor
  <1>5. FilledTo(r)' = FilledTo(r) /\ \A b : Place(r, b)' = Place(r, b)
    BY <1>1 DEF FilledTo, Place
  <1>6. BufferHeld(r)'
    BY <1>1, <1>2, <1>5 DEF ReadHeld, BufferHeld
  <1>7. BinHeld(r)'
    <2> SUFFICES ASSUME rpc[r] = "bin", NEW b \in Run(r) \cup {c}
                 PROVE  bin[Place(r, b)] \in window[r][b] /\ Settled(Place(r, b))
      BY <1>1, <1>4, <1>5, StoreSame DEF BinHeld, storeVars
    <2>1. CASE b \in Run(r)
      BY <2>1 DEF ReadHeld, BinHeld
    <2>2. CASE b = c
      <3>1. Place(r, c) = blockMap[c]
        BY <1>1, <1>j, ReadFits DEF Place, Cursor
      <3>2. blockMap[c] # NoOffset
        BY <1>1, <1>j, ReadFits, CacheAssumption
      <3> QED BY <1>3, <2>2, <3>1, <3>2, MappedSettled DEF Stored
    <2> QED BY <2>1, <2>2
  <1>8. BaseHeld(r)'
    BY <1>1, <1>j, <1>3, <1>4 DEF ReadHeld, BaseHeld, Stored
  <1> QED BY <1>1, <1>2, <1>6, <1>7, <1>8 DEF ReadHeld, LookupHeld

LEMMA ReadRunHeld ==
  ASSUME TypeOK, NEW r \in Readers, ReadHeld(r), ReadRun(r)
  PROVE  ReadHeld(r)'
  <1>1. /\ rpc[r] \in {"bin", "base"} /\ rpos[r] <= rext[r].n /\ rrun[r] < rpos[r]
        /\ UNCHANGED <<storeVars, flusherVars, writerVars, rext, rpos, window>>
        /\ rpc'[r] = IF rpos[r] = rext[r].n THEN "done" ELSE "walk"
        /\ buf'[r] = [b \in Blocks |-> IF b \in Run(r)
                        THEN (IF rpc[r] = "bin" THEN bin[Place(r, b)] ELSE Base[b]) ELSE buf[r][b]]
    BY DEF ReadRun, Goto, AtEnd, Place, TypeOK, ReaderTypes
  <1>2. Current(r)' /\ \A i : Before(r, i)' = Before(r, i)
    BY <1>1, OwnStep DEF ReadHeld
  <1>3. FilledTo(r)' = rpos[r] /\ FilledTo(r) = rrun[r]
    BY <1>1 DEF FilledTo
  <1>4. Before(r, rpos[r]) = Before(r, rrun[r]) \cup Run(r) /\ Before(r, rpos[r]) \subseteq Blocks
    <2>1. Before(r, rpos[r]) = Before(r, rrun[r]) \cup Run(r)
      BY <1>1, ReadFits DEF Before, Run
    <2>2. Before(r, rpos[r]) \subseteq Span(rext[r])
      BY <1>1, ReadFits
    <2> QED BY <2>1, <2>2, ReadFits
  <1>5. ASSUME NEW b \in Before(r, rpos[r]) PROVE buf'[r][b] \in window[r][b]
    <2>1. CASE b \in Run(r)
      BY <1>1, <1>4, <2>1 DEF ReadHeld, BinHeld, BaseHeld
    <2>2. CASE b \notin Run(r)
      BY <1>1, <1>3, <1>4, <2>2 DEF ReadHeld, BufferHeld
    <2> QED BY <2>1, <2>2
  <1>6. BufferHeld(r)'
    BY <1>1, <1>2, <1>3, <1>5 DEF BufferHeld
  <1> QED BY <1>1, <1>2, <1>6 DEF ReadHeld, BaseHeld, LookupHeld, BinHeld

LEMMA OwnHeld ==
  ASSUME TypeOK, Masks, Ranges, NEW r \in Readers, ReadHeld(r), Read(r), Reading(r)'
  PROVE  ReadHeld(r)'
  <1>1. CASE FastMiss(r)
    BY <1>1, RestartHeld DEF FastMiss, Goto, TypeOK, ReaderTypes
  <1>2. CASE Probe(r) /\ GoSlow(r)
    BY <1>2, RestartHeld DEF Probe, GoSlow, Goto, TypeOK, ReaderTypes
  <1>3. CASE ReadAhead(r) /\ GoSlow(r)
    BY <1>3, RestartHeld DEF ReadAhead, GoSlow, Goto, TypeOK, ReaderTypes
  <1>4. CASE ReadError(r) \/ FinishRead(r)
    BY <1>4 DEF ReadError, FinishRead, Forget, Goto, Reading, TypeOK, ReaderTypes
  <1>5. CASE CopyRam(r, "fast") \/ CopyRam(r, "walk")
    BY <1>5, CopyRamHeld
  <1> QED
    BY <1>1, <1>2, <1>3, <1>4, <1>5, ProbeHeld, AheadHeld, WalkMissHeld, LookupStepHeld,
       ExtendHeld, ReadRunHeld DEF Read

LEMMA StepAlone ==
  ASSUME TypeOK, NEW r \in Readers, Read(r) \/ \E e \in Extents : StartRead(r, e)
  PROVE  Alone(r) /\ (Read(r) => Reading(r))
  <1>1. UNCHANGED <<storeVars, flusherVars, writerVars>>
    BY DEF StartRead, Read, CopyRam, FastMiss, Probe, ReadAhead, WalkMiss, Lookup, ExtendRun,
           ReadRun, ReadError, FinishRead, Forget
  <1>2. ASSUME NEW y \in Readers, y # r PROVE Untouched(y) /\ window'[y] = window[y]
    BY <1>2 DEF TypeOK, ReaderTypes, Untouched, StartRead, Read, CopyRam, FastMiss, Probe,
                ReadAhead, WalkMiss, Lookup, ExtendRun, ReadRun, ReadError, FinishRead, Forget,
                Goto, GoSlow, Advance
  <1>3. Read(r) => Reading(r)
    BY DEF Reading, Read, CopyRam, FastMiss, Probe, ReadAhead, WalkMiss, Lookup, ExtendRun,
           ReadRun, ReadError, FinishRead
  <1> QED BY <1>1, <1>2, <1>3 DEF Alone

LEMMA NextReads ==
  TypeOK /\ Masks /\ Ranges /\ Filled /\ ReadsHeld /\ [Next]_vars => ReadsHeld'
  <1> SUFFICES ASSUME TypeOK, Masks, Ranges, Filled, ReadsHeld, [Next]_vars PROVE ReadsHeld'
    OBVIOUS
  <1>1. ASSUME \A r \in Readers : Reading(r) => Benign(r), rpc' = rpc
        PROVE  ReadsHeld'
    BY <1>1, BenignHeld DEF ReadsHeld, Reading
  <1>2. ASSUME NEW w \in Writers, NEW e \in Extents, NEW v \in Values, ClaimOffset(w, e, v)
        PROVE  ReadsHeld'
    BY <1>1, <1>2, ClaimBenign DEF ClaimOffset, readerVars
  <1>3. ASSUME NEW w \in Writers, Write(w) PROVE ReadsHeld'
    BY <1>1, <1>3, InsertBenign, SendBenign DEF Write, InsertRam, SendAndAck, readerVars
  <1>4. CASE Flush
    BY <1>1, <1>4, RecvBenign, WriteBenign, MapBenign
    DEF Flush, FlushRecv, FlushWrite, FlushMap, readerVars
  <1>5. ASSUME NEW r \in Readers, Read(r) \/ \E e \in Extents : StartRead(r, e)
        PROVE  ReadsHeld'
    <2> SUFFICES ASSUME NEW y \in Readers, Reading(y)' PROVE ReadHeld(y)'
      BY DEF ReadsHeld
    <2>1. CASE y = r
      BY <1>5, <2>1, StepAlone, StartHeld, OwnHeld DEF ReadsHeld
    <2>2. CASE y # r
      BY <1>5, <2>2, StepAlone, OthersHeld
    <2> QED BY <2>1, <2>2
  <1>6. CASE UNCHANGED vars
    <2>1. UNCHANGED <<storeVars, flusherVars, writerVars, readerVars, window>>
      BY <1>6 DEF vars
    <2>2. UNCHANGED <<ram, bin, rpc>>
      BY <2>1 DEF storeVars, readerVars
    <2>3. \A r \in Readers : Benign(r)
      BY <2>1, <2>2, StoreSame DEF Benign, Untouched, readerVars
    <2> QED BY <1>1, <2>2, <2>3
  <1> QED BY <1>2, <1>3, <1>4, <1>5, <1>6 DEF Next

LEMMA HeldAnswers == TypeOK /\ ReadsHeld => AnswersHeld
  <1> SUFFICES ASSUME TypeOK, ReadsHeld, NEW r \in Readers, rpc[r] = "done", NEW b \in Span(rext[r])
               PROVE  buf[r][b] \in window[r][b]
    BY DEF AnswersHeld
  <1>1. BufferHeld(r) /\ FilledTo(r) = rext[r].n
    BY DEF ReadsHeld, ReadHeld, Reading, FilledTo
  <1> QED BY <1>1, ReadFits DEF BufferHeld

(* While no write of .bin fails, every read answers, for each of its       *)
(* blocks, with a payload that block held while the read was outstanding,  *)
(* whatever writers and the flusher do between the moments at which        *)
(* read_blocks_cached looks in RAM, in the block map and in the file.      *)
THEOREM ReadsAnswered ==
  ASSUME ~DiskErrors
  PROVE  Spec => []AnswersHeld
  <1> DEFINE Inv == TypeOK /\ Masks /\ Ranges /\ Separate /\ Filled /\ ReadsHeld
  <1>1. Init => Inv
    <2>1. Init => Filled /\ ReadsHeld
      BY DEF Init, Filled, ReadsHeld, Reading
    <2> QED BY <2>1, InitTypes, InitMasks, InitRanges
  <1>2. Inv /\ [Next]_vars => Inv'
    BY NextTypes, NextMasks, NextRanges, NextFilled, NextReads
  <1>3. Inv => AnswersHeld
    BY HeldAnswers
  <1> QED BY <1>1, <1>2, <1>3, PTL DEF Spec

-----------------------------------------------------------------------------
(* The refinement mapping *)

Disk    == [b \in Blocks |-> View(b)]
Left(w) == {<<b, Piece(wjob[w], b)>> : b \in wjob[w].first + wpos[w] .. wjob[w].first + wjob[w].n - 1}
Pending == [w \in Writers |-> IF wpc[w] # "ram" THEN {} ELSE Left(w)]
Open    == {w \in Writers : wpc[w] # "idle"}
Answers == [r \in Readers |-> IF rpc[r] = "done" THEN buf[r] ELSE NoBuf]
Asked(r) == {b \in Blocks : window[r][b] # {}}

(* A step of the disk, and none, in terms of the mapping. *)
LEMMA Stutters ==
  ASSUME Disk' = Disk, Pending' = Pending, Open' = Open, window' = window, Answers' = Answers
  PROVE  UNCHANGED Device!vars
  BY DEF Device!vars, Disk, Pending, Left, Open, Answers

LEMMA Submits ==
  ASSUME NEW w \in Writers, w \notin Open, Open' = Open \cup {w},
         Pending' \in [Writers -> SUBSET (Blocks \X Data)],
         \A x \in Writers \ {w} : Pending'[x] = Pending[x],
         \A p, q \in Pending'[w] : p[1] = q[1] => p = q,
         Disk' = Disk, window' = window, Answers' = Answers
  PROVE  Device!Next
  <1>1. Device!Submit(w)
    BY DEF Device!Submit, Disk, Pending, Left, Open, Answers
  <1> QED BY <1>1 DEF Device!Next

LEMMA Applies ==
  ASSUME NEW w \in Writers, NEW P \in SUBSET Pending[w], P # {},
         Pending' = [Pending EXCEPT ![w] = @ \ P],
         Disk' = [b \in Blocks |-> IF \E v \in Data : <<b, v>> \in P
                                   THEN CHOOSE v \in Data : <<b, v>> \in P ELSE Disk[b]],
         window' = [r \in Readers |-> [b \in Blocks |->
                     window[r][b] \cup {v \in Data : <<b, v>> \in P /\ b \in Asked(r)}]],
         Open' = Open, Answers' = Answers
  PROVE  Device!Next
  <1>1. Device!Apply(w, P)
    BY DEF Device!Apply, Device!Covered, Disk, Pending, Left, Open, Answers, Asked
  <1>2. P \in SUBSET Pending[w]
    OBVIOUS
  <1> QED BY <1>1, <1>2 DEF Device!Next, Pending, Left

LEMMA Acknowledges ==
  ASSUME NEW w \in Writers, w \in Open, Pending[w] = {}, Open' = Open \ {w},
         Disk' = Disk, Pending' = Pending, window' = window, Answers' = Answers
  PROVE  Device!Next
  <1>1. Device!Acknowledge(w)
    BY DEF Device!Acknowledge, Disk, Pending, Left, Open, Answers
  <1> QED BY <1>1 DEF Device!Next

LEMMA ReadSubmits ==
  ASSUME NEW r \in Readers, NEW S \in SUBSET Blocks, S # {}, Asked(r) = {},
         window' = [window EXCEPT ![r] = [b \in Blocks |-> IF b \in S THEN {Disk[b]} ELSE {}]],
         Disk' = Disk, Pending' = Pending, Open' = Open, Answers' = Answers
  PROVE  Device!Next
  <1>1. Device!SubmitRead(r, S)
    BY DEF Device!SubmitRead, Device!Covered, Disk, Pending, Left, Open, Answers, Asked
  <1> QED BY <1>1 DEF Device!Next

LEMMA AnswersRead ==
  ASSUME NEW r \in Readers, Asked(r) # {}, Answers[r] = NoBuf,
         Answers' \in [Readers -> [Blocks -> Data \cup {NoData}]],
         \A x \in Readers \ {r} : Answers'[x] = Answers[x],
         \A b \in Asked(r) : Answers'[r][b] \in window[r][b],
         \A b \in Blocks \ Asked(r) : Answers'[r][b] = NoData,
         Disk' = Disk, Pending' = Pending, Open' = Open, window' = window
  PROVE  Device!Next
  <1>1. Device!Answer(r)
    BY DEF Device!Answer, Device!Covered, Device!Nothing, Disk, Pending, Left, Open, Answers, Asked, NoBuf
  <1> QED BY <1>1 DEF Device!Next

LEMMA Retires ==
  ASSUME NEW r \in Readers, Asked(r) # {},
         window' = [window EXCEPT ![r] = [b \in Blocks |-> {}]],
         Answers' = [Answers EXCEPT ![r] = NoBuf],
         Disk' = Disk, Pending' = Pending, Open' = Open
  PROVE  Device!Next
  <1>1. Device!Retire(r)
    BY DEF Device!Retire, Device!Covered, Device!Nothing, Disk, Pending, Left, Open, Answers, Asked, NoBuf
  <1> QED BY <1>1 DEF Device!Next

-----------------------------------------------------------------------------
(* A read has a window, and fills its buffer, for the blocks it covers. *)

Covers(r, b) == Reading(r) /\ b \in Span(rext[r])
Framed == \A r \in Readers : \A b \in Blocks :
            ~Covers(r, b) => window[r][b] = {} /\ buf[r][b] = NoData

LEMMA InitFramed == Init => Framed
  BY DEF Init, Framed, Covers, Reading, NoBuf

LEMMA InsertWindow ==
  ASSUME TypeOK, NEW w \in Writers, InsertRam(w), NEW r \in Readers, NEW b \in Blocks
  PROVE  LET c == wjob[w].first + wpos[w] IN
         window'[r][b] = IF b = c /\ Covers(r, c) THEN window[r][b] \cup {Piece(wjob[w], c)}
                                                  ELSE window[r][b]
  <1> DEFINE c == wjob[w].first + wpos[w]
             p == Piece(wjob[w], c)
  <1>1. window[r] \in [Blocks -> SUBSET (Data \cup {NoData})]
    BY DEF TypeOK
  <1>2. window'[r] = IF Covers(r, c) THEN [window[r] EXCEPT ![c] = @ \cup {p}] ELSE window[r]
    BY DEF InsertRam, Covers, Reading
  <1> QED BY <1>1, <1>2

LEMMA NextFramed == TypeOK /\ Framed /\ [Next]_vars => Framed'
  <1> SUFFICES ASSUME TypeOK, Framed, [Next]_vars,
                      NEW r \in Readers, NEW b \in Blocks, ~Covers(r, b)'
               PROVE  window'[r][b] = {} /\ buf'[r][b] = NoData
    BY DEF Framed
  <1>1. CASE Untouched(r) /\ window'[r] = window[r]
    BY <1>1 DEF Framed, Covers, Reading, Untouched
  <1>2. UNCHANGED readerVars => Untouched(r)
    BY DEF readerVars, Untouched
  <1>3. ASSUME NEW w \in Writers, NEW e \in Extents, NEW v \in Values, ClaimOffset(w, e, v)
        PROVE  Untouched(r) /\ window' = window
    BY <1>2, <1>3 DEF ClaimOffset
  <1>4. ASSUME NEW w \in Writers, InsertRam(w)
        PROVE  window'[r][b] = {} /\ buf'[r][b] = NoData
    <2>1. Untouched(r)
      BY <1>2, <1>4 DEF InsertRam
    <2>2. ~Covers(r, b)
      BY <2>1 DEF Untouched, Covers, Reading
    <2> QED BY <1>4, <2>1, <2>2, InsertWindow DEF Framed, Untouched
  <1>5. ASSUME NEW w \in Writers, SendAndAck(w) PROVE Untouched(r) /\ window' = window
    BY <1>2, <1>5 DEF SendAndAck
  <1>6. Flush => Untouched(r) /\ window' = window
    BY <1>2 DEF Flush, FlushRecv, FlushWrite, FlushMap
  <1>7. ASSUME NEW y \in Readers, Read(y) \/ \E e \in Extents : StartRead(y, e), y # r
        PROVE  Untouched(r) /\ window'[r] = window[r]
    BY <1>7, StepAlone DEF Alone
  <1>8. ASSUME NEW e \in Extents, StartRead(r, e)
        PROVE  window'[r][b] = {} /\ buf'[r][b] = NoData
    BY <1>8 DEF StartRead, Goto, NoBuf, Covers, Reading, TypeOK, ReaderTypes
  <1>9. CASE ReadError(r) \/ FinishRead(r)
    BY <1>9 DEF ReadError, FinishRead, Forget, NoBuf, TypeOK, ReaderTypes
  <1>10. CASE Read(r) /\ ~ReadError(r) /\ ~FinishRead(r)
    <2>1. Reading(r) /\ window' = window /\ rext' = rext /\ rpc'[r] # "idle"
      BY <1>10 DEF Read, Reading, CopyRam, FastMiss, Probe, ReadAhead, WalkMiss, Lookup, ExtendRun,
                   ReadRun, GoSlow, Goto, LastStep, TypeOK, ReaderTypes
    <2>2. ~Covers(r, b) /\ b \notin Span(rext[r])
      BY <2>1 DEF Covers, Reading, Span
    <2>3. buf[r][b] = NoData /\ window[r][b] = {}
      BY <2>2 DEF Framed
    <2>4. CASE buf'[r] = buf[r] \/ buf'[r] = NoBuf
      BY <2>1, <2>3, <2>4 DEF NoBuf
    <2>5. ASSUME NEW pc \in {"fast", "walk"}, CopyRam(r, pc) PROVE buf'[r][b] = NoData
      <3>1. b # Cursor(r)
        BY <2>2, <2>5, AtCursor DEF CopyRam, TypeOK, ReaderTypes
      <3> QED BY <2>3, <2>5, <3>1 DEF CopyRam, TypeOK, ReaderTypes
    <2>6. CASE ReadAhead(r)
      <3>1. \/ buf'[r] = NoBuf
            \/ buf'[r] = [a \in Blocks |-> IF a \in Span(rext[r]) THEN Base[a] ELSE NoData]
        BY <2>6 DEF ReadAhead, GoSlow, TypeOK, ReaderTypes
      <3>2. CASE buf'[r] = NoBuf
        BY <3>2, <2>4
      <3>3. CASE buf'[r] = [a \in Blocks |-> IF a \in Span(rext[r]) THEN Base[a] ELSE NoData]
        BY <2>1, <2>2, <2>3, <3>3
      <3> QED BY <3>1, <3>2, <3>3
    <2>7. CASE ReadRun(r)
      <3>1. Run(r) \subseteq Span(rext[r])
        BY <2>7, ReadFits DEF ReadRun, Run, Span, TypeOK, ReaderTypes
      <3>2. b \notin Run(r)
        BY <2>2, <3>1
      <3> QED BY <2>3, <2>7, <3>2 DEF ReadRun, TypeOK, ReaderTypes
    <2>8. CASE FastMiss(r) \/ Probe(r) \/ WalkMiss(r) \/ Lookup(r) \/ ExtendRun(r)
      BY <2>4, <2>8, <2>1, <2>3 DEF FastMiss, Probe, WalkMiss, Lookup, ExtendRun, GoSlow, TypeOK, ReaderTypes
    <2> QED BY <1>10, <2>1, <2>3, <2>5, <2>6, <2>7, <2>8 DEF Read
  <1>11. UNCHANGED vars => Untouched(r) /\ window' = window
    BY <1>2 DEF vars
  <1> QED
    BY <1>1, <1>3, <1>4, <1>5, <1>6, <1>7, <1>8, <1>9, <1>10, <1>11 DEF Next, Write

-----------------------------------------------------------------------------
(* Every step of the cache is a step of the disk. *)

(* The blocks a read covers are those with a window. *)
LEMMA AskedSpan ==
  ASSUME TypeOK, ReadsHeld, Framed, NEW r \in Readers
  PROVE  /\ \A b \in Blocks : b \in Asked(r) <=> Covers(r, b)
         /\ Reading(r) => Asked(r) = Span(rext[r]) /\ Asked(r) # {}
         /\ ~Reading(r) => Asked(r) = {}
  <1>1. Span(rext[r]) \subseteq Blocks /\ rext[r].first \in Span(rext[r])
    BY ReadFits DEF Span
  <1>2. ASSUME Reading(r), NEW b \in Span(rext[r]) PROVE window[r][b] # {}
    BY <1>2 DEF ReadsHeld, ReadHeld, Current
  <1> QED BY <1>1, <1>2 DEF Asked, Covers, Framed

(* What the disk shows depends on the store alone. *)
LEMMA DiskSame ==
  ASSUME \A b \in Blocks : View(b)' = View(b)
  PROVE  Disk' = Disk
  BY DEF Disk

LEMMA WritesSame ==
  ASSUME UNCHANGED writerVars
  PROVE  Pending' = Pending /\ Open' = Open
  BY DEF writerVars, Pending, Left, Open, Piece

LEMMA AnswersSame ==
  ASSUME UNCHANGED readerVars
  PROVE  Answers' = Answers
  BY DEF readerVars, Answers

LEMMA PendingType ==
  ASSUME TypeOK
  PROVE  Pending \in [Writers -> SUBSET (Blocks \X Data)]
  <1> SUFFICES ASSUME NEW w \in Writers, wpc[w] = "ram" PROVE Left(w) \subseteq Blocks \X Data
    BY DEF Pending
  <1>1. wjob[w] \in Jobs /\ wpos[w] \in Nat
    BY DEF TypeOK, WriterTypes
  <1>2. wjob[w].first + wpos[w] .. wjob[w].first + wjob[w].n - 1 \subseteq Blocks
    BY <1>1, JobFits, CacheAssumption DEF Blocks
  <1> QED BY <1>1, <1>2, PieceIsData DEF Left

LEMMA ClaimStep ==
  ASSUME TypeOK, NEW w \in Writers, NEW e \in Extents, NEW v \in Values, ClaimOffset(w, e, v)
  PROVE  Device!Next
  <1>1. /\ wpc[w] = "idle" /\ wpc'[w] = "ram" /\ wpos'[w] = 0
        /\ wjob'[w].first = e.first /\ wjob'[w].n = e.n /\ wjob'[w].val = v
        /\ \A x \in Writers : x # w => wpc'[x] = wpc[x] /\ wpos'[x] = wpos[x] /\ wjob'[x] = wjob[x]
        /\ UNCHANGED <<ram, blockMap, bin, readerVars, window>>
    BY DEF ClaimOffset, TypeOK, WriterTypes
  <1>2. w \notin Open /\ Open' = Open \cup {w}
    BY <1>1 DEF Open
  <1>3. \A x \in Writers \ {w} : Pending'[x] = Pending[x]
    BY <1>1 DEF Pending, Left, Piece
  <1>4. Pending'[w] = {<<b, <<v, b>> >> : b \in e.first .. e.first + e.n - 1}
    BY <1>1, ExtentFits DEF Pending, Left, Piece
  <1>5. e.first .. e.first + e.n - 1 \subseteq Blocks
    BY ExtentFits, CacheAssumption DEF Blocks
  <1>7. Pending' \in [Writers -> SUBSET (Blocks \X Data)]
    BY <1>3, <1>4, <1>5, PendingType DEF Pending, Data
  <1>8. \A p, q \in Pending'[w] : p[1] = q[1] => p = q
    BY <1>4
  <1>9. Disk' = Disk /\ Answers' = Answers
    BY <1>1, AnswersSame DEF Disk, View, Stored
  <1> QED BY <1>1, <1>2, <1>3, <1>7, <1>8, <1>9, Submits

LEMMA InsertStep ==
  ASSUME TypeOK, ReadsHeld, Framed, NEW w \in Writers, InsertRam(w)
  PROVE  Device!Next
  <1>c. PICK c : c = wjob[w].first + wpos[w]
    OBVIOUS
  <1>p. PICK p : p = Piece(wjob[w], c)
    OBVIOUS
  <1>1. /\ c \in Blocks /\ p \in Data /\ p # NoData /\ ram' = [ram EXCEPT ![c] = p]
        /\ wpc[w] = "ram" /\ wjob[w] \in Jobs /\ wpos[w] \in Nat /\ wpos[w] < wjob[w].n
        /\ wpc' = [wpc EXCEPT ![w] = IF wpos[w] + 1 = wjob[w].n THEN "send" ELSE "ram"]
        /\ wpos'[w] = wpos[w] + 1
        /\ \A x \in Writers : x # w => wpos'[x] = wpos[x]
        /\ UNCHANGED <<blockMap, bin, wjob, readerVars>>
    <2>1. c \in Blocks /\ p \in Data /\ p # NoData /\ ram' = [ram EXCEPT ![c] = p]
      BY <1>c, <1>p, InsertPut
    <2>2. /\ wpc[w] = "ram" /\ wpos' = [wpos EXCEPT ![w] = @ + 1]
          /\ wpc' = [wpc EXCEPT ![w] = IF wpos[w] + 1 = wjob[w].n THEN "send" ELSE "ram"]
          /\ UNCHANGED <<blockMap, bin, wjob, readerVars>>
      BY DEF InsertRam
    <2>3. wjob[w] \in Jobs /\ wpos[w] \in Nat /\ wpos[w] < wjob[w].n
      BY <2>2 DEF TypeOK, WriterTypes
    <2>4. wpos'[w] = wpos[w] + 1 /\ \A x \in Writers : x # w => wpos'[x] = wpos[x]
      BY <2>2 DEF TypeOK, WriterTypes
    <2> QED BY <2>1, <2>2, <2>3, <2>4
  <1> DEFINE P == {<<c, p>>}
  <1>2. P \in SUBSET Pending[w] /\ P # {}
    <2>1. c \in wjob[w].first + wpos[w] .. wjob[w].first + wjob[w].n - 1
      BY <1>1, <1>c, JobFits
    <2> QED BY <1>1, <1>p, <2>1 DEF Pending, Left
  <1>3. Pending' = [Pending EXCEPT ![w] = @ \ P]
    <2>1. Pending'[w] = Pending[w] \ P
      <3>1. Left(w)' = {<<b, Piece(wjob[w], b)>> : b \in c + 1 .. wjob[w].first + wjob[w].n - 1}
        <4>1. wjob'[w].first + wpos'[w] = c + 1
          BY <1>1, <1>c, JobFits
        <4> QED BY <1>1, <4>1 DEF Left, Piece
      <3>2. c .. wjob[w].first + wjob[w].n - 1 = {c} \cup (c + 1 .. wjob[w].first + wjob[w].n - 1)
        BY <1>1, <1>c, JobFits
      <3>3. c \notin c + 1 .. wjob[w].first + wjob[w].n - 1
        BY <1>1, <1>c, JobFits
      <3>4. Left(w)' = Left(w) \ P
        BY <1>c, <1>p, <3>1, <3>2, <3>3 DEF Left
      <3>5. CASE wpos[w] + 1 = wjob[w].n
        <4>1. c + 1 .. wjob[w].first + wjob[w].n - 1 = {}
          BY <1>1, <1>c, <3>5, JobFits
        <4>2. Left(w)' = {} /\ wpc'[w] = "send"
          BY <1>1, <3>1, <3>5, <4>1 DEF TypeOK, WriterTypes
        <4> QED BY <1>1, <3>4, <4>2 DEF Pending
      <3>6. CASE wpos[w] + 1 # wjob[w].n
        <4>1. wpc'[w] = "ram"
          BY <1>1, <3>6 DEF TypeOK, WriterTypes
        <4> QED BY <1>1, <3>4, <4>1 DEF Pending
      <3> QED BY <3>5, <3>6
    <2>2. ASSUME NEW x \in Writers, x # w PROVE Pending'[x] = Pending[x]
      BY <1>1, <2>2 DEF Pending, Left, Piece, TypeOK, WriterTypes
    <2> QED BY <2>1, <2>2 DEF Pending
  <1>4. \A b \in Blocks : \A v \in Data : <<b, v>> \in P <=> b = c /\ v = p
    OBVIOUS
  <1> HIDE DEF P
  <1>5. Disk' = [b \in Blocks |-> IF \E v \in Data : <<b, v>> \in P
                                  THEN CHOOSE v \in Data : <<b, v>> \in P ELSE Disk[b]]
    <2>1. \A b \in Blocks : View(b)' = IF b = c THEN p ELSE View(b)
      BY <1>1 DEF View, Stored, TypeOK, StoreTypes
    <2>2. \A b \in Blocks : (\E v \in Data : <<b, v>> \in P) <=> b = c
      BY <1>1, <1>4
    <2>3. (CHOOSE v \in Data : <<c, v>> \in P) = p
      BY <1>1, <1>4
    <2> QED BY <2>1, <2>2, <2>3 DEF Disk
  <1>6. window' = [r \in Readers |-> [b \in Blocks |->
                    window[r][b] \cup {v \in Data : <<b, v>> \in P /\ b \in Asked(r)}]]
    <2>1. window' \in [Readers -> [Blocks -> SUBSET (Data \cup {NoData})]]
      BY InsertTypes DEF TypeOK
    <2>2. ASSUME NEW r \in Readers, NEW b \in Blocks
          PROVE  window'[r][b] = window[r][b] \cup {v \in Data : <<b, v>> \in P /\ b \in Asked(r)}
      <3>1. window'[r][b] = IF b = c /\ Covers(r, c) THEN window[r][b] \cup {p} ELSE window[r][b]
        BY <1>c, <1>p, InsertWindow
      <3>2. {v \in Data : <<b, v>> \in P /\ b \in Asked(r)}
              = IF b = c /\ Covers(r, c) THEN {p} ELSE {}
        BY <1>1, <1>4, AskedSpan
      <3> QED BY <3>1, <3>2
    <2> QED BY <2>1, <2>2
  <1>7. Open' = Open /\ Answers' = Answers
    BY <1>1, AnswersSame DEF Open, TypeOK, WriterTypes
  <1> QED BY <1>2, <1>3, <1>5, <1>6, <1>7, Applies

LEMMA SendStep ==
  ASSUME TypeOK, NEW w \in Writers, SendAndAck(w)
  PROVE  Device!Next
  <1>1. /\ wpc[w] = "send" /\ wpc' = [wpc EXCEPT ![w] = "idle"]
        /\ UNCHANGED <<ram, blockMap, bin, wjob, wpos, readerVars, window>>
    BY DEF SendAndAck
  <1>2. w \in Open /\ Pending[w] = {} /\ Open' = Open \ {w}
    BY <1>1 DEF Open, Pending, TypeOK, WriterTypes
  <1>3. Pending' = Pending
    BY <1>1 DEF Pending, Left, Piece, TypeOK, WriterTypes
  <1>4. Disk' = Disk /\ Answers' = Answers
    BY <1>1, AnswersSame DEF Disk, View, Stored
  <1> QED BY <1>1, <1>2, <1>3, <1>4, Acknowledges

(* The flusher moves data between tiers: the disk does not change. *)
LEMMA FlushStep ==
  ASSUME TypeOK, Masks, Ranges, Flush
  PROVE  UNCHANGED Device!vars
  <1>1. UNCHANGED <<ram, writerVars, readerVars, window>>
    BY DEF Flush, FlushRecv, FlushWrite, FlushMap
  <1>2. ASSUME NEW b \in Blocks PROVE View(b)' = View(b)
    <2>1. CASE FlushRecv
      BY <1>1, <2>1 DEF FlushRecv, View, Stored
    <2>2. CASE FlushWrite
      <3>1. Stored(b)' = Stored(b)
        BY <2>2, WriteKeepsStored
      <3> QED BY <1>1, <3>1 DEF View
    <2>3. CASE FlushMap
      <3>1. fjob \in Jobs /\ fpos \in Nat /\ fpos < fjob.n /\ fpc # "recv"
        BY <2>3 DEF FlushMap, TypeOK, FlusherTypes
      <3>2. ram[fjob.first + fpos] # NoData
        BY <3>1, JobFits DEF Masks, Span
      <3>3. b # fjob.first + fpos => Stored(b)' = Stored(b)
        BY <2>3 DEF FlushMap, Stored, TypeOK, StoreTypes
      <3> QED BY <1>1, <3>2, <3>3 DEF View
    <2> QED BY <2>1, <2>2, <2>3 DEF Flush
  <1> QED BY <1>1, <1>2, DiskSame, WritesSame, AnswersSame, Stutters

LEMMA StartStep ==
  ASSUME TypeOK, ReadsHeld, Framed, NEW r \in Readers, NEW e \in Extents, StartRead(r, e)
  PROVE  Device!Next
  <1>1. /\ rpc[r] = "idle" /\ rpc' = [rpc EXCEPT ![r] = "fast"]
        /\ window' = [window EXCEPT ![r] = [b \in Blocks |-> IF b \in Span(e) THEN {View(b)} ELSE {}]]
        /\ buf' = [buf EXCEPT ![r] = NoBuf]
        /\ UNCHANGED <<ram, blockMap, bin, writerVars>>
    BY DEF StartRead, Goto, storeVars
  <1>2. Span(e) \in SUBSET Blocks /\ Span(e) # {}
    <2>1. e.first \in Span(e)
      BY ExtentFits DEF Span
    <2> QED BY <2>1, ExtentFits, CacheAssumption DEF Span, Blocks
  <1>3. Asked(r) = {}
    BY <1>1, AskedSpan DEF Reading
  <1>4. window' = [window EXCEPT ![r] = [b \in Blocks |-> IF b \in Span(e) THEN {Disk[b]} ELSE {}]]
    BY <1>1, <1>2 DEF Disk
  <1>5. Answers' = Answers
    BY <1>1 DEF Answers, TypeOK, ReaderTypes
  <1>6. Disk' = Disk /\ Pending' = Pending /\ Open' = Open
    BY <1>1, WritesSame DEF Disk, View, Stored
  <1> QED BY <1>2, <1>3, <1>4, <1>5, <1>6, ReadSubmits

(* The steps of a read before its buffer is full. *)
LEMMA BusyReadStep ==
  ASSUME TypeOK, NEW r \in Readers, Alone(r), rpc[r] # "done", rpc'[r] # "done", window' = window
  PROVE  UNCHANGED Device!vars
  <1>1. UNCHANGED <<ram, blockMap, bin, writerVars>>
    BY DEF Alone, storeVars
  <1>2. Answers' = Answers
    BY DEF Alone, Untouched, Answers
  <1>3. Disk' = Disk
    BY <1>1 DEF Disk, View, Stored
  <1> QED BY <1>1, <1>2, <1>3, WritesSame, Stutters

(* The step that fills the buffer. *)
LEMMA LastReadStep ==
  ASSUME TypeOK, ReadsHeld, Framed, NEW r \in Readers, Alone(r), Reading(r), rpc[r] # "done",
         rpc'[r] = "done", rext'[r] = rext[r], window' = window, ReadHeld(r)', TypeOK', Framed'
  PROVE  Device!Next
  <1>1. UNCHANGED <<ram, blockMap, bin, writerVars>>
    BY DEF Alone, storeVars
  <1>2. Disk' = Disk /\ Pending' = Pending /\ Open' = Open
    BY <1>1, WritesSame DEF Disk, View, Stored
  <1>3. Asked(r) # {} /\ Asked(r) = Span(rext[r])
    BY AskedSpan
  <1>4. Answers[r] = NoBuf /\ Answers'[r] = buf'[r]
    BY DEF Answers
  <1>5. \A x \in Readers \ {r} : Answers'[x] = Answers[x]
    BY DEF Alone, Untouched, Answers
  <1>6. Answers' \in [Readers -> [Blocks -> Data \cup {NoData}]]
    <2>1. buf' \in [Readers -> [Blocks -> Data \cup {NoData}]]
      BY DEF TypeOK, ReaderTypes
    <2> QED BY <2>1 DEF Answers, NoBuf
  <1>7. \A b \in Asked(r) : Answers'[r][b] \in window[r][b]
    <2>1. Before(r, FilledTo(r))' = Span(rext[r])
      BY DEF FilledTo, Before, Span
    <2> QED BY <1>3, <1>4, <2>1 DEF ReadHeld, BufferHeld
  <1>8. \A b \in Blocks \ Asked(r) : Answers'[r][b] = NoData
    BY <1>3, <1>4 DEF Framed, Covers, Span
  <1> QED BY <1>2, <1>3, <1>4, <1>5, <1>6, <1>7, <1>8, AnswersRead

LEMMA ForgetStep ==
  ASSUME TypeOK, ReadsHeld, Framed, NEW r \in Readers, Reading(r), Forget(r)
  PROVE  Device!Next
  <1>1. /\ rpc' = [rpc EXCEPT ![r] = "idle"]
        /\ window' = [window EXCEPT ![r] = [b \in Blocks |-> {}]]
        /\ buf' = [buf EXCEPT ![r] = NoBuf]
        /\ UNCHANGED <<ram, blockMap, bin, writerVars>>
    BY DEF Forget, Goto, storeVars
  <1>2. Asked(r) # {}
    BY AskedSpan
  <1>3. Answers' = [Answers EXCEPT ![r] = NoBuf]
    BY <1>1 DEF Answers, TypeOK, ReaderTypes
  <1>4. Disk' = Disk /\ Pending' = Pending /\ Open' = Open
    BY <1>1, WritesSame DEF Disk, View, Stored
  <1> QED BY <1>1, <1>2, <1>3, <1>4, Retires

LEMMA ReadStep ==
  ASSUME TypeOK, Masks, Ranges, ReadsHeld, Framed, TypeOK', Framed', NEW r \in Readers, Read(r)
  PROVE  Device!Next \/ UNCHANGED Device!vars
  <1>1. Alone(r) /\ Reading(r)
    BY StepAlone
  <1>2. CASE ReadError(r) \/ FinishRead(r)
    BY <1>1, <1>2, ForgetStep DEF ReadError, FinishRead
  <1>3. CASE ~ReadError(r) /\ ~FinishRead(r)
    <2>1. window' = window /\ rext' = rext /\ rpc[r] # "done" /\ rpc'[r] # "idle"
      BY <1>3 DEF Read, CopyRam, FastMiss, Probe, ReadAhead, WalkMiss, Lookup, ExtendRun,
                  ReadRun, GoSlow, Goto, LastStep, TypeOK, ReaderTypes
    <2>2. ReadHeld(r)'
      BY <1>1, <2>1, OwnHeld DEF ReadsHeld, Reading
    <2>3. CASE rpc'[r] = "done"
      BY <1>1, <2>1, <2>2, <2>3, LastReadStep
    <2>4. CASE rpc'[r] # "done"
      BY <1>1, <2>1, <2>4, BusyReadStep
    <2> QED BY <2>3, <2>4
  <1> QED BY <1>2, <1>3

-----------------------------------------------------------------------------
(* While no write of .bin fails, and the loaded map points at data, the    *)
(* write-back cache with its flusher and its read path is a plain disk:    *)
(* every write takes effect between its submission and its acknowledgement,*)
(* every read answers with what its blocks held meanwhile, and the flusher *)
(* changes nothing.                                                        *)
THEOREM CacheIsDevice ==
  ASSUME ~DiskErrors,
         \A m \in LoadedMaps : \A b \in Blocks : m[b] # NoOffset => LoadedBin[m[b]] \in Data
  PROVE  Spec => ImplementsDevice
  <1> DEFINE Inv == TypeOK /\ Masks /\ Ranges /\ Separate /\ Filled /\ ReadsHeld /\ Framed
  <1>1. Init => Inv
    <2>1. Init => Filled /\ ReadsHeld
      BY DEF Init, Filled, ReadsHeld, Reading
    <2> QED BY <2>1, InitTypes, InitMasks, InitRanges, InitFramed
  <1>2. Inv /\ [Next]_vars => Inv'
    BY NextTypes, NextMasks, NextRanges, NextFilled, NextReads, NextFramed
  <1>3. Init => Device!Init
    <2> SUFFICES ASSUME Init PROVE Device!Init
      OBVIOUS
    <2>1. \A b \in Blocks : View(b) \in Data
      BY CacheAssumption DEF Init, View, Stored, NoBuf
    <2> QED BY <2>1 DEF Init, Device!Init, Device!Nothing, NoBuf
  <1>4. Inv /\ Inv' /\ [Next]_vars => [Device!Next]_(Device!vars)
    <2> SUFFICES ASSUME Inv, Inv', [Next]_vars PROVE Device!Next \/ UNCHANGED Device!vars
      OBVIOUS
    <2>1. CASE UNCHANGED vars
      <3>1. UNCHANGED <<ram, blockMap, bin, writerVars, readerVars, window>>
        BY <2>1 DEF vars, storeVars
      <3>2. Disk' = Disk
        BY <3>1 DEF Disk, View, Stored
      <3> QED BY <3>1, <3>2, WritesSame, AnswersSame, Stutters
    <2>2. CASE Next
      BY <2>2, ClaimStep, InsertStep, SendStep, FlushStep, StartStep, ReadStep DEF Next, Write
    <2> QED BY <2>1, <2>2
  <1> QED BY <1>1, <1>2, <1>3, <1>4, PTL DEF Spec, ImplementsDevice, Device!Spec

-----------------------------------------------------------------------------
(* When all is flushed, the file holds what RAM holds. *)

(* Block b is rewritten after position i of the queue: by a job behind i,  *)
(* or by a write task that has put it into RAM and not yet sent it.        *)
Wrote(b) == \E w \in Writers : Busy(w) /\ b \in Inserted(w)
QueuedAfter(i, b) == \E k \in DOMAIN chan : i < k /\ b \in Span(chan[k])
Rewritten(i, b) == QueuedAfter(i, b) \/ Wrote(b)

(* The initiator does not overlap the writes it has outstanding.           *)
OneEach == \A w, x \in Writers : Busy(w) /\ Busy(x) /\ w # x => Disjoint(wjob[w], wjob[x])

(* Block b is still to be mapped by the job in the flusher's hands, or the *)
(* file has what RAM has, or a hole.                                       *)
ToMap(b) == fpc # "recv" /\ b \in Span(fjob) /\ fjob.first + fpos <= b
FileHolds(b) == blockMap[b] # NoOffset /\ bin[blockMap[b]] \in {ram[b], NoData}

(* The last job that carries block b carries what RAM holds of it; when no *)
(* job is left to carry it, the file holds it.                             *)
LastHolds(b) ==
  /\ \A w \in Writers : Busy(w) /\ b \in Inserted(w) => ram[b] = Piece(wjob[w], b)
  /\ \A i \in DOMAIN chan : b \in Span(chan[i]) => ram[b] = Piece(chan[i], b) \/ Rewritten(i, b)
  /\ fpc # "recv" /\ b \in Span(fjob) => ram[b] = Piece(fjob, b) \/ Rewritten(0, b)
  /\ ram[b] # NoData => Rewritten(0, b) \/ ToMap(b) \/ FileHolds(b)
LastsHold == \A b \in Blocks : LastHolds(b)

(* A job being mapped is in the file, but for the holes of a failed write. *)
Landed == fpc = "map" => \A b \in Span(fjob) : bin[Home(fjob, b)] \in {Piece(fjob, b), NoData}
(* Where a failed write may leave what the file held, it held nothing.     *)
Blank == DiskErrors => \A o \in Offsets : Settled(o) \/ bin[o] = NoData
(* What the file held beyond its loaded map when the cache opened: nothing.*)
BlankTail == \A o \in LoadedNext .. MaxOffset - 1 : LoadedBin[o] = NoData

(* What a step that leaves a block's part of the state alone keeps. *)
LEMMA SameRewritten ==
  ASSUME UNCHANGED <<chan, wpc, wjob, wpos>>, NEW b, NEW i
  PROVE  Rewritten(i, b)' = Rewritten(i, b)
  BY DEF Rewritten, Wrote, QueuedAfter, Busy, Inserted, Span

LEMMA InitLasts ==
  ASSUME ~DiskErrors \/ BlankTail
  PROVE  Init => OneEach /\ LastsHold /\ Landed /\ Blank
  <1> SUFFICES ASSUME Init PROVE OneEach /\ LastsHold /\ Landed /\ Blank
    OBVIOUS
  <1>1. chan = << >> /\ fpc = "recv" /\ \A w \in Writers : ~Busy(w)
    BY DEF Init, Busy
  <1>2. \A b \in Blocks : ram[b] = NoData
    BY DEF Init, NoBuf
  <1>3. OneEach /\ LastsHold /\ Landed
    BY <1>1, <1>2 DEF OneEach, LastsHold, LastHolds, Landed
  <1>4. Blank
    <2> SUFFICES ASSUME DiskErrors, NEW o \in Offsets, ~Settled(o) PROVE bin[o] = NoData
      BY DEF Blank
    <2>1. Unwritten = {}
      BY <1>1 DEF Unwritten, Claimed, Queued, Busy
    <2>2. nextOff = LoadedNext /\ bin = LoadedBin
      BY DEF Init
    <2>3. o \in LoadedNext .. MaxOffset - 1
      BY <2>1, <2>2, CacheAssumption DEF Settled, Offsets
    <2> QED BY <2>2, <2>3 DEF BlankTail
  <1> QED BY <1>3, <1>4

(* The initiator's writes stay apart: a new one is submitted only where no *)
(* other is outstanding.                                                   *)
LEMMA NextOneEach ==
  ASSUME ~Overlap
  PROVE  TypeOK /\ OneEach /\ [Next]_vars => OneEach'
  <1> SUFFICES ASSUME TypeOK, OneEach, [Next]_vars PROVE OneEach'
    OBVIOUS
  <1>1. ASSUME NEW w \in Writers, NEW e \in Extents, NEW v \in Values, ClaimOffset(w, e, v)
        PROVE  OneEach'
    <2>1. /\ wjob'[w].first = e.first /\ wjob'[w].n = e.n
          /\ \A x \in Writers : x # w => wjob'[x] = wjob[x] /\ wpc'[x] = wpc[x]
      BY <1>1 DEF ClaimOffset, TypeOK, WriterTypes
    <2>2. Span(wjob'[w]) = Span(e)
      BY <2>1 DEF Span
    <2>3. \A x \in Writers : x # w /\ Busy(x)' => Busy(x) /\ Disjoint(e, wjob[x])
      BY <1>1, <2>1 DEF ClaimOffset, Busy
    <2> QED BY <2>1, <2>2, <2>3 DEF OneEach, Disjoint
  <1>2. ASSUME UNCHANGED wjob, \A x \in Writers : Busy(x)' => Busy(x)
        PROVE  OneEach'
    BY <1>2 DEF OneEach, Disjoint, Span
  <1>3. ASSUME NEW w \in Writers, Write(w)
        PROVE  UNCHANGED wjob /\ \A x \in Writers : Busy(x)' => Busy(x)
    BY <1>3 DEF Write, InsertRam, SendAndAck, Busy, TypeOK, WriterTypes
  <1>4. CASE UNCHANGED writerVars
    BY <1>2, <1>4 DEF writerVars, Busy
  <1>5. Flush => UNCHANGED writerVars
    BY DEF Flush, FlushRecv, FlushWrite, FlushMap
  <1>6. ASSUME NEW r \in Readers, Read(r) \/ \E e \in Extents : StartRead(r, e)
        PROVE  UNCHANGED writerVars
    BY <1>6 DEF StartRead, Read, CopyRam, FastMiss, Probe, ReadAhead, WalkMiss, Lookup, ExtendRun,
                ReadRun, ReadError, FinishRead, Forget
  <1> QED BY <1>1, <1>2, <1>3, <1>4, <1>5, <1>6 DEF Next, vars

-----------------------------------------------------------------------------
(* Only a failed write leaves a hole, and only where there was nothing. *)

LEMMA WriteLands ==
  ASSUME TypeOK, Blank, FlushWrite
  PROVE  Landed'
  <1>1. /\ fjob \in Jobs /\ fjob' = fjob /\ fpc = "write"
    BY JobsInFlight DEF FlushWrite
  <1>2. PICK m \in IF DiskErrors THEN 0 .. fjob.n ELSE {fjob.n} :
          bin' = [o \in Offsets |-> IF o \in fjob.off .. fjob.off + m - 1
                                    THEN Piece(fjob, fjob.first + (o - fjob.off)) ELSE bin[o]]
    BY DEF FlushWrite
  <1>3. /\ fjob.first \in Nat /\ fjob.n \in Nat /\ fjob.off \in Nat
        /\ fjob.off + fjob.n <= MaxOffset /\ MaxOffset \in Nat
    BY <1>1, JobFits, CacheAssumption
  <1>4. m \in Nat /\ m <= fjob.n /\ (~DiskErrors => m = fjob.n)
    BY <1>2, <1>3
  <1>5. ASSUME NEW b \in Span(fjob) PROVE bin'[Home(fjob, b)] \in {Piece(fjob, b), NoData}
    <2>1. b \in Int /\ fjob.first <= b /\ b < fjob.first + fjob.n
      BY <1>3, <1>5 DEF Span
    <2>2. PICK o : o = Home(fjob, b)
      OBVIOUS
    <2>3. /\ o \in Offsets /\ o \in Int /\ fjob.off <= o /\ o < fjob.off + fjob.n
          /\ fjob.first + (o - fjob.off) = b
      BY <1>3, <2>1, <2>2 DEF Home, Offsets
    <2>4. CASE o \in fjob.off .. fjob.off + m - 1
      BY <1>2, <2>2, <2>3, <2>4
    <2>5. CASE o \notin fjob.off .. fjob.off + m - 1
      <3>1. DiskErrors
        BY <1>3, <1>4, <2>3, <2>5
      <3>2. ~Settled(o)
        BY <1>1, <1>3, <2>3 DEF Settled, Unwritten
      <3>3. bin[o] = NoData
        BY <2>3, <3>1, <3>2 DEF Blank
      <3>4. bin'[o] = bin[o]
        BY <1>2, <2>3, <2>5
      <3> QED BY <2>2, <3>3, <3>4
    <2> QED BY <2>4, <2>5
  <1> QED BY <1>1, <1>5 DEF Landed, Span, Home, Piece

LEMMA NextLanded == TypeOK /\ Landed /\ Blank /\ [Next]_vars => Landed'
  <1> SUFFICES ASSUME TypeOK, Landed, Blank, [Next]_vars PROVE Landed'
    OBVIOUS
  <1>1. CASE UNCHANGED <<bin, fpc, fjob>>
    BY <1>1 DEF Landed, Span, Home, Piece
  <1>2. CASE FlushRecv
    BY <1>2 DEF FlushRecv, Landed
  <1>3. CASE FlushMap
    <2>1. UNCHANGED <<bin, fjob>> /\ fpc = "map"
      BY <1>3 DEF FlushMap
    <2> QED BY <2>1 DEF Landed, Span, Home, Piece
  <1>4. ASSUME NEW w \in Writers, Write(w) \/ \E e \in Extents, v \in Values : ClaimOffset(w, e, v)
        PROVE  UNCHANGED <<bin, fpc, fjob>>
    BY <1>4 DEF Write, ClaimOffset, InsertRam, SendAndAck, flusherVars
  <1>5. ASSUME NEW r \in Readers, Read(r) \/ \E e \in Extents : StartRead(r, e)
        PROVE  UNCHANGED <<bin, fpc, fjob>>
    BY <1>5 DEF StartRead, Read, CopyRam, FastMiss, Probe, ReadAhead, WalkMiss, Lookup, ExtendRun,
                ReadRun, ReadError, FinishRead, Forget, storeVars, flusherVars
  <1>6. UNCHANGED vars => UNCHANGED <<bin, fpc, fjob>>
    BY DEF vars, storeVars, flusherVars
  <1> QED BY <1>1, <1>2, <1>3, <1>4, <1>5, <1>6, WriteLands DEF Next, Flush

(* A place written is settled: no other job will write there. *)
LEMMA WriteBlank ==
  ASSUME TypeOK, Ranges, Separate, Blank, FlushWrite
  PROVE  Blank'
  <1> SUFFICES ASSUME DiskErrors, NEW o \in Offsets, ~Settled(o)' PROVE bin'[o] = NoData
    BY DEF Blank
  <1>1. /\ fjob \in Jobs /\ fpc = "write" /\ fpc' = "map" /\ bin' \in [Offsets -> Data \cup {NoData}]
        /\ UNCHANGED <<nextOff, chan, fjob, wpc, wjob>>
    BY JobsInFlight, FlushTypes DEF FlushWrite, Flush, writerVars, TypeOK, StoreTypes
  <1>2. Unwritten' = Claimed \cup Queued /\ Unwritten = Claimed \cup Queued \cup {fjob}
    BY <1>1 DEF Unwritten, Claimed, Queued
  <1>3. \A j \in Claimed \cup Queued : j \in Jobs /\ Apart(j, fjob)
    BY <1>1, JobsInFlight DEF Separate, Claimed, Queued, Busy
  <1>4. o \in Nat /\ nextOff \in Nat /\ fjob.off \in Nat /\ fjob.n \in Nat
        /\ fjob.off + fjob.n <= nextOff
    BY <1>1, JobsInFlight, JobFits, CacheAssumption DEF Offsets, Ranges, Below
  <1>5. ~Settled(o)
    BY <1>1, <1>2 DEF Settled
  <1>6. o < fjob.off \/ fjob.off + fjob.n <= o
    <2>1. SUFFICES ASSUME fjob.off <= o, o < fjob.off + fjob.n PROVE FALSE
      BY <1>4
    <2>2. o < nextOff
      BY <1>4, <2>1
    <2>3. ASSUME NEW j \in Claimed \cup Queued PROVE o < j.off \/ j.off + j.n <= o
      <3>1. j.off \in Nat /\ j.n \in Nat /\ (j.off + j.n <= fjob.off \/ fjob.off + fjob.n <= j.off)
        BY <1>3, <2>3, JobFits DEF Apart
      <3> QED BY <1>4, <2>1, <3>1
    <2> QED BY <1>1, <1>2, <1>4, <2>2, <2>3 DEF Settled
  <1>7. bin'[o] = bin[o]
    <2>1. PICK m \in IF DiskErrors THEN 0 .. fjob.n ELSE {fjob.n} :
            bin' = [p \in Offsets |-> IF p \in fjob.off .. fjob.off + m - 1
                                      THEN Piece(fjob, fjob.first + (p - fjob.off)) ELSE bin[p]]
      BY DEF FlushWrite
    <2>2. m \in Nat /\ m <= fjob.n
      BY <1>4, <2>1
    <2>3. o \notin fjob.off .. fjob.off + m - 1
      BY <1>4, <1>6, <2>2
    <2> QED BY <2>1, <2>3
  <1> QED BY <1>5, <1>7 DEF Blank

LEMMA NextBlank == TypeOK /\ Ranges /\ Separate /\ Blank /\ [Next]_vars => Blank'
  <1> SUFFICES ASSUME TypeOK, Ranges, Separate, Blank, [Next]_vars PROVE Blank'
    OBVIOUS
  <1>n. nextOff \in Nat
    BY JobsInFlight
  <1>1. ASSUME UNCHANGED bin, nextOff' \in Nat, nextOff' >= nextOff,
               \A j \in Unwritten' : j \in Unwritten \/ j.off = nextOff
        PROVE  Blank'
    BY <1>1, SettledStays DEF Blank
  <1>2. ASSUME NEW w \in Writers, NEW e \in Extents, NEW v \in Values, ClaimOffset(w, e, v)
        PROVE  Blank'
    <2>1. /\ nextOff' = nextOff + e.n /\ UNCHANGED <<bin, chan, fpc, fjob>>
          /\ wjob'[w].off = nextOff
          /\ \A x \in Writers : x # w => wjob'[x] = wjob[x] /\ wpc'[x] = wpc[x]
      BY <1>2 DEF ClaimOffset, flusherVars, TypeOK, WriterTypes
    <2>2. \A j \in Unwritten' : j \in Unwritten \/ j.off = nextOff
      BY <2>1 DEF Unwritten, Claimed, Queued
    <2> QED BY <1>1, <1>n, <2>1, <2>2, ExtentFits
  <1>3. ASSUME NEW w \in Writers, SendAndAck(w) PROVE Blank'
    <2>1. /\ Busy(w) /\ chan' = Append(chan, wjob[w]) /\ chan \in Seq(Jobs) /\ wjob[w] \in Jobs
          /\ \A x \in Writers : Busy(x)' => Busy(x)
          /\ UNCHANGED <<bin, nextOff, wjob, fpc, fjob>>
      BY <1>3, JobsInFlight DEF SendAndAck, Busy, flusherVars, TypeOK, WriterTypes, StoreTypes
    <2>2. Queued' \subseteq Queued \cup {wjob[w]}
      BY <2>1, AppendAt DEF Queued
    <2>3. \A j \in Unwritten' : j \in Unwritten
      BY <2>1, <2>2 DEF Unwritten, Claimed, Busy
    <2> QED BY <1>1, <1>n, <2>1, <2>3
  <1>4. CASE FlushRecv
    <2>1. /\ chan # << >> /\ chan' = Tail(chan) /\ fjob' = Head(chan) /\ chan \in Seq(Jobs)
          /\ UNCHANGED <<bin, nextOff, wpc, wjob>>
      BY <1>4 DEF FlushRecv, writerVars, TypeOK, StoreTypes
    <2>2. Queued' \cup {fjob'} \subseteq Queued
      BY <2>1, TailAt DEF Queued
    <2>3. \A j \in Unwritten' : j \in Unwritten
      BY <2>1, <2>2 DEF Unwritten, Claimed
    <2> QED BY <1>1, <1>n, <2>1, <2>3
  <1>5. CASE FlushMap
    <2>1. fpc' # "write" /\ UNCHANGED <<bin, nextOff, chan, wpc, wjob>>
      BY <1>5 DEF FlushMap, writerVars
    <2>2. \A j \in Unwritten' : j \in Unwritten
      BY <2>1 DEF Unwritten, Claimed, Queued
    <2> QED BY <1>1, <1>n, <2>1, <2>2
  <1>6. ASSUME NEW w \in Writers, InsertRam(w) PROVE Blank'
    <2>1. UNCHANGED <<bin, nextOff, chan, fpc, fjob, wjob>> /\ \A x \in Writers : Busy(x)' => Busy(x)
      BY <1>6 DEF InsertRam, flusherVars, Busy, TypeOK, WriterTypes
    <2>2. \A j \in Unwritten' : j \in Unwritten
      BY <2>1 DEF Unwritten, Claimed, Queued, Busy
    <2> QED BY <1>1, <1>n, <2>1, <2>2
  <1>7. CASE UNCHANGED <<storeVars, flusherVars, writerVars>>
    <2>1. UNCHANGED <<bin, nextOff>> /\ Unwritten' = Unwritten
      BY <1>7 DEF storeVars, flusherVars, writerVars, Unwritten, Claimed, Queued
    <2> QED BY <1>1, <1>n, <2>1
  <1>8. ASSUME NEW r \in Readers, Read(r) \/ \E e \in Extents : StartRead(r, e)
        PROVE  UNCHANGED <<storeVars, flusherVars, writerVars>>
    BY <1>8 DEF StartRead, Read, CopyRam, FastMiss, Probe, ReadAhead, WalkMiss, Lookup, ExtendRun,
                ReadRun, ReadError, FinishRead, Forget
  <1> QED BY <1>2, <1>3, <1>4, <1>5, <1>6, <1>7, <1>8, WriteBlank DEF Next, Write, Flush, vars

-----------------------------------------------------------------------------
(* The last job of each block carries what RAM holds. *)

LEMMA ClaimLasts ==
  ASSUME TypeOK, LastsHold, NEW w \in Writers, NEW e \in Extents, NEW v \in Values, ClaimOffset(w, e, v)
  PROVE  LastsHold'
  <1>1. /\ ~Busy(w) /\ wjob'[w].first = e.first /\ wpos'[w] = 0 /\ e.first \in Nat
        /\ \A x \in Writers : x # w => wjob'[x] = wjob[x] /\ wpos'[x] = wpos[x] /\ wpc'[x] = wpc[x]
        /\ UNCHANGED <<ram, blockMap, bin, chan, fpc, fjob, fpos>>
    BY ExtentFits DEF ClaimOffset, Busy, flusherVars, TypeOK, WriterTypes
  <1>2. Inserted(w)' = {}
    BY <1>1 DEF Inserted
  <1> SUFFICES ASSUME NEW b \in Blocks, LastHolds(b) PROVE LastHolds(b)'
    BY DEF LastsHold
  <1>3. ASSUME NEW x \in Writers, Busy(x)', b \in Inserted(x)'
        PROVE  x # w /\ Busy(x) /\ b \in Inserted(x) /\ wjob'[x] = wjob[x]
    BY <1>1, <1>2, <1>3 DEF Busy, Inserted
  <1>4. Wrote(b) => Wrote(b)'
    BY <1>1 DEF Wrote, Busy, Inserted
  <1>5. \A i : Rewritten(i, b) => Rewritten(i, b)'
    BY <1>1, <1>4 DEF Rewritten, QueuedAfter, Span
  <1>6. \A x \in Writers : Busy(x)' /\ b \in Inserted(x)' => ram'[b] = Piece(wjob'[x], b)
    BY <1>1, <1>3 DEF LastHolds, Piece
  <1>7. \A i \in DOMAIN chan' : b \in Span(chan'[i]) => ram'[b] = Piece(chan'[i], b) \/ Rewritten(i, b)'
    BY <1>1, <1>5 DEF LastHolds, Piece, Span
  <1>8. fpc' # "recv" /\ b \in Span(fjob') => ram'[b] = Piece(fjob', b) \/ Rewritten(0, b)'
    BY <1>1, <1>5 DEF LastHolds, Piece, Span
  <1>9. ram'[b] # NoData => Rewritten(0, b)' \/ ToMap(b)' \/ FileHolds(b)'
    BY <1>1, <1>5 DEF LastHolds, ToMap, FileHolds, Span
  <1> QED BY <1>6, <1>7, <1>8, <1>9 DEF LastHolds, Piece, Span

LEMMA InsertLasts ==
  ASSUME TypeOK, OneEach, LastsHold, NEW w \in Writers, InsertRam(w)
  PROVE  LastsHold'
  <1>c. PICK c : c = wjob[w].first + wpos[w]
    OBVIOUS
  <1>p. PICK p : p = Piece(wjob[w], c)
    OBVIOUS
  <1>1. c \in Blocks /\ ram' = [ram EXCEPT ![c] = p]
    BY <1>c, <1>p, InsertPut
  <1>2. /\ Busy(w) /\ wpos'[w] = wpos[w] + 1 /\ \A x \in Writers : x # w => wpos'[x] = wpos[x]
        /\ \A x \in Writers : Busy(x)' <=> Busy(x)
        /\ UNCHANGED <<blockMap, bin, chan, wjob, fpc, fjob, fpos>>
    BY DEF InsertRam, Busy, flusherVars, TypeOK, WriterTypes
  <1>3. wjob[w].first \in Nat /\ wjob[w].n \in Nat /\ wpos[w] \in Nat /\ wpos[w] < wjob[w].n
    BY <1>2, JobsInFlight, JobFits DEF InsertRam, TypeOK, WriterTypes
  <1>4. Inserted(w)' = Inserted(w) \cup {c}
    <2>1. wjob'[w].first + wpos'[w] - 1 = wjob[w].first + wpos[w]
      BY <1>2, <1>3
    <2>2. wjob[w].first .. wjob[w].first + wpos[w]
            = (wjob[w].first .. wjob[w].first + wpos[w] - 1) \cup {wjob[w].first + wpos[w]}
      BY <1>3
    <2> QED BY <1>c, <1>2, <2>1, <2>2 DEF Inserted
  <1>5. \A x \in Writers : x # w => Inserted(x)' = Inserted(x)
    BY <1>2 DEF Inserted
  <1>6. ASSUME NEW x \in Writers, Busy(x), x # w PROVE c \notin Inserted(x)
    <2>1. wjob[x] \in Jobs /\ wpos[x] \in Nat /\ wpos[x] <= wjob[x].n
      BY <1>6, JobFits DEF TypeOK, WriterTypes, Busy
    <2>2. Inserted(x) \subseteq Span(wjob[x])
      BY <2>1, JobFits DEF Inserted, Span
    <2>3. c \in Span(wjob[w])
      BY <1>c, <1>3 DEF Span
    <2> QED BY <1>2, <1>6, <2>2, <2>3 DEF OneEach, Disjoint
  <1> SUFFICES ASSUME NEW b \in Blocks, LastHolds(b) PROVE LastHolds(b)'
    BY DEF LastsHold
  <1>7. CASE b = c
    <2>1. ram'[b] = Piece(wjob'[w], b)
      BY <1>1, <1>2, <1>7, <1>p DEF TypeOK, StoreTypes
    <2>2. \A x \in Writers : Busy(x)' /\ b \in Inserted(x)' => x = w
      BY <1>2, <1>5, <1>6, <1>7
    <2>3. Wrote(b)'
      BY <1>2, <1>4, <1>7 DEF Wrote
    <2>4. \A i : Rewritten(i, b)'
      BY <2>3 DEF Rewritten
    <2> QED BY <2>1, <2>2, <2>4 DEF LastHolds, Piece
  <1>8. CASE b # c
    <2>1. ram'[b] = ram[b]
      BY <1>1, <1>8 DEF TypeOK, StoreTypes
    <2>2. \A x \in Writers : b \in Inserted(x)' <=> b \in Inserted(x)
      BY <1>4, <1>5, <1>8
    <2>3. Wrote(b)' <=> Wrote(b)
      BY <1>2, <2>2 DEF Wrote
    <2>4. \A i : Rewritten(i, b)' <=> Rewritten(i, b)
      BY <1>2, <2>3 DEF Rewritten, QueuedAfter, Span
    <2>5. \A x \in Writers : Busy(x)' /\ b \in Inserted(x)' => ram'[b] = Piece(wjob'[x], b)
      BY <1>2, <2>1, <2>2 DEF LastHolds, Piece
    <2>6. \A i \in DOMAIN chan' : b \in Span(chan'[i]) => ram'[b] = Piece(chan'[i], b) \/ Rewritten(i, b)'
      BY <1>2, <2>1, <2>4 DEF LastHolds, Piece, Span
    <2>7. fpc' # "recv" /\ b \in Span(fjob') => ram'[b] = Piece(fjob', b) \/ Rewritten(0, b)'
      BY <1>2, <2>1, <2>4 DEF LastHolds, Piece, Span
    <2>8. ram'[b] # NoData => Rewritten(0, b)' \/ ToMap(b)' \/ FileHolds(b)'
      BY <1>2, <2>1, <2>4 DEF LastHolds, ToMap, FileHolds, Span
    <2> QED BY <2>5, <2>6, <2>7, <2>8 DEF LastHolds, Piece, Span
  <1> QED BY <1>7, <1>8

(* The job goes to the end of the queue: it is the last to carry its blocks. *)
LEMMA SendLasts ==
  ASSUME TypeOK, LastsHold, NEW w \in Writers, SendAndAck(w)
  PROVE  LastsHold'
  <1>1. /\ Busy(w) /\ chan' = Append(chan, wjob[w]) /\ wpos[w] = wjob[w].n
        /\ \A x \in Writers : Busy(x)' <=> Busy(x) /\ x # w
        /\ UNCHANGED <<ram, blockMap, bin, wjob, wpos, fpc, fjob, fpos>>
    BY DEF SendAndAck, Busy, flusherVars, TypeOK, WriterTypes
  <1>2. chan \in Seq(Jobs) /\ wjob[w] \in Jobs
    BY <1>1, JobsInFlight DEF TypeOK, StoreTypes
  <1>n. PICK n : n = Len(chan) + 1
    OBVIOUS
  <1>3. /\ \A i \in DOMAIN chan : i \in DOMAIN chan' /\ chan'[i] = chan[i] /\ i < n /\ i \in Nat
        /\ n \in DOMAIN chan' /\ chan'[n] = wjob[w] /\ 0 < n
        /\ \A i \in DOMAIN chan' : i \in DOMAIN chan \/ i = n
    BY <1>1, <1>2, <1>n, AppendAt
  <1>4. Inserted(w) = Span(wjob[w])
    BY <1>1 DEF Inserted, Span
  <1> SUFFICES ASSUME NEW b \in Blocks, LastHolds(b) PROVE LastHolds(b)'
    BY DEF LastsHold
  <1>5. ASSUME NEW i, i < n, Rewritten(i, b) PROVE Rewritten(i, b)'
    <2>1. CASE QueuedAfter(i, b)
      BY <1>3, <2>1 DEF Rewritten, QueuedAfter, Span
    <2>2. CASE Wrote(b)
      <3>1. PICK x \in Writers : Busy(x) /\ b \in Inserted(x)
        BY <2>2 DEF Wrote
      <3>2. CASE x = w
        <4>1. b \in Span(wjob[w])
          BY <1>4, <3>1, <3>2
        <4>2. n \in DOMAIN chan' /\ i < n /\ b \in Span(chan'[n])
          BY <1>3, <1>5, <4>1
        <4> QED BY <4>2 DEF Rewritten, QueuedAfter, Span
      <3>3. CASE x # w
        BY <1>1, <3>1, <3>3 DEF Rewritten, Wrote, Inserted
      <3> QED BY <3>2, <3>3
    <2> QED BY <1>5, <2>1, <2>2 DEF Rewritten
  <1>6. \A x \in Writers : Busy(x)' /\ b \in Inserted(x)' => ram'[b] = Piece(wjob'[x], b)
    BY <1>1 DEF LastHolds, Piece, Inserted
  <1>7. ASSUME NEW i \in DOMAIN chan', b \in Span(chan'[i])
        PROVE  ram'[b] = Piece(chan'[i], b) \/ Rewritten(i, b)'
    <2>1. CASE i \in DOMAIN chan
      BY <1>1, <1>3, <1>5, <1>7, <2>1 DEF LastHolds, Piece
    <2>2. CASE i = n
      BY <1>1, <1>3, <1>4, <1>7, <2>2 DEF LastHolds, Piece
    <2> QED BY <1>3, <2>1, <2>2
  <1>8. fpc' # "recv" /\ b \in Span(fjob') => ram'[b] = Piece(fjob', b) \/ Rewritten(0, b)'
    BY <1>1, <1>3, <1>5 DEF LastHolds, Piece, Span
  <1>9. ram'[b] # NoData => Rewritten(0, b)' \/ ToMap(b)' \/ FileHolds(b)'
    BY <1>1, <1>3, <1>5 DEF LastHolds, ToMap, FileHolds, Span
  <1> QED BY <1>6, <1>7, <1>8, <1>9 DEF LastHolds, Piece, Span

(* The job goes from the front of the queue to the flusher. *)
LEMMA RecvLasts ==
  ASSUME TypeOK, LastsHold, FlushRecv
  PROVE  LastsHold'
  <1>1. /\ chan # << >> /\ chan' = Tail(chan) /\ fjob' = Head(chan)
        /\ fpc = "recv" /\ fpc' = "write" /\ fpos' = 0 /\ chan \in Seq(Jobs)
        /\ UNCHANGED <<ram, blockMap, bin, wpc, wjob, wpos>>
    BY DEF FlushRecv, writerVars, TypeOK, StoreTypes
  <1>2. 1 \in DOMAIN chan /\ fjob' = chan[1] /\ chan[1] \in Jobs
    BY <1>1, TailAt
  <1>3. /\ \A i \in DOMAIN chan' : i + 1 \in DOMAIN chan /\ chan'[i] = chan[i + 1] /\ i \in Nat
        /\ \A k \in DOMAIN chan : k # 1 => \E i \in DOMAIN chan' : k = i + 1
    <2>1. DOMAIN chan = 1 .. Len(chan) /\ DOMAIN chan' = 1 .. Len(chan) - 1 /\ Len(chan) \in Nat
      BY <1>1, TailAt
    <2>2. \A k \in DOMAIN chan : k # 1 => k - 1 \in DOMAIN chan' /\ k = (k - 1) + 1
      BY <2>1
    <2>3. \A i \in DOMAIN chan' : i \in Nat
      BY <2>1
    <2>4. \A i \in DOMAIN chan' : i + 1 \in DOMAIN chan /\ chan'[i] = chan[i + 1]
      BY <1>1, TailAt
    <2> QED BY <2>2, <2>3, <2>4
  <1> SUFFICES ASSUME NEW b \in Blocks, LastHolds(b) PROVE LastHolds(b)'
    BY DEF LastsHold
  <1>4. Wrote(b)' = Wrote(b)
    BY <1>1 DEF Wrote, Busy, Inserted
  <1>5. ASSUME NEW i \in Nat, QueuedAfter(i + 1, b) PROVE QueuedAfter(i, b)'
    <2>1. PICK k \in DOMAIN chan : i + 1 < k /\ b \in Span(chan[k])
      BY <1>5 DEF QueuedAfter
    <2>2. PICK h \in DOMAIN chan' : k = h + 1
      BY <1>3, <2>1
    <2>3. chan'[h] = chan[k] /\ i < h
      BY <1>3, <2>1, <2>2
    <2> QED BY <2>1, <2>3 DEF QueuedAfter, Span
  <1>6. ASSUME NEW i \in Nat, Rewritten(i + 1, b) PROVE Rewritten(i, b)'
    BY <1>4, <1>5, <1>6 DEF Rewritten
  <1>7. \A x \in Writers : Busy(x)' /\ b \in Inserted(x)' => ram'[b] = Piece(wjob'[x], b)
    BY <1>1 DEF LastHolds, Piece, Busy, Inserted
  <1>8. ASSUME NEW i \in DOMAIN chan', b \in Span(chan'[i])
        PROVE  ram'[b] = Piece(chan'[i], b) \/ Rewritten(i, b)'
    BY <1>1, <1>3, <1>6, <1>8 DEF LastHolds, Piece
  <1>9. ASSUME b \in Span(fjob') PROVE ram'[b] = Piece(fjob', b) \/ Rewritten(0, b)'
    <2>1. ram[b] = Piece(chan[1], b) \/ Rewritten(0 + 1, b)
      BY <1>2, <1>9 DEF LastHolds
    <2> QED BY <1>1, <1>2, <1>6, <2>1 DEF Piece
  <1>10. ASSUME ram'[b] # NoData PROVE Rewritten(0, b)' \/ ToMap(b)' \/ FileHolds(b)'
    <2>1. CASE Wrote(b)
      BY <1>4, <2>1 DEF Rewritten
    <2>2. CASE QueuedAfter(0, b)
      <3>1. PICK k \in DOMAIN chan : 0 < k /\ b \in Span(chan[k])
        BY <2>2 DEF QueuedAfter
      <3>2. CASE k = 1
        <4>1. b \in Span(fjob') /\ fjob'.first \in Nat /\ fjob'.first + fpos' <= b
          BY <1>1, <1>2, <3>1, <3>2, JobFits DEF Span
        <4> QED BY <1>1, <4>1 DEF ToMap, Span
      <3>3. CASE k # 1
        <4>1. PICK h \in DOMAIN chan' : k = h + 1
          BY <1>3, <3>1, <3>3
        <4>2. chan'[h] = chan[k] /\ 0 < h
          BY <1>1, <1>3, <4>1, TailAt
        <4> QED BY <3>1, <4>2 DEF Rewritten, QueuedAfter, Span
      <3> QED BY <3>2, <3>3
    <2>3. CASE FileHolds(b)
      BY <1>1, <2>3 DEF FileHolds
    <2> QED BY <1>1, <1>10, <2>1, <2>2, <2>3 DEF LastHolds, ToMap, Rewritten
  <1> QED BY <1>7, <1>8, <1>9, <1>10 DEF LastHolds, Piece, Span

(* Nothing is mapped where the flusher writes. *)
LEMMA WriteLasts ==
  ASSUME TypeOK, Ranges, LastsHold, FlushWrite
  PROVE  LastsHold'
  <1>1. /\ fpc = "write" /\ fpc' = "map"
        /\ UNCHANGED <<ram, blockMap, chan, fjob, fpos, wpc, wjob, wpos>>
    BY DEF FlushWrite, writerVars
  <1> SUFFICES ASSUME NEW b \in Blocks, LastHolds(b) PROVE LastHolds(b)'
    BY DEF LastsHold
  <1>2. \A i : Rewritten(i, b)' = Rewritten(i, b)
    BY <1>1, SameRewritten
  <1>3. FileHolds(b) => FileHolds(b)'
    BY <1>1, WriteKeepsStored DEF FileHolds, Stored
  <1>4. ToMap(b) => ToMap(b)'
    BY <1>1 DEF ToMap, Span
  <1>5. \A x \in Writers : Busy(x)' /\ b \in Inserted(x)' => ram'[b] = Piece(wjob'[x], b)
    BY <1>1 DEF LastHolds, Piece, Busy, Inserted
  <1>6. \A i \in DOMAIN chan' : b \in Span(chan'[i]) => ram'[b] = Piece(chan'[i], b) \/ Rewritten(i, b)'
    BY <1>1, <1>2 DEF LastHolds, Piece, Span
  <1>7. b \in Span(fjob') => ram'[b] = Piece(fjob', b) \/ Rewritten(0, b)'
    BY <1>1, <1>2 DEF LastHolds, Piece, Span
  <1>8. ram'[b] # NoData => Rewritten(0, b)' \/ ToMap(b)' \/ FileHolds(b)'
    BY <1>1, <1>2, <1>3, <1>4 DEF LastHolds
  <1> QED BY <1>5, <1>6, <1>7, <1>8 DEF LastHolds, Piece, Span

(* A block is mapped to what its job put in the file. *)
LEMMA MapLasts ==
  ASSUME TypeOK, LastsHold, Landed, FlushMap
  PROVE  LastsHold'
  <1>c. PICK c : c = fjob.first + fpos
    OBVIOUS
  <1>1. /\ fpc = "map" /\ fjob \in Jobs /\ fpos \in Nat /\ fpos < fjob.n /\ fpos' = fpos + 1
        /\ blockMap' = [blockMap EXCEPT ![c] = fjob.off + fpos]
        /\ fpc' = IF fpos + 1 = fjob.n THEN "recv" ELSE "map"
        /\ UNCHANGED <<ram, bin, chan, fjob, wpc, wjob, wpos>>
    BY <1>c DEF FlushMap, TypeOK, FlusherTypes, writerVars
  <1>2. fjob.first \in Nat /\ fjob.off \in Nat /\ fjob.n \in Nat
    BY <1>1, JobFits
  <1>3. c \in Span(fjob) /\ Home(fjob, c) = fjob.off + fpos /\ fjob.off + fpos # NoOffset
    BY <1>c, <1>1, <1>2, CacheAssumption DEF Span, Home
  <1> SUFFICES ASSUME NEW b \in Blocks, LastHolds(b) PROVE LastHolds(b)'
    BY DEF LastsHold
  <1>4. \A i : Rewritten(i, b)' = Rewritten(i, b)
    BY <1>1, SameRewritten
  <1>5. \A x \in Writers : Busy(x)' /\ b \in Inserted(x)' => ram'[b] = Piece(wjob'[x], b)
    BY <1>1 DEF LastHolds, Piece, Busy, Inserted
  <1>6. \A i \in DOMAIN chan' : b \in Span(chan'[i]) => ram'[b] = Piece(chan'[i], b) \/ Rewritten(i, b)'
    BY <1>1, <1>4 DEF LastHolds, Piece, Span
  <1>7. b \in Span(fjob') => ram'[b] = Piece(fjob', b) \/ Rewritten(0, b)'
    BY <1>1, <1>4 DEF LastHolds, Piece, Span
  <1>8. ASSUME ram'[b] # NoData PROVE Rewritten(0, b)' \/ ToMap(b)' \/ FileHolds(b)'
    <2>1. CASE b = c
      <3>1. blockMap'[b] = fjob.off + fpos
        BY <1>1, <2>1 DEF TypeOK, StoreTypes
      <3>2. bin[fjob.off + fpos] \in {Piece(fjob, b), NoData}
        BY <1>1, <1>3, <2>1 DEF Landed
      <3>3. ram[b] = Piece(fjob, b) \/ Rewritten(0, b)
        BY <1>1, <1>3, <2>1 DEF LastHolds
      <3> QED BY <1>1, <1>3, <1>4, <3>1, <3>2, <3>3 DEF FileHolds
    <2>2. CASE b # c
      <3>1. FileHolds(b) => FileHolds(b)'
        BY <1>1, <2>2 DEF FileHolds, TypeOK, StoreTypes
      <3>2. ASSUME ToMap(b) PROVE ToMap(b)'
        <4>1. b \in Int /\ b < fjob.first + fjob.n /\ c <= b
          BY <1>c, <1>2, <3>2 DEF ToMap, Span
        <4>2. fjob.first + (fpos + 1) <= b /\ fpos + 1 # fjob.n
          BY <1>c, <1>1, <1>2, <2>2, <4>1
        <4> QED BY <1>1, <3>2, <4>2 DEF ToMap, Span
      <3> QED BY <1>1, <1>4, <1>8, <3>1, <3>2 DEF LastHolds
    <2> QED BY <2>1, <2>2
  <1> QED BY <1>5, <1>6, <1>7, <1>8 DEF LastHolds, Piece, Span

LEMMA NextLasts ==
  TypeOK /\ Ranges /\ OneEach /\ LastsHold /\ Landed /\ [Next]_vars => LastsHold'
  <1> SUFFICES ASSUME TypeOK, Ranges, OneEach, LastsHold, Landed, [Next]_vars PROVE LastsHold'
    OBVIOUS
  <1>1. CASE UNCHANGED <<storeVars, flusherVars, writerVars>>
    <2>1. UNCHANGED <<ram, blockMap, bin, chan, fpc, fjob, fpos, wpc, wjob, wpos>>
      BY <1>1 DEF storeVars, flusherVars, writerVars
    <2>2. \A i, b : Rewritten(i, b)' = Rewritten(i, b)
      BY <2>1, SameRewritten
    <2>3. \A b : ToMap(b)' = ToMap(b) /\ FileHolds(b)' = FileHolds(b)
      BY <2>1 DEF ToMap, FileHolds, Span
    <2>4. \A x : Busy(x)' = Busy(x) /\ Inserted(x)' = Inserted(x)
      BY <2>1 DEF Busy, Inserted
    <2> QED BY <2>1, <2>2, <2>3, <2>4 DEF LastsHold, LastHolds, Piece, Span
  <1>2. ASSUME NEW r \in Readers, Read(r) \/ \E e \in Extents : StartRead(r, e)
        PROVE  UNCHANGED <<storeVars, flusherVars, writerVars>>
    BY <1>2 DEF StartRead, Read, CopyRam, FastMiss, Probe, ReadAhead, WalkMiss, Lookup, ExtendRun,
                ReadRun, ReadError, FinishRead, Forget
  <1> QED
    BY <1>1, <1>2, ClaimLasts, InsertLasts, SendLasts, RecvLasts, WriteLasts, MapLasts
    DEF Next, Write, Flush, vars

(* With nothing in flight, no block has a job left to carry it. *)
LEMMA FlushedAgrees ==
  ASSUME TypeOK, LastsHold PROVE TiersAgree
  <1> SUFFICES ASSUME Claimed \cup Queued \cup Flushing = {}, NEW b \in Blocks, ram[b] # NoData
               PROVE  FileHolds(b)
    BY DEF TiersAgree, FileHolds
  <1>1. \A w \in Writers : ~Busy(w)
    BY DEF Claimed, Busy
  <1>2. \A k \in DOMAIN chan : FALSE
    BY DEF Queued
  <1>3. fpc = "recv"
    BY DEF Flushing
  <1> QED BY <1>1, <1>2, <1>3 DEF LastsHold, LastHolds, Rewritten, Wrote, QueuedAfter, ToMap

(* With an initiator that does not overlap its outstanding writes, .bin    *)
(* and the block map hold what RAM holds once every write is flushed, but  *)
(* for the holes that failed writes left.  A file that held data beyond    *)
(* its loaded map keeps it where a write fails: either no write fails, or  *)
(* the file was blank there when the cache opened.                         *)
THEOREM DiskHoldsRam ==
  ASSUME ~Overlap, ~DiskErrors \/ BlankTail
  PROVE  Spec => []TiersAgree
  <1> DEFINE Inv == TypeOK /\ Ranges /\ Separate /\ OneEach /\ LastsHold /\ Landed /\ Blank
  <1>1. Init => Inv
    BY InitTypes, InitRanges, InitLasts
  <1>2. Inv /\ [Next]_vars => Inv'
    BY NextTypes, NextRanges, NextOneEach, NextLasts, NextLanded, NextBlank
  <1>3. Inv => TiersAgree
    BY FlushedAgrees
  <1> QED BY <1>1, <1>2, <1>3, PTL DEF Spec
=============================================================================
