--------------------------- MODULE VhdBackendProofs ----------------------------
(***************************************************************************)
(* Theorems of VhdBackend for every image size, number of tasks, failure   *)
(* and restart.  Those about the table in the file assume that no command  *)
(* touches more than two VHD blocks: with three they are false.  Those     *)
(* about reads assume, of an image with a read-ahead cache, an initiator   *)
(* that keeps reads and writes of one chunk apart.                         *)
(***************************************************************************)
EXTENDS VhdBackend, SequenceTheorems, FiniteSetTheorems, TLAPS

-----------------------------------------------------------------------------
(* Units and VHD blocks *)

LEMMA MulMonotone ==
  ASSUME NEW a \in Nat, NEW b \in Nat, NEW c \in Nat, a <= b
  PROVE  a * c <= b * c
  <1>1. PICK d \in Nat : b = a + d
    <2>1. b - a \in Nat /\ b = a + (b - a)
      OBVIOUS
    <2> QED BY <2>1
  <1>2. b * c = a * c + d * c
    BY <1>1
  <1>3. d * c >= 0 /\ a * c \in Nat /\ d * c \in Nat
    BY <1>1
  <1> QED BY <1>2, <1>3

LEMMA DivMod ==
  ASSUME NEW u \in Nat, NEW s \in Nat \ {0}
  PROVE  u \div s \in Nat /\ u % s \in 0 .. s - 1 /\ (u \div s) * s + (u % s) = u
  <1>1. u \div s \in Int /\ u % s \in 0 .. s - 1
    OBVIOUS
  <1>2. u = s * (u \div s) + (u % s)
    OBVIOUS
  <1>3. u \div s >= 0
    OBVIOUS
  <1> QED BY <1>1, <1>2, <1>3

LEMMA DivBound ==
  ASSUME NEW u \in Nat, NEW s \in Nat \ {0}, NEW n \in Nat, u < n * s
  PROVE  u \div s < n
  <1> DEFINE d == u \div s
  <1>1. d \in Nat /\ u % s \in 0 .. s - 1 /\ d * s + (u % s) = u
    BY DivMod
  <1>2. SUFFICES ASSUME n <= d PROVE FALSE
    BY <1>1
  <1> HIDE DEF d
  <1>3. n * s <= d * s /\ n * s \in Nat /\ d * s \in Nat
    BY <1>1, <1>2, MulMonotone
  <1> QED BY <1>1, <1>3

LEMMA BlockOfUnit ==
  ASSUME NEW u \in Units
  PROVE  VBlock(u) \in VBlocks /\ u % Spb \in 0 .. Spb - 1 /\ VBlock(u) * Spb + (u % Spb) = u
  <1>1. u \in Nat /\ Spb \in Nat \ {0} /\ NumBlocks \in Nat /\ NumBlocks * Spb \in Nat /\ u < NumBlocks * Spb
    BY VhdAssumption DEF Units
  <1>2. u \div Spb \in Nat /\ u \div Spb < NumBlocks
    BY <1>1, DivMod, DivBound
  <1>3. u % Spb \in 0 .. Spb - 1 /\ (u \div Spb) * Spb + (u % Spb) = u
    BY <1>1, DivMod
  <1> QED BY <1>1, <1>2, <1>3 DEF VBlock, VBlocks

LEMMA UnitOfBlock ==
  ASSUME NEW k \in VBlocks, NEW i \in 0 .. Spb - 1
  PROVE  k * Spb + i \in Units
  <1>1. k \in Nat /\ k + 1 \in Nat /\ i \in Nat /\ Spb \in Nat /\ NumBlocks \in Nat
        /\ k + 1 <= NumBlocks /\ i <= Spb - 1
    BY VhdAssumption DEF VBlocks
  <1>2. (k + 1) * Spb <= NumBlocks * Spb
    BY <1>1, MulMonotone
  <1>3. (k + 1) * Spb = k * Spb + Spb
    BY <1>1
  <1>4. k * Spb \in Nat /\ NumBlocks * Spb \in Nat
    BY <1>1
  <1> QED BY <1>1, <1>2, <1>3, <1>4 DEF Units

(* What a write task carries. *)
Jobs == {j \in [first : Units, n : 1 .. MaxSpan * Spb, val : Values] :
           [first |-> j.first, n |-> j.n] \in Extents}

LEMMA JobBlocks ==
  ASSUME NEW j \in Jobs
  PROVE  /\ FirstBlock(j) \in VBlocks /\ LastBlock(j) \in VBlocks
         /\ LastBlock(j) - FirstBlock(j) < MaxSpan
  <1> DEFINE e == [first |-> j.first, n |-> j.n]
  <1>1. e \in Extents /\ e.first = j.first /\ e.n = j.n
    BY DEF Jobs
  <1>2. j.first \in Units /\ j.n \in Nat \ {0} /\ j.first + j.n <= NumBlocks * Spb
        /\ VBlock(j.first + j.n - 1) - VBlock(j.first) < MaxSpan
    <2>1. MaxSpan * Spb \in Nat
      BY VhdAssumption
    <2> QED BY <1>1, <2>1 DEF Extents
  <1>3. j.first + j.n - 1 \in Units
    <2>1. NumBlocks * Spb \in Nat
      BY VhdAssumption
    <2> QED BY <1>2, <2>1 DEF Units
  <1> QED BY <1>2, <1>3, BlockOfUnit DEF FirstBlock, LastBlock

LEMMA NewJob ==
  ASSUME NEW e \in Extents, NEW v \in Values
  PROVE  [first |-> e.first, n |-> e.n, val |-> v] \in Jobs
  <1>1. e = [first |-> e.first, n |-> e.n] /\ e.first \in Units /\ e.n \in 1 .. MaxSpan * Spb
    BY DEF Extents
  <1> QED BY <1>1 DEF Jobs

LEMMA NoJobIsJob == NoJob \in Jobs
  <1>1. NumBlocks * Spb \in Nat \ {0} /\ MaxSpan * Spb \in Nat \ {0} /\ 1 <= NumBlocks * Spb /\ 1 <= MaxSpan * Spb
    <2>1. NumBlocks \in Nat /\ MaxSpan \in Nat /\ Spb \in Nat /\ 1 <= NumBlocks /\ 1 <= MaxSpan /\ 1 <= Spb
      BY VhdAssumption
    <2>2. 1 * Spb <= NumBlocks * Spb /\ 1 * Spb <= MaxSpan * Spb
      BY <2>1, MulMonotone
    <2> QED BY <2>1, <2>2
  <1>2. 0 \in Units /\ VBlock(0) \in VBlocks
    BY <1>1, BlockOfUnit DEF Units
  <1>3. [first |-> 0, n |-> 1] \in Extents
    BY <1>1, <1>2, VhdAssumption DEF Extents, VBlocks
  <1>4. (CHOOSE v \in Values : TRUE) \in Values
    BY VhdAssumption
  <1> QED BY <1>1, <1>2, <1>3, <1>4 DEF NoJob, Jobs

LEMMA CopyIsSlot ==
  ASSUME NEW k \in VBlocks
  PROVE  CopyOf(k) \in Slot
  BY UnitOfBlock DEF CopyOf, Parent, Slot, Data

-----------------------------------------------------------------------------
(* Steps that leave the image and its write tasks alone *)

(* What a step of a read task, or an eviction, may do: no more than take   *)
(* the lock for reading, and give it back.                                 *)
Quiet ==
  /\ UNCHANGED <<file, bat, diskBat, excl, wpc, wjob, wpos, wupd, failed>>
  /\ shared' \subseteq Writers \cup Readers
  /\ \A w \in Writers : w \in shared' <=> w \in shared
  /\ excl # {} => shared' \subseteq shared

Types ==
  /\ file \in Seq(Slot)
  /\ bat \in Tables /\ diskBat \in Tables
  /\ shared \subseteq Writers \cup Readers /\ excl \subseteq Writers
  /\ wpc \in [Writers -> {"idle", "invalidate", "check", "lockS", "lockX", "alloc", "bat", "data"}]
  /\ wjob \in [Writers -> Jobs]
  /\ wpos \in [Writers -> Nat]
  /\ \A w \in Writers : wpc[w] = "bat" => wpos[w] # 0
  /\ wupd \in [Writers -> Seq(VBlocks)]
  /\ failed \in BOOLEAN

LEMMA OtherSteps ==
  ASSUME Types,
         \/ \E r \in Readers : Read(r) \/ \E e \in Commands : StartRead(r, e)
         \/ \E c \in Chunks : EvictChunk(c)
         \/ UNCHANGED vars
  PROVE  Quiet
  <1> USE DEF fileVars, lockVars, writerVars, envVars
  <1>0. Writers \cap Readers = {} /\ shared \subseteq Writers \cup Readers /\ excl \subseteq Writers
    BY VhdAssumption DEF Types
  <1>1. ASSUME UNCHANGED vars PROVE Quiet
    BY <1>0, <1>1 DEF vars, Quiet
  <1>2. ASSUME NEW c \in Chunks, EvictChunk(c) PROVE Quiet
    BY <1>0, <1>2 DEF EvictChunk, Quiet
  <1>3. ASSUME NEW r \in Readers, NEW e \in Commands, StartRead(r, e) PROVE Quiet
    BY <1>0, <1>3 DEF StartRead, Quiet
  <1>4. ASSUME NEW r \in Readers, Read(r) PROVE Quiet
    <2>1. ASSUME HitChunk(r, "fast") \/ HitChunk(r, "chunk") PROVE Quiet
      BY <1>0, <2>1 DEF HitChunk, Quiet
    <2>2. ASSUME MissFast(r) \/ LoadChunk(r) PROVE Quiet
      BY <1>0, <2>2 DEF MissFast, LoadChunk, Quiet
    <2>3. ASSUME InsertChunk(r) PROVE Quiet
      BY <1>0, <2>3 DEF InsertChunk, Quiet
    <2>4. ASSUME LockRead(r) PROVE Quiet
      BY <1>0, <2>4 DEF LockRead, LockShared, Quiet
    <2>5. ASSUME ReadBlock(r) PROVE Quiet
      BY <1>0, <2>5 DEF ReadBlock, Quiet
    <2>6. ASSUME FinishRead(r) PROVE Quiet
      BY <1>0, <2>6 DEF FinishRead, Unlock, Quiet
    <2> QED BY <1>4, <2>1, <2>2, <2>3, <2>4, <2>5, <2>6 DEF Read
  <1> QED BY <1>1, <1>2, <1>3, <1>4

LEMMA TypesInit == Init => Types
  <1> SUFFICES ASSUME Init PROVE Types
    OBVIOUS
  <1>1. file = << >> /\ bat = NoTable /\ diskBat = NoTable /\ failed = FALSE /\ NoTasks
    BY DEF Init
  <1>2. NoTable \in Tables
    BY DEF NoTable, Tables
  <1>3. << >> \in Seq(Slot) /\ << >> \in Seq(VBlocks)
    OBVIOUS
  <1>4. /\ shared = {} /\ excl = {} /\ wpc = [w \in Writers |-> "idle"] /\ wjob = [w \in Writers |-> NoJob]
        /\ wpos = [w \in Writers |-> 0] /\ wupd = [w \in Writers |-> << >>]
    BY <1>1 DEF NoTasks
  <1> QED BY <1>1, <1>2, <1>3, <1>4, NoJobIsJob DEF Types

(* The table of a longer file. *)
LEMMA TablesGrow ==
  ASSUME NEW f \in Seq(Slot), NEW g \in Seq(Slot), Len(g) >= Len(f),
         NEW t \in [VBlocks -> 1 .. Len(f) \cup {Free}]
  PROVE  t \in [VBlocks -> 1 .. Len(g) \cup {Free}]
  <1>1. 1 .. Len(f) \subseteq 1 .. Len(g)
    <2>1. Len(f) \in Nat /\ Len(g) \in Nat
      OBVIOUS
    <2> QED BY <2>1
  <1> QED BY <1>1

LEMMA TypesStep == Types /\ [Next]_vars => Types'
  <1> SUFFICES ASSUME Types, [Next]_vars PROVE Types'
    OBVIOUS
  <1> USE DEF fileVars, lockVars, writerVars, envVars
  <1>q. ASSUME Quiet PROVE Types'
    BY <1>q DEF Quiet, Types, Tables
  <1>r. ASSUME Restart PROVE Types'
    <2>1. << >> \in Seq(VBlocks)
      OBVIOUS
    <2>2. /\ file' = file /\ diskBat' = diskBat /\ bat' = diskBat /\ shared' = {} /\ excl' = {}
          /\ wpc' = [w \in Writers |-> "idle"] /\ wjob' = [w \in Writers |-> NoJob]
          /\ wpos' = [w \in Writers |-> 0] /\ wupd' = [w \in Writers |-> << >>] /\ failed' = FALSE
      BY <1>r DEF Restart
    <2> QED BY <2>1, <2>2, NoJobIsJob DEF Types, Tables
  <1>1. ASSUME NEW w \in Writers, NEW e \in Commands, NEW v \in Values, StartWrite(w, e, v) PROVE Types'
    <2>1. e \in Extents
      BY VhdAssumption
    <2>2. [first |-> e.first, n |-> e.n, val |-> v] \in Jobs
      BY <2>1, NewJob
    <2> HIDE DEF writerVars
    <2> QED BY <1>1, <2>2 DEF StartWrite, WGoto, Types, Tables
  <1>w. ASSUME NEW w \in Writers, Write(w) PROVE Types'
    <2>0. FirstBlock(wjob[w]) \in Nat /\ LastBlock(wjob[w]) \in VBlocks /\ NumBlocks \in Nat
      BY JobBlocks, VhdAssumption DEF Types, VBlocks
    <2>1. ASSUME Invalidate(w) PROVE Types'
      BY <2>1 DEF Invalidate, WGoto, Types, Tables
    <2>2. ASSUME CheckAllocation(w) PROVE Types'
      BY <2>2 DEF CheckAllocation, WGoto, Types, Tables
    <2>3. ASSUME AcquireShared(w) PROVE Types'
      BY <2>0, <2>3 DEF AcquireShared, LockShared, WGoto, Types, Tables
    <2>4. ASSUME AcquireExcl(w) PROVE Types'
      BY <2>0, <2>4 DEF AcquireExcl, LockExcl, WGoto, Types, Tables
    <2>5. ASSUME AllocBlock(w) PROVE Types'
      <3> DEFINE k == wpos[w]
      <3>1. k \in Nat /\ k + 1 \in Nat
        BY DEF Types
      <3>2. CASE bat[k] = Free
        <4>1. k \in VBlocks
          BY <2>0, <2>5, <3>1 DEF AllocBlock, VBlocks
        <4>2. file' = Append(file, CopyOf(k)) /\ bat' = [bat EXCEPT ![k] = Len(file) + 1]
              /\ wupd' = [wupd EXCEPT ![w] = Append(@, k)] /\ diskBat' = diskBat
          BY <2>5, <3>2 DEF AllocBlock
        <4>3. file' \in Seq(Slot) /\ Len(file') = Len(file) + 1 /\ Len(file) \in Nat
          BY <4>1, <4>2, CopyIsSlot DEF Types
        <4>4. diskBat' \in Tables' /\ bat \in [VBlocks -> 1 .. Len(file') \cup {Free}]
          BY <4>2, <4>3, TablesGrow DEF Types, Tables
        <4>5. bat' \in Tables'
          <5>1. Len(file) + 1 \in 1 .. Len(file')
            BY <4>3
          <5> QED BY <4>2, <4>4, <5>1 DEF Tables
        <4>6. wupd' \in [Writers -> Seq(VBlocks)]
          <5>1. wupd[w] \in Seq(VBlocks)
            BY DEF Types
          <5>2. Append(wupd[w], k) \in Seq(VBlocks)
            BY <5>1, <4>1
          <5> QED BY <4>2, <5>2 DEF Types
        <4> QED BY <2>5, <3>1, <4>3, <4>4, <4>5, <4>6 DEF AllocBlock, Types
      <3>3. CASE bat[k] # Free
        BY <2>5, <3>1, <3>3 DEF AllocBlock, Types, Tables
      <3> QED BY <3>2, <3>3
    <2>6. ASSUME WriteFails(w) PROVE Types'
      BY <2>6, NoJobIsJob DEF WriteFails, RetireWrite, Unlock, Types, Tables
    <2>7. ASSUME BeginBat(w) PROVE Types'
      BY <2>7 DEF BeginBat, WGoto, Types, Tables
    <2>8. ASSUME WriteBatEntry(w) PROVE Types'
      <3>1. wpos[w] \in Nat /\ wpos[w] + 1 \in Nat
        BY DEF Types
      <3>2. wupd[w][wpos[w]] \in VBlocks
        <4>1. wupd[w] \in Seq(VBlocks) /\ Len(wupd[w]) \in Nat
          BY DEF Types
        <4>2. wpos[w] <= Len(wupd[w]) /\ wpos[w] \in Nat \ {0}
          BY <2>8, <3>1 DEF WriteBatEntry, Types
        <4> QED BY <4>1, <4>2
      <3>3. diskBat' \in Tables
        BY <2>8, <3>2 DEF WriteBatEntry, Types, Tables
      <3> QED BY <2>8, <3>1, <3>3 DEF WriteBatEntry, Types, Tables
    <2>9. ASSUME EndBat(w) PROVE Types'
      BY <2>0, <2>9 DEF EndBat, WGoto, Types, Tables
    <2>10. ASSUME WriteData(w) PROVE Types'
      <3> DEFINE k == wpos[w]
                 S == {u \in Span(wjob[w]) : VBlock(u) = k}
                 new == [i \in 0 .. Spb - 1 |->
                           IF k * Spb + i \in S THEN Piece(wjob[w], k * Spb + i) ELSE file[bat[k]][i]]
      <3>1. k \in Nat /\ k + 1 \in Nat
        BY DEF Types
      <3>2. k \in VBlocks /\ bat[k] \in 1 .. Len(file) /\ bat[k] # Free
        BY <2>0, <2>10, <3>1 DEF WriteData, VBlocks, Types, Tables
      <3>3. file[bat[k]] \in Slot
        BY <3>2 DEF Types
      <3>4. wjob[w].val \in Values
        BY DEF Types, Jobs
      <3>5. new \in Slot
        BY <3>2, <3>3, <3>4, UnitOfBlock DEF Slot, Data, Piece
      <3>6. file' = [file EXCEPT ![bat[k]] = new]
        BY <2>10 DEF WriteData
      <3>7. file' \in Seq(Slot) /\ Len(file') = Len(file)
        BY <3>2, <3>5, <3>6, ExceptSeq DEF Types
      <3> QED BY <2>10, <3>1, <3>7 DEF WriteData, Types, Tables
    <2>11. ASSUME AckWrite(w) PROVE Types'
      BY <2>11, NoJobIsJob DEF AckWrite, RetireWrite, Unlock, Types, Tables
    <2> QED BY <1>w, <2>1, <2>2, <2>3, <2>4, <2>5, <2>6, <2>7, <2>8, <2>9, <2>10, <2>11 DEF Write
  <1> QED BY <1>q, <1>r, <1>1, <1>w, OtherSteps DEF Next

-----------------------------------------------------------------------------
(* No data without a place *)

(* What the tasks of VHD blocks rest on: a task past its allocation has a  *)
(* place for every block of its extent, one that is allocating for every   *)
(* block it has passed.                                                    *)
AllocatedFor(w) ==
  \A k \in FirstBlock(wjob[w]) .. LastBlock(wjob[w]) :
    \/ wpc[w] \in {"lockS", "bat", "data"}
    \/ wpc[w] = "alloc" /\ k < wpos[w]
    => bat[k] # Free
Allocated == \A w \in Writers : AllocatedFor(w)

(* A step of one write task: the others stay where they are, and a block   *)
(* that has a place keeps it.                                              *)
Alone(w) ==
  /\ \A x \in Writers \ {w} :
       wpc'[x] = wpc[x] /\ wjob'[x] = wjob[x] /\ wpos'[x] = wpos[x] /\ wupd'[x] = wupd[x]
  /\ \A k \in VBlocks : bat[k] # Free => bat'[k] = bat[k]

LEMMA TaskStep ==
  ASSUME Types, NEW w \in Writers,
         Write(w) \/ \E e \in Commands, v \in Values : StartWrite(w, e, v)
  PROVE  Alone(w)
  <1> USE DEF fileVars, lockVars, writerVars, envVars
  <1>1. ASSUME NEW e \in Commands, NEW v \in Values, StartWrite(w, e, v) PROVE Alone(w)
    BY <1>1 DEF StartWrite, WGoto, Types, Alone
  <1>2. ASSUME Invalidate(w) \/ CheckAllocation(w) PROVE Alone(w)
    BY <1>2 DEF Invalidate, CheckAllocation, WGoto, Types, Alone
  <1>3. ASSUME AcquireShared(w) \/ AcquireExcl(w) PROVE Alone(w)
    BY <1>3 DEF AcquireShared, AcquireExcl, WGoto, Types, Alone
  <1>4. ASSUME AllocBlock(w) PROVE Alone(w)
    BY <1>4 DEF AllocBlock, Types, Tables, Alone
  <1>5. ASSUME WriteFails(w) \/ AckWrite(w) PROVE Alone(w)
    BY <1>5 DEF WriteFails, AckWrite, RetireWrite, Types, Alone
  <1>6. ASSUME BeginBat(w) \/ WriteBatEntry(w) \/ EndBat(w) PROVE Alone(w)
    BY <1>6 DEF BeginBat, WriteBatEntry, EndBat, WGoto, Types, Alone
  <1>7. ASSUME WriteData(w) PROVE Alone(w)
    BY <1>7 DEF WriteData, Types, Alone
  <1> QED BY <1>1, <1>2, <1>3, <1>4, <1>5, <1>6, <1>7 DEF Write

LEMMA Blocks ==
  ASSUME Types, NEW w \in Writers
  PROVE  /\ FirstBlock(wjob[w]) \in VBlocks /\ LastBlock(wjob[w]) \in VBlocks
         /\ FirstBlock(wjob[w]) .. LastBlock(wjob[w]) \subseteq VBlocks
         /\ LastBlock(wjob[w]) - FirstBlock(wjob[w]) < MaxSpan
         /\ wpos[w] \in Nat /\ NumBlocks \in Nat
  <1>1. wjob[w] \in Jobs /\ wpos[w] \in Nat /\ NumBlocks \in Nat
    BY VhdAssumption DEF Types
  <1> QED BY <1>1, JobBlocks DEF VBlocks

LEMMA AllocatedStep == Types /\ Types' /\ Allocated /\ [Next]_vars => Allocated'
  <1> SUFFICES ASSUME Types, Types', Allocated, [Next]_vars PROVE Allocated'
    OBVIOUS
  <1> USE DEF fileVars, lockVars, writerVars, envVars
  <1>q. ASSUME Quiet PROVE Allocated'
    BY <1>q DEF Quiet, Allocated, AllocatedFor, FirstBlock, LastBlock
  <1>r. ASSUME Restart PROVE Allocated'
    BY <1>r DEF Restart, Allocated, AllocatedFor
  <1>w. ASSUME NEW w \in Writers, Write(w) \/ \E e \in Commands, v \in Values : StartWrite(w, e, v)
        PROVE  Allocated'
    <2>0. Alone(w)
      BY <1>w, TaskStep
    <2>1. ASSUME NEW x \in Writers \ {w} PROVE AllocatedFor(x)'
      BY <2>0, Blocks DEF Alone, Allocated, AllocatedFor, FirstBlock, LastBlock
    <2>2. AllocatedFor(w) /\ FirstBlock(wjob[w]) .. LastBlock(wjob[w]) \subseteq VBlocks
      BY Blocks DEF Allocated
    <2>3. AllocatedFor(w)'
      <3> USE DEF AllocatedFor, Types
      <3>1. ASSUME NEW e \in Commands, NEW v \in Values, StartWrite(w, e, v) PROVE AllocatedFor(w)'
        BY <3>1 DEF StartWrite, WGoto
      <3>2. ASSUME Invalidate(w) PROVE AllocatedFor(w)'
        BY <3>2 DEF Invalidate, WGoto
      <3>3. ASSUME CheckAllocation(w) PROVE AllocatedFor(w)'
        BY <3>3 DEF CheckAllocation, WGoto, FirstBlock, LastBlock
      <3>4. ASSUME AcquireShared(w) PROVE AllocatedFor(w)'
        BY <2>2, <3>4 DEF AcquireShared, WGoto, FirstBlock, LastBlock
      <3>5. ASSUME AcquireExcl(w) PROVE AllocatedFor(w)'
        <4>1. wpos'[w] = FirstBlock(wjob[w]) /\ wpc'[w] = "alloc" /\ wjob' = wjob
          BY <3>5 DEF AcquireExcl, WGoto
        <4>2. FirstBlock(wjob[w]) \in Int
          BY Blocks DEF VBlocks
        <4> QED BY <4>1, <4>2 DEF FirstBlock, LastBlock
      <3>6. ASSUME AllocBlock(w) PROVE AllocatedFor(w)'
        <4>1. /\ wpos'[w] = wpos[w] + 1 /\ wpc'[w] = "alloc" /\ wpc[w] = "alloc" /\ wjob' = wjob
              /\ wpos[w] \in Nat
          BY <3>6 DEF AllocBlock
        <4>2. wpos[w] \in VBlocks => bat'[wpos[w]] # Free
          <5>1. Len(file) + 1 # Free
            BY VhdAssumption
          <5> QED BY <3>6, <5>1 DEF AllocBlock, Tables
        <4>3. ASSUME NEW k \in FirstBlock(wjob[w]) .. LastBlock(wjob[w]), k < wpos[w] + 1
              PROVE  bat'[k] # Free
          <5>1. k \in VBlocks /\ k \in Int
            BY <4>3, <2>2 DEF VBlocks
          <5>2. k < wpos[w] \/ k = wpos[w]
            BY <4>1, <4>3, <5>1
          <5>3. k < wpos[w] => bat[k] # Free
            BY <2>2, <4>1
          <5> QED BY <2>0, <4>2, <5>1, <5>2, <5>3 DEF Alone
        <4> QED BY <4>1, <4>3 DEF FirstBlock, LastBlock
      <3>7. ASSUME WriteFails(w) \/ AckWrite(w) PROVE AllocatedFor(w)'
        BY <3>7 DEF WriteFails, AckWrite, RetireWrite
      <3>8. ASSUME BeginBat(w) PROVE AllocatedFor(w)'
        <4>1. wpos[w] > LastBlock(wjob[w]) /\ wpc[w] = "alloc" /\ wjob' = wjob /\ bat' = bat
          BY <3>8 DEF BeginBat
        <4>2. LastBlock(wjob[w]) \in Int /\ wpos[w] \in Int
          BY Blocks DEF VBlocks
        <4>3. \A k \in FirstBlock(wjob[w]) .. LastBlock(wjob[w]) : k < wpos[w]
          BY <2>2, <4>1, <4>2
        <4> QED BY <2>2, <4>1, <4>3 DEF FirstBlock, LastBlock
      <3>9. ASSUME WriteBatEntry(w) PROVE AllocatedFor(w)'
        BY <2>2, <3>9 DEF WriteBatEntry, FirstBlock, LastBlock
      <3>10. ASSUME EndBat(w) PROVE AllocatedFor(w)'
        BY <2>2, <3>10 DEF EndBat, WGoto, FirstBlock, LastBlock
      <3>11. ASSUME WriteData(w) PROVE AllocatedFor(w)'
        BY <2>2, <3>11 DEF WriteData, FirstBlock, LastBlock
      <3> QED BY <1>w, <3>1, <3>2, <3>3, <3>4, <3>5, <3>6, <3>7, <3>8, <3>9, <3>10, <3>11 DEF Write
    <2> QED BY <2>1, <2>3 DEF Allocated
  <1> QED BY <1>q, <1>r, <1>w, OtherSteps DEF Next

(* The allocation is asked for under one lock and acted on under another,  *)
(* with other writers in between; no write reaches its data phase with a   *)
(* block that has no place ("concurrent write hit unallocated block" never *)
(* happens).                                                               *)
THEOREM BlocksAllocated == Spec => []AllocatedBeforeData
  <1>1. Init => Types /\ Allocated
    <2>1. Init => Allocated
      BY DEF Init, NoTasks, Allocated, AllocatedFor
    <2> QED BY <2>1, TypesInit
  <1>2. Types /\ Allocated /\ [Next]_vars => Types' /\ Allocated'
    BY TypesStep, AllocatedStep
  <1>3. Types /\ Allocated => AllocatedBeforeData
    BY DEF Allocated, AllocatedFor, AllocatedBeforeData
  <1> QED BY <1>1, <1>2, <1>3, PTL DEF Spec

-----------------------------------------------------------------------------
(* The table in the file *)

(* A task that allocates, or saves its entries, is alone under the lock.   *)
Locked ==
  /\ \A w \in Writers : wpc[w] \in {"alloc", "bat"} => excl = {w}
  /\ \A w \in Writers : wpc[w] = "data" => w \in shared \/ excl = {w}
  /\ excl # {} => shared = {}

(* An allocating task walks its extent from the front.                     *)
Walking == \A w \in Writers : wpc[w] = "alloc" => FirstBlock(wjob[w]) <= wpos[w]

(* Every saved entry is the one in memory. *)
Subset == \A k \in VBlocks : diskBat[k] # Free => diskBat[k] = bat[k]

(* The blocks a task has allocated are consecutive, so the slot an entry is*)
(* written to is its own: what three blocks, the middle one already there, *)
(* would break.                                                            *)
Consecutive ==
  \A w \in Writers : wpc[w] \in {"alloc", "bat"} =>
    \A i \in 1 .. Len(wupd[w]) :
      /\ wupd[w][i] = wupd[w][1] + i - 1
      /\ wupd[w][i] \in FirstBlock(wjob[w]) .. LastBlock(wjob[w])
      /\ bat[wupd[w][i]] # Free
      /\ wpc[w] = "alloc" => wupd[w][i] < wpos[w]

(* A place the file's table lacks was given by a write that has yet to save*)
(* it, and still holds the copy of its parent.                             *)
Waiting(w, k) ==
  /\ wpc[w] \in {"alloc", "bat"}
  /\ \E i \in 1 .. Len(wupd[w]) : wupd[w][i] = k /\ (wpc[w] = "bat" => i >= wpos[w])
Unsaved ==
  ~failed => \A k \in VBlocks : diskBat[k] = Free /\ bat[k] # Free =>
    file[bat[k]] = CopyOf(k) /\ \E w \in Writers : Waiting(w, k)

Saved == Locked /\ Walking /\ Injective(bat) /\ Subset /\ Consecutive /\ Unsaved

LEMMA SavedInit == Init => Saved
  <1> SUFFICES ASSUME Init PROVE Saved
    OBVIOUS
  <1>1. /\ bat = NoTable /\ shared = {} /\ excl = {} /\ wpc = [w \in Writers |-> "idle"]
        /\ diskBat = NoTable
    BY DEF Init, NoTasks
  <1> QED BY <1>1 DEF NoTable, Saved, Locked, Walking, Injective, Subset, Consecutive, Unsaved

LEMMA LockedStep == Types /\ Locked /\ [Next]_vars => Locked'
  <1> SUFFICES ASSUME Types, Locked, [Next]_vars PROVE Locked'
    OBVIOUS
  <1> USE DEF fileVars, lockVars, writerVars, envVars
  <1>q. ASSUME Quiet PROVE Locked'
    BY <1>q DEF Quiet, Locked
  <1>r. ASSUME Restart PROVE Locked'
    BY <1>r DEF Restart, Locked
  <1>1. ASSUME NEW w \in Writers, NEW e \in Commands, NEW v \in Values, StartWrite(w, e, v) PROVE Locked'
    BY <1>1 DEF StartWrite, WGoto, Locked, Types
  <1>w. ASSUME NEW w \in Writers, Write(w) PROVE Locked'
    <2>1. ASSUME Invalidate(w) \/ CheckAllocation(w) PROVE Locked'
      BY <2>1 DEF Invalidate, CheckAllocation, WGoto, Locked, Types
    <2>2. ASSUME AcquireShared(w) PROVE Locked'
      BY <2>2 DEF AcquireShared, LockShared, WGoto, Locked, Types
    <2>3. ASSUME AcquireExcl(w) PROVE Locked'
      BY <2>3 DEF AcquireExcl, LockExcl, WGoto, Locked, Types
    <2>4. ASSUME AllocBlock(w) \/ WriteBatEntry(w) PROVE Locked'
      BY <2>4 DEF AllocBlock, WriteBatEntry, Locked, Types
    <2>5. ASSUME WriteFails(w) \/ AckWrite(w) PROVE Locked'
      BY <2>5 DEF WriteFails, AckWrite, RetireWrite, Unlock, Locked, Types
    <2>6. ASSUME BeginBat(w) \/ EndBat(w) PROVE Locked'
      BY <2>6 DEF BeginBat, EndBat, WGoto, Locked, Types
    <2>7. ASSUME WriteData(w) PROVE Locked'
      BY <2>7 DEF WriteData, Locked, Types
    <2> QED BY <1>w, <2>1, <2>2, <2>3, <2>4, <2>5, <2>6, <2>7 DEF Write
  <1> QED BY <1>q, <1>r, <1>1, <1>w, OtherSteps DEF Next

LEMMA WalkingStep == Types /\ Walking /\ [Next]_vars => Walking'
  <1> SUFFICES ASSUME Types, Walking, [Next]_vars PROVE Walking'
    OBVIOUS
  <1> USE DEF fileVars, lockVars, writerVars, envVars
  <1>q. ASSUME Quiet PROVE Walking'
    BY <1>q DEF Quiet, Walking, FirstBlock
  <1>r. ASSUME Restart PROVE Walking'
    BY <1>r DEF Restart, Walking
  <1>w. ASSUME NEW w \in Writers, Write(w) \/ \E e \in Commands, v \in Values : StartWrite(w, e, v)
        PROVE  Walking'
    <2>0. Alone(w)
      BY <1>w, TaskStep
    <2>1. wpc'[w] = "alloc" => FirstBlock(wjob[w])' <= wpos'[w]
      <3>0. FirstBlock(wjob[w]) \in Int /\ wpos[w] \in Int
        BY Blocks DEF VBlocks
      <3>1. ASSUME AcquireExcl(w) PROVE FirstBlock(wjob[w])' <= wpos'[w]
        BY <3>0, <3>1 DEF AcquireExcl, FirstBlock, Types
      <3>2. ASSUME AllocBlock(w) PROVE FirstBlock(wjob[w])' <= wpos'[w]
        BY <3>0, <3>2 DEF AllocBlock, FirstBlock, Walking, Types
      <3>3. ASSUME wpc'[w] = "alloc" PROVE AcquireExcl(w) \/ AllocBlock(w)
        BY <1>w, <3>3 DEF Write, StartWrite, Invalidate, CheckAllocation, AcquireShared, WriteFails,
           BeginBat, WriteBatEntry, EndBat, WriteData, AckWrite, RetireWrite, WGoto, Types
      <3> QED BY <3>1, <3>2, <3>3
    <2> QED BY <2>0, <2>1 DEF Alone, Walking, FirstBlock
  <1> QED BY <1>q, <1>r, <1>w, OtherSteps DEF Next

(* Only these steps of a write task touch the tables. *)
LEMMA TableSteps ==
  ASSUME NEW w \in Writers,
         Write(w) \/ \E e \in Commands, v \in Values : StartWrite(w, e, v)
  PROVE  AllocBlock(w) \/ WriteBatEntry(w) \/ UNCHANGED <<bat, diskBat>>
  BY DEF Write, StartWrite, Invalidate, CheckAllocation, AcquireShared, AcquireExcl, WriteFails,
         BeginBat, EndBat, WriteData, AckWrite, fileVars

LEMMA InjectiveStep == Types /\ Injective(bat) /\ [Next]_vars /\ ~Restart => Injective(bat)'
  <1> SUFFICES ASSUME Types, Injective(bat), [Next]_vars, ~Restart PROVE Injective(bat)'
    OBVIOUS
  <1>q. ASSUME Quiet PROVE Injective(bat)'
    BY <1>q DEF Quiet, Injective
  <1>w. ASSUME NEW w \in Writers, Write(w) \/ \E e \in Commands, v \in Values : StartWrite(w, e, v)
        PROVE  Injective(bat)'
    <2>1. ASSUME AllocBlock(w) PROVE Injective(bat)'
      <3>1. \A k \in VBlocks : bat[k] # Free => bat[k] # Len(file) + 1
        BY DEF Types, Tables
      <3>2. \/ bat' = bat
            \/ bat' = [bat EXCEPT ![wpos[w]] = Len(file) + 1]
        BY <2>1 DEF AllocBlock
      <3>3. bat \in [VBlocks -> 1 .. Len(file) \cup {Free}] /\ Injective(bat)
        BY DEF Types, Tables
      <3>4. \A k, l \in VBlocks : bat'[k] # Free /\ bat'[k] = bat'[l] => k = l
        BY <3>1, <3>2, <3>3 DEF Injective
      <3> QED BY <3>4 DEF Injective
    <2>2. ASSUME WriteBatEntry(w) PROVE Injective(bat)'
      BY <2>2 DEF WriteBatEntry, Injective
    <2> QED BY <1>w, <2>1, <2>2, TableSteps DEF Injective
  <1> QED BY <1>q, <1>w, OtherSteps DEF Next

LEMMA InjectiveRestart == Subset /\ Injective(bat) /\ Restart => Injective(bat)'
  BY DEF Restart, Injective, Subset

(* The entry a step saves goes to the slot of its own block. *)
LEMMA OwnSlot ==
  ASSUME Types, Consecutive, NEW w \in Writers, WriteBatEntry(w)
  PROVE  /\ wupd[w][wpos[w]] \in VBlocks /\ bat[wupd[w][wpos[w]]] # Free
         /\ diskBat' = [diskBat EXCEPT ![wupd[w][wpos[w]]] = bat[wupd[w][wpos[w]]]]
  <1>1. wpc[w] = "bat" /\ wpos[w] <= Len(wupd[w])
        /\ diskBat' = [diskBat EXCEPT ![wupd[w][1] + wpos[w] - 1] = bat[wupd[w][wpos[w]]]]
    BY DEF WriteBatEntry
  <1>2. wpos[w] \in 1 .. Len(wupd[w])
    <2>1. wupd[w] \in Seq(VBlocks) /\ wpos[w] \in Nat /\ wpos[w] # 0
      BY <1>1 DEF Types
    <2> QED BY <1>1, <2>1
  <1>3. /\ wupd[w][wpos[w]] = wupd[w][1] + wpos[w] - 1 /\ bat[wupd[w][wpos[w]]] # Free
        /\ wupd[w][wpos[w]] \in FirstBlock(wjob[w]) .. LastBlock(wjob[w])
    BY <1>1, <1>2 DEF Consecutive
  <1> QED BY <1>1, <1>3, Blocks

LEMMA SubsetStep == Types /\ Consecutive /\ Subset /\ [Next]_vars => Subset'
  <1> SUFFICES ASSUME Types, Consecutive, Subset, [Next]_vars PROVE Subset'
    OBVIOUS
  <1>q. ASSUME Quiet PROVE Subset'
    BY <1>q DEF Quiet, Subset
  <1>r. ASSUME Restart PROVE Subset'
    BY <1>r DEF Restart, Subset
  <1>w. ASSUME NEW w \in Writers, Write(w) \/ \E e \in Commands, v \in Values : StartWrite(w, e, v)
        PROVE  Subset'
    <2>1. ASSUME AllocBlock(w) PROVE Subset'
      BY <2>1 DEF AllocBlock, Subset, Types, Tables
    <2>2. ASSUME WriteBatEntry(w) PROVE Subset'
      <3>1. bat' = bat
        BY <2>2 DEF WriteBatEntry
      <3> QED BY <2>2, <3>1, OwnSlot DEF Subset, Types, Tables
    <2> QED BY <1>w, <2>1, <2>2, TableSteps DEF Subset
  <1> QED BY <1>q, <1>r, <1>w, OtherSteps DEF Next

LEMMA ConsecutiveStep ==
  ASSUME MaxSpan <= 2
  PROVE  Types /\ Types' /\ Walking /\ Consecutive /\ [Next]_vars => Consecutive'
  <1> SUFFICES ASSUME Types, Types', Walking, Consecutive, [Next]_vars PROVE Consecutive'
    OBVIOUS
  <1> DEFINE Fine(w) ==
        wpc[w] \in {"alloc", "bat"} =>
          \A i \in 1 .. Len(wupd[w]) :
            /\ wupd[w][i] = wupd[w][1] + i - 1
            /\ wupd[w][i] \in FirstBlock(wjob[w]) .. LastBlock(wjob[w])
            /\ bat[wupd[w][i]] # Free
            /\ wpc[w] = "alloc" => wupd[w][i] < wpos[w]
  <1>f. (\A w \in Writers : Fine(w)) /\ ((\A w \in Writers : Fine(w)') => Consecutive')
    BY DEF Consecutive
  <1> USE DEF fileVars, lockVars, writerVars, envVars
  <1>q. ASSUME Quiet PROVE Consecutive'
    BY <1>q DEF Quiet, Consecutive, FirstBlock, LastBlock
  <1>r. ASSUME Restart PROVE Consecutive'
    BY <1>r DEF Restart, Consecutive
  <1>w. ASSUME NEW w \in Writers, Write(w) \/ \E e \in Commands, v \in Values : StartWrite(w, e, v)
        PROVE  Consecutive'
    <2>0. Alone(w)
      BY <1>w, TaskStep
    <2>1. ASSUME NEW x \in Writers \ {w} PROVE Fine(x)'
      <3>1. wpc'[x] = wpc[x] /\ wjob'[x] = wjob[x] /\ wpos'[x] = wpos[x] /\ wupd'[x] = wupd[x]
        BY <2>0 DEF Alone
      <3>2. FirstBlock(wjob[x]) .. LastBlock(wjob[x]) \subseteq VBlocks /\ Fine(x)
        BY Blocks, <1>f
      <3> QED BY <2>0, <3>1, <3>2 DEF Alone, FirstBlock, LastBlock
    <2>2. Fine(w)
      BY <1>f
    <2>3. Fine(w)'
      <3> USE DEF Types
      <3>1. ASSUME NEW e \in Commands, NEW v \in Values, StartWrite(w, e, v) PROVE Fine(w)'
        BY <3>1 DEF StartWrite, WGoto
      <3>2. ASSUME Invalidate(w) \/ CheckAllocation(w) \/ AcquireShared(w) PROVE Fine(w)'
        BY <3>2 DEF Invalidate, CheckAllocation, AcquireShared, WGoto
      <3>3. ASSUME AcquireExcl(w) PROVE Fine(w)'
        <4>1. wupd'[w] = << >>
          BY <3>3 DEF AcquireExcl
        <4> QED BY <4>1
      <3>4. ASSUME AllocBlock(w) PROVE Fine(w)'
        <4> DEFINE k == wpos[w]  first == FirstBlock(wjob[w])  last == LastBlock(wjob[w])
        <4>1. /\ wpos'[w] = k + 1 /\ wpc'[w] = "alloc" /\ wpc[w] = "alloc" /\ wjob' = wjob
              /\ k <= last /\ k \in Nat
          BY <3>4 DEF AllocBlock
        <4>2. first \in VBlocks /\ last \in VBlocks /\ last - first < 2 /\ first .. last \subseteq VBlocks
              /\ VBlocks \subseteq Nat
          <5>1. MaxSpan \in Nat /\ VBlocks \subseteq Nat
            BY VhdAssumption DEF VBlocks
          <5>2. first \in VBlocks /\ last \in VBlocks /\ last - first < MaxSpan /\ first .. last \subseteq VBlocks
            BY Blocks
          <5> HIDE DEF first, last
          <5>3. first \in Int /\ last \in Int
            BY <5>1, <5>2
          <5> QED BY <5>1, <5>2, <5>3
        <4>3. CASE bat[k] # Free
          <5>1. wupd' = wupd /\ bat' = bat
            BY <3>4, <4>3 DEF AllocBlock
          <5>2. \A i \in 1 .. Len(wupd[w]) : wupd[w][i] \in Nat /\ wupd[w][i] < k + 1
            BY <2>2, <4>1, <4>2
          <5> QED BY <2>2, <4>1, <5>1, <5>2 DEF FirstBlock, LastBlock
        <4>4. CASE bat[k] = Free
          <5> DEFINE s == wupd[w]  t == Append(s, k)
          <5>1. wupd'[w] = t /\ s \in Seq(VBlocks) /\ Len(s) \in Nat
            BY <3>4, <4>4 DEF AllocBlock
          <5>2. Len(t) = Len(s) + 1 /\ t[Len(s) + 1] = k /\ \A i \in 1 .. Len(s) : t[i] = s[i]
            BY <5>1, <4>1
          <5>3. \A i \in 1 .. Len(s) : s[i] = s[1] + i - 1 /\ s[i] \in first .. last /\ s[i] < k
                                       /\ bat'[s[i]] # Free
            BY <2>0, <2>2, <4>1, <4>2 DEF Alone
          <5>4. Len(s) = 0 \/ (Len(s) = 1 /\ s[1] \in Nat /\ k = s[1] + 1)
            <6> SUFFICES ASSUME Len(s) # 0 PROVE Len(s) = 1 /\ s[1] \in Nat /\ k = s[1] + 1
              OBVIOUS
            <6>1. 1 \in 1 .. Len(s) /\ s[1] \in first .. last /\ s[1] < k
              BY <5>1, <5>3
            <6>2. s[1] \in Nat /\ first \in Nat /\ last \in Nat
              BY <4>2, <6>1
            <6>3. k = s[1] + 1 /\ s[1] = first
              BY <4>1, <4>2, <6>1, <6>2
            <6>4. Len(s) < 2
              <7> SUFFICES ASSUME Len(s) >= 2 PROVE FALSE
                BY <5>1
              <7>1. 2 \in 1 .. Len(s)
                BY <5>1
              <7>2. s[2] = s[1] + 2 - 1 /\ s[2] < k
                BY <5>3, <7>1
              <7> HIDE DEF s, k
              <7> QED BY <6>2, <6>3, <7>2
            <6>5. Len(s) = 1
              <7>1. Len(s) \in Nat /\ Len(s) # 0
                BY <5>1
              <7>2. \A n \in Nat : n # 0 /\ n < 2 => n = 1
                OBVIOUS
              <7> QED BY <6>4, <7>1, <7>2
            <6> QED BY <6>2, <6>3, <6>5
          <5>5. k \in first .. last /\ bat'[k] # Free
            <6>1. k \in VBlocks
              <7>1. NumBlocks \in Nat
                BY VhdAssumption
              <7> QED BY <4>1, <4>2, <7>1 DEF VBlocks
            <6>2. bat'[k] # Free
              <7>1. Len(file) + 1 # Free
                BY VhdAssumption
              <7> QED BY <3>4, <4>4, <6>1, <7>1 DEF AllocBlock, Tables
            <6>3. first <= k
              BY <4>1 DEF Walking
            <6> QED BY <4>1, <4>2, <6>1, <6>2, <6>3
          <5>6. ASSUME NEW i \in 1 .. Len(t)
                PROVE  t[i] = t[1] + i - 1 /\ t[i] \in first .. last /\ bat'[t[i]] # Free /\ t[i] < k + 1
            <6>1. CASE i \in 1 .. Len(s)
              <7>1. 1 \in 1 .. Len(s) /\ s[i] \in Nat
                BY <5>1, <5>3, <6>1, <4>2
              <7> QED BY <4>1, <5>2, <5>3, <6>1, <7>1
            <6>2. CASE i = Len(s) + 1
              <7>1. t[i] = k
                BY <5>2, <6>2
              <7>2. k = t[1] + i - 1
                <8>1. CASE Len(s) = 0
                  <9>1. i = 1 /\ t[1] = k
                    BY <5>2, <6>2, <8>1
                  <9> HIDE DEF t, k
                  <9> QED BY <4>1, <9>1
                <8>2. CASE Len(s) = 1 /\ s[1] \in Nat /\ k = s[1] + 1
                  <9>1. i = 2 /\ t[1] = s[1]
                    BY <5>2, <6>2, <8>2
                  <9> HIDE DEF s, t, k
                  <9> QED BY <8>2, <9>1
                <8> QED BY <5>4, <8>1, <8>2
              <7> QED BY <4>1, <5>5, <7>1, <7>2
            <6> QED BY <5>1, <5>2, <6>1, <6>2
          <5> QED BY <4>1, <5>1, <5>6 DEF FirstBlock, LastBlock
        <4> QED BY <4>3, <4>4
      <3>5. ASSUME WriteFails(w) \/ AckWrite(w) PROVE Fine(w)'
        BY <3>5 DEF WriteFails, AckWrite, RetireWrite
      <3>6. ASSUME BeginBat(w) \/ WriteBatEntry(w) PROVE Fine(w)'
        BY <2>2, <3>6 DEF BeginBat, WriteBatEntry, WGoto, FirstBlock, LastBlock
      <3>7. ASSUME EndBat(w) \/ WriteData(w) PROVE Fine(w)'
        BY <3>7 DEF EndBat, WriteData, WGoto
      <3> QED BY <1>w, <3>1, <3>2, <3>3, <3>4, <3>5, <3>6, <3>7 DEF Write
    <2> QED BY <1>f, <2>1, <2>3
  <1> QED BY <1>q, <1>r, <1>w, OtherSteps DEF Next

LEMMA UnsavedStep ==
  Types /\ Types' /\ Locked /\ Consecutive /\ Unsaved /\ [Next]_vars => Unsaved'
  <1> SUFFICES ASSUME Types, Types', Locked, Consecutive, Unsaved, [Next]_vars PROVE Unsaved'
    OBVIOUS
  <1> USE DEF fileVars, lockVars, writerVars, envVars
  <1>q. ASSUME Quiet PROVE Unsaved'
    BY <1>q DEF Quiet, Unsaved, Waiting
  <1>r. ASSUME Restart PROVE Unsaved'
    BY <1>r DEF Restart, Unsaved
  <1>w. ASSUME NEW w \in Writers, Write(w) \/ \E e \in Commands, v \in Values : StartWrite(w, e, v)
        PROVE  Unsaved'
    <2>0. \A x \in Writers, k \in VBlocks : x # w /\ Waiting(x, k) => Waiting(x, k)'
      BY <1>w, TaskStep DEF Alone, Waiting
    <2> USE DEF Types
    (* Steps that move the task only: it still waits for what it waited for. *)
    <2>1. ASSUME UNCHANGED <<file, bat, diskBat, failed>>,
                 \A k \in VBlocks : Waiting(w, k) => Waiting(w, k)'
          PROVE  Unsaved'
      BY <2>0, <2>1 DEF Unsaved, CopyOf, Parent
    <2>2. ASSUME NEW e \in Commands, NEW v \in Values, StartWrite(w, e, v) PROVE Unsaved'
      <3>1. \A k \in VBlocks : ~Waiting(w, k)
        BY <2>2 DEF StartWrite, Waiting
      <3> QED BY <2>1, <2>2, <3>1 DEF StartWrite
    <2>3. ASSUME Invalidate(w) \/ CheckAllocation(w) \/ AcquireShared(w) \/ AcquireExcl(w) PROVE Unsaved'
      <3>1. \A k \in VBlocks : ~Waiting(w, k)
        BY <2>3 DEF Invalidate, CheckAllocation, AcquireShared, AcquireExcl, Waiting
      <3> QED BY <2>1, <2>3, <3>1 DEF Invalidate, CheckAllocation, AcquireShared, AcquireExcl
    <2>4. ASSUME AllocBlock(w) PROVE Unsaved'
      <3>1. UNCHANGED <<diskBat, failed>> /\ wpc' = wpc /\ wpc[w] = "alloc"
        BY <2>4 DEF AllocBlock
      <3>2. CASE bat[wpos[w]] # Free
        <4>1. UNCHANGED <<file, bat>> /\ wupd' = wupd
          BY <2>4, <3>2 DEF AllocBlock
        <4> QED BY <2>1, <3>1, <4>1 DEF Waiting
      <3>3. CASE bat[wpos[w]] = Free
        <4>0. PICK n : n = wpos[w]
          OBVIOUS
        <4> DEFINE s == wupd[w]
        <4>1. /\ file' = Append(file, CopyOf(n)) /\ bat' = [bat EXCEPT ![n] = Len(file) + 1]
              /\ wupd'[w] = Append(s, n) /\ s \in Seq(VBlocks) /\ Len(s) \in Nat /\ Len(file) \in Nat
          BY <2>4, <3>3, <4>0 DEF AllocBlock
        <4>f. file'[Len(file) + 1] = CopyOf(n) /\ \A i \in 1 .. Len(file) : file'[i] = file[i]
          BY <4>1
        <4>2. Len(Append(s, n)) = Len(s) + 1 /\ Append(s, n)[Len(s) + 1] = n
              /\ \A i \in 1 .. Len(s) : Append(s, n)[i] = s[i]
          BY <4>1
        <4>3. \A k \in VBlocks : Waiting(w, k) => Waiting(w, k)'
          <5> SUFFICES ASSUME NEW k \in VBlocks, Waiting(w, k) PROVE Waiting(w, k)'
            OBVIOUS
          <5>1. PICK i \in 1 .. Len(s) : s[i] = k
            BY DEF Waiting
          <5>2. i \in 1 .. Len(wupd'[w]) /\ wupd'[w][i] = k
            BY <4>1, <4>2, <5>1
          <5> QED BY <3>1, <5>2 DEF Waiting
        <4>4. Waiting(w, n)'
          <5>1. Len(s) + 1 \in 1 .. Len(wupd'[w]) /\ wupd'[w][Len(s) + 1] = n
            BY <4>1, <4>2
          <5> QED BY <3>1, <5>1 DEF Waiting
        <4>5. ASSUME ~failed, NEW k \in VBlocks, diskBat[k] = Free, bat'[k] # Free
              PROVE  file'[bat'[k]] = CopyOf(k) /\ \E x \in Writers : Waiting(x, k)'
          <5>1. CASE k = n
            <6>1. bat'[k] = Len(file) + 1
              BY <4>1, <4>5, <5>1 DEF Tables
            <6> QED BY <4>f, <4>4, <5>1, <6>1
          <5>2. CASE k # n
            <6>1. bat'[k] = bat[k] /\ bat[k] \in 1 .. Len(file)
              BY <4>1, <4>5, <5>2 DEF Tables
            <6>2. file[bat[k]] = CopyOf(k) /\ \E x \in Writers : Waiting(x, k)
              BY <4>5, <6>1 DEF Unsaved
            <6>3. file'[bat[k]] = file[bat[k]]
              BY <4>f, <6>1
            <6> QED BY <2>0, <4>3, <6>1, <6>2, <6>3
          <5> QED BY <5>1, <5>2
        <4> QED BY <3>1, <4>5 DEF Unsaved, CopyOf, Parent
      <3> QED BY <3>2, <3>3
    <2>5. ASSUME WriteFails(w) \/ AckWrite(w) PROVE Unsaved'
      <3>1. UNCHANGED <<file, bat, diskBat>>
        BY <2>5 DEF WriteFails, AckWrite
      <3>2. CASE wpc[w] = "data" \/ wupd[w] = << >>
        <4>1. failed' = failed
          BY <2>5, <3>2 DEF WriteFails, AckWrite
        <4>2. \A k \in VBlocks : ~Waiting(w, k)
          BY <3>2 DEF Waiting
        <4> QED BY <2>1, <3>1, <4>1, <4>2
      <3>3. CASE wpc[w] # "data" /\ wupd[w] # << >>
        <4>1. failed'
          BY <2>5, <3>3 DEF WriteFails, AckWrite
        <4> QED BY <4>1 DEF Unsaved
      <3> QED BY <3>2, <3>3
    <2>6. ASSUME BeginBat(w) PROVE Unsaved'
      <3>1. wpc'[w] = "bat" /\ wpos'[w] = 1 /\ wupd' = wupd
        BY <2>6 DEF BeginBat, WGoto
      <3>2. \A k \in VBlocks : Waiting(w, k) => Waiting(w, k)'
        BY <3>1 DEF Waiting
      <3> QED BY <2>1, <2>6, <3>2 DEF BeginBat
    <2>7. ASSUME WriteBatEntry(w) PROVE Unsaved'
      <3> DEFINE n == wupd[w][wpos[w]]
      <3>1. n \in VBlocks /\ bat[n] # Free /\ diskBat' = [diskBat EXCEPT ![n] = bat[n]]
        BY <2>7, OwnSlot
      <3>2. /\ UNCHANGED <<file, bat, failed>> /\ wupd' = wupd /\ wpc' = wpc /\ wpc[w] = "bat"
            /\ wpos'[w] = wpos[w] + 1 /\ wpos[w] \in Nat
        BY <2>7 DEF WriteBatEntry
      <3>3. ASSUME NEW k \in VBlocks, k # n, Waiting(w, k) PROVE Waiting(w, k)'
        <4>1. PICK i \in 1 .. Len(wupd[w]) : wupd[w][i] = k /\ i >= wpos[w]
          BY <3>2, <3>3 DEF Waiting
        <4>2. i >= wpos[w] + 1
          <5>1. i # wpos[w] /\ i \in Int
            BY <3>3, <4>1
          <5> HIDE DEF n
          <5> QED BY <3>2, <4>1, <5>1
        <4> QED BY <3>2, <4>1, <4>2 DEF Waiting
      <3>4. ASSUME ~failed, NEW k \in VBlocks, diskBat'[k] = Free, bat[k] # Free
            PROVE  file[bat[k]] = CopyOf(k) /\ \E x \in Writers : Waiting(x, k)'
        <4>1. k # n /\ diskBat[k] = Free
          BY <3>1, <3>4 DEF Tables
        <4>2. file[bat[k]] = CopyOf(k) /\ \E x \in Writers : Waiting(x, k)
          BY <3>4, <4>1 DEF Unsaved
        <4> QED BY <2>0, <3>3, <4>1, <4>2
      <3> QED BY <3>2, <3>4 DEF Unsaved, CopyOf, Parent
    <2>8. ASSUME EndBat(w) PROVE Unsaved'
      <3>1. wpc[w] = "bat" /\ wpos[w] > Len(wupd[w]) /\ wpos[w] \in Nat /\ Len(wupd[w]) \in Nat
        BY <2>8 DEF EndBat
      <3>2. \A k \in VBlocks : ~Waiting(w, k)
        BY <3>1 DEF Waiting
      <3> QED BY <2>1, <2>8, <3>2 DEF EndBat
    (* Data are written only when nothing waits: the lock keeps out both kinds of task. *)
    <2>9. ASSUME WriteData(w) PROVE Unsaved'
      <3>1. wpc[w] = "data" /\ UNCHANGED <<bat, diskBat, failed>>
        BY <2>9 DEF WriteData
      <3>2. \A x \in Writers, k \in VBlocks : ~Waiting(x, k)
        BY <3>1 DEF Locked, Waiting
      <3>3. failed \/ \A k \in VBlocks : ~(diskBat[k] = Free /\ bat[k] # Free)
        BY <3>2 DEF Unsaved
      <3> QED BY <3>1, <3>3 DEF Unsaved
    <2> QED BY <1>w, <2>2, <2>3, <2>4, <2>5, <2>6, <2>7, <2>8, <2>9 DEF Write
  <1> QED BY <1>q, <1>r, <1>w, OtherSteps DEF Next

(* Both tables come from the invariant Types /\ Saved: what is not yet in  *)
(* the file's table is known to a task that will put it there, alone under *)
(* the lock, and holds what the parent holds until it has.                 *)
LEMMA SavedAlways ==
  ASSUME MaxSpan <= 2
  PROVE  Spec => [](Types /\ Saved)
  <1>1. Init => Types /\ Saved
    BY TypesInit, SavedInit
  <1>2. Types /\ Saved /\ [Next]_vars => Types' /\ Saved'
    BY TypesStep, LockedStep, WalkingStep, InjectiveStep, InjectiveRestart, SubsetStep, ConsecutiveStep, UnsavedStep DEF Saved
  <1> QED BY <1>1, <1>2, PTL DEF Spec

(* No two blocks ever share a place, in memory or in the file, whichever   *)
(* writes race, fail or are cut short by a restart.                        *)
THEOREM PlacesExclusive ==
  ASSUME MaxSpan <= 2
  PROVE  Spec => []SlotsExclusive
  <1>1. Types /\ Saved => SlotsExclusive
    BY DEF Saved, Subset, Injective, SlotsExclusive
  <1> QED BY <1>1, SavedAlways, PTL

(* Between any two steps a restart would find the disk as it is in memory, *)
(* unless a write failed halfway since the image was opened.               *)
THEOREM RestartFindsDisk ==
  ASSUME MaxSpan <= 2
  PROVE  Spec => []DiskMatchesMemory
  <1>1. Types /\ Saved => DiskMatchesMemory
    <2> SUFFICES ASSUME Types, Saved, ~failed, NEW u \in Units PROVE Persisted(u) = View(u)
      BY DEF DiskMatchesMemory
    <2>1. VBlock(u) \in VBlocks /\ u % Spb \in 0 .. Spb - 1 /\ VBlock(u) * Spb + (u % Spb) = u
      BY BlockOfUnit
    <2>2. CASE diskBat[VBlock(u)] = bat[VBlock(u)]
      BY <2>2 DEF Persisted, View, Stored
    <2>3. CASE diskBat[VBlock(u)] = Free /\ bat[VBlock(u)] # Free
      <3>1. file[bat[VBlock(u)]] = CopyOf(VBlock(u))
        BY <2>1, <2>3 DEF Saved, Unsaved
      <3>2. CopyOf(VBlock(u))[u % Spb] = Parent[u]
        BY <2>1 DEF CopyOf
      <3> QED BY <2>3, <3>1, <3>2 DEF Persisted, View, Stored
    <2> QED BY <2>1, <2>2, <2>3 DEF Saved, Subset
  <1> QED BY <1>1, SavedAlways, PTL

-----------------------------------------------------------------------------
(* Pieces of an extent *)

LEMMA DivIs ==
  ASSUME NEW u \in Nat, NEW d \in Nat \ {0}, NEW a \in Nat
  PROVE  u \div d = a <=> a * d <= u /\ u < a * d + d
  <1>1. PICK b \in Nat : b = u \div d
    BY DivMod
  <1>2. b * d \in Nat /\ a * d \in Nat /\ b * d <= u /\ u < b * d + d
    <2>1. u % d \in 0 .. d - 1 /\ b * d + (u % d) = u
      BY <1>1, DivMod
    <2>2. b * d \in Nat /\ a * d \in Nat
      OBVIOUS
    <2> QED BY <2>1, <2>2
  <1>3. ASSUME b < a PROVE b * d + d <= a * d
    <2>1. b + 1 <= a /\ b + 1 \in Nat
      BY <1>3
    <2>2. (b + 1) * d <= a * d
      BY <2>1, MulMonotone
    <2> QED BY <2>2
  <1>4. ASSUME a < b PROVE a * d + d <= b * d
    <2>1. a + 1 <= b /\ a + 1 \in Nat
      BY <1>4
    <2>2. (a + 1) * d <= b * d
      BY <2>1, MulMonotone
    <2> QED BY <2>2
  <1>5. ASSUME a * d <= u, u < a * d + d PROVE a = b
    <2>1. ~(a < b)
      BY <1>2, <1>4, <1>5
    <2>2. ~(b < a)
      BY <1>2, <1>3, <1>5
    <2> QED BY <2>1, <2>2
  <1> QED BY <1>1, <1>2, <1>5

(* A walk that has come to position p of an extent, at its front or at the *)
(* front of a piece, takes the rest of the piece: an interval from p on.   *)
Rest(f, e, p, d) == {u \in f .. e - 1 : u \div d = p \div d}

LEMMA PieceTaken ==
  ASSUME NEW d \in Nat \ {0}, NEW f \in Nat, NEW e \in Nat, NEW p \in Nat, f <= p, p < e,
         p = f \/ p % d = 0
  PROVE  LET S == Rest(f, e, p, d) IN
         /\ Cardinality(S) \in Nat \ {0} /\ p + Cardinality(S) <= e
         /\ \A u \in f .. e - 1 : u < p + Cardinality(S) => u < p \/ u \in S
         /\ \A u \in S : u >= p
         /\ p + Cardinality(S) = e \/ (p + Cardinality(S)) % d = 0
  <1>s. PICK S : S = Rest(f, e, p, d)
    OBVIOUS
  <1>1. PICK a \in Nat : a = p \div d
    BY DivMod
  <1>2. PICK q \in Nat : q = a * d + d
    OBVIOUS
  <1>3. a * d \in Nat /\ a * d <= p /\ p < q
    BY <1>1, <1>2, DivIs
  <1>4. PICK m \in Nat : m = IF q < e THEN q ELSE e
    OBVIOUS
  <1>5. p = f \/ p = a * d
    <2>1. (p \div d) * d + (p % d) = p
      BY DivMod
    <2> QED BY <1>1, <1>3, <2>1
  <1>6. \A u \in f .. e - 1 : u \div d = a <=> a * d <= u /\ u < q
    BY <1>2, DivIs
  <1>7. S = p .. m - 1
    <2>1. \A u : u \in S <=> u \in f .. e - 1 /\ a * d <= u /\ u < q
      BY <1>s, <1>1, <1>6 DEF Rest
    <2>2. \A u : u \in f .. e - 1 /\ a * d <= u /\ u < q <=> u \in p .. m - 1
      BY <1>3, <1>4, <1>5
    <2> QED BY <2>1, <2>2
  <1>8. Cardinality(S) = m - p
    <2>1. p \in Int /\ m - 1 \in Int /\ ~(p > m - 1)
      BY <1>3, <1>4
    <2>2. Cardinality(p .. m - 1) = IF p > m - 1 THEN 0 ELSE (m - 1) - p + 1
      BY <2>1, FS_Interval
    <2>3. Cardinality(S) = Cardinality(p .. m - 1)
      BY <1>7, Zenon
    <2> QED BY <2>1, <2>2, <2>3
  <1>9. p + Cardinality(S) = m
    BY <1>8
  <1>10. m = e \/ m % d = 0
    <2>1. q % d = 0
      <3>1. (a + 1) * d = q /\ a + 1 \in Nat
        BY <1>2
      <3>2. q \div d = a + 1
        <4>1. q \in Nat /\ (a + 1) * d <= q /\ q < (a + 1) * d + d
          BY <1>2, <3>1
        <4> QED BY <3>1, <4>1, DivIs
      <3>3. (q \div d) * d + (q % d) = q /\ q % d \in 0 .. d - 1
        BY DivMod
      <3> QED BY <3>1, <3>2, <3>3
    <2> QED BY <1>4, <2>1
  <1>11. m <= e /\ Cardinality(S) \in Nat \ {0}
    BY <1>3, <1>4, <1>8
  <1>12. \A u \in S : u >= p
    BY <1>7
  <1>13. \A u \in f .. e - 1 : u < m => u < p \/ u \in S
    <2> SUFFICES ASSUME NEW u \in f .. e - 1, u < m, ~(u < p) PROVE u \in S
      OBVIOUS
    <2>1. u \in p .. m - 1
      OBVIOUS
    <2> QED BY <1>7, <2>1, Zenon
  <1> QED BY <1>s, <1>9, <1>10, <1>11, <1>12, <1>13

-----------------------------------------------------------------------------
(* What the tasks hold *)

(* How far a write task has come in its extent, or its list of entries.    *)
Bounded ==
  \A w \in Writers :
    /\ wpos[w] <= NumBlocks + 1
    /\ wpc[w] = "alloc" => Len(wupd[w]) <= wpos[w] /\ wpos[w] <= NumBlocks
    /\ wpc[w] = "bat"   => Len(wupd[w]) <= NumBlocks /\ wpos[w] <= Len(wupd[w]) + 1
    /\ wpc[w] = "data"  => FirstBlock(wjob[w]) <= wpos[w] /\ wpos[w] <= NumBlocks

Buffers == [Units -> Data \cup {NoData}]
ReaderTypes ==
  /\ cache \in [Chunks -> Buffers]
  /\ rpc \in [Readers -> {"idle", "fast", "chunk", "insert", "lock", "read", "done"}]
  /\ rext \in [Readers -> Extents]
  /\ rpos \in [Readers -> 0 .. NumBlocks * Spb]
  /\ buf \in [Readers -> Buffers] /\ loaded \in [Readers -> Buffers]
  /\ restarts \in 0 .. MaxRestarts /\ caching \in ReadCaches
  /\ window \in [Readers -> [Units -> SUBSET Data]]

(* A read walks its extent from the front, piece by piece: whole chunks    *)
(* with the read-ahead cache, whole VHD blocks without it.                 *)
Chunked == {"fast", "chunk", "insert"}
Direct  == {"lock", "read"}
End(r)  == rext[r].first + rext[r].n
At(r) ==
  /\ rpc[r] = "done" => rpos[r] = End(r)
  /\ rpc[r] \in Chunked \cup Direct => rext[r].first <= rpos[r] /\ rpos[r] < End(r)
  /\ rpc[r] \in Chunked => caching /\ (rpos[r] = rext[r].first \/ rpos[r] % Cpu = 0)
  /\ rpc[r] \in Direct  => rpos[r] = rext[r].first \/ rpos[r] % Spb = 0
ReadsAt == \A r \in Readers : At(r)

(* A read has a window, and fills its buffer, for the units it covers.     *)
Covers(r, u) == rpc[r] # "idle" /\ u \in Span(rext[r])
Framed == \A r \in Readers : \A u \in Units :
            ~Covers(r, u) => window[r][u] = {} /\ buf[r][u] = NoData

(* What every unit holds now is in the window of the reads that cover it,  *)
(* and so is what they have taken so far.                                  *)
Windows == \A r \in Readers : \A u \in Units : Covers(r, u) => View(u) \in window[r][u]
Filled  == \A r \in Readers : \A u \in Units :
             Covers(r, u) /\ u < rpos[r] => buf[r][u] \in window[r][u]

(* The initiator keeps reads and writes of one chunk apart, so what the    *)
(* cache holds, and what a loader is about to put there, is what the file  *)
(* holds: nobody writes it meanwhile.                                      *)
Split ==
  caching => \A w \in Writers, r \in Readers :
    wpc[w] # "idle" /\ rpc[r] # "idle" => ChunksOf(wjob[w]) \cap ChunksOf(rext[r]) = {}
Fresh == \A c \in Chunks : cache[c] # NoBuf =>
           caching /\ \A u \in Units : Chunk(u) = c => cache[c][u] = View(u)
Dropped ==
  \A w \in Writers : wpc[w] \notin {"idle", "invalidate"} =>
    \A c \in ChunksOf(wjob[w]) : cache[c] = NoBuf
Loading == \A r \in Readers : rpc[r] = "insert" =>
             \A u \in Units : Chunk(u) = Chunk(rpos[r]) => loaded[r][u] = View(u)

Held == Framed /\ Windows /\ Filled /\ Split /\ Fresh /\ Dropped /\ Loading

-----------------------------------------------------------------------------
(* The steps of the read tasks *)

LEMMA ExtentFits ==
  ASSUME NEW e \in Extents
  PROVE  /\ e.first \in Nat /\ e.n \in Nat \ {0} /\ e.first + e.n <= NumBlocks * Spb
         /\ Span(e) \subseteq Units /\ e.first \in Span(e)
         /\ Span(e) = e.first .. e.first + e.n - 1
  <1>1. NumBlocks * Spb \in Nat /\ MaxSpan * Spb \in Nat
    BY VhdAssumption
  <1>2. e.first \in Units /\ e.n \in 1 .. MaxSpan * Spb /\ e.first + e.n <= NumBlocks * Spb
    BY DEF Extents
  <1>3. e.first \in Nat /\ e.n \in Nat \ {0}
    BY <1>1, <1>2 DEF Units
  <1> QED BY <1>1, <1>2, <1>3 DEF Units, Span

LEMMA NoExtentFits == NoExt \in Extents
  BY NoJobIsJob DEF NoJob, NoExt, Jobs

LEMMA StoredIsData ==
  ASSUME Types, NEW u \in Units
  PROVE  View(u) \in Data
  <1>1. VBlock(u) \in VBlocks /\ u % Spb \in 0 .. Spb - 1
    BY BlockOfUnit
  <1>2. CASE bat[VBlock(u)] = Free
    BY <1>2 DEF View, Stored, Parent, Data
  <1>3. CASE bat[VBlock(u)] # Free
    <2>1. bat[VBlock(u)] \in 1 .. Len(file)
      BY <1>1, <1>3 DEF Types, Tables
    <2>2. file[bat[VBlock(u)]] \in Slot
      BY <2>1 DEF Types
    <2> QED BY <1>1, <1>3, <2>2 DEF View, Stored, Slot
  <1> QED BY <1>2, <1>3

Disk == [u \in Units |-> View(u)]

LEMMA DiskIsBuffer == Types => Disk \in Buffers
  BY StoredIsData DEF Disk, Buffers

(* The units a read takes in one step, from the chunk (d = Cpu) or the VHD *)
(* block (d = Spb) it is at, and the step that takes them from g.          *)
Part(r, d) == {u \in Span(rext[r]) : u \div d = rpos[r] \div d}
Ahead(r, d) == rpos[r] + Cardinality(Part(r, d))
Takes(r, d, g, pc) ==
  /\ buf' = [buf EXCEPT ![r] = [u \in Units |-> IF u \in Part(r, d) THEN g[u] ELSE buf[r][u]]]
  /\ rpos' = [rpos EXCEPT ![r] = Ahead(r, d)]
  /\ rpc' = [rpc EXCEPT ![r] = IF Ahead(r, d) = End(r) THEN "done" ELSE pc]
  /\ UNCHANGED <<rext, window>>

LEMMA HitTakes ==
  ASSUME ReaderTypes, NEW r \in Readers, NEW pc \in {"fast", "chunk"}, HitChunk(r, pc)
  PROVE  /\ rpc[r] = pc /\ cache[Chunk(rpos[r])] # NoBuf
         /\ Takes(r, Cpu, cache[Chunk(rpos[r])], pc) /\ UNCHANGED <<cache, loaded>>
  <1>1. Here(r, Chunk) = Part(r, Cpu)
    BY DEF Here, Part, Chunk
  <1> QED BY <1>1 DEF HitChunk, Cached, Take, Takes, Ahead, End, RGoto, ReaderTypes

LEMMA InsertTakes ==
  ASSUME ReaderTypes, NEW r \in Readers, InsertChunk(r)
  PROVE  /\ rpc[r] = "insert" /\ cache' = [cache EXCEPT ![Chunk(rpos[r])] = loaded[r]]
         /\ loaded' = [loaded EXCEPT ![r] = NoBuf]
         /\ Takes(r, Cpu, loaded[r], "chunk")
  <1>1. Here(r, Chunk) = Part(r, Cpu)
    BY DEF Here, Part, Chunk
  <1> QED BY <1>1 DEF InsertChunk, Take, Takes, Ahead, End, RGoto, ReaderTypes

LEMMA ReadTakes ==
  ASSUME ReaderTypes, NEW r \in Readers, ReadBlock(r)
  PROVE  rpc[r] = "read" /\ Takes(r, Spb, Disk, "read") /\ UNCHANGED <<cache, loaded>>
  <1>1. Here(r, VBlock) = Part(r, Spb)
    BY DEF Here, Part, VBlock
  <1>2. rpc[r] = "read" /\ Take(r, Part(r, Spb), View, "read") /\ UNCHANGED <<cache, loaded, rext, window>>
    BY <1>1 DEF ReadBlock
  <1>3. [u \in Units |-> IF u \in Part(r, Spb) THEN View(u) ELSE buf[r][u]]
          = [u \in Units |-> IF u \in Part(r, Spb) THEN Disk[u] ELSE buf[r][u]]
    BY DEF Disk
  <1> QED BY <1>2, <1>3 DEF Take, Takes, Ahead, End, RGoto, ReaderTypes

(* A step of one read task leaves the others, the image and its writers.   *)
Apart(r) ==
  /\ UNCHANGED <<file, bat, diskBat, writerVars, envVars>>
  /\ \A x \in Readers \ {r} :
       /\ rpc'[x] = rpc[x] /\ rext'[x] = rext[x] /\ rpos'[x] = rpos[x]
       /\ buf'[x] = buf[x] /\ loaded'[x] = loaded[x] /\ window'[x] = window[x]

LEMMA TakesApart ==
  ASSUME ReaderTypes, NEW r \in Readers, NEW d, NEW g, NEW pc, Takes(r, d, g, pc),
         UNCHANGED <<file, bat, diskBat, writerVars, envVars>>,
         \A x \in Readers \ {r} : loaded'[x] = loaded[x]
  PROVE  Apart(r)
  BY DEF Takes, Apart, ReaderTypes

LEMMA ReadsApart ==
  ASSUME ReaderTypes, NEW r \in Readers, Read(r) \/ \E e \in Commands : StartRead(r, e)
  PROVE  Apart(r)
  <1>1. ASSUME NEW e \in Commands, StartRead(r, e) PROVE Apart(r)
    BY <1>1 DEF StartRead, RGoto, fileVars, Apart, ReaderTypes
  <1>2. ASSUME NEW pc \in {"fast", "chunk"}, HitChunk(r, pc) PROVE Apart(r)
    <2>1. UNCHANGED <<file, bat, diskBat, writerVars, envVars, loaded>>
      BY <1>2 DEF HitChunk, fileVars
    <2> QED BY <1>2, <2>1, HitTakes, TakesApart
  <1>3. ASSUME InsertChunk(r) PROVE Apart(r)
    <2>1. UNCHANGED <<file, bat, diskBat, writerVars, envVars>>
      BY <1>3 DEF InsertChunk, fileVars
    <2>2. \A x \in Readers \ {r} : loaded'[x] = loaded[x]
      BY <1>3, InsertTakes DEF ReaderTypes
    <2> QED BY <1>3, <2>1, <2>2, InsertTakes, TakesApart
  <1>4. ASSUME ReadBlock(r) PROVE Apart(r)
    <2>1. UNCHANGED <<file, bat, diskBat, writerVars, envVars, loaded>>
      BY <1>4 DEF ReadBlock, fileVars
    <2> QED BY <1>4, <2>1, ReadTakes, TakesApart
  <1>5. ASSUME MissFast(r) PROVE Apart(r)
    BY <1>5 DEF MissFast, RGoto, fileVars, Apart, ReaderTypes
  <1>6. ASSUME LoadChunk(r) PROVE Apart(r)
    BY <1>6 DEF LoadChunk, RGoto, fileVars, Apart, ReaderTypes
  <1>7. ASSUME LockRead(r) PROVE Apart(r)
    BY <1>7 DEF LockRead, RGoto, fileVars, Apart, ReaderTypes
  <1>8. ASSUME FinishRead(r) PROVE Apart(r)
    BY <1>8 DEF FinishRead, RGoto, fileVars, Apart, ReaderTypes
  <1> QED BY <1>1, <1>2, <1>3, <1>4, <1>5, <1>6, <1>7, <1>8 DEF Read

LEMMA TakesFit ==
  ASSUME ReaderTypes, NEW r \in Readers, NEW d \in {Cpu, Spb},
         rext[r].first <= rpos[r], rpos[r] < End(r), rpos[r] = rext[r].first \/ rpos[r] % d = 0
  PROVE  /\ Part(r, d) \subseteq Span(rext[r]) /\ Span(rext[r]) \subseteq Units
         /\ Ahead(r, d) \in Nat /\ rpos[r] < Ahead(r, d) /\ Ahead(r, d) <= End(r)
         /\ \A u \in Span(rext[r]) : u < Ahead(r, d) => u < rpos[r] \/ u \in Part(r, d)
         /\ \A u \in Part(r, d) : u >= rpos[r]
         /\ Ahead(r, d) = End(r) \/ Ahead(r, d) % d = 0
         /\ rpos[r] \in Span(rext[r])
  <1>0. rext[r] \in Extents
    BY DEF ReaderTypes
  <1>s. PICK S : S = Part(r, d)
    OBVIOUS
  <1>1. PICK f \in Nat, e \in Nat, p \in Nat : f = rext[r].first /\ e = End(r) /\ p = rpos[r]
    <2>1. rext[r].first \in Nat /\ End(r) \in Nat /\ rpos[r] \in Nat
      BY ExtentFits DEF ReaderTypes, End
    <2> QED BY <2>1
  <1>2. d \in Nat \ {0} /\ Span(rext[r]) = f .. e - 1 /\ Span(rext[r]) \subseteq Units
    <2>1. d \in Nat \ {0}
      BY VhdAssumption
    <2>2. Span(rext[r]) = rext[r].first .. rext[r].first + rext[r].n - 1 /\ Span(rext[r]) \subseteq Units
      BY <1>0, ExtentFits
    <2>3. rext[r].first + rext[r].n = e
      BY <1>1 DEF End
    <2>4. rext[r].first + rext[r].n - 1 = e - 1
      <3>1. rext[r].first \in Nat /\ rext[r].n \in Nat
        BY <1>0, ExtentFits
      <3> QED BY <3>1, <2>3
    <2>5. Span(rext[r]) = f .. e - 1
      BY <1>1, <2>2, <2>4
    <2> QED BY <2>1, <2>2, <2>5
  <1>3. S = Rest(f, e, p, d)
    BY <1>s, <1>1, <1>2 DEF Part, Rest
  <1>4. f <= p /\ p < e /\ (p = f \/ p % d = 0)
    BY <1>1
  <1>5. /\ Cardinality(S) \in Nat \ {0} /\ p + Cardinality(S) <= e
        /\ \A u \in f .. e - 1 : u < p + Cardinality(S) => u < p \/ u \in S
        /\ \A u \in S : u >= p
        /\ p + Cardinality(S) = e \/ (p + Cardinality(S)) % d = 0
    <2>1. d \in Nat \ {0} /\ f <= p /\ p < e /\ (p = f \/ p % d = 0) /\ S = Rest(f, e, p, d)
      BY <1>2, <1>3, <1>4
    <2> QED BY <2>1, PieceTaken
  <1>6. Ahead(r, d) = p + Cardinality(S)
    BY <1>s, <1>1 DEF Ahead
  <1>7. Ahead(r, d) \in Nat /\ p < Ahead(r, d) /\ p \in f .. e - 1
    BY <1>4, <1>5, <1>6
  <1>8. Part(r, d) \subseteq Span(rext[r])
    BY DEF Part
  <1> QED BY <1>s, <1>1, <1>2, <1>5, <1>6, <1>7, <1>8

(* What taking does to the types of a read and to where it is.             *)
LEMMA TakesTypes ==
  ASSUME ReaderTypes, NEW r \in Readers, NEW d \in {Cpu, Spb}, At(r),
         rext[r].first <= rpos[r], rpos[r] < End(r), rpos[r] = rext[r].first \/ rpos[r] % d = 0,
         NEW g \in Buffers, NEW pc, Takes(r, d, g, pc), caching' = caching,
         (d = Cpu /\ pc \in {"fast", "chunk"} /\ caching) \/ (d = Spb /\ pc = "read")
  PROVE  /\ buf' \in [Readers -> Buffers] /\ rpos' \in [Readers -> 0 .. NumBlocks * Spb]
         /\ rpc' \in [Readers -> {"idle", "fast", "chunk", "insert", "lock", "read", "done"}]
         /\ At(r)'
  <1>0. rext[r] \in Extents /\ NumBlocks * Spb \in Nat /\ End(r) \in Nat /\ End(r) <= NumBlocks * Spb
    BY ExtentFits, VhdAssumption DEF ReaderTypes, End
  <1>1. PICK a \in Nat : a = Ahead(r, d) /\ rpos[r] < a /\ a <= End(r) /\ (a = End(r) \/ a % d = 0)
    BY TakesFit
  <1>2. a \in 0 .. NumBlocks * Spb
    BY <1>0, <1>1
  <1>3. rpos' = [rpos EXCEPT ![r] = a] /\ rpc' = [rpc EXCEPT ![r] = IF a = End(r) THEN "done" ELSE pc]
        /\ rext' = rext
    BY <1>1 DEF Takes
  <1>4. rpos' \in [Readers -> 0 .. NumBlocks * Spb] /\ rpos'[r] = a
    BY <1>2, <1>3 DEF ReaderTypes
  <1>5. rpc' \in [Readers -> {"idle", "fast", "chunk", "insert", "lock", "read", "done"}]
        /\ rpc'[r] = IF a = End(r) THEN "done" ELSE pc
    BY <1>3 DEF ReaderTypes
  <1>6. buf' \in [Readers -> Buffers]
    <2>1. [u \in Units |-> IF u \in Part(r, d) THEN g[u] ELSE buf[r][u]] \in Buffers
      BY DEF Buffers, ReaderTypes
    <2> QED BY <2>1 DEF Takes, ReaderTypes
  <1>7. End(r)' = End(r) /\ rext'[r] = rext[r] /\ rext[r].first \in Nat /\ rpos[r] \in Nat
    BY <1>0, <1>3, ExtentFits DEF End, ReaderTypes
  <1>8. At(r)'
    BY <1>0, <1>1, <1>4, <1>5, <1>7 DEF At, Chunked, Direct
  <1> QED BY <1>4, <1>5, <1>6, <1>8

LEMMA ReaderTypesInit == Init => ReaderTypes /\ ReadsAt /\ Bounded
  <1> SUFFICES ASSUME Init PROVE ReaderTypes /\ ReadsAt /\ Bounded
    OBVIOUS
  <1>1. NoBuf \in Buffers /\ NoExt \in Extents /\ 0 \in 0 .. NumBlocks * Spb /\ 0 \in 0 .. MaxRestarts
        /\ 0 <= NumBlocks + 1
    BY NoExtentFits, VhdAssumption DEF NoBuf, Buffers
  <1> QED BY <1>1 DEF Init, NoTasks, ReaderTypes, ReadsAt, At, Chunked, Direct, Bounded

LEMMA ChunkOfUnit == \A u \in Units : Chunk(u) \in Chunks
  BY DEF Chunks

LEMMA ReadTypesStep ==
  ASSUME Types, ReaderTypes, ReadsAt, NEW r \in Readers, Read(r) \/ \E e \in Commands : StartRead(r, e)
  PROVE  ReaderTypes' /\ ReadsAt'
  <1>a. Apart(r) /\ At(r) /\ rext[r] \in Extents /\ restarts' = restarts /\ caching' = caching
    BY ReadsApart DEF ReadsAt, ReaderTypes, Apart, envVars
  <1>b. \A x \in Readers \ {r} : At(x)'
    BY <1>a DEF Apart, ReadsAt, At, End
  <1>n. NoBuf \in Buffers
    BY DEF NoBuf, Buffers
  <1>t. ASSUME NEW d \in {Cpu, Spb}, NEW g \in Buffers, NEW pc, Takes(r, d, g, pc),
               rpc[r] \in Chunked \cup Direct,
               (d = Cpu /\ pc \in {"fast", "chunk"} /\ rpc[r] \in Chunked) \/ (d = Spb /\ pc = "read" /\ rpc[r] \in Direct),
               cache' \in [Chunks -> Buffers], loaded' \in [Readers -> Buffers]
        PROVE  ReaderTypes' /\ ReadsAt'
    <2>1. /\ rext[r].first <= rpos[r] /\ rpos[r] < End(r) /\ (rpos[r] = rext[r].first \/ rpos[r] % d = 0)
          /\ (d = Cpu /\ pc \in {"fast", "chunk"} /\ caching) \/ (d = Spb /\ pc = "read")
      BY <1>a, <1>t DEF At
    <2>2. /\ buf' \in [Readers -> Buffers] /\ rpos' \in [Readers -> 0 .. NumBlocks * Spb]
          /\ rpc' \in [Readers -> {"idle", "fast", "chunk", "insert", "lock", "read", "done"}]
          /\ At(r)'
      BY <1>a, <1>t, <2>1, TakesTypes
    <2>3. rext' = rext /\ window' = window
      BY <1>t DEF Takes
    <2> QED BY <1>a, <1>b, <1>t, <2>2, <2>3 DEF ReaderTypes, ReadsAt
  <1>1. ASSUME NEW e \in Commands, StartRead(r, e) PROVE ReaderTypes' /\ ReadsAt'
    <2>1. e \in Extents /\ NumBlocks * Spb \in Nat
      BY VhdAssumption
    <2>2. e.first \in Nat /\ e.n \in Nat \ {0} /\ e.first + e.n <= NumBlocks * Spb
      BY <2>1, ExtentFits
    <2>3. e.first \in 0 .. NumBlocks * Spb /\ e.first < e.first + e.n /\ e.first <= e.first
      BY <2>1, <2>2
    <2>4. [u \in Units |-> IF u \in Span(e) THEN {View(u)} ELSE {}] \in [Units -> SUBSET Data]
      BY StoredIsData
    <2>5. /\ rpc' = [rpc EXCEPT ![r] = IF caching THEN "fast" ELSE "lock"]
          /\ rext' = [rext EXCEPT ![r] = e] /\ rpos' = [rpos EXCEPT ![r] = e.first]
          /\ window' = [window EXCEPT ![r] = [u \in Units |-> IF u \in Span(e) THEN {View(u)} ELSE {}]]
          /\ UNCHANGED <<cache, buf, loaded>>
      BY <1>1 DEF StartRead, RGoto
    <2>6. ReaderTypes'
      BY <1>a, <2>1, <2>3, <2>4, <2>5 DEF ReaderTypes
    <2>7. /\ rpc'[r] = (IF caching THEN "fast" ELSE "lock") /\ rpos'[r] = rext'[r].first
          /\ rext'[r] = e /\ rpos'[r] < End(r)' /\ rext'[r].first <= rpos'[r]
      BY <2>3, <2>5 DEF ReaderTypes, End
    <2>8. caching \in BOOLEAN
      BY VhdAssumption DEF ReaderTypes
    <2>9. At(r)'
      BY <1>a, <2>7, <2>8 DEF At, Chunked, Direct
    <2> QED BY <1>b, <2>6, <2>9 DEF ReadsAt
  <1>2. ASSUME NEW pc \in {"fast", "chunk"}, HitChunk(r, pc) PROVE ReaderTypes' /\ ReadsAt'
    <2>1. rpc[r] = pc /\ Takes(r, Cpu, cache[Chunk(rpos[r])], pc) /\ UNCHANGED <<cache, loaded>>
      BY <1>2, HitTakes
    <2>2. rpc[r] \in Chunked
      BY <2>1 DEF Chunked
    <2>3. rpos[r] \in Span(rext[r]) /\ Span(rext[r]) \subseteq Units
      BY <1>a, <2>2, TakesFit DEF At
    <2>4. cache[Chunk(rpos[r])] \in Buffers /\ cache' \in [Chunks -> Buffers] /\ loaded' \in [Readers -> Buffers]
      BY <2>1, <2>3, ChunkOfUnit DEF ReaderTypes
    <2> QED BY <1>t, <2>1, <2>2, <2>4
  <1>3. ASSUME InsertChunk(r) PROVE ReaderTypes' /\ ReadsAt'
    <2>1. /\ rpc[r] = "insert" /\ cache' = [cache EXCEPT ![Chunk(rpos[r])] = loaded[r]]
          /\ loaded' = [loaded EXCEPT ![r] = NoBuf]
          /\ Takes(r, Cpu, loaded[r], "chunk")
      BY <1>3, InsertTakes
    <2>2. rpc[r] \in Chunked
      BY <2>1 DEF Chunked
    <2>4. loaded[r] \in Buffers /\ cache' \in [Chunks -> Buffers] /\ loaded' \in [Readers -> Buffers]
      BY <1>n, <2>1 DEF ReaderTypes
    <2> QED BY <1>t, <2>1, <2>2, <2>4
  <1>4. ASSUME ReadBlock(r) PROVE ReaderTypes' /\ ReadsAt'
    <2>1. rpc[r] = "read" /\ Takes(r, Spb, Disk, "read") /\ UNCHANGED <<cache, loaded>>
      BY <1>4, ReadTakes
    <2>2. rpc[r] \in Direct
      BY <2>1 DEF Direct
    <2>4. Disk \in Buffers /\ cache' \in [Chunks -> Buffers] /\ loaded' \in [Readers -> Buffers]
      BY <2>1, DiskIsBuffer DEF ReaderTypes
    <2> QED BY <1>t, <2>1, <2>2, <2>4
  <1>5. ASSUME MissFast(r) PROVE ReaderTypes' /\ ReadsAt'
    <2>1. /\ rpc[r] = "fast" /\ rpc' = [rpc EXCEPT ![r] = "chunk"]
          /\ rpos' = [rpos EXCEPT ![r] = rext[r].first] /\ buf' = [buf EXCEPT ![r] = NoBuf]
          /\ UNCHANGED <<cache, loaded, rext, window>>
      BY <1>5 DEF MissFast, RGoto
    <2>2. /\ rext[r].first \in 0 .. NumBlocks * Spb /\ rext[r].first < End(r) /\ rext[r].first <= rext[r].first
      BY <1>a, ExtentFits, VhdAssumption DEF End
    <2>3. ReaderTypes'
      BY <1>a, <1>n, <2>1, <2>2 DEF ReaderTypes
    <2>4. caching
      BY <1>a, <2>1 DEF At, Chunked
    <2>5. At(r)'
      BY <1>a, <2>1, <2>2, <2>4 DEF At, End, Chunked, Direct, ReaderTypes
    <2> QED BY <1>b, <2>3, <2>5 DEF ReadsAt
  <1>6. ASSUME LoadChunk(r) PROVE ReaderTypes' /\ ReadsAt'
    <2>1. /\ rpc[r] = "chunk" /\ rpc' = [rpc EXCEPT ![r] = "insert"]
          /\ loaded' = [loaded EXCEPT ![r] =
                          [u \in Units |-> IF Chunk(u) = Chunk(rpos[r]) THEN View(u) ELSE NoData]]
          /\ UNCHANGED <<cache, rext, rpos, buf, window>>
      BY <1>6 DEF LoadChunk, RGoto
    <2>2. [u \in Units |-> IF Chunk(u) = Chunk(rpos[r]) THEN View(u) ELSE NoData] \in Buffers
      BY StoredIsData DEF Buffers
    <2>3. ReaderTypes'
      BY <1>a, <2>1, <2>2 DEF ReaderTypes
    <2>4. At(r)'
      BY <1>a, <2>1 DEF At, End, Chunked, Direct, ReaderTypes
    <2> QED BY <1>b, <2>3, <2>4 DEF ReadsAt
  <1>7. ASSUME LockRead(r) PROVE ReaderTypes' /\ ReadsAt'
    <2>1. /\ rpc[r] = "lock" /\ rpc' = [rpc EXCEPT ![r] = "read"]
          /\ UNCHANGED <<cache, rext, rpos, buf, loaded, window>>
      BY <1>7 DEF LockRead, RGoto
    <2>3. ReaderTypes'
      BY <1>a, <2>1 DEF ReaderTypes
    <2>4. At(r)'
      BY <1>a, <2>1 DEF At, End, Chunked, Direct, ReaderTypes
    <2> QED BY <1>b, <2>3, <2>4 DEF ReadsAt
  <1>8. ASSUME FinishRead(r) PROVE ReaderTypes' /\ ReadsAt'
    <2>1. /\ rpc' = [rpc EXCEPT ![r] = "idle"] /\ rext' = [rext EXCEPT ![r] = NoExt]
          /\ rpos' = [rpos EXCEPT ![r] = 0] /\ buf' = [buf EXCEPT ![r] = NoBuf]
          /\ window' = [window EXCEPT ![r] = [u \in Units |-> {}]] /\ UNCHANGED <<cache, loaded>>
      BY <1>8 DEF FinishRead, RGoto
    <2>2. 0 \in 0 .. NumBlocks * Spb
      BY VhdAssumption
    <2>3. ReaderTypes'
      BY <1>a, <1>n, <2>1, <2>2, NoExtentFits DEF ReaderTypes
    <2>4. At(r)'
      BY <2>1 DEF At, Chunked, Direct, ReaderTypes
    <2> QED BY <1>b, <2>3, <2>4 DEF ReadsAt
  <1> QED BY <1>1, <1>2, <1>3, <1>4, <1>5, <1>6, <1>7, <1>8 DEF Read

(* What a write task leaves alone. *)
LEMMA WritesApart ==
  ASSUME NEW w \in Writers, Write(w) \/ \E e \in Commands, v \in Values : StartWrite(w, e, v)
  PROVE  /\ UNCHANGED <<readerVars, restarts, caching>>
         /\ window' = window \/ WriteData(w)
         /\ cache' = cache \/ Invalidate(w)
  BY DEF Write, StartWrite, Invalidate, CheckAllocation, AcquireShared, AcquireExcl, AllocBlock, WriteFails,
         BeginBat, WriteBatEntry, EndBat, WriteData, AckWrite, envVars

LEMMA PieceIsData ==
  ASSUME Types, NEW w \in Writers, NEW u \in Units
  PROVE  Piece(wjob[w], u) \in Data
  BY DEF Piece, Data, Types, Jobs

LEMMA WitnessTypes ==
  ASSUME Types, ReaderTypes, NEW w \in Writers, WriteData(w)
  PROVE  window' \in [Readers -> [Units -> SUBSET Data]]
  <1>1. ASSUME NEW r \in Readers, NEW u \in Units
        PROVE  window[r][u] \in SUBSET Data /\ window[r][u] \cup {Piece(wjob[w], u)} \in SUBSET Data
    BY PieceIsData DEF ReaderTypes
  <1> QED BY <1>1 DEF WriteData, Witness

LEMMA ReaderTypesStep == Types /\ ReaderTypes /\ ReadsAt /\ [Next]_vars => ReaderTypes' /\ ReadsAt'
  <1> SUFFICES ASSUME Types, ReaderTypes, ReadsAt, [Next]_vars PROVE ReaderTypes' /\ ReadsAt'
    OBVIOUS
  <1>n. NoBuf \in Buffers /\ 0 \in 0 .. NumBlocks * Spb
    BY VhdAssumption DEF NoBuf, Buffers
  <1>1. ASSUME NEW r \in Readers, Read(r) \/ \E e \in Commands : StartRead(r, e) PROVE ReaderTypes' /\ ReadsAt'
    BY <1>1, ReadTypesStep
  <1>2. ASSUME UNCHANGED <<readerVars, restarts, caching>>, cache' \in [Chunks -> Buffers],
               window' \in [Readers -> [Units -> SUBSET Data]]
        PROVE  ReaderTypes' /\ ReadsAt'
    BY <1>2 DEF readerVars, ReaderTypes, ReadsAt, At, End
  <1>3. ASSUME NEW w \in Writers, Write(w) \/ \E e \in Commands, v \in Values : StartWrite(w, e, v)
        PROVE  ReaderTypes' /\ ReadsAt'
    <2>1. window' \in [Readers -> [Units -> SUBSET Data]]
      BY <1>3, WritesApart, WitnessTypes DEF ReaderTypes
    <2>2. Invalidate(w) => cache' \in [Chunks -> Buffers]
      BY <1>n DEF Invalidate, ReaderTypes
    <2>3. cache' \in [Chunks -> Buffers]
      BY <1>3, <2>2, WritesApart DEF ReaderTypes
    <2> QED BY <1>2, <1>3, <2>1, <2>3, WritesApart
  <1>4. ASSUME NEW c \in Chunks, EvictChunk(c) PROVE ReaderTypes' /\ ReadsAt'
    <2>1. cache' \in [Chunks -> Buffers] /\ UNCHANGED <<readerVars, restarts, caching, window>>
      BY <1>n, <1>4 DEF EvictChunk, envVars, ReaderTypes
    <2> QED BY <1>2, <2>1 DEF ReaderTypes
  <1>5. ASSUME Restart PROVE ReaderTypes' /\ ReadsAt'
    <2>1. restarts + 1 \in 0 .. MaxRestarts
      BY <1>5, VhdAssumption DEF Restart, ReaderTypes
    <2> QED BY <1>n, <1>5, <2>1, NoExtentFits DEF Restart, ReaderTypes, ReadsAt, At, Chunked, Direct
  <1>6. ASSUME UNCHANGED vars PROVE ReaderTypes' /\ ReadsAt'
    BY <1>2, <1>6 DEF vars, envVars, ReaderTypes
  <1> QED BY <1>1, <1>3, <1>4, <1>5, <1>6 DEF Next

LEMMA BoundedStep == Types /\ Bounded /\ [Next]_vars => Bounded'
  <1> SUFFICES ASSUME Types, Bounded, [Next]_vars PROVE Bounded'
    OBVIOUS
  <1> USE DEF fileVars, lockVars, writerVars, envVars
  <1>q. ASSUME Quiet PROVE Bounded'
    BY <1>q DEF Quiet, Bounded, FirstBlock
  <1>r. ASSUME Restart PROVE Bounded'
    <2>1. 0 <= NumBlocks + 1
      BY VhdAssumption
    <2> QED BY <1>r, <2>1 DEF Restart, Bounded
  <1>w. ASSUME NEW w \in Writers, Write(w) \/ \E e \in Commands, v \in Values : StartWrite(w, e, v)
        PROVE  Bounded'
    <2>a. Alone(w)
      BY <1>w, TaskStep
    <2>b. /\ FirstBlock(wjob[w]) \in Nat /\ FirstBlock(wjob[w]) <= NumBlocks
          /\ LastBlock(wjob[w]) \in Nat /\ LastBlock(wjob[w]) + 1 <= NumBlocks
          /\ wpos[w] \in Nat /\ NumBlocks \in Nat /\ NumBlocks <= NumBlocks + 1
          /\ wupd[w] \in Seq(VBlocks) /\ Len(wupd[w]) \in Nat
      <3>1. wupd[w] \in Seq(VBlocks) /\ Len(wupd[w]) \in Nat
        BY DEF Types
      <3> QED BY <3>1, Blocks DEF VBlocks
    <2>c. ASSUME wpos'[w] <= NumBlocks + 1,
                 wpc'[w] = "alloc" => Len(wupd'[w]) <= wpos'[w] /\ wpos'[w] <= NumBlocks,
                 wpc'[w] = "bat"   => Len(wupd'[w]) <= NumBlocks /\ wpos'[w] <= Len(wupd'[w]) + 1,
                 wpc'[w] = "data"  => FirstBlock(wjob'[w]) <= wpos'[w] /\ wpos'[w] <= NumBlocks
          PROVE  Bounded'
      BY <2>a, <2>c DEF Alone, Bounded, FirstBlock
    <2>d. ASSUME wpos'[w] = wpos[w], wpc'[w] \notin {"alloc", "bat", "data"} PROVE Bounded'
      BY <2>c, <2>d DEF Bounded
    <2>1. ASSUME NEW e \in Commands, NEW v \in Values, StartWrite(w, e, v) PROVE Bounded'
      BY <2>d, <2>1 DEF StartWrite, WGoto, Types
    <2>2. ASSUME Invalidate(w) \/ CheckAllocation(w) PROVE Bounded'
      BY <2>d, <2>2 DEF Invalidate, CheckAllocation, WGoto, Types
    <2>3. ASSUME AcquireShared(w) PROVE Bounded'
      <3>1. wpc'[w] = "data" /\ wpos'[w] = FirstBlock(wjob[w]) /\ wjob'[w] = wjob[w]
        BY <2>3 DEF AcquireShared, WGoto, Types
      <3> QED BY <2>b, <2>c, <3>1
    <2>4. ASSUME AcquireExcl(w) PROVE Bounded'
      <3>1. wpc'[w] = "alloc" /\ wpos'[w] = FirstBlock(wjob[w]) /\ wupd'[w] = << >>
        BY <2>4 DEF AcquireExcl, WGoto, Types
      <3> QED BY <2>b, <2>c, <3>1
    <2>5. ASSUME AllocBlock(w) PROVE Bounded'
      <3>1. /\ wpc[w] = "alloc" /\ wpc'[w] = "alloc" /\ wpos[w] <= LastBlock(wjob[w])
            /\ wpos'[w] = wpos[w] + 1
            /\ wupd'[w] = wupd[w] \/ wupd'[w] = Append(wupd[w], wpos[w])
        BY <2>5 DEF AllocBlock, Types
      <3>2. Len(wupd'[w]) = Len(wupd[w]) \/ Len(wupd'[w]) = Len(wupd[w]) + 1
        BY <2>b, <3>1
      <3>3. Len(wupd[w]) <= wpos[w]
        BY <3>1 DEF Bounded
      <3>4. Len(wupd'[w]) <= wpos[w] + 1 /\ wpos[w] + 1 <= NumBlocks
        BY <2>b, <3>1, <3>2, <3>3
      <3>5. wpos[w] + 1 <= NumBlocks + 1
        BY <2>b, <3>4
      <3> QED BY <2>c, <3>1, <3>4, <3>5
    <2>6. ASSUME WriteFails(w) \/ AckWrite(w) PROVE Bounded'
      <3>1. wpc'[w] = "idle" /\ wpos'[w] = 0
        BY <2>6 DEF WriteFails, AckWrite, RetireWrite, Types
      <3> QED BY <2>b, <2>c, <3>1
    <2>7. ASSUME BeginBat(w) PROVE Bounded'
      <3>1. wpc[w] = "alloc" /\ wpc'[w] = "bat" /\ wpos'[w] = 1 /\ wupd'[w] = wupd[w]
        BY <2>7 DEF BeginBat, WGoto, Types
      <3>2. Len(wupd[w]) <= wpos[w] /\ wpos[w] <= NumBlocks
        BY <3>1 DEF Bounded
      <3>3. Len(wupd[w]) <= NumBlocks /\ 1 <= Len(wupd[w]) + 1 /\ 1 <= NumBlocks + 1
        BY <2>b, <3>2
      <3> QED BY <2>c, <3>1, <3>3
    <2>8. ASSUME WriteBatEntry(w) PROVE Bounded'
      <3>1. /\ wpc[w] = "bat" /\ wpc'[w] = "bat" /\ wpos'[w] = wpos[w] + 1 /\ wupd'[w] = wupd[w]
            /\ wpos[w] <= Len(wupd[w])
        BY <2>8 DEF WriteBatEntry, Types
      <3>2. Len(wupd[w]) <= NumBlocks
        BY <3>1 DEF Bounded
      <3>3. wpos[w] + 1 <= Len(wupd[w]) + 1 /\ wpos[w] + 1 <= NumBlocks + 1
        BY <2>b, <3>1, <3>2
      <3> QED BY <2>c, <3>1, <3>2, <3>3
    <2>9. ASSUME EndBat(w) PROVE Bounded'
      <3>1. wpc'[w] = "data" /\ wpos'[w] = FirstBlock(wjob[w]) /\ wjob'[w] = wjob[w]
        BY <2>9 DEF EndBat, WGoto, Types
      <3> QED BY <2>b, <2>c, <3>1
    <2>10. ASSUME WriteData(w) PROVE Bounded'
      <3>1. /\ wpc[w] = "data" /\ wpc'[w] = "data" /\ wpos'[w] = wpos[w] + 1 /\ wjob'[w] = wjob[w]
            /\ wpos[w] <= LastBlock(wjob[w])
        BY <2>10 DEF WriteData, Types
      <3>2. FirstBlock(wjob[w]) <= wpos[w]
        BY <3>1 DEF Bounded
      <3>3. FirstBlock(wjob[w]) <= wpos[w] + 1 /\ wpos[w] + 1 <= NumBlocks /\ wpos[w] + 1 <= NumBlocks + 1
        BY <2>b, <3>1, <3>2
      <3> QED BY <2>c, <3>1, <3>3
    <2> QED BY <1>w, <2>1, <2>2, <2>3, <2>4, <2>5, <2>6, <2>7, <2>8, <2>9, <2>10 DEF Write
  <1> QED BY <1>q, <1>r, <1>w, OtherSteps DEF Next

(* Every variable keeps its type: no position of a read or a write leaves  *)
(* the image, however the pieces of its extent fall.                       *)
THEOREM TypeCorrect == Spec => []TypeOK
  <1> DEFINE Inv == Types /\ ReaderTypes /\ ReadsAt /\ Bounded
  <1>1. Init => Inv
    BY TypesInit, ReaderTypesInit
  <1>2. Inv /\ [Next]_vars => Inv'
    BY TypesStep, ReaderTypesStep, BoundedStep
  <1>3. Inv => TypeOK
    <2> SUFFICES ASSUME Inv PROVE TypeOK
      OBVIOUS
    <2>1. wpos \in [Writers -> 0 .. NumBlocks + 1]
      <3>1. \A w \in Writers : wpos[w] \in 0 .. NumBlocks + 1
        BY VhdAssumption DEF Types, Bounded
      <3> QED BY <3>1 DEF Types
    <2>2. wjob \in [Writers -> [first : Units, n : 1 .. MaxSpan * Spb, val : Values]]
          /\ \A w \in Writers : [first |-> wjob[w].first, n |-> wjob[w].n] \in Extents
      BY DEF Types, Jobs
    <2> QED BY <2>1, <2>2 DEF Types, ReaderTypes, Buffers, TypeOK
  <1> QED BY <1>1, <1>2, <1>3, PTL DEF Spec

-----------------------------------------------------------------------------
(* What a unit holds *)

(* Allocating a block copies what its units held: no unit changes.         *)
LEMMA AllocKeeps ==
  ASSUME Types, NEW w \in Writers, AllocBlock(w), NEW u \in Units
  PROVE  View(u)' = View(u)
  <1> DEFINE k == wpos[w]
  <1>1. VBlock(u) \in VBlocks /\ u % Spb \in 0 .. Spb - 1 /\ VBlock(u) * Spb + (u % Spb) = u
    BY BlockOfUnit
  <1>2. CASE bat[k] = Free
    <2>1. k \in VBlocks
      <3>1. k <= LastBlock(wjob[w])
        BY DEF AllocBlock
      <3> QED BY <3>1, Blocks DEF VBlocks
    <2>2. file' = Append(file, CopyOf(k)) /\ bat' = [bat EXCEPT ![k] = Len(file) + 1]
      BY <1>2 DEF AllocBlock
    <2>3. file \in Seq(Slot) /\ Len(file) \in Nat /\ bat \in [VBlocks -> 1 .. Len(file) \cup {Free}]
      BY DEF Types, Tables
    <2>4. CASE VBlock(u) = k
      <3>1. bat'[k] = Len(file) + 1 /\ Len(file) + 1 # Free
        BY <2>1, <2>2, <2>3, VhdAssumption
      <3>2. file'[Len(file) + 1] = CopyOf(k)
        BY <2>1, <2>2, <2>3, CopyIsSlot
      <3>3. View(u)' = CopyOf(k)[u % Spb]
        BY <2>4, <3>1, <3>2 DEF View, Stored
      <3>4. CopyOf(k)[u % Spb] = Parent[u]
        BY <1>1, <2>4 DEF CopyOf
      <3> QED BY <1>2, <2>4, <3>3, <3>4 DEF View, Stored
    <2>5. CASE VBlock(u) # k
      <3>1. bat'[VBlock(u)] = bat[VBlock(u)]
        BY <2>2, <2>3, <2>5
      <3>2. bat[VBlock(u)] # Free => file'[bat[VBlock(u)]] = file[bat[VBlock(u)]]
        <4>1. bat[VBlock(u)] # Free => bat[VBlock(u)] \in 1 .. Len(file)
          BY <1>1, <2>3
        <4> QED BY <2>1, <2>2, <2>3, <4>1, CopyIsSlot
      <3> QED BY <3>1, <3>2 DEF View, Stored, Parent
    <2> QED BY <2>4, <2>5
  <1>3. CASE bat[k] # Free
    BY <1>3 DEF AllocBlock, View, Stored, Parent
  <1> QED BY <1>2, <1>3

(* Writing one block's data changes the units of the job in it, no other.  *)
LEMMA DataChanges ==
  ASSUME Types, Injective(bat), NEW w \in Writers, WriteData(w), NEW u \in Units
  PROVE  View(u)' = IF u \in Span(wjob[w]) /\ VBlock(u) = wpos[w] THEN Piece(wjob[w], u) ELSE View(u)
  <1> DEFINE k == wpos[w]
             S == {x \in Span(wjob[w]) : VBlock(x) = k}
             new == [i \in 0 .. Spb - 1 |->
                       IF k * Spb + i \in S THEN Piece(wjob[w], k * Spb + i) ELSE file[bat[k]][i]]
  <1>1. VBlock(u) \in VBlocks /\ u % Spb \in 0 .. Spb - 1 /\ VBlock(u) * Spb + (u % Spb) = u
    BY BlockOfUnit
  <1>2. file' = [file EXCEPT ![bat[k]] = new] /\ bat' = bat /\ bat[k] # Free /\ k <= LastBlock(wjob[w])
    BY DEF WriteData
  <1>3. k \in VBlocks
    BY <1>2, Blocks DEF VBlocks
  <1>4. file \in Seq(Slot) /\ bat[k] \in DOMAIN file
    BY <1>2, <1>3 DEF Types, Tables
  <1>5. \A n \in DOMAIN file : file'[n] = IF n = bat[k] THEN new ELSE file[n]
    BY <1>2, <1>4
  <1>6. bat[VBlock(u)] # Free => bat[VBlock(u)] \in DOMAIN file
    BY <1>1 DEF Types, Tables
  <1>7. CASE VBlock(u) = k
    <2>1. View(u)' = new[u % Spb]
      BY <1>2, <1>4, <1>5, <1>7 DEF View, Stored
    <2>2. new[u % Spb] = IF u \in S THEN Piece(wjob[w], u) ELSE file[bat[k]][u % Spb]
      BY <1>1, <1>7
    <2>3. View(u) = file[bat[k]][u % Spb]
      BY <1>2, <1>7 DEF View, Stored
    <2>4. u \in S <=> u \in Span(wjob[w])
      BY <1>7
    <2> QED BY <1>7, <2>1, <2>2, <2>3, <2>4
  <1>8. CASE VBlock(u) # k
    <2>1. bat[VBlock(u)] # Free => bat[VBlock(u)] # bat[k]
      BY <1>1, <1>2, <1>3, <1>8 DEF Injective
    <2>2. bat[VBlock(u)] # Free => file'[bat[VBlock(u)]] = file[bat[VBlock(u)]]
      BY <1>5, <1>6, <2>1
    <2>3. View(u)' = View(u)
      <3>1. bat' = bat
        BY <1>2
      <3> HIDE DEF new, S
      <3> QED BY <2>2, <3>1 DEF View, Stored, Parent
    <2> QED BY <1>8, <2>3
  <1> QED BY <1>7, <1>8

LEMMA SameFile ==
  ASSUME UNCHANGED <<file, bat>>, NEW u
  PROVE  View(u)' = View(u)
  BY DEF View, Stored, Parent

(* Every other step of a write task leaves every unit.                     *)
LEMMA WriteKeeps ==
  ASSUME Types, NEW w \in Writers, ~WriteData(w),
         Write(w) \/ \E e \in Commands, v \in Values : StartWrite(w, e, v)
  PROVE  \A u \in Units : View(u)' = View(u)
  <1>1. UNCHANGED <<file, bat>> \/ AllocBlock(w)
    BY DEF Write, StartWrite, Invalidate, CheckAllocation, AcquireShared, AcquireExcl, WriteFails,
           BeginBat, WriteBatEntry, EndBat, AckWrite, fileVars
  <1> QED BY <1>1, SameFile, AllocKeeps

LEMMA WindowGrows ==
  ASSUME Types, NEW w \in Writers, WriteData(w), NEW r \in Readers, NEW u \in Units
  PROVE  window'[r][u] = IF u \in Span(wjob[w]) /\ VBlock(u) = wpos[w] /\ Covers(r, u)
                         THEN window[r][u] \cup {Piece(wjob[w], u)} ELSE window[r][u]
  BY DEF WriteData, Witness, Covers

-----------------------------------------------------------------------------
(* Reads hold what their units held *)

LEMMA AtChunk ==
  ASSUME ReaderTypes, ReadsAt, NEW r \in Readers, rpc[r] \in Chunked
  PROVE  /\ rpos[r] \in Span(rext[r]) /\ rpos[r] \in Units /\ caching
         /\ Chunk(rpos[r]) \in ChunksOf(rext[r]) /\ Chunk(rpos[r]) \in Chunks
  <1>1. rpos[r] \in Span(rext[r]) /\ Span(rext[r]) \subseteq Units /\ caching
    BY TakesFit DEF ReadsAt, At
  <1> QED BY <1>1, ChunkOfUnit DEF ChunksOf

LEMMA JobChunks ==
  ASSUME Types, NEW w \in Writers
  PROVE  Span(wjob[w]) \subseteq Units /\ ChunksOf(wjob[w]) \subseteq Chunks
  <1> DEFINE e == [first |-> wjob[w].first, n |-> wjob[w].n]
  <1>1. e \in Extents
    BY DEF Types, Jobs
  <1>2. Span(e) = Span(wjob[w])
    BY DEF Span
  <1>3. Span(wjob[w]) \subseteq Units
    BY <1>1, <1>2, ExtentFits
  <1> QED BY <1>3, ChunkOfUnit DEF ChunksOf

(* The step that writes data. *)
LEMMA DataHeld ==
  ASSUME Types, ReaderTypes, ReadsAt, Held, Injective(bat), NEW w \in Writers, WriteData(w)
  PROVE  Held'
  <1>1. /\ wpc[w] = "data" /\ UNCHANGED <<readerVars, cache, wpc, wjob, caching>>
    BY DEF WriteData, envVars
  <1>2. \A r \in Readers : \A u \in Units : Covers(r, u)' <=> Covers(r, u)
    BY <1>1 DEF readerVars, Covers
  <1>3. \A r \in Readers : \A u \in Units :
          window'[r][u] = IF u \in Span(wjob[w]) /\ VBlock(u) = wpos[w] /\ Covers(r, u)
                          THEN window[r][u] \cup {Piece(wjob[w], u)} ELSE window[r][u]
    BY WindowGrows
  <1>4. \A u \in Units : View(u)' = IF u \in Span(wjob[w]) /\ VBlock(u) = wpos[w]
                                    THEN Piece(wjob[w], u) ELSE View(u)
    BY DataChanges
  <1>5. Framed'
    BY <1>1, <1>2, <1>3 DEF Held, Framed, readerVars
  <1>6. Windows'
    BY <1>1, <1>2, <1>3, <1>4 DEF Held, Windows, readerVars
  <1>7. Filled'
    BY <1>1, <1>2, <1>3 DEF Held, Filled, readerVars
  <1>8. Split' /\ Dropped'
    BY <1>1 DEF Held, Split, Dropped, readerVars, ChunksOf
  <1>9. ASSUME NEW u \in Units, Chunk(u) \notin ChunksOf(wjob[w]) PROVE View(u)' = View(u)
    BY <1>4, <1>9 DEF ChunksOf
  <1>10. Fresh'
    <2> SUFFICES ASSUME NEW c \in Chunks, cache[c] # NoBuf
                 PROVE  caching /\ \A u \in Units : Chunk(u) = c => cache[c][u] = View(u)'
      BY <1>1 DEF Fresh
    <2>1. caching /\ \A u \in Units : Chunk(u) = c => cache[c][u] = View(u)
      BY DEF Held, Fresh
    <2>2. c \notin ChunksOf(wjob[w])
      BY <1>1 DEF Held, Dropped
    <2> QED BY <1>9, <2>1, <2>2
  <1>11. Loading'
    <2> SUFFICES ASSUME NEW r \in Readers, rpc[r] = "insert", NEW u \in Units, Chunk(u) = Chunk(rpos[r])
                 PROVE  loaded[r][u] = View(u)'
      BY <1>1 DEF Loading, readerVars
    <2>1. Chunk(rpos[r]) \in ChunksOf(rext[r]) /\ caching
      BY AtChunk DEF Chunked
    <2>2. Chunk(u) \notin ChunksOf(wjob[w])
      BY <1>1, <2>1 DEF Held, Split
    <2> QED BY <1>9, <2>2 DEF Held, Loading
  <1> QED BY <1>5, <1>6, <1>7, <1>8, <1>10, <1>11 DEF Held

(* No step but the one above changes a unit or a window while a write task *)
(* runs; what is left is who may touch which chunk.                        *)
LEMMA FileHeld ==
  ASSUME Held, \A u \in Units : View(u)' = View(u), UNCHANGED <<readerVars, window>>
  PROVE  Framed' /\ Windows' /\ Filled' /\ Loading'
  <1>1. \A r \in Readers : \A u \in Units : Covers(r, u)' <=> Covers(r, u)
    BY DEF readerVars, Covers
  <1>2. Framed' /\ Filled'
    BY <1>1 DEF Held, Framed, Filled, readerVars
  <1>3. Windows'
    BY <1>1 DEF Held, Windows
  <1>4. Loading'
    BY DEF Held, Loading, readerVars
  <1> QED BY <1>2, <1>3, <1>4

LEMMA WriteHeld ==
  ASSUME Types, ReaderTypes, ReadsAt, Held, ChunkQuiet \/ TRUE \notin ReadCaches,
         NEW w \in Writers, ~WriteData(w),
         Write(w) \/ \E e \in Commands, v \in Values : StartWrite(w, e, v)
  PROVE  Held'
  <1>1. \A u \in Units : View(u)' = View(u)
    BY WriteKeeps
  <1>2. UNCHANGED <<readerVars, window, caching>> /\ (cache' = cache \/ Invalidate(w))
    BY WritesApart
  <1>3. Framed' /\ Windows' /\ Filled' /\ Loading'
    BY <1>1, <1>2, FileHeld
  <1>4. \A x \in Writers \ {w} : wpc'[x] = wpc[x] /\ wjob'[x] = wjob[x]
    BY TaskStep DEF Alone
  <1>5. caching \in BOOLEAN /\ (caching => ChunkQuiet)
    BY VhdAssumption DEF ReaderTypes
  <1>6. \A c \in Chunks : cache'[c] = cache[c] \/ cache'[c] = NoBuf
    <2>1. Invalidate(w) => \A c \in Chunks : cache'[c] = cache[c] \/ cache'[c] = NoBuf
      BY DEF Invalidate
    <2> QED BY <1>2, <2>1
  <1>7. Fresh'
    BY <1>1, <1>2, <1>6 DEF Held, Fresh
  <1>8. Split'
    <2> SUFFICES ASSUME caching, NEW r \in Readers, rpc[r] # "idle", NEW x \in Writers, wpc'[x] # "idle"
                 PROVE  ChunksOf(wjob'[x]) \cap ChunksOf(rext[r]) = {}
      BY <1>2 DEF Split, readerVars, ChunksOf
    <2>1. CASE x # w
      BY <1>4, <2>1 DEF Held, Split
    <2>2. ASSUME NEW e \in Commands, NEW v \in Values, StartWrite(w, e, v), x = w
          PROVE  ChunksOf(wjob'[x]) \cap ChunksOf(rext[r]) = {}
      <3>1. ChunksOf(e) \cap ChunksOf(rext[r]) = {}
        BY <1>5, <2>2 DEF StartWrite
      <3>2. wjob'[w] = [first |-> e.first, n |-> e.n, val |-> v]
        BY <2>2 DEF StartWrite, Types
      <3>3. ChunksOf(wjob'[w]) = ChunksOf(e)
        BY <3>2 DEF ChunksOf, Span
      <3> QED BY <2>2, <3>1, <3>3
    <2>3. ASSUME Write(w), x = w PROVE wjob'[w] = wjob[w] /\ wpc[w] # "idle"
      <3>1. wjob' = wjob \/ RetireWrite(w)
        BY <2>3 DEF Write, Invalidate, CheckAllocation, AcquireShared, AcquireExcl, AllocBlock, WriteFails,
                    BeginBat, WriteBatEntry, EndBat, WriteData, AckWrite
      <3>2. ~RetireWrite(w)
        BY <2>3 DEF RetireWrite, Types
      <3>3. wpc[w] # "idle"
        BY <2>3 DEF Write, Invalidate, CheckAllocation, AcquireShared, AcquireExcl, AllocBlock, WriteFails,
                    BeginBat, WriteBatEntry, EndBat, WriteData, AckWrite
      <3> QED BY <3>1, <3>2, <3>3
    <2> QED BY <2>1, <2>2, <2>3 DEF Held, Split
  <1>9. Dropped'
    <2> SUFFICES ASSUME NEW x \in Writers, wpc'[x] \notin {"idle", "invalidate"},
                        NEW c \in ChunksOf(wjob'[x])
                 PROVE  cache'[c] = NoBuf
      BY DEF Dropped, ChunksOf
    <2>1. CASE x # w
      <3>1. cache[c] = NoBuf /\ c \in Chunks
        BY <1>4, <2>1, JobChunks DEF Held, Dropped
      <3> QED BY <1>6, <3>1
    <2>2. ASSUME NEW e \in Commands, NEW v \in Values, StartWrite(w, e, v), x = w
          PROVE  cache'[c] = NoBuf
      <3>1. ~caching /\ cache' = cache
        BY <2>2 DEF StartWrite, WGoto, Types
      <3>2. c \in Chunks
        <4>1. wjob'[w] = [first |-> e.first, n |-> e.n, val |-> v] /\ e \in Extents
          BY <2>2, VhdAssumption DEF StartWrite, Types
        <4>2. ChunksOf(wjob'[w]) = ChunksOf(e)
          BY <4>1 DEF ChunksOf, Span
        <4>3. Span(e) \subseteq Units
          BY <4>1, ExtentFits
        <4> QED BY <2>2, <4>2, <4>3, ChunkOfUnit DEF ChunksOf
      <3> QED BY <3>1, <3>2 DEF Held, Fresh
    <2>3. ASSUME Invalidate(w), x = w PROVE cache'[c] = NoBuf
      <3>1. wjob' = wjob /\ c \in ChunksOf(wjob[w]) /\ c \in Chunks
        BY <2>3, JobChunks DEF Invalidate
      <3> QED BY <2>3, <3>1 DEF Invalidate
    <2>4. ASSUME Write(w), ~Invalidate(w), x = w PROVE cache'[c] = NoBuf
      <3>1. wjob' = wjob \/ RetireWrite(w)
        BY <2>4 DEF Write, Invalidate, CheckAllocation, AcquireShared, AcquireExcl, AllocBlock, WriteFails,
                    BeginBat, WriteBatEntry, EndBat, WriteData, AckWrite
      <3>2. ~RetireWrite(w)
        BY <2>4 DEF RetireWrite, Types
      <3>3. wpc[w] \notin {"idle", "invalidate"}
        BY <2>4 DEF Write, CheckAllocation, AcquireShared, AcquireExcl, AllocBlock, WriteFails,
                    BeginBat, WriteBatEntry, EndBat, WriteData, AckWrite
      <3>4. c \in ChunksOf(wjob[w])
        BY <2>4, <3>1, <3>2
      <3> QED BY <1>2, <2>4, <3>3, <3>4 DEF Held, Dropped
    <2> QED BY <2>1, <2>2, <2>3, <2>4
  <1> QED BY <1>3, <1>7, <1>8, <1>9 DEF Held

(* What the invariant asks of one read. *)
HeldBy(r) ==
  /\ \A u \in Units : ~Covers(r, u) => window[r][u] = {} /\ buf[r][u] = NoData
  /\ \A u \in Units : Covers(r, u) => View(u) \in window[r][u]
  /\ \A u \in Units : Covers(r, u) /\ u < rpos[r] => buf[r][u] \in window[r][u]
  /\ rpc[r] = "insert" => \A u \in Units : Chunk(u) = Chunk(rpos[r]) => loaded[r][u] = View(u)

LEMMA HeldByEach == Framed /\ Windows /\ Filled /\ Loading <=> \A r \in Readers : HeldBy(r)
  BY DEF Framed, Windows, Filled, Loading, HeldBy

(* A step of a read that leaves the cache and its extent. *)
LEMMA OwnHeld ==
  ASSUME Held, NEW r \in Readers, Apart(r), HeldBy(r)', cache' = cache,
         rext'[r] = rext[r] \/ rpc'[r] = "idle", rpc[r] # "idle"
  PROVE  Held'
  <1>1. UNCHANGED <<wpc, wjob, caching>> /\ \A u \in Units : View(u)' = View(u)
    BY SameFile DEF Apart, writerVars, envVars
  <1>2. \A x \in Readers : HeldBy(x)'
    <2>1. ASSUME NEW x \in Readers \ {r} PROVE HeldBy(x)'
      <3>1. HeldBy(x)
        BY HeldByEach DEF Held
      <3>2. \A u \in Units : Covers(x, u)' <=> Covers(x, u)
        BY DEF Apart, Covers
      <3> QED BY <1>1, <3>1, <3>2 DEF HeldBy, Apart
    <2> QED BY <2>1
  <1>3. (Framed /\ Windows /\ Filled /\ Loading)'
    BY <1>2 DEF Framed, Windows, Filled, Loading, HeldBy
  <1>4. Split'
    <2> SUFFICES ASSUME caching, NEW w \in Writers, wpc[w] # "idle", NEW x \in Readers, rpc'[x] # "idle"
                 PROVE  ChunksOf(wjob[w]) \cap ChunksOf(rext'[x]) = {}
      BY <1>1 DEF Split, ChunksOf
    <2>1. rpc[x] # "idle" /\ rext'[x] = rext[x]
      BY DEF Apart
    <2> QED BY <2>1 DEF Held, Split
  <1>5. Fresh' /\ Dropped'
    BY <1>1 DEF Held, Fresh, Dropped, ChunksOf
  <1> QED BY <1>3, <1>4, <1>5 DEF Held

(* Taking the units of a piece, as they are now. *)
LEMMA TakesHeld ==
  ASSUME Types, ReaderTypes, NEW r \in Readers, HeldBy(r), NEW d \in {Cpu, Spb}, NEW g, NEW pc,
         rpc[r] # "idle", pc \in {"fast", "chunk", "read"},
         rext[r].first <= rpos[r], rpos[r] < End(r), rpos[r] = rext[r].first \/ rpos[r] % d = 0,
         Takes(r, d, g, pc), Apart(r), \A u \in Part(r, d) : g[u] = View(u)
  PROVE  HeldBy(r)'
  <1>1. PICK a \in Nat : a = Ahead(r, d) /\ Part(r, d) \subseteq Span(rext[r]) /\ Span(rext[r]) \subseteq Units
          /\ \A u \in Span(rext[r]) : u < a => u < rpos[r] \/ u \in Part(r, d)
    BY TakesFit
  <1>2. /\ rpos'[r] = a /\ rext' = rext /\ window' = window /\ rpc'[r] \in {"done", pc}
        /\ \A u \in Units : buf'[r][u] = IF u \in Part(r, d) THEN g[u] ELSE buf[r][u]
    BY <1>1 DEF Takes, ReaderTypes
  <1>3. \A u \in Units : View(u)' = View(u)
    BY SameFile DEF Apart
  <1>4. \A u \in Units : Covers(r, u) <=> u \in Span(rext[r])
    BY DEF Covers
  <1>5. \A u \in Units : Covers(r, u)' <=> u \in Span(rext[r])
    BY <1>2 DEF Covers
  <1>6. \A u \in Units : u \notin Span(rext[r]) => window'[r][u] = {} /\ buf'[r][u] = NoData
    BY <1>1, <1>2, <1>4 DEF HeldBy
  <1>7. \A u \in Units : u \in Span(rext[r]) => View(u) \in window[r][u]
    BY <1>4 DEF HeldBy
  <1>8. ASSUME NEW u \in Units, u \in Span(rext[r]), u < a PROVE buf'[r][u] \in window'[r][u]
    <2>1. CASE u \in Part(r, d)
      BY <1>2, <1>7, <1>8, <2>1
    <2>2. CASE u \notin Part(r, d)
      <3>1. u < rpos[r]
        BY <1>1, <1>8, <2>2
      <3>2. buf[r][u] \in window[r][u]
        BY <1>4, <1>8, <3>1 DEF HeldBy
      <3> QED BY <1>2, <2>2, <3>2
    <2> QED BY <2>1, <2>2
  <1>9. rpc'[r] # "insert"
    BY <1>2
  <1> QED BY <1>2, <1>3, <1>5, <1>6, <1>7, <1>8, <1>9 DEF HeldBy

LEMMA ReadHeld ==
  ASSUME Types, ReaderTypes, ReadsAt, Held, ChunkQuiet \/ TRUE \notin ReadCaches,
         NEW r \in Readers, Read(r) \/ \E e \in Commands : StartRead(r, e)
  PROVE  Held'
  <1>a. Apart(r) /\ HeldBy(r) /\ At(r) /\ rext[r] \in Extents
    BY ReadsApart, HeldByEach DEF Held, ReadsAt, ReaderTypes
  <1>v. (\A u \in Units : View(u)' = View(u)) /\ UNCHANGED <<wpc, wjob, caching>>
    BY <1>a, SameFile DEF Apart, writerVars, envVars
  <1>1. ASSUME NEW e \in Commands, StartRead(r, e) PROVE Held'
    <2>1. /\ rpc'[r] = (IF caching THEN "fast" ELSE "lock") /\ rpos'[r] = e.first /\ rext'[r] = e
          /\ \A u \in Units : window'[r][u] = IF u \in Span(e) THEN {View(u)} ELSE {}
          /\ UNCHANGED <<cache, buf, loaded>> /\ rpc[r] = "idle"
      BY <1>1 DEF StartRead, RGoto, ReaderTypes
    <2>2. e.first \in Nat /\ Span(e) = e.first .. e.first + e.n - 1 /\ e.n \in Nat
      BY ExtentFits, VhdAssumption
    <2>3. \A u \in Units : (Covers(r, u)' <=> u \in Span(e)) /\ ~Covers(r, u)
      BY <2>1 DEF Covers
    <2>4. \A u \in Units : u \in Span(e) => ~(u < e.first)
      BY <2>2
    <2>5. HeldBy(r)'
      BY <1>a, <1>v, <2>1, <2>3, <2>4 DEF HeldBy
    <2>6. \A x \in Readers : HeldBy(x)'
      <3>1. ASSUME NEW x \in Readers \ {r} PROVE HeldBy(x)'
        <4>1. HeldBy(x)
          BY HeldByEach DEF Held
        <4>2. \A u \in Units : Covers(x, u)' <=> Covers(x, u)
          BY <1>a DEF Apart, Covers
        <4> QED BY <1>a, <1>v, <4>1, <4>2 DEF HeldBy, Apart
      <3> QED BY <2>5, <3>1
    <2>7. (Framed /\ Windows /\ Filled /\ Loading)'
      BY <2>6 DEF Framed, Windows, Filled, Loading, HeldBy
    <2>8. Split'
      <3> SUFFICES ASSUME caching, NEW w \in Writers, wpc[w] # "idle", NEW x \in Readers, rpc'[x] # "idle"
                   PROVE  ChunksOf(wjob[w]) \cap ChunksOf(rext'[x]) = {}
        BY <1>v DEF Split, ChunksOf
      <3>1. CASE x # r
        BY <1>a, <3>1 DEF Apart, Held, Split
      <3>2. CASE x = r
        <4>1. ChunkQuiet
          BY VhdAssumption DEF ReaderTypes
        <4>2. ChunksOf(e) \cap ChunksOf(wjob[w]) = {}
          BY <1>1, <4>1 DEF StartRead
        <4> QED BY <2>1, <3>2, <4>2
      <3> QED BY <3>1, <3>2
    <2>9. Fresh' /\ Dropped'
      BY <1>v, <2>1 DEF Held, Fresh, Dropped, ChunksOf
    <2> QED BY <2>7, <2>8, <2>9 DEF Held
  <1>2. ASSUME NEW pc \in {"fast", "chunk"}, HitChunk(r, pc) PROVE Held'
    <2>1. /\ rpc[r] = pc /\ cache[Chunk(rpos[r])] # NoBuf
          /\ Takes(r, Cpu, cache[Chunk(rpos[r])], pc) /\ cache' = cache
      BY <1>2, HitTakes
    <2>2. rpc[r] \in Chunked /\ rpc[r] # "idle"
      BY <2>1 DEF Chunked
    <2>3. rext[r].first <= rpos[r] /\ rpos[r] < End(r) /\ (rpos[r] = rext[r].first \/ rpos[r] % Cpu = 0)
      BY <1>a, <2>2 DEF At
    <2>4. \A u \in Part(r, Cpu) : cache[Chunk(rpos[r])][u] = View(u)
      <3>1. Chunk(rpos[r]) \in Chunks
        BY <2>2, AtChunk
      <3>2. \A u \in Part(r, Cpu) : Chunk(u) = Chunk(rpos[r])
        BY DEF Part, Chunk
      <3>3. Part(r, Cpu) \subseteq Units
        BY <1>a, ExtentFits DEF Part
      <3> QED BY <2>1, <3>1, <3>2, <3>3 DEF Held, Fresh
    <2>5. HeldBy(r)'
      BY <1>a, <2>1, <2>2, <2>3, <2>4, TakesHeld
    <2>6. rext' = rext
      BY <2>1 DEF Takes
    <2> QED BY <1>a, <2>1, <2>2, <2>5, <2>6, OwnHeld
  <1>3. ASSUME ReadBlock(r) PROVE Held'
    <2>1. rpc[r] = "read" /\ Takes(r, Spb, Disk, "read") /\ cache' = cache
      BY <1>3, ReadTakes
    <2>2. rpc[r] \in Direct /\ rpc[r] # "idle"
      BY <2>1 DEF Direct
    <2>3. rext[r].first <= rpos[r] /\ rpos[r] < End(r) /\ (rpos[r] = rext[r].first \/ rpos[r] % Spb = 0)
      BY <1>a, <2>2 DEF At
    <2>4. \A u \in Part(r, Spb) : Disk[u] = View(u)
      BY <1>a, ExtentFits DEF Part, Disk
    <2>5. HeldBy(r)'
      BY <1>a, <2>1, <2>2, <2>3, <2>4, TakesHeld
    <2>6. rext' = rext
      BY <2>1 DEF Takes
    <2> QED BY <1>a, <2>1, <2>2, <2>5, <2>6, OwnHeld
  (* Nobody writes the chunk that is about to enter the cache. *)
  <1>4. ASSUME InsertChunk(r) PROVE Held'
    <2> DEFINE c == Chunk(rpos[r])
    <2>1. /\ rpc[r] = "insert" /\ cache' = [cache EXCEPT ![c] = loaded[r]]
          /\ loaded' = [loaded EXCEPT ![r] = NoBuf]
          /\ Takes(r, Cpu, loaded[r], "chunk")
      BY <1>4, InsertTakes
    <2>2. rpc[r] \in Chunked /\ rpc[r] # "idle"
      BY <2>1 DEF Chunked
    <2>3. rext[r].first <= rpos[r] /\ rpos[r] < End(r) /\ (rpos[r] = rext[r].first \/ rpos[r] % Cpu = 0)
      BY <1>a, <2>2 DEF At
    <2>4. c \in Chunks /\ c \in ChunksOf(rext[r]) /\ caching
      BY <2>2, AtChunk
    <2>5. \A u \in Units : Chunk(u) = c => loaded[r][u] = View(u)
      BY <2>1 DEF Held, Loading
    <2>6. \A u \in Part(r, Cpu) : loaded[r][u] = View(u)
      <3>1. \A u \in Part(r, Cpu) : Chunk(u) = c
        BY DEF Part, Chunk
      <3>2. Part(r, Cpu) \subseteq Units
        BY <1>a, ExtentFits DEF Part
      <3> QED BY <2>5, <3>1, <3>2
    <2>7. HeldBy(r)'
      BY <1>a, <2>1, <2>2, <2>3, <2>6, TakesHeld
    <2>8. rext' = rext
      BY <2>1 DEF Takes
    <2>9. \A x \in Readers : HeldBy(x)'
      <3>1. ASSUME NEW x \in Readers \ {r} PROVE HeldBy(x)'
        <4>1. HeldBy(x)
          BY HeldByEach DEF Held
        <4>2. \A u \in Units : Covers(x, u)' <=> Covers(x, u)
          BY <1>a DEF Apart, Covers
        <4> QED BY <1>a, <1>v, <4>1, <4>2 DEF HeldBy, Apart
      <3> QED BY <2>7, <3>1
    <2>10. (Framed /\ Windows /\ Filled /\ Loading)'
      BY <2>9 DEF Framed, Windows, Filled, Loading, HeldBy
    <2>11. Split'
      <3>1. \A x \in Readers : rpc'[x] # "idle" => rpc[x] # "idle"
        BY <1>a, <2>2 DEF Apart
      <3> QED BY <1>v, <2>8, <3>1 DEF Held, Split, ChunksOf
    <2>12. Fresh'
      BY <1>v, <2>1, <2>4, <2>5 DEF Held, Fresh, ReaderTypes
    <2>13. Dropped'
      <3> SUFFICES ASSUME NEW w \in Writers, wpc[w] \notin {"idle", "invalidate"}, NEW k \in ChunksOf(wjob[w])
                   PROVE  cache'[k] = NoBuf
        BY <1>v DEF Dropped, ChunksOf
      <3>1. k # c /\ cache[k] = NoBuf
        BY <2>2, <2>4 DEF Held, Split, Dropped
      <3>2. k \in Chunks
        BY JobChunks
      <3> QED BY <2>1, <3>1, <3>2 DEF ReaderTypes
    <2> QED BY <2>10, <2>11, <2>12, <2>13 DEF Held
  <1>5. ASSUME MissFast(r) PROVE Held'
    <2>1. /\ rpc[r] = "fast" /\ rpc'[r] = "chunk" /\ rpos'[r] = rext[r].first /\ buf'[r] = NoBuf
          /\ UNCHANGED <<cache, loaded, rext, window>>
      BY <1>5 DEF MissFast, RGoto, ReaderTypes
    <2>2. \A u \in Units : Covers(r, u)' <=> Covers(r, u)
      BY <2>1 DEF Covers
    <2>3. \A u \in Units : Covers(r, u) => ~(u < rext[r].first)
      BY <1>a, ExtentFits DEF Covers
    <2>4. \A u \in Units : buf'[r][u] = NoData
      BY <2>1 DEF NoBuf
    <2>5. HeldBy(r)'
      BY <1>a, <1>v, <2>1, <2>2, <2>3, <2>4 DEF HeldBy
    <2> QED BY <1>a, <2>1, <2>5, OwnHeld
  <1>6. ASSUME LoadChunk(r) PROVE Held'
    <2>1. /\ rpc[r] = "chunk" /\ rpc'[r] = "insert"
          /\ loaded'[r] = [u \in Units |-> IF Chunk(u) = Chunk(rpos[r]) THEN View(u) ELSE NoData]
          /\ UNCHANGED <<cache, rext, rpos, buf, window>>
      BY <1>6 DEF LoadChunk, RGoto, ReaderTypes
    <2>2. \A u \in Units : Covers(r, u)' <=> Covers(r, u)
      BY <2>1 DEF Covers
    <2>5. HeldBy(r)'
      BY <1>a, <1>v, <2>1, <2>2 DEF HeldBy
    <2> QED BY <1>a, <2>1, <2>5, OwnHeld
  <1>7. ASSUME LockRead(r) PROVE Held'
    <2>1. rpc[r] = "lock" /\ rpc'[r] = "read" /\ UNCHANGED <<cache, rext, rpos, buf, loaded, window>>
      BY <1>7 DEF LockRead, RGoto, ReaderTypes
    <2>2. \A u \in Units : Covers(r, u)' <=> Covers(r, u)
      BY <2>1 DEF Covers
    <2>5. HeldBy(r)'
      BY <1>a, <1>v, <2>1, <2>2 DEF HeldBy
    <2> QED BY <1>a, <2>1, <2>5, OwnHeld
  <1>8. ASSUME FinishRead(r) PROVE Held'
    <2>1. /\ rpc[r] = "done" /\ rpc'[r] = "idle" /\ buf'[r] = NoBuf /\ window'[r] = [u \in Units |-> {}]
          /\ cache' = cache
      BY <1>8 DEF FinishRead, RGoto, ReaderTypes
    <2>2. \A u \in Units : ~Covers(r, u)'
      BY <2>1 DEF Covers
    <2>5. HeldBy(r)'
      BY <2>1, <2>2 DEF HeldBy, NoBuf
    <2> QED BY <1>a, <2>1, <2>5, OwnHeld
  <1> QED BY <1>1, <1>2, <1>3, <1>4, <1>5, <1>6, <1>7, <1>8 DEF Read

LEMMA HeldInit == Init => Held
  <1> SUFFICES ASSUME Init PROVE Held
    OBVIOUS
  <1>1. /\ \A r \in Readers : rpc[r] = "idle" /\ buf[r] = NoBuf /\ window[r] = [u \in Units |-> {}]
        /\ \A w \in Writers : wpc[w] = "idle"
        /\ \A c \in Chunks : cache[c] = NoBuf
    BY DEF Init, NoTasks
  <1> QED BY <1>1 DEF Held, Framed, Windows, Filled, Split, Fresh, Dropped, Loading, Covers, NoBuf

LEMMA HeldStep ==
  ASSUME Types, ReaderTypes, ReadsAt, Held, Injective(bat), [Next]_vars,
         ChunkQuiet \/ TRUE \notin ReadCaches
  PROVE  Held'
  <1>1. ASSUME NEW c \in Chunks, EvictChunk(c) PROVE Held'
    <2>1. /\ cache' = [cache EXCEPT ![c] = NoBuf]
          /\ UNCHANGED <<file, bat, readerVars, window, wpc, wjob, caching>>
      BY <1>1 DEF EvictChunk, fileVars, writerVars, envVars
    <2>2. \A u \in Units : View(u)' = View(u)
      BY <2>1, SameFile
    <2>3. Framed' /\ Windows' /\ Filled' /\ Loading'
      BY <2>1, <2>2, FileHeld
    <2>4. \A k : k \in Chunks => cache'[k] = IF k = c THEN NoBuf ELSE cache[k]
      BY <2>1 DEF ReaderTypes
    <2>5. Fresh'
      BY <2>1, <2>2, <2>4 DEF Held, Fresh
    <2>6. Dropped'
      <3>1. \A w \in Writers : ChunksOf(wjob[w]) \subseteq Chunks
        BY JobChunks
      <3> QED BY <2>1, <2>4, <3>1 DEF Held, Dropped, ChunksOf
    <2>7. Split'
      BY <2>1 DEF Held, Split, readerVars, ChunksOf
    <2> QED BY <2>3, <2>5, <2>6, <2>7 DEF Held
  <1>2. ASSUME Restart PROVE Held'
    <2>1. /\ \A r \in Readers : rpc'[r] = "idle" /\ buf'[r] = NoBuf /\ window'[r] = [u \in Units |-> {}]
          /\ \A w \in Writers : wpc'[w] = "idle"
          /\ \A c \in Chunks : cache'[c] = NoBuf
      BY <1>2 DEF Restart
    <2> QED BY <2>1 DEF Held, Framed, Windows, Filled, Split, Fresh, Dropped, Loading, Covers, NoBuf
  <1>3. ASSUME UNCHANGED vars PROVE Held'
    <2>1. UNCHANGED <<file, bat, readerVars, window, wpc, wjob, caching, cache>>
      BY <1>3 DEF vars, fileVars, writerVars, envVars
    <2>2. \A u \in Units : View(u)' = View(u)
      BY <2>1, SameFile
    <2>3. Framed' /\ Windows' /\ Filled' /\ Loading'
      BY <2>1, <2>2, FileHeld
    <2>4. Split' /\ Fresh' /\ Dropped'
      BY <2>1, <2>2 DEF Held, Split, Fresh, Dropped, readerVars, ChunksOf
    <2> QED BY <2>3, <2>4 DEF Held
  <1> QED BY <1>1, <1>2, <1>3, DataHeld, WriteHeld, ReadHeld DEF Next

(* No two VHD blocks share a place where the claims about reads need it:   *)
(* with a table in the file that a restart can load, or with no restart.   *)
LEMMA PlacesApart ==
  ASSUME MaxSpan <= 2 \/ MaxRestarts = 0
  PROVE  Spec => [](Types /\ ReaderTypes /\ ReadsAt /\ Injective(bat))
  <1> DEFINE Typed == Types /\ ReaderTypes /\ ReadsAt
  <1>1. Init => Typed /\ Injective(bat)
    <2>1. Init => Injective(bat)
      BY DEF Init, Injective, NoTable
    <2> QED BY <2>1, TypesInit, ReaderTypesInit
  <1>2. Typed /\ [Next]_vars => Typed'
    BY TypesStep, ReaderTypesStep
  <1>3. CASE MaxSpan <= 2
    <2>1. Spec => [](Types /\ Saved)
      BY <1>3, SavedAlways
    <2>2. Spec => []Typed
      BY <1>1, <1>2, PTL DEF Spec
    <2>3. Types /\ Saved => Injective(bat)
      BY DEF Saved
    <2> QED BY <2>1, <2>2, <2>3, PTL
  <1>4. CASE MaxRestarts = 0
    <2>1. Typed => ~Restart
      BY <1>4 DEF Restart, ReaderTypes
    <2>2. Typed /\ Injective(bat) /\ [Next]_vars => Injective(bat)'
      BY <2>1, InjectiveStep
    <2> QED BY <1>1, <1>2, <2>2, PTL DEF Spec
  <1> QED BY <1>3, <1>4

LEMMA HeldAlways ==
  ASSUME MaxSpan <= 2 \/ MaxRestarts = 0, ChunkQuiet \/ TRUE \notin ReadCaches
  PROVE  Spec => [](Types /\ ReaderTypes /\ ReadsAt /\ Injective(bat) /\ Held)
  <1>1. Spec => [](Types /\ ReaderTypes /\ ReadsAt /\ Injective(bat))
    BY PlacesApart
  <1>2. Types /\ ReaderTypes /\ ReadsAt /\ Injective(bat) /\ Held /\ [Next]_vars => Held'
    BY HeldStep
  <1> QED BY <1>1, <1>2, HeldInit, PTL DEF Spec

(* A read answers every unit with what it held while the read was under    *)
(* way, across allocations, copies, other writes and restarts.  With the   *)
(* read-ahead cache the initiator must keep reads and writes of one chunk  *)
(* apart: a loader may put back what a write has since replaced.           *)
THEOREM ReadsAnswered ==
  ASSUME MaxSpan <= 2 \/ MaxRestarts = 0, ChunkQuiet \/ TRUE \notin ReadCaches
  PROVE  Spec => []AnswersHeld
  <1>1. ReaderTypes /\ ReadsAt /\ Held => AnswersHeld
    <2> SUFFICES ASSUME ReaderTypes, ReadsAt, Held, NEW r \in Readers, rpc[r] = "done",
                        NEW u \in Span(rext[r])
                 PROVE  buf[r][u] \in window[r][u]
      BY DEF AnswersHeld
    <2>1. rext[r] \in Extents /\ rpos[r] = rext[r].first + rext[r].n
      BY DEF ReaderTypes, ReadsAt, At, End
    <2>2. u \in Units /\ u < rpos[r]
      <3>1. rext[r].first \in Nat /\ rext[r].n \in Nat
            /\ Span(rext[r]) = rext[r].first .. rext[r].first + rext[r].n - 1 /\ Span(rext[r]) \subseteq Units
        BY <2>1, ExtentFits
      <3> QED BY <2>1, <3>1
    <2> QED BY <2>2 DEF Held, Filled, Covers
  <1> QED BY <1>1, HeldAlways, PTL

-----------------------------------------------------------------------------
(* The refinement mapping *)

Left(w) == {x \in Span(wjob[w]) : wpc[w] # "idle" /\ (wpc[w] = "data" => VBlock(x) >= wpos[w])}
Pending == [w \in Writers |-> {<<u, Piece(wjob[w], u)>> : u \in Left(w)}]
Open    == {w \in Writers : wpc[w] # "idle"}
Answers == [r \in Readers |-> IF rpc[r] = "done" THEN buf[r] ELSE NoBuf]
Asked(r) == {u \in Units : window[r][u] # {}}

(* A step of the disk, and none, in terms of the mapping. *)
LEMMA Stutters ==
  ASSUME Disk' = Disk, Pending' = Pending, Open' = Open, window' = window, Answers' = Answers
  PROVE  UNCHANGED Device!vars
  BY DEF Device!vars, Disk, Pending, Left, Open, Answers

LEMMA Submits ==
  ASSUME NEW w \in Writers, w \notin Open, Open' = Open \cup {w},
         Pending' \in [Writers -> SUBSET (Units \X Data)],
         \A x \in Writers \ {w} : Pending'[x] = Pending[x],
         \A p, q \in Pending'[w] : p[1] = q[1] => p = q,
         Disk' = Disk, window' = window, Answers' = Answers
  PROVE  Device!Next
  <1>1. Device!Submit(w)
    BY DEF Device!Submit, Disk, Pending, Left, Open, Answers
  <1> QED BY <1>1 DEF Device!Next

LEMMA Applies ==
  ASSUME NEW w \in Writers, NEW P \in SUBSET Pending[w], P # {},
         Pending' = [Pending EXCEPT ![w] = @ \ P],
         Disk' = [u \in Units |-> IF \E v \in Data : <<u, v>> \in P
                                  THEN CHOOSE v \in Data : <<u, v>> \in P ELSE Disk[u]],
         window' = [r \in Readers |-> [u \in Units |->
                     window[r][u] \cup {v \in Data : <<u, v>> \in P /\ u \in Asked(r)}]],
         Open' = Open, Answers' = Answers
  PROVE  Device!Next
  <1>1. Device!Apply(w, P)
    BY DEF Device!Apply, Device!Covered, Disk, Pending, Left, Open, Answers, Asked
  <1>2. P \in SUBSET Pending[w]
    OBVIOUS
  <1> QED BY <1>1, <1>2 DEF Device!Next, Pending, Left

LEMMA Acknowledges ==
  ASSUME NEW w \in Writers, w \in Open, Pending[w] = {}, Open' = Open \ {w},
         Disk' = Disk, Pending' = Pending, window' = window, Answers' = Answers
  PROVE  Device!Next
  <1>1. Device!Acknowledge(w)
    BY DEF Device!Acknowledge, Disk, Pending, Left, Open, Answers
  <1> QED BY <1>1 DEF Device!Next

LEMMA ReadSubmits ==
  ASSUME NEW r \in Readers, NEW S \in SUBSET Units, S # {}, Asked(r) = {},
         window' = [window EXCEPT ![r] = [u \in Units |-> IF u \in S THEN {Disk[u]} ELSE {}]],
         Disk' = Disk, Pending' = Pending, Open' = Open, Answers' = Answers
  PROVE  Device!Next
  <1>1. Device!SubmitRead(r, S)
    BY DEF Device!SubmitRead, Device!Covered, Disk, Pending, Left, Open, Answers, Asked
  <1> QED BY <1>1 DEF Device!Next

LEMMA AnswersRead ==
  ASSUME NEW r \in Readers, Asked(r) # {}, Answers[r] = NoBuf,
         Answers' \in [Readers -> [Units -> Data \cup {NoData}]],
         \A x \in Readers \ {r} : Answers'[x] = Answers[x],
         \A u \in Asked(r) : Answers'[r][u] \in window[r][u],
         \A u \in Units \ Asked(r) : Answers'[r][u] = NoData,
         Disk' = Disk, Pending' = Pending, Open' = Open, window' = window
  PROVE  Device!Next
  <1>1. Device!Answer(r)
    BY DEF Device!Answer, Device!Covered, Device!Nothing, Disk, Pending, Left, Open, Answers, Asked, NoBuf
  <1> QED BY <1>1 DEF Device!Next

LEMMA Retires ==
  ASSUME NEW r \in Readers, Asked(r) # {},
         window' = [window EXCEPT ![r] = [u \in Units |-> {}]],
         Answers' = [Answers EXCEPT ![r] = NoBuf],
         Disk' = Disk, Pending' = Pending, Open' = Open
  PROVE  Device!Next
  <1>1. Device!Retire(r)
    BY DEF Device!Retire, Device!Covered, Device!Nothing, Disk, Pending, Left, Open, Answers, Asked, NoBuf
  <1> QED BY <1>1 DEF Device!Next

-----------------------------------------------------------------------------
(* Every step of the image is a step of the disk *)

LEMMA AskedSpan ==
  ASSUME ReaderTypes, Held, NEW r \in Readers
  PROVE  /\ \A u \in Units : u \in Asked(r) <=> Covers(r, u)
         /\ rpc[r] # "idle" => Asked(r) = Span(rext[r]) /\ Asked(r) # {}
         /\ rpc[r] = "idle" => Asked(r) = {}
  <1>1. Span(rext[r]) \subseteq Units /\ rext[r].first \in Span(rext[r])
    BY ExtentFits DEF ReaderTypes
  <1>2. \A u \in Units : u \in Asked(r) <=> Covers(r, u)
    BY DEF Asked, Held, Windows, Framed
  <1>3. Asked(r) \subseteq Units
    BY DEF Asked
  <1> QED BY <1>1, <1>2, <1>3 DEF Covers

LEMMA DiskSame ==
  ASSUME \A u \in Units : View(u)' = View(u)
  PROVE  Disk' = Disk
  BY DEF Disk

LEMMA WritesSame ==
  ASSUME UNCHANGED writerVars
  PROVE  Pending' = Pending /\ Open' = Open
  BY DEF writerVars, Pending, Left, Open, Piece

LEMMA AnswersSame ==
  ASSUME UNCHANGED readerVars
  PROVE  Answers' = Answers
  BY DEF readerVars, Answers

LEMMA StartWriteStep ==
  ASSUME Types, NEW w \in Writers, NEW e \in Commands, NEW v \in Values, StartWrite(w, e, v)
  PROVE  Device!Next
  <1>1. /\ wpc[w] = "idle" /\ wpc'[w] \in {"invalidate", "check"}
        /\ wjob'[w] = [first |-> e.first, n |-> e.n, val |-> v]
        /\ \A x \in Writers \ {w} : wpc'[x] = wpc[x] /\ wpos'[x] = wpos[x] /\ wjob'[x] = wjob[x]
        /\ UNCHANGED <<file, bat, readerVars, window>>
    BY DEF StartWrite, WGoto, fileVars, Types
  <1>2. w \notin Open /\ Open' = Open \cup {w}
    BY <1>1 DEF Open
  <1>3. \A x \in Writers \ {w} : Pending'[x] = Pending[x]
    BY <1>1 DEF Pending, Left, Piece
  <1>4. Span(e) \subseteq Units
    BY ExtentFits, VhdAssumption
  <1>5. Pending'[w] = {<<u, <<v, u>> >> : u \in Span(e)}
    <2>1. Left(w)' = Span(e)
      BY <1>1 DEF Left, Span
    <2>2. \A u : Piece(wjob'[w], u) = <<v, u>>
      BY <1>1 DEF Piece
    <2> QED BY <2>1, <2>2 DEF Pending
  <1>6. Pending' \in [Writers -> SUBSET (Units \X Data)]
    <2>1. ASSUME NEW x \in Writers \ {w} PROVE Pending[x] \in SUBSET (Units \X Data)
      <3>1. Left(x) \subseteq Units
        BY JobChunks DEF Left
      <3>2. Pending[x] = {<<u, Piece(wjob[x], u)>> : u \in Left(x)}
        BY DEF Pending
      <3> QED BY <3>1, <3>2, PieceIsData
    <2>2. Pending'[w] \in SUBSET (Units \X Data)
      BY <1>4, <1>5 DEF Data
    <2>3. Pending' = [x \in Writers |-> Pending'[x]]
      BY DEF Pending
    <2> QED BY <1>3, <2>1, <2>2, <2>3
  <1>7. \A p, q \in Pending'[w] : p[1] = q[1] => p = q
    BY <1>5
  <1>8. Disk' = Disk /\ Answers' = Answers
    BY <1>1, SameFile, DiskSame, AnswersSame
  <1> QED BY <1>1, <1>2, <1>3, <1>6, <1>7, <1>8, Submits

LEMMA BlockMonotone ==
  ASSUME NEW u \in Nat, NEW v \in Nat, u <= v
  PROVE  VBlock(u) \in Nat /\ VBlock(v) \in Nat /\ VBlock(u) <= VBlock(v)
  <1>1. PICK a \in Nat, b \in Nat : a = VBlock(u) /\ b = VBlock(v)
    BY DivMod, VhdAssumption DEF VBlock
  <1>2. Spb \in Nat \ {0}
    BY VhdAssumption
  <1>3. a * Spb <= u /\ v < b * Spb + Spb
    BY <1>1, <1>2, DivIs DEF VBlock
  <1>4. ASSUME b < a PROVE FALSE
    <2>1. b + 1 <= a /\ b + 1 \in Nat
      BY <1>4
    <2>2. (b + 1) * Spb <= a * Spb
      BY <1>2, <2>1, MulMonotone
    <2>3. (b + 1) * Spb = b * Spb + Spb /\ b * Spb \in Nat /\ a * Spb \in Nat
      BY <1>2
    <2>4. PICK m \in Nat, n \in Nat : m = a * Spb /\ n = b * Spb
      BY <2>3
    <2>5. n + Spb <= m
      BY <2>2, <2>3, <2>4
    <2>6. m <= u /\ v < n + Spb
      BY <1>3, <2>4
    <2> QED BY <1>2, <2>4, <2>5, <2>6
  <1> QED BY <1>1, <1>4

(* Every VHD block from the first to the last of a job has a unit of it.   *)
LEMMA BlocksOfJob ==
  ASSUME Types, NEW w \in Writers
  PROVE  /\ \A u \in Span(wjob[w]) : /\ VBlock(u) \in Nat
                                     /\ FirstBlock(wjob[w]) <= VBlock(u)
                                     /\ VBlock(u) <= LastBlock(wjob[w])
         /\ \A k \in FirstBlock(wjob[w]) .. LastBlock(wjob[w]) :
              \E u \in Span(wjob[w]) : VBlock(u) = k
  <1>1. PICK f \in Nat, l \in Nat : f = wjob[w].first /\ l = f + wjob[w].n - 1 /\ f <= l
    <2>1. [first |-> wjob[w].first, n |-> wjob[w].n] \in Extents
      BY DEF Types, Jobs
    <2>2. wjob[w].first \in Nat /\ wjob[w].n \in Nat \ {0}
      BY <2>1, ExtentFits
    <2>3. wjob[w].first + wjob[w].n - 1 \in Nat /\ wjob[w].first <= wjob[w].first + wjob[w].n - 1
      BY <2>2
    <2> QED BY <2>2, <2>3
  <1>2. Span(wjob[w]) = f .. l /\ FirstBlock(wjob[w]) = VBlock(f) /\ LastBlock(wjob[w]) = VBlock(l)
    BY <1>1 DEF Span, FirstBlock, LastBlock
  <1>3. ASSUME NEW u \in f .. l PROVE VBlock(u) \in Nat /\ VBlock(f) <= VBlock(u) /\ VBlock(u) <= VBlock(l)
    <2>1. u \in Nat /\ f <= u /\ u <= l
      OBVIOUS
    <2> QED BY <2>1, BlockMonotone
  <1>4. ASSUME NEW k \in VBlock(f) .. VBlock(l) PROVE \E u \in f .. l : VBlock(u) = k
    <2>1. VBlock(f) \in Nat /\ VBlock(l) \in Nat
      BY BlockMonotone
    <2>2. k \in Nat /\ VBlock(f) <= k /\ k <= VBlock(l)
      BY <2>1
    <2>3. CASE k = VBlock(f)
      <3>1. f \in f .. l
        BY <1>1
      <3> QED BY <2>3, <3>1
    <2>4. CASE k # VBlock(f)
      <3>1. PICK a \in Nat, b \in Nat : a = VBlock(f) /\ b = VBlock(l)
        BY <2>1
      <3>2. Spb \in Nat \ {0}
        BY VhdAssumption
      <3>3. f < a * Spb + Spb /\ b * Spb <= l
        BY <3>1, <3>2, DivIs DEF VBlock
      <3>4. a + 1 <= k /\ a + 1 \in Nat /\ k <= b
        BY <2>2, <2>4, <3>1
      <3>5. (a + 1) * Spb <= k * Spb /\ k * Spb <= b * Spb
        BY <2>2, <3>2, <3>4, MulMonotone
      <3>6. (a + 1) * Spb = a * Spb + Spb /\ a * Spb \in Nat /\ b * Spb \in Nat
        BY <3>2
      <3>7. PICK m \in Nat : m = k * Spb
        BY <2>2, <3>2
      <3>8. m \in f .. l
        <4>1. f < m
          <5>1. f < (a + 1) * Spb /\ (a + 1) * Spb <= m /\ (a + 1) * Spb \in Nat
            BY <3>2, <3>3, <3>5, <3>6, <3>7
          <5> QED BY <3>7, <5>1
        <4>2. m <= l
          <5>1. m <= b * Spb /\ b * Spb <= l
            BY <3>3, <3>5, <3>7
          <5> QED BY <3>6, <3>7, <5>1
        <4> QED BY <4>1, <4>2
      <3>9. VBlock(m) = k
        <4>1. k * Spb <= m /\ m < k * Spb + Spb
          BY <3>2, <3>7
        <4> QED BY <2>2, <3>2, <4>1, DivIs DEF VBlock
      <3> QED BY <3>8, <3>9
    <2> QED BY <2>3, <2>4
  <1> QED BY <1>2, <1>3, <1>4

(* A write task finds its block, allocates and saves its entries: none of  *)
(* this shows.                                                             *)
LEMMA SilentWriteStep ==
  ASSUME Types, NEW w \in Writers, Write(w), ~WriteData(w), ~AckWrite(w), ~WriteFails(w)
  PROVE  UNCHANGED Device!vars
  <1>1. Alone(w) /\ UNCHANGED <<readerVars, window>> /\ \A u \in Units : View(u)' = View(u)
    BY TaskStep, WritesApart, WriteKeeps
  <1>2. wjob' = wjob /\ wpc[w] \notin {"idle", "data"} /\ wpc'[w] # "idle"
        /\ (wpc'[w] = "data" => wpos'[w] = FirstBlock(wjob[w]))
    BY DEF Write, Invalidate, CheckAllocation, AcquireShared, AcquireExcl, AllocBlock, BeginBat,
           WriteBatEntry, EndBat, WGoto, Types
  <1>3. Open' = Open
    BY <1>1, <1>2 DEF Alone, Open
  <1>4. \A u \in Span(wjob[w]) : VBlock(u) >= FirstBlock(wjob[w])
    BY BlocksOfJob
  <1>5. Left(w)' = Left(w)
    BY <1>2, <1>4 DEF Left
  <1>6. \A x \in Writers \ {w} : Left(x)' = Left(x)
    BY <1>1 DEF Alone, Left
  <1>7. Pending' = Pending
    BY <1>2, <1>5, <1>6 DEF Pending, Piece
  <1> QED BY <1>1, <1>3, <1>7, DiskSame, AnswersSame, Stutters

LEMMA DataStep ==
  ASSUME Types, ReaderTypes, Bounded, Injective(bat), Held, NEW w \in Writers, WriteData(w)
  PROVE  Device!Next
  <1>k. PICK k : k = wpos[w]
    OBVIOUS
  <1>s. PICK S : S = {u \in Span(wjob[w]) : VBlock(u) = k}
    OBVIOUS
  <1>1. /\ wpc[w] = "data" /\ k <= LastBlock(wjob[w]) /\ FirstBlock(wjob[w]) <= k /\ k \in Nat
        /\ wpos' = [wpos EXCEPT ![w] = k + 1]
        /\ UNCHANGED <<wpc, wjob, readerVars>>
    <2>1. wpc[w] = "data" /\ k <= LastBlock(wjob[w]) /\ wpos' = [wpos EXCEPT ![w] = k + 1]
          /\ UNCHANGED <<wpc, wjob, readerVars>>
      BY <1>k DEF WriteData
    <2> QED BY <1>k, <2>1 DEF Bounded, Types
  <1>2. wpos'[w] = k + 1 /\ \A x \in Writers : x # w => wpos'[x] = wpos[x]
    BY <1>1 DEF Types
  <1>3. PICK P : P = {<<u, Piece(wjob[w], u)>> : u \in S}
    OBVIOUS
  <1>4. S \subseteq Left(w) /\ S \subseteq Units /\ S # {}
    <2>1. \A u \in S : VBlock(u) = k /\ u \in Span(wjob[w])
      BY <1>s
    <2>2. \E u \in Span(wjob[w]) : VBlock(u) = k
      <3>1. k \in FirstBlock(wjob[w]) .. LastBlock(wjob[w])
        BY <1>1, Blocks DEF VBlocks
      <3> QED BY <3>1, BlocksOfJob
    <2>3. k >= k
      BY <1>1
    <2>4. S \subseteq Left(w)
      BY <1>k, <1>1, <2>1, <2>3 DEF Left
    <2>5. S # {}
      BY <1>s, <2>2
    <2> QED BY <2>1, <2>4, <2>5, JobChunks
  <1>5. Left(w)' = Left(w) \ S
    <2>1. \A u \in Span(wjob[w]) : VBlock(u) >= k + 1 <=> VBlock(u) >= k /\ VBlock(u) # k
      <3>1. \A u \in Span(wjob[w]) : VBlock(u) \in Nat
        BY BlocksOfJob
      <3> QED BY <1>1, <3>1
    <2>2. Left(w) = {u \in Span(wjob[w]) : VBlock(u) >= k}
      BY <1>k, <1>1 DEF Left
    <2>3. Left(w)' = {u \in Span(wjob[w]) : VBlock(u) >= k + 1}
      BY <1>1, <1>2 DEF Left
    <2> QED BY <1>s, <2>1, <2>2, <2>3
  <1>6. \A x \in Writers : x # w => Left(x)' = Left(x)
    BY <1>1, <1>2 DEF Left
  <1>7. P \in SUBSET Pending[w] /\ P # {}
    BY <1>3, <1>4 DEF Pending
  <1>8. Pending' = [Pending EXCEPT ![w] = @ \ P]
    <2>1. Pending'[w] = Pending[w] \ P
      <3>1. Pending'[w] = {<<u, Piece(wjob[w], u)>> : u \in Left(w) \ S}
        BY <1>1, <1>5 DEF Pending, Piece
      <3> QED BY <1>3, <1>4, <3>1 DEF Pending
    <2>2. ASSUME NEW x \in Writers, x # w PROVE Pending'[x] = Pending[x]
      BY <1>1, <1>6, <2>2 DEF Pending, Piece
    <2> QED BY <2>1, <2>2 DEF Pending
  <1>9. \A u \in Units : \A v \in Data : <<u, v>> \in P <=> u \in S /\ v = Piece(wjob[w], u)
    BY <1>3
  <1>10. \A u \in Units : Piece(wjob[w], u) \in Data
    BY PieceIsData
  <1>11. \A u : u \in Span(wjob[w]) /\ VBlock(u) = wpos[w] <=> u \in S
    BY <1>k, <1>s
  <1>12. Disk' = [u \in Units |-> IF \E v \in Data : <<u, v>> \in P
                                  THEN CHOOSE v \in Data : <<u, v>> \in P ELSE Disk[u]]
    <2>1. \A u \in Units : View(u)' = IF u \in S THEN Piece(wjob[w], u) ELSE View(u)
      BY <1>11, DataChanges
    <2>2. \A u \in Units : (\E v \in Data : <<u, v>> \in P) <=> u \in S
      BY <1>9, <1>10
    <2>3. ASSUME NEW u \in Units, u \in S PROVE (CHOOSE v \in Data : <<u, v>> \in P) = Piece(wjob[w], u)
      BY <1>9, <1>10, <2>3
    <2> QED BY <2>1, <2>2, <2>3 DEF Disk
  <1>13. window' = [r \in Readers |-> [u \in Units |->
                     window[r][u] \cup {v \in Data : <<u, v>> \in P /\ u \in Asked(r)}]]
    <2>1. window' \in [Readers -> [Units -> SUBSET Data]]
      BY WitnessTypes
    <2>2. ASSUME NEW r \in Readers, NEW u \in Units
          PROVE  window'[r][u] = window[r][u] \cup {v \in Data : <<u, v>> \in P /\ u \in Asked(r)}
      <3>1. window'[r][u] = IF u \in S /\ Covers(r, u)
                            THEN window[r][u] \cup {Piece(wjob[w], u)} ELSE window[r][u]
        BY <1>11, WindowGrows
      <3>2. {v \in Data : <<u, v>> \in P /\ u \in Asked(r)}
              = IF u \in S /\ Covers(r, u) THEN {Piece(wjob[w], u)} ELSE {}
        BY <1>9, <1>10, AskedSpan
      <3> QED BY <3>1, <3>2
    <2> QED BY <2>1, <2>2
  <1>14. Open' = Open /\ Answers' = Answers
    BY <1>1, AnswersSame DEF Open
  <1> QED BY <1>7, <1>8, <1>12, <1>13, <1>14, Applies

(* A write is acknowledged when all its units are on the disk. *)
LEMMA AckStep ==
  ASSUME Types, NEW w \in Writers, AckWrite(w)
  PROVE  Device!Next
  <1>1. /\ wpc[w] = "data" /\ wpos[w] > LastBlock(wjob[w]) /\ wpc' = [wpc EXCEPT ![w] = "idle"]
        /\ UNCHANGED <<file, bat, readerVars, window>>
    BY DEF AckWrite, RetireWrite, fileVars
  <1>2. Left(w) = {}
    <2>1. \A u \in Span(wjob[w]) : ~(VBlock(u) >= wpos[w])
      <3>1. LastBlock(wjob[w]) \in Int /\ wpos[w] \in Int
        BY Blocks DEF VBlocks
      <3>2. \A u \in Span(wjob[w]) : VBlock(u) \in Nat /\ VBlock(u) <= LastBlock(wjob[w])
        BY BlocksOfJob
      <3> QED BY <1>1, <3>1, <3>2
    <2> QED BY <1>1, <2>1 DEF Left
  <1>3. wpc'[w] = "idle"
    BY <1>1 DEF Types
  <1>4. Left(w)' = {}
    BY <1>3 DEF Left
  <1>5. Alone(w)
    BY TaskStep DEF Write
  <1>6. Open' = Open \ {w} /\ w \in Open
    BY <1>1, <1>3, <1>5 DEF Open, Alone
  <1>7. \A x \in Writers \ {w} : Left(x)' = Left(x)
    BY <1>5 DEF Alone, Left
  <1>8. Pending' = Pending
    <2>1. \A x \in Writers : Pending'[x] = Pending[x]
      <3>1. Pending'[w] = {} /\ Pending[w] = {}
        BY <1>2, <1>4 DEF Pending
      <3>2. ASSUME NEW x \in Writers \ {w} PROVE Pending'[x] = Pending[x]
        BY <1>5, <1>7 DEF Pending, Piece, Alone
      <3> QED BY <3>1, <3>2
    <2> QED BY <2>1 DEF Pending
  <1>9. Pending[w] = {}
    BY <1>2 DEF Pending
  <1>10. Disk' = Disk /\ Answers' = Answers
    BY <1>1, SameFile, DiskSame, AnswersSame
  <1> QED BY <1>1, <1>6, <1>8, <1>9, <1>10, Acknowledges

LEMMA StartReadStep ==
  ASSUME Types, ReaderTypes, Held, NEW r \in Readers, NEW e \in Commands, StartRead(r, e)
  PROVE  Device!Next
  <1>1. /\ rpc[r] = "idle" /\ rpc'[r] # "done"
        /\ window' = [window EXCEPT ![r] = [u \in Units |-> IF u \in Span(e) THEN {View(u)} ELSE {}]]
        /\ UNCHANGED <<file, bat, writerVars>>
    BY DEF StartRead, RGoto, fileVars, ReaderTypes
  <1>2. Span(e) \in SUBSET Units /\ Span(e) # {}
    BY ExtentFits, VhdAssumption
  <1>3. Asked(r) = {}
    BY <1>1, AskedSpan
  <1>4. window' = [window EXCEPT ![r] = [u \in Units |-> IF u \in Span(e) THEN {Disk[u]} ELSE {}]]
    BY <1>1 DEF Disk
  <1>5. Answers' = Answers
    <2>1. Apart(r)
      BY ReadsApart
    <2> QED BY <1>1, <2>1 DEF Answers, Apart
  <1>6. Disk' = Disk /\ Pending' = Pending /\ Open' = Open
    BY <1>1, SameFile, DiskSame, WritesSame
  <1> QED BY <1>2, <1>3, <1>4, <1>5, <1>6, ReadSubmits

(* The step that fills the buffer, and the steps before it. *)
LEMMA ReadStep ==
  ASSUME Types, ReaderTypes, ReadsAt, Held, ReaderTypes', ReadsAt', Held', NEW r \in Readers, Read(r)
  PROVE  Device!Next \/ UNCHANGED Device!vars
  <1>1. Apart(r) /\ rpc[r] # "idle"
    <2>1. rpc[r] # "idle"
      BY DEF Read, HitChunk, MissFast, LoadChunk, InsertChunk, LockRead, ReadBlock, FinishRead
    <2> QED BY <2>1, ReadsApart
  <1>2. Disk' = Disk /\ Pending' = Pending /\ Open' = Open
    BY <1>1, SameFile, DiskSame, WritesSame DEF Apart
  <1>3. \A x \in Readers \ {r} : Answers'[x] = Answers[x]
    BY <1>1 DEF Apart, Answers
  <1>4. Asked(r) # {} /\ Asked(r) = Span(rext[r])
    BY <1>1, AskedSpan
  <1>5. CASE FinishRead(r)
    <2>1. /\ rpc[r] = "done" /\ rpc'[r] = "idle"
          /\ window' = [window EXCEPT ![r] = [u \in Units |-> {}]]
      BY <1>5 DEF FinishRead, RGoto, ReaderTypes
    <2>2. Answers' = [Answers EXCEPT ![r] = NoBuf]
      <3>1. Answers'[r] = NoBuf
        BY <2>1 DEF Answers
      <3> QED BY <1>3, <3>1 DEF Answers
    <2> QED BY <1>2, <1>4, <2>1, <2>2, Retires
  <1>6. CASE ~FinishRead(r)
    <2>1. window' = window /\ rext' = rext /\ rpc[r] # "done"
      BY <1>6 DEF Read, HitChunk, MissFast, LoadChunk, InsertChunk, LockRead, ReadBlock, Take
    <2>2. Answers[r] = NoBuf
      BY <2>1 DEF Answers
    <2>3. CASE rpc'[r] = "done"
      <3>1. Answers'[r] = buf'[r]
        BY <2>3 DEF Answers
      <3>2. Answers' \in [Readers -> [Units -> Data \cup {NoData}]]
        <4>1. buf' \in [Readers -> [Units -> Data \cup {NoData}]]
          BY DEF ReaderTypes, Buffers
        <4> QED BY <4>1 DEF Answers, NoBuf
      <3>3. \A u \in Asked(r) : Answers'[r][u] \in window[r][u]
        <4>1. rpos'[r] = End(r)' /\ rext[r] \in Extents
          BY <2>3 DEF ReadsAt, At, ReaderTypes
        <4>2. rpos'[r] = rext[r].first + rext[r].n
          BY <2>1, <4>1 DEF End
        <4>3. rext[r].first \in Nat /\ rext[r].n \in Nat
              /\ Span(rext[r]) = rext[r].first .. rext[r].first + rext[r].n - 1 /\ Span(rext[r]) \subseteq Units
          BY <4>1, ExtentFits
        <4>4. \A u \in Span(rext[r]) : u \in Units /\ u < rpos'[r]
          BY <4>2, <4>3
        <4>5. \A u \in Span(rext[r]) : Covers(r, u)'
          BY <2>1, <2>3 DEF Covers
        <4>6. \A u \in Span(rext[r]) : buf'[r][u] \in window'[r][u]
          BY <4>4, <4>5 DEF Held, Filled
        <4> QED BY <1>4, <2>1, <3>1, <4>6
      <3>4. \A u \in Units \ Asked(r) : Answers'[r][u] = NoData
        <4>1. \A u \in Units \ Asked(r) : ~Covers(r, u)'
          BY <1>4, <2>1 DEF Covers
        <4> QED BY <3>1, <4>1 DEF Held, Framed
      <3> QED BY <1>2, <1>3, <1>4, <2>1, <2>2, <3>2, <3>3, <3>4, AnswersRead
    <2>4. CASE rpc'[r] # "done"
      <3>1. Answers' = Answers
        <4>1. Answers'[r] = NoBuf
          BY <2>4 DEF Answers
        <4> QED BY <1>3, <2>2, <4>1 DEF Answers
      <3> QED BY <1>2, <2>1, <3>1, Stutters
    <2> QED BY <2>3, <2>4
  <1> QED BY <1>5, <1>6

(* While the server runs and the file can be written, an image under its   *)
(* lock, with its blocks allocated and copied as they are first written,   *)
(* with or without the read-ahead cache, is a plain disk: a write takes    *)
(* effect between its submission and its acknowledgement, a read answers   *)
(* with what its units held meanwhile, and nothing else changes a unit.    *)
THEOREM ImageIsDevice ==
  ASSUME MaxRestarts = 0, ~IoErrors, ChunkQuiet \/ TRUE \notin ReadCaches
  PROVE  Spec => ImplementsDevice
  <1> DEFINE Inv == Types /\ ReaderTypes /\ ReadsAt /\ Injective(bat) /\ Held /\ Bounded
  <1>1. Spec => []Inv
    <2>1. Spec => [](Types /\ ReaderTypes /\ ReadsAt /\ Injective(bat) /\ Held)
      BY HeldAlways
    <2>2. Init => Bounded
      BY ReaderTypesInit
    <2>3. Types /\ Bounded /\ [Next]_vars => Bounded'
      BY BoundedStep
    <2> QED BY <2>1, <2>2, <2>3, PTL DEF Spec
  <1>2. Init => Device!Init
    <2> SUFFICES ASSUME Init PROVE Device!Init
      OBVIOUS
    <2>1. \A u \in Units : View(u) \in Data
      BY TypesInit, StoredIsData
    <2>2. Disk \in [Units -> Data]
      BY <2>1 DEF Disk
    <2>3. /\ \A w \in Writers : wpc[w] = "idle"
          /\ window = [r \in Readers |-> [u \in Units |-> {}]]
          /\ \A r \in Readers : rpc[r] = "idle"
      BY DEF Init, NoTasks
    <2>4. Pending = [w \in Writers |-> {}] /\ Open = {} /\ Answers = [r \in Readers |-> NoBuf]
      <3>1. \A w \in Writers : Left(w) = {}
        BY <2>3 DEF Left
      <3> QED BY <2>3, <3>1 DEF Pending, Open, Answers
    <2> QED BY <2>2, <2>3, <2>4 DEF Device!Init, Device!Nothing, NoBuf, Disk, Pending, Left, Open, Answers
  <1>3. Inv /\ Inv' /\ [Next]_vars => [Device!Next]_(Device!vars)
    <2> SUFFICES ASSUME Inv, Inv', [Next]_vars PROVE Device!Next \/ UNCHANGED Device!vars
      OBVIOUS
    <2>1. ASSUME UNCHANGED <<file, bat, writerVars, readerVars, window>> PROVE UNCHANGED Device!vars
      BY <2>1, SameFile, DiskSame, WritesSame, AnswersSame, Stutters
    <2>2. CASE UNCHANGED vars
      BY <2>1, <2>2 DEF vars, fileVars
    <2>3. ASSUME NEW c \in Chunks, EvictChunk(c) PROVE UNCHANGED Device!vars
      BY <2>1, <2>3 DEF EvictChunk, fileVars
    <2>4. ~Restart
      BY DEF Restart, ReaderTypes
    <2>5. ASSUME NEW w \in Writers, Write(w) PROVE Device!Next \/ UNCHANGED Device!vars
      <3>1. ~WriteFails(w)
        BY DEF WriteFails
      <3> QED BY <2>5, <3>1, DataStep, AckStep, SilentWriteStep
    <2>6. CASE Next
      BY <2>3, <2>4, <2>5, <2>6, StartWriteStep, StartReadStep, ReadStep DEF Next
    <2> QED BY <2>2, <2>6
  <1> QED BY <1>1, <1>2, <1>3, PTL DEF Spec, ImplementsDevice, Device!Spec
=============================================================================
