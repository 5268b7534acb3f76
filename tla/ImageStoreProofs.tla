--------------------------- MODULE ImageStoreProofs ---------------------------
(***************************************************************************)
(* Proofs about ImageStore, for every size of the image, number of         *)
(* sessions, commands, backups and super VHDs: what the commands keep, and *)
(* how much of it rests on the operator giving them one at a time.         *)
(***************************************************************************)
EXTENDS ImageStore, WellFoundedInduction, TLAPS

Pcs      == {"idle", "backup", "open", "seek", "put", "table", "delete", "truncate"}
AllKinds == {"cli", "api", "merge", "restore"}
Metas    == [eof : 0 .. MaxFile, table : Tables, ok : BOOLEAN, image : Images, cut : BOOLEAN]

BaseTypes   == base \in Seq(Values) /\ Len(base) <= MaxFile /\ bat \in Tables
SuperTypes  == supers \in Seq(Images) /\ cur \in 0 .. Len(supers) /\ sup \in 0 .. Len(supers)
BackupTypes == backups \in Seq(Metas)
JobTypes ==
  /\ jpc \in [Jobs -> Pcs] /\ jkind \in [Jobs -> AllKinds] /\ jid \in [Jobs -> Nat]
  /\ jbat \in [Jobs -> Tables] /\ jtodo \in [Jobs -> SUBSET VBlocks]
  /\ jeof \in [Jobs -> 0 .. MaxFile] /\ jpos \in [Jobs -> 0 .. NumBlocks]
  /\ jgoal \in [Jobs -> Images]
SessionTypes == sbat \in [Sessions -> Tables \cup {Closed}] /\ seen \in [Sessions -> Images]

(* A merge has a super VHD open, of which the blocks it is still to copy   *)
(* are there, and room for the one it is about to copy.                    *)
OpenedAt(j) == jpc[j] \in {"seek", "put"} =>
  /\ jid[j] \in 1 .. Len(supers)
  /\ \A k \in jtodo[j] : supers[jid[j]][k] # NoData
  /\ jpc[j] = "put" => jtodo[j] # {} /\ jeof[j] < MaxFile
Opened == \A j \in Jobs : OpenedAt(j)

Types == BaseTypes /\ SuperTypes /\ BackupTypes /\ JobTypes /\ SessionTypes /\ Opened

(* One command at a time, which finds the end of the file where it saw it. *)
Alone ==
  /\ \A i, j \in Jobs : jpc[i] # "idle" /\ jpc[j] # "idle" => i = j
  /\ \A j \in Jobs : jpc[j] = "put" => jeof[j] = Len(base)
  /\ \A j \in Jobs : /\ jpc[j] \in {"backup", "open", "seek", "put"} => jkind[j] # "restore"
                     /\ jpc[j] = "truncate" => jkind[j] = "restore"

(* What a table shows of block k in a base file f.                         *)
At(f, table, k) ==
  IF table[k] = Free THEN Zero ELSE IF table[k] \in DOMAIN f THEN f[table[k]] ELSE NoData

(* What a backup has of its image lies below its end of file.              *)
Below(image, table, n) == \A k \in VBlocks : image[k] = NoData \/ table[k] = Free \/ table[k] <= n
Shows(f, table, image) == \A k \in VBlocks : image[k] = NoData \/ At(f, table, k) = image[k]
Intact(m, f) == m.ok /\ ~m.cut => Below(m.image, m.table, m.eof) /\ Shows(f, m.table, m.image)
BackupsIntact == \A i \in DOMAIN backups : Intact(backups[i], base)

RestoresAlone ==
  \A j \in Jobs : jpc[j] # "idle" /\ jkind[j] = "restore" => \A s \in Sessions : sbat[s] = Closed

(* The super client is off while a command runs, and a merge has the super *)
(* VHD open that the super path names.                                     *)
Merging(j) == jpc[j] \in {"seek", "put", "table", "delete"} /\ jkind[j] # "restore"
Still ==
  /\ \A j \in Jobs : jpc[j] # "idle" => sup = 0
  /\ \A j \in Jobs : Merging(j) => cur # 0 /\ jid[j] = cur

(* The command's table, with the blocks still to be copied taken from the  *)
(* super VHD, shows its goal; a merge's table is the base's where the super*)
(* VHD has nothing, and its goal the super VHD's where it has something.   *)
Copying(j)  == jpc[j] \in {"seek", "put"}
Taken(j, k) ==
  \/ jgoal[j][k] = NoData
  \/ Copying(j) /\ k \in jtodo[j] /\ supers[jid[j]][k] = jgoal[j][k]
  \/ (Copying(j) => k \notin jtodo[j]) /\ At(base, jbat[j], k) = jgoal[j][k]
Overlaid(j) == \A k \in VBlocks :
  /\ supers[cur][k] = NoData => jbat[j][k] = bat[k]
  /\ supers[cur][k] # NoData => jgoal[j][k] = supers[cur][k]
Landing(j) ==
  /\ jpc[j] \in {"seek", "put", "table", "delete", "truncate"} => \A k \in VBlocks : Taken(j, k)
  /\ jpc[j] = "truncate" => Below(jgoal[j], jbat[j], jeof[j])
  /\ jpc[j] = "table" => \A k \in VBlocks : k < jpos[j] => bat[k] = jbat[j][k]
  /\ jpc[j] = "delete" => bat = jbat[j]
  /\ Merging(j) => Overlaid(j)
Lands == \A j \in Jobs : Landing(j)

-----------------------------------------------------------------------------
(* Data *)

LEMMA MinIn ==
  ASSUME NEW T \in SUBSET Nat, T # {}
  PROVE  Min(T) \in T
  <1> DEFINE Less == {ss \in Nat \X Nat : ss[1] < ss[2]}
  <1>1. IsWellFoundedOn(Less, Nat)
    BY NatLessThanWellFounded DEF OpToRel
  <1> HIDE DEF Less
  <1>2. PICK x \in T : \A y \in T : ~(<<y, x>> \in Less)
    BY <1>1, WFMin
  <1>3. ASSUME NEW y \in T PROVE x <= y
    <2>1. x \in Nat /\ y \in Nat /\ <<y, x>> \in Nat \X Nat
      OBVIOUS
    <2>2. <<y, x>>[1] = y /\ <<y, x>>[2] = x
      OBVIOUS
    <2>3. y < x => <<y, x>> \in Less
      BY <2>1, <2>2 DEF Less
    <2> QED BY <1>2, <2>1, <2>3
  <1> QED BY <1>3 DEF Min
LEMMA MaxOf ==
  ASSUME NEW a \in Nat, NEW b \in Nat
  PROVE  Max({a, b}) = IF a >= b THEN a ELSE b
  <1>1. PICK m \in {a, b} : \A y \in {a, b} : m >= y
    OBVIOUS
  <1>2. \A y \in {a, b} : Max({a, b}) >= y /\ Max({a, b}) \in {a, b}
    BY <1>1 DEF Max
  <1> QED BY <1>2

LEMMA Facts ==
  /\ NumBlocks \in Nat /\ NumBlocks > 0 /\ MaxFile \in Nat /\ Zero \in Values /\ NoData \notin Values
  /\ Edits \subseteq Values /\ Free \notin Nat /\ VBlocks \subseteq Nat
  /\ NoTable \in Tables /\ NoImage \in Images /\ 0 \in 0 .. MaxFile /\ 0 \in 0 .. NumBlocks
  /\ Values \subseteq Payloads /\ NoData \in Payloads
  /\ \A k \in VBlocks : NoImage[k] = NoData
  BY ImageAssumption DEF VBlocks, Tables, NoTable, NoImage, Images, Payloads

LEMMA ResizeIs ==
  ASSUME NEW f \in Seq(Values), NEW n \in Nat
  PROVE  /\ Resize(f, n) \in Seq(Values) /\ Len(Resize(f, n)) = n /\ DOMAIN Resize(f, n) = 1 .. n
         /\ \A i \in 1 .. n : Resize(f, n)[i] = IF i <= Len(f) THEN f[i] ELSE Zero
  <1>1. \A i \in 1 .. n : i <= Len(f) => f[i] \in Values
    OBVIOUS
  <1> QED BY <1>1, Facts DEF Resize

LEMMA PutAtIs ==
  ASSUME NEW f \in Seq(Values), NEW n \in Nat, n # 0, NEW v \in Values
  PROVE  /\ PutAt(f, n, v) \in Seq(Values) /\ Len(PutAt(f, n, v)) = (IF n >= Len(f) THEN n ELSE Len(f))
         /\ DOMAIN PutAt(f, n, v) = 1 .. Len(PutAt(f, n, v)) /\ PutAt(f, n, v)[n] = v
         /\ \A i \in 1 .. Len(f) : i # n => PutAt(f, n, v)[i] = f[i]
  <1> DEFINE m == IF n >= Len(f) THEN n ELSE Len(f)
             g == Resize(f, m)
  <1>1. Len(f) \in Nat /\ m \in Nat /\ Max({n, Len(f)}) = m
    BY MaxOf
  <1>2. /\ g \in Seq(Values) /\ Len(g) = m /\ DOMAIN g = 1 .. m
        /\ \A i \in 1 .. m : g[i] = IF i <= Len(f) THEN f[i] ELSE Zero
    BY <1>1, ResizeIs
  <1>3. PutAt(f, n, v) = [g EXCEPT ![n] = v]
    BY <1>1 DEF PutAt
  <1> HIDE DEF g
  <1>4. n \in 1 .. m /\ \A i \in 1 .. Len(f) : i \in 1 .. m
    BY <1>1
  <1> QED BY <1>2, <1>3, <1>4

LEMMA ImagesAre ==
  ASSUME BaseTypes
  PROVE  /\ \A t \in Tables : ImageOf(t) \in Images
         /\ Image \in Images
         /\ SuperTypes => Whole \in Images
  <1>1. \A i \in DOMAIN base : base[i] \in Values
    BY DEF BaseTypes
  <1>2. \A t \in Tables : \A k \in VBlocks : Through(t, k) \in Payloads
    BY <1>1, Facts DEF Through
  <1>3. \A t \in Tables : ImageOf(t) \in Images
    BY <1>2 DEF ImageOf, Images
  <1>4. Image \in Images
    BY <1>3 DEF Image, BaseTypes
  <1>5. ASSUME SuperTypes PROVE Whole \in Images
    <2>1. cur # 0 => supers[cur] \in Images
      BY <1>5 DEF SuperTypes
    <2> QED BY <1>4, <2>1 DEF Whole, Over, Images
  <1> QED BY <1>3, <1>4, <1>5

(* Where the command of another job is.                                    *)
Others(j) == \A i \in Jobs \ {j} :
  /\ jpc'[i] = jpc[i] /\ jkind'[i] = jkind[i] /\ jid'[i] = jid[i] /\ jbat'[i] = jbat[i]
  /\ jtodo'[i] = jtodo[i] /\ jeof'[i] = jeof[i] /\ jpos'[i] = jpos[i] /\ jgoal'[i] = jgoal[i]

LEMMA FinishIs ==
  ASSUME JobTypes, NEW j \in Jobs, Finish(j)
  PROVE  /\ JobTypes' /\ Others(j) /\ jpc'[j] = "idle" /\ jkind'[j] = "cli"
  <1>1. /\ jpc' = [jpc EXCEPT ![j] = "idle"] /\ jkind' = [jkind EXCEPT ![j] = "cli"]
        /\ jid' = [jid EXCEPT ![j] = 0]      /\ jbat' = [jbat EXCEPT ![j] = NoTable]
        /\ jtodo' = [jtodo EXCEPT ![j] = {}] /\ jeof' = [jeof EXCEPT ![j] = 0]
        /\ jpos' = [jpos EXCEPT ![j] = 0]    /\ jgoal' = [jgoal EXCEPT ![j] = NoImage]
    BY DEF Finish, JGoto
  <1>2. "idle" \in Pcs /\ "cli" \in AllKinds /\ 0 \in Nat
    BY DEF Pcs, AllKinds
  <1>3. JobTypes'
    BY <1>1, <1>2, Facts DEF JobTypes
  <1> QED BY <1>1, <1>3 DEF JobTypes, Others

(* A step of one command that leaves the super VHDs as they are.           *)
LEMMA StepTypes ==
  ASSUME Types, NEW j \in Jobs, BaseTypes', BackupTypes', JobTypes', Others(j),
         UNCHANGED <<superVars, sessionVars>>, OpenedAt(j)'
  PROVE  Types'
  <1>1. SuperTypes' /\ SessionTypes'
    BY DEF Types, SuperTypes, SessionTypes, superVars, sessionVars
  <1>2. ASSUME NEW i \in Jobs \ {j} PROVE OpenedAt(i)'
    BY DEF Types, Opened, OpenedAt, Others, superVars
  <1> QED BY <1>1, <1>2 DEF Types, Opened

LEMMA InitTypes == Init => Types
  <1> SUFFICES ASSUME Init PROVE Types
    OBVIOUS
  <1>1. BaseTypes
    BY ImageAssumption DEF Init, BaseTypes
  <1>2. SuperTypes /\ BackupTypes
    BY DEF Init, SuperTypes, BackupTypes
  <1>3. JobTypes
    BY Facts DEF Init, JobTypes, Pcs, AllKinds
  <1>4. SessionTypes
    BY Facts DEF Init, SessionTypes
  <1>5. Opened
    BY DEF Init, Opened, OpenedAt
  <1> QED BY <1>1, <1>2, <1>3, <1>4, <1>5 DEF Types

LEMMA StartCommitTypes ==
  ASSUME Types, NEW j \in Jobs, NEW kind \in {"cli", "api", "merge"}, StartCommit(j, kind)
  PROVE  Types' /\ Others(j)
  <1>1. JobTypes'
    BY DEF Types, StartCommit, JGoto, JobTypes, Pcs, AllKinds
  <1>2. Others(j) /\ OpenedAt(j)'
    BY DEF Types, StartCommit, JGoto, JobTypes, Others, OpenedAt
  <1>3. BaseTypes' /\ BackupTypes' /\ UNCHANGED <<superVars, sessionVars>>
    BY DEF Types, StartCommit, BaseTypes, BackupTypes, baseVars
  <1> QED BY <1>1, <1>2, <1>3, StepTypes

LEMMA MetaIs ==
  ASSUME Types
  PROVE  Meta(Len(base), bat, TRUE) \in Metas /\ Meta(0, NoTable, FALSE) \in Metas
  <1>1. Len(base) \in 0 .. MaxFile /\ bat \in Tables /\ Image \in Images
    BY ImagesAre, Facts DEF Types, BaseTypes
  <1> QED BY <1>1, Facts DEF Meta, Metas

LEMMA BackupTypesKept ==
  ASSUME Types, NEW j \in Jobs, BackupBase(j) \/ BackupFails(j)
  PROVE  /\ Types' /\ Others(j)
         /\ \/ backups' = backups
            \/ \E m \in {Meta(0, NoTable, FALSE), Meta(Len(base), bat, TRUE)} :
                 backups' = Append(backups, m)
  <1>1. \/ backups' = backups
        \/ \E m \in {Meta(0, NoTable, FALSE), Meta(Len(base), bat, TRUE)} :
                 backups' = Append(backups, m)
    BY DEF BackupBase, BackupFails
  <1>2. BackupTypes'
    <2>1. backups \in Seq(Metas)
      BY DEF Types, BackupTypes
    <2>2. \A m \in {Meta(0, NoTable, FALSE), Meta(Len(base), bat, TRUE)} : m \in Metas
      BY MetaIs
    <2>3. \A m \in Metas : Append(backups, m) \in Seq(Metas)
      BY <2>1
    <2> QED BY <1>1, <2>1, <2>2, <2>3 DEF BackupTypes
  <1>3. JobTypes' /\ Others(j) /\ jpc'[j] \in {"idle", "open"}
    <2>1. CASE JGoto(j, "open") /\ UNCHANGED localVars
      BY <2>1 DEF Types, JGoto, localVars, JobTypes, Pcs, Others
    <2>2. CASE Finish(j)
      BY <2>2, FinishIs DEF Types
    <2> QED BY <2>1, <2>2 DEF BackupBase, BackupFails
  <1>4. BaseTypes' /\ UNCHANGED <<superVars, sessionVars>>
    BY DEF Types, BackupBase, BackupFails, BaseTypes, baseVars
  <1>5. OpenedAt(j)'
    BY <1>3 DEF OpenedAt
  <1> QED BY <1>1, <1>2, <1>3, <1>4, <1>5, StepTypes

LEMMA OpenImagesTypes ==
  ASSUME Types, NEW j \in Jobs, OpenImages(j)
  PROVE  Types' /\ Others(j)
  <1>1. BaseTypes' /\ BackupTypes' /\ UNCHANGED <<superVars, sessionVars>>
    BY DEF Types, OpenImages, BaseTypes, BackupTypes, baseVars
  <1>2. CASE cur = 0
    <2>1. Finish(j)
      BY <1>2 DEF OpenImages
    <2>2. JobTypes' /\ Others(j) /\ jpc'[j] = "idle"
      BY <2>1, FinishIs DEF Types
    <2>3. OpenedAt(j)'
      BY <2>2 DEF OpenedAt
    <2> QED BY <1>1, <2>2, <2>3, StepTypes
  <1>3. CASE cur # 0
    <2> DEFINE todo == {k \in VBlocks : supers[cur][k] # NoData}
    <2>1. /\ jpc' = [jpc EXCEPT ![j] = "seek"] /\ jid' = [jid EXCEPT ![j] = cur]
          /\ jbat' = [jbat EXCEPT ![j] = bat] /\ jtodo' = [jtodo EXCEPT ![j] = todo]
          /\ jgoal' = [jgoal EXCEPT ![j] = Whole] /\ UNCHANGED <<jkind, jeof, jpos>>
      BY <1>3 DEF OpenImages, JGoto
    <2>2. /\ "seek" \in Pcs /\ cur \in Nat /\ cur \in 1 .. Len(supers) /\ bat \in Tables
          /\ todo \in SUBSET VBlocks /\ Whole \in Images
      BY <1>3, ImagesAre DEF Pcs, Types, SuperTypes, BaseTypes
    <2> HIDE DEF todo
    <2>3. JobTypes' /\ Others(j)
      BY <2>1, <2>2 DEF Types, JobTypes, Others
    <2>4. OpenedAt(j)'
      <3>1. /\ jid'[j] = cur /\ jtodo'[j] = todo /\ supers' = supers /\ jpc'[j] = "seek"
        BY <1>1, <2>1 DEF Types, JobTypes, superVars
      <3> QED BY <2>2, <3>1 DEF OpenedAt, todo
    <2> QED BY <1>1, <2>3, <2>4, StepTypes
  <1> QED BY <1>2, <1>3

LEMMA SeekEndTypes ==
  ASSUME Types, NEW j \in Jobs, SeekEnd(j)
  PROVE  Types' /\ Others(j)
  <1>1. BaseTypes' /\ BackupTypes' /\ UNCHANGED <<superVars, sessionVars>>
    BY DEF Types, SeekEnd, BaseTypes, BackupTypes, baseVars
  <1>2. /\ jpc[j] = "seek" /\ jtodo[j] # {} /\ Len(base) < MaxFile
        /\ jeof' = [jeof EXCEPT ![j] = Len(base)] /\ jpc' = [jpc EXCEPT ![j] = "put"]
        /\ UNCHANGED <<jkind, jid, jbat, jtodo, jpos, jgoal>>
    BY DEF SeekEnd, JGoto
  <1>3. "put" \in Pcs /\ Len(base) \in 0 .. MaxFile
    BY <1>2, Facts DEF Pcs, Types, BaseTypes
  <1>4. JobTypes' /\ Others(j)
    BY <1>2, <1>3 DEF Types, JobTypes, Others
  <1>5. OpenedAt(j)'
    <2>1. jeof'[j] = Len(base) /\ jpc'[j] = "put" /\ supers' = supers
      BY <1>1, <1>2 DEF Types, JobTypes, superVars
    <2>2. OpenedAt(j)
      BY DEF Types, Opened
    <2> QED BY <1>2, <2>1, <2>2 DEF OpenedAt
  <1> QED BY <1>1, <1>4, <1>5, StepTypes

(* The block copied is the first one left, and there is room for it.       *)
LEMMA Copied ==
  ASSUME Types, NEW j \in Jobs, PutBlock(j)
  PROVE  \E k \in jtodo[j] :
           /\ k \in VBlocks /\ jpc[j] = "put" /\ jid[j] \in 1 .. Len(supers)
           /\ supers[jid[j]][k] \in Values /\ jeof[j] \in Nat /\ jeof[j] < MaxFile
           /\ base' = PutAt(base, jeof[j] + 1, supers[jid[j]][k])
           /\ jbat' = [jbat EXCEPT ![j] = [@ EXCEPT ![k] = jeof[j] + 1]]
           /\ jtodo' = [jtodo EXCEPT ![j] = @ \ {k}]
           /\ jpc' = [jpc EXCEPT ![j] = "seek"]
           /\ UNCHANGED <<bat, superVars, backups, jkind, jid, jeof, jpos, jgoal, sessionVars>>
  <1> DEFINE k == Min(jtodo[j])
  <1>1. jpc[j] = "put"
    BY DEF PutBlock
  <1>2. /\ jtodo[j] # {} /\ jtodo[j] \in SUBSET VBlocks /\ jid[j] \in 1 .. Len(supers)
        /\ (\A b \in jtodo[j] : supers[jid[j]][b] # NoData) /\ jeof[j] < MaxFile /\ jeof[j] \in Nat
    BY <1>1, Facts DEF Types, JobTypes, Opened, OpenedAt
  <1>3. k \in jtodo[j] /\ k \in VBlocks
    BY <1>2, MinIn, Facts
  <1>4. supers[jid[j]][k] \in Values
    <2>1. supers[jid[j]] \in Images
      BY <1>2 DEF Types, SuperTypes
    <2>2. supers[jid[j]][k] \in Payloads
      BY <1>3, <2>1 DEF Images
    <2> QED BY <1>2, <1>3, <2>2 DEF Payloads
  <1>5. /\ base' = PutAt(base, jeof[j] + 1, supers[jid[j]][k])
        /\ jbat' = [jbat EXCEPT ![j][k] = jeof[j] + 1]
        /\ jtodo' = [jtodo EXCEPT ![j] = @ \ {k}] /\ jpc' = [jpc EXCEPT ![j] = "seek"]
        /\ UNCHANGED <<bat, superVars, backups, jkind, jid, jeof, jpos, jgoal, sessionVars>>
    BY DEF PutBlock, JGoto
  <1> QED BY <1>1, <1>2, <1>3, <1>4, <1>5

LEMMA PutBlockTypes ==
  ASSUME Types, NEW j \in Jobs, PutBlock(j)
  PROVE  Types' /\ Others(j)
  <1>1. PICK k \in jtodo[j] :
           /\ k \in VBlocks /\ jpc[j] = "put" /\ jid[j] \in 1 .. Len(supers)
           /\ supers[jid[j]][k] \in Values /\ jeof[j] \in Nat /\ jeof[j] < MaxFile
           /\ base' = PutAt(base, jeof[j] + 1, supers[jid[j]][k])
           /\ jbat' = [jbat EXCEPT ![j] = [@ EXCEPT ![k] = jeof[j] + 1]]
           /\ jtodo' = [jtodo EXCEPT ![j] = @ \ {k}]
           /\ jpc' = [jpc EXCEPT ![j] = "seek"]
           /\ UNCHANGED <<bat, superVars, backups, jkind, jid, jeof, jpos, jgoal, sessionVars>>
    BY Copied
  <1>2. BaseTypes'
    <2>1. base \in Seq(Values) /\ Len(base) <= MaxFile /\ bat \in Tables /\ Len(base) \in Nat
      BY DEF Types, BaseTypes
    <2>2. jeof[j] + 1 \in Nat /\ jeof[j] + 1 # 0 /\ jeof[j] + 1 <= MaxFile
      BY <1>1, Facts
    <2>3. base' \in Seq(Values) /\ Len(base') = IF jeof[j] + 1 >= Len(base) THEN jeof[j] + 1 ELSE Len(base)
      BY <1>1, <2>1, <2>2, PutAtIs
    <2> QED BY <1>1, <2>1, <2>2, <2>3 DEF BaseTypes
  <1>3. [jbat[j] EXCEPT ![k] = jeof[j] + 1] \in Tables
    <2>1. jbat[j] \in Tables /\ jeof[j] + 1 \in 1 .. MaxFile
      BY <1>1, Facts DEF Types, JobTypes
    <2> QED BY <1>1, <2>1 DEF Tables
  <1>4. "seek" \in Pcs /\ jtodo[j] \ {k} \in SUBSET VBlocks
    BY DEF Pcs, Types, JobTypes
  <1>5. JobTypes' /\ Others(j)
    BY <1>1, <1>3, <1>4 DEF Types, JobTypes, Others
  <1>6. OpenedAt(j)'
    <2>1. /\ jid'[j] = jid[j] /\ jtodo'[j] \subseteq jtodo[j] /\ jpc'[j] = "seek" /\ supers' = supers
      BY <1>1 DEF Types, JobTypes, superVars
    <2>2. OpenedAt(j)
      BY DEF Types, Opened
    <2> QED BY <1>1, <2>1, <2>2 DEF OpenedAt
  <1>7. BackupTypes'
    BY <1>1 DEF Types, BackupTypes
  <1> QED BY <1>1, <1>2, <1>5, <1>6, <1>7, StepTypes

LEMMA TableTypes ==
  ASSUME Types, NEW j \in Jobs, BeginTable(j) \/ PutEntry(j)
  PROVE  Types' /\ Others(j)
  <1>1. BackupTypes' /\ UNCHANGED <<superVars, sessionVars>>
    BY DEF Types, BeginTable, PutEntry, BackupTypes
  <1>2. BaseTypes'
    <2>1. CASE BeginTable(j)
      BY <2>1 DEF Types, BaseTypes, BeginTable, baseVars
    <2>2. CASE PutEntry(j)
      <3>1. jbat[j] \in Tables /\ bat \in Tables /\ jpos[j] \in VBlocks
        BY <2>2 DEF Types, JobTypes, BaseTypes, PutEntry
      <3>2. [bat EXCEPT ![jpos[j]] = jbat[j][jpos[j]]] \in Tables
        BY <3>1 DEF Tables
      <3> QED BY <2>2, <3>2 DEF Types, BaseTypes, PutEntry
    <2> QED BY <2>1, <2>2
  <1>3. \E pc \in {"table", "delete"}, n \in 0 .. NumBlocks :
          /\ jpc' = [jpc EXCEPT ![j] = pc] /\ jpos' = [jpos EXCEPT ![j] = n]
          /\ UNCHANGED <<jkind, jid, jbat, jtodo, jeof, jgoal>>
    <2>1. CASE BeginTable(j)
      BY <2>1, Facts DEF BeginTable, JGoto
    <2>2. CASE PutEntry(j)
      <3>1. jpos[j] + 1 \in 0 .. NumBlocks
        BY <2>2, Facts DEF PutEntry, VBlocks
      <3> QED BY <2>2, <3>1 DEF PutEntry, JGoto
    <2> QED BY <2>1, <2>2
  <1>4. JobTypes' /\ Others(j) /\ jpc'[j] \in {"table", "delete"}
    <2>1. {"table", "delete"} \subseteq Pcs
      BY DEF Pcs
    <2> QED BY <1>3, <2>1 DEF Types, JobTypes, Others
  <1>5. OpenedAt(j)'
    BY <1>4 DEF OpenedAt
  <1> QED BY <1>1, <1>2, <1>4, <1>5, StepTypes

LEMMA StopsTypes ==
  ASSUME Types, NEW j \in Jobs, Stops(j)
  PROVE  Types' /\ Others(j)
  <1>1. BaseTypes' /\ BackupTypes' /\ UNCHANGED <<superVars, sessionVars>>
    BY DEF Types, Stops, BaseTypes, BackupTypes, baseVars
  <1>2. JobTypes' /\ Others(j) /\ jpc'[j] = "idle"
    BY FinishIs DEF Types, Stops
  <1>3. OpenedAt(j)'
    BY <1>2 DEF OpenedAt
  <1> QED BY <1>1, <1>2, <1>3, StepTypes

LEMMA RestoreTypes ==
  ASSUME Types, NEW j \in Jobs, NEW i, StartRestore(j, i)
  PROVE  Types' /\ Others(j)
  <1>1. BaseTypes' /\ BackupTypes' /\ UNCHANGED <<superVars, sessionVars>>
    BY DEF Types, StartRestore, BaseTypes, BackupTypes, baseVars
  <1> DEFINE goal == IF backups[i].cut THEN NoImage ELSE backups[i].image
  <1>2. /\ jpc' = [jpc EXCEPT ![j] = "truncate"] /\ jkind' = [jkind EXCEPT ![j] = "restore"]
        /\ jbat' = [jbat EXCEPT ![j] = backups[i].table] /\ jeof' = [jeof EXCEPT ![j] = backups[i].eof]
        /\ jgoal' = [jgoal EXCEPT ![j] = goal] /\ UNCHANGED <<jid, jtodo, jpos>>
    BY DEF StartRestore, JGoto
  <1>3. /\ "truncate" \in Pcs /\ "restore" \in AllKinds
        /\ backups[i].table \in Tables /\ backups[i].eof \in 0 .. MaxFile /\ goal \in Images
    <2>1. backups[i] \in Metas
      BY DEF Types, BackupTypes, StartRestore
    <2> QED BY <2>1, Facts DEF Pcs, AllKinds, Metas
  <1> HIDE DEF goal
  <1>4. JobTypes' /\ Others(j) /\ jpc'[j] = "truncate"
    BY <1>2, <1>3 DEF Types, JobTypes, Others
  <1>5. OpenedAt(j)'
    BY <1>4 DEF OpenedAt
  <1> QED BY <1>1, <1>4, <1>5, StepTypes

LEMMA TruncateTypes ==
  ASSUME Types, NEW j \in Jobs, Truncate(j)
  PROVE  Types' /\ Others(j)
  <1>1. UNCHANGED <<superVars, sessionVars>>
    BY DEF Truncate
  <1>2. BaseTypes'
    <2>1. base \in Seq(Values) /\ jeof[j] \in Nat /\ jeof[j] <= MaxFile
      BY Facts DEF Types, BaseTypes, JobTypes
    <2>2. base' \in Seq(Values) /\ Len(base') = jeof[j]
      BY <2>1, ResizeIs DEF Truncate
    <2> QED BY <2>1, <2>2 DEF Types, BaseTypes, Truncate
  <1>3. BackupTypes'
    <2>1. \A n \in DOMAIN backups : backups[n] \in Metas
      BY DEF Types, BackupTypes
    <2>2. \A n \in DOMAIN backups :
            [backups[n] EXCEPT !.cut = @ \/ jeof[j] < backups[n].eof] \in Metas
      <3> SUFFICES ASSUME NEW n \in DOMAIN backups
                   PROVE  [backups[n] EXCEPT !.cut = @ \/ jeof[j] < backups[n].eof] \in Metas
        OBVIOUS
      <3> DEFINE c == backups[n].cut \/ jeof[j] < backups[n].eof
      <3>1. c \in BOOLEAN
        OBVIOUS
      <3>2. [backups[n] EXCEPT !.cut = @ \/ jeof[j] < backups[n].eof] = [backups[n] EXCEPT !.cut = c]
        BY <2>1 DEF Metas
      <3> HIDE DEF c
      <3>3. [backups[n] EXCEPT !.cut = c] \in Metas
        BY <2>1, <3>1 DEF Metas
      <3> QED BY <3>2, <3>3
    <2>3. backups' = [n \in DOMAIN backups |-> [backups[n] EXCEPT !.cut = @ \/ jeof[j] < backups[n].eof]]
      BY DEF Truncate
    <2>4. DOMAIN backups = 1 .. Len(backups) /\ Len(backups) \in Nat
      BY DEF Types, BackupTypes
    <2> QED BY <2>2, <2>3, <2>4 DEF BackupTypes
  <1>4. JobTypes' /\ Others(j) /\ jpc'[j] = "table"
    <2>1. /\ jpc' = [jpc EXCEPT ![j] = "table"] /\ jpos' = [jpos EXCEPT ![j] = 0]
          /\ UNCHANGED <<jkind, jid, jbat, jtodo, jeof, jgoal>>
      BY DEF Truncate, JGoto
    <2>2. "table" \in Pcs
      BY DEF Pcs
    <2> QED BY <2>1, <2>2, Facts DEF Types, JobTypes, Others
  <1>5. OpenedAt(j)'
    BY <1>4 DEF OpenedAt
  <1> QED BY <1>1, <1>2, <1>3, <1>4, <1>5, StepTypes

(* A step that touches no command, and keeps what one has open.            *)
LEMMA AsideTypes ==
  ASSUME Types, BaseTypes', SuperTypes', SessionTypes', UNCHANGED <<backups, jobVars>>,
         Len(supers') >= Len(supers),
         \A n \in 1 .. Len(supers) :
           (\E j \in Jobs : jid[j] = n /\ jpc[j] \in {"seek", "put"}) =>
             \A k \in VBlocks : supers[n][k] # NoData => supers'[n][k] # NoData
  PROVE  Types'
  <1>1. BackupTypes' /\ JobTypes' /\ jpc' = jpc /\ jid' = jid /\ jtodo' = jtodo /\ jeof' = jeof
    BY DEF Types, BackupTypes, JobTypes, jobVars, localVars
  <1>2. Len(supers) \in Nat /\ Len(supers') \in Nat
    BY DEF Types, SuperTypes
  <1>3. ASSUME NEW j \in Jobs PROVE OpenedAt(j)'
    <2>1. OpenedAt(j) /\ jtodo[j] \subseteq VBlocks
      BY DEF Types, Opened, JobTypes
    <2> QED BY <1>1, <1>2, <2>1 DEF OpenedAt
  <1> QED BY <1>1, <1>3 DEF Types, Opened

LEMMA OpenSuperTypes ==
  ASSUME Types, OpenSuper
  PROVE  Types'
  <1>1. BaseTypes' /\ SessionTypes' /\ UNCHANGED <<backups, jobVars>>
    BY DEF Types, OpenSuper, BaseTypes, SessionTypes, baseVars, sessionVars
  <1>2. CASE cur # 0 /\ sup' = cur /\ UNCHANGED <<supers, cur>>
    BY <1>1, <1>2, AsideTypes DEF Types, SuperTypes
  <1>3. CASE /\ cur = 0 /\ supers' = Append(supers, NoImage)
             /\ cur' = Len(supers) + 1 /\ sup' = Len(supers) + 1
    <2>1. supers \in Seq(Images) /\ Len(supers) \in Nat
      BY DEF Types, SuperTypes
    <2>2. /\ supers' \in Seq(Images) /\ Len(supers') = Len(supers) + 1
          /\ \A n \in 1 .. Len(supers) : supers'[n] = supers[n]
      BY <1>3, <2>1, Facts
    <2>3. SuperTypes'
      BY <1>3, <2>1, <2>2 DEF SuperTypes
    <2> QED BY <1>1, <2>1, <2>2, <2>3, AsideTypes
  <1> QED BY <1>2, <1>3 DEF OpenSuper

LEMMA EditTypes ==
  ASSUME Types, NEW k \in VBlocks, NEW v \in Edits, Edit(k, v)
  PROVE  Types'
  <1>1. BaseTypes' /\ SessionTypes' /\ UNCHANGED <<backups, jobVars, cur, sup>>
    BY DEF Types, Edit, BaseTypes, SessionTypes, baseVars, sessionVars
  <1>2. /\ supers \in Seq(Images) /\ Len(supers) \in Nat /\ sup \in 1 .. Len(supers)
        /\ v \in Payloads /\ v # NoData
    BY Facts DEF Types, SuperTypes, Edit
  <1>3. supers' = [supers EXCEPT ![sup] = [@ EXCEPT ![k] = v]]
    BY DEF Edit
  <1>4. supers[sup] \in Images /\ [supers[sup] EXCEPT ![k] = v] \in Images
    BY <1>2 DEF Images
  <1>5. supers' \in Seq(Images) /\ Len(supers') = Len(supers)
    BY <1>2, <1>3, <1>4
  <1>6. SuperTypes'
    BY <1>1, <1>5 DEF Types, SuperTypes
  <1>7. \A n \in 1 .. Len(supers) : \A b \in VBlocks : supers[n][b] # NoData => supers'[n][b] # NoData
    <2>1. \A b \in VBlocks : [supers[sup] EXCEPT ![k] = v][b] = IF b = k THEN v ELSE supers[sup][b]
      BY <1>4 DEF Images
    <2>2. \A n \in 1 .. Len(supers) :
            supers'[n] = IF n = sup THEN [supers[sup] EXCEPT ![k] = v] ELSE supers[n]
      BY <1>2, <1>3
    <2> QED BY <1>2, <2>1, <2>2
  <1> QED BY <1>1, <1>2, <1>5, <1>6, <1>7, AsideTypes

LEMMA UnlinkIs ==
  ASSUME Types, Unlink
  PROVE  /\ cur' = 0 /\ supers' \in Seq(Images) /\ Len(supers') = Len(supers)
         /\ \A n \in 1 .. Len(supers) :
              (\E j \in Jobs : jid[j] = n /\ jpc[j] \in {"seek", "put"}) => supers'[n] = supers[n]
  <1>1. supers \in Seq(Images) /\ Len(supers) \in Nat /\ cur \in 0 .. Len(supers) /\ NoImage \in Images
    BY Facts DEF Types, SuperTypes
  <1>2. CASE supers' = supers
    BY <1>1, <1>2 DEF Unlink
  <1>3. CASE /\ supers' = [supers EXCEPT ![cur] = NoImage] /\ cur # 0
             /\ ~ \E j \in Jobs : jid[j] = cur /\ jpc[j] \in {"seek", "put"}
    <2>1. /\ supers' \in Seq(Images) /\ Len(supers') = Len(supers)
          /\ \A n \in 1 .. Len(supers) : n # cur => supers'[n] = supers[n]
      BY <1>1, <1>3
    <2> QED BY <1>3, <2>1 DEF Unlink
  <1> QED BY <1>2, <1>3 DEF Unlink

LEMMA DiscardTypes ==
  ASSUME Types, Discard
  PROVE  Types'
  <1>1. BaseTypes' /\ SessionTypes' /\ UNCHANGED <<backups, jobVars, sup>> /\ Unlink
    BY DEF Types, Discard, BaseTypes, SessionTypes, baseVars, sessionVars
  <1>2. /\ cur' = 0 /\ supers' \in Seq(Images) /\ Len(supers') = Len(supers)
        /\ \A n \in 1 .. Len(supers) :
              (\E j \in Jobs : jid[j] = n /\ jpc[j] \in {"seek", "put"}) => supers'[n] = supers[n]
    BY <1>1, UnlinkIs
  <1>3. SuperTypes' /\ Len(supers) \in Nat
    BY <1>1, <1>2 DEF Types, SuperTypes
  <1> QED BY <1>1, <1>2, <1>3, AsideTypes

LEMMA DeleteSuperTypes ==
  ASSUME Types, NEW j \in Jobs, DeleteSuper(j)
  PROVE  Types' /\ Others(j) /\ jpc'[j] = "idle"
  <1>1. BaseTypes' /\ BackupTypes' /\ SessionTypes'
    BY DEF Types, DeleteSuper, BaseTypes, BackupTypes, SessionTypes, baseVars, sessionVars
  <1>2. JobTypes' /\ Others(j) /\ jpc'[j] = "idle"
    BY FinishIs DEF Types, DeleteSuper
  <1>3. /\ cur' \in {cur, 0} /\ supers' \in Seq(Images) /\ Len(supers') = Len(supers)
        /\ \A n \in 1 .. Len(supers) :
              (\E i \in Jobs : jid[i] = n /\ jpc[i] \in {"seek", "put"}) => supers'[n] = supers[n]
    BY UnlinkIs DEF DeleteSuper, Types, SuperTypes
  <1>4. SuperTypes'
    BY <1>3 DEF Types, SuperTypes, DeleteSuper
  <1>5. ASSUME NEW i \in Jobs \ {j} PROVE OpenedAt(i)'
    <2>1. OpenedAt(i)
      BY DEF Types, Opened
    <2> QED BY <1>2, <1>3, <2>1 DEF OpenedAt, Others
  <1>6. OpenedAt(j)'
    BY <1>2 DEF OpenedAt
  <1> QED BY <1>1, <1>2, <1>4, <1>5, <1>6 DEF Types, Opened

LEMMA SessionStepTypes ==
  ASSUME Types, NEW s \in Sessions, OpenSession(s) \/ CloseSession(s)
  PROVE  Types'
  <1>1. /\ UNCHANGED <<baseVars, superVars, backups, jobVars>>
    BY DEF OpenSession, CloseSession
  <1>2. BaseTypes' /\ SuperTypes' /\ supers' = supers
    BY <1>1 DEF Types, BaseTypes, SuperTypes, baseVars, superVars
  <1>3. SessionTypes'
    <2>1. Image \in Images /\ NoImage \in Images /\ bat \in Tables
      BY ImagesAre, Facts DEF Types, BaseTypes
    <2> QED BY <2>1 DEF Types, SessionTypes, OpenSession, CloseSession
  <1>4. Len(supers) \in Nat
    BY DEF Types, SuperTypes
  <1> QED BY <1>1, <1>2, <1>3, <1>4, AsideTypes

LEMMA CloseSuperTypes ==
  ASSUME Types, CloseSuper \/ UNCHANGED vars
  PROVE  Types'
  <1>1. /\ UNCHANGED <<baseVars, supers, cur, backups, jobVars, sessionVars>>
        /\ sup' \in {0, sup}
    BY DEF CloseSuper, vars, superVars
  <1>2. BaseTypes' /\ SuperTypes' /\ SessionTypes' /\ Len(supers) \in Nat
    BY <1>1 DEF Types, BaseTypes, SuperTypes, SessionTypes, baseVars, sessionVars
  <1> QED BY <1>1, <1>2, AsideTypes

LEMMA JobStepTypes ==
  ASSUME Types, NEW j \in Jobs,
         \/ \E kind \in {"cli", "api", "merge"} : StartCommit(j, kind)
         \/ Merge(j) \/ (\E i \in 1 .. MaxBackups : StartRestore(j, i)) \/ Truncate(j)
  PROVE  Types' /\ Others(j)
  BY StartCommitTypes, BackupTypesKept, OpenImagesTypes, SeekEndTypes, PutBlockTypes, TableTypes,
     DeleteSuperTypes, StopsTypes, RestoreTypes, TruncateTypes DEF Merge

LEMMA TypesStep ==
  ASSUME Types, [Next]_vars
  PROVE  Types'
  <1>1. CASE OpenSuper
    BY <1>1, OpenSuperTypes
  <1>2. CASE CloseSuper \/ UNCHANGED vars
    BY <1>2, CloseSuperTypes
  <1>3. CASE Discard
    BY <1>3, DiscardTypes
  <1>4. CASE \E k \in VBlocks, v \in Edits : Edit(k, v)
    BY <1>4, EditTypes
  <1>5. CASE \E s \in Sessions : OpenSession(s) \/ CloseSession(s)
    BY <1>5, SessionStepTypes
  <1>6. CASE \E j \in Jobs :
               \/ \E kind \in {"cli", "api", "merge"} : StartCommit(j, kind)
               \/ Merge(j) \/ (\E i \in 1 .. MaxBackups : StartRestore(j, i)) \/ Truncate(j)
    BY <1>6, JobStepTypes
  <1> QED BY <1>1, <1>2, <1>3, <1>4, <1>5, <1>6 DEF Next


-----------------------------------------------------------------------------
(* One command at a time *)

CommandStep(j) ==
  \/ \E kind \in {"cli", "api", "merge"} : StartCommit(j, kind)
  \/ Merge(j) \/ (\E i \in 1 .. MaxBackups : StartRestore(j, i)) \/ Truncate(j)
AsideStep ==
  \/ OpenSuper \/ CloseSuper \/ Discard \/ UNCHANGED vars
  \/ \E k \in VBlocks, v \in Edits : Edit(k, v)
  \/ \E s \in Sessions : OpenSession(s) \/ CloseSession(s)

LEMMA Steps ==
  ASSUME [Next]_vars
  PROVE  AsideStep \/ \E j \in Jobs : CommandStep(j)
  BY DEF Next, AsideStep, CommandStep

LEMMA AsideIs ==
  ASSUME AsideStep
  PROVE  UNCHANGED <<baseVars, backups, jobVars>>
  BY DEF AsideStep, OpenSuper, CloseSuper, Discard, Edit, OpenSession, CloseSession, vars

LEMMA OnlyOne ==
  ASSUME OneAtATime, Alone, NEW j \in Jobs, CommandStep(j)
  PROVE  \A i \in Jobs \ {j} : jpc[i] = "idle"
  <1>1. Quiet \/ jpc[j] # "idle"
    BY DEF CommandStep, StartCommit, StartRestore, MayCommand, Merge, BackupBase, BackupFails,
           OpenImages, SeekEnd, PutBlock, BeginTable, PutEntry, DeleteSuper, Stops, Truncate
  <1> QED BY <1>1 DEF Quiet, Alone

LEMMA CommandTypes ==
  ASSUME Types, NEW j \in Jobs, CommandStep(j)
  PROVE  Types' /\ Others(j)
  BY JobStepTypes DEF CommandStep

(* The place and the kind of the command after its step.                   *)
LEMMA Placed ==
  ASSUME Types, NEW j \in Jobs, CommandStep(j)
  PROVE  \/ jpc'[j] = "idle"
         \/ jpc'[j] \in {"backup", "open"} /\ jkind'[j] # "restore" /\ jpc[j] = "idle"
         \/ jpc'[j] = "open" /\ jkind'[j] = jkind[j] /\ jpc[j] = "backup"
         \/ jpc'[j] = "seek" /\ jkind'[j] = jkind[j] /\ jpc[j] \in {"open", "put"}
         \/ jpc'[j] = "put" /\ jkind'[j] = jkind[j] /\ jpc[j] = "seek" /\ SeekEnd(j)
         \/ jpc'[j] \in {"table", "delete"} /\ jkind'[j] = jkind[j] /\ jpc[j] \in {"seek", "table", "truncate"}
         \/ /\ jpc'[j] = "truncate" /\ jkind'[j] = "restore" /\ jpc[j] = "idle"
            /\ \E i \in 1 .. MaxBackups : StartRestore(j, i)
  <1> JobTypes
    BY DEF Types
  <1>1. ASSUME NEW kind \in {"cli", "api", "merge"}, StartCommit(j, kind)
        PROVE  jpc'[j] \in {"backup", "open"} /\ jkind'[j] # "restore" /\ jpc[j] = "idle"
    BY <1>1 DEF StartCommit, JGoto, JobTypes
  <1>2. CASE BackupBase(j)
    BY <1>2 DEF BackupBase, JGoto, JobTypes, localVars
  <1>3. CASE BackupFails(j)
    <2>1. CASE JGoto(j, "open") /\ UNCHANGED localVars
      BY <1>3, <2>1 DEF BackupFails, JGoto, JobTypes, localVars
    <2>2. CASE Finish(j)
      BY <2>2, FinishIs
    <2> QED BY <1>3, <2>1, <2>2 DEF BackupFails
  <1>4. CASE OpenImages(j)
    <2>1. CASE cur = 0
      BY <1>4, <2>1, FinishIs DEF OpenImages
    <2>2. CASE cur # 0
      BY <1>4, <2>2 DEF OpenImages, JGoto, JobTypes
    <2> QED BY <2>1, <2>2
  <1>5. CASE SeekEnd(j)
    BY <1>5 DEF SeekEnd, JGoto, JobTypes
  <1>6. CASE PutBlock(j)
    BY <1>6 DEF PutBlock, JGoto, JobTypes
  <1>7. CASE BeginTable(j)
    BY <1>7 DEF BeginTable, JGoto, JobTypes
  <1>8. CASE PutEntry(j)
    BY <1>8 DEF PutEntry, JGoto, JobTypes
  <1>9. CASE DeleteSuper(j) \/ Stops(j)
    BY <1>9, FinishIs DEF DeleteSuper, Stops
  <1>10. ASSUME NEW i \in 1 .. MaxBackups, StartRestore(j, i)
         PROVE  jpc'[j] = "truncate" /\ jkind'[j] = "restore" /\ jpc[j] = "idle"
    BY <1>10 DEF StartRestore, JGoto, JobTypes
  <1>11. CASE Truncate(j)
    BY <1>11 DEF Truncate, JGoto, JobTypes
  <1> QED BY <1>1, <1>2, <1>3, <1>4, <1>5, <1>6, <1>7, <1>8, <1>9, <1>10, <1>11 DEF CommandStep, Merge

LEMMA AloneStep ==
  ASSUME OneAtATime, Types, Alone, [Next]_vars
  PROVE  Alone'
  <1>1. CASE AsideStep
    <2>1. UNCHANGED <<base, jpc, jkind, jeof>>
      BY <1>1, AsideIs DEF baseVars, jobVars, localVars
    <2> QED BY <2>1 DEF Alone
  <1>2. ASSUME NEW j \in Jobs, CommandStep(j) PROVE Alone'
    <2>1. \A i \in Jobs \ {j} : jpc'[i] = "idle"
      BY <1>2, OnlyOne, CommandTypes DEF Others
    <2>2. jpc'[j] = "put" => jeof'[j] = Len(base')
      <3> SUFFICES ASSUME jpc'[j] = "put" PROVE jeof'[j] = Len(base')
        OBVIOUS
      <3>1. SeekEnd(j)
        BY <1>2, Placed
      <3> QED BY <3>1 DEF SeekEnd, baseVars, Types, JobTypes
    <2>3. /\ jpc'[j] \in {"backup", "open", "seek", "put"} => jkind'[j] # "restore"
          /\ jpc'[j] = "truncate" => jkind'[j] = "restore"
      BY <1>2, Placed DEF Alone
    <2> QED BY <2>1, <2>2, <2>3 DEF Alone
  <1> QED BY <1>1, <1>2, Steps

-----------------------------------------------------------------------------
(* What was in the base file stays there *)

Grown(f, g) == \A n \in DOMAIN f : n \in DOMAIN g /\ g[n] = f[n]

LEMMA GrownShows ==
  ASSUME NEW f \in Seq(Values), NEW g, Grown(f, g), NEW t, NEW x, Shows(f, t, x)
  PROVE  Shows(g, t, x)
  BY DEF Grown, Shows, At

LEMMA BaseGrows ==
  ASSUME OneAtATime, Types, Alone, NEW j \in Jobs, CommandStep(j)
  PROVE  Truncate(j) \/ Grown(base, base')
  <1>1. base' = base => Grown(base, base')
    BY DEF Grown
  <1>2. CASE PutBlock(j)
    <2>1. PICK k \in jtodo[j] :
           /\ jpc[j] = "put" /\ supers[jid[j]][k] \in Values /\ jeof[j] \in Nat
           /\ base' = PutAt(base, jeof[j] + 1, supers[jid[j]][k])
      BY <1>2, Copied
    <2>2. jeof[j] = Len(base) /\ base \in Seq(Values) /\ Len(base) \in Nat /\ DOMAIN base = 1 .. Len(base)
      BY <2>1 DEF Alone, Types, BaseTypes
    <2> DEFINE n == Len(base) + 1
               v == supers[jid[j]][k]
    <2>3. n \in Nat /\ n # 0 /\ n >= Len(base) /\ v \in Values /\ base' = PutAt(base, n, v)
          /\ \A i \in 1 .. Len(base) : i # n /\ i \in 1 .. n
      BY <2>1, <2>2
    <2> HIDE DEF n, v
    <2> DEFINE f == PutAt(base, n, v)
    <2>4. /\ Len(f) = (IF n >= Len(base) THEN n ELSE Len(base)) /\ DOMAIN f = 1 .. Len(f)
          /\ \A i \in 1 .. Len(base) : i # n => f[i] = base[i]
      BY <2>2, <2>3, PutAtIs
    <2> HIDE DEF f
    <2>5. Len(f) = n /\ DOMAIN f = 1 .. n /\ base' = f
      BY <2>3, <2>4 DEF f
    <2> QED BY <2>2, <2>3, <2>4, <2>5 DEF Grown
  <1>3. CASE ~PutBlock(j) /\ ~Truncate(j)
    BY <1>1, <1>3 DEF CommandStep, StartCommit, StartRestore, Merge, BackupBase, BackupFails,
           OpenImages, SeekEnd, BeginTable, PutEntry, DeleteSuper, Stops, baseVars
  <1> QED BY <1>2, <1>3

(* A backup taken now is intact.                                           *)
LEMMA NewBackup ==
  ASSUME Types
  PROVE  Intact(Meta(Len(base), bat, TRUE), base) /\ Intact(Meta(0, NoTable, FALSE), base)
  <1> DEFINE m == Meta(Len(base), bat, TRUE)
  <1>1. /\ m.image = Image /\ m.table = bat /\ m.eof = Len(base)
        /\ Meta(0, NoTable, FALSE).ok = FALSE
    BY DEF Meta
  <1>2. base \in Seq(Values) /\ bat \in Tables /\ \A k \in VBlocks : Image[k] = At(base, bat, k)
    BY DEF Types, BaseTypes, Image, ImageOf, Through, At
  <1>3. DOMAIN base = 1 .. Len(base) /\ Len(base) \in Nat
    BY <1>2
  <1>4. Below(Image, bat, Len(base))
    BY <1>2, <1>3 DEF Below, At
  <1>5. Shows(base, bat, Image)
    BY <1>2 DEF Shows
  <1> HIDE DEF m
  <1>6. Intact(m, base)
    BY <1>1, <1>4, <1>5 DEF Intact
  <1> QED BY <1>1, <1>6 DEF Intact, m

LEMMA CutShows ==
  ASSUME NEW f \in Seq(Values), NEW t \in Tables, NEW x, NEW n \in Nat,
         Shows(f, t, x), Below(x, t, n)
  PROVE  Shows(Resize(f, n), t, x)
  <1>0. DOMAIN f = 1 .. Len(f) /\ Len(f) \in Nat
    OBVIOUS
  <1>1. /\ DOMAIN Resize(f, n) = 1 .. n /\ DOMAIN f = 1 .. Len(f) /\ Len(f) \in Nat
        /\ \A i \in 1 .. n : i <= Len(f) => Resize(f, n)[i] = f[i]
    <2> DEFINE r == Resize(f, n)
    <2>1. DOMAIN r = 1 .. n /\ \A i \in 1 .. n : r[i] = IF i <= Len(f) THEN f[i] ELSE Zero
      BY ResizeIs
    <2> HIDE DEF r
    <2>2. \A i \in 1 .. n : i <= Len(f) => r[i] = f[i]
      BY <2>1
    <2> QED BY <1>0, <2>1, <2>2 DEF r
  <1> SUFFICES ASSUME NEW k \in VBlocks, x[k] # NoData
               PROVE  At(Resize(f, n), t, k) = x[k]
    BY DEF Shows
  <1>2. At(f, t, k) = x[k] /\ (t[k] = Free \/ t[k] <= n)
    BY DEF Shows, Below
  <1>3. CASE t[k] = Free
    BY <1>2, <1>3 DEF At
  <1>4. CASE t[k] # Free
    <2>1. t[k] \in DOMAIN f /\ f[t[k]] = x[k] /\ t[k] <= n
      BY <1>2, <1>4 DEF At
    <2>2. t[k] \in 1 .. n /\ t[k] <= Len(f)
      BY <1>1, <2>1
    <2> QED BY <1>1, <1>4, <2>1, <2>2 DEF At
  <1> QED BY <1>3, <1>4

LEMMA BackupsStep ==
  ASSUME OneAtATime, Types, Alone, BackupsIntact, [Next]_vars
  PROVE  BackupsIntact'
  <1>1. /\ base \in Seq(Values) /\ backups \in Seq(Metas)
        /\ \A i \in DOMAIN backups : backups[i] \in Metas /\ Intact(backups[i], base)
    BY DEF Types, BaseTypes, BackupTypes, BackupsIntact
  <1>2. CASE AsideStep
    BY <1>2, AsideIs DEF BackupsIntact, baseVars
  <1>3. ASSUME NEW j \in Jobs, Truncate(j) PROVE BackupsIntact'
    <2>1. /\ base' = Resize(base, jeof[j]) /\ DOMAIN backups' = DOMAIN backups
          /\ \A i \in DOMAIN backups :
               backups'[i] = [backups[i] EXCEPT !.cut = @ \/ jeof[j] < backups[i].eof]
      BY <1>3 DEF Truncate
    <2>2. jeof[j] \in Nat
      BY Facts DEF Types, JobTypes
    <2>3. ASSUME NEW i \in DOMAIN backups, backups'[i].ok, ~backups'[i].cut
          PROVE  Below(backups'[i].image, backups'[i].table, backups'[i].eof)
                 /\ Shows(base', backups'[i].table, backups'[i].image)
      <3> DEFINE m == backups[i]
      <3>1. /\ m.ok /\ ~m.cut /\ ~(jeof[j] < m.eof) /\ backups'[i].image = m.image
            /\ backups'[i].table = m.table /\ backups'[i].eof = m.eof
        BY <1>1, <2>1, <2>3 DEF Metas
      <3>2. m.table \in Tables /\ m.eof \in Nat
        BY <1>1, Facts DEF Metas
      <3> HIDE DEF m
      <3>3. Below(m.image, m.table, m.eof) /\ Shows(base, m.table, m.image)
        BY <1>1, <3>1 DEF Intact, m
      <3>4. Below(m.image, m.table, jeof[j])
        <4>1. m.eof <= jeof[j]
          BY <2>2, <3>1, <3>2
        <4>2. \A k \in VBlocks : m.table[k] # Free => m.table[k] \in Nat
          BY <3>2, Facts DEF Tables
        <4> QED BY <2>2, <3>2, <3>3, <4>1, <4>2 DEF Below
      <3>5. Shows(base', m.table, m.image)
        BY <1>1, <2>1, <2>2, <3>2, <3>3, <3>4, CutShows
      <3> QED BY <3>1, <3>3, <3>5
    <2> QED BY <2>1, <2>3 DEF BackupsIntact, Intact
  <1>4. ASSUME NEW j \in Jobs, CommandStep(j), ~Truncate(j) PROVE BackupsIntact'
    <2>1. Grown(base, base')
      BY <1>4, BaseGrows
    <2>2. \A i \in DOMAIN backups : Intact(backups[i], base')
      BY <1>1, <2>1, GrownShows DEF Intact
    <2>3. CASE BackupBase(j) \/ BackupFails(j)
      <3>1. base' = base
        BY <2>3 DEF BackupBase, BackupFails, baseVars
      <3>2. \A m \in {Meta(0, NoTable, FALSE), Meta(Len(base), bat, TRUE)} : Intact(m, base) /\ m \in Metas
        BY NewBackup, MetaIs
      <3>3. ASSUME NEW m \in Metas, Intact(m, base), backups' = Append(backups, m)
            PROVE  \A i \in DOMAIN backups' : Intact(backups'[i], base')
        <4>1. /\ DOMAIN backups' = 1 .. Len(backups) + 1 /\ DOMAIN backups = 1 .. Len(backups)
              /\ Len(backups) \in Nat /\ backups'[Len(backups) + 1] = m
              /\ \A i \in DOMAIN backups : backups'[i] = backups[i]
          BY <1>1, <3>3
        <4>2. \A i \in DOMAIN backups' : i \in DOMAIN backups \/ i = Len(backups) + 1
          BY <4>1
        <4> QED BY <2>2, <3>1, <3>3, <4>1, <4>2
      <3> QED BY <2>2, <2>3, <3>2, <3>3, BackupTypesKept DEF BackupsIntact
    <2>4. CASE ~BackupBase(j) /\ ~BackupFails(j)
      <3>1. backups' = backups
        BY <1>4, <2>4 DEF CommandStep, StartCommit, StartRestore, Merge,
           OpenImages, SeekEnd, PutBlock, BeginTable, PutEntry, DeleteSuper, Stops
      <3> QED BY <2>2, <3>1 DEF BackupsIntact
    <2> QED BY <2>3, <2>4
  <1> QED BY <1>2, <1>3, <1>4, Steps

-----------------------------------------------------------------------------
(* What a diskless client booted *)

SessionsShown == \A s \in Sessions : sbat[s] # Closed => Shows(base, sbat[s], seen[s])

LEMMA CommandLeaves ==
  ASSUME NEW j \in Jobs, CommandStep(j)
  PROVE  UNCHANGED <<sup, sessionVars>> /\ (DeleteSuper(j) \/ UNCHANGED superVars)
  BY DEF CommandStep, StartCommit, StartRestore, Merge, BackupBase, BackupFails, OpenImages,
         SeekEnd, PutBlock, BeginTable, PutEntry, DeleteSuper, Stops, Truncate, superVars

LEMMA RestoresStep ==
  ASSUME OneAtATime, RestoreOffline, Types, Alone, RestoresAlone, [Next]_vars
  PROVE  RestoresAlone'
  <1>1. CASE AsideStep
    <2>1. UNCHANGED <<jpc, jkind>>
      BY <1>1, AsideIs DEF jobVars, localVars
    <2>2. CASE \E s \in Sessions : OpenSession(s)
      BY <2>1, <2>2 DEF OpenSession, RestoresAlone
    <2>3. CASE \E s \in Sessions : CloseSession(s)
      BY <2>1, <2>3 DEF CloseSession, RestoresAlone, Types, SessionTypes
    <2>4. CASE sbat' = sbat
      BY <2>1, <2>4 DEF RestoresAlone
    <2> QED BY <1>1, <2>2, <2>3, <2>4
          DEF AsideStep, OpenSuper, CloseSuper, Discard, Edit, vars, sessionVars
  <1>2. ASSUME NEW j \in Jobs, CommandStep(j) PROVE RestoresAlone'
    <2>1. \A i \in Jobs \ {j} : jpc'[i] = "idle"
      BY <1>2, OnlyOne, CommandTypes DEF Others
    <2>2. sbat' = sbat
      BY <1>2, CommandLeaves DEF sessionVars
    <2>3. ASSUME jpc'[j] # "idle", jkind'[j] = "restore" PROVE \A s \in Sessions : sbat[s] = Closed
      <3>1. CASE \E i \in 1 .. MaxBackups : StartRestore(j, i)
        BY <3>1 DEF StartRestore
      <3>2. CASE jpc[j] # "idle" /\ jkind[j] = "restore"
        BY <3>2 DEF RestoresAlone
      <3> QED BY <1>2, <2>3, <3>1, <3>2, Placed
    <2> QED BY <2>1, <2>2, <2>3 DEF RestoresAlone
  <1> QED BY <1>1, <1>2, Steps

LEMMA SessionsStep ==
  ASSUME OneAtATime, Types, Alone, RestoresAlone, SessionsShown, [Next]_vars
  PROVE  SessionsShown'
  <1>1. base \in Seq(Values) /\ bat \in Tables /\ \A k \in VBlocks : Image[k] = At(base, bat, k)
    BY DEF Types, BaseTypes, Image, ImageOf, Through, At
  <1>2. CASE AsideStep
    <2>1. base' = base
      BY <1>2, AsideIs DEF baseVars
    <2>2. ASSUME NEW s \in Sessions, OpenSession(s) PROVE SessionsShown'
      <3>1. Shows(base, bat, Image)
        BY <1>1 DEF Shows
      <3> QED BY <2>1, <2>2, <3>1 DEF OpenSession, SessionsShown, Types, SessionTypes
    <2>3. ASSUME NEW s \in Sessions, CloseSession(s) PROVE SessionsShown'
      BY <2>1, <2>3 DEF CloseSession, SessionsShown, Types, SessionTypes
    <2>4. CASE sbat' = sbat /\ seen' = seen
      BY <2>1, <2>4 DEF SessionsShown
    <2> QED BY <1>2, <2>2, <2>3, <2>4
          DEF AsideStep, OpenSuper, CloseSuper, Discard, Edit, vars, sessionVars
  <1>3. ASSUME NEW j \in Jobs, CommandStep(j) PROVE SessionsShown'
    <2>1. sbat' = sbat /\ seen' = seen
      BY <1>3, CommandLeaves DEF sessionVars
    <2>2. CASE Truncate(j)
      BY <2>1, <2>2 DEF Truncate, Alone, RestoresAlone, SessionsShown
    <2>3. CASE Grown(base, base')
      BY <1>1, <2>1, <2>3, GrownShows DEF SessionsShown
    <2> QED BY <1>3, <2>2, <2>3, BaseGrows
  <1> QED BY <1>2, <1>3, Steps

-----------------------------------------------------------------------------
(* What a command is to produce *)

(* With the super client off during commands and one command at a time,    *)
(* nothing but the command touches the super VHDs.                         *)
LEMMA AsideQuiet ==
  ASSUME OneAtATime, SuperOff, Still, AsideStep
  PROVE  Quiet \/ UNCHANGED <<supers, cur>>
  BY DEF AsideStep, OpenSuper, CloseSuper, Discard, MayCommand, Edit, OpenSession, CloseSession,
         vars, superVars, Still, Quiet

(* A merge on its way came from OpenImages, and keeps what it has open.    *)
LEMMA GoesOn ==
  ASSUME Types, NEW j \in Jobs, CommandStep(j), ~OpenImages(j),
         jpc'[j] \in {"seek", "put", "table", "delete"}
  PROVE  jpc[j] \in {"seek", "put", "table", "truncate"} /\ jid' = jid
  <1> JobTypes
    BY DEF Types
  <1>1. ~Finish(j)
    BY FinishIs
  <1>2. ASSUME NEW kind, StartCommit(j, kind) PROVE FALSE
    BY <1>2 DEF StartCommit, JGoto, JobTypes
  <1>3. ASSUME NEW i, StartRestore(j, i) PROVE FALSE
    BY <1>3 DEF StartRestore, JGoto, JobTypes
  <1>4. ~BackupBase(j) /\ ~BackupFails(j)
    BY <1>1 DEF BackupBase, BackupFails, JGoto, JobTypes
  <1>5. SeekEnd(j) \/ PutBlock(j) \/ BeginTable(j) \/ PutEntry(j) \/ Truncate(j)
    BY <1>1, <1>2, <1>3, <1>4 DEF CommandStep, Merge, DeleteSuper, Stops
  <1> QED BY <1>5 DEF SeekEnd, PutBlock, BeginTable, PutEntry, Truncate

LEMMA StillStep ==
  ASSUME OneAtATime, SuperOff, Types, Alone, Still, [Next]_vars
  PROVE  Still'
  <1>1. CASE AsideStep
    <2>1. UNCHANGED <<jpc, jkind, jid>>
      BY <1>1, AsideIs DEF jobVars, localVars
    <2>2. CASE Quiet
      BY <2>1, <2>2 DEF Quiet, Still, Merging
    <2>3. CASE ~Quiet
      <3>1. UNCHANGED <<supers, cur>>
        BY <1>1, <2>3, AsideQuiet
      <3>2. sup' \in {sup, 0}
        BY <1>1, <2>3 DEF AsideStep, OpenSuper, CloseSuper, Discard, Edit, OpenSession, CloseSession,
           vars, superVars
      <3> QED BY <2>1, <3>1, <3>2 DEF Still, Merging
    <2> QED BY <2>2, <2>3
  <1>2. ASSUME NEW j \in Jobs, CommandStep(j) PROVE Still'
    <2>1. \A i \in Jobs \ {j} : jpc'[i] = "idle"
      BY <1>2, OnlyOne, CommandTypes DEF Others
    <2>2. sup' = sup /\ sup = 0
      <3>1. sup' = sup
        BY <1>2, CommandLeaves
      <3>2. CASE jpc[j] # "idle"
        BY <3>1, <3>2 DEF Still
      <3>3. CASE jpc[j] = "idle"
        BY <1>2, <3>1, <3>3 DEF CommandStep, StartCommit, StartRestore, MayCommand, Merge, BackupBase, BackupFails,
           OpenImages, SeekEnd, PutBlock, BeginTable, PutEntry, DeleteSuper, Stops, Truncate
      <3> QED BY <3>2, <3>3
    <2>3. ASSUME Merging(j)' PROVE cur' # 0 /\ jid'[j] = cur'
      <3>1. ~DeleteSuper(j)
        BY <2>3, DeleteSuperTypes DEF Merging
      <3>2. cur' = cur /\ supers' = supers
        BY <1>2, <3>1, CommandLeaves DEF superVars
      <3>3. CASE OpenImages(j)
        <4>1. cur # 0
          BY <2>3, <3>3, FinishIs DEF OpenImages, Merging, Types
        <4> QED BY <3>2, <3>3, <4>1 DEF OpenImages, Types, JobTypes
      <3>4. CASE ~OpenImages(j)
        <4>1. Merging(j)
          BY <1>2, <2>3, <3>4, Placed, GoesOn DEF Merging, Alone
        <4> QED BY <1>2, <2>3, <3>2, <3>4, <4>1, GoesOn DEF Still, Merging
      <3> QED BY <3>3, <3>4
    <2> QED BY <2>1, <2>2, <2>3 DEF Still, Merging
  <1> QED BY <1>1, <1>2, Steps

LEMMA OpenImagesLands ==
  ASSUME Types, NEW j \in Jobs, OpenImages(j)
  PROVE  Landing(j)'
  <1>1. CASE cur = 0
    <2>1. jpc'[j] = "idle"
      BY <1>1, FinishIs DEF OpenImages, Types
    <2> QED BY <2>1 DEF Landing, Merging
  <1>2. CASE cur # 0
    <2>1. /\ jpc'[j] = "seek" /\ jid'[j] = cur /\ jbat'[j] = bat /\ jgoal'[j] = Whole
          /\ jtodo'[j] = {k \in VBlocks : supers[cur][k] # NoData}
          /\ base' = base /\ bat' = bat /\ supers' = supers /\ cur' = cur
      BY <1>2 DEF OpenImages, JGoto, Types, JobTypes, baseVars, superVars
    <2>2. \A k \in VBlocks : Whole[k] = IF supers[cur][k] = NoData THEN At(base, bat, k) ELSE supers[cur][k]
      BY <1>2 DEF Whole, Over, Image, ImageOf, Through, At
    <2>3. \A k \in VBlocks : Taken(j, k)'
      BY <2>1, <2>2 DEF Taken, Copying
    <2>4. Overlaid(j)'
      BY <2>1, <2>2 DEF Overlaid
    <2> QED BY <2>1, <2>3, <2>4 DEF Landing
  <1> QED BY <1>1, <1>2

LEMMA SeekEndLands ==
  ASSUME Types, NEW j \in Jobs, Landing(j), SeekEnd(j)
  PROVE  Landing(j)'
  <1>1. /\ jpc[j] = "seek" /\ jpc'[j] = "put"
        /\ UNCHANGED <<base, bat, supers, cur, jkind, jid, jbat, jtodo, jgoal>>
    BY DEF SeekEnd, JGoto, Types, JobTypes, baseVars, superVars
  <1>2. \A k \in VBlocks : Taken(j, k)'
    BY <1>1 DEF Landing, Taken, Copying
  <1>3. Merging(j)' => Overlaid(j)'
    BY <1>1 DEF Landing, Merging, Overlaid
  <1> QED BY <1>1, <1>2, <1>3 DEF Landing

LEMMA PutBlockLands ==
  ASSUME OneAtATime, Types, Alone, Still, NEW j \in Jobs, Landing(j), PutBlock(j)
  PROVE  Landing(j)'
  <1>1. PICK b \in jtodo[j] :
           /\ b \in VBlocks /\ jpc[j] = "put" /\ jid[j] \in 1 .. Len(supers)
           /\ supers[jid[j]][b] \in Values /\ jeof[j] \in Nat /\ jeof[j] < MaxFile
           /\ base' = PutAt(base, jeof[j] + 1, supers[jid[j]][b])
           /\ jbat' = [jbat EXCEPT ![j] = [@ EXCEPT ![b] = jeof[j] + 1]]
           /\ jtodo' = [jtodo EXCEPT ![j] = @ \ {b}]
           /\ jpc' = [jpc EXCEPT ![j] = "seek"]
           /\ UNCHANGED <<bat, superVars, backups, jkind, jid, jeof, jpos, jgoal, sessionVars>>
    BY Copied
  <1>2. /\ jpc'[j] = "seek" /\ jtodo'[j] = jtodo[j] \ {b} /\ jbat'[j][b] = jeof[j] + 1
        /\ \A k \in VBlocks : k # b => jbat'[j][k] = jbat[j][k]
        /\ UNCHANGED <<bat, supers, cur, jkind, jid, jgoal>>
    <2>1. jpc \in [Jobs -> Pcs] /\ jbat \in [Jobs -> Tables] /\ jtodo \in [Jobs -> SUBSET VBlocks]
      BY DEF Types, JobTypes
    <2>2. jbat[j] \in [VBlocks -> 1 .. MaxFile \cup {Free}]
      BY <2>1 DEF Tables
    <2> QED BY <1>1, <2>1, <2>2 DEF superVars
  <1>3. base \in Seq(Values) /\ Grown(base, base') /\ base'[jeof[j] + 1] = supers[jid[j]][b]
        /\ jeof[j] + 1 \in DOMAIN base'
    <2>1. Grown(base, base')
      <3>1. CommandStep(j) /\ ~Truncate(j)
        BY <1>1 DEF CommandStep, Merge, Truncate
      <3> QED BY <3>1, BaseGrows
    <2>2. base \in Seq(Values) /\ jeof[j] = Len(base)
      BY <1>1 DEF Types, BaseTypes, Alone
    <2> DEFINE n == jeof[j] + 1
               v == supers[jid[j]][b]
    <2>3. n \in Nat /\ n # 0 /\ n >= Len(base) /\ v \in Values /\ base' = PutAt(base, n, v)
      BY <1>1, <2>2
    <2> HIDE DEF n, v
    <2>4. PutAt(base, n, v)[n] = v /\ Len(PutAt(base, n, v)) = (IF n >= Len(base) THEN n ELSE Len(base))
          /\ DOMAIN PutAt(base, n, v) = 1 .. Len(PutAt(base, n, v))
      BY <2>2, <2>3, PutAtIs
    <2>5. base'[n] = v /\ n \in DOMAIN base'
      BY <2>3, <2>4
    <2> QED BY <2>1, <2>2, <2>5 DEF n, v
  <1>4. ASSUME NEW k \in VBlocks PROVE Taken(j, k)'
    <2>1. Taken(j, k) /\ Copying(j) /\ Copying(j)'
      BY <1>1, <1>2 DEF Landing, Copying
    <2>2. CASE k = b
      <3>1. jgoal[j][k] = NoData \/ supers[jid[j]][k] = jgoal[j][k]
        BY <2>1, <2>2 DEF Taken
      <3>2. At(base', jbat'[j], k) = supers[jid[j]][k]
        <4>1. jeof[j] + 1 # Free
          BY <1>1, Facts
        <4> QED BY <1>2, <1>3, <2>2, <4>1 DEF At
      <3> QED BY <1>2, <2>1, <2>2, <3>1, <3>2 DEF Taken
    <2>3. CASE k # b
      <3>1. CASE jgoal[j][k] = NoData
        BY <1>2, <3>1 DEF Taken
      <3>2. CASE k \in jtodo[j] /\ supers[jid[j]][k] = jgoal[j][k]
        BY <1>2, <2>1, <2>3, <3>2 DEF Taken
      <3>3. CASE k \notin jtodo[j] /\ At(base, jbat[j], k) = jgoal[j][k] /\ jgoal[j][k] # NoData
        <4>1. At(base', jbat'[j], k) = jgoal[j][k]
          BY <1>2, <1>3, <2>3, <3>3 DEF At, Grown
        <4> QED BY <1>2, <2>1, <3>3, <4>1 DEF Taken
      <3> QED BY <2>1, <3>1, <3>2, <3>3 DEF Taken
    <2> QED BY <2>2, <2>3
  <1>5. Merging(j)' => Overlaid(j)'
    <2>1. Merging(j)' => Merging(j) /\ Overlaid(j) /\ jid[j] = cur
      BY <1>1, <1>2 DEF Merging, Landing, Still
    <2>2. jid[j] = cur => supers[cur][b] # NoData
      BY <1>1, Facts
    <2> QED BY <1>2, <2>1, <2>2 DEF Overlaid
  <1> QED BY <1>2, <1>4, <1>5 DEF Landing

LEMMA BeginTableLands ==
  ASSUME Types, NEW j \in Jobs, Landing(j), BeginTable(j)
  PROVE  Landing(j)'
  <1>1. /\ jpc[j] = "seek" /\ jtodo[j] = {} /\ jpc'[j] = "table" /\ jpos'[j] = 0
        /\ UNCHANGED <<base, bat, supers, cur, jkind, jid, jbat, jtodo, jgoal>>
    BY DEF BeginTable, JGoto, Types, JobTypes, baseVars, superVars
  <1>2. \A k \in VBlocks : Taken(j, k)'
    BY <1>1 DEF Landing, Taken, Copying
  <1>3. Merging(j)' => Overlaid(j)'
    BY <1>1 DEF Landing, Merging, Overlaid
  <1>4. \A k \in VBlocks : ~(k < jpos'[j])
    BY <1>1 DEF VBlocks
  <1> QED BY <1>1, <1>2, <1>3, <1>4 DEF Landing

LEMMA PutEntryLands ==
  ASSUME Types, NEW j \in Jobs, Landing(j), PutEntry(j)
  PROVE  Landing(j)'
  <1>1. /\ jpc[j] = "table" /\ jpos[j] \in VBlocks
        /\ jpc'[j] = (IF jpos[j] = NumBlocks - 1 THEN "delete" ELSE "table")
        /\ jpos'[j] = jpos[j] + 1 /\ bat' = [bat EXCEPT ![jpos[j]] = jbat[j][jpos[j]]]
        /\ UNCHANGED <<base, supers, cur, jkind, jid, jbat, jtodo, jgoal>>
    BY DEF PutEntry, JGoto, Types, JobTypes, superVars
  <1>2. \A k \in VBlocks : Taken(j, k)'
    BY <1>1 DEF Landing, Taken, Copying
  <1>3. bat \in [VBlocks -> 1 .. MaxFile \cup {Free}] /\ jbat[j] \in [VBlocks -> 1 .. MaxFile \cup {Free}]
    BY DEF Types, BaseTypes, JobTypes, Tables
  <1>4. \A k \in VBlocks : bat'[k] = IF k = jpos[j] THEN jbat[j][k] ELSE bat[k]
    BY <1>1, <1>3
  <1>5. ASSUME NEW k \in VBlocks, k < jpos'[j] PROVE bat'[k] = jbat[j][k]
    <2>1. k = jpos[j] \/ k < jpos[j]
      BY <1>1, <1>5, Facts
    <2> QED BY <1>1, <1>4, <2>1 DEF Landing
  <1>6. jpc'[j] = "delete" => bat' = jbat'[j]
    <2> SUFFICES ASSUME jpc'[j] = "delete" PROVE bat' = jbat[j]
      BY <1>1
    <2>1. \A k \in VBlocks : k < jpos'[j]
      BY <1>1, Facts DEF VBlocks
    <2>2. \A k \in VBlocks : bat'[k] = jbat[j][k]
      BY <1>5, <2>1
    <2>3. bat' \in [VBlocks -> 1 .. MaxFile \cup {Free}]
      BY <1>1, <1>3
    <2> QED BY <1>3, <2>2, <2>3
  <1>7. Merging(j)' => Overlaid(j)'
    <2>1. Merging(j)' => Overlaid(j)
      BY <1>1 DEF Landing, Merging
    <2> QED BY <1>1, <1>4, <2>1 DEF Overlaid
  <1> QED BY <1>1, <1>2, <1>5, <1>6, <1>7 DEF Landing

LEMMA RestoreLands ==
  ASSUME Types, BackupsIntact, NEW j \in Jobs, NEW i \in 1 .. MaxBackups, StartRestore(j, i)
  PROVE  Landing(j)'
  <1> DEFINE m == backups[i]
             goal == IF m.cut THEN NoImage ELSE m.image
  <1>1. /\ jpc'[j] = "truncate" /\ jkind'[j] = "restore" /\ jbat'[j] = m.table /\ jeof'[j] = m.eof
        /\ jgoal'[j] = goal /\ base' = base /\ m.ok
    BY DEF StartRestore, JGoto, Types, JobTypes, baseVars
  <1>2. Intact(m, base)
    BY DEF BackupsIntact, StartRestore
  <1>3. Below(goal, m.table, m.eof) /\ Shows(base, m.table, goal)
    <2>1. CASE m.cut
      BY <2>1, Facts DEF Below, Shows
    <2>2. CASE ~m.cut
      BY <1>1, <1>2, <2>2 DEF Intact
    <2> QED BY <2>1, <2>2
  <1> HIDE DEF m, goal
  <1>4. \A k \in VBlocks : Taken(j, k)'
    BY <1>1, <1>3 DEF Taken, Copying, Shows
  <1> QED BY <1>1, <1>3, <1>4 DEF Landing, Merging

LEMMA TruncateLands ==
  ASSUME Types, Alone, NEW j \in Jobs, Landing(j), Truncate(j)
  PROVE  Landing(j)'
  <1>1. /\ jpc[j] = "truncate" /\ jpc'[j] = "table" /\ jpos'[j] = 0 /\ jkind[j] = "restore"
        /\ base' = Resize(base, jeof[j]) /\ UNCHANGED <<jkind, jbat, jgoal>>
    BY DEF Truncate, JGoto, Types, JobTypes, Alone
  <1>2. base \in Seq(Values) /\ jbat[j] \in Tables /\ jeof[j] \in Nat
    BY Facts DEF Types, BaseTypes, JobTypes
  <1>3. Shows(base, jbat[j], jgoal[j]) /\ Below(jgoal[j], jbat[j], jeof[j])
    BY <1>1 DEF Landing, Taken, Copying, Shows
  <1>4. Shows(base', jbat[j], jgoal[j])
    BY <1>1, <1>2, <1>3, CutShows
  <1>5. \A k \in VBlocks : Taken(j, k)'
    BY <1>1, <1>4 DEF Taken, Copying, Shows
  <1>6. \A k \in VBlocks : ~(k < jpos'[j])
    BY <1>1 DEF VBlocks
  <1> QED BY <1>1, <1>5, <1>6 DEF Landing, Merging

LEMMA LandsStep ==
  ASSUME OneAtATime, SuperOff, Types, Alone, BackupsIntact, Still, Lands, [Next]_vars
  PROVE  Lands'
  <1>1. CASE AsideStep
    <2>1. UNCHANGED <<base, bat, jpc, jkind, jid, jbat, jtodo, jeof, jpos, jgoal>>
      BY <1>1, AsideIs DEF baseVars, jobVars, localVars
    <2>2. CASE Quiet
      BY <2>1, <2>2 DEF Quiet, Lands, Landing, Merging
    <2>3. CASE UNCHANGED <<supers, cur>>
      <3>1. ASSUME NEW j \in Jobs PROVE Landing(j)'
        <4>1. Landing(j)
          BY DEF Lands
        <4>2. \A k \in VBlocks : Taken(j, k) => Taken(j, k)'
          BY <2>1, <2>3 DEF Taken, Copying
        <4>3. Merging(j)' => Merging(j)
          BY <2>1 DEF Merging
        <4>4. Overlaid(j) => Overlaid(j)'
          BY <2>1, <2>3 DEF Overlaid
        <4> QED BY <2>1, <4>1, <4>2, <4>3, <4>4 DEF Landing
      <3> QED BY <3>1 DEF Lands
    <2> QED BY <1>1, <2>2, <2>3, AsideQuiet
  <1>2. ASSUME NEW j \in Jobs, CommandStep(j) PROVE Lands'
    <2>1. \A i \in Jobs \ {j} : Landing(i)'
      <3>1. \A i \in Jobs \ {j} : jpc'[i] = "idle"
        BY <1>2, OnlyOne, CommandTypes DEF Others
      <3> QED BY <3>1 DEF Landing, Merging
    <2>2. Landing(j)'
      <3>1. Landing(j)
        BY DEF Lands
      <3>2. jpc'[j] \in {"idle", "backup", "open"} => Landing(j)'
        BY DEF Landing, Merging
      <3>3. CASE \E kind \in {"cli", "api", "merge"} : StartCommit(j, kind)
        BY <3>2, <3>3 DEF StartCommit, JGoto, Types, JobTypes
      <3>4. CASE BackupBase(j) \/ BackupFails(j)
        <4>1. JGoto(j, "open") \/ Finish(j)
          BY <3>4 DEF BackupBase, BackupFails
        <4> QED BY <3>2, <4>1, FinishIs DEF JGoto, Types, JobTypes
      <3>5. CASE DeleteSuper(j) \/ Stops(j)
        BY <3>2, <3>5, FinishIs DEF DeleteSuper, Stops, Types
      <3> QED BY <1>2, <3>1, <3>3, <3>4, <3>5, OpenImagesLands, SeekEndLands, PutBlockLands,
                 BeginTableLands, PutEntryLands, RestoreLands, TruncateLands DEF CommandStep, Merge
    <2> QED BY <2>1, <2>2 DEF Lands
  <1> QED BY <1>1, <1>2, Steps

(* A step of a merge keeps what the super client would see.                *)
LEMMA WholeStep ==
  ASSUME OneAtATime, Types, Alone, Still, Lands, NEW j \in Jobs, Merge(j), jkind[j] # "restore"
  PROVE  Kept(Whole, Whole')
  <1>1. \A k \in VBlocks : /\ Image[k] = At(base, bat, k)
                           /\ Whole[k] = IF cur = 0 \/ supers[cur][k] = NoData THEN Image[k] ELSE supers[cur][k]
    BY DEF Image, ImageOf, Through, At, Whole, Over
  <1>2. \A k \in VBlocks : /\ Image'[k] = At(base', bat', k)
                           /\ Whole'[k] = IF cur' = 0 \/ supers'[cur'][k] = NoData THEN Image'[k] ELSE supers'[cur'][k]
    BY DEF Image, ImageOf, Through, At, Whole, Over
  <1>3. CASE PutBlock(j)
    <2>1. UNCHANGED <<bat, supers, cur>>
      BY <1>3 DEF PutBlock, superVars
    <2>2. Grown(base, base')
      <3>1. CommandStep(j) /\ ~Truncate(j)
        BY <1>3 DEF CommandStep, Merge, Truncate, PutBlock
      <3> QED BY <3>1, BaseGrows
    <2>3. \A k \in VBlocks : Image[k] = NoData \/ Image'[k] = Image[k]
      BY <1>1, <1>2, <2>1, <2>2 DEF At, Grown
    <2> QED BY <1>1, <1>2, <2>1, <2>3 DEF Kept
  <1>4. CASE PutEntry(j)
    <2>1. /\ jpos[j] \in VBlocks /\ bat' = [bat EXCEPT ![jpos[j]] = jbat[j][jpos[j]]]
          /\ UNCHANGED <<base, supers, cur>> /\ Merging(j)
      BY <1>4 DEF PutEntry, superVars, Merging
    <2>2. cur # 0 /\ Overlaid(j) /\ bat \in [VBlocks -> 1 .. MaxFile \cup {Free}]
      BY <2>1 DEF Still, Lands, Landing, Types, BaseTypes, Tables
    <2>3. \A k \in VBlocks : supers[cur][k] = NoData => bat'[k] = bat[k]
      BY <2>1, <2>2 DEF Overlaid
    <2>4. \A k \in VBlocks : supers[cur][k] = NoData => Image'[k] = Image[k]
      BY <1>1, <1>2, <2>1, <2>3 DEF At
    <2> QED BY <1>1, <1>2, <2>1, <2>2, <2>4 DEF Kept
  <1>5. CASE DeleteSuper(j)
    <2>1. /\ Merging(j) /\ jpc[j] = "delete" /\ base' = base /\ bat' = bat
          /\ cur' = 0 \/ UNCHANGED <<supers, cur>>
      BY <1>5 DEF DeleteSuper, Merging, Unlink, baseVars
    <2>2. cur # 0 /\ Overlaid(j) /\ bat = jbat[j] /\ \A k \in VBlocks : Taken(j, k)
      BY <2>1 DEF Still, Lands, Landing
    <2>3. \A k \in VBlocks : supers[cur][k] # NoData => Image[k] = supers[cur][k]
      BY <1>1, <2>1, <2>2 DEF Overlaid, Taken, Copying
    <2>4. \A k \in VBlocks : Image'[k] = Image[k]
      BY <1>1, <1>2, <2>1
    <2> QED BY <1>1, <1>2, <2>1, <2>2, <2>3, <2>4 DEF Kept
  <1>6. CASE UNCHANGED <<base, bat, supers, cur>>
    BY <1>1, <1>2, <1>6 DEF Kept, At
  <1>7. PutBlock(j) \/ PutEntry(j) \/ DeleteSuper(j) \/ UNCHANGED <<base, bat, supers, cur>>
    BY DEF Merge, BackupBase, BackupFails, OpenImages, SeekEnd, BeginTable, Stops, baseVars, superVars
  <1> QED BY <1>3, <1>4, <1>5, <1>6, <1>7

-----------------------------------------------------------------------------
(* Theorems *)

(* The type invariant, whoever runs when: a merge that is about to copy    *)
(* has a block to copy and the super VHD it opened.                        *)
THEOREM TypeCorrect == Spec => []TypeOK
  <1>1. Types => TypeOK
    <2> SUFFICES ASSUME Types PROVE TypeOK
      OBVIOUS
    <2>1. \A i \in DOMAIN backups : backups[i].table \in Tables /\ backups[i].eof \in 0 .. MaxFile
      <3>1. \A i \in DOMAIN backups : backups[i] \in Metas
        BY DEF Types, BackupTypes
      <3> QED BY <3>1 DEF Metas
    <2>2. \A j \in Jobs : jpc[j] \in {"seek", "put"} => jid[j] \in 1 .. Len(supers)
      BY DEF Types, Opened, OpenedAt
    <2>3. \A j \in Jobs : jpc[j] = "put" => jtodo[j] # {}
      BY DEF Types, Opened, OpenedAt
    <2> QED BY <2>1, <2>2, <2>3 DEF Types, BaseTypes, SuperTypes, JobTypes, SessionTypes, Pcs, TypeOK
  <1> QED BY <1>1, InitTypes, TypesStep, PTL DEF Spec

LEMMA Invariants ==
  ASSUME OneAtATime
  PROVE  Spec => [](Types /\ Alone /\ BackupsIntact)
  <1>1. Init => Alone /\ BackupsIntact
    BY DEF Init, Alone, BackupsIntact
  <1>2. Types /\ Alone /\ BackupsIntact /\ [Next]_vars => (Types /\ Alone /\ BackupsIntact)'
    BY TypesStep, AloneStep, BackupsStep
  <1> QED BY <1>1, <1>2, InitTypes, PTL DEF Spec

(* With one command at a time, a backup reads back what was backed up      *)
(* unless a later restore cut the base below it.                           *)
THEOREM BackupsKept ==
  ASSUME OneAtATime
  PROVE  Spec => []OlderBackupsIntact
  <1>1. BackupsIntact => OlderBackupsIntact
    BY DEF BackupsIntact, Intact, Shows, OlderBackupsIntact, Kept, ImageOf, Through, At
  <1> QED BY <1>1, Invariants, PTL

(* With one command at a time, and restores only when no diskless client   *)
(* runs, a client sees the image it booted for as long as it runs,         *)
(* whatever is committed and wherever a commit fails.                      *)
THEOREM SessionsKept ==
  ASSUME OneAtATime, RestoreOffline
  PROVE  Spec => []SessionsKeepImage
  <1>1. Init => RestoresAlone /\ SessionsShown
    BY DEF Init, RestoresAlone, SessionsShown
  <1>2. Types /\ Alone /\ RestoresAlone /\ SessionsShown /\ [Next]_vars => (RestoresAlone /\ SessionsShown)'
    BY RestoresStep, SessionsStep
  <1>3. SessionsShown => SessionsKeepImage
    BY DEF SessionsShown, Shows, SessionsKeepImage, Kept, ImageOf, Through, At
  <1> QED BY <1>1, <1>2, <1>3, Invariants, PTL DEF Spec

LEMMA Landed ==
  ASSUME OneAtATime, SuperOff
  PROVE  Spec => [](Types /\ Alone /\ Still /\ Lands)
  <1>1. Init => Still /\ Lands
    BY DEF Init, Still, Lands, Landing, Merging
  <1>2. Types /\ Alone /\ BackupsIntact /\ Still /\ Lands /\ [Next]_vars => (Still /\ Lands)'
    BY StillStep, LandsStep
  <1> QED BY <1>1, <1>2, Invariants, PTL DEF Spec

(* With one command at a time and the super client off during commands, a  *)
(* commit that gets to its end has made the base what the super client     *)
(* saw, and a restore what was backed up.                                  *)
THEOREM CommandsLand ==
  ASSUME OneAtATime, SuperOff
  PROVE  Spec => []CommandLands
  <1>1. Lands => CommandLands
    BY DEF Lands, Landing, Taken, Copying, CommandLands, Kept, Image, ImageOf, Through, At
  <1> QED BY <1>1, Landed, PTL

(* Then no step of a commit, a failure included, loses anything of what    *)
(* the super client would see.                                             *)
THEOREM CommitKept ==
  ASSUME OneAtATime, SuperOff
  PROVE  Spec => CommitKeepsWhole
  <1>1. Types /\ Alone /\ Still /\ Lands =>
          [\A j \in Jobs : Merge(j) /\ jkind[j] # "restore" => Kept(Whole, Whole')]_vars
    BY WholeStep
  <1> QED BY <1>1, Landed, PTL DEF CommitKeepsWhole
=============================================================================
