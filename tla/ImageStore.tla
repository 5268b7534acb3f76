----------------------------- MODULE ImageStore -----------------------------
(***************************************************************************)
(* The life of a base image: a super client edits a differencing "super"   *)
(* VHD over it; the operator commits the super VHD into the base, discards *)
(* it, or restores the base from a backup, while diskless clients boot from*)
(* the base (vhd_merge.rs, writeback_super.rs, writeback_imagedisk.rs, and *)
(* the callers in cli.rs, api/routes_client.rs and api/routes_vhd.rs).     *)
(*                                                                         *)
(* Commands run in processes and tasks of their own and nothing excludes   *)
(* one from another.  Each may stop at any point, on an I/O error or       *)
(* because its process dies.                                               *)
(*                                                                         *)
(* A payload stands for a whole VHD block; the base file is the sequence of*)
(* its data blocks, and its table gives the place of a block in it.        *)
(***************************************************************************)
EXTENDS Integers, Sequences, FiniteSets, SequencesExt, FiniteSetsExt

CONSTANTS
  NumBlocks,      (* Entries of the block allocation table.                *)
  Values,         (* Payloads, Zero among them.                            *)
  Edits,          (* Those the super client writes.                        *)
  Zero,           (* What an unallocated block reads as.                   *)
  Base0, Table0,  (* The base image's blocks and table at the start.       *)
  Jobs,           (* Commit and restore commands in progress.              *)
  Kinds,          (* Commands the operator uses: "cli" and "api" commits,  *)
                  (* "merge" alone (no backup, no deletion), "restore".    *)
  Sessions,       (* Diskless clients.                                     *)
  OneAtATime,     (* Whether the operator waits for a command to end before*)
                  (* giving the next.                                      *)
  SuperOff,       (* Whether the super client is off during commands.      *)
  RestoreOffline, (* Whether no diskless client runs during a restore.     *)
  Failures,       (* Whether commands may stop half-way.                   *)
  MaxFile,        (* Bound: blocks of the base file.                       *)
  MaxBackups,     (* Bound: backups taken.                                 *)
  MaxSupers,      (* Bound: super VHDs created.                            *)
  Free,           (* 0xFFFFFFFF: no block.                                 *)
  NoData          (* No payload.                                           *)

VBlocks == 0 .. NumBlocks - 1
Tables  == [VBlocks -> 1 .. MaxFile \cup {Free}]

ASSUME ImageAssumption ==
  /\ NumBlocks \in Nat \ {0} /\ Zero \in Values /\ Edits \subseteq Values /\ NoData \notin Values /\ Free \notin Nat
  /\ Base0 \in Seq(Values) /\ Len(Base0) <= MaxFile /\ Table0 \in Tables
  /\ Kinds \subseteq {"cli", "api", "merge", "restore"}
  /\ MaxFile \in Nat /\ MaxBackups \in Nat /\ MaxSupers \in Nat

VARIABLES
  base, bat,    (* The base file: its data blocks and its table.           *)
  supers,       (* Every super VHD ever created: its payload per block.    *)
  cur,          (* The one that the super path names, or 0.                *)
  backups,      (* The .meta files.  Auxiliary: image, what was backed up; *)
                (* cut, whether base was cut below it since.               *)
  jpc, jkind,   (* Commands in progress.                                   *)
  jid,          (* The super VHD a merge has open.                         *)
  jbat,         (* The table a merge builds, or the one a restore puts.    *)
  jtodo,        (* Blocks still to be copied.                              *)
  jeof,         (* End of file a merge has seen.                           *)
  jpos,         (* The table entry reached; the backup to restore.         *)
  jgoal,        (* Auxiliary: the image the command is to produce.         *)
  sbat, seen,   (* Diskless clients: the table loaded; auxiliary, the image*)
                (* the client booted.                                      *)
  sup           (* The super VHD the super client has open, or 0.          *)

baseVars    == <<base, bat>>
superVars   == <<supers, cur, sup>>
localVars   == <<jkind, jid, jbat, jtodo, jeof, jpos, jgoal>>
jobVars     == <<jpc, localVars>>
sessionVars == <<sbat, seen>>
vars == <<baseVars, superVars, backups, jobVars, sessionVars>>

NoTable == [k \in VBlocks |-> Free]
NoImage == [k \in VBlocks |-> NoData]
Closed  == << >>

(* A block read through a table; a place beyond the end of file is an error.*)
Through(table, k) ==
  IF table[k] = Free THEN Zero
  ELSE IF table[k] \in DOMAIN base THEN base[table[k]] ELSE NoData
ImageOf(table) == [k \in VBlocks |-> Through(table, k)]
Image == ImageOf(bat)
Over(super, image) == [k \in VBlocks |-> IF super[k] = NoData THEN image[k] ELSE super[k]]
(* The super client's disk: the super VHD, if there is one, over the base. *)
Whole == IF cur = 0 THEN Image ELSE Over(supers[cur], Image)

Init ==
  /\ base = Base0 /\ bat = Table0
  /\ supers = << >> /\ cur = 0 /\ sup = 0
  /\ backups = << >>
  /\ jpc = [j \in Jobs |-> "idle"] /\ jkind = [j \in Jobs |-> "cli"]
  /\ jid = [j \in Jobs |-> 0]      /\ jbat = [j \in Jobs |-> NoTable]
  /\ jtodo = [j \in Jobs |-> {}]   /\ jeof = [j \in Jobs |-> 0]
  /\ jpos = [j \in Jobs |-> 0]     /\ jgoal = [j \in Jobs |-> NoImage]
  /\ sbat = [s \in Sessions |-> Closed] /\ seen = [s \in Sessions |-> NoImage]

Quiet == \A j \in Jobs : jpc[j] = "idle"
(* The super path is unlinked; the data go unless a command or the super   *)
(* client has the file open.                                               *)
Unlink ==
  /\ cur' = 0
  /\ supers' = IF cur = 0 \/ sup = cur \/ \E j \in Jobs : jid[j] = cur /\ jpc[j] \in {"seek", "put"}
               THEN supers ELSE [supers EXCEPT ![cur] = NoImage]
(* The operator may give a command. *)
MayCommand == (OneAtATime => Quiet) /\ (SuperOff => sup = 0)
JGoto(j, pc) == jpc' = [jpc EXCEPT ![j] = pc]

(* The command ends; its locals go. *)
Finish(j) ==
  /\ JGoto(j, "idle")
  /\ jkind' = [jkind EXCEPT ![j] = "cli"]
  /\ jid' = [jid EXCEPT ![j] = 0]      /\ jbat' = [jbat EXCEPT ![j] = NoTable]
  /\ jtodo' = [jtodo EXCEPT ![j] = {}] /\ jeof' = [jeof EXCEPT ![j] = 0]
  /\ jpos' = [jpos EXCEPT ![j] = 0]    /\ jgoal' = [jgoal EXCEPT ![j] = NoImage]

-----------------------------------------------------------------------------
(* The super client *)

(* init_super_vhd creates the super VHD unless it exists; it is then opened.*)
OpenSuper ==
  /\ sup = 0
  /\ SuperOff => Quiet
  /\ \/ /\ cur # 0
        /\ sup' = cur
        /\ UNCHANGED <<supers, cur>>
     \/ /\ cur = 0 /\ Len(supers) < MaxSupers
        /\ supers' = Append(supers, NoImage)
        /\ cur' = Len(supers) + 1 /\ sup' = Len(supers) + 1
  /\ UNCHANGED <<baseVars, backups, jobVars, sessionVars>>

Edit(k, v) ==
  /\ sup # 0
  /\ supers' = [supers EXCEPT ![sup][k] = v]
  /\ UNCHANGED <<baseVars, cur, sup, backups, jobVars, sessionVars>>

CloseSuper ==
  /\ sup # 0 /\ sup' = 0
  /\ UNCHANGED <<baseVars, supers, cur, backups, jobVars, sessionVars>>

(* Diskless clients load the base image's table once, at login. *)
OpenSession(s) ==
  /\ sbat[s] = Closed
  /\ RestoreOffline => \A j \in Jobs : jpc[j] # "idle" => jkind[j] # "restore"
  /\ sbat' = [sbat EXCEPT ![s] = bat]
  /\ seen' = [seen EXCEPT ![s] = Image]
  /\ UNCHANGED <<baseVars, superVars, backups, jobVars>>

CloseSession(s) ==
  /\ sbat[s] # Closed
  /\ sbat' = [sbat EXCEPT ![s] = Closed]
  /\ seen' = [seen EXCEPT ![s] = NoImage]
  /\ UNCHANGED <<baseVars, superVars, backups, jobVars>>

-----------------------------------------------------------------------------
(* Commit: back up, merge, delete the super VHD *)

StartCommit(j, kind) ==
  /\ jpc[j] = "idle" /\ MayCommand
  /\ kind \in Kinds \ {"restore"}
  /\ cur # 0                                    \* super_exists
  /\ JGoto(j, IF kind = "merge" THEN "open" ELSE "backup")
  /\ jkind' = [jkind EXCEPT ![j] = kind]
  /\ UNCHANGED <<baseVars, superVars, backups, sessionVars, jid,
                 jbat, jtodo, jeof, jpos, jgoal>>

(* backup_before_merge takes the first free index; it records the length of*)
(* the base file and its table, no data.                                   *)
Meta(n, table, ok) == [eof |-> n, table |-> table, ok |-> ok, image |-> Image, cut |-> FALSE]

(* A definition named Mut... is a variant of the one after it with a       *)
(* plausible bug; the specification never uses it.                         *)
MutBackupBase(j) ==
  /\ jpc[j] = "backup" /\ Len(backups) < MaxBackups
  /\ backups' = Append(backups, Meta(Len(base) - 1, bat, TRUE))   \* end of file off by one
  /\ JGoto(j, "open")
  /\ UNCHANGED <<baseVars, superVars, localVars, sessionVars>>

BackupBase(j) ==
  /\ jpc[j] = "backup" /\ Len(backups) < MaxBackups
  /\ backups' = Append(backups, Meta(Len(base), bat, TRUE))
  /\ JGoto(j, "open")
  /\ UNCHANGED <<baseVars, superVars, localVars, sessionVars>>

(* No .meta file is made, or it is left torn, or it is complete and the    *)
(* copy of the super VHD fails.  The command line gives up; the web API    *)
(* drops the error and merges all the same.                                *)
BackupFails(j) ==
  /\ Failures
  /\ jpc[j] = "backup"
  /\ \/ /\ Len(backups) < MaxBackups
        /\ \E meta \in {Meta(0, NoTable, FALSE), Meta(Len(base), bat, TRUE)} :
             backups' = Append(backups, meta)
     \/ UNCHANGED backups
  /\ IF jkind[j] = "api" THEN JGoto(j, "open") /\ UNCHANGED localVars ELSE Finish(j)
  /\ UNCHANGED <<baseVars, superVars, sessionVars>>

(* merge_vhd_sync opens both images and loads both tables. *)
OpenImages(j) ==
  /\ jpc[j] = "open"
  /\ IF cur = 0 THEN Finish(j)
     ELSE /\ JGoto(j, "seek")
          /\ jid' = [jid EXCEPT ![j] = cur]
          /\ jbat' = [jbat EXCEPT ![j] = bat]
          /\ jtodo' = [jtodo EXCEPT ![j] = {k \in VBlocks : supers[cur][k] # NoData}]
          /\ jgoal' = [jgoal EXCEPT ![j] = Whole]
          /\ UNCHANGED <<jkind, jeof, jpos>>
  /\ UNCHANGED <<baseVars, superVars, backups, sessionVars>>

MutSeekEnd(j) ==
  /\ jpc[j] = "seek"                            \* even with nothing to copy
  /\ Len(base) < MaxFile
  /\ jeof' = [jeof EXCEPT ![j] = Len(base)]
  /\ JGoto(j, "put")
  /\ UNCHANGED <<baseVars, superVars, backups, jkind, jid, jbat, jtodo, jpos, jgoal,
                 sessionVars>>

SeekEnd(j) ==
  /\ jpc[j] = "seek" /\ jtodo[j] # {}
  /\ Len(base) < MaxFile
  /\ jeof' = [jeof EXCEPT ![j] = Len(base)]
  /\ JGoto(j, "put")
  /\ UNCHANGED <<baseVars, superVars, backups, jkind, jid, jbat, jtodo, jpos, jgoal,
                 sessionVars>>

(* Writing past the end of a file fills the gap with zeroes. *)
Resize(f, n)   == [i \in 1 .. n |-> IF i <= Len(f) THEN f[i] ELSE Zero]
PutAt(f, n, v) == [Resize(f, Max({n, Len(f)})) EXCEPT ![n] = v]

MutPutBlock(j) ==
  LET k == Min(jtodo[j]) IN
  /\ jpc[j] = "put"
  /\ base' = PutAt(base, jeof[j] + 1, supers[jid[j]][k])
  /\ jbat' = [jbat EXCEPT ![j][k] = jeof[j]]     \* the place before
  /\ jtodo' = [jtodo EXCEPT ![j] = @ \ {k}]
  /\ JGoto(j, "seek")
  /\ UNCHANGED <<bat, superVars, backups, jkind, jid, jeof, jpos, jgoal, sessionVars>>

MutPutInPlace(j) ==
  LET k == Min(jtodo[j])
      slot == IF jbat[j][k] = Free THEN jeof[j] + 1 ELSE jbat[j][k]   \* not at the end
  IN
  /\ jpc[j] = "put"
  /\ base' = PutAt(base, slot, supers[jid[j]][k])
  /\ jbat' = [jbat EXCEPT ![j][k] = slot]
  /\ jtodo' = [jtodo EXCEPT ![j] = @ \ {k}]
  /\ JGoto(j, "seek")
  /\ UNCHANGED <<bat, superVars, backups, jkind, jid, jeof, jpos, jgoal, sessionVars>>

PutBlock(j) ==
  LET k == Min(jtodo[j]) IN
  /\ jpc[j] = "put"
  /\ base' = PutAt(base, jeof[j] + 1, supers[jid[j]][k])
  /\ jbat' = [jbat EXCEPT ![j][k] = jeof[j] + 1]
  /\ jtodo' = [jtodo EXCEPT ![j] = @ \ {k}]
  /\ JGoto(j, "seek")
  /\ UNCHANGED <<bat, superVars, backups, jkind, jid, jeof, jpos, jgoal, sessionVars>>

MutBeginTable(j) ==
  /\ jpc[j] = "seek" /\ jtodo[j] = {}
  /\ cur' = 0                                    \* super VHD deleted too soon
  /\ JGoto(j, "table")
  /\ jpos' = [jpos EXCEPT ![j] = 0]
  /\ UNCHANGED <<baseVars, supers, sup, backups, jkind, jid, jbat,
                 jtodo, jeof, jgoal, sessionVars>>

BeginTable(j) ==
  /\ jpc[j] = "seek" /\ jtodo[j] = {}
  /\ JGoto(j, "table")
  /\ jpos' = [jpos EXCEPT ![j] = 0]
  /\ UNCHANGED <<baseVars, superVars, backups, jkind, jid, jbat, jtodo, jeof, jgoal,
                 sessionVars>>

(* The whole table is written, entry by entry, by merges and restores. *)
PutEntry(j) ==
  /\ jpc[j] = "table" /\ jpos[j] \in VBlocks
  /\ bat' = [bat EXCEPT ![jpos[j]] = jbat[j][jpos[j]]]
  /\ jpos' = [jpos EXCEPT ![j] = @ + 1]
  /\ JGoto(j, IF jpos[j] = NumBlocks - 1 THEN "delete" ELSE "table")
  /\ UNCHANGED <<base, superVars, backups, jkind, jid, jbat, jtodo, jeof, jgoal,
                 sessionVars>>

(* Whatever super VHD is there now is deleted, and the command is over; a  *)
(* merge alone leaves it.                                                  *)
DeleteSuper(j) ==
  /\ jpc[j] = "delete"
  /\ IF jkind[j] = "merge" THEN UNCHANGED <<supers, cur>> ELSE Unlink
  /\ Finish(j)
  /\ UNCHANGED <<baseVars, sup, backups, sessionVars>>

-----------------------------------------------------------------------------
(* Restore, discard, failures *)

(* restore_from_meta reads all of the .meta file before it touches base; a *)
(* torn one is an error.                                                   *)
StartRestore(j, i) ==
  /\ jpc[j] = "idle" /\ MayCommand
  /\ "restore" \in Kinds
  /\ RestoreOffline => \A s \in Sessions : sbat[s] = Closed
  /\ i \in DOMAIN backups /\ backups[i].ok
  /\ JGoto(j, "truncate")
  /\ jkind' = [jkind EXCEPT ![j] = "restore"]
  /\ jbat' = [jbat EXCEPT ![j] = backups[i].table]
  /\ jeof' = [jeof EXCEPT ![j] = backups[i].eof]
  /\ jgoal' = [jgoal EXCEPT ![j] = IF backups[i].cut THEN NoImage ELSE backups[i].image]
  /\ UNCHANGED <<baseVars, superVars, backups, jid, jtodo, jpos, sessionVars>>

(* set_len: cuts the file, or extends it with zeroes. *)
Truncate(j) ==
  /\ jpc[j] = "truncate"
  /\ base' = Resize(base, jeof[j])
  /\ backups' = [i \in DOMAIN backups |-> [backups[i] EXCEPT !.cut = @ \/ jeof[j] < backups[i].eof]]
  /\ JGoto(j, "table")
  /\ jpos' = [jpos EXCEPT ![j] = 0]
  /\ UNCHANGED <<bat, superVars, jkind, jid, jbat, jtodo, jeof, jgoal, sessionVars>>

Discard ==
  /\ MayCommand
  /\ cur # 0
  /\ Unlink
  /\ UNCHANGED <<baseVars, sup, backups, jobVars, sessionVars>>

(* An I/O error, or the death of the process. *)
Stops(j) ==
  /\ Failures
  /\ jpc[j] # "idle"
  /\ Finish(j)
  /\ UNCHANGED <<baseVars, superVars, backups, sessionVars>>

Merge(j) ==
  \/ BackupBase(j) \/ BackupFails(j) \/ OpenImages(j) \/ SeekEnd(j) \/ PutBlock(j)
  \/ BeginTable(j) \/ PutEntry(j) \/ DeleteSuper(j) \/ Stops(j)

Next ==
  \/ OpenSuper \/ CloseSuper \/ Discard
  \/ \E k \in VBlocks, v \in Edits : Edit(k, v)
  \/ \E s \in Sessions : OpenSession(s) \/ CloseSession(s)
  \/ \E j \in Jobs :
       \/ \E kind \in {"cli", "api", "merge"} : StartCommit(j, kind)
       \/ Merge(j)
       \/ \E i \in 1 .. MaxBackups : StartRestore(j, i)
       \/ Truncate(j)

Spec == Init /\ [][Next]_vars

-----------------------------------------------------------------------------
(* Properties *)

Payloads == Values \cup {NoData}
Images   == [VBlocks -> Payloads]

TypeOK ==
  /\ base \in Seq(Values) /\ Len(base) <= MaxFile
  /\ bat \in Tables
  /\ supers \in Seq(Images)
  /\ cur \in 0 .. Len(supers) /\ sup \in 0 .. Len(supers)
  /\ \A i \in DOMAIN backups :
       backups[i].ok => backups[i].table \in Tables /\ backups[i].eof \in 0 .. MaxFile
  /\ jpc \in [Jobs -> {"idle", "backup", "open", "seek", "put", "table", "delete", "truncate"}]
  /\ jbat \in [Jobs -> Tables]
  /\ jtodo \in [Jobs -> SUBSET VBlocks]
  /\ jpos \in [Jobs -> 0 .. NumBlocks]
  /\ \A j \in Jobs : jpc[j] \in {"seek", "put"} => jid[j] \in 1 .. Len(supers)
  /\ \A j \in Jobs : jpc[j] = "put" => jtodo[j] # {}
  /\ sbat \in [Sessions -> Tables \cup {Closed}]

(* Every block of x that can be read holds the same in y. *)
Kept(x, y) == \A k \in VBlocks : x[k] = NoData \/ y[k] = x[k]

(* CLI.md:34 and vhd_merge.rs:12: a commit that gets to its end has made   *)
(* the base image what the super client saw.  A restore that gets to its   *)
(* end has made it what was backed up, if the base was not cut since.      *)
CommandLands == \A j \in Jobs : jpc[j] = "delete" => Kept(jgoal[j], Image)

(* No step of a commit - not a failure at any point of it, not the retry of*)
(* a commit that failed half-way through the table - changes what the super*)
(* client would see, until the super VHD is gone and the base shows it all.*)
CommitKeepsWhole ==
  [][\A j \in Jobs : Merge(j) /\ jkind[j] # "restore" => Kept(Whole, Whole')]_vars

(* A diskless client keeps seeing the image it booted, whatever is         *)
(* committed meanwhile: a merge writes only past the end of the file and   *)
(* the client never reloads the table.  It needs the operator to restore   *)
(* only when no diskless client runs.                                      *)
SessionsKeepImage ==
  \A s \in Sessions : sbat[s] # Closed => Kept(seen[s], ImageOf(sbat[s]))

(* Restoring a backup leaves the older ones usable, whatever was committed *)
(* in between: a backup still reads back what was backed up unless a later *)
(* restore cut the base below it.                                          *)
OlderBackupsIntact ==
  \A i \in DOMAIN backups : backups[i].ok /\ ~backups[i].cut =>
    Kept(backups[i].image, ImageOf(backups[i].table))
=============================================================================
