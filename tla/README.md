# Simple-Iscsi: TLA+ specifications

Simple-Iscsi boots diskless Windows PCs over iSCSI. This directory holds TLA+ modules of its core -
the storage paths, the life of a base image, the session protocol, the boot services and the files
that steer them - with the TLC runs that check them and the TLAPS proofs about them. `PROJECT.json` says which lines of the code each definition
stands for; paths below are relative to `src/src/` of the repository unless they name a document.

## 1. The system

| Component (code) | State it keeps | Operations | Correct when |
|---|---|---|---|
| Write-back client cache (`writeback_gamedisk.rs`) | RAM copies of written blocks, the block map (LBA to offset in `.bin`), the next offset, the queue to a flusher thread | `write_stream`, `try_read_ram_cache`, `contains_lba`, `read_blocks_cached`, flusher, `save_map`, `Drop` | the tiers together look like one disk |
| Storage backend (`backend.rs`, `vhd.rs`) | a VHD file and its block allocation table (BAT), in memory and on disk, behind an `RwLock` | `read_blocks`, `write_blocks` (allocate and copy on write, or overlay), `sync`, `open` | looks like a disk; the file can be opened again at any moment |
| Read-ahead cache (`read_ahead.rs`) | chunks of 256 KB | get, single-flight load, `invalidate_range`, eviction | never serves what was overwritten |
| Image life cycle (`vhd_merge.rs`, `writeback_super.rs`, `writeback_imagedisk.rs`, `cli.rs`, `api/routes_client.rs`, `api/routes_vhd.rs`) | base VHD, super VHD, `.meta` backups | commit, merge, discard, restore, open by super and diskless clients | a commit publishes exactly what the super client saw; clients and backups keep what they have |
| Session (`session/*.rs`) | pending writes by task tag, spawned tasks, a channel of 1024 messages to the writer task | SCSI commands, R2T and Data-Out, abort, logout, teardown | every command is answered once, with the right data; every session ends |
| Login (`session/login.rs`) | declared limit, sequence numbers, chosen target | one request, one response, until the last stage | numbers and limit carry over into the session |
| Exchange (`session/mod.rs`, `session/pdu_io.rs`) | `exp_cmd_sn`, `max_cmd_sn`, `stat_sn` | count commands, cut data into Data-In segments, number responses | the initiator's checks of numbers, windows and lengths pass |
| PDU and SCSI encoding (`pdu/`, `scsi_*.rs`) | none | parse, build, inquiry, capacity | data are cut to what was asked for; immediate PDUs are told apart |
| Server and accounting (`server.rs`, `stats.rs`) | active sessions, per-client counters | accept, start, end, early returns | counters match sessions |
| DHCP (`netboot/dhcp.rs`) | client table, next address, a watcher of `clients.toml` | answer a packet, register a new client, reload | the table is the file; addresses given twice are repaired |
| TFTP (`netboot/tftp.rs`) | one task per transfer: block number, retries | request, block, acknowledgement, timeout | what arrives is the file; transfers end; a few faults cost nothing |
| Netboot supervisor (`netboot/mod.rs`) | the two service tasks, `currently_enabled` | start and stop on a change of `dhcp.enabled` | services run when enabled and stop when disabled |
| Configuration (`config.rs`, `config_manager.rs`) | shared configuration, file modification times | load, watch, repair duplicate addresses, append a client | the configuration in force ends up as the file |
| Web API (`server_api.rs`, `api/`) | none of its own | routes onto the above | - |

**How they interact.** A diskless client's session reads through *its* `ClientCache` and, below it,
a `Backend` on the shared base VHD, opened read-only. The super client's session has no cache: its
`Backend` is a differencing "super" VHD over the base, written in place. READ commands run as tasks
(with a fast path that avoids a blocking thread); WRITE and Data-Out are handled by the reader loop
itself until the data are complete, then by a task on a blocking thread. Answers go through one
bounded channel to one writer task. Operator commands run in another process (`cli.rs`) or as
spawned tasks (`api/`) and meet the sessions only in the files. The boot services meet the rest in
two files: the web API, the DHCP server and the repair of duplicate addresses write `clients.toml`,
the web API writes `config.toml`, and two watchers that poll modification times reload them.

**What is hard.** Concurrent maps read at different moments in one READ; a flusher that lags behind
acknowledged writes; an allocation check made under one lock and used under another; tables changed
in memory first and in the file later; operator commands that may stop anywhere and that nothing
excludes from each other; task tags that are reused; a bounded channel between tasks that wait for
each other; watchers that miss a write between a load and a look at the clock; packets lost,
duplicated and reordered while a timer fires; counters that wrap and are stored and loaded one by
one. `PROJECT.json` lists 40 hazards, each at its line, with the property that would show it or the
reason there is none yet.

## 2. The modules

| Module | What it is |
|---|---|
| `BlockDevice` | The abstract specification both storage paths implement: a disk of independent blocks; a write takes effect block by block between submission and acknowledgement; a read answers every block with something it held while the read was outstanding. |
| `ClientCache` | The write-back cache, its flusher thread and the READ path. `MCClientCache` has its TLC instances, `ClientCacheProofs` its theorems, the refinement of `BlockDevice` among them. |
| `CacheFiles` | The life of one client's sessions around the cache's two files: accept, accounting, opening, removal, crashes. `MCCacheFiles` has its instance, `CacheFilesProofs` its theorems. |
| `VhdBackend` | A VHD behind its lock, with allocation, copy on write, table updates, the read-ahead cache, failures and restarts. `MCVhdBackend` has its instances, `VhdBackendProofs` its theorems, the refinement of `BlockDevice` among them. |
| `ImageStore` | Base image, super VHD and backups under commit, merge, discard and restore. `MCImageStore` has its instances, `ImageStoreProofs` its theorems. |
| `Session` | One session in full feature phase with its initiator and connection. `SessionProofs` has its theorems. |
| `Exchange` | Sequence numbers, the command window and the lengths of data, from the first login request on. `MCExchange` has its instances, `ExchangeProofs` its theorems. |
| `Netboot` | The supervisor, the DHCP server, both watchers and the two files they share. `MCNetboot` has its instances, `NetbootProofs` its theorems. |
| `Tftp` | Boot-file transfers of one client over a faulty network. `TftpProofs` has its theorems. |

Definitions named `Mut...` are faulty variants kept beside the definition they vary, to see each
property fail; no specification uses them.

### ClientCache
`ram`, `blockMap`, `bin`, `nextOff`, `chan` are `ram_cache`, `block_map`, the `.bin` file,
`next_write_offset` and the `sync_channel`. Every access to a concurrent map is a step of its own:
`ClaimOffset`, then `InsertRam` per block, then `SendAndAck` are `write_stream`; `FlushRecv`,
`FlushWrite` and `FlushMap` per block are the thread of `ClientCache::new`; `StartRead`, `CopyRam`,
`FastMiss`, `Probe`, `ReadAhead` are the fast path of `handle_scsi_cmd`, and `WalkMiss`, `Lookup`,
`ExtendRun`, `ReadRun` are `read_blocks_cached`. When a run is extended the code looks into RAM and
then into the block map; the two lookups of *one* block are a single step there (`WalkMiss` and
`Lookup` show them apart for the first block of a run, where the same order matters). The payload of
block `b` in a write of `v` is `<<v, b>>`, so a block answered with another block's data shows.
The cache may open over any loaded map and file (`LoadedMaps`, `LoadedBin`).

### VhdBackend
`bat` is the table in memory, `diskBat` the one in the file, `file` the data blocks appended to it.
A write is `StartWrite`, `Invalidate`, `CheckAllocation` (a read lock that is given back), then
either `AcquireShared` or `AcquireExcl` with `AllocBlock` per VHD block, `WriteBatEntry` per entry,
and `WriteData` per VHD block under either lock. `WriteFails` ends the command at any file access and
keeps what was done; `Restart` reloads the table from the file. A read is `HitChunk`, `MissFast`,
`LoadChunk`, `InsertChunk` with a read-ahead cache and `LockRead`, `ReadBlock` without. A plain VHD
(`new_vhd`) is the same code with zeroes for a parent. An append that fails may leave part of a block
at the end of the file, which no table refers to; only whole blocks are counted here: the end of the
file, `metadata().len() / 512` in the code (`vhd.rs:375`), is a number of blocks. A read of the file
that fails is modelled only inside a write, as `WriteFails`; a READ command's own reads succeed.
`Invalidate` drops all chunks of a write in one step where `invalidate_range` drops them one by one
(`read_ahead.rs:40`). A reader of one of those chunks could tell the difference; under `ChunkQuiet`, which
every run and theorem about what reads answer assumes when there is a read-ahead cache, there is none.

### ImageStore
`base` and `bat` are the base file's blocks and table; `supers` every super VHD ever made and `cur`
the one its path names; `backups` the `.meta` files. A command is a job: `BackupBase`, `OpenImages`,
`SeekEnd` and `PutBlock` per block (two steps, because another process may append between them),
`PutEntry` per table entry, `DeleteSuper`. `Stops` ends a job at any step. The web API's commit goes
on when the backup fails (`BackupFails`); the bare merge neither backs up nor deletes. Deleting a file
that is open keeps its data for those who have it open (`Unlink`).

### Session
The initiator is external: it has a few tags and reuses one as soon as its command is over, sends
immediate data, answers R2Ts, may abort, log out, or lose the connection. `ReadCommand`,
`ReadDataOut`, `ReadAbort`, `ReadLogout`, `ReadError` are the reader loop; `AnswerQuery`, `Store`,
`AnswerWrite`, `AnswerAbort` the tasks; `WriteMessage`, `WriteError`, `WriterOrphaned`,
`ChannelClosed` the writer task. Who holds the session context (reader, query tasks) and who only a
sender (write tasks) is `ContextAlive` and `SenderAlive`: the writer upgrades a weak reference and
leaves when that fails.

### Exchange
What `Session` leaves out: the numbers. The initiator is external; it sends login requests that all
carry the CmdSN of its first command, then commands inside the window, an immediate NOP-Out at any
time, and one Data-Out for an R2T. `Login` is a round of `handle_login_phase`; `ReadCommand` and
`OpenWindow` are the two stores of the reader loop (with the dispatch after the second), `ReadDataOut`
its Data-Out; `Answer` is a task that sends its result; `TakeMessage`, `LoadExp` and `PutSegment`,
`PutStatus` or `PutR2T` are `write_message`, with the two loads apart. `Yield` is the length of a
command's data as `scsi_gamedisk.rs` and the READ path make them, in units. `Bits` and `IsImmediate`
are the first byte of a PDU and what `read_pdu` makes of it. The channel is unbounded, the connection
stays up, disks do not fail and a task answers once: those are `Session`'s questions. Not here: a PDU
other than a login request during the login (which ends the phase), a limit that does not parse or is
zero, check conditions (answered like a status), and bursts of several Data-Outs.

### CacheFiles
Each session is a program counter through `start_server` (`Accept`), `Session::run` (`LoginFails`,
`LoginDone`, `InitFails`, `InitBare`), `ClientCache::new` (`LoadMap`, `OpenWrite`, `OpenRead`: two
opens by name, as in the code), the drop of the session context (`EndContext`, both counters) and the
drop of the cache (`SaveMap`, `UnlinkBin`, `UnlinkMap`). `bin` and `map` are what the two *names*
refer to: a file whose name is gone lives on for those who have it open (Windows opens it with
`FILE_SHARE_DELETE`). Where `ClientCache` says what a cache does over *any* map it loaded, `CacheFiles`
says which map that can be. The directory is chosen by the last octet of the address, so a client
always meets its own names. `excused`, `dropCut` and `cleaned` are history. A removal succeeds here: in
the code one that fails is only logged, or ignored (`writeback_gamedisk.rs:392`, `:399`), and leaves its
file behind, against `NothingLeft`. A client has one disk with a cache here; with several LUNs each has
files of its own, under other names.

### Netboot
`config` is `config.toml` reduced to what the modelled code asks of it: `dhcp.enabled`, or no dhcp
section at all, which is also what a truncated file parses to (every section has a default).
`TruncateConfig` and `FillConfig` are one `fs::write`. A modification time is abstracted to `unseen`:
the watchers that have yet to notice a write. `WatchStat`, `WatchFixRead`, `WatchFixWrite`, `WatchLoad`
are a round of `start_config_watcher`; `SuperTick`, `StartDhcp`, `StartTftp`, `Stop` one of
`start_netboot`; `Receive`, `AppendLoad`, `AppendWrite`, `Reply` a packet in `handle_packet`;
`DhcpFirstStat`, `DhcpStat`, `DhcpLoad`, `DhcpSwap` the watcher spawned by `DhcpServer::new`. Wherever
the code unwraps the dhcp section of the shared configuration, the task ends when there is none: the
supervisor (`spc = "dead"`), DHCP, TFTP. `Port67InUse` is true once a DHCP server was started: its
watcher keeps it, and the socket, for ever. `AutoFix` is the repair of duplicate addresses, a function
of the entries repaired so far. A write of `clients.toml` is one step (`WriteClients`), though `fs::write`
truncates and fills this file, too: a reader in between finds no clients, and what it makes of that lasts until
the next modification time is seen, that of the fill. An administrator's page loaded in between, and an append
into a file that is being filled, are not covered. `main` starts the configuration watcher after the services: `wpc = "starting"`.

### Tftp
Each transfer has its place, block, retries and the content it read at the start. `HandleRequest` is
the port-69 loop and `handle_request`; `Receive` with `Acknowledged`, `Again` and `CountRetry`, `Timeout`,
`SocketError` and `SendFails` the two waiting loops of `transfer_file` (the option acknowledgement is
block 0). An acknowledgement carries, beside its number, the block that number stands for: auxiliary, no
action of the server looks at it. The client, the administrator and the network are external: the client repeats its request,
answers duplicates again and a second transfer with an error; the network loses, duplicates and swaps
packets, and timers may fire early. An error of the receiving socket (`SocketError`) is one of the bounded
faults: the code counts no retry for it (`tftp.rs:249`), so a socket that does nothing but fail keeps a
transfer for ever, and `TransferEnds` says nothing of that.

## 3. The runs

Run `tlc -config <run>.cfg <module>` with the module of `PROJECT.json`.

| Run | Question | Properties | Bounds |
|---|---|---|---|
| `cache_device` | Do RAM, `.bin` and base together behave as one disk, whatever a reader, two (even overlapping) writers and the flusher do? | `AnswersHeld` `RamMasksFlusher` `OffsetsExclusive` `ImplementsDevice` | 3 blocks, opened with a `.map` that holds the first two side by side, or only the last one (so that a run of `.bin` ends at the base, and a run of the base at `.bin`); room for two more blocks in `.bin`, so two one-block writes or one of two blocks; queue of 1 |
| `cache_live` | Does every write complete and reach the block map, and do the tiers agree when all is flushed, although writes of `.bin` fail? | `TiersAgree` `WritesComplete` `WritesReachDisk` | 2 blocks, no `.map`; 2 writers that do not overlap, 4 places |
| `vhd_device` | Do lock, allocation, copy on write and read-ahead implement a disk? | `TypeOK` `AnswersHeld` `ImplementsDevice` | 2 VHD blocks of 2 units, a command inside one block and one across both, 2 writers, 1 reader |
| `vhd_disk` | Can the file be opened again after any step? | `SlotsExclusive` `AllocatedBeforeData` `DiskMatchesMemory` | 3 VHD blocks, commands across each boundary, failures, one restart |
| `image_commands` | Do commands, one at a time but stopped anywhere and retried, keep what they must? | `TypeOK` `CommandLands` `SessionsKeepImage` `OlderBackupsIntact` `CommitKeepsWhole` | 2 VHD blocks, 2 backups, 2 super VHDs, 1 diskless client, 4 blocks of base file |
| `session_life` | Is what is stored what was sent, is every command answered, once, and does every session end? | `TypeOK` `StoredIsSent` `NoStrayAnswer` `EveryCommandAnswered` `SessionEnds` | 2 commands on 2 tags (or one tag reused), writes of 2 units, a channel of 1, aborts, failing writes, logout, lost connections |
| `session_files` | What do a client's sessions load, leave behind and count? | `FreshDisk` `NothingLeft` `AccountsExact` | 3 sessions that may overlap, files of an earlier life, 1 crash |
| `tftp_transfer` | Does a boot file arrive whole, and does every transfer end? | `TypeOK` `ReceivedIsPrefix` `DoneDelivered` `TransferEnds` `SurvivesFaults` | 4 blocks with block numbers modulo 4, 2 requests, 3 faults, 3 retries as in the code, 2 versions of the file |
| `netboot_config` | Do table, configuration and services follow the two files? | `TypeOK` `SyncedTable` `ConfigFollowed` `DuplicatesHealed` `ServicesStop` | 3 cards, a pool of 3 addresses of which the file gives one away twice, 1 write by the administrator |
| `exchange_numbers` | Do StatSN, the window, segments and residual counts add up for the initiator? | `StatusCounted` `WindowAdvances` `AnswersWhole` `AllAnswered` | up to 2 login requests, 3 commands of 6 kinds, numbers modulo 16 that start 2 or 3 before the wrap, a window of 1, segments of 1 or 2 units |
| `netboot_restart` | violated: the services disabled and enabled again | `EnabledServes` | 2 cards, 2 writes |
| `vhd_span3` | violated: commands of three VHD blocks | `DiskMatchesMemory` | 3 VHD blocks of one unit |

**Why these bounds.** Three blocks are enough for a run of adjacent blocks to be formed, broken by
the other tier or misplaced; two writers for two claims to be filled in the other order; a queue or channel of one for
its limit to be reached at once; two tags and two commands for a second command beside the first, or after it on
its tag; two VHD blocks per command for the batch of table entries, and a third block
for a command that finds a neighbour allocated; three sessions for one to start while a second drops
its cache that a third still has open; four blocks for a block number to come round again and as many
faults as it takes to fail a transfer; numbers that start just before the wrap, so that the third
command is past it and one carries the reserved CmdSN; three cards for a duplicate in the file beside a client DHCP
registers. Bounds that only keep the state space finite are
constants named `Max...`, each guarding the action that would exceed it.

**What the environment is assumed to do,** each a constant of its module: `Overlap = FALSE` in
`cache_live` (with overlapping writes in flight, RAM and `.bin` may keep different ones);
`ChunkQuiet` in `vhd_device` (with the read-ahead cache, an initiator that reads a chunk while
writing it can be served old data afterwards, because the loader inserts the chunk after the write
invalidated it); `OneAtATime`, `SuperOff`, `RestoreOffline` in `image_commands` (DOCUMENTATION.md:657
shuts the super client down before saving an image); `Unsolicited` FALSE in
`session_life`. `QuietStart` in `netboot_config`: no write of a file falls between the load
of it and its watcher's first look, else the write is never seen (`netboot/dhcp.rs:98`). Each was
found by a run that failed without it; section 4 names the cases that contradict a document.

**Fairness.** `Exchange` has only safety properties and states none. `ClientCache`: the flusher thread and a started write task are threads the operating
system runs (`WF`); no read is assumed to proceed. `Tftp`: the runtime runs the tasks and
their timers, a packet that is not lost arrives, and the client's firmware answers and repeats its
request while it asks (it may give up at any moment; no fairness says it does not). `Netboot`: the
timers of the watchers and of the supervisor tick, a write that was begun is finished, a packet being
handled is handled to the end; nothing is owed by the administrator or the cards. `Session`: the runtime polls the reader, every
task and the writer task as long as they can move (`WF`); the initiator reads its socket and finishes
a burst it began - without that, TCP back-pressure stops the writer. No strong fairness is used, and
none for the start of commands, aborts, logout or the loss of the connection.

**Deadlock** is checked in `cache_device`, `vhd_device` and `vhd_disk`. The others stop when a bound
is reached or the session is over and say so with `CHECK_DEADLOCK FALSE`; that nobody waits for ever
before that is `SessionEnds`, `EveryCommandAnswered` and `WritesComplete`.

## 4. What the checks show

The normal result is that the code does what it should: the cache and the VHD backend implement
`BlockDevice`; a merge that stops anywhere can be run again; diskless clients are untouched by
commits; sessions end and answer.

The initiator's view of an exchange adds up: whichever tasks answer, StatSN counts, the window only
moves forward although its two ends are stored and loaded apart, it stays open across the wrap and the
reserved CmdSN, and data arrive whole, in segments no longer than declared.

A boot file is received as it was when its transfer began and completely, or not at all; up to two
faults never cost a boot; the configuration in force always ends up as the file, even if it was read
half-written; both services end when disabled; the session counters drift by nothing but the two early
returns that skip them.

Disagreements between the code and what is said of it, each shown by a run:

1. `vhd_span3` - `vhd.rs:404`, `vhd.rs:463`: table entries go to consecutive slots although the blocks
   a command allocated need not be consecutive. With 2 MB blocks this takes an unaligned command of
   more than 2 MB; the inquiry page allows 4 MB (`scsi_gamedisk.rs:100`).
2. `netboot_restart` - `netboot/dhcp.rs:96`: the watcher of `clients.toml` holds the DHCP server and
   its socket for ever. After the services were disabled once, DHCP cannot bind port 67 again; the
   failure is logged and the services count as enabled. The plan of the feature waits for the tasks so
   that both ports are released (docs/superpowers/plans/2026-09-24-responsive-realtime-ui-and-dhcp-restart-plan.md:52).

Seen on the models when an assumption of section 3 is dropped (each is a constant to change in the
run's configuration): restoring a backup truncates the base below newer backups, which stay listed
(`vhd_merge.rs:211`; CLI.md:84, CLI.md:105) - with `OlderBackupsIntact` stated for all backups. Two
commits through the web API at once append at the same end of file (`api/routes_client.rs:134`) -
`CommandLands` with two jobs and `OneAtATime = FALSE`. The F bit of an unsolicited burst completes a
write that still misses its solicited part (`session/scsi_handler.rs:238`; DOCUMENTATION.md:290) -
`StoredIsSent` with `Unsolicited`. An abort is reported complete and the task goes on
(`session/scsi_handler.rs:16`; DOCUMENTATION.md:217) - `NoStrayAnswer` without its
exception for aborted commands. A write of
`clients.toml` between the load of the table and the watcher's first look is missed - `SyncedTable`
without `QuietStart`.

A write of `.bin` that fails over a file with data beyond its loaded map (opening truncates nothing, and a
`.bin` without a `.map` is opened from offset 0: `writeback_gamedisk.rs:67`, `:107`) leaves the block map
pointing at those old data, another block's perhaps (`writeback_gamedisk.rs:144`) - `TiersAgree` with a
`LoadedBin` that is not blank from `LoadedNext` on. RAM masks it for the life of the session.

Seen on `Exchange`, each with one formula more than the run checks:

- The response to a command with data is sent from inside the loop over their segments, so data of
  length 0 (a READ of 0 blocks, an INQUIRY with an allocation length of 0) get none and the tag stays
  outstanding (`session/pdu_io.rs:52`; DOCUMENTATION.md:276, :278): `AllAnswered` without its exception,
  with `Command("read", 0)` in the menu.
- The I bit is looked for in bit 0x80 of the first byte, which is reserved; it is 0x40
  (`pdu/parser.rs:11`; DOCUMENTATION.md:179). Immediate NOP-Outs are counted as commands, and ExpCmdSN
  acknowledges a CmdSN the next command still has (DOCUMENTATION.md:236): after a command and a "ping",
  `Quiet => Behind(expSN, cmdSN)` fails. The window stays open all the same.
- A login response acknowledges the CmdSN the first command will have, though login requests do not
  count (`session/login.rs:157`; DOCUMENTATION.md:236-237): the same formula on the login's PDUs.
- MaxCmdSN slides when a command is read, not when it is answered (`session/mod.rs:380`); the queue
  depth of DOCUMENTATION.md:238 bounds nothing, and the distance is 128, not the 64 named there: with 5
  commands and a window of 1, more than `Window + 2` are without an answer.

Seen while modelling, without a run: `max_cache_per_client_gb` limits nothing
(`writeback_gamedisk.rs:328` is never called; DOCUMENTATION.md:427). A configuration read while it is
being written has no dhcp section, and the DHCP task, the TFTP task or the supervisor itself panics on
it (`netboot/dhcp.rs:72`, `:238`, `netboot/tftp.rs:34`); nothing restarts them while `dhcp.enabled`
stays. The repair may give a later client's unique address to an earlier duplicate and then move that
client, too, for it does not ask which addresses the rest of the file uses (`config.rs:292`; they are
collected at `:264`). A failed login leaves `active_sessions` one too high, a failed initialisation both counters
(`session/mod.rs:224`, `:256`). A client that reconnects while its old session ends may load the map
of that session, write into a `.bin` that is about to lose its name, or fail to open it
(`writeback_gamedisk.rs:133`). The DHCP counter has no end of pool (`netboot/dhcp.rs:188`), and only a
change of `dhcp.enabled` restarts the services, not the other fields the plan lists. After a write failed between
allocating a block and saving its entry, the table in memory stays ahead of the file until the next
open and later writes to that block are lost at a restart (`vhd.rs:397`): `DiskMatchesMemory` exempts
exactly that interval. A discard after a commit that stopped in the table does not give the earlier
base back (CLI.md:42, `vhd_merge.rs:68`). The writer task drops queued messages, the logout response
among them, when the last context goes first (`session/mod.rs:353`; the comment at 451 says
otherwise). An R2T asks for all that remains whatever MaxBurstLength (DOCUMENTATION.md:291;
`session/scsi_handler_gamedisk.rs:49`). The ExpDataSN of a write's response counts its Data-Outs, not
its R2Ts (`session/scsi_handler.rs:283`). The limit for Data-In is cut to 4 MB and then overwritten by
the value that is not (`session/login.rs:57`, `:119`). The web API commits even when its backup failed (`api/routes_client.rs:134`;
CLI.md:21).

## 5. What is proved

`ClientCacheProofs` proves, for all values of the constants that satisfy `CacheAssumption` (any disk
size, values, numbers of tasks, queue capacity, loaded map, with or without failing disk writes and
overlapping writes):

- `TypeCorrect == Spec => []TypeOK`. `TypeOK` is inductive as it stands because it holds more than
  types: the cursor of a write, of the flusher and of a read lies inside its extent, and a run read
  from `.bin` ends inside the file. One lemma per group of actions (`ClaimTypes`, `InsertTypes`,
  `SendTypes`, `FlushTypes`, `StartReadTypes`, `ReadTypes`), on a few lemmas about the
  operators (`PieceIsData`, `JobFits`, `ExtentFits`, `ViewIsValue`, `AppendAt`, `TailAt`).
- `FlusherMasked == Spec => []RamMasksFlusher`. Not inductive: the flusher's step needs that what it
  publishes is in RAM already. The strengthening `Masks` says that every block of a job queued or in
  the flusher's hands, and every block a writer has inserted so far, is in RAM; RAM entries are never
  removed. `InitMasks` and `NextMasks` are the induction, over `TypeOK`.
- `AppendsApart == Spec => []OffsetsExclusive`. `Separate` says that the jobs at any two different places
  (a task's hands, a position in the queue, the flusher's hands) have ranges of `.bin` apart; said of
  jobs instead of places it would not be inductive. `Ranges` says that everything claimed or mapped lies
  below `next_write_offset`, and that nothing is mapped into a range before the flusher wrote it.

The same module proves `ReadsAnswered`: with `~DiskErrors`, `Spec => []AnswersHeld`. A read
looks at RAM, the block map, `.bin` and the base at different moments, so the invariant `ReadsHeld` says,
for each stage of a read, what the task knows of the blocks it has yet to answer: which it found in
neither map, which place in `.bin` it was given. `Benign` is all that a step of any other task may do to
that knowledge: a block enters RAM, a place of `.bin` that was `Settled` stays. `Filled`
says that a job whose blocks are being mapped is in the file already: this is what needs `~DiskErrors`,
for after a failed write the flusher maps all the same.

And it proves `CacheIsDevice`: with `~DiskErrors` and loaded maps that point at data,
`Spec => ImplementsDevice`, the whole refinement. Each action is shown to be a stutter or one action of
`BlockDevice` under the mapping of `ClientCache` (`Stutters`, `Submits`, `Applies`, `Acknowledges`,
`ReadSubmits`, `AnswersRead`, `Retires`), over the invariants above and `Framed`, by which a
reader's window and buffer are empty outside the blocks it is reading. A block's value on the abstract disk changes at `InsertRam` and nowhere else.

Its last theorem is `DiskHoldsRam`: with `~Overlap`, and with `~DiskErrors` or a file that was blank beyond its
loaded map (`BlankTail`), `Spec => []TiersAgree`. `TiersAgree` speaks of the moments when nothing is in
flight; the invariant `LastsHold` says of every block at every moment which job is the last to carry it - a
write task that has put it into RAM, a position of the queue, the flusher's job - and that this job carries
what RAM holds; a block no job carries is held by the file. `OneEach` keeps the tasks that have the same block in
hand to one, so queue order is RAM order. `Landed` and `Blank` are the file's side: a failed write leaves a
prefix, and after it what was there before, which is nothing, because no job had that place (`Settled`).

`VhdBackendProofs` proves, for any number of VHD blocks, units per block, values, readers and writers,
with failures and restarts:

- `BlocksAllocated == Spec => []AllocatedBeforeData`, for commands of any length. Needed beside the
  invariant: a task that holds the shared lock found every block of its extent allocated, one that
  holds the exclusive lock has allocated those before its cursor, and no entry is ever taken back but
  by a restart, which ends all tasks (`Types`, `Allocated`).
- `PlacesExclusive == Spec => []SlotsExclusive` and `RestartFindsDisk == Spec => []DiskMatchesMemory`,
  for commands of at most two VHD blocks (`MaxSpan <= 2`; `vhd_span3` shows that three are too many).
  The invariant `Saved` joins the lock discipline (`Locked`), the walk of an allocating task
  (`Walking`), no place given twice in memory (`Injective(bat)`), the saved table a part of the one in
  memory (`Subset`), the allocated blocks of a command being consecutive (`Consecutive`, the step that
  needs two blocks at most: only then is the slot an entry is written to its own, `OwnSlot`), and
  every unsaved place holding nothing but a copy of the parent while its writer is alive (`Unsaved`).
  The arithmetic of units and blocks is a handful of lemmas (`DivMod`, `BlockOfUnit`, `JobBlocks`...).
- `TypeCorrect == Spec => []TypeOK`, with nothing assumed. A read takes whole chunks or whole VHD blocks, so
  that its position stays in its extent rests on `PieceTaken`: from the front of a piece, the units that
  are left of it in the extent are the next ones, as many as they are. `ReadsAt` says a read is always at
  such a front, `Bounded` how far a write's position and its list of entries reach.
- `ReadsAnswered`: `Spec => []AnswersHeld`, for `MaxSpan <= 2` or no restart (else a restart may load a table in
  which two blocks share a place), and for an image without a read-ahead cache or an initiator that keeps reads
  and writes of one chunk apart (`ChunkQuiet`, the bound of the run). `AllocKeeps` and `DataChanges`
  say what a unit holds after each step: allocating changes nothing, writing the data of one block changes
  the job's units in it and no other. The invariant `Held` says that the window of a read has what its
  units hold now (`Windows`) and what it has taken (`Filled`); for the cache, that what is in it and what a
  loader is about to put there is what the file holds (`Fresh`, `Loading`), which stands because a write has
  dropped its chunks before it writes (`Dropped`) and no read is in them meanwhile (`Split`).
- `ImageIsDevice`: `Spec => ImplementsDevice` with `MaxRestarts = 0` and `~IoErrors`, under the same condition on the
  initiator, for commands of any length: a failed write and a restart are no steps of a plain disk, which
  applies a write before it leaves. The disk changes at `WriteData` and nowhere else; each of
  its steps applies a part of the write that is never empty (`BlocksOfJob`), and at the
  acknowledgement nothing is left.

`CacheFilesProofs` proves the type invariant and all three invariants of `session_files` for any finite number of sessions and
any number of crashes: `TypeCorrect`, `AccountsKept`, `DiskFresh`, `FilesGone`. The counters are
compared with cardinalities of sets of sessions (`CountMove`: one session moves, one count changes by
one). `FileInv` is the strengthening for the files: what a map lists and what is open, given who is
between which two steps of a drop.

`ImageStoreProofs` proves the type invariant with nothing assumed of the operator, and every property of
`image_commands` from just what the operator must keep to, for any image, number of diskless clients,
commands, backups and super VHDs, with commands that stop anywhere:

- `BackupsKept` (`OneAtATime`). The invariant `Intact` adds to the property that what a backup holds lies
  below its end of file: then a merge, which with nobody else appending writes at the end of the file
  (`Alone`), only lets the file grow (`BaseGrows`, `GrownShows`), and a truncation that marks no backup
  cuts nothing of it (`CutShows`).
- `SessionsKept` (`OneAtATime`, `RestoreOffline`), by the same two lemmas: the only step that cuts the
  file finds no client (`RestoresAlone`).
- `CommandsLand` and `CommitKept` (`OneAtATime`, `SuperOff`). `Landing` follows a command: its table, with
  the blocks not yet copied taken from the super VHD, shows the image it is to produce; the entries put so
  far are that table's; and a merge's table is the base's wherever the super VHD has nothing, which is why
  a commit that stops among the entries can be run again. `Still` says that the super VHD the merge has
  open is the one deleted at the end.

`TftpProofs` proves the type invariant and, under `NoWholeRound`, `PrefixReceived` and `WholeDelivered`: a
file shorter than a round of block numbers (65536 in the code) arrives right after any number of faults,
a longer one after fewer faults than a round has numbers. The hypothesis is the weakest of its form: with as
many faults as numbers, TLC finds an acknowledgement kept back for a whole round. The invariant `Whole` says
how far behind a packet can be: each swap or copy that keeps an old packet alive costs a fault (`Fresh`), so a
packet is less than a round behind and its number tells its block (`SameNumber`); what the server waits for
is the block the client has or the next one (`Partner`); and a transfer the client does not keep to never gets
beyond its first block (`Stranger`).

`NetbootProofs` proves, for any cards, pool, first file and number of writes:

- `RepairHeals`, what the repair of duplicate addresses makes of any `clients.toml`: the same cards in
  the same order; a client moves only if one above it in the result has its address; no address twice
  if the pool has room for all; a file without duplicates as it was. The repair goes through the file
  client by client, and a statement about all its lengths is proved from a least counterexample
  (`LeastNat`, from the well-foundedness of the numbers): `PassesExist` that the recursion defines a
  function, `RepairPasses` that each pass keeps `Repaired`, one client more being `RepairStep`, where
  the pool is not used up by fewer addresses than it has (`PoolLasts`).
- `TypeCorrect == Spec => []TypeOK`. `Well` has one part for the variables of each actor; beyond the
  types it says that a packet being handled carries an address, which the append writes into the file,
  and that DHCP has no watcher before its first start. It needs `RepairHeals` for what the repair writes.
- `TableSynced`: with `QuietStart`, `Spec => []SyncedTable`. `Follows` adds to the property what holds
  while the watcher has not yet looked and while it holds a snapshot; only writes disturb it, and they
  make themselves seen.

`ExchangeProofs` proves, for any window, limits, commands and modulus of the counters, `TypeCorrect` and

- `NothingLost == Spec => []AllAnswered`. `AllHeld` follows each command: it is asked for by a request
  on its way, in a task, bound for the writer in the channel or in its hand, owed by a PDU on its way
  back, answered, or without data to return. Each queue has a lemma for what an append keeps and what
  taking its head may lose (`RequestTaken`, `MessageTaken`, `ReplyTaken`).
- `ResponsesCounted == Spec => []StatusCounted`. `Numbered` adds the target's side: its `stat_sn` is what
  the initiator expects plus the responses on the wire. The count is the cardinality of a set of
  positions, so a queue has a lemma for one more at its end and one less at its head (`BeforeAppend`,
  `BeforeTail`), and the sum modulo the wrap one of its own (`ModAdd`, `NextStat`).
- `AnsweredWhole == Spec => []AnswersWhole`. `LoggedIn` says when the two sides agree on the limit: from the
  last login response on, and no command is sent before. `OnePlace` counts the places of a command
  (`Places`): it is answered once, and while the writer has its message in hand nothing else is owed to it.
  `Ordered` follows its segments over the wire: `Reached` says how many were put there before a position and
  where they end, whether they arrived or are on the way, and the writer's cursor, the segments, the
  response behind them and what the initiator has taken all meet where it says.
- `WindowKept == Spec => [](Filled => WindowAdvances)`, and `NumbersRise` for its first half, which needs
  no hypothesis. `Filled` says that no command so far had data of length 0, which no PDU answers: the
  initiator is then not told of the window that command opened (section 4), and enough of them close it.
  Serial order is no order on numbers modulo the wrap. `Rising` counts every number from the CmdSN the
  initiator started with (`Distances`); so many commands and the window are less than half the way round,
  so that there the serial order is the integers' (`DistanceIs`). `AtDoor` relates the reader loop's two
  numbers, between their stores too; `InTurn` says that what is sent and not yet counted is on its way, in
  order, but for the CmdSN that is never counted, so that ExpCmdSN falls at most one behind (`CountedInTurn`);
  `OnWire` that the PDUs rise up to what the writer task has loaded; `CatchingUp` that somebody still has the
  last MaxCmdSN to tell the initiator.

`SessionProofs` proves, for any tags, number of commands, length of writes and capacity of the channel,
`TypeCorrect == Spec => []TypeOK` and `AnsweredOnce == Spec => []NoStrayAnswer`. `Places` is the inductive
invariant: a command is on its way to the target (`Asked`), waits for Data-Out under its own tag
(`Waits`), is in a task (`Busy`), or has its answer in the channel (`Bound`) or on its way back (`Due`);
it is in one of these places at most, once, and in none when it is over, unless it was aborted: an
aborted command goes on. `NoStrayAnswer` looks at the last two places only, and says nothing of the
steps before them, so it is not inductive.

With `~Unsolicited` it also proves `SentIsStored == Spec => []StoredIsSent`. The invariant `Flows` follows a
write's data from the initiator to the buffer. `Inviting`: there is one R2T of a command at most, from the
reader's hand to the initiator, it asks for what the immediate data left, and no burst starts without it.
`Fed`: the units of a waiting write that are sent and not yet in its buffer are on the connection, and
whatever is on the connection or still to be sent has a write that waits for it. `Sorted`: the connection keeps
the order of commands, of a command's units, and of a unit and the next command of its tag. So a new command
that finds its tag pending takes nothing from a write that still has data to come (`Asking`), and the unit
that ends a write finds all the others in the buffer.

Only model-checked: the liveness properties, which depend on fairness and ENABLED and are out of the proof
system's reach. Every invariant a run checks is a theorem; `RepairHeals` is the part of `DuplicatesHealed`
that is not about time.

## 6. What is not modelled, and the plan

Not modelled: the layout of PDUs and of SCSI pages, DHCP options and HTTP (pure conversions); VHD headers and footers;
write throttling and delays; statistics; the Windows helper and boot files (other programs); raw disks
(a file without a table). The disks a reload of the configuration opens or drops are not in `Netboot`,
which reduces the configuration to `dhcp.enabled`.
A packet delayed by a whole round of block numbers is taken for a fresh one, by the code and by `Tftp`: the
bounds and the theorems stay below the faults that takes.

What is left of the plan:

1. Two backends over one super VHD (a super client that reconnects), composed from `VhdBackend`.
2. The reload of the disk list against sessions that hold a backend.

The type invariants of `ClientCache`, `CacheFiles` and `Exchange` are proved for all instances, so no run
checks them. To keep one run per question, the questions of the runs above that a stronger one comes to answer are
folded into it.
