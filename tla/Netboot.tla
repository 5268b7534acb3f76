------------------------------- MODULE Netboot --------------------------------
(***************************************************************************)
(* The diskless boot services and the two files that steer them: the       *)
(* configuration watcher (config_manager.rs), the repair of duplicate      *)
(* addresses and the appending of clients (config.rs), the supervisor that *)
(* starts and stops DHCP and TFTP (netboot/mod.rs), and the DHCP server    *)
(* with its client table and its own watcher (netboot/dhcp.rs).            *)
(*                                                                         *)
(* config.toml is "on" or "off" (dhcp.enabled), or "none": without a dhcp  *)
(* section, which is also what a file read while it is being written       *)
(* parses to.  An mtime is the question it is asked: whether an observer   *)
(* has yet to see a write.  Addresses are numbers; the pool is             *)
(* 1 .. PoolEnd and the DHCP counter starts at 1.                          *)
(***************************************************************************)
EXTENDS Integers, Sequences, FiniteSets, SequencesExt

CONSTANTS
  Macs,         (* Network cards.                                          *)
  PoolEnd,      (* dhcp.end_ip.                                            *)
  MaxIp,        (* Bound: the DHCP counter hands out no more than these.   *)
  FirstFiles,   (* What clients.toml may hold when the server starts; a    *)
                (* card that is there twice stops the start.               *)
  MaxWrites,    (* Bound: times the administrator writes either file.      *)
  QuietStart,   (* Whether both files rest while a watcher of them starts. *)
  NoFile        (* No snapshot of clients.toml is held.                    *)

Ips  == 1 .. MaxIp
(* A definition named Mut... is a variant of the one after it with a       *)
(* plausible bug; the specification never uses it.                         *)
MutPool == 1 .. PoolEnd + 1                        \* one beyond the pool

Pool == 1 .. PoolEnd
None == 0
Client == [mac : Macs, ip : Ips]

Entries(s) == {s[i] : i \in DOMAIN s}
Holds(s, m) == \E i \in DOMAIN s : s[i].mac = m
MacsDistinct(s) == \A i, j \in DOMAIN s : s[i].mac = s[j].mac => i = j
IpsDistinct(s)  == \A i, j \in DOMAIN s : s[i].ip = s[j].ip => i = j

ASSUME NetbootAssumption ==
  /\ Macs # {} /\ PoolEnd \in Nat \ {0} /\ MaxIp \in Nat /\ PoolEnd <= MaxIp
  /\ FirstFiles \subseteq {s \in Seq(Client) : MacsDistinct(s)}
  /\ MaxWrites \in Nat /\ QuietStart \in BOOLEAN
  /\ NoFile \notin Seq(Client)

MutRepair(acc, c) ==
  LET free == Pool \ {c.ip}                         \* only its own address avoided
      ip   == IF c.ip \notin acc.seen \/ free = {} THEN c.ip
              ELSE CHOOSE i \in free : \A j \in free : i <= j
  IN [seen |-> acc.seen \cup {ip}, out |-> Append(acc.out, [c EXCEPT !.ip = ip])]

(* The repair of duplicate addresses, one client at a time: the first      *)
(* holder keeps one, a later one gets the lowest of the pool that no entry *)
(* before it has, or keeps it when there is none.                          *)
Repair(acc, c) ==
  LET free == Pool \ acc.seen
      ip   == IF c.ip \notin acc.seen \/ free = {} THEN c.ip
              ELSE CHOOSE i \in free : \A j \in free : i <= j
  IN [seen |-> acc.seen \cup {ip}, out |-> Append(acc.out, [c EXCEPT !.ip = ip])]
AutoFix(s) ==
  LET fixed[i \in 0 .. Len(s)] ==
        IF i = 0 THEN [seen |-> {}, out |-> << >>] ELSE Repair(fixed[i - 1], s[i])
  IN fixed[Len(s)].out

VARIABLES
  config, filling,    (* config.toml, and what a write of it has yet to put*)
                      (* into the truncated file ("" for no write).        *)
  writes,             (* The administrator's writes.                       *)
  clients,            (* clients.toml: its entries in order.               *)
  autoAdd,            (* dhcp.auto_add_client.                             *)
  unseen,             (* The observers that have yet to see a write:       *)
                      (* "config", "clients" (the configuration watcher),  *)
                      (* "dhcp" (the DHCP server's own).                   *)
  conf, torn,         (* The shared configuration; whether it was ever     *)
                      (* loaded from a half-written file.                  *)
  wpc, wsnap,         (* Configuration watcher, and what it read to repair.*)
  adminSnap,          (* The administrator's copy of the clients.          *)
  spc, enabled,       (* Supervisor: "idle", "startDhcp", "startTftp",     *)
                      (* "stop", "dead"; currently_enabled.                *)
  dhcp, tftp,         (* The tasks: "none", "up", "gone".                  *)
  table, nextIp,      (* DHCP: address by card, and next_ip.               *)
  dwpc, dsnap,        (* DHCP's watcher of clients.toml.                   *)
  packet              (* The packet being handled.                         *)

adminVars  == <<writes, adminSnap>>
fileVars   == <<config, filling, clients, autoAdd, unseen>>
watchVars  == <<conf, torn, wpc, wsnap>>
superVars  == <<spc, enabled, dhcp, tftp>>
tableVars  == <<table, nextIp>>
dwatchVars == <<dwpc, dsnap>>
vars == <<adminVars, fileVars, watchVars, superVars, tableVars, dwatchVars, packet>>

NoPacket == [mac |-> CHOOSE m \in Macs : TRUE, ip |-> None, step |-> "none"]

Init ==
  /\ config \in {"on", "off"} /\ filling = "" /\ writes = 0
  /\ clients \in {AutoFix(s) : s \in FirstFiles} /\ autoAdd \in BOOLEAN
  /\ unseen = {}
  /\ conf = config /\ torn = FALSE
  /\ wpc = "starting" /\ wsnap = NoFile /\ adminSnap = NoFile
  /\ spc = "idle" /\ enabled = FALSE /\ dhcp = "none" /\ tftp = "none"
  /\ table = << >> /\ nextIp = 1
  /\ dwpc = "none" /\ dsnap = NoFile
  /\ packet = NoPacket

(* A write of clients.toml, unseen by both of its watchers. *)
WriteClients(s) ==
  /\ QuietStart => "starting" \notin {wpc, dwpc}
  /\ clients' = s /\ unseen' = unseen \cup {"clients", "dhcp"}
  /\ UNCHANGED <<config, filling, autoAdd>>

-----------------------------------------------------------------------------
(* The administrator, through the web API *)

(* fs::write truncates config.toml and then fills it. *)
TruncateConfig(new) ==
  /\ writes < MaxWrites /\ filling = ""
  /\ QuietStart => wpc # "starting"
  /\ writes' = writes + 1
  /\ config' = "none" /\ filling' = new
  /\ unseen' = unseen \cup {"config"}
  /\ UNCHANGED <<clients, autoAdd, adminSnap, watchVars, superVars, tableVars,
                 dwatchVars, packet>>

FillConfig ==
  /\ filling # ""
  /\ config' = filling /\ filling' = ""
  /\ unseen' = unseen \cup {"config"}
  /\ UNCHANGED <<clients, autoAdd, adminVars, watchVars, superVars, tableVars, dwatchVars,
                 packet>>

(* The page loads the clients; what it saves replaces the file, whatever   *)
(* was appended meanwhile.                                                 *)
AdminLoads ==
  /\ writes < MaxWrites /\ adminSnap = NoFile
  /\ adminSnap' = clients /\ writes' = writes + 1
  /\ UNCHANGED <<fileVars, watchVars, superVars, tableVars, dwatchVars,
                 packet>>

Moved(s, i, a) == [s EXCEPT ![i].ip = a]

(* A client deleted or moved to another address, or the list as loaded,    *)
(* repaired or not.                                                        *)
Edited(s) ==
  {s} \cup {RemoveAt(s, i) : i \in DOMAIN s}
  \cup {Moved(s, i, a) : i \in DOMAIN s, a \in Pool}
  \cup (IF conf = "none" THEN {} ELSE {AutoFix(s)})

AdminSaves ==
  /\ adminSnap # NoFile
  /\ \E s \in Edited(adminSnap) : WriteClients(s)
  /\ adminSnap' = NoFile
  /\ UNCHANGED <<writes, watchVars, superVars, tableVars, dwatchVars, packet>>

-----------------------------------------------------------------------------
(* The configuration watcher *)

(* The watcher starts after the services and the disks: what was written   *)
(* before its first look it never sees.                                    *)
WatchFirstStat ==
  /\ wpc = "starting"
  /\ wpc' = "idle" /\ unseen' = unseen \ {"config", "clients"}
  /\ UNCHANGED <<adminVars, config, filling, clients, autoAdd, conf, torn, wsnap, superVars,
                 tableVars, dwatchVars, packet>>

(* Every five seconds the mtimes are taken, and what they say is done with *)
(* even if the reload fails.                                               *)
WatchStat ==
  /\ wpc = "idle" /\ unseen \cap {"config", "clients"} # {}
  /\ unseen' = unseen \ {"config", "clients"}
  /\ wpc' = "fix"
  /\ UNCHANGED <<adminVars, config, filling, clients, autoAdd, conf, torn, wsnap, superVars,
                 tableVars, dwatchVars, packet>>

MutWatchFixRead ==
  /\ wpc = "fix"
  /\ IF conf # "none" /\ ~IpsDistinct(clients)
     THEN wsnap' = clients /\ wpc' = "write"
     ELSE /\ wpc' = IF conf = "none" THEN "idle" ELSE "load"   \* load nested in the "if let"
          /\ UNCHANGED wsnap
  /\ UNCHANGED <<adminVars, fileVars, conf, torn, superVars, tableVars, dwatchVars, packet>>

(* The repair, if the configuration still in force has a dhcp section:     *)
(* nothing is written when no address is there twice.                      *)
WatchFixRead ==
  /\ wpc = "fix"
  /\ IF conf # "none" /\ ~IpsDistinct(clients)
     THEN wsnap' = clients /\ wpc' = "write"
     ELSE wpc' = "load" /\ UNCHANGED wsnap
  /\ UNCHANGED <<adminVars, fileVars, conf, torn, superVars, tableVars, dwatchVars, packet>>

WatchFixWrite ==
  /\ wpc = "write"
  /\ WriteClients(AutoFix(wsnap))
  /\ wsnap' = NoFile /\ wpc' = "load"
  /\ UNCHANGED <<adminVars, conf, torn, superVars, tableVars, dwatchVars, packet>>

WatchLoad ==
  /\ wpc = "load"
  /\ conf' = config /\ torn' = (torn \/ config = "none")
  /\ wpc' = "idle"
  /\ UNCHANGED <<adminVars, fileVars, wsnap, superVars, tableVars, dwatchVars, packet>>

-----------------------------------------------------------------------------
(* The supervisor *)

Wanted == conf = "on"

SuperTick ==
  /\ spc = "idle" /\ Wanted # enabled
  /\ spc' = IF Wanted THEN "startDhcp" ELSE "stop"
  /\ UNCHANGED <<adminVars, fileVars, watchVars, enabled, dhcp, tftp,
                 tableVars, dwatchVars, packet>>

(* DhcpServer::new reads the configuration again and unwraps its dhcp      *)
(* section: without one the supervisor itself dies.  A port in use is only *)
(* logged.  Otherwise the table is loaded (empty, if the file is refused), *)
(* and the server's own watcher is spawned, which keeps the server alive.  *)
Port67InUse == dhcp # "none"

Addresses(s) == [m \in {c.mac : c \in Entries(s)} |-> (CHOOSE c \in Entries(s) : c.mac = m).ip]
Loaded(s) == Addresses(IF MacsDistinct(s) THEN s ELSE << >>)

StartDhcp ==
  /\ spc = "startDhcp"
  /\ \/ /\ Port67InUse
        /\ spc' = "startTftp" /\ UNCHANGED <<dhcp, tableVars, dwpc>>
     \/ /\ ~Port67InUse /\ conf = "none"
        /\ spc' = "dead" /\ UNCHANGED <<dhcp, tableVars, dwpc>>
     \/ /\ ~Port67InUse /\ conf # "none"
        /\ table' = Loaded(clients) /\ nextIp' = 1
        /\ dhcp' = "up" /\ dwpc' = "starting" /\ spc' = "startTftp"
  /\ UNCHANGED <<adminVars, fileVars, watchVars, enabled, tftp, dsnap, packet>>

(* TftpServer::new fails to bind port 69 if a transfer of an earlier       *)
(* server still holds it (Tftp); run unwraps the dhcp section before it    *)
(* serves.                                                                 *)
StartTftp ==
  /\ spc = "startTftp"
  /\ \/ tftp' = IF conf = "none" THEN "gone" ELSE "up"
     \/ tftp = "gone" /\ UNCHANGED tftp
  /\ enabled' = TRUE /\ spc' = "idle"
  /\ UNCHANGED <<adminVars, fileVars, watchVars, dhcp, tableVars, dwatchVars, packet>>

MutStop ==
  /\ spc = "stop" /\ packet.step \notin {"append", "appendWrite"}
  /\ dhcp' = IF dhcp = "up" THEN "gone" ELSE dhcp
  /\ packet' = NoPacket
  /\ enabled' = FALSE /\ spc' = "idle"
  /\ UNCHANGED <<adminVars, fileVars, watchVars, tftp, tableVars, dwatchVars>>   \* TFTP left up

(* Both tasks are aborted and awaited; a packet being appended is finished *)
(* first.  The DHCP socket stays open: its watcher still owns the server.  *)
Stop ==
  /\ spc = "stop" /\ packet.step \notin {"append", "appendWrite"}
  /\ dhcp' = IF dhcp = "up" THEN "gone" ELSE dhcp
  /\ tftp' = IF tftp = "up" THEN "gone" ELSE tftp
  /\ packet' = NoPacket
  /\ enabled' = FALSE /\ spc' = "idle"
  /\ UNCHANGED <<adminVars, fileVars, watchVars, tableVars, dwatchVars>>

-----------------------------------------------------------------------------
(* The DHCP server *)

(* A packet of a card that is not in the table: it gets the counter's      *)
(* address, whoever else has it, and a place in the table.  The dhcp       *)
(* section is unwrapped on the way, and again before every reply.          *)
Receive(m) ==
  /\ dhcp = "up" /\ packet.step = "none"
  /\ \/ /\ m \in DOMAIN table
        /\ packet' = [mac |-> m, ip |-> table[m], step |-> "reply"]
        /\ UNCHANGED <<table, nextIp, dhcp>>
     \/ /\ m \notin DOMAIN table /\ nextIp < MaxIp /\ nextIp' = nextIp + 1
        /\ IF conf = "none"
           THEN dhcp' = "gone" /\ UNCHANGED <<table, packet>>
           ELSE /\ table' = [n \in DOMAIN table \cup {m} |-> IF n = m THEN nextIp ELSE table[n]]
                /\ packet' = [mac |-> m, ip |-> nextIp,
                              step |-> IF autoAdd THEN "append" ELSE "reply"]
                /\ UNCHANGED dhcp
  /\ UNCHANGED <<adminVars, fileVars, watchVars, spc, enabled, tftp,
                 dwatchVars>>

(* append_client loads the file and refuses a card that is there ...  *)
AppendLoad ==
  /\ packet.step = "append"
  /\ IF ~MacsDistinct(clients) \/ Holds(clients, packet.mac)
     THEN packet' = [packet EXCEPT !.step = "reply"]
     ELSE packet' = [packet EXCEPT !.step = "appendWrite"]
  /\ UNCHANGED <<adminVars, fileVars, watchVars, superVars, tableVars, dwatchVars>>

(* ... and appends to whatever the file is by then. *)
AppendWrite ==
  /\ packet.step = "appendWrite"
  /\ WriteClients(Append(clients, [mac |-> packet.mac, ip |-> packet.ip]))
  /\ packet' = [packet EXCEPT !.step = "reply"]
  /\ UNCHANGED <<adminVars, watchVars, superVars, tableVars, dwatchVars>>

Reply ==
  /\ packet.step = "reply"
  /\ dhcp' = IF conf = "none" THEN "gone" ELSE dhcp
  /\ packet' = NoPacket
  /\ UNCHANGED <<adminVars, fileVars, watchVars, spc, enabled, tftp,
                 tableVars, dwatchVars>>

(* The server's watcher: its first look at the mtime comes after the table *)
(* was loaded, so what was written between them it never sees.             *)
DhcpFirstStat ==
  /\ dwpc = "starting"
  /\ dwpc' = "idle" /\ unseen' = unseen \ {"dhcp"}
  /\ UNCHANGED <<adminVars, config, filling, clients, autoAdd, watchVars, superVars, tableVars,
                 dsnap, packet>>

DhcpStat ==
  /\ dwpc = "idle" /\ "dhcp" \in unseen
  /\ dwpc' = "load" /\ unseen' = unseen \ {"dhcp"}
  /\ UNCHANGED <<adminVars, config, filling, clients, autoAdd, watchVars, superVars, tableVars,
                 dsnap, packet>>

(* A file with a card twice is refused, and the table stays as it is. *)
DhcpLoad ==
  /\ dwpc = "load"
  /\ IF MacsDistinct(clients) THEN dsnap' = clients /\ dwpc' = "swap"
                              ELSE dwpc' = "idle" /\ UNCHANGED dsnap
  /\ UNCHANGED <<adminVars, fileVars, watchVars, superVars, tableVars, packet>>

MutDhcpSwap ==
  /\ dwpc = "swap"
  /\ table' = Addresses(dsnap)
  /\ dsnap' = NoFile /\ dwpc' = "idle"
  /\ unseen' = unseen \ {"dhcp"}                    \* the mtime as of now
  /\ UNCHANGED <<adminVars, config, filling, clients, autoAdd, watchVars, superVars, nextIp,
                 packet>>

DhcpSwap ==
  /\ dwpc = "swap"
  /\ table' = Addresses(dsnap)
  /\ dsnap' = NoFile /\ dwpc' = "idle"
  /\ UNCHANGED <<adminVars, fileVars, watchVars, superVars, nextIp, packet>>

-----------------------------------------------------------------------------
Admin == (\E c \in {"on", "off"} : TruncateConfig(c)) \/ AdminLoads \/ AdminSaves
Watcher == WatchFirstStat \/ WatchStat \/ WatchFixRead \/ WatchFixWrite \/ WatchLoad
Supervisor == SuperTick \/ StartDhcp \/ StartTftp \/ Stop
DhcpWatcher == DhcpFirstStat \/ DhcpStat \/ DhcpLoad \/ DhcpSwap
Handling == AppendLoad \/ AppendWrite \/ Reply

Next ==
  \/ Admin \/ FillConfig \/ Watcher \/ Supervisor \/ DhcpWatcher \/ Handling
  \/ \E m \in Macs : Receive(m)

Spec == Init /\ [][Next]_vars

(* A write begun is finished; timers tick.  Clients and administrators owe  *)
(* nothing.                                                                *)
Fairness ==
  /\ WF_vars(FillConfig) /\ WF_vars(Watcher) /\ WF_vars(Supervisor)
  /\ WF_vars(DhcpWatcher) /\ WF_vars(Handling)

FairSpec == Spec /\ Fairness

-----------------------------------------------------------------------------
(* Properties *)

Snapshots == {NoFile} \cup Seq(Client)

TypeOK ==
  /\ config \in {"on", "off", "none"} /\ filling \in {"", "on", "off"}
  /\ writes \in 0 .. MaxWrites
  /\ clients \in Seq(Client) /\ autoAdd \in BOOLEAN
  /\ unseen \subseteq {"config", "clients", "dhcp"}
  /\ conf \in {"on", "off", "none"} /\ torn \in BOOLEAN
  /\ wpc \in {"starting", "idle", "fix", "write", "load"}
  /\ spc \in {"idle", "startDhcp", "startTftp", "stop", "dead"} /\ enabled \in BOOLEAN
  /\ dhcp \in {"none", "up", "gone"} /\ tftp \in {"none", "up", "gone"}
  /\ DOMAIN table \subseteq Macs /\ (\A m \in DOMAIN table : table[m] \in Ips) /\ nextIp \in Ips
  /\ dwpc \in {"none", "starting", "idle", "load", "swap"}
  /\ packet \in [mac : Macs, ip : {None} \cup Ips,
                 step : {"none", "append", "appendWrite", "reply"}]
  /\ (wsnap = NoFile) = (wpc # "write") /\ (dsnap = NoFile) = (dwpc # "swap")
  /\ \A s \in {wsnap, dsnap, adminSnap} \ {NoFile} : s \in Seq(Client)

Serves(t, s) == \A c \in Entries(s) : c.mac \in DOMAIN t /\ t[c.mac] = c.ip

(* Once the DHCP server has seen the last write of clients.toml, it serves *)
(* every client the address the file gives it, however writes, appends and *)
(* reloads interleaved.                                                    *)
SyncedTable ==
  dwpc = "idle" /\ "dhcp" \notin unseen /\ MacsDistinct(clients) => Serves(table, clients)

(* Whatever was read while config.toml was being written, the shared       *)
(* configuration ends up as the file.                                      *)
ConfigFollowed == <>[](conf = config)

(* Addresses that ended up in clients.toml twice, appended by DHCP or      *)
(* written by the administrator, are repaired for good, if the pool has    *)
(* room for all entries and no half-written configuration came between.    *)
DuplicatesHealed ==
  <>[](IpsDistinct(clients) \/ Len(clients) > PoolEnd \/ torn)

(* Disabling the services in config.toml ends both, unless the supervisor  *)
(* has died.                                                               *)
ServicesStop ==
  <>[](config = "off") => <>[](dhcp # "up" /\ tftp # "up") \/ <>(spc = "dead")

(* With the services enabled, DHCP serves.                                 *)
EnabledServes == spc = "idle" /\ enabled /\ ~torn => dhcp = "up"
=============================================================================
