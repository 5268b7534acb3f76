------------------------------ MODULE CacheFiles ------------------------------
(***************************************************************************)
(* The life of one client's sessions around their write-back files: accept *)
(* and accounting (server.rs, stats.rs), the start and the end of a session*)
(* (session/mod.rs), the opening of .bin and .map in ClientCache::new and  *)
(* their removal in its Drop (writeback_gamedisk.rs), and the clearing of  *)
(* files through the web API (api/routes_disk.rs).                         *)
(*                                                                         *)
(* Sessions of one client for one LUN share the names of the two files (in *)
(* one write-back directory; another one has names of its own).  A file    *)
(* outlives its name while a handle is open.  A map, written in one step,  *)
(* is known by the sessions whose blocks it lists and the file their       *)
(* offsets are for.  The server may crash at any step.                     *)
(***************************************************************************)
EXTENDS Integers, FiniteSets

CONSTANTS
  Sessions,     (* Connections of the client, in any order and overlapping.*)
  Earlier,      (* A session of an earlier life of the server.             *)
  MaxCrashes,   (* Bound: crashes.                                         *)
  Absent        (* No file of that name.                                   *)

ASSUME CacheFilesAssumption ==
  /\ IsFiniteSet(Sessions) /\ Earlier \notin Sessions
  /\ MaxCrashes \in Nat

VARIABLES
  pc,           (* Where each session is.                                  *)
  active,       (* ServerStats.active_sessions.                            *)
  online,       (* active_sessions of the client's own statistics.         *)
  bin, map,     (* What the two names refer to: a file, named for the      *)
                (* session that created it; a map.                         *)
  loaded,       (* Each cache: the sessions whose blocks it loaded ...     *)
  wrote,        (* ... and whether it flushed a block of its own.          *)
  handle,       (* Each cache: the file it writes.                         *)
  crashes,
  excused,      (* History: sessions that read the map while another was   *)
                (* dropping its cache, or after a crash inside such a drop.*)
  dropCut,      (* History: a crash hit the drop of a cache.               *)
  cleaned       (* History: a cache was dropped since the last crash.      *)

countVars == <<active, online>>
fileVars  == <<bin, map>>
cacheVars == <<loaded, wrote, handle>>
histVars  == <<crashes, excused, dropCut, cleaned>>
vars == <<pc, countVars, fileVars, cacheVars, histVars>>

Files == Sessions \cup {Earlier}
Maps  == [owners : SUBSET Files, file : Files, current : BOOLEAN]
OldMap == [owners |-> {Earlier}, file |-> Earlier, current |-> FALSE]

Dropping == {"save", "unlinkBin", "unlinkMap"}

(* What an earlier crash or release left: a .bin, a .map of another        *)
(* version, or neither.                                                    *)
Init ==
  /\ pc = [s \in Sessions |-> "new"]
  /\ active = 0 /\ online = 0
  /\ bin \in {Absent, Earlier} /\ map \in {Absent, OldMap}
  /\ loaded = [s \in Sessions |-> {}]
  /\ wrote = [s \in Sessions |-> FALSE] /\ handle = [s \in Sessions |-> Absent]
  /\ crashes = 0 /\ excused = {} /\ dropCut = FALSE /\ cleaned = FALSE

(* The caches of sessions that are over. *)
Forget(over) ==
  /\ loaded' = [s \in Sessions |-> IF s \in over THEN {} ELSE loaded[s]]
  /\ wrote' = [s \in Sessions |-> s \notin over /\ wrote[s]]
  /\ handle' = [s \in Sessions |-> IF s \in over THEN Absent ELSE handle[s]]
  /\ excused' = excused \ over

Goto(s, from, to) == pc[s] = from /\ pc' = [pc EXCEPT ![s] = to]

-----------------------------------------------------------------------------
(* Start of a session *)

Accept(s) ==
  /\ Goto(s, "new", "login")
  /\ active' = active + 1
  /\ UNCHANGED <<online, fileVars, cacheVars, histVars>>

(* A failed login returns before there is a context: nobody counts down.   *)
LoginFails(s) ==
  /\ Goto(s, "login", "noLogin")
  /\ UNCHANGED <<countVars, fileVars, cacheVars, histVars>>

LoginDone(s) ==
  /\ Goto(s, "login", "init")
  /\ online' = online + 1
  /\ UNCHANGED <<active, fileVars, cacheVars, histVars>>

(* An unknown target, or a disk that cannot be opened: an early return.    *)
InitFails(s) ==
  /\ Goto(s, "init", "noInit")
  /\ UNCHANGED <<countVars, fileVars, cacheVars, histVars>>

(* Discovery sessions and the super client have no cache. *)
InitBare(s) ==
  /\ Goto(s, "init", "bare")
  /\ UNCHANGED <<countVars, fileVars, cacheVars, histVars>>

(* A definition named Mut... is a variant of the one after it with a       *)
(* plausible bug; the specification never uses it.                         *)
MutLoadMap(s) ==
  /\ Goto(s, "init", "open")
  /\ \/ /\ bin = Absent \/ map = Absent
        /\ UNCHANGED <<fileVars, loaded>>
     \/ /\ bin # Absent /\ map # Absent /\ map.file # bin
        /\ bin' = Absent /\ map' = Absent /\ UNCHANGED loaded
     \/ /\ bin # Absent /\ map # Absent              \* its version not compared
        /\ loaded' = [loaded EXCEPT ![s] = map.owners]
        /\ UNCHANGED fileVars
  /\ excused' = IF dropCut \/ \E o \in Sessions : pc[o] \in Dropping
                THEN excused \cup {s} ELSE excused
  /\ UNCHANGED <<countVars, wrote, handle, crashes, dropCut, cleaned>>

(* ClientCache::new reads a map only beside a .bin.  Of another version, or*)
(* reaching beyond the .bin, as one saved for another file may, it is      *)
(* removed together with the .bin.                                         *)
LoadMap(s) ==
  /\ Goto(s, "init", "open")
  /\ \/ /\ bin = Absent \/ map = Absent
        /\ UNCHANGED <<fileVars, loaded>>
     \/ /\ bin # Absent /\ map # Absent
        /\ ~map.current \/ map.file # bin
        /\ bin' = Absent /\ map' = Absent /\ UNCHANGED loaded
     \/ /\ bin # Absent /\ map # Absent /\ map.current
        /\ loaded' = [loaded EXCEPT ![s] = map.owners]
        /\ UNCHANGED fileVars
  /\ excused' = IF dropCut \/ \E o \in Sessions : pc[o] \in Dropping
                THEN excused \cup {s} ELSE excused
  /\ UNCHANGED <<countVars, wrote, handle, crashes, dropCut, cleaned>>

(* The .bin is opened for writing, and created if the name is free ... *)
OpenWrite(s) ==
  /\ Goto(s, "open", "openRead")
  /\ bin' = IF bin = Absent THEN s ELSE bin
  /\ handle' = [handle EXCEPT ![s] = bin']
  /\ UNCHANGED <<countVars, map, loaded, wrote, histVars>>

(* ... and then for reading, by name once more: another session's drop, or *)
(* the web API, may have taken the name away, which ends this session.     *)
OpenRead(s) ==
  /\ \/ /\ bin = Absent /\ Goto(s, "openRead", "noInit")
        /\ Forget({s}) /\ UNCHANGED <<crashes, dropCut, cleaned>>
     \/ /\ bin # Absent /\ Goto(s, "openRead", "up")
        /\ UNCHANGED <<cacheVars, histVars>>
  /\ UNCHANGED <<countVars, fileVars>>

(* The flusher publishes a block of the session. *)
Flush(s) ==
  /\ pc[s] = "up"
  /\ wrote' = [wrote EXCEPT ![s] = TRUE]
  /\ UNCHANGED <<pc, countVars, fileVars, loaded, handle, histVars>>

-----------------------------------------------------------------------------
(* End of a session *)

MutEndContext(s) ==
  /\ \/ Goto(s, "up", "save")
        /\ active' = active - 1 /\ online' = online - 1
     \/ Goto(s, "bare", "gone")                    \* counted down with the cache only
        /\ UNCHANGED countVars
  /\ UNCHANGED <<fileVars, cacheVars, histVars>>

(* The last reference to the context goes: both counters go down; only     *)
(* then can the last reference to the cache go.                            *)
EndContext(s) ==
  /\ \/ Goto(s, "up", "save")
     \/ Goto(s, "bare", "gone")
  /\ active' = active - 1 /\ online' = online - 1
  /\ UNCHANGED <<fileVars, cacheVars, histVars>>

(* The drop of the cache: the map is saved, then both names are removed.   *)
SaveMap(s) ==
  /\ Goto(s, "save", "unlinkBin")
  /\ map' = [owners |-> loaded[s] \cup (IF wrote[s] THEN {s} ELSE {}), file |-> handle[s],
             current |-> TRUE]
  /\ UNCHANGED <<countVars, bin, cacheVars, histVars>>

UnlinkBin(s) ==
  /\ Goto(s, "unlinkBin", "unlinkMap")
  /\ bin' = Absent
  /\ UNCHANGED <<countVars, map, cacheVars, histVars>>

MutUnlinkMap(s) ==
  /\ Goto(s, "unlinkMap", "gone")                   \* the map stays
  /\ Forget({s}) /\ cleaned' = TRUE
  /\ UNCHANGED <<countVars, fileVars, crashes, dropCut>>

UnlinkMap(s) ==
  /\ Goto(s, "unlinkMap", "gone")
  /\ map' = Absent
  /\ Forget({s}) /\ cleaned' = TRUE
  /\ UNCHANGED <<countVars, bin, crashes, dropCut>>

-----------------------------------------------------------------------------
(* The administrator clears a listed file. *)
ClearFile ==
  /\ \/ bin # Absent /\ bin' = Absent /\ UNCHANGED map
     \/ map # Absent /\ map' = Absent /\ UNCHANGED bin
  /\ UNCHANGED <<pc, countVars, cacheVars, histVars>>

(* The process ends at any step and is started again. *)
Crash ==
  /\ crashes < MaxCrashes
  /\ crashes' = crashes + 1
  /\ dropCut' = (dropCut \/ \E s \in Sessions : pc[s] \in Dropping)
  /\ pc' = [s \in Sessions |-> IF pc[s] = "new" THEN "new" ELSE "lost"]
  /\ active' = 0 /\ online' = 0 /\ cleaned' = FALSE
  /\ Forget(Sessions)
  /\ UNCHANGED fileVars

Next ==
  \/ ClearFile \/ Crash
  \/ \E s \in Sessions :
       \/ Accept(s) \/ LoginFails(s) \/ LoginDone(s) \/ InitFails(s) \/ InitBare(s)
       \/ LoadMap(s) \/ OpenWrite(s) \/ OpenRead(s) \/ EndContext(s)
       \/ SaveMap(s) \/ UnlinkBin(s) \/ UnlinkMap(s) \/ Flush(s)

Spec == Init /\ [][Next]_vars

-----------------------------------------------------------------------------
(* Properties *)

PCs == {"new", "login", "noLogin", "init", "noInit", "bare", "open", "openRead", "up", "save",
        "unlinkBin", "unlinkMap", "gone", "lost"}

TypeOK ==
  /\ pc \in [Sessions -> PCs] /\ active \in Nat /\ online \in Nat
  /\ bin \in Files \cup {Absent} /\ map \in Maps \cup {Absent}
  /\ loaded \in [Sessions -> SUBSET Files]
  /\ wrote \in [Sessions -> BOOLEAN]
  /\ handle \in [Sessions -> Files \cup {Absent}]
  /\ crashes \in 0 .. MaxCrashes /\ excused \subseteq Sessions
  /\ dropCut \in BOOLEAN /\ cleaned \in BOOLEAN

(* A diskless session starts from the image: its cache loads no block that *)
(* another session left, whatever sessions overlap and wherever the server *)
(* crashes - except that it read the map while another was dropping its    *)
(* cache, or that a crash has cut such a drop short.                       *)
FreshDisk == \A s \in Sessions : loaded[s] # {} => s \in excused

(* When the client's sessions have all ended and one of them since the last*)
(* start had a cache, no file of theirs is left.                           *)
Settled == \A s \in Sessions : pc[s] \in {"new", "noLogin", "noInit", "gone", "lost"}
NothingLeft == Settled /\ cleaned => bin = Absent /\ map = Absent

(* The counters count the sessions that run and those that returned before *)
(* they had a context, neither less nor below zero, however sessions       *)
(* overlap.                                                                *)
In(places) == Cardinality({s \in Sessions : pc[s] \in places})
AccountsExact ==
  /\ active = In({"login", "init", "open", "openRead", "up", "bare", "noLogin", "noInit"})
  /\ online = In({"init", "open", "openRead", "up", "bare", "noInit"})
=============================================================================
