--------------------------- MODULE CacheFilesProofs ----------------------------
(***************************************************************************)
(* Theorems of CacheFiles for any finite number of sessions and crashes.   *)
(***************************************************************************)
EXTENDS CacheFiles, FiniteSetTheorems, TLAPS

-----------------------------------------------------------------------------
(* Types: all of TypeOK but that the counters do not fall below zero, which *)
(* needs AccountsExact; and a session that has opened its cache has a file.*)

Opened == {"openRead", "up", "save", "unlinkBin", "unlinkMap"}

Types ==
  /\ pc \in [Sessions -> PCs]
  /\ bin \in Files \cup {Absent} /\ map \in Maps \cup {Absent}
  /\ loaded \in [Sessions -> SUBSET Files]
  /\ wrote \in [Sessions -> BOOLEAN]
  /\ handle \in [Sessions -> Files \cup {Absent}]
  /\ \A s \in Sessions : pc[s] \in Opened => handle[s] \in Files
  /\ crashes \in 0 .. MaxCrashes /\ excused \subseteq Sessions
  /\ dropCut \in BOOLEAN /\ cleaned \in BOOLEAN

LEMMA InitTypes == Init => Types
  <1> SUFFICES ASSUME Init PROVE Types
    OBVIOUS
  <1>1. OldMap \in Maps
    BY DEF OldMap, Maps, Files
  <1>2. /\ pc \in [Sessions -> PCs]
        /\ \A s \in Sessions : pc[s] \notin Opened
    BY DEF Init, PCs, Opened
  <1>3. /\ bin \in Files \cup {Absent} /\ map \in Maps \cup {Absent}
        /\ loaded \in [Sessions -> SUBSET Files]
        /\ wrote \in [Sessions -> BOOLEAN]
        /\ handle \in [Sessions -> Files \cup {Absent}]
    BY <1>1 DEF Init, Files
  <1>4. crashes \in 0 .. MaxCrashes
    BY CacheFilesAssumption DEF Init
  <1>5. excused \subseteq Sessions /\ dropCut \in BOOLEAN /\ cleaned \in BOOLEAN
    BY DEF Init
  <1> QED BY <1>2, <1>3, <1>4, <1>5 DEF Types

LEMMA ForgetTypes ==
  ASSUME Types, NEW over \in SUBSET Sessions, Forget(over)
  PROVE  /\ loaded' \in [Sessions -> SUBSET Files]
         /\ wrote' \in [Sessions -> BOOLEAN]
         /\ handle' \in [Sessions -> Files \cup {Absent}]
         /\ \A s \in Sessions \ over : handle'[s] = handle[s]
         /\ excused' \subseteq Sessions
  BY DEF Types, Forget

(* What Goto does to the places of the sessions. *)
LEMMA Moved ==
  ASSUME Types, NEW s \in Sessions, NEW from, NEW to \in PCs, Goto(s, from, to)
  PROVE  /\ pc' \in [Sessions -> PCs] /\ pc[s] = from /\ pc'[s] = to
         /\ \A o \in Sessions \ {s} : pc'[o] = pc[o]
  BY DEF Types, Goto

LEMMA NextTypes == Types /\ [Next]_vars => Types'
  <1> SUFFICES ASSUME Types, [Next]_vars PROVE Types'
    OBVIOUS
  <1> USE DEF countVars, fileVars, cacheVars, histVars
  <1>1. CASE UNCHANGED vars
    BY <1>1 DEF Types, vars
  <1>2. CASE ClearFile
    BY <1>2 DEF Types, ClearFile
  <1>3. CASE Crash
    <2>1. pc' \in [Sessions -> PCs] /\ \A s \in Sessions : pc'[s] \notin Opened
      BY <1>3 DEF Types, Crash, PCs, Opened
    <2>2. crashes' \in 0 .. MaxCrashes
      BY <1>3, CacheFilesAssumption DEF Types, Crash
    <2> QED BY <1>3, <2>1, <2>2, ForgetTypes DEF Types, Crash
  <1>4. ASSUME NEW s \in Sessions,
               \/ Accept(s) \/ LoginFails(s) \/ LoginDone(s) \/ InitFails(s) \/ InitBare(s)
        PROVE  Types'
    BY <1>4 DEF Types, Accept, LoginFails, LoginDone, InitFails, InitBare, Goto, PCs, Opened
  <1>5. ASSUME NEW s \in Sessions, LoadMap(s) PROVE Types'
    <2>1. /\ pc' \in [Sessions -> PCs]
          /\ \A o \in Sessions : pc'[o] \in Opened => handle[o] \in Files
      BY <1>5 DEF Types, LoadMap, Goto, PCs, Opened
    <2>2. /\ bin' \in Files \cup {Absent} /\ map' \in Maps \cup {Absent}
          /\ loaded' \in [Sessions -> SUBSET Files]
      BY <1>5 DEF Types, LoadMap, Maps
    <2> QED BY <1>5, <2>1, <2>2 DEF Types, LoadMap
  <1>6. ASSUME NEW s \in Sessions, OpenWrite(s) PROVE Types'
    <2>1. pc' \in [Sessions -> PCs]
      BY <1>6 DEF Types, OpenWrite, Goto, PCs
    <2>2. bin' \in Files
      BY <1>6 DEF Types, OpenWrite, Files
    <2>3. \A o \in Sessions : pc'[o] \in Opened => handle'[o] \in Files
      BY <1>6, <2>2 DEF Types, OpenWrite, Goto
    <2> QED BY <1>6, <2>1, <2>2, <2>3 DEF Types, OpenWrite
  <1>7. ASSUME NEW s \in Sessions, OpenRead(s) PROVE Types'
    <2>1. pc' \in [Sessions -> PCs]
      BY <1>7 DEF Types, OpenRead, Goto, PCs
    <2>2. CASE bin = Absent
      <3>1. Goto(s, "openRead", "noInit") /\ Forget({s})
        BY <1>7, <2>2 DEF OpenRead
      <3>2. \A o \in Sessions : pc'[o] \in Opened => handle'[o] \in Files
        BY <3>1, ForgetTypes DEF Types, Goto, Opened
      <3> QED BY <1>7, <2>1, <2>2, <3>1, <3>2, ForgetTypes DEF Types, OpenRead
    <2>3. CASE bin # Absent
      <3>1. Goto(s, "openRead", "up") /\ UNCHANGED handle
        BY <1>7, <2>3 DEF OpenRead
      <3>2. \A o \in Sessions : pc'[o] \in Opened => handle'[o] \in Files
        BY <3>1 DEF Types, Goto, Opened
      <3> QED BY <1>7, <2>1, <2>3, <3>2 DEF Types, OpenRead
    <2> QED BY <2>2, <2>3
  <1>8. ASSUME NEW s \in Sessions, EndContext(s) \/ Flush(s) \/ UnlinkBin(s) PROVE Types'
    BY <1>8 DEF Types, EndContext, Flush, UnlinkBin, Goto, PCs, Opened
  <1>9. ASSUME NEW s \in Sessions, SaveMap(s) PROVE Types'
    <2>1. /\ pc' \in [Sessions -> PCs] /\ handle[s] \in Files
          /\ \A o \in Sessions : pc'[o] \in Opened => handle[o] \in Files
      BY <1>9 DEF Types, SaveMap, Goto, PCs, Opened
    <2>2. loaded[s] \cup (IF wrote[s] THEN {s} ELSE {}) \in SUBSET Files
      BY DEF Types, Files
    <2>3. map' \in Maps
      BY <1>9, <2>1, <2>2 DEF SaveMap, Maps
    <2> QED BY <1>9, <2>1, <2>3 DEF Types, SaveMap
  <1>10. ASSUME NEW s \in Sessions, UnlinkMap(s) PROVE Types'
    <2>1. pc' \in [Sessions -> PCs] /\ Forget({s})
      BY <1>10 DEF Types, UnlinkMap, Goto, PCs
    <2>2. \A o \in Sessions : pc'[o] \in Opened => handle'[o] \in Files
      BY <1>10, <2>1, ForgetTypes DEF Types, UnlinkMap, Goto, Opened
    <2> QED BY <1>10, <2>1, <2>2, ForgetTypes DEF Types, UnlinkMap
  <1> QED BY <1>1, <1>2, <1>3, <1>4, <1>5, <1>6, <1>7, <1>8, <1>9, <1>10 DEF Next

-----------------------------------------------------------------------------
(* The accounts *)

Count(f, P) == Cardinality({s \in Sessions : f[s] \in P})

(* A session that moves enters or leaves a set of places, or neither.      *)
LEMMA CountMove ==
  ASSUME NEW f, NEW P, NEW s \in Sessions, NEW g,
         \A o \in Sessions \ {s} : g[o] = f[o]
  PROVE  /\ Count(f, P) \in Nat
         /\ (f[s] \in P <=> g[s] \in P) => Count(g, P) = Count(f, P)
         /\ f[s] \notin P /\ g[s] \in P => Count(g, P) = Count(f, P) + 1
         /\ f[s] \in P /\ g[s] \notin P => Count(g, P) = Count(f, P) - 1
  <1> DEFINE F == {o \in Sessions : f[o] \in P}
             G == {o \in Sessions : g[o] \in P}
  <1>1. IsFiniteSet(F) /\ IsFiniteSet(G)
    BY CacheFilesAssumption, FS_Subset
  <1>2. Cardinality(F) \in Nat
    BY <1>1, FS_CardinalityType
  <1>3. (f[s] \in P <=> g[s] \in P) => F = G
    OBVIOUS
  <1>4. ASSUME f[s] \notin P, g[s] \in P
        PROVE  Cardinality(G) = Cardinality(F) + 1
    <2>1. G = F \cup {s} /\ s \notin F
      BY <1>4
    <2> QED BY <1>1, <2>1, FS_AddElement
  <1>5. ASSUME f[s] \in P, g[s] \notin P
        PROVE  Cardinality(G) = Cardinality(F) - 1
    <2>1. G = F \ {s} /\ s \in F
      BY <1>5
    <2> QED BY <1>1, <2>1, FS_RemoveElement
  <1> QED BY <1>2, <1>3, <1>4, <1>5 DEF Count

LEMMA CountNat ==
  ASSUME NEW f, NEW P
  PROVE  Count(f, P) \in Nat
  BY CacheFilesAssumption, FS_Subset, FS_CardinalityType DEF Count

LEMMA CountNone ==
  ASSUME NEW f, NEW P, \A s \in Sessions : f[s] \notin P
  PROVE  Count(f, P) = 0
  <1>1. {s \in Sessions : f[s] \in P} = {}
    OBVIOUS
  <1> QED BY <1>1, FS_EmptySet DEF Count

Accepted == {"login", "init", "open", "openRead", "up", "bare", "noLogin", "noInit"}
LoggedIn == {"init", "open", "openRead", "up", "bare", "noInit"}

LEMMA AccountsMean ==
  AccountsExact <=> active = Count(pc, Accepted) /\ online = Count(pc, LoggedIn)
  BY DEF AccountsExact, In, Count, Accepted, LoggedIn

LEMMA NextAccounts == Types /\ AccountsExact /\ [Next]_vars => AccountsExact'
  <1> SUFFICES ASSUME Types, active = Count(pc, Accepted), online = Count(pc, LoggedIn),
                      [Next]_vars
               PROVE  active' = Count(pc', Accepted) /\ online' = Count(pc', LoggedIn)
    BY AccountsMean DEF AccountsExact, In, Count, Accepted, LoggedIn
  <1>1. CASE UNCHANGED <<pc, active, online>>
    BY <1>1
  <1>2. CASE Crash
    <2>1. \A s \in Sessions : pc'[s] \notin Accepted /\ pc'[s] \notin LoggedIn
      BY <1>2 DEF Crash, Accepted, LoggedIn
    <2> QED BY <1>2, <2>1, CountNone DEF Crash
  <1>3. active \in Int /\ online \in Int
    BY CountNat
  <1>4. ASSUME NEW s \in Sessions, NEW from, NEW to \in PCs, Goto(s, from, to),
               active' = active + (IF to \in Accepted THEN 1 ELSE 0)
                                - (IF from \in Accepted THEN 1 ELSE 0),
               online' = online + (IF to \in LoggedIn THEN 1 ELSE 0)
                                - (IF from \in LoggedIn THEN 1 ELSE 0)
        PROVE  active' = Count(pc', Accepted) /\ online' = Count(pc', LoggedIn)
    <2>1. /\ pc[s] = from /\ pc'[s] = to
          /\ \A o \in Sessions \ {s} : pc'[o] = pc[o]
      BY <1>4, Moved
    <2>2. active' = Count(pc', Accepted)
      BY <1>3, <1>4, <2>1, CountMove
    <2>3. online' = Count(pc', LoggedIn)
      BY <1>3, <1>4, <2>1, CountMove
    <2> QED BY <2>2, <2>3
  <1> USE DEF countVars, PCs, Accepted, LoggedIn
  <1>5. ASSUME NEW s \in Sessions, Accept(s)
        PROVE  active' = Count(pc', Accepted) /\ online' = Count(pc', LoggedIn)
    <2>1. /\ Goto(s, "new", "login")
          /\ active' = active + 1 - 0 /\ online' = online + 0 - 0
      BY <1>3, <1>5 DEF Accept
    <2> QED BY <2>1, <1>4
  <1>6. ASSUME NEW s \in Sessions, LoginDone(s)
        PROVE  active' = Count(pc', Accepted) /\ online' = Count(pc', LoggedIn)
    <2>1. /\ Goto(s, "login", "init")
          /\ active' = active + 1 - 1 /\ online' = online + 1 - 0
      BY <1>3, <1>6 DEF LoginDone
    <2> QED BY <2>1, <1>4
  <1>7. ASSUME NEW s \in Sessions, LoginFails(s)
        PROVE  active' = Count(pc', Accepted) /\ online' = Count(pc', LoggedIn)
    <2>1. /\ Goto(s, "login", "noLogin")
          /\ active' = active + 1 - 1 /\ online' = online + 0 - 0
      BY <1>3, <1>7 DEF LoginFails
    <2> QED BY <2>1, <1>4
  <1>8. ASSUME NEW s \in Sessions,
               InitFails(s) \/ InitBare(s) \/ LoadMap(s) \/ OpenWrite(s) \/ OpenRead(s)
        PROVE  active' = Count(pc', Accepted) /\ online' = Count(pc', LoggedIn)
    <2>1. PICK from \in LoggedIn, to \in LoggedIn : Goto(s, from, to)
      BY <1>8 DEF InitFails, InitBare, LoadMap, OpenWrite, OpenRead
    <2>2. active' = active + 1 - 1 /\ online' = online + 1 - 1
      BY <1>3, <1>8 DEF InitFails, InitBare, LoadMap, OpenWrite, OpenRead
    <2> QED BY <2>1, <2>2, <1>4
  <1>9. ASSUME NEW s \in Sessions, EndContext(s)
        PROVE  active' = Count(pc', Accepted) /\ online' = Count(pc', LoggedIn)
    <2>1. PICK from \in {"up", "bare"}, to \in {"save", "gone"} : Goto(s, from, to)
      BY <1>9 DEF EndContext
    <2>2. active' = active + 0 - 1 /\ online' = online + 0 - 1
      BY <1>3, <1>9 DEF EndContext
    <2> QED BY <2>1, <2>2, <1>4
  <1>10. ASSUME NEW s \in Sessions, SaveMap(s) \/ UnlinkBin(s) \/ UnlinkMap(s)
         PROVE  active' = Count(pc', Accepted) /\ online' = Count(pc', LoggedIn)
    <2>1. PICK from \in Dropping, to \in Dropping \cup {"gone"} : Goto(s, from, to)
      BY <1>10 DEF SaveMap, UnlinkBin, UnlinkMap, Dropping
    <2>2. active' = active + 0 - 0 /\ online' = online + 0 - 0
      BY <1>3, <1>10 DEF SaveMap, UnlinkBin, UnlinkMap
    <2> QED BY <2>1, <2>2, <1>4 DEF Dropping
  <1>11. CASE ClearFile \/ \E s \in Sessions : Flush(s)
    BY <1>11 DEF ClearFile, Flush
  <1> QED BY <1>1, <1>2, <1>5, <1>6, <1>7, <1>8, <1>9, <1>10, <1>11 DEF Next, vars

LEMMA InitAccounts == Init => AccountsExact
  <1> SUFFICES ASSUME Init PROVE AccountsExact
    OBVIOUS
  <1>1. \A s \in Sessions : pc[s] \notin Accepted /\ pc[s] \notin LoggedIn
    BY DEF Init, Accepted, LoggedIn
  <1> QED BY <1>1, CountNone, AccountsMean DEF Init

-----------------------------------------------------------------------------
(* The files *)

(* A map this version can read is on disk only while a cache is dropped,   *)
(* or because a crash has cut such a drop short.                           *)
MapOfDrop ==
  map # Absent /\ map.current
    => dropCut \/ \E s \in Sessions : pc[s] \in {"unlinkBin", "unlinkMap"}

(* Once a drop has removed the .bin, one that is there belongs to a session*)
(* that will remove it; once it has removed the map, one that is there too.*)
FilesHeld ==
  /\ (cleaned \/ \E s \in Sessions : pc[s] = "unlinkMap") /\ bin # Absent
       => \E s \in Sessions : pc[s] \in {"openRead", "up", "save", "unlinkBin"}
  /\ cleaned /\ map # Absent
       => \E s \in Sessions : pc[s] \in {"unlinkBin", "unlinkMap"}

FileInv == MapOfDrop /\ FilesHeld /\ FreshDisk

LEMMA InitFileInv == Init => FileInv
  <1> SUFFICES ASSUME Init PROVE FileInv
    OBVIOUS
  <1>1. MapOfDrop
    BY DEF Init, OldMap, MapOfDrop
  <1>2. FilesHeld /\ FreshDisk
    BY DEF Init, FilesHeld, FreshDisk
  <1> QED BY <1>1, <1>2 DEF FileInv

LEMMA NextFileInv == Types /\ FileInv /\ [Next]_vars => FileInv'
  <1> SUFFICES ASSUME Types, FileInv, [Next]_vars PROVE FileInv'
    OBVIOUS
  <1> USE DEF countVars, fileVars, cacheVars, histVars, FileInv
  <1>1. CASE UNCHANGED vars
    BY <1>1 DEF vars, MapOfDrop, FilesHeld, FreshDisk
  <1>2. CASE ClearFile
    BY <1>2 DEF ClearFile, MapOfDrop, FilesHeld, FreshDisk
  <1>3. CASE Crash
    <2>1. MapOfDrop'
      BY <1>3 DEF Crash, MapOfDrop, Dropping
    <2>2. FilesHeld'
      BY <1>3 DEF Crash, FilesHeld
    <2>3. FreshDisk'
      BY <1>3 DEF Crash, Forget, FreshDisk
    <2> QED BY <2>1, <2>2, <2>3
  <1>4. ASSUME NEW s \in Sessions,
               \/ Accept(s) \/ LoginFails(s) \/ LoginDone(s) \/ InitFails(s) \/ InitBare(s)
               \/ EndContext(s) \/ Flush(s)
        PROVE  FileInv'
    <2>1. /\ UNCHANGED <<bin, map, loaded, excused, dropCut, cleaned>>
          /\ \A o \in Sessions :
               /\ pc[o] \in {"unlinkBin", "unlinkMap"} => pc'[o] = pc[o]
               /\ pc[o] \in {"openRead", "save"} => pc'[o] = pc[o]
               /\ pc[o] = "up" => pc'[o] \in {"up", "save"}
               /\ pc'[o] = "unlinkMap" => pc[o] = "unlinkMap"
      BY <1>4 DEF Types, Goto, Accept, LoginFails, LoginDone, InitFails, InitBare, EndContext,
                  Flush
    <2> QED BY <2>1 DEF MapOfDrop, FilesHeld, FreshDisk
  <1>5. ASSUME NEW s \in Sessions, LoadMap(s) PROVE FileInv'
    <2>1. /\ pc[s] = "init" /\ pc'[s] = "open"
          /\ \A o \in Sessions \ {s} : pc'[o] = pc[o]
      BY <1>5 DEF LoadMap, Goto, Types
    <2>2. /\ UNCHANGED <<dropCut, cleaned>>
          /\ (map' = map /\ bin' = bin) \/ (map' = Absent /\ bin' = Absent)
      BY <1>5 DEF LoadMap
    <2>3. MapOfDrop' /\ FilesHeld'
      BY <2>1, <2>2 DEF MapOfDrop, FilesHeld
    <2>4. FreshDisk'
      <3>1. CASE UNCHANGED loaded
        BY <1>5, <3>1 DEF LoadMap, FreshDisk
      <3>2. CASE /\ map # Absent /\ map.current
                 /\ loaded' = [loaded EXCEPT ![s] = map.owners]
        <4>1. s \in excused' /\ excused \subseteq excused'
          BY <1>5, <3>2 DEF LoadMap, MapOfDrop, Dropping
        <4> QED BY <3>2, <4>1 DEF FreshDisk, Types
      <3> QED BY <1>5, <3>1, <3>2 DEF LoadMap
    <2> QED BY <2>3, <2>4
  <1>6. ASSUME NEW s \in Sessions, OpenWrite(s) PROVE FileInv'
    <2>1. /\ pc[s] = "open" /\ pc'[s] = "openRead"
          /\ \A o \in Sessions \ {s} : pc'[o] = pc[o]
          /\ UNCHANGED <<map, loaded, excused, dropCut, cleaned>>
      BY <1>6 DEF OpenWrite, Goto, Types
    <2> QED BY <2>1 DEF MapOfDrop, FilesHeld, FreshDisk
  <1>7. ASSUME NEW s \in Sessions, OpenRead(s) PROVE FileInv'
    <2>1. /\ pc[s] = "openRead" /\ (bin # Absent => pc'[s] = "up") /\ pc'[s] \in {"up", "noInit"}
          /\ \A o \in Sessions \ {s} : pc'[o] = pc[o]
          /\ UNCHANGED <<bin, map, dropCut, cleaned>>
      BY <1>7 DEF OpenRead, Goto, Types
    <2>2. MapOfDrop' /\ FilesHeld'
      BY <2>1 DEF MapOfDrop, FilesHeld
    <2>3. FreshDisk'
      BY <1>7 DEF OpenRead, Forget, FreshDisk
    <2> QED BY <2>2, <2>3
  <1>8. ASSUME NEW s \in Sessions, SaveMap(s) \/ UnlinkBin(s) PROVE FileInv'
    <2>1. CASE SaveMap(s)
      <3>1. /\ pc[s] = "save" /\ pc'[s] = "unlinkBin"
            /\ \A o \in Sessions \ {s} : pc'[o] = pc[o]
            /\ UNCHANGED <<bin, loaded, excused, dropCut, cleaned>>
        BY <2>1 DEF SaveMap, Goto, Types
      <3> QED BY <3>1 DEF MapOfDrop, FilesHeld, FreshDisk
    <2>2. CASE UnlinkBin(s)
      <3>1. /\ pc[s] = "unlinkBin" /\ pc'[s] = "unlinkMap" /\ bin' = Absent
            /\ \A o \in Sessions \ {s} : pc'[o] = pc[o]
            /\ UNCHANGED <<map, loaded, excused, dropCut, cleaned>>
        BY <2>2 DEF UnlinkBin, Goto, Types
      <3> QED BY <3>1 DEF MapOfDrop, FilesHeld, FreshDisk
    <2> QED BY <1>8, <2>1, <2>2
  <1>9. ASSUME NEW s \in Sessions, UnlinkMap(s) PROVE FileInv'
    <2>1. /\ pc[s] = "unlinkMap" /\ pc'[s] = "gone" /\ map' = Absent
          /\ \A o \in Sessions \ {s} : pc'[o] = pc[o]
          /\ UNCHANGED <<bin, dropCut>>
      BY <1>9 DEF UnlinkMap, Goto, Types
    <2>2. MapOfDrop' /\ FilesHeld'
      BY <2>1 DEF MapOfDrop, FilesHeld
    <2>3. FreshDisk'
      BY <1>9 DEF UnlinkMap, Forget, FreshDisk
    <2> QED BY <2>2, <2>3
  <1> QED BY <1>1, <1>2, <1>3, <1>4, <1>5, <1>6, <1>7, <1>8, <1>9 DEF Next

-----------------------------------------------------------------------------
(* Theorems *)

IInv == Types /\ AccountsExact /\ FileInv

LEMMA Inductive == Spec => []IInv
  <1>1. Init => IInv
    BY InitTypes, InitAccounts, InitFileInv DEF IInv
  <1>2. IInv /\ [Next]_vars => IInv'
    BY NextTypes, NextAccounts, NextFileInv DEF IInv
  <1> QED BY <1>1, <1>2, PTL DEF Spec

(* The state stays well typed: neither counter falls below zero, whatever   *)
(* overlaps, fails or crashes.                                             *)
THEOREM TypeCorrect == Spec => []TypeOK
  <1>1. IInv => TypeOK
    <2> SUFFICES ASSUME IInv PROVE TypeOK
      OBVIOUS
    <2>1. active \in Nat /\ online \in Nat
      BY CountNat, AccountsMean DEF IInv
    <2> QED BY <2>1 DEF IInv, Types, TypeOK
  <1> QED BY <1>1, Inductive, PTL

(* The counters of ServerStats count the sessions that run and those that  *)
(* failed before they had a context.                                       *)
THEOREM AccountsKept == Spec => []AccountsExact
  BY Inductive, PTL DEF IInv

(* A session loads blocks of another one only if it opened its cache while *)
(* another dropped its own, or after a crash cut such a drop short.        *)
THEOREM DiskFresh == Spec => []FreshDisk
  BY Inductive, PTL DEF IInv, FileInv

(* When all sessions have ended and a cache was dropped since the start, no *)
(* file is left.                                                           *)
THEOREM FilesGone == Spec => []NothingLeft
  <1>1. IInv => NothingLeft
    BY DEF IInv, FileInv, FilesHeld, NothingLeft, Settled
  <1> QED BY <1>1, Inductive, PTL
=============================================================================
