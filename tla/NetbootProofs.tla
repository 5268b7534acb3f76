----------------------------- MODULE NetbootProofs -----------------------------
(***************************************************************************)
(* Theorems of Netboot for every number of cards, pool, clients.toml and   *)
(* number of writes: what the repair of duplicate addresses makes of a     *)
(* file, the types, and that the DHCP table follows the file, for which    *)
(* nothing is needed of what the repair computes.                          *)
(***************************************************************************)
EXTENDS Netboot, WellFoundedInduction, FiniteSetTheorems, TLAPS

-----------------------------------------------------------------------------
(* The repair of duplicate addresses *)

(* Every set of numbers that is not empty has a least one: a statement     *)
(* about all of them is proved from a least counterexample.                *)
LEMMA LeastNat ==
  ASSUME NEW T, T \subseteq Nat, T # {}
  PROVE  \E x \in T : \A y \in T : x <= y
  <1> DEFINE R == OpToRel(<, Nat)
  <1>1. IsWellFoundedOn(R, Nat)
    BY NatLessThanWellFounded
  <1>2. \A x, y \in Nat : x < y => <<x, y>> \in R
    BY DEF OpToRel
  <1> HIDE DEF R
  <1>3. PICK x \in T : \A y \in T : ~(<<y, x>> \in R)
    BY <1>1, WFMin
  <1>4. ASSUME NEW y \in T PROVE x <= y
    <2>1. x \in Nat /\ y \in Nat
      OBVIOUS
    <2>2. ~(y < x)
      BY <1>2, <1>3, <2>1
    <2> QED BY <2>1, <2>2
  <1> QED BY <1>4

(* g[i] is what the repair holds after the first i of the clients in s.    *)
Fresh == [seen |-> {}, out |-> << >>]
Unfolds(g, s, k) == g = [i \in 0 .. k |-> IF i = 0 THEN Fresh ELSE Repair(g[i - 1], s[i])]

(* The repair of any number of clients can be unfolded, so the function    *)
(* AutoFix defines is one that satisfies its equation.                     *)
LEMMA PassesExist ==
  ASSUME NEW s, NEW n \in Nat
  PROVE  \E g : Unfolds(g, s, n)
  <1> DEFINE T == {k \in Nat : ~\E g : Unfolds(g, s, k)}
  <1> SUFFICES ASSUME T # {} PROVE FALSE
    OBVIOUS
  <1>1. PICK k \in T : \A y \in T : k <= y
    BY LeastNat
  <1>2. k # 0
    <2>1. Unfolds([i \in 0 .. 0 |-> Fresh], s, 0)
      BY DEF Unfolds
    <2> QED BY <1>1, <2>1
  <1>3. k - 1 \in Nat /\ k - 1 \notin T
    BY <1>1, <1>2
  <1>4. PICK g : Unfolds(g, s, k - 1)
    BY <1>3
  <1> DEFINE h == [i \in 0 .. k |-> IF i = k THEN Repair(g[k - 1], s[k]) ELSE g[i]]
  <1>5. Unfolds(h, s, k)
    <2>1. ASSUME NEW i \in 0 .. k
          PROVE  h[i] = IF i = 0 THEN Fresh ELSE Repair(h[i - 1], s[i])
      <3>1. CASE i = k
        <4>1. h[i - 1] = g[k - 1]
          BY <1>2, <3>1
        <4> QED BY <1>2, <3>1, <4>1
      <3>2. CASE i # k
        <4>1. i \in 0 .. k - 1 /\ h[i] = g[i]
          BY <1>1, <3>2
        <4>2. i # 0 => h[i - 1] = g[i - 1]
          BY <4>1
        <4> QED BY <1>4, <4>1, <4>2 DEF Unfolds
      <3> QED BY <3>1, <3>2
    <2> QED BY <2>1 DEF Unfolds
  <1> QED BY <1>1, <1>5

LEMMA AutoFixUnfolds ==
  ASSUME NEW s, Len(s) \in Nat
  PROVE  \E g : Unfolds(g, s, Len(s)) /\ AutoFix(s) = g[Len(s)].out
  <1> DEFINE f == CHOOSE g : Unfolds(g, s, Len(s))
  <1>1. Unfolds(f, s, Len(s))
    BY PassesExist
  <1>2. AutoFix(s) = f[Len(s)].out
    BY DEF AutoFix, Unfolds, Fresh
  <1> QED BY <1>1, <1>2

(* What the repair has made of the first i clients: a typed list of as     *)
(* many, its addresses in seen; cards stay; an address changes only if it  *)
(* was already given; none twice while the pool has enough.                *)
Repaired(s, i, a) ==
  /\ a.out \in Seq(Client) /\ Len(a.out) = i
  /\ a.seen = {a.out[j].ip : j \in 1 .. i}
  /\ a.seen \subseteq Ips /\ IsFiniteSet(a.seen) /\ Cardinality(a.seen) <= i
  /\ \A j \in 1 .. i : a.out[j].mac = s[j].mac
  /\ \A j \in 1 .. i : a.out[j].ip = s[j].ip \/ \E k \in 1 .. j - 1 : a.out[k].ip = s[j].ip
  /\ i <= PoolEnd => IpsDistinct(a.out)

(* The pool is among the addresses. *)
LEMMA PoolFits == Pool \subseteq Ips /\ PoolEnd \in Nat \ {0} /\ MaxIp \in Nat \ {0}
  BY NetbootAssumption DEF Pool, Ips

(* The pool is not used up by fewer entries than it has addresses. *)
LEMMA PoolLasts ==
  ASSUME NEW seen, IsFiniteSet(seen), Cardinality(seen) < PoolEnd
  PROVE  Pool \ seen # {}
  <1> SUFFICES ASSUME Pool \subseteq seen PROVE FALSE
    OBVIOUS
  <1>1. Cardinality(Pool) = PoolEnd
    BY FS_Interval, PoolFits DEF Pool
  <1>2. Cardinality(Pool) <= Cardinality(seen)
    BY FS_Subset
  <1>3. Cardinality(seen) \in Nat
    BY FS_CardinalityType
  <1> QED BY <1>1, <1>2, <1>3, PoolFits

(* The address the repair gives a client. *)
LEMMA RepairGives ==
  ASSUME NEW a, NEW c \in Client
  PROVE  \E ip \in Ips :
           /\ Repair(a, c).seen = a.seen \cup {ip}
           /\ Repair(a, c).out = Append(a.out, [mac |-> c.mac, ip |-> ip])
           /\ c.ip \notin a.seen => ip = c.ip
           /\ Pool \ a.seen # {} => ip \notin a.seen
  <1> DEFINE free == Pool \ a.seen
             least == CHOOSE i \in free : \A j \in free : i <= j
             ip == IF c.ip \notin a.seen \/ free = {} THEN c.ip ELSE least
  <1>1. free # {} => least \in free
    <2>1. free \subseteq Nat
      BY PoolFits DEF Pool
    <2>2. free # {} => \E i \in free : \A j \in free : i <= j
      BY <2>1, LeastNat
    <2> HIDE DEF free
    <2> QED BY <2>2
  <1>2. c.ip \in Ips /\ ip \in Ips
    BY <1>1, PoolFits DEF Client
  <1>3. \A x : [c EXCEPT !.ip = x] = [mac |-> c.mac, ip |-> x]
    BY DEF Client
  <1>4. /\ Repair(a, c).seen = a.seen \cup {ip}
        /\ Repair(a, c).out = Append(a.out, [c EXCEPT !.ip = ip])
    BY DEF Repair
  <1>5. c.ip \notin a.seen => ip = c.ip
    OBVIOUS
  <1>6. free # {} => ip \notin a.seen
    BY <1>1
  <1> QED BY <1>2, <1>3, <1>4, <1>5, <1>6

(* A sequence and one element more. *)
LEMMA AppendTo ==
  ASSUME NEW S, NEW q \in Seq(S), NEW x \in S
  PROVE  /\ Append(q, x) \in Seq(S) /\ Len(Append(q, x)) = Len(q) + 1 /\ Len(q) \in Nat
         /\ \A j \in 1 .. Len(q) : Append(q, x)[j] = q[j]
         /\ Append(q, x)[Len(q) + 1] = x
  OBVIOUS

(* One client more: if its address is taken and fewer than PoolEnd are     *)
(* seen, some address of the pool is free.                                 *)
LEMMA RepairStep ==
  ASSUME NEW s \in Seq(Client), NEW i \in Nat, i + 1 \in DOMAIN s, NEW a, Repaired(s, i, a)
  PROVE  Repaired(s, i + 1, Repair(a, s[i + 1]))
  <1>c. PICK c \in Client : c = s[i + 1]
    OBVIOUS
  <1>b. PICK b : b = Repair(a, c)
    OBVIOUS
  <1>1. PICK ip \in Ips :
           /\ b.seen = a.seen \cup {ip}
           /\ b.out = Append(a.out, [mac |-> c.mac, ip |-> ip])
           /\ c.ip \notin a.seen => ip = c.ip
           /\ Pool \ a.seen # {} => ip \notin a.seen
    BY <1>b, RepairGives
  <1>d. PICK d : d = [mac |-> c.mac, ip |-> ip]
    OBVIOUS
  <1>2. d \in Client /\ d.mac = c.mac /\ d.ip = ip
    BY <1>d DEF Client
  <1>3. a.out \in Seq(Client) /\ Len(a.out) = i
    BY DEF Repaired
  <1>4. /\ b.out \in Seq(Client) /\ Len(b.out) = i + 1
        /\ \A j \in 1 .. i : b.out[j] = a.out[j]
        /\ b.out[i + 1] = d
    BY <1>1, <1>d, <1>2, <1>3, AppendTo
  <1>5. 1 .. i + 1 = (1 .. i) \cup {i + 1}
    OBVIOUS
  <1>6. b.seen = {b.out[j].ip : j \in 1 .. i + 1}
    BY <1>1, <1>2, <1>4, <1>5 DEF Repaired
  <1>7. b.seen \subseteq Ips /\ IsFiniteSet(b.seen) /\ Cardinality(b.seen) <= i + 1
    <2>1. IsFiniteSet(a.seen) /\ Cardinality(a.seen) <= i /\ Cardinality(a.seen) \in Nat
      BY FS_CardinalityType DEF Repaired
    <2>2. IsFiniteSet(b.seen) /\ Cardinality(b.seen) <= Cardinality(a.seen) + 1
      <3>1. /\ IsFiniteSet(a.seen \cup {ip})
            /\ Cardinality(a.seen \cup {ip})
                 = IF ip \in a.seen THEN Cardinality(a.seen) ELSE Cardinality(a.seen) + 1
        BY <2>1, FS_AddElement
      <3> QED BY <1>1, <2>1, <3>1
    <2>3. Cardinality(b.seen) \in Nat
      BY <2>2, FS_CardinalityType
    <2>4. b.seen \subseteq Ips
      BY <1>1 DEF Repaired
    <2> QED BY <2>1, <2>2, <2>3, <2>4
  <1>8. \A j \in 1 .. i + 1 : b.out[j].mac = s[j].mac
    BY <1>2, <1>4, <1>5, <1>c DEF Repaired
  <1>9. ASSUME NEW j \in 1 .. i + 1
        PROVE  b.out[j].ip = s[j].ip \/ \E k \in 1 .. j - 1 : b.out[k].ip = s[j].ip
    <2>1. CASE j \in 1 .. i
      <3>1. \A k \in 1 .. j - 1 : b.out[k] = a.out[k]
        BY <1>4, <2>1
      <3> QED BY <1>4, <2>1, <3>1 DEF Repaired
    <2>2. CASE j = i + 1
      <3>1. c.ip \in a.seen => \E k \in 1 .. i : b.out[k].ip = c.ip
        BY <1>4 DEF Repaired
      <3> QED BY <1>1, <1>2, <1>4, <1>c, <2>2, <3>1
    <2> QED BY <1>5, <2>1, <2>2
  <1>10. ASSUME i + 1 <= PoolEnd PROVE IpsDistinct(b.out)
    <2>1. ip \notin a.seen
      <3>1. IsFiniteSet(a.seen) /\ Cardinality(a.seen) < PoolEnd
        BY <1>10, FS_CardinalityType, PoolFits DEF Repaired
      <3> QED BY <1>1, <3>1, PoolLasts
    <2>2. \A j \in 1 .. i : b.out[j].ip # ip
      BY <1>4, <2>1 DEF Repaired
    <2>3. \A j, k \in 1 .. i : b.out[j].ip = b.out[k].ip => j = k
      <3>1. DOMAIN a.out = 1 .. i /\ IpsDistinct(a.out)
        BY <1>3, <1>10, PoolFits DEF Repaired
      <3> QED BY <1>4, <3>1 DEF IpsDistinct
    <2>4. DOMAIN b.out = 1 .. i + 1
      BY <1>4
    <2> QED BY <1>2, <1>4, <1>5, <2>2, <2>3, <2>4 DEF IpsDistinct
  <1> QED BY <1>b, <1>c, <1>4, <1>6, <1>7, <1>8, <1>9, <1>10 DEF Repaired

(* The least pass that breaks Repaired has a pass before it that does not. *)
LEMMA RepairPasses ==
  ASSUME NEW s \in Seq(Client), NEW g, Unfolds(g, s, Len(s)), NEW n \in 0 .. Len(s)
  PROVE  Repaired(s, n, g[n])
  <1> DEFINE T == {k \in Nat : k <= Len(s) /\ ~Repaired(s, k, g[k])}
  <1>l. Len(s) \in Nat /\ DOMAIN s = 1 .. Len(s)
    OBVIOUS
  <1> SUFFICES ASSUME T # {} PROVE FALSE
    BY <1>l
  <1>1. PICK k \in T : \A y \in T : k <= y
    BY LeastNat
  <1>2. ASSUME NEW i \in 0 .. Len(s)
        PROVE  g[i] = IF i = 0 THEN Fresh ELSE Repair(g[i - 1], s[i])
    BY DEF Unfolds
  <1>3. k # 0
    <2>1. Fresh.seen = {} /\ Fresh.out = << >>
      BY DEF Fresh
    <2>2. IsFiniteSet(Fresh.seen) /\ Cardinality(Fresh.seen) = 0
      BY <2>1, FS_EmptySet
    <2>3. Repaired(s, 0, Fresh)
      BY <2>1, <2>2 DEF Repaired, IpsDistinct
    <2> QED BY <1>1, <1>2, <1>l, <2>3
  <1>4. k - 1 \in Nat /\ k - 1 \notin T /\ (k - 1) + 1 = k /\ k \in 1 .. Len(s)
    BY <1>1, <1>3, <1>l
  <1>5. Repaired(s, k - 1, g[k - 1])
    BY <1>4, <1>l
  <1>6. Repaired(s, k, Repair(g[k - 1], s[k]))
    BY <1>4, <1>5, <1>l, RepairStep
  <1> QED BY <1>1, <1>2, <1>3, <1>4, <1>6

(* A file without a duplicate is left as it is: the least entry that moved *)
(* would have met its address at an entry that did not move.               *)
LEMMA RepairKeeps ==
  ASSUME NEW s \in Seq(Client), NEW t \in Seq(Client), Len(t) = Len(s),
         \A i \in 1 .. Len(s) : t[i].mac = s[i].mac,
         \A i \in 1 .. Len(s) : t[i].ip = s[i].ip \/ \E k \in 1 .. i - 1 : t[k].ip = s[i].ip,
         IpsDistinct(s)
  PROVE  t = s
  <1>l. /\ Len(s) \in Nat /\ DOMAIN s = 1 .. Len(s) /\ DOMAIN t = 1 .. Len(s)
        /\ \A i \in 1 .. Len(s) : t[i] \in Client /\ s[i] \in Client
    OBVIOUS
  <1> DEFINE T == {i \in 1 .. Len(s) : t[i].ip # s[i].ip}
  <1>1. T = {}
    <2> SUFFICES ASSUME T # {} PROVE FALSE
      OBVIOUS
    <2>1. PICK i \in T : \A y \in T : i <= y
      <3>1. T \subseteq Nat
        BY <1>l
      <3> HIDE DEF T
      <3> QED BY <3>1, LeastNat
    <2>2. PICK k \in 1 .. i - 1 : t[k].ip = s[i].ip
      BY <1>l
    <2>3. k \in 1 .. Len(s) /\ k # i /\ k \notin T
      BY <1>l, <2>1
    <2>4. s[k].ip = s[i].ip
      BY <2>2, <2>3
    <2> QED BY <1>l, <2>3, <2>4 DEF IpsDistinct
  <1>2. ASSUME NEW i \in 1 .. Len(s) PROVE t[i] = s[i]
    <2>1. t[i].ip = s[i].ip /\ t[i].mac = s[i].mac
      BY <1>1
    <2> QED BY <1>l, <2>1 DEF Client
  <1> QED BY <1>l, <1>2

(* The repair of clients.toml (auto_fix_duplicate_ips), for every file:    *)
(* the same cards in the same order; a client moves only if a client above *)
(* it in the result has its address; no address is left twice if the pool  *)
(* has room for all; and a file without duplicates is not touched.         *)
THEOREM RepairHeals ==
  ASSUME NEW s \in Seq(Client)
  PROVE  /\ AutoFix(s) \in Seq(Client) /\ Len(AutoFix(s)) = Len(s)
         /\ \A i \in DOMAIN s : AutoFix(s)[i].mac = s[i].mac
         /\ \A i \in DOMAIN s : \/ AutoFix(s)[i].ip = s[i].ip
                                \/ \E k \in 1 .. i - 1 : AutoFix(s)[k].ip = s[i].ip
         /\ Len(s) <= PoolEnd => IpsDistinct(AutoFix(s))
         /\ IpsDistinct(s) => AutoFix(s) = s
  <1>1. Len(s) \in Nat /\ DOMAIN s = 1 .. Len(s)
    OBVIOUS
  <1>2. PICK g : Unfolds(g, s, Len(s)) /\ AutoFix(s) = g[Len(s)].out
    BY <1>1, AutoFixUnfolds
  <1>3. Repaired(s, Len(s), g[Len(s)])
    BY <1>1, <1>2, RepairPasses
  <1>4. IpsDistinct(s) => AutoFix(s) = s
    BY <1>2, <1>3, RepairKeeps DEF Repaired
  <1> QED BY <1>1, <1>2, <1>3, <1>4 DEF Repaired

-----------------------------------------------------------------------------
(* Types *)

(* Before the first start of DHCP its watcher does not exist. *)
Tasks == dhcp = "none" => dwpc = "none"
Steps == {"none", "append", "appendWrite", "reply"}
Packets == [mac : Macs, ip : {None} \cup Ips, step : Steps]

(* The tables made from a file are tables. *)
LEMMA AddressesTyped ==
  ASSUME NEW s \in Seq(Client)
  PROVE  DOMAIN Addresses(s) \subseteq Macs /\ \A m \in DOMAIN Addresses(s) : Addresses(s)[m] \in Ips
  <1>1. ASSUME NEW c \in Entries(s) PROVE c.mac \in Macs /\ c.ip \in Ips
    <2>1. PICK i \in DOMAIN s : c = s[i]
      BY DEF Entries
    <2>2. c \in Client
      BY <2>1
    <2> QED BY <2>2 DEF Client
  <1>2. ASSUME NEW m \in {c.mac : c \in Entries(s)}
        PROVE  (CHOOSE c \in Entries(s) : c.mac = m).ip \in Ips
    <2>1. \E c \in Entries(s) : c.mac = m
      OBVIOUS
    <2>2. (CHOOSE c \in Entries(s) : c.mac = m) \in Entries(s)
      BY <2>1
    <2> QED BY <1>1, <2>2
  <1>3. {c.mac : c \in Entries(s)} \subseteq Macs
    BY <1>1
  <1> QED BY <1>2, <1>3 DEF Addresses

LEMMA LoadedTyped ==
  ASSUME NEW s \in Seq(Client)
  PROVE  DOMAIN Loaded(s) \subseteq Macs /\ \A m \in DOMAIN Loaded(s) : Loaded(s)[m] \in Ips
  <1>1. << >> \in Seq(Client)
    OBVIOUS
  <1> QED BY <1>1, AddressesTyped DEF Loaded

(* Whatever the administrator saves is a list of clients. *)
LEMMA EditsTyped ==
  ASSUME NEW s \in Seq(Client), NEW t \in Edited(s)
  PROVE  t \in Seq(Client)
  <1>l. Len(s) \in Nat /\ DOMAIN s = 1 .. Len(s)
    OBVIOUS
  <1>1. ASSUME NEW i \in DOMAIN s PROVE RemoveAt(s, i) \in Seq(Client)
    <2>1. SubSeq(s, 1, i - 1) \in Seq(Client) /\ SubSeq(s, i + 1, Len(s)) \in Seq(Client)
      BY <1>l
    <2> QED BY <2>1 DEF RemoveAt
  <1>2. ASSUME NEW i \in DOMAIN s, NEW a \in Pool PROVE Moved(s, i, a) \in Seq(Client)
    <2>1. a \in Ips /\ s[i] \in Client
      BY PoolFits
    <2>2. [s[i] EXCEPT !.ip = a] \in Client
      BY <2>1 DEF Client
    <2> DEFINE d == [s[i] EXCEPT !.ip = a]
    <2> HIDE DEF d
    <2>3. [s EXCEPT ![i] = d] \in Seq(Client)
      BY <2>2 DEF d
    <2> QED BY <2>3 DEF d, Moved
  <1>3. AutoFix(s) \in Seq(Client)
    BY RepairHeals
  <1> QED BY <1>1, <1>2, <1>3 DEF Edited

(* The inductive invariant, one part for the variables of each actor. More *)
(* than TypeOK it says that a packet being handled carries an address,     *)
(* which the append writes into the file.                                  *)
FilesOK ==
  /\ config \in {"on", "off", "none"} /\ filling \in {"", "on", "off"}
  /\ clients \in Seq(Client) /\ unseen \subseteq {"config", "clients", "dhcp"}
AdminOK == writes \in 0 .. MaxWrites /\ (adminSnap = NoFile \/ adminSnap \in Seq(Client))
WatchOK ==
  /\ conf \in {"on", "off", "none"} /\ wpc \in {"starting", "idle", "fix", "write", "load"}
  /\ IF wpc = "write" THEN wsnap \in Seq(Client) ELSE wsnap = NoFile
SuperOK ==
  /\ spc \in {"idle", "startDhcp", "startTftp", "stop", "dead"}
  /\ dhcp \in {"none", "up", "gone"} /\ tftp \in {"none", "up", "gone"}
TableOK ==
  DOMAIN table \subseteq Macs /\ (\A m \in DOMAIN table : table[m] \in Ips) /\ nextIp \in Ips
DwatchOK ==
  /\ dwpc \in {"none", "starting", "idle", "load", "swap"}
  /\ IF dwpc = "swap" THEN dsnap \in Seq(Client) ELSE dsnap = NoFile
PacketOK == packet \in Packets /\ (packet.step # "none" => packet.ip \in Ips)
SwitchesOK == autoAdd \in BOOLEAN /\ torn \in BOOLEAN /\ enabled \in BOOLEAN

(* A snapshot of the file is told from no snapshot. *)
LEMMA SnapsDiffer == \A s \in Seq(Client) : s # NoFile
  BY NetbootAssumption

Well ==
  /\ FilesOK /\ AdminOK /\ WatchOK /\ SuperOK /\ TableOK /\ DwatchOK /\ PacketOK
  /\ SwitchesOK /\ Tasks

LEMMA WellTyped == Well => TypeOK
  <1> SUFFICES ASSUME Well PROVE TypeOK
    OBVIOUS
  <1> DEFINE W == (wsnap = NoFile) = (wpc # "write")
             D == (dsnap = NoFile) = (dwpc # "swap")
             S == \A s \in {wsnap, dsnap, adminSnap} \ {NoFile} : s \in Seq(Client)
  <1>1. /\ IF wpc = "write" THEN wsnap \in Seq(Client) ELSE wsnap = NoFile
        /\ IF dwpc = "swap" THEN dsnap \in Seq(Client) ELSE dsnap = NoFile
        /\ adminSnap = NoFile \/ adminSnap \in Seq(Client)
    BY DEF Well, WatchOK, DwatchOK, AdminOK
  <1>2. W /\ D /\ S
    BY <1>1, SnapsDiffer
  <1> HIDE DEF W, D, S
  <1>3. /\ FilesOK /\ writes \in 0 .. MaxWrites
        /\ conf \in {"on", "off", "none"} /\ wpc \in {"starting", "idle", "fix", "write", "load"}
        /\ SuperOK /\ TableOK /\ dwpc \in {"none", "starting", "idle", "load", "swap"}
        /\ PacketOK /\ SwitchesOK
    BY DEF Well, AdminOK, WatchOK, DwatchOK
  <1> QED BY Zenon, <1>2, <1>3
          DEF TypeOK, FilesOK, SuperOK, TableOK, PacketOK, SwitchesOK, Packets, Steps, W, D, S

LEMMA NoPacketTyped == NoPacket \in Packets /\ NoPacket.step = "none"
  <1>1. (CHOOSE m \in Macs : TRUE) \in Macs
    BY NetbootAssumption
  <1> QED BY <1>1 DEF NoPacket, Packets, Steps

LEMMA InitWell == Init => Well
  <1> SUFFICES ASSUME Init PROVE Well
    OBVIOUS
  <1>1. clients \in Seq(Client)
    <2>1. PICK s \in FirstFiles : clients = AutoFix(s)
      BY DEF Init
    <2>2. s \in Seq(Client)
      BY NetbootAssumption
    <2> QED BY <2>1, <2>2, RepairHeals
  <1>2. FilesOK
    BY <1>1 DEF Init, FilesOK
  <1>3. AdminOK
    <2>1. writes = 0 /\ adminSnap = NoFile
      BY DEF Init
    <2> QED BY <2>1, NetbootAssumption DEF AdminOK
  <1>4. WatchOK /\ SuperOK /\ DwatchOK /\ Tasks
    BY DEF Init, WatchOK, SuperOK, DwatchOK, Tasks
  <1>5. TableOK
    <2>1. table = << >> /\ nextIp = 1
      BY DEF Init
    <2>2. 1 \in Ips /\ DOMAIN table = {}
      BY <2>1, PoolFits DEF Ips
    <2> QED BY <2>1, <2>2 DEF TableOK
  <1>6. PacketOK
    BY NoPacketTyped DEF Init, PacketOK
  <1>7. SwitchesOK
    BY Zenon DEF Init, SwitchesOK
  <1> QED BY <1>2, <1>3, <1>4, <1>5, <1>6, <1>7 DEF Well

(* A part survives what leaves its variables alone. *)
LEMMA UnchangedOK ==
  /\ FilesOK /\ UNCHANGED <<config, filling, clients, unseen>> => FilesOK'
  /\ AdminOK /\ UNCHANGED <<writes, adminSnap>> => AdminOK'
  /\ WatchOK /\ UNCHANGED <<conf, wpc, wsnap>> => WatchOK'
  /\ SuperOK /\ UNCHANGED <<spc, dhcp, tftp>> => SuperOK'
  /\ TableOK /\ UNCHANGED <<table, nextIp>> => TableOK'
  /\ DwatchOK /\ UNCHANGED <<dwpc, dsnap>> => DwatchOK'
  /\ PacketOK /\ UNCHANGED packet => PacketOK'
  /\ SwitchesOK /\ UNCHANGED <<autoAdd, torn, enabled>> => SwitchesOK'
  /\ Tasks /\ UNCHANGED <<dhcp, dwpc>> => Tasks'
  BY DEF FilesOK, AdminOK, WatchOK, SuperOK, TableOK, DwatchOK, PacketOK, SwitchesOK, Tasks

(* A write of clients.toml, by whichever of its three writers. *)
LEMMA WriteOK ==
  ASSUME FilesOK, NEW s \in Seq(Client), WriteClients(s)
  PROVE  FilesOK'
  BY DEF FilesOK, WriteClients

LEMMA AdminWell ==
  ASSUME Well, Admin \/ FillConfig
  PROVE  Well'
  <1> USE DEF adminVars, fileVars, watchVars, superVars, tableVars, dwatchVars
  <1>1. ASSUME NEW c \in {"on", "off"}, TruncateConfig(c) PROVE Well'
    <2>1. FilesOK'
      BY <1>1 DEF Well, FilesOK, TruncateConfig
    <2>2. AdminOK'
      <3>1. writes \in 0 .. MaxWrites /\ writes < MaxWrites /\ writes' = writes + 1
            /\ adminSnap' = adminSnap
        BY <1>1 DEF Well, AdminOK, TruncateConfig
      <3> QED BY <3>1, NetbootAssumption DEF Well, AdminOK
    <2> QED BY <1>1, <2>1, <2>2, UnchangedOK DEF Well, TruncateConfig
  <1>2. CASE FillConfig
    <2>1. FilesOK'
      BY <1>2 DEF Well, FilesOK, FillConfig
    <2> QED BY <1>2, <2>1, UnchangedOK DEF Well, FillConfig
  <1>3. CASE AdminLoads
    <2>1. AdminOK'
      <3>1. writes \in 0 .. MaxWrites /\ writes < MaxWrites /\ writes' = writes + 1
            /\ adminSnap' = clients /\ clients \in Seq(Client)
        BY <1>3 DEF Well, AdminOK, FilesOK, AdminLoads
      <3> QED BY <3>1, NetbootAssumption DEF AdminOK
    <2> QED BY <1>3, <2>1, UnchangedOK DEF Well, AdminLoads
  <1>4. CASE AdminSaves
    <2>1. PICK s \in Edited(adminSnap) : WriteClients(s)
      BY <1>4 DEF AdminSaves
    <2>2. adminSnap \in Seq(Client)
      BY <1>4 DEF AdminSaves, Well, AdminOK
    <2>3. s \in Seq(Client)
      BY <2>2, EditsTyped
    <2>4. FilesOK' /\ autoAdd' = autoAdd
      BY <2>1, <2>3, WriteOK DEF Well, WriteClients
    <2>5. AdminOK'
      BY <1>4 DEF Well, AdminOK, AdminSaves
    <2> QED BY <1>4, <2>4, <2>5, UnchangedOK DEF Well, AdminSaves
  <1> QED BY <1>1, <1>2, <1>3, <1>4 DEF Admin

LEMMA WatcherWell ==
  ASSUME Well, Watcher
  PROVE  Well'
  <1> USE DEF adminVars, fileVars, watchVars, superVars, tableVars, dwatchVars
  <1>1. CASE WatchFirstStat
    <2>1. FilesOK' /\ WatchOK'
      BY <1>1 DEF Well, FilesOK, WatchOK, WatchFirstStat
    <2> QED BY <1>1, <2>1, UnchangedOK DEF Well, WatchFirstStat
  <1>2. CASE WatchStat
    <2>1. FilesOK' /\ WatchOK'
      BY <1>2 DEF Well, FilesOK, WatchOK, WatchStat
    <2> QED BY <1>2, <2>1, UnchangedOK DEF Well, WatchStat
  <1>3. CASE WatchFixRead
    <2>1. WatchOK'
      BY <1>3 DEF Well, FilesOK, WatchOK, WatchFixRead
    <2> QED BY <1>3, <2>1, UnchangedOK DEF Well, WatchFixRead
  <1>4. CASE WatchFixWrite
    <2>1. wsnap \in Seq(Client)
      BY <1>4 DEF Well, WatchOK, WatchFixWrite
    <2>2. AutoFix(wsnap) \in Seq(Client)
      BY <2>1, RepairHeals
    <2>3. FilesOK' /\ autoAdd' = autoAdd
      BY <1>4, <2>2, WriteOK DEF Well, WatchFixWrite, WriteClients
    <2>4. WatchOK'
      BY <1>4 DEF Well, WatchOK, WatchFixWrite
    <2> QED BY <1>4, <2>3, <2>4, UnchangedOK DEF Well, WatchFixWrite
  <1>5. CASE WatchLoad
    <2>1. WatchOK'
      BY <1>5 DEF Well, FilesOK, WatchOK, WatchLoad
    <2>2. SwitchesOK'
      <3>1. torn' \in BOOLEAN
        BY Zenon, <1>5 DEF WatchLoad
      <3> QED BY Zenon, <1>5, <3>1 DEF Well, SwitchesOK, WatchLoad
    <2> QED BY <1>5, <2>1, <2>2, UnchangedOK DEF Well, WatchLoad
  <1> QED BY <1>1, <1>2, <1>3, <1>4, <1>5 DEF Watcher

LEMMA SupervisorWell ==
  ASSUME Well, Supervisor
  PROVE  Well'
  <1> USE DEF adminVars, fileVars, watchVars, superVars, tableVars, dwatchVars
  <1>1. CASE SuperTick
    <2>1. SuperOK'
      BY <1>1 DEF Well, SuperOK, SuperTick
    <2> QED BY <1>1, <2>1, UnchangedOK DEF Well, SuperTick
  <1>2. CASE StartDhcp
    <2>1. SuperOK'
      BY <1>2 DEF Well, SuperOK, StartDhcp
    <2>2. TableOK' /\ DwatchOK' /\ Tasks'
      <3>1. CASE UNCHANGED <<dhcp, tableVars, dwpc>>
        BY <1>2, <3>1, UnchangedOK DEF Well, StartDhcp
      <3>2. CASE ~Port67InUse /\ table' = Loaded(clients) /\ nextIp' = 1
                 /\ dhcp' = "up" /\ dwpc' = "starting"
        <4>0. 1 \in Ips
          BY PoolFits DEF Ips
        <4>1. clients \in Seq(Client)
          BY DEF Well, FilesOK
        <4>2. TableOK'
          BY <3>2, <4>0, <4>1, LoadedTyped DEF TableOK
        <4>3. DwatchOK'
          BY <1>2, <3>2 DEF Well, DwatchOK, Tasks, Port67InUse, StartDhcp
        <4> QED BY <3>2, <4>2, <4>3 DEF Tasks
      <3> QED BY <1>2, <3>1, <3>2 DEF StartDhcp
    <2> QED BY <1>2, <2>1, <2>2, UnchangedOK DEF Well, StartDhcp
  <1>3. CASE StartTftp
    <2>1. SuperOK'
      BY <1>3 DEF Well, SuperOK, StartTftp
    <2>2. SwitchesOK'
      BY Zenon, <1>3 DEF Well, SwitchesOK, StartTftp
    <2> QED BY <1>3, <2>1, <2>2, UnchangedOK DEF Well, StartTftp
  <1>4. CASE Stop
    <2>1. SuperOK'
      BY <1>4 DEF Well, SuperOK, Stop
    <2>2. SwitchesOK'
      BY Zenon, <1>4 DEF Well, SwitchesOK, Stop
    <2>3. PacketOK'
      BY <1>4, NoPacketTyped DEF PacketOK, Stop
    <2>4. Tasks'
      BY <1>4 DEF Well, Tasks, Stop
    <2> QED BY <1>4, <2>1, <2>2, <2>3, <2>4, UnchangedOK DEF Well, Stop
  <1> QED BY <1>1, <1>2, <1>3, <1>4 DEF Supervisor

LEMMA DhcpWatcherWell ==
  ASSUME Well, DhcpWatcher
  PROVE  Well'
  <1> USE DEF adminVars, fileVars, watchVars, superVars, tableVars, dwatchVars
  <1>1. CASE DhcpFirstStat
    <2>1. FilesOK' /\ DwatchOK' /\ Tasks'
      BY <1>1 DEF Well, FilesOK, DwatchOK, Tasks, DhcpFirstStat
    <2> QED BY <1>1, <2>1, UnchangedOK DEF Well, DhcpFirstStat
  <1>2. CASE DhcpStat
    <2>1. FilesOK' /\ DwatchOK' /\ Tasks'
      BY <1>2 DEF Well, FilesOK, DwatchOK, Tasks, DhcpStat
    <2> QED BY <1>2, <2>1, UnchangedOK DEF Well, DhcpStat
  <1>3. CASE DhcpLoad
    <2>1. DwatchOK' /\ Tasks'
      BY <1>3 DEF Well, FilesOK, DwatchOK, Tasks, DhcpLoad
    <2> QED BY <1>3, <2>1, UnchangedOK DEF Well, DhcpLoad
  <1>4. CASE DhcpSwap
    <2>1. dsnap \in Seq(Client)
      BY <1>4 DEF Well, DwatchOK, DhcpSwap
    <2>2. TableOK'
      BY <1>4, <2>1, AddressesTyped DEF Well, TableOK, DhcpSwap
    <2>3. DwatchOK' /\ Tasks'
      BY <1>4 DEF Well, DwatchOK, Tasks, DhcpSwap
    <2> QED BY <1>4, <2>2, <2>3, UnchangedOK DEF Well, DhcpSwap
  <1> QED BY <1>1, <1>2, <1>3, <1>4 DEF DhcpWatcher

(* The packet at its next step. *)
LEMMA PacketMoves ==
  ASSUME PacketOK, NEW step \in Steps
  PROVE  /\ [packet EXCEPT !.step = step] \in Packets
         /\ [packet EXCEPT !.step = step].ip = packet.ip
  BY DEF PacketOK, Packets

LEMMA PacketWell ==
  ASSUME Well, Handling \/ \E m \in Macs : Receive(m)
  PROVE  Well'
  <1> USE DEF adminVars, fileVars, watchVars, superVars, tableVars, dwatchVars
  <1>1. CASE AppendLoad
    <2>1. PacketOK'
      BY <1>1, PacketMoves DEF Well, PacketOK, Steps, AppendLoad
    <2> QED BY <1>1, <2>1, UnchangedOK DEF Well, AppendLoad
  <1>2. CASE AppendWrite
    <2> DEFINE c == [mac |-> packet.mac, ip |-> packet.ip]
    <2>1. c \in Client
      BY <1>2 DEF Well, PacketOK, Packets, Client, AppendWrite
    <2>5. WriteClients(Append(clients, c))
      BY <1>2 DEF AppendWrite
    <2> HIDE DEF c
    <2>6. Append(clients, c) \in Seq(Client)
      <3>1. clients \in Seq(Client)
        BY DEF Well, FilesOK
      <3> QED BY <2>1, <3>1
    <2>2. PICK s \in Seq(Client) : WriteClients(s)
      BY <2>5, <2>6
    <2>3. FilesOK' /\ autoAdd' = autoAdd
      BY <2>2, WriteOK DEF Well, WriteClients
    <2>4. PacketOK'
      BY <1>2, PacketMoves DEF Well, PacketOK, Steps, AppendWrite
    <2> QED BY <1>2, <2>3, <2>4, UnchangedOK DEF Well, AppendWrite
  <1>3. CASE Reply
    <2>1. SuperOK' /\ Tasks'
      BY <1>3 DEF Well, SuperOK, Tasks, Reply
    <2>2. PacketOK'
      BY <1>3, NoPacketTyped DEF PacketOK, Reply
    <2> QED BY <1>3, <2>1, <2>2, UnchangedOK DEF Well, Reply
  <1>4. ASSUME NEW m \in Macs, Receive(m) PROVE Well'
    <2>1. SuperOK' /\ Tasks'
      BY <1>4 DEF Well, SuperOK, Tasks, Receive
    <2>2. TableOK' /\ PacketOK'
      <3>1. CASE m \in DOMAIN table
        <4>1. /\ packet' = [mac |-> m, ip |-> table[m], step |-> "reply"]
              /\ UNCHANGED <<table, nextIp>>
          BY <1>4, <3>1 DEF Receive
        <4>2. table[m] \in Ips
          BY <3>1 DEF Well, TableOK
        <4>3. packet' \in Packets /\ packet'.ip \in Ips
          BY <4>1, <4>2 DEF Packets, Steps
        <4> QED BY <4>1, <4>3, UnchangedOK DEF Well, PacketOK
      <3>2. CASE m \notin DOMAIN table
        <4>1. nextIp \in Ips /\ nextIp' \in Ips
          <5>1. nextIp \in Ips /\ nextIp < MaxIp /\ nextIp' = nextIp + 1
            BY <1>4, <3>2 DEF Receive, Well, TableOK
          <5> QED BY <5>1, PoolFits DEF Ips
        <4>2. CASE UNCHANGED <<table, packet>>
          <5>1. TableOK'
            BY <4>1, <4>2 DEF Well, TableOK
          <5> QED BY <4>2, <5>1, UnchangedOK DEF Well
        <4>3. CASE /\ table' = [n \in DOMAIN table \cup {m} |-> IF n = m THEN nextIp ELSE table[n]]
                   /\ packet' = [mac |-> m, ip |-> nextIp,
                                 step |-> IF autoAdd THEN "append" ELSE "reply"]
          <5>1. TableOK'
            BY <4>1, <4>3 DEF Well, TableOK
          <5>2. packet' \in Packets /\ packet'.ip \in Ips
            BY <4>1, <4>3 DEF Packets, Steps
          <5> QED BY <5>1, <5>2 DEF PacketOK
        <4> QED BY <1>4, <3>2, <4>2, <4>3 DEF Receive
      <3> QED BY <3>1, <3>2
    <2> QED BY <1>4, <2>1, <2>2, UnchangedOK DEF Well, Receive
  <1> QED BY <1>1, <1>2, <1>3, <1>4 DEF Handling

LEMMA NextWell == Well /\ [Next]_vars => Well'
  <1> SUFFICES ASSUME Well, [Next]_vars PROVE Well'
    OBVIOUS
  <1>1. CASE UNCHANGED vars
    BY <1>1, UnchangedOK
    DEF Well, vars, adminVars, fileVars, watchVars, superVars, tableVars, dwatchVars
  <1>2. CASE Next
    BY <1>2, AdminWell, WatcherWell, SupervisorWell, DhcpWatcherWell, PacketWell DEF Next
  <1> QED BY <1>1, <1>2

(* Whatever clients.toml holds and however DHCP, the administrator and the *)
(* repair write it: the file stays a list of clients, the DHCP table maps  *)
(* cards to addresses below the bound, and a watcher holds a snapshot      *)
(* exactly while it is about to use it.                                    *)
THEOREM TypeCorrect == Spec => []TypeOK
  BY InitWell, NextWell, WellTyped, PTL DEF Spec

-----------------------------------------------------------------------------
(* Tables *)

(* A table made from a file without a card twice serves that file.         *)
LEMMA AddressesServe ==
  ASSUME NEW s, MacsDistinct(s)
  PROVE  Serves(Addresses(s), s)
  <1> SUFFICES ASSUME NEW c \in Entries(s)
               PROVE  c.mac \in DOMAIN Addresses(s) /\ Addresses(s)[c.mac] = c.ip
    BY DEF Serves
  <1> DEFINE d == CHOOSE e \in Entries(s) : e.mac = c.mac
  <1>1. d \in Entries(s) /\ d.mac = c.mac
    OBVIOUS
  <1>2. PICK i \in DOMAIN s : c = s[i]
    BY DEF Entries
  <1>3. PICK j \in DOMAIN s : d = s[j]
    BY <1>1 DEF Entries
  <1>4. d = c
    BY <1>1, <1>2, <1>3 DEF MacsDistinct
  <1> QED BY <1>4 DEF Addresses

(* A card that is not in the table is not in the file it serves.           *)
LEMMA NewCardServes ==
  ASSUME NEW t, NEW s, Serves(t, s), NEW m, m \notin DOMAIN t, NEW a
  PROVE  Serves([n \in DOMAIN t \cup {m} |-> IF n = m THEN a ELSE t[n]], s)
  BY DEF Serves

-----------------------------------------------------------------------------
(* The inductive invariant: between its first look and its next one the    *)
(* watcher's table serves the file unless a write is still unseen, and what*)
(* it is about to put in force is the file, or again a write is unseen.    *)

Follows ==
  /\ dwpc \in {"none", "starting", "idle", "load", "swap"}
  /\ dwpc = "starting" /\ MacsDistinct(clients) => Serves(table, clients)
  /\ dwpc = "idle" /\ "dhcp" \notin unseen /\ MacsDistinct(clients) => Serves(table, clients)
  /\ dwpc = "swap" => MacsDistinct(dsnap)
  /\ dwpc = "swap" /\ "dhcp" \notin unseen => dsnap = clients

LEMMA InitFollows == Init => Follows
  BY DEF Init, Follows

(* A write leaves the DHCP watcher something to see. *)
LEMMA WriteFollows ==
  ASSUME Follows, QuietStart, NEW s, WriteClients(s), UNCHANGED <<table, dwpc, dsnap>>
  PROVE  Follows'
  <1>1. dwpc # "starting" /\ "dhcp" \in unseen'
    BY DEF WriteClients
  <1> QED BY <1>1 DEF Follows

(* A step that changes neither the table, the file nor the watcher.        *)
LEMMA ElsewhereFollows ==
  ASSUME Follows, UNCHANGED <<table, dwpc, dsnap, clients>>,
         "dhcp" \in unseen => "dhcp" \in unseen'
  PROVE  Follows'
  BY DEF Follows

LEMMA NextFollows == QuietStart /\ Follows /\ [Next]_vars => Follows'
  <1> SUFFICES ASSUME QuietStart, Follows, [Next]_vars PROVE Follows'
    OBVIOUS
  <1> USE DEF adminVars, fileVars, watchVars, superVars, tableVars, dwatchVars
  <1>1. CASE UNCHANGED vars
    BY <1>1, ElsewhereFollows DEF vars, Follows
  <1>2. CASE Admin \/ FillConfig
    <2>1. CASE (\E c \in {"on", "off"} : TruncateConfig(c)) \/ AdminLoads \/ FillConfig
      BY <2>1, ElsewhereFollows DEF TruncateConfig, AdminLoads, FillConfig, Follows
    <2>2. CASE AdminSaves
      <3>1. PICK s : WriteClients(s)
        BY <2>2 DEF AdminSaves
      <3> QED BY <2>2, <3>1, WriteFollows DEF AdminSaves
    <2> QED BY <1>2, <2>1, <2>2 DEF Admin
  <1>3. CASE Watcher
    <2>1. CASE WatchFirstStat \/ WatchStat \/ WatchFixRead \/ WatchLoad
      BY <2>1, ElsewhereFollows DEF WatchFirstStat, WatchStat, WatchFixRead, WatchLoad, Follows
    <2>2. CASE WatchFixWrite
      BY <2>2, WriteFollows DEF WatchFixWrite
    <2> QED BY <1>3, <2>1, <2>2 DEF Watcher
  <1>4. CASE Supervisor
    <2>1. CASE SuperTick \/ StartTftp \/ Stop
      BY <2>1, ElsewhereFollows DEF SuperTick, StartTftp, Stop, Follows
    <2>2. CASE StartDhcp /\ dwpc' = "starting" /\ table' = Loaded(clients)
      BY <2>2, AddressesServe DEF StartDhcp, Follows, Loaded
    <2>3. CASE StartDhcp /\ UNCHANGED <<tableVars, dwpc>>
      BY <2>3, ElsewhereFollows DEF StartDhcp, Follows
    <2> QED BY <1>4, <2>1, <2>2, <2>3 DEF Supervisor, StartDhcp
  <1>5. CASE DhcpWatcher
    <2>1. CASE DhcpFirstStat
      BY <2>1 DEF DhcpFirstStat, Follows
    <2>2. CASE DhcpStat
      BY <2>2 DEF DhcpStat, Follows
    <2>3. CASE DhcpLoad
      BY <2>3 DEF DhcpLoad, Follows
    <2>4. CASE DhcpSwap
      BY <2>4, AddressesServe DEF DhcpSwap, Follows
    <2> QED BY <1>5, <2>1, <2>2, <2>3, <2>4 DEF DhcpWatcher
  <1>6. CASE Handling
    <2>1. CASE AppendLoad \/ Reply
      BY <2>1, ElsewhereFollows DEF AppendLoad, Reply, Follows
    <2>2. CASE AppendWrite
      <3>1. PICK s : WriteClients(s)
        BY <2>2 DEF AppendWrite
      <3> QED BY <2>2, <3>1, WriteFollows DEF AppendWrite
    <2> QED BY <1>6, <2>1, <2>2 DEF Handling
  <1>7. ASSUME NEW m \in Macs, Receive(m) PROVE Follows'
    <2>1. CASE UNCHANGED table
      BY <1>7, <2>1, ElsewhereFollows DEF Receive, Follows
    <2>2. CASE m \notin DOMAIN table
               /\ table' = [n \in DOMAIN table \cup {m} |-> IF n = m THEN nextIp ELSE table[n]]
      BY <1>7, <2>2, NewCardServes DEF Receive, Follows
    <2> QED BY <1>7, <2>1, <2>2 DEF Receive
  <1> QED BY <1>1, <1>2, <1>3, <1>4, <1>5, <1>6, <1>7 DEF Next

-----------------------------------------------------------------------------
(* Whatever clients.toml holds, however often DHCP, the administrator and  *)
(* the repair write it, and wherever the services are stopped: once the    *)
(* DHCP server has seen the last write, it serves what the file says - if  *)
(* the file rests while a watcher starts.                                  *)
THEOREM TableSynced ==
  ASSUME QuietStart
  PROVE  Spec => []SyncedTable
  <1>1. Follows => SyncedTable
    BY DEF Follows, SyncedTable
  <1>2. Follows /\ [Next]_vars => Follows'
    BY NextFollows
  <1> QED BY <1>1, <1>2, InitFollows, PTL DEF Spec
=============================================================================
