------------------------------ MODULE TftpProofs ------------------------------
(***************************************************************************)
(* Proofs about Tftp, for every length of the file, wrap of the block      *)
(* number, number of retries, requests, faults and versions: what the      *)
(* client takes is the beginning of the file, and what the server reports  *)
(* complete it has delivered.                                              *)
(***************************************************************************)
EXTENDS Tftp, SequenceTheorems, TLAPS

(* A packet is only taken for another one if it is a whole round of block  *)
(* numbers late, which a file of fewer blocks than a round has not, and    *)
(* which takes as many faults as a round has numbers.                      *)
NoWholeRound == NumBlocks < Wrap \/ MaxFaults < Wrap

Packets == [kind : {"oack", "data", "error"}, num : 0 .. Wrap - 1, data : Blocks \X Versions]
Replies == [kind : {"ack", "error"}, num : 0 .. Wrap - 1, block : Blocks]

Places == [pc : {"none", "wait", "done", "failed", "refused", "sendFailed"},
           block : Blocks, retries : 0 .. MaxRetries - 1, version : Versions]

Counts ==
  /\ file \in Versions /\ options \in BOOLEAN
  /\ phase \in {"asking", "receiving", "done", "refused", "gaveUp"}
  /\ tid \in 0 .. MaxAsks /\ asks \in 0 .. MaxAsks /\ requests \in 0 .. MaxAsks
  /\ faults \in 0 .. MaxFaults

Types ==
  /\ Counts /\ got \in Seq(Blocks \X Versions) /\ xfer \in [Transfers -> Places]
  /\ toClient \in [Transfers -> Seq(Packets)] /\ toServer \in [Transfers -> Seq(Replies)]

(* The client has nothing before it keeps to a transfer, and is done with  *)
(* the last block.                                                         *)
Client ==
  /\ tid = 0 => got = << >> /\ phase \in {"asking", "refused", "gaveUp"}
  /\ phase \in {"asking", "refused"} => tid = 0
  /\ Len(got) <= NumBlocks /\ (phase = "receiving" => Len(got) < NumBlocks)

(* The transfers that have begun are the first ones, no more than the      *)
(* requests that came through.                                             *)
Starts == \E n \in 0 .. MaxAsks :
  n + requests <= asks /\ \A t \in Transfers : xfer[t].pc = "none" <=> t > n

-----------------------------------------------------------------------------
(* Data *)

LEMMA Numbers ==
  /\ NumBlocks \in Nat /\ NumBlocks > 0 /\ Wrap \in Nat /\ Wrap > 1
  /\ MaxRetries \in Nat /\ MaxRetries > 0 /\ MaxAsks \in Nat /\ MaxAsks > 0
  /\ MaxFaults \in Nat /\ MaxVersions \in Nat
  /\ 0 \in Blocks /\ 1 \in Blocks /\ 0 \in Versions /\ 0 \in 0 .. Wrap - 1
  /\ \A b \in Blocks : b \in Nat
  BY TftpAssumption DEF Blocks, Versions

LEMMA NumIs ==
  ASSUME NEW b \in Nat
  PROVE  Num(b) \in 0 .. Wrap - 1
  BY Numbers DEF Num

(* Numbers less than a round apart tell blocks apart.                      *)
LEMMA SameNumber ==
  ASSUME NEW x \in Nat, NEW y \in Nat, Num(x) = Num(y), x - y < Wrap, y - x < Wrap
  PROVE  x = y
  <1>1. Wrap \in Nat \ {0}
    BY Numbers
  <1>2. PICK p \in Int : x = Wrap * p + (x % Wrap)
    <2>1. x = Wrap * (x \div Wrap) + (x % Wrap) /\ x \div Wrap \in Int
      BY <1>1
    <2> QED BY <2>1
  <1>3. PICK q \in Int : y = Wrap * q + (y % Wrap)
    <2>1. y = Wrap * (y \div Wrap) + (y % Wrap) /\ y \div Wrap \in Int
      BY <1>1
    <2> QED BY <2>1
  <1>4. x - y = Wrap * (p - q) /\ p - q \in Int
    <2>1. x % Wrap = y % Wrap /\ x % Wrap \in Int
      BY <1>1 DEF Num
    <2>2. Wrap * p \in Int /\ Wrap * q \in Int /\ Wrap * (p - q) = Wrap * p - Wrap * q
      BY <1>1
    <2> QED BY <1>2, <1>3, <2>1, <2>2
  <1>5. ASSUME p - q >= 1 PROVE FALSE
    <2>1. Wrap * (p - q) >= Wrap
      BY <1>1, <1>5
    <2> QED BY <1>1, <1>4, <2>1
  <1>6. ASSUME p - q <= -1 PROVE FALSE
    <2>1. Wrap * (p - q) <= - Wrap
      BY <1>1, <1>6
    <2> QED BY <1>1, <1>4, <2>1
  <1>7. p - q = 0
    BY <1>5, <1>6
  <1>8. Wrap * 0 = 0
    BY <1>1
  <1> QED BY <1>4, <1>7, <1>8

LEMMA PacketIs ==
  ASSUME NEW b \in Blocks, NEW v \in Versions
  PROVE  /\ Packet(b, v) \in Packets /\ Packet(b, v).data = <<b, v>>
         /\ Packet(b, v).kind = IF b = 0 THEN "oack" ELSE "data"
         /\ b # 0 => Packet(b, v).num = Num(b)
         /\ Refusal \in Packets /\ Refusal.kind = "error"
  <1>1. b \in Nat /\ Num(b) \in 0 .. Wrap - 1 /\ 0 \in 0 .. Wrap - 1
    BY Numbers, NumIs
  <1>2. <<b, v>> \in Blocks \X Versions /\ <<0, 0>> \in Blocks \X Versions
    BY Numbers
  <1>3. Packet(b, v) = IF b = 0 THEN [kind |-> "oack", num |-> 0, data |-> <<b, v>>]
                       ELSE [kind |-> "data", num |-> Num(b), data |-> <<b, v>>]
    BY DEF Packet
  <1>4. Packet(b, v) \in Packets
    <2>1. CASE b = 0
      BY <1>1, <1>2, <1>3, <2>1 DEF Packets
    <2>2. CASE b # 0
      BY <1>1, <1>2, <1>3, <2>2 DEF Packets
    <2> QED BY <2>1, <2>2
  <1>5. Refusal \in Packets
    BY <1>1, <1>2 DEF Refusal, Packets
  <1> QED BY <1>3, <1>4, <1>5 DEF Refusal

LEMMA ReplyIs ==
  ASSUME NEW b \in Blocks
  PROVE  /\ Ack(b) \in Replies /\ Ack(b).kind = "ack" /\ Ack(b).num = Num(b) /\ Ack(b).block = b
         /\ ErrorPacket \in Replies /\ ErrorPacket.kind = "error"
  <1>1. Num(b) \in 0 .. Wrap - 1
    BY Numbers, NumIs
  <1> QED BY <1>1, Numbers DEF Ack, ErrorPacket, Replies

LEMMA AppendAt ==
  ASSUME NEW S, NEW q \in Seq(S), NEW x \in S
  PROVE  /\ Append(q, x) \in Seq(S)
         /\ DOMAIN q = 1 .. Len(q) /\ Len(q) \in Nat
         /\ DOMAIN Append(q, x) = 1 .. Len(q) + 1
         /\ Len(Append(q, x)) = Len(q) + 1
         /\ \A i \in 1 .. Len(q) : Append(q, x)[i] = q[i]
         /\ Append(q, x)[Len(q) + 1] = x
  OBVIOUS

LEMMA TailAt ==
  ASSUME NEW S, NEW q \in Seq(S), q # << >>
  PROVE  /\ Tail(q) \in Seq(S) /\ Head(q) \in S /\ Head(q) = q[1]
         /\ DOMAIN q = 1 .. Len(q) /\ Len(q) \in Nat /\ Len(q) > 0
         /\ DOMAIN Tail(q) = 1 .. Len(q) - 1 /\ Len(Tail(q)) = Len(q) - 1
         /\ \A i \in 1 .. Len(q) - 1 : Tail(q)[i] = q[i + 1]
  OBVIOUS

(* What is in r was in s. *)
Within(r, s) == \A i \in DOMAIN r : \E k \in DOMAIN s : r[i] = s[k]

LEMMA TailWithin ==
  ASSUME NEW S, NEW q \in Seq(S), q # << >>
  PROVE  Within(Tail(q), q)
  <1> SUFFICES ASSUME NEW i \in DOMAIN Tail(q) PROVE \E k \in DOMAIN q : Tail(q)[i] = q[k]
    BY DEF Within
  <1>1. i + 1 \in DOMAIN q /\ Tail(q)[i] = q[i + 1]
    BY TailAt
  <1> QED BY <1>1

LEMMA PartWithin ==
  ASSUME NEW S, NEW s \in Seq(S), NEW m \in 1 .. Len(s) + 1, NEW n \in 0 .. Len(s)
  PROVE  SubSeq(s, m, n) \in Seq(S) /\ Within(SubSeq(s, m, n), s)
  <1> DEFINE p == SubSeq(s, m, n)
  <1>1. DOMAIN s = 1 .. Len(s) /\ Len(s) \in Nat
    OBVIOUS
  <1>2. /\ p \in Seq(S) /\ Len(p) = IF m <= n THEN n - m + 1 ELSE 0
        /\ \A i \in 1 .. n - m + 1 : p[i] = s[m + i - 1]
    BY <1>1, SubSeqProperties
  <1> HIDE DEF p
  <1>3. DOMAIN p = 1 .. Len(p)
    BY <1>2
  <1>4. ASSUME NEW i \in DOMAIN p PROVE \E k \in DOMAIN s : p[i] = s[k]
    <2>1. i \in 1 .. n - m + 1 /\ m + i - 1 \in DOMAIN s
      BY <1>1, <1>2, <1>3
    <2> QED BY <1>2, <2>1
  <1>5. p \in Seq(S) /\ Within(p, s)
    BY <1>2, <1>4 DEF Within
  <1> QED BY <1>5 DEF p

LEMMA ConcatWithin ==
  ASSUME NEW S, NEW s, NEW u \in Seq(S), NEW v \in Seq(S), Within(u, s), Within(v, s)
  PROVE  u \o v \in Seq(S) /\ Within(u \o v, s)
  <1> DEFINE r == u \o v
  <1>1. /\ r \in Seq(S) /\ Len(r) = Len(u) + Len(v)
        /\ \A i \in 1 .. Len(u) + Len(v) : r[i] = IF i <= Len(u) THEN u[i] ELSE v[i - Len(u)]
    BY ConcatProperties
  <1>2. DOMAIN u = 1 .. Len(u) /\ Len(u) \in Nat /\ DOMAIN v = 1 .. Len(v) /\ Len(v) \in Nat
    OBVIOUS
  <1> HIDE DEF r
  <1>3. DOMAIN r = 1 .. Len(u) + Len(v)
    BY <1>1
  <1>4. ASSUME NEW i \in DOMAIN r PROVE \E k \in DOMAIN s : r[i] = s[k]
    <2>1. CASE i <= Len(u)
      BY <1>1, <1>2, <1>3, <2>1 DEF Within
    <2>2. CASE i > Len(u)
      <3>1. i - Len(u) \in DOMAIN v /\ r[i] = v[i - Len(u)]
        BY <1>1, <1>2, <1>3, <2>2
      <3> QED BY <3>1 DEF Within
    <2> QED BY <1>2, <1>3, <2>1, <2>2
  <1>5. r \in Seq(S) /\ Within(r, s)
    BY <1>1, <1>4 DEF Within
  <1> QED BY <1>5 DEF r

(* The network and a failing send make nothing up. *)
LEMMA DisturbedWithin ==
  ASSUME NEW S, NEW s \in Seq(S), NEW r \in Disturbed(s)
  PROVE  r \in Seq(S) /\ Within(r, s)
  <1>1. DOMAIN s = 1 .. Len(s) /\ Len(s) \in Nat
    OBVIOUS
  <1>2. ASSUME NEW n \in 1 .. Len(s), r = RemoveAt(s, n) PROVE r \in Seq(S) /\ Within(r, s)
    <2>1. /\ SubSeq(s, 1, n - 1) \in Seq(S) /\ Within(SubSeq(s, 1, n - 1), s)
          /\ SubSeq(s, n + 1, Len(s)) \in Seq(S) /\ Within(SubSeq(s, n + 1, Len(s)), s)
      BY <1>1, PartWithin
    <2>2. r = SubSeq(s, 1, n - 1) \o SubSeq(s, n + 1, Len(s))
      BY <1>2 DEF RemoveAt
    <2> QED BY <2>1, <2>2, ConcatWithin
  <1>3. ASSUME NEW n \in 1 .. Len(s), r = InsertAt(s, n, s[n]) PROVE r \in Seq(S) /\ Within(r, s)
    <2>1. /\ SubSeq(s, 1, n - 1) \in Seq(S) /\ Within(SubSeq(s, 1, n - 1), s)
          /\ SubSeq(s, n, Len(s)) \in Seq(S) /\ Within(SubSeq(s, n, Len(s)), s)
      BY <1>1, PartWithin
    <2>2. <<s[n]>> \in Seq(S) /\ Within(<<s[n]>>, s)
      BY <1>1 DEF Within
    <2>3. r = (SubSeq(s, 1, n - 1) \o <<s[n]>>) \o SubSeq(s, n, Len(s))
      BY <1>3 DEF InsertAt
    <2> QED BY <2>1, <2>2, <2>3, ConcatWithin
  <1>4. ASSUME NEW n \in 1 .. Len(s) - 1,
               r = ReplaceAt(ReplaceAt(s, n, s[n + 1]), n + 1, s[n])
        PROVE  r \in Seq(S) /\ Within(r, s)
    <2>1. r = [[s EXCEPT ![n] = s[n + 1]] EXCEPT ![n + 1] = s[n]]
      BY <1>4 DEF ReplaceAt
    <2>2. n \in DOMAIN s /\ n + 1 \in DOMAIN s /\ n # n + 1
      BY <1>1
    <2>3. /\ r \in Seq(S) /\ DOMAIN r = DOMAIN s
          /\ \A i \in DOMAIN s : r[i] = IF i = n + 1 THEN s[n] ELSE IF i = n THEN s[n + 1] ELSE s[i]
      BY <1>1, <2>1, <2>2
    <2> QED BY <2>2, <2>3 DEF Within
  <1> QED BY <1>1, <1>2, <1>3, <1>4 DEF Disturbed

LEMMA FrontWithin ==
  ASSUME NEW S, NEW s \in Seq(S), s # << >>
  PROVE  Front(s) \in Seq(S) /\ Within(Front(s), s)
  <1>1. /\ Front(s) \in Seq(S) /\ DOMAIN Front(s) = 1 .. Len(s) - 1
        /\ \A i \in 1 .. Len(s) - 1 : Front(s)[i] = s[i]
    BY DEF Front
  <1>2. DOMAIN s = 1 .. Len(s) /\ Len(s) \in Nat
    OBVIOUS
  <1> QED BY <1>1, <1>2 DEF Within

-----------------------------------------------------------------------------
(* Types *)

LEMMA CountsAre ==
  ASSUME Counts
  PROVE  /\ file \in Nat /\ file <= MaxVersions /\ faults \in Nat /\ faults <= MaxFaults
         /\ asks \in Nat /\ asks <= MaxAsks /\ requests \in Nat /\ requests <= MaxAsks
         /\ tid \in Nat /\ tid <= MaxAsks
  BY Numbers DEF Counts, Versions

LEMMA PlaceIs ==
  ASSUME NEW x \in Places
  PROVE  /\ x.block \in Blocks /\ x.block \in Nat /\ x.block <= NumBlocks
         /\ x.version \in Versions /\ x.retries \in Nat
         /\ x.block # NumBlocks => x.block + 1 \in Blocks
  BY Numbers DEF Places, Blocks

LEMMA PlaceMoves ==
  ASSUME NEW x \in Places
  PROVE  /\ \A c \in {"none", "wait", "done", "failed", "refused", "sendFailed"} :
              [x EXCEPT !.pc = c] \in Places /\ [x EXCEPT !.pc = c].pc = c
         /\ x.retries + 1 < MaxRetries =>
              [x EXCEPT !.retries = @ + 1] \in Places /\ [x EXCEPT !.retries = @ + 1].pc = x.pc
         /\ x.block # NumBlocks =>
              /\ [x EXCEPT !.block = @ + 1, !.retries = 0] \in Places
              /\ [x EXCEPT !.block = @ + 1, !.retries = 0].pc = x.pc
              /\ [x EXCEPT !.block = @ + 1, !.retries = 0].block = x.block + 1
              /\ [x EXCEPT !.block = @ + 1, !.retries = 0].version = x.version
  <1>1. x.block # NumBlocks => x.block + 1 \in Blocks
    BY PlaceIs
  <1>2. 0 \in 0 .. MaxRetries - 1
    BY Numbers
  <1>3. x.retries \in 0 .. MaxRetries - 1
    BY DEF Places
  <1>4. x.retries + 1 < MaxRetries => x.retries + 1 \in 0 .. MaxRetries - 1
    BY <1>3, Numbers
  <1> QED BY <1>1, <1>2, <1>4 DEF Places

LEMMA Put ==
  ASSUME NEW S, NEW f \in [Transfers -> S], NEW t \in Transfers, NEW x \in S
  PROVE  /\ [f EXCEPT ![t] = x] \in [Transfers -> S] /\ [f EXCEPT ![t] = x][t] = x
         /\ \A u \in Transfers \ {t} : [f EXCEPT ![t] = x][u] = f[u]
  OBVIOUS

LEMMA ArraysAre ==
  ASSUME Types, NEW t \in Transfers
  PROVE  /\ xfer \in [Transfers -> Places] /\ xfer[t] \in Places
         /\ toClient \in [Transfers -> Seq(Packets)] /\ toClient[t] \in Seq(Packets)
         /\ toServer \in [Transfers -> Seq(Replies)] /\ toServer[t] \in Seq(Replies)
         /\ got \in Seq(Blocks \X Versions) /\ Len(got) \in Nat /\ Counts
         /\ t \in Nat /\ t # 0 /\ t <= MaxAsks
  BY DEF Types, Transfers

LEMMA InitTypes == Init => Types /\ Starts /\ Client
  <1> SUFFICES ASSUME Init PROVE Types /\ Starts /\ Client
    OBVIOUS
  <1>1. Idle \in Places /\ Idle.pc = "none"
    BY Numbers DEF Idle, Places
  <1>2. << >> \in Seq(Packets) /\ << >> \in Seq(Replies) /\ << >> \in Seq(Blocks \X Versions)
    OBVIOUS
  <1>3. Counts
    BY Numbers DEF Init, Counts, Versions
  <1>4. Types
    BY <1>1, <1>2, <1>3 DEF Init, Types
  <1>5. 0 \in 0 .. MaxAsks /\ 0 + requests <= asks
        /\ \A t \in Transfers : xfer[t].pc = "none" <=> t > 0
    BY <1>1, Numbers DEF Init, Transfers
  <1>6. Client
    BY Numbers DEF Init, Client
  <1> QED BY <1>4, <1>5, <1>6 DEF Starts

(* A request starts the first transfer that has not begun. *)
Free(t) == xfer[t].pc = "none" /\ (t = 1 \/ xfer[t - 1].pc # "none")
Turn == CHOOSE t \in Transfers : Free(t)

LEMMA TurnIs ==
  ASSUME Types, Starts, requests > 0
  PROVE  /\ Turn \in Transfers /\ xfer[Turn].pc = "none"
         /\ \A t \in Transfers : xfer[t].pc = "none" <=> t >= Turn
         /\ Turn + requests - 1 <= asks /\ \A t \in Transfers : t < Turn => xfer[t].pc # "none"
  <1> Counts
    BY DEF Types
  <1>1. PICK n \in 0 .. MaxAsks :
          n + requests <= asks /\ \A t \in Transfers : xfer[t].pc = "none" <=> t > n
    BY DEF Starts
  <1>2. n + 1 \in Transfers /\ Free(n + 1)
    <2>1. n + 1 \in Transfers
      BY <1>1, CountsAre, Numbers DEF Transfers
    <2>2. n + 1 = 1 \/ (n \in Transfers /\ (n + 1) - 1 = n)
      BY <2>1, Numbers DEF Transfers
    <2> QED BY <1>1, <2>1, <2>2 DEF Free
  <1>3. Turn \in Transfers /\ Free(Turn)
    BY <1>2 DEF Turn
  <1>4. Turn = n + 1
    <2>1. Turn \in Int /\ Turn > n /\ Turn >= 1 /\ Turn <= MaxAsks
      BY <1>1, <1>3, Numbers DEF Free, Transfers
    <2>2. Turn # 1 => Turn - 1 \in Transfers
      BY <2>1, Numbers DEF Transfers
    <2>3. Turn # 1 => ~(Turn - 1 > n)
      BY <1>1, <1>3, <2>2 DEF Free
    <2> QED BY <2>1, <2>3
  <1>5. \A t \in Transfers : t \in Int
    BY DEF Transfers
  <1> QED BY <1>1, <1>3, <1>4, <1>5, CountsAre DEF Free

(* What handling a request does: an error of a transfer that is over at    *)
(* once, or the first packet of one that begins.                           *)
LEMMA Requested ==
  ASSUME Types, Starts, HandleRequest
  PROVE  \E t \in Transfers :
           /\ xfer[t].pc = "none" /\ (\A u \in Transfers : xfer'[u].pc = "none" <=> u > t)
           /\ t + requests' <= asks
           /\ requests' = requests - 1 /\ UNCHANGED <<file, options, clientVars, toServer, faults>>
           /\ \E x \in Places, p \in Packets :
                /\ xfer' = [xfer EXCEPT ![t] = x]
                /\ toClient' = [toClient EXCEPT ![t] = Append(@, p)]
                /\ \/ x.pc = "refused" /\ p = Refusal
                   \/ /\ x.pc = "wait" /\ x.block = IF options THEN 0 ELSE 1
                      /\ p = Packet(x.block, x.version)
  <1> DEFINE t == Turn
             b == IF options THEN 0 ELSE 1
             w == [pc |-> "wait", block |-> b, retries |-> 0, version |-> file]
             f == [xfer[t] EXCEPT !.pc = "refused"]
  <1>1. /\ requests > 0 /\ requests' = requests - 1
        /\ \/ xfer' = [xfer EXCEPT ![t] = f] /\ toClient' = Send(toClient, t, Refusal)
           \/ xfer' = [xfer EXCEPT ![t] = w] /\ toClient' = Send(toClient, t, Packet(b, file))
    BY DEF HandleRequest, Turn, Free
  <1>2. UNCHANGED <<file, options, clientVars, toServer, faults>>
    BY DEF HandleRequest
  <1>3. t \in Transfers /\ xfer[t].pc = "none" /\ (\A u \in Transfers : xfer[u].pc = "none" <=> u >= t)
        /\ t + requests - 1 <= asks
    BY <1>1, TurnIs
  <1>4. b \in Blocks /\ file \in Versions
    BY Numbers DEF Types, Counts
  <1> HIDE DEF t, b
  <1>5. Refusal \in Packets /\ Packet(b, file) \in Packets
    BY <1>4, PacketIs
  <1>6. w \in Places /\ w.pc = "wait" /\ w.block = b /\ w.version = file
    BY <1>4, Numbers DEF Places
  <1>7. f \in Places /\ f.pc = "refused"
    <2>1. xfer[t] \in Places
      BY <1>3, ArraysAre
    <2> QED BY <2>1, PlaceMoves
  <1>8. \E x \in Places, p \in Packets :
          /\ xfer' = [xfer EXCEPT ![t] = x] /\ x.pc # "none"
          /\ toClient' = [toClient EXCEPT ![t] = Append(@, p)]
          /\ \/ x.pc = "refused" /\ p = Refusal
             \/ x.pc = "wait" /\ x.block = b /\ p = Packet(x.block, x.version)
    <2> HIDE DEF w, f
    <2> QED BY <1>1, <1>5, <1>6, <1>7 DEF Send
  <1>9. \A u \in Transfers : xfer'[u].pc = "none" <=> u > t
    <2>1. PICK x \in Places : xfer' = [xfer EXCEPT ![t] = x] /\ x.pc # "none"
      BY <1>8
    <2>2. xfer'[t] = x /\ \A u \in Transfers \ {t} : xfer'[u] = xfer[u]
      BY <1>3, <2>1, ArraysAre, Put
    <2>3. \A u \in Transfers : u \in Int
      BY DEF Transfers
    <2> QED BY <1>3, <2>1, <2>2, <2>3
  <1>10. t + requests' <= asks
    BY <1>1, <1>3, CountsAre DEF Types, Transfers
  <1> QED BY <1>1, <1>2, <1>3, <1>8, <1>9, <1>10 DEF b

LEMMA HandleRequestTypes ==
  ASSUME Types, Starts, Client, HandleRequest
  PROVE  Types' /\ Starts' /\ Client'
  <1>1. PICK t \in Transfers :
           /\ (\A u \in Transfers : xfer'[u].pc = "none" <=> u > t) /\ t + requests' <= asks
           /\ requests' = requests - 1 /\ UNCHANGED <<file, options, clientVars, toServer, faults>>
           /\ \E x \in Places, p \in Packets :
                /\ xfer' = [xfer EXCEPT ![t] = x] /\ toClient' = [toClient EXCEPT ![t] = Append(@, p)]
    BY Requested
  <1>2. PICK x \in Places, p \in Packets :
          xfer' = [xfer EXCEPT ![t] = x] /\ toClient' = [toClient EXCEPT ![t] = Append(@, p)]
    BY <1>1
  <1>3. xfer' \in [Transfers -> Places]
    BY <1>2, ArraysAre, Put
  <1>4. toClient' \in [Transfers -> Seq(Packets)]
    <2>1. Append(toClient[t], p) \in Seq(Packets)
      BY ArraysAre, AppendAt
    <2> QED BY <1>2, <2>1, ArraysAre, Put
  <1>5. Counts'
    <2>1. requests > 0
      BY DEF HandleRequest
    <2>2. requests' \in 0 .. MaxAsks
      BY <1>1, <2>1, CountsAre, Numbers DEF Types
    <2> QED BY <1>1, <2>2 DEF Counts, clientVars, Types
  <1>6. Types'
    BY <1>1, <1>3, <1>4, <1>5 DEF Types, clientVars
  <1>7. t \in 0 .. MaxAsks /\ t + requests' <= asks'
    BY <1>1 DEF clientVars, Transfers
  <1> QED BY <1>1, <1>6, <1>7 DEF Starts, Client, clientVars

(* The server's other steps: the packet they send, and where they leave    *)
(* the transfer.                                                           *)
LEMMA Served ==
  ASSUME Types, NEW t \in Transfers,
         Receive(t) \/ Timeout(t) \/ TimeoutEarly(t) \/ SocketError(t)
  PROVE  /\ UNCHANGED <<file, options, clientVars, requests>> /\ xfer[t].pc = "wait"
         /\ faults' \in {faults, faults + 1} /\ faults' <= MaxFaults
         /\ \/ faults' = faults + 1 /\ toServer' = toServer
            \/ faults' = faults /\ toServer' = toServer /\ ~InFlight(t)
            \/ /\ faults' = faults /\ toServer[t] # << >>
               /\ toServer' = [toServer EXCEPT ![t] = Tail(@)]
         /\ \E x \in Places :
              /\ xfer' = [xfer EXCEPT ![t] = x]
              /\ x.version = xfer[t].version
              /\ \/ /\ x.pc = "failed" /\ x.block = xfer[t].block /\ toClient' = toClient
                 \/ /\ x.pc = "wait" /\ x.block = xfer[t].block
                    /\ \/ faults' = faults + 1 \/ toServer[t] = << >>
                       \/ ~Matches(t, Head(toServer[t])) /\ Head(toServer[t]).kind # "error"
                    /\ toClient' = [toClient EXCEPT ![t] = Append(@, Packet(x.block, x.version))]
                 \/ /\ Receive(t) /\ Matches(t, Head(toServer[t]))
                    /\ \/ /\ x.pc = "wait" /\ x.block = xfer[t].block + 1
                          /\ toClient' = [toClient EXCEPT ![t] = Append(@, Packet(x.block, x.version))]
                       \/ /\ x.pc = "done" /\ x.block = xfer[t].block /\ x.block = NumBlocks
                          /\ toClient' = toClient
  <1>1. /\ UNCHANGED <<file, options, clientVars, requests>> /\ xfer[t].pc = "wait"
        /\ faults' \in {faults, faults + 1} /\ (faults' = faults \/ faults < MaxFaults)
    BY DEF Receive, Timeout, TimeoutEarly, SocketError, Fault, Waiting
  <1>2. faults' <= MaxFaults
    BY <1>1, CountsAre, Numbers DEF Types
  <1>3. \/ faults' = faults + 1 /\ toServer' = toServer
        \/ faults' = faults /\ toServer' = toServer /\ ~InFlight(t)
        \/ /\ faults' = faults /\ toServer[t] # << >>
           /\ toServer' = [toServer EXCEPT ![t] = Tail(@)]
    BY DEF Receive, Timeout, TimeoutEarly, SocketError, Rest, Fault
  <1> DEFINE y == xfer[t]
             failed == [y EXCEPT !.pc = "failed"]
             done   == [y EXCEPT !.pc = "done"]
             again  == [y EXCEPT !.retries = @ + 1]
             next   == [y EXCEPT !.block = @ + 1, !.retries = 0]
             sent(x) == toClient' = [toClient EXCEPT ![t] = Append(@, Packet(x.block, x.version))]
             late == \/ faults' = faults + 1 \/ toServer[t] = << >>
                     \/ ~Matches(t, Head(toServer[t])) /\ Head(toServer[t]).kind # "error"
  <1>4. y \in Places /\ xfer \in [Transfers -> Places]
    BY ArraysAre
  <1>5. \/ xfer' = xfer /\ sent(y) /\ late
        \/ xfer' = [xfer EXCEPT ![t] = failed] /\ toClient' = toClient
        \/ y.retries + 1 < MaxRetries /\ xfer' = [xfer EXCEPT ![t] = again] /\ sent(y) /\ late
        \/ /\ Receive(t) /\ Matches(t, Head(toServer[t]))
           /\ \/ y.block = NumBlocks /\ xfer' = [xfer EXCEPT ![t] = done] /\ toClient' = toClient
              \/ /\ y.block # NumBlocks /\ xfer' = [xfer EXCEPT ![t] = next]
                 /\ toClient' = [toClient EXCEPT ![t] = Append(@, Packet(y.block + 1, y.version))]
    <2>1. CASE Receive(t)
      <3>1. CASE Matches(t, Head(toServer[t])) /\ Acknowledged(t)
        BY <1>4, <2>1, <3>1 DEF Acknowledged, Send
      <3>2. CASE xfer' = [xfer EXCEPT ![t].pc = "failed"] /\ UNCHANGED toClient
        BY <1>4, <3>2
      <3>3. CASE /\ ~Matches(t, Head(toServer[t])) /\ Head(toServer[t]).kind # "error"
                 /\ Again(t) /\ UNCHANGED xfer
        BY <3>3 DEF Again, Send
      <3> QED BY <2>1, <3>1, <3>2, <3>3 DEF Receive
    <2>2. CASE Timeout(t) \/ TimeoutEarly(t)
      <3>1. CountRetry(t)
        BY <2>2 DEF Timeout, TimeoutEarly
      <3>2. late
        BY <2>2 DEF Timeout, TimeoutEarly, InFlight, Fault
      <3> HIDE DEF late
      <3> QED BY <1>4, <3>1, <3>2 DEF CountRetry, Again, Send
    <2>3. CASE SocketError(t)
      BY <2>3 DEF SocketError, Again, Send, Fault
    <2> QED BY <2>1, <2>2, <2>3
  <1>6. /\ failed \in Places /\ failed.pc = "failed" /\ failed.block = y.block
        /\ failed.version = y.version
        /\ done \in Places /\ done.pc = "done" /\ done.block = y.block
        /\ done.version = y.version
        /\ y.retries + 1 < MaxRetries =>
             again \in Places /\ again.pc = y.pc /\ again.block = y.block /\ again.version = y.version
        /\ y.block # NumBlocks =>
             next \in Places /\ next.pc = y.pc /\ next.block = y.block + 1 /\ next.version = y.version
    <2>1. /\ failed.block = y.block /\ failed.version = y.version
          /\ done.block = y.block /\ done.version = y.version
          /\ again.block = y.block /\ again.version = y.version
      BY <1>4 DEF Places
    <2> QED BY <1>4, <2>1, PlaceMoves
  <1>7. xfer' = xfer => xfer' = [xfer EXCEPT ![t] = y]
    BY <1>4
  <1> HIDE DEF failed, done, again, next, y, late
  <1>8. y.pc = "wait"
    BY <1>1 DEF y
  <1>9. \E x \in Places :
              /\ xfer' = [xfer EXCEPT ![t] = x]
              /\ x.version = y.version
              /\ \/ /\ x.pc = "failed" /\ x.block = y.block /\ toClient' = toClient
                 \/ /\ x.pc = "wait" /\ x.block = y.block /\ late /\ sent(x)
                 \/ /\ Receive(t) /\ Matches(t, Head(toServer[t]))
                    /\ \/ /\ x.pc = "wait" /\ x.block = y.block + 1 /\ sent(x)
                       \/ /\ x.pc = "done" /\ x.block = y.block /\ x.block = NumBlocks
                          /\ toClient' = toClient
    <2>1. CASE xfer' = xfer /\ sent(y) /\ late
      BY <1>4, <1>7, <1>8, <2>1
    <2>2. CASE xfer' = [xfer EXCEPT ![t] = failed] /\ toClient' = toClient
      BY <1>6, <2>2
    <2>3. CASE y.retries + 1 < MaxRetries /\ xfer' = [xfer EXCEPT ![t] = again] /\ sent(y) /\ late
      BY <1>6, <1>8, <2>3
    <2>4. CASE /\ Receive(t) /\ Matches(t, Head(toServer[t])) /\ y.block = NumBlocks
               /\ xfer' = [xfer EXCEPT ![t] = done] /\ toClient' = toClient
      BY <1>6, <2>4
    <2>5. CASE /\ Receive(t) /\ Matches(t, Head(toServer[t])) /\ y.block # NumBlocks
               /\ xfer' = [xfer EXCEPT ![t] = next]
               /\ toClient' = [toClient EXCEPT ![t] = Append(@, Packet(y.block + 1, y.version))]
      BY <1>6, <1>8, <2>5
    <2> QED BY <1>5, <2>1, <2>2, <2>3, <2>4, <2>5
  <1> QED BY <1>1, <1>2, <1>3, <1>9 DEF y, late

LEMMA ServerTypes ==
  ASSUME Types, Starts, Client, NEW t \in Transfers,
         Receive(t) \/ Timeout(t) \/ TimeoutEarly(t) \/ SocketError(t)
  PROVE  Types' /\ Starts' /\ Client'
  <1>1. /\ UNCHANGED <<file, options, clientVars, requests>> /\ xfer[t].pc = "wait"
        /\ faults' \in {faults, faults + 1} /\ faults' <= MaxFaults
    BY Served
  <1>2. toServer' \in [Transfers -> Seq(Replies)]
    <2>1. toServer[t] # << >> => Tail(toServer[t]) \in Seq(Replies)
      BY ArraysAre, TailAt
    <2>2. \/ toServer' = toServer
          \/ toServer[t] # << >> /\ toServer' = [toServer EXCEPT ![t] = Tail(toServer[t])]
      BY Served
    <2> QED BY <2>1, <2>2, ArraysAre
  <1>3. PICK x \in Places : /\ xfer' = [xfer EXCEPT ![t] = x] /\ x.pc # "none"
                            /\ \/ toClient' = toClient
                               \/ toClient' = [toClient EXCEPT ![t] = Append(@, Packet(x.block, x.version))]
    BY Served
  <1>4. xfer' \in [Transfers -> Places] /\ (\A u \in Transfers : xfer'[u].pc = "none" <=> xfer[u].pc = "none")
    BY <1>1, <1>3, ArraysAre
  <1>5. toClient' \in [Transfers -> Seq(Packets)]
    <2>1. Packet(x.block, x.version) \in Packets
      BY PacketIs, PlaceIs
    <2>2. Append(toClient[t], Packet(x.block, x.version)) \in Seq(Packets)
      BY <2>1, ArraysAre, AppendAt
    <2> QED BY <1>3, <2>2, ArraysAre
  <1>6. Counts'
    <2>1. faults' \in 0 .. MaxFaults
      BY <1>1, CountsAre, Numbers DEF Types
    <2> QED BY <1>1, <2>1 DEF Types, Counts, clientVars
  <1>7. Types'
    BY <1>1, <1>2, <1>4, <1>5, <1>6 DEF Types, clientVars
  <1> QED BY <1>1, <1>4, <1>7 DEF Starts, Client, clientVars

(* Packets that are lost, doubled or swapped, and those nobody reads:      *)
(* nothing new is under way, and each costs a fault.                       *)
LEMMA Lossy ==
  ASSUME Types, NEW t \in Transfers,
         SendFails(t) \/ Unread(t) \/ DisturbData(t) \/ DisturbAcks(t)
  PROVE  /\ UNCHANGED <<file, options, clientVars, requests>> /\ faults' <= MaxFaults
         /\ \/ /\ faults' = faults + 1 /\ toServer' = toServer
               /\ \E r \in Seq(Packets) :
                    Within(r, toClient[t]) /\ toClient' = [toClient EXCEPT ![t] = r]
               /\ \/ xfer' = xfer
                  \/ xfer[t].pc = "wait" /\ xfer' = [xfer EXCEPT ![t] = [@ EXCEPT !.pc = "sendFailed"]]
            \/ /\ faults' = faults + 1 /\ toClient' = toClient /\ xfer' = xfer
               /\ \E r \in Seq(Replies) :
                    Within(r, toServer[t]) /\ toServer' = [toServer EXCEPT ![t] = r]
            \/ /\ faults' = faults /\ toClient' = toClient /\ xfer' = xfer /\ xfer[t].pc # "wait"
               /\ toServer[t] # << >> /\ toServer' = [toServer EXCEPT ![t] = Tail(@)]
  <1>1. toClient[t] \in Seq(Packets) /\ toServer[t] \in Seq(Replies) /\ xfer \in [Transfers -> Places]
    BY ArraysAre
  <1>2. /\ UNCHANGED <<file, options, clientVars, requests>> /\ faults' <= MaxFaults
    BY CountsAre, Numbers DEF SendFails, Unread, DisturbData, DisturbAcks, Fault, Types
  <1>3. CASE SendFails(t)
    <2>1. Front(toClient[t]) \in Seq(Packets) /\ Within(Front(toClient[t]), toClient[t])
      BY <1>1, <1>3, FrontWithin DEF SendFails
    <2>2. xfer' = [xfer EXCEPT ![t] = [@ EXCEPT !.pc = "sendFailed"]] /\ xfer[t].pc = "wait"
      BY <1>3 DEF SendFails, Waiting
    <2>3. toClient' = [toClient EXCEPT ![t] = Front(toClient[t])] /\ faults' = faults + 1 /\ toServer' = toServer
      BY <1>3 DEF SendFails, Fault
    <2> QED BY <1>2, <2>1, <2>2, <2>3
  <1>4. CASE Unread(t)
    BY <1>2, <1>4 DEF Unread, Waiting, Rest
  <1>5. CASE DisturbData(t)
    BY <1>1, <1>2, <1>5, DisturbedWithin DEF DisturbData, Fault
  <1>6. CASE DisturbAcks(t)
    BY <1>1, <1>2, <1>6, DisturbedWithin DEF DisturbAcks, Fault
  <1> QED BY <1>3, <1>4, <1>5, <1>6

LEMMA NetworkTypes ==
  ASSUME Types, Starts, Client, NEW t \in Transfers,
         SendFails(t) \/ Unread(t) \/ DisturbData(t) \/ DisturbAcks(t)
  PROVE  Types' /\ Starts' /\ Client'
  <1>1. /\ UNCHANGED <<file, options, clientVars, requests>>
        /\ faults' \in {faults, faults + 1} /\ faults' <= MaxFaults
    BY Lossy
  <1>2. toClient' \in [Transfers -> Seq(Packets)]
    <2>1. \/ toClient' = toClient
          \/ \E r \in Seq(Packets) : toClient' = [toClient EXCEPT ![t] = r]
      BY Lossy
    <2> QED BY <2>1, ArraysAre
  <1>3. toServer' \in [Transfers -> Seq(Replies)]
    <2>1. toServer[t] # << >> => Tail(toServer[t]) \in Seq(Replies)
      BY ArraysAre, TailAt
    <2>2. \/ toServer' = toServer \/ \E r \in Seq(Replies) : toServer' = [toServer EXCEPT ![t] = r]
          \/ toServer[t] # << >> /\ toServer' = [toServer EXCEPT ![t] = Tail(toServer[t])]
      BY Lossy
    <2> QED BY <2>1, <2>2, ArraysAre
  <1>4. xfer' \in [Transfers -> Places] /\ \A u \in Transfers : xfer'[u].pc = "none" <=> xfer[u].pc = "none"
    <2> DEFINE x == [xfer[t] EXCEPT !.pc = "sendFailed"]
    <2>1. x \in Places /\ x.pc = "sendFailed"
      BY ArraysAre, PlaceMoves
    <2>2. xfer' = xfer \/ (xfer[t].pc = "wait" /\ xfer' = [xfer EXCEPT ![t] = x])
      BY Lossy
    <2> HIDE DEF x
    <2> QED BY <2>1, <2>2, ArraysAre
  <1>5. Counts'
    <2>1. faults' \in 0 .. MaxFaults
      BY <1>1, CountsAre, Numbers DEF Types
    <2> QED BY <1>1, <2>1 DEF Types, Counts, clientVars
  <1>6. Types'
    BY <1>1, <1>2, <1>3, <1>4, <1>5 DEF Types, clientVars
  <1> QED BY <1>1, <1>4, <1>6 DEF Starts, Client, clientVars

(* What the client answers. *)
LEMMA ClientTypes ==
  ASSUME Types, Starts, Client, NEW t \in Transfers, ClientReceive(t)
  PROVE  Types' /\ Starts' /\ Client'
  <1> DEFINE p == Head(toClient[t])
  <1>1. /\ UNCHANGED <<file, options, asks, requests, xfer, faults>>
        /\ toClient[t] # << >> /\ toClient' = Rest(toClient, t)
    BY DEF ClientReceive
  <1>2. p \in Packets /\ toClient[t] \in Seq(Packets) /\ p.data \in Blocks \X Versions
    <2>1. p \in Packets /\ toClient[t] \in Seq(Packets)
      BY <1>1, TailAt, ArraysAre
    <2> QED BY <2>1 DEF Packets
  <1>3. Len(got) \in Blocks /\ (phase = "receiving" => Len(got) + 1 \in Blocks)
    BY Numbers, ArraysAre DEF Blocks, Client
  <1>4. \/ /\ got' = got /\ (phase' = phase \/ (phase = "asking" /\ phase' \in {"refused", "receiving"}))
           /\ (phase' \in {"asking", "refused"} => tid' = tid)
           /\ (phase' # phase /\ phase' = "receiving" => tid' = t)
        \/ /\ got' = Append(got, p.data) /\ phase \in {"asking", "receiving"}
           /\ phase' = IF Len(got) + 1 = NumBlocks THEN "done" ELSE "receiving"
           /\ tid' # 0
    <2>1. got = << >> => Append(got, p.data) = <<p.data>> /\ Len(got) = 0
      OBVIOUS
    <2>2. phase = "asking" => got = << >>
      BY DEF Client
    <2>3. t # 0 /\ 1 = 0 + 1
      BY DEF Transfers
    <2> QED BY <2>1, <2>2, <2>3 DEF ClientReceive, ClientTakes
  <1>5. toServer' = toServer \/ \E r \in Replies : toServer' = [toServer EXCEPT ![t] = Append(@, r)]
    <2>1. Ack(0) \in Replies /\ Ack(1) \in Replies /\ Ack(Len(got)) \in Replies /\ ErrorPacket \in Replies
      BY <1>3, Numbers, ReplyIs
    <2>2. phase = "receiving" => Ack(Len(got) + 1) \in Replies
      BY <1>3, ReplyIs
    <2> QED BY <2>1, <2>2 DEF ClientReceive, ClientTakes, Send
  <1>6. tid' \in {tid, t} /\ (tid' # tid => phase = "asking" /\ phase' \in {"receiving", "done"})
    BY DEF ClientReceive
  <1>7. toClient' \in [Transfers -> Seq(Packets)] /\ toServer' \in [Transfers -> Seq(Replies)]
    <2>1. Tail(toClient[t]) \in Seq(Packets)
      BY <1>1, <1>2, TailAt
    <2>2. toClient' = [toClient EXCEPT ![t] = Tail(toClient[t])]
      BY <1>1 DEF Rest
    <2>3. \A r \in Replies : Append(toServer[t], r) \in Seq(Replies)
      BY AppendAt, ArraysAre
    <2> QED BY <1>5, <2>1, <2>2, <2>3, ArraysAre
  <1>8. got' \in Seq(Blocks \X Versions)
    <2>1. Append(got, p.data) \in Seq(Blocks \X Versions)
      BY <1>2, AppendAt, ArraysAre
    <2> QED BY <1>4, <2>1, ArraysAre
  <1>9. Types'
    <2>1. Counts'
      BY <1>1, <1>4, <1>6, ArraysAre DEF Counts, Transfers
    <2> QED BY <1>1, <1>7, <1>8, <2>1 DEF Types
  <1>10. Client'
    <2>1. got \in Seq(Blocks \X Versions)
      BY DEF Types
    <2>2. Len(Append(got, p.data)) = Len(got) + 1 /\ Len(got) \in Nat
      BY <1>2, <2>1, AppendAt
    <2>3. t # 0
      BY DEF Transfers
    <2>4. phase = "asking" => Len(got) = 0
      BY DEF Client
    <2> HIDE DEF p
    <2> DEFINE n == Len(got)
    <2>5. Len(got') = n \/ (Len(got') = n + 1 /\ got' # << >>)
      BY <1>4, <2>2
    <2>6. CASE got' = got
      BY <1>4, <1>6, <2>2, <2>3, <2>4, <2>6, Numbers DEF Client
    <2>7. CASE got' = Append(got, p.data)
      BY <1>4, <1>6, <2>2, <2>3, <2>4, <2>7, Numbers DEF Client
    <2> QED BY <1>4, <2>6, <2>7
  <1> QED BY <1>1, <1>9, <1>10 DEF Starts

(* The steps that touch no transfer.                                       *)
LEMMA AsideTypes ==
  ASSUME Types, Starts, Client, Ask \/ AskEarly \/ GiveUp \/ Install \/ LoseRequest \/ UNCHANGED vars
  PROVE  Types' /\ Starts' /\ Client' /\ UNCHANGED <<options, tid, got, xfer, netVars>>
         /\ faults' \in {faults, faults + 1}
  <1>1. /\ UNCHANGED <<options, tid, got, xfer, netVars>>
        /\ phase' = phase \/ (phase \in {"asking", "receiving"} /\ phase' = "gaveUp")
    BY DEF Ask, AskEarly, GiveUp, Install, LoseRequest, vars, clientVars
  <1>2. /\ faults' \in {faults, faults + 1} /\ faults' <= MaxFaults
        /\ file' \in Versions /\ asks' \in 0 .. MaxAsks /\ requests' \in 0 .. MaxAsks
        /\ requests' + asks <= asks' + requests
    <2>1. faults \in Nat /\ faults <= MaxFaults /\ asks \in Nat /\ requests \in Nat
          /\ asks <= MaxAsks /\ requests <= asks /\ file \in Nat /\ file <= MaxVersions
      BY Numbers, CountsAre DEF Types, Starts
    <2> QED BY <2>1, Numbers
            DEF Ask, AskEarly, GiveUp, Install, LoseRequest, Fault, vars, clientVars, Versions
  <1>3. Types'
    <2>1. faults' \in 0 .. MaxFaults
      BY <1>2, CountsAre, Numbers DEF Types
    <2> QED BY <1>1, <1>2, <2>1 DEF Types, Counts, netVars
  <1>4. Starts'
    <2>1. PICK n \in 0 .. MaxAsks :
            n + requests <= asks /\ \A t \in Transfers : xfer[t].pc = "none" <=> t > n
      BY DEF Starts
    <2>2. n + requests' <= asks'
      <3>1. requests \in Nat /\ requests' \in Nat /\ asks \in Nat /\ asks' \in Nat
        BY <1>2, CountsAre, Numbers DEF Types
      <3>2. n \in Nat /\ n + requests <= asks
        BY <2>1, Numbers
      <3>3. requests' + asks <= asks' + requests
        BY <1>2
      <3>4. \A a, b, c, d, e \in Nat : a + b <= c /\ d + c <= e + b => a + d <= e
        OBVIOUS
      <3> QED BY <3>1, <3>2, <3>3, <3>4
    <2> QED BY <1>1, <2>1, <2>2 DEF Starts
  <1>5. Client'
    BY <1>1 DEF Client
  <1> QED BY <1>1, <1>2, <1>3, <1>4, <1>5

-----------------------------------------------------------------------------
(* What is under way *)

(* In q, where m says which block an element is about, f faults hold the   *)
(* elements back: each is about a block after l, and after those of the    *)
(* elements before it, but for one block a fault.                          *)
Fresh(q, m, l, f) ==
  \A i \in DOMAIN q : m[q[i]] + f > l /\ \A j \in 1 .. i - 1 : m[q[i]] + f > m[q[j]]

DataOf == [p \in Packets |-> p.data[1]]
AckOf  == [p \in Replies |-> p.block]

FirstBlock == IF options THEN 0 ELSE 1
Begun(x) == x.pc \notin {"none", "refused"}

(* Of a transfer at place x, with q under way to the client and r to the   *)
(* server after f faults; its first block is s.                            *)
Genuine(x, q, s) ==
  \A i \in DOMAIN q :
    \/ x.pc = "refused" /\ q[i] = Refusal
    \/ Begun(x) /\ q[i] = Packet(DataOf[q[i]], x.version) /\ DataOf[q[i]] \in s .. x.block

Sound(x, q, r, s, f) ==
  /\ Genuine(x, q, s) /\ (Begun(x) => s <= x.block) /\ (x.pc = "none" => r = << >>)
  /\ f = 0 => Len(q) + Len(r) <= 1

(* Of a transfer the client does not keep to; it keeps to k.               *)
Stranger(x, r, s, k) ==
  /\ x.pc # "done" /\ (Begun(x) => x.block = s)
  /\ \A i \in DOMAIN r : k # 0 /\ r[i] = ErrorPacket

(* Of the one it keeps to, with g taken so far.                            *)
Partner(x, q, r, g, f) ==
  /\ Begun(x) /\ Len(g) \in {x.block - 1, x.block} /\ (x.pc = "done" => Len(g) = NumBlocks)
  /\ \A i \in DOMAIN g : g[i] = <<i, x.version>>
  /\ \A i \in DOMAIN r : r[i] = Ack(AckOf[r[i]]) /\ AckOf[r[i]] <= Len(g)
  /\ Fresh(q, DataOf, Len(g), f) /\ Fresh(r, AckOf, x.block - 1, f)
  /\ f = 0 => /\ q # << >> => x.block = Len(g) + 1
              /\ x.pc = "wait" /\ x.block = Len(g) => r # << >>

Fine(t) ==
  /\ Sound(xfer[t], toClient[t], toServer[t], FirstBlock, faults)
  /\ IF t = tid THEN Partner(xfer[t], toClient[t], toServer[t], got, faults)
     ELSE Stranger(xfer[t], toServer[t], FirstBlock, tid)

Whole == \A t \in Transfers : Fine(t)

LEMMA OfIs ==
  /\ DataOf \in [Packets -> Blocks] /\ DataOf \in [Packets -> Nat]
  /\ AckOf \in [Replies -> Blocks] /\ AckOf \in [Replies -> Nat]
  /\ \A b \in Blocks, v \in Versions : DataOf[Packet(b, v)] = b
  /\ \A b \in Blocks : AckOf[Ack(b)] = b
  <1>1. \A p \in Packets : p.data[1] \in Blocks /\ p.data[1] \in Nat
    BY Numbers DEF Packets
  <1>2. \A p \in Replies : p.block \in Blocks /\ p.block \in Nat
    BY Numbers DEF Replies
  <1>3. \A b \in Blocks, v \in Versions : DataOf[Packet(b, v)] = b
    <2> SUFFICES ASSUME NEW b \in Blocks, NEW v \in Versions PROVE DataOf[Packet(b, v)] = b
      OBVIOUS
    <2>1. Packet(b, v) \in Packets /\ Packet(b, v).data = <<b, v>>
      BY PacketIs
    <2> QED BY <2>1 DEF DataOf
  <1>4. \A b \in Blocks : AckOf[Ack(b)] = b
    BY ReplyIs DEF AckOf
  <1> QED BY <1>1, <1>2, <1>3, <1>4 DEF DataOf, AckOf

LEMMA FreshLess ==
  ASSUME NEW S, NEW q \in Seq(S), NEW m \in [S -> Nat], NEW l \in Int, NEW f \in Nat,
         NEW k \in Int, NEW e \in Nat, Fresh(q, m, l, f), k <= l, f <= e
  PROVE  Fresh(q, m, k, e)
  <1>1. DOMAIN q = 1 .. Len(q) /\ Len(q) \in Nat /\ \A i \in DOMAIN q : m[q[i]] \in Nat
    OBVIOUS
  <1>2. SUFFICES ASSUME NEW i \in DOMAIN q
        PROVE  m[q[i]] + e > k /\ \A j \in 1 .. i - 1 : m[q[i]] + e > m[q[j]]
    BY DEF Fresh
  <1>3. m[q[i]] + f > l /\ \A j \in 1 .. i - 1 : j \in DOMAIN q /\ m[q[i]] + f > m[q[j]]
    BY <1>1, <1>2 DEF Fresh
  <1> QED BY <1>1, <1>3

LEMMA FreshMore ==
  ASSUME NEW S, NEW q \in Seq(S), NEW m \in [S -> Nat], NEW l \in Int, NEW f \in Nat,
         NEW e \in Nat, Fresh(q, m, l, f), f <= e
  PROVE  Fresh(q, m, l, e)
  <1>1. l <= l
    OBVIOUS
  <1> QED BY <1>1, FreshLess

(* The first one gone, the others are about blocks after its.              *)
LEMMA FreshTail ==
  ASSUME NEW S, NEW q \in Seq(S), NEW m \in [S -> Nat], NEW l \in Int, NEW f \in Nat,
         Fresh(q, m, l, f), q # << >>
  PROVE  /\ Fresh(Tail(q), m, l, f) /\ Fresh(Tail(q), m, m[Head(q)], f)
         /\ m[Head(q)] + f > l
  <1> DEFINE r == Tail(q)
             h == m[Head(q)]
  <1>1. /\ DOMAIN r = 1 .. Len(q) - 1 /\ Len(q) \in Nat /\ 1 \in DOMAIN q /\ h = m[q[1]]
        /\ \A i \in 1 .. Len(q) - 1 : r[i] = q[i + 1] /\ i + 1 \in DOMAIN q
    BY TailAt
  <1>2. h + f > l
    BY <1>1 DEF Fresh
  <1> HIDE DEF r
  <1>3. ASSUME NEW i \in DOMAIN r
        PROVE  m[r[i]] + f > l /\ m[r[i]] + f > h /\ \A j \in 1 .. i - 1 : m[r[i]] + f > m[r[j]]
    <2>1. i \in 1 .. Len(q) - 1 /\ r[i] = q[i + 1] /\ i + 1 \in DOMAIN q
      BY <1>1, <1>3
    <2>2. m[q[i + 1]] + f > l /\ \A j \in 1 .. (i + 1) - 1 : m[q[i + 1]] + f > m[q[j]]
      BY <2>1 DEF Fresh
    <2>3. 1 \in 1 .. (i + 1) - 1
      BY <2>1
    <2>4. ASSUME NEW j \in 1 .. i - 1 PROVE m[r[i]] + f > m[r[j]]
      <3>0. i \in Nat /\ i <= Len(q) - 1 /\ Len(q) \in Nat
        BY <1>1, <2>1
      <3>1. j + 1 \in 1 .. (i + 1) - 1 /\ j \in 1 .. Len(q) - 1
        BY <3>0
      <3>2. r[j] = q[j + 1]
        BY <1>1, <3>1
      <3> QED BY <2>1, <2>2, <3>1, <3>2
    <2> QED BY <1>1, <2>1, <2>2, <2>3, <2>4
  <1>4. Fresh(r, m, l, f) /\ Fresh(r, m, h, f)
    BY <1>3 DEF Fresh
  <1> QED BY <1>2, <1>4 DEF r

LEMMA FreshAppend ==
  ASSUME NEW S, NEW q \in Seq(S), NEW m \in [S -> Nat], NEW l \in Int, NEW f \in Nat,
         NEW y \in S, Fresh(q, m, l, f), m[y] + f > l, \A j \in DOMAIN q : m[y] + f > m[q[j]]
  PROVE  Fresh(Append(q, y), m, l, f)
  <1> DEFINE r == Append(q, y)
  <1>1. /\ DOMAIN q = 1 .. Len(q) /\ Len(q) \in Nat /\ DOMAIN r = 1 .. Len(q) + 1
        /\ r[Len(q) + 1] = y /\ \A i \in 1 .. Len(q) : r[i] = q[i]
    BY AppendAt
  <1> HIDE DEF r
  <1>2. ASSUME NEW i \in DOMAIN r
        PROVE  m[r[i]] + f > l /\ \A j \in 1 .. i - 1 : m[r[i]] + f > m[r[j]]
    <2>1. \A j \in 1 .. i - 1 : j \in DOMAIN q /\ r[j] = q[j]
      BY <1>1, <1>2
    <2>2. CASE i = Len(q) + 1
      BY <1>1, <2>1, <2>2
    <2>3. CASE i \in DOMAIN q
      <3>1. r[i] = q[i]
        BY <1>1, <2>3
      <3> QED BY <2>1, <2>3, <3>1 DEF Fresh
    <2> QED BY <1>1, <1>2, <2>2, <2>3
  <1>3. Fresh(r, m, l, f)
    BY <1>2 DEF Fresh
  <1> QED BY <1>3 DEF r

(* Elements lost, doubled or swapped by one more fault.                    *)
LEMMA FreshFault ==
  ASSUME NEW S, NEW q \in Seq(S), NEW r \in Seq(S), NEW m \in [S -> Nat], NEW l \in Int,
         NEW f \in Nat, Fresh(q, m, l, f), Within(r, q), \A i \in DOMAIN q : m[q[i]] <= l + 1
  PROVE  Fresh(r, m, l, f + 1)
  <1> SUFFICES ASSUME NEW i \in DOMAIN r
               PROVE  m[r[i]] + (f + 1) > l /\ \A j \in 1 .. i - 1 : m[r[i]] + (f + 1) > m[r[j]]
    BY DEF Fresh
  <1>1. DOMAIN r = 1 .. Len(r) /\ Len(r) \in Nat
    OBVIOUS
  <1>2. PICK k \in DOMAIN q : r[i] = q[k]
    BY DEF Within
  <1>3. m[q[k]] + f > l /\ m[q[k]] \in Nat
    BY DEF Fresh
  <1>4. ASSUME NEW j \in 1 .. i - 1 PROVE m[r[j]] <= l + 1 /\ m[r[j]] \in Nat
    <2>1. j \in DOMAIN r
      BY <1>1
    <2>2. PICK n \in DOMAIN q : r[j] = q[n]
      BY <2>1 DEF Within
    <2> QED BY <2>2
  <1> QED BY <1>2, <1>3, <1>4

LEMMA GenuineWithin ==
  ASSUME NEW x, NEW y, NEW s, NEW q, NEW r, Genuine(x, q, s), Within(r, q),
         y = x \/ (Begun(x) /\ Begun(y) /\ y.block = x.block /\ y.version = x.version)
  PROVE  Genuine(y, r, s)
  <1> SUFFICES ASSUME NEW i \in DOMAIN r
               PROVE  \/ y.pc = "refused" /\ r[i] = Refusal
                      \/ /\ Begun(y) /\ r[i] = Packet(DataOf[r[i]], y.version)
                         /\ DataOf[r[i]] \in s .. y.block
    BY DEF Genuine
  <1>1. PICK k \in DOMAIN q : r[i] = q[k]
    BY DEF Within
  <1>2. \/ x.pc = "refused" /\ r[i] = Refusal
        \/ Begun(x) /\ r[i] = Packet(DataOf[r[i]], x.version) /\ DataOf[r[i]] \in s .. x.block
    BY <1>1 DEF Genuine
  <1>3. Begun(x) => x.pc # "refused"
    BY DEF Begun
  <1> QED BY <1>2, <1>3

(* A packet of the block the transfer is at, or has moved to, joins those  *)
(* under way.                                                              *)
LEMMA GenuineAppend ==
  ASSUME NEW x \in Places, NEW y \in Places, NEW s \in {0, 1}, NEW q \in Seq(Packets),
         Genuine(x, q, s), Begun(x), Begun(y), y.version = x.version, s <= x.block,
         y.block \in {x.block, x.block + 1}
  PROVE  Genuine(y, Append(q, Packet(y.block, y.version)), s)
  <1> DEFINE p == Packet(y.block, y.version)
             r == Append(q, p)
  <1>1. /\ y.block \in Blocks /\ y.block \in Nat /\ x.block \in Nat /\ y.version \in Versions
    BY PlaceIs
  <1>2. p \in Packets /\ DataOf[p] = y.block
    BY <1>1, PacketIs, OfIs
  <1> HIDE DEF p
  <1>3. /\ DOMAIN q = 1 .. Len(q) /\ Len(q) \in Nat /\ DOMAIN r = 1 .. Len(q) + 1
        /\ r[Len(q) + 1] = p /\ \A i \in 1 .. Len(q) : r[i] = q[i]
    BY <1>2, AppendAt
  <1> HIDE DEF r
  <1>4. ASSUME NEW i \in DOMAIN r
        PROVE  r[i] = Packet(DataOf[r[i]], y.version) /\ DataOf[r[i]] \in s .. y.block
    <2>1. CASE i = Len(q) + 1
      BY <1>1, <1>2, <1>3, <2>1 DEF p
    <2>2. CASE i \in DOMAIN q
      <3>1. r[i] = q[i] /\ x.pc # "refused"
        BY <1>3, <2>2 DEF Begun
      <3>2. q[i] = Packet(DataOf[q[i]], x.version) /\ DataOf[q[i]] \in s .. x.block
        BY <2>2, <3>1 DEF Genuine
      <3> QED BY <1>1, <3>1, <3>2
    <2> QED BY <1>3, <1>4, <2>1, <2>2
  <1>5. Genuine(y, r, s)
    BY <1>4 DEF Genuine
  <1> QED BY <1>5 DEF r, p

LEMMA FineIs ==
  ASSUME Types, NEW t \in Transfers
  PROVE  /\ xfer[t] \in Places /\ toClient[t] \in Seq(Packets) /\ toServer[t] \in Seq(Replies)
         /\ got \in Seq(Blocks \X Versions) /\ Len(got) \in Nat /\ faults \in Nat
         /\ faults <= MaxFaults /\ FirstBlock \in {0, 1} /\ xfer[t].block \in Nat
         /\ xfer[t].block <= NumBlocks
  BY ArraysAre, CountsAre, PlaceIs DEF FirstBlock

(* What holds of a transfer holds of it after more faults.                 *)
LEMMA Later ==
  ASSUME NEW x \in Places, NEW q \in Seq(Packets), NEW r \in Seq(Replies),
         NEW g \in Seq(Blocks \X Versions), NEW s, NEW f \in Nat, NEW e \in Nat, f <= e
  PROVE  /\ Sound(x, q, r, s, f) => Sound(x, q, r, s, e)
         /\ Partner(x, q, r, g, f) => Partner(x, q, r, g, e)
  <1>1. e = 0 => f = 0
    OBVIOUS
  <1>2. Sound(x, q, r, s, f) => Sound(x, q, r, s, e)
    BY <1>1 DEF Sound
  <1>3. ASSUME Partner(x, q, r, g, f) PROVE Partner(x, q, r, g, e)
    <2>1. Len(g) \in Int /\ x.block - 1 \in Int
      BY PlaceIs
    <2>2. Fresh(q, DataOf, Len(g), f) /\ Fresh(r, AckOf, x.block - 1, f)
      BY <1>3 DEF Partner
    <2>3. DataOf \in [Packets -> Nat] /\ AckOf \in [Replies -> Nat]
      BY OfIs
    <2>4. Fresh(q, DataOf, Len(g), e)
      <3>1. Len(g) <= Len(g)
        BY <2>1
      <3> QED BY <2>1, <2>2, <2>3, <3>1, FreshLess
    <2>5. Fresh(r, AckOf, x.block - 1, e)
      <3>1. x.block - 1 <= x.block - 1
        BY <2>1
      <3> QED BY <2>1, <2>2, <2>3, <3>1, FreshLess
    <2> QED BY <1>1, <1>3, <2>4, <2>5 DEF Partner
  <1> QED BY <1>2, <1>3

(* A step of one transfer, or the client's keeping to it, leaves the       *)
(* others as they were.                                                    *)
LEMMA Elsewhere ==
  ASSUME Types, Types', Whole, NEW t, options' = options, faults' >= faults,
         \A u \in Transfers \ {t} :
           /\ xfer'[u] = xfer[u] /\ toClient'[u] = toClient[u] /\ toServer'[u] = toServer[u],
         \/ tid' = tid /\ (tid \in Transfers \ {t} => got' = got)
         \/ tid = 0 /\ tid' = t /\ t # 0
  PROVE  \A u \in Transfers \ {t} : Fine(u)'
  <1> SUFFICES ASSUME NEW u \in Transfers \ {t} PROVE Fine(u)'
    OBVIOUS
  <1>1. Fine(u) /\ u # 0 /\ FirstBlock' = FirstBlock
    BY DEF Whole, Transfers, FirstBlock
  <1>2. /\ xfer'[u] = xfer[u] /\ toClient'[u] = toClient[u] /\ toServer'[u] = toServer[u]
    OBVIOUS
  <1>3. /\ xfer[u] \in Places /\ toClient[u] \in Seq(Packets) /\ toServer[u] \in Seq(Replies)
        /\ got \in Seq(Blocks \X Versions) /\ faults \in Nat /\ faults' \in Nat
    BY FineIs, CountsAre, Numbers DEF Types, Counts
  <1>4. Sound(xfer[u], toClient[u], toServer[u], FirstBlock, faults')
    BY <1>1, <1>3, Later DEF Fine
  <1>5. CASE u = tid
    <2>1. Partner(xfer[u], toClient[u], toServer[u], got, faults')
      BY <1>1, <1>3, <1>5, Later DEF Fine
    <2>2. tid' = tid /\ got' = got
      BY <1>1, <1>5
    <2> QED BY <1>1, <1>2, <1>4, <1>5, <2>1, <2>2 DEF Fine
  <1>6. CASE u # tid
    <2>1. Stranger(xfer[u], toServer[u], FirstBlock, tid) /\ u # tid'
      BY <1>1, <1>6 DEF Fine
    <2>2. Stranger(xfer[u], toServer[u], FirstBlock, tid')
      BY <2>1 DEF Stranger
    <2> QED BY <1>1, <1>2, <1>4, <2>1, <2>2 DEF Fine
  <1> QED BY <1>5, <1>6

(* An acknowledgement with the right number is the right one, and the ones *)
(* after it are not.                                                       *)
LEMMA AckTaken ==
  ASSUME NoWholeRound, NEW x \in Places, NEW q, NEW r \in Seq(Replies),
         NEW g \in Seq(Blocks \X Versions), NEW f \in Nat, f <= MaxFaults,
         Partner(x, q, r, g, f), r # << >>, Head(r).num = Num(x.block)
  PROVE  /\ Len(g) = x.block /\ Fresh(Tail(r), AckOf, x.block, f)
         /\ Fresh(Tail(r), AckOf, x.block - 1, f)
  <1> DEFINE h == AckOf[Head(r)]
  <1>1. x.block \in Nat /\ x.block <= NumBlocks /\ Len(g) \in Nat /\ x.block - 1 \in Int
    BY PlaceIs
  <1>2. /\ Fresh(r, AckOf, x.block - 1, f) /\ AckOf \in [Replies -> Nat] /\ AckOf \in [Replies -> Blocks]
        /\ Head(r) \in Replies /\ 1 \in DOMAIN r /\ Head(r) = r[1]
    BY OfIs, TailAt DEF Partner
  <1>3. /\ Fresh(Tail(r), AckOf, x.block - 1, f) /\ Fresh(Tail(r), AckOf, h, f)
        /\ h + f > x.block - 1
    BY <1>1, <1>2, FreshTail
  <1>4. h \in Nat /\ h \in Blocks /\ h <= Len(g) /\ Len(g) <= x.block /\ Head(r) = Ack(h)
    BY <1>1, <1>2 DEF Partner
  <1>5. Num(h) = Num(x.block)
    BY <1>4, ReplyIs
  <1>6. h - x.block < Wrap /\ x.block - h < Wrap
    BY <1>1, <1>3, <1>4, Numbers DEF NoWholeRound
  <1>7. h = x.block
    BY <1>1, <1>4, <1>5, <1>6, SameNumber
  <1> QED BY <1>1, <1>3, <1>4, <1>7

(* Data with the expected number is the expected block.                    *)
LEMMA DataTaken ==
  ASSUME NoWholeRound, NEW x \in Places, NEW q \in Seq(Packets), NEW r, NEW s \in {0, 1},
         NEW g \in Seq(Blocks \X Versions), NEW f \in Nat, f <= MaxFaults,
         Partner(x, q, r, g, f), Sound(x, q, r, s, f), q # << >>,
         Head(q).kind = "data", Head(q).num = Num(Len(g) + 1), Len(g) < NumBlocks
  PROVE  /\ x.block = Len(g) + 1 /\ Head(q).data = <<x.block, x.version>>
         /\ Fresh(Tail(q), DataOf, Len(g) + 1, f)
  <1> DEFINE h == DataOf[Head(q)]
  <1>1. x.block \in Nat /\ x.block <= NumBlocks /\ Len(g) \in Nat /\ x.version \in Versions
    BY PlaceIs
  <1>2. /\ Fresh(q, DataOf, Len(g), f) /\ DataOf \in [Packets -> Nat] /\ DataOf \in [Packets -> Blocks]
        /\ Head(q) \in Packets /\ 1 \in DOMAIN q /\ Head(q) = q[1]
    BY OfIs, TailAt DEF Partner
  <1>3. Fresh(Tail(q), DataOf, h, f) /\ h + f > Len(g)
    BY <1>1, <1>2, FreshTail
  <1>4. h \in Nat /\ h \in Blocks /\ h <= x.block /\ Head(q) = Packet(h, x.version)
    <2>1. x.pc # "refused"
      BY DEF Partner, Begun
    <2> QED BY <1>1, <1>2, <2>1 DEF Sound, Genuine
  <1>5. h # 0 /\ Num(h) = Num(Len(g) + 1) /\ Head(q).data = <<h, x.version>>
    BY <1>1, <1>4, PacketIs
  <1>6. x.block <= Len(g) + 1
    BY <1>1 DEF Partner
  <1>7. h - (Len(g) + 1) < Wrap /\ (Len(g) + 1) - h < Wrap
    <2>1. \A n, b, w, m, d \in Nat :
            d # 0 /\ d <= b /\ b <= n + 1 /\ d + f > n /\ f <= m /\ n < NumBlocks
            /\ (NumBlocks < w \/ m < w) => d - (n + 1) < w /\ (n + 1) - d < w
      BY Numbers
    <2> QED BY <1>1, <1>3, <1>4, <1>5, <1>6, <2>1, Numbers DEF NoWholeRound
  <1>8. h = Len(g) + 1
    BY <1>1, <1>4, <1>5, <1>7, SameNumber
  <1> QED BY <1>1, <1>3, <1>4, <1>5, <1>6, <1>8

-----------------------------------------------------------------------------
(* Steps *)

LEMMA InitWhole == Init => Whole
  <1> SUFFICES ASSUME Init, NEW t \in Transfers PROVE Fine(t)
    BY DEF Whole
  <1>1. xfer[t].pc = "none" /\ toClient[t] = << >> /\ toServer[t] = << >> /\ tid = 0 /\ t # 0
    BY DEF Init, Idle, Transfers
  <1>2. Sound(xfer[t], toClient[t], toServer[t], FirstBlock, faults)
    BY <1>1 DEF Sound, Genuine, Begun
  <1>3. Stranger(xfer[t], toServer[t], FirstBlock, tid)
    BY <1>1 DEF Stranger, Begun
  <1> QED BY <1>1, <1>2, <1>3 DEF Fine

LEMMA AsideWhole ==
  ASSUME Types, Starts, Client, Whole,
         Ask \/ AskEarly \/ GiveUp \/ Install \/ LoseRequest \/ UNCHANGED vars
  PROVE  Whole'
  <1>1. Types' /\ UNCHANGED <<options, tid, got, xfer, netVars>> /\ faults' \in {faults, faults + 1}
    BY AsideTypes
  <1>2. faults' >= faults
    BY <1>1, CountsAre DEF Types
  <1>3. \A u \in Transfers \ {0} : Fine(u)'
    BY <1>1, <1>2, Elsewhere DEF netVars
  <1> QED BY <1>3 DEF Whole, Transfers

(* A transfer that begins is nobody's yet.                                 *)
LEMMA HandleRequestWhole ==
  ASSUME Types, Starts, Client, Whole, HandleRequest
  PROVE  Whole'
  <1>1. Types'
    BY HandleRequestTypes
  <1>2. PICK t \in Transfers :
           /\ xfer[t].pc = "none" /\ UNCHANGED <<file, options, clientVars, toServer, faults>>
           /\ \E x \in Places, p \in Packets :
                /\ xfer' = [xfer EXCEPT ![t] = x]
                /\ toClient' = [toClient EXCEPT ![t] = Append(@, p)]
                /\ \/ x.pc = "refused" /\ p = Refusal
                   \/ x.pc = "wait" /\ x.block = FirstBlock /\ p = Packet(x.block, x.version)
    BY Requested DEF FirstBlock
  <1>3. PICK x \in Places, p \in Packets :
           /\ xfer' = [xfer EXCEPT ![t] = x]
           /\ toClient' = [toClient EXCEPT ![t] = Append(@, p)]
           /\ \/ x.pc = "refused" /\ p = Refusal
              \/ x.pc = "wait" /\ x.block = FirstBlock /\ p = Packet(x.block, x.version)
    BY <1>2
  <1>4. /\ Fine(t) /\ t # tid /\ toServer[t] = << >> /\ toClient[t] = << >>
    <2>1. Fine(t)
      BY DEF Whole
    <2>2. t # tid
      BY <1>2, <2>1 DEF Fine, Partner, Begun
    <2>3. toServer[t] = << >> /\ Genuine(xfer[t], toClient[t], FirstBlock)
      BY <1>2, <2>1 DEF Fine, Sound
    <2>4. \A i \in DOMAIN toClient[t] : FALSE
      BY <1>2, <2>3 DEF Genuine, Begun
    <2>5. toClient[t] \in Seq(Packets)
      BY FineIs
    <2>6. toClient[t] # << >> => 1 \in DOMAIN toClient[t]
      BY <2>5
    <2> QED BY <2>1, <2>2, <2>3, <2>4, <2>6
  <1>5. xfer'[t] = x /\ toClient'[t] = <<p>> /\ toServer'[t] = << >>
    BY <1>2, <1>3, <1>4, ArraysAre
  <1>6. FirstBlock' = FirstBlock /\ FirstBlock \in {0, 1} /\ tid' = tid
    BY <1>2 DEF FirstBlock, clientVars
  <1>7. Genuine(x, <<p>>, FirstBlock)
    <2>1. DOMAIN <<p>> = {1} /\ <<p>>[1] = p
      OBVIOUS
    <2>2. CASE x.pc = "refused" /\ p = Refusal
      BY <2>1, <2>2 DEF Genuine
    <2>3. CASE x.pc = "wait" /\ x.block = FirstBlock /\ p = Packet(x.block, x.version)
      <3>1. DataOf[p] = x.block /\ x.block \in Nat
        BY <2>3, PlaceIs, OfIs
      <3> QED BY <1>6, <2>1, <2>3, <3>1 DEF Genuine, Begun
    <2> QED BY <1>3, <2>2, <2>3
  <1>8. Sound(x, <<p>>, << >>, FirstBlock, faults')
    BY <1>3, <1>6, <1>7 DEF Sound, Begun
  <1>9. Stranger(x, << >>, FirstBlock, tid)
    BY <1>3 DEF Stranger, Begun
  <1>10. Fine(t)'
    BY <1>4, <1>5, <1>6, <1>8, <1>9 DEF Fine
  <1>11. \A u \in Transfers \ {t} : Fine(u)'
    <2>1. \A u \in Transfers \ {t} :
            /\ xfer'[u] = xfer[u] /\ toClient'[u] = toClient[u] /\ toServer'[u] = toServer[u]
      BY <1>2, <1>3, ArraysAre
    <2>2. faults' >= faults
      BY <1>2, CountsAre DEF Types
    <2> QED BY <1>1, <1>2, <2>1, <2>2, Elsewhere DEF clientVars
  <1> QED BY <1>10, <1>11 DEF Whole

(* The server's step of transfer t.                                        *)
LEMMA ServerWhole ==
  ASSUME NoWholeRound, Types, Starts, Client, Whole, NEW t \in Transfers,
         Receive(t) \/ Timeout(t) \/ TimeoutEarly(t) \/ SocketError(t)
  PROVE  Whole'
  <1> DEFINE x == xfer[t]
             q == toClient[t]
             r == toServer[t]
             s == FirstBlock
  <1>1. Types'
    BY ServerTypes
  <1>2. /\ UNCHANGED <<file, options, clientVars, requests>> /\ x.pc = "wait"
        /\ faults' \in {faults, faults + 1} /\ faults' <= MaxFaults
        /\ \/ faults' = faults + 1 /\ toServer' = toServer
           \/ faults' = faults /\ toServer' = toServer /\ ~InFlight(t)
           \/ faults' = faults /\ r # << >> /\ toServer' = [toServer EXCEPT ![t] = Tail(@)]
    BY Served
  <1>3. PICK y \in Places :
          /\ xfer' = [xfer EXCEPT ![t] = y] /\ y.version = x.version
          /\ \/ /\ y.pc = "failed" /\ y.block = x.block /\ toClient' = toClient
             \/ /\ y.pc = "wait" /\ y.block = x.block
                /\ \/ faults' = faults + 1 \/ r = << >>
                   \/ ~Matches(t, Head(r)) /\ Head(r).kind # "error"
                /\ toClient' = [toClient EXCEPT ![t] = Append(@, Packet(y.block, y.version))]
             \/ /\ Receive(t) /\ Matches(t, Head(r))
                /\ \/ /\ y.pc = "wait" /\ y.block = x.block + 1
                      /\ toClient' = [toClient EXCEPT ![t] = Append(@, Packet(y.block, y.version))]
                   \/ /\ y.pc = "done" /\ y.block = x.block /\ y.block = NumBlocks
                      /\ toClient' = toClient
    BY Served
  <1>4. /\ x \in Places /\ q \in Seq(Packets) /\ r \in Seq(Replies) /\ x.block \in Nat
        /\ got \in Seq(Blocks \X Versions) /\ Len(got) \in Nat /\ faults \in Nat /\ faults' \in Nat
        /\ faults <= MaxFaults /\ s \in {0, 1} /\ faults' >= faults /\ y.block \in Nat
        /\ Packet(y.block, y.version) \in Packets /\ DataOf[Packet(y.block, y.version)] = y.block
    BY <1>2, FineIs, PlaceIs, PacketIs, OfIs
  <1>5. /\ xfer'[t] = y
        /\ \A u \in Transfers \ {t} :
             xfer'[u] = xfer[u] /\ toClient'[u] = toClient[u] /\ toServer'[u] = toServer[u]
        /\ FirstBlock' = s /\ tid' = tid /\ got' = got
    BY <1>2, <1>3, ArraysAre DEF FirstBlock, clientVars
  <1> DEFINE q2 == toClient'[t]
             r2 == toServer'[t]
             p  == Packet(y.block, y.version)
  <1>6. \/ q2 = q /\ y.pc \in {"failed", "done"}
        \/ q2 = Append(q, p)
    BY <1>3, ArraysAre
  <1>7. \/ r2 = r /\ faults' = faults + 1
        \/ r2 = r /\ faults' = faults /\ r = << >> /\ q = << >>
        \/ r2 = Tail(r) /\ r # << >> /\ faults' = faults
    BY <1>2, ArraysAre DEF InFlight
  <1>8. q2 \in Seq(Packets) /\ r2 \in Seq(Replies)
    BY <1>1, ArraysAre DEF Types
  <1>9. Fine(t) /\ Sound(x, q, r, s, faults)
    BY DEF Whole, Fine
  <1> HIDE DEF x, q, r, s, q2, r2
  <1>10. faults' = 0 => q = << >> /\ r2 = << >> /\ faults = 0
    <2> SUFFICES ASSUME faults' = 0 PROVE q = << >> /\ r2 = << >> /\ faults = 0
      OBVIOUS
    <2>1. faults = 0 /\ faults' # faults + 1 /\ Len(q) + Len(r) <= 1
      BY <1>4, <1>9 DEF Sound
    <2>2. r # << >> => Len(r) >= 1 /\ Len(Tail(r)) = Len(r) - 1
      BY <1>4
    <2> QED BY <1>4, <1>7, <2>1, <2>2
  <1>11. Begun(x) /\ Begun(y) /\ s <= x.block /\ y.block \in {x.block, x.block + 1}
    BY <1>2, <1>3, <1>9 DEF Sound, Begun
  <1>12. Sound(y, q2, r2, s, faults')
    <2>1. Genuine(y, q2, s)
      <3>1. CASE q2 = Append(q, p)
        BY <1>3, <1>4, <1>9, <1>11, <3>1, GenuineAppend DEF Sound
      <3>2. CASE q2 = q /\ y.pc \in {"failed", "done"}
        <4>1. y.block = x.block
          BY <1>3, <3>2
        <4>2. Within(q, q)
          BY DEF Within
        <4> QED BY <1>3, <1>9, <1>11, <3>2, <4>1, <4>2, GenuineWithin DEF Sound
      <3> QED BY <1>6, <3>1, <3>2
    <2>2. s <= y.block /\ y.pc # "none"
      BY <1>4, <1>11 DEF Begun
    <2>3. faults' = 0 => Len(q2) + Len(r2) <= 1
      <3>1. Len(q2) <= Len(q) + 1 /\ Len(q2) \in Nat
        BY <1>4, <1>6
      <3> QED BY <1>10, <3>1
    <2> QED BY <2>1, <2>2, <2>3 DEF Sound
  <1>13. \A i \in DOMAIN r2 : \E k \in DOMAIN r : r2[i] = r[k]
    <2>1. r # << >> => Within(Tail(r), r)
      BY <1>4, TailWithin
    <2> QED BY <1>7, <2>1 DEF Within
  <1>14. ASSUME t # tid PROVE Fine(t)'
    <2>1. Stranger(x, r, s, tid)
      BY <1>9, <1>14 DEF Fine, x, r, s
    <2>2. Receive(t) => Head(r).kind = "error"
      <3> SUFFICES ASSUME Receive(t) PROVE Head(r).kind = "error"
        OBVIOUS
      <3>1. r # << >>
        BY DEF Receive, r
      <3>2. 1 \in DOMAIN r /\ Head(r) = r[1]
        BY <1>4, <3>1, TailAt
      <3> QED BY <2>1, <3>2 DEF Stranger, ErrorPacket
    <2>3. y.block = x.block /\ y.pc # "done"
      BY <1>3, <2>2 DEF Matches
    <2>4. Stranger(y, r2, s, tid)
      BY <1>11, <1>13, <2>1, <2>3 DEF Stranger
    <2> QED BY <1>5, <1>12, <1>14, <2>4 DEF Fine, q2, r2
  <1>15. ASSUME t = tid PROVE Fine(t)'
    <2>1. Partner(x, q, r, got, faults)
      BY <1>9, <1>15 DEF Fine, x, q, r
    <2>2. \A i \in DOMAIN r2 : r2[i] = Ack(AckOf[r2[i]]) /\ AckOf[r2[i]] <= Len(got)
      BY <1>13, <2>1 DEF Partner
    <2>3. /\ Len(got) \in {x.block - 1, x.block} /\ Fresh(q, DataOf, Len(got), faults)
          /\ Fresh(r, AckOf, x.block - 1, faults) /\ \A i \in DOMAIN got : got[i] = <<i, x.version>>
      BY <2>1 DEF Partner
    <2>4. DataOf \in [Packets -> Nat] /\ AckOf \in [Replies -> Nat] /\ x.block - 1 \in Int
          /\ Len(got) \in Int /\ Len(got) <= Len(got) /\ x.block - 1 <= x.block - 1
      BY <1>4, OfIs
    <2>5. Fresh(q, DataOf, Len(got), faults')
      BY <1>4, <2>3, <2>4, FreshLess
    <2>6. \A j \in DOMAIN q : DataOf[q[j]] <= x.block
      <3>1. x.pc # "refused"
        BY <1>11 DEF Begun
      <3> QED BY <1>4, <1>9, <3>1 DEF Sound, Genuine
    <2>7. CASE y.block = x.block /\ y.pc \in {"failed", "wait"} /\ (y.pc = "failed" => q2 = q)
               /\ (y.pc = "wait" => /\ q2 = Append(q, p)
                                    /\ \/ faults' = faults + 1 \/ r = << >>
                                       \/ ~Matches(t, Head(r)) /\ Head(r).kind # "error")
      <3>1. Fresh(r2, AckOf, y.block - 1, faults')
        <4>1. Fresh(r, AckOf, x.block - 1, faults')
          BY <1>4, <2>3, <2>4, FreshMore
        <4>2. r # << >> => Fresh(Tail(r), AckOf, x.block - 1, faults')
          BY <1>4, <2>4, <4>1, FreshTail
        <4> QED BY <1>7, <2>7, <4>1, <4>2
      <3>2. y.pc = "wait" /\ faults' = 0 => x.block = Len(got) + 1
        <4> SUFFICES ASSUME y.pc = "wait", faults' = 0, x.block # Len(got) + 1 PROVE FALSE
          OBVIOUS
        <4>1. faults = 0 /\ faults' # faults + 1
          BY <1>4, <1>10
        <4>2. x.block = Len(got)
          <5>1. Len(got) \in {x.block - 1, x.block} /\ x.block \in Nat
            BY <1>4, <2>3
          <5>2. x.block # Len(got) + 1
            OBVIOUS
          <5> QED BY <5>1, <5>2
        <4>3. r # << >>
          BY <1>2, <2>1, <4>1, <4>2 DEF Partner, x
        <4>4. 1 \in DOMAIN r /\ Head(r) = r[1]
          BY <1>4, <4>3, TailAt
        <4>5. Head(r) = Ack(AckOf[Head(r)]) /\ AckOf[Head(r)] <= Len(got) /\ AckOf[Head(r)] > x.block - 1
          <5>1. AckOf[r[1]] + faults > x.block - 1
            BY <2>3, <4>4 DEF Fresh
          <5>2. AckOf[r[1]] + 0 = AckOf[r[1]]
            BY <1>4, <2>4, <4>4
          <5> QED BY <2>1, <4>1, <4>4, <5>1, <5>2 DEF Partner
        <4>6. AckOf[Head(r)] = x.block
          <5>1. AckOf[Head(r)] \in Nat
            BY <1>4, <2>4, <4>4
          <5> QED BY <1>4, <4>2, <4>5, <5>1
        <4>7. Matches(t, Head(r))
          BY <4>5, <4>6 DEF Matches, Ack, x
        <4> QED BY <2>7, <4>1, <4>3, <4>7
      <3>3. Fresh(q2, DataOf, Len(got), faults')
        <4>1. CASE y.pc = "failed"
          BY <2>5, <2>7, <4>1
        <4>2. CASE y.pc = "wait"
          <5>1. y.block + faults' > Len(got)
            BY <1>4, <2>3, <2>7, <3>2, <4>2
          <5>2. \A j \in DOMAIN q : y.block + faults' > DataOf[q[j]]
            <6>1. \A j \in DOMAIN q : faults' # 0 /\ DataOf[q[j]] \in Nat
              BY <1>4, <1>10, <2>4
            <6> QED BY <1>4, <2>6, <2>7, <6>1
          <5> QED BY <1>4, <2>4, <2>5, <2>7, <4>2, <5>1, <5>2, FreshAppend
        <4> QED BY <2>7, <4>1, <4>2
      <3>4. /\ Len(got) \in {y.block - 1, y.block} /\ y.pc # "done"
            /\ \A i \in DOMAIN got : got[i] = <<i, y.version>>
        BY <1>3, <2>3, <2>7
      <3>5. faults' = 0 => /\ q2 # << >> => y.block = Len(got) + 1
                           /\ y.pc = "wait" /\ y.block = Len(got) => r2 # << >>
        BY <1>4, <1>10, <2>7, <3>2
      <3>6. Partner(y, q2, r2, got, faults')
        BY <1>11, <2>2, <3>1, <3>3, <3>4, <3>5 DEF Partner
      <3> QED BY <1>5, <1>12, <1>15, <3>6 DEF Fine, q2, r2
    <2>8. CASE /\ Receive(t) /\ Matches(t, Head(r))
               /\ \/ y.pc = "wait" /\ y.block = x.block + 1 /\ q2 = Append(q, p)
                  \/ y.pc = "done" /\ y.block = x.block /\ y.block = NumBlocks /\ q2 = q
      <3>1. r # << >> /\ r2 = Tail(r) /\ faults' = faults
        BY <1>4, <2>8, ArraysAre DEF Receive, Rest, r, r2
      <3>2. /\ Len(got) = x.block /\ Fresh(r2, AckOf, x.block, faults')
            /\ Fresh(r2, AckOf, x.block - 1, faults')
        <4>1. Head(r).num = Num(x.block)
          BY <2>8 DEF Matches, x
        <4> QED BY <1>4, <2>1, <3>1, <4>1, AckTaken
      <3>3. Fresh(r2, AckOf, y.block - 1, faults')
        BY <1>4, <2>8, <3>2
      <3>4. Fresh(q2, DataOf, Len(got), faults')
        <4>1. CASE q2 = q
          BY <2>5, <4>1
        <4>2. CASE q2 = Append(q, p) /\ y.block = x.block + 1
          <5>1. y.block + faults' > Len(got)
            BY <1>4, <3>2, <4>2
          <5>2. \A j \in DOMAIN q : y.block + faults' > DataOf[q[j]]
            <6>1. \A j \in DOMAIN q : DataOf[q[j]] \in Nat
              BY <1>4, <2>4
            <6> QED BY <1>4, <2>6, <4>2, <6>1
          <5> QED BY <1>4, <2>4, <2>5, <4>2, <5>1, <5>2, FreshAppend
        <4> QED BY <2>8, <4>1, <4>2
      <3>5. /\ Len(got) \in {y.block - 1, y.block} /\ (y.pc = "done" => Len(got) = NumBlocks)
            /\ \A i \in DOMAIN got : got[i] = <<i, y.version>>
        BY <1>3, <1>4, <2>3, <2>8, <3>2
      <3>6. faults' = 0 => /\ q2 # << >> => y.block = Len(got) + 1
                           /\ y.pc = "wait" /\ y.block = Len(got) => r2 # << >>
        BY <1>4, <1>10, <2>8, <3>2
      <3>7. Partner(y, q2, r2, got, faults')
        BY <1>11, <2>2, <3>3, <3>4, <3>5, <3>6 DEF Partner
      <3> QED BY <1>5, <1>12, <1>15, <3>7 DEF Fine, q2, r2
    <2>9. CASE y.pc = "failed" /\ y.block = x.block /\ toClient' = toClient
      BY <2>7, <2>9 DEF q2, q
    <2> QED BY <1>3, <1>6, <2>7, <2>8, <2>9 DEF q, q2
  <1>16. \A u \in Transfers \ {t} : Fine(u)'
    BY <1>1, <1>2, <1>4, <1>5, Elsewhere
  <1>17. Fine(t)'
    BY <1>14, <1>15
  <1> QED BY <1>16, <1>17 DEF Whole

(* What is lost, doubled or swapped, a send that fails, and what arrives   *)
(* at a port nobody reads.                                                 *)
LEMMA NetworkWhole ==
  ASSUME Types, Starts, Client, Whole, NEW t \in Transfers,
         SendFails(t) \/ Unread(t) \/ DisturbData(t) \/ DisturbAcks(t)
  PROVE  Whole'
  <1> DEFINE x  == xfer[t]
             q  == toClient[t]
             r  == toServer[t]
             s  == FirstBlock
             y  == xfer'[t]
             q2 == toClient'[t]
             r2 == toServer'[t]
  <1>1. Types'
    BY NetworkTypes
  <1>2. /\ UNCHANGED <<file, options, clientVars, requests>>
        /\ \/ /\ faults' = faults + 1 /\ toServer' = toServer
              /\ \E z \in Seq(Packets) :
                   Within(z, toClient[t]) /\ toClient' = [toClient EXCEPT ![t] = z]
              /\ \/ xfer' = xfer
                 \/ xfer[t].pc = "wait" /\ xfer' = [xfer EXCEPT ![t] = [@ EXCEPT !.pc = "sendFailed"]]
           \/ /\ faults' = faults + 1 /\ toClient' = toClient /\ xfer' = xfer
              /\ \E z \in Seq(Replies) :
                   Within(z, toServer[t]) /\ toServer' = [toServer EXCEPT ![t] = z]
           \/ /\ faults' = faults /\ toClient' = toClient /\ xfer' = xfer /\ xfer[t].pc # "wait"
              /\ toServer[t] # << >> /\ toServer' = [toServer EXCEPT ![t] = Tail(@)]
    BY Lossy
  <1>3. /\ x \in Places /\ q \in Seq(Packets) /\ r \in Seq(Replies) /\ x.block \in Nat
        /\ got \in Seq(Blocks \X Versions) /\ Len(got) \in Nat /\ faults \in Nat
        /\ s \in {0, 1}
    BY FineIs
  <1>4. y \in Places /\ q2 \in Seq(Packets) /\ r2 \in Seq(Replies)
    BY <1>1, ArraysAre DEF Types
  <1>5. /\ \A u \in Transfers \ {t} :
             xfer'[u] = xfer[u] /\ toClient'[u] = toClient[u] /\ toServer'[u] = toServer[u]
        /\ FirstBlock' = s /\ tid' = tid /\ got' = got
    <2>1. FirstBlock' = s /\ tid' = tid /\ got' = got
      BY <1>2 DEF FirstBlock, clientVars
    <2>2. \A u \in Transfers \ {t} : xfer'[u] = xfer[u]
      BY <1>2, ArraysAre
    <2>3. \A u \in Transfers \ {t} : toClient'[u] = toClient[u] /\ toServer'[u] = toServer[u]
      BY <1>2, ArraysAre
    <2> QED BY <2>1, <2>2, <2>3
  <1>6. /\ \/ faults' = faults + 1
           \/ /\ faults' = faults /\ q2 = q /\ y = x /\ x.pc # "wait" /\ r # << >>
              /\ r2 = Tail(r)
        /\ Within(q2, q) /\ Within(r2, r)
    <2>1. r # << >> => Within(Tail(r), r)
      BY <1>3, TailWithin
    <2>2. Within(q, q) /\ Within(r, r)
      BY DEF Within
    <2>3. toClient \in [Transfers -> Seq(Packets)] /\ toServer \in [Transfers -> Seq(Replies)]
      BY ArraysAre
    <2> QED BY <1>2, <2>1, <2>2, <2>3
  <1>7. y = x \/ (x.pc = "wait" /\ y = [x EXCEPT !.pc = "sendFailed"])
    BY <1>2, ArraysAre
  <1>8. /\ y.block = x.block /\ y.version = x.version
        /\ y = x \/ (x.pc = "wait" /\ y.pc = "sendFailed")
        /\ y = x \/ (Begun(x) /\ Begun(y) /\ y.block = x.block /\ y.version = x.version)
        /\ (Begun(y) <=> Begun(x)) /\ (y.pc = "none" <=> x.pc = "none") /\ (y.pc = "done" <=> x.pc = "done")
    BY <1>3, <1>7 DEF Places, Begun
  <1>9. Fine(t) /\ Sound(x, q, r, s, faults)
    BY DEF Whole, Fine
  <1> HIDE DEF x, q, r, s, q2, r2, y
  <1>10. faults' \in Nat /\ faults' >= faults
    BY <1>3, <1>6
  <1>11. faults' = 0 => faults = 0 /\ q2 = << >> /\ y = x /\ x.pc # "wait" /\ r2 = << >>
    <2> SUFFICES ASSUME faults' = 0
                 PROVE  faults = 0 /\ q2 = << >> /\ y = x /\ x.pc # "wait" /\ r2 = << >>
      OBVIOUS
    <2>1. faults = 0 /\ faults' # faults + 1 /\ Len(q) + Len(r) <= 1
      BY <1>3, <1>6, <1>9 DEF Sound
    <2>2. r # << >> => Len(r) >= 1 /\ Len(Tail(r)) = Len(r) - 1
      BY <1>3
    <2> QED BY <1>3, <1>4, <1>6, <2>1, <2>2
  <1>12. Sound(y, q2, r2, s, faults')
    <2>1. Genuine(y, q2, s)
      BY <1>6, <1>8, <1>9, GenuineWithin DEF Sound
    <2>2. y.pc = "none" => r2 = << >>
      <3> SUFFICES ASSUME y.pc = "none" PROVE r2 = << >>
        OBVIOUS
      <3>1. r = << >>
        BY <1>8, <1>9 DEF Sound
      <3>2. r2 # << >> => 1 \in DOMAIN r2
        BY <1>4
      <3> QED BY <1>6, <3>1, <3>2 DEF Within
    <2> QED BY <1>8, <1>9, <1>11, <2>1, <2>2 DEF Sound
  <1>13. ASSUME t # tid PROVE Fine(t)'
    <2>1. Stranger(x, r, s, tid)
      BY <1>9, <1>13 DEF Fine, x, r, s
    <2>2. Stranger(y, r2, s, tid)
      BY <1>6, <1>8, <2>1 DEF Stranger, Within
    <2> QED BY <1>5, <1>12, <1>13, <2>2 DEF Fine, q2, r2, y
  <1>14. ASSUME t = tid PROVE Fine(t)'
    <2>1. Partner(x, q, r, got, faults)
      BY <1>9, <1>14 DEF Fine, x, q, r
    <2>2. \A i \in DOMAIN r2 : r2[i] = Ack(AckOf[r2[i]]) /\ AckOf[r2[i]] <= Len(got)
      BY <1>6, <2>1 DEF Partner, Within
    <2>3. /\ Fresh(q, DataOf, Len(got), faults) /\ Fresh(r, AckOf, x.block - 1, faults)
          /\ \A i \in DOMAIN r : AckOf[r[i]] <= Len(got)
      BY <2>1 DEF Partner
    <2>4. Len(got) \in {x.block - 1, x.block} /\ Begun(x)
      BY <2>1 DEF Partner
    <2>5. DataOf \in [Packets -> Nat] /\ AckOf \in [Replies -> Nat] /\ x.block - 1 \in Int
          /\ Len(got) \in Int
      BY <1>3, OfIs
    <2>6. \A j \in DOMAIN q : DataOf[q[j]] <= Len(got) + 1
      <3>1. x.pc # "refused"
        BY <2>4 DEF Begun
      <3>2. \A j \in DOMAIN q : DataOf[q[j]] <= x.block /\ DataOf[q[j]] \in Nat
        BY <1>3, <1>9, <2>5, <3>1 DEF Sound, Genuine
      <3> QED BY <1>3, <2>4, <3>2
    <2>7. \A i \in DOMAIN r : AckOf[r[i]] <= (x.block - 1) + 1
      <3>1. \A i \in DOMAIN r : AckOf[r[i]] \in Nat
        BY <1>3, <2>5
      <3> QED BY <1>3, <2>3, <2>4, <3>1
    <2>8. /\ Fresh(q2, DataOf, Len(got), faults') /\ Fresh(r2, AckOf, x.block - 1, faults')
      <3>1. CASE faults' = faults + 1
        <4>1. Fresh(q2, DataOf, Len(got), faults + 1)
          BY <1>3, <1>4, <1>6, <2>3, <2>5, <2>6, FreshFault
        <4>2. Fresh(r2, AckOf, x.block - 1, faults + 1)
          BY <1>3, <1>4, <1>6, <2>3, <2>5, <2>7, FreshFault
        <4> QED BY <3>1, <4>1, <4>2
      <3>2. CASE faults' = faults /\ q2 = q /\ r # << >> /\ r2 = Tail(r)
        BY <1>3, <2>3, <2>5, <3>2, FreshTail
      <3> QED BY <1>6, <3>1, <3>2
    <2>9. Partner(y, q2, r2, got, faults')
      BY <1>8, <1>11, <2>1, <2>2, <2>8 DEF Partner
    <2> QED BY <1>5, <1>12, <1>14, <2>9 DEF Fine, q2, r2, y
  <1>15. \A u \in Transfers \ {t} : Fine(u)'
    BY <1>1, <1>2, <1>5, <1>10, Elsewhere
  <1> QED BY <1>13, <1>14, <1>15 DEF Whole

(* A packet of transfer t reaches the client.                              *)
LEMMA ClientWhole ==
  ASSUME NoWholeRound, Types, Starts, Client, Whole, NEW t \in Transfers, ClientReceive(t)
  PROVE  Whole'
  <1> DEFINE x  == xfer[t]
             q  == toClient[t]
             r  == toServer[t]
             s  == FirstBlock
             p  == Head(toClient[t])
             r2 == toServer'[t]
             n  == Len(got)
  <1>1. Types'
    BY ClientTypes
  <1>2. /\ UNCHANGED <<file, options, asks, requests, xfer, faults>> /\ q # << >>
        /\ toClient' = [toClient EXCEPT ![t] = Tail(@)]
    BY DEF ClientReceive, Rest
  <1>3. /\ x \in Places /\ q \in Seq(Packets) /\ r \in Seq(Replies) /\ x.block \in Nat
        /\ got \in Seq(Blocks \X Versions) /\ n \in Nat /\ faults \in Nat /\ faults <= MaxFaults
        /\ s \in {0, 1} /\ t # 0 /\ x.version \in Versions
    BY FineIs, ArraysAre, PlaceIs
  <1>4. Fine(t) /\ Sound(x, q, r, s, faults)
    BY DEF Whole, Fine
  <1>5. /\ p = q[1] /\ 1 \in DOMAIN q /\ Tail(q) \in Seq(Packets) /\ Len(Tail(q)) = Len(q) - 1
        /\ p \in Packets /\ Within(Tail(q), q) /\ Len(q) \in Nat
    BY <1>2, <1>3, TailAt, TailWithin
  <1>6. xfer'[t] = x /\ toClient'[t] = Tail(q) /\ FirstBlock' = s /\ faults' = faults
    BY <1>2, ArraysAre DEF FirstBlock
  (* Which block p is, and what kind of packet.                            *)
  <1>7. /\ p.kind = "error" => p = Refusal /\ x.pc = "refused"
        /\ p.kind # "error" =>
             /\ Begun(x) /\ DataOf[p] \in s .. x.block /\ p.data = <<DataOf[p], x.version>>
             /\ p.kind = "oack" <=> DataOf[p] = 0
             /\ p.kind = "data" => p.num = Num(DataOf[p])
    <2>1. \/ x.pc = "refused" /\ p = Refusal
          \/ Begun(x) /\ p = Packet(DataOf[p], x.version) /\ DataOf[p] \in s .. x.block
      BY <1>4, <1>5 DEF Sound, Genuine
    <2>2. DataOf[p] \in Blocks
      BY <1>5, OfIs
    <2>3. /\ Packet(DataOf[p], x.version).data = <<DataOf[p], x.version>>
          /\ Packet(DataOf[p], x.version).kind = IF DataOf[p] = 0 THEN "oack" ELSE "data"
          /\ DataOf[p] # 0 => Packet(DataOf[p], x.version).num = Num(DataOf[p])
      BY <1>3, <2>2, PacketIs
    <2>4. Refusal.kind = "error"
      BY DEF Refusal
    <2> QED BY <2>1, <2>3, <2>4
  (* With no fault so far, p is all there is under way.                    *)
  <1>8. faults = 0 => Tail(q) = << >> /\ r = << >>
    <2> SUFFICES ASSUME faults = 0 PROVE Tail(q) = << >> /\ r = << >>
      OBVIOUS
    <2>1. Len(q) + Len(r) <= 1
      BY <1>4 DEF Sound
    <2>2. Len(q) > 0 /\ Len(r) \in Nat
      BY <1>2, <1>3, <1>5, TailAt
    <2>3. Len(Tail(q)) = 0 /\ Len(r) = 0
      <3>1. \A a, b \in Nat : a + b <= 1 /\ a > 0 => a - 1 = 0 /\ b = 0
        OBVIOUS
      <3>2. Len(q) \in Nat /\ Len(Tail(q)) = Len(q) - 1
        BY <1>5
      <3> HIDE DEF q, r
      <3>3. Len(q) - 1 = 0 /\ Len(r) = 0
        BY <2>1, <2>2, <3>1, <3>2
      <3> QED BY <3>2, <3>3
    <2>4. Tail(q) \in Seq(Packets) /\ r \in Seq(Replies)
      BY <1>3, <1>5
    <2> HIDE DEF q, r
    <2>5. \A S : \A z \in Seq(S) : Len(z) = 0 => z = << >>
      OBVIOUS
    <2> QED BY <2>3, <2>4, <2>5
  <1>9. tid = 0 => got = << >> /\ phase \notin {"receiving", "done"}
    BY DEF Client
  (* The transfers the client's answer is not about.                       *)
  <1>10. ASSUME \/ toServer' = toServer
                \/ \E a \in Replies : toServer' = [toServer EXCEPT ![t] = Append(@, a)],
                \/ tid' = tid /\ (tid # t => got' = got)
                \/ tid = 0 /\ tid' = t
         PROVE  \A u \in Transfers \ {t} : Fine(u)'
    <2>1. \A u \in Transfers \ {t} :
            /\ xfer'[u] = xfer[u] /\ toClient'[u] = toClient[u] /\ toServer'[u] = toServer[u]
      BY <1>2, <1>10, ArraysAre
    <2>2. faults' >= faults
      BY <1>2, <1>3
    <2> QED BY <1>1, <1>2, <1>3, <1>10, <2>1, <2>2, Elsewhere
  <1> HIDE DEF x, q, r, s, p, r2, n
  (* p is dropped, or answered with an error.                              *)
  <1>11. Genuine(x, Tail(q), s)
    BY <1>4, <1>5, GenuineWithin DEF Sound
  <1>12. ASSUME tid' = tid, got' = got, toServer' = toServer
         PROVE  Whole'
    <2>1. r2 = r
      BY <1>12 DEF r, r2
    <2>2. Sound(x, Tail(q), r, s, faults)
      <3>1. Len(<< >>) + Len(<< >>) <= 1
        OBVIOUS
      <3>2. faults = 0 => Len(Tail(q)) + Len(r) <= 1
        BY <1>8, <3>1
      <3> QED BY <1>4, <1>11, <3>2 DEF Sound
    <2>3. CASE t = tid
      <3>1. Partner(x, q, r, got, faults)
        BY <1>4, <2>3 DEF Fine, x, q, r
      <3>2. Fresh(q, DataOf, Len(got), faults) /\ DataOf \in [Packets -> Nat] /\ Len(got) \in Int
        BY <1>3, <3>1, OfIs DEF Partner, n
      <3>3. Fresh(Tail(q), DataOf, Len(got), faults)
        BY <1>2, <1>3, <3>2, FreshTail DEF q
      <3>4. faults = 0 => x.block = Len(got) + 1
        BY <1>2, <3>1 DEF Partner, q
      <3>5. x.block # Len(got) + 1 \/ x.block # Len(got)
        BY <1>3
      <3>6. Partner(x, Tail(q), r, got, faults)
        BY <3>1, <3>3, <3>4, <3>5 DEF Partner
      <3>7. Fine(t)'
        BY <1>6, <1>12, <2>1, <2>2, <2>3, <3>6 DEF Fine, r2
      <3> QED BY <1>10, <1>12, <3>7 DEF Whole
    <2>4. CASE t # tid
      <3>1. Stranger(x, r, s, tid)
        BY <1>4, <2>4 DEF Fine, x, r, s
      <3>2. Fine(t)'
        BY <1>6, <1>12, <2>1, <2>2, <2>4, <3>1 DEF Fine, r2
      <3> QED BY <1>10, <1>12, <3>2 DEF Whole
    <2> QED BY <2>3, <2>4
  (* An answer joins those under way to the server.                        *)
  <1>13. ASSUME NEW a \in Replies, toServer' = Send(toServer, t, a), Begun(x)
         PROVE  /\ r2 = Append(r, a) /\ Sound(x, Tail(q), r2, s, faults)
                /\ DOMAIN r2 = 1 .. Len(r) + 1 /\ Len(r) \in Nat /\ DOMAIN r = 1 .. Len(r)
                /\ r2[Len(r) + 1] = a /\ (\A i \in 1 .. Len(r) : r2[i] = r[i])
                /\ toServer' = [toServer EXCEPT ![t] = Append(@, a)] /\ r2 # << >>
    <2>1. r2 = Append(r, a) /\ toServer' = [toServer EXCEPT ![t] = Append(@, a)]
      BY <1>13, ArraysAre DEF Send, r, r2
    <2>2. /\ DOMAIN r2 = 1 .. Len(r) + 1 /\ Len(r) \in Nat /\ DOMAIN r = 1 .. Len(r)
          /\ r2[Len(r) + 1] = a /\ (\A i \in 1 .. Len(r) : r2[i] = r[i]) /\ Len(r2) = Len(r) + 1
          /\ r2 # << >>
      BY <1>3, <2>1, AppendAt
    <2>3. faults = 0 => Len(Tail(q)) + Len(r2) <= 1
      BY <1>8, <2>2
    <2>4. x.pc # "none"
      BY <1>13 DEF Begun
    <2> QED BY <1>4, <1>11, <2>1, <2>2, <2>3, <2>4 DEF Sound
  <1>14. CASE phase = "asking" /\ p.kind \in {"oack", "data"} /\ tid' = t /\ toServer' = Send(toServer, t, Ack(Len(got')))
              /\ \/ p.kind = "oack" /\ got' = got
                 \/ p.kind = "data" /\ got' = <<p.data>>
    <2>1. tid = 0 /\ got = << >> /\ t # tid
      BY <1>3, <1>14 DEF Client
    <2>2. Begun(x) /\ x.block = s /\ x.pc # "done" /\ r = << >>
      <3>1. Stranger(x, r, s, tid)
        BY <1>4, <2>1 DEF Fine, x, r, s
      <3>2. \A i \in DOMAIN r : FALSE
        BY <2>1, <3>1 DEF Stranger
      <3>3. r # << >> => 1 \in DOMAIN r
        BY <1>3
      <3> QED BY <1>7, <1>14, <3>1, <3>2, <3>3 DEF Stranger
    <2>3. Len(got') = s /\ \A i \in DOMAIN got' : got'[i] = <<i, x.version>>
      <3>1. DataOf[p] = s
        BY <1>3, <1>7, <1>14, <2>2
      <3>2. CASE p.kind = "oack" /\ got' = got
        BY <1>7, <2>1, <3>1, <3>2
      <3>3. CASE p.kind = "data" /\ got' = <<p.data>>
        <4>1. s = 1 /\ p.data = <<1, x.version>>
          BY <1>3, <1>7, <3>1, <3>3
        <4> QED BY <3>3, <4>1
      <3> QED BY <1>14, <3>2, <3>3
    <2>4. s \in Blocks /\ Ack(s) \in Replies /\ AckOf[Ack(s)] = s
      BY <1>3, Numbers, ReplyIs, OfIs
    <2>5. /\ r2 = Append(r, Ack(s)) /\ Sound(x, Tail(q), r2, s, faults)
          /\ toServer' = [toServer EXCEPT ![t] = Append(@, Ack(s))] /\ r2 # << >>
      BY <1>13, <1>14, <2>2, <2>3, <2>4
    <2>6. r2 = <<Ack(s)>> /\ DOMAIN r2 = {1}
      BY <2>2, <2>5
    <2>7. Fresh(r2, AckOf, x.block - 1, faults)
      BY <1>3, <2>2, <2>4, <2>6 DEF Fresh
    <2>8. Fresh(Tail(q), DataOf, Len(got'), faults)
      <3>1. \A i \in DOMAIN q : DataOf[q[i]] = s
        <4>1. x.pc # "refused"
          BY <2>2 DEF Begun
        <4> QED BY <1>3, <1>4, <2>2, <4>1 DEF Sound, Genuine
      <3>2. \A i \in DOMAIN Tail(q) : DataOf[Tail(q)[i]] = s
        BY <1>5, <3>1 DEF Within
      <3>3. CASE faults = 0
        BY <1>8, <3>3 DEF Fresh
      <3>4. CASE faults # 0
        <4>1. s + faults > s
          BY <1>3, <3>4
        <4>2. \A i \in DOMAIN Tail(q) : \A j \in 1 .. i - 1 : j \in DOMAIN Tail(q)
          BY <1>5
        <4> QED BY <2>3, <3>2, <4>1, <4>2 DEF Fresh
      <3> QED BY <3>3, <3>4
    <2>9. Partner(x, Tail(q), r2, got', faults)
      <3>1. \A i \in DOMAIN r2 : r2[i] = Ack(AckOf[r2[i]]) /\ AckOf[r2[i]] <= Len(got')
        BY <1>3, <2>3, <2>4, <2>6
      <3>2. Len(got') \in {x.block - 1, x.block}
        BY <2>2, <2>3
      <3> QED BY <1>8, <2>2, <2>3, <2>5, <2>7, <2>8, <3>1, <3>2 DEF Partner
    <2>10. Fine(t)'
      BY <1>6, <1>14, <2>5, <2>9 DEF Fine, r2
    <2>11. \A u \in Transfers \ {t} : Fine(u)'
      BY <1>10, <1>14, <2>1, <2>4, <2>5
    <2> QED BY <2>10, <2>11 DEF Whole
  <1>15. CASE /\ phase \in {"receiving", "done"} /\ t = tid /\ tid' = tid
              /\ p.kind = "data" /\ phase # "done" /\ p.num = Num(n + 1)
              /\ got' = Append(got, p.data) /\ toServer' = Send(toServer, t, Ack(n + 1))
    <2>1. Partner(x, q, r, got, faults) /\ n < NumBlocks
      BY <1>4, <1>15 DEF Fine, x, q, r, Client, n
    <2>2. /\ x.block = n + 1 /\ p.data = <<x.block, x.version>>
          /\ Fresh(Tail(q), DataOf, n + 1, faults)
      BY <1>2, <1>3, <1>4, <1>15, <2>1, DataTaken DEF n, p, q
    <2>3. /\ Len(got') = n + 1 /\ DOMAIN got' = 1 .. n + 1 /\ got'[n + 1] = p.data
          /\ \A i \in 1 .. n : got'[i] = got[i]
      <3>1. p.data \in Blocks \X Versions
        BY <1>5 DEF Packets
      <3> QED BY <1>3, <1>15, <3>1, AppendAt DEF n
    <2>4. \A i \in DOMAIN got' : got'[i] = <<i, x.version>>
      <3>1. \A i \in 1 .. n : i \in DOMAIN got
        BY <1>3 DEF n
      <3> QED BY <1>3, <2>1, <2>2, <2>3, <3>1 DEF Partner
    <2>5. x.block \in Blocks /\ Ack(n + 1) \in Replies /\ AckOf[Ack(n + 1)] = n + 1
      BY <1>3, <2>2, PlaceIs, ReplyIs, OfIs
    <2>6. Begun(x) /\ (x.pc = "done" => n = NumBlocks) /\ Fresh(r, AckOf, x.block - 1, faults)
          /\ \A i \in DOMAIN r : r[i] = Ack(AckOf[r[i]]) /\ AckOf[r[i]] <= n
      BY <2>1 DEF Partner, n
    <2>7. /\ r2 = Append(r, Ack(n + 1)) /\ Sound(x, Tail(q), r2, s, faults)
          /\ DOMAIN r2 = 1 .. Len(r) + 1 /\ Len(r) \in Nat /\ DOMAIN r = 1 .. Len(r)
          /\ r2[Len(r) + 1] = Ack(n + 1) /\ (\A i \in 1 .. Len(r) : r2[i] = r[i])
          /\ toServer' = [toServer EXCEPT ![t] = Append(@, Ack(n + 1))] /\ r2 # << >>
      BY <1>13, <1>15, <2>5, <2>6
    <2>8. AckOf \in [Replies -> Nat] /\ \A i \in DOMAIN r : AckOf[r[i]] \in Nat
      BY <1>3, OfIs
    <2>9. \A i \in DOMAIN r2 : r2[i] = Ack(AckOf[r2[i]]) /\ AckOf[r2[i]] <= n + 1
      <3>1. \A i \in DOMAIN r : r2[i] = Ack(AckOf[r2[i]]) /\ AckOf[r2[i]] <= n + 1
        BY <1>3, <2>6, <2>7, <2>8
      <3>2. r2[Len(r) + 1] = Ack(AckOf[r2[Len(r) + 1]]) /\ AckOf[r2[Len(r) + 1]] <= n + 1
        BY <1>3, <2>5, <2>7
      <3>3. \A i \in DOMAIN r2 : i \in DOMAIN r \/ i = Len(r) + 1
        BY <2>7
      <3> QED BY <3>1, <3>2, <3>3
    <2>10. Fresh(r2, AckOf, x.block - 1, faults)
      <3>1. n + 1 + faults > x.block - 1 /\ x.block - 1 \in Int
        BY <1>3, <2>2
      <3>2. \A j \in DOMAIN r : n + 1 + faults > AckOf[r[j]]
        BY <1>3, <2>6, <2>8
      <3> QED BY <1>3, <2>5, <2>6, <2>7, <2>8, <3>1, <3>2, FreshAppend
    <2>11. Partner(x, Tail(q), r2, got', faults)
      <3>1. x.pc # "done" /\ Len(got') \in {x.block - 1, x.block}
        BY <1>3, <2>1, <2>2, <2>3, <2>6
      <3>2. Fresh(Tail(q), DataOf, Len(got'), faults)
        BY <2>2, <2>3
      <3>3. \A i \in DOMAIN r2 : r2[i] = Ack(AckOf[r2[i]]) /\ AckOf[r2[i]] <= Len(got')
        BY <2>3, <2>9
      <3> QED BY <1>8, <2>4, <2>6, <2>7, <2>10, <3>1, <3>2, <3>3 DEF Partner
    <2>12. Fine(t)'
      BY <1>6, <1>15, <2>7, <2>11 DEF Fine, r2
    <2>13. \A u \in Transfers \ {t} : Fine(u)'
      BY <1>10, <1>15, <2>5, <2>7
    <2> QED BY <2>12, <2>13 DEF Whole
  (* The option acknowledgement or the last block once more.               *)
  <1>16. CASE /\ phase \in {"receiving", "done"} /\ t = tid /\ tid' = tid /\ got' = got
              /\ \/ p.kind = "oack" /\ n = 0
                 \/ p.kind = "data" /\ n # 0 /\ p.num = Num(n)
              /\ toServer' = Send(toServer, t, Ack(n))
    <2>1. Partner(x, q, r, got, faults)
      BY <1>4, <1>16 DEF Fine, x, q, r
    <2>2. /\ Fresh(q, DataOf, n, faults) /\ DataOf \in [Packets -> Nat] /\ n \in {x.block - 1, x.block}
          /\ Begun(x) /\ (faults = 0 => x.block = n + 1) /\ Fresh(r, AckOf, x.block - 1, faults)
          /\ \A i \in DOMAIN r : r[i] = Ack(AckOf[r[i]]) /\ AckOf[r[i]] <= n
      BY <1>2, <2>1, OfIs DEF Partner, n, q
    <2>3. Fresh(Tail(q), DataOf, n, faults) /\ DataOf[p] + faults > n /\ DataOf[p] \in Nat
      <3>1. n \in Int /\ q # << >>
        BY <1>2, <1>3 DEF q
      <3> QED BY <1>3, <1>5, <2>2, <3>1, FreshTail DEF p, q
    <2>4. faults # 0
      <3> SUFFICES ASSUME faults = 0 PROVE FALSE
        OBVIOUS
      <3>1. DataOf[p] > n
        BY <1>3, <2>3
      <3>2. DataOf[p] <= n + 1
        BY <1>3, <1>7, <1>16, <2>2
      <3>3. DataOf[p] = n + 1 /\ p.kind = "data"
        BY <1>3, <1>7, <1>16, <2>3, <3>1, <3>2
      <3>4. Num(n) = Num(n + 1) /\ n \in Nat /\ n + 1 \in Nat /\ n - (n + 1) < Wrap /\ (n + 1) - n < Wrap
        BY <1>3, <1>7, <1>16, <3>3, Numbers
      <3>5. n = n + 1
        BY <3>4, SameNumber
      <3> QED BY <1>3, <3>5
    <2>5. n \in Blocks /\ Ack(n) \in Replies /\ AckOf[Ack(n)] = n
      <3>1. n \in Blocks
        BY <1>3, Numbers DEF Client, Blocks, n
      <3> QED BY <3>1, ReplyIs, OfIs
    <2>6. /\ r2 = Append(r, Ack(n)) /\ Sound(x, Tail(q), r2, s, faults)
          /\ DOMAIN r2 = 1 .. Len(r) + 1 /\ Len(r) \in Nat /\ DOMAIN r = 1 .. Len(r)
          /\ r2[Len(r) + 1] = Ack(n) /\ (\A i \in 1 .. Len(r) : r2[i] = r[i])
          /\ toServer' = [toServer EXCEPT ![t] = Append(@, Ack(n))] /\ r2 # << >>
      BY <1>13, <1>16, <2>2, <2>5
    <2>7. AckOf \in [Replies -> Nat] /\ \A i \in DOMAIN r : AckOf[r[i]] \in Nat
      BY <1>3, OfIs
    <2>8. \A i \in DOMAIN r2 : r2[i] = Ack(AckOf[r2[i]]) /\ AckOf[r2[i]] <= n
      <3>1. \A i \in DOMAIN r2 : i \in DOMAIN r \/ i = Len(r) + 1
        BY <2>6
      <3>2. n <= n
        BY <1>3
      <3> QED BY <2>2, <2>5, <2>6, <3>1, <3>2
    <2>9. Fresh(r2, AckOf, x.block - 1, faults)
      <3>1. n + faults > x.block - 1 /\ x.block - 1 \in Int
        BY <1>3, <2>2, <2>4
      <3>2. \A j \in DOMAIN r : n + faults > AckOf[r[j]]
        BY <1>3, <2>2, <2>4, <2>7
      <3> QED BY <1>3, <2>2, <2>5, <2>6, <2>7, <3>1, <3>2, FreshAppend
    <2>10. Partner(x, Tail(q), r2, got, faults)
      BY <2>1, <2>3, <2>4, <2>8, <2>9 DEF Partner, n
    <2>11. Fine(t)'
      BY <1>6, <1>16, <2>6, <2>10 DEF Fine, r2
    <2>12. \A u \in Transfers \ {t} : Fine(u)'
      BY <1>10, <1>16, <2>5, <2>6
    <2> QED BY <2>11, <2>12 DEF Whole
  <1>17. CASE /\ phase \in {"receiving", "done"} /\ t # tid /\ p.kind # "error"
              /\ toServer' = Send(toServer, t, ErrorPacket) /\ UNCHANGED <<phase, tid, got>>
    <2>1. Stranger(x, r, s, tid) /\ Begun(x) /\ tid # 0
      BY <1>4, <1>7, <1>9, <1>17 DEF Fine, x, r, s
    <2>2. ErrorPacket \in Replies
      BY ReplyIs, Numbers
    <2>3. /\ r2 = Append(r, ErrorPacket) /\ Sound(x, Tail(q), r2, s, faults)
          /\ DOMAIN r2 = 1 .. Len(r) + 1 /\ Len(r) \in Nat /\ DOMAIN r = 1 .. Len(r)
          /\ r2[Len(r) + 1] = ErrorPacket /\ (\A i \in 1 .. Len(r) : r2[i] = r[i])
          /\ toServer' = [toServer EXCEPT ![t] = Append(@, ErrorPacket)]
      BY <1>13, <1>17, <2>1, <2>2
    <2>4. \A i \in DOMAIN r2 : i \in DOMAIN r \/ i = Len(r) + 1
      BY <2>3
    <2>5. Stranger(x, r2, s, tid)
      BY <2>1, <2>3, <2>4 DEF Stranger
    <2>6. Fine(t)'
      BY <1>6, <1>17, <2>3, <2>5 DEF Fine, r2
    <2>7. \A u \in Transfers \ {t} : Fine(u)'
      BY <1>10, <1>17, <2>2, <2>3
    <2> QED BY <2>6, <2>7 DEF Whole
  <1>18. \/ tid' = tid /\ got' = got /\ toServer' = toServer
         \/ phase = "asking" /\ tid' = t /\ got' = got /\ p.kind = "oack"
            /\ toServer' = Send(toServer, t, Ack(0))
         \/ phase = "asking" /\ tid' = t /\ got' = <<p.data>> /\ p.kind = "data"
            /\ toServer' = Send(toServer, t, Ack(1))
         \/ phase \in {"receiving", "done"} /\ t = tid /\ tid' = tid /\ ClientTakes(t, p)
         \/ /\ phase \in {"receiving", "done"} /\ t # tid /\ p.kind # "error"
            /\ toServer' = Send(toServer, t, ErrorPacket) /\ UNCHANGED <<phase, tid, got>>
    BY DEF ClientReceive, p
  <1>19. CASE phase \in {"receiving", "done"} /\ t = tid /\ tid' = tid /\ ClientTakes(t, p)
    <2>1. n = 0 <=> got = << >>
      BY <1>3 DEF n
    <2>2. \/ p.kind = "oack" /\ n = 0 /\ got' = got /\ toServer' = Send(toServer, t, Ack(n))
          \/ /\ p.kind = "data" /\ phase # "done" /\ p.num = Num(n + 1)
             /\ got' = Append(got, p.data) /\ toServer' = Send(toServer, t, Ack(n + 1))
          \/ /\ p.kind = "data" /\ n # 0 /\ p.num = Num(n) /\ got' = got
             /\ toServer' = Send(toServer, t, Ack(n))
          \/ got' = got /\ toServer' = toServer
      BY <1>19, <2>1 DEF ClientTakes, n
    <2> QED BY <1>12, <1>15, <1>16, <1>19, <2>2
  <1>20. CASE phase = "asking" /\ tid' = t /\ got' = got /\ p.kind = "oack"
              /\ toServer' = Send(toServer, t, Ack(0))
    <2>1. Len(got') = 0
      BY <1>20 DEF Client
    <2> QED BY <1>14, <1>20, <2>1
  <1>21. CASE phase = "asking" /\ tid' = t /\ got' = <<p.data>> /\ p.kind = "data"
              /\ toServer' = Send(toServer, t, Ack(1))
    <2>1. Len(got') = 1
      BY <1>21
    <2> QED BY <1>14, <1>21, <2>1
  <1> QED BY <1>12, <1>17, <1>18, <1>19, <1>20, <1>21

-----------------------------------------------------------------------------
(* Theorems *)

Inv == Types /\ Starts /\ Client

LEMMA InvStep ==
  ASSUME Inv, [Next]_vars
  PROVE  Inv'
  <1>1. CASE HandleRequest
    BY <1>1, HandleRequestTypes DEF Inv
  <1>2. CASE Ask \/ AskEarly \/ GiveUp \/ Install \/ LoseRequest \/ UNCHANGED vars
    BY <1>2, AsideTypes DEF Inv
  <1>3. ASSUME NEW t \in Transfers, Receive(t) \/ Timeout(t) \/ TimeoutEarly(t) \/ SocketError(t)
        PROVE  Inv'
    BY <1>3, ServerTypes DEF Inv
  <1>4. ASSUME NEW t \in Transfers, SendFails(t) \/ Unread(t) \/ DisturbData(t) \/ DisturbAcks(t)
        PROVE  Inv'
    BY <1>4, NetworkTypes DEF Inv
  <1>5. ASSUME NEW t \in Transfers, ClientReceive(t)
        PROVE  Inv'
    BY <1>5, ClientTypes DEF Inv
  <1> QED BY <1>1, <1>2, <1>3, <1>4, <1>5 DEF Next

LEMMA WholeStep ==
  ASSUME NoWholeRound, Inv, Whole, [Next]_vars
  PROVE  Whole'
  <1>1. CASE HandleRequest
    BY <1>1, HandleRequestWhole DEF Inv
  <1>2. CASE Ask \/ AskEarly \/ GiveUp \/ Install \/ LoseRequest \/ UNCHANGED vars
    BY <1>2, AsideWhole DEF Inv
  <1>3. ASSUME NEW t \in Transfers, Receive(t) \/ Timeout(t) \/ TimeoutEarly(t) \/ SocketError(t)
        PROVE  Whole'
    BY <1>3, ServerWhole DEF Inv
  <1>4. ASSUME NEW t \in Transfers, SendFails(t) \/ Unread(t) \/ DisturbData(t) \/ DisturbAcks(t)
        PROVE  Whole'
    BY <1>4, NetworkWhole DEF Inv
  <1>5. ASSUME NEW t \in Transfers, ClientReceive(t)
        PROVE  Whole'
    BY <1>5, ClientWhole DEF Inv
  <1> QED BY <1>1, <1>2, <1>3, <1>4, <1>5 DEF Next

(* Every transfer's place, whatever the network does with its packets,     *)
(* stays within the file and its retries, and the client's block count     *)
(* within the file: the end of the file stops both sides.                  *)
THEOREM TypeCorrect == Spec => []TypeOK
  <1>1. Init => Inv
    BY InitTypes DEF Inv
  <1>2. Inv /\ [Next]_vars => Inv'
    BY InvStep
  <1>3. Inv => TypeOK
    <2> SUFFICES ASSUME Inv PROVE TypeOK
      OBVIOUS
    <2>1. Counts /\ got \in Seq(Blocks \X Versions) /\ xfer \in [Transfers -> Places]
      BY DEF Inv, Types
    <2>2. ASSUME NEW t \in Transfers
          PROVE  /\ \A i \in DOMAIN toClient[t] : toClient[t][i] \in Packets
                 /\ \A i \in DOMAIN toServer[t] : toServer[t][i] \in Replies
      <3>1. toClient[t] \in Seq(Packets) /\ toServer[t] \in Seq(Replies)
        BY DEF Inv, Types
      <3> QED BY <3>1
    <2> QED BY <2>1, <2>2 DEF TypeOK, Counts, Places, Packets, Replies
  <1> QED BY <1>1, <1>2, <1>3, PTL DEF Spec

(* Packets lost, doubled, swapped, sent again or from another transfer     *)
(* never put a wrong block into what the client has.                       *)
THEOREM PrefixReceived ==
  ASSUME NoWholeRound
  PROVE  Spec => []ReceivedIsPrefix
  <1>1. Init => Inv /\ Whole
    BY InitTypes, InitWhole DEF Inv
  <1>2. (Inv /\ Whole) /\ [Next]_vars => (Inv /\ Whole)'
    BY InvStep, WholeStep
  <1>3. Inv /\ Whole => ReceivedIsPrefix
    <2> SUFFICES ASSUME Inv, Whole PROVE ReceivedIsPrefix
      OBVIOUS
    <2>1. CASE tid \in Transfers
      <3>1. Partner(xfer[tid], toClient[tid], toServer[tid], got, faults)
        BY <2>1 DEF Whole, Fine
      <3> QED BY <3>1 DEF Partner, ReceivedIsPrefix, Inv, Client
    <2>2. CASE tid \notin Transfers
      <3>1. tid = 0
        BY <2>2 DEF Inv, Types, Counts, Transfers
      <3> QED BY <3>1, Numbers DEF Inv, Client, ReceivedIsPrefix
    <2> QED BY <2>1, <2>2
  <1> QED BY <1>1, <1>2, <1>3, PTL DEF Spec

(* The server never takes a transfer for complete whose client lacks a     *)
(* block, or keeps to another transfer.                                    *)
THEOREM WholeDelivered ==
  ASSUME NoWholeRound
  PROVE  Spec => []DoneDelivered
  <1>1. Init => Inv /\ Whole
    BY InitTypes, InitWhole DEF Inv
  <1>2. (Inv /\ Whole) /\ [Next]_vars => (Inv /\ Whole)'
    BY InvStep, WholeStep
  <1>3. Inv /\ Whole => DoneDelivered
    BY DEF Whole, Fine, Partner, Stranger, DoneDelivered
  <1> QED BY <1>1, <1>2, <1>3, PTL DEF Spec
=============================================================================
