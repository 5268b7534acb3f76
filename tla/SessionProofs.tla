---------------------------- MODULE SessionProofs ----------------------------
(***************************************************************************)
(* Proofs about Session, for every value of its constants: its state stays *)
(* well typed, no command is answered twice or after it was over, and what *)
(* is stored is what was sent.                                             *)
(***************************************************************************)
EXTENDS Session, TLAPS

Pdus     == [type : {"command", "abort"}, c : Cmds]
            \cup [type : {"dataOut"}, c : Cmds, off : Index, final : BOOLEAN]
            \cup [type : {"logout"}, c : {0}]
Messages == [type : {"answer", "good", "bad", "aborted"}, c : Cmds]
            \cup [type : {"r2t"}, c : Cmds, off : Index]
            \cup [type : {"logout"}, c : {0}]
Pendings == [c : Cmds, buf : Buffers]

(* Types of everything; TypeOK says moreover that a write task has its     *)
(* buffer, which needs more than types.                                    *)
Types ==
  /\ sent \in 0 .. MaxCmds
  /\ cmd \in [Cmds -> [tag : Tags, kind : {"query", "write"}, imm : 0 .. WriteLen]]
  /\ status \in [Cmds -> {"new", "out", "aborting", "done", "aborted"}]
  /\ burst \in [Cmds -> [next : 0 .. WriteLen, end : 0 .. WriteLen]]
  /\ toTarget \in Seq(Pdus) /\ toClient \in Seq(Messages)
  /\ rpc \in {"read", "send", "wait", "ended"}
  /\ rpc = "send" => rmsg \in Messages /\ rmsg.type \in {"r2t", "logout"}
  /\ pending \in [Tags -> {Nothing} \cup Pendings]
  /\ task \in [Cmds -> {"none", "query", "store", "good", "bad", "panicked"}]
  /\ tbuf \in [Cmds -> {Nothing} \cup Buffers]
  /\ tmf \in SUBSET Cmds /\ stored \in [Cmds -> {Nothing} \cup Buffers]
  /\ chan \in Seq(Messages) /\ Len(chan) <= ChanCap
  /\ wpc \in {"recv", "ended"} /\ (wpc = "ended" => chan = << >>)

-----------------------------------------------------------------------------
(* Data *)

LEMMA Numbers ==
  /\ MaxCmds \in Nat /\ MaxCmds > 0 /\ WriteLen \in Nat /\ WriteLen > 0
  /\ ChanCap \in Nat /\ ChanCap > 0
  /\ 0 \in Index /\ \A i \in Index : i \in 0 .. WriteLen
  /\ \A c \in Cmds : c \in Nat /\ c # 0
  BY SessionAssumption DEF Index, Cmds

(* A buffer is never taken for an absent one. *)
LEMMA BufferIs ==
  ASSUME NEW f \in Buffers
  PROVE  f # Nothing
  <1>1. DOMAIN f = Index /\ 0 \in Index
    BY Numbers DEF Buffers
  <1>2. DOMAIN << >> = {}
    OBVIOUS
  <1> QED BY <1>1, <1>2 DEF Nothing

LEMMA UnitIs ==
  ASSUME NEW c \in Cmds, NEW i \in Index
  PROVE  <<c, i>> \in {Zero} \cup {<<d, j>> : d \in Cmds, j \in Index}
  OBVIOUS

LEMMA DataIs ==
  ASSUME NEW c \in Cmds
  PROVE  Data(c) \in Buffers /\ \A n \in 0 .. WriteLen : Partial(c, n) \in Buffers
  <1>1. Data(c) \in Buffers
    BY UnitIs DEF Data, Buffers
  <1>2. ASSUME NEW n \in 0 .. WriteLen PROVE Partial(c, n) \in Buffers
    BY UnitIs DEF Partial, Buffers
  <1> QED BY <1>1, <1>2

LEMMA BufferFilled ==
  ASSUME NEW f \in Buffers, NEW c \in Cmds, NEW i \in Index
  PROVE  [f EXCEPT ![i] = <<c, i>>] \in Buffers
  BY UnitIs DEF Buffers

LEMMA PduIs ==
  ASSUME NEW p \in Pdus
  PROVE  /\ p.type \in {"command", "abort", "dataOut", "logout"}
         /\ p.type # "logout" => p.c \in Cmds
         /\ p.type = "dataOut" => p.off \in Index /\ p.final \in BOOLEAN
  BY DEF Pdus

LEMMA MessageIs ==
  ASSUME NEW m \in Messages
  PROVE  /\ m.type \in {"answer", "good", "bad", "aborted", "r2t", "logout"}
         /\ m.type # "logout" => m.c \in Cmds /\ m.c # 0
         /\ m.type = "logout" => m.c = 0
         /\ m.type = "r2t" => m.off \in Index
  BY Numbers DEF Messages

LEMMA AppendAt ==
  ASSUME NEW S, NEW q \in Seq(S), NEW x \in S
  PROVE  /\ Append(q, x) \in Seq(S)
         /\ DOMAIN q = 1 .. Len(q) /\ Len(q) \in Nat
         /\ DOMAIN Append(q, x) = 1 .. Len(q) + 1
         /\ Len(Append(q, x)) = Len(q) + 1
         /\ \A i \in 1 .. Len(q) : Append(q, x)[i] = q[i]
         /\ Append(q, x)[Len(q) + 1] = x
  OBVIOUS

LEMMA TailAt ==
  ASSUME NEW S, NEW q \in Seq(S), q # << >>
  PROVE  /\ Tail(q) \in Seq(S) /\ Head(q) \in S /\ Head(q) = q[1]
         /\ DOMAIN q = 1 .. Len(q) /\ Len(q) \in Nat /\ Len(q) > 0
         /\ DOMAIN Tail(q) = 1 .. Len(q) - 1 /\ Len(Tail(q)) = Len(q) - 1
         /\ \A i \in 1 .. Len(q) - 1 : Tail(q)[i] = q[i + 1]
  OBVIOUS

-----------------------------------------------------------------------------
(* Types *)

LEMMA InitTypes == Init => Types
  <1> SUFFICES ASSUME Init PROVE Types
    OBVIOUS
  <1>1. (CHOOSE t \in Tags : TRUE) \in Tags
    BY SessionAssumption
  <1>2. NoCmd \in [tag : Tags, kind : {"query", "write"}, imm : 0 .. WriteLen]
    BY <1>1, Numbers DEF NoCmd
  <1>3. [next |-> WriteLen, end |-> WriteLen] \in [next : 0 .. WriteLen, end : 0 .. WriteLen]
    BY Numbers
  <1> QED BY <1>2, <1>3, Numbers DEF Init, Types

(* The initiator's steps leave the target's state alone. *)
LEMMA InitiatorTypes ==
  ASSUME Types, Initiator
  PROVE  Types'
  <1>1. ASSUME NEW t \in Tags, NEW kind \in {"query", "write"}, NEW imm \in 0 .. WriteLen,
               NEW n \in 0 .. WriteLen, SendCommand(t, kind, imm, n)
        PROVE  Types'
    <2>1. sent + 1 \in Cmds /\ sent' = sent + 1 /\ sent' \in 0 .. MaxCmds
      BY <1>1, SessionAssumption DEF SendCommand, Types, Cmds
    <2>2. [type |-> "command", c |-> sent + 1] \in Pdus
      BY <2>1 DEF Pdus
    <2>3. toTarget' \in Seq(Pdus)
      BY <1>1, <2>2, AppendAt DEF SendCommand, Post, Types
    <2>4. cmd' \in [Cmds -> [tag : Tags, kind : {"query", "write"}, imm : 0 .. WriteLen]]
      BY <1>1 DEF SendCommand, Types
    <2>5. status' \in [Cmds -> {"new", "out", "aborting", "done", "aborted"}]
      BY <1>1 DEF SendCommand, Types
    <2>6. imm + n \in 0 .. WriteLen
      BY <1>1, Numbers DEF SendCommand
    <2>7. burst' \in [Cmds -> [next : 0 .. WriteLen, end : 0 .. WriteLen]]
      BY <1>1, <2>6 DEF SendCommand, Types
    <2> QED BY <1>1, <2>1, <2>3, <2>4, <2>5, <2>7
        DEF SendCommand, Types, readerVars, taskVars, writerVars
  <1>2. ASSUME NEW c \in Cmds, SendDataOut(c)
        PROVE  Types'
    <2> DEFINE b == burst[c]
               d == [type |-> "dataOut", c |-> c, off |-> b.next, final |-> b.next + 1 = b.end]
    <2>1. b.next \in 0 .. WriteLen /\ b.end \in 0 .. WriteLen /\ b.next < b.end
      BY <1>2 DEF SendDataOut, Types
    <2>2. b.next \in Index /\ b.next + 1 \in 0 .. WriteLen
      BY <2>1, Numbers DEF Index
    <2>3. d \in Pdus /\ toTarget' = Append(toTarget, d)
      BY <1>2, <2>2 DEF Pdus, SendDataOut, Post
    <2>4. toTarget' \in Seq(Pdus)
      BY <2>3, AppendAt DEF Types
    <2>5. burst' \in [Cmds -> [next : 0 .. WriteLen, end : 0 .. WriteLen]]
      BY <1>2, <2>2 DEF SendDataOut, Types
    <2> QED BY <1>2, <2>4, <2>5
        DEF SendDataOut, Types, readerVars, taskVars, writerVars
  <1>3. ASSUME NEW c \in Cmds, SendAbort(c)
        PROVE  Types'
    <2>1. [type |-> "abort", c |-> c] \in Pdus
      BY DEF Pdus
    <2>2. toTarget' \in Seq(Pdus)
      BY <1>3, <2>1, AppendAt DEF SendAbort, Post, Types
    <2> QED BY <1>3, <2>2 DEF SendAbort, Types, readerVars, taskVars, writerVars
  <1>4. ASSUME SendLogout
        PROVE  Types'
    <2>1. [type |-> "logout", c |-> 0] \in Pdus
      BY DEF Pdus
    <2>2. toTarget' \in Seq(Pdus)
      BY <1>4, <2>1, AppendAt DEF SendLogout, Post, Types
    <2> QED BY <1>4, <2>2 DEF SendLogout, Types, readerVars, taskVars, writerVars
  <1>5. ASSUME Receive
        PROVE  Types'
    <2> DEFINE m == Head(toClient)
    <2>1. m \in Messages /\ toClient' \in Seq(Messages)
      BY <1>5, TailAt DEF Receive, Types
    <2>2. burst' \in [Cmds -> [next : 0 .. WriteLen, end : 0 .. WriteLen]]
      <3>1. CASE m.type = "r2t"
        <4>1. m.c \in Cmds /\ m.off \in 0 .. WriteLen /\ WriteLen \in 0 .. WriteLen
          BY <2>1, <3>1, MessageIs, Numbers
        <4>2. burst' = [burst EXCEPT ![m.c] = [next |-> m.off, end |-> WriteLen]]
          BY <1>5, <3>1 DEF Receive
        <4> QED BY <4>1, <4>2 DEF Types
      <3> QED BY <1>5, <3>1 DEF Receive, Types
    <2>3. status' \in [Cmds -> {"new", "out", "aborting", "done", "aborted"}]
      BY <1>5 DEF Receive, Types
    <2> QED BY <1>5, <2>1, <2>2, <2>3
        DEF Receive, Types, readerVars, taskVars, writerVars
  <1>6. ASSUME Drop
        PROVE  Types'
    BY <1>6 DEF Drop, Types, initiatorVars, readerVars, taskVars, writerVars
  <1> QED BY <1>1, <1>2, <1>3, <1>4, <1>5, <1>6 DEF Initiator

(* A message that is sent goes into the channel, if there is room, or, once*)
(* the writer is gone, nowhere.                                            *)
LEMMA SendTypes ==
  ASSUME Types, NEW m \in Messages, Send(m), wpc' = wpc
  PROVE  /\ chan' \in Seq(Messages) /\ Len(chan') <= ChanCap
         /\ wpc' = "ended" => chan' = << >>
  <1>1. CASE wpc = "recv" /\ Len(chan) < ChanCap /\ chan' = Append(chan, m)
    <2>1. chan' \in Seq(Messages) /\ Len(chan') = Len(chan) + 1 /\ Len(chan) \in Nat
      BY <1>1, AppendAt DEF Types
    <2> QED BY <1>1, <2>1, Numbers
  <1>2. CASE chan' = chan
    BY <1>2 DEF Types
  <1> QED BY <1>1, <1>2 DEF Send

LEMMA ReaderTypes ==
  ASSUME Types, Reader
  PROVE  Types'
  <1> DEFINE d == Head(toTarget)
             c == d.c
  <1>0. toTarget # << >> => d \in Pdus /\ Tail(toTarget) \in Seq(Pdus)
    BY TailAt DEF Types
  <1>1. CASE ReadCommand
    <2>1. toTarget' \in Seq(Pdus) /\ c \in Cmds
      BY <1>0, <1>1, PduIs DEF ReadCommand, Next_, Take
    <2>2. cmd[c].tag \in Tags /\ cmd[c].imm \in 0 .. WriteLen
      BY <2>1 DEF Types
    <2>3. \/ rpc' = "read" /\ UNCHANGED <<rmsg, pending>>
          \/ /\ rpc' = "send" /\ rmsg' = [type |-> "r2t", c |-> c, off |-> cmd[c].imm]
             /\ pending' = [pending EXCEPT ![cmd[c].tag] = [c |-> c, buf |-> Partial(c, cmd[c].imm)]]
             /\ cmd[c].imm < WriteLen
      BY <1>1 DEF ReadCommand, Next_
    <2>4. /\ pending' \in [Tags -> {Nothing} \cup Pendings]
          /\ rpc' \in {"read", "send"}
          /\ rpc' = "send" => rmsg' \in Messages /\ rmsg'.type = "r2t"
      <3>1. CASE rpc' = "read" /\ UNCHANGED <<rmsg, pending>>
        BY <3>1 DEF Types
      <3>2. CASE /\ rpc' = "send" /\ rmsg' = [type |-> "r2t", c |-> c, off |-> cmd[c].imm]
                 /\ pending' = [pending EXCEPT ![cmd[c].tag] = [c |-> c, buf |-> Partial(c, cmd[c].imm)]]
                 /\ cmd[c].imm < WriteLen
        <4>1. cmd[c].imm \in Index
          BY <2>2, <3>2, Numbers DEF Index
        <4>2. [c |-> c, buf |-> Partial(c, cmd[c].imm)] \in Pendings
          BY <2>1, <2>2, DataIs DEF Pendings
        <4>3. [type |-> "r2t", c |-> c, off |-> cmd[c].imm] \in Messages
          BY <2>1, <4>1 DEF Messages
        <4> HIDE DEF c
        <4> QED BY <2>2, <3>2, <4>2, <4>3 DEF Types
      <3> QED BY <2>3, <3>1, <3>2
    <2>5. /\ task' \in [Cmds -> {"none", "query", "store", "good", "bad", "panicked"}]
          /\ tbuf' \in [Cmds -> {Nothing} \cup Buffers]
      <3>1. /\ \/ task' = task
               \/ \E next \in {"query", "store"} : task' = [task EXCEPT ![c] = next]
            /\ tbuf' = tbuf \/ tbuf' = [tbuf EXCEPT ![c] = Data(c)]
        BY <1>1 DEF ReadCommand
      <3>2. Data(c) \in Buffers
        BY <2>1, DataIs
      <3>3. /\ task \in [Cmds -> {"none", "query", "store", "good", "bad", "panicked"}]
            /\ tbuf \in [Cmds -> {Nothing} \cup Buffers]
        BY DEF Types
      <3>4. c \in Cmds
        BY <2>1
      <3> HIDE DEF c
      <3> QED BY <3>1, <3>2, <3>3, <3>4
    <2> QED BY <1>1, <2>1, <2>4, <2>5 DEF ReadCommand, Types, initiatorVars, writerVars
  <1>2. CASE ReaderSend
    <2>1. rmsg \in Messages /\ Send(rmsg) /\ wpc' = wpc
      BY <1>2 DEF ReaderSend, Types
    <2>2. /\ chan' \in Seq(Messages) /\ Len(chan') <= ChanCap
          /\ wpc' = "ended" => chan' = << >>
      BY <2>1, SendTypes
    <2> QED BY <1>2, <2>2 DEF ReaderSend, Types, initiatorVars, taskVars
  <1>3. CASE ReadDataOut
    <2> DEFINE t == cmd[c].tag
               p == pending[t]
               f == [p.buf EXCEPT ![d.off] = <<c, d.off>>]
    <2>1. toTarget' \in Seq(Pdus) /\ c \in Cmds /\ d.off \in Index
      BY <1>0, <1>3, PduIs DEF ReadDataOut, Next_, Take
    <2>2. t \in Tags
      BY <2>1 DEF Types
    <2>3. CASE UNCHANGED <<pending, task, tbuf>>
      BY <1>3, <2>1, <2>3 DEF ReadDataOut, Types, initiatorVars, writerVars
    <2>4. CASE p # Nothing
      <3>1. p \in Pendings
        BY <2>2, <2>4 DEF Types
      <3>2. p.c \in Cmds /\ p.buf \in Buffers
        BY <3>1 DEF Pendings
      <3>3. f \in Buffers
        BY <2>1, <3>2, BufferFilled
      <3>4. \/ /\ pending' = [pending EXCEPT ![t] = Nothing]
               /\ task' = [task EXCEPT ![p.c] = "store"]
               /\ tbuf' = [tbuf EXCEPT ![p.c] = f]
            \/ pending' = [pending EXCEPT ![t].buf = f] /\ UNCHANGED <<task, tbuf>>
        BY <1>3, <2>4 DEF ReadDataOut
      <3>5. [p EXCEPT !.buf = f] \in Pendings
        BY <3>1, <3>3 DEF Pendings
      <3>6. /\ task' \in [Cmds -> {"none", "query", "store", "good", "bad", "panicked"}]
            /\ tbuf' \in [Cmds -> {Nothing} \cup Buffers]
        <4> DEFINE e == p.c
        <4>1. e \in Cmds /\ (\/ task' = [task EXCEPT ![e] = "store"] /\ tbuf' = [tbuf EXCEPT ![e] = f]
                             \/ UNCHANGED <<task, tbuf>>)
          BY <3>2, <3>4
        <4> HIDE DEF f, e
        <4>2. task \in [Cmds -> {"none", "query", "store", "good", "bad", "panicked"}]
              /\ tbuf \in [Cmds -> {Nothing} \cup Buffers]
          BY DEF Types
        <4>3. CASE UNCHANGED <<task, tbuf>>
          BY <4>2, <4>3
        <4>4. CASE task' = [task EXCEPT ![e] = "store"] /\ tbuf' = [tbuf EXCEPT ![e] = f]
          BY <3>3, <4>1, <4>2, <4>4
        <4> QED BY <4>1, <4>3, <4>4
      <3>7. pending' \in [Tags -> {Nothing} \cup Pendings]
        <4> HIDE DEF f, t
        <4> QED BY <2>2, <3>4, <3>5 DEF Types
      <3> QED BY <1>3, <2>1, <3>6, <3>7 DEF ReadDataOut, Types, initiatorVars, writerVars
    <2> QED BY <1>3, <2>3, <2>4 DEF ReadDataOut
  <1>4. CASE ReadAbort
    <2>1. toTarget' \in Seq(Pdus) /\ c \in Cmds
      BY <1>0, <1>4, PduIs DEF ReadAbort, Next_, Take
    <2> QED BY <1>4, <2>1 DEF ReadAbort, Types, initiatorVars, readerVars, writerVars
  <1>5. CASE ReadLogout
    <2>1. toTarget' \in Seq(Pdus)
      BY <1>0, <1>5 DEF ReadLogout, Next_, Take
    <2>2. [type |-> "logout", c |-> 0] \in Messages
      BY DEF Messages
    <2> QED BY <1>5, <2>1, <2>2 DEF ReadLogout, Types, initiatorVars, taskVars, writerVars
  <1>6. CASE ReadError
    BY <1>6 DEF ReadError, Types, initiatorVars, taskVars, writerVars
  <1>7. CASE EndSession
    BY <1>7 DEF EndSession, Types, initiatorVars, taskVars, writerVars
  <1> QED BY <1>1, <1>2, <1>3, <1>4, <1>5, <1>6, <1>7 DEF Reader

LEMMA TaskTypes ==
  ASSUME Types, NEW c \in Cmds, Task(c)
  PROVE  Types'
  <1>1. CASE Store(c)
    <2>1. task' \in [Cmds -> {"none", "query", "store", "good", "bad", "panicked"}]
      BY <1>1 DEF Store, Types
    <2>2. tbuf' \in [Cmds -> {Nothing} \cup Buffers] /\ stored' \in [Cmds -> {Nothing} \cup Buffers]
      <3>1. tbuf' = [tbuf EXCEPT ![c] = Nothing] /\ (stored' = stored \/ stored' = [stored EXCEPT ![c] = tbuf[c]])
        BY <1>1 DEF Store
      <3> QED BY <3>1 DEF Types
    <2> QED BY <1>1, <2>1, <2>2 DEF Store, Types, initiatorVars, readerVars, writerVars
  <1>2. CASE AnswerQuery(c) \/ AnswerAbort(c) \/ AnswerWrite(c)
    <2>1. PICK m \in Messages : Send(m) /\ wpc' = wpc
      <3>1. \A type \in {"answer", "good", "bad", "aborted"} : [type |-> type, c |-> c] \in Messages
        BY DEF Messages
      <3> QED BY <1>2, <3>1 DEF AnswerQuery, AnswerAbort, AnswerWrite
    <2>2. /\ chan' \in Seq(Messages) /\ Len(chan') <= ChanCap
          /\ wpc' = "ended" => chan' = << >>
      BY <2>1, SendTypes
    <2>3. task' \in [Cmds -> {"none", "query", "store", "good", "bad", "panicked"}]
          /\ tmf' \in SUBSET Cmds
      BY <1>2 DEF AnswerQuery, AnswerAbort, AnswerWrite, Types
    <2>4. UNCHANGED <<initiatorVars, toTarget, toClient, readerVars, tbuf, stored, wpc>>
      BY <1>2 DEF AnswerQuery, AnswerAbort, AnswerWrite
    <2> QED BY <2>2, <2>3, <2>4 DEF Types, initiatorVars, readerVars
  <1> QED BY <1>1, <1>2 DEF Task

LEMMA WriterTypes ==
  ASSUME Types, Writer
  PROVE  Types'
  <1>1. CASE WriteMessage
    <2>1. Head(chan) \in Messages /\ Tail(chan) \in Seq(Messages)
          /\ Len(Tail(chan)) = Len(chan) - 1 /\ Len(chan) \in Nat
      BY <1>1, TailAt DEF WriteMessage, Types
    <2>2. toClient' \in Seq(Messages)
      BY <1>1, <2>1, AppendAt DEF WriteMessage, Types
    <2>3. chan' \in Seq(Messages) /\ Len(chan') <= ChanCap /\ wpc' = "recv"
      BY <1>1, <2>1, Numbers DEF WriteMessage, Types
    <2> QED BY <1>1, <2>2, <2>3 DEF WriteMessage, Types, initiatorVars, readerVars, taskVars
  <1>2. CASE EndWriter
    <2>1. chan' \in Seq(Messages) /\ Len(chan') <= ChanCap
      BY <1>2, Numbers DEF EndWriter
    <2> QED BY <1>2, <2>1 DEF EndWriter, Types, initiatorVars, readerVars, taskVars
  <1> QED BY <1>1, <1>2 DEF Writer, WriteError, WriterOrphaned, ChannelClosed

LEMMA NextTypes == Types /\ [Next]_vars => Types'
  <1>1. ASSUME Types, UNCHANGED vars PROVE Types'
    BY <1>1 DEF vars, initiatorVars, readerVars, taskVars, writerVars, Types
  <1> QED BY <1>1, InitiatorTypes, ReaderTypes, TaskTypes, WriterTypes DEF Next

-----------------------------------------------------------------------------
(* Where a command is *)

Has(q, T)  == \E i \in DOMAIN q : q[i] \in T
Once(q, T) == \A i, j \in DOMAIN q : q[i] \in T /\ q[j] \in T => i = j

RequestOf(c) == {p \in Pdus : p.type = "command" /\ p.c = c}
AnswerTo(c)  == {m \in Messages : m.type \in {"answer", "good", "bad"} /\ m.c = c}

(* On its way to the target, waiting for Data-Out, in a task; its answer in*)
(* the channel, or on its way to the initiator.                            *)
Asked(c) == Has(toTarget, RequestOf(c))
Waits(c) == \E t \in Tags : pending[t] # Nothing /\ pending[t].c = c
Busy(c)  == task[c] # "none"
Bound(c) == Has(chan, AnswerTo(c))
Due(c)   == Has(toClient, AnswerTo(c))
OneAsked(c) == Once(toTarget, RequestOf(c))
OneBound(c) == Once(chan, AnswerTo(c))
OneDue(c)   == Once(toClient, AnswerTo(c))

(* It is in one of these places at most, once, and in none when it is over,*)
(* but for an aborted command, which goes on.                              *)
Placed(c) ==
  /\ Asked(c) => ~Waits(c) /\ ~Busy(c) /\ ~Bound(c) /\ ~Due(c)
  /\ Waits(c) => ~Busy(c) /\ ~Bound(c) /\ ~Due(c)
  /\ Busy(c)  => ~Bound(c) /\ ~Due(c)
  /\ Bound(c) => ~Due(c)
  /\ Asked(c) \/ Waits(c) \/ Busy(c) \/ Bound(c) \/ Due(c) =>
       status[c] \in {"out", "aborting", "aborted"}
  /\ OneAsked(c) /\ OneBound(c) /\ OneDue(c)
  /\ task[c] = "store" <=> tbuf[c] # Nothing

Tagged == \A t \in Tags : pending[t] # Nothing => cmd[pending[t].c].tag = t
Unsent == \A c \in Cmds : c > sent => status[c] = "new"
Places == Tagged /\ Unsent /\ \A c \in Cmds : Placed(c)

LEMMA WithOneMore ==
  ASSUME NEW S, NEW q \in Seq(S), NEW x \in S, NEW T
  PROVE  /\ Has(Append(q, x), T) <=> Has(q, T) \/ x \in T
         /\ Once(q, T) /\ (x \notin T \/ ~Has(q, T)) => Once(Append(q, x), T)
  <1>1. Has(Append(q, x), T) <=> Has(q, T) \/ x \in T
    BY AppendAt DEF Has
  <1>2. Once(q, T) /\ (x \notin T \/ ~Has(q, T)) => Once(Append(q, x), T)
    BY AppendAt DEF Has, Once
  <1> QED BY <1>1, <1>2

LEMMA WithoutHead ==
  ASSUME NEW S, NEW q \in Seq(S), q # << >>, NEW T
  PROVE  /\ Has(q, T) <=> Head(q) \in T \/ Has(Tail(q), T)
         /\ Once(q, T) => Once(Tail(q), T) /\ (Head(q) \in T => ~Has(Tail(q), T))
  <1>1. Has(q, T) => Head(q) \in T \/ Has(Tail(q), T)
    <2>1. ASSUME NEW i \in DOMAIN q, q[i] \in T, i # 1 PROVE Has(Tail(q), T)
      <3>1. i - 1 \in DOMAIN Tail(q) /\ Tail(q)[i - 1] = q[i]
        BY <2>1, TailAt
      <3> QED BY <2>1, <3>1 DEF Has
    <2> QED BY <2>1, TailAt DEF Has
  <1>2. Head(q) \in T \/ Has(Tail(q), T) => Has(q, T)
    <2>1. 1 \in DOMAIN q /\ Head(q) = q[1]
      BY TailAt
    <2>2. \A i \in DOMAIN Tail(q) : i + 1 \in DOMAIN q /\ Tail(q)[i] = q[i + 1]
      BY TailAt
    <2> QED BY <2>1, <2>2 DEF Has
  <1>3. ASSUME Once(q, T) PROVE Once(Tail(q), T)
    <2> SUFFICES ASSUME NEW i \in DOMAIN Tail(q), NEW j \in DOMAIN Tail(q),
                        Tail(q)[i] \in T, Tail(q)[j] \in T
                 PROVE  i = j
      BY DEF Once
    <2>1. /\ i \in Nat /\ i + 1 \in DOMAIN q /\ Tail(q)[i] = q[i + 1]
          /\ j \in Nat /\ j + 1 \in DOMAIN q /\ Tail(q)[j] = q[j + 1]
      BY TailAt
    <2>2. i + 1 = j + 1
      BY <1>3, <2>1 DEF Once
    <2> QED BY <2>1, <2>2
  <1>4. ASSUME Once(q, T), Head(q) \in T PROVE ~Has(Tail(q), T)
    <2> SUFFICES ASSUME NEW i \in DOMAIN Tail(q), Tail(q)[i] \in T PROVE FALSE
      BY DEF Has
    <2>1. i \in Nat /\ i > 0 /\ i + 1 \in DOMAIN q /\ Tail(q)[i] = q[i + 1]
      BY TailAt
    <2>2. 1 \in DOMAIN q /\ Head(q) = q[1]
      BY TailAt
    <2>3. i + 1 = 1
      BY <1>4, <2>1, <2>2 DEF Once
    <2> QED BY <2>1, <2>3
  <1> QED BY <1>1, <1>2, <1>3, <1>4

LEMMA WhenEmpty ==
  ASSUME NEW T
  PROVE  ~Has(<< >>, T) /\ Once(<< >>, T)
  BY DEF Has, Once

LEMMA PduPosted ==
  ASSUME Types, NEW p \in Pdus, Post(p), NEW c
  PROVE  /\ Asked(c)' <=> Asked(c) \/ p \in RequestOf(c)
         /\ OneAsked(c) /\ (p \notin RequestOf(c) \/ ~Asked(c)) => OneAsked(c)'
  <1> DEFINE q == Append(toTarget, p)
  <1>1. /\ Has(q, RequestOf(c)) <=> Asked(c) \/ p \in RequestOf(c)
        /\ OneAsked(c) /\ (p \notin RequestOf(c) \/ ~Asked(c)) => Once(q, RequestOf(c))
    BY WithOneMore DEF Types, Asked, OneAsked
  <1>2. (Asked(c)' <=> Has(q, RequestOf(c))) /\ (OneAsked(c)' <=> Once(q, RequestOf(c)))
    BY DEF Post, Asked, OneAsked, Has, Once, RequestOf
  <1> QED BY <1>1, <1>2

LEMMA PduTaken ==
  ASSUME Types, toTarget # << >>, Take, NEW c
  PROVE  /\ Asked(c) <=> Head(toTarget) \in RequestOf(c) \/ Asked(c)'
         /\ OneAsked(c) => OneAsked(c)' /\ (Head(toTarget) \in RequestOf(c) => ~Asked(c)')
  <1> DEFINE q == Tail(toTarget)
  <1>1. /\ Asked(c) <=> Head(toTarget) \in RequestOf(c) \/ Has(q, RequestOf(c))
        /\ OneAsked(c) => /\ Once(q, RequestOf(c))
                          /\ Head(toTarget) \in RequestOf(c) => ~Has(q, RequestOf(c))
    BY WithoutHead DEF Types, Asked, OneAsked
  <1>2. (Asked(c)' <=> Has(q, RequestOf(c))) /\ (OneAsked(c)' <=> Once(q, RequestOf(c)))
    BY DEF Take, Asked, OneAsked, Has, Once, RequestOf
  <1> QED BY <1>1, <1>2

LEMMA MessageSent ==
  ASSUME Types, NEW m \in Messages, Send(m), NEW c
  PROVE  /\ Bound(c)' => Bound(c) \/ m \in AnswerTo(c)
         /\ OneBound(c) /\ (m \notin AnswerTo(c) \/ ~Bound(c)) => OneBound(c)'
  <1> DEFINE q == Append(chan, m)
  <1>1. /\ Has(q, AnswerTo(c)) <=> Bound(c) \/ m \in AnswerTo(c)
        /\ OneBound(c) /\ (m \notin AnswerTo(c) \/ ~Bound(c)) => Once(q, AnswerTo(c))
    BY WithOneMore DEF Types, Bound, OneBound
  <1>2. chan' = q => (Bound(c)' <=> Has(q, AnswerTo(c))) /\ (OneBound(c)' <=> Once(q, AnswerTo(c)))
    BY DEF Bound, OneBound, Has, Once, AnswerTo
  <1>3. chan' = chan => (Bound(c)' <=> Bound(c)) /\ (OneBound(c)' <=> OneBound(c))
    BY DEF Bound, OneBound, Has, Once, AnswerTo
  <1> QED BY <1>1, <1>2, <1>3 DEF Send

(* The writer task moves the head of the channel to the connection. *)
LEMMA MessageMoved ==
  ASSUME Types, chan # << >>, chan' = Tail(chan), toClient' = Append(toClient, Head(chan)), NEW c
  PROVE  /\ Bound(c) <=> Head(chan) \in AnswerTo(c) \/ Bound(c)'
         /\ OneBound(c) => OneBound(c)' /\ (Head(chan) \in AnswerTo(c) => ~Bound(c)')
         /\ Due(c)' <=> Due(c) \/ Head(chan) \in AnswerTo(c)
         /\ OneDue(c) /\ (Head(chan) \notin AnswerTo(c) \/ ~Due(c)) => OneDue(c)'
  <1> DEFINE m == Head(chan)
  <1>0. m \in Messages
    BY TailAt DEF Types
  <1>1. /\ Bound(c) <=> m \in AnswerTo(c) \/ Has(Tail(chan), AnswerTo(c))
        /\ OneBound(c) => /\ Once(Tail(chan), AnswerTo(c))
                          /\ m \in AnswerTo(c) => ~Has(Tail(chan), AnswerTo(c))
    BY WithoutHead DEF Types, Bound, OneBound
  <1>2. /\ Has(Append(toClient, m), AnswerTo(c)) <=> Due(c) \/ m \in AnswerTo(c)
        /\ OneDue(c) /\ (m \notin AnswerTo(c) \/ ~Due(c)) => Once(Append(toClient, m), AnswerTo(c))
    BY <1>0, WithOneMore DEF Types, Due, OneDue
  <1>3. /\ Bound(c)' <=> Has(Tail(chan), AnswerTo(c))
        /\ OneBound(c)' <=> Once(Tail(chan), AnswerTo(c))
    BY DEF Bound, OneBound, Has, Once, AnswerTo
  <1>4. /\ Due(c)' <=> Has(Append(toClient, m), AnswerTo(c))
        /\ OneDue(c)' <=> Once(Append(toClient, m), AnswerTo(c))
    BY DEF Due, OneDue, Has, Once, AnswerTo
  <1> QED BY <1>1, <1>2, <1>3, <1>4

LEMMA MessageReceived ==
  ASSUME Types, toClient # << >>, toClient' = Tail(toClient), NEW c
  PROVE  /\ Due(c) <=> Head(toClient) \in AnswerTo(c) \/ Due(c)'
         /\ OneDue(c) => OneDue(c)' /\ (Head(toClient) \in AnswerTo(c) => ~Due(c)')
  <1> DEFINE q == Tail(toClient)
  <1>1. /\ Due(c) <=> Head(toClient) \in AnswerTo(c) \/ Has(q, AnswerTo(c))
        /\ OneDue(c) => /\ Once(q, AnswerTo(c))
                        /\ Head(toClient) \in AnswerTo(c) => ~Has(q, AnswerTo(c))
    BY WithoutHead DEF Types, Due, OneDue
  <1>2. (Due(c)' <=> Has(q, AnswerTo(c))) /\ (OneDue(c)' <=> Once(q, AnswerTo(c)))
    BY DEF Due, OneDue, Has, Once, AnswerTo
  <1> QED BY <1>1, <1>2

(* What stays, and what is lost with a connection or the writer task. *)
LEMMA Stays ==
  ASSUME NEW c
  PROVE  /\ UNCHANGED toTarget => (Asked(c)' <=> Asked(c)) /\ (OneAsked(c)' <=> OneAsked(c))
         /\ UNCHANGED pending => (Waits(c)' <=> Waits(c))
         /\ UNCHANGED task => (Busy(c)' <=> Busy(c))
         /\ UNCHANGED chan => (Bound(c)' <=> Bound(c)) /\ (OneBound(c)' <=> OneBound(c))
         /\ UNCHANGED toClient => (Due(c)' <=> Due(c)) /\ (OneDue(c)' <=> OneDue(c))
  BY DEF Asked, OneAsked, Waits, Busy, Bound, OneBound, Due, OneDue, Has, Once, RequestOf, AnswerTo

LEMMA Lost ==
  ASSUME NEW c
  PROVE  /\ toTarget' = << >> => ~Asked(c)' /\ OneAsked(c)'
         /\ chan' = << >> => ~Bound(c)' /\ OneBound(c)'
         /\ toClient' = << >> => ~Due(c)' /\ OneDue(c)'
  BY DEF Asked, OneAsked, Bound, OneBound, Due, OneDue, Has, Once

LEMMA InitPlaces == Init => Places
  <1> SUFFICES ASSUME Init PROVE Places
    OBVIOUS
  <1>1. Tagged /\ Unsent
    BY DEF Init, Tagged, Unsent, Nothing
  <1>2. ASSUME NEW c \in Cmds PROVE Placed(c)
    BY <1>2, WhenEmpty DEF Init, Placed, Asked, OneAsked, Waits, Busy, Bound, OneBound, Due, OneDue
  <1> QED BY <1>1, <1>2 DEF Places

(* The initiator: a command appears, and is over. *)
LEMMA InitiatorPlaces ==
  ASSUME Types, Places, Initiator
  PROVE  Places'
  <1>1. ASSUME NEW t \in Tags, NEW kind \in {"query", "write"}, NEW imm \in 0 .. WriteLen,
               NEW n \in 0 .. WriteLen, SendCommand(t, kind, imm, n)
        PROVE  Places'
    <2> DEFINE p == [type |-> "command", c |-> sent + 1]
    <2>1. sent + 1 \in Cmds /\ sent' = sent + 1 /\ sent \in Nat
      BY <1>1, SessionAssumption DEF SendCommand, Types, Cmds
    <2>2. p \in Pdus /\ Post(p) /\ \A c : p \in RequestOf(c) <=> c = sent + 1
      BY <1>1, <2>1 DEF SendCommand, Pdus, RequestOf
    <2>3. /\ status' = [status EXCEPT ![sent + 1] = "out"]
          /\ UNCHANGED <<toClient, pending, task, tbuf, chan>>
      BY <1>1 DEF SendCommand, readerVars, taskVars, writerVars
    <2>4. status[sent + 1] = "new"
      BY <2>1, Numbers DEF Places, Unsent
    <2>5. ASSUME NEW c \in Cmds PROVE Placed(c)'
      <3>1. /\ Asked(c)' <=> Asked(c) \/ c = sent + 1
            /\ OneAsked(c) /\ (c # sent + 1 \/ ~Asked(c)) => OneAsked(c)'
        BY <2>2, PduPosted
      <3>2. /\ Waits(c)' <=> Waits(c)
            /\ Busy(c)' <=> Busy(c)
            /\ (Bound(c)' <=> Bound(c)) /\ (OneBound(c)' <=> OneBound(c))
            /\ (Due(c)' <=> Due(c)) /\ (OneDue(c)' <=> OneDue(c))
            /\ (task[c] = "store" <=> tbuf[c] # Nothing) <=> (task'[c] = "store" <=> tbuf'[c] # Nothing)
        BY <2>3, Stays
      <3>3. Placed(c)
        BY DEF Places
      <3>4. CASE c = sent + 1
        <4>1. ~Asked(c) /\ ~Waits(c) /\ ~Busy(c) /\ ~Bound(c) /\ ~Due(c)
          BY <2>4, <3>3, <3>4 DEF Placed
        <4>2. status'[c] = "out"
          BY <2>1, <2>3, <3>4 DEF Types
        <4> QED BY <3>1, <3>2, <3>3, <4>1, <4>2 DEF Placed
      <3>5. CASE c # sent + 1
        <4>1. status'[c] = status[c]
          BY <2>3, <3>5 DEF Types
        <4> QED BY <3>1, <3>2, <3>3, <3>5, <4>1 DEF Placed
      <3> QED BY <3>4, <3>5
    <2>6. Unsent'
      <3> SUFFICES ASSUME NEW c \in Cmds, c > sent' PROVE status'[c] = "new"
        BY DEF Unsent
      <3>1. c > sent /\ c # sent + 1
        BY <2>1, Numbers
      <3> QED BY <2>1, <2>3, <3>1 DEF Places, Unsent, Types
    <2>7. Tagged'
      <3> SUFFICES ASSUME NEW u \in Tags, pending[u] # Nothing
                   PROVE  cmd'[pending[u].c].tag = u
        BY <2>3 DEF Tagged
      <3>1. pending[u].c \in Cmds
        BY DEF Types, Pendings
      <3>2. pending[u].c # sent + 1
        BY <2>4, <3>1 DEF Places, Placed, Waits
      <3>3. cmd'[pending[u].c] = cmd[pending[u].c]
        BY <1>1, <3>1, <3>2 DEF SendCommand, Types
      <3> QED BY <3>3 DEF Places, Tagged
    <2> QED BY <2>5, <2>6, <2>7 DEF Places
  <1>2. ASSUME NEW d \in Cmds, SendDataOut(d) \/ SendAbort(d) \/ SendLogout
        PROVE  Places'
    <2>1. PICK p \in Pdus : Post(p) /\ p.type # "command"
      <3>1. CASE SendDataOut(d)
        <4>1. burst[d].next \in Index
          BY <3>1, Numbers DEF SendDataOut, Types, Index
        <4>2. [type |-> "dataOut", c |-> d, off |-> burst[d].next,
               final |-> burst[d].next + 1 = burst[d].end] \in Pdus
          BY <4>1 DEF Pdus
        <4> QED BY <3>1, <4>2 DEF SendDataOut
      <3>2. [type |-> "abort", c |-> d] \in Pdus /\ [type |-> "logout", c |-> 0] \in Pdus
        BY DEF Pdus
      <3> QED BY <1>2, <3>1, <3>2 DEF SendAbort, SendLogout
    <2>2. /\ UNCHANGED <<sent, cmd, toClient, pending, task, tbuf, chan>>
          /\ \/ UNCHANGED status
             \/ status[d] = "out" /\ status' = [status EXCEPT ![d] = "aborting"]
      BY <1>2 DEF SendDataOut, SendAbort, SendLogout, readerVars, taskVars, writerVars
    <2>3. ASSUME NEW c \in Cmds PROVE Placed(c)'
      <3>1. (Asked(c)' <=> Asked(c)) /\ (OneAsked(c) => OneAsked(c)')
        BY <2>1, PduPosted DEF RequestOf
      <3>2. /\ Waits(c)' <=> Waits(c)
            /\ Busy(c)' <=> Busy(c)
            /\ (Bound(c)' <=> Bound(c)) /\ (OneBound(c)' <=> OneBound(c))
            /\ (Due(c)' <=> Due(c)) /\ (OneDue(c)' <=> OneDue(c))
            /\ (task[c] = "store" <=> tbuf[c] # Nothing) <=> (task'[c] = "store" <=> tbuf'[c] # Nothing)
        BY <2>2, Stays
      <3>3. Placed(c)
        BY DEF Places
      <3>4. status[c] \in {"out", "aborting", "aborted"} => status'[c] \in {"out", "aborting", "aborted"}
        BY <2>2 DEF Types
      <3> QED BY <3>1, <3>2, <3>3, <3>4 DEF Placed
    <2>4. Unsent' /\ Tagged'
      BY <2>2 DEF Places, Unsent, Tagged, Types
    <2> QED BY <2>3, <2>4 DEF Places
  <1>3. ASSUME Receive
        PROVE  Places'
    <2> DEFINE m == Head(toClient)
    <2>1. /\ toClient # << >> /\ toClient' = Tail(toClient) /\ m \in Messages
          /\ UNCHANGED <<sent, cmd, toTarget, pending, task, tbuf, chan>>
      BY <1>3, TailAt DEF Receive, Types, readerVars, taskVars, writerVars
    <2>2. ASSUME NEW c \in Cmds, status'[c] # status[c]
          PROVE  m.c = c /\ Open(c) /\ (status'[c] = "aborted" \/ m \in AnswerTo(c))
      <3>1. status' = [status EXCEPT ![m.c] = IF m.type = "aborted" THEN "aborted" ELSE "done"]
            /\ m.type # "r2t" /\ m.c # 0 /\ Open(m.c)
        BY <1>3, <2>2 DEF Receive
      <3>2. m.c = c /\ status'[c] = (IF m.type = "aborted" THEN "aborted" ELSE "done")
        BY <2>2, <3>1 DEF Types
      <3>3. m.type # "aborted" => m \in AnswerTo(c)
        BY <2>1, <3>1, <3>2, MessageIs DEF AnswerTo
      <3> QED BY <3>1, <3>2, <3>3
    <2>3. ASSUME NEW c \in Cmds PROVE Placed(c)'
      <3>1. /\ Due(c) <=> m \in AnswerTo(c) \/ Due(c)'
            /\ OneDue(c) => OneDue(c)' /\ (m \in AnswerTo(c) => ~Due(c)')
        BY <2>1, MessageReceived
      <3>2. /\ (Asked(c)' <=> Asked(c)) /\ (OneAsked(c)' <=> OneAsked(c))
            /\ Waits(c)' <=> Waits(c)
            /\ Busy(c)' <=> Busy(c)
            /\ (Bound(c)' <=> Bound(c)) /\ (OneBound(c)' <=> OneBound(c))
            /\ (task[c] = "store" <=> tbuf[c] # Nothing) <=> (task'[c] = "store" <=> tbuf'[c] # Nothing)
        BY <2>1, Stays
      <3>3. Placed(c)
        BY DEF Places
      <3>4. CASE status'[c] = status[c] \/ status'[c] = "aborted"
        <4>1. status[c] \in {"out", "aborting", "aborted"} => status'[c] \in {"out", "aborting", "aborted"}
          BY <3>4
        <4> QED BY <3>1, <3>2, <3>3, <4>1 DEF Placed
      <3>5. CASE m \in AnswerTo(c)
        BY <3>1, <3>2, <3>3, <3>5 DEF Placed
      <3> QED BY <2>2, <3>4, <3>5
    <2>4. Tagged'
      BY <2>1 DEF Places, Tagged
    <2>5. Unsent'
      BY <2>1, <2>2 DEF Places, Unsent, Open
    <2> QED BY <2>3, <2>4, <2>5 DEF Places
  <1>4. ASSUME Drop
        PROVE  Places'
    <2>1. /\ toTarget' = << >> /\ toClient' = << >>
          /\ UNCHANGED <<sent, cmd, status, pending, task, tbuf, chan>>
      BY <1>4 DEF Drop, initiatorVars, readerVars, taskVars, writerVars
    <2>2. ASSUME NEW c \in Cmds PROVE Placed(c)'
      <3>1. ~Asked(c)' /\ OneAsked(c)' /\ ~Due(c)' /\ OneDue(c)'
        BY <2>1, Lost
      <3>2. /\ Waits(c)' <=> Waits(c)
            /\ Busy(c)' <=> Busy(c)
            /\ (Bound(c)' <=> Bound(c)) /\ (OneBound(c)' <=> OneBound(c))
            /\ (task[c] = "store" <=> tbuf[c] # Nothing) <=> (task'[c] = "store" <=> tbuf'[c] # Nothing)
            /\ status'[c] = status[c]
        BY <2>1, Stays
      <3> QED BY <3>1, <3>2 DEF Places, Placed
    <2>3. Unsent' /\ Tagged'
      BY <2>1 DEF Places, Unsent, Tagged
    <2> QED BY <2>2, <2>3 DEF Places
  <1> QED BY <1>1, <1>2, <1>3, <1>4, Numbers DEF Initiator, Cmds

(* The reader loop: a request becomes a task or waits for its Data-Out,    *)
(* and a write that has waited becomes a task.                             *)
LEMMA ReadCommandPlaces ==
  ASSUME Types, Places, ReadCommand
  PROVE  Places'
  <1> DEFINE d == Head(toTarget)
             e == d.c
  <1>1. toTarget # << >> /\ Take /\ d \in Pdus /\ d.type = "command"
    BY TailAt DEF ReadCommand, Next_, Types
  <1>2. e \in Cmds /\ \A c : d \in RequestOf(c) <=> c = e
    BY <1>1, PduIs DEF RequestOf
  <1>3. UNCHANGED <<sent, cmd, status, toClient, chan>>
    BY DEF ReadCommand, initiatorVars, writerVars
  <1>4. Asked(e) /\ ~Waits(e) /\ ~Busy(e) /\ ~Bound(e) /\ ~Due(e)
    BY <1>1, <1>2, PduTaken DEF Places, Placed
  <1>5. \/ /\ task' = [task EXCEPT ![e] = "query"] /\ UNCHANGED <<tbuf, pending>>
        \/ /\ task' = [task EXCEPT ![e] = "store"] /\ tbuf' = [tbuf EXCEPT ![e] = Data(e)]
           /\ UNCHANGED pending
        \/ /\ \E f \in Buffers : pending' = [pending EXCEPT ![cmd[e].tag] = [c |-> e, buf |-> f]]
           /\ UNCHANGED <<task, tbuf>>
    <2>1. cmd[e].imm \in 0 .. WriteLen
      BY <1>2 DEF Types
    <2>2. Partial(e, cmd[e].imm) \in Buffers
      BY <1>2, <2>1, DataIs
    <2> QED BY <2>2 DEF ReadCommand
  <1>9. ASSUME NEW u \in Tags
        PROVE  \/ pending'[u] = pending[u]
               \/ u = cmd[e].tag /\ pending'[u].c = e
    <2> HIDE DEF e
    <2>1. cmd[e].tag \in Tags /\ pending \in [Tags -> {Nothing} \cup Pendings]
      BY <1>2 DEF Types
    <2>2. CASE UNCHANGED pending
      BY <2>2
    <2>3. CASE \E f \in Buffers : pending' = [pending EXCEPT ![cmd[e].tag] = [c |-> e, buf |-> f]]
      <3>1. PICK f \in Buffers : pending' = [pending EXCEPT ![cmd[e].tag] = [c |-> e, buf |-> f]]
        BY <2>3
      <3>2. CASE u = cmd[e].tag
        <4>1. pending'[u] = [c |-> e, buf |-> f]
          BY <2>1, <3>1, <3>2
        <4> QED BY <3>2, <4>1
      <3>3. CASE u # cmd[e].tag
        BY <2>1, <3>1, <3>3
      <3> QED BY <3>2, <3>3
    <2> QED BY <1>5, <2>2, <2>3
  <1>6. ASSUME NEW c \in Cmds PROVE Placed(c)'
    <2>1. /\ Asked(c) <=> c = e \/ Asked(c)'
          /\ OneAsked(c) => OneAsked(c)' /\ (c = e => ~Asked(c)')
      BY <1>1, <1>2, PduTaken
    <2>2. /\ (Bound(c)' <=> Bound(c)) /\ (OneBound(c)' <=> OneBound(c))
          /\ (Due(c)' <=> Due(c)) /\ (OneDue(c)' <=> OneDue(c))
          /\ status'[c] = status[c]
      BY <1>3, Stays
    <2>3. Placed(c)
      BY DEF Places
    <2>4. task[e] = "none" /\ tbuf[e] = Nothing
      BY <1>2, <1>4 DEF Busy, Places, Placed
    <2>5. CASE c # e
      <3>1. task'[c] = task[c] /\ tbuf'[c] = tbuf[c]
        BY <1>5, <2>5 DEF Types
      <3>2. Waits(c)' => Waits(c)
        <4> HIDE DEF e
        <4> SUFFICES ASSUME NEW u \in Tags, pending'[u] # Nothing, pending'[u].c = c
                     PROVE  pending[u] # Nothing /\ pending[u].c = c
          BY DEF Waits
        <4> QED BY <1>9, <2>5
      <3>3. Busy(c)' <=> Busy(c)
        BY <3>1 DEF Busy
      <3> QED BY <2>1, <2>2, <2>3, <2>5, <3>1, <3>2, <3>3 DEF Placed
    <2>6. CASE c = e /\ UNCHANGED pending
      <3>1. ~Waits(c)'
        BY <1>4, <2>6, Stays
      <3>2. task'[c] = "store" <=> tbuf'[c] # Nothing
        <4>1. Data(e) # Nothing
          BY <1>2, DataIs, BufferIs
        <4>2. tbuf'[c] = IF task'[c] = "store" THEN Data(e) ELSE Nothing
          <5> HIDE DEF e
          <5>1. CASE task' = [task EXCEPT ![e] = "query"] /\ UNCHANGED tbuf
            BY <1>2, <2>4, <2>6, <5>1 DEF Types
          <5>2. CASE task' = [task EXCEPT ![e] = "store"] /\ tbuf' = [tbuf EXCEPT ![e] = Data(e)]
            BY <1>2, <2>6, <5>2 DEF Types
          <5>3. CASE UNCHANGED <<task, tbuf>>
            BY <2>4, <2>6, <5>3
          <5> QED BY <1>5, <5>1, <5>2, <5>3
        <4> QED BY <4>1, <4>2
      <3> QED BY <1>4, <2>1, <2>2, <2>3, <2>6, <3>1, <3>2 DEF Placed
    <2>7. CASE c = e /\ UNCHANGED <<task, tbuf>>
      <3>1. ~Busy(c)'
        BY <1>4, <2>7, Stays
      <3> QED BY <1>4, <2>1, <2>2, <2>3, <2>7, <3>1 DEF Placed
    <2> QED BY <1>5, <2>5, <2>6, <2>7
  <1>7. Unsent'
    BY <1>3 DEF Places, Unsent
  <1>8. Tagged'
    <2> SUFFICES ASSUME NEW t \in Tags, pending'[t] # Nothing PROVE cmd[pending'[t].c].tag = t
      BY <1>3 DEF Tagged
    <2>1. CASE pending'[t] = pending[t]
      BY <2>1 DEF Places, Tagged
    <2>2. CASE pending'[t] # pending[t]
      <3>1. cmd[e].tag = t /\ pending'[t].c = e
        BY <1>9, <2>2
      <3> QED BY <3>1
    <2> QED BY <2>1, <2>2
  <1> QED BY <1>6, <1>7, <1>8 DEF Places

LEMMA ReadDataOutPlaces ==
  ASSUME Types, Places, ReadDataOut
  PROVE  Places'
  <1> DEFINE d == Head(toTarget)
             t == cmd[d.c].tag
             p == pending[t]
             e == p.c
  <1>1. toTarget # << >> /\ Take /\ d \in Pdus /\ d.type = "dataOut"
    BY TailAt DEF ReadDataOut, Next_, Types
  <1>2. d.c \in Cmds /\ d.off \in Index /\ t \in Tags
    BY <1>1, PduIs DEF Types
  <1>3. UNCHANGED <<sent, cmd, status, toClient, chan>>
    BY DEF ReadDataOut, initiatorVars, writerVars
  <1>4. ASSUME NEW c \in Cmds
        PROVE  /\ (Asked(c)' <=> Asked(c)) /\ (OneAsked(c) => OneAsked(c)')
               /\ (Bound(c)' <=> Bound(c)) /\ (OneBound(c)' <=> OneBound(c))
               /\ (Due(c)' <=> Due(c)) /\ (OneDue(c)' <=> OneDue(c))
               /\ status'[c] = status[c] /\ Placed(c)
    <2>1. d \notin RequestOf(c)
      BY <1>1 DEF RequestOf
    <2> QED BY <1>1, <1>3, <2>1, PduTaken, Stays DEF Places
  <1>5. Unsent'
    BY <1>3 DEF Places, Unsent
  <1>6. CASE UNCHANGED <<pending, task, tbuf>>
    <2>1. \A c \in Cmds : Placed(c)'
      BY <1>4, <1>6, Stays DEF Placed
    <2>2. Tagged'
      BY <1>3, <1>6 DEF Places, Tagged
    <2> QED BY <1>5, <2>1, <2>2 DEF Places
  <1>7. CASE p # Nothing
    <2>1. p \in Pendings
      BY <1>2, <1>7 DEF Types
    <2>2. e \in Cmds /\ p.buf \in Buffers /\ Waits(e)
      BY <1>2, <1>7, <2>1 DEF Pendings, Waits
    <2>3. PICK f \in Buffers :
            \/ /\ pending' = [pending EXCEPT ![t] = Nothing]
               /\ task' = [task EXCEPT ![e] = "store"]
               /\ tbuf' = [tbuf EXCEPT ![e] = f]
            \/ pending' = [pending EXCEPT ![t].buf = f] /\ UNCHANGED <<task, tbuf>>
      <3>1. [p.buf EXCEPT ![d.off] = <<d.c, d.off>>] \in Buffers
        BY <1>2, <2>2, BufferFilled
      <3> QED BY <1>7, <3>1 DEF ReadDataOut
    <2>4. CASE pending' = [pending EXCEPT ![t].buf = f] /\ UNCHANGED <<task, tbuf>>
      <3>1. \A u \in Tags : u # t => pending'[u] = pending[u]
        BY <2>4 DEF Types
      <3>2. pending'[t].c = e
        <4>1. pending'[t] = [p EXCEPT !.buf = f]
          BY <1>2, <2>4 DEF Types
        <4> QED BY <2>1, <4>1 DEF Pendings
      <3>3. ASSUME NEW c \in Cmds PROVE Placed(c)'
        <4>1. Waits(c)' => Waits(c)
          <5> SUFFICES ASSUME NEW u \in Tags, pending'[u] # Nothing, pending'[u].c = c
                       PROVE  Waits(c)
            BY DEF Waits
          <5> HIDE DEF t
          <5> QED BY <1>7, <2>2, <3>1, <3>2 DEF Waits
        <4>2. Busy(c)' <=> Busy(c)
          BY <2>4, Stays
        <4> QED BY <1>4, <2>4, <4>1, <4>2 DEF Placed
      <3>4. Tagged'
        <4> SUFFICES ASSUME NEW u \in Tags, pending'[u] # Nothing PROVE cmd[pending'[u].c].tag = u
          BY <1>3 DEF Tagged
        <4>1. pending'[u].c = pending[u].c /\ pending[u] # Nothing
          BY <1>7, <3>1, <3>2
        <4> QED BY <4>1 DEF Places, Tagged
      <3> QED BY <1>5, <3>3, <3>4 DEF Places
    <2>5. CASE /\ pending' = [pending EXCEPT ![t] = Nothing]
               /\ task' = [task EXCEPT ![e] = "store"]
               /\ tbuf' = [tbuf EXCEPT ![e] = f]
      <3>1. pending'[t] = Nothing /\ \A u \in Tags : u # t => pending'[u] = pending[u]
        BY <1>2, <2>5 DEF Types
      <3>2. ASSUME NEW c \in Cmds PROVE Placed(c)'
        <4>1. Waits(c)' => Waits(c) /\ c # e
          <5> SUFFICES ASSUME NEW u \in Tags, pending'[u] # Nothing, pending'[u].c = c
                       PROVE  Waits(c) /\ c # e
            BY DEF Waits
          <5>1. u # t /\ pending[u] # Nothing /\ pending[u].c = c
            BY <3>1
          <5>2. cmd[c].tag = u /\ cmd[e].tag = t
            BY <1>2, <1>7, <5>1 DEF Places, Tagged
          <5> QED BY <5>1, <5>2 DEF Waits
        <4>2. CASE c = e
          <5>1. task'[c] = "store" /\ tbuf'[c] = f /\ f # Nothing
            <6> HIDE DEF e
            <6> QED BY <2>2, <2>5, <4>2, BufferIs DEF Types
          <5>2. Waits(c)
            BY <2>2, <4>2
          <5> HIDE DEF e
          <5> QED BY <1>4, <4>1, <4>2, <5>1, <5>2 DEF Placed
        <4>3. CASE c # e
          <5>1. task'[c] = task[c] /\ tbuf'[c] = tbuf[c]
            BY <2>5, <4>3 DEF Types
          <5>2. Busy(c)' <=> Busy(c)
            BY <5>1 DEF Busy
          <5> QED BY <1>4, <4>1, <5>1, <5>2 DEF Placed
        <4> QED BY <4>2, <4>3
      <3>3. Tagged'
        BY <1>3, <3>1 DEF Places, Tagged
      <3> QED BY <1>5, <3>2, <3>3 DEF Places
    <2> QED BY <2>3, <2>4, <2>5
  <1> QED BY <1>6, <1>7 DEF ReadDataOut

LEMMA ReaderPlaces ==
  ASSUME Types, Places, Reader
  PROVE  Places'
  <1>1. CASE ReadAbort \/ ReadLogout \/ ReadError \/ EndSession
    <2>1. UNCHANGED <<sent, cmd, status, toClient, pending, task, tbuf, chan>>
      BY <1>1 DEF ReadAbort, ReadLogout, ReadError, EndSession, initiatorVars, readerVars,
                  taskVars, writerVars
    <2>2. ASSUME NEW c \in Cmds PROVE Placed(c)'
      <3>1. (Asked(c)' => Asked(c)) /\ (OneAsked(c) => OneAsked(c)')
        BY <1>1, PduTaken, Stays, Lost DEF ReadAbort, ReadLogout, ReadError, EndSession, Next_
      <3>2. /\ Waits(c)' <=> Waits(c)
            /\ Busy(c)' <=> Busy(c)
            /\ (Bound(c)' <=> Bound(c)) /\ (OneBound(c)' <=> OneBound(c))
            /\ (Due(c)' <=> Due(c)) /\ (OneDue(c)' <=> OneDue(c))
            /\ task'[c] = task[c] /\ tbuf'[c] = tbuf[c] /\ status'[c] = status[c]
        BY <2>1, Stays
      <3> QED BY <3>1, <3>2 DEF Places, Placed
    <2>3. Unsent' /\ Tagged'
      BY <2>1 DEF Places, Unsent, Tagged
    <2> QED BY <2>2, <2>3 DEF Places
  <1>2. CASE ReaderSend
    <2>1. UNCHANGED <<sent, cmd, status, toTarget, toClient, pending, task, tbuf>>
      BY <1>2 DEF ReaderSend, initiatorVars, taskVars
    <2>2. rmsg \in Messages /\ Send(rmsg) /\ \A c : rmsg \notin AnswerTo(c)
      BY <1>2 DEF ReaderSend, Types, AnswerTo
    <2>3. ASSUME NEW c \in Cmds PROVE Placed(c)'
      <3>1. (Bound(c)' => Bound(c)) /\ (OneBound(c) => OneBound(c)')
        BY <2>2, MessageSent
      <3>2. /\ (Asked(c)' <=> Asked(c)) /\ (OneAsked(c)' <=> OneAsked(c))
            /\ Waits(c)' <=> Waits(c)
            /\ Busy(c)' <=> Busy(c)
            /\ (Due(c)' <=> Due(c)) /\ (OneDue(c)' <=> OneDue(c))
            /\ task'[c] = task[c] /\ tbuf'[c] = tbuf[c] /\ status'[c] = status[c]
        BY <2>1, Stays
      <3> QED BY <3>1, <3>2 DEF Places, Placed
    <2>4. Unsent' /\ Tagged'
      BY <2>1 DEF Places, Unsent, Tagged
    <2> QED BY <2>3, <2>4 DEF Places
  <1> QED BY <1>1, <1>2, ReadCommandPlaces, ReadDataOutPlaces DEF Reader

(* The tasks and the writer: a task becomes an answer, which goes out or is*)
(* lost with the writer.                                                   *)
LEMMA TaskPlaces ==
  ASSUME Types, Places, NEW e \in Cmds, Task(e)
  PROVE  Places'
  <1>1. UNCHANGED <<sent, cmd, status, toTarget, toClient, pending>>
    BY DEF Task, AnswerQuery, AnswerAbort, Store, AnswerWrite, initiatorVars, readerVars
  <1>2. Unsent' /\ Tagged'
    BY <1>1 DEF Places, Unsent, Tagged
  <1>3. ASSUME NEW c \in Cmds
        PROVE  /\ (Asked(c)' <=> Asked(c)) /\ (OneAsked(c)' <=> OneAsked(c))
               /\ Waits(c)' <=> Waits(c)
               /\ (Due(c)' <=> Due(c)) /\ (OneDue(c)' <=> OneDue(c))
               /\ status'[c] = status[c] /\ Placed(c)
    BY <1>1, Stays DEF Places
  <1>4. CASE Store(e)
    <2>1. ASSUME NEW c \in Cmds PROVE Placed(c)'
      <3>1. (Bound(c)' <=> Bound(c)) /\ (OneBound(c)' <=> OneBound(c))
        BY <1>4, Stays DEF Store, writerVars
      <3>2. Busy(c)' <=> Busy(c)
        BY <1>4 DEF Store, Busy, Types
      <3>3. task'[c] = "store" <=> tbuf'[c] # Nothing
        BY <1>3, <1>4 DEF Store, Placed, Types
      <3> QED BY <1>3, <3>1, <3>2, <3>3 DEF Placed
    <2> QED BY <1>2, <2>1 DEF Places
  <1>5. CASE AnswerAbort(e)
    <2>1. [type |-> "aborted", c |-> e] \in Messages /\ \A c : [type |-> "aborted", c |-> e] \notin AnswerTo(c)
      BY DEF Messages, AnswerTo
    <2>2. ASSUME NEW c \in Cmds PROVE Placed(c)'
      <3>1. (Bound(c)' => Bound(c)) /\ (OneBound(c) => OneBound(c)')
        BY <1>5, <2>1, MessageSent DEF AnswerAbort
      <3>2. (Busy(c)' <=> Busy(c)) /\ task'[c] = task[c] /\ tbuf'[c] = tbuf[c]
        BY <1>5, Stays DEF AnswerAbort
      <3> QED BY <1>3, <3>1, <3>2 DEF Placed
    <2> QED BY <1>2, <2>2 DEF Places
  <1>6. CASE AnswerQuery(e) \/ AnswerWrite(e)
    <2>1. /\ task[e] \in {"query", "good", "bad"}
          /\ task' = [task EXCEPT ![e] = "none"] /\ UNCHANGED tbuf
      BY <1>6 DEF AnswerQuery, AnswerWrite
    <2>2. PICK m \in Messages : Send(m) /\ m.c = e
      <3>1. \A type \in {"answer", "good", "bad"} : [type |-> type, c |-> e] \in Messages
        BY DEF Messages
      <3> QED BY <1>6, <3>1 DEF AnswerQuery, AnswerWrite
    <2>3. ASSUME NEW c \in Cmds PROVE Placed(c)'
      <3>1. /\ Bound(c)' => Bound(c) \/ c = e
            /\ OneBound(c) /\ (c # e \/ ~Bound(c)) => OneBound(c)'
        BY <2>2, MessageSent DEF AnswerTo
      <3>2. CASE c = e
        <4>1. Busy(c) /\ ~Busy(c)' /\ task'[c] # "store" /\ task[c] # "store" /\ tbuf'[c] = tbuf[c]
          BY <2>1, <3>2 DEF Busy, Types
        <4> QED BY <1>3, <3>1, <4>1 DEF Placed
      <3>3. CASE c # e
        <4>1. (Busy(c)' <=> Busy(c)) /\ task'[c] = task[c] /\ tbuf'[c] = tbuf[c]
          BY <2>1, <3>3 DEF Busy, Types
        <4> QED BY <1>3, <3>1, <3>3, <4>1 DEF Placed
      <3> QED BY <3>2, <3>3
    <2> QED BY <1>2, <2>3 DEF Places
  <1> QED BY <1>4, <1>5, <1>6 DEF Task

LEMMA WriterPlaces ==
  ASSUME Types, Places, Writer
  PROVE  Places'
  <1>1. UNCHANGED <<sent, cmd, status, toTarget, pending, task, tbuf>>
    BY DEF Writer, WriteMessage, WriteError, WriterOrphaned, ChannelClosed, EndWriter,
           initiatorVars, readerVars, taskVars
  <1>2. Unsent' /\ Tagged'
    BY <1>1 DEF Places, Unsent, Tagged
  <1>3. ASSUME NEW c \in Cmds
        PROVE  /\ (Asked(c)' <=> Asked(c)) /\ (OneAsked(c)' <=> OneAsked(c))
               /\ Waits(c)' <=> Waits(c)
               /\ Busy(c)' <=> Busy(c)
               /\ task'[c] = task[c] /\ tbuf'[c] = tbuf[c] /\ status'[c] = status[c]
               /\ Placed(c)
    BY <1>1, Stays DEF Places
  <1>4. CASE WriteMessage
    <2>1. ASSUME NEW c \in Cmds PROVE Placed(c)'
      <3>1. /\ Bound(c) <=> Head(chan) \in AnswerTo(c) \/ Bound(c)'
            /\ OneBound(c) => OneBound(c)' /\ (Head(chan) \in AnswerTo(c) => ~Bound(c)')
            /\ Due(c)' <=> Due(c) \/ Head(chan) \in AnswerTo(c)
            /\ OneDue(c) /\ (Head(chan) \notin AnswerTo(c) \/ ~Due(c)) => OneDue(c)'
        BY <1>4, MessageMoved DEF WriteMessage
      <3> QED BY <1>3, <3>1 DEF Placed
    <2> QED BY <1>2, <2>1 DEF Places
  <1>5. CASE EndWriter
    <2>1. ASSUME NEW c \in Cmds PROVE Placed(c)'
      <3>1. ~Bound(c)' /\ OneBound(c)' /\ (Due(c)' <=> Due(c)) /\ (OneDue(c)' <=> OneDue(c))
        BY <1>5, Lost, Stays DEF EndWriter
      <3> QED BY <1>3, <3>1 DEF Placed
    <2> QED BY <1>2, <2>1 DEF Places
  <1> QED BY <1>4, <1>5 DEF Writer, WriteError, WriterOrphaned, ChannelClosed

LEMMA NextPlaces == Types /\ Places /\ [Next]_vars => Places'
  <1>1. ASSUME Places, UNCHANGED vars PROVE Places'
    <2>1. UNCHANGED <<sent, cmd, status, toTarget, toClient, pending, task, tbuf, chan>>
      BY <1>1 DEF vars, initiatorVars, readerVars, taskVars, writerVars
    <2>2. \A c \in Cmds : Placed(c)'
      BY <1>1, <2>1, Stays DEF Places, Placed
    <2> QED BY <1>1, <2>1, <2>2 DEF Places, Unsent, Tagged
  <1> QED BY <1>1, InitiatorPlaces, ReaderPlaces, TaskPlaces, WriterPlaces DEF Next

-----------------------------------------------------------------------------
(* What is stored is what was sent *)

R2tOf(c)     == {m \in Messages : m.type = "r2t" /\ m.c = c}
Wrong(c)     == {m \in R2tOf(c) : m.off # cmd[c].imm}
DataAt(c, o) == {p \in Pdus : p.type = "dataOut" /\ p.c = c /\ p.off = o}
EarlyEnds    == {p \in Pdus : p.type = "dataOut" /\ p.final /\ p.off + 1 # WriteLen}
Holding(c, o) == Has(toTarget, DataAt(c, o))

(* On the connection, commands come in the order they were sent, the units *)
(* of a command in theirs, and no unit of one after the next command of its*)
(* tag.                                                                    *)
Before(p, r, g) ==
  /\ p.type = "command" /\ r.type = "command" => p.c < r.c
  /\ p.type = "command" /\ r.type = "dataOut" /\ r.c < p.c => g[p.c].tag # g[r.c].tag
  /\ p.type = "dataOut" /\ r.type = "dataOut" /\ p.c = r.c => p.off < r.off
Sorted(q, g) == \A i, j \in DOMAIN q : i < j => Before(q[i], q[j], g)

(* The R2T of a command: in the reader's hand, in the channel, on its way. *)
Offered(c) == rpc = "send" /\ rmsg \in R2tOf(c)
Queued(c)  == Has(chan, R2tOf(c))
Coming(c)  == Has(toClient, R2tOf(c))
Invited(c) == Offered(c) \/ Queued(c) \/ Coming(c)
Untouched(c) == burst[c] = [next |-> cmd[c].imm, end |-> cmd[c].imm]

(* A command that is asked for: those before it on its tag are over.       *)
Asking(c) == Asked(c) =>
  /\ \A d \in Cmds : Waits(d) => d < c
  /\ \A d \in Cmds : d < c /\ cmd[d].tag = cmd[c].tag => ~Open(d)
  /\ Untouched(c) /\ ~Invited(c)

(* There is one R2T of a command at most, and its burst follows it.        *)
Inviting(c) ==
  /\ Invited(c) => status[c] # "new" /\ cmd[c].imm < WriteLen /\ Untouched(c)
  /\ Offered(c) => ~Queued(c) /\ ~Coming(c)
  /\ Queued(c) => ~Coming(c)
  /\ Once(chan, R2tOf(c)) /\ Once(toClient, R2tOf(c))
  /\ ~(rpc = "send" /\ rmsg \in Wrong(c)) /\ ~Has(chan, Wrong(c)) /\ ~Has(toClient, Wrong(c))

(* While the connection is up, the units of a waiting write that are not in*)
(* its buffer and were sent are on their way; a write that is still to send*)
(* some, or has some on their way, waits.                                  *)
Filling(c, f) == \E n \in 0 .. WriteLen :
  /\ n <= burst[c].next /\ f = Partial(c, n)
  /\ \A o \in Index : Holding(c, o) <=> up /\ n <= o /\ o < burst[c].next
Fed(c) ==
  /\ burst[c].next < burst[c].end => burst[c].end = WriteLen
  /\ \A o \in Index : Holding(c, o) => Waits(c)
  /\ Open(c) /\ (Invited(c) \/ burst[c].next < burst[c].end) => Waits(c)
  /\ \A t \in Tags : pending[t] # Nothing /\ pending[t].c = c => Filling(c, pending[t].buf)

Right(c) == (task[c] = "store" => tbuf[c] = Data(c)) /\ stored[c] \in {Nothing, Data(c)}

Flows ==
  /\ up \/ toTarget = << >>
  /\ Sorted(toTarget, cmd) /\ ~Has(toTarget, EarlyEnds)
  /\ \A c \in Cmds : Asking(c) /\ Inviting(c) /\ Fed(c) /\ Right(c)
Sure == Types /\ Places /\ Flows

LEMMA InitFlows == Init => Flows
  <1> SUFFICES ASSUME Init PROVE Flows
    OBVIOUS
  <1>1. toTarget = << >> /\ toClient = << >> /\ chan = << >> /\ rpc = "read"
        /\ \A c \in Cmds : status[c] = "new" /\ task[c] = "none" /\ stored[c] = Nothing
                           /\ burst[c].next = WriteLen /\ burst[c].end = WriteLen
    BY DEF Init
  <1>2. \A t \in Tags : pending[t] = Nothing
    BY DEF Init
  <1>3. ASSUME NEW c \in Cmds PROVE Asking(c) /\ Inviting(c) /\ Fed(c) /\ Right(c)
    <2>1. ~Asked(c) /\ ~Invited(c) /\ \A o : ~Holding(c, o)
      BY <1>1, WhenEmpty DEF Asked, Invited, Offered, Queued, Coming, Holding
    <2>2. Asking(c) /\ Inviting(c)
      BY <1>1, <2>1, WhenEmpty DEF Asking, Inviting, Offered, Queued
    <2>3. Fed(c)
      BY <1>1, <1>2, <2>1, Numbers DEF Fed, Open
    <2> QED BY <1>1, <2>2, <2>3 DEF Right
  <1>4. Sorted(toTarget, cmd)
    BY <1>1 DEF Sorted
  <1> QED BY <1>1, <1>3, <1>4, WhenEmpty DEF Flows

(* The queues, with one more and without the first.                        *)
LEMMA SortedMore ==
  ASSUME NEW q \in Seq(Pdus), NEW p \in Pdus, NEW g, Sorted(q, g),
         \A i \in DOMAIN q : Before(q[i], p, g)
  PROVE  Sorted(Append(q, p), g)
  <1> SUFFICES ASSUME NEW i \in DOMAIN Append(q, p), NEW j \in DOMAIN Append(q, p), i < j
               PROVE  Before(Append(q, p)[i], Append(q, p)[j], g)
    BY DEF Sorted
  <1>1. i \in DOMAIN q /\ Append(q, p)[i] = q[i]
    BY AppendAt
  <1>2. \/ j \in DOMAIN q /\ Append(q, p)[j] = q[j]
        \/ Append(q, p)[j] = p
    BY AppendAt
  <1> QED BY <1>1, <1>2 DEF Sorted

LEMMA SortedLess ==
  ASSUME NEW q \in Seq(Pdus), q # << >>, NEW g, Sorted(q, g)
  PROVE  Sorted(Tail(q), g) /\ \A i \in DOMAIN Tail(q) : Before(Head(q), Tail(q)[i], g)
  <1>1. \A i \in DOMAIN Tail(q) : i \in Nat /\ i + 1 \in DOMAIN q /\ Tail(q)[i] = q[i + 1] /\ 1 < i + 1
    BY TailAt
  <1>2. 1 \in DOMAIN q /\ Head(q) = q[1]
    BY TailAt
  <1>3. \A i, j \in DOMAIN Tail(q) : i < j => i + 1 < j + 1
    BY <1>1
  <1>4. Sorted(Tail(q), g)
    BY <1>1, <1>3 DEF Sorted
  <1>5. \A i \in DOMAIN Tail(q) : Before(Head(q), Tail(q)[i], g)
    BY <1>1, <1>2 DEF Sorted
  <1> QED BY <1>4, <1>5

LEMMA Posted ==
  ASSUME Types, NEW p \in Pdus, Post(p)
  PROVE  /\ \A c, o : Holding(c, o)' <=> Holding(c, o) \/ p \in DataAt(c, o)
         /\ Has(toTarget, EarlyEnds)' <=> Has(toTarget, EarlyEnds) \/ p \in EarlyEnds
         /\ toTarget \in Seq(Pdus) /\ toTarget' = Append(toTarget, p)
  <1> DEFINE q == Append(toTarget, p)
  <1>1. toTarget \in Seq(Pdus) /\ toTarget' = q
    BY DEF Types, Post
  <1>2. \A T : Has(q, T) <=> Has(toTarget, T) \/ p \in T
    BY <1>1, WithOneMore
  <1> HIDE DEF q
  <1>3. \A c, o : Holding(c, o)' <=> Has(q, DataAt(c, o))
    BY <1>1 DEF Holding, DataAt, Has
  <1>4. Has(toTarget, EarlyEnds)' <=> Has(q, EarlyEnds)
    BY <1>1 DEF EarlyEnds, Has
  <1> QED BY <1>1, <1>2, <1>3, <1>4 DEF q, Holding

LEMMA Taken ==
  ASSUME Types, toTarget # << >>, Take
  PROVE  /\ \A c, o : Holding(c, o) <=> Head(toTarget) \in DataAt(c, o) \/ Holding(c, o)'
         /\ Has(toTarget, EarlyEnds) <=> Head(toTarget) \in EarlyEnds \/ Has(toTarget, EarlyEnds)'
         /\ toTarget \in Seq(Pdus) /\ toTarget' = Tail(toTarget) /\ Head(toTarget) \in Pdus
  <1> DEFINE q == Tail(toTarget)
  <1>1. toTarget \in Seq(Pdus) /\ toTarget' = q /\ Head(toTarget) \in Pdus
    BY TailAt DEF Types, Take
  <1>2. \A T : Has(toTarget, T) <=> Head(toTarget) \in T \/ Has(q, T)
    BY <1>1, WithoutHead
  <1> HIDE DEF q
  <1>3. \A c, o : Holding(c, o)' <=> Has(q, DataAt(c, o))
    BY <1>1 DEF Holding, DataAt, Has
  <1>4. Has(toTarget, EarlyEnds)' <=> Has(q, EarlyEnds)
    BY <1>1 DEF EarlyEnds, Has
  <1> QED BY <1>1, <1>2, <1>3, <1>4 DEF q, Holding

(* The messages to the initiator, among them the R2Ts of a command. *)
LEMMA R2tsAfter ==
  ASSUME NEW c, cmd'[c] = cmd[c]
  PROVE  /\ Offered(c)' <=> rpc' = "send" /\ rmsg' \in R2tOf(c)
         /\ Queued(c)' <=> Has(chan', R2tOf(c))
         /\ Coming(c)' <=> Has(toClient', R2tOf(c))
         /\ Once(chan, R2tOf(c))' <=> Once(chan', R2tOf(c))
         /\ Once(toClient, R2tOf(c))' <=> Once(toClient', R2tOf(c))
         /\ Wrong(c)' = Wrong(c)
         /\ Has(chan, Wrong(c))' <=> Has(chan', Wrong(c))
         /\ Has(toClient, Wrong(c))' <=> Has(toClient', Wrong(c))
  <1>1. Wrong(c)' = Wrong(c)
    BY DEF Wrong, R2tOf
  <1>2. /\ Offered(c)' <=> rpc' = "send" /\ rmsg' \in R2tOf(c)
        /\ Queued(c)' <=> Has(chan', R2tOf(c))
        /\ Coming(c)' <=> Has(toClient', R2tOf(c))
    BY DEF Offered, Queued, Coming, R2tOf, Has
  <1>3. /\ Once(chan, R2tOf(c))' <=> Once(chan', R2tOf(c))
        /\ Once(toClient, R2tOf(c))' <=> Once(toClient', R2tOf(c))
    BY DEF R2tOf, Once
  <1>4. /\ Has(chan, Wrong(c))' <=> Has(chan', Wrong(c))
        /\ Has(toClient, Wrong(c))' <=> Has(toClient', Wrong(c))
    BY <1>1 DEF Has
  <1> QED BY <1>1, <1>2, <1>3, <1>4

LEMMA WrongIs == \A c : Wrong(c) \subseteq R2tOf(c)
  BY DEF Wrong

(* A message that is sent, moved to the connection, received.              *)
LEMMA SentIn ==
  ASSUME Types, NEW m \in Messages, Send(m), NEW T
  PROVE  /\ Has(chan', T) => Has(chan, T) \/ m \in T
         /\ Once(chan, T) /\ (m \notin T \/ ~Has(chan, T)) => Once(chan', T)
  <1>1. chan \in Seq(Messages) /\ (chan' = chan \/ chan' = Append(chan, m))
    BY DEF Send, Types
  <1>2. CASE chan' = chan
    BY <1>2
  <1>3. CASE chan' = Append(chan, m)
    BY <1>1, <1>3, WithOneMore
  <1> QED BY <1>1, <1>2, <1>3

LEMMA MovedOut ==
  ASSUME Types, chan # << >>, chan' = Tail(chan), toClient' = Append(toClient, Head(chan)), NEW T
  PROVE  /\ Has(chan', T) => Has(chan, T)
         /\ Once(chan, T) => Once(chan', T) /\ (Head(chan) \in T => ~Has(chan', T))
         /\ Has(toClient', T) <=> Has(toClient, T) \/ Head(chan) \in T
         /\ Once(toClient, T) /\ (Head(chan) \notin T \/ ~Has(toClient, T)) => Once(toClient', T)
         /\ Head(chan) \in T => Has(chan, T)
  <1>1. chan \in Seq(Messages) /\ toClient \in Seq(Messages) /\ Head(chan) \in Messages
    BY TailAt DEF Types
  <1>2. /\ Has(chan, T) <=> Head(chan) \in T \/ Has(chan', T)
        /\ Once(chan, T) => Once(chan', T) /\ (Head(chan) \in T => ~Has(chan', T))
    BY <1>1, WithoutHead
  <1>3. /\ Has(toClient', T) <=> Has(toClient, T) \/ Head(chan) \in T
        /\ Once(toClient, T) /\ (Head(chan) \notin T \/ ~Has(toClient, T)) => Once(toClient', T)
    BY <1>1, WithOneMore
  <1> QED BY <1>2, <1>3

LEMMA ReceivedOf ==
  ASSUME Types, toClient # << >>, toClient' = Tail(toClient), NEW T
  PROVE  /\ Has(toClient, T) <=> Head(toClient) \in T \/ Has(toClient', T)
         /\ Once(toClient, T) => Once(toClient', T) /\ (Head(toClient) \in T => ~Has(toClient', T))
  BY WithoutHead DEF Types

(* What there is of a command's R2Ts gets no more, or it moves on. *)
LEMMA InvitingLess ==
  ASSUME NEW c \in Cmds, Inviting(c), cmd'[c] = cmd[c], burst'[c] = burst[c],
         status[c] # "new" => status'[c] # "new",
         rpc' = "send" => (rpc = "send" /\ rmsg' = rmsg) \/ rmsg' \notin R2tOf(c),
         Has(chan', R2tOf(c)) => Queued(c), Once(chan', R2tOf(c)),
         Has(chan', Wrong(c)) => Has(chan, Wrong(c)),
         Has(toClient', R2tOf(c)) => Coming(c), Once(toClient', R2tOf(c)),
         Has(toClient', Wrong(c)) => Has(toClient, Wrong(c))
  PROVE  Inviting(c)' /\ (Invited(c)' => Invited(c))
  <1>1. (Offered(c)' => Offered(c)) /\ (Queued(c)' => Queued(c)) /\ (Coming(c)' => Coming(c))
    BY R2tsAfter DEF Offered
  <1>2. Invited(c)' => Invited(c)
    BY <1>1 DEF Invited
  <1>3. Untouched(c)' <=> Untouched(c)
    BY DEF Untouched
  <1>4. ~(rpc = "send" /\ rmsg \in Wrong(c))' /\ ~Has(chan, Wrong(c))' /\ ~Has(toClient, Wrong(c))'
    BY R2tsAfter, WrongIs DEF Inviting
  <1>5. Once(chan, R2tOf(c))' /\ Once(toClient, R2tOf(c))'
    BY R2tsAfter
  <1>6. cmd'[c].imm < WriteLen <=> cmd[c].imm < WriteLen
    OBVIOUS
  <1> QED BY <1>1, <1>2, <1>3, <1>4, <1>5, <1>6 DEF Inviting

(* A step that changes neither a burst nor a pending write, and of the PDUs*)
(* on their way takes no unit, unless all are lost with the connection.    *)
LEMMA FlowsKept ==
  ASSUME Flows, UNCHANGED <<cmd, burst, pending>>,
         up' \/ toTarget' = << >>,
         Sorted(toTarget', cmd), ~Has(toTarget, EarlyEnds)',
         up' => up,
         \A c \in Cmds : /\ Asked(c)' => Asked(c)
                         /\ Open(c)' => Open(c)
                         /\ Invited(c)' => Invited(c)
                         /\ Inviting(c)' /\ Right(c)'
                         /\ \A o \in Index : Holding(c, o)' <=> Holding(c, o) /\ up'
  PROVE  Flows'
  <1>1. \A d : Waits(d)' <=> Waits(d)
    BY DEF Waits
  <1>2. ASSUME NEW c \in Cmds PROVE Asking(c)'
    <2>1. Untouched(c)' <=> Untouched(c)
      BY DEF Untouched
    <2>2. Asking(c)
      BY DEF Flows
    <2> QED BY <1>1, <2>1, <2>2 DEF Asking
  <1>3. ASSUME NEW c \in Cmds PROVE Fed(c)'
    <2>1. Fed(c)
      BY DEF Flows
    <2>2. ASSUME NEW t \in Tags, pending'[t] # Nothing, pending'[t].c = c
          PROVE  Filling(c, pending[t].buf)'
      <3>1. PICK n \in 0 .. WriteLen :
              /\ n <= burst[c].next /\ pending[t].buf = Partial(c, n)
              /\ \A o \in Index : Holding(c, o) <=> up /\ n <= o /\ o < burst[c].next
        BY <2>1, <2>2 DEF Fed, Filling
      <3>2. \A o \in Index : Holding(c, o)' <=> up' /\ n <= o /\ o < burst'[c].next
        BY <3>1
      <3>3. n <= burst'[c].next /\ pending'[t].buf = Partial(c, n)' 
        BY <3>1 DEF Partial
      <3> QED BY <3>2, <3>3 DEF Filling
    <2>3. \A o \in Index : Holding(c, o)' => Waits(c)'
      BY <1>1, <2>1 DEF Fed
    <2>4. Open(c)' /\ (Invited(c)' \/ burst'[c].next < burst'[c].end) => Waits(c)'
      BY <1>1, <2>1 DEF Fed
    <2>5. burst'[c].next < burst'[c].end => burst'[c].end = WriteLen
      BY <2>1 DEF Fed
    <2> QED BY <2>2, <2>3, <2>4, <2>5 DEF Fed
  <1>4. Sorted(toTarget, cmd)'
    BY DEF Sorted, Before
  <1> QED BY <1>2, <1>3, <1>4 DEF Flows

LEMMA FlowsAre ==
  ASSUME Flows, NEW c \in Cmds
  PROVE  Asking(c) /\ Inviting(c) /\ Fed(c) /\ Right(c)
  BY DEF Flows

LEMMA RightKept ==
  ASSUME NEW c, Right(c), UNCHANGED <<task, tbuf, stored>>
  PROVE  Right(c)'
  BY DEF Right, Data

(* Tasks, the writer, and the reader when it sends. *)
LEMMA TaskFlows ==
  ASSUME Sure, NEW e \in Cmds, Task(e)
  PROVE  Flows'
  <1>0. Types /\ Places /\ Flows
    BY DEF Sure
  <1>1. /\ UNCHANGED <<cmd, status, burst, pending, toTarget, toClient, up, rpc, rmsg>>
        /\ chan' = chan \/ \E m \in Messages : m.type # "r2t" /\ Send(m)
    <2>1. \A type \in {"answer", "good", "bad", "aborted"} : [type |-> type, c |-> e] \in Messages
      BY DEF Messages
    <2> QED BY <2>1 DEF Task, AnswerQuery, AnswerAbort, Store, AnswerWrite, initiatorVars,
                        readerVars, writerVars
  <1>2. ASSUME NEW c \in Cmds PROVE Right(c)'
    <2>1. Right(c) /\ Data(c)' = Data(c)
      BY <1>0, FlowsAre DEF Data
    <2>2. CASE Store(e)
      <3>1. c # e => task'[c] = task[c] /\ tbuf'[c] = tbuf[c] /\ stored'[c] = stored[c]
        <4>1. /\ \E next \in {"good", "bad", "panicked"} : task' = [task EXCEPT ![e] = next]
              /\ stored' = stored \/ stored' = [stored EXCEPT ![e] = tbuf[e]]
              /\ tbuf' = [tbuf EXCEPT ![e] = Nothing]
          BY <2>2 DEF Store
        <4> QED BY <1>0, <4>1 DEF Types
      <3>2. c = e => task[c] = "store" /\ task'[c] # "store" /\ stored'[c] \in {stored[c], tbuf[c]}
        <4>1. /\ task \in [Cmds -> {"none", "query", "store", "good", "bad", "panicked"}]
              /\ task[e] = "store"
              /\ \E next \in {"good", "bad", "panicked"} : task' = [task EXCEPT ![e] = next]
              /\ stored' = stored \/ stored' = [stored EXCEPT ![e] = tbuf[e]]
              /\ stored \in [Cmds -> {Nothing} \cup Buffers]
          BY <1>0, <2>2 DEF Store, Types
        <4>2. c = e => stored'[c] \in {stored[c], tbuf[c]}
          BY <4>1
        <4> QED BY <4>1, <4>2
      <3> QED BY <2>1, <3>1, <3>2 DEF Right
    <2>3. CASE AnswerQuery(e) \/ AnswerAbort(e) \/ AnswerWrite(e)
      <3>1. task'[c] \in {task[c], "none"} /\ UNCHANGED <<tbuf, stored>>
        BY <1>0, <2>3 DEF AnswerQuery, AnswerAbort, AnswerWrite, Types
      <3> QED BY <2>1, <3>1 DEF Right
    <2> QED BY <2>2, <2>3 DEF Task
  <1>3. ASSUME NEW c \in Cmds PROVE Inviting(c)' /\ (Invited(c)' => Invited(c))
    <2>1. ASSUME NEW T, T \subseteq R2tOf(c)
          PROVE  (Has(chan', T) => Has(chan, T)) /\ (Once(chan, T) => Once(chan', T))
      <3>1. CASE chan' = chan
        BY <3>1
      <3>2. ASSUME NEW m \in Messages, m.type # "r2t", Send(m)
            PROVE  (Has(chan', T) => Has(chan, T)) /\ (Once(chan, T) => Once(chan', T))
        <4>1. m \notin T
          BY <2>1, <3>2 DEF R2tOf
        <4> QED BY <1>0, <3>2, <4>1, SentIn
      <3> QED BY <1>1, <3>1, <3>2
    <2>2. /\ Has(chan', R2tOf(c)) => Queued(c)
          /\ Once(chan, R2tOf(c)) => Once(chan', R2tOf(c))
          /\ Has(chan', Wrong(c)) => Has(chan, Wrong(c))
      BY <2>1, WrongIs DEF Queued
    <2> QED BY <1>0, <1>1, <2>2, FlowsAre, InvitingLess DEF Inviting, Coming
  <1>4. ASSUME NEW c \in Cmds
        PROVE  /\ (Asked(c)' => Asked(c)) /\ (Open(c)' => Open(c))
               /\ \A o \in Index : Holding(c, o)' <=> Holding(c, o) /\ up'
    <2>1. \A o \in Index : Holding(c, o)' <=> Holding(c, o)
      BY <1>1 DEF Holding, Has, DataAt
    <2>2. \A o \in Index : Holding(c, o) => up
      BY <1>0, WhenEmpty DEF Flows, Holding
    <2> QED BY <1>1, <2>1, <2>2, Stays DEF Open
  <1>5. Sorted(toTarget', cmd) /\ ~Has(toTarget, EarlyEnds)' /\ (up' \/ toTarget' = << >>)
    BY <1>0, <1>1 DEF Flows, Has, EarlyEnds
  <1> QED BY <1>0, <1>1, <1>2, <1>3, <1>4, <1>5, FlowsKept

(* What stays when nothing goes out to the target or is taken there. *)
LEMMA QuietOut ==
  ASSUME Flows, UNCHANGED <<cmd, toTarget, up>>
  PROVE  /\ Sorted(toTarget', cmd) /\ ~Has(toTarget, EarlyEnds)' /\ (up' \/ toTarget' = << >>)
         /\ \A c \in Cmds : /\ Asked(c)' => Asked(c)
                            /\ \A o \in Index : Holding(c, o)' <=> Holding(c, o) /\ up'
  <1>1. \A c \in Cmds : \A o \in Index : Holding(c, o)' <=> Holding(c, o)
    BY DEF Holding, Has, DataAt
  <1>2. \A c \in Cmds : \A o \in Index : Holding(c, o) => up
    BY WhenEmpty DEF Flows, Holding
  <1>3. \A c \in Cmds : Asked(c)' => Asked(c)
    BY Stays
  <1>4. Sorted(toTarget', cmd) /\ ~Has(toTarget, EarlyEnds)' /\ (up' \/ toTarget' = << >>)
    BY DEF Flows, Has, EarlyEnds
  <1> QED BY <1>1, <1>2, <1>3, <1>4

LEMMA WriterFlows ==
  ASSUME Sure, Writer
  PROVE  Flows'
  <1>0. Types /\ Places /\ Flows
    BY DEF Sure
  <1>1. UNCHANGED <<cmd, status, burst, pending, toTarget, up, rpc, rmsg, task, tbuf, stored>>
    BY DEF Writer, WriteMessage, WriteError, WriterOrphaned, ChannelClosed, EndWriter,
           initiatorVars, readerVars, taskVars
  <1>2. ASSUME NEW c \in Cmds PROVE Inviting(c)' /\ (Invited(c)' => Invited(c))
    <2>0. Inviting(c)
      BY <1>0, FlowsAre
    <2>1. CASE EndWriter
      <3>1. chan' = << >> /\ toClient' = toClient
        BY <2>1 DEF EndWriter
      <3> QED BY <1>1, <2>0, <3>1, WhenEmpty, InvitingLess DEF Inviting, Coming
    <2>2. CASE WriteMessage
      <3>1. chan # << >> /\ chan' = Tail(chan) /\ toClient' = Append(toClient, Head(chan))
        BY <2>2 DEF WriteMessage
      <3> DEFINE R == R2tOf(c)
                 W == Wrong(c)
      <3>2. /\ Has(chan', R) => Queued(c)
            /\ Once(chan', R) /\ (Head(chan) \in R => ~Has(chan', R))
            /\ Has(toClient', R) <=> Coming(c) \/ Head(chan) \in R
            /\ Head(chan) \notin R \/ ~Coming(c) => Once(toClient', R)
            /\ Head(chan) \in R => Queued(c)
        BY <1>0, <2>0, <3>1, MovedOut DEF Inviting, Queued, Coming
      <3>3. ~Has(chan', W) /\ ~Has(toClient', W)
        BY <1>0, <2>0, <3>1, MovedOut DEF Inviting
      <3>4. cmd'[c] = cmd[c] /\ burst'[c] = burst[c]
        BY <1>1
      <3>5. /\ Offered(c)' <=> Offered(c)
            /\ Queued(c)' <=> Has(chan', R)
            /\ Coming(c)' <=> Has(toClient', R)
            /\ Once(chan, R2tOf(c))' <=> Once(chan', R)
            /\ Once(toClient, R2tOf(c))' <=> Once(toClient', R)
            /\ ~Has(chan, Wrong(c))' /\ ~Has(toClient, Wrong(c))'
            /\ rmsg' \in Wrong(c)' <=> rmsg \in Wrong(c)
        BY <1>1, <3>3, <3>4, R2tsAfter DEF Offered
      <3>6. Invited(c)' => Invited(c)
        BY <3>2, <3>5 DEF Invited
      <3>7. (Untouched(c)' <=> Untouched(c)) /\ cmd'[c].imm = cmd[c].imm /\ status'[c] = status[c]
        BY <1>1 DEF Untouched
      <3> HIDE DEF R, W
      <3>8. ~(rpc = "send" /\ rmsg \in Wrong(c))'
        BY <1>1, <2>0, <3>5 DEF Inviting
      <3>9. Invited(c)' => status'[c] # "new" /\ cmd'[c].imm < WriteLen /\ Untouched(c)'
        BY <2>0, <3>6, <3>7 DEF Inviting
      <3>10. /\ Offered(c)' => ~Queued(c)' /\ ~Coming(c)'
             /\ Queued(c)' => ~Coming(c)'
             /\ Once(chan, R2tOf(c))' /\ Once(toClient, R2tOf(c))'
        BY <2>0, <3>2, <3>5 DEF Inviting
      <3> QED BY <3>5, <3>6, <3>8, <3>9, <3>10 DEF Inviting
    <2> QED BY <2>1, <2>2 DEF Writer, WriteError, WriterOrphaned, ChannelClosed
  <1>3. \A c \in Cmds : Right(c)' /\ (Open(c)' => Open(c))
    BY <1>0, <1>1, FlowsAre, RightKept DEF Open
  <1> QED BY <1>0, <1>1, <1>2, <1>3, QuietOut, FlowsKept

LEMMA ReaderSendFlows ==
  ASSUME Sure, ReaderSend
  PROVE  Flows'
  <1>0. Types /\ Places /\ Flows
    BY DEF Sure
  <1>1. /\ UNCHANGED <<cmd, status, burst, pending, toTarget, toClient, up, task, tbuf, stored>>
        /\ rpc = "send" /\ rpc' # "send" /\ rmsg \in Messages /\ Send(rmsg)
    BY <1>0 DEF ReaderSend, initiatorVars, taskVars, Types
  <1>2. ASSUME NEW c \in Cmds PROVE Inviting(c)' /\ (Invited(c)' => Invited(c))
    <2>0. Inviting(c)
      BY <1>0, FlowsAre
    <2> DEFINE R == R2tOf(c)
               W == Wrong(c)
    <2>1. /\ Has(chan', R) => Queued(c) \/ Offered(c)
          /\ Once(chan', R)
      BY <1>0, <1>1, <2>0, SentIn DEF Inviting, Queued, Offered
    <2>2. ~Has(chan', W)
      BY <1>0, <1>1, <2>0, SentIn DEF Inviting
    <2>3. cmd'[c] = cmd[c] /\ burst'[c] = burst[c]
      BY <1>1
    <2>4. /\ ~Offered(c)'
          /\ Queued(c)' => Queued(c) \/ Offered(c)
          /\ Coming(c)' <=> Coming(c)
          /\ Once(chan, R2tOf(c))' /\ Once(toClient, R2tOf(c))'
          /\ ~Has(chan, Wrong(c))' /\ ~Has(toClient, Wrong(c))'
      BY <1>1, <2>0, <2>1, <2>2, <2>3, R2tsAfter DEF Inviting, Coming
    <2> HIDE DEF R, W
    <2>5. Invited(c)' => Invited(c)
      BY <2>4 DEF Invited
    <2>6. Invited(c)' => status'[c] # "new" /\ cmd'[c].imm < WriteLen /\ Untouched(c)'
      BY <1>1, <2>0, <2>5 DEF Inviting, Untouched
    <2>7. Queued(c)' => ~Coming(c)'
      BY <2>0, <2>4 DEF Inviting
    <2> QED BY <1>1, <2>4, <2>5, <2>6, <2>7 DEF Inviting
  <1>3. \A c \in Cmds : Right(c)' /\ (Open(c)' => Open(c))
    BY <1>0, <1>1, FlowsAre, RightKept DEF Open
  <1> QED BY <1>0, <1>1, <1>2, <1>3, QuietOut, FlowsKept

(* The PDUs that carry no data and are no commands come and go. *)
LEMMA PostedQuiet ==
  ASSUME Sure, NEW p \in Pdus, Post(p), up, UNCHANGED <<cmd, up>>, p.type \in {"abort", "logout"}
  PROVE  /\ Sorted(toTarget', cmd) /\ ~Has(toTarget, EarlyEnds)' /\ (up' \/ toTarget' = << >>)
         /\ \A c \in Cmds : /\ Asked(c)' => Asked(c)
                            /\ \A o \in Index : Holding(c, o)' <=> Holding(c, o) /\ up'
  <1>1. Types /\ Flows
    BY DEF Sure
  <1>2. p \notin EarlyEnds /\ \A c : p \notin RequestOf(c) /\ \A o : p \notin DataAt(c, o)
    BY DEF EarlyEnds, RequestOf, DataAt
  <1>3. ASSUME NEW i \in DOMAIN toTarget PROVE Before(toTarget[i], p, cmd)
    BY DEF Before
  <1>4. Sorted(toTarget', cmd)
    BY <1>1, <1>3, Posted, SortedMore DEF Flows
  <1>5. \A c \in Cmds : Asked(c)' => Asked(c)
    BY <1>1, <1>2, PduPosted
  <1>6. \A c \in Cmds : \A o \in Index : Holding(c, o)' <=> Holding(c, o)
    BY <1>1, <1>2, Posted
  <1>7. ~Has(toTarget, EarlyEnds)'
    BY <1>1, <1>2, Posted DEF Flows
  <1> QED BY <1>4, <1>5, <1>6, <1>7

LEMMA TakenQuiet ==
  ASSUME Sure, toTarget # << >>, Take, UNCHANGED <<cmd, up>>, Head(toTarget).type # "dataOut"
  PROVE  /\ Sorted(toTarget', cmd) /\ ~Has(toTarget, EarlyEnds)' /\ (up' \/ toTarget' = << >>)
         /\ \A c \in Cmds : /\ Asked(c)' => Asked(c)
                            /\ \A o \in Index : Holding(c, o)' <=> Holding(c, o) /\ up'
  <1>1. Types /\ Flows /\ up
    BY DEF Sure, Flows
  <1>2. \A c, o : Head(toTarget) \notin DataAt(c, o)
    BY DEF DataAt
  <1>3. Sorted(toTarget', cmd)
    BY <1>1, Taken, SortedLess DEF Flows
  <1>4. \A c \in Cmds : Asked(c)' => Asked(c)
    BY <1>1, PduTaken
  <1>5. \A c \in Cmds : \A o \in Index : Holding(c, o)' <=> Holding(c, o)
    BY <1>1, <1>2, Taken
  <1>6. ~Has(toTarget, EarlyEnds)'
    BY <1>1, Taken DEF Flows
  <1> QED BY <1>1, <1>3, <1>4, <1>5, <1>6

LEMMA LostOut ==
  ASSUME Flows, toTarget' = << >>, ~up'
  PROVE  /\ Sorted(toTarget', cmd) /\ ~Has(toTarget, EarlyEnds)' /\ (up' \/ toTarget' = << >>)
         /\ \A c \in Cmds : /\ Asked(c)' => Asked(c)
                            /\ \A o \in Index : Holding(c, o)' <=> Holding(c, o) /\ up'
  <1>1. \A c \in Cmds : ~Asked(c)'
    BY Lost
  <1>2. \A c \in Cmds : \A o \in Index : ~Holding(c, o)'
    BY DEF Holding, Has
  <1>3. ~Has(toTarget, EarlyEnds)' /\ Sorted(toTarget', cmd)
    BY DEF Has, Sorted
  <1> QED BY <1>1, <1>2, <1>3

(* A step that sends and moves no message. *)
LEMMA InvitingSame ==
  ASSUME NEW c \in Cmds, Inviting(c), cmd'[c] = cmd[c], burst'[c] = burst[c],
         status[c] # "new" => status'[c] # "new",
         rpc' = "send" => (rpc = "send" /\ rmsg' = rmsg) \/ rmsg' \notin R2tOf(c),
         chan' = chan, toClient' = toClient \/ toClient' = << >>
  PROVE  Inviting(c)' /\ (Invited(c)' => Invited(c))
  <1>1. /\ Has(toClient', R2tOf(c)) => Coming(c)
        /\ Has(toClient', Wrong(c)) => Has(toClient, Wrong(c))
        /\ Once(toClient', R2tOf(c))
    BY WhenEmpty DEF Coming, Inviting
  <1>2. /\ Has(chan', R2tOf(c)) => Queued(c)
        /\ Has(chan', Wrong(c)) => Has(chan, Wrong(c))
        /\ Once(chan', R2tOf(c))
    BY DEF Queued, Inviting
  <1> QED BY <1>1, <1>2, InvitingLess

LEMMA QuietFlows ==
  ASSUME Sure,
         (\E c \in Cmds : SendAbort(c)) \/ SendLogout \/ Drop
         \/ ReadAbort \/ ReadLogout \/ ReadError \/ EndSession
  PROVE  Flows'
  <1>0. Types /\ Places /\ Flows
    BY DEF Sure
  <1>1. UNCHANGED <<cmd, burst, pending, task, tbuf, stored, chan>>
        /\ (toClient' = toClient \/ toClient' = << >>)
    BY DEF SendAbort, SendLogout, Drop, ReadAbort, ReadLogout, ReadError, EndSession,
           initiatorVars, readerVars, taskVars, writerVars
  <1>2. status' = status \/ \E d \in Cmds : status[d] = "out" /\ status' = [status EXCEPT ![d] = "aborting"]
    BY DEF SendAbort, SendLogout, Drop, ReadAbort, ReadLogout, ReadError, EndSession,
           initiatorVars
  <1>3. \/ UNCHANGED <<rpc, rmsg>>
        \/ rpc' # "send"
        \/ rpc' = "send" /\ rmsg' = [type |-> "logout", c |-> 0]
    BY DEF SendAbort, SendLogout, Drop, ReadAbort, ReadLogout, ReadError, EndSession,
           readerVars
  <1>4. ASSUME NEW c \in Cmds
        PROVE  (Open(c)' => Open(c)) /\ (status[c] # "new" => status'[c] # "new")
    BY <1>0, <1>2 DEF Open, Types
  <1>5. ASSUME NEW c \in Cmds PROVE Inviting(c)' /\ (Invited(c)' => Invited(c)) /\ Right(c)'
    <2>1. rpc' = "send" => (rpc = "send" /\ rmsg' = rmsg) \/ rmsg' \notin R2tOf(c)
      BY <1>3 DEF R2tOf
    <2>2. Inviting(c)' /\ (Invited(c)' => Invited(c))
      BY <1>0, <1>1, <1>4, <2>1, FlowsAre, InvitingSame
    <2>3. Right(c)'
      BY <1>0, <1>1, FlowsAre, RightKept
    <2> QED BY <2>2, <2>3
  <1>6. /\ Sorted(toTarget', cmd) /\ ~Has(toTarget, EarlyEnds)' /\ (up' \/ toTarget' = << >>)
        /\ \A c \in Cmds : /\ Asked(c)' => Asked(c)
                           /\ \A o \in Index : Holding(c, o)' <=> Holding(c, o) /\ up'
    <2>1. CASE SendLogout \/ \E c \in Cmds : SendAbort(c)
      <3>1. PICK p \in Pdus : Post(p) /\ p.type \in {"abort", "logout"}
        <4>1. /\ [type |-> "logout", c |-> 0] \in Pdus
              /\ \A c \in Cmds : [type |-> "abort", c |-> c] \in Pdus
          BY DEF Pdus
        <4> QED BY <2>1, <4>1 DEF SendLogout, SendAbort
      <3>2. up /\ UNCHANGED up
        BY <2>1 DEF SendLogout, SendAbort
      <3> QED BY <1>1, <3>1, <3>2, PostedQuiet
    <2>2. CASE Drop \/ EndSession
      <3>1. toTarget' = << >> /\ ~up'
        BY <2>2 DEF Drop, EndSession
      <3> QED BY <1>0, <3>1, LostOut
    <2>3. CASE ReadAbort \/ ReadLogout
      <3>1. /\ toTarget # << >> /\ Take /\ UNCHANGED up /\ Head(toTarget).type # "dataOut"
        BY <2>3 DEF ReadAbort, ReadLogout, Next_
      <3> QED BY <1>1, <3>1, TakenQuiet
    <2>4. CASE ReadError
      <3>1. UNCHANGED <<toTarget, up>>
        BY <2>4 DEF ReadError
      <3> QED BY <1>0, <1>1, <3>1, QuietOut
    <2> QED BY <2>1, <2>2, <2>3, <2>4
  <1>7. up' => up
    BY DEF SendAbort, SendLogout, Drop, ReadAbort, ReadLogout, ReadError, EndSession
  <1> QED BY <1>0, <1>1, <1>4, <1>5, <1>6, <1>7, FlowsKept

(* The initiator receives a message: its command is over, or its R2T tells *)
(* it to send the rest of the data.                                        *)
LEMMA ReceiveFlows ==
  ASSUME Sure, Receive
  PROVE  Flows'
  <1> DEFINE m == Head(toClient)
  <1>0. Types /\ Places /\ Flows
    BY DEF Sure
  <1>1. /\ toClient # << >> /\ toClient' = Tail(toClient) /\ m \in Messages
        /\ UNCHANGED <<cmd, toTarget, up, rpc, rmsg, pending, task, tbuf, stored, chan>>
    BY <1>0, TailAt DEF Receive, Types, readerVars, taskVars, writerVars
  <1>2. ASSUME NEW c \in Cmds
        PROVE  /\ Has(toClient', R2tOf(c)) => Coming(c)
               /\ Once(toClient', R2tOf(c)) /\ ~Has(toClient', Wrong(c))
               /\ m \in R2tOf(c) => Coming(c) /\ m \notin Wrong(c) /\ ~Has(toClient', R2tOf(c))
    <2>1. Inviting(c)
      BY <1>0, FlowsAre
    <2> HIDE DEF m
    <2> QED BY <1>0, <1>1, <2>1, ReceivedOf DEF Inviting, Coming, m
  <1>3. \A c \in Cmds : Right(c)'
    BY <1>0, <1>1, FlowsAre, RightKept
  <1>4. CASE m.type # "r2t"
    <2>1. /\ burst' = burst
          /\ status' = status \/ \E s \in {"done", "aborted"} : status' = [status EXCEPT ![m.c] = s]
      BY <1>4 DEF Receive
    <2>2. ASSUME NEW c \in Cmds
          PROVE  (Open(c)' => Open(c)) /\ (status[c] # "new" => status'[c] # "new")
      BY <1>0, <2>1 DEF Open, Types
    <2>3. ASSUME NEW c \in Cmds PROVE Inviting(c)' /\ (Invited(c)' => Invited(c))
      <3>1. Inviting(c)
        BY <1>0, FlowsAre
      <3>2. Has(chan', R2tOf(c)) => Queued(c)
        BY <1>1 DEF Queued
      <3>3. Once(chan', R2tOf(c)) /\ (Has(chan', Wrong(c)) => Has(chan, Wrong(c)))
        BY <1>1, <3>1 DEF Inviting
      <3> HIDE DEF m
      <3> QED BY <1>1, <1>2, <2>1, <2>2, <3>1, <3>2, <3>3, InvitingLess
    <2> HIDE DEF m
    <2> QED BY <1>0, <1>1, <1>3, <2>1, <2>2, <2>3, QuietOut, FlowsKept
  <1>5. CASE m.type = "r2t"
    <2>0. PICK e \in Cmds : e = m.c
      BY <1>1, <1>5, MessageIs
    <2>1. /\ burst' = [burst EXCEPT ![e] = [next |-> m.off, end |-> WriteLen]]
          /\ status' = status
      BY <1>5, <2>0 DEF Receive
    <2>2. e \in Cmds /\ m \in R2tOf(e)
      BY <1>1, <1>5, <2>0 DEF R2tOf
    <2>3. Inviting(e) /\ Asking(e) /\ Fed(e) /\ Coming(e)
      BY <1>0, <1>2, <2>2, FlowsAre
    <2>4. /\ Untouched(e) /\ cmd[e].imm < WriteLen /\ m.off = cmd[e].imm
          /\ ~Offered(e) /\ ~Queued(e) /\ ~Asked(e) /\ Invited(e)
      BY <1>2, <2>2, <2>3 DEF Inviting, Invited, Asking, Wrong
    <2>5. burst[e].next = cmd[e].imm /\ burst'[e].next = cmd[e].imm /\ burst'[e].end = WriteLen
      <3> HIDE DEF m
      <3>1. burst \in [Cmds -> [next : 0 .. WriteLen, end : 0 .. WriteLen]]
        BY <1>0 DEF Types
      <3>2. burst[e] = [next |-> cmd[e].imm, end |-> cmd[e].imm]
        BY <2>4 DEF Untouched
      <3>3. burst'[e] = [next |-> m.off, end |-> WriteLen]
        BY <2>1, <2>2, <3>1
      <3> QED BY <2>4, <3>2, <3>3
    <2> HIDE DEF m
    <2>6. ASSUME NEW c \in Cmds, c # e PROVE burst'[c] = burst[c]
      BY <1>0, <2>1, <2>6 DEF Types
    <2>7. \A c \in Cmds : burst'[c].next = burst[c].next
      BY <2>5, <2>6
    <2>8. ~Invited(e)'
      <3>1. cmd'[e] = cmd[e] /\ rpc' = rpc /\ rmsg' = rmsg /\ chan' = chan
        BY <1>1
      <3>2. ~Has(toClient', R2tOf(e))
        BY <1>2, <2>2
      <3>3. ~Offered(e)' /\ ~Queued(e)' /\ ~Coming(e)'
        BY <2>4, <3>1, <3>2, R2tsAfter DEF Offered, Queued
      <3> QED BY <3>3 DEF Invited
    <2>9. ASSUME NEW c \in Cmds PROVE Inviting(c)' /\ (Invited(c)' => Invited(c) /\ c # e)
      <3>1. Inviting(c)
        BY <1>0, FlowsAre
      <3>2. (Has(chan', R2tOf(c)) => Queued(c)) /\ Once(chan', R2tOf(c)) /\ ~Has(chan', Wrong(c))
        BY <1>1, <3>1 DEF Inviting, Queued
      <3>3. CASE c # e
        BY <1>1, <1>2, <2>1, <2>6, <3>1, <3>2, <3>3, InvitingLess
      <3>4. CASE c = e
        <4>0. cmd'[c] = cmd[c] /\ rpc' = rpc /\ rmsg' = rmsg
          BY <1>1
        <4>1. /\ Once(chan, R2tOf(c))' /\ Once(toClient, R2tOf(c))'
              /\ ~Has(chan, Wrong(c))' /\ ~Has(toClient, Wrong(c))'
          BY <1>2, <3>2, <4>0, R2tsAfter
        <4>2. ~(rpc = "send" /\ rmsg \in Wrong(c))'
          BY <3>1, <4>0, R2tsAfter DEF Inviting
        <4>3. ~Offered(c)' /\ ~Queued(c)' /\ ~Invited(c)'
          BY <2>8, <3>4 DEF Invited
        <4> QED BY <3>4, <4>1, <4>2, <4>3 DEF Inviting
      <3> QED BY <3>3, <3>4
    <2>10. \A c \in Cmds : \A o \in Index : Holding(c, o)' <=> Holding(c, o)
      BY <1>1 DEF Holding, Has, DataAt
    <2>11. \A c \in Cmds : /\ Asked(c)' <=> Asked(c)
                           /\ Waits(c)' <=> Waits(c)
                           /\ Open(c)' <=> Open(c)
      BY <1>1, <2>1, Stays DEF Open
    <2>12. ASSUME NEW c \in Cmds PROVE Asking(c)'
      <3>1. Asking(c)
        BY <1>0, FlowsAre
      <3>2. Asked(c)' => c # e
        BY <2>4, <2>11
      <3>3. c # e => (Untouched(c)' <=> Untouched(c))
        BY <1>1, <2>6 DEF Untouched
      <3>4. \A d \in Cmds : cmd'[d] = cmd[d]
        BY <1>1
      <3> QED BY <2>9, <2>11, <3>1, <3>2, <3>3, <3>4 DEF Asking
    <2>13. ASSUME NEW c \in Cmds PROVE Fed(c)'
      <3>1. Fed(c)
        BY <1>0, FlowsAre
      <3>2. ASSUME NEW t \in Tags, pending'[t] # Nothing, pending'[t].c = c
            PROVE  Filling(c, pending[t].buf)'
        <4>1. PICK n \in 0 .. WriteLen :
                /\ n <= burst[c].next /\ pending[t].buf = Partial(c, n)
                /\ \A o \in Index : Holding(c, o) <=> up /\ n <= o /\ o < burst[c].next
          BY <1>1, <3>1, <3>2 DEF Fed, Filling
        <4>2. \A o \in Index : Holding(c, o)' <=> up' /\ n <= o /\ o < burst'[c].next
          BY <1>1, <2>7, <2>10, <4>1
        <4>3. n <= burst'[c].next /\ pending'[t].buf = Partial(c, n)'
          BY <1>1, <2>7, <4>1 DEF Partial
        <4> QED BY <4>2, <4>3 DEF Filling
      <3>3. \A o \in Index : Holding(c, o)' => Waits(c)'
        BY <2>10, <2>11, <3>1 DEF Fed
      <3>4. Open(c)' /\ (Invited(c)' \/ burst'[c].next < burst'[c].end) => Waits(c)'
        BY <2>3, <2>4, <2>6, <2>9, <2>11, <3>1 DEF Fed
      <3>5. burst'[c].next < burst'[c].end => burst'[c].end = WriteLen
        BY <2>5, <2>6, <3>1 DEF Fed
      <3> QED BY <3>2, <3>3, <3>4, <3>5 DEF Fed
    <2>14. Sorted(toTarget, cmd)' /\ ~Has(toTarget, EarlyEnds)' /\ (up' \/ toTarget' = << >>)
      BY <1>0, <1>1 DEF Flows, Sorted, Before, Has, EarlyEnds
    <2> QED BY <1>3, <2>9, <2>12, <2>13, <2>14 DEF Flows
  <1> QED BY <1>4, <1>5

(* A PDU on its way is of a command that was sent.                         *)
LEMMA OnItsWay ==
  ASSUME Sure, NEW i \in DOMAIN toTarget
  PROVE  LET p == toTarget[i] IN
         /\ p \in Pdus
         /\ p.type = "command" => p.c \in Cmds /\ Asked(p.c) /\ status[p.c] # "new"
         /\ p.type = "dataOut" => /\ p.c \in Cmds /\ p.off \in Index /\ Holding(p.c, p.off)
                                  /\ Waits(p.c) /\ status[p.c] # "new"
  <1> DEFINE p == toTarget[i]
  <1>0. Types /\ Places /\ Flows
    BY DEF Sure
  <1>1. p \in Pdus
    <2>1. toTarget \in Seq(Pdus)
      BY <1>0 DEF Types
    <2> QED BY <2>1
  <1>2. ASSUME p.type = "command" PROVE p.c \in Cmds /\ Asked(p.c) /\ status[p.c] # "new"
    <2>1. p.c \in Cmds /\ p \in RequestOf(p.c)
      BY <1>1, <1>2, PduIs DEF RequestOf
    <2>2. Asked(p.c)
      BY <2>1 DEF Asked, Has
    <2> QED BY <1>0, <2>1, <2>2 DEF Places, Placed
  <1>3. ASSUME p.type = "dataOut"
        PROVE  /\ p.c \in Cmds /\ p.off \in Index /\ Holding(p.c, p.off)
               /\ Waits(p.c) /\ status[p.c] # "new"
    <2>1. p.c \in Cmds /\ p.off \in Index /\ p \in DataAt(p.c, p.off)
      BY <1>1, <1>3, PduIs DEF DataAt
    <2>2. Holding(p.c, p.off)
      BY <2>1 DEF Holding, Has
    <2>3. Waits(p.c)
      BY <1>0, <2>1, <2>2, FlowsAre DEF Fed
    <2> QED BY <1>0, <2>1, <2>2, <2>3 DEF Places, Placed
  <1> QED BY <1>1, <1>2, <1>3

LEMMA SendCommandFlows ==
  ASSUME ~Unsolicited, Sure, NEW t \in Tags, NEW kind \in {"query", "write"},
         NEW imm \in 0 .. WriteLen, NEW n \in 0 .. WriteLen, SendCommand(t, kind, imm, n)
  PROVE  Flows'
  <1>0. Types /\ Places /\ Flows
    BY DEF Sure
  <1>1. PICK e \in Cmds : e = sent + 1 /\ sent \in Nat
    BY <1>0, SessionAssumption DEF SendCommand, Types, Cmds
  <1> DEFINE p == [type |-> "command", c |-> e]
             new == [tag |-> t, kind |-> kind, imm |-> imm]
             room == [next |-> imm, end |-> imm]
  <1>2. /\ n = 0 /\ ~Outstanding(t) /\ up
        /\ cmd' = [cmd EXCEPT ![e] = new]
        /\ status' = [status EXCEPT ![e] = "out"]
        /\ burst' = [burst EXCEPT ![e] = room]
        /\ Post(p)
        /\ UNCHANGED <<toClient, up, pending, task, tbuf, stored, chan, rpc, rmsg>>
    <2>1. n = 0
      BY DEF SendCommand
    <2>2. imm + n = imm
      BY <2>1
    <2> QED BY <1>1, <2>1, <2>2 DEF SendCommand, readerVars, taskVars, writerVars
  <1>3. cmd'[e] = new /\ status'[e] = "out" /\ burst'[e] = room
    BY <1>0, <1>2 DEF Types
  <1>4. ASSUME NEW c \in Cmds, c # e
        PROVE  cmd'[c] = cmd[c] /\ status'[c] = status[c] /\ burst'[c] = burst[c]
    BY <1>0, <1>2, <1>4 DEF Types
  <1>5. \A c \in Cmds : c >= e => status[c] = "new"
    BY <1>0, <1>1, Numbers DEF Places, Unsent
  <1>6. p \in Pdus /\ (\A c, o : p \notin DataAt(c, o)) /\ p \notin EarlyEnds
        /\ \A c : p \in RequestOf(c) <=> c = e
    BY DEF Pdus, DataAt, EarlyEnds, RequestOf
  <1>7. /\ \A c \in Cmds : Asked(c)' <=> Asked(c) \/ c = e
        /\ \A c \in Cmds : \A o : Holding(c, o)' <=> Holding(c, o)
        /\ \A c \in Cmds : Waits(c)' <=> Waits(c)
        /\ toTarget \in Seq(Pdus) /\ toTarget' = Append(toTarget, p)
        /\ ~Has(toTarget, EarlyEnds)'
    BY <1>0, <1>2, <1>6, Posted, PduPosted, Stays DEF Flows
  <1>8. \A c \in Cmds : Waits(c) => status[c] # "new"
    BY <1>0 DEF Places, Placed
  <1>9. \A c \in Cmds : \A o \in Index : Holding(c, o) => Waits(c)
    BY <1>0, FlowsAre DEF Fed
  <1>10. \A c \in Cmds : Asked(c) => status[c] # "new"
    BY <1>0 DEF Places, Placed
  <1>11. \A c \in Cmds : Invited(c) => status[c] # "new"
    BY <1>0, FlowsAre DEF Inviting
  <1> HIDE DEF p, new, room
  <1>12. Sorted(toTarget, cmd)'
    <2>1. ASSUME NEW i \in DOMAIN toTarget
          PROVE  /\ toTarget[i].type \in {"command", "dataOut"} =>
                      toTarget[i].c \in Cmds /\ status[toTarget[i].c] # "new"
      BY OnItsWay
    <2>2. ASSUME NEW i \in DOMAIN toTarget, NEW j \in DOMAIN toTarget, i < j
          PROVE  Before(toTarget[i], toTarget[j], cmd')
      <3>1. Before(toTarget[i], toTarget[j], cmd)
        BY <1>0, <2>2 DEF Flows, Sorted
      <3>2. /\ toTarget[i].type \in {"command", "dataOut"} => cmd'[toTarget[i].c] = cmd[toTarget[i].c]
            /\ toTarget[j].type \in {"command", "dataOut"} => cmd'[toTarget[j].c] = cmd[toTarget[j].c]
        <4>1. e >= e
          BY Numbers
        <4> QED BY <1>4, <1>5, <2>1, <4>1
      <3> QED BY <3>1, <3>2 DEF Before
    <2>3. Sorted(toTarget, cmd')
      BY <2>2 DEF Sorted
    <2>4. ASSUME NEW i \in DOMAIN toTarget
          PROVE  Before(toTarget[i], p, cmd')
      <3>1. toTarget[i].type = "command" => toTarget[i].c < e
        BY <1>5, <2>1, Numbers
      <3> QED BY <3>1 DEF Before, p
    <2>5. Sorted(Append(toTarget, p), cmd')
      BY <1>6, <1>7, <2>3, <2>4, SortedMore
    <2> QED BY <1>7, <2>5 DEF Sorted, Before
  <1>13. ASSUME NEW c \in Cmds PROVE Invited(c)' <=> Invited(c)
    BY <1>2 DEF Invited, Offered, Queued, Coming, Has, R2tOf
  <1>14. ASSUME NEW c \in Cmds PROVE Inviting(c)'
    <2>1. Inviting(c)
      BY <1>0, FlowsAre
    <2>2. CASE c # e
      <3>1. /\ Has(chan', R2tOf(c)) => Queued(c)
            /\ Once(chan', R2tOf(c)) /\ (Has(chan', Wrong(c)) => Has(chan, Wrong(c)))
            /\ Has(toClient', R2tOf(c)) => Coming(c)
            /\ Once(toClient', R2tOf(c)) /\ (Has(toClient', Wrong(c)) => Has(toClient, Wrong(c)))
        BY <1>2, <2>1 DEF Inviting, Queued, Coming
      <3> QED BY <1>2, <1>4, <2>1, <2>2, <3>1, InvitingLess
    <2>3. CASE c = e
      <3>1. ~Invited(c) /\ ~Invited(c)'
        BY <1>5, <1>11, <1>13, <2>3, Numbers
      <3>2. ~(rpc = "send" /\ rmsg \in Wrong(c))' /\ ~Has(chan, Wrong(c))' /\ ~Has(toClient, Wrong(c))'
        BY <3>1 DEF Invited, Offered, Queued, Coming, Has, Wrong
      <3>3. Once(chan, R2tOf(c))' /\ Once(toClient, R2tOf(c))'
        BY <3>1 DEF Invited, Queued, Coming, Has, Once
      <3> QED BY <3>1, <3>2, <3>3 DEF Inviting, Invited
    <2> QED BY <2>2, <2>3
  <1>15. ASSUME NEW c \in Cmds PROVE Asking(c)'
    <2>1. CASE c = e
      <3>1. ASSUME NEW d \in Cmds, Waits(d)' PROVE d < c
        BY <1>5, <1>7, <1>8, <2>1, <3>1, Numbers
      <3>2. ASSUME NEW d \in Cmds, d < c, cmd'[d].tag = cmd'[c].tag PROVE ~Open(d)'
        <4>1. d # e /\ cmd'[d] = cmd[d] /\ status'[d] = status[d]
          BY <1>4, <2>1, <3>2, Numbers
        <4>2. cmd[d].tag = t
          BY <1>3, <2>1, <3>2, <4>1 DEF new
        <4> QED BY <1>2, <4>1, <4>2 DEF Outstanding, Open
      <3>3. Untouched(c)'
        BY <1>3, <2>1 DEF Untouched, room, new
      <3>4. ~Invited(c)'
        BY <1>5, <1>11, <1>13, <2>1, Numbers
      <3> QED BY <3>1, <3>2, <3>3, <3>4 DEF Asking
    <2>2. CASE c # e
      <3> SUFFICES ASSUME Asked(c)'
                   PROVE  /\ \A d \in Cmds : Waits(d)' => d < c
                          /\ \A d \in Cmds : d < c /\ cmd'[d].tag = cmd'[c].tag => ~Open(d)'
                          /\ Untouched(c)' /\ ~Invited(c)'
        BY DEF Asking
      <3>1. Asked(c) /\ Asking(c)
        BY <1>0, <1>7, <2>2, FlowsAre
      <3>2. c < e
        BY <1>5, <1>10, <3>1, Numbers
      <3>3. \A d \in Cmds : d < c => cmd'[d] = cmd[d] /\ status'[d] = status[d]
        BY <1>4, <3>2, Numbers
      <3>4. Untouched(c)' <=> Untouched(c)
        BY <1>4, <2>2 DEF Untouched
      <3> QED BY <1>4, <1>7, <1>13, <2>2, <3>1, <3>3, <3>4 DEF Asking, Open
    <2> QED BY <2>1, <2>2
  <1>16. ASSUME NEW c \in Cmds PROVE Fed(c)'
    <2>1. Fed(c)
      BY <1>0, FlowsAre
    <2>2. CASE c # e
      <3>1. ASSUME NEW u \in Tags, pending'[u] # Nothing, pending'[u].c = c
            PROVE  Filling(c, pending[u].buf)'
        <4>1. PICK k \in 0 .. WriteLen :
                /\ k <= burst[c].next /\ pending[u].buf = Partial(c, k)
                /\ \A o \in Index : Holding(c, o) <=> up /\ k <= o /\ o < burst[c].next
          BY <1>2, <2>1, <3>1 DEF Fed, Filling
        <4>2. \A o \in Index : Holding(c, o)' <=> up' /\ k <= o /\ o < burst'[c].next
          BY <1>2, <1>4, <1>7, <2>2, <4>1
        <4>3. k <= burst'[c].next /\ pending'[u].buf = Partial(c, k)'
          BY <1>2, <1>4, <2>2, <4>1 DEF Partial
        <4> QED BY <4>2, <4>3 DEF Filling
      <3>2. Open(c)' <=> Open(c)
        BY <1>4, <2>2 DEF Open
      <3> QED BY <1>4, <1>7, <1>13, <2>1, <2>2, <3>1, <3>2 DEF Fed
    <2>3. CASE c = e
      <3>1. ~Waits(c)' /\ ~Invited(c)' /\ \A o \in Index : ~Holding(c, o)'
        BY <1>5, <1>7, <1>8, <1>9, <1>11, <1>13, <2>3, Numbers
      <3>2. ~(burst'[c].next < burst'[c].end)
        <4>1. burst'[c].next = imm /\ burst'[c].end = imm
          BY <1>3, <2>3 DEF room
        <4> QED BY <4>1, Numbers
      <3> QED BY <3>1, <3>2 DEF Fed, Waits
    <2> QED BY <2>2, <2>3
  <1>17. \A c \in Cmds : Right(c)'
    BY <1>0, <1>2, FlowsAre, RightKept
  <1> QED BY <1>2, <1>7, <1>12, <1>14, <1>15, <1>16, <1>17 DEF Flows

(* A unit goes out: the next of a write that waits, after all that the     *)
(* initiator has sent of it.                                               *)
LEMMA SendDataOutFlows ==
  ASSUME Sure, NEW e \in Cmds, SendDataOut(e)
  PROVE  Flows'
  <1>0. Types /\ Places /\ Flows
    BY DEF Sure
  <1> DEFINE b == burst[e]
             k == b.next
             p == [type |-> "dataOut", c |-> e, off |-> k, final |-> k + 1 = b.end]
  <1>1. /\ up /\ k < b.end /\ Open(e) /\ Post(p)
        /\ burst' = [burst EXCEPT ![e].next = k + 1]
        /\ UNCHANGED <<cmd, status, toClient, up, pending, task, tbuf, stored, chan, rpc, rmsg>>
    BY DEF SendDataOut, readerVars, taskVars, writerVars
  <1>2. k \in 0 .. WriteLen /\ b.end \in 0 .. WriteLen /\ k \in Index
    BY <1>0, <1>1, Numbers DEF Types, Index
  <1>3. Fed(e) /\ Inviting(e) /\ Asking(e)
    BY <1>0, FlowsAre
  <1>4. b.end = WriteLen /\ Waits(e) /\ ~Asked(e)
    BY <1>0, <1>1, <1>3 DEF Fed, Places, Placed
  <1>5. ~Invited(e)
    <2>1. ~Untouched(e)
      <3>1. Untouched(e) => k = cmd[e].imm /\ b.end = cmd[e].imm
        BY DEF Untouched
      <3> QED BY <1>1, <1>2, <3>1
    <2> QED BY <1>3, <2>1 DEF Inviting
  <1>6. p \in Pdus /\ p \notin EarlyEnds /\ (\A c : p \notin RequestOf(c))
        /\ \A c, o : p \in DataAt(c, o) <=> c = e /\ o = k
    BY <1>2, <1>4 DEF Pdus, EarlyEnds, RequestOf, DataAt
  <1>7. /\ \A c \in Cmds : Asked(c)' <=> Asked(c)
        /\ \A c \in Cmds : \A o : Holding(c, o)' <=> Holding(c, o) \/ (c = e /\ o = k)
        /\ \A c \in Cmds : Waits(c)' <=> Waits(c)
        /\ toTarget \in Seq(Pdus) /\ toTarget' = Append(toTarget, p)
        /\ ~Has(toTarget, EarlyEnds)'
    BY <1>0, <1>1, <1>6, Posted, PduPosted, Stays DEF Flows
  <1>8. burst'[e].next = k + 1 /\ burst'[e].end = WriteLen
        /\ \A c \in Cmds : c # e => burst'[c] = burst[c]
    BY <1>0, <1>1, <1>4 DEF Types
  <1>9. PICK t \in Tags : pending[t] # Nothing /\ pending[t].c = e
    BY <1>4 DEF Waits
  <1>10. PICK n \in 0 .. WriteLen :
           /\ n <= k
           /\ \A o \in Index : Holding(e, o) <=> up /\ n <= o /\ o < k
    BY <1>3, <1>9 DEF Fed, Filling
  <1>11. Sorted(toTarget, cmd)'
    <2>1. ASSUME NEW i \in DOMAIN toTarget
          PROVE  Before(toTarget[i], p, cmd)
      <3> DEFINE q == toTarget[i]
      <3>1. ASSUME q.type = "command", e < q.c PROVE cmd[q.c].tag # cmd[e].tag
        <4>1. q.c \in Cmds /\ Asked(q.c)
          BY <3>1, OnItsWay
        <4>2. Asking(q.c)
          BY <1>0, <4>1, FlowsAre
        <4> QED BY <1>1, <3>1, <4>1, <4>2 DEF Asking
      <3>2. ASSUME q.type = "dataOut", q.c = e PROVE q.off < k
        <4>1. q.off \in Index /\ Holding(e, q.off)
          BY <3>2, OnItsWay
        <4> QED BY <1>10, <4>1
      <3> HIDE DEF q
      <3>3. p.type = "dataOut" /\ p.c = e /\ p.off = k
        OBVIOUS
      <3>4. Before(q, p, cmd)
        BY <3>1, <3>2, <3>3 DEF Before
      <3> QED BY <3>4 DEF q
    <2> HIDE DEF p
    <2>2. Sorted(Append(toTarget, p), cmd)
      BY <1>0, <1>6, <1>7, <2>1, SortedMore DEF Flows
    <2> QED BY <1>1, <1>7, <2>2 DEF Sorted, Before
  <1> HIDE DEF p, k, b
  <1>12. ASSUME NEW c \in Cmds PROVE Invited(c)' <=> Invited(c)
    BY <1>1 DEF Invited, Offered, Queued, Coming, Has, R2tOf
  <1>13. ASSUME NEW c \in Cmds PROVE Inviting(c)'
    <2>1. Inviting(c)
      BY <1>0, FlowsAre
    <2>2. /\ (Offered(c)' <=> Offered(c)) /\ (Queued(c)' <=> Queued(c)) /\ (Coming(c)' <=> Coming(c))
          /\ Once(chan, R2tOf(c))' <=> Once(chan, R2tOf(c))
          /\ Once(toClient, R2tOf(c))' <=> Once(toClient, R2tOf(c))
          /\ Has(chan, Wrong(c))' <=> Has(chan, Wrong(c))
          /\ Has(toClient, Wrong(c))' <=> Has(toClient, Wrong(c))
          /\ (rpc = "send" /\ rmsg \in Wrong(c))' <=> rpc = "send" /\ rmsg \in Wrong(c)
      BY <1>1, R2tsAfter DEF Offered, Queued, Coming
    <2>3. Invited(c) => (Untouched(c)' <=> Untouched(c)) /\ cmd'[c].imm = cmd[c].imm /\ status'[c] = status[c]
      BY <1>1, <1>5, <1>8 DEF Untouched
    <2> QED BY <1>12, <2>1, <2>2, <2>3 DEF Inviting
  <1>14. ASSUME NEW c \in Cmds PROVE Asking(c)'
    <2>1. Asking(c)
      BY <1>0, FlowsAre
    <2>2. Asked(c) => (Untouched(c)' <=> Untouched(c))
      BY <1>1, <1>4, <1>8 DEF Untouched
    <2> QED BY <1>1, <1>7, <1>12, <2>1, <2>2 DEF Asking, Open
  <1>15. ASSUME NEW c \in Cmds PROVE Fed(c)'
    <2>1. Fed(c)
      BY <1>0, FlowsAre
    <2>2. ASSUME NEW u \in Tags, pending'[u] # Nothing, pending'[u].c = c
          PROVE  Filling(c, pending[u].buf)'
      <3>1. PICK m \in 0 .. WriteLen :
              /\ m <= burst[c].next /\ pending[u].buf = Partial(c, m)
              /\ \A o \in Index : Holding(c, o) <=> up /\ m <= o /\ o < burst[c].next
        BY <1>1, <2>1, <2>2 DEF Fed, Filling
      <3>2. \A o \in Index : Holding(c, o)' <=> up' /\ m <= o /\ o < burst'[c].next
        <4>1. CASE c # e
          BY <1>1, <1>7, <1>8, <3>1, <4>1
        <4>2. CASE c = e
          <5>1. burst[c].next = k /\ burst'[c].next = k + 1
            BY <1>8, <4>2 DEF k, b
          <5>2. ASSUME NEW o \in Index PROVE o \in Nat /\ (o < k + 1 <=> o < k \/ o = k)
            BY <1>2 DEF Index
          <5> QED BY <1>1, <1>7, <3>1, <4>2, <5>1, <5>2
        <4> QED BY <4>1, <4>2
      <3>3. m <= burst'[c].next /\ pending'[u].buf = Partial(c, m)'
        <4>1. m <= burst'[c].next
          <5>1. CASE c # e
            BY <1>8, <3>1, <5>1
          <5>2. CASE c = e
            BY <1>2, <1>8, <3>1, <5>2 DEF k, b
          <5> QED BY <5>1, <5>2
        <4> QED BY <1>1, <3>1, <4>1 DEF Partial
      <3> QED BY <3>2, <3>3 DEF Filling
    <2>3. \A o \in Index : Holding(c, o)' => Waits(c)'
      BY <1>4, <1>7, <2>1 DEF Fed
    <2>4. Open(c)' /\ (Invited(c)' \/ burst'[c].next < burst'[c].end) => Waits(c)'
      BY <1>1, <1>4, <1>7, <1>8, <1>12, <2>1 DEF Fed, Open
    <2>5. burst'[c].next < burst'[c].end => burst'[c].end = WriteLen
      BY <1>8, <2>1 DEF Fed
    <2> QED BY <2>2, <2>3, <2>4, <2>5 DEF Fed
  <1>16. \A c \in Cmds : Right(c)'
    BY <1>0, <1>1, FlowsAre, RightKept
  <1> QED BY <1>1, <1>7, <1>11, <1>13, <1>14, <1>15, <1>16 DEF Flows

(* A command is taken. Nothing of it has come yet, and nothing of the write*)
(* that its tag may have left pending will.                                *)
LEMMA ReadCommandFlows ==
  ASSUME Sure, ReadCommand
  PROVE  Flows'
  <1>0. Types /\ Places /\ Flows
    BY DEF Sure
  <1>1. /\ toTarget # << >> /\ Take /\ Head(toTarget).type = "command" /\ rpc = "read"
        /\ UNCHANGED <<cmd, status, burst, toClient, up, stored, chan>>
    BY DEF ReadCommand, Next_, initiatorVars, writerVars
  <1>2. Head(toTarget) \in Pdus
    BY <1>0, <1>1, Taken
  <1>3. PICK e \in Cmds : e = Head(toTarget).c
    BY <1>1, <1>2, PduIs
  <1>4. Head(toTarget) \in RequestOf(e) /\ Asked(e) /\ ~Asked(e)'
    <2>1. Head(toTarget) \in RequestOf(e)
      BY <1>1, <1>2, <1>3 DEF RequestOf
    <2> QED BY <1>0, <1>1, <2>1, PduTaken DEF Places, Placed
  <1>5. Asking(e) /\ Inviting(e) /\ Fed(e) /\ Untouched(e) /\ ~Invited(e) /\ ~Waits(e)
        /\ status[e] # "new"
    BY <1>0, <1>4, FlowsAre DEF Asking, Places, Placed
  <1>6. /\ Sorted(toTarget', cmd) /\ ~Has(toTarget, EarlyEnds)' /\ (up' \/ toTarget' = << >>)
        /\ \A c \in Cmds : /\ Asked(c)' => Asked(c)
                           /\ \A o \in Index : Holding(c, o)' <=> Holding(c, o) /\ up'
    BY <1>1, TakenQuiet
  <1>7. CASE /\ UNCHANGED <<pending, rpc, rmsg>>
             /\ \/ task' = [task EXCEPT ![e] = "query"] /\ tbuf' = tbuf
                \/ task' = [task EXCEPT ![e] = "store"] /\ tbuf' = [tbuf EXCEPT ![e] = Data(e)]
    <2>1. ASSUME NEW c \in Cmds PROVE Right(c)'
      <3>1. Right(c) /\ Data(c)' = Data(c)
        BY <1>0, FlowsAre DEF Data
      <3>2. /\ task \in [Cmds -> {"none", "query", "store", "good", "bad", "panicked"}]
            /\ tbuf \in [Cmds -> {Nothing} \cup Buffers]
        BY <1>0 DEF Types
      <3>3. task'[c] = "store" => tbuf'[c] = Data(c)
        <4>1. CASE c # e
          BY <1>7, <3>1, <3>2, <4>1 DEF Right
        <4>2. CASE c = e
          BY <1>7, <3>2, <4>2
        <4> QED BY <4>1, <4>2
      <3> QED BY <1>1, <3>1, <3>3 DEF Right
    <2>2. ASSUME NEW c \in Cmds PROVE Inviting(c)' /\ (Invited(c)' => Invited(c))
      BY <1>0, <1>1, <1>7, FlowsAre, InvitingSame
    <2> QED BY <1>0, <1>1, <1>6, <1>7, <2>1, <2>2, FlowsKept DEF Open
  <1>8. CASE /\ cmd[e].imm < WriteLen
             /\ pending' = [pending EXCEPT ![cmd[e].tag] = [c |-> e, buf |-> Partial(e, cmd[e].imm)]]
             /\ rpc' = "send" /\ rmsg' = [type |-> "r2t", c |-> e, off |-> cmd[e].imm]
             /\ UNCHANGED <<task, tbuf>>
    <2>1. PICK t \in Tags, k \in Index : t = cmd[e].tag /\ k = cmd[e].imm
      BY <1>0, <1>8, Numbers DEF Types, Index
    <2>2. k \in 0 .. WriteLen /\ Partial(e, k) \in Buffers /\ [c |-> e, buf |-> Partial(e, k)] # Nothing
      <3>1. k \in 0 .. WriteLen /\ Partial(e, k) \in Buffers
        BY <2>1, Numbers, DataIs
      <3>2. DOMAIN << >> = {} /\ "c" \in DOMAIN [c |-> e, buf |-> Partial(e, k)]
        OBVIOUS
      <3> QED BY <3>1, <3>2 DEF Nothing
    <2>3. pending'[t] = [c |-> e, buf |-> Partial(e, k)] /\ \A u \in Tags : u # t => pending'[u] = pending[u]
      BY <1>0, <1>8, <2>1 DEF Types
    <2>4. ASSUME NEW c \in Cmds
          PROVE  /\ Waits(c)' => Waits(c) \/ c = e
                 /\ Waits(c) => Waits(c)' \/ (c < e /\ cmd[c].tag = t)
      <3>1. Waits(c)' => Waits(c) \/ c = e
        BY <2>3 DEF Waits
      <3>2. ASSUME NEW u \in Tags, pending[u] # Nothing, pending[u].c = c
            PROVE  Waits(c)' \/ (c < e /\ cmd[c].tag = t)
        <4>1. u # t => pending'[u] # Nothing /\ pending'[u].c = c
          BY <2>3, <3>2
        <4>2. Waits(c) /\ cmd[c].tag = u
          BY <1>0, <3>2 DEF Waits, Places, Tagged
        <4>3. c < e
          BY <1>4, <1>5, <4>2 DEF Asking
        <4> QED BY <4>1, <4>2, <4>3 DEF Waits
      <3> QED BY <3>1, <3>2 DEF Waits
    <2>5. Waits(e)'
      BY <2>2, <2>3 DEF Waits
    <2>6. ASSUME NEW c \in Cmds, c < e, cmd[c].tag = t
          PROVE  ~Open(c) /\ \A o \in Index : ~Holding(c, o)'
      <3>1. ~Open(c)
        BY <1>4, <1>5, <2>1, <2>6 DEF Asking
      <3>2. ASSUME NEW i \in DOMAIN toTarget', toTarget'[i].type = "dataOut"
            PROVE  toTarget'[i].c # c
        <4>1. Before(Head(toTarget), toTarget'[i], cmd)
          BY <1>0, <1>1, <3>2, Taken, SortedLess DEF Flows
        <4> QED BY <1>1, <1>3, <2>1, <2>6, <3>2, <4>1 DEF Before
      <3>3. \A o \in Index : ~Holding(c, o)'
        BY <3>2 DEF Holding, Has, DataAt
      <3> QED BY <3>1, <3>3
    <2>7. \A o \in Index : ~Holding(e, o)'
      <3>1. \A o \in Index : ~Holding(e, o)
        BY <1>5 DEF Fed
      <3> QED BY <1>6, <3>1
    <2>8. rmsg' \in R2tOf(e)
      BY <1>8, <2>1 DEF R2tOf, Messages
    <2>9. ASSUME NEW c \in Cmds
          PROVE  /\ Offered(c)' <=> c = e
                 /\ (Queued(c)' <=> Queued(c)) /\ (Coming(c)' <=> Coming(c))
                 /\ Invited(c)' => Invited(c) \/ c = e
      <3>1. Offered(c)' <=> c = e
        BY <1>1, <1>8, <2>8, R2tsAfter DEF R2tOf
      <3>2. (Queued(c)' <=> Queued(c)) /\ (Coming(c)' <=> Coming(c))
        BY <1>1, R2tsAfter DEF Queued, Coming
      <3> QED BY <3>1, <3>2 DEF Invited
    <2>10. ASSUME NEW c \in Cmds PROVE Inviting(c)'
      <3>1. Inviting(c)
        BY <1>0, FlowsAre
      <3>2. CASE c # e
        <4>1. rmsg' \notin R2tOf(c)
          BY <1>8, <3>2 DEF R2tOf
        <4> QED BY <1>1, <3>1, <4>1, InvitingSame
      <3>3. CASE c = e
        <4>1. ~Queued(c)' /\ ~Coming(c)'
          BY <1>5, <2>9, <3>3 DEF Invited
        <4>2. Once(chan, R2tOf(c))' /\ Once(toClient, R2tOf(c))'
              /\ ~Has(chan, Wrong(c))' /\ ~Has(toClient, Wrong(c))'
          BY <1>1, <3>1, R2tsAfter DEF Inviting
        <4>3. ~(rpc = "send" /\ rmsg \in Wrong(c))'
          BY <1>1, <1>8, <3>3, R2tsAfter DEF Wrong
        <4>4. status'[c] # "new" /\ cmd'[c].imm < WriteLen /\ Untouched(c)'
          BY <1>1, <1>5, <1>8, <3>3 DEF Untouched
        <4> QED BY <4>1, <4>2, <4>3, <4>4 DEF Inviting
      <3> QED BY <3>2, <3>3
    <2>11. ASSUME NEW c \in Cmds PROVE Asking(c)'
      <3> SUFFICES ASSUME Asked(c)' PROVE Asking(c)'
        BY DEF Asking
      <3>1. Asked(c) /\ Asking(c) /\ c # e
        BY <1>0, <1>4, <1>6, FlowsAre
      <3>2. e < c
        <4>1. PICK i \in DOMAIN toTarget' : toTarget'[i] \in RequestOf(c)
          BY DEF Asked, Has, RequestOf
        <4>2. Before(Head(toTarget), toTarget'[i], cmd)
          BY <1>0, <1>1, <4>1, Taken, SortedLess DEF Flows
        <4> QED BY <1>1, <1>3, <4>1, <4>2 DEF Before, RequestOf
      <3>3. Untouched(c)' <=> Untouched(c)
        BY <1>1 DEF Untouched
      <3> QED BY <1>1, <2>4, <2>9, <3>1, <3>2, <3>3 DEF Asking, Open
    <2>12. ASSUME NEW c \in Cmds PROVE Fed(c)'
      <3>1. Fed(c)
        BY <1>0, FlowsAre
      <3>2. \A o \in Index : Holding(c, o)' => Waits(c)'
        BY <1>6, <2>4, <2>6, <3>1 DEF Fed
      <3>3. Open(c)' /\ (Invited(c)' \/ burst'[c].next < burst'[c].end) => Waits(c)'
        BY <1>1, <2>4, <2>5, <2>6, <2>9, <3>1 DEF Fed, Open
      <3>4. burst'[c].next < burst'[c].end => burst'[c].end = WriteLen
        BY <1>1, <3>1 DEF Fed
      <3>5. ASSUME NEW u \in Tags, pending'[u] # Nothing, pending'[u].c = c
            PROVE  Filling(c, pending[u].buf)'
        <4>1. CASE u # t
          <5>1. PICK n \in 0 .. WriteLen :
                  /\ n <= burst[c].next /\ pending[u].buf = Partial(c, n)
                  /\ \A o \in Index : Holding(c, o) <=> up /\ n <= o /\ o < burst[c].next
            BY <2>3, <3>1, <3>5, <4>1 DEF Fed, Filling
          <5>2. \A o \in Index : Holding(c, o)' <=> up' /\ n <= o /\ o < burst'[c].next
            BY <1>1, <1>6, <5>1
          <5>3. n <= burst'[c].next /\ pending'[u].buf = Partial(c, n)'
            BY <1>1, <2>3, <4>1, <5>1 DEF Partial
          <5> QED BY <5>2, <5>3 DEF Filling
        <4>2. CASE u = t
          <5>1. c = e /\ pending'[u].buf = Partial(e, k)
            BY <2>3, <3>5, <4>2
          <5>2. burst'[e].next = k
            BY <1>1, <1>5, <2>1 DEF Untouched
          <5>3. \A o \in Index : Holding(c, o)' <=> up' /\ k <= o /\ o < burst'[c].next
            <6>1. \A o \in Index : o \in Nat /\ ~(k <= o /\ o < k)
              BY <2>2, Numbers DEF Index
            <6> QED BY <2>7, <5>1, <5>2, <6>1
          <5>4. k <= burst'[c].next /\ pending'[u].buf = Partial(c, k)'
            BY <2>2, <5>1, <5>2 DEF Partial
          <5> QED BY <2>2, <5>3, <5>4 DEF Filling
        <4> QED BY <4>1, <4>2
      <3> QED BY <3>2, <3>3, <3>4, <3>5 DEF Fed
    <2>13. \A c \in Cmds : Right(c)'
      BY <1>0, <1>1, <1>8, FlowsAre, RightKept
    <2>14. Sorted(toTarget, cmd)'
      BY <1>1, <1>6 DEF Sorted, Before
    <2> QED BY <1>6, <2>10, <2>11, <2>12, <2>13, <2>14 DEF Flows
  <1> QED BY <1>3, <1>7, <1>8 DEF ReadCommand

(* A unit is taken: the write of its command waits for it, with all before *)
(* it in its buffer; the last one makes it a task.                         *)
LEMMA ReadDataOutFlows ==
  ASSUME Sure, ReadDataOut
  PROVE  Flows'
  <1> DEFINE d == Head(toTarget)
  <1>0. Types /\ Places /\ Flows
    BY DEF Sure
  <1>1. /\ toTarget # << >> /\ Take /\ d.type = "dataOut"
        /\ UNCHANGED <<cmd, status, burst, toClient, up, rpc, rmsg, stored, chan>>
    BY DEF ReadDataOut, Next_, initiatorVars, writerVars
  <1>2. d \in Pdus /\ toTarget \in Seq(Pdus) /\ toTarget' = Tail(toTarget)
    BY <1>0, <1>1, Taken
  <1>3. PICK e \in Cmds, n \in Index : e = d.c /\ n = d.off
    BY <1>1, <1>2, PduIs
  <1>4. \A c, o : d \in DataAt(c, o) <=> c = e /\ o = n
    BY <1>1, <1>2, <1>3 DEF DataAt
  <1>5. Holding(e, n) /\ Fed(e) /\ Inviting(e) /\ Waits(e) /\ up
    <2>1. Holding(e, n)
      BY <1>0, <1>1, <1>4, Taken
    <2>2. up
      BY <1>0, <1>1 DEF Flows
    <2> QED BY <1>0, <2>1, <2>2, FlowsAre DEF Fed
  <1>6. PICK t \in Tags : pending[t] # Nothing /\ pending[t].c = e
    BY <1>5 DEF Waits
  <1>7. cmd[e].tag = t /\ \A u \in Tags : pending[u] # Nothing /\ pending[u].c = e => u = t
    BY <1>0, <1>6 DEF Places, Tagged
  <1>8. n \in Nat /\ n + 1 \in 0 .. WriteLen /\ burst[e].next \in 0 .. WriteLen
    BY <1>0, Numbers DEF Types, Index
  <1>9. \A i \in DOMAIN toTarget' : Before(d, toTarget'[i], cmd)
    BY <1>0, <1>1, <1>2, SortedLess DEF Flows
  <1>10. \A o \in Index : Holding(e, o)' => n < o
    <2> SUFFICES ASSUME NEW o \in Index, NEW i \in DOMAIN toTarget', toTarget'[i] \in DataAt(e, o)
                 PROVE  n < o
      BY DEF Holding, Has, DataAt
    <2>1. toTarget'[i].type = "dataOut" /\ toTarget'[i].c = e /\ toTarget'[i].off = o
      BY DEF DataAt
    <2> QED BY <1>1, <1>3, <1>9, <2>1 DEF Before
  <1>11. \A c, o : Holding(c, o) <=> (c = e /\ o = n) \/ Holding(c, o)'
    BY <1>0, <1>1, <1>4, Taken
  <1>12. /\ n < burst[e].next /\ pending[t].buf = Partial(e, n)
         /\ \A o \in Index : Holding(e, o) <=> n <= o /\ o < burst[e].next
    <2>1. PICK k \in 0 .. WriteLen :
            /\ k <= burst[e].next /\ pending[t].buf = Partial(e, k)
            /\ \A o \in Index : Holding(e, o) <=> up /\ k <= o /\ o < burst[e].next
      BY <1>5, <1>6 DEF Fed, Filling
    <2>2. k <= n /\ n < burst[e].next
      BY <1>5, <2>1
    <2>3. ~(k < n)
      <3> SUFFICES ASSUME k < n PROVE FALSE
        OBVIOUS
      <3>1. k \in Index /\ k < burst[e].next /\ k <= k
        BY <1>8, <2>1, <2>2, Numbers DEF Index
      <3>2. Holding(e, k) /\ k # n
        BY <1>5, <1>8, <2>1, <3>1
      <3>3. n < k
        BY <1>10, <1>11, <3>1, <3>2
      <3> QED BY <1>8, <2>1, <3>3
    <2>4. k = n
      BY <1>8, <2>1, <2>2, <2>3
    <2> QED BY <1>5, <2>1, <2>2, <2>4
  <1> DEFINE f == [pending[t].buf EXCEPT ![n] = <<e, n>>]
  <1>13. f = Partial(e, n + 1)
    <2>1. \A i \in Index : i \in Nat /\ (i < n + 1 <=> i < n \/ i = n)
      BY <1>8 DEF Index
    <2>2. f = [i \in Index |-> IF i < n + 1 THEN <<e, i>> ELSE Zero]
      BY <1>12, <2>1 DEF Partial
    <2> QED BY <2>2 DEF Partial
  <1>14. IF Completes(d)
         THEN /\ pending' = [pending EXCEPT ![t] = Nothing]
              /\ task' = [task EXCEPT ![e] = "store"]
              /\ tbuf' = [tbuf EXCEPT ![e] = Partial(e, n + 1)]
         ELSE pending' = [pending EXCEPT ![t].buf = Partial(e, n + 1)] /\ UNCHANGED <<task, tbuf>>
    BY <1>3, <1>6, <1>7, <1>13 DEF ReadDataOut
  <1>15. Completes(d) <=> n + 1 = WriteLen
    <2>1. ~Has(toTarget, EarlyEnds)
      BY <1>0 DEF Flows
    <2>2. d \notin EarlyEnds
      BY <1>0, <1>1, <2>1, Taken
    <2>3. d.final => n + 1 = WriteLen
      BY <1>1, <1>2, <1>3, <2>2 DEF EarlyEnds
    <2> QED BY <1>3, <1>8, <2>3, Numbers DEF Completes
  <1>16. Completes(d) => \A o \in Index : ~Holding(e, o)'
    <2> SUFFICES ASSUME n + 1 = WriteLen, NEW o \in Index, Holding(e, o)' PROVE FALSE
      BY <1>15
    <2>1. n < o /\ o \in 0 .. WriteLen - 1
      BY <1>10 DEF Index
    <2> QED BY <1>8, <2>1
  <1> HIDE DEF d, f
  <1>17. \A u \in Tags : u # t => pending'[u] = pending[u]
    BY <1>0, <1>14 DEF Types
  <1>18. IF Completes(d) THEN pending'[t] = Nothing
         ELSE pending'[t] # Nothing /\ pending'[t].c = e /\ pending'[t].buf = Partial(e, n + 1)
    <2>1. CASE Completes(d)
      BY <1>0, <1>14, <2>1 DEF Types
    <2>2. CASE ~Completes(d)
      <3>1. pending[t] \in Pendings
        BY <1>0, <1>6 DEF Types
      <3>2. pending \in [Tags -> {Nothing} \cup Pendings]
        BY <1>0 DEF Types
      <3>3. pending' = [pending EXCEPT ![t].buf = Partial(e, n + 1)]
        BY <1>14, <2>2
      <3>4. pending'[t] = [pending[t] EXCEPT !.buf = Partial(e, n + 1)]
        BY <3>2, <3>3
      <3>5. pending'[t].c = e /\ pending'[t].buf = Partial(e, n + 1) /\ "c" \in DOMAIN pending'[t]
        BY <1>6, <3>1, <3>4 DEF Pendings
      <3>6. DOMAIN << >> = {}
        OBVIOUS
      <3> QED BY <2>2, <3>5, <3>6 DEF Nothing
    <2> QED BY <2>1, <2>2
  <1>19. ASSUME NEW c \in Cmds
         PROVE  /\ Waits(c)' => Waits(c)
                /\ Waits(c) => Waits(c)' \/ (c = e /\ Completes(d))
    <2>1. Waits(c)' => Waits(c)
      <3> SUFFICES ASSUME NEW u \in Tags, pending'[u] # Nothing, pending'[u].c = c
                   PROVE  Waits(c)
        BY DEF Waits
      <3>1. CASE u # t
        BY <1>17, <3>1 DEF Waits
      <3>2. CASE u = t
        BY <1>5, <1>18, <3>2
      <3> QED BY <3>1, <3>2
    <2>2. ASSUME NEW u \in Tags, pending[u] # Nothing, pending[u].c = c
          PROVE  Waits(c)' \/ (c = e /\ Completes(d))
      <3>1. CASE u # t
        BY <1>17, <2>2, <3>1 DEF Waits
      <3>2. CASE u = t
        BY <1>6, <1>18, <2>2, <3>2 DEF Waits
      <3> QED BY <3>1, <3>2
    <2> QED BY <2>1, <2>2 DEF Waits
  <1>20. ASSUME NEW c \in Cmds PROVE Inviting(c)' /\ (Invited(c)' => Invited(c))
    BY <1>0, <1>1, FlowsAre, InvitingSame
  <1>21. ASSUME NEW c \in Cmds PROVE Asking(c)'
    <2>1. Asking(c)
      BY <1>0, FlowsAre
    <2>2. Asked(c)' => Asked(c)
      BY <1>0, <1>1, PduTaken
    <2>3. Untouched(c)' <=> Untouched(c)
      BY <1>1 DEF Untouched
    <2> QED BY <1>1, <1>19, <1>20, <2>1, <2>2, <2>3 DEF Asking, Open
  <1>22. ASSUME NEW c \in Cmds PROVE Fed(c)'
    <2>1. Fed(c)
      BY <1>0, FlowsAre
    <2>2. \A o \in Index : Holding(c, o)' => Waits(c)'
      BY <1>11, <1>16, <1>19, <2>1 DEF Fed
    <2>3. burst'[c].next < burst'[c].end => burst'[c].end = WriteLen
      BY <1>1, <2>1 DEF Fed
    <2>4. Completes(d) => ~Invited(e)' /\ ~(burst'[e].next < burst'[e].end)
      <3> SUFFICES ASSUME n + 1 = WriteLen
                   PROVE  ~Invited(e)' /\ ~(burst'[e].next < burst'[e].end)
        BY <1>15
      <3>1. burst[e].next = WriteLen
        BY <1>8, <1>12
      <3>2. burst[e].end \in 0 .. WriteLen
        BY <1>0 DEF Types
      <3>3. ~(Untouched(e) /\ cmd[e].imm < WriteLen)
        BY <3>1, Numbers DEF Untouched
      <3>4. ~Invited(e)
        BY <1>5, <3>3 DEF Inviting
      <3> QED BY <1>1, <1>20, <3>1, <3>2, <3>4, Numbers
    <2>5. Open(c)' /\ (Invited(c)' \/ burst'[c].next < burst'[c].end) => Waits(c)'
      BY <1>1, <1>19, <1>20, <2>1, <2>4 DEF Fed, Open
    <2>6. ASSUME NEW u \in Tags, pending'[u] # Nothing, pending'[u].c = c
          PROVE  Filling(c, pending[u].buf)'
      <3>1. CASE u # t
        <4>1. PICK k \in 0 .. WriteLen :
                /\ k <= burst[c].next /\ pending[u].buf = Partial(c, k)
                /\ \A o \in Index : Holding(c, o) <=> up /\ k <= o /\ o < burst[c].next
          BY <1>17, <2>1, <2>6, <3>1 DEF Fed, Filling
        <4>2. c # e
          BY <1>7, <1>17, <2>6, <3>1
        <4>3. \A o \in Index : Holding(c, o)' <=> up' /\ k <= o /\ o < burst'[c].next
          BY <1>1, <1>11, <4>1, <4>2
        <4>4. k <= burst'[c].next /\ pending'[u].buf = Partial(c, k)'
          BY <1>1, <1>17, <3>1, <4>1 DEF Partial
        <4> QED BY <4>3, <4>4 DEF Filling
      <3>2. CASE u = t
        <4>1. ~Completes(d) /\ c = e /\ pending'[u].buf = Partial(e, n + 1)
          BY <1>18, <2>6, <3>2
        <4>2. \A o \in Index : Holding(c, o)' <=> up' /\ n + 1 <= o /\ o < burst'[c].next
          <5> SUFFICES ASSUME NEW o \in Index
                       PROVE  Holding(e, o)' <=> n + 1 <= o /\ o < burst[e].next
            BY <1>1, <1>5, <4>1
          <5>1. o \in Nat
            BY DEF Index
          <5>2. Holding(e, o)' => n < o /\ Holding(e, o)
            BY <1>10, <1>11
          <5>3. Holding(e, o) /\ o # n => Holding(e, o)'
            BY <1>11
          <5> QED BY <1>8, <1>12, <5>1, <5>2, <5>3
        <4>3. n + 1 <= burst'[c].next /\ pending'[u].buf = Partial(c, n + 1)'
          BY <1>1, <1>8, <1>12, <4>1 DEF Partial
        <4> QED BY <1>8, <4>2, <4>3 DEF Filling
      <3> QED BY <3>1, <3>2
    <2> QED BY <2>2, <2>3, <2>5, <2>6 DEF Fed
  <1>23. ASSUME NEW c \in Cmds PROVE Right(c)'
    <2>1. Right(c) /\ Data(c)' = Data(c)
      BY <1>0, FlowsAre DEF Data
    <2>2. CASE ~Completes(d)
      BY <1>1, <1>14, <2>1, <2>2 DEF Right
    <2>3. CASE Completes(d)
      <3>1. Partial(e, n + 1) = Data(e)
        BY <1>15, <2>3 DEF Partial, Data, Index
      <3>2. /\ task' = [task EXCEPT ![e] = "store"]
            /\ tbuf' = [tbuf EXCEPT ![e] = Data(e)]
            /\ task \in [Cmds -> {"none", "query", "store", "good", "bad", "panicked"}]
            /\ tbuf \in [Cmds -> {Nothing} \cup Buffers]
        BY <1>0, <1>14, <2>3, <3>1 DEF Types
      <3>3. task'[c] = "store" => tbuf'[c] = Data(c)
        <4>1. CASE c # e
          BY <2>1, <3>2, <4>1 DEF Right
        <4>2. CASE c = e
          BY <3>2, <4>2
        <4> QED BY <4>1, <4>2
      <3> QED BY <1>1, <2>1, <3>3 DEF Right
    <2> QED BY <2>2, <2>3
  <1>24. Sorted(toTarget, cmd)' /\ ~Has(toTarget, EarlyEnds)'
    <2>1. Sorted(toTarget', cmd)
      BY <1>0, <1>1, <1>2, SortedLess DEF Flows
    <2>2. ~Has(toTarget, EarlyEnds)'
      BY <1>0, <1>1, Taken DEF Flows
    <2> QED BY <1>1, <2>1, <2>2 DEF Sorted, Before
  <1> QED BY <1>1, <1>5, <1>20, <1>21, <1>22, <1>23, <1>24 DEF Flows

LEMMA NextFlows == ~Unsolicited /\ Sure /\ [Next]_vars => Flows'
  <1>1. ASSUME Sure, UNCHANGED vars PROVE Flows'
    <2>1. /\ UNCHANGED <<cmd, status, burst, pending, toTarget, toClient, up, rpc, rmsg, chan>>
          /\ UNCHANGED <<task, tbuf, stored>>
      BY <1>1 DEF vars, initiatorVars, readerVars, taskVars, writerVars
    <2>2. Flows
      BY <1>1 DEF Sure
    <2>3. \A c \in Cmds : Inviting(c)' /\ (Invited(c)' => Invited(c)) /\ Right(c)'
      BY <2>1, <2>2, FlowsAre, InvitingSame, RightKept
    <2> QED BY <2>1, <2>2, <2>3, QuietOut, FlowsKept DEF Open
  <1>2. ASSUME ~Unsolicited, Sure, Initiator PROVE Flows'
    BY <1>2, SendCommandFlows, SendDataOutFlows, ReceiveFlows, QuietFlows DEF Initiator
  <1>3. ASSUME Sure, Reader PROVE Flows'
    BY <1>3, ReadCommandFlows, ReaderSendFlows, ReadDataOutFlows, QuietFlows DEF Reader
  <1> QED BY <1>1, <1>2, <1>3, TaskFlows, WriterFlows DEF Next

-----------------------------------------------------------------------------
(* Theorems *)

LEMMA TypesMean == Types /\ Places => TypeOK
  BY DEF Types, Places, Placed, TypeOK, Pendings

(* In chan \o toClient, an answer is in one of the two, once.              *)
LEMMA PlacesMean == Types /\ Places => NoStrayAnswer
  <1> SUFFICES ASSUME Types, Places PROVE NoStrayAnswer
    OBVIOUS
  <1> DEFINE all == chan \o toClient
             n == Len(chan)
  <1>1. /\ n \in Nat /\ Len(toClient) \in Nat /\ DOMAIN all = 1 .. n + Len(toClient)
        /\ DOMAIN chan = 1 .. n /\ DOMAIN toClient = 1 .. Len(toClient)
        /\ \A i \in 1 .. n : all[i] = chan[i] /\ chan[i] \in Messages
        /\ \A i \in n + 1 .. n + Len(toClient) :
              all[i] = toClient[i - n] /\ toClient[i - n] \in Messages
    BY DEF Types
  <1> HIDE DEF all, n
  <1>2. ASSUME NEW i \in Answers(all)
        PROVE  LET c == all[i].c IN
               /\ c \in Cmds /\ all[i] \in AnswerTo(c)
               /\ i \in DOMAIN all
               /\ i \in 1 .. n => Bound(c)
               /\ i \notin 1 .. n => Due(c)
    <2>1. i \in DOMAIN all /\ all[i].type \in {"answer", "good", "bad"} /\ all[i] \in Messages
      BY <1>1 DEF Answers
    <2>2. all[i].c \in Cmds /\ all[i] \in AnswerTo(all[i].c)
      BY <2>1, MessageIs DEF AnswerTo
    <2>3. i \in 1 .. n => Bound(all[i].c)
      BY <1>1, <2>2 DEF Bound, Has
    <2>4. i \notin 1 .. n => i - n \in DOMAIN toClient /\ all[i] = toClient[i - n]
      BY <1>1, <2>1
    <2>5. i \notin 1 .. n => Due(all[i].c)
      BY <2>2, <2>4 DEF Due, Has
    <2> QED BY <2>1, <2>2, <2>3, <2>5
  <1>3. ASSUME NEW i \in Answers(all)
        PROVE  /\ Open(all[i].c) \/ status[all[i].c] = "aborted"
               /\ task[all[i].c] = "none"
    BY <1>2 DEF Places, Placed, Open, Busy
  <1>4. ASSUME NEW i \in Answers(all), NEW j \in Answers(all), all[i].c = all[j].c
        PROVE  i = j
    <2> DEFINE c == all[i].c
    <2>1. Placed(c) /\ all[i] \in AnswerTo(c) /\ all[j] \in AnswerTo(c)
      BY <1>2, <1>4 DEF Places
    <2>2. CASE i \in 1 .. n /\ j \in 1 .. n
      BY <1>1, <2>1, <2>2 DEF Placed, OneBound, Once
    <2>3. CASE i \notin 1 .. n /\ j \notin 1 .. n
      <3>1. /\ i - n \in DOMAIN toClient /\ all[i] = toClient[i - n] /\ i \in Int
            /\ j - n \in DOMAIN toClient /\ all[j] = toClient[j - n] /\ j \in Int
        BY <1>1, <1>2, <2>3
      <3>2. i - n = j - n
        BY <2>1, <3>1 DEF Placed, OneDue, Once
      <3> QED BY <1>1, <3>1, <3>2
    <2>4. ~(Bound(c) /\ Due(c))
      BY <2>1 DEF Placed
    <2> QED BY <1>2, <1>4, <2>2, <2>3, <2>4
  <1> QED BY <1>3, <1>4 DEF NoStrayAnswer, all

(* Every variable keeps its type, and a write task has its buffer as long  *)
(* as it needs it.                                                         *)
THEOREM TypeCorrect == Spec => []TypeOK
  BY InitTypes, NextTypes, InitPlaces, NextPlaces, TypesMean, PTL DEF Spec

(* Each command is answered at most once, and only while the initiator     *)
(* waits for it or after it aborted it: through the reader loop, the       *)
(* pending writes, the tasks, the channel and the writer it is in one      *)
(* place at a time.                                                        *)
THEOREM AnsweredOnce == Spec => []NoStrayAnswer
  BY InitTypes, NextTypes, InitPlaces, NextPlaces, PlacesMean, PTL DEF Spec

(* Whatever the interleaving of commands, R2Ts and data of all tags, with  *)
(* aborts that stop nothing, a tag used again while its earlier write still*)
(* waits for data, failing disk writes and a connection that drops, the    *)
(* storage gets of each write every unit where it belongs, or nothing: for *)
(* an initiator that sends data only when it is asked to. (The F bit of an *)
(* unsolicited burst ends a write that still misses its solicited part.)   *)
THEOREM SentIsStored == ASSUME ~Unsolicited PROVE Spec => []StoredIsSent
  <1>1. Init => Sure
    BY InitTypes, InitPlaces, InitFlows DEF Sure
  <1>2. Sure /\ [Next]_vars => Sure'
    BY NextTypes, NextPlaces, NextFlows DEF Sure
  <1>3. Sure => StoredIsSent
    BY DEF Sure, Flows, Right, StoredIsSent
  <1> QED BY <1>1, <1>2, <1>3, PTL DEF Spec
=============================================================================
