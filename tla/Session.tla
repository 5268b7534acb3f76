------------------------------ MODULE Session -------------------------------
(***************************************************************************)
(* One iSCSI session in full feature phase (session/mod.rs and the handlers*)
(* under session/): the reader loop, the tasks it spawns, the pending      *)
(* writes filled by Data-Out PDUs, the bounded channel to the writer task, *)
(* and the teardown.  The initiator and the TCP connection are the         *)
(* environment: PDUs arrive in order, the connection may drop.             *)
(*                                                                         *)
(* A write moves WriteLen units; unit i of command c is <<c, i>>: a unit   *)
(* lost, misplaced or taken from another command shows.  NOP, TEXT, READ   *)
(* and the other non-write commands are one kind, "query": a task that     *)
(* holds the session context and answers once.                             *)
(***************************************************************************)
EXTENDS Integers, Sequences, FiniteSets

CONSTANTS
  Tags,         (* Initiator task tags (far fewer than the 128 commands of *)
                (* the CmdSN window, which therefore never closes).        *)
  MaxCmds,      (* Bound: commands sent.                                   *)
  WriteLen,     (* Units of a write.                                       *)
  ChanCap,      (* Capacity of the writer's channel (1024).                *)
  Unsolicited,  (* Whether the initiator sends unsolicited Data-Out, as    *)
                (* InitialR2T=No lets it.                                  *)
  Aborts,       (* Whether it aborts tasks.                                *)
  Logouts,      (* Whether it logs out.                                    *)
  StoreErrors,  (* Whether the disk write of a command may fail or panic.  *)
  Drops         (* Whether the connection may drop.                        *)

Cmds  == 1 .. MaxCmds
Index == 0 .. WriteLen - 1
Zero  == <<0, 0>>
Data(c) == [i \in Index |-> <<c, i>>]
Nothing == << >>

ASSUME SessionAssumption ==
  /\ Tags # {} /\ MaxCmds \in Nat \ {0} /\ WriteLen \in Nat \ {0} /\ ChanCap \in Nat \ {0}
  /\ {Unsolicited, Aborts, Logouts, StoreErrors, Drops} \subseteq BOOLEAN

VARIABLES
  sent,       (* Initiator: how many commands it has sent.                 *)
  cmd,        (* Initiator: tag, kind and immediate units of each.         *)
  status,     (* Initiator: "new", "out", "aborting" (out, and its abort   *)
              (* sent), "done" or "aborted".                               *)
  burst,      (* Initiator: the units of a write still to send as Data-Out.*)
  leaving,    (* Initiator: it has logged out.                             *)
  toTarget, toClient,   (* The two directions of the connection.           *)
  up,         (* The connection.                                           *)
  rpc, rmsg,  (* Reader: where it is, the message it is sending.           *)
  pending,    (* pending_writes: the command and buffer of a tag.          *)
  task, tbuf, (* Tasks by command: where each is, a write task's buffer.   *)
  tmf,        (* Tasks answering an abort, by the command to abort.        *)
  chan,       (* The channel to the writer task.                           *)
  wpc,        (* The writer task: "recv" or "ended".                       *)
  stored      (* What the storage got for each write.                      *)

initiatorVars == <<sent, cmd, status, burst, leaving>>
readerVars    == <<rpc, rmsg, pending>>
taskVars      == <<task, tbuf, tmf, stored>>
writerVars    == <<chan, wpc>>
vars == <<initiatorVars, toTarget, toClient, up, readerVars, taskVars, writerVars>>

NoCmd == [tag |-> CHOOSE t \in Tags : TRUE, kind |-> "query", imm |-> 0]
NoMsg == [type |-> "none", c |-> 0]

Init ==
  /\ sent = 0
  /\ cmd = [c \in Cmds |-> NoCmd] /\ status = [c \in Cmds |-> "new"]
  /\ burst = [c \in Cmds |-> [next |-> WriteLen, end |-> WriteLen]]
  /\ leaving = FALSE /\ toTarget = << >> /\ toClient = << >> /\ up = TRUE
  /\ rpc = "read" /\ rmsg = NoMsg
  /\ pending = [t \in Tags |-> Nothing]
  /\ task = [c \in Cmds |-> "none"] /\ tbuf = [c \in Cmds |-> Nothing]
  /\ tmf = {} /\ stored = [c \in Cmds |-> Nothing]
  /\ chan = << >> /\ wpc = "recv"

-----------------------------------------------------------------------------
(* The initiator (external) *)

Post(pdu) == toTarget' = Append(toTarget, pdu)
Open(c) == status[c] \in {"out", "aborting"}
Outstanding(t) == \E c \in Cmds : Open(c) /\ cmd[c].tag = t

(* A command takes a tag no outstanding command has, and carries imm units *)
(* of a write as immediate data.                                           *)
SendCommand(t, kind, imm, n) ==
  LET c == sent + 1 IN
  /\ up /\ ~leaving /\ sent < MaxCmds /\ ~Outstanding(t)
  /\ kind = "query" => imm = 0
  /\ n > 0 => Unsolicited /\ kind = "write"
  /\ imm + n <= WriteLen
  /\ sent' = c
  /\ cmd' = [cmd EXCEPT ![c] = [tag |-> t, kind |-> kind, imm |-> imm]]
  /\ status' = [status EXCEPT ![c] = "out"]
  /\ burst' = [burst EXCEPT ![c] = [next |-> imm, end |-> imm + n]]
  /\ Post([type |-> "command", c |-> c])
  /\ UNCHANGED <<leaving, toClient, up, readerVars, taskVars, writerVars>>

(* The next unit of a burst, with the F bit on the last. *)
SendDataOut(c) ==
  LET b == burst[c] IN
  /\ up /\ b.next < b.end /\ Open(c)
  /\ Post([type |-> "dataOut", c |-> c, off |-> b.next, final |-> b.next + 1 = b.end])
  /\ burst' = [burst EXCEPT ![c].next = @ + 1]
  /\ UNCHANGED <<sent, cmd, status, leaving, toClient, up, readerVars, taskVars, writerVars>>

SendAbort(c) ==
  /\ up /\ Aborts
  /\ status[c] = "out"
  /\ status' = [status EXCEPT ![c] = "aborting"]
  /\ Post([type |-> "abort", c |-> c])
  /\ UNCHANGED <<sent, cmd, burst, leaving, toClient, up, readerVars, taskVars, writerVars>>

(* It logs out once it has no command outstanding. *)
SendLogout ==
  /\ up /\ Logouts /\ ~leaving
  /\ \A c \in Cmds : ~Open(c)
  /\ Post([type |-> "logout", c |-> 0])
  /\ leaving' = TRUE
  /\ UNCHANGED <<sent, cmd, status, burst, toClient, up, readerVars, taskVars, writerVars>>

(* An R2T is acted on once the unsolicited burst is out. *)
Receive ==
  LET m == Head(toClient) IN
  /\ toClient # << >>
  /\ toClient' = Tail(toClient)
  /\ \/ /\ m.type = "r2t" /\ burst[m.c].next = burst[m.c].end
        /\ burst' = [burst EXCEPT ![m.c] = [next |-> m.off, end |-> WriteLen]]
        /\ UNCHANGED status
     \/ /\ m.type # "r2t"
        /\ status' = IF m.c = 0 \/ ~Open(m.c) THEN status
                     ELSE [status EXCEPT ![m.c] = IF m.type = "aborted" THEN "aborted" ELSE "done"]
        /\ UNCHANGED burst
  /\ UNCHANGED <<sent, cmd, leaving, toTarget, up, readerVars, taskVars, writerVars>>

Drop ==
  /\ up /\ Drops /\ up' = FALSE
  /\ toTarget' = << >> /\ toClient' = << >>
  /\ UNCHANGED <<initiatorVars, readerVars, taskVars, writerVars>>

-----------------------------------------------------------------------------
(* The channel to the writer task *)

(* A definition named Mut... is a variant of the one after it with a       *)
(* plausible bug; the specification never uses it.                         *)
MutSend(m) ==
  \/ wpc = "recv" /\ chan' = Append(chan, m)      \* an unbounded channel
  \/ wpc = "ended" /\ UNCHANGED chan

(* tx.send: waits for room; an error, once the writer is gone, is ignored. *)
Send(m) ==
  \/ wpc = "recv" /\ Len(chan) < ChanCap /\ chan' = Append(chan, m)
  \/ wpc = "ended" /\ UNCHANGED chan

(* Tasks that hold the session context, the reader among them. *)
ContextAlive ==
  \/ rpc \in {"read", "send"}
  \/ \E c \in Cmds : task[c] = "query"
  \/ tmf # {}
(* Senders keep the channel open; write tasks hold a sender only. *)
SenderAlive == ContextAlive \/ \E c \in Cmds : task[c] \notin {"none", "panicked"}

-----------------------------------------------------------------------------
(* The reader loop *)

Next_(type) == rpc = "read" /\ toTarget # << >> /\ Head(toTarget).type = type
Take  == toTarget' = Tail(toTarget)
Partial(c, n) == [i \in Index |-> IF i < n THEN <<c, i>> ELSE Zero]

(* A WRITE with all its data goes to a task; otherwise it is left pending, *)
(* its buffer zeroed past the immediate data, and an R2T asks for the rest.*)
ReadCommand ==
  LET c == Head(toTarget).c
      x == cmd[c]
  IN
  /\ Next_("command") /\ Take
  /\ \/ /\ x.kind = "query"
        /\ task' = [task EXCEPT ![c] = "query"]
        /\ UNCHANGED <<tbuf, rpc, rmsg, pending>>
     \/ /\ x.kind = "write" /\ x.imm = WriteLen
        /\ task' = [task EXCEPT ![c] = "store"]
        /\ tbuf' = [tbuf EXCEPT ![c] = Data(c)]
        /\ UNCHANGED <<rpc, rmsg, pending>>
     \/ /\ x.kind = "write" /\ x.imm < WriteLen
        /\ pending' = [pending EXCEPT ![x.tag] = [c |-> c, buf |-> Partial(c, x.imm)]]
        /\ rpc' = "send" /\ rmsg' = [type |-> "r2t", c |-> c, off |-> x.imm]
        /\ UNCHANGED <<task, tbuf>>
  /\ UNCHANGED <<initiatorVars, toClient, up, tmf, stored, writerVars>>

MutReaderSend ==
  /\ rpc = "send"
  /\ Send(rmsg) \/ (Len(chan) = ChanCap /\ UNCHANGED chan)   \* try_send, its error dropped
  /\ rpc' = IF rmsg.type = "logout" THEN "wait" ELSE "read"
  /\ rmsg' = NoMsg
  /\ UNCHANGED <<initiatorVars, toTarget, toClient, up, pending, taskVars, wpc>>

(* The reader itself sends R2Ts and the logout response, and waits for room.*)
ReaderSend ==
  /\ rpc = "send" /\ Send(rmsg)
  /\ rpc' = IF rmsg.type = "logout" THEN "wait" ELSE "read"
  /\ rmsg' = NoMsg
  /\ UNCHANGED <<initiatorVars, toTarget, toClient, up, pending, taskVars, wpc>>

(* handle_data_out: the F bit, or a unit at the end, completes the write. *)
Completes(d) == d.final \/ d.off + 1 >= WriteLen

MutReadDataOut ==
  LET d == Head(toTarget)
      t == cmd[d.c].tag
      p == pending[t]
      buf == [p.buf EXCEPT ![0] = <<d.c, d.off>>]      \* buffer offset ignored
  IN
  /\ Next_("dataOut") /\ Take
  /\ \/ p = Nothing /\ UNCHANGED <<pending, task, tbuf>>
     \/ /\ p # Nothing
        /\ IF Completes(d)
           THEN /\ pending' = [pending EXCEPT ![t] = Nothing]
                /\ task' = [task EXCEPT ![p.c] = "store"]
                /\ tbuf' = [tbuf EXCEPT ![p.c] = buf]
           ELSE /\ pending' = [pending EXCEPT ![t].buf = buf]
                /\ UNCHANGED <<task, tbuf>>
  /\ UNCHANGED <<initiatorVars, toClient, up, rpc, rmsg, tmf, stored, writerVars>>

ReadDataOut ==
  LET d == Head(toTarget)
      t == cmd[d.c].tag
      p == pending[t]
      buf == [p.buf EXCEPT ![d.off] = <<d.c, d.off>>]
  IN
  /\ Next_("dataOut") /\ Take
  /\ \/ p = Nothing /\ UNCHANGED <<pending, task, tbuf>>
     \/ /\ p # Nothing
        /\ IF Completes(d)
           THEN /\ pending' = [pending EXCEPT ![t] = Nothing]
                /\ task' = [task EXCEPT ![p.c] = "store"]
                /\ tbuf' = [tbuf EXCEPT ![p.c] = buf]
           ELSE /\ pending' = [pending EXCEPT ![t].buf = buf]
                /\ UNCHANGED <<task, tbuf>>
  /\ UNCHANGED <<initiatorVars, toClient, up, rpc, rmsg, tmf, stored, writerVars>>

(* handle_tmf_req: nothing is aborted; a task answers "function complete". *)
ReadAbort ==
  /\ Next_("abort") /\ Take
  /\ tmf' = tmf \cup {Head(toTarget).c}
  /\ UNCHANGED <<initiatorVars, toClient, up, readerVars, task, tbuf, stored, writerVars>>

ReadLogout ==
  /\ Next_("logout") /\ Take
  /\ rpc' = "send" /\ rmsg' = [type |-> "logout", c |-> 0]
  /\ UNCHANGED <<initiatorVars, toClient, up, pending, taskVars, writerVars>>

(* The read fails: the loop is left. *)
ReadError ==
  /\ rpc = "read" /\ ~up
  /\ rpc' = "wait"
  /\ UNCHANGED <<initiatorVars, toTarget, toClient, up, rmsg, pending, taskVars, writerVars>>

(* writer_handle.await is over; the caches are let go and the session ends.*)
EndSession ==
  /\ rpc = "wait" /\ wpc = "ended"
  /\ rpc' = "ended" /\ up' = FALSE /\ toTarget' = << >>
  /\ UNCHANGED <<initiatorVars, toClient, rmsg, pending, taskVars, writerVars>>

-----------------------------------------------------------------------------
(* Tasks *)

AnswerQuery(c) ==
  /\ task[c] = "query"
  /\ Send([type |-> "answer", c |-> c])
  /\ task' = [task EXCEPT ![c] = "none"]
  /\ UNCHANGED <<initiatorVars, toTarget, toClient, up, readerVars, tbuf, tmf, stored, wpc>>

AnswerAbort(c) ==
  /\ c \in tmf
  /\ Send([type |-> "aborted", c |-> c])
  /\ tmf' = tmf \ {c}
  /\ UNCHANGED <<initiatorVars, toTarget, toClient, up, readerVars, task, tbuf, stored, wpc>>

(* The write itself, on a blocking thread: done, failed, or panicked, and  *)
(* then nothing is ever answered.                                          *)
Store(c) ==
  /\ task[c] = "store"
  /\ \/ /\ stored' = [stored EXCEPT ![c] = tbuf[c]]
        /\ task' = [task EXCEPT ![c] = "good"]
     \/ /\ StoreErrors
        /\ \E next \in {"bad", "panicked"} : task' = [task EXCEPT ![c] = next]
        /\ UNCHANGED stored
  /\ tbuf' = [tbuf EXCEPT ![c] = Nothing]
  /\ UNCHANGED <<initiatorVars, toTarget, toClient, up, readerVars, tmf, writerVars>>

MutAnswerWrite(c) ==
  /\ task[c] \in {"good", "bad"}
  /\ Send([type |-> task[c], c |-> c])             \* falls through to the good answer
  /\ task' = [task EXCEPT ![c] = IF @ = "bad" THEN "good" ELSE "none"]
  /\ UNCHANGED <<initiatorVars, toTarget, toClient, up, readerVars, tbuf, tmf, stored, wpc>>

AnswerWrite(c) ==
  /\ task[c] \in {"good", "bad"}
  /\ Send([type |-> task[c], c |-> c])
  /\ task' = [task EXCEPT ![c] = "none"]
  /\ UNCHANGED <<initiatorVars, toTarget, toClient, up, readerVars, tbuf, tmf, stored, wpc>>

-----------------------------------------------------------------------------
(* The writer task *)

WriteMessage ==
  /\ wpc = "recv" /\ chan # << >> /\ ContextAlive /\ up
  /\ toClient' = Append(toClient, Head(chan))
  /\ chan' = Tail(chan)
  /\ UNCHANGED <<initiatorVars, toTarget, up, readerVars, taskVars, wpc>>

EndWriter ==
  /\ wpc' = "ended" /\ chan' = << >>
  /\ UNCHANGED <<initiatorVars, toTarget, toClient, up, readerVars, taskVars>>

(* The connection is gone. *)
WriteError ==
  /\ wpc = "recv" /\ chan # << >> /\ ContextAlive /\ ~up
  /\ EndWriter

(* A message is there, but upgrade() finds the session context gone. *)
WriterOrphaned ==
  /\ wpc = "recv" /\ chan # << >> /\ ~ContextAlive
  /\ EndWriter

MutChannelClosed ==
  /\ wpc = "recv" /\ chan = << >> /\ ~SenderAlive
  /\ up                                  \* only on a clean logout
  /\ EndWriter

(* Every sender is gone. *)
ChannelClosed ==
  /\ wpc = "recv" /\ chan = << >> /\ ~SenderAlive
  /\ EndWriter

Initiator ==
  \/ \E t \in Tags, kind \in {"query", "write"}, imm \in 0 .. WriteLen, n \in 0 .. WriteLen :
       SendCommand(t, kind, imm, n)
  \/ \E c \in Cmds : SendDataOut(c) \/ SendAbort(c)
  \/ SendLogout \/ Receive \/ Drop
Reader  == ReadCommand \/ ReaderSend \/ ReadDataOut \/ ReadAbort \/ ReadLogout \/ ReadError \/ EndSession
Task(c) == AnswerQuery(c) \/ AnswerAbort(c) \/ Store(c) \/ AnswerWrite(c)
Writer  == WriteMessage \/ WriteError \/ WriterOrphaned \/ ChannelClosed

Next == Initiator \/ Reader \/ Writer \/ \E c \in Cmds : Task(c)

Spec == Init /\ [][Next]_vars

(* The runtime runs every ready task; the initiator reads what it is sent  *)
(* and finishes the bursts it began.                                       *)
FairSpec ==
  /\ Spec
  /\ WF_vars(Reader) /\ WF_vars(Writer) /\ \A c \in Cmds : WF_vars(Task(c))
  /\ WF_vars(Receive) /\ \A c \in Cmds : WF_vars(SendDataOut(c))

-----------------------------------------------------------------------------
(* Properties *)

Buffers  == [Index -> {Zero} \cup {<<c, i>> : c \in Cmds, i \in Index}]

TypeOK ==
  /\ sent \in 0 .. MaxCmds
  /\ cmd \in [Cmds -> [tag : Tags, kind : {"query", "write"}, imm : 0 .. WriteLen]]
  /\ status \in [Cmds -> {"new", "out", "aborting", "done", "aborted"}]
  /\ rpc \in {"read", "send", "wait", "ended"}
  /\ rpc = "send" => rmsg.type \in {"r2t", "logout"}
  /\ \A t \in Tags : pending[t] = Nothing \/ pending[t] \in [c : Cmds, buf : Buffers]
  /\ task \in [Cmds -> {"none", "query", "store", "good", "bad", "panicked"}]
  /\ \A c \in Cmds : task[c] = "store" <=> tbuf[c] # Nothing
  /\ tmf \subseteq Cmds
  /\ Len(chan) <= ChanCap /\ (wpc = "ended" => chan = << >>)

(* What reaches the storage is what the initiator sent for that command:   *)
(* no unit lost, misplaced, zero or left over from an earlier command with *)
(* the same tag.                                                           *)
StoredIsSent == \A c \in Cmds : stored[c] \in {Nothing, Data(c)}

Answers(q) == {i \in DOMAIN q : q[i].type \in {"answer", "good", "bad"}}

(* A command is answered at most once, and never after the initiator was   *)
(* told that it is over, so that an answer can never be taken for one to a *)
(* later command with the same tag - unless it was told so by an abort,    *)
(* which stops nothing.                                                    *)
NoStrayAnswer ==
  LET all == chan \o toClient IN
  /\ \A i \in Answers(all) :
       /\ Open(all[i].c) \/ status[all[i].c] = "aborted"
       /\ task[all[i].c] = "none"
  /\ \A i, j \in Answers(all) : all[i].c = all[j].c => i = j

(* Every command is answered, however full the channel, unless the         *)
(* connection is lost or its disk write panics.                            *)
EveryCommandAnswered ==
  \A c \in Cmds : Open(c) ~> ~Open(c) \/ ~up \/ task[c] = "panicked"

(* A logout or a lost connection ends the session, with tasks in flight and*)
(* the channel full or not: neither the reader, nor a task, nor the writer *)
(* waits for ever for another.                                             *)
SessionEnds == (~up \/ rmsg.type = "logout") ~> rpc = "ended"
=============================================================================
