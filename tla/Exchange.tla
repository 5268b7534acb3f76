------------------------------ MODULE Exchange ------------------------------
(***************************************************************************)
(* Sequence numbers and lengths on one iSCSI connection: the login phase   *)
(* (session/login.rs), the CmdSN window the reader loop opens              *)
(* (session/mod.rs), and what the writer task makes of a message           *)
(* (session/pdu_io.rs): Data-In segments, R2Ts, StatSN, residual counts.   *)
(*                                                                         *)
(* Session says that every message reaches the writer task or its command  *)
(* is over; here the channel is unbounded and the connection stays up, and *)
(* the question is what the initiator, which checks these numbers, sees.   *)
(* Lengths are counted in units.  Sequence numbers wrap at Wrap (2^32) and *)
(* are compared in serial order.  CmdSN Wrap - 1 (0xFFFFFFFF) marks a PDU  *)
(* without one.                                                            *)
(***************************************************************************)
EXTENDS Integers, Sequences, FiniteSets

CONSTANTS
  Wrap,         (* Sequence numbers are 0 .. Wrap - 1.                     *)
  Window,       (* Commands beyond ExpCmdSN the target takes (128).        *)
  FirstSNs,     (* The CmdSNs an initiator may start with.                 *)
  Limits,       (* The MaxRecvDataSegmentLength it may declare.            *)
  DefaultLimit, (* The one in force when it declares none (4 MB).          *)
  Inquiry,      (* The length of the target's inquiry data.                *)
  Menu,         (* The commands it may send.                               *)
  MaxCmds,      (* Bound: commands sent.                                   *)
  MaxLogins     (* Bound: login requests sent.                             *)

ASSUME ExchangeAssumption ==
  /\ Wrap \in Nat /\ Window \in Nat \ {0} /\ 2 * (Window + MaxCmds + 1) < Wrap
  /\ FirstSNs \subseteq 0 .. Wrap - 1
  /\ Limits \subseteq Nat \ {0} /\ DefaultLimit \in Nat \ {0}
  /\ Inquiry \in Nat \ {0}
  /\ MaxCmds \in Nat \ {0} /\ MaxLogins \in Nat \ {0}
  /\ \A x \in Menu : /\ x.kind \in {"read", "inquiry", "sense", "test", "write", "ping"}
                     /\ x.want \in Nat

Cmds == 1 .. MaxCmds
SN   == 0 .. Wrap - 1
After(n) == (n + 1) % Wrap
(* Serial order: m is n or fewer than half the numbers behind it. *)
Behind(m, n) == (n - m) % Wrap < Wrap \div 2
Least(a, b) == IF a <= b THEN a ELSE b

VARIABLES
  ipc,        (* Initiator: "login", "asked" or "full".                    *)
  logins,     (* Initiator: login requests sent.                           *)
  declared,   (* Initiator: the limit it declared last.                    *)
  cmdSN,      (* Initiator: the CmdSN of its next command.                 *)
  cmd,        (* Initiator: the commands sent, with their CmdSN.           *)
  mayTo,      (* Initiator: the MaxCmdSN it goes by.                       *)
  expStatSN,  (* Initiator: the StatSN it expects next.                    *)
  data,       (* Initiator: the Data-In segments of each command.          *)
  status,     (* Initiator: the status of each command.                    *)
  toTarget, toInitiator,         (* The connection.                        *)
  tpc,        (* Target: "login", then the reader loop at "read" or, a     *)
              (* command's CmdSN half recorded, at "open".                 *)
  limit,      (* Target: max_recv_data_segment_len.                        *)
  expSN, maxSN,                  (* Target: exp_cmd_sn and max_cmd_sn.     *)
  tasks,      (* Target: the commands whose tasks have yet to answer.      *)
  chan,       (* Target: the channel to the writer task.                   *)
  wpc,        (* Writer: "recv", or the PDU it builds: "exp" before        *)
              (* ExpCmdSN is loaded, "max" before MaxCmdSN is.             *)
  wmsg, wexp, (* Writer: the message in hand and the ExpCmdSN loaded.      *)
  woff, wdata,(* Writer: the offset and the DataSN of the next segment.    *)
  statSN      (* Target: stat_sn, the writer's once logged in.             *)

initiatorVars == <<ipc, logins, declared, cmdSN, cmd, mayTo, expStatSN, data, status>>
readerVars    == <<tpc, limit, expSN, maxSN>>
writerVars    == <<wpc, wmsg, wexp, woff, wdata, statSN>>
vars == <<initiatorVars, toTarget, toInitiator, readerVars, tasks, chan, writerVars>>

NoStatus == [type |-> "none"]
NoMsg    == [type |-> "none"]

Init ==
  /\ ipc = "login" /\ logins = 0 /\ declared = DefaultLimit
  /\ cmdSN \in FirstSNs /\ cmd = << >>
  /\ mayTo = cmdSN /\ expStatSN = 1
  /\ data = [c \in Cmds |-> << >>] /\ status = [c \in Cmds |-> NoStatus]
  /\ toTarget = << >> /\ toInitiator = << >>
  /\ tpc = "login" /\ limit = DefaultLimit
  /\ expSN = 0 /\ maxSN = (2 * Window) % Wrap  \* mod.rs starts with 0 and 256
  /\ tasks = {} /\ chan = << >>
  /\ wpc = "recv" /\ wmsg = NoMsg /\ wexp = 0 /\ woff = 0 /\ wdata = 0
  /\ statSN = 1

-----------------------------------------------------------------------------
(* The initiator (external) *)

(* A login request, which may declare a limit and may be the last. All of  *)
(* them carry the CmdSN the first command will have.                       *)
SendLogin(declares, l, last) ==
  /\ ipc = "login" /\ logins < MaxLogins
  /\ logins' = logins + 1 /\ ipc' = "asked"
  /\ declared' = IF declares THEN l ELSE declared
  /\ toTarget' = Append(toTarget, [type |-> "login", c |-> 0, sn |-> cmdSN,
                                   declares |-> declares, limit |-> l, last |-> last])
  /\ UNCHANGED <<cmdSN, cmd, mayTo, expStatSN, data, status, toInitiator, readerVars, tasks,
                 chan, writerVars>>

(* The first byte of a PDU, its opcode apart: an immediate one, here the   *)
(* NOP-Out "ping", has the I bit, the second (DOCUMENTATION.md:179).       *)
Bits(x) == IF x.kind = "ping" THEN {64} ELSE {}

(* A command inside the window takes a CmdSN; an immediate one carries the *)
(* next one without taking it.                                             *)
SendCommand(x) ==
  LET c == Len(cmd) + 1 IN
  /\ ipc = "full" /\ c \in Cmds
  /\ 64 \in Bits(x) \/ Behind(cmdSN, mayTo)
  /\ cmd' = Append(cmd, [kind |-> x.kind, want |-> x.want, sn |-> cmdSN])
  /\ cmdSN' = IF 64 \in Bits(x) THEN cmdSN ELSE After(cmdSN)
  /\ toTarget' = Append(toTarget, [type |-> "command", c |-> c])
  /\ UNCHANGED <<ipc, logins, declared, mayTo, expStatSN, data, status, toInitiator,
                 readerVars, tasks, chan, writerVars>>

(* It follows the window as far as it opens, and the numbers it is given.  *)
Receive ==
  LET p == Head(toInitiator) IN
  /\ toInitiator # << >> /\ toInitiator' = Tail(toInitiator)
  /\ mayTo' = IF Behind(mayTo, p.max) THEN p.max ELSE mayTo
  /\ expStatSN' = IF p.type \in {"login", "status"} THEN After(p.stat) ELSE expStatSN
  /\ ipc' = IF p.type = "login" THEN (IF p.last THEN "full" ELSE "login") ELSE ipc
  /\ data' = IF p.type = "data" THEN [data EXCEPT ![p.c] = Append(@, p)] ELSE data
  /\ status' = IF p.type = "status" THEN [status EXCEPT ![p.c] = p] ELSE status
  /\ toTarget' = IF p.type = "r2t" THEN Append(toTarget, [type |-> "dataOut", c |-> p.c])
                 ELSE toTarget
  /\ UNCHANGED <<logins, declared, cmdSN, cmd, readerVars, tasks, chan, writerVars>>

-----------------------------------------------------------------------------
(* The login phase *)

Next_(type) == toTarget # << >> /\ Head(toTarget).type = type
Take == toTarget' = Tail(toTarget)

(* A request is answered at once.  The limit is the one declared last; the *)
(* window is opened past the request's own CmdSN.                          *)
Login ==
  LET p == Head(toTarget) IN
  /\ tpc = "login" /\ Next_("login") /\ Take
  /\ limit' = IF p.declares THEN p.limit ELSE limit
  /\ expSN' = After(p.sn) /\ maxSN' = (p.sn + 1 + Window) % Wrap
  /\ statSN' = After(statSN)
  /\ toInitiator' = Append(toInitiator, [type |-> "login", c |-> 0, last |-> p.last,
                                         stat |-> statSN, exp |-> expSN', max |-> maxSN'])
  /\ tpc' = IF p.last THEN "read" ELSE "login"
  /\ UNCHANGED <<initiatorVars, tasks, chan, wpc, wmsg, wexp, woff, wdata>>

-----------------------------------------------------------------------------
(* The reader loop *)

(* A definition named Mut... is a variant of the one after it with a       *)
(* plausible bug; the specification never uses it.                         *)
MutCounted(x) == x.kind \in {"read", "write", "inquiry", "sense"}   \* not TEST UNIT READY

(* What counts is what read_pdu does not take for immediate, and it looks  *)
(* at the first bit.                                                       *)
IsImmediate(x) == 128 \in Bits(x)
Counted(x) == ~IsImmediate(x) /\ x.sn # Wrap - 1

(* A WRITE without all its data is left pending and asks for the rest (its *)
(* want); all else gets a task.                                            *)
Incomplete(x) == x.kind = "write" /\ x.want > 0

Dispatch(c) ==
  IF Incomplete(cmd[c])
  THEN chan' = Append(chan, [type |-> "r2t", c |-> c]) /\ UNCHANGED tasks
  ELSE tasks' = tasks \cup {c} /\ UNCHANGED chan

MutReadCommand ==
  LET c == Head(toTarget).c IN
  /\ tpc = "read" /\ Next_("command")
  /\ IF Counted(cmd[c])
     THEN /\ expSN' = After(cmd[c].sn) /\ tpc' = "open"
          /\ UNCHANGED <<toTarget, tasks, chan>>
     ELSE /\ Take /\ UNCHANGED <<expSN, tpc, tasks, chan>>   \* not taken for a command
  /\ UNCHANGED <<initiatorVars, toInitiator, limit, maxSN, writerVars>>

(* A command that is not immediate moves the window: ExpCmdSN first, ...   *)
ReadCommand ==
  LET c == Head(toTarget).c IN
  /\ tpc = "read" /\ Next_("command")
  /\ IF Counted(cmd[c])
     THEN /\ expSN' = After(cmd[c].sn) /\ tpc' = "open"
          /\ UNCHANGED <<toTarget, tasks, chan>>
     ELSE /\ Take /\ Dispatch(c) /\ UNCHANGED <<expSN, tpc>>
  /\ UNCHANGED <<initiatorVars, toInitiator, limit, maxSN, writerVars>>

(* ... then MaxCmdSN, which the writer task may read in between. *)
OpenWindow ==
  LET c == Head(toTarget).c IN
  /\ tpc = "open" /\ tpc' = "read"
  /\ maxSN' = (cmd[c].sn + 1 + Window) % Wrap
  /\ Take /\ Dispatch(c)
  /\ UNCHANGED <<initiatorVars, toInitiator, limit, expSN, writerVars>>

MutReadDataOut ==
  /\ tpc = "read" /\ Next_("dataOut") /\ Take
  /\ tasks' = tasks \cup {Head(toTarget).c}
  /\ expSN' = 0 /\ maxSN' = Window      \* its CmdSN, 0xFFFFFFFF, counted as one
  /\ UNCHANGED <<initiatorVars, toInitiator, tpc, limit, chan, writerVars>>

ReadDataOut ==
  /\ tpc = "read" /\ Next_("dataOut") /\ Take
  /\ tasks' = tasks \cup {Head(toTarget).c}
  /\ UNCHANGED <<initiatorVars, toInitiator, readerVars, chan, writerVars>>

-----------------------------------------------------------------------------
(* The tasks *)

(* The data a command returns: what was asked for, cut to it, or, for      *)
(* REQUEST SENSE and READ CAPACITY, all there is.                          *)
Yield(x) == CASE x.kind = "read"    -> x.want
              [] x.kind = "inquiry" -> Least(Inquiry, x.want)
              [] x.kind = "sense"   -> Inquiry

HasData(x) == x.kind \in {"read", "inquiry", "sense"}

(* send_scsi_data_in, send_scsi_response with its expected and actual      *)
(* length, or a PDU of its own.  A WRITE's response passes 0 for both, and *)
(* the Data-Outs it was sent, here the one that answers its R2T.           *)
Answer(c) ==
  LET x == cmd[c] IN
  /\ c \in tasks /\ tasks' = tasks \ {c}
  /\ chan' = Append(chan,
       IF HasData(x) THEN [type |-> "data", c |-> c, len |-> Yield(x), want |-> x.want]
       ELSE [type |-> "status", c |-> c, outs |-> IF Incomplete(x) THEN 1 ELSE 0,
             want |-> IF x.kind = "test" THEN x.want ELSE 0])
  /\ UNCHANGED <<initiatorVars, toTarget, toInitiator, readerVars, writerVars>>

-----------------------------------------------------------------------------
(* The writer task *)

MutTakeMessage ==
  LET m == Head(chan) IN
  /\ wpc = "recv" /\ chan # << >> /\ chan' = Tail(chan)
  /\ IF m.type = "data" /\ m.len = 0 THEN UNCHANGED <<wpc, wmsg>>
     ELSE wpc' = "exp" /\ wmsg' = m
  /\ woff' = 0 /\ UNCHANGED wdata              \* DataSN counts on
  /\ UNCHANGED <<initiatorVars, toTarget, toInitiator, readerVars, tasks, wexp, statSN>>

(* Data of no length at all make no PDU, and no response either. *)
TakeMessage ==
  LET m == Head(chan) IN
  /\ wpc = "recv" /\ chan # << >> /\ chan' = Tail(chan)
  /\ IF m.type = "data" /\ m.len = 0 THEN UNCHANGED <<wpc, wmsg>>
     ELSE wpc' = "exp" /\ wmsg' = m
  /\ woff' = 0 /\ wdata' = 0
  /\ UNCHANGED <<initiatorVars, toTarget, toInitiator, readerVars, tasks, wexp, statSN>>

LoadExp ==
  /\ wpc = "exp" /\ wpc' = "max" /\ wexp' = expSN
  /\ UNCHANGED <<initiatorVars, toTarget, toInitiator, readerVars, tasks, chan,
                 wmsg, woff, wdata, statSN>>

Put(p) == toInitiator' = Append(toInitiator, p)
Short(want, len) == IF len < want THEN want - len ELSE 0
MsgDone == wpc' = "recv" /\ wmsg' = NoMsg

(* A segment is as long as the initiator takes; the last has the F bit. *)
PutSegment ==
  LET n == Least(wmsg.len - woff, limit) IN
  /\ wpc = "max" /\ wmsg.type = "data" /\ woff < wmsg.len
  /\ Put([type |-> "data", c |-> wmsg.c, stat |-> 0, exp |-> wexp, max |-> maxSN,
          sn |-> wdata, off |-> woff, len |-> n, final |-> woff + n >= wmsg.len])
  /\ woff' = woff + n /\ wdata' = wdata + 1 /\ wpc' = "exp"
  /\ UNCHANGED <<initiatorVars, toTarget, readerVars, tasks, chan, wmsg, wexp, statSN>>

(* The response after the last segment, or on its own. *)
PutStatus ==
  /\ wpc = "max"
  /\ \/ wmsg.type = "status"
     \/ wmsg.type = "data" /\ woff >= wmsg.len
  /\ Put([type |-> "status", c |-> wmsg.c, stat |-> statSN, exp |-> wexp, max |-> maxSN,
          expDataSN |-> IF wmsg.type = "data" THEN wdata ELSE wmsg.outs,
          residual |-> Short(wmsg.want, IF wmsg.type = "data" THEN wmsg.len ELSE 0)])
  /\ statSN' = After(statSN) /\ MsgDone
  /\ UNCHANGED <<initiatorVars, toTarget, readerVars, tasks, chan, wexp, woff, wdata>>

MutPutR2T ==
  /\ wpc = "max" /\ wmsg.type = "r2t"
  /\ Put([type |-> "r2t", c |-> wmsg.c, stat |-> statSN, exp |-> wexp, max |-> maxSN])
  /\ statSN' = After(statSN) /\ MsgDone        \* advanced as by a response
  /\ UNCHANGED <<initiatorVars, toTarget, readerVars, tasks, chan, wexp, woff, wdata>>

(* An R2T carries the next StatSN and leaves it. *)
PutR2T ==
  /\ wpc = "max" /\ wmsg.type = "r2t"
  /\ Put([type |-> "r2t", c |-> wmsg.c, stat |-> statSN, exp |-> wexp, max |-> maxSN])
  /\ MsgDone
  /\ UNCHANGED <<initiatorVars, toTarget, readerVars, tasks, chan, wexp, woff, wdata, statSN>>

Next ==
  \/ \E declares, last \in BOOLEAN, l \in Limits : SendLogin(declares, l, last)
  \/ \E x \in Menu : SendCommand(x)
  \/ Receive
  \/ Login \/ ReadCommand \/ OpenWindow \/ ReadDataOut
  \/ \E c \in Cmds : Answer(c)
  \/ TakeMessage \/ LoadExp \/ PutSegment \/ PutStatus \/ PutR2T

Spec == Init /\ [][Next]_vars

-----------------------------------------------------------------------------
(* Properties *)

Kinds    == {"read", "inquiry", "sense", "test", "write", "ping"}
Requests == [type : {"login"}, c : {0}, sn : SN, declares : BOOLEAN, limit : Limits,
             last : BOOLEAN]
            \cup [type : {"command", "dataOut"}, c : Cmds]
Messages == [type : {"data"}, c : Cmds, len : Nat, want : Nat]
            \cup [type : {"status"}, c : Cmds, outs : Nat, want : Nat]
            \cup [type : {"r2t"}, c : Cmds]
Segments == [type : {"data"}, c : Cmds, stat : {0}, exp : SN, max : SN, sn : Nat, off : Nat,
             len : Nat, final : BOOLEAN]
Results  == [type : {"status"}, c : Cmds, stat : SN, exp : SN, max : SN, expDataSN : Nat,
             residual : Nat]
Replies  == [type : {"login"}, c : {0}, last : BOOLEAN, stat : SN, exp : SN, max : SN]
            \cup [type : {"r2t"}, c : Cmds, stat : SN, exp : SN, max : SN]
            \cup Segments \cup Results

Named(s) == \A i \in DOMAIN s : s[i].c <= Len(cmd)

(* Every number stays in its range, and the writer in its message. *)
TypeOK ==
  /\ ipc \in {"login", "asked", "full"} /\ tpc \in {"login", "read", "open"}
  /\ logins \in 0 .. MaxLogins
  /\ cmd \in Seq([kind : Kinds, want : Nat, sn : SN]) /\ Len(cmd) <= MaxCmds
  /\ {cmdSN, mayTo, expStatSN, expSN, maxSN, wexp, statSN} \subseteq SN
  /\ {declared, limit} \subseteq Limits \cup {DefaultLimit}
  /\ data \in [Cmds -> Seq(Segments)]
  /\ status \in [Cmds -> Results \cup {NoStatus}]
  /\ toTarget \in Seq(Requests) /\ toInitiator \in Seq(Replies)
  /\ tasks \subseteq 1 .. Len(cmd) /\ chan \in Seq(Messages)
  /\ wpc \in {"recv", "exp", "max"} /\ wmsg \in Messages \cup {NoMsg}
  /\ wpc = "recv" <=> wmsg = NoMsg
  /\ tpc = "open" => toTarget # << >> /\ Head(toTarget).type = "command"
  /\ Named(toTarget) /\ Named(toInitiator) /\ Named(chan)
  /\ wmsg # NoMsg => wmsg.c <= Len(cmd)
  /\ woff \in Nat /\ wdata \in Nat
  /\ wmsg.type = "data" => woff <= wmsg.len

Wire == 1 .. Len(toInitiator)
Statuses(i) == {j \in 1 .. i - 1 : toInitiator[j].type \in {"login", "status"}}

(* The StatSNs the initiator receives count its responses, from the first  *)
(* login response on and across the end of the login, whichever tasks      *)
(* answered and however their data were cut; an R2T carries the next one.  *)
StatusCounted ==
  \A i \in Wire : toInitiator[i].type # "data" =>
    toInitiator[i].stat = (expStatSN + Cardinality(Statuses(i))) % Wrap

Quiet ==
  /\ toTarget = << >> /\ toInitiator = << >> /\ tasks = {} /\ chan = << >>
  /\ tpc = "read" /\ wpc = "recv"

(* The window never moves back, from what the initiator goes by and from   *)
(* PDU to PDU, although the two numbers are stored and loaded one by one   *)
(* by two tasks, immediate commands are counted and CmdSN Wrap - 1 is not; *)
(* nor does a PDU carry a MaxCmdSN before ExpCmdSN - 1, which an initiator *)
(* ignores.  And it never closes for good, whatever CmdSN and wrap came    *)
(* by: whenever all is answered the initiator may send.                    *)
WindowAdvances ==
  /\ \A i \in Wire :
       /\ Behind(mayTo, toInitiator[i].max)
       /\ \A j \in 1 .. i - 1 : Behind(toInitiator[j].exp, toInitiator[i].exp)
                                /\ Behind(toInitiator[j].max, toInitiator[i].max)
       /\ Behind((toInitiator[i].exp - 1) % Wrap, toInitiator[i].max)
  /\ Quiet /\ ipc = "full" => Behind(cmdSN, mayTo)

EndOf(s) == IF s = << >> THEN 0 ELSE s[Len(s)].off + s[Len(s)].len

Answered(c) == status[c].type = "status"

(* A command whose status arrived has its data whole: segments in order,   *)
(* each where the one before it ended and no longer than the initiator     *)
(* last declared, F on the last alone, as many, with its R2T, as ExpDataSN *)
(* says; and the residual count is what is missing of what it asked for.   *)
AnswersWhole ==
  \A c \in 1 .. Len(cmd) : Answered(c) =>
    LET s == data[c] IN
    /\ EndOf(s) = IF HasData(cmd[c]) THEN Yield(cmd[c]) ELSE 0
    /\ \A i \in 1 .. Len(s) :
         /\ s[i].sn = i - 1 /\ s[i].off = EndOf(SubSeq(s, 1, i - 1))
         /\ s[i].len \in 1 .. declared
         /\ s[i].final <=> i = Len(s)
    /\ status[c].expDataSN = Len(s) + (IF Incomplete(cmd[c]) THEN 1 ELSE 0)
    /\ cmd[c].kind \in {"read", "inquiry", "test"} =>
         EndOf(s) + status[c].residual = cmd[c].want

(* Once all is quiet every command has been answered, but for those whose  *)
(* data have no length.                                                    *)
AllAnswered ==
  Quiet => \A c \in 1 .. Len(cmd) :
             Answered(c) \/ (HasData(cmd[c]) /\ Yield(cmd[c]) = 0)
=============================================================================
