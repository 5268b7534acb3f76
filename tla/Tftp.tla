--------------------------------- MODULE Tftp ---------------------------------
(***************************************************************************)
(* The boot-file transfer of netboot/tftp.rs: read requests arrive on port *)
(* 69, each starts a transfer of its own on a fresh port, which sends an   *)
(* option acknowledgement (if options were asked) and then one block at a  *)
(* time, waiting for the acknowledgement of each.                          *)
(*                                                                         *)
(* The boot client is external (RFC 1350): it repeats its request while    *)
(* nothing answers, keeps to the first transfer that does, acknowledges    *)
(* what it expects and once more what it already has.  UDP loses,          *)
(* duplicates and reorders; a timer may fire while the answer is under     *)
(* way.  Each of these costs one of MaxFaults.  Block 0 stands for the     *)
(* option acknowledgement.                                                 *)
(***************************************************************************)
EXTENDS Integers, Sequences, SequencesExt

CONSTANTS
  NumBlocks,   (* Blocks of the file; the last one is short.               *)
  Wrap,        (* Block numbers are u16: 65536 in the code.                *)
  MaxRetries,  (* Timeouts of one block before the transfer fails (3).     *)
  MaxAsks,     (* Bound: requests the client sends.                        *)
  MaxFaults,   (* Bound: faults of the network and of the timers.          *)
  MaxVersions  (* Bound: versions of the file an administrator installs.   *)

ASSUME TftpAssumption ==
  /\ NumBlocks \in Nat \ {0} /\ Wrap \in Nat \ {0, 1} /\ MaxRetries \in Nat \ {0}
  /\ MaxAsks \in Nat \ {0} /\ MaxFaults \in Nat /\ MaxVersions \in Nat

Transfers == 1 .. MaxAsks
Blocks    == 0 .. NumBlocks
Versions  == 0 .. MaxVersions

VARIABLES
  file,        (* The version in the boot directory; 0: there is none.     *)
  options,     (* Whether the client asks for blksize or tsize.            *)
  phase,       (* Client: "asking", "receiving", "done", "refused",        *)
               (* "gaveUp".                                                *)
  tid,         (* Client: the transfer it keeps to, 0 for none.            *)
  got,         (* Client: the blocks it took, in order.                    *)
  asks,        (* Client: requests sent.                                   *)
  requests,    (* Requests under way to port 69.                           *)
  xfer,        (* Each transfer's place, block, retries and file content.  *)
  toClient, toServer,   (* Packets under way, by transfer.                 *)
  faults

clientVars == <<phase, tid, got, asks>>
netVars    == <<toClient, toServer>>
vars == <<file, options, clientVars, requests, xfer, netVars, faults>>

Num(b) == b % Wrap
Idle == [pc |-> "none", block |-> 0, retries |-> 0, version |-> 0]

Init ==
  /\ file \in {0, 1} \cap Versions /\ options \in BOOLEAN
  /\ phase = "asking" /\ tid = 0 /\ got = << >> /\ asks = 0 /\ requests = 0
  /\ xfer = [t \in Transfers |-> Idle]
  /\ toClient = [t \in Transfers |-> << >>] /\ toServer = [t \in Transfers |-> << >>]
  /\ faults = 0

Fault == faults < MaxFaults /\ faults' = faults + 1
Send(chan, t, p) == [chan EXCEPT ![t] = Append(@, p)]
Rest(chan, t) == [chan EXCEPT ![t] = Tail(@)]

(* Something that belongs to transfer t is still under way. *)
InFlight(t) == toClient[t] # << >> \/ toServer[t] # << >>

-----------------------------------------------------------------------------
(* The server *)

(* A definition named Mut... is a variant of the one after it with a       *)
(* plausible bug; the specification never uses it.                         *)
MutPacket(b, v) == IF b = 0 THEN [kind |-> "oack", num |-> 0, data |-> <<0, v>>]
                   ELSE [kind |-> "data", num |-> Num(b), data |-> <<b, file>>]  \* file read block by block

Packet(b, v) == IF b = 0 THEN [kind |-> "oack", num |-> 0, data |-> <<0, v>>]
                ELSE [kind |-> "data", num |-> Num(b), data |-> <<b, v>>]
Refusal == [kind |-> "error", num |-> 0, data |-> <<0, 0>>]

Waiting(t) == xfer[t].pc = "wait"

(* The port-69 loop hands a request to a task of its own.  Without the file*)
(* an error goes out from a fresh port; with it the whole content is read  *)
(* and the first packet sent.  (A port that cannot be bound sends nothing: *)
(* to the client that is a lost request.)                                  *)
HandleRequest ==
  LET t == CHOOSE u \in Transfers : xfer[u].pc = "none" /\ (u = 1 \/ xfer[u - 1].pc # "none")
      b == IF options THEN 0 ELSE 1 IN
  /\ requests > 0
  /\ requests' = requests - 1
  /\ IF file = 0
     THEN /\ xfer' = [xfer EXCEPT ![t].pc = "refused"]
          /\ toClient' = Send(toClient, t, Refusal)
     ELSE /\ xfer' = [xfer EXCEPT ![t] = [pc |-> "wait", block |-> b, retries |-> 0,
                                          version |-> file]]
          /\ toClient' = Send(toClient, t, Packet(b, file))
  /\ UNCHANGED <<file, options, clientVars, toServer, faults>>

(* The wait after a block is over with its acknowledgement: the next block *)
(* goes out with its retries anew, and after the short one it is done.     *)
Acknowledged(t) ==
  LET x == xfer[t] IN
  IF x.block = NumBlocks
  THEN /\ xfer' = [xfer EXCEPT ![t].pc = "done"]
       /\ UNCHANGED toClient
  ELSE /\ xfer' = [xfer EXCEPT ![t].block = @ + 1, ![t].retries = 0]
       /\ toClient' = Send(toClient, t, Packet(x.block + 1, x.version))

Again(t) == toClient' = Send(toClient, t, Packet(xfer[t].block, xfer[t].version))

MutCountRetry(t) ==
  IF xfer[t].retries + 1 <= MaxRetries             \* one retry too many
  THEN /\ xfer' = [xfer EXCEPT ![t].retries = @ + 1]
       /\ Again(t)
  ELSE /\ xfer' = [xfer EXCEPT ![t].pc = "failed"]
       /\ UNCHANGED toClient

MutCountRetryNever(t) == Again(t) /\ UNCHANGED xfer  \* retries never counted

(* Two seconds without a packet: the block is sent again, until the retries *)
(* are used up.                                                            *)
CountRetry(t) ==
  IF xfer[t].retries + 1 < MaxRetries
  THEN /\ xfer' = [xfer EXCEPT ![t].retries = @ + 1]
       /\ Again(t)
  ELSE /\ xfer' = [xfer EXCEPT ![t].pc = "failed"]
       /\ UNCHANGED toClient

MutMatches(t, p) == p.kind = "ack"                 \* its number not compared

Matches(t, p) == p.kind = "ack" /\ p.num = Num(xfer[t].block)

MutReceive(t) ==
  LET p == Head(toServer[t]) IN
  /\ Waiting(t) /\ toServer[t] # << >>
  /\ toServer' = Rest(toServer, t)
  /\ \/ Matches(t, p) /\ Acknowledged(t)
     \/ /\ ~Matches(t, p)                           \* another block's taken for an error
        /\ xfer' = [xfer EXCEPT ![t].pc = "failed"]
        /\ UNCHANGED toClient
  /\ UNCHANGED <<file, options, clientVars, requests, faults>>

(* A packet arrives: the awaited acknowledgement, an error, which ends the *)
(* transfer, or anything else, on which the block is sent once more and no *)
(* retry is counted.                                                       *)
Receive(t) ==
  LET p == Head(toServer[t]) IN
  /\ Waiting(t) /\ toServer[t] # << >>
  /\ toServer' = Rest(toServer, t)
  /\ \/ Matches(t, p) /\ Acknowledged(t)
     \/ /\ p.kind = "error"
        /\ xfer' = [xfer EXCEPT ![t].pc = "failed"]
        /\ UNCHANGED toClient
     \/ /\ ~Matches(t, p) /\ p.kind # "error"
        /\ Again(t) /\ UNCHANGED xfer
  /\ UNCHANGED <<file, options, clientVars, requests, faults>>

Timeout(t) ==
  /\ Waiting(t) /\ ~InFlight(t)
  /\ CountRetry(t)
  /\ UNCHANGED <<file, options, clientVars, requests, toServer, faults>>

TimeoutEarly(t) ==
  /\ Waiting(t) /\ InFlight(t) /\ Fault
  /\ CountRetry(t)
  /\ UNCHANGED <<file, options, clientVars, requests, toServer>>

(* An error of the receiving socket: the block is sent once more and no    *)
(* retry is counted.                                                       *)
SocketError(t) ==
  /\ Waiting(t) /\ Fault
  /\ Again(t)
  /\ UNCHANGED <<file, options, clientVars, requests, xfer, toServer>>

(* A send that fails ends the transfer: the packet just written is gone.   *)
SendFails(t) ==
  /\ Waiting(t) /\ toClient[t] # << >> /\ Fault
  /\ Last(toClient[t]) = Packet(xfer[t].block, xfer[t].version)
  /\ toClient' = [toClient EXCEPT ![t] = Front(@)]
  /\ xfer' = [xfer EXCEPT ![t].pc = "sendFailed"]
  /\ UNCHANGED <<file, options, clientVars, requests, toServer>>

(* Nobody reads the port of a transfer that has ended. *)
Unread(t) ==
  /\ ~Waiting(t) /\ toServer[t] # << >>
  /\ toServer' = Rest(toServer, t)
  /\ UNCHANGED <<file, options, clientVars, requests, xfer, toClient, faults>>

-----------------------------------------------------------------------------
(* The boot client and the administrator (external) *)

(* Auxiliary: block, which block it is that num stands for. *)
Ack(b) == [kind |-> "ack", num |-> Num(b), block |-> b]
ErrorPacket == [kind |-> "error", num |-> 0, block |-> 0]

(* The request, and its repetitions once nothing is under way. *)
Ask ==
  /\ phase = "asking" /\ asks < MaxAsks
  /\ requests = 0 /\ \A t \in Transfers : ~InFlight(t)
  /\ asks' = asks + 1 /\ requests' = requests + 1
  /\ UNCHANGED <<file, options, phase, tid, got, xfer, netVars, faults>>

AskEarly ==
  /\ phase = "asking" /\ asks < MaxAsks
  /\ requests > 0 \/ \E t \in Transfers : InFlight(t)
  /\ Fault
  /\ asks' = asks + 1 /\ requests' = requests + 1
  /\ UNCHANGED <<file, options, phase, tid, got, xfer, netVars>>

(* What the client answers to packet p of transfer t. *)
ClientTakes(t, p) ==
  LET expected == Len(got) + 1 IN
  \/ /\ p.kind = "oack" /\ got = << >>
     /\ toServer' = Send(toServer, t, Ack(0))
     /\ UNCHANGED <<phase, got>>
  \/ /\ p.kind = "data" /\ phase # "done" /\ p.num = Num(expected)
     /\ got' = Append(got, p.data)
     /\ phase' = IF expected = NumBlocks THEN "done" ELSE "receiving"
     /\ toServer' = Send(toServer, t, Ack(expected))
  \/ /\ p.kind = "data" /\ got # << >> /\ p.num = Num(Len(got))
     /\ toServer' = Send(toServer, t, Ack(Len(got)))
     /\ UNCHANGED <<phase, got>>
  \/ /\ \/ p.kind = "oack" /\ got # << >>
        \/ p.kind = "data" /\ p.num \notin {Num(expected), Num(Len(got))}
     /\ UNCHANGED <<phase, got, toServer>>

(* A packet reaches the client: the first answer binds it to a transfer,   *)
(* packets of another one are answered with an error.                      *)
ClientReceive(t) ==
  LET p == Head(toClient[t]) IN
  /\ toClient[t] # << >>
  /\ toClient' = Rest(toClient, t)
  /\ \/ /\ phase = "asking" /\ p.kind = "error"
        /\ phase' = "refused" /\ UNCHANGED <<tid, got, toServer>>
     \/ /\ phase = "asking" /\ p.kind = "oack"
        /\ tid' = t /\ phase' = "receiving"
        /\ toServer' = Send(toServer, t, Ack(0)) /\ UNCHANGED got
     \/ /\ phase = "asking" /\ p.kind = "data" /\ p.num = Num(1)
        /\ tid' = t /\ got' = <<p.data>>
        /\ phase' = IF NumBlocks = 1 THEN "done" ELSE "receiving"
        /\ toServer' = Send(toServer, t, Ack(1))
     \/ /\ phase \in {"receiving", "done"} /\ t = tid
        /\ ClientTakes(t, p) /\ UNCHANGED tid
     \/ /\ phase \in {"receiving", "done"} /\ t # tid /\ p.kind # "error"
        /\ toServer' = Send(toServer, t, ErrorPacket) /\ UNCHANGED <<phase, tid, got>>
     \/ /\ \/ phase \in {"done", "refused", "gaveUp"}
           \/ phase = "receiving" /\ p.kind = "error"
        /\ UNCHANGED <<phase, tid, got, toServer>>
  /\ UNCHANGED <<file, options, asks, requests, xfer, faults>>

GiveUp ==
  /\ phase \in {"asking", "receiving"}
  /\ phase' = "gaveUp"
  /\ UNCHANGED <<file, options, tid, got, asks, requests, xfer, netVars, faults>>

(* The administrator installs another version of the file. *)
Install ==
  /\ file < MaxVersions
  /\ file' = file + 1
  /\ UNCHANGED <<options, clientVars, requests, xfer, netVars, faults>>

-----------------------------------------------------------------------------
(* The network (external) *)

(* A lost request; the client's last one stands for those it would repeat  *)
(* until one gets through.                                                 *)
LoseRequest ==
  /\ requests > 0 /\ asks < MaxAsks /\ Fault
  /\ requests' = requests - 1
  /\ UNCHANGED <<file, options, clientVars, xfer, netVars>>

(* What may happen to the packets under way in one direction. *)
Disturbed(s) ==
  {RemoveAt(s, i) : i \in DOMAIN s} \cup {InsertAt(s, i, s[i]) : i \in DOMAIN s}
  \cup {ReplaceAt(ReplaceAt(s, i, s[i + 1]), i + 1, s[i]) : i \in 1 .. Len(s) - 1}

DisturbData(t) ==
  /\ Fault
  /\ \E r \in Disturbed(toClient[t]) : toClient' = [toClient EXCEPT ![t] = r]
  /\ UNCHANGED <<file, options, clientVars, requests, xfer, toServer>>

DisturbAcks(t) ==
  /\ Fault
  /\ \E r \in Disturbed(toServer[t]) : toServer' = [toServer EXCEPT ![t] = r]
  /\ UNCHANGED <<file, options, clientVars, requests, xfer, toClient>>

-----------------------------------------------------------------------------
Next ==
  \/ HandleRequest \/ Ask \/ AskEarly \/ GiveUp \/ Install \/ LoseRequest
  \/ \E t \in Transfers :
       \/ Receive(t) \/ Timeout(t) \/ TimeoutEarly(t) \/ SocketError(t)
       \/ SendFails(t) \/ Unread(t) \/ ClientReceive(t)
       \/ DisturbData(t) \/ DisturbAcks(t)

Spec == Init /\ [][Next]_vars

(* The runtime runs the server's tasks and their timers, the client's      *)
(* firmware answers and repeats its request, and a packet that is not lost *)
(* arrives.                                                                *)
Fairness ==
  /\ WF_vars(HandleRequest) /\ WF_vars(Ask)
  /\ \A t \in Transfers :
       WF_vars(Receive(t)) /\ WF_vars(Timeout(t)) /\ WF_vars(Unread(t))
         /\ WF_vars(ClientReceive(t))

FairSpec == Spec /\ Fairness

-----------------------------------------------------------------------------
(* Properties *)

TypeOK ==
  /\ file \in Versions /\ options \in BOOLEAN
  /\ phase \in {"asking", "receiving", "done", "refused", "gaveUp"}
  /\ tid \in 0 .. MaxAsks /\ got \in Seq(Blocks \X Versions)
  /\ asks \in 0 .. MaxAsks /\ requests \in 0 .. MaxAsks
  /\ xfer \in [Transfers -> [pc : {"none", "wait", "done", "failed", "refused", "sendFailed"},
                             block : Blocks, retries : 0 .. MaxRetries - 1,
                             version : Versions]]
  /\ \A t \in Transfers :
       /\ \A i \in DOMAIN toClient[t] :
            toClient[t][i] \in [kind : {"oack", "data", "error"}, num : 0 .. Wrap - 1,
                                data : Blocks \X Versions]
       /\ \A i \in DOMAIN toServer[t] :
            toServer[t][i] \in [kind : {"ack", "error"}, num : 0 .. Wrap - 1, block : Blocks]
  /\ faults \in 0 .. MaxFaults

(* What the client took is the beginning of one version of the file, block *)
(* by block, whatever was repeated, lost, reordered or answered by a second*)
(* transfer, and across the wrap of the block number.                      *)
ReceivedIsPrefix ==
  /\ Len(got) <= NumBlocks
  /\ \A i \in DOMAIN got : got[i] = <<i, xfer[tid].version>>

(* A transfer reported complete has delivered the whole file. *)
DoneDelivered ==
  \A t \in Transfers : xfer[t].pc = "done" => tid = t /\ Len(got) = NumBlocks

(* No transfer waits for ever: its client may vanish at any moment, and    *)
(* packets that match nothing do not count as retries.                     *)
TransferEnds == \A t \in Transfers : Waiting(t) ~> ~Waiting(t)

(* Fewer than MaxRetries faults, of any kind and at any place, never cost a*)
(* patient client a boot file that is there: only timeouts are counted as  *)
(* retries, and anew for each block.                                       *)
SurvivesFaults ==
  <>(\/ phase \in {"done", "gaveUp"} \/ faults >= MaxRetries
     \/ \E t \in Transfers : xfer[t].pc \in {"sendFailed", "refused"})
=============================================================================
