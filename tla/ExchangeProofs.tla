--------------------------- MODULE ExchangeProofs ---------------------------
(***************************************************************************)
(* Proofs about Exchange, for every value of its constants: its state      *)
(* stays well typed, no command is lost on its way from the initiator,     *)
(* through the reader loop, the tasks, the channel and the writer task,    *)
(* back to it, the StatSNs the initiator receives count its responses, a   *)
(* command that is answered has its data whole and its counts right, and   *)
(* the command window moves forward and does not close for good.           *)
(***************************************************************************)
EXTENDS Exchange, FiniteSetTheorems, TLAPS

LEMMA AppendAt ==
  ASSUME NEW S, NEW q \in Seq(S), NEW x \in S
  PROVE  /\ Append(q, x) \in Seq(S)
         /\ Len(Append(q, x)) = Len(q) + 1
         /\ DOMAIN Append(q, x) = 1 .. Len(q) + 1
         /\ DOMAIN q = 1 .. Len(q) /\ Len(q) \in Nat
         /\ \A i \in DOMAIN q : i \in DOMAIN Append(q, x) /\ Append(q, x)[i] = q[i]
         /\ Append(q, x)[Len(q) + 1] = x
         /\ Append(q, x) # << >>
  OBVIOUS

LEMMA TailAt ==
  ASSUME NEW S, NEW q \in Seq(S), q # << >>
  PROVE  /\ Tail(q) \in Seq(S)
         /\ Head(q) \in S /\ Head(q) = q[1] /\ 1 \in DOMAIN q
         /\ \A i \in DOMAIN q : i # 1 => i - 1 \in DOMAIN Tail(q) /\ Tail(q)[i - 1] = q[i]
         /\ \A i \in DOMAIN Tail(q) : i + 1 \in DOMAIN q /\ Tail(q)[i] = q[i + 1]
  OBVIOUS

(* What a queue says of a command survives an append, and the taking of    *)
(* its head if that does not say it.                                       *)
LEMMA HeadStays ==
  ASSUME NEW S, NEW q \in Seq(S), NEW x \in S, q # << >>
  PROVE  Append(q, x) # << >> /\ Head(Append(q, x)) = Head(q)
  <1>1. 1 \in DOMAIN q /\ Head(q) = q[1] /\ Append(q, x) \in Seq(S) /\ Append(q, x) # << >>
    BY AppendAt, TailAt
  <1>2. Head(Append(q, x)) = Append(q, x)[1] /\ Append(q, x)[1] = q[1]
    BY <1>1, AppendAt, TailAt
  <1> QED BY <1>1, <1>2

LEMMA KeptByAppend ==
  ASSUME NEW S, NEW q \in Seq(S), NEW x \in S, NEW T \in SUBSET S,
         \E i \in DOMAIN q : q[i] \in T
  PROVE  \E i \in DOMAIN Append(q, x) : Append(q, x)[i] \in T
  BY AppendAt

LEMMA PutByAppend ==
  ASSUME NEW S, NEW q \in Seq(S), NEW x \in S, NEW T \in SUBSET S, x \in T
  PROVE  \E i \in DOMAIN Append(q, x) : Append(q, x)[i] \in T
  <1>1. Len(q) + 1 \in DOMAIN Append(q, x) /\ Append(q, x)[Len(q) + 1] = x
    BY AppendAt
  <1> QED BY <1>1

LEMMA KeptByTail ==
  ASSUME NEW S, NEW q \in Seq(S), q # << >>, NEW T \in SUBSET S,
         \E i \in DOMAIN q : q[i] \in T, Head(q) \notin T
  PROVE  \E i \in DOMAIN Tail(q) : Tail(q)[i] \in T
  <1>1. PICK i \in DOMAIN q : q[i] \in T
    OBVIOUS
  <1>2. i # 1
    BY <1>1, TailAt
  <1> QED BY <1>1, <1>2, TailAt

LEMMA WrapType ==
  ASSUME NEW n \in Int
  PROVE  n % Wrap \in SN
  BY ExchangeAssumption DEF SN

LEMMA AfterType ==
  ASSUME NEW n \in SN
  PROVE  n \in Nat /\ After(n) \in SN
  <1>1. n \in Nat /\ n + 1 \in Int
    BY ExchangeAssumption DEF SN
  <1> QED BY <1>1, WrapType DEF After

(* What the type of a PDU or message says of its fields. *)
LEMMA RequestIs ==
  ASSUME NEW p \in Requests
  PROVE  /\ p.type = "login" => /\ p.c = 0 /\ p.sn \in SN /\ p.declares \in BOOLEAN
                                /\ p.limit \in Limits /\ p.last \in BOOLEAN
         /\ p.type # "login" => p.type \in {"command", "dataOut"} /\ p.c \in Cmds
  BY DEF Requests

LEMMA MessageIs ==
  ASSUME NEW m \in Messages
  PROVE  /\ m.type \in {"data", "status", "r2t"} /\ m.c \in Cmds /\ m # NoMsg
         /\ m.type = "data" => m.len \in Nat /\ m.want \in Nat
         /\ m.type = "status" => m.want \in Nat /\ m.outs \in Nat
  BY DEF Messages, NoMsg

LEMMA ReplyIs ==
  ASSUME NEW p \in Replies
  PROVE  /\ p.type \in {"login", "r2t", "data", "status"} /\ p.exp \in SN /\ p.max \in SN
         /\ p.type = "login" => p.c = 0 /\ p.stat \in SN /\ p.last \in BOOLEAN
         /\ p.type # "login" => p.c \in Cmds
         /\ p.type = "data" => p \in Segments
         /\ p.type = "status" => p \in Results /\ p.stat \in SN
  BY DEF Replies, Segments, Results

LEMMA CommandIs ==
  ASSUME TypeOK, NEW c \in 1 .. Len(cmd)
  PROVE  /\ c \in Cmds /\ cmd[c].kind \in Kinds /\ cmd[c].want \in Nat /\ cmd[c].sn \in SN
         /\ HasData(cmd[c]) => Yield(cmd[c]) \in Nat
  <1> DEFINE X == [kind : Kinds, want : Nat, sn : SN]
  <1>1. c \in Cmds /\ cmd[c] \in X
    <2>1. cmd \in Seq(X) /\ Len(cmd) <= MaxCmds
      BY DEF TypeOK
    <2> HIDE DEF X
    <2>2. cmd[c] \in X /\ Len(cmd) \in Nat
      BY <2>1
    <2>3. c \in Cmds
      BY <2>1, <2>2, ExchangeAssumption DEF Cmds
    <2> QED BY <2>2, <2>3
  <1>2. HasData(cmd[c]) => Yield(cmd[c]) \in Nat
    BY <1>1, ExchangeAssumption DEF HasData, Yield, Least
  <1> QED BY <1>1, <1>2

LEMMA InitTypes == Init => TypeOK
  <1> SUFFICES ASSUME Init PROVE TypeOK
    OBVIOUS
  <1>1. 0 \in SN /\ 1 \in SN /\ (2 * Window) % Wrap \in SN /\ cmdSN \in SN
    <2>1. 2 * Window \in Int /\ Wrap \in Nat /\ Wrap > 1
      BY ExchangeAssumption
    <2>2. (2 * Window) % Wrap \in SN
      BY <2>1, WrapType
    <2> QED BY <2>1, <2>2, ExchangeAssumption DEF SN, Init
  <1> QED BY <1>1, ExchangeAssumption DEF Init, TypeOK, Named, NoMsg, NoStatus

(* A queue names commands that were sent; so it does with one more. *)
LEMMA NamedAppend ==
  ASSUME NEW S, NEW q \in Seq(S), NEW x \in S, Named(q), x.c <= Len(cmd)
  PROVE  Named(Append(q, x))
  BY AppendAt DEF Named

LEMMA NamedTail ==
  ASSUME NEW S, NEW q \in Seq(S), q # << >>, Named(q)
  PROVE  Named(Tail(q)) /\ Head(q).c <= Len(cmd)
  BY TailAt DEF Named

LEMMA LoginTypes ==
  ASSUME TypeOK, NEW declares \in BOOLEAN, NEW l \in Limits, NEW last \in BOOLEAN,
         SendLogin(declares, l, last)
  PROVE  TypeOK'
  <1> DEFINE p == [type |-> "login", c |-> 0, sn |-> cmdSN, declares |-> declares,
                   limit |-> l, last |-> last]
  <1>1. p \in Requests
    BY DEF TypeOK, Requests
  <1>2. toTarget' = Append(toTarget, p) /\ toTarget \in Seq(Requests) /\ cmd' = cmd
    BY DEF SendLogin, TypeOK
  <1>3. toTarget' \in Seq(Requests) /\ Named(toTarget')
    BY <1>1, <1>2, AppendAt, NamedAppend DEF TypeOK
  <1>4. tpc = "open" => toTarget' # << >> /\ Head(toTarget') = Head(toTarget)
    BY <1>1, <1>2, HeadStays DEF TypeOK
  <1> QED BY <1>2, <1>3, <1>4, ExchangeAssumption
          DEF SendLogin, TypeOK, readerVars, writerVars, Named

LEMMA CommandTypes ==
  ASSUME TypeOK, NEW x \in Menu, SendCommand(x)
  PROVE  TypeOK'
  <1> DEFINE n == Len(cmd) + 1
             p == [type |-> "command", c |-> n]
  <1>1. n \in Cmds /\ p \in Requests /\ cmd \in Seq([kind : Kinds, want : Nat, sn : SN])
    BY DEF SendCommand, Requests, TypeOK
  <1>2. [kind |-> x.kind, want |-> x.want, sn |-> cmdSN] \in [kind : Kinds, want : Nat, sn : SN]
    BY ExchangeAssumption DEF TypeOK, Kinds
  <1>3. /\ cmd' \in Seq([kind : Kinds, want : Nat, sn : SN]) /\ Len(cmd') = Len(cmd) + 1
        /\ Len(cmd) \in Nat
    BY <1>1, <1>2, AppendAt DEF SendCommand
  <1>4. cmdSN' \in SN
    BY AfterType DEF SendCommand, TypeOK
  <1>5. toTarget' = Append(toTarget, p) /\ toTarget \in Seq(Requests)
    BY DEF SendCommand, TypeOK
  <1>6. toTarget' \in Seq(Requests) /\ Named(toTarget)' /\ Named(toInitiator)' /\ Named(chan)'
    <2>1. /\ \A i \in DOMAIN toTarget : toTarget[i].c \in Int
          /\ \A i \in DOMAIN toInitiator : toInitiator[i].c \in Int
          /\ \A i \in DOMAIN chan : chan[i].c \in Int
      <3>1. /\ \A i \in DOMAIN toTarget : toTarget[i] \in Requests
            /\ \A i \in DOMAIN toInitiator : toInitiator[i] \in Replies
            /\ \A i \in DOMAIN chan : chan[i] \in Messages
        BY DEF TypeOK
      <3>2. \A q \in Requests : q.c \in Int
        BY RequestIs DEF Cmds
      <3>3. \A q \in Replies : q.c \in Int
        BY ReplyIs DEF Cmds
      <3>4. \A q \in Messages : q.c \in Int
        BY MessageIs DEF Cmds
      <3> QED BY <3>1, <3>2, <3>3, <3>4
    <2>2. /\ toInitiator' = toInitiator /\ chan' = chan
          /\ Named(toTarget) /\ Named(toInitiator) /\ Named(chan)
      BY DEF SendCommand, TypeOK
    <2>3. toTarget' \in Seq(Requests) /\ Named(toInitiator)' /\ Named(chan)'
      BY <1>1, <1>3, <1>5, <2>1, <2>2, AppendAt DEF Named
    <2>4. \A i \in DOMAIN toTarget' : toTarget'[i].c <= Len(cmd')
      BY <1>1, <1>3, <1>5, <2>1, <2>2, AppendAt DEF Named
    <2> QED BY <2>3, <2>4 DEF Named
  <1>7. tpc = "open" => toTarget' # << >> /\ Head(toTarget') = Head(toTarget)
    BY <1>1, <1>5, HeadStays DEF TypeOK
  <1>8. wmsg # NoMsg => wmsg.c <= Len(cmd')
    BY <1>3, MessageIs DEF TypeOK, Cmds
  <1>9. Len(cmd') <= MaxCmds /\ tasks \subseteq 1 .. Len(cmd')
    BY <1>1, <1>3 DEF TypeOK, Cmds
  <1> QED BY <1>3, <1>4, <1>6, <1>7, <1>8, <1>9
          DEF SendCommand, TypeOK, readerVars, writerVars

LEMMA ReceiveTypes ==
  ASSUME TypeOK, Receive
  PROVE  TypeOK'
  <1> DEFINE p == Head(toInitiator)
             d == [type |-> "dataOut", c |-> p.c]
  <1>1. toInitiator \in Seq(Replies) /\ toInitiator # << >> /\ Named(toInitiator) /\ cmd' = cmd
    BY DEF TypeOK, Receive
  <1>2. p \in Replies /\ p.c <= Len(cmd) /\ toInitiator' \in Seq(Replies) /\ Named(toInitiator)'
    BY <1>1, TailAt, NamedTail DEF Receive, Named
  <1> HIDE DEF p
  <1>3. mayTo' \in SN /\ expStatSN' \in SN
    <2>1. mayTo \in SN /\ expStatSN \in SN
      BY DEF TypeOK
    <2> QED BY <1>2, <2>1, ReplyIs, AfterType DEF Receive, p
  <1>4. ipc' \in {"login", "asked", "full"}
    BY <1>2 DEF Receive, TypeOK, p
  <1>5. data' \in [Cmds -> Seq(Segments)]
    <2>1. CASE p.type = "data"
      <3>1. p \in Segments /\ p.c \in Cmds /\ data' = [data EXCEPT ![p.c] = Append(@, p)]
        BY <1>2, <2>1, ReplyIs DEF Receive, p
      <3>2. data[p.c] \in Seq(Segments)
        BY <3>1 DEF TypeOK
      <3>3. Append(data[p.c], p) \in Seq(Segments)
        BY <3>1, <3>2, AppendAt
      <3> QED BY <3>1, <3>3 DEF TypeOK
    <2>2. CASE p.type # "data"
      BY <2>2 DEF Receive, TypeOK, p
    <2> QED BY <2>1, <2>2
  <1>6. status' \in [Cmds -> Results \cup {NoStatus}]
    <2>1. CASE p.type = "status"
      BY <1>2, <2>1, ReplyIs DEF Receive, TypeOK, p
    <2>2. CASE p.type # "status"
      BY <2>2 DEF Receive, TypeOK, p
    <2> QED BY <2>1, <2>2
  <1>7. /\ toTarget' \in Seq(Requests) /\ Named(toTarget)'
        /\ tpc = "open" => toTarget' # << >> /\ Head(toTarget') = Head(toTarget)
    <2>1. CASE p.type = "r2t"
      <3>1. d \in Requests /\ d.c <= Len(cmd) /\ toTarget \in Seq(Requests) /\ Named(toTarget)
        BY <1>2, <2>1, ReplyIs DEF TypeOK, Requests
      <3>2. toTarget' = Append(toTarget, d)
        BY <2>1 DEF Receive, p
      <3> QED BY <3>1, <3>2, <1>1, AppendAt, NamedAppend, HeadStays DEF TypeOK, Named
    <2>2. CASE p.type # "r2t"
      BY <2>2, <1>1 DEF Receive, TypeOK, p, Named
    <2> QED BY <2>1, <2>2
  <1> QED BY <1>1, <1>2, <1>3, <1>4, <1>5, <1>6, <1>7
          DEF Receive, TypeOK, readerVars, writerVars, Named

LEMMA PutTypes ==
  ASSUME TypeOK, NEW p \in Replies, Put(p), p.c <= Len(cmd), cmd' = cmd
  PROVE  toInitiator' \in Seq(Replies) /\ Named(toInitiator)'
  <1>1. toInitiator \in Seq(Replies) /\ Named(toInitiator)
    BY DEF TypeOK
  <1> QED BY <1>1, AppendAt, NamedAppend DEF Put, Named

(* A login request is answered with a PDU. *)
LEMMA LoginAnswered ==
  ASSUME TypeOK, Login
  PROVE  /\ \E r \in Replies : /\ Put(r) /\ r.c = 0 /\ r.type = "login" /\ r.stat = statSN
                                /\ r.exp = expSN' /\ r.max = maxSN'
         /\ expSN' \in SN /\ maxSN' \in SN /\ limit' \in Limits \cup {DefaultLimit}
  <1> DEFINE p == Head(toTarget)
             r == [type |-> "login", c |-> 0, last |-> p.last,
                   stat |-> statSN, exp |-> expSN', max |-> maxSN']
  <1>1. toTarget \in Seq(Requests) /\ toTarget # << >>
    BY DEF TypeOK, Login, Next_
  <1>2. p \in Requests /\ p.type = "login"
    BY <1>1, TailAt DEF Login, Next_
  <1> HIDE DEF p
  <1>3. p.sn \in SN /\ p.last \in BOOLEAN /\ p.limit \in Limits
    BY <1>2, RequestIs
  <1>4. expSN' \in SN /\ maxSN' \in SN /\ statSN \in SN
    <2>1. statSN \in SN /\ p.sn \in Nat
      BY <1>3, AfterType DEF TypeOK
    <2>2. p.sn + 1 + Window \in Int
      BY <2>1, ExchangeAssumption
    <2>3. (p.sn + 1 + Window) % Wrap \in SN
      BY <2>2, WrapType
    <2> QED BY <1>3, <2>1, <2>3, AfterType DEF Login, p
  <1>5. limit' \in Limits \cup {DefaultLimit}
    BY <1>3 DEF Login, TypeOK, p
  <1>6. /\ r \in Replies /\ Put(r) /\ r.c = 0 /\ r.type = "login" /\ r.stat = statSN
        /\ r.exp = expSN' /\ r.max = maxSN'
    BY <1>3, <1>4 DEF Login, Replies, Put, p
  <1> HIDE DEF r
  <1> QED BY <1>4, <1>5, <1>6

LEMMA LoginAnswerTypes ==
  ASSUME TypeOK, Login
  PROVE  TypeOK'
  <1>1. toTarget \in Seq(Requests) /\ toTarget # << >> /\ Named(toTarget) /\ cmd' = cmd
    BY DEF TypeOK, Login, Next_, initiatorVars
  <1>2. toTarget' \in Seq(Requests) /\ Named(toTarget)'
    BY <1>1, TailAt, NamedTail DEF Login, Next_, Take, Named
  <1>3. statSN' \in SN
    BY AfterType DEF Login, TypeOK
  <1>4. PICK r \in Replies : Put(r) /\ r.c = 0
    BY LoginAnswered
  <1>5. toInitiator' \in Seq(Replies) /\ Named(toInitiator)'
    <2>1. r.c <= Len(cmd)
      BY <1>4 DEF TypeOK
    <2> QED BY <1>1, <1>4, <2>1, PutTypes
  <1>6. expSN' \in SN /\ maxSN' \in SN /\ limit' \in Limits \cup {DefaultLimit}
    BY LoginAnswered
  <1>7. tpc' \in {"login", "read"}
    BY DEF Login
  <1> QED BY <1>1, <1>2, <1>3, <1>5, <1>6, <1>7
          DEF Login, TypeOK, initiatorVars, Named

(* Handing a command on: it goes to the channel or to a task. *)
LEMMA DispatchTypes ==
  ASSUME TypeOK, NEW c \in 1 .. Len(cmd), Dispatch(c), cmd' = cmd
  PROVE  tasks' \subseteq 1 .. Len(cmd) /\ chan' \in Seq(Messages) /\ Named(chan)'
  <1> DEFINE m == [type |-> "r2t", c |-> c]
  <1>1. chan \in Seq(Messages) /\ Named(chan) /\ tasks \subseteq 1 .. Len(cmd)
    BY DEF TypeOK
  <1>2. m \in Messages /\ m.c <= Len(cmd)
    BY CommandIs DEF Messages, TypeOK
  <1>3. CASE chan' = Append(chan, m) /\ tasks' = tasks
    BY <1>1, <1>2, <1>3, AppendAt, NamedAppend DEF Named
  <1>4. CASE tasks' = tasks \cup {c} /\ chan' = chan
    BY <1>1, <1>4 DEF Named
  <1> QED BY <1>3, <1>4 DEF Dispatch

(* The head of the queue when the reader loop takes it for a command or    *)
(* for data.                                                               *)
LEMMA HeadCommand ==
  ASSUME TypeOK, toTarget # << >>, Head(toTarget).type # "login"
  PROVE  /\ Head(toTarget).c \in 1 .. Len(cmd)
         /\ Tail(toTarget) \in Seq(Requests) /\ Named(Tail(toTarget))
  <1>1. toTarget \in Seq(Requests) /\ Named(toTarget) /\ Len(cmd) \in Nat
    BY DEF TypeOK
  <1>2. Head(toTarget) \in Requests /\ Head(toTarget).c <= Len(cmd)
    BY <1>1, TailAt, NamedTail
  <1>3. Head(toTarget).c \in Cmds
    BY <1>2, RequestIs
  <1> QED BY <1>1, <1>2, <1>3, TailAt, NamedTail DEF Cmds

LEMMA ReadTypes ==
  ASSUME TypeOK, ReadCommand \/ OpenWindow \/ ReadDataOut
  PROVE  TypeOK'
  <1> DEFINE c == Head(toTarget).c
  <1>1. toTarget # << >> /\ Head(toTarget).type # "login" /\ cmd' = cmd
    BY DEF TypeOK, ReadCommand, OpenWindow, ReadDataOut, Next_, initiatorVars
  <1>2. c \in 1 .. Len(cmd) /\ Tail(toTarget) \in Seq(Requests) /\ Named(Tail(toTarget))
    BY <1>1, HeadCommand
  <1>3. cmd[c].sn \in SN
    BY <1>2, CommandIs
  <1> HIDE DEF c
  <1>4. CASE ReadCommand
    <2>1. CASE Counted(cmd[c])
      <3>1. expSN' = After(cmd[c].sn) /\ tpc' = "open" /\ UNCHANGED <<toTarget, tasks, chan>>
        BY <1>4, <2>1 DEF ReadCommand, c
      <3>2. expSN' \in SN
        BY <1>3, <3>1, AfterType
      <3>3. Head(toTarget).type = "command"
        BY <1>4 DEF ReadCommand, Next_
      <3> QED BY <1>1, <1>4, <3>1, <3>2, <3>3
              DEF ReadCommand, TypeOK, initiatorVars, writerVars, Named
    <2>2. CASE ~Counted(cmd[c])
      <3>1. Take /\ Dispatch(c) /\ UNCHANGED <<expSN, tpc>> /\ tpc = "read"
        BY <1>4, <2>2 DEF ReadCommand, c
      <3>2. tasks' \subseteq 1 .. Len(cmd) /\ chan' \in Seq(Messages) /\ Named(chan)'
        BY <1>1, <1>2, <3>1, DispatchTypes
      <3> QED BY <1>1, <1>2, <1>4, <3>1, <3>2
              DEF ReadCommand, TypeOK, initiatorVars, writerVars, Named, Take
    <2> QED BY <2>1, <2>2
  <1>5. CASE OpenWindow
    <2>1. Take /\ Dispatch(c) /\ maxSN' = (cmd[c].sn + 1 + Window) % Wrap
      BY <1>5 DEF OpenWindow, c
    <2>2. cmd[c].sn + 1 + Window \in Int
      BY <1>3, AfterType, ExchangeAssumption
    <2>3. maxSN' \in SN
      BY <2>1, <2>2, WrapType
    <2>4. tasks' \subseteq 1 .. Len(cmd) /\ chan' \in Seq(Messages) /\ Named(chan)'
      BY <1>1, <1>2, <2>1, DispatchTypes
    <2> QED BY <1>1, <1>2, <1>5, <2>1, <2>3, <2>4
            DEF OpenWindow, TypeOK, initiatorVars, writerVars, Named, Take
  <1>6. CASE ReadDataOut
    <2>1. tasks' = tasks \cup {c}
      BY <1>6 DEF ReadDataOut, c
    <2> QED BY <1>1, <1>2, <1>6, <2>1
            DEF ReadDataOut, TypeOK, initiatorVars, readerVars, writerVars, Named, Take
  <1> QED BY <1>4, <1>5, <1>6

LEMMA AnswerTypes ==
  ASSUME TypeOK, NEW c \in Cmds, Answer(c)
  PROVE  TypeOK'
  <1> DEFINE x == cmd[c]
             m == IF HasData(x) THEN [type |-> "data", c |-> c, len |-> Yield(x), want |-> x.want]
                  ELSE [type |-> "status", c |-> c, outs |-> IF Incomplete(x) THEN 1 ELSE 0,
                        want |-> IF x.kind = "test" THEN x.want ELSE 0]
  <1>1. c \in 1 .. Len(cmd) /\ cmd' = cmd /\ tasks' = tasks \ {c} /\ chan' = Append(chan, m)
    BY DEF Answer, TypeOK, initiatorVars
  <1>2. x.want \in Nat /\ (HasData(x) => Yield(x) \in Nat)
    BY <1>1, CommandIs
  <1>3. m \in Messages /\ m.c = c
    BY <1>2 DEF Messages
  <1>4. chan \in Seq(Messages) /\ Named(chan) /\ c <= Len(cmd)
    BY <1>1 DEF TypeOK
  <1> HIDE DEF m
  <1>5. chan' \in Seq(Messages) /\ Named(chan)'
    BY <1>1, <1>3, <1>4, AppendAt, NamedAppend DEF Named
  <1> QED BY <1>1, <1>5
          DEF Answer, TypeOK, initiatorVars, readerVars, writerVars, Named

LEMMA TakeTypes ==
  ASSUME TypeOK, TakeMessage \/ LoadExp
  PROVE  TypeOK'
  <1> DEFINE m == Head(chan)
  <1>1. CASE TakeMessage
    <2>1. chan \in Seq(Messages) /\ chan # << >> /\ Named(chan) /\ cmd' = cmd
      BY <1>1 DEF TypeOK, TakeMessage, initiatorVars
    <2>2. m \in Messages /\ m.c <= Len(cmd) /\ chan' \in Seq(Messages) /\ Named(chan)'
      BY <1>1, <2>1, TailAt, NamedTail DEF TakeMessage, Named
    <2>3. m # NoMsg /\ (m.type = "data" => m.len \in Nat)
      BY <2>2, MessageIs
    <2>4. NoMsg.type = "none"
      BY DEF NoMsg
    <2> HIDE DEF m
    <2>5. \/ UNCHANGED <<wpc, wmsg>>
          \/ wpc' = "exp" /\ wmsg' = m
      BY <1>1 DEF TakeMessage, m
    <2>6. wpc = "recv" /\ wmsg = NoMsg /\ woff' = 0 /\ wdata' = 0
      BY <1>1 DEF TakeMessage, TypeOK
    <2> QED BY <1>1, <2>1, <2>2, <2>3, <2>4, <2>5, <2>6
            DEF TakeMessage, TypeOK, initiatorVars, readerVars, Named
  <1>2. CASE LoadExp
    BY <1>2 DEF LoadExp, TypeOK, initiatorVars, readerVars, Named
  <1> QED BY <1>1, <1>2

(* What the writer puts on the wire. *)
LEMMA SegmentSent ==
  ASSUME TypeOK, PutSegment
  PROVE  /\ \E p \in Replies : /\ Put(p) /\ p.type = "data" /\ p.c <= Len(cmd)
                                /\ p.exp = wexp /\ p.max = maxSN
         /\ woff' \in Nat /\ wdata' \in Nat /\ woff' <= wmsg.len /\ wmsg # NoMsg
  <1> DEFINE n == Least(wmsg.len - woff, limit)
             p == [type |-> "data", c |-> wmsg.c, stat |-> 0, exp |-> wexp, max |-> maxSN,
                   sn |-> wdata, off |-> woff, len |-> n, final |-> woff + n >= wmsg.len]
  <1>1. /\ wmsg \in Messages /\ wmsg.c \in Cmds /\ wmsg.len \in Nat /\ wmsg.c <= Len(cmd)
        /\ wmsg # NoMsg
    <2>1. wmsg \in Messages /\ wmsg.type = "data"
      BY DEF PutSegment, TypeOK, NoMsg
    <2> QED BY <2>1, MessageIs DEF PutSegment, TypeOK
  <1>2. n \in Nat /\ woff + n \in Nat /\ woff + n <= wmsg.len
    <2>1. limit \in Nat /\ woff \in Nat /\ woff < wmsg.len
      BY ExchangeAssumption DEF TypeOK, PutSegment
    <2> QED BY <1>1, <2>1 DEF Least
  <1>3. /\ p \in Replies /\ Put(p) /\ p.type = "data" /\ p.c <= Len(cmd)
        /\ p.exp = wexp /\ p.max = maxSN
    BY <1>1, <1>2 DEF PutSegment, TypeOK, Replies, Segments
  <1>4. woff' = woff + n /\ wdata' = wdata + 1 /\ wdata \in Nat
    BY DEF PutSegment, TypeOK
  <1> HIDE DEF n, p
  <1> QED BY <1>1, <1>2, <1>3, <1>4

LEMMA StatusSent ==
  ASSUME TypeOK, PutStatus
  PROVE  \E p \in Replies : /\ Put(p) /\ p.type = "status" /\ p.stat = statSN
                            /\ p.c = wmsg.c /\ p.c <= Len(cmd)
                            /\ p.exp = wexp /\ p.max = maxSN
  <1> DEFINE l == IF wmsg.type = "data" THEN wmsg.len ELSE 0
             n == IF wmsg.type = "data" THEN wdata ELSE wmsg.outs
             p == [type |-> "status", c |-> wmsg.c, stat |-> statSN, exp |-> wexp, max |-> maxSN,
                   expDataSN |-> n, residual |-> Short(wmsg.want, l)]
  <1>1. wmsg \in Messages /\ wmsg.c \in Cmds /\ wmsg.want \in Nat /\ l \in Nat /\ n \in Nat
    <2>1. wmsg \in Messages /\ wmsg.type \in {"data", "status"} /\ wdata \in Nat
      BY DEF PutStatus, TypeOK, NoMsg
    <2> QED BY <2>1, MessageIs
  <1>2. wmsg.c <= Len(cmd)
    BY <1>1, MessageIs DEF TypeOK
  <1>3. Short(wmsg.want, l) \in Nat
    BY <1>1 DEF Short
  <1>4. /\ p \in Replies /\ Put(p) /\ p.type = "status" /\ p.stat = statSN /\ p.c = wmsg.c
        /\ p.exp = wexp /\ p.max = maxSN
    BY <1>1, <1>3 DEF PutStatus, TypeOK, Replies, Results
  <1> HIDE DEF p
  <1> QED BY <1>2, <1>4

LEMMA R2TSent ==
  ASSUME TypeOK, PutR2T
  PROVE  \E p \in Replies : /\ Put(p) /\ p.type = "r2t" /\ p.stat = statSN
                            /\ p.c = wmsg.c /\ p.c <= Len(cmd)
                            /\ p.exp = wexp /\ p.max = maxSN
  <1> DEFINE p == [type |-> "r2t", c |-> wmsg.c, stat |-> statSN, exp |-> wexp, max |-> maxSN]
  <1>1. wmsg \in Messages /\ wmsg.c \in Cmds
    <2>1. wmsg \in Messages
      BY DEF PutR2T, TypeOK, NoMsg
    <2> QED BY <2>1, MessageIs
  <1>2. wmsg.c <= Len(cmd)
    BY <1>1, MessageIs DEF TypeOK
  <1>3. /\ p \in Replies /\ Put(p) /\ p.type = "r2t" /\ p.stat = statSN /\ p.c = wmsg.c
        /\ p.exp = wexp /\ p.max = maxSN
    BY <1>1 DEF PutR2T, TypeOK, Replies
  <1> HIDE DEF p
  <1> QED BY <1>2, <1>3

LEMMA WriterTypes ==
  ASSUME TypeOK, PutSegment \/ PutStatus \/ PutR2T
  PROVE  TypeOK'
  <1>1. cmd' = cmd /\ UNCHANGED <<initiatorVars, toTarget, readerVars, tasks, chan, wexp>>
    BY DEF PutSegment, PutStatus, PutR2T, initiatorVars
  <1>2. toInitiator' \in Seq(Replies) /\ Named(toInitiator)'
    <2>1. PICK p \in Replies : Put(p) /\ p.c <= Len(cmd)
      BY SegmentSent, StatusSent, R2TSent
    <2> QED BY <1>1, <2>1, PutTypes
  <1>3. CASE PutSegment
    <2>1. /\ woff' \in Nat /\ wdata' \in Nat /\ woff' <= wmsg'.len /\ wmsg' = wmsg
          /\ wmsg # NoMsg /\ wpc' = "exp" /\ statSN' = statSN
      BY <1>3, SegmentSent DEF PutSegment
    <2> QED BY <1>1, <1>2, <2>1 DEF TypeOK, initiatorVars, readerVars, Named
  <1>4. CASE PutStatus \/ PutR2T
    <2>1. statSN' \in SN
      BY <1>4, AfterType DEF PutStatus, PutR2T, TypeOK
    <2>2. /\ wpc' = "recv" /\ wmsg' = NoMsg /\ NoMsg.type = "none"
          /\ UNCHANGED <<woff, wdata>>
      BY <1>4 DEF PutStatus, PutR2T, MsgDone, NoMsg
    <2> QED BY <1>1, <1>2, <2>1, <2>2 DEF TypeOK, initiatorVars, readerVars, Named
  <1> QED BY <1>3, <1>4

LEMMA NextTypes == TypeOK /\ [Next]_vars => TypeOK'
  <1> SUFFICES ASSUME TypeOK, [Next]_vars PROVE TypeOK'
    OBVIOUS
  <1>1. CASE UNCHANGED vars
    BY <1>1 DEF vars, initiatorVars, readerVars, writerVars, TypeOK, Named
  <1>2. CASE Next
    BY <1>2, LoginTypes, CommandTypes, ReceiveTypes, LoginAnswerTypes, ReadTypes, AnswerTypes,
       TakeTypes, WriterTypes DEF Next
  <1> QED BY <1>1, <1>2

(* Sequence numbers keep to their 32 bits, queues and messages to commands *)
(* that were sent, and the writer's cursor to its message.                 *)
THEOREM TypeCorrect == Spec => []TypeOK
  BY InitTypes, NextTypes, PTL DEF Spec

-----------------------------------------------------------------------------
(* Where a command sent can be: asked for by a request on its way, in a    *)
(* task, answered by a message on its way to the writer or in its hand,    *)
(* owed by a PDU on its way back, or done.                                 *)

Has(q, T) == \E i \in DOMAIN q : q[i] \in T

Asking(c)   == {p \in Requests : p.type # "login" /\ p.c = c}
BoundFor(c) == {m \in Messages : m.c = c /\ (m.type = "data" => m.len # 0)}
Owed(c)     == {p \in Replies : p.type \in {"r2t", "status"} /\ p.c = c}
Void(c)     == HasData(cmd[c]) /\ Yield(cmd[c]) = 0

Held(c) ==
  \/ Has(toTarget, Asking(c))
  \/ c \in tasks
  \/ Has(chan, BoundFor(c))
  \/ wmsg # NoMsg /\ wmsg.c = c
  \/ Has(toInitiator, Owed(c))
  \/ Answered(c)
  \/ Void(c)

AllHeld == \A c \in 1 .. Len(cmd) : Held(c)

LEMMA HasKept ==
  ASSUME NEW S, NEW q \in Seq(S), NEW x \in S, NEW T \in SUBSET S, Has(q, T)
  PROVE  Has(Append(q, x), T)
  BY KeptByAppend DEF Has

LEMMA HasPut ==
  ASSUME NEW S, NEW q \in Seq(S), NEW x \in S, NEW T \in SUBSET S, x \in T
  PROVE  Has(Append(q, x), T)
  BY PutByAppend DEF Has

LEMMA HasStill ==
  ASSUME NEW S, NEW q \in Seq(S), q # << >>, NEW T \in SUBSET S, Has(q, T), Head(q) \notin T
  PROVE  Has(Tail(q), T)
  BY KeptByTail DEF Has

(* The queues and what they hold, for the lemmas above. *)
LEMMA Queues ==
  ASSUME TypeOK, NEW c
  PROVE  /\ toTarget \in Seq(Requests) /\ Asking(c) \in SUBSET Requests
         /\ chan \in Seq(Messages) /\ BoundFor(c) \in SUBSET Messages
         /\ toInitiator \in Seq(Replies) /\ Owed(c) \in SUBSET Replies
  BY DEF TypeOK, Asking, BoundFor, Owed

LEMMA RequestSent ==
  ASSUME TypeOK, NEW p \in Requests, toTarget' = Append(toTarget, p), NEW c,
         Has(toTarget, Asking(c)) \/ p \in Asking(c)
  PROVE  Has(toTarget, Asking(c))'
  <1>1. Has(Append(toTarget, p), Asking(c))
    BY Queues, HasKept, HasPut
  <1> QED BY <1>1 DEF Asking, Has

LEMMA RequestTaken ==
  ASSUME TypeOK, toTarget # << >>, toTarget' = Tail(toTarget), NEW c,
         Has(toTarget, Asking(c)), Head(toTarget).type = "login" \/ Head(toTarget).c # c
  PROVE  Has(toTarget, Asking(c))'
  <1>1. Head(toTarget) \notin Asking(c)
    BY DEF Asking
  <1>2. Has(Tail(toTarget), Asking(c))
    BY <1>1, Queues, HasStill
  <1> QED BY <1>2 DEF Asking, Has

LEMMA MessageSent ==
  ASSUME TypeOK, NEW m \in Messages, chan' = Append(chan, m), NEW c,
         Has(chan, BoundFor(c)) \/ m \in BoundFor(c)
  PROVE  Has(chan, BoundFor(c))'
  <1>1. Has(Append(chan, m), BoundFor(c))
    BY Queues, HasKept, HasPut
  <1> QED BY <1>1 DEF BoundFor, Has

LEMMA MessageTaken ==
  ASSUME TypeOK, chan # << >>, chan' = Tail(chan), NEW c,
         Has(chan, BoundFor(c)), Head(chan) \notin BoundFor(c)
  PROVE  Has(chan, BoundFor(c))'
  <1>1. Has(Tail(chan), BoundFor(c))
    BY Queues, HasStill
  <1> QED BY <1>1 DEF BoundFor, Has

LEMMA ReplySent ==
  ASSUME TypeOK, NEW p \in Replies, Put(p), NEW c,
         Has(toInitiator, Owed(c)) \/ p \in Owed(c)
  PROVE  Has(toInitiator, Owed(c))'
  <1>1. Has(Append(toInitiator, p), Owed(c))
    BY Queues, HasKept, HasPut
  <1> QED BY <1>1 DEF Owed, Has, Put

LEMMA ReplyTaken ==
  ASSUME TypeOK, toInitiator # << >>, toInitiator' = Tail(toInitiator), NEW c,
         Has(toInitiator, Owed(c)), Head(toInitiator) \notin Owed(c)
  PROVE  Has(toInitiator, Owed(c))'
  <1>1. Has(Tail(toInitiator), Owed(c))
    BY Queues, HasStill
  <1> QED BY <1>1 DEF Owed, Has

-----------------------------------------------------------------------------
(* No step of either side drops a command. *)

LEMMA LoginHeld ==
  ASSUME TypeOK, AllHeld,
         Login \/ \E declares, last \in BOOLEAN, l \in Limits : SendLogin(declares, l, last)
  PROVE  AllHeld'
  <1>1. cmd' = cmd
    BY DEF Login, SendLogin, initiatorVars
  <1> SUFFICES ASSUME NEW c \in 1 .. Len(cmd), Held(c) PROVE Held(c)'
    BY <1>1 DEF AllHeld
  <1>2. CASE Login
    <2>1. Has(toTarget, Asking(c)) => Has(toTarget, Asking(c))'
      BY <1>2, RequestTaken DEF Login, Next_, Take
    <2>2. PICK p \in Replies : Put(p)
      BY <1>2, LoginAnswered
    <2>3. Has(toInitiator, Owed(c)) => Has(toInitiator, Owed(c))'
      BY <2>2, ReplySent
    <2>4. UNCHANGED <<tasks, chan, wmsg, status, cmd>>
      BY <1>2 DEF Login, initiatorVars
    <2> QED BY <2>1, <2>3, <2>4 DEF Held, Has, Answered, Void
  <1>3. CASE \E declares, last \in BOOLEAN, l \in Limits : SendLogin(declares, l, last)
    <2>1. PICK p \in Requests : toTarget' = Append(toTarget, p)
      BY <1>3 DEF SendLogin, Requests, TypeOK
    <2>2. Has(toTarget, Asking(c)) => Has(toTarget, Asking(c))'
      BY <2>1, RequestSent
    <2>3. UNCHANGED <<tasks, chan, wmsg, toInitiator, status, cmd>>
      BY <1>3 DEF SendLogin, writerVars
    <2> QED BY <2>2, <2>3 DEF Held, Has, Answered, Void
  <1> QED BY <1>2, <1>3

LEMMA CommandHeld ==
  ASSUME TypeOK, AllHeld, NEW x \in Menu, SendCommand(x)
  PROVE  AllHeld'
  <1>0. PICK n \in Nat : n = Len(cmd) + 1
    BY DEF TypeOK
  <1> DEFINE p == [type |-> "command", c |-> n]
  <1>1. p \in Requests /\ toTarget' = Append(toTarget, p)
    BY <1>0 DEF SendCommand, Requests
  <1>2. /\ Len(cmd) \in Nat /\ Len(cmd') = n
        /\ \A c \in 1 .. Len(cmd) : cmd'[c] = cmd[c]
    BY <1>0 DEF SendCommand, TypeOK
  <1>3. p \in Asking(n)
    BY <1>1 DEF Asking
  <1>4. Has(toTarget, Asking(n))'
    BY <1>1, <1>3, RequestSent
  <1>5. ASSUME NEW c \in 1 .. Len(cmd) PROVE Held(c)'
    <2>1. Held(c)
      BY DEF AllHeld
    <2>2. Has(toTarget, Asking(c)) => Has(toTarget, Asking(c))'
      BY <1>1, RequestSent
    <2>3. UNCHANGED <<tasks, chan, wmsg, toInitiator, status>> /\ cmd'[c] = cmd[c]
      BY <1>2 DEF SendCommand, writerVars
    <2> QED BY <2>1, <2>2, <2>3 DEF Held, Has, Answered, Void
  <1>6. Held(n)'
    BY <1>4 DEF Held
  <1>7. \A c \in 1 .. Len(cmd)' : c \in 1 .. Len(cmd) \/ c = n
    BY <1>0, <1>2
  <1> QED BY <1>5, <1>6, <1>7 DEF AllHeld

LEMMA ReceiveHeld ==
  ASSUME TypeOK, AllHeld, Receive
  PROVE  AllHeld'
  <1> DEFINE p == Head(toInitiator)
  <1>1. cmd' = cmd /\ toInitiator # << >> /\ toInitiator' = Tail(toInitiator)
    BY DEF Receive
  <1> SUFFICES ASSUME NEW c \in 1 .. Len(cmd), Held(c) PROVE Held(c)'
    BY <1>1 DEF AllHeld
  <1>2. p \in Replies /\ c \in Cmds
    BY <1>1, TailAt, CommandIs DEF TypeOK
  <1>3. p.type \in {"login", "r2t", "data", "status"} /\ (p.type # "login" => p.c \in Cmds)
    BY <1>2, ReplyIs
  <1>4. UNCHANGED <<tasks, chan, wmsg, cmd>>
    BY DEF Receive, writerVars
  <1>5. Has(toTarget, Asking(c)) => Has(toTarget, Asking(c))'
    <2>1. CASE p.type = "r2t"
      <3>1. /\ [type |-> "dataOut", c |-> p.c] \in Requests
            /\ toTarget' = Append(toTarget, [type |-> "dataOut", c |-> p.c])
        BY <1>3, <2>1 DEF Receive, Requests
      <3> QED BY <3>1, RequestSent
    <2>2. CASE p.type # "r2t"
      BY <2>2 DEF Receive, Has, Asking
    <2> QED BY <2>1, <2>2
  <1>6. Answered(c) => Answered(c)'
    BY <1>2, <1>3 DEF Receive, Answered, TypeOK
  <1>7. CASE p \notin Owed(c)
    <2>1. Has(toInitiator, Owed(c)) => Has(toInitiator, Owed(c))'
      BY <1>1, <1>7, ReplyTaken
    <2> QED BY <1>4, <1>5, <1>6, <2>1 DEF Held, Has, Void
  <1>8. CASE p.type = "r2t" /\ p.c = c
    <2>1. /\ [type |-> "dataOut", c |-> c] \in Asking(c)
          /\ toTarget' = Append(toTarget, [type |-> "dataOut", c |-> c])
      BY <1>2, <1>8 DEF Receive, Requests, Asking
    <2>2. Has(toTarget, Asking(c))'
      BY <2>1, RequestSent DEF Asking
    <2> QED BY <2>2 DEF Held
  <1>9. CASE p.type = "status" /\ p.c = c
    <2>1. Answered(c)'
      BY <1>2, <1>9 DEF Receive, Answered, TypeOK
    <2> QED BY <2>1 DEF Held
  <1> QED BY <1>2, <1>7, <1>8, <1>9 DEF Owed

(* A command handed on is a task's or has an R2T on its way. *)
LEMMA DispatchHeld ==
  ASSUME TypeOK, AllHeld, NEW d \in 1 .. Len(cmd), Dispatch(d), Take,
         toTarget # << >>, Head(toTarget).c = d,
         UNCHANGED <<cmd, status, toInitiator, wmsg>>
  PROVE  AllHeld'
  <1> SUFFICES ASSUME NEW c \in 1 .. Len(cmd), Held(c) PROVE Held(c)'
    BY DEF AllHeld
  <1>1. Has(toTarget, Asking(c)) /\ c # d => Has(toTarget, Asking(c))'
    BY RequestTaken DEF Take
  <1>2. \/ tasks' = tasks \cup {d} /\ chan' = chan
        \/ tasks' = tasks /\ chan' = Append(chan, [type |-> "r2t", c |-> d])
    BY DEF Dispatch
  <1>3. [type |-> "r2t", c |-> d] \in Messages /\ [type |-> "r2t", c |-> d] \in BoundFor(d)
    BY CommandIs DEF Messages, BoundFor
  <1>4. Has(chan, BoundFor(c)) => Has(chan, BoundFor(c))'
    BY <1>2, <1>3, MessageSent DEF Has, BoundFor
  <1>5. d \in tasks' \/ Has(chan, BoundFor(d))'
    BY <1>2, <1>3, MessageSent
  <1> QED BY <1>1, <1>2, <1>4, <1>5 DEF Held, Has, Answered, Void

LEMMA ReadHeld ==
  ASSUME TypeOK, AllHeld, ReadCommand \/ OpenWindow \/ ReadDataOut
  PROVE  AllHeld'
  <1> DEFINE d == Head(toTarget).c
  <1>1. UNCHANGED <<cmd, status, toInitiator, wmsg>>
    BY DEF ReadCommand, OpenWindow, ReadDataOut, initiatorVars, writerVars
  <1>2. CASE UNCHANGED <<toTarget, tasks, chan>>
    BY <1>1, <1>2 DEF AllHeld, Held, Has, Answered, Void
  <1>3. CASE Take /\ Dispatch(d) /\ (ReadCommand \/ OpenWindow)
    <2>1. toTarget # << >> /\ d \in 1 .. Len(cmd)
      BY <1>3, HeadCommand DEF ReadCommand, OpenWindow, Next_, TypeOK
    <2> QED BY <1>1, <1>3, <2>1, DispatchHeld
  <1>4. CASE ReadDataOut
    <2> SUFFICES ASSUME NEW c \in 1 .. Len(cmd), Held(c) PROVE Held(c)'
      BY <1>1 DEF AllHeld
    <2>1. tasks' = tasks \cup {d} /\ UNCHANGED chan
      BY <1>4 DEF ReadDataOut
    <2>2. Has(toTarget, Asking(c)) /\ c # d => Has(toTarget, Asking(c))'
      BY <1>4, RequestTaken DEF ReadDataOut, Take, Next_
    <2> QED BY <1>1, <2>1, <2>2 DEF Held, Has, Answered, Void
  <1> QED BY <1>2, <1>3, <1>4 DEF ReadCommand, OpenWindow

LEMMA AnswerHeld ==
  ASSUME TypeOK, AllHeld, NEW d \in Cmds, Answer(d)
  PROVE  AllHeld'
  <1> DEFINE x == cmd[d]
             m == IF HasData(x) THEN [type |-> "data", c |-> d, len |-> Yield(x), want |-> x.want]
                  ELSE [type |-> "status", c |-> d, outs |-> IF Incomplete(x) THEN 1 ELSE 0,
                        want |-> IF x.kind = "test" THEN x.want ELSE 0]
  <1>1. d \in 1 .. Len(cmd) /\ x.want \in Nat /\ (HasData(x) => Yield(x) \in Nat)
    BY CommandIs DEF Answer, TypeOK
  <1>2. m \in Messages /\ chan' = Append(chan, m)
    BY <1>1 DEF Answer, Messages
  <1>3. m \in BoundFor(d) \/ Void(d)
    BY <1>2 DEF BoundFor, Void
  <1>4. UNCHANGED <<cmd, status, toInitiator, toTarget, wmsg>> /\ tasks' = tasks \ {d}
    BY DEF Answer, initiatorVars, writerVars
  <1> HIDE DEF m
  <1> SUFFICES ASSUME NEW c \in 1 .. Len(cmd), Held(c) PROVE Held(c)'
    BY <1>4 DEF AllHeld
  <1>5. Has(chan, BoundFor(c)) => Has(chan, BoundFor(c))'
    BY <1>2, MessageSent
  <1>6. Void(d)' \/ Has(chan, BoundFor(d))'
    BY <1>2, <1>3, <1>4, MessageSent DEF Void
  <1> QED BY <1>4, <1>5, <1>6 DEF Held, Has, Answered, Void

LEMMA TakeHeld ==
  ASSUME TypeOK, AllHeld, TakeMessage
  PROVE  AllHeld'
  <1> DEFINE m == Head(chan)
  <1>1. UNCHANGED <<cmd, status, toInitiator, toTarget, tasks>> /\ chan # << >>
        /\ chan' = Tail(chan) /\ wpc = "recv"
    BY DEF TakeMessage, initiatorVars
  <1>2. wmsg = NoMsg /\ m \in Messages /\ m # NoMsg
    BY <1>1, TailAt, MessageIs DEF TypeOK
  <1> SUFFICES ASSUME NEW c \in 1 .. Len(cmd), Held(c) PROVE Held(c)'
    BY <1>1 DEF AllHeld
  <1>3. Has(chan, BoundFor(c)) /\ m \notin BoundFor(c) => Has(chan, BoundFor(c))'
    BY <1>1, MessageTaken
  <1>4. m \in BoundFor(c) => wmsg' = m /\ m.c = c
    BY DEF TakeMessage, BoundFor
  <1> QED BY <1>1, <1>2, <1>3, <1>4 DEF Held, Has, Answered, Void

LEMMA WriterHeld ==
  ASSUME TypeOK, AllHeld, LoadExp \/ PutSegment \/ PutStatus \/ PutR2T
  PROVE  AllHeld'
  <1>1. UNCHANGED <<cmd, status, toTarget, tasks, chan>>
    BY DEF LoadExp, PutSegment, PutStatus, PutR2T, initiatorVars
  <1> SUFFICES ASSUME NEW c \in 1 .. Len(cmd), Held(c) PROVE Held(c)'
    BY <1>1 DEF AllHeld
  <1>2. CASE LoadExp
    <2>1. UNCHANGED <<toInitiator, wmsg>>
      BY <1>2 DEF LoadExp
    <2> QED BY <1>1, <2>1 DEF Held, Has, Answered, Void
  <1>3. CASE PutSegment
    <2>1. PICK p \in Replies : Put(p)
      BY <1>3, SegmentSent
    <2>2. Has(toInitiator, Owed(c)) => Has(toInitiator, Owed(c))'
      BY <2>1, ReplySent
    <2>3. UNCHANGED wmsg
      BY <1>3 DEF PutSegment
    <2> QED BY <1>1, <2>2, <2>3 DEF Held, Has, Answered, Void
  <1>4. CASE PutStatus \/ PutR2T
    <2>1. PICK p \in Replies : Put(p) /\ p.type \in {"r2t", "status"} /\ p.c = wmsg.c
      BY <1>4, StatusSent, R2TSent
    <2>2. wmsg.c = c => p \in Owed(c)
      BY <2>1 DEF Owed
    <2>3. Has(toInitiator, Owed(c)) \/ wmsg.c = c => Has(toInitiator, Owed(c))'
      BY <2>1, <2>2, ReplySent
    <2> QED BY <1>1, <2>3 DEF Held, Has, Answered, Void
  <1> QED BY <1>2, <1>3, <1>4

LEMMA NextHeld == TypeOK /\ AllHeld /\ [Next]_vars => AllHeld'
  <1> SUFFICES ASSUME TypeOK, AllHeld, [Next]_vars PROVE AllHeld'
    OBVIOUS
  <1>1. CASE UNCHANGED vars
    BY <1>1 DEF vars, initiatorVars, readerVars, writerVars, AllHeld, Held, Has, Answered, Void
  <1>2. CASE Next
    BY <1>2, LoginHeld, CommandHeld, ReceiveHeld, ReadHeld, AnswerHeld, TakeHeld, WriterHeld
    DEF Next
  <1> QED BY <1>1, <1>2

(* Nothing in between, every command is answered or has no data to return. *)
LEMMA HeldQuiet == TypeOK /\ AllHeld => AllAnswered
  <1> SUFFICES ASSUME TypeOK, AllHeld, Quiet, NEW c \in 1 .. Len(cmd)
               PROVE  Answered(c) \/ Void(c)
    BY DEF AllAnswered, Void
  <1>1. Held(c) /\ wmsg = NoMsg
    BY DEF AllHeld, TypeOK, Quiet
  <1>2. ~Has(toTarget, Asking(c)) /\ ~Has(chan, BoundFor(c)) /\ ~Has(toInitiator, Owed(c))
    BY DEF Quiet, Has
  <1> QED BY <1>1, <1>2 DEF Held, Quiet

(* No command is dropped on its way through the target: once nothing is in *)
(* motion each has its status, but for those whose data have no length,    *)
(* which the Data-In loop passes over (pdu_io.rs).                         *)
THEOREM NothingLost == Spec => []AllAnswered
  <1>1. Init => AllHeld
    BY DEF Init, AllHeld
  <1> QED BY <1>1, InitTypes, NextTypes, NextHeld, HeldQuiet, PTL DEF Spec

LEMMA DivMod ==
  ASSUME NEW s \in Nat \ {0}, NEW u \in Int
  PROVE  u \div s \in Int /\ u % s \in 0 .. s - 1 /\ (u \div s) * s + (u % s) = u
  <1>1. u \div s \in Int /\ u % s \in 0 .. s - 1
    OBVIOUS
  <1>2. u = s * (u \div s) + (u % s)
    OBVIOUS
  <1>3. (u \div s) * s = s * (u \div s)
    BY <1>1
  <1> QED BY <1>1, <1>2, <1>3

(* A product has no smaller factor than itself. *)
LEMMA Multiple ==
  ASSUME NEW s \in Nat \ {0}, NEW d \in Int, d * s < s, -s < d * s
  PROVE  d = 0
  <1>1. d > 0 => d * s >= s
    OBVIOUS
  <1>2. d < 0 => d * s <= -s
    OBVIOUS
  <1> QED BY <1>1, <1>2

LEMMA ModIs ==
  ASSUME NEW s \in Nat \ {0}, NEW u \in Int, NEW q \in Int, NEW r \in 0 .. s - 1, u = q * s + r
  PROVE  u % s = r
  <1>1. PICK d \in Int : d = (u \div s) - q
    BY DivMod
  <1>2. PICK m \in 0 .. s - 1 : m = u % s
    BY DivMod
  <1>3. (u \div s) * s + m = q * s + r /\ u \div s = q + d
    BY <1>1, <1>2, DivMod
  <1>4. (q + d) * s = q * s + d * s /\ q * s \in Int /\ d * s \in Int
    BY <1>1
  <1>5. d * s = r - m
    BY <1>3, <1>4
  <1>6. d * s < s /\ -s < d * s
    BY <1>2, <1>5
  <1>7. d = 0
    BY <1>1, <1>6, Multiple
  <1>8. d * s = 0
    BY <1>7
  <1> QED BY <1>2, <1>5, <1>8

LEMMA ModAdd ==
  ASSUME NEW s \in Nat \ {0}, NEW a \in Int, NEW b \in Int
  PROVE  ((a % s) + b) % s = (a + b) % s
  <1>1. PICK m \in 0 .. s - 1 : m = a % s
    BY DivMod
  <1>2. PICK q \in Int : q * s + m = a
    BY <1>1, DivMod
  <1>3. m + b \in Int
    OBVIOUS
  <1>4. PICK r \in 0 .. s - 1 : r = (m + b) % s
    BY <1>3, DivMod
  <1>5. PICK p \in Int : p * s + r = m + b
    BY <1>3, <1>4, DivMod
  <1>6. (p + q) * s = p * s + q * s /\ p * s \in Int /\ q * s \in Int
    OBVIOUS
  <1>7. PICK u \in Int : u = a + b
    OBVIOUS
  <1>8. PICK d \in Int : d = p + q
    OBVIOUS
  <1>9. u = d * s + r
    BY <1>2, <1>5, <1>6, <1>7, <1>8
  <1>10. u % s = r
    BY <1>9, ModIs
  <1> QED BY <1>1, <1>4, <1>7, <1>10

-----------------------------------------------------------------------------
(* Counting in a queue: the positions before the i-th that hold one of T.  *)

Bit(b) == IF b THEN 1 ELSE 0
Before(q, T, i) == {j \in 1 .. i - 1 : q[j] \in T}

LEMMA BeforeFinite ==
  ASSUME NEW q, NEW T, NEW i \in Nat
  PROVE  IsFiniteSet(Before(q, T, i)) /\ Cardinality(Before(q, T, i)) \in Nat
  <1>1. IsFiniteSet(1 .. i - 1)
    BY FS_Interval
  <1>2. Before(q, T, i) \in SUBSET (1 .. i - 1)
    BY DEF Before
  <1>3. IsFiniteSet(Before(q, T, i))
    BY <1>1, <1>2, FS_Subset
  <1> QED BY <1>3, FS_CardinalityType

(* One more in the queue leaves the count before those in it. *)
LEMMA BeforeSame ==
  ASSUME NEW S, NEW q \in Seq(S), NEW x \in S, NEW T, NEW i \in 1 .. Len(q) + 1
  PROVE  Before(Append(q, x), T, i) = Before(q, T, i)
  BY AppendAt DEF Before

LEMMA BeforeAppend ==
  ASSUME NEW S, NEW q \in Seq(S), NEW x \in S, NEW T, NEW n, n = Len(q)
  PROVE  Cardinality(Before(Append(q, x), T, n + 2)) =
           Cardinality(Before(q, T, n + 1)) + Bit(x \in T)
  <1> DEFINE r == Append(q, x)
  <1>1. n \in Nat /\ r[n + 1] = x /\ \A i \in 1 .. n : r[i] = q[i]
    BY AppendAt
  <1> HIDE DEF r
  <1> DEFINE B == Before(q, T, n + 1)
             k == n + 1
  <1>2. Before(r, T, n + 2) = IF x \in T THEN B \cup {k} ELSE B
    <2>1. ASSUME NEW j \in Int
          PROVE  j \in Before(r, T, n + 2) <=> j \in B \/ (x \in T /\ j = k)
      <3>1. j \in Before(r, T, n + 2) <=> j \in 1 .. n + 1 /\ r[j] \in T
        BY <1>1 DEF Before
      <3>2. j \in B <=> j \in 1 .. n /\ q[j] \in T
        BY <1>1 DEF Before
      <3>3. j \in 1 .. n + 1 <=> j \in 1 .. n \/ j = k
        BY <1>1
      <3>4. k \notin 1 .. n
        BY <1>1
      <3> HIDE DEF B, k
      <3> QED BY <1>1, <3>1, <3>2, <3>3, <3>4 DEF k
    <2>2. Before(r, T, n + 2) \subseteq Int /\ B \subseteq Int /\ k \in Int
      BY <1>1 DEF Before
    <2> HIDE DEF B, k
    <2>3. CASE x \in T
      BY <2>1, <2>2, <2>3, Zenon
    <2>4. CASE x \notin T
      BY <2>1, <2>2, <2>4, Zenon
    <2> QED BY <2>3, <2>4
  <1>3. IsFiniteSet(B) /\ Cardinality(B) \in Nat /\ k \notin B
    <2>1. n + 1 \in Nat /\ k \notin B
      BY <1>1 DEF Before
    <2> QED BY <2>1, BeforeFinite
  <1> HIDE DEF B, k
  <1>4. Cardinality(B \cup {k}) = Cardinality(B) + 1
    BY <1>3, FS_AddElement
  <1>5. Cardinality(Before(r, T, n + 2)) = Cardinality(B) + Bit(x \in T)
    <2>1. CASE x \in T
      BY <1>2, <1>4, <2>1 DEF Bit
    <2>2. CASE x \notin T
      BY <1>2, <1>3, <2>2 DEF Bit
    <2> QED BY <2>1, <2>2
  <1> QED BY <1>5 DEF r, B

(* Without its head every count is one less, if it was one. *)
LEMMA BeforeTail ==
  ASSUME NEW S, NEW q \in Seq(S), q # << >>, NEW T, NEW i \in 1 .. Len(q)
  PROVE  Cardinality(Before(q, T, i + 1)) =
           Cardinality(Before(Tail(q), T, i)) + Bit(Head(q) \in T)
  <1> DEFINE r == Tail(q)
             B == Before(r, T, i)
             C == Before(q, T, i + 1)
             D == C \ {1}
             f == [j \in B |-> j + 1]
  <1>1. /\ Len(q) \in Nat \ {0} /\ Head(q) = q[1]
        /\ \A j \in 1 .. Len(q) - 1 : r[j] = q[j + 1]
    OBVIOUS
  <1> HIDE DEF r
  <1>2. B = {j \in 1 .. i - 1 : q[j + 1] \in T}
    BY <1>1 DEF Before
  <1>3. D = {j \in 2 .. i : q[j] \in T} /\ (1 \in C <=> Head(q) \in T)
    BY <1>1 DEF Before
  <1>4. /\ IsFiniteSet(B) /\ Cardinality(B) \in Nat
        /\ IsFiniteSet(C) /\ Cardinality(C) \in Nat
    BY BeforeFinite
  <1>5. (\A j \in B : j \in Int /\ j + 1 \in D) /\ \A j \in D : j - 1 \in B /\ (j - 1) + 1 = j
    BY <1>2, <1>3
  <1> HIDE DEF B, D
  <1>6. f \in Bijection(B, D)
    <2>1. f \in [B -> D] /\ \A x, y \in B : f[x] = f[y] => x = y
      BY <1>5
    <2>2. \A y \in D : \E x \in B : f[x] = y
      <3> SUFFICES ASSUME NEW y \in D PROVE \E x \in B : f[x] = y
        OBVIOUS
      <3>1. y - 1 \in B /\ f[y - 1] = y
        BY <1>5
      <3> QED BY <3>1
    <2> QED BY <2>1, <2>2, Zenon DEF Bijection, Injection, Surjection, IsInjective
  <1>7. Cardinality(D) = Cardinality(B)
    BY <1>4, <1>6, FS_Bijection DEF ExistsBijection
  <1> HIDE DEF C
  <1>8. Cardinality(D) = IF 1 \in C THEN Cardinality(C) - 1 ELSE Cardinality(C)
    BY <1>4, FS_RemoveElement DEF D
  <1>9. Cardinality(C) = Cardinality(B) + Bit(Head(q) \in T)
    BY <1>3, <1>4, <1>7, <1>8 DEF Bit
  <1> QED BY <1>9 DEF B, C, r

-----------------------------------------------------------------------------
(* The numbers of the responses.  On the wire they count on from the one   *)
(* the initiator expects, and the target's next is the one after them.     *)

IsCounted(p) == p.type \in {"login", "status"}
StatAt(i)    == (expStatSN + Cardinality(Statuses(i))) % Wrap

Numbered ==
  /\ StatusCounted
  /\ statSN = StatAt(Len(toInitiator) + 1)

(* Those that carry the next number and use it up. *)
Responses == {p \in Replies : IsCounted(p)}

LEMMA StatusesAre ==
  ASSUME NEW q \in Seq(Replies), NEW i \in 1 .. Len(q) + 1
  PROVE  Before(q, Responses, i) = {j \in 1 .. i - 1 : q[j].type \in {"login", "status"}}
  <1>1. \A j \in 1 .. i - 1 : q[j] \in Replies
    OBVIOUS
  <1> QED BY <1>1 DEF Before, Responses, IsCounted

(* One more PDU on the wire leaves what is counted before the others, and  *)
(* adds to what is counted before the next.                                *)
LEMMA StatusesPut ==
  ASSUME TypeOK, NEW p \in Replies, Put(p), NEW n, n = Len(toInitiator)
  PROVE  /\ n \in Nat /\ Len(toInitiator') = n + 1
         /\ \A i \in 1 .. n : toInitiator'[i] = toInitiator[i]
         /\ toInitiator'[n + 1] = p
         /\ \A i \in 1 .. n + 1 : Statuses(i)' = Statuses(i)
         /\ Cardinality(Statuses(n + 2)') = Cardinality(Statuses(n + 1)) + Bit(IsCounted(p))
  <1>1. n \in Nat /\ toInitiator \in Seq(Replies) /\ toInitiator' = Append(toInitiator, p)
    BY DEF TypeOK, Put
  <1>2. /\ toInitiator' \in Seq(Replies) /\ Len(toInitiator') = n + 1 /\ toInitiator'[n + 1] = p
        /\ \A i \in 1 .. n : toInitiator'[i] = toInitiator[i]
    BY <1>1, AppendAt
  <1>3. \A i \in 1 .. n + 1 : Statuses(i) = Before(toInitiator, Responses, i)
    BY <1>1, StatusesAre DEF Statuses
  <1>4. \A i \in 1 .. n + 2 : Statuses(i)' = Before(toInitiator', Responses, i)
    <2> SUFFICES ASSUME NEW i \in 1 .. n + 2
                 PROVE  Statuses(i)' = Before(toInitiator', Responses, i)
      OBVIOUS
    <2>1. i \in 1 .. Len(toInitiator') + 1
      BY <1>1, <1>2
    <2>2. Before(toInitiator', Responses, i) =
            {j \in 1 .. i - 1 : toInitiator'[j].type \in {"login", "status"}}
      BY <1>2, <2>1, StatusesAre
    <2> QED BY <2>2 DEF Statuses
  <1>5. ASSUME NEW i \in 1 .. n + 1
        PROVE  Before(toInitiator', Responses, i) = Before(toInitiator, Responses, i)
    <2>1. i \in 1 .. Len(toInitiator) + 1
      OBVIOUS
    <2> QED BY <1>1, <2>1, BeforeSame
  <1>6. Cardinality(Before(toInitiator', Responses, n + 2)) =
          Cardinality(Before(toInitiator, Responses, n + 1)) + Bit(p \in Responses)
    <2>1. Cardinality(Before(Append(toInitiator, p), Responses, n + 2)) =
            Cardinality(Before(toInitiator, Responses, n + 1)) + Bit(p \in Responses)
      BY <1>1, BeforeAppend
    <2> QED BY <1>1, <2>1
  <1>7. Bit(p \in Responses) = Bit(IsCounted(p))
    BY DEF Responses, Bit
  <1>8. n + 1 \in 1 .. n + 1 /\ n + 2 \in 1 .. n + 2 /\ \A i \in 1 .. n + 1 : i \in 1 .. n + 2
    BY <1>1
  <1>9. Statuses(n + 2)' = Before(toInitiator', Responses, n + 2)
    BY <1>4, <1>8
  <1>10. Statuses(n + 1) = Before(toInitiator, Responses, n + 1)
    BY <1>3, <1>8
  <1>11. \A i \in 1 .. n + 1 : Statuses(i)' = Statuses(i)
    BY <1>3, <1>4, <1>5, <1>8
  <1>12. Cardinality(Statuses(n + 2)') = Cardinality(Statuses(n + 1)) + Bit(IsCounted(p))
    BY <1>6, <1>7, <1>9, <1>10, Zenon
  <1> QED BY <1>1, <1>2, <1>11, <1>12

(* Taken off the wire a response is no longer counted before the others. *)
LEMMA StatusesTaken ==
  ASSUME TypeOK, toInitiator # << >>, toInitiator' = Tail(toInitiator), NEW n, n = Len(toInitiator)
  PROVE  /\ n \in Nat \ {0} /\ Len(toInitiator') = n - 1
         /\ \A i \in 1 .. n - 1 : toInitiator'[i] = toInitiator[i + 1]
         /\ \A i \in 1 .. n : /\ Cardinality(Statuses(i)') \in Nat
                              /\ Cardinality(Statuses(i + 1)) =
                                   Cardinality(Statuses(i)') + Bit(IsCounted(Head(toInitiator)))
  <1>1. /\ toInitiator \in Seq(Replies) /\ n \in Nat \ {0} /\ Len(toInitiator') = n - 1
        /\ toInitiator' \in Seq(Replies) /\ Head(toInitiator) \in Replies
        /\ \A i \in 1 .. n - 1 : toInitiator'[i] = toInitiator[i + 1]
    BY DEF TypeOK
  <1>2. ASSUME NEW i \in 1 .. n
        PROVE  /\ Cardinality(Statuses(i)') \in Nat
               /\ Cardinality(Statuses(i + 1)) =
                    Cardinality(Statuses(i)') + Bit(IsCounted(Head(toInitiator)))
    <2>1. i \in 1 .. Len(toInitiator') + 1 /\ i + 1 \in 1 .. Len(toInitiator) + 1 /\ i \in Nat
      BY <1>1
    <2>2. Statuses(i)' = Before(toInitiator', Responses, i)
      BY <1>1, <2>1, StatusesAre DEF Statuses
    <2>3. Statuses(i + 1) = Before(toInitiator, Responses, i + 1)
      BY <1>1, <2>1, StatusesAre DEF Statuses
    <2>4. Cardinality(Before(toInitiator, Responses, i + 1)) =
            Cardinality(Before(toInitiator', Responses, i)) + Bit(Head(toInitiator) \in Responses)
      BY <1>1, BeforeTail
    <2>5. Head(toInitiator) \in Responses <=> IsCounted(Head(toInitiator))
      BY <1>1 DEF Responses
    <2>6. Cardinality(Before(toInitiator', Responses, i)) \in Nat
      BY <2>1, BeforeFinite
    <2>7. Bit(Head(toInitiator) \in Responses) = Bit(IsCounted(Head(toInitiator)))
      BY <2>5 DEF Bit
    <2> QED BY <2>2, <2>3, <2>4, <2>6, <2>7, Zenon
  <1> QED BY <1>1, <1>2

LEMMA StatusesFinite ==
  ASSUME TypeOK, NEW i \in 1 .. Len(toInitiator) + 1
  PROVE  Cardinality(Statuses(i)) \in Nat
  <1>1. Statuses(i) = Before(toInitiator, Responses, i) /\ i \in Nat
    BY StatusesAre DEF Statuses, TypeOK
  <1> QED BY <1>1, BeforeFinite

LEMMA NextStat ==
  ASSUME TypeOK, NEW k \in Nat, NEW e \in SN
  PROVE  /\ After((e + k) % Wrap) = (e + (k + 1)) % Wrap
         /\ (After(e) + k) % Wrap = (e + (k + 1)) % Wrap
  <1>1. e \in Int /\ Wrap \in Nat \ {0}
    BY ExchangeAssumption DEF SN
  <1> DEFINE a == e + k
             b == e + 1
  <1>0. a \in Int /\ b \in Int /\ k \in Int /\ 1 \in Int
    BY <1>1
  <1> HIDE DEF a, b
  <1>2. ((a % Wrap) + 1) % Wrap = (a + 1) % Wrap
    BY <1>0, <1>1, ModAdd, Zenon
  <1>3. ((b % Wrap) + k) % Wrap = (b + k) % Wrap
    BY <1>0, <1>1, ModAdd, Zenon
  <1>4. a + 1 = e + (k + 1) /\ b + k = e + (k + 1)
    BY <1>1 DEF a, b
  <1> QED BY <1>2, <1>3, <1>4 DEF After, a, b

(* Putting a PDU that carries the next number, which a response uses up.   *)
LEMMA PutNumbered ==
  ASSUME TypeOK, Numbered, NEW p \in Replies, Put(p), expStatSN' = expStatSN,
         p.type # "data" => p.stat = statSN,
         statSN' = IF IsCounted(p) THEN After(statSN) ELSE statSN
  PROVE  Numbered'
  <1>1. PICK n \in Nat : n = Len(toInitiator)
    BY DEF TypeOK
  <1>2. /\ Len(toInitiator') = n + 1 /\ toInitiator'[n + 1] = p
        /\ \A i \in 1 .. n : toInitiator'[i] = toInitiator[i]
        /\ \A i \in 1 .. n + 1 : Statuses(i)' = Statuses(i)
        /\ Cardinality(Statuses(n + 2)') =
              Cardinality(Statuses(n + 1)) + Bit(IsCounted(p))
    BY <1>1, StatusesPut
  <1>3. statSN = StatAt(n + 1)
    BY <1>1 DEF Numbered
  <1>4. ASSUME NEW i \in 1 .. n + 1, toInitiator'[i].type # "data"
        PROVE  toInitiator'[i].stat = StatAt(i)'
    <2>1. StatAt(i)' = StatAt(i)
      BY <1>2 DEF StatAt
    <2>2. CASE i \in 1 .. n
      BY <1>1, <1>2, <1>4, <2>1, <2>2 DEF Numbered, StatusCounted, Wire, StatAt
    <2>3. CASE i = n + 1
      BY <1>2, <1>3, <1>4, <2>1, <2>3
    <2> QED BY <1>1, <2>2, <2>3
  <1>5. StatusCounted'
    BY <1>2, <1>4 DEF StatusCounted, Wire, StatAt
  <1>6. PICK k \in Nat : k = Cardinality(Statuses(n + 1))
    <2>1. n + 1 \in 1 .. Len(toInitiator) + 1
      BY <1>1
    <2> QED BY <2>1, StatusesFinite
  <1>7. statSN = (expStatSN + k) % Wrap /\ expStatSN \in SN
    BY <1>3, <1>6 DEF StatAt, TypeOK
  <1>8. statSN' = (expStatSN + Cardinality(Statuses(n + 2)')) % Wrap
    <2>1. CASE IsCounted(p)
      <3>1. Cardinality(Statuses(n + 2)') = k + 1 /\ statSN' = After(statSN)
        BY <1>2, <1>6, <2>1 DEF Bit
      <3> QED BY <1>7, <3>1, NextStat
    <2>2. CASE ~IsCounted(p)
      <3>1. Cardinality(Statuses(n + 2)') = k /\ statSN' = statSN
        BY <1>2, <1>6, <2>2 DEF Bit
      <3> QED BY <1>7, <3>1
    <2> QED BY <2>1, <2>2
  <1>9. Len(toInitiator') + 1 = n + 2
    BY <1>2
  <1>10. StatAt(Len(toInitiator) + 1)' = (expStatSN + Cardinality(Statuses(n + 2)')) % Wrap
    BY <1>9 DEF StatAt, Statuses
  <1> QED BY <1>5, <1>8, <1>10 DEF Numbered

(* Taking one that carries it leaves the next to be expected. *)
LEMMA ReceiveNumbered ==
  ASSUME TypeOK, Numbered, Receive
  PROVE  Numbered'
  <1> DEFINE p == Head(toInitiator)
  <1>1. toInitiator # << >> /\ toInitiator' = Tail(toInitiator) /\ statSN' = statSN
    BY DEF Receive, writerVars
  <1>2. PICK n \in Nat \ {0} : n = Len(toInitiator)
    BY <1>1, StatusesTaken
  <1>3. /\ Len(toInitiator') = n - 1
        /\ \A i \in 1 .. n - 1 : toInitiator'[i] = toInitiator[i + 1]
        /\ \A i \in 1 .. n : /\ Cardinality(Statuses(i)') \in Nat
                             /\ Cardinality(Statuses(i + 1)) =
                                  Cardinality(Statuses(i)') + Bit(IsCounted(p))
    BY <1>1, <1>2, StatusesTaken
  <1>4. expStatSN' = IF IsCounted(p) THEN After(expStatSN) ELSE expStatSN
    <2>1. CASE IsCounted(p)
      <3>1. p = toInitiator[1] /\ 1 \in Wire /\ p.type # "data" /\ expStatSN' = After(p.stat)
        BY <1>1, <1>2, <2>1 DEF TypeOK, Wire, Receive, IsCounted
      <3>2. Statuses(1) = {}
        BY DEF Statuses
      <3>3. p.stat = (expStatSN + 0) % Wrap
        BY <3>1, <3>2, FS_EmptySet DEF Numbered, StatusCounted
      <3>4. expStatSN \in 0 .. Wrap - 1 /\ Wrap \in Nat \ {0}
        BY ExchangeAssumption DEF TypeOK, SN
      <3>5. (expStatSN + 0) % Wrap = expStatSN
        BY <3>4
      <3> QED BY <2>1, <3>1, <3>3, <3>5
    <2>2. CASE ~IsCounted(p)
      BY <2>2 DEF Receive, IsCounted
    <2> QED BY <2>1, <2>2
  <1> HIDE DEF p
  <1>5. ASSUME NEW i \in 1 .. n
        PROVE  (expStatSN' + Cardinality(Statuses(i)')) % Wrap = StatAt(i + 1)
    <2>1. Cardinality(Statuses(i + 1)) = Cardinality(Statuses(i)') + Bit(IsCounted(p))
      BY <1>3
    <2>3. expStatSN \in SN
      BY DEF TypeOK
    <2>4. PICK k \in Nat : k = Cardinality(Statuses(i)')
      BY <1>3
    <2>5. CASE IsCounted(p)
      <3>1. expStatSN' = After(expStatSN) /\ Cardinality(Statuses(i + 1)) = k + 1
        BY <1>4, <2>1, <2>4, <2>5 DEF Bit
      <3> QED BY <2>3, <2>4, <3>1, NextStat DEF StatAt
    <2>6. CASE ~IsCounted(p)
      <3>1. expStatSN' = expStatSN /\ Cardinality(Statuses(i + 1)) = k
        BY <1>4, <2>1, <2>4, <2>6 DEF Bit
      <3> QED BY <2>4, <3>1 DEF StatAt
    <2> QED BY <2>5, <2>6
  <1>6. StatusCounted'
    <2> SUFFICES ASSUME NEW i \in 1 .. n - 1, toInitiator'[i].type # "data"
                 PROVE  toInitiator'[i].stat = (expStatSN' + Cardinality(Statuses(i)')) % Wrap
      BY <1>3 DEF StatusCounted, Wire
    <2>1. toInitiator'[i] = toInitiator[i + 1] /\ i + 1 \in Wire /\ i \in 1 .. n
      BY <1>2, <1>3 DEF Wire
    <2>2. toInitiator[i + 1].stat = StatAt(i + 1)
      BY <2>1 DEF Numbered, StatusCounted, StatAt
    <2> QED BY <1>5, <2>1, <2>2
  <1>7. statSN' = StatAt(Len(toInitiator) + 1)'
    <2>1. Len(toInitiator') + 1 = n
      BY <1>2, <1>3
    <2>2. StatAt(Len(toInitiator) + 1)' = (expStatSN' + Cardinality(Statuses(n)')) % Wrap
      BY <2>1 DEF StatAt, Statuses
    <2>3. statSN = StatAt(n + 1)
      BY <1>2 DEF Numbered
    <2> QED BY <1>1, <1>2, <1>5, <2>2, <2>3
  <1> QED BY <1>6, <1>7 DEF Numbered

LEMMA WriterNumbered ==
  ASSUME TypeOK, Numbered, Login \/ PutSegment \/ PutStatus \/ PutR2T
  PROVE  Numbered'
  <1>1. expStatSN' = expStatSN
    BY DEF Login, PutSegment, PutStatus, PutR2T, initiatorVars
  <1>2. CASE Login
    <2>1. PICK p \in Replies : Put(p) /\ p.type = "login" /\ p.stat = statSN
      BY <1>2, LoginAnswered
    <2>2. statSN' = After(statSN)
      BY <1>2 DEF Login
    <2> QED BY <1>1, <2>1, <2>2, PutNumbered DEF IsCounted
  <1>3. CASE PutSegment
    <2>1. PICK p \in Replies : Put(p) /\ p.type = "data"
      BY <1>3, SegmentSent
    <2>2. statSN' = statSN
      BY <1>3 DEF PutSegment
    <2> QED BY <1>1, <2>1, <2>2, PutNumbered DEF IsCounted
  <1>4. CASE PutStatus
    <2>1. PICK p \in Replies : Put(p) /\ p.type = "status" /\ p.stat = statSN
      BY <1>4, StatusSent
    <2>2. statSN' = After(statSN)
      BY <1>4 DEF PutStatus
    <2> QED BY <1>1, <2>1, <2>2, PutNumbered DEF IsCounted
  <1>5. CASE PutR2T
    <2>1. PICK p \in Replies : Put(p) /\ p.type = "r2t" /\ p.stat = statSN
      BY <1>5, R2TSent
    <2>2. statSN' = statSN
      BY <1>5 DEF PutR2T
    <2> QED BY <1>1, <2>1, <2>2, PutNumbered DEF IsCounted
  <1> QED BY <1>2, <1>3, <1>4, <1>5

LEMMA NextNumbered == TypeOK /\ Numbered /\ [Next]_vars => Numbered'
  <1> SUFFICES ASSUME TypeOK, Numbered, [Next]_vars PROVE Numbered'
    OBVIOUS
  <1>1. CASE UNCHANGED <<toInitiator, expStatSN, statSN>>
    BY <1>1 DEF Numbered, StatusCounted, Wire, StatAt, Statuses
  <1>2. CASE UNCHANGED vars
    BY <1>1, <1>2 DEF vars, initiatorVars, writerVars
  <1>3. CASE \/ \E declares, last \in BOOLEAN, l \in Limits : SendLogin(declares, l, last)
             \/ \E x \in Menu : SendCommand(x)
    BY <1>1, <1>3 DEF SendLogin, SendCommand, writerVars
  <1>4. CASE \/ ReadCommand \/ OpenWindow \/ ReadDataOut \/ \E c \in Cmds : Answer(c)
             \/ TakeMessage \/ LoadExp
    BY <1>1, <1>4 DEF ReadCommand, OpenWindow, ReadDataOut, Answer, TakeMessage, LoadExp,
       initiatorVars, writerVars
  <1> QED BY <1>2, <1>3, <1>4, ReceiveNumbered, WriterNumbered DEF Next

LEMMA InitNumbered == Init => Numbered
  <1> SUFFICES ASSUME Init PROVE Numbered
    OBVIOUS
  <1>1. Len(toInitiator) = 0 /\ Wire = {}
    BY DEF Init, Wire
  <1>2. Statuses(Len(toInitiator) + 1) = {}
    BY <1>1 DEF Statuses
  <1>3. (expStatSN + 0) % Wrap = 1
    BY ExchangeAssumption DEF Init
  <1>4. statSN = StatAt(Len(toInitiator) + 1)
    BY <1>2, <1>3, FS_EmptySet DEF StatAt, Init
  <1> QED BY <1>1, <1>4 DEF Numbered, StatusCounted

(* From the first login response on every response carries the StatSN the  *)
(* initiator expects after those before it, and an R2T the next one: the   *)
(* login loop and the writer task number them from one counter (login.rs,  *)
(* pdu_io.rs) and nothing else puts a response on the wire.                *)
THEOREM ResponsesCounted == Spec => []StatusCounted
  <1>1. Numbered => StatusCounted
    BY DEF Numbered
  <1> QED BY <1>1, InitTypes, NextTypes, InitNumbered, NextNumbered, PTL DEF Spec

-----------------------------------------------------------------------------
(* Before the last login response arrives nothing but the login is on its  *)
(* way, and afterwards the two sides agree on the limit.                   *)

Logging ==
  CASE ipc = "login" -> /\ toTarget = << >> /\ toInitiator = << >>
                        /\ tpc = "login" /\ limit = declared
    [] ipc = "asked" ->
         \/ /\ Len(toTarget) = 1 /\ toInitiator = << >> /\ tpc = "login"
            /\ Head(toTarget).type = "login"
            /\ declared = IF Head(toTarget).declares THEN Head(toTarget).limit ELSE limit
         \/ /\ toTarget = << >> /\ Len(toInitiator) = 1 /\ limit = declared
            /\ Head(toInitiator).type = "login"
            /\ tpc = IF Head(toInitiator).last THEN "read" ELSE "login"
    [] OTHER -> tpc # "login" /\ limit = declared

LoggedIn ==
  /\ Logging
  /\ ipc # "full" => cmd = << >>
  /\ ipc = "full" => /\ \A i \in DOMAIN toTarget : toTarget[i].type # "login"
                     /\ \A i \in DOMAIN toInitiator : toInitiator[i].type # "login"

-----------------------------------------------------------------------------
(* A command is in one place at a time.                                    *)

Occurs(q, T) == Cardinality(Before(q, T, Len(q) + 1))

Bound(c) == {m \in Messages : m.c = c}
InHand(c) == wmsg # NoMsg /\ wmsg.c = c

Places(c) ==
  Occurs(toTarget, Asking(c)) + Bit(c \in tasks) + Occurs(chan, Bound(c)) + Bit(InHand(c))
  + Occurs(toInitiator, Owed(c)) + Bit(Answered(c))

OnePlace == \A c \in Cmds : Places(c) <= 1

-----------------------------------------------------------------------------
(* What a message, a segment and a result say of their command. *)

MessageTrue(m) ==
  /\ m.type = "data" => HasData(cmd[m.c]) /\ m.len = Yield(cmd[m.c]) /\ m.want = cmd[m.c].want
  /\ m.type = "status" =>
       /\ ~HasData(cmd[m.c])
       /\ m.outs = Bit(Incomplete(cmd[m.c]))
       /\ m.want = IF cmd[m.c].kind = "test" THEN cmd[m.c].want ELSE 0

SegmentTrue(p) ==
  /\ HasData(cmd[p.c]) /\ p.len \in 1 .. declared
  /\ p.off + p.len <= Yield(cmd[p.c])
  /\ p.final <=> p.off + p.len = Yield(cmd[p.c])

ResultTrue(p) ==
  /\ ~HasData(cmd[p.c]) => p.expDataSN = Bit(Incomplete(cmd[p.c]))
  /\ cmd[p.c].kind \in {"read", "inquiry", "test"} =>
       (IF HasData(cmd[p.c]) THEN Yield(cmd[p.c]) ELSE 0) + p.residual = cmd[p.c].want

MessagesTrue ==
  /\ \A m \in Messages : Has(chan, {m}) \/ wmsg = m => MessageTrue(m)
  /\ \A p \in Replies : Has(toInitiator, {p}) =>
       /\ p.type = "data" => SegmentTrue(p)
       /\ p.type = "status" => ResultTrue(p)

-----------------------------------------------------------------------------
(* The segments of a command follow each other, first those that arrived,  *)
(* then those on the wire, where nothing comes between them.               *)

SegmentOf(p, c) == p.type = "data" /\ p.c = c

(* None arrived, none is on the wire before position i. *)
Unstarted(c, i) == data[c] = << >> /\ \A j \in 1 .. i - 1 : ~SegmentOf(toInitiator[j], c)

(* Before position i of the wire there are n of them, up to offset e. *)
Reached(c, i, n, e) ==
  \/ n = 0 /\ e = 0 /\ Unstarted(c, i)
  \/ /\ n > 0 /\ i > 1 /\ SegmentOf(toInitiator[i - 1], c)
     /\ toInitiator[i - 1].sn = n - 1 /\ toInitiator[i - 1].off + toInitiator[i - 1].len = e
  \/ n > 0 /\ i = 1 /\ Len(data[c]) = n /\ EndOf(data[c]) = e

(* A PDU in its place, a message in the writer's hand in its.              *)
PlacedAt(p, i) ==
  /\ p.type = "data" => Reached(p.c, i, p.sn, p.off)
  /\ p.type = "status" =>
       IF HasData(cmd[p.c]) THEN Reached(p.c, i, p.expDataSN, Yield(cmd[p.c]))
       ELSE Unstarted(p.c, i)

HeldAt(m, i, n, e) ==
  IF m.type = "data" THEN Reached(m.c, i, n, e) ELSE Unstarted(m.c, i)

WireOrdered ==
  \A i \in Wire, p \in Replies : toInitiator[i] = p =>
    /\ PlacedAt(p, i)
    /\ p.type = "status" => \A j \in i .. Len(toInitiator) : ~SegmentOf(toInitiator[j], p.c)

HandOrdered ==
  \A m \in Messages, i, n, e \in Nat :
    wmsg = m /\ i = Len(toInitiator) + 1 /\ n = wdata /\ e = woff => HeldAt(m, i, n, e)

(* Its data not begun: it is asked for, in a task, on its way to the       *)
(* writer, an R2T for it is on its way back, or it is yet to be sent.      *)
Ahead(c) ==
  \/ Has(toTarget, Asking(c)) \/ c \in tasks \/ Has(chan, Bound(c))
  \/ \E i \in Wire : toInitiator[i].type = "r2t" /\ toInitiator[i].c = c
  \/ c > Len(cmd)

NoneOnWire(c) == \A j \in Wire : ~SegmentOf(toInitiator[j], c)

RestOrdered ==
  \A c \in Cmds :
    /\ Ahead(c) => data[c] = << >> /\ NoneOnWire(c)
    /\ c > Len(cmd) => ~Answered(c)
    /\ Answered(c) => NoneOnWire(c)

Chained(c) ==
  \A i \in 1 .. Len(data[c]), p \in Segments : data[c][i] = p =>
    /\ p.c = c /\ p.sn = i - 1 /\ SegmentTrue(p)
    /\ p.off = IF i = 1 THEN 0 ELSE data[c][i - 1].off + data[c][i - 1].len

(* A command whose status p arrived. *)
Complete(c, p) ==
  /\ p.c = c /\ ResultTrue(p)
  /\ IF HasData(cmd[c]) THEN EndOf(data[c]) = Yield(cmd[c]) /\ p.expDataSN = Len(data[c])
     ELSE data[c] = << >>

Arrived ==
  \A c \in 1 .. Len(cmd) : Chained(c) /\ \A p \in Results : status[c] = p => Complete(c, p)

Ordered == MessagesTrue /\ WireOrdered /\ HandOrdered /\ RestOrdered /\ Arrived

-----------------------------------------------------------------------------
(* The lemmas about counting, for a whole queue. *)

LEMMA OccursNat ==
  ASSUME NEW S, NEW q \in Seq(S), NEW T
  PROVE  Occurs(q, T) \in Nat
  <1>1. Len(q) + 1 \in Nat
    OBVIOUS
  <1> QED BY <1>1, BeforeFinite DEF Occurs

LEMMA OccursAppend ==
  ASSUME NEW S, NEW q \in Seq(S), NEW x \in S, NEW T
  PROVE  Occurs(Append(q, x), T) = Occurs(q, T) + Bit(x \in T)
  <1>1. PICK n \in Nat : n = Len(q)
    OBVIOUS
  <1>2. Len(Append(q, x)) + 1 = n + 2
    BY <1>1
  <1>3. Cardinality(Before(Append(q, x), T, n + 2)) =
          Cardinality(Before(q, T, n + 1)) + Bit(x \in T)
    BY <1>1, BeforeAppend DEF Bit
  <1> QED BY <1>1, <1>2, <1>3 DEF Occurs

LEMMA OccursTail ==
  ASSUME NEW S, NEW q \in Seq(S), q # << >>, NEW T
  PROVE  Occurs(q, T) = Occurs(Tail(q), T) + Bit(Head(q) \in T)
  <1>1. PICK n \in Nat \ {0} : n = Len(q)
    OBVIOUS
  <1>2. Len(Tail(q)) + 1 = n /\ n \in 1 .. Len(q)
    BY <1>1
  <1>3. Cardinality(Before(q, T, n + 1)) = Cardinality(Before(Tail(q), T, n)) + Bit(Head(q) \in T)
    BY <1>2, BeforeTail
  <1> QED BY <1>1, <1>2, <1>3 DEF Occurs

LEMMA OccursSome ==
  ASSUME NEW S, NEW q \in Seq(S), NEW T
  PROVE  Has(q, T) <=> Occurs(q, T) # 0
  <1> DEFINE B == Before(q, T, Len(q) + 1)
  <1>1. IsFiniteSet(B) /\ Occurs(q, T) = Cardinality(B)
    BY BeforeFinite DEF Occurs
  <1>2. Has(q, T) <=> B # {}
    BY DEF Has, Before
  <1> HIDE DEF B
  <1> QED BY <1>1, <1>2, FS_EmptySet

-----------------------------------------------------------------------------
(* The login phase *)

(* Until it is over there is no command and nothing to answer one. *)
LEMMA NoCommandYet ==
  ASSUME TypeOK, LoggedIn, ipc # "full"
  PROVE  /\ tasks = {} /\ chan = << >> /\ wmsg = NoMsg /\ wpc = "recv" /\ tpc # "open"
         /\ Len(cmd) = 0
         /\ \A i \in DOMAIN toTarget : toTarget[i].type = "login"
         /\ \A i \in DOMAIN toInitiator : toInitiator[i].type = "login"
  <1>1. Len(cmd) = 0
    BY DEF LoggedIn
  <1>2. tasks = {}
    BY <1>1 DEF TypeOK
  <1>3. chan = << >>
    <2> SUFFICES ASSUME chan # << >> PROVE FALSE
      OBVIOUS
    <2>1. Head(chan) \in Messages /\ Head(chan).c <= 0
      BY <1>1, TailAt, NamedTail DEF TypeOK
    <2> QED BY <2>1, MessageIs DEF Cmds
  <1>4. wmsg = NoMsg /\ wpc = "recv"
    BY <1>1, MessageIs DEF TypeOK, Cmds
  <1>5. ASSUME NEW i \in DOMAIN toTarget PROVE toTarget[i].type = "login"
    <2>1. toTarget[i] \in Requests /\ toTarget[i].c <= 0
      BY <1>1 DEF TypeOK, Named
    <2> QED BY <2>1, RequestIs DEF Cmds
  <1>6. ASSUME NEW i \in DOMAIN toInitiator PROVE toInitiator[i].type = "login"
    <2>1. toInitiator[i] \in Replies /\ toInitiator[i].c <= 0
      BY <1>1 DEF TypeOK, Named
    <2> QED BY <2>1, ReplyIs DEF Cmds
  <1>7. tpc # "open"
    <2> SUFFICES ASSUME tpc = "open" PROVE FALSE
      OBVIOUS
    <2>1. toTarget # << >> /\ Head(toTarget).type = "command" /\ toTarget \in Seq(Requests)
      BY DEF TypeOK
    <2>2. 1 \in DOMAIN toTarget /\ Head(toTarget) = toTarget[1]
      BY <2>1, TailAt
    <2> QED BY <1>5, <2>1, <2>2
  <1> QED BY <1>1, <1>2, <1>3, <1>4, <1>5, <1>6, <1>7

LEMMA SendLoginLogged ==
  ASSUME TypeOK, LoggedIn, NEW declares \in BOOLEAN, NEW l \in Limits, NEW last \in BOOLEAN,
         SendLogin(declares, l, last)
  PROVE  LoggedIn'
  <1> DEFINE p == [type |-> "login", c |-> 0, sn |-> cmdSN, declares |-> declares,
                   limit |-> l, last |-> last]
  <1>1. /\ ipc = "login" /\ ipc' = "asked" /\ toTarget' = Append(toTarget, p)
        /\ declared' = (IF declares THEN l ELSE declared)
        /\ UNCHANGED <<toInitiator, tpc, limit, cmd>>
    BY DEF SendLogin, readerVars
  <1>2. /\ toTarget = << >> /\ toInitiator = << >> /\ tpc = "login" /\ limit = declared
        /\ cmd = << >>
    BY <1>1 DEF LoggedIn, Logging
  <1>3. Len(toTarget') = 1 /\ Head(toTarget') = p
    BY <1>1, <1>2
  <1>4. Logging'
    BY <1>1, <1>2, <1>3 DEF Logging
  <1> QED BY <1>1, <1>2, <1>4 DEF LoggedIn

LEMMA LoginLogged ==
  ASSUME TypeOK, LoggedIn, Login
  PROVE  LoggedIn'
  <1> DEFINE p == Head(toTarget)
  <1>1. /\ toTarget # << >> /\ p.type = "login" /\ tpc = "login" /\ toTarget \in Seq(Requests)
    BY DEF Login, Next_, TypeOK
  <1>2. 1 \in DOMAIN toTarget /\ p = toTarget[1]
    BY <1>1, TailAt
  <1>3. /\ ipc = "asked" /\ Len(toTarget) = 1 /\ toInitiator = << >> /\ cmd = << >>
        /\ declared = IF p.declares THEN p.limit ELSE limit
    <2>1. ipc # "full"
      BY <1>1, <1>2 DEF LoggedIn, Logging, TypeOK
    <2> QED BY <1>1, <2>1 DEF LoggedIn, Logging, TypeOK
  <1> HIDE DEF p
  <1>4. PICK r : toInitiator' = Append(toInitiator, r) /\ r.type = "login" /\ r.last = p.last
    BY DEF Login, p
  <1>5. toTarget' = << >>
    BY <1>1, <1>3 DEF Login, Take
  <1>6. Len(toInitiator') = 1 /\ Head(toInitiator') = r
    BY <1>3, <1>4
  <1>7. /\ ipc' = "asked" /\ cmd' = << >> /\ declared' = declared
        /\ limit' = (IF p.declares THEN p.limit ELSE limit)
        /\ tpc' = IF p.last THEN "read" ELSE "login"
    BY <1>3 DEF Login, p, initiatorVars
  <1>8. Logging'
    BY <1>3, <1>4, <1>5, <1>6, <1>7 DEF Logging
  <1> QED BY <1>7, <1>8 DEF LoggedIn

LEMMA ReceiveLogged ==
  ASSUME TypeOK, LoggedIn, Receive
  PROVE  LoggedIn'
  <1> DEFINE p == Head(toInitiator)
  <1>1. /\ toInitiator # << >> /\ toInitiator' = Tail(toInitiator) /\ p \in Replies
        /\ toInitiator \in Seq(Replies) /\ UNCHANGED <<tpc, limit, declared, cmd>>
        /\ 1 \in DOMAIN toInitiator /\ p = toInitiator[1]
    BY TailAt DEF Receive, TypeOK, readerVars
  <1>2. p.type = "login" => ipc' = (IF p.last THEN "full" ELSE "login") /\ toTarget' = toTarget
    BY DEF Receive
  <1>3. p.type # "login" => ipc' = ipc
    BY DEF Receive
  <1>4. toTarget' = toTarget \/ \E d : toTarget' = Append(toTarget, d) /\ d.type = "dataOut"
                                      /\ d \in Requests
    <2>1. p.type = "r2t" => [type |-> "dataOut", c |-> p.c] \in Requests
      BY <1>1, ReplyIs DEF Requests
    <2> QED BY <2>1 DEF Receive
  <1> HIDE DEF p
  <1>5. CASE ipc # "full"
    <2>1. p.type = "login"
      BY <1>1, <1>5, NoCommandYet
    <2>2. ipc = "asked" /\ toTarget = << >> /\ Len(toInitiator) = 1 /\ limit = declared
          /\ tpc = IF p.last THEN "read" ELSE "login"
      <3>1. Head(toInitiator) = p
        BY DEF p
      <3> QED BY <1>1, <1>5, <3>1 DEF LoggedIn, Logging, TypeOK
    <2>3. toInitiator' = << >> /\ toTarget' = << >> /\ cmd = << >>
      BY <1>1, <1>2, <1>5, <2>1, <2>2 DEF LoggedIn
    <2>4. ipc' = IF p.last THEN "full" ELSE "login"
      BY <1>2, <2>1
    <2> QED BY <1>1, <2>2, <2>3, <2>4 DEF LoggedIn, Logging
  <1>6. CASE ipc = "full"
    <2>1. ipc' = "full"
      BY <1>1, <1>3, <1>6 DEF LoggedIn
    <2>2. \A i \in DOMAIN toInitiator' : toInitiator'[i].type # "login"
      BY <1>1, <1>6, TailAt DEF LoggedIn
    <2>3. \A i \in DOMAIN toTarget' : toTarget'[i].type # "login"
      <3>1. toTarget \in Seq(Requests) /\ \A i \in DOMAIN toTarget : toTarget[i].type # "login"
        BY <1>6 DEF LoggedIn, TypeOK
      <3>2. CASE toTarget' = toTarget
        BY <3>1, <3>2
      <3>3. CASE toTarget' # toTarget
        <4>1. PICK d \in Requests : toTarget' = Append(toTarget, d) /\ d.type = "dataOut"
          BY <1>4, <3>3
        <4> QED BY <3>1, <4>1
      <3> QED BY <3>2, <3>3
    <2> QED BY <1>1, <1>6, <2>1, <2>2, <2>3 DEF LoggedIn, Logging
  <1> QED BY <1>5, <1>6

(* Once it is over the other steps leave the limit and send no login. *)
LEMMA FullLogged ==
  ASSUME TypeOK, LoggedIn, ipc = "full", UNCHANGED <<ipc, limit, declared>>, tpc' # "login",
         \/ toTarget' = toTarget
         \/ toTarget # << >> /\ toTarget' = Tail(toTarget)
         \/ \E d \in Requests : toTarget' = Append(toTarget, d) /\ d.type # "login",
         \/ toInitiator' = toInitiator
         \/ \E d \in Replies : toInitiator' = Append(toInitiator, d) /\ d.type # "login"
  PROVE  LoggedIn'
  <1>1. toTarget \in Seq(Requests) /\ toInitiator \in Seq(Replies)
    BY DEF TypeOK
  <1>2. \A i \in DOMAIN toTarget : toTarget[i].type # "login"
    BY DEF LoggedIn
  <1>3. \A i \in DOMAIN toInitiator : toInitiator[i].type # "login"
    BY DEF LoggedIn
  <1>4. \A i \in DOMAIN toTarget' : toTarget'[i].type # "login"
    <2>1. CASE toTarget' = toTarget
      BY <1>2, <2>1
    <2>2. CASE toTarget # << >> /\ toTarget' = Tail(toTarget)
      BY <1>1, <1>2, <2>2, TailAt
    <2>3. CASE \E d \in Requests : toTarget' = Append(toTarget, d) /\ d.type # "login"
      BY <1>1, <1>2, <2>3
    <2> QED BY <2>1, <2>2, <2>3
  <1>5. \A i \in DOMAIN toInitiator' : toInitiator'[i].type # "login"
    BY <1>1, <1>3
  <1>6. Logging'
    BY DEF LoggedIn, Logging
  <1> QED BY <1>4, <1>5, <1>6 DEF LoggedIn

LEMMA OthersLogged ==
  ASSUME TypeOK, LoggedIn,
         \/ \E x \in Menu : SendCommand(x)
         \/ ReadCommand \/ OpenWindow \/ ReadDataOut
         \/ \E c \in Cmds : Answer(c)
         \/ TakeMessage \/ LoadExp \/ PutSegment \/ PutStatus \/ PutR2T
  PROVE  LoggedIn'
  <1>1. ipc = "full"
    <2> SUFFICES ASSUME ipc # "full" PROVE FALSE
      OBVIOUS
    <2>1. /\ tasks = {} /\ chan = << >> /\ wpc = "recv" /\ tpc # "open"
          /\ \A i \in DOMAIN toTarget : toTarget[i].type = "login"
      BY NoCommandYet
    <2>2. toTarget # << >> => Head(toTarget).type = "login"
      <3> SUFFICES ASSUME toTarget # << >> PROVE Head(toTarget).type = "login"
        OBVIOUS
      <3>1. 1 \in DOMAIN toTarget /\ Head(toTarget) = toTarget[1]
        BY TailAt DEF TypeOK
      <3> QED BY <2>1, <3>1
    <2> QED BY <2>1, <2>2 DEF SendCommand, ReadCommand, OpenWindow, ReadDataOut, Answer, TakeMessage,
            LoadExp, PutSegment, PutStatus, PutR2T, Next_
  <1>2. tpc # "login"
    BY <1>1 DEF LoggedIn, Logging
  <1>3. CASE \E x \in Menu : SendCommand(x)
    <2>1. \E d \in Requests : toTarget' = Append(toTarget, d) /\ d.type # "login"
      <3>1. PICK x \in Menu : SendCommand(x)
        BY <1>3
      <3>2. [type |-> "command", c |-> Len(cmd) + 1] \in Requests
        BY <3>1 DEF SendCommand, Requests
      <3> QED BY <3>1, <3>2 DEF SendCommand
    <2>2. UNCHANGED <<ipc, limit, declared, tpc, toInitiator>>
      BY <1>3 DEF SendCommand, readerVars
    <2> QED BY <1>1, <1>2, <2>1, <2>2, FullLogged
  <1>4. CASE ReadCommand \/ OpenWindow \/ ReadDataOut
    <2>1. UNCHANGED <<ipc, limit, declared, toInitiator>> /\ tpc' # "login"
      BY <1>2, <1>4 DEF ReadCommand, OpenWindow, ReadDataOut, initiatorVars, readerVars
    <2>2. toTarget' = toTarget \/ (toTarget # << >> /\ toTarget' = Tail(toTarget))
      <3>1. toTarget # << >>
        BY <1>4 DEF ReadCommand, OpenWindow, ReadDataOut, Next_, TypeOK
      <3>2. toTarget' = toTarget \/ Take
        BY <1>4 DEF ReadCommand, OpenWindow, ReadDataOut
      <3> QED BY <3>1, <3>2 DEF Take
    <2> QED BY <1>1, <2>1, <2>2, FullLogged
  <1>5. CASE (\E c \in Cmds : Answer(c)) \/ TakeMessage \/ LoadExp
    <2>1. UNCHANGED <<ipc, limit, declared, tpc, toTarget, toInitiator>>
      BY <1>5 DEF Answer, TakeMessage, LoadExp, initiatorVars, readerVars
    <2> QED BY <1>1, <1>2, <2>1, FullLogged
  <1>6. CASE PutSegment \/ PutStatus \/ PutR2T
    <2>1. UNCHANGED <<ipc, limit, declared, tpc, toTarget>>
      BY <1>6 DEF PutSegment, PutStatus, PutR2T, initiatorVars, readerVars
    <2>2. \E p \in Replies : Put(p) /\ p.type # "login"
      BY <1>6, SegmentSent, StatusSent, R2TSent
    <2> QED BY <1>1, <1>2, <2>1, <2>2, FullLogged DEF Put
  <1> QED BY <1>3, <1>4, <1>5, <1>6

LEMMA NextLogged == TypeOK /\ LoggedIn /\ [Next]_vars => LoggedIn'
  <1> SUFFICES ASSUME TypeOK, LoggedIn, [Next]_vars PROVE LoggedIn'
    OBVIOUS
  <1>1. CASE UNCHANGED vars
    BY <1>1 DEF vars, initiatorVars, readerVars, LoggedIn, Logging
  <1>2. CASE Next
    BY <1>2, SendLoginLogged, LoginLogged, ReceiveLogged, OthersLogged DEF Next
  <1> QED BY <1>1, <1>2

-----------------------------------------------------------------------------
(* A command moves from place to place. *)

LEMMA PlacesNat ==
  ASSUME TypeOK, NEW c
  PROVE  /\ Occurs(toTarget, Asking(c)) \in Nat /\ Occurs(chan, Bound(c)) \in Nat
         /\ Occurs(toInitiator, Owed(c)) \in Nat
         /\ \A b \in BOOLEAN : Bit(b) \in 0 .. 1 /\ (Bit(b) = 1 <=> b)
  <1>1. toTarget \in Seq(Requests) /\ chan \in Seq(Messages) /\ toInitiator \in Seq(Replies)
    BY DEF TypeOK
  <1>2. /\ Occurs(toTarget, Asking(c)) \in Nat /\ Occurs(chan, Bound(c)) \in Nat
        /\ Occurs(toInitiator, Owed(c)) \in Nat
    BY <1>1, OccursNat
  <1>3. \A b \in BOOLEAN : Bit(b) \in 0 .. 1 /\ (Bit(b) = 1 <=> b)
    BY DEF Bit
  <1> QED BY <1>2, <1>3

(* What a step adds to a queue, or takes from one, is added or taken.      *)
LEMMA RequestCounts ==
  ASSUME TypeOK, NEW c
  PROVE  /\ \A p \in Requests : toTarget' = Append(toTarget, p) =>
              Occurs(toTarget, Asking(c))' =
                Occurs(toTarget, Asking(c)) + (IF p.type # "login" /\ p.c = c THEN 1 ELSE 0)
         /\ toTarget # << >> /\ toTarget' = Tail(toTarget) =>
              Occurs(toTarget, Asking(c)) = Occurs(toTarget, Asking(c))'
                + (IF Head(toTarget).type # "login" /\ Head(toTarget).c = c THEN 1 ELSE 0)
  <1>1. toTarget \in Seq(Requests)
    BY DEF TypeOK
  <1>2. \A p \in Requests : Bit(p \in Asking(c)) = IF p.type # "login" /\ p.c = c THEN 1 ELSE 0
    BY DEF Asking, Bit
  <1>3. Occurs(toTarget, Asking(c))' = Occurs(toTarget', Asking(c))
    BY DEF Asking, Occurs, Before
  <1>4. \A p \in Requests :
            Occurs(Append(toTarget, p), Asking(c)) =
              Occurs(toTarget, Asking(c)) + Bit(p \in Asking(c))
    BY <1>1, OccursAppend
  <1>5. toTarget # << >> => /\ Occurs(toTarget, Asking(c)) =
                                 Occurs(Tail(toTarget), Asking(c)) + Bit(Head(toTarget) \in Asking(c))
                            /\ Head(toTarget) \in Requests
    BY <1>1, OccursTail, TailAt
  <1> QED BY <1>2, <1>3, <1>4, <1>5

LEMMA MessageCounts ==
  ASSUME TypeOK, NEW c
  PROVE  /\ \A m \in Messages : chan' = Append(chan, m) =>
              Occurs(chan, Bound(c))' = Occurs(chan, Bound(c)) + (IF m.c = c THEN 1 ELSE 0)
         /\ chan # << >> /\ chan' = Tail(chan) =>
              Occurs(chan, Bound(c)) = Occurs(chan, Bound(c))' + (IF Head(chan).c = c THEN 1 ELSE 0)
  <1>1. chan \in Seq(Messages)
    BY DEF TypeOK
  <1>2. \A m \in Messages : Bit(m \in Bound(c)) = IF m.c = c THEN 1 ELSE 0
    BY DEF Bound, Bit
  <1>3. Occurs(chan, Bound(c))' = Occurs(chan', Bound(c))
    BY DEF Bound, Occurs, Before
  <1>4. \A m \in Messages :
            Occurs(Append(chan, m), Bound(c)) = Occurs(chan, Bound(c)) + Bit(m \in Bound(c))
    BY <1>1, OccursAppend
  <1>5. chan # << >> => /\ Occurs(chan, Bound(c)) =
                             Occurs(Tail(chan), Bound(c)) + Bit(Head(chan) \in Bound(c))
                        /\ Head(chan) \in Messages
    BY <1>1, OccursTail, TailAt
  <1> QED BY <1>2, <1>3, <1>4, <1>5

LEMMA ReplyCounts ==
  ASSUME TypeOK, NEW c
  PROVE  /\ \A p \in Replies : Put(p) =>
              Occurs(toInitiator, Owed(c))' =
                Occurs(toInitiator, Owed(c)) + (IF p.type \in {"r2t", "status"} /\ p.c = c THEN 1 ELSE 0)
         /\ toInitiator # << >> /\ toInitiator' = Tail(toInitiator) =>
              Occurs(toInitiator, Owed(c)) = Occurs(toInitiator, Owed(c))'
                + (IF Head(toInitiator).type \in {"r2t", "status"} /\ Head(toInitiator).c = c THEN 1 ELSE 0)
  <1>1. toInitiator \in Seq(Replies)
    BY DEF TypeOK
  <1>2. \A p \in Replies :
            Bit(p \in Owed(c)) = IF p.type \in {"r2t", "status"} /\ p.c = c THEN 1 ELSE 0
    BY DEF Owed, Bit
  <1>3. Occurs(toInitiator, Owed(c))' = Occurs(toInitiator', Owed(c))
    BY DEF Owed, Occurs, Before
  <1>4. \A p \in Replies :
            Occurs(Append(toInitiator, p), Owed(c)) =
              Occurs(toInitiator, Owed(c)) + Bit(p \in Owed(c))
    BY <1>1, OccursAppend
  <1>5. toInitiator # << >> => /\ Occurs(toInitiator, Owed(c)) =
                                    Occurs(Tail(toInitiator), Owed(c)) + Bit(Head(toInitiator) \in Owed(c))
                               /\ Head(toInitiator) \in Replies
    BY <1>1, OccursTail, TailAt
  <1> QED BY <1>2, <1>3, <1>4, <1>5 DEF Put

(* A step that touches none of what places a command leaves it there. *)
LEMMA PlacesStay ==
  ASSUME UNCHANGED <<toTarget, tasks, chan, wmsg, toInitiator, status>>, NEW c
  PROVE  Places(c)' = Places(c)
  BY DEF Places, Occurs, Before, Asking, Bound, Owed, InHand, Answered, Bit

LEMMA LoginPlaces ==
  ASSUME TypeOK, NEW c,
         Login \/ \E declares, last \in BOOLEAN, l \in Limits : SendLogin(declares, l, last)
  PROVE  Places(c)' = Places(c)
  <1>1. UNCHANGED <<tasks, chan, wmsg, status>>
    BY DEF Login, SendLogin, initiatorVars, writerVars
  <1>2. Occurs(toTarget, Asking(c))' = Occurs(toTarget, Asking(c))
    <2>1. CASE Login
      <3>1. toTarget # << >> /\ toTarget' = Tail(toTarget) /\ Head(toTarget).type = "login"
        BY <2>1 DEF Login, Next_, Take
      <3>2. Occurs(toTarget, Asking(c)) = Occurs(toTarget, Asking(c))' + 0
        BY <3>1, RequestCounts
      <3>3. toTarget' \in Seq(Requests)
        BY <3>1 DEF TypeOK
      <3>4. Occurs(toTarget', Asking(c)) \in Nat
        BY <3>3, OccursNat
      <3>5. Occurs(toTarget, Asking(c))' = Occurs(toTarget', Asking(c))
        BY DEF Asking, Occurs, Before
      <3> QED BY <3>2, <3>4, <3>5
    <2>2. CASE \E declares, last \in BOOLEAN, l \in Limits : SendLogin(declares, l, last)
      <3>1. PICK p \in Requests : toTarget' = Append(toTarget, p) /\ p.type = "login"
        <4>1. PICK declares \in BOOLEAN, last \in BOOLEAN, l \in Limits : SendLogin(declares, l, last)
          BY <2>2
        <4>2. [type |-> "login", c |-> 0, sn |-> cmdSN, declares |-> declares, limit |-> l, last |-> last]
                \in Requests
          BY DEF Requests, TypeOK
        <4> QED BY <4>1, <4>2 DEF SendLogin
      <3>2. Occurs(toTarget, Asking(c))' = Occurs(toTarget, Asking(c)) + 0
        BY <3>1, RequestCounts
      <3> QED BY <3>2, PlacesNat
    <2> QED BY <2>1, <2>2
  <1>3. Occurs(toInitiator, Owed(c))' = Occurs(toInitiator, Owed(c))
    <2>1. CASE Login
      <3>1. PICK p \in Replies : Put(p) /\ p.type = "login"
        BY <2>1, LoginAnswered
      <3>2. Occurs(toInitiator, Owed(c))' = Occurs(toInitiator, Owed(c)) + 0
        BY <3>1, ReplyCounts
      <3> QED BY <3>2, PlacesNat
    <2>2. CASE \E declares, last \in BOOLEAN, l \in Limits : SendLogin(declares, l, last)
      BY <2>2 DEF SendLogin, Occurs, Before, Owed
    <2> QED BY <2>1, <2>2
  <1> QED BY <1>1, <1>2, <1>3 DEF Places, Occurs, Before, Bound, InHand, Answered, Bit

(* A command not sent is nowhere. *)
LEMMA UnsentNowhere ==
  ASSUME TypeOK, NEW c \in Cmds, c > Len(cmd), ~Answered(c)
  PROVE  Places(c) = 0
  <1>1. /\ toTarget \in Seq(Requests) /\ chan \in Seq(Messages) /\ toInitiator \in Seq(Replies)
        /\ Len(cmd) \in Nat
    BY DEF TypeOK
  <1>2. ~Has(toTarget, Asking(c)) /\ ~Has(chan, Bound(c)) /\ ~Has(toInitiator, Owed(c))
    BY <1>1 DEF TypeOK, Named, Has, Asking, Bound, Owed, Cmds
  <1>3. /\ Occurs(toTarget, Asking(c)) = 0 /\ Occurs(chan, Bound(c)) = 0
        /\ Occurs(toInitiator, Owed(c)) = 0
    BY <1>1, <1>2, OccursSome
  <1>4. c \notin tasks /\ ~InHand(c)
    BY <1>1 DEF TypeOK, InHand, Cmds
  <1> QED BY <1>3, <1>4 DEF Places, Bit

LEMMA CommandPlaces ==
  ASSUME TypeOK, OnePlace, \A c \in Cmds : c > Len(cmd) => ~Answered(c),
         NEW x \in Menu, SendCommand(x)
  PROVE  OnePlace'
  <1>0. PICK n \in Cmds : n = Len(cmd) + 1
    BY DEF SendCommand
  <1> DEFINE p == [type |-> "command", c |-> n]
  <1>1. p \in Requests /\ toTarget' = Append(toTarget, p)
    BY <1>0 DEF SendCommand, Requests
  <1>2. UNCHANGED <<tasks, chan, wmsg, toInitiator, status>>
    BY DEF SendCommand, writerVars
  <1> SUFFICES ASSUME NEW c \in Cmds PROVE Places(c)' <= 1
    BY DEF OnePlace
  <1>3. Occurs(toTarget, Asking(c))' = Occurs(toTarget, Asking(c)) + (IF n = c THEN 1 ELSE 0)
    BY <1>1, RequestCounts
  <1>4. Places(c)' = Places(c) + (IF n = c THEN 1 ELSE 0)
    <2>1. /\ Occurs(chan, Bound(c))' = Occurs(chan, Bound(c)) /\ Bit(c \in tasks)' = Bit(c \in tasks)
          /\ Bit(InHand(c))' = Bit(InHand(c)) /\ Bit(Answered(c))' = Bit(Answered(c))
          /\ Occurs(toInitiator, Owed(c))' = Occurs(toInitiator, Owed(c))
      BY <1>2 DEF Occurs, Before, Bound, Owed, InHand, Answered, Bit
    <2>2. /\ Occurs(toTarget, Asking(c)) \in Nat /\ Occurs(chan, Bound(c)) \in Nat
          /\ Occurs(toInitiator, Owed(c)) \in Nat
          /\ Bit(c \in tasks) \in Nat /\ Bit(InHand(c)) \in Nat /\ Bit(Answered(c)) \in Nat
      BY PlacesNat DEF Bit
    <2> QED BY <1>3, <2>1, <2>2 DEF Places
  <1>5. Places(c) <= 1 /\ (n = c => Places(c) = 0)
    BY <1>0, UnsentNowhere DEF OnePlace, TypeOK
  <1>6. Places(c) \in Int
    BY PlacesNat DEF Places, Bit
  <1> QED BY <1>4, <1>5, <1>6

(* What is not InHand, Answered or a task counts for nothing. *)
LEMMA BitNat ==
  ASSUME NEW c
  PROVE  /\ Bit(c \in tasks) \in Nat /\ Bit(InHand(c)) \in Nat /\ Bit(Answered(c)) \in Nat
         /\ Bit(c \in tasks) = (IF c \in tasks THEN 1 ELSE 0)
         /\ Bit(InHand(c)) = (IF wmsg # NoMsg /\ wmsg.c = c THEN 1 ELSE 0)
         /\ Bit(Answered(c)) = (IF status[c].type = "status" THEN 1 ELSE 0)
  BY DEF Bit, InHand, Answered

LEMMA BitNext ==
  ASSUME NEW c
  PROVE  /\ Bit(c \in tasks)' = (IF c \in tasks' THEN 1 ELSE 0)
         /\ Bit(InHand(c))' = (IF wmsg' # NoMsg /\ wmsg'.c = c THEN 1 ELSE 0)
         /\ Bit(Answered(c))' = (IF status'[c].type = "status" THEN 1 ELSE 0)
  BY DEF Bit, InHand, Answered

LEMMA ReceivePlaces ==
  ASSUME TypeOK, OnePlace, Receive
  PROVE  OnePlace'
  <1> DEFINE p == Head(toInitiator)
  <1>1. toInitiator # << >> /\ toInitiator' = Tail(toInitiator) /\ p \in Replies
    BY TailAt DEF Receive, TypeOK
  <1>2. UNCHANGED <<tasks, chan, wmsg>>
    BY DEF Receive, writerVars
  <1> SUFFICES ASSUME NEW c \in Cmds PROVE Places(c)' <= 1
    BY DEF OnePlace
  <1>3. Occurs(toTarget, Asking(c))' =
          Occurs(toTarget, Asking(c)) + (IF p.type = "r2t" /\ p.c = c THEN 1 ELSE 0)
    <2>1. CASE p.type = "r2t"
      <3>1. [type |-> "dataOut", c |-> p.c] \in Requests
        BY <1>1, <2>1, ReplyIs DEF Requests
      <3>2. toTarget' = Append(toTarget, [type |-> "dataOut", c |-> p.c])
        BY <2>1 DEF Receive
      <3> QED BY <2>1, <3>1, <3>2, RequestCounts
    <2>2. CASE p.type # "r2t"
      <3>1. toTarget' = toTarget
        BY <2>2 DEF Receive
      <3>2. Occurs(toTarget, Asking(c))' = Occurs(toTarget, Asking(c))
        BY <3>1 DEF Occurs, Before, Asking
      <3> QED BY <2>2, <3>2, PlacesNat
    <2> QED BY <2>1, <2>2
  <1>4. Occurs(toInitiator, Owed(c)) = Occurs(toInitiator, Owed(c))'
          + (IF p.type \in {"r2t", "status"} /\ p.c = c THEN 1 ELSE 0)
    BY <1>1, ReplyCounts
  <1>5. Occurs(chan, Bound(c))' = Occurs(chan, Bound(c))
    BY <1>2 DEF Occurs, Before, Bound
  <1>6. Occurs(toInitiator, Owed(c))' \in Nat
    <2>1. toInitiator' \in Seq(Replies)
      BY <1>1 DEF TypeOK
    <2>2. Occurs(toInitiator', Owed(c)) \in Nat
      BY <2>1, OccursNat
    <2> QED BY <2>2 DEF Occurs, Before, Owed
  <1>7. Bit(Answered(c))' <= Bit(Answered(c)) + (IF p.type = "status" /\ p.c = c THEN 1 ELSE 0)
    <2>1. CASE p.type = "status" /\ p.c = c
      BY <2>1, BitNat, BitNext
    <2>2. CASE ~(p.type = "status" /\ p.c = c)
      <3>1. status'[c] = status[c]
        BY <2>2 DEF Receive, TypeOK
      <3> QED BY <2>2, <3>1, BitNat, BitNext
    <2> QED BY <2>1, <2>2
  <1>8. Bit(c \in tasks)' = Bit(c \in tasks) /\ Bit(InHand(c))' = Bit(InHand(c))
    BY <1>2 DEF Bit, InHand
  <1>9. Places(c)' <= Places(c)
    <2> HIDE DEF p
    <2>1. /\ Occurs(toTarget, Asking(c)) \in Nat /\ Occurs(chan, Bound(c)) \in Nat
          /\ Occurs(toInitiator, Owed(c)) \in Nat
      BY PlacesNat
    <2>2. Bit(Answered(c))' \in Nat
      BY DEF Bit
    <2> QED BY <1>3, <1>4, <1>5, <1>6, <1>7, <1>8, <2>1, <2>2, BitNat DEF Places
  <1>10. Places(c) \in Int /\ Places(c)' \in Int /\ Places(c) <= 1
    <2>1. /\ Occurs(toTarget, Asking(c)) \in Nat /\ Occurs(chan, Bound(c)) \in Nat
          /\ Occurs(toInitiator, Owed(c)) \in Nat
      BY PlacesNat
    <2>2. Bit(Answered(c))' \in Nat
      BY DEF Bit
    <2>3. Places(c) \in Int /\ Places(c) <= 1
      BY <2>1, BitNat DEF Places, OnePlace
    <2>4. Places(c)' \in Int
      BY <1>3, <1>5, <1>6, <1>8, <2>1, <2>2, BitNat DEF Places
    <2> QED BY <2>3, <2>4
  <1> QED BY <1>9, <1>10

(* A command handed on: from the request to a task or to an R2T. *)
LEMMA DispatchPlaces ==
  ASSUME TypeOK, OnePlace, NEW d \in 1 .. Len(cmd), toTarget # << >>, Take,
         Head(toTarget).type # "login", Head(toTarget).c = d,
         \/ Dispatch(d)
         \/ tasks' = tasks \cup {d} /\ chan' = chan,
         UNCHANGED <<wmsg, toInitiator, status>>
  PROVE  OnePlace'
  <1> SUFFICES ASSUME NEW c \in Cmds PROVE Places(c)' <= 1
    BY DEF OnePlace
  <1>1. Occurs(toTarget, Asking(c)) = Occurs(toTarget, Asking(c))' + (IF d = c THEN 1 ELSE 0)
    BY RequestCounts DEF Take
  <1>2. /\ Occurs(toInitiator, Owed(c))' = Occurs(toInitiator, Owed(c))
        /\ Bit(InHand(c))' = Bit(InHand(c)) /\ Bit(Answered(c))' = Bit(Answered(c))
    BY DEF Occurs, Before, Owed, InHand, Answered, Bit
  <1>3. Occurs(toTarget, Asking(c))' \in Nat
    <2>1. toTarget' \in Seq(Requests)
      BY DEF Take, TypeOK
    <2>2. Occurs(toTarget', Asking(c)) \in Nat
      BY <2>1, OccursNat
    <2> QED BY <2>2 DEF Occurs, Before, Asking
  <1>4. /\ Occurs(chan, Bound(c))' \in Nat
        /\ Bit(c \in tasks)' \in Nat
        /\ Bit(c \in tasks)' + Occurs(chan, Bound(c))' <=
             Bit(c \in tasks) + Occurs(chan, Bound(c)) + (IF d = c THEN 1 ELSE 0)
    <2>1. CASE tasks' = tasks \cup {d} /\ chan' = chan
      <3>1. Occurs(chan, Bound(c))' = Occurs(chan, Bound(c))
        BY <2>1 DEF Occurs, Before, Bound
      <3>2. /\ Bit(c \in tasks)' \in Nat
            /\ Bit(c \in tasks)' <= Bit(c \in tasks) + (IF d = c THEN 1 ELSE 0)
        BY <2>1 DEF Bit
      <3>3. Occurs(chan, Bound(c)) \in Nat /\ Bit(c \in tasks) \in Nat
        BY PlacesNat, BitNat
      <3> QED BY <3>1, <3>2, <3>3
    <2>2. CASE tasks' = tasks /\ chan' = Append(chan, [type |-> "r2t", c |-> d])
      <3>1. [type |-> "r2t", c |-> d] \in Messages
        BY CommandIs DEF Messages
      <3>2. Occurs(chan, Bound(c))' = Occurs(chan, Bound(c)) + (IF d = c THEN 1 ELSE 0)
        BY <2>2, <3>1, MessageCounts
      <3>3. Bit(c \in tasks)' = Bit(c \in tasks)
        BY <2>2 DEF Bit
      <3>4. Occurs(chan, Bound(c)) \in Nat /\ Bit(c \in tasks) \in Nat
        BY PlacesNat, BitNat
      <3> QED BY <3>2, <3>3, <3>4
    <2> QED BY <2>1, <2>2 DEF Dispatch
  <1>5. /\ Occurs(toTarget, Asking(c)) \in Nat /\ Occurs(chan, Bound(c)) \in Nat
        /\ Occurs(toInitiator, Owed(c)) \in Nat
    BY PlacesNat
  <1>6. Places(c) <= 1
    BY DEF OnePlace
  <1>7. Places(c)' <= Places(c) /\ Places(c)' \in Int /\ Places(c) \in Int
    <2>1. PICK i, j, k \in Nat : i = Occurs(toTarget, Asking(c))' /\ j = Occurs(chan, Bound(c))'
                                 /\ k = Bit(c \in tasks)'
      BY <1>3, <1>4
    <2>2. PICK a, b, e \in Nat : a = Occurs(toTarget, Asking(c)) /\ b = Occurs(chan, Bound(c))
                                 /\ e = Bit(c \in tasks)
      BY <1>5, BitNat
    <2>3. PICK f, g, h \in Nat : f = Bit(InHand(c)) /\ g = Occurs(toInitiator, Owed(c))
                                 /\ h = Bit(Answered(c))
      BY <1>5, BitNat
    <2>4. Places(c)' = i + k + j + f + g + h
      BY <1>2, <2>1, <2>3 DEF Places
    <2>5. Places(c) = a + e + b + f + g + h
      BY <2>2, <2>3 DEF Places
    <2>6. PICK x \in Nat : x = IF d = c THEN 1 ELSE 0
      OBVIOUS
    <2>7. a = i + x /\ k + j <= e + b + x
      BY <1>1, <1>4, <2>1, <2>2, <2>6
    <2> QED BY <2>4, <2>5, <2>7
  <1> QED BY <1>6, <1>7

LEMMA AnswerPlaces ==
  ASSUME TypeOK, OnePlace, NEW d \in Cmds, d \in tasks, tasks' = tasks \ {d},
         NEW m \in Messages, chan' = Append(chan, m), m.c = d,
         UNCHANGED <<wmsg, toTarget, toInitiator, status>>
  PROVE  OnePlace'
  <1> SUFFICES ASSUME NEW c \in Cmds PROVE Places(c)' <= 1
    BY DEF OnePlace
  <1>1. Occurs(chan, Bound(c))' = Occurs(chan, Bound(c)) + (IF d = c THEN 1 ELSE 0)
    BY MessageCounts
  <1>2. Bit(c \in tasks) = Bit(c \in tasks)' + (IF d = c THEN 1 ELSE 0) /\ Bit(c \in tasks)' \in Nat
    BY DEF Bit
  <1>3. /\ Occurs(toInitiator, Owed(c))' = Occurs(toInitiator, Owed(c))
        /\ Occurs(toTarget, Asking(c))' = Occurs(toTarget, Asking(c))
        /\ Bit(InHand(c))' = Bit(InHand(c)) /\ Bit(Answered(c))' = Bit(Answered(c))
    BY DEF Occurs, Before, Owed, Asking, InHand, Answered, Bit
  <1>4. Places(c) <= 1
    BY DEF OnePlace
  <1> QED BY <1>1, <1>2, <1>3, <1>4, PlacesNat, BitNat DEF Places

LEMMA TakePlaces ==
  ASSUME TypeOK, OnePlace, TakeMessage
  PROVE  OnePlace'
  <1> SUFFICES ASSUME NEW c \in Cmds PROVE Places(c)' <= 1
    BY DEF OnePlace
  <1>1. /\ chan # << >> /\ chan' = Tail(chan) /\ wmsg = NoMsg /\ (wmsg' = NoMsg \/ wmsg' = Head(chan))
        /\ UNCHANGED <<tasks, toTarget, toInitiator, status>>
    BY DEF TakeMessage, TypeOK, initiatorVars
  <1>2. Occurs(chan, Bound(c)) = Occurs(chan, Bound(c))' + (IF Head(chan).c = c THEN 1 ELSE 0)
    BY <1>1, MessageCounts
  <1>3. /\ Bit(InHand(c)) = 0 /\ Bit(InHand(c))' \in Nat
        /\ Bit(InHand(c))' <= (IF Head(chan).c = c THEN 1 ELSE 0)
    BY <1>1, BitNat, BitNext
  <1>4. /\ Occurs(toInitiator, Owed(c))' = Occurs(toInitiator, Owed(c))
        /\ Occurs(toTarget, Asking(c))' = Occurs(toTarget, Asking(c))
        /\ Bit(c \in tasks)' = Bit(c \in tasks) /\ Bit(Answered(c))' = Bit(Answered(c))
    BY <1>1 DEF Occurs, Before, Owed, Asking, Answered, Bit
  <1>5. Occurs(chan, Bound(c))' \in Nat
    <2>1. chan' \in Seq(Messages)
      BY <1>1 DEF TypeOK
    <2>2. Occurs(chan', Bound(c)) \in Nat
      BY <2>1, OccursNat
    <2> QED BY <2>2 DEF Occurs, Before, Bound
  <1>6. Places(c) <= 1
    BY DEF OnePlace
  <1> QED BY <1>2, <1>3, <1>4, <1>5, <1>6, PlacesNat, BitNat DEF Places

LEMMA WriterPlaces ==
  ASSUME TypeOK, OnePlace, NEW p \in Replies, Put(p),
         \/ p.type = "data" /\ wmsg' = wmsg
         \/ p.type \in {"status", "r2t"} /\ p.c = wmsg.c /\ wmsg # NoMsg /\ wmsg' = NoMsg,
         UNCHANGED <<toTarget, tasks, chan, status>>
  PROVE  OnePlace'
  <1> SUFFICES ASSUME NEW c \in Cmds PROVE Places(c)' <= 1
    BY DEF OnePlace
  <1>1. Occurs(toInitiator, Owed(c))' =
          Occurs(toInitiator, Owed(c)) + (IF p.type \in {"r2t", "status"} /\ p.c = c THEN 1 ELSE 0)
    BY ReplyCounts
  <1>2. /\ Bit(InHand(c))' \in Nat
        /\ Bit(InHand(c)) =
             Bit(InHand(c))' + (IF p.type \in {"r2t", "status"} /\ p.c = c THEN 1 ELSE 0)
    <2>1. CASE p.type = "data" /\ wmsg' = wmsg
      BY <2>1, BitNat, BitNext
    <2>2. CASE p.type \in {"status", "r2t"} /\ p.c = wmsg.c /\ wmsg # NoMsg /\ wmsg' = NoMsg
      BY <2>2, BitNat, BitNext
    <2> QED BY <2>1, <2>2
  <1>3. /\ Occurs(chan, Bound(c))' = Occurs(chan, Bound(c))
        /\ Occurs(toTarget, Asking(c))' = Occurs(toTarget, Asking(c))
        /\ Bit(c \in tasks)' = Bit(c \in tasks) /\ Bit(Answered(c))' = Bit(Answered(c))
    BY DEF Occurs, Before, Bound, Asking, Answered, Bit
  <1>4. Places(c) <= 1
    BY DEF OnePlace
  <1> QED BY <1>1, <1>2, <1>3, <1>4, PlacesNat, BitNat DEF Places

-----------------------------------------------------------------------------
(* The order of a command's data *)

(* A message in the writer's hand is all there is of its command.          *)
LEMMA Alone ==
  ASSUME TypeOK, OnePlace, NEW c \in Cmds, InHand(c)
  PROVE  /\ ~Has(toTarget, Asking(c)) /\ c \notin tasks /\ ~Has(chan, Bound(c))
         /\ ~Has(toInitiator, Owed(c)) /\ ~Answered(c)
  <1>1. toTarget \in Seq(Requests) /\ chan \in Seq(Messages) /\ toInitiator \in Seq(Replies)
    BY DEF TypeOK
  <1>2. PICK i, j, k \in Nat : i = Occurs(toTarget, Asking(c)) /\ j = Occurs(chan, Bound(c))
                              /\ k = Occurs(toInitiator, Owed(c))
    BY PlacesNat
  <1>3. PICK a, b \in Nat : a = Bit(c \in tasks) /\ b = Bit(Answered(c))
    BY BitNat
  <1>4. Bit(InHand(c)) = 1
    BY DEF Bit
  <1>5. i + a + j + 1 + k + b <= 1
    BY <1>2, <1>3, <1>4 DEF OnePlace, Places
  <1>6. i = 0 /\ a = 0 /\ j = 0 /\ k = 0 /\ b = 0
    BY <1>5
  <1>7. c \notin tasks /\ ~Answered(c)
    BY <1>3, <1>6 DEF Bit
  <1> QED BY <1>1, <1>2, <1>6, <1>7, OccursSome

(* The commands sent stay as they are, and so does what is said of them. *)
Kept == /\ declared' = declared /\ Len(cmd') >= Len(cmd)
        /\ \A c \in 1 .. Len(cmd) : cmd'[c] = cmd[c]

LEMMA SameCommand ==
  ASSUME NEW c \in 1 .. Len(cmd), Kept, NEW m, m.c = c
  PROVE  /\ MessageTrue(m)' <=> MessageTrue(m)
         /\ SegmentTrue(m)' <=> SegmentTrue(m)
         /\ ResultTrue(m)' <=> ResultTrue(m)
  <1>1. cmd'[m.c] = cmd[m.c] /\ declared' = declared
    BY DEF Kept
  <1>2. MessageTrue(m)' <=> MessageTrue(m)
    BY <1>1 DEF MessageTrue
  <1>3. SegmentTrue(m)' <=> SegmentTrue(m)
    BY <1>1 DEF SegmentTrue
  <1>4. ResultTrue(m)' <=> ResultTrue(m)
    BY <1>1 DEF ResultTrue
  <1> QED BY <1>2, <1>3, <1>4

LEMMA WireNames ==
  ASSUME TypeOK, NEW i \in Wire
  PROVE  /\ toInitiator[i] \in Replies /\ Len(toInitiator) \in Nat /\ Len(cmd) \in Nat
         /\ toInitiator[i].type # "login" => toInitiator[i].c \in 1 .. Len(cmd)
  <1>1. toInitiator[i] \in Replies /\ toInitiator[i].c <= Len(cmd) /\ Len(cmd) \in Nat
    BY DEF TypeOK, Named, Wire
  <1>2. toInitiator[i].type # "login" => toInitiator[i].c \in Cmds
    BY <1>1, ReplyIs
  <1> QED BY <1>1, <1>2 DEF Cmds, TypeOK

LEMMA UnstartedSame ==
  ASSUME UNCHANGED <<toInitiator, data>>, NEW c, NEW i
  PROVE  /\ Unstarted(c, i)' <=> Unstarted(c, i)
         /\ \A n, e : Reached(c, i, n, e)' <=> Reached(c, i, n, e)
  BY DEF Unstarted, Reached, SegmentOf

LEMMA PlacedSame ==
  ASSUME UNCHANGED <<toInitiator, data>>, NEW p, p.type # "login" => cmd'[p.c] = cmd[p.c], NEW i
  PROVE  PlacedAt(p, i)' <=> PlacedAt(p, i)
  BY DEF PlacedAt, Unstarted, Reached, SegmentOf

(* Nothing arrives and nothing is put on the wire: it stays in order. *)
LEMMA WireStays ==
  ASSUME TypeOK, Kept, WireOrdered, UNCHANGED <<toInitiator, data>>
  PROVE  WireOrdered'
  <1> SUFFICES ASSUME NEW i \in Wire, NEW p \in Replies, toInitiator[i] = p
               PROVE  /\ PlacedAt(p, i)'
                      /\ p.type = "status" => \A j \in i .. Len(toInitiator) : ~SegmentOf(toInitiator[j], p.c)
    BY DEF WireOrdered, Wire, SegmentOf
  <1>1. p.type # "login" => cmd'[p.c] = cmd[p.c]
    BY WireNames DEF Kept
  <1>2. /\ PlacedAt(p, i)
        /\ p.type = "status" => \A j \in i .. Len(toInitiator) : ~SegmentOf(toInitiator[j], p.c)
    BY DEF WireOrdered
  <1> QED BY <1>1, <1>2, PlacedSame

LEMMA RestStays ==
  ASSUME TypeOK, Kept, RestOrdered, UNCHANGED <<toInitiator, data, status>>,
         \A c \in Cmds : Ahead(c)' => Ahead(c)
  PROVE  RestOrdered'
  <1> SUFFICES ASSUME NEW c \in Cmds
               PROVE  /\ Ahead(c)' => data'[c] = << >> /\ NoneOnWire(c)'
                      /\ c > Len(cmd') => ~Answered(c)'
                      /\ Answered(c)' => NoneOnWire(c)'
    BY Zenon DEF RestOrdered
  <1>1. NoneOnWire(c)' <=> NoneOnWire(c)
    BY DEF NoneOnWire, Wire, SegmentOf
  <1>2. Answered(c)' <=> Answered(c)
    BY DEF Answered
  <1>3. c > Len(cmd') => c > Len(cmd)
    BY DEF Kept, Cmds, TypeOK
  <1> QED BY <1>1, <1>2, <1>3 DEF RestOrdered

LEMMA ArrivedStays ==
  ASSUME TypeOK, TypeOK', Kept, Arrived, RestOrdered, UNCHANGED <<data, status>>
  PROVE  Arrived'
  <1> SUFFICES ASSUME NEW c \in 1 .. Len(cmd')
               PROVE  Chained(c)' /\ \A p \in Results : status[c] = p => Complete(c, p)'
    BY DEF Arrived
  <1>1. c \in Cmds /\ Len(cmd) \in Nat /\ (c > Len(cmd) => Ahead(c))
    BY ExchangeAssumption DEF TypeOK, Cmds, Ahead
  <1>2. CASE c > Len(cmd)
    <2>1. data[c] = << >> /\ ~Answered(c)
      BY <1>1, <1>2 DEF RestOrdered
    <2>2. \A p \in Results : p.type = "status"
      BY DEF Results
    <2> QED BY <2>1, <2>2 DEF Chained, Answered
  <1>3. CASE c \in 1 .. Len(cmd)
    <2>1. cmd'[c] = cmd[c] /\ declared' = declared
      BY <1>3 DEF Kept
    <2>2. Chained(c) => Chained(c)'
      <3>1. \A p : p.c = c => (SegmentTrue(p)' <=> SegmentTrue(p))
        BY <2>1 DEF SegmentTrue
      <3> QED BY <3>1 DEF Chained
    <2>3. \A p : Complete(c, p) => Complete(c, p)'
      BY <2>1 DEF Complete, ResultTrue
    <2> QED BY <1>3, <2>2, <2>3 DEF Arrived
  <1> QED BY <1>1, <1>2, <1>3

(* What the wire says stays true while nothing is put there. *)
LEMMA RepliesStay ==
  ASSUME TypeOK, Kept, MessagesTrue, NEW p \in Replies, Has(toInitiator, {p})
  PROVE  (p.type = "data" => SegmentTrue(p)') /\ (p.type = "status" => ResultTrue(p)')
  <1>1. PICK i \in Wire : toInitiator[i] = p
    BY DEF Has, Wire, TypeOK
  <1>2. p.type # "login" => p.c \in 1 .. Len(cmd)
    BY <1>1, WireNames
  <1> QED BY <1>2, SameCommand DEF MessagesTrue

LEMMA MessagesStay ==
  ASSUME TypeOK, Kept, MessagesTrue, NEW m \in Messages, Has(chan, {m}) \/ wmsg = m
  PROVE  MessageTrue(m)'
  <1>1. m.c \in 1 .. Len(cmd)
    <2>1. m.c <= Len(cmd) /\ m.c \in Cmds /\ Len(cmd) \in Nat
      BY MessageIs DEF TypeOK, Named, Has
    <2> QED BY <2>1 DEF Cmds
  <1> QED BY <1>1, SameCommand DEF MessagesTrue

LEMMA HasOfAppend ==
  ASSUME NEW S, NEW q \in Seq(S), NEW x \in S, NEW T, Has(Append(q, x), T)
  PROVE  Has(q, T) \/ x \in T
  <1>1. PICK i \in DOMAIN Append(q, x) : Append(q, x)[i] \in T
    BY DEF Has
  <1>2. i \in DOMAIN q \/ i = Len(q) + 1
    BY AppendAt
  <1> QED BY <1>1, <1>2, AppendAt DEF Has

LEMMA HasOfTail ==
  ASSUME NEW S, NEW q \in Seq(S), q # << >>, NEW T
  PROVE  (Has(Tail(q), T) => Has(q, T)) /\ (Head(q) \in T => Has(q, T))
  BY TailAt DEF Has

(* Nothing arrives or is put on the wire, and no command comes to be where *)
(* its data are yet to begin: data stay in order.                          *)
LEMMA QuietOrdered ==
  ASSUME TypeOK, TypeOK', Ordered, Kept, UNCHANGED <<toInitiator, data, status>>,
         \A c \in Cmds : Ahead(c)' => Ahead(c),
         \A m \in Messages : Has(chan, {m})' \/ wmsg' = m =>
           Has(chan, {m}) \/ wmsg = m \/ MessageTrue(m)',
         HandOrdered'
  PROVE  Ordered'
  <1>1. WireOrdered' /\ RestOrdered' /\ Arrived'
    BY WireStays, RestStays, ArrivedStays DEF Ordered
  <1>2. \A m \in Messages : Has(chan, {m})' \/ wmsg' = m => MessageTrue(m)'
    BY MessagesStay DEF Ordered
  <1>3. ASSUME NEW p \in Replies, Has(toInitiator, {p})'
        PROVE  (p.type = "data" => SegmentTrue(p)') /\ (p.type = "status" => ResultTrue(p)')
    <2>1. Has(toInitiator, {p})
      BY <1>3 DEF Has
    <2> QED BY <2>1, RepliesStay DEF Ordered
  <1>4. MessagesTrue'
    BY <1>2, <1>3 DEF MessagesTrue
  <1> QED BY <1>1, <1>4 DEF Ordered

LEMMA HandStays ==
  ASSUME HandOrdered, UNCHANGED <<toInitiator, data, wmsg, woff, wdata>>
  PROVE  HandOrdered'
  BY DEF HandOrdered, HeldAt, Unstarted, Reached, SegmentOf

LEMMA NothingOrdered ==
  ASSUME TypeOK, TypeOK', Ordered,
         UNCHANGED <<cmd, declared, toTarget, toInitiator, data, status, tasks, chan,
                     wmsg, woff, wdata>>
  PROVE  Ordered'
  <1>1. Kept /\ HandOrdered'
    BY HandStays DEF Kept, Ordered, TypeOK
  <1>2. \A c \in Cmds : Ahead(c)' => Ahead(c)
    BY DEF Ahead, Has, Asking, Bound, Wire
  <1>3. \A m \in Messages : Has(chan, {m})' \/ wmsg' = m => Has(chan, {m}) \/ wmsg = m
    BY DEF Has
  <1> QED BY <1>1, <1>2, <1>3, QuietOrdered

(* While the login goes on nothing has been asked for. *)
LEMMA SendLoginOrdered ==
  ASSUME TypeOK, TypeOK', LoggedIn, Ordered, NEW declares \in BOOLEAN, NEW l \in Limits,
         NEW last \in BOOLEAN, SendLogin(declares, l, last)
  PROVE  Ordered'
  <1>1. /\ ipc = "login" /\ toInitiator = << >> /\ toInitiator' = << >> /\ cmd = << >> /\ cmd' = << >>
        /\ UNCHANGED <<data, status, tasks, chan, wmsg>>
    BY DEF SendLogin, LoggedIn, Logging, writerVars
  <1>2. tasks = {} /\ chan = << >> /\ wmsg = NoMsg
    BY <1>1, NoCommandYet
  <1>3. MessagesTrue' /\ HandOrdered'
    <2>1. \A m \in Messages : m # NoMsg
      BY MessageIs
    <2> QED BY <1>1, <1>2, <2>1 DEF MessagesTrue, HandOrdered, Has
  <1>4. WireOrdered' /\ Arrived'
    BY <1>1 DEF WireOrdered, Arrived, Wire
  <1>5. RestOrdered'
    <2>1. \A c \in Cmds : data[c] = << >> /\ ~Answered(c)
      BY <1>1 DEF Ordered, RestOrdered, Ahead, Cmds
    <2> QED BY <1>1, <2>1 DEF RestOrdered, NoneOnWire, Wire, Answered
  <1> QED BY <1>3, <1>4, <1>5 DEF Ordered

LEMMA CommandOrdered ==
  ASSUME TypeOK, TypeOK', Ordered, NEW x \in Menu, SendCommand(x)
  PROVE  Ordered'
  <1>0. PICK n \in Cmds : n = Len(cmd) + 1
    BY DEF SendCommand
  <1>1. /\ Len(cmd) \in Nat /\ Len(cmd') = n /\ declared' = declared
        /\ \A c \in 1 .. Len(cmd) : cmd'[c] = cmd[c]
    BY <1>0 DEF SendCommand, TypeOK
  <1>2. UNCHANGED <<toInitiator, data, status, tasks, chan, wmsg, woff, wdata>>
    BY DEF SendCommand, writerVars
  <1>3. Kept /\ HandOrdered'
    BY <1>0, <1>1, <1>2, HandStays DEF Kept, Ordered
  <1> DEFINE p == [type |-> "command", c |-> n]
  <1>4. p \in Requests /\ toTarget' = Append(toTarget, p) /\ toTarget \in Seq(Requests)
    BY <1>0 DEF SendCommand, Requests, TypeOK
  <1>5. ASSUME NEW c \in Cmds, Ahead(c)' PROVE Ahead(c)
    <2>1. Has(toTarget, Asking(c))' => Has(toTarget, Asking(c)) \/ c = n
      <3> SUFFICES ASSUME Has(toTarget, Asking(c))' PROVE Has(toTarget, Asking(c)) \/ c = n
        OBVIOUS
      <3>1. Has(Append(toTarget, p), Asking(c))
        BY <1>4 DEF Has, Asking
      <3>2. Has(toTarget, Asking(c)) \/ p \in Asking(c)
        BY <1>4, <3>1, HasOfAppend
      <3> QED BY <3>2 DEF Asking
    <2>2. c > Len(cmd') => c > Len(cmd)
      BY <1>0, <1>1 DEF Cmds
    <2>3. c = n => c > Len(cmd)
      BY <1>0, <1>1
    <2> QED BY <1>2, <1>5, <2>1, <2>2, <2>3 DEF Ahead, Has, Bound, Wire
  <1>6. \A m \in Messages : Has(chan, {m})' \/ wmsg' = m => Has(chan, {m}) \/ wmsg = m
    BY <1>2 DEF Has
  <1> QED BY <1>2, <1>3, <1>5, <1>6, QuietOrdered

LEMMA DispatchOrdered ==
  ASSUME TypeOK, TypeOK', Ordered, NEW d \in 1 .. Len(cmd), toTarget # << >>, Take,
         Head(toTarget).type # "login", Head(toTarget).c = d,
         \/ Dispatch(d)
         \/ tasks' = tasks \cup {d} /\ chan' = chan,
         UNCHANGED <<cmd, declared, toInitiator, data, status, wmsg, woff, wdata>>
  PROVE  Ordered'
  <1>1. Kept /\ HandOrdered'
    BY HandStays DEF Kept, Ordered, TypeOK
  <1> DEFINE r == [type |-> "r2t", c |-> d]
  <1>2. /\ r \in Messages /\ chan \in Seq(Messages) /\ toTarget \in Seq(Requests)
        /\ Head(toTarget) \in Asking(d)
    BY CommandIs, TailAt DEF Messages, TypeOK, Asking
  <1>3. \/ tasks' = tasks /\ chan' = Append(chan, r)
        \/ tasks' = tasks \cup {d} /\ chan' = chan
    BY DEF Dispatch
  <1>4. Ahead(d)
    BY <1>2, HasOfTail DEF Ahead
  <1>5. ASSUME NEW c \in Cmds, Ahead(c)', c # d PROVE Ahead(c)
    <2>1. Has(toTarget, Asking(c))' => Has(toTarget, Asking(c))
      <3>1. Has(Tail(toTarget), Asking(c)) => Has(toTarget, Asking(c))
        BY <1>2, HasOfTail
      <3> QED BY <3>1 DEF Take, Has, Asking
    <2>2. Has(chan, Bound(c))' => Has(chan, Bound(c))
      <3>1. CASE chan' = Append(chan, r)
        <4>1. Has(Append(chan, r), Bound(c)) => Has(chan, Bound(c)) \/ r \in Bound(c)
          BY <1>2, HasOfAppend
        <4>2. r \notin Bound(c)
          BY <1>5 DEF Bound
        <4> QED BY <3>1, <4>1, <4>2 DEF Has, Bound
      <3>2. CASE chan' = chan
        BY <3>2 DEF Has, Bound
      <3> QED BY <1>3, <3>1, <3>2
    <2>3. c \in tasks' => c \in tasks
      BY <1>3, <1>5
    <2> QED BY <1>5, <2>1, <2>2, <2>3 DEF Ahead, Wire
  <1>6. ASSUME NEW m \in Messages, Has(chan, {m})' \/ wmsg' = m
        PROVE  Has(chan, {m}) \/ wmsg = m \/ MessageTrue(m)'
    <2>1. CASE chan' = chan
      BY <1>6, <2>1 DEF Has
    <2>2. CASE chan' = Append(chan, r)
      <3>1. Has(Append(chan, r), {m}) => Has(chan, {m}) \/ r \in {m}
        BY <1>2, HasOfAppend
      <3>2. Has(chan, {m})' => Has(Append(chan, r), {m})
        BY <2>2 DEF Has
      <3>3. r = m => MessageTrue(m)'
        BY DEF MessageTrue
      <3> QED BY <1>6, <3>1, <3>2, <3>3
    <2> QED BY <1>3, <2>1, <2>2
  <1> QED BY <1>1, <1>4, <1>5, <1>6, QuietOrdered

LEMMA AnswerOrdered ==
  ASSUME TypeOK, TypeOK', Ordered, NEW d \in 1 .. Len(cmd), d \in tasks, tasks' = tasks \ {d},
         NEW r \in Messages, chan' = Append(chan, r), r.c = d, MessageTrue(r),
         UNCHANGED <<cmd, declared, toTarget, toInitiator, data, status, wmsg, woff, wdata>>
  PROVE  Ordered'
  <1>1. Kept /\ HandOrdered'
    BY HandStays DEF Kept, Ordered, TypeOK
  <1>2. chan \in Seq(Messages)
    BY DEF TypeOK
  <1>3. ASSUME NEW c \in Cmds, Ahead(c)' PROVE Ahead(c)
    <2>1. CASE c = d
      BY <2>1 DEF Ahead
    <2>2. CASE c # d
      <3>1. Has(Append(chan, r), Bound(c)) => Has(chan, Bound(c)) \/ r \in Bound(c)
        BY <1>2, HasOfAppend
      <3>2. Has(chan, Bound(c))' => Has(chan, Bound(c))
        BY <2>2, <3>1 DEF Has, Bound
      <3>3. Has(toTarget, Asking(c))' => Has(toTarget, Asking(c))
        BY DEF Has, Asking
      <3> QED BY <1>3, <3>2, <3>3 DEF Ahead, Wire
    <2> QED BY <2>1, <2>2
  <1>4. ASSUME NEW m \in Messages, Has(chan, {m})' \/ wmsg' = m
        PROVE  Has(chan, {m}) \/ wmsg = m \/ MessageTrue(m)'
    <2>1. Has(Append(chan, r), {m}) => Has(chan, {m}) \/ r \in {m}
      BY <1>2, HasOfAppend
    <2>2. Has(chan, {m})' => Has(Append(chan, r), {m})
      BY DEF Has
    <2>3. r = m => MessageTrue(m)'
      BY <1>1, SameCommand
    <2> QED BY <1>4, <2>1, <2>2, <2>3
  <1> QED BY <1>1, <1>3, <1>4, QuietOrdered

(* The data of a message the writer takes have not begun. *)
LEMMA TakeOrdered ==
  ASSUME TypeOK, TypeOK', Ordered, TakeMessage
  PROVE  Ordered'
  <1> DEFINE h == Head(chan)
  <1>1. /\ chan # << >> /\ chan' = Tail(chan) /\ wmsg = NoMsg /\ (wmsg' = NoMsg \/ wmsg' = h)
        /\ woff' = 0 /\ wdata' = 0 /\ chan \in Seq(Messages) /\ h \in Messages
        /\ UNCHANGED <<cmd, declared, tasks, toTarget, toInitiator, data, status>>
    BY TailAt DEF TakeMessage, TypeOK, initiatorVars
  <1>2. Kept
    BY <1>1 DEF Kept, TypeOK
  <1>3. ASSUME NEW c \in Cmds, Ahead(c)' PROVE Ahead(c)
    <2>1. Has(Tail(chan), Bound(c)) => Has(chan, Bound(c))
      BY <1>1, HasOfTail
    <2>2. Has(chan, Bound(c))' => Has(chan, Bound(c))
      BY <1>1, <2>1 DEF Has, Bound
    <2>3. Has(toTarget, Asking(c))' => Has(toTarget, Asking(c))
      BY <1>1 DEF Has, Asking
    <2> QED BY <1>1, <1>3, <2>2, <2>3 DEF Ahead, Wire
  <1>4. ASSUME NEW m \in Messages, Has(chan, {m})' \/ wmsg' = m PROVE Has(chan, {m})
    <2>1. Has(Tail(chan), {m}) => Has(chan, {m})
      BY <1>1, HasOfTail
    <2>2. Has(chan, {m})' => Has(chan, {m})
      BY <1>1, <2>1 DEF Has
    <2>3. wmsg' = m => h \in {m}
      BY <1>1, MessageIs
    <2>4. h \in {m} => Has(chan, {m})
      BY <1>1, HasOfTail
    <2> QED BY <1>4, <2>2, <2>3, <2>4
  <1>5. HandOrdered'
    <2> SUFFICES ASSUME NEW m \in Messages, wmsg' = m, NEW i \in Nat, i = Len(toInitiator) + 1
                 PROVE  HeldAt(m, i, 0, 0)'
      BY <1>1 DEF HandOrdered
    <2>1. m.c \in Cmds /\ h = m
      BY <1>1, MessageIs
    <2>2. Has(chan, Bound(m.c))
      <3>1. h \in Bound(m.c)
        BY <1>1, <2>1 DEF Bound
      <3> QED BY <1>1, <3>1, HasOfTail
    <2>3. data[m.c] = << >> /\ NoneOnWire(m.c)
      BY <2>1, <2>2 DEF Ordered, RestOrdered, Ahead
    <2>4. Unstarted(m.c, i)
      BY <2>3 DEF Unstarted, NoneOnWire, Wire, TypeOK
    <2> QED BY <1>1, <2>4, UnstartedSame DEF HeldAt, Reached
  <1> QED BY <1>1, <1>2, <1>3, <1>4, <1>5, QuietOrdered

-----------------------------------------------------------------------------
(* What the writer and the login put on the wire *)

LEMMA WireGrows ==
  ASSUME TypeOK, NEW p \in Replies, Put(p), data' = data, NEW n, n = Len(toInitiator)
  PROVE  /\ n \in Nat /\ Len(toInitiator') = n + 1 /\ toInitiator'[n + 1] = p
         /\ \A i \in 1 .. n : toInitiator'[i] = toInitiator[i]
         /\ \A c, i : i \in 1 .. n + 1 =>
              /\ Unstarted(c, i)' <=> Unstarted(c, i)
              /\ \A k, e : Reached(c, i, k, e)' <=> Reached(c, i, k, e)
  <1>1. /\ n \in Nat /\ Len(toInitiator') = n + 1 /\ toInitiator'[n + 1] = p
        /\ \A i \in 1 .. n : toInitiator'[i] = toInitiator[i]
    BY AppendAt DEF Put, TypeOK
  <1>2. ASSUME NEW c, NEW i \in 1 .. n + 1
        PROVE  Unstarted(c, i)' <=> Unstarted(c, i)
    <2>1. \A j \in 1 .. i - 1 : toInitiator'[j] = toInitiator[j]
      BY <1>1
    <2> QED BY <2>1 DEF Unstarted, SegmentOf
  <1>3. ASSUME NEW c, NEW i \in 1 .. n + 1, NEW k, NEW e
        PROVE  Reached(c, i, k, e)' <=> Reached(c, i, k, e)
    <2>1. i > 1 => toInitiator'[i - 1] = toInitiator[i - 1]
      BY <1>1
    <2> QED BY <1>2, <2>1 DEF Reached, SegmentOf
  <1> QED BY <1>1, <1>2, <1>3

LEMMA PutInOrder ==
  ASSUME TypeOK, WireOrdered, NEW p \in Replies, Put(p), UNCHANGED <<data, cmd>>,
         NEW n, n = Len(toInitiator), PlacedAt(p, n + 1),
         p.type = "data" => \A i \in Wire : ~(toInitiator[i].type = "status" /\ toInitiator[i].c = p.c)
  PROVE  WireOrdered'
  <1>1. /\ n \in Nat /\ Len(toInitiator') = n + 1 /\ toInitiator'[n + 1] = p
        /\ \A i \in 1 .. n : toInitiator'[i] = toInitiator[i]
    BY WireGrows
  <1> SUFFICES ASSUME NEW i \in 1 .. n + 1, NEW q \in Replies, toInitiator'[i] = q
               PROVE  /\ PlacedAt(q, i)'
                      /\ q.type = "status" => \A j \in i .. n + 1 : ~SegmentOf(toInitiator'[j], q.c)
    BY <1>1 DEF WireOrdered, Wire, SegmentOf
  <1>2. PlacedAt(q, i)
    BY <1>1 DEF WireOrdered, Wire
  <1>3. PlacedAt(q, i)'
    <2>1. /\ Unstarted(q.c, i)' <=> Unstarted(q.c, i)
          /\ \A k, e : Reached(q.c, i, k, e)' <=> Reached(q.c, i, k, e)
      BY WireGrows
    <2> QED BY <1>2, <2>1 DEF PlacedAt
  <1>4. ASSUME q.type = "status", NEW j \in i .. n + 1 PROVE ~SegmentOf(toInitiator'[j], q.c)
    <2>1. CASE i = n + 1
      BY <1>1, <1>4, <2>1 DEF SegmentOf
    <2>2. CASE i \in 1 .. n /\ j \in 1 .. n
      BY <1>1, <1>4, <2>2 DEF WireOrdered, Wire, SegmentOf
    <2>3. CASE i \in 1 .. n /\ j = n + 1
      BY <1>1, <1>4, <2>3 DEF Wire, SegmentOf
    <2> QED BY <1>1, <2>1, <2>2, <2>3
  <1> QED BY <1>3, <1>4

LEMMA PutTrue ==
  ASSUME TypeOK, MessagesTrue, NEW p \in Replies, Put(p), UNCHANGED <<cmd, declared, chan>>,
         wmsg' = NoMsg \/ wmsg' = wmsg,
         p.type = "data" => SegmentTrue(p), p.type = "status" => ResultTrue(p)
  PROVE  MessagesTrue'
  <1>1. toInitiator \in Seq(Replies) /\ toInitiator' = Append(toInitiator, p)
    BY DEF TypeOK, Put
  <1>2. \A m \in Messages : /\ m # NoMsg /\ (Has(chan, {m})' => Has(chan, {m}))
                            /\ MessageTrue(m) => MessageTrue(m)'
    BY MessageIs DEF Has, MessageTrue
  <1>3. \A q \in Replies : /\ Has(toInitiator, {q})' => Has(toInitiator, {q}) \/ q = p
                           /\ SegmentTrue(q) => SegmentTrue(q)'
                           /\ ResultTrue(q) => ResultTrue(q)'
    <2> SUFFICES ASSUME NEW q \in Replies
                 PROVE  /\ Has(toInitiator, {q})' => Has(toInitiator, {q}) \/ q = p
                        /\ SegmentTrue(q) => SegmentTrue(q)'
                        /\ ResultTrue(q) => ResultTrue(q)'
      OBVIOUS
    <2>1. Has(Append(toInitiator, p), {q}) => Has(toInitiator, {q}) \/ p \in {q}
      BY <1>1, HasOfAppend
    <2>2. Has(toInitiator, {q})' => Has(Append(toInitiator, p), {q})
      BY <1>1 DEF Has
    <2>3. (SegmentTrue(q) => SegmentTrue(q)') /\ (ResultTrue(q) => ResultTrue(q)')
      BY DEF SegmentTrue, ResultTrue
    <2> QED BY <2>1, <2>2, <2>3
  <1> QED BY <1>2, <1>3 DEF MessagesTrue

(* A response, an R2T or an answer to the login. *)
LEMMA PutOther ==
  ASSUME TypeOK, TypeOK', Ordered, NEW p \in Replies, Put(p), p.type # "data", wmsg' = NoMsg,
         UNCHANGED <<cmd, declared, data, status, tasks, chan>>,
         toTarget' = toTarget \/ (toTarget # << >> /\ toTarget' = Tail(toTarget)),
         p.type = "status" => ResultTrue(p) /\ PlacedAt(p, Len(toInitiator) + 1),
         p.type = "r2t" => data[p.c] = << >> /\ NoneOnWire(p.c)
  PROVE  Ordered'
  <1>1. PICK n \in Nat : n = Len(toInitiator)
    BY DEF TypeOK
  <1>2. /\ Len(toInitiator') = n + 1 /\ toInitiator'[n + 1] = p
        /\ \A i \in 1 .. n : toInitiator'[i] = toInitiator[i]
    BY <1>1, WireGrows
  <1>3. MessagesTrue'
    BY PutTrue DEF Ordered
  <1>4. WireOrdered'
    <2>1. PlacedAt(p, n + 1)
      BY <1>1 DEF PlacedAt
    <2> QED BY <1>1, <2>1, PutInOrder DEF Ordered
  <1>5. HandOrdered'
    BY MessageIs DEF HandOrdered
  <1>6. \A c : NoneOnWire(c) => NoneOnWire(c)'
    <2> SUFFICES ASSUME NEW c, NoneOnWire(c), NEW j \in 1 .. n + 1
                 PROVE  ~SegmentOf(toInitiator'[j], c)
      BY <1>2 DEF NoneOnWire, Wire, SegmentOf
    <2> QED BY <1>1, <1>2 DEF NoneOnWire, Wire, SegmentOf
  <1>7. RestOrdered'
    <2> SUFFICES ASSUME NEW c \in Cmds
                 PROVE  /\ Ahead(c)' => data'[c] = << >> /\ NoneOnWire(c)'
                        /\ c > Len(cmd') => ~Answered(c)'
                        /\ Answered(c)' => NoneOnWire(c)'
      BY Zenon DEF RestOrdered
    <2>1. Ahead(c)' => Ahead(c) \/ (p.type = "r2t" /\ p.c = c)
      <3>1. Has(toTarget, Asking(c))' => Has(toTarget, Asking(c))
        <4>1. toTarget # << >> => (Has(Tail(toTarget), Asking(c)) => Has(toTarget, Asking(c)))
          BY HasOfTail DEF TypeOK
        <4> QED BY <4>1 DEF Has, Asking
      <3>2. Has(chan, Bound(c))' => Has(chan, Bound(c))
        BY DEF Has, Bound
      <3>3. ASSUME NEW i \in 1 .. n + 1, toInitiator'[i].type = "r2t" /\ toInitiator'[i].c = c
            PROVE  Ahead(c) \/ (p.type = "r2t" /\ p.c = c)
        BY <1>1, <1>2, <3>3 DEF Ahead, Wire
      <3> QED BY <1>2, <3>1, <3>2, <3>3 DEF Ahead, Wire
    <2>2. Answered(c)' <=> Answered(c)
      BY DEF Answered
    <2> QED BY <1>6, <2>1, <2>2 DEF Ordered, RestOrdered
  <1>8. Arrived'
    <2>1. Kept
      BY DEF Kept, TypeOK
    <2> QED BY <2>1, ArrivedStays DEF Ordered
  <1> QED BY <1>3, <1>4, <1>5, <1>7, <1>8 DEF Ordered

(* A segment of the message in hand. *)
LEMMA PutSegmentOrdered ==
  ASSUME TypeOK, TypeOK', OnePlace, Ordered, NEW p \in Segments, Put(p),
         wmsg # NoMsg, wmsg.type = "data", p.type = "data", p.c = wmsg.c, p.sn = wdata, p.off = woff,
         SegmentTrue(p), wmsg' = wmsg, wdata' = wdata + 1, woff' = p.off + p.len,
         UNCHANGED <<cmd, declared, toTarget, data, status, tasks, chan>>
  PROVE  Ordered'
  <1>0. p \in Replies /\ p.c \in Cmds /\ p.sn \in Nat /\ p.off \in Nat /\ p.len \in Nat
    BY DEF Replies, Segments
  <1>1. PICK n \in Nat : n = Len(toInitiator)
    BY DEF TypeOK
  <1>2. /\ Len(toInitiator') = n + 1 /\ toInitiator'[n + 1] = p
        /\ \A i \in 1 .. n : toInitiator'[i] = toInitiator[i]
    BY <1>0, <1>1, WireGrows
  <1>3. MessagesTrue'
    BY <1>0, PutTrue DEF Ordered
  <1>4. /\ ~Has(toTarget, Asking(p.c)) /\ p.c \notin tasks /\ ~Has(chan, Bound(p.c))
        /\ ~Has(toInitiator, Owed(p.c)) /\ ~Answered(p.c) /\ p.c <= Len(cmd)
    <2>1. InHand(p.c) /\ p.c <= Len(cmd)
      BY DEF InHand, TypeOK
    <2> QED BY <1>0, <2>1, Alone
  <1>5. \A i \in Wire : ~(toInitiator[i].type \in {"r2t", "status"} /\ toInitiator[i].c = p.c)
    <2> SUFFICES ASSUME NEW i \in Wire, toInitiator[i].type \in {"r2t", "status"},
                        toInitiator[i].c = p.c
                 PROVE  FALSE
      OBVIOUS
    <2>1. toInitiator[i] \in Owed(p.c) /\ i \in DOMAIN toInitiator
      BY DEF TypeOK, Owed, Wire
    <2> QED BY <1>4, <2>1 DEF Has
  <1>6. WireOrdered'
    <2>1. wmsg \in Messages /\ wdata \in Nat /\ woff \in Nat
      BY DEF TypeOK
    <2>2. Reached(p.c, n + 1, p.sn, p.off)
      BY <1>1, <2>1 DEF Ordered, HandOrdered, HeldAt
    <2>3. PlacedAt(p, n + 1)
      BY <2>2 DEF PlacedAt
    <2> QED BY <1>0, <1>1, <1>5, <2>3, PutInOrder DEF Ordered
  <1>7. HandOrdered'
    <2> SUFFICES ASSUME NEW m \in Messages, wmsg' = m
                 PROVE  HeldAt(m, n + 2, p.sn + 1, p.off + p.len)'
      BY <1>0, <1>2 DEF HandOrdered
    <2>1. /\ toInitiator'[n + 1] = p /\ (n + 2) - 1 = n + 1 /\ n + 2 > 1
          /\ p.sn + 1 > 0 /\ (p.sn + 1) - 1 = p.sn
      BY <1>0, <1>1, <1>2
    <2>2. m.type = "data" /\ m.c = p.c
      OBVIOUS
    <2>3. Reached(m.c, n + 2, p.sn + 1, p.off + p.len)'
      BY <2>1, <2>2 DEF Reached, SegmentOf
    <2> QED BY <2>2, <2>3 DEF HeldAt
  <1>8. \A c : c # p.c /\ NoneOnWire(c) => NoneOnWire(c)'
    <2> SUFFICES ASSUME NEW c, c # p.c, NoneOnWire(c), NEW j \in 1 .. n + 1
                 PROVE  ~SegmentOf(toInitiator'[j], c)
      BY <1>2 DEF NoneOnWire, Wire, SegmentOf
    <2> QED BY <1>1, <1>2 DEF NoneOnWire, Wire, SegmentOf
  <1>9. RestOrdered'
    <2> SUFFICES ASSUME NEW c \in Cmds
                 PROVE  /\ Ahead(c)' => data'[c] = << >> /\ NoneOnWire(c)'
                        /\ c > Len(cmd') => ~Answered(c)'
                        /\ Answered(c)' => NoneOnWire(c)'
      BY Zenon DEF RestOrdered
    <2>1. Ahead(c)' => Ahead(c)
      <3>1. Has(toTarget, Asking(c))' => Has(toTarget, Asking(c))
        BY DEF Has, Asking
      <3>2. Has(chan, Bound(c))' => Has(chan, Bound(c))
        BY DEF Has, Bound
      <3>3. ASSUME NEW i \in 1 .. n + 1, toInitiator'[i].type = "r2t" /\ toInitiator'[i].c = c
            PROVE  Ahead(c)
        BY <1>1, <1>2, <3>3 DEF Ahead, Wire
      <3> QED BY <1>2, <3>1, <3>2, <3>3 DEF Ahead, Wire
    <2>2. ~Ahead(p.c)
      <3>1. ~(p.c > Len(cmd))
        BY <1>0, <1>4 DEF Cmds, TypeOK
      <3> QED BY <1>4, <1>5, <3>1 DEF Ahead
    <2>3. Answered(c)' <=> Answered(c)
      BY DEF Answered
    <2> QED BY <1>4, <1>8, <2>1, <2>2, <2>3 DEF Ordered, RestOrdered
  <1>10. Arrived'
    <2>1. Kept
      BY DEF Kept, TypeOK
    <2> QED BY <2>1, ArrivedStays DEF Ordered
  <1> QED BY <1>3, <1>6, <1>7, <1>9, <1>10 DEF Ordered

-----------------------------------------------------------------------------
(* What the initiator receives *)

LEMMA EndAppended ==
  ASSUME NEW s \in Seq(Segments), NEW p \in Segments
  PROVE  /\ EndOf(Append(s, p)) = p.off + p.len
         /\ s # << >> => Len(s) \in 1 .. Len(s) /\ EndOf(s) = s[Len(s)].off + s[Len(s)].len
         /\ s = << >> => EndOf(s) = 0 /\ Len(s) = 0
         /\ Len(s) > 0 => s # << >>
  <1>1. Append(s, p)[Len(s) + 1] = p /\ Len(Append(s, p)) = Len(s) + 1 /\ Append(s, p) # << >>
    BY AppendAt
  <1> QED BY <1>1 DEF EndOf

LEMMA ReceivedData ==
  ASSUME TypeOK, Receive, NEW c \in Cmds
  PROVE  /\ Head(toInitiator) \in Replies /\ data[c] \in Seq(Segments)
         /\ SegmentOf(Head(toInitiator), c) =>
              Head(toInitiator) \in Segments /\ data'[c] = Append(data[c], Head(toInitiator))
         /\ ~SegmentOf(Head(toInitiator), c) => data'[c] = data[c]
         /\ Head(toInitiator).type = "status" /\ Head(toInitiator).c = c => status'[c] = Head(toInitiator)
         /\ ~(Head(toInitiator).type = "status" /\ Head(toInitiator).c = c) => status'[c] = status[c]
  <1> DEFINE h == Head(toInitiator)
  <1>1. h \in Replies /\ (h.type = "data" => h \in Segments)
    BY TailAt, ReplyIs DEF Receive, TypeOK
  <1>2. data' = IF h.type = "data" THEN [data EXCEPT ![h.c] = Append(@, h)] ELSE data
    BY DEF Receive
  <1>3. status' = IF h.type = "status" THEN [status EXCEPT ![h.c] = h] ELSE status
    BY DEF Receive
  <1>4. data \in [Cmds -> Seq(Segments)] /\ status \in [Cmds -> Results \cup {NoStatus}]
    BY DEF TypeOK
  <1> HIDE DEF h
  <1>5. SegmentOf(h, c) => data'[c] = Append(data[c], h)
    BY <1>2, <1>4 DEF SegmentOf
  <1>6. ~SegmentOf(h, c) => data'[c] = data[c]
    BY <1>2, <1>4 DEF SegmentOf
  <1>7. /\ h.type = "status" /\ h.c = c => status'[c] = h
        /\ ~(h.type = "status" /\ h.c = c) => status'[c] = status[c]
    BY <1>3, <1>4
  <1>8. data[c] \in Seq(Segments)
    BY <1>4
  <1>9. SegmentOf(h, c) => h \in Segments
    BY <1>1 DEF SegmentOf
  <1> QED BY <1>1, <1>5, <1>6, <1>7, <1>8, <1>9 DEF h

(* What was at position i + 1 of the wire is at position i. *)
LEMMA WireShifts ==
  ASSUME TypeOK, Receive, NEW n, n = Len(toInitiator)
  PROVE  /\ n \in Nat \ {0} /\ Len(toInitiator') = n - 1 /\ 1 \in Wire
         /\ Head(toInitiator) = toInitiator[1]
         /\ \A i \in 1 .. n - 1 : toInitiator'[i] = toInitiator[i + 1] /\ i + 1 \in Wire
  BY DEF Receive, TypeOK, Wire

LEMMA ReachedShifts ==
  ASSUME TypeOK, Receive, WireOrdered, NEW c \in Cmds, NEW i \in 1 .. Len(toInitiator),
         NEW k \in Nat, NEW e \in Nat
  PROVE  /\ Unstarted(c, i + 1) => Unstarted(c, i)'
         /\ Reached(c, i + 1, k, e) => Reached(c, i, k, e)'
  <1> DEFINE h == Head(toInitiator)
  <1>1. PICK n \in Nat \ {0} : n = Len(toInitiator)
    BY WireShifts
  <1>2. /\ Len(toInitiator') = n - 1 /\ h = toInitiator[1] /\ 1 \in Wire
        /\ \A j \in 1 .. n - 1 : toInitiator'[j] = toInitiator[j + 1]
    BY <1>1, WireShifts
  <1>3. /\ h \in Replies /\ data[c] \in Seq(Segments)
        /\ SegmentOf(h, c) => h \in Segments /\ data'[c] = Append(data[c], h)
        /\ ~SegmentOf(h, c) => data'[c] = data[c]
    BY ReceivedData
  <1> HIDE DEF h
  <1>4. ASSUME Unstarted(c, i + 1) PROVE Unstarted(c, i)'
    <2>1. ~SegmentOf(h, c)
      BY <1>2, <1>4 DEF Unstarted
    <2>2. data'[c] = << >>
      BY <1>3, <1>4, <2>1 DEF Unstarted
    <2>3. \A j \in 1 .. i - 1 : ~SegmentOf(toInitiator[j + 1], c) /\ toInitiator'[j] = toInitiator[j + 1]
      BY <1>1, <1>2, <1>4 DEF Unstarted
    <2> QED BY <2>2, <2>3 DEF Unstarted, SegmentOf
  <1>5. ASSUME Reached(c, i + 1, k, e) PROVE Reached(c, i, k, e)'
    <2>1. CASE k = 0 /\ e = 0 /\ Unstarted(c, i + 1)
      BY <1>4, <2>1 DEF Reached
    <2>2. CASE /\ k > 0 /\ SegmentOf(toInitiator[i], c)
               /\ toInitiator[i].sn = k - 1 /\ toInitiator[i].off + toInitiator[i].len = e
      <3>1. CASE i = 1
        <4>1. SegmentOf(h, c) /\ h.sn = k - 1 /\ h.off + h.len = e
          BY <1>2, <2>2, <3>1
        <4>2. data'[c] = Append(data[c], h) /\ h \in Segments /\ h.c = c /\ h.type = "data"
          BY <1>3, <4>1 DEF SegmentOf
        <4>3. Reached(c, 1, h.sn, h.off)
          BY <1>2, <1>3, <4>2 DEF WireOrdered, PlacedAt
        <4>4. Len(data[c]) = h.sn
          BY <1>3, <4>3, EndAppended DEF Reached, Unstarted
        <4>5. Len(data'[c]) = k /\ EndOf(data'[c]) = e
          <5>1. EndOf(Append(data[c], h)) = h.off + h.len
            BY <1>3, <4>2, EndAppended
          <5>2. Len(Append(data[c], h)) = Len(data[c]) + 1
            BY <1>3, <4>2, AppendAt
          <5> QED BY <4>1, <4>2, <4>4, <5>1, <5>2
        <4> QED BY <2>2, <3>1, <4>5 DEF Reached, EndOf
      <3>2. CASE i > 1
        <4>1. toInitiator'[i - 1] = toInitiator[i]
          BY <1>1, <1>2, <3>2
        <4> QED BY <2>2, <3>2, <4>1 DEF Reached, SegmentOf
      <3> QED BY <3>1, <3>2
    <2>3. (i + 1) - 1 = i /\ i + 1 > 1 /\ i + 1 # 1
      OBVIOUS
    <2> QED BY <1>5, <2>1, <2>2, <2>3 DEF Reached
  <1> QED BY <1>4, <1>5

LEMMA ReceiveWire ==
  ASSUME TypeOK, Receive, WireOrdered
  PROVE  WireOrdered'
  <1>1. PICK n \in Nat \ {0} : n = Len(toInitiator)
    BY WireShifts
  <1>2. /\ Len(toInitiator') = n - 1
        /\ \A j \in 1 .. n - 1 : toInitiator'[j] = toInitiator[j + 1] /\ j + 1 \in Wire
    BY <1>1, WireShifts
  <1> SUFFICES ASSUME NEW i \in 1 .. n - 1, NEW p \in Replies, toInitiator'[i] = p
               PROVE  /\ PlacedAt(p, i)'
                      /\ p.type = "status" => \A j \in i .. n - 1 : ~SegmentOf(toInitiator'[j], p.c)
    BY <1>2 DEF WireOrdered, Wire, SegmentOf
  <1>3. /\ toInitiator[i + 1] = p /\ i + 1 \in Wire /\ cmd' = cmd
        /\ PlacedAt(p, i + 1)
        /\ p.type = "status" => \A j \in i + 1 .. n : ~SegmentOf(toInitiator[j], p.c)
    BY <1>1, <1>2 DEF WireOrdered, Receive
  <1>4. p.type # "login" => p.c \in 1 .. Len(cmd) /\ p.c \in Cmds
    BY <1>3, WireNames, CommandIs
  <1>5. PlacedAt(p, i)'
    <2>1. CASE p.type = "data"
      <3>1. p.sn \in Nat /\ p.off \in Nat
        BY <2>1, ReplyIs DEF Segments
      <3> QED BY <1>1, <1>3, <1>4, <2>1, <3>1, ReachedShifts DEF PlacedAt
    <2>2. CASE p.type = "status"
      <3>1. p.expDataSN \in Nat /\ (HasData(cmd[p.c]) => Yield(cmd[p.c]) \in Nat)
        BY <1>4, <2>2, ReplyIs, CommandIs DEF Results
      <3>2. CASE HasData(cmd[p.c])
        <4>1. PICK e \in Nat : e = Yield(cmd[p.c])
          BY <3>1, <3>2
        <4>2. Reached(p.c, i + 1, p.expDataSN, e)
          BY <1>3, <2>2, <3>2, <4>1 DEF PlacedAt
        <4>3. Reached(p.c, i, p.expDataSN, e)'
          BY <1>1, <1>4, <2>2, <3>1, <4>2, ReachedShifts
        <4>4. e = Yield(cmd'[p.c]) /\ HasData(cmd'[p.c])
          BY <1>3, <3>2, <4>1
        <4> QED BY <2>2, <4>3, <4>4 DEF PlacedAt, Reached, Unstarted, SegmentOf
      <3>3. CASE ~HasData(cmd[p.c])
        <4>1. Unstarted(p.c, i + 1)
          BY <1>3, <2>2, <3>3 DEF PlacedAt
        <4>2. Unstarted(p.c, i)'
          BY <1>1, <1>4, <2>2, <4>1, ReachedShifts
        <4> QED BY <1>3, <2>2, <3>3, <4>2 DEF PlacedAt
      <3> QED BY <3>2, <3>3
    <2>3. CASE p.type \notin {"data", "status"}
      BY <2>3 DEF PlacedAt
    <2> QED BY <2>1, <2>2, <2>3
  <1>6. ASSUME p.type = "status", NEW j \in i .. n - 1 PROVE ~SegmentOf(toInitiator'[j], p.c)
    <2>1. toInitiator'[j] = toInitiator[j + 1] /\ j + 1 \in i + 1 .. n
      BY <1>1, <1>2
    <2> QED BY <1>3, <1>6, <2>1
  <1> QED BY <1>5, <1>6

LEMMA ReceiveHand ==
  ASSUME TypeOK, Receive, WireOrdered, HandOrdered
  PROVE  HandOrdered'
  <1>1. PICK n \in Nat \ {0} : n = Len(toInitiator)
    BY WireShifts
  <1>2. Len(toInitiator') + 1 = n /\ UNCHANGED <<wmsg, wdata, woff>> /\ n \in 1 .. Len(toInitiator)
    BY <1>1, WireShifts DEF Receive, writerVars
  <1> SUFFICES ASSUME NEW m \in Messages, wmsg = m, NEW k \in Nat, NEW e \in Nat, k = wdata, e = woff
               PROVE  HeldAt(m, n, k, e)'
    BY <1>1, <1>2 DEF HandOrdered, TypeOK
  <1>3. HeldAt(m, n + 1, k, e) /\ m.c \in Cmds
    BY <1>1, MessageIs DEF HandOrdered
  <1> QED BY <1>2, <1>3, ReachedShifts DEF HeldAt

LEMMA ReceiveTrue ==
  ASSUME TypeOK, Receive, MessagesTrue
  PROVE  MessagesTrue'
  <1>1. /\ toInitiator # << >> /\ toInitiator' = Tail(toInitiator) /\ toInitiator \in Seq(Replies)
        /\ UNCHANGED <<cmd, declared, chan, wmsg>>
    BY DEF Receive, TypeOK, writerVars
  <1>2. Kept
    BY <1>1 DEF Kept, TypeOK
  <1>3. \A m \in Messages : Has(chan, {m})' \/ wmsg' = m => MessageTrue(m)'
    BY <1>1, <1>2, MessagesStay DEF Has
  <1>4. ASSUME NEW p \in Replies, Has(toInitiator, {p})'
        PROVE  (p.type = "data" => SegmentTrue(p)') /\ (p.type = "status" => ResultTrue(p)')
    <2>1. Has(Tail(toInitiator), {p})
      BY <1>1, <1>4 DEF Has
    <2>2. Has(toInitiator, {p})
      BY <1>1, <2>1, HasOfTail
    <2> QED BY <1>2, <2>2, RepliesStay
  <1> QED BY <1>3, <1>4 DEF MessagesTrue

LEMMA ReceiveRest ==
  ASSUME TypeOK, Receive, WireOrdered, RestOrdered
  PROVE  RestOrdered'
  <1> DEFINE h == Head(toInitiator)
  <1>1. PICK n \in Nat \ {0} : n = Len(toInitiator)
    BY WireShifts
  <1>2. /\ Len(toInitiator') = n - 1 /\ h = toInitiator[1] /\ 1 \in Wire
        /\ \A j \in 1 .. n - 1 : toInitiator'[j] = toInitiator[j + 1] /\ j + 1 \in Wire
    BY <1>1, WireShifts
  <1>3. /\ h \in Replies /\ Len(cmd) \in Nat
        /\ h.type # "login" => h.c \in Cmds /\ h.c \in 1 .. Len(cmd)
    BY <1>2, WireNames, CommandIs
  <1>4. UNCHANGED <<cmd, tasks, chan>>
    BY DEF Receive
  <1> SUFFICES ASSUME NEW c \in Cmds
               PROVE  /\ Ahead(c)' => data'[c] = << >> /\ NoneOnWire(c)'
                      /\ c > Len(cmd') => ~Answered(c)'
                      /\ Answered(c)' => NoneOnWire(c)'
    BY Zenon DEF RestOrdered
  <1>5. /\ ~SegmentOf(h, c) => data'[c] = data[c]
        /\ h.type = "status" /\ h.c = c => status'[c] = h
        /\ ~(h.type = "status" /\ h.c = c) => status'[c] = status[c]
    BY ReceivedData
  <1> HIDE DEF h
  <1>6. NoneOnWire(c) => NoneOnWire(c)' /\ ~SegmentOf(h, c)
    <2>1. NoneOnWire(c) => ~SegmentOf(h, c)
      BY <1>2 DEF NoneOnWire
    <2>2. NoneOnWire(c) => \A j \in 1 .. n - 1 : ~SegmentOf(toInitiator'[j], c)
      BY <1>2 DEF NoneOnWire
    <2> QED BY <1>2, <2>1, <2>2 DEF NoneOnWire, Wire, SegmentOf
  <1>7. Ahead(c)' => Ahead(c)
    <2>1. Has(toTarget, Asking(c))' => Has(toTarget, Asking(c)) \/ (h.type = "r2t" /\ h.c = c)
      <3>1. CASE h.type = "r2t"
        <4> DEFINE d == [type |-> "dataOut", c |-> h.c]
        <4>1. d \in Requests /\ toTarget' = Append(toTarget, d) /\ toTarget \in Seq(Requests)
          BY <1>3, <3>1 DEF Receive, Requests, TypeOK, h
        <4>2. Has(Append(toTarget, d), Asking(c)) => Has(toTarget, Asking(c)) \/ d \in Asking(c)
          BY <4>1, HasOfAppend
        <4> QED BY <3>1, <4>1, <4>2 DEF Has, Asking
      <3>2. CASE h.type # "r2t"
        BY <3>2 DEF Receive, Has, Asking, h
      <3> QED BY <3>1, <3>2
    <2>2. Has(chan, Bound(c))' => Has(chan, Bound(c))
      BY <1>4 DEF Has, Bound
    <2>3. h.type = "r2t" /\ h.c = c => Ahead(c)
      BY <1>2 DEF Ahead
    <2>4. ASSUME NEW i \in 1 .. n - 1, toInitiator'[i].type = "r2t" /\ toInitiator'[i].c = c
          PROVE  Ahead(c)
      BY <1>2, <2>4 DEF Ahead
    <2> QED BY <1>2, <1>4, <2>1, <2>2, <2>3, <2>4 DEF Ahead, Wire
  <1>8. c > Len(cmd') => ~Answered(c)'
    <2> SUFFICES ASSUME c > Len(cmd') PROVE ~Answered(c)'
      OBVIOUS
    <2>1. ~(h.type = "status" /\ h.c = c) /\ ~Answered(c)
      BY <1>3, <1>4 DEF RestOrdered
    <2> QED BY <1>5, <2>1 DEF Answered
  <1>9. Answered(c)' => NoneOnWire(c)'
    <2>1. CASE Answered(c)
      BY <1>6, <2>1 DEF RestOrdered
    <2>2. CASE h.type = "status" /\ h.c = c
      <3>1. \A j \in 1 .. n : ~SegmentOf(toInitiator[j], c)
        BY <1>1, <1>2, <1>3, <2>2 DEF WireOrdered
      <3>2. NoneOnWire(c)
        BY <1>1, <3>1 DEF NoneOnWire, Wire
      <3> QED BY <1>6, <3>2
    <2> QED BY <1>5, <2>1, <2>2 DEF Answered
  <1> QED BY <1>5, <1>6, <1>7, <1>8, <1>9 DEF RestOrdered

LEMMA ReceiveArrived ==
  ASSUME TypeOK, Receive, Ordered
  PROVE  Arrived'
  <1> DEFINE h == Head(toInitiator)
  <1>1. /\ h = toInitiator[1] /\ 1 \in Wire /\ UNCHANGED <<cmd, declared>>
    BY WireShifts DEF Receive
  <1>2. h \in Replies /\ Has(toInitiator, {h})
    BY <1>1, WireNames DEF Has, Wire, TypeOK
  <1> SUFFICES ASSUME NEW c \in 1 .. Len(cmd)
               PROVE  Chained(c)' /\ \A p \in Results : status'[c] = p => Complete(c, p)'
    BY <1>1 DEF Arrived
  <1>3. c \in Cmds /\ (HasData(cmd[c]) => Yield(cmd[c]) \in Nat)
    BY CommandIs
  <1>4. /\ data[c] \in Seq(Segments)
        /\ SegmentOf(h, c) => h \in Segments /\ data'[c] = Append(data[c], h)
        /\ ~SegmentOf(h, c) => data'[c] = data[c]
        /\ h.type = "status" /\ h.c = c => status'[c] = h
        /\ ~(h.type = "status" /\ h.c = c) => status'[c] = status[c]
    BY <1>3, ReceivedData
  <1>5. PlacedAt(h, 1)
    BY <1>1, <1>2 DEF Ordered, WireOrdered
  <1>6. (h.type = "data" => SegmentTrue(h)) /\ (h.type = "status" => ResultTrue(h))
    BY <1>2 DEF Ordered, MessagesTrue
  <1> HIDE DEF h
  <1>7. \A p : (SegmentTrue(p)' <=> SegmentTrue(p)) /\ (ResultTrue(p)' <=> ResultTrue(p))
    BY <1>1 DEF SegmentTrue, ResultTrue
  <1>8. Chained(c)'
    <2>1. CASE ~SegmentOf(h, c)
      BY <1>4, <1>7, <2>1 DEF Ordered, Arrived, Chained
    <2>2. CASE SegmentOf(h, c)
      <3>1. PICK s \in Seq(Segments) : s = data[c]
        BY <1>4
      <3>2. PICK l \in Nat : l = Len(s)
        BY <3>1
      <3>3. /\ h \in Segments /\ data'[c] = Append(s, h) /\ h.c = c /\ h.type = "data"
            /\ h.sn \in Nat /\ h.off \in Nat
        BY <1>4, <2>2, <3>1 DEF SegmentOf, Segments
      <3>4. /\ Len(data'[c]) = l + 1 /\ data'[c][l + 1] = h
            /\ \A i \in 1 .. l : data'[c][i] = s[i]
        BY <3>1, <3>2, <3>3, AppendAt
      <3>5. l = h.sn /\ h.off = IF l = 0 THEN 0 ELSE s[l].off + s[l].len
        <4>1. Reached(c, 1, h.sn, h.off)
          BY <1>5, <3>3 DEF PlacedAt
        <4>2. \/ h.sn = 0 /\ h.off = 0 /\ s = << >>
              \/ h.sn > 0 /\ l = h.sn /\ EndOf(s) = h.off
          BY <3>1, <3>2, <4>1 DEF Reached, Unstarted
        <4> QED BY <3>1, <3>2, <3>3, <4>2, EndAppended
      <3>6. ASSUME NEW i \in 1 .. l, NEW p \in Segments, s[i] = p
            PROVE  /\ p.c = c /\ p.sn = i - 1 /\ SegmentTrue(p)
                   /\ p.off = IF i = 1 THEN 0 ELSE s[i - 1].off + s[i - 1].len
        BY <3>1, <3>2, <3>6 DEF Ordered, Arrived, Chained
      <3>7. ASSUME NEW i \in 1 .. l + 1, NEW p \in Segments, data'[c][i] = p
            PROVE  /\ p.c = c /\ p.sn = i - 1 /\ SegmentTrue(p)'
                   /\ p.off = IF i = 1 THEN 0 ELSE data'[c][i - 1].off + data'[c][i - 1].len
        <4>1. CASE i \in 1 .. l
          <5>1. s[i] = p /\ (i # 1 => data'[c][i - 1] = s[i - 1])
            BY <3>2, <3>4, <3>7, <4>1
          <5> QED BY <1>7, <3>6, <4>1, <5>1
        <4>2. CASE i = l + 1
          <5>1. p = h /\ i - 1 = l /\ (i # 1 => data'[c][i - 1] = s[l]) /\ (i = 1 <=> l = 0)
            BY <3>2, <3>4, <3>7, <4>2
          <5> QED BY <1>6, <1>7, <3>3, <3>5, <5>1
        <4> QED BY <3>2, <4>1, <4>2
      <3> QED BY <3>4, <3>7 DEF Chained
    <2> QED BY <2>1, <2>2
  <1>9. ASSUME NEW p \in Results, status'[c] = p PROVE Complete(c, p)'
    <2>1. CASE h.type = "status" /\ h.c = c
      <3>1. p = h /\ data'[c] = data[c] /\ p.expDataSN \in Nat
        BY <1>4, <1>9, <2>1 DEF SegmentOf, Results
      <3>2. ResultTrue(p)'
        BY <1>6, <1>7, <2>1, <3>1
      <3>3. CASE HasData(cmd[c])
        <4>1. Reached(c, 1, p.expDataSN, Yield(cmd[c]))
          BY <1>5, <2>1, <3>1, <3>3 DEF PlacedAt
        <4>2. EndOf(data[c]) = Yield(cmd[c]) /\ p.expDataSN = Len(data[c])
          BY <1>4, <4>1 DEF Reached, Unstarted, EndOf
        <4> QED BY <1>1, <2>1, <3>1, <3>2, <3>3, <4>2 DEF Complete, EndOf
      <3>4. CASE ~HasData(cmd[c])
        <4>1. data[c] = << >>
          BY <1>5, <2>1, <3>4 DEF PlacedAt, Unstarted
        <4> QED BY <1>1, <2>1, <3>1, <3>2, <3>4, <4>1 DEF Complete
      <3> QED BY <3>3, <3>4
    <2>2. CASE ~(h.type = "status" /\ h.c = c)
      <3>1. status[c] = p
        BY <1>4, <1>9, <2>2
      <3>2. Complete(c, p)
        BY <3>1 DEF Ordered, Arrived
      <3>3. ~SegmentOf(h, c)
        <4>1. Answered(c)
          BY <3>1 DEF Answered, Results
        <4> QED BY <1>1, <1>3, <4>1 DEF Ordered, RestOrdered, NoneOnWire
      <3>4. data'[c] = data[c]
        BY <1>4, <3>3
      <3> QED BY <1>1, <1>7, <3>2, <3>4 DEF Complete, EndOf
    <2> QED BY <2>1, <2>2
  <1> QED BY <1>8, <1>9

LEMMA ReceiveOrdered ==
  ASSUME TypeOK, Receive, Ordered
  PROVE  Ordered'
  BY ReceiveTrue, ReceiveWire, ReceiveHand, ReceiveRest, ReceiveArrived DEF Ordered

-----------------------------------------------------------------------------
(* What each of the others sends *)

LEMMA LoginOrdered ==
  ASSUME TypeOK, TypeOK', LoggedIn, Ordered, Login
  PROVE  Ordered'
  <1>1. PICK p \in Replies : Put(p) /\ p.type = "login"
    BY LoginAnswered
  <1>2. wmsg = NoMsg
    <2>1. ipc # "full"
      BY DEF Login, LoggedIn, Logging
    <2> QED BY <2>1, NoCommandYet
  <1>3. /\ toTarget # << >> /\ toTarget' = Tail(toTarget)
        /\ UNCHANGED <<cmd, declared, data, status, tasks, chan, wmsg>>
    BY DEF Login, Next_, Take, initiatorVars
  <1> QED BY <1>1, <1>2, <1>3, PutOther

LEMMA ReaderOrdered ==
  ASSUME TypeOK, TypeOK', OnePlace, Ordered, ReadCommand \/ OpenWindow \/ ReadDataOut
  PROVE  OnePlace' /\ Ordered'
  <1> DEFINE d == Head(toTarget).c
  <1>1. UNCHANGED <<cmd, declared, toInitiator, data, status, wmsg, woff, wdata>>
    BY DEF ReadCommand, OpenWindow, ReadDataOut, initiatorVars, writerVars
  <1>2. CASE UNCHANGED <<toTarget, tasks, chan>>
    BY <1>1, <1>2, PlacesStay, NothingOrdered DEF OnePlace
  <1>3. CASE Take /\ Dispatch(d) /\ (ReadCommand \/ OpenWindow)
    <2>1. toTarget # << >> /\ Head(toTarget).type # "login"
      BY <1>3 DEF ReadCommand, OpenWindow, Next_, TypeOK
    <2>2. d \in 1 .. Len(cmd)
      BY <2>1, HeadCommand
    <2> QED BY <1>1, <1>3, <2>1, <2>2, DispatchPlaces, DispatchOrdered
  <1>4. CASE ReadDataOut
    <2>1. /\ toTarget # << >> /\ Head(toTarget).type # "login" /\ Take
          /\ tasks' = tasks \cup {d} /\ chan' = chan
      BY <1>4 DEF ReadDataOut, Next_
    <2>2. d \in 1 .. Len(cmd)
      BY <2>1, HeadCommand
    <2> QED BY <1>1, <2>1, <2>2, DispatchPlaces, DispatchOrdered
  <1> QED BY <1>2, <1>3, <1>4 DEF ReadCommand, OpenWindow

LEMMA AnswersOrdered ==
  ASSUME TypeOK, TypeOK', OnePlace, Ordered, NEW d \in Cmds, Answer(d)
  PROVE  OnePlace' /\ Ordered'
  <1> DEFINE x == cmd[d]
             m == IF HasData(x) THEN [type |-> "data", c |-> d, len |-> Yield(x), want |-> x.want]
                  ELSE [type |-> "status", c |-> d, outs |-> IF Incomplete(x) THEN 1 ELSE 0,
                        want |-> IF x.kind = "test" THEN x.want ELSE 0]
  <1>1. d \in 1 .. Len(cmd) /\ d \in tasks /\ tasks' = tasks \ {d} /\ chan' = Append(chan, m)
    BY DEF Answer, TypeOK
  <1>2. x.want \in Nat /\ (HasData(x) => Yield(x) \in Nat)
    BY <1>1, CommandIs
  <1>3. m \in Messages /\ m.c = d
    BY <1>1, <1>2 DEF Messages
  <1>4. MessageTrue(m)
    BY DEF MessageTrue, Bit
  <1>5. UNCHANGED <<cmd, declared, toTarget, toInitiator, data, status, wmsg, woff, wdata>>
    BY DEF Answer, initiatorVars, writerVars
  <1> HIDE DEF m
  <1> QED BY <1>1, <1>3, <1>4, <1>5, AnswerPlaces, AnswerOrdered

LEMMA SegmentsOrdered ==
  ASSUME TypeOK, TypeOK', LoggedIn, OnePlace, Ordered, PutSegment
  PROVE  OnePlace' /\ Ordered'
  <1> DEFINE n == Least(wmsg.len - woff, limit)
             p == [type |-> "data", c |-> wmsg.c, stat |-> 0, exp |-> wexp, max |-> maxSN,
                   sn |-> wdata, off |-> woff, len |-> n, final |-> woff + n >= wmsg.len]
  <1>1. /\ wmsg \in Messages /\ wmsg.type = "data" /\ wmsg # NoMsg /\ wmsg.c \in Cmds /\ wmsg.len \in Nat
        /\ woff \in Nat /\ wdata \in Nat /\ woff < wmsg.len
    <2>1. wmsg \in Messages /\ wmsg.type = "data" /\ wmsg # NoMsg
      BY DEF PutSegment, TypeOK, NoMsg
    <2> QED BY <2>1, MessageIs DEF PutSegment, TypeOK
  <1>2. limit = declared /\ limit \in Nat \ {0}
    <2>1. ipc = "full"
      BY <1>1, NoCommandYet
    <2> QED BY <2>1, ExchangeAssumption DEF LoggedIn, Logging, TypeOK
  <1>3. n \in 1 .. declared /\ woff + n <= wmsg.len
    BY <1>1, <1>2 DEF Least
  <1>4. HasData(cmd[wmsg.c]) /\ wmsg.len = Yield(cmd[wmsg.c])
    BY <1>1 DEF Ordered, MessagesTrue, MessageTrue
  <1>5. SegmentTrue(p)
    <2> HIDE DEF n
    <2>1. woff + n >= wmsg.len <=> woff + n = wmsg.len
      BY <1>1, <1>2, <1>3
    <2> QED BY <1>3, <1>4, <2>1 DEF SegmentTrue
  <1>6. p \in Segments /\ Put(p)
    BY <1>1, <1>2, <1>3 DEF PutSegment, TypeOK, Segments
  <1>7. /\ wmsg' = wmsg /\ wdata' = wdata + 1 /\ woff' = woff + n
        /\ UNCHANGED <<cmd, declared, toTarget, data, status, tasks, chan>>
    BY DEF PutSegment, initiatorVars
  <1>8. p.type = "data" /\ p.c = wmsg.c /\ p.sn = wdata /\ p.off = woff /\ p.len = n /\ p \in Replies
    BY <1>6 DEF Replies
  <1> HIDE DEF p, n
  <1> QED BY <1>1, <1>5, <1>6, <1>7, <1>8, WriterPlaces, PutSegmentOrdered

(* What the writer task says of a command when it is done with it. *)
LEMMA StatusTrue ==
  ASSUME TypeOK, PutStatus, NEW m \in Messages, wmsg = m, MessageTrue(m), NEW p, p.c = m.c,
         p.expDataSN = (IF m.type = "data" THEN wdata ELSE m.outs),
         p.residual = Short(m.want, IF m.type = "data" THEN m.len ELSE 0)
  PROVE  ResultTrue(p)
  <1>1. m.c \in 1 .. Len(cmd)
    <2>1. m.c <= Len(cmd) /\ m.c \in Cmds /\ Len(cmd) \in Nat
      BY MessageIs DEF TypeOK
    <2> QED BY <2>1 DEF Cmds
  <1>2. PICK x : x = cmd[m.c]
    OBVIOUS
  <1>3. x.want \in Nat /\ x.kind \in Kinds
    BY <1>1, <1>2, CommandIs
  <1>4. CASE m.type = "data"
    <2>1. HasData(x) /\ m.len = Yield(x) /\ m.want = x.want
      BY <1>2, <1>4 DEF MessageTrue
    <2>2. p.residual = Short(x.want, Yield(x))
      BY <1>4, <2>1
    <2>3. x.kind = "read" => Yield(x) + p.residual = x.want
      BY <1>3, <2>2 DEF Yield, Short
    <2>4. x.kind = "inquiry" => Yield(x) + p.residual = x.want
      BY <1>3, <2>2, ExchangeAssumption DEF Yield, Short, Least
    <2>5. x.kind # "test"
      BY <2>1 DEF HasData
    <2> QED BY <1>2, <2>1, <2>3, <2>4, <2>5 DEF ResultTrue
  <1>5. CASE m.type = "status"
    <2>1. /\ ~HasData(x) /\ p.expDataSN = Bit(Incomplete(x))
          /\ m.want = IF x.kind = "test" THEN x.want ELSE 0
      BY <1>2, <1>5 DEF MessageTrue
    <2>2. x.kind = "test" => p.residual = x.want
      BY <1>3, <1>5, <2>1 DEF Short
    <2>3. x.kind \notin {"read", "inquiry"}
      BY <2>1 DEF HasData
    <2>4. x.kind = "test" => 0 + p.residual = x.want
      BY <1>3, <2>2
    <2> QED BY <1>2, <2>1, <2>3, <2>4 DEF ResultTrue
  <1> QED BY <1>4, <1>5 DEF PutStatus

LEMMA StatusesOrdered ==
  ASSUME TypeOK, TypeOK', OnePlace, Ordered, PutStatus
  PROVE  OnePlace' /\ Ordered'
  <1> DEFINE l == IF wmsg.type = "data" THEN wmsg.len ELSE 0
             s == IF wmsg.type = "data" THEN wdata ELSE wmsg.outs
             p == [type |-> "status", c |-> wmsg.c, stat |-> statSN, exp |-> wexp, max |-> maxSN,
                   expDataSN |-> s, residual |-> Short(wmsg.want, l)]
  <1>1. PICK m \in Messages : wmsg = m /\ m.type \in {"data", "status"}
    BY DEF PutStatus, TypeOK, NoMsg
  <1>2. /\ m.c \in Cmds /\ m.want \in Nat /\ l \in Nat /\ s \in Nat /\ m # NoMsg
        /\ m.type = "data" => m.len \in Nat
    BY <1>1, MessageIs DEF TypeOK
  <1>3. Short(m.want, l) \in Nat
    BY <1>2 DEF Short
  <1>4. p \in Replies /\ Put(p)
    BY <1>1, <1>2, <1>3 DEF PutStatus, TypeOK, Replies, Results
  <1>5. MessageTrue(m)
    BY <1>1 DEF Ordered, MessagesTrue
  <1>6. ResultTrue(p)
    BY <1>1, <1>5, StatusTrue
  <1>7. PlacedAt(p, Len(toInitiator) + 1)
    <2>1. PICK i, n, e \in Nat : i = Len(toInitiator) + 1 /\ n = wdata /\ e = woff
      BY DEF TypeOK
    <2>2. HeldAt(m, i, n, e)
      BY <1>1, <2>1 DEF Ordered, HandOrdered
    <2>3. CASE m.type = "data"
      <3>1. HasData(cmd[m.c]) /\ e = Yield(cmd[m.c])
        BY <1>1, <1>2, <1>5, <2>1, <2>3 DEF MessageTrue, PutStatus, TypeOK
      <3>2. Reached(m.c, i, n, e)
        BY <2>2, <2>3 DEF HeldAt
      <3> QED BY <1>1, <2>1, <2>3, <3>1, <3>2 DEF PlacedAt
    <2>4. CASE m.type = "status"
      <3>1. ~HasData(cmd[m.c]) /\ Unstarted(m.c, i)
        BY <1>5, <2>2, <2>4 DEF MessageTrue, HeldAt
      <3> QED BY <1>1, <2>1, <3>1 DEF PlacedAt
    <2> QED BY <1>1, <2>3, <2>4
  <1>8. wmsg' = NoMsg /\ UNCHANGED <<cmd, declared, toTarget, data, status, tasks, chan>>
    BY DEF PutStatus, MsgDone, initiatorVars
  <1>9. p.type = "status" /\ p.c = wmsg.c /\ wmsg # NoMsg
    BY <1>1, <1>2
  <1> HIDE DEF p
  <1> QED BY <1>4, <1>6, <1>7, <1>8, <1>9, WriterPlaces, PutOther

LEMMA R2TsOrdered ==
  ASSUME TypeOK, TypeOK', OnePlace, Ordered, PutR2T
  PROVE  OnePlace' /\ Ordered'
  <1>1. PICK m \in Messages : wmsg = m /\ m.type = "r2t" /\ m # NoMsg
    BY DEF PutR2T, TypeOK, NoMsg
  <1>2. PICK p \in Replies : Put(p) /\ p.type = "r2t" /\ p.c = m.c
    BY <1>1, R2TSent
  <1>3. data[m.c] = << >> /\ NoneOnWire(m.c)
    <2>1. PICK i, n, e \in Nat : i = Len(toInitiator) + 1 /\ n = wdata /\ e = woff
      BY DEF TypeOK
    <2>2. HeldAt(m, i, n, e)
      BY <1>1, <2>1 DEF Ordered, HandOrdered
    <2>3. Unstarted(m.c, i) /\ Len(toInitiator) \in Nat
      BY <1>1, <2>2 DEF HeldAt, TypeOK
    <2> QED BY <2>1, <2>3 DEF Unstarted, NoneOnWire, Wire
  <1>4. wmsg' = NoMsg /\ UNCHANGED <<cmd, declared, toTarget, data, status, tasks, chan>>
    BY DEF PutR2T, MsgDone, initiatorVars
  <1> QED BY <1>1, <1>2, <1>3, <1>4, WriterPlaces, PutOther

LEMMA NextOrdered ==
  ASSUME TypeOK, TypeOK', LoggedIn, OnePlace, Ordered, [Next]_vars
  PROVE  OnePlace' /\ Ordered'
  <1>1. CASE LoadExp \/ UNCHANGED vars
    <2>1. UNCHANGED <<cmd, declared, toTarget, toInitiator, data, status, tasks, chan,
                      wmsg, woff, wdata>>
      BY <1>1 DEF LoadExp, vars, initiatorVars, writerVars
    <2> QED BY <2>1, PlacesStay, NothingOrdered DEF OnePlace
  <1>2. CASE Login \/ \E declares, last \in BOOLEAN, l \in Limits : SendLogin(declares, l, last)
    BY <1>2, LoginPlaces, LoginOrdered, SendLoginOrdered DEF OnePlace
  <1>3. CASE \E x \in Menu : SendCommand(x)
    <2>1. \A c \in Cmds : c > Len(cmd) => ~Answered(c)
      BY DEF Ordered, RestOrdered
    <2> QED BY <1>3, <2>1, CommandPlaces, CommandOrdered
  <1>4. CASE Receive
    BY <1>4, ReceivePlaces, ReceiveOrdered
  <1>5. CASE ReadCommand \/ OpenWindow \/ ReadDataOut
    BY <1>5, ReaderOrdered
  <1>6. CASE \E c \in Cmds : Answer(c)
    BY <1>6, AnswersOrdered
  <1>7. CASE TakeMessage
    BY <1>7, TakePlaces, TakeOrdered
  <1>8. CASE PutSegment \/ PutStatus \/ PutR2T
    BY <1>8, SegmentsOrdered, StatusesOrdered, R2TsOrdered
  <1> QED BY <1>1, <1>2, <1>3, <1>4, <1>5, <1>6, <1>7, <1>8 DEF Next

LEMMA InitOrdered == Init => LoggedIn /\ OnePlace /\ Ordered
  <1> SUFFICES ASSUME Init PROVE LoggedIn /\ OnePlace /\ Ordered
    OBVIOUS
  <1>1. /\ toTarget = << >> /\ toInitiator = << >> /\ chan = << >> /\ tasks = {} /\ wmsg = NoMsg
        /\ cmd = << >> /\ Len(cmd) = 0 /\ Wire = {}
        /\ \A c \in Cmds : data[c] = << >> /\ status[c] = NoStatus /\ ~Answered(c)
    BY DEF Init, Wire, Answered, NoStatus
  <1>2. LoggedIn
    BY DEF Init, LoggedIn, Logging
  <1>3. OnePlace
    <2> SUFFICES ASSUME NEW c \in Cmds PROVE Places(c) <= 1
      BY DEF OnePlace
    <2>1. \A T : Occurs(<< >>, T) = 0
      <3>1. \A T : Before(<< >>, T, Len(<< >>) + 1) = {}
        BY DEF Before
      <3> QED BY <3>1, FS_EmptySet DEF Occurs
    <2>2. Bit(c \in tasks) = 0 /\ Bit(InHand(c)) = 0 /\ Bit(Answered(c)) = 0
      BY <1>1 DEF InHand, Bit
    <2>3. Places(c) = 0
      BY <1>1, <2>1, <2>2 DEF Places
    <2> QED BY <2>3
  <1>4. MessagesTrue /\ HandOrdered
    <2>1. \A m \in Messages : m # NoMsg
      BY MessageIs
    <2> QED BY <1>1, <2>1 DEF MessagesTrue, HandOrdered, Has
  <1>5. WireOrdered /\ RestOrdered /\ Arrived
    BY <1>1 DEF WireOrdered, RestOrdered, NoneOnWire, Arrived
  <1> QED BY <1>2, <1>3, <1>4, <1>5 DEF Ordered

(* The segments of a command, each with the one before it. *)
LEMMA ChainEnds ==
  ASSUME TypeOK, NEW c \in 1 .. Len(cmd), Chained(c), NEW s, s = data[c], NEW n, n = Len(s)
  PROVE  /\ s \in Seq(Segments) /\ n \in Nat
         /\ \A i \in 1 .. n :
              /\ s[i].off \in Nat /\ s[i].len \in Nat /\ s[i].final \in BOOLEAN
              /\ s[i].c = c /\ s[i].sn = i - 1 /\ SegmentTrue(s[i])
              /\ s[i].off = IF i = 1 THEN 0 ELSE s[i - 1].off + s[i - 1].len
              /\ s[i].off = EndOf(SubSeq(s, 1, i - 1))
  <1>1. s \in Seq(Segments) /\ n \in Nat
    <2>1. c \in Cmds /\ data \in [Cmds -> Seq(Segments)]
      BY CommandIs DEF TypeOK
    <2> QED BY <2>1
  <1> SUFFICES ASSUME NEW i \in 1 .. n
               PROVE  /\ s[i].off \in Nat /\ s[i].len \in Nat /\ s[i].final \in BOOLEAN
                      /\ s[i].c = c /\ s[i].sn = i - 1 /\ SegmentTrue(s[i])
                      /\ s[i].off = IF i = 1 THEN 0 ELSE s[i - 1].off + s[i - 1].len
                      /\ s[i].off = EndOf(SubSeq(s, 1, i - 1))
    BY <1>1
  <1>2. s[i] \in Segments
    BY <1>1
  <1>3. /\ s[i].c = c /\ s[i].sn = i - 1 /\ SegmentTrue(s[i])
        /\ s[i].off = IF i = 1 THEN 0 ELSE s[i - 1].off + s[i - 1].len
    BY <1>2 DEF Chained
  <1>4. EndOf(SubSeq(s, 1, i - 1)) = IF i = 1 THEN 0 ELSE s[i - 1].off + s[i - 1].len
    <2>1. CASE i = 1
      BY <1>1, <2>1 DEF EndOf
    <2>2. CASE i # 1
      <3>1. /\ SubSeq(s, 1, i - 1) # << >> /\ Len(SubSeq(s, 1, i - 1)) = i - 1
            /\ SubSeq(s, 1, i - 1)[i - 1] = s[i - 1]
        BY <1>1, <2>2
      <3> QED BY <2>2, <3>1 DEF EndOf
    <2> QED BY <2>1, <2>2
  <1> QED BY <1>2, <1>3, <1>4 DEF Segments

LEMMA CompleteWhole ==
  ASSUME TypeOK, Ordered, NEW c \in 1 .. Len(cmd), Answered(c), NEW s, s = data[c]
  PROVE  /\ EndOf(s) = IF HasData(cmd[c]) THEN Yield(cmd[c]) ELSE 0
         /\ \A i \in 1 .. Len(s) :
              /\ s[i].sn = i - 1 /\ s[i].off = EndOf(SubSeq(s, 1, i - 1))
              /\ s[i].len \in 1 .. declared
              /\ s[i].final <=> i = Len(s)
         /\ status[c].expDataSN = Len(s) + (IF Incomplete(cmd[c]) THEN 1 ELSE 0)
         /\ cmd[c].kind \in {"read", "inquiry", "test"} =>
              EndOf(s) + status[c].residual = cmd[c].want
  <1>1. PICK p \in Results : status[c] = p
    <2>1. status[c] \in Results \cup {NoStatus} /\ NoStatus.type = "none"
      BY CommandIs DEF TypeOK, NoStatus
    <2> QED BY <2>1 DEF Answered
  <1>2. Chained(c) /\ Complete(c, p)
    BY <1>1 DEF Ordered, Arrived
  <1>3. p.c = c /\ ResultTrue(p)
    BY <1>2 DEF Complete
  <1>4. CASE HasData(cmd[c])
    <2>1. EndOf(s) = Yield(cmd[c]) /\ p.expDataSN = Len(s) /\ ~Incomplete(cmd[c])
      BY <1>2, <1>4 DEF Complete, HasData, Incomplete
    <2>2. PICK n : n = Len(s)
      OBVIOUS
    <2> DEFINE Linked(i) ==
                 /\ s[i].off \in Nat /\ s[i].len \in Nat /\ s[i].final \in BOOLEAN
                 /\ s[i].c = c /\ s[i].sn = i - 1 /\ SegmentTrue(s[i])
                 /\ s[i].off = IF i = 1 THEN 0 ELSE s[i - 1].off + s[i - 1].len
                 /\ s[i].off = EndOf(SubSeq(s, 1, i - 1))
    <2>3. n \in Nat /\ \A i \in 1 .. n : Linked(i)
      BY <1>2, <2>2, ChainEnds
    <2>4. ASSUME NEW i \in 1 .. n
          PROVE  /\ s[i].off \in Nat /\ s[i].len \in 1 .. declared /\ s[i].sn = i - 1
                 /\ s[i].off + s[i].len <= Yield(cmd[c])
                 /\ s[i].final <=> s[i].off + s[i].len = Yield(cmd[c])
                 /\ s[i].off = IF i = 1 THEN 0 ELSE s[i - 1].off + s[i - 1].len
                 /\ s[i].off = EndOf(SubSeq(s, 1, i - 1))
      <3>1. /\ s[i].off \in Nat /\ s[i].c = c /\ s[i].sn = i - 1 /\ SegmentTrue(s[i])
            /\ s[i].off = IF i = 1 THEN 0 ELSE s[i - 1].off + s[i - 1].len
            /\ s[i].off = EndOf(SubSeq(s, 1, i - 1))
        BY <2>3
      <3>2. /\ s[i].len \in 1 .. declared /\ s[i].off + s[i].len <= Yield(cmd[c])
            /\ s[i].final <=> s[i].off + s[i].len = Yield(cmd[c])
        BY <3>1 DEF SegmentTrue
      <3> QED BY <3>1, <3>2
    <2>5. ASSUME NEW i \in 1 .. n PROVE s[i].final <=> i = n
      <3>1. CASE i = n
        <4>1. EndOf(s) = s[i].off + s[i].len
          BY <2>2, <3>1 DEF EndOf
        <4> QED BY <2>1, <2>4, <3>1, <4>1
      <3>2. CASE i # n
        <4>1. i + 1 \in 1 .. n /\ (i + 1) - 1 = i /\ i + 1 # 1
          BY <2>3, <3>2
        <4>2. s[i + 1].off = s[i].off + s[i].len
          BY <2>4, <4>1
        <4>3. s[i + 1].off + s[i + 1].len <= Yield(cmd[c]) /\ s[i + 1].len \in 1 .. declared
          BY <2>4, <4>1
        <4>4. /\ declared \in Nat /\ Yield(cmd[c]) \in Nat
              /\ s[i].len \in 1 .. declared /\ s[i].off \in Nat
          BY <1>4, <2>4, CommandIs, ExchangeAssumption DEF TypeOK
        <4>5. s[i].off + s[i].len # Yield(cmd[c])
          BY <4>2, <4>3, <4>4
        <4> QED BY <2>4, <3>2, <4>5
      <3> QED BY <3>1, <3>2
    <2>6. cmd[c].kind \in {"read", "inquiry", "test"} => EndOf(s) + p.residual = cmd[c].want
      BY <1>3, <1>4, <2>1 DEF ResultTrue
    <2> QED BY <1>1, <1>4, <2>1, <2>2, <2>4, <2>5, <2>6
  <1>5. CASE ~HasData(cmd[c])
    <2>1. s = << >> /\ Len(s) = 0 /\ EndOf(s) = 0
      BY <1>2, <1>5 DEF Complete, EndOf
    <2>2. p.expDataSN = (IF Incomplete(cmd[c]) THEN 1 ELSE 0)
          /\ (cmd[c].kind \in {"read", "inquiry", "test"} => 0 + p.residual = cmd[c].want)
      BY <1>3, <1>5 DEF ResultTrue, Bit
    <2> QED BY <1>1, <1>5, <2>1, <2>2
  <1> QED BY <1>4, <1>5

(* A command whose response arrived has its data whole, in segments no     *)
(* longer than the initiator declared, numbered without a gap and the last *)
(* alone marked, and its counts are right, however its data were cut and   *)
(* whatever the tasks of other commands put on the wire in between: the    *)
(* writer task finishes a message before it takes another (pdu_io.rs), a   *)
(* command is answered once, and by the first of its segments the limit is *)
(* the one declared last (login.rs).                                       *)
THEOREM AnsweredWhole == Spec => []AnswersWhole
  <1>1. TypeOK /\ Ordered => AnswersWhole
    BY CompleteWhole DEF AnswersWhole
  <1>2. Init => TypeOK /\ LoggedIn /\ OnePlace /\ Ordered
    BY InitTypes, InitOrdered
  <1>3. TypeOK /\ LoggedIn /\ OnePlace /\ Ordered /\ [Next]_vars
          => TypeOK' /\ LoggedIn' /\ OnePlace' /\ Ordered'
    BY NextTypes, NextLogged, NextOrdered
  <1> QED BY <1>1, <1>2, <1>3, PTL DEF Spec

-----------------------------------------------------------------------------
(* How far a number is past the one the initiator started with.  No number *)
(* in play is as far as half the way round, so that by these distances the *)
(* serial order is the order of the integers.                              *)

Distances == {[n \in SN |-> (n - f) % Wrap] : f \in SN}

(* The reader loop's two numbers, at e and m, which count from the first   *)
(* login request on and differ by the window except between their stores.  *)
AtDoor(D, e, m) ==
  /\ IF tpc = "login" THEN e = 1 /\ m = 1 + Window ELSE e = D[expSN] /\ m = D[maxSN]
  /\ e \in 1 .. MaxCmds /\ e <= m + 1 /\ m <= e + Window
  /\ tpc # "open" => m = e + Window
  /\ tpc = "open" => D[cmd[Head(toTarget).c].sn] + 1 = e
  /\ D[mayTo] <= m
  /\ wpc = "max" => D[wexp] \in 1 .. e

(* The commands on their way are in the order of their numbers, none more  *)
(* than one behind ExpCmdSN, and all that are not are there, but for those *)
(* with the number that is not counted.                                    *)
Coming(i) == i \in DOMAIN toTarget /\ toTarget[i].type = "command"
SnAt(i)   == cmd[toTarget[i].c].sn

Sent(D) ==
  /\ D[cmdSN] <= Len(cmd) /\ (ipc # "full" => D[cmdSN] = 0)
  /\ \A i \in DOMAIN toTarget : toTarget[i].type = "login" => D[toTarget[i].sn] = 0
  /\ \A c \in 1 .. Len(cmd) : D[cmd[c].sn] < c /\ D[cmd[c].sn] <= D[cmdSN]

InTurn(D, e) ==
  /\ e <= D[cmdSN] + 1
  /\ \A i \in DOMAIN toTarget : Coming(i) =>
       /\ e <= D[SnAt(i)] + 1
       /\ \A j \in DOMAIN toTarget : Coming(j) /\ i < j => D[SnAt(i)] <= D[SnAt(j)]
  /\ \A v \in e .. D[cmdSN] - 1 :
       v = D[Wrap - 1] \/ \E i \in DOMAIN toTarget : Coming(i) /\ D[SnAt(i)] = v

(* The numbers on the wire rise, up to what the writer is about to send.   *)
Last(D, e) == IF wpc = "max" THEN D[wexp] ELSE e

OnWire(D, e, m) ==
  \A i \in Wire :
    /\ D[toInitiator[i].exp] \in 1 .. Last(D, e)
    /\ D[toInitiator[i].exp] <= D[toInitiator[i].max] + 1
    /\ D[toInitiator[i].max] \in D[mayTo] .. m
    /\ \A j \in 1 .. i - 1 : /\ D[toInitiator[j].exp] <= D[toInitiator[i].exp]
                             /\ D[toInitiator[j].max] <= D[toInitiator[i].max]

(* The initiator has the last MaxCmdSN, or is still to be sent it: unless  *)
(* a command's data have no length, which makes no PDU and is no answer.   *)
Filled == \A c \in 1 .. Len(cmd) : ~Void(c)

CatchingUp(D, m) ==
  \/ D[mayTo] = m \/ tpc # "read"
  \/ tasks # {} \/ chan # << >> \/ wmsg # NoMsg
  \/ toInitiator # << >> /\ D[toInitiator[Len(toInitiator)].max] = m

Rises(D, e, m) ==
  /\ AtDoor(D, e, m) /\ Sent(D) /\ InTurn(D, e) /\ OnWire(D, e, m)
  /\ Filled => CatchingUp(D, m)

Rising == \E D \in Distances, e, m \in Nat : Rises(D, e, m)

LEMMA DistanceShifts ==
  ASSUME NEW f \in SN, NEW D, D = [n \in SN |-> (n - f) % Wrap]
  PROVE  /\ D \in [SN -> SN]
         /\ \A n \in SN, k \in Int :
              D[n] + k \in 0 .. Wrap - 1 => (n + k) % Wrap \in SN /\ D[(n + k) % Wrap] = D[n] + k
         /\ \A a, b \in SN : D[a] <= D[b] => (b - a) % Wrap = D[b] - D[a]
  <1>1. Wrap \in Nat \ {0} /\ f \in Int /\ \A n \in SN : n \in Int
    BY ExchangeAssumption DEF SN
  <1>2. ASSUME NEW n \in SN
        PROVE  D[n] = (n - f) % Wrap /\ D[n] \in 0 .. Wrap - 1 /\ \E q \in Int : n - f = q * Wrap + D[n]
    <2>1. PICK u \in Int : u = n - f
      BY <1>1
    <2>2. u \div Wrap \in Int /\ u % Wrap \in 0 .. Wrap - 1 /\ (u \div Wrap) * Wrap + (u % Wrap) = u
      BY <1>1, DivMod
    <2> QED BY <2>1, <2>2
  <1>3. D \in [SN -> SN]
    BY <1>2 DEF SN
  <1>4. ASSUME NEW n \in SN, NEW k \in Int, D[n] + k \in 0 .. Wrap - 1
        PROVE  (n + k) % Wrap \in SN /\ D[(n + k) % Wrap] = D[n] + k
    <2>1. PICK a \in Int, b \in Int : a = n + k /\ b = -f
      BY <1>1
    <2>2. PICK q \in Int, d \in Int : n - f = q * Wrap + d /\ d = D[n]
      BY <1>2
    <2>3. PICK m \in Int : m = q * Wrap
      BY <1>1
    <2>4. a + b = q * Wrap + (d + k)
      BY <1>1, <2>1, <2>2, <2>3
    <2>5. PICK u \in Int, r \in 0 .. Wrap - 1 : u = a + b /\ r = d + k /\ u = q * Wrap + r
      BY <1>4, <2>1, <2>2, <2>4
    <2>6. u % Wrap = r
      BY <1>1, <2>5, ModIs, Zenon
    <2>7. ((a % Wrap) + b) % Wrap = (a + b) % Wrap
      BY <1>1, ModAdd, Zenon
    <2>8. (n + k) % Wrap \in SN
      BY <2>1, WrapType
    <2>9. D[(n + k) % Wrap] = ((a % Wrap) + b) % Wrap
      <3>1. PICK c \in SN : c = (n + k) % Wrap
        BY <2>8
      <3>2. D[c] = (c - f) % Wrap /\ c - f = c + b
        BY <1>1, <1>2, <2>1
      <3> QED BY <2>1, <3>1, <3>2
    <2> QED BY <2>2, <2>5, <2>6, <2>7, <2>8, <2>9
  <1>5. ASSUME NEW a \in SN, NEW b \in SN, D[a] <= D[b]
        PROVE  (b - a) % Wrap = D[b] - D[a]
    <2>1. PICK da \in 0 .. Wrap - 1, db \in 0 .. Wrap - 1 : da = D[a] /\ db = D[b]
      BY <1>2
    <2>2. PICK p \in Int : a - f = p * Wrap + da
      BY <1>2, <2>1
    <2>3. PICK q \in Int : b - f = q * Wrap + db
      BY <1>2, <2>1
    <2>4. PICK x \in Int, y \in Int : x = p * Wrap /\ y = q * Wrap
      BY <1>1
    <2>5. PICK d \in Int : d = q - p
      OBVIOUS
    <2>6. d * Wrap = y - x
      BY <1>1, <2>4, <2>5
    <2>7. a - f = x + da /\ b - f = y + db
      BY <2>2, <2>3, <2>4
    <2>8. PICK u \in Int, r \in 0 .. Wrap - 1 : u = b - a /\ r = db - da /\ u = (y - x) + r
      <3>1. a \in Int /\ b \in Int /\ da <= db
        BY <1>1, <1>5, <2>1
      <3>2. db - da \in 0 .. Wrap - 1 /\ b - a = (y - x) + (db - da)
        BY <1>1, <2>7, <3>1
      <3> QED BY <3>1, <3>2
    <2>9. u = d * Wrap + r
      BY <2>6, <2>8
    <2>10. u % Wrap = r
      BY <1>1, <2>9, ModIs, Zenon
    <2> QED BY <2>1, <2>8, <2>10
  <1> QED BY <1>3, <1>4, <1>5

LEMMA DistanceIs ==
  ASSUME NEW D \in Distances
  PROVE  /\ \A n \in SN : D[n] \in Nat /\ D[n] < Wrap
         /\ \A n \in SN, k \in Nat :
              D[n] + k < Wrap => (n + k) % Wrap \in SN /\ D[(n + k) % Wrap] = D[n] + k
         /\ \A n \in SN : D[n] > 0 => (n - 1) % Wrap \in SN /\ D[(n - 1) % Wrap] = D[n] - 1
         /\ \A a, b \in SN : D[a] <= D[b] /\ D[b] <= MaxCmds + Window => Behind(a, b)
  <1>1. PICK f \in SN : D = [n \in SN |-> (n - f) % Wrap]
    BY DEF Distances
  <1>2. /\ D \in [SN -> SN]
        /\ \A n \in SN, k \in Int :
             D[n] + k \in 0 .. Wrap - 1 => (n + k) % Wrap \in SN /\ D[(n + k) % Wrap] = D[n] + k
        /\ \A a, b \in SN : D[a] <= D[b] => (b - a) % Wrap = D[b] - D[a]
    BY <1>1, DistanceShifts
  <1>3. Wrap \in Nat /\ \A n \in SN : D[n] \in Nat /\ D[n] < Wrap
    BY <1>2, ExchangeAssumption DEF SN
  <1>4. ASSUME NEW n \in SN, NEW k \in Nat, D[n] + k < Wrap
        PROVE  (n + k) % Wrap \in SN /\ D[(n + k) % Wrap] = D[n] + k
    <2>1. D[n] + k \in 0 .. Wrap - 1 /\ k \in Int
      BY <1>3, <1>4
    <2> QED BY <1>2, <2>1
  <1>5. ASSUME NEW n \in SN, D[n] > 0
        PROVE  (n - 1) % Wrap \in SN /\ D[(n - 1) % Wrap] = D[n] - 1
    <2>1. D[n] + (-1) \in 0 .. Wrap - 1 /\ -1 \in Int
      BY <1>3, <1>5
    <2>2. n \in Int /\ n + (-1) = n - 1 /\ D[n] + (-1) = D[n] - 1
      BY <1>3 DEF SN
    <2>3. (n + (-1)) % Wrap \in SN /\ D[(n + (-1)) % Wrap] = D[n] + (-1)
      BY <1>2, <2>1
    <2> QED BY <2>2, <2>3
  <1>6. ASSUME NEW a \in SN, NEW b \in SN, D[a] <= D[b], D[b] <= MaxCmds + Window
        PROVE  Behind(a, b)
    <2>1. (b - a) % Wrap = D[b] - D[a]
      BY <1>2, <1>6
    <2>2. PICK h \in Int : h = Wrap \div 2 /\ Wrap <= 2 * h + 1
      <3>1. Wrap \in Int /\ 2 \in Nat \ {0}
        BY <1>3
      <3>2. Wrap \div 2 \in Int /\ Wrap % 2 \in 0 .. 1 /\ (Wrap \div 2) * 2 + (Wrap % 2) = Wrap
        BY <3>1, DivMod
      <3> QED BY <3>1, <3>2
    <2>3. D[b] - D[a] < h
      BY <1>3, <1>6, <2>2, ExchangeAssumption
    <2> QED BY <2>1, <2>2, <2>3 DEF Behind
  <1> QED BY <1>3, <1>4, <1>5, <1>6

-----------------------------------------------------------------------------
(* What each part says of a step. *)

LEMMA NumbersAre ==
  ASSUME TypeOK, NEW D \in Distances
  PROVE  /\ \A n \in SN : D[n] \in Nat
         /\ {cmdSN, mayTo, expSN, maxSN, wexp} \subseteq SN
         /\ Len(cmd) \in Nat /\ Len(cmd) <= MaxCmds
         /\ Wrap \in Nat /\ Window \in Nat \ {0} /\ MaxCmds \in Nat \ {0}
         /\ MaxCmds + Window + 1 < Wrap /\ Wrap - 1 \in SN
  <1>1. \A n \in SN : D[n] \in Nat
    BY DistanceIs
  <1>2. Wrap \in Nat /\ Window \in Nat \ {0} /\ MaxCmds \in Nat \ {0} /\ MaxCmds + Window + 1 < Wrap
    BY ExchangeAssumption
  <1> QED BY <1>1, <1>2 DEF TypeOK, SN

LEMMA ComingIs ==
  ASSUME TypeOK, NEW i \in DOMAIN toTarget, Coming(i)
  PROVE  toTarget[i].c \in 1 .. Len(cmd) /\ SnAt(i) \in SN
  <1>1. toTarget[i] \in Requests /\ toTarget[i].c <= Len(cmd) /\ Len(cmd) \in Nat
    BY DEF TypeOK, Named
  <1>2. toTarget[i].c \in 1 .. Len(cmd)
    BY <1>1, RequestIs DEF Coming, Cmds
  <1> QED BY <1>2, CommandIs DEF SnAt

LEMMA DoorStays ==
  ASSUME NEW D, NEW e \in Nat, NEW m \in Nat, AtDoor(D, e, m), UNCHANGED <<tpc, expSN, maxSN>>,
         wpc' = "max" => (wpc = "max" /\ wexp' = wexp), D[mayTo'] <= m,
         tpc = "open" => cmd'[Head(toTarget').c].sn = cmd[Head(toTarget).c].sn
  PROVE  AtDoor(D, e, m)'
  BY DEF AtDoor

LEMMA LastIs ==
  ASSUME TypeOK, NEW D \in Distances, NEW e \in Nat
  PROVE  Last(D, e) \in Nat
  BY NumbersAre DEF Last

LEMMA LastNext ==
  ASSUME TypeOK', NEW D \in Distances, NEW e \in Nat
  PROVE  Last(D, e)' \in Nat
  <1>1. wexp' \in SN
    BY DEF TypeOK
  <1> QED BY <1>1, DistanceIs DEF Last

(* A step of the reader loop, or the writer's loading of ExpCmdSN. *)
LEMMA RaisesWire ==
  ASSUME TypeOK, TypeOK', NEW D \in Distances, NEW e \in Nat, NEW m \in Nat, OnWire(D, e, m),
         NEW e2 \in Nat, NEW m2 \in Nat, m <= m2, Last(D, e) <= Last(D, e2)',
         UNCHANGED <<toInitiator, mayTo>>
  PROVE  OnWire(D, e2, m2)'
  <1>1. Last(D, e) \in Nat /\ Last(D, e2)' \in Nat /\ D[mayTo] \in Nat
    BY LastIs, LastNext, NumbersAre
  <1> DEFINE l == Last(D, e)
             k == Last(D, e2)'
  <1>2. l \in Nat /\ k \in Nat /\ l <= k
    BY <1>1
  <1>3. \A i \in Wire : /\ D[toInitiator[i].exp] \in 1 .. k
                         /\ D[toInitiator[i].max] \in D[mayTo] .. m2
    <2>1. \A i \in Wire : /\ D[toInitiator[i].exp] \in 1 .. l
                           /\ D[toInitiator[i].max] \in D[mayTo] .. m
      BY DEF OnWire
    <2> HIDE DEF l, k
    <2> QED BY <1>1, <1>2, <2>1
  <1> QED BY <1>3 DEF OnWire, Wire

(* A PDU put on the wire with numbers no lower than those before it.       *)
LEMMA PutRises ==
  ASSUME TypeOK, TypeOK', NEW D \in Distances, NEW e \in Nat, NEW m \in Nat, OnWire(D, e, m),
         NEW p \in Replies, Put(p), mayTo' = mayTo,
         NEW e2 \in Nat, NEW m2 \in Nat, m <= m2, D[p.max] = m2, D[mayTo] <= m,
         NEW k \in Nat \ {0}, D[p.exp] = k, Last(D, e) <= k, k <= Last(D, e2)', k <= m2 + 1
  PROVE  OnWire(D, e2, m2)'
  <1>1. toInitiator \in Seq(Replies) /\ D[mayTo] \in Nat
    BY NumbersAre DEF TypeOK
  <1>2. PICK n \in Nat : n = Len(toInitiator)
    BY <1>1
  <1>3. /\ Len(toInitiator') = n + 1 /\ toInitiator'[n + 1] = p
        /\ \A i \in 1 .. n : toInitiator'[i] = toInitiator[i]
    BY <1>1, <1>2, AppendAt DEF Put
  <1>4. PICK l \in Nat : l = Last(D, e)
    BY LastIs
  <1>5. PICK h \in Nat : h = Last(D, e2)'
    BY LastNext
  <1>6. ASSUME NEW i \in 1 .. n
        PROVE  /\ D[toInitiator'[i].exp] \in 1 .. k /\ D[toInitiator'[i].exp] \in 1 .. h
               /\ D[toInitiator'[i].exp] <= D[toInitiator'[i].max] + 1
               /\ D[toInitiator'[i].max] \in D[mayTo] .. m2
               /\ \A j \in 1 .. i - 1 : /\ D[toInitiator'[j].exp] <= D[toInitiator'[i].exp]
                                        /\ D[toInitiator'[j].max] <= D[toInitiator'[i].max]
    <2>1. /\ D[toInitiator[i].exp] \in 1 .. l
          /\ D[toInitiator[i].exp] <= D[toInitiator[i].max] + 1
          /\ D[toInitiator[i].max] \in D[mayTo] .. m
          /\ \A j \in 1 .. i - 1 : /\ D[toInitiator[j].exp] <= D[toInitiator[i].exp]
                                   /\ D[toInitiator[j].max] <= D[toInitiator[i].max]
      BY <1>2, <1>4 DEF OnWire, Wire
    <2>2. \A j \in 1 .. i : toInitiator'[j] = toInitiator[j]
      BY <1>2, <1>3
    <2>3. D[toInitiator[i].exp] \in 1 .. k /\ D[toInitiator[i].exp] \in 1 .. h
      BY <1>4, <1>5, <2>1
    <2>4. D[toInitiator[i].max] \in D[mayTo] .. m2
      BY <1>1, <2>1
    <2> QED BY <2>1, <2>2, <2>3, <2>4
  <1>7. /\ D[p.exp] \in 1 .. h /\ D[p.exp] <= D[p.max] + 1
        /\ D[p.max] \in D[mayTo] .. m2
        /\ \A j \in 1 .. n : D[toInitiator'[j].exp] <= D[p.exp] /\ D[toInitiator'[j].max] <= D[p.max]
    <2>1. \A j \in 1 .. n : D[toInitiator'[j].exp] <= k /\ D[toInitiator'[j].max] <= m2
      BY <1>1, <1>6
    <2>2. k \in 1 .. h /\ m2 \in D[mayTo] .. m2 /\ k <= m2 + 1
      BY <1>1, <1>5
    <2> QED BY <2>1, <2>2
  <1> QED BY <1>3, <1>5, <1>6, <1>7 DEF OnWire, Wire

(* The initiator takes the first and goes by its MaxCmdSN. *)
LEMMA ReceiveRises ==
  ASSUME TypeOK, NEW D \in Distances, NEW e \in Nat, NEW m \in Nat, OnWire(D, e, m),
         toInitiator # << >>, toInitiator' = Tail(toInitiator),
         D[mayTo'] = D[Head(toInitiator).max], UNCHANGED <<wpc, wexp>>
  PROVE  OnWire(D, e, m)'
  <1>1. toInitiator \in Seq(Replies)
    BY DEF TypeOK
  <1>2. PICK n \in Nat \ {0} : n = Len(toInitiator)
    BY <1>1
  <1>3. /\ Len(toInitiator') = n - 1 /\ Head(toInitiator) = toInitiator[1]
        /\ \A i \in 1 .. n - 1 : toInitiator'[i] = toInitiator[i + 1]
    BY <1>1, <1>2, TailAt
  <1>4. Last(D, e)' = Last(D, e) /\ Last(D, e) \in Nat
    BY LastIs DEF Last
  <1>5. D[toInitiator[1].max] \in Nat
    <2>1. toInitiator[1] \in Replies
      BY <1>1, <1>2
    <2> QED BY <2>1, ReplyIs, NumbersAre
  <1>6. ASSUME NEW i \in 1 .. n - 1
        PROVE  /\ D[toInitiator'[i].exp] \in 1 .. Last(D, e)
               /\ D[toInitiator'[i].exp] <= D[toInitiator'[i].max] + 1
               /\ D[toInitiator'[i].max] \in D[toInitiator[1].max] .. m
               /\ \A j \in 1 .. i - 1 : /\ D[toInitiator'[j].exp] <= D[toInitiator'[i].exp]
                                        /\ D[toInitiator'[j].max] <= D[toInitiator'[i].max]
    <2>1. PICK k \in 2 .. n : k = i + 1
      BY <1>2
    <2>2. /\ D[toInitiator[k].exp] \in 1 .. Last(D, e)
          /\ D[toInitiator[k].exp] <= D[toInitiator[k].max] + 1
          /\ D[toInitiator[k].max] \in D[mayTo] .. m
          /\ \A j \in 1 .. k - 1 : /\ D[toInitiator[j].exp] <= D[toInitiator[k].exp]
                                   /\ D[toInitiator[j].max] <= D[toInitiator[k].max]
      BY <1>2 DEF OnWire, Wire
    <2>3. \A j \in 1 .. i - 1 : j + 1 \in 1 .. k - 1 /\ toInitiator'[j] = toInitiator[j + 1]
      BY <1>2, <1>3, <2>1
    <2>4. 1 \in 1 .. k - 1 /\ toInitiator'[i] = toInitiator[k]
      BY <1>3, <2>1
    <2>5. D[toInitiator[k].max] \in D[toInitiator[1].max] .. m
      <3>1. D[toInitiator[k].max] \in Int /\ D[toInitiator[k].max] <= m
        BY <2>2, NumbersAre
      <3> QED BY <1>5, <2>2, <2>4, <3>1
    <2> QED BY <2>2, <2>3, <2>4, <2>5
  <1> QED BY <1>3, <1>4, <1>6 DEF OnWire, Wire

LEMMA QueueStays ==
  ASSUME NEW D, NEW e, Sent(D), InTurn(D, e), UNCHANGED <<cmdSN, cmd, toTarget>>,
         ipc' # "full" => ipc # "full"
  PROVE  Sent(D)' /\ InTurn(D, e)'
  BY DEF Sent, InTurn, Coming, SnAt

(* Anything but a command put behind what is on its way. *)
LEMMA OtherInTurn ==
  ASSUME TypeOK, NEW D \in Distances, NEW e \in Nat, Sent(D), InTurn(D, e),
         NEW d \in Requests, toTarget' = Append(toTarget, d), d.type # "command",
         d.type = "login" => D[d.sn] = 0,
         UNCHANGED <<cmd, cmdSN>>, ipc' # "full" => ipc # "full"
  PROVE  Sent(D)' /\ InTurn(D, e)'
  <1>1. toTarget \in Seq(Requests)
    BY DEF TypeOK
  <1>2. PICK n \in Nat : n = Len(toTarget)
    BY <1>1
  <1>3. /\ DOMAIN toTarget = 1 .. n /\ DOMAIN toTarget' = 1 .. n + 1 /\ toTarget'[n + 1] = d
        /\ \A i \in 1 .. n : toTarget'[i] = toTarget[i]
    BY <1>1, <1>2, AppendAt
  <1>4. /\ \A i \in 1 .. n : (Coming(i)' <=> Coming(i)) /\ SnAt(i)' = SnAt(i)
        /\ ~Coming(n + 1)'
    BY <1>3 DEF Coming, SnAt
  <1>5. Sent(D)'
    BY <1>3 DEF Sent
  <1>6. \A i \in DOMAIN toTarget' : Coming(i)' => i \in 1 .. n /\ Coming(i)
    BY <1>3, <1>4
  <1>7. ASSUME NEW i \in DOMAIN toTarget', Coming(i)'
        PROVE  /\ e <= D[SnAt(i)'] + 1
               /\ \A j \in DOMAIN toTarget' : Coming(j)' /\ i < j => D[SnAt(i)'] <= D[SnAt(j)']
    BY <1>3, <1>4, <1>6, <1>7 DEF InTurn
  <1>8. ASSUME NEW v \in e .. D[cmdSN'] - 1
        PROVE  v = D[Wrap - 1] \/ \E i \in DOMAIN toTarget' : Coming(i)' /\ D[SnAt(i)'] = v
    BY <1>3, <1>4, <1>8 DEF InTurn
  <1> QED BY <1>5, <1>7, <1>8 DEF InTurn

(* A command is the last on its way, with the highest number. *)
LEMMA CommandInTurn ==
  ASSUME TypeOK, NEW D \in Distances, NEW e \in Nat, Sent(D), InTurn(D, e),
         NEW x \in Menu, SendCommand(x)
  PROVE  Sent(D)' /\ InTurn(D, e)'
  <1> DEFINE c == Len(cmd) + 1
             d == [type |-> "command", c |-> c]
             r == [kind |-> x.kind, want |-> x.want, sn |-> cmdSN]
  <1>1. /\ toTarget' = Append(toTarget, d) /\ cmd' = Append(cmd, r) /\ c \in Cmds
        /\ ipc = "full" /\ ipc' = "full"
        /\ cmdSN' = cmdSN \/ cmdSN' = After(cmdSN)
    BY DEF SendCommand
  <1>2. d \in Requests /\ d.type = "command" /\ d.c = c /\ r.sn = cmdSN
    BY <1>1 DEF Requests
  <1>3. PICK k \in Nat : k = Len(cmd) /\ c = k + 1 /\ k < MaxCmds
    BY <1>1, NumbersAre DEF Cmds
  <1>4. /\ Len(cmd') = k + 1 /\ cmd'[k + 1].sn = cmdSN
        /\ \A i \in 1 .. k : cmd'[i] = cmd[i]
    <2>1. cmd \in Seq([kind : Kinds, want : Nat, sn : SN])
      BY DEF TypeOK
    <2>2. \A i \in 1 .. k : cmd'[i] = cmd[i]
      BY <1>1, <1>3, <2>1
    <2>3. Len(cmd') = k + 1 /\ cmd'[k + 1] = r
      BY <1>1, <1>3, <2>1
    <2> QED BY <1>2, <2>2, <2>3
  <1> HIDE DEF c, d, r
  <1>5. PICK n \in Nat : n = Len(toTarget)
    BY DEF TypeOK
  <1>6. /\ DOMAIN toTarget = 1 .. n /\ DOMAIN toTarget' = 1 .. n + 1 /\ toTarget'[n + 1] = d
        /\ \A i \in 1 .. n : toTarget'[i] = toTarget[i]
    BY <1>1, <1>2, <1>5, AppendAt DEF TypeOK
  <1>7. PICK s \in Nat : s = D[cmdSN] /\ s <= k
    BY <1>3, NumbersAre DEF Sent
  <1>8. PICK t \in Nat : t = D[cmdSN'] /\ (t = s \/ t = s + 1)
    <2>1. CASE cmdSN' = cmdSN
      BY <1>7, <2>1
    <2>2. CASE cmdSN' = After(cmdSN)
      <3>1. D[cmdSN] + 1 < Wrap /\ cmdSN \in SN
        BY <1>3, <1>7, NumbersAre
      <3>2. D[(cmdSN + 1) % Wrap] = D[cmdSN] + 1
        BY <3>1, DistanceIs
      <3> QED BY <1>7, <2>2, <3>2 DEF After
    <2> QED BY <1>1, <2>1, <2>2
  <1>9. \A i \in 1 .. n : /\ Coming(i)' <=> Coming(i)
                          /\ Coming(i) => SnAt(i)' = SnAt(i) /\ D[SnAt(i)] \in Nat /\ D[SnAt(i)] <= s
    <2> SUFFICES ASSUME NEW i \in 1 .. n
                 PROVE  /\ Coming(i)' <=> Coming(i)
                        /\ Coming(i) => /\ SnAt(i)' = SnAt(i) /\ D[SnAt(i)] \in Nat
                                        /\ D[SnAt(i)] <= s
      OBVIOUS
    <2>1. Coming(i)' <=> Coming(i)
      BY <1>6 DEF Coming
    <2>2. ASSUME Coming(i) PROVE SnAt(i)' = SnAt(i) /\ D[SnAt(i)] \in Nat /\ D[SnAt(i)] <= s
      <3>1. toTarget[i].c \in 1 .. k /\ SnAt(i) \in SN
        BY <1>3, <1>6, <2>2, ComingIs
      <3>2. SnAt(i)' = SnAt(i)
        BY <1>4, <1>6, <3>1 DEF SnAt
      <3>3. D[SnAt(i)] \in Nat /\ D[SnAt(i)] <= s
        BY <1>3, <1>7, <3>1, NumbersAre DEF Sent, SnAt
      <3> QED BY <3>2, <3>3
    <2> QED BY <2>1, <2>2
  <1>10. Coming(n + 1)' /\ D[SnAt(n + 1)'] = s
    BY <1>2, <1>3, <1>4, <1>6, <1>7 DEF Coming, SnAt
  <1>11. Sent(D)'
    <2>1. \A i \in DOMAIN toTarget' : toTarget'[i].type = "login" => D[toTarget'[i].sn] = 0
      BY <1>2, <1>6 DEF Sent
    <2>2. \A i \in 1 .. k + 1 : D[cmd'[i].sn] < i /\ D[cmd'[i].sn] <= t
      <3>1. \A i \in 1 .. k : /\ D[cmd[i].sn] < i /\ D[cmd[i].sn] <= s
                              /\ D[cmd[i].sn] \in Nat
        BY <1>3, <1>7, CommandIs, NumbersAre DEF Sent
      <3>2. \A i \in 1 .. k : D[cmd'[i].sn] < i /\ D[cmd'[i].sn] <= t
        BY <1>4, <1>8, <3>1
      <3>3. D[cmd'[k + 1].sn] < k + 1 /\ D[cmd'[k + 1].sn] <= t
        BY <1>4, <1>7, <1>8
      <3> QED BY <3>2, <3>3
    <2> QED BY <1>1, <1>4, <1>7, <1>8, <2>1, <2>2 DEF Sent
  <1>12. ASSUME NEW i \in DOMAIN toTarget', Coming(i)'
         PROVE  /\ e <= D[SnAt(i)'] + 1
                /\ \A j \in DOMAIN toTarget' : Coming(j)' /\ i < j => D[SnAt(i)'] <= D[SnAt(j)']
    <2>1. CASE i \in 1 .. n
      <3>1. /\ Coming(i) /\ SnAt(i)' = SnAt(i) /\ e <= D[SnAt(i)] + 1 /\ D[SnAt(i)] <= s
            /\ \A j \in 1 .. n : Coming(j) /\ i < j => D[SnAt(i)] <= D[SnAt(j)]
        BY <1>6, <1>9, <1>12, <2>1 DEF InTurn
      <3> QED BY <1>6, <1>9, <1>10, <3>1
    <2>2. CASE i = n + 1
      BY <1>6, <1>7, <1>10, <2>2 DEF InTurn
    <2> QED BY <1>6, <2>1, <2>2
  <1>13. ASSUME NEW v \in e .. t - 1
         PROVE  v = D[Wrap - 1] \/ \E i \in DOMAIN toTarget' : Coming(i)' /\ D[SnAt(i)'] = v
    <2>1. CASE v \in e .. s - 1
      <3>1. v = D[Wrap - 1] \/ \E i \in 1 .. n : Coming(i) /\ D[SnAt(i)] = v
        BY <1>6, <1>7, <2>1 DEF InTurn
      <3> QED BY <1>6, <1>9, <3>1
    <2>2. CASE v = s
      BY <1>6, <1>10, <2>2
    <2> QED BY <1>7, <1>8, <2>1, <2>2
  <1>14. e <= t + 1
    BY <1>7, <1>8 DEF InTurn
  <1> QED BY <1>8, <1>11, <1>12, <1>13, <1>14 DEF InTurn

(* Taking the first of them, if it is counted or is not to be.             *)
LEMMA TakenInTurn ==
  ASSUME TypeOK, NEW D \in Distances, NEW e \in Nat, Sent(D), InTurn(D, e),
         toTarget # << >>, toTarget' = Tail(toTarget), UNCHANGED <<ipc, cmd, cmdSN>>,
         Coming(1) => D[SnAt(1)] = D[Wrap - 1] \/ D[SnAt(1)] + 1 <= e
  PROVE  Sent(D)' /\ InTurn(D, e)'
  <1>1. toTarget \in Seq(Requests)
    BY DEF TypeOK
  <1>2. PICK n \in Nat \ {0} : n = Len(toTarget)
    BY <1>1
  <1>3. /\ DOMAIN toTarget = 1 .. n /\ DOMAIN toTarget' = 1 .. n - 1
        /\ \A i \in 1 .. n - 1 : toTarget'[i] = toTarget[i + 1]
    BY <1>1, <1>2
  <1>4. \A i \in 1 .. n - 1 : (Coming(i)' <=> Coming(i + 1)) /\ SnAt(i)' = SnAt(i + 1)
    <2>1. \A i \in 1 .. n - 1 : i + 1 \in 1 .. n
      BY <1>2
    <2> QED BY <1>3, <2>1 DEF Coming, SnAt
  <1>5. Sent(D)'
    <2>1. \A i \in 1 .. n - 1 : i + 1 \in 1 .. n
      BY <1>2
    <2> QED BY <1>3, <2>1 DEF Sent
  <1>6. ASSUME NEW i \in 1 .. n - 1, Coming(i)'
        PROVE  /\ e <= D[SnAt(i)'] + 1
               /\ \A j \in 1 .. n - 1 : Coming(j)' /\ i < j => D[SnAt(i)'] <= D[SnAt(j)']
    <2>1. PICK a \in 1 .. n : a = i + 1
      BY <1>2
    <2>2. /\ Coming(a) /\ SnAt(i)' = SnAt(a)
          /\ e <= D[SnAt(a)] + 1
          /\ \A b \in 1 .. n : Coming(b) /\ a < b => D[SnAt(a)] <= D[SnAt(b)]
      BY <1>3, <1>4, <1>6, <2>1 DEF InTurn
    <2>3. ASSUME NEW j \in 1 .. n - 1, Coming(j)', i < j PROVE D[SnAt(i)'] <= D[SnAt(j)']
      <3>1. PICK b \in 1 .. n : b = j + 1
        BY <1>2
      <3> QED BY <1>4, <2>1, <2>2, <2>3, <3>1
    <2> QED BY <2>2, <2>3
  <1>7. ASSUME NEW v \in e .. D[cmdSN] - 1
        PROVE  v = D[Wrap - 1] \/ \E i \in 1 .. n - 1 : Coming(i)' /\ D[SnAt(i)'] = v
    <2>1. v = D[Wrap - 1] \/ \E i \in 1 .. n : Coming(i) /\ D[SnAt(i)] = v
      BY <1>3, <1>7 DEF InTurn
    <2>2. ASSUME NEW a \in 1 .. n, Coming(a), D[SnAt(a)] = v, v # D[Wrap - 1]
          PROVE  \E i \in 1 .. n - 1 : Coming(i)' /\ D[SnAt(i)'] = v
      <3>1. a # 1
        <4>1. v >= e /\ v \in Int
          BY <1>7, NumbersAre
        <4> QED BY <2>2, <4>1
      <3>2. PICK i \in 1 .. n - 1 : a = i + 1
        BY <3>1
      <3> QED BY <1>4, <2>2, <3>2
    <2> QED BY <2>1, <2>2
  <1> QED BY <1>3, <1>5, <1>6, <1>7 DEF InTurn

(* A command that is counted leaves at most one number out, that which is  *)
(* not; and those behind it are still in turn.                             *)
LEMMA CountedInTurn ==
  ASSUME TypeOK, NEW D \in Distances, NEW e \in Nat, Sent(D), InTurn(D, e), Coming(1),
         NEW s \in Nat, s = D[SnAt(1)]
  PROVE  e <= s + 1 /\ s <= e + 1 /\ s + 1 \in 1 .. MaxCmds /\ InTurn(D, s + 1)
  <1>1. 1 \in DOMAIN toTarget /\ toTarget[1].c \in 1 .. Len(cmd) /\ SnAt(1) \in SN
    BY ComingIs DEF Coming
  <1>2. PICK t \in Nat : t = D[cmdSN]
    BY NumbersAre
  <1>3. e <= s + 1 /\ s <= t /\ s < MaxCmds
    <2>1. s < toTarget[1].c /\ s <= t
      BY <1>1, <1>2 DEF Sent, SnAt
    <2> QED BY <1>1, <2>1, NumbersAre DEF InTurn
  <1>4. \A i \in DOMAIN toTarget : Coming(i) => D[SnAt(i)] \in Nat /\ s <= D[SnAt(i)]
    <2> SUFFICES ASSUME NEW i \in DOMAIN toTarget, Coming(i)
                 PROVE  D[SnAt(i)] \in Nat /\ s <= D[SnAt(i)]
      OBVIOUS
    <2>1. D[SnAt(i)] \in Nat
      BY ComingIs, NumbersAre
    <2>2. i = 1 \/ 1 < i
      BY DEF TypeOK
    <2> QED BY <1>1, <2>1, <2>2 DEF InTurn
  <1>5. s <= e + 1
    <2> SUFFICES ASSUME e + 1 < s PROVE FALSE
      BY <1>3
    <2>1. e \in e .. t - 1 /\ e + 1 \in e .. t - 1
      BY <1>2, <1>3
    <2>2. \A v \in {e, e + 1} : v = D[Wrap - 1] \/ \E i \in DOMAIN toTarget : Coming(i) /\ D[SnAt(i)] = v
      BY <1>2, <2>1 DEF InTurn
    <2>3. \A v \in {e, e + 1} : v = D[Wrap - 1]
      BY <1>4, <2>2
    <2> QED BY <2>3
  <1>6. InTurn(D, s + 1)
    <2>1. s + 1 <= D[cmdSN] + 1
      BY <1>2, <1>3
    <2>2. \A i \in DOMAIN toTarget : Coming(i) =>
            /\ s + 1 <= D[SnAt(i)] + 1
            /\ \A j \in DOMAIN toTarget : Coming(j) /\ i < j => D[SnAt(i)] <= D[SnAt(j)]
      BY <1>4 DEF InTurn
    <2>3. \A v \in s + 1 .. t - 1 : v \in e .. t - 1
      BY <1>3
    <2>4. \A v \in s + 1 .. D[cmdSN] - 1 :
            v = D[Wrap - 1] \/ \E i \in DOMAIN toTarget : Coming(i) /\ D[SnAt(i)] = v
      BY <1>2, <2>3 DEF InTurn
    <2> QED BY <2>1, <2>2, <2>4 DEF InTurn
  <1>7. s + 1 \in 1 .. MaxCmds
    BY <1>3, ExchangeAssumption
  <1> QED BY <1>3, <1>5, <1>6, <1>7

-----------------------------------------------------------------------------
(* Each step keeps the numbers rising. *)

(* A writer at work, or a command taken, is after the login. *)
LEMMA LoginOver ==
  ASSUME TypeOK, LoggedIn, ipc = "full" \/ wpc # "recv" \/ tpc # "login"
  PROVE  /\ wpc # "recv" \/ tpc = "open" => tpc # "login" /\ ipc = "full"
         /\ ipc = "full" => tpc # "login"
  BY NoCommandYet DEF LoggedIn, Logging

LEMMA SendLoginRises ==
  ASSUME TypeOK, LoggedIn, NEW D \in Distances, NEW e \in Nat, NEW m \in Nat, Rises(D, e, m), Filled' => Filled,
         NEW declares \in BOOLEAN, NEW l \in Limits, NEW last \in BOOLEAN,
         SendLogin(declares, l, last), TypeOK'
  PROVE  Rises(D, e, m)'
  <1> DEFINE p == [type |-> "login", c |-> 0, sn |-> cmdSN, declares |-> declares,
                   limit |-> l, last |-> last]
  <1>1. /\ ipc = "login" /\ toTarget' = Append(toTarget, p) /\ p \in Requests /\ p.type = "login"
        /\ UNCHANGED <<cmdSN, cmd, mayTo, toInitiator, tpc, expSN, maxSN, tasks, chan, wpc, wmsg, wexp>>
    BY DEF SendLogin, readerVars, writerVars, Requests, TypeOK
  <1>2. tpc = "login"
    BY <1>1 DEF LoggedIn, Logging
  <1>3. AtDoor(D, e, m)'
    BY <1>1, <1>2, DoorStays DEF Rises, AtDoor
  <1>4. Sent(D)' /\ InTurn(D, e)'
    <2>1. D[p.sn] = 0
      BY <1>1 DEF Rises, Sent
    <2> HIDE DEF p
    <2> QED BY <1>1, <2>1, OtherInTurn DEF Rises
  <1>5. OnWire(D, e, m)'
    BY <1>1 DEF Rises, OnWire, Wire, Last
  <1> QED BY <1>1, <1>2, <1>3, <1>4, <1>5 DEF Rises, CatchingUp

LEMMA CommandRises ==
  ASSUME TypeOK, LoggedIn, NEW D \in Distances, NEW e \in Nat, NEW m \in Nat, Rises(D, e, m), Filled' => Filled,
         NEW x \in Menu, SendCommand(x), TypeOK'
  PROVE  Rises(D, e, m)'
  <1>1. UNCHANGED <<mayTo, toInitiator, tpc, expSN, maxSN, tasks, chan, wpc, wmsg, wexp>>
    BY DEF SendCommand, readerVars, writerVars
  <1>2. tpc = "open" => cmd'[Head(toTarget').c].sn = cmd[Head(toTarget).c].sn
    <2> SUFFICES ASSUME tpc = "open" PROVE cmd'[Head(toTarget').c].sn = cmd[Head(toTarget).c].sn
      OBVIOUS
    <2> DEFINE d == [type |-> "command", c |-> Len(cmd) + 1]
               r == [kind |-> x.kind, want |-> x.want, sn |-> cmdSN]
    <2>1. toTarget # << >> /\ Head(toTarget).type # "login" /\ toTarget \in Seq(Requests)
      BY DEF TypeOK
    <2>2. d \in Requests /\ toTarget' = Append(toTarget, d)
      BY DEF SendCommand, Requests
    <2>3. Head(toTarget') = Head(toTarget)
      BY <2>1, <2>2, HeadStays
    <2>4. Head(toTarget).c \in 1 .. Len(cmd)
      BY <2>1, HeadCommand
    <2>5. cmd \in Seq([kind : Kinds, want : Nat, sn : SN]) /\ cmd' = Append(cmd, r)
      BY DEF TypeOK, SendCommand
    <2>6. \A i \in 1 .. Len(cmd) : cmd'[i] = cmd[i]
      BY <2>5
    <2> QED BY <2>3, <2>4, <2>6
  <1>3. AtDoor(D, e, m)'
    BY <1>1, <1>2, DoorStays DEF Rises, AtDoor
  <1>4. Sent(D)' /\ InTurn(D, e)'
    BY CommandInTurn DEF Rises
  <1>5. OnWire(D, e, m)'
    BY <1>1 DEF Rises, OnWire, Wire, Last
  <1> QED BY <1>1, <1>3, <1>4, <1>5 DEF Rises, CatchingUp

LEMMA ReceivedRises ==
  ASSUME TypeOK, LoggedIn, NEW D \in Distances, NEW e \in Nat, NEW m \in Nat, Rises(D, e, m),
         Filled' => Filled, Receive, TypeOK'
  PROVE  Rises(D, e, m)'
  <1> DEFINE p == Head(toInitiator)
             d == [type |-> "dataOut", c |-> p.c]
  <1>1. /\ toInitiator # << >> /\ toInitiator' = Tail(toInitiator) /\ toInitiator \in Seq(Replies)
        /\ UNCHANGED <<cmdSN, cmd, tpc, expSN, maxSN, tasks, chan, wpc, wmsg, wexp>>
    BY DEF Receive, readerVars, writerVars, TypeOK
  <1>2. PICK n \in Nat \ {0} : n = Len(toInitiator)
    BY <1>1
  <1>3. p = toInitiator[1] /\ 1 \in Wire /\ p \in Replies
    BY <1>1, <1>2, TailAt DEF Wire
  <1>4. D[p.max] \in D[mayTo] .. m
    BY <1>3 DEF Rises, OnWire
  <1>5. m <= MaxCmds + Window /\ p.max \in SN /\ mayTo \in SN
    <2>1. m <= e + Window /\ e <= MaxCmds
      BY DEF Rises, AtDoor
    <2> QED BY <1>3, <2>1, NumbersAre, ReplyIs
  <1>6. Behind(mayTo, p.max)
    <2>1. D[p.max] \in Nat /\ D[mayTo] \in Nat
      BY <1>5, NumbersAre
    <2>2. D[mayTo] <= D[p.max] /\ D[p.max] <= MaxCmds + Window
      BY <1>4, <1>5, <2>1, NumbersAre
    <2> QED BY <1>5, <2>2, DistanceIs
  <1>7. mayTo' = p.max
    BY <1>6 DEF Receive
  <1> HIDE DEF p
  <1>8. /\ toTarget' = toTarget \/ (toTarget' = Append(toTarget, d) /\ d \in Requests)
        /\ ipc' # "full" => ipc # "full"
    <2>1. p.type = "r2t" => d \in Requests
      BY <1>3, ReplyIs DEF Requests
    <2>2. p.type = "login" => ipc # "full"
      BY <1>1, <1>2, <1>3 DEF LoggedIn
    <2> QED BY <2>1, <2>2 DEF Receive, p
  <1>9. tpc = "open" => cmd'[Head(toTarget').c].sn = cmd[Head(toTarget).c].sn
    <2>1. toTarget \in Seq(Requests) /\ (tpc = "open" => toTarget # << >>)
      BY DEF TypeOK
    <2> HIDE DEF d
    <2>2. tpc = "open" => Head(toTarget') = Head(toTarget)
      BY <1>8, <2>1, HeadStays
    <2> QED BY <1>1, <2>2
  <1>10. AtDoor(D, e, m)'
    <2>1. D[mayTo'] <= m /\ AtDoor(D, e, m)
      BY <1>4, <1>5, <1>7, NumbersAre DEF Rises
    <2>2. wpc' = "max" => wpc = "max" /\ wexp' = wexp
      BY <1>1
    <2>3. UNCHANGED <<tpc, expSN, maxSN>>
      BY <1>1
    <2> QED BY <1>9, <2>1, <2>2, <2>3, DoorStays
  <1>11. Sent(D)' /\ InTurn(D, e)'
    <2>1. d.type = "dataOut"
      OBVIOUS
    <2> HIDE DEF d
    <2> QED BY <1>1, <1>8, <2>1, QueueStays, OtherInTurn DEF Rises
  <1>12. OnWire(D, e, m)'
    BY <1>1, <1>7, ReceiveRises DEF Rises, p
  <1>13. CatchingUp(D, m) => CatchingUp(D, m)'
    <2>1. CASE D[mayTo] = m
      BY <1>4, <1>7, <2>1, DistanceIs, <1>5 DEF CatchingUp
    <2>2. CASE D[toInitiator[n].max] = m
      <3>1. CASE n = 1
        BY <1>3, <1>7, <2>2, <3>1 DEF CatchingUp
      <3>2. CASE n > 1
        <4>1. Len(toInitiator') = n - 1 /\ toInitiator' \in Seq(Replies)
          BY <1>1, <1>2
        <4>2. n \in DOMAIN toInitiator /\ n # 1
          BY <1>1, <1>2, <3>2
        <4>3. toInitiator'[n - 1] = toInitiator[n]
          BY <1>1, <4>2, TailAt
        <4>4. toInitiator' # << >>
          BY <3>2, <4>1
        <4> QED BY <2>2, <4>1, <4>3, <4>4 DEF CatchingUp
      <3> QED BY <3>1, <3>2
    <2>3. CASE tpc # "read" \/ tasks # {} \/ chan # << >> \/ wmsg # NoMsg
      BY <1>1, <2>3 DEF CatchingUp
    <2> QED BY <1>2, <2>1, <2>2, <2>3 DEF CatchingUp
  <1> QED BY <1>10, <1>11, <1>12, <1>13 DEF Rises

LEMMA LoginRises ==
  ASSUME TypeOK, LoggedIn, NEW D \in Distances, NEW e \in Nat, NEW m \in Nat, Rises(D, e, m),
         Login, TypeOK'
  PROVE  Rises(D, e, m)'
  <1> DEFINE p == Head(toTarget)
  <1>1. /\ toTarget # << >> /\ toTarget' = Tail(toTarget) /\ p.type = "login" /\ tpc = "login"
        /\ toTarget \in Seq(Requests) /\ tpc' \in {"login", "read"}
        /\ expSN' = After(p.sn) /\ maxSN' = (p.sn + 1 + Window) % Wrap
        /\ UNCHANGED <<ipc, cmdSN, cmd, mayTo, tasks, chan, wpc, wmsg, wexp>>
    BY DEF Login, Next_, Take, initiatorVars, TypeOK
  <1>2. 1 \in DOMAIN toTarget /\ p = toTarget[1] /\ p \in Requests
    BY <1>1, TailAt
  <1>3. ipc # "full" /\ wpc = "recv" /\ ~Coming(1)
    <2>1. ipc # "full"
      BY <1>1, <1>2 DEF LoggedIn
    <2> QED BY <1>1, <1>2, <2>1, NoCommandYet DEF Coming
  <1>4. toInitiator = << >>
    BY <1>1, <1>3 DEF LoggedIn, Logging, TypeOK
  <1>5. p.sn \in SN /\ D[p.sn] = 0
    BY <1>1, <1>2, RequestIs DEF Rises, Sent
  <1>6. PICK r \in Replies : Put(r) /\ r.exp = expSN' /\ r.max = maxSN'
    BY LoginAnswered
  <1> HIDE DEF p
  <1>7. e = 1 /\ m = 1 + Window
    BY <1>1 DEF Rises, AtDoor
  <1>8. D[expSN'] = e /\ D[maxSN'] = m
    <2>1. D[(p.sn + 1) % Wrap] = 1
      <3>1. D[p.sn] + 1 < Wrap
        BY <1>5, NumbersAre
      <3> QED BY <1>5, <3>1, DistanceIs
    <2>2. D[(p.sn + (1 + Window)) % Wrap] = 1 + Window
      <3>1. D[p.sn] + (1 + Window) < Wrap /\ 1 + Window \in Nat
        BY <1>5, NumbersAre
      <3>2. D[(p.sn + (1 + Window)) % Wrap] = D[p.sn] + (1 + Window)
        BY <1>5, <3>1, DistanceIs
      <3> QED BY <1>5, <3>1, <3>2
    <2>3. p.sn + 1 + Window = p.sn + (1 + Window)
      BY <1>5, ExchangeAssumption DEF SN
    <2> QED BY <1>1, <1>7, <2>1, <2>2, <2>3 DEF After
  <1>9. AtDoor(D, e, m)'
    BY <1>1, <1>3, <1>7, <1>8 DEF Rises, AtDoor
  <1>10. Sent(D)' /\ InTurn(D, e)'
    BY <1>1, <1>3, TakenInTurn DEF Rises
  <1>11. OnWire(D, e, m)'
    <2>1. Last(D, e) = 1 /\ Last(D, e)' = 1 /\ D[mayTo] <= m /\ OnWire(D, e, m) /\ 1 \in Nat \ {0}
      BY <1>1, <1>3, <1>7 DEF Last, Rises, AtDoor
    <2>2. D[r.exp] = 1 /\ D[r.max] = m /\ 1 <= m + 1 /\ m <= m /\ 1 <= Last(D, e)' /\ Last(D, e) <= 1
      BY <1>6, <1>7, <1>8, <2>1
    <2> QED BY <1>1, <1>6, <2>1, <2>2, PutRises
  <1>12. CatchingUp(D, m)'
    <2>1. toInitiator' # << >> /\ toInitiator'[Len(toInitiator')] = r
      BY <1>4, <1>6 DEF Put
    <2> QED BY <1>6, <1>8, <2>1 DEF CatchingUp
  <1> QED BY <1>9, <1>10, <1>11, <1>12 DEF Rises

LEMMA Dispatched ==
  ASSUME TypeOK, NEW c, Dispatch(c)
  PROVE  tasks' # {} \/ chan' # << >>
  <1>1. CASE chan' = Append(chan, [type |-> "r2t", c |-> c])
    BY <1>1 DEF TypeOK
  <1>2. CASE tasks' = tasks \cup {c}
    BY <1>2
  <1> QED BY <1>1, <1>2 DEF Dispatch

(* The command the reader loop has before it. *)
LEMMA HeadComing ==
  ASSUME TypeOK, toTarget # << >>, Head(toTarget).type = "command"
  PROVE  /\ Coming(1) /\ SnAt(1) = cmd[Head(toTarget).c].sn /\ SnAt(1) \in SN
         /\ toTarget \in Seq(Requests)
  <1>1. toTarget \in Seq(Requests)
    BY DEF TypeOK
  <1>2. 1 \in DOMAIN toTarget /\ Head(toTarget) = toTarget[1]
    BY <1>1, TailAt
  <1>3. Coming(1)
    BY <1>2 DEF Coming
  <1> QED BY <1>1, <1>2, <1>3, ComingIs DEF SnAt

(* Taking a request while ExpCmdSN stays where it is. *)
LEMMA TakenRises ==
  ASSUME TypeOK, TypeOK', NEW D \in Distances, NEW e \in Nat, NEW m \in Nat, Rises(D, e, m),
         toTarget # << >>, toTarget' = Tail(toTarget),
         UNCHANGED <<ipc, cmd, cmdSN, mayTo, toInitiator, wpc, wexp, wmsg, expSN>>,
         tpc # "login", tpc' = "read", D[maxSN'] = e + Window,
         Coming(1) => D[SnAt(1)] = D[Wrap - 1] \/ D[SnAt(1)] + 1 <= e,
         tasks' # {} \/ chan' # << >>
  PROVE  Rises(D, e, e + Window)'
  <1>1. m <= e + Window /\ e + Window \in Nat /\ e <= (e + Window) + 1 /\ D[mayTo] \in Nat
    BY NumbersAre DEF Rises, AtDoor
  <1>2. AtDoor(D, e, e + Window)'
    BY <1>1 DEF Rises, AtDoor
  <1>3. Sent(D)' /\ InTurn(D, e)'
    BY TakenInTurn DEF Rises
  <1>4. OnWire(D, e, e + Window)'
    <2>1. Last(D, e)' = Last(D, e) /\ Last(D, e) \in Nat
      BY LastIs DEF Last
    <2>2. Last(D, e) <= Last(D, e)'
      BY <2>1
    <2> QED BY <1>1, <2>2, RaisesWire DEF Rises
  <1>5. CatchingUp(D, e + Window)'
    BY DEF CatchingUp
  <1> QED BY <1>2, <1>3, <1>4, <1>5 DEF Rises

LEMMA ReadRises ==
  ASSUME TypeOK, LoggedIn, NEW D \in Distances, NEW e \in Nat, NEW m \in Nat, Rises(D, e, m),
         ReadCommand, TypeOK'
  PROVE  \E e2, m2 \in Nat : Rises(D, e2, m2)'
  <1> DEFINE c == Head(toTarget).c
  <1>1. /\ toTarget # << >> /\ Head(toTarget).type = "command" /\ tpc = "read"
        /\ UNCHANGED <<ipc, cmd, cmdSN, mayTo, toInitiator, maxSN, wpc, wexp, wmsg>>
    BY DEF ReadCommand, Next_, initiatorVars, writerVars
  <1>2. Coming(1) /\ SnAt(1) = cmd[c].sn /\ SnAt(1) \in SN
    BY <1>1, HeadComing
  <1>3. PICK s \in Nat : s = D[SnAt(1)]
    BY <1>2, NumbersAre
  <1>4. e = D[expSN] /\ m = D[maxSN] /\ m = e + Window /\ e \in 1 .. MaxCmds /\ D[mayTo] <= m
    BY <1>1 DEF Rises, AtDoor
  <1> HIDE DEF c
  <1>5. CASE Counted(cmd[c])
    <2>1. /\ expSN' = After(cmd[c].sn) /\ tpc' = "open" /\ UNCHANGED <<toTarget, tasks, chan>>
      BY <1>5 DEF ReadCommand, c
    <2>2. e <= s + 1 /\ s <= e + 1 /\ s + 1 \in 1 .. MaxCmds /\ InTurn(D, s + 1)
      BY <1>2, <1>3, CountedInTurn DEF Rises
    <2>3. D[expSN'] = s + 1
      <3>1. D[SnAt(1)] + 1 < Wrap
        BY <1>3, <2>2, NumbersAre
      <3>2. D[(SnAt(1) + 1) % Wrap] = D[SnAt(1)] + 1
        BY <1>2, <3>1, DistanceIs
      <3> QED BY <1>2, <1>3, <2>1, <3>2 DEF After
    <2>4. wpc = "max" => D[wexp] \in 1 .. s + 1
      BY <1>4, <2>2 DEF Rises, AtDoor
    <2>5. s + 1 <= m + 1 /\ m <= (s + 1) + Window /\ s + 1 \in Nat
      BY <1>3, <1>4, <2>2, ExchangeAssumption
    <2>6. AtDoor(D, s + 1, m)'
      <3>1. D[cmd'[Head(toTarget').c].sn] + 1 = s + 1
        BY <1>1, <1>2, <1>3, <2>1 DEF c
      <3> QED BY <1>1, <1>4, <2>1, <2>2, <2>3, <2>4, <2>5, <3>1 DEF AtDoor
    <2>7. Sent(D)' /\ InTurn(D, s + 1)'
      BY <1>1, <2>1, <2>2, QueueStays DEF Rises
    <2>8. OnWire(D, s + 1, m)'
      <3>1. Last(D, e) <= Last(D, s + 1)'
        <4>1. CASE wpc = "max"
          BY <1>1, <4>1, NumbersAre DEF Last
        <4>2. CASE wpc # "max"
          BY <1>1, <2>2, <4>2 DEF Last
        <4> QED BY <4>1, <4>2
      <3> QED BY <1>1, <2>5, <3>1, RaisesWire DEF Rises
    <2>9. CatchingUp(D, m)'
      BY <2>1 DEF CatchingUp
    <2>10. Rises(D, s + 1, m)'
      BY <2>6, <2>7, <2>8, <2>9 DEF Rises
    <2> QED BY <2>5, <2>10
  <1>6. CASE ~Counted(cmd[c])
    <2>1. toTarget' = Tail(toTarget) /\ Dispatch(c) /\ expSN' = expSN /\ tpc' = tpc
      BY <1>6 DEF ReadCommand, Take, c
    <2>2. SnAt(1) = Wrap - 1
      BY <1>2, <1>6 DEF Counted, IsImmediate, Bits
    <2>3. tasks' # {} \/ chan' # << >>
      BY <2>1, Dispatched
    <2>4. D[maxSN'] = e + Window
      BY <1>1, <1>4
    <2>5. Rises(D, e, e + Window)'
      BY <1>1, <2>1, <2>2, <2>3, <2>4, TakenRises
    <2> QED BY <1>4, <2>5
  <1> QED BY <1>5, <1>6

LEMMA OpenRises ==
  ASSUME TypeOK, LoggedIn, NEW D \in Distances, NEW e \in Nat, NEW m \in Nat, Rises(D, e, m),
         OpenWindow \/ ReadDataOut, TypeOK'
  PROVE  \E e2, m2 \in Nat : Rises(D, e2, m2)'
  <1> DEFINE c == Head(toTarget).c
  <1>1. /\ toTarget # << >> /\ toTarget' = Tail(toTarget) /\ tpc # "login" /\ tpc' = "read"
        /\ UNCHANGED <<ipc, cmd, cmdSN, mayTo, toInitiator, expSN, wpc, wexp, wmsg>>
    BY DEF OpenWindow, ReadDataOut, Next_, Take, initiatorVars, readerVars, writerVars, TypeOK
  <1>2. CASE OpenWindow
    <2>1. /\ tpc = "open" /\ Dispatch(c) /\ maxSN' = (cmd[c].sn + 1 + Window) % Wrap
          /\ Head(toTarget).type = "command"
      BY <1>2 DEF OpenWindow, TypeOK
    <2>2. SnAt(1) = cmd[c].sn /\ SnAt(1) \in SN
      BY <1>1, <2>1, HeadComing
    <2>3. D[SnAt(1)] + 1 = e /\ e \in 1 .. MaxCmds
      BY <2>1, <2>2 DEF Rises, AtDoor
    <2>4. PICK s \in SN : s = SnAt(1)
      BY <2>2
    <2>5. D[s] \in Nat /\ s \in Nat /\ Window \in Nat /\ D[s] + (1 + Window) < Wrap
      BY <2>3, <2>4, NumbersAre, AfterType
    <2>6. D[(s + (1 + Window)) % Wrap] = D[s] + (1 + Window)
      BY <2>5, DistanceIs
    <2>7. s + 1 + Window = s + (1 + Window) /\ D[s] + (1 + Window) = e + Window
      BY <2>3, <2>4, <2>5
    <2>8. D[maxSN'] = e + Window
      BY <2>1, <2>2, <2>4, <2>6, <2>7
    <2>9. D[SnAt(1)] + 1 <= e /\ (tasks' # {} \/ chan' # << >>)
      BY <2>1, <2>3, Dispatched
    <2>10. Rises(D, e, e + Window)'
      BY <1>1, <2>8, <2>9, TakenRises
    <2> QED BY <2>5, <2>10
  <1>3. CASE ReadDataOut
    <2>1. tpc = "read" /\ maxSN' = maxSN /\ tasks' = tasks \cup {c} /\ Head(toTarget).type = "dataOut"
      BY <1>3 DEF ReadDataOut, readerVars, Next_
    <2>2. ~Coming(1)
      <3>1. Head(toTarget) = toTarget[1]
        BY <1>1, TailAt DEF TypeOK
      <3> QED BY <2>1, <3>1 DEF Coming
    <2>3. D[maxSN'] = e + Window /\ Window \in Nat
      BY <2>1, ExchangeAssumption DEF Rises, AtDoor
    <2>4. Rises(D, e, e + Window)'
      BY <1>1, <2>1, <2>2, <2>3, TakenRises
    <2> QED BY <2>3, <2>4
  <1> QED BY <1>2, <1>3

(* The tasks, and the writer task with a message. *)
LEMMA WorkRises ==
  ASSUME TypeOK, LoggedIn, Ordered, Filled' => Filled,
         NEW D \in Distances, NEW e \in Nat, NEW m \in Nat, Rises(D, e, m),
         (\E c \in Cmds : Answer(c)) \/ TakeMessage \/ LoadExp, TypeOK'
  PROVE  Rises(D, e, m)'
  <1>1. UNCHANGED <<ipc, cmd, cmdSN, mayTo, toTarget, toInitiator, tpc, expSN, maxSN>>
    BY DEF Answer, TakeMessage, LoadExp, initiatorVars, readerVars
  <1>2. Sent(D)' /\ InTurn(D, e)'
    BY <1>1, QueueStays DEF Rises
  <1>3. AtDoor(D, e, m)' /\ Last(D, e) <= Last(D, e)'
    <2>1. Last(D, e) \in Nat /\ e \in 1 .. MaxCmds
      BY LastIs DEF Rises, AtDoor
    <2>2. CASE wpc' = wpc /\ wexp' = wexp
      BY <1>1, <2>1, <2>2 DEF Rises, AtDoor, Last
    <2>3. CASE wpc # "max" /\ wpc' # "max"
      BY <1>1, <2>1, <2>3 DEF Rises, AtDoor, Last
    <2>4. CASE LoadExp
      <3>1. wpc = "exp" /\ wpc' = "max" /\ wexp' = expSN
        BY <2>4 DEF LoadExp
      <3>2. tpc # "login"
        BY <3>1, LoginOver
      <3>3. D[wexp'] = e
        BY <3>1, <3>2 DEF Rises, AtDoor
      <3>4. Last(D, e) = e /\ Last(D, e)' = e
        BY <3>1, <3>3 DEF Last
      <3> QED BY <1>1, <2>1, <3>1, <3>3, <3>4 DEF Rises, AtDoor
    <2> QED BY <2>2, <2>3, <2>4 DEF Answer, TakeMessage, writerVars
  <1>4. OnWire(D, e, m)'
    <2>1. m <= m
      OBVIOUS
    <2> QED BY <1>1, <1>3, <2>1, RaisesWire DEF Rises
  <1>5. ASSUME Filled' PROVE CatchingUp(D, m)'
    <2>0. Filled /\ CatchingUp(D, m)
      BY <1>5 DEF Rises
    <2>1. CASE \E c \in Cmds : Answer(c)
      <3>1. PICK x : chan' = Append(chan, x)
        BY <2>1 DEF Answer
      <3>2. chan \in Seq(Messages \cup {x}) /\ x \in Messages \cup {x}
        BY DEF TypeOK
      <3>3. chan' # << >>
        BY <3>1, <3>2, AppendAt
      <3> QED BY <3>3 DEF CatchingUp
    <2>2. CASE TakeMessage
      <3> DEFINE h == Head(chan)
      <3>1. chan # << >> /\ chan \in Seq(Messages) /\ Named(chan)
        BY <2>2 DEF TakeMessage, TypeOK
      <3>2. h \in Messages /\ h.c <= Len(cmd) /\ 1 \in DOMAIN chan /\ chan[1] = h
        BY <3>1, TailAt, NamedTail
      <3>3. MessageTrue(h)
        BY <3>2 DEF Ordered, MessagesTrue, Has
      <3>4. h.c \in 1 .. Len(cmd) /\ h # NoMsg
        BY <3>2, MessageIs, NumbersAre DEF Cmds
      <3>5. ~(h.type = "data" /\ h.len = 0)
        BY <2>0, <3>3, <3>4 DEF Filled, Void, MessageTrue
      <3>6. wmsg' # NoMsg
        BY <2>2, <3>4, <3>5 DEF TakeMessage
      <3> QED BY <3>6 DEF CatchingUp
    <2>3. CASE LoadExp
      <3>1. UNCHANGED <<tasks, chan, wmsg>>
        BY <2>3 DEF LoadExp
      <3> QED BY <1>1, <2>0, <3>1 DEF CatchingUp
    <2> QED BY <2>1, <2>2, <2>3
  <1> QED BY <1>2, <1>3, <1>4, <1>5 DEF Rises

LEMMA PutsRise ==
  ASSUME TypeOK, LoggedIn, NEW D \in Distances, NEW e \in Nat, NEW m \in Nat, Rises(D, e, m),
         PutSegment \/ PutStatus \/ PutR2T, TypeOK'
  PROVE  Rises(D, e, m)'
  <1>1. /\ UNCHANGED <<ipc, cmd, cmdSN, mayTo, toTarget, tpc, expSN, maxSN, tasks, chan>>
        /\ wpc = "max" /\ wpc' # "max"
    BY DEF PutSegment, PutStatus, PutR2T, MsgDone, initiatorVars, readerVars
  <1>2. PICK p \in Replies : Put(p) /\ p.exp = wexp /\ p.max = maxSN
    BY SegmentSent, StatusSent, R2TSent
  <1>3. tpc # "login"
    BY <1>1, LoginOver
  <1>4. /\ D[maxSN] = m /\ e \in 1 .. MaxCmds /\ e <= m + 1 /\ D[mayTo] <= m
        /\ D[wexp] \in 1 .. e
    BY <1>1, <1>3 DEF Rises, AtDoor
  <1>5. Sent(D)' /\ InTurn(D, e)'
    BY <1>1, QueueStays DEF Rises
  <1>6. AtDoor(D, e, m)'
    BY <1>1, <1>4, DoorStays DEF Rises
  <1>7. OnWire(D, e, m)'
    <2>1. PICK k \in Nat \ {0} : k = D[wexp] /\ k <= e
      BY <1>4
    <2>2. Last(D, e) = k /\ Last(D, e)' = e
      BY <1>1, <2>1 DEF Last
    <2>3. D[p.max] = m /\ D[p.exp] = k /\ m <= m /\ Last(D, e) <= k /\ k <= Last(D, e)' /\ k <= m + 1
      BY <1>2, <1>4, <2>1, <2>2
    <2> QED BY <1>1, <1>2, <1>4, <2>3, PutRises DEF Rises
  <1>8. CatchingUp(D, m)'
    <2>1. toInitiator' = Append(toInitiator, p) /\ toInitiator \in Seq(Replies)
      BY <1>2 DEF Put, TypeOK
    <2>2. toInitiator' # << >> /\ Len(toInitiator') = Len(toInitiator) + 1
          /\ toInitiator'[Len(toInitiator) + 1] = p
      BY <2>1, AppendAt
    <2> QED BY <1>2, <1>4, <2>2 DEF CatchingUp
  <1> QED BY <1>5, <1>6, <1>7, <1>8 DEF Rises

LEMMA FilledBefore ==
  ASSUME TypeOK, [Next]_vars, Filled'
  PROVE  Filled
  <1>1. CASE cmd' = cmd
    BY <1>1 DEF Filled, Void
  <1>2. CASE \E x \in Menu : SendCommand(x)
    <2> DEFINE S == [kind : Kinds, want : Nat, sn : SN]
    <2>1. PICK r \in S : cmd' = Append(cmd, r)
      <3>1. PICK x \in Menu : SendCommand(x)
        BY <1>2
      <3>2. [kind |-> x.kind, want |-> x.want, sn |-> cmdSN] \in S
        BY ExchangeAssumption DEF TypeOK, Kinds
      <3> QED BY <3>1, <3>2 DEF SendCommand
    <2>2. cmd \in Seq(S)
      BY DEF TypeOK
    <2> HIDE DEF S
    <2>3. \A c \in 1 .. Len(cmd) : c \in 1 .. Len(cmd') /\ cmd'[c] = cmd[c]
      BY <2>1, <2>2
    <2> QED BY <2>3 DEF Filled, Void
  <1>3. cmd' = cmd \/ \E x \in Menu : SendCommand(x)
    BY DEF Next, vars, initiatorVars, SendLogin, Receive, Login, ReadCommand, OpenWindow,
       ReadDataOut, Answer, TakeMessage, LoadExp, PutSegment, PutStatus, PutR2T
  <1> QED BY <1>1, <1>2, <1>3

LEMMA NextRises ==
  ASSUME TypeOK, TypeOK', LoggedIn, Ordered, Rising, [Next]_vars
  PROVE  Rising'
  <1>1. PICK D \in Distances, e \in Nat, m \in Nat : Rises(D, e, m)
    BY DEF Rising
  <1> SUFFICES \E e2, m2 \in Nat : Rises(D, e2, m2)'
    BY DEF Rising
  <1>0. Filled' => Filled
    BY FilledBefore
  <1>2. CASE UNCHANGED vars
    <2>1. UNCHANGED <<ipc, cmdSN, cmd, mayTo, toTarget, toInitiator, tpc, expSN, maxSN, tasks,
                      chan, wpc, wmsg, wexp>>
      BY <1>2 DEF vars, initiatorVars, readerVars, writerVars
    <2>2. AtDoor(D, e, m)'
      BY <1>1, <2>1 DEF Rises, AtDoor
    <2>3. Sent(D)' /\ InTurn(D, e)'
      BY <1>1, <2>1, QueueStays DEF Rises
    <2>4. OnWire(D, e, m)'
      BY <1>1, <2>1 DEF Rises, OnWire, Wire, Last
    <2>5. Filled' => CatchingUp(D, m)'
      BY <1>0, <1>1, <2>1 DEF Rises, CatchingUp
    <2> QED BY <2>2, <2>3, <2>4, <2>5 DEF Rises
  <1>3. CASE ReadCommand \/ OpenWindow \/ ReadDataOut
    BY <1>1, <1>3, ReadRises, OpenRises
  <1>4. CASE Next /\ ~(ReadCommand \/ OpenWindow \/ ReadDataOut)
    BY <1>0, <1>1, <1>4, SendLoginRises, CommandRises, ReceivedRises, LoginRises, WorkRises, PutsRise
       DEF Next
  <1> QED BY <1>2, <1>3, <1>4

LEMMA InitRises == Init => Rising
  <1> SUFFICES ASSUME Init PROVE Rising
    OBVIOUS
  <1> DEFINE D == [n \in SN |-> (n - cmdSN) % Wrap]
  <1>1. TypeOK /\ cmdSN \in SN
    BY InitTypes DEF TypeOK
  <1>2. D \in Distances
    BY <1>1 DEF Distances
  <1>3. D[cmdSN] = 0
    <2>1. cmdSN - cmdSN = 0 /\ 0 % Wrap = 0
      BY <1>1, ExchangeAssumption DEF SN
    <2> QED BY <1>1, <2>1
  <1> HIDE DEF D
  <1>4. /\ toTarget = << >> /\ toInitiator = << >> /\ cmd = << >> /\ Len(cmd) = 0 /\ Wire = {}
        /\ DOMAIN toTarget = {} /\ mayTo = cmdSN /\ tpc = "login" /\ wpc = "recv"
    BY DEF Init, Wire
  <1>5. 1 \in 1 .. MaxCmds /\ 1 + Window \in Nat /\ 1 <= (1 + Window) + 1 /\ 1 + Window <= 1 + Window
    BY ExchangeAssumption
  <1>6. AtDoor(D, 1, 1 + Window)
    <2>1. D[mayTo] <= 1 + Window
      BY <1>3, <1>4, <1>5
    <2> QED BY <1>4, <1>5, <2>1 DEF AtDoor
  <1>7. Sent(D) /\ InTurn(D, 1)
    BY <1>3, <1>4 DEF Sent, InTurn
  <1>8. OnWire(D, 1, 1 + Window) /\ CatchingUp(D, 1 + Window)
    BY <1>4 DEF OnWire, CatchingUp
  <1>9. Rises(D, 1, 1 + Window)
    BY <1>6, <1>7, <1>8 DEF Rises
  <1> QED BY <1>2, <1>5, <1>9 DEF Rising

(* The first half of WindowAdvances, which holds whatever is asked for.    *)
NeverBack ==
  \A i \in Wire :
    /\ Behind(mayTo, toInitiator[i].max)
    /\ \A j \in 1 .. i - 1 : Behind(toInitiator[j].exp, toInitiator[i].exp)
                             /\ Behind(toInitiator[j].max, toInitiator[i].max)
    /\ Behind((toInitiator[i].exp - 1) % Wrap, toInitiator[i].max)

LEMMA RisingAdvances ==
  ASSUME TypeOK, LoggedIn, Rising
  PROVE  NeverBack /\ (Filled => WindowAdvances)
  <1>1. PICK D \in Distances, e \in Nat, m \in Nat : Rises(D, e, m)
    BY DEF Rising
  <1>2. e \in 1 .. MaxCmds /\ m <= e + Window /\ D[mayTo] <= m
    BY <1>1 DEF Rises, AtDoor
  <1>3. e <= MaxCmds + Window /\ m <= MaxCmds + Window /\ mayTo \in SN /\ cmdSN \in SN
    BY <1>2, NumbersAre
  <1>4. \A i \in Wire : toInitiator[i].exp \in SN /\ toInitiator[i].max \in SN
    BY ReplyIs DEF TypeOK, Wire
  <1>5. NeverBack
    <2> SUFFICES ASSUME NEW i \in Wire
                 PROVE  /\ Behind(mayTo, toInitiator[i].max)
                        /\ \A j \in 1 .. i - 1 :
                             /\ Behind(toInitiator[j].exp, toInitiator[i].exp)
                             /\ Behind(toInitiator[j].max, toInitiator[i].max)
                        /\ Behind((toInitiator[i].exp - 1) % Wrap, toInitiator[i].max)
      BY DEF NeverBack
    <2>1. PICK x \in SN, y \in SN : x = toInitiator[i].exp /\ y = toInitiator[i].max
      BY <1>4
    <2>2. D[x] \in Nat /\ D[y] \in Nat /\ D[mayTo] \in Nat
      BY <2>1, NumbersAre
    <2>3. /\ D[x] > 0 /\ D[x] <= MaxCmds + Window /\ D[x] - 1 <= D[y]
          /\ D[mayTo] <= D[y] /\ D[y] <= MaxCmds + Window
      <3>1. /\ D[x] \in 1 .. Last(D, e) /\ D[x] <= D[y] + 1 /\ D[y] \in D[mayTo] .. m
        BY <1>1, <2>1 DEF Rises, OnWire
      <3>2. Last(D, e) \in Nat /\ Last(D, e) <= e
        BY <1>1, <1>2, LastIs DEF Last, Rises, AtDoor
      <3> QED BY <1>2, <1>3, <2>2, <3>1, <3>2, NumbersAre
    <2>4. Behind(mayTo, y)
      BY <1>3, <2>3, DistanceIs
    <2>5. ASSUME NEW j \in 1 .. i - 1
          PROVE  Behind(toInitiator[j].exp, x) /\ Behind(toInitiator[j].max, y)
      <3>1. j \in Wire
        BY DEF TypeOK, Wire
      <3>2. toInitiator[j].exp \in SN /\ toInitiator[j].max \in SN
        BY <1>4, <3>1
      <3>3. D[toInitiator[j].exp] <= D[x] /\ D[toInitiator[j].max] <= D[y]
        BY <1>1, <2>1 DEF Rises, OnWire
      <3> QED BY <2>3, <3>2, <3>3, DistanceIs
    <2>6. Behind((x - 1) % Wrap, y)
      <3>1. (x - 1) % Wrap \in SN /\ D[(x - 1) % Wrap] = D[x] - 1
        BY <2>3, DistanceIs
      <3> QED BY <2>3, <3>1, DistanceIs
    <2> QED BY <2>1, <2>4, <2>5, <2>6
  <1>6. ASSUME Filled, Quiet, ipc = "full" PROVE Behind(cmdSN, mayTo)
    <2>1. toTarget = << >> /\ toInitiator = << >> /\ tasks = {} /\ chan = << >> /\ wmsg = NoMsg
          /\ tpc = "read"
      BY <1>6 DEF Quiet, TypeOK
    <2>2. D[mayTo] = m /\ m = e + Window
      BY <1>1, <1>6, <2>1 DEF Rises, CatchingUp, AtDoor
    <2>3. D[cmdSN] <= e + 1
      <3> SUFFICES ASSUME e + 1 < D[cmdSN] PROVE FALSE
        BY <1>3, NumbersAre
      <3>1. D[cmdSN] \in Nat
        BY NumbersAre
      <3>2. e \in e .. D[cmdSN] - 1 /\ e + 1 \in e .. D[cmdSN] - 1 /\ DOMAIN toTarget = {}
        BY <2>1, <3>1
      <3>3. e = D[Wrap - 1] /\ e + 1 = D[Wrap - 1]
        BY <1>1, <3>2 DEF Rises, InTurn
      <3> QED BY <3>3
    <2>4. D[cmdSN] <= D[mayTo] /\ D[mayTo] <= MaxCmds + Window
      BY <1>3, <2>2, <2>3, NumbersAre
    <2> QED BY <1>3, <2>4, DistanceIs
  <1> QED BY <1>5, <1>6 DEF NeverBack, WindowAdvances

(* What the initiator is told never moves back: on every connection, with  *)
(* any commands, each PDU has an ExpCmdSN and a MaxCmdSN no earlier than   *)
(* the PDU before it, and no MaxCmdSN an initiator ignores.  The reader    *)
(* loop stores the two numbers and the writer task loads them one at a     *)
(* time (mod.rs, pdu_io.rs), each at its own pace.                         *)
THEOREM NumbersRise == Spec => []NeverBack
  <1>1. Init => TypeOK /\ LoggedIn /\ OnePlace /\ Ordered /\ Rising
    BY InitTypes, InitOrdered, InitRises
  <1>2. TypeOK /\ LoggedIn /\ OnePlace /\ Ordered /\ Rising /\ [Next]_vars
          => TypeOK' /\ LoggedIn' /\ OnePlace' /\ Ordered' /\ Rising'
    BY NextTypes, NextLogged, NextOrdered, NextRises
  <1>3. TypeOK /\ LoggedIn /\ Rising => NeverBack
    BY RisingAdvances
  <1> QED BY <1>1, <1>2, <1>3, PTL DEF Spec

(* Nor does the window ever close for good, whatever CmdSN and wrap came   *)
(* by: as long as no command's data had no length, which the writer task   *)
(* drops and no PDU answers (pdu_io.rs), the initiator has the last        *)
(* MaxCmdSN once all is answered, and may send.                            *)
THEOREM WindowKept == Spec => [](Filled => WindowAdvances)
  <1>1. Init => TypeOK /\ LoggedIn /\ OnePlace /\ Ordered /\ Rising
    BY InitTypes, InitOrdered, InitRises
  <1>2. TypeOK /\ LoggedIn /\ OnePlace /\ Ordered /\ Rising /\ [Next]_vars
          => TypeOK' /\ LoggedIn' /\ OnePlace' /\ Ordered' /\ Rising'
    BY NextTypes, NextLogged, NextOrdered, NextRises
  <1>3. TypeOK /\ LoggedIn /\ Rising => (Filled => WindowAdvances)
    BY RisingAdvances
  <1> QED BY <1>1, <1>2, <1>3, PTL DEF Spec
=============================================================================
