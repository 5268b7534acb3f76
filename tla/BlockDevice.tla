---------------------------- MODULE BlockDevice ----------------------------
(***************************************************************************)
(* What a storage path of the target promises an initiator, with no cache, *)
(* no file and no lock in sight: a disk of independent blocks.             *)
(*                                                                         *)
(*   - A write command takes effect block by block, in any order, between  *)
(*     its submission and its acknowledgement, and never after.            *)
(*   - A read command answers, for every block it covers, with a value the *)
(*     block held at some moment while the read was outstanding.           *)
(*   - Nothing else ever changes a block.                                  *)
(*                                                                         *)
(* ClientCache (the diskless write-back cache) and VhdBackend (the VHD     *)
(* files under their lock) are shown to implement this module.             *)
(***************************************************************************)
CONSTANTS
  Blocks,   (* The logical blocks of the disk.                             *)
  Values,   (* What a block may hold.                                      *)
  Writers,  (* Identities of outstanding write commands.                   *)
  Readers,  (* Identities of outstanding read commands.                    *)
  NoData    (* Not a value: an answer that has not been given.             *)

VARIABLES
  disk,     (* disk[b]: what block b holds now.                            *)
  pending,  (* pending[w]: the <<block, value>> pairs w has yet to apply.  *)
  busy,     (* The writers that have not been acknowledged.                *)
  window,   (* window[r][b]: values b held since read r was submitted.     *)
  answer    (* answer[r][b]: what read r answers for b, or NoData.         *)

vars == <<disk, pending, busy, window, answer>>

Nothing == [b \in Blocks |-> NoData]

Init ==
  /\ disk \in [Blocks -> Values]
  /\ pending = [w \in Writers |-> {}]
  /\ busy = {}
  /\ window = [r \in Readers |-> [b \in Blocks |-> {}]]
  /\ answer = [r \in Readers |-> Nothing]

(* The blocks an outstanding read covers are those with a window. *)
Covered(r) == {b \in Blocks : window[r][b] # {}}

(* A write submits at most one value for each block. *)
Submit(w) ==
  /\ w \notin busy
  /\ busy' = busy \cup {w}
  /\ pending' \in [Writers -> SUBSET (Blocks \X Values)]
  /\ \A x \in Writers \ {w} : pending'[x] = pending[x]
  /\ \A p, q \in pending'[w] : p[1] = q[1] => p = q
  /\ UNCHANGED <<disk, window, answer>>

(* Some of a write's blocks reach the disk; every read that covers one of  *)
(* them may now answer with the new value.                                 *)
Apply(w, P) ==
  /\ P # {}
  /\ pending' = [pending EXCEPT ![w] = @ \ P]
  /\ disk' = [b \in Blocks |-> IF \E v \in Values : <<b, v>> \in P
                               THEN CHOOSE v \in Values : <<b, v>> \in P
                               ELSE disk[b]]
  /\ window' = [r \in Readers |-> [b \in Blocks |->
                  window[r][b] \cup
                    {v \in Values : <<b, v>> \in P /\ b \in Covered(r)}]]
  /\ UNCHANGED <<busy, answer>>

Acknowledge(w) ==
  /\ w \in busy /\ pending[w] = {}
  /\ busy' = busy \ {w}
  /\ UNCHANGED <<disk, pending, window, answer>>

SubmitRead(r, S) ==
  /\ S # {} /\ Covered(r) = {}
  /\ window' = [window EXCEPT ![r] =
                  [b \in Blocks |-> IF b \in S THEN {disk[b]} ELSE {}]]
  /\ UNCHANGED <<disk, pending, busy, answer>>

Answer(r) ==
  /\ Covered(r) # {} /\ answer[r] = Nothing
  /\ answer' \in [Readers -> [Blocks -> Values \cup {NoData}]]
  /\ \A x \in Readers \ {r} : answer'[x] = answer[x]
  /\ \A b \in Covered(r) : answer'[r][b] \in window[r][b]
  /\ \A b \in Blocks \ Covered(r) : answer'[r][b] = NoData
  /\ UNCHANGED <<disk, pending, busy, window>>

(* The command leaves the target: answered, or failed without an answer. *)
Retire(r) ==
  /\ Covered(r) # {}
  /\ window' = [window EXCEPT ![r] = [b \in Blocks |-> {}]]
  /\ answer' = [answer EXCEPT ![r] = Nothing]
  /\ UNCHANGED <<disk, pending, busy>>

Next ==
  \/ \E w \in Writers :
       \/ Submit(w)
       \/ \E P \in SUBSET pending[w] : Apply(w, P)
       \/ Acknowledge(w)
  \/ \E r \in Readers :
       \/ \E S \in SUBSET Blocks : SubmitRead(r, S)
       \/ Answer(r)
       \/ Retire(r)

Spec == Init /\ [][Next]_vars
=============================================================================
