----------------------------- MODULE MCExchange -----------------------------
(***************************************************************************)
(* Instances of Exchange for TLC.                                          *)
(***************************************************************************)
EXTENDS Exchange

Command(kind, want) == [kind |-> kind, want |-> want]
(* Data in one segment or two, cut to what was asked for, short of it or   *)
(* not asked about; a bare status; a write that needs an R2T; a ping.      *)
MCMenu == {Command("read", 2), Command("inquiry", 3), Command("sense", 1),
           Command("test", 1), Command("write", 1), Command("ping", 0)}
=============================================================================
