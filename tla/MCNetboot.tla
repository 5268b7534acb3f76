------------------------------ MODULE MCNetboot -------------------------------
(***************************************************************************)
(* Instances of Netboot for TLC: clients.toml gives two clients the        *)
(* address that the DHCP counter starts from; a third is unknown.          *)
(***************************************************************************)
EXTENDS Netboot

CONSTANTS m1, m2, m3

Entry(m, a) == [mac |-> m, ip |-> a]
MCFiles == {<<Entry(m1, 1), Entry(m2, 1)>>}
=============================================================================
