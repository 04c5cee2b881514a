----------------------------- MODULE MCDesktop -----------------------------
(* Desktop for model checking. *)
EXTENDS Desktop

CONSTANT mine

Moved == [executable |-> mine, ports |-> <<2, 1, 3>>]
Clash == [executable |-> Unset, ports |-> <<1, 2, 1>>]
NoPort == [executable |-> Unset, ports |-> <<1, 0, 3>>]

MCFiles == {NoFile, Clash}
MCEdits == {Moved, Clash, NoPort}
MCExecutables == {"msedge", mine}
=============================================================================
