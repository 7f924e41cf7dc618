------------------------------ MODULE MCIRCDDB ------------------------------
(* Two servers.                                                              *)
EXTENDS IRCDDBClient

CONSTANTS s1, s2
TheServers == {s1, s2}
=============================================================================
