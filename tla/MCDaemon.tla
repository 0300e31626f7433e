------------------------------ MODULE MCDaemon ------------------------------
(* Two daemons that may have the same port or different ones, a client that *)
(* asks for the status and one that asks for the peers or for the transfers. *)
EXTENDS Daemon

MCConfigured == [d \in Daemons |-> IF d = "d1" THEN {8080} ELSE {8080, 9090}]

MCCommands == [c \in Clients |-> IF c = "c1" THEN {"status"} ELSE {"peers", "transfers"}]
=============================================================================
