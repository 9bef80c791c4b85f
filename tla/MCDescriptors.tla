--------------------------- MODULE MCDescriptors ---------------------------
(***************************************************************************)
(* Two ports and two clients, of different ports or of the same. Of seven   *)
(* numbers there are enough for all, unless a call fails; of five not.      *)
(***************************************************************************)
EXTENDS Descriptors

TwoClients == {"c1", "c2"}

Job(port, method) == [port |-> port, method |-> method]
TwoPortJobs == {[c1 |-> Job(1, "write"), c2 |-> Job(p, "quit")] : p \in 1 .. 2}

Setting(limit_, errors_) == [limit |-> limit_, errors |-> errors_]
Small == {Setting(7, 1), Setting(5, 0)}
=============================================================================
