---------------------------- MODULE MCJobRunners ----------------------------
(* JobRunners with the threads of the three kinds put together. *)
EXTENDS JobRunners

MCWorkers == {"w1", "w2"}
MCPollers == {"p"}
MCClients == {"c"}
MCThreads == MCWorkers \cup MCPollers \cup MCClients
=============================================================================
