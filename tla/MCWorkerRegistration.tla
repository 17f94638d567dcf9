------------------------- MODULE MCWorkerRegistration -------------------------
(* Small instances of WorkerRegistration for TLC. *)
EXTENDS WorkerRegistration

\* Two task strings whose hashes pick the first and the second of two workers.
MCFirstByte == [d \in TaskData |-> IF d = "even" THEN 254 ELSE 255]
===============================================================================
