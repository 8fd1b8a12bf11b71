------------------------------- MODULE Tasks -------------------------------
(* The worker tasks of httpd that share an address space, and its storage. *)

CONSTANTS
    Workers,     \* httpd worker tasks
    Nobody       \* no worker

ASSUME TasksAssumption == Nobody \notin Workers
=============================================================================
