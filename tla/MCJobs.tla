------------------------------- MODULE MCJobs -------------------------------
(* A small spool: own and foreign jobs, a system job, a started task, and   *)
(* the JCL shapes the JOB card rewriting tells apart.                       *)
EXTENDS Jobs, TLC

CONSTANTS w1, w2

MCCut == [o \in Users \cup {Blank} |-> [n \in Names |->
            IF o = "OPS" THEN n ELSE None]]

\* MIKE reads all of OPS but its SYSLOG, and may purge PAY; ANN may read the unowned.
MCLevel ==
    [u \in Users |->
       [k \in (Users \cup {Blank}) \X (Names \cup {None}) |->
          CASE u = "MIKE" /\ k = <<"OPS", "PAY">> -> "update"
            [] u = "MIKE" /\ k = <<"OPS", "RUN">> -> "none"
            [] u = "MIKE" /\ k[1] = "OPS" /\ k[2] \notin {"PAY", "RUN"} -> "read"
            [] u = "MIKE" /\ k[1] = Blank -> "read"
            [] u = "ANN" /\ k[1] = "MIKE" -> "read"
            [] u = "ANN" /\ k[1] = Blank -> "none"
            [] OTHER -> "noprofile"]]

J(name, owner, q, stc) ==
    [name |-> name, owner |-> owner, user |-> owner, q |-> q, stc |-> stc,
     out |-> q = "OUTPUT", held |-> FALSE]
MCStart ==
    [i \in 1 .. MaxJobs |->
       CASE i = 1 -> J("PAY", "OPS", "ACTIVE", FALSE)
         [] i = 2 -> J("RUN", "OPS", "ACTIVE", TRUE)
         [] i = 3 -> [J("RUN", "MIKE", "INPUT", FALSE) EXCEPT !.owner = Blank]
         [] i = 4 -> [J("SYSLOG", "MIKE", "OUTPUT", FALSE) EXCEPT !.held = TRUE]
         [] OTHER -> None]

L(kind, ops, comma) == [kind |-> kind, ops |-> ops, comma |-> comma]
Acct == Op("POS", "", 10)
Wide(w) == Op("CLASS", "", w)
Their == Op("USER", "ANN", 8)
Pass == Op("PASSWORD", "ANN", 12)
Exec == L("stmt", <<Op("POS", "", 8)>>, FALSE)
Jcl(card) == card \o <<Exec>>

\* One line with room; credentials in the middle; only credentials on continuations; a
\* line up to column 71 with an operand to move; &SYSUID; a line past it; no JOB; nothing
\* but credentials on the JOB line, without and with a continuation; a second job.
MCJcl == {
    Jcl(<<L("job", <<Acct>>, FALSE)>>),
    Jcl(<<L("job", <<Acct, Their, Wide(9), Pass>>, FALSE)>>),
    Jcl(<<L("job", <<Acct>>, TRUE), L("cont", <<Their>>, TRUE), L("cont", <<Pass>>, FALSE)>>),
    Jcl(<<L("job", <<Acct, Wide(LastCol - JobHead - 11)>>, FALSE)>>),
    Jcl(<<L("job", <<Acct, Wide(LastCol - JobHead - 12)>>, FALSE)>>),
    Jcl(<<L("job", <<Acct>>, TRUE), L("cont", <<Op("NOTIFY", SYSUID, 14), Their>>, FALSE)>>),
    Jcl(<<L("job", <<Acct, Wide(LastCol - JobHead - 10)>>, FALSE)>>),
    <<Exec>>,
    Jcl(<<L("job", <<Their>>, FALSE)>>),
    Jcl(<<L("job", <<Their, Pass>>, TRUE), L("cont", <<Wide(9)>>, FALSE)>>),
    Jcl(<<L("job", <<Acct>>, FALSE)>>) \o Jcl(<<L("job", <<Acct, Their>>, TRUE), L("cont", <<Pass>>, FALSE)>>)}

Plain == Jcl(<<L("job", <<Acct>>, FALSE)>>)

Req(op, user, name, id) ==
    [op |-> op, user |-> user, name |-> name, id |-> id, flaw |-> "", owner |-> Blank,
     status |-> "*", max |-> 2, jcl |-> << >>]
Sub(jcl, flaw) == [Req("submit", "MIKE", "PAY", None) EXCEPT !.jcl = jcl, !.flaw = flaw]

MCRequests ==
    {Req("list", "MIKE", None, None),
     [Req("list", "MIKE", None, None) EXCEPT !.owner = "*", !.max = 3],
     [Req("list", "MIKE", None, None) EXCEPT !.owner = "*", !.status = "ACTIVE", !.max = 1],
     [Req("list", "MIKE", None, None) EXCEPT !.owner = "OPS"],
     [Req("list", "ANN", None, None) EXCEPT !.owner = "OPS"],
     [Req("list", "ANN", None, None) EXCEPT !.owner = "*"]}
    \cup {Req("status", "MIKE", "RUN", 3), Req("status", "ANN", "RUN", 3),
          Req("status", "MIKE", "SYSLOG", 4), Req("files", "ANN", "RUN", 3),
          Req("records", "MIKE", "PAY", 1), Req("records", "ANN", "SYSLOG", 4),
          [Req("records", "MIKE", "PAY", 1) EXCEPT !.flaw = "ddid"]}
    \cup {Req("purge", "MIKE", n[1], n[2]) : n \in {<<"PAY", 1>>, <<"SYSLOG", 4>>, <<"PAY", 5>>}}
    \cup {Req("cancel", "MIKE", n[1], n[2]) : n \in {<<"PAY", 1>>, <<"SYSLOG", 4>>}}
    \cup {Req("cancel", "OPS", "RUN", 2)}
    \cup {Req("purge", "ANN", "RUN", 3), [Req("cancel", "ANN", "RUN", 3) EXCEPT !.flaw = "request"]}
    \cup {Sub(j, "") : j \in MCJcl}
    \cup {Sub(Plain, f) : f \in {"headers", "ctype", "nofile", "dsname", "nods", "nopass"}}

Perms == Permutations({w1, w2})
=============================================================================
