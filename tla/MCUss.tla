------------------------------- MODULE MCUss -------------------------------
(* A file at the top, a directory with a file and a directory with a file,  *)
(* and a name too long for UFSD.                                            *)
EXTENDS Uss, TLC

CONSTANTS w1, w2

MCParent == [p \in Paths |-> CASE p \in {"d/a", "d/e"} -> "d" [] p = "d/e/b" -> "d/e" [] OTHER -> None]
MCStart == [p \in Paths |-> CASE p \in {"d", "d/e"} -> Dir(DefPerm)
                              [] p = "long" -> None
                              [] OTHER -> File(0, 2, DefPerm)]

Req(op, path) ==
    [op |-> op, path |-> path, flaw |-> "", cond |-> FALSE, etag |-> FALSE, len |-> 0,
     max |-> 0, type |-> "file", perm |-> DefPerm, recursive |-> FALSE]
Get(p, cond, etag) == [Req("get", p) EXCEPT !.cond = cond, !.etag = etag]
Put(p, cond, len) == [Req("put", p) EXCEPT !.cond = cond, !.etag = TRUE, !.len = len]
Create(p, type) == [Req("create", p) EXCEPT !.type = type, !.perm = "private"]
Delete(p, rec) == [Req("delete", p) EXCEPT !.recursive = rec]

MCRequests ==
    {[Req("list", "d") EXCEPT !.max = m] : m \in 0 .. 2} \cup {Req("list", "f")}
    \cup {Get("f", FALSE, TRUE), Get("f", TRUE, FALSE), Get("d", FALSE, FALSE), Get("long", FALSE, FALSE)}
    \cup {Put("f", TRUE, 2), Put("f", FALSE, 1), Put("d", TRUE, 1), Put("d/e/b", FALSE, 0)}
    \cup {Create("f", "file"), Create("d/e", "dir"), Create("d/e/b", "file"), Create("long", "file")}
    \cup {Delete("f", FALSE), Delete("d/e", FALSE), Delete("d", TRUE)}
    \cup {[Req(op, "f") EXCEPT !.flaw = "body"] : op \in {"util", "create"}}
    \cup {[Req("get", "f") EXCEPT !.flaw = "early"]}

Symm == Permutations({w1, w2})
=============================================================================
