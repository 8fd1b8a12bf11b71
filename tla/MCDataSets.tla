----------------------------- MODULE MCDataSets -----------------------------
(* Two workers, a sequential data set S, a spanned one V, a library P with member A
   and without member B, and a name F that is free.  user has all authority, guest only
   over S. *)
EXTENDS DataSets, TLC

CONSTANTS w1, w2

MCNames == {"S", "V", "P", "F"}
MCMembers == {"A", "B"}
MCCatalog == [S |-> "PS", V |-> "PS", P |-> "PO", F |-> "none"]
MCPerm == [user |-> [d \in MCNames |-> 3],
           guest |-> [S |-> 3, V |-> 0, P |-> 0, F |-> 1]]

Rq(op, d, m) ==
    [op |-> op, t |-> <<d, m>>, from |-> None, user |-> "user", vol |-> None,
     mode |-> "text", body |-> << >>, chunked |-> FALSE, cond |-> FALSE, etag |-> FALSE,
     flaw |-> "none"]

Puts(op, d, m) ==
    {[Rq(op, d, m) EXCEPT !.body = b, !.chunked = b # << >>, !.cond = i, !.etag = i] :
        b \in {<< >>, <<2, 3>>}, i \in BOOLEAN}

MCRequests ==
    {Rq("dsGet", "V", None), [Rq("dsPut", "V", None) EXCEPT !.body = <<2>>, !.etag = TRUE]}
    \cup
    {[Rq("dsGet", "S", None) EXCEPT !.mode = x, !.etag = e] :
        x \in {"text", "binary"}, e \in BOOLEAN}
    \cup {[Rq("dsGet", "S", None) EXCEPT !.cond = TRUE],
          [Rq("dsGet", "S", None) EXCEPT !.vol = "other"],
          Rq("dsGet", "P", None), [Rq("dsGet", "P", None) EXCEPT !.user = "guest"],
          [Rq("mbGet", "P", "A") EXCEPT !.etag = TRUE],
          [Rq("mbGet", "P", "A") EXCEPT !.cond = TRUE], Rq("mbGet", "S", "A"),
          Rq("mbList", "P", None), Rq("mbList", "S", None)}
    \cup Puts("dsPut", "S", None) \cup Puts("mbPut", "P", "A")
    \cup {[Rq("mbPut", "P", "B") EXCEPT !.body = <<2, 3>>, !.chunked = TRUE], Rq("mbPut", "P", "B")}
    \cup {[Rq("dsPut", "S", None) EXCEPT !.body = <<4>>],
          [Rq("mbPut", "P", "A") EXCEPT !.user = "guest", !.body = <<2>>],
          Rq("dsPut", "P", None), Rq("dsPut", "F", None), Rq("mbPut", "F", "A"),
          Rq("mbPut", "S", "A"),
          [Rq("dsRename", "F", None) EXCEPT !.from = <<"S", None>>],
          [Rq("dsRename", "F", None) EXCEPT !.from = <<"S", None>>, !.user = "guest"],
          [Rq("mbRename", "P", "B") EXCEPT !.from = <<"P", "A">>],
          Rq("dsCreate", "S", None), [Rq("dsCreate", "F", None) EXCEPT !.from = <<"P", None>>],
          [Rq("dsCreate", "P", None) EXCEPT !.from = <<"S", None>>],
          Rq("dsDelete", "S", None), Rq("dsDelete", "P", None), Rq("mbDelete", "P", "A")}
    \cup {[Rq(op, "P", "A") EXCEPT !.flaw = f, !.user = "guest"] :
            op \in {"mbGet", "mbPut"}, f \in {"name", "header"}}
    \cup {[Rq(op, "F", None) EXCEPT !.flaw = "name", !.user = "guest", !.from = <<"P", None>>] :
            op \in {"dsCreate", "dsRename"}}
    \cup {[Rq(op, "S", None) EXCEPT !.flaw = "header"] :
            op \in {"dsGet", "dsPut", "mbList", "dsCreate"}}
    \cup {[Rq(op, "P", "A") EXCEPT !.flaw = "header"] : op \in {"mbGet", "mbPut"}}

\* A library and a PUT to the member that is there.
MCPutA == {[Rq("mbPut", "P", "A") EXCEPT !.body = <<2>>]}

Perms == Permutations({w1, w2})
=============================================================================
