------------------------------ MODULE Listing ------------------------------
(***************************************************************************)
(* The two listings a client reads page by page (src/dsapi.c): the data    *)
(* sets of a level, which are counted and sent from a sorted array, and    *)
(* the members of a partitioned data set, which are sent while the         *)
(* directory is walked.  The client asks for each next page with start=;   *)
(* names come and go between the pages.                                    *)
(*                                                                         *)
(* A character is a number in the collating order; 0 is the blank that     *)
(* pads a name, below every other.  A name is a sequence of at most Width  *)
(* characters; the catalog of a level and a directory are sets of names.   *)
(***************************************************************************)
EXTENDS Integers, Sequences, FiniteSets, SequencesExt

CONSTANTS
    Width,        \* MAX_DATASET_NAME or MAX_MEMBER_NAME
    Universe,     \* the names that may exist, in the order of a catalog
    Level,        \* dslevel: LISTC returns what is below it, not itself
    Queries,      \* kind, first start=, pattern, X-IBM-Max-Items, paging style
    PatternMax,   \* characters of the longest pattern that is obeyed
    Word,         \* the unsigned word a count is held in
    MaxChanges,   \* bound on the names that come and go
    NoValue       \* a parameter that was not given

VARIABLES
    query,     \* the client's listing
    names,     \* the names that exist
    always,    \* those that existed, and that every page could look up
    ever,      \* those that existed at some time
    from,      \* the start= of the next page
    got,       \* the names the client has, in the order received
    lst,       \* "more", "whole", "refused" or "broken", as the client knows it
    changes

listVars == <<query, names, always, ever, from, got, lst, changes>>

Blank == 0
Star == -1
Percent == -2

Init ==
    /\ query \in Queries
    /\ names \in SUBSET Range(Universe)
    /\ always = names
    /\ ever = names
    /\ from = query.start
    /\ got = << >>
    /\ lst = "more"
    /\ changes = 0

-----------------------------------------------------------------------------
(* Names and keys. *)

\* strcmp, and memcmp of names padded with blanks.
Before(a, b) ==
    \/ Len(a) < Len(b) /\ IsPrefix(a, b)
    \/ \E i \in 1..Len(a) : /\ i <= Len(b)
                            /\ a[i] < b[i]
                            /\ \A j \in 1..(i - 1) : a[j] = b[j]

Trimmed(v) ==
    LET solid == {i \in DOMAIN v : v[i] # Blank}
    IN  SubSeq(v, 1, IF solid = {} THEN 0 ELSE Max(solid))

\* make_query_key: without trailing blanks, cut to the room there is; a value of
\* blanks is none.
QueryKey(value, room) ==
    LET v == IF value = NoValue THEN << >> ELSE Trimmed(value)
    IN  [have |-> v # << >>, key |-> SubSeq(v, 1, IF Len(v) > room THEN room ELSE Len(v)),
         cut |-> Len(v) > room]

\* dslist_in_page, and the skip of member_scan.
InPage(name, k) ==
    k.have => ~(Before(name, k.key) \/ (k.cut /\ name = k.key))

\* member_match: the loop goes back to the last star, which then takes one
\* character more.
MemberMatch(name, pat) ==
    LET turn(s) ==
          IF s.n >= Len(name) THEN [s EXCEPT !.on = FALSE]
          ELSE IF s.p < Len(pat) /\ pat[s.p + 1] \in {Percent, name[s.n + 1]}
            THEN [s EXCEPT !.p = @ + 1, !.n = @ + 1]
          ELSE IF s.p < Len(pat) /\ pat[s.p + 1] = Star
            THEN [s EXCEPT !.p = @ + 1, !.starP = s.p, !.starN = s.n]
          ELSE IF s.starP >= 0
            THEN [s EXCEPT !.p = s.starP + 1, !.n = s.starN + 1, !.starN = @ + 1]
          ELSE [s EXCEPT !.on = FALSE, !.failed = TRUE]
        turns == (Len(name) + 1) * (Len(pat) + 2)
        loop[k \in 0..turns] ==
          IF k = 0 THEN [n |-> 0, p |-> 0, starP |-> -1, starN |-> 0,
                         on |-> TRUE, failed |-> FALSE]
          ELSE LET s == loop[k - 1] IN IF s.on THEN turn(s) ELSE s
        end == loop[turns]
    IN  ~end.failed /\ \A i \in (end.p + 1)..Len(pat) : pat[i] = Star

\* What a pattern means: a star stands for any run of characters, a percent sign
\* for one.
Glob(name, pat) ==
    LET m[i \in 0..Len(name), j \in 0..Len(pat)] ==
          IF j = 0 THEN i = 0
          ELSE IF pat[j] = Star THEN \E k \in 0..i : m[k, j - 1]
          ELSE i > 0 /\ pat[j] \in {Percent, name[i]} /\ m[i - 1, j - 1]
    IN  m[Len(name), Len(pat)]

-----------------------------------------------------------------------------
(* One page. *)

\* A defect that sends the array as it was put together.
MutSorted(array) == array

\* qsort with dslist_cmp
Sorted(array) == SortSeq(array, Before)

\* datasetListHandler: what LISTC returns in catalog order, the exact name behind
\* it, sorted; the first max of the eligible ones, and moreRows.  The exact name is
\* looked up apart; if its DSCB cannot be read, or there is no storage for its entry,
\* it is left out and the answer is the same otherwise (exact is FALSE).
DatasetList(k, max, exact) ==
    LET children == SelectSeq(Universe, LAMBDA n : n \in names \ {Level} /\ IsPrefix(Level, n))
        dslist   == Sorted(children \o (IF exact /\ Level \in names THEN <<Level>> ELSE << >>))
        eligible == SelectSeq(dslist, LAMBDA n : InPage(n, k))
        emitted  == IF max > 0 /\ max < Len(eligible) THEN max ELSE Len(eligible)
    IN  [items |-> SubSeq(eligible, 1, emitted), more |-> emitted < Len(eligible)]

\* The matches after which the walk stops, 0 for none: one past the page.
Bound(page) == IF page > 0 /\ page < Word - 1 THEN page + 1 ELSE 0

\* member_scan, then the count of memberListHandler: skip, filter, count, write up
\* to the page, stop at the bound.
MemberList(k, pat, page) ==
    LET matches == SelectSeq(Universe, LAMBDA n :
                     n \in names /\ InPage(n, k) /\ (pat.have => MemberMatch(n, pat.key)))
        bound == Bound(page)
        seen == IF bound > 0 /\ bound < Len(matches) THEN bound ELSE Len(matches)
        emitted == IF page = 0 \/ seen < page THEN seen ELSE page
    IN  [items |-> SubSeq(matches, 1, emitted), more |-> page > 0 /\ seen > page]

\* What is new to the client: it has asked for its last name again, or for the
\* first one that could follow it.
Fresh(items) ==
    IF got # << >> /\ items # << >> /\ Head(items) = Last(got) THEN Tail(items) ELSE items

\* Where the client goes on: at its last name, which comes again, or at the lowest
\* value behind it.
NextStart(list) ==
    IF query.style = "again" THEN Last(list) ELSE Append(Last(list), 1)

Page ==
    /\ lst = "more"
    /\ query.pattern # NoValue => Len(query.pattern) <= PatternMax
    /\ \E exact \in IF query.kind = "ds" THEN BOOLEAN ELSE {TRUE} :
         LET k == QueryKey(from, Width)
             page == IF query.kind = "ds" THEN DatasetList(k, query.max, exact)
                     ELSE MemberList(k, QueryKey(query.pattern, PatternMax), query.max)
             list == got \o Fresh(page.items)
         IN  /\ got' = list
             /\ lst' = IF page.more THEN "more" ELSE "whole"
             /\ from' = IF page.more /\ list # << >> THEN NextStart(list) ELSE from
             /\ always' = IF exact THEN always ELSE always \ {Level}
    /\ UNCHANGED <<query, names, ever, changes>>

\* A pattern that would have to be cut is answered with a 400.
Refuse ==
    /\ lst = "more"
    /\ query.pattern # NoValue /\ Len(query.pattern) > PatternMax
    /\ lst' = "refused"
    /\ UNCHANGED <<query, names, always, ever, from, got, changes>>

\* No storage for the list, a directory block that cannot be read, a send that
\* fails: an error or a broken connection, and the client knows.
Fail ==
    /\ lst = "more"
    /\ lst' = "broken"
    /\ UNCHANGED <<query, names, always, ever, from, got, changes>>

\* Another request creates or deletes a name between two pages.
Change ==
    /\ lst = "more" /\ changes < MaxChanges
    /\ changes' = changes + 1
    /\ \E n \in Range(Universe) :
         /\ names' = IF n \in names THEN names \ {n} ELSE names \cup {n}
         /\ always' = always \ {n}
         /\ ever' = ever \cup {n}
    /\ UNCHANGED <<query, from, got, lst>>

\* The client has its list, or none.
Listed == lst # "more" /\ UNCHANGED listVars

Step == Page \/ Refuse
Next == Step \/ Fail \/ Change \/ Listed

-----------------------------------------------------------------------------
(* Properties. *)

\* What the client asked for: names from the first start= on, compared with the
\* whole value, that the pattern stands for.
Wanted(n) ==
    /\ query.start # NoValue => ~Before(n, Trimmed(query.start))
    /\ query.pattern # NoValue /\ Trimmed(query.pattern) # << >>
         => Glob(n, Trimmed(query.pattern))
    /\ query.kind = "ds" => IsPrefix(Level, n)

\* Page by page the client gets every wanted name that was there all the time,
\* none that it did not ask for or that never was, each once and in order, when
\* the last page says there is no more (dsapi.c: datasetListHandler, member_scan).
\* The one exception is the data set named by the level itself: a page that could not
\* look it up leaves it out without a sign, and loses no other name by that.
ListingExact ==
    /\ \A i \in 1..(Len(got) - 1) : Before(got[i], got[i + 1])
    /\ \A n \in Range(got) : n \in ever /\ Wanted(n)
    /\ lst = "whole" => \A n \in always : Wanted(n) => n \in Range(got)

\* The client has been told that there is no more, or that there is none.
ListingEnded == lst # "more"
=============================================================================
