------------------------------ MODULE PathTree ------------------------------
(***************************************************************************)
(* What a user of the namespace sees: a tree of paths, each a directory or *)
(* a file, and the code every call returns.  There are no inodes here and  *)
(* no transactions: a call does all it is asked for or only reports why    *)
(* not.                                                                    *)
(***************************************************************************)
EXTENDS Naturals, Sequences

CONSTANTS Paths     \* the paths calls name; the root is the empty sequence

VARIABLES
    tree,           \* DIRECTORY or FILE for every path there is
    call,           \* the last call and the paths it was given
    result          \* what it returned

vars == <<tree, call, result>>

Parent(p) == SubSeq(p, 1, Len(p) - 1)

IsBelow(p, q) == Len(p) < Len(q) /\ \A k \in 1 .. Len(p) : p[k] = q[k]

\* what a walk down to p meets in the tree t
Walk(t, p) ==
    IF p \in DOMAIN t THEN "SUCCESS"
    ELSE IF \E n \in 0 .. Len(p) - 1 :
              SubSeq(p, 1, n) \in DOMAIN t /\ t[SubSeq(p, 1, n)] = "FILE"
         THEN "NOTDIRECTORY"
         ELSE "NOENTRY"

\* ... and a walk to the directory in which p has or is to have its entry
WalkToParent(t, p) ==
    IF Walk(t, Parent(p)) # "SUCCESS" THEN Walk(t, Parent(p))
    ELSE IF t[Parent(p)] = "FILE" THEN "NOTDIRECTORY" ELSE "SUCCESS"

Below(t, p) == {q \in DOMAIN t : IsBelow(p, q)}

Init ==
    /\ tree = [p \in {<<>>} |-> "DIRECTORY"]
    /\ call = <<"mtl_initialize">>
    /\ result = "SUCCESS"

\* how a call ends: the tree it leaves and the code it returns
Leaves(t, code) == <<t, code>>

Lookup(t, p) == Leaves(t, Walk(t, p))

With(t, p, kind) == [q \in DOMAIN t \cup {p} |-> IF q = p THEN kind ELSE t[q]]

Without(t, p) == [q \in DOMAIN t \ {p} |-> t[q]]

Make(t, p, kind) ==
    IF WalkToParent(t, p) # "SUCCESS" THEN Leaves(t, WalkToParent(t, p))
    ELSE IF p \in DOMAIN t THEN Leaves(t, "EXISTS")
    ELSE Leaves(With(t, p, kind), "SUCCESS")

RemoveDirectory(t, p) ==
    IF WalkToParent(t, p) # "SUCCESS" THEN Leaves(t, WalkToParent(t, p))
    ELSE IF p \notin DOMAIN t THEN Leaves(t, "NOENTRY")
    ELSE IF t[p] = "FILE" THEN Leaves(t, "NOTDIRECTORY")
    ELSE IF Below(t, p) # {} THEN Leaves(t, "NOTEMPTY")
    ELSE Leaves(Without(t, p), "SUCCESS")

RemoveFile(t, p) == Leaves(Without(t, p), "SUCCESS")

\* p and everything below it goes to q; what is at q already is not replaced
Moved(t, p, q) ==
    LET moved == Below(t, p) \cup {p}
        Target(r) == q \o SubSeq(r, Len(p) + 1, Len(r))
        Origin(s) == p \o SubSeq(s, Len(q) + 1, Len(s))
        targets == {Target(r) : r \in moved}
    IN  [s \in (DOMAIN t \ moved) \cup targets |->
           IF s \in targets THEN t[Origin(s)] ELSE t[s]]

Move(t, p, q) ==
    IF Walk(t, Parent(p)) # "SUCCESS" THEN Leaves(t, Walk(t, Parent(p)))
    ELSE IF Walk(t, Parent(q)) # "SUCCESS" THEN Leaves(t, Walk(t, Parent(q)))
    ELSE IF t[Parent(p)] = "FILE" THEN Leaves(t, "NOTDIRECTORY")
    ELSE IF p \notin DOMAIN t THEN Leaves(t, "NOENTRY")
    ELSE IF t[Parent(q)] = "FILE" THEN Leaves(t, "NOTDIRECTORY")
    ELSE IF q \in DOMAIN t /\ q # p THEN Leaves(t, "EXISTS")
    ELSE Leaves(Moved(t, p, q), "SUCCESS")

Answer(c, outcome) == call' = c /\ <<tree', result'>> = outcome

\* t is the tree as the call finds it
Next ==
    \E t \in {tree}, p \in Paths :
        \/ Answer(<<"lookup", p>>, Lookup(t, p))
        \/ Answer(<<"mkdir", p>>, Make(t, p, "DIRECTORY"))
        \/ Answer(<<"create", p>>, Make(t, p, "FILE"))
        \/ Answer(<<"rmdir", p>>, RemoveDirectory(t, p))
        \/ /\ p \in DOMAIN t /\ t[p] = "FILE"
           /\ Answer(<<"unlink", p>>, RemoveFile(t, p))
        \/ \E q \in Paths :
             ~IsBelow(p, q) /\ Answer(<<"rename", p, q>>, Move(t, p, q))

Spec == Init /\ [][Next]_vars
============================================================================
