---------------------------- MODULE HandleTable ----------------------------
(***************************************************************************)
(* What HandleList promises to the rest of git2go: a table from opaque C   *)
(* pointers to the Go values they stand for.  A handle resolves to the     *)
(* value it was created for from the moment it enters the table until it   *)
(* is removed, and only then can its address name something else.          *)
(***************************************************************************)
CONSTANTS Handles,   \* the addresses C.malloc can return
          Objects    \* the Go values that are handed to C

VARIABLE table       \* the live handles, each with its value

TypeOK == DOMAIN table \subseteq Handles /\ table \in [DOMAIN table -> Objects]

Init == table = << >>

Insert(h, o) == /\ h \notin DOMAIN table
                /\ table' = [k \in DOMAIN table \cup {h} |-> IF k = h THEN o ELSE table[k]]

Remove(h) == /\ h \in DOMAIN table
             /\ table' = [k \in DOMAIN table \ {h} |-> table[k]]

Next == \/ \E h \in Handles, o \in Objects : Insert(h, o)
        \/ \E h \in Handles : Remove(h)

Spec == Init /\ [][Next]_table
=============================================================================
