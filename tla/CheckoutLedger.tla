--------------------------- MODULE CheckoutLedger ---------------------------
(***************************************************************************)
(* What writing back promises, without working folders, scans or stops:    *)
(* Docbank gets a version only on top of the one the catalog names, and    *)
(* the catalog then moves to exactly that version before the next is put.  *)
(***************************************************************************)
EXTENDS Naturals

CONSTANTS File, Content

VARIABLES
    head,    \* version and content the catalog names for each file
    node     \* version and content Docbank holds for each file

vars == <<head, node>>

Init ==
    /\ head \in [File -> [version : {1}, sum : Content]]
    /\ node = head

Put(f, s) ==
    /\ node[f] = head[f]
    /\ node' = [node EXCEPT ![f] = [version |-> head[f].version + 1, sum |-> s]]
    /\ UNCHANGED head

Record(f) ==
    /\ head' = [head EXCEPT ![f] = node[f]]
    /\ UNCHANGED node

Next == \E f \in File : Record(f) \/ \E s \in Content : Put(f, s)

Spec == Init /\ [][Next]_vars
=============================================================================
