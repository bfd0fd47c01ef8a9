------------------------------ MODULE MCImport ------------------------------
(***************************************************************************)
(* Instances of Import for TLC.                                            *)
(***************************************************************************)
EXTENDS Import

CONSTANTS f1, f2, f3, d1, d2, d3

\* A photo with its companion, and a photo alone.
PairAndSingle == {{f1, f2}, {f3}}

\* The contents of the files before the first step, up to the names of the contents.
Start ==
    /\ source[f1].digest = d1
    /\ source[f2].digest = d2
    /\ source[f3].digest \in {d2, d3}

StartInit == Init /\ Start
StartSpec == StartInit /\ [][Next]_vars /\ Fairness
=============================================================================
