------------------------------ MODULE MCHideSu ------------------------------
EXTENDS HideSu

\* Two applications of zygote, the first of them listed, and a listed one of
\* zygote64.
MCParent == [p \in {1, 2, 3} |-> IF p = 3 THEN "zygote64" ELSE "zygote"]
MCParent13 == [p \in {1, 3} |-> IF p = 3 THEN "zygote64" ELSE "zygote"]
MCParent32 == [p \in {1, 2} |-> "zygote"]
=============================================================================
