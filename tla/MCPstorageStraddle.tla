------------------------- MODULE MCPstorageStraddle -------------------------
(* Pstorage for TLC: updates of parts of blocks that lie on two pages.     *)
EXTENDS Pstorage

Erased == -1
Spoilt == -2

Updates ==
    {[op |-> "update", at |-> 3 * b, size |-> n, offset |-> k] :
        b \in 0 .. 3, <<n, k>> \in {w \in (1 .. 3) \X (0 .. 2) : w[1] + w[2] <= 3}}
=============================================================================
