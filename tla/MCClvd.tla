------------------------------- MODULE MCClvd -------------------------------
EXTENDS Clvd
\* One piece, whole and short; two and three pieces with a short last one; every
\* header version the host writes.
MCPictures ==
    {[size |-> 1, keyframe |-> k, annex_b |-> b, stamp |-> s, wm |-> w] :
        k \in {TRUE}, b \in {<<1>>, <<1, 0, 1>>, <<1, 1, 0, 1, 1>>}, s \in {0, 1}, w \in {0, 1}}
    \cup {[size |-> 2, keyframe |-> FALSE, annex_b |-> b, stamp |-> 1, wm |-> 0] :
        b \in {<<>>, <<0, 1>>, <<0, 0, 1, 0>>, <<1, 0, 0, 1, 1>>}}
=============================================================================
