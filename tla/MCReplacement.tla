--------------------------- MODULE MCReplacement ---------------------------
EXTENDS Replacement

\* Every reference string, up to the names of the pages: a page is first
\* referenced after all smaller ones.  Page 0 is written, the others are read.
Canonical(s) ==
    \A k \in 1 .. Len(s) : s[k] = 0 \/ \E j \in 1 .. k - 1 : s[j] >= s[k] - 1

AllTraces ==
    LET strings == {s \in [1 .. MaxRefs -> Pages] : Canonical(s)}
    IN  {[k \in 1 .. MaxRefs |->
             [type |-> IF s[k] = 0 THEN "M" ELSE "L", page |-> s[k]]] : s \in strings}

=============================================================================
