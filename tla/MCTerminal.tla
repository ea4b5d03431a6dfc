---------------------------- MODULE MCTerminal ------------------------------
(* An instance of Terminal for TLC: every placement of at most MaxFields    *)
(* attributes on a small screen whose other cells are all blank or none is.  *)
EXTENDS Terminal, FiniteSetsExt

CONSTANTS MaxFields, letter, blank, other

Characters == {letter, blank, other}

SmallLayouts ==
    {[p \in Positions |-> IF p \in a \cup b THEN (IF p \in a THEN "input" ELSE "protected") ELSE c] :
        a \in UNION {kSubset(k, Positions) : k \in 0..MaxFields},
        b \in UNION {kSubset(k, Positions) : k \in 0..MaxFields},
        c \in {letter, blank}}

FewFields ==
    {image \in SmallLayouts : Cardinality({p \in Positions : image[p] \in Attributes}) <= MaxFields}

TypedTexts == {<< >>, <<other>>, <<other, other>>}
=============================================================================
