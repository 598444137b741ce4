------------------------------ MODULE Listing ------------------------------
(***************************************************************************)
(* A selection, an ordering and a sum of rows, as the stores' queries make *)
(* them.  They are SelectSeq, SetToSortSeq and a fold of the libraries,    *)
(* with a set for the test and a relation for the order, so that lemmas    *)
(* about them can be stated, and proved, once (ListingProofs).             *)
(***************************************************************************)
EXTENDS Integers, Sequences, FiniteSets

(* The elements of s that are in T, in their order.                          *)
Only(s, T) ==
    LET upto[n \in 0 .. Len(s)] ==
            IF n = 0 THEN <<>>
            ELSE IF s[n] \in T THEN Append(upto[n - 1], s[n]) ELSE upto[n - 1]
    IN upto[Len(s)]

(* The elements of S, each behind those that R puts ahead of it.             *)
Listed(S, R) ==
    [i \in 1 .. Cardinality(S) |->
        CHOOSE x \in S : Cardinality({y \in S : <<y, x>> \in R}) = i - 1]

(* The numbers of s added up.                                                *)
Total(s) ==
    LET upto[n \in 0 .. Len(s)] == IF n = 0 THEN 0 ELSE upto[n - 1] + s[n]
    IN upto[Len(s)]
=============================================================================
