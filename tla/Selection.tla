------------------------------ MODULE Selection ------------------------------
(***************************************************************************)
(* The elements of a sequence that are in a set, in their order. This is   *)
(* SelectSeq for a set, written as a recursive function so that it can be  *)
(* reasoned about: the prover knows no definition of SelectSeq.            *)
(***************************************************************************)
EXTENDS Integers, Sequences

Only(s, R) ==
    LET only[i \in 0 .. Len(s)] ==
            IF i = 0 THEN <<>>
            ELSE IF s[i] \in R THEN Append(only[i - 1], s[i]) ELSE only[i - 1]
    IN  only[Len(s)]

=============================================================================
