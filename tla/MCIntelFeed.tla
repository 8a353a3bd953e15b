----------------------------- MODULE MCIntelFeed -----------------------------
(* Small instances of IntelFeed for TLC.                                     *)
EXTENDS IntelFeed, TLC

CONSTANTS s1, s2, u1, u2, A, B, S, g1, g2, g3, g4, g5, va, vb, vc, vs, vt

\* A and B have the same order of size, S is a truncated feed.
MCEntryCount ==
    [c \in Contents |-> IF c = S THEN 5 ELSE IF c = B THEN 60 ELSE 100]

\* u1 sends a validator with every payload, u2 none with B.
MCValidatorOf ==
    [p \in Urls \X Contents |->
        IF p[1] = u1
        THEN IF p[2] = A THEN va ELSE IF p[2] = B THEN vb ELSE vs
        ELSE IF p[2] = A THEN vc ELSE IF p[2] = B THEN None ELSE vt]

GenerationSymmetry == Permutations(GenIds)

===============================================================================
