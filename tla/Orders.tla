------------------------------- MODULE Orders -------------------------------
(***************************************************************************)
(* The loops of the code.  A sort has a comparison that is a strict total    *)
(* order on what it is given, ids and keys breaking its ties; a loop carries *)
(* a state from element to element.                                          *)
(***************************************************************************)
EXTENDS Naturals, Sequences, FiniteSets

(* Op(x), with x a value bound once: TLC would otherwise compute x again at *)
(* every place where Op uses it.                                            *)
Given(x, Op(_)) == CHOOSE y \in {Op(v) : v \in {x}} : TRUE

(* The elements of S from the least up: each where its rank puts it.        *)
Sorted(S, Less(_, _)) ==
    Given(S, LAMBDA T :
        [i \in 1 .. Cardinality(T) |->
            CHOOSE x \in T : Cardinality({y \in T : Less(y, x)}) = i - 1])

(* The state after a loop over seq, from base.                              *)
Loop(Op(_, _), base, seq) ==
    Given(seq, LAMBDA xs :
        LET after[i \in 0 .. Len(xs)] ==
                IF i = 0 THEN base
                ELSE Given(after[i - 1], LAMBDA state :
                           Given(xs[i], LAMBDA x : Op(state, x)))
        IN  after[Len(xs)])
=============================================================================
