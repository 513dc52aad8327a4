------------------------------ MODULE MCLedger ------------------------------
(* Instances of Ledger for TLC: one decimal place for USD, two for the columns of    *)
(* amount and rate, three for submitted amounts and quoted rates.                    *)
EXTENDS Ledger

CONSTANTS tie_odd, tie_even, refund, resubmitted, fine, i, j, k, l, u, v, t1, t2

\* resubmitted carries the id of tie_odd and another amount, in another user's name.
MCIdOf == [e \in Event |-> CASE e \in {tie_odd, resubmitted} -> i [] e = tie_even -> j
                              [] e = refund -> k [] OTHER -> l]

MCUserOf == [e \in Event |-> IF e = resubmitted THEN v ELSE u]

\* 0.15, 0.25, -0.15, 3, and 0.145, which the column cannot keep
MCAmountOf == [e \in Event |-> CASE e = tie_odd -> 150 [] e = tie_even -> 250
                                  [] e = refund -> -150 [] e = resubmitted -> 3000
                                  [] OTHER -> 145]
=============================================================================
