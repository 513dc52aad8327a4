----------------------------- MODULE MCDelivery -----------------------------
(* Instances of Delivery for TLC. *)
EXTENDS Delivery, TLC

CONSTANTS w1, w2, a, b, x, y, i, j, k

\* a and b are two submissions of one event, as a client retry makes them.
MCIdOf == [e \in Event |-> CASE e \in {a, b} -> i [] e = x -> j [] OTHER -> k]

AllGood      == [e \in Event |-> "good"]
XUnparseable == [e \in Event |-> IF e = x THEN "unparseable" ELSE "good"]
XYRejected   == [e \in Event |-> CASE e = x -> "unknown_currency"
                                    [] e = y -> "unstorable"
                                    [] OTHER -> "good"]

Replicas == Permutations(Worker)
=============================================================================
