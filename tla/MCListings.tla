------------------------------ MODULE MCListings ------------------------------
(* Small instances of Listings for TLC. *)
EXTENDS Listings, TLC

CONSTANTS a1, a2, a3

Query(p, s) == [page |-> p, size |-> s, role |-> "ADMIN"]

\* A reading by pages of one row, of two rows, and of the default size.
MCReading ==
    {Query(p, s) : p \in 0..4, s \in {1, 2}} \cup {Query(Omitted, Omitted), Query(1, Omitted)}

\* What is out of range, and pages whose offset does not fit into a machine
\* integer: it becomes a negative number, or that of another page.
MCOdd ==
    {Query(-1, 2), Query(8, 2), Query(0, 0), Query(0, 4), Query(4, 3), Query(6, 3),
     Query(Omitted, 1), [Query(0, 2) EXCEPT !.role = "USER"]}

MCEvery == MCReading \cup MCOdd

MCSymmetry == Permutations({a1, a2, a3})
=============================================================================
