---------------------------- MODULE MCMatrixMult ----------------------------
(***************************************************************************)
(* Small matrices and placements for MatrixMult.                           *)
(***************************************************************************)
EXTENDS MatrixMult

Ranks == 0 .. N - 1
Contexts == {"world", "node", "roots"}
Tags == {"barrier", "bcast", "scatterv", "gatherv"}
Handles == {"send", "recv"} \X Ranks
Payloads == [data : Seq(Int), size : Nat, error : BOOLEAN]

(* The machine of each rank. *)
Apart == [r \in Ranks |-> r]
Together == [r \in Ranks |-> 0]
FirstTwo == [r \in Ranks |-> r \div 2]
LastTwo == [r \in Ranks |-> (r + 1) \div 2]
OuterTwo == [r \in Ranks |-> r % 2]

Files(rows, cols, node) ==
  [files |-> TRUE, rows |-> rows, cols |-> cols, node |-> node]

\* Two rows are a rendezvous, one row is eager.
Inputs ==
  {Files(rows, 6, Apart) : rows \in {0, 2, 5}}
    \union {Files(4, 1, Apart), Files(1, 0, Apart)}
    \union {Files(rows, 6, Together) : rows \in {2, 4}}
    \union {Files(rows, 6, node) : rows \in {1, 2, 6},
                                  node \in {FirstTwo, LastTwo, OuterTwo}}
    \union {[Files(0, 0, node) EXCEPT !.files = FALSE] : node \in {Apart, FirstTwo}}
=============================================================================
