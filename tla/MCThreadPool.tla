--------------------------- MODULE MCThreadPool ---------------------------
(* Model values for ThreadPool: ordered items, so that the item a worker    *)
(* takes need not be the head of the list.                                  *)
EXTENDS ThreadPool

MCRank == CHOOSE r \in [Items -> 1..Cardinality(Items)] :
              \A i, j \in Items : r[i] = r[j] => i = j
=============================================================================
