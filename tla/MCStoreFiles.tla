--------------------------- MODULE MCStoreFiles ---------------------------
(* A small instance of StoreFiles: two threads of one process and one of   *)
(* another put the same object; two of them map a key to it.               *)
EXTENDS StoreFilesCorrectness, TLC

CONSTANTS t1, t2, t3, one, two, x, y, k

Homes == t1 :> one @@ t2 :> one @@ t3 :> two
Puts == t1 :> << <<x, x>>, <<k, x>> >> @@ t2 :> << <<x, x>>, <<y, y>>, <<k, y>> >>
        @@ t3 :> << <<x, x>>, <<k, x>> >>
=============================================================================
