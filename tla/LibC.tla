-------------------------------- MODULE LibC --------------------------------
(***************************************************************************)
(* The C library function os/processmgt.c takes on trust: bsearch, as the  *)
(* GNU library implements it.  On an array that is not sorted it misses    *)
(* elements, and which ones depends on the probes it makes.                *)
(***************************************************************************)
EXTENDS Integers, Sequences

\* cmpfunc of processmgt.c, on ids small enough that a - b does not overflow.
cmpfunc(a, b) == a - b

\* Is key found among the elements of arr?  lo and hi are offsets from 0.
BinarySearch(key, arr) ==
  LET probe[range \in (0 .. Len(arr)) \X (0 .. Len(arr))] ==
        LET lo == range[1]
            hi == range[2]
            mid == (lo + hi) \div 2
            cmp == cmpfunc(key, arr[mid + 1])
        IN /\ lo < hi
           /\ \/ cmp = 0
              \/ cmp < 0 /\ probe[<<lo, mid>>]
              \/ cmp > 0 /\ probe[<<mid + 1, hi>>]
  IN probe[<<0, Len(arr)>>]
=============================================================================
