------------------------------ MODULE MCSprout ------------------------------
(* Four seconds, a window of two of them, and two blocks besides the first;*)
(* a bean that is old enough from the start, one that is in the end, and   *)
(* one that is not.                                                        *)
EXTENDS Sprout

BeanTimes == {1 - MinAge - Window, 0, 1}
=============================================================================
