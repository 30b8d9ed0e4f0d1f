------------------------------ MODULE MCSetFill ------------------------------
(* Instances of SetFill for TLC. *)
EXTENDS SetFill

\* The empty pattern, patterns that divide the data sizes and such that do not,
\* and data sizes up to the largest of the type.
Patterns == {0, 1, 2, 3, 5}
AllSizes == {0, 1, 4, 6, 10, 14, 15}
=============================================================================
