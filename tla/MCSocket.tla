------------------------------ MODULE MCSocket ------------------------------
(* Socket with three buffers of different sizes. *)
EXTENDS Socket

Sizes == <<1, 2, 1>>
=============================================================================
