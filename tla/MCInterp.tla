------------------------------ MODULE MCInterp ------------------------------
(***************************************************************************)
(* Interp on small instances.                                              *)
(***************************************************************************)
EXTENDS Interp

\* A function of one input, and a task that passes a value in and one out.
MCSignatures == {<<"Input">>, <<"Inout", "Output">>}
=============================================================================
