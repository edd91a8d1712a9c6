---------------------------- MODULE MCInvocation -----------------------------
(***************************************************************************)
(* Every combination of options over two paths and one item of evidence.   *)
(* Two paths are enough for every way in which two of the three outputs    *)
(* coincide and a third differs.                                           *)
(***************************************************************************)
EXTENDS Invocation

=============================================================================
