------------------------------ MODULE Results ------------------------------
(***************************************************************************)
(* A result is what was asked for, a function or record, or an Err with a  *)
(* code; a panic of the code that was called is a result too.              *)
(***************************************************************************)
Err(code) == [err |-> code]
IsErr(x) == "err" \in DOMAIN x

Panic == Err("panic")
=============================================================================
