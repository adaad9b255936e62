------------------------------- MODULE MCTlvs -------------------------------
(* Tlvs with interchangeable addresses. *)
EXTENDS Tlvs, TLC

Interchangeable == Permutations(Addresses)
=============================================================================
