---------------------------- MODULE MCSignatures ----------------------------
(* Values for the constants of Signatures: bytes of two digits of one bit.  *)
EXTENDS Signatures
=============================================================================
