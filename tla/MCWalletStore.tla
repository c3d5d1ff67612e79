---------------------------- MODULE MCWalletStore ----------------------------
(* Values for the constants of WalletStore.                                *)
EXTENDS WalletStore

CONSTANTS d1, d2
=============================================================================
