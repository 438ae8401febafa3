---------------------------- MODULE MCRevenueSales ----------------------------
(* RevenueSales for TLC: one deal that is paid more than once.             *)
EXTENDS RevenueSales
=============================================================================
