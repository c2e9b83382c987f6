---------------------------- MODULE MCBankAccount ---------------------------
(* The threads of the test BoostSync.Begin, and a second cash machine. *)
EXTENDS BankAccount

CONSTANTS agent, joe, atm1, atm2
=============================================================================
