----------------------------- MODULE MCMigrator -----------------------------
(* A migration in a transaction, one of each kind outside of any, and one  *)
(* more in a transaction.                                                  *)
EXTENDS Migrator
=============================================================================
