---------------------------- MODULE MCMySQLPool -----------------------------
(* The instance of MySQLPool for TLC.                                       *)
EXTENDS MySQLPool
=============================================================================
