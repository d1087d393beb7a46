------------------------- MODULE MCCatalogRecovery -------------------------
(* An instance of CatalogRecovery for TLC. *)
EXTENDS CatalogRecovery

MCRequests == Commits
MCSettings ==
  [idempotent : {FALSE}, drift : {"cached"}, durable : BOOLEAN]
  \cup [idempotent : {TRUE}, drift : {"cached", "rejected", "applied"}, durable : BOOLEAN]
=============================================================================
