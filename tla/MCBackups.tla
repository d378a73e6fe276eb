----------------------------- MODULE MCBackups ------------------------------
EXTENDS Backups
=============================================================================
