---------------------------- MODULE MCLogContext -----------------------------
(* The selection of log contexts alone.                                    *)
EXTENDS LogContext, MCLogs
=============================================================================
