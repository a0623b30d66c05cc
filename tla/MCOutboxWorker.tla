--------------------------- MODULE MCOutboxWorker ---------------------------
(* The instance of OutboxWorker that TLC checks.                           *)
EXTENDS OutboxWorker, Backoff

CONSTANTS BaseBackoff, MaxBackoff

MCRetryDelay == [n \in 1..(MaxAttempts - 1) |-> retryDelay(BaseBackoff, MaxBackoff, n)]
=============================================================================
