------------------------------ MODULE MCMonitoring ------------------------------
(* Instances of Monitoring for TLC. *)
EXTENDS Monitoring

\* One signal of the gateways and one that is a list with a limit.
OfflineAndDeadLetters == {"offlineGatewayCount", "deadLetterCount"}
OfflineThenDeadLetters == <<"offlineGatewayCount", "deadLetterCount">>

\* The overview reads the gateways and has no count of scheduled retries.
OfflineAndRetries == {"offlineGatewayCount", "retryScheduledCount"}
OfflineOnly == <<"offlineGatewayCount">>

Ones == [p \in Policy |-> 1]
=============================================================================
