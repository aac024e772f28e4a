------------------------ MODULE MCCloudKitChatJobs --------------------------
(* A small instance of CloudKitChatJobs: an early request and a later one, each *)
(* with the next tick as its deadline, and two runs of the cycle that overlap. *)
EXTENDS CloudKitChatJobs, TLC

CONSTANTS r1, r2, w1, w2

MCRequests == {r1, r2}
MCCreatedAt == r1 :> 0 @@ r2 :> 1
MCExpiresAt == r1 :> 1 @@ r2 :> 2

\* 5 s, doubling: within the tick, then one tick.
MCRetryDelay == [n \in 1 .. MaxAttempts |-> n - 1]

=============================================================================
