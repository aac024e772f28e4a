------------------------- MODULE MCCloudKitAutoSync -------------------------
(* CloudKitAutoSync with one request by hand, a conversation and a task, and     *)
(* batches of one record, or of two by hand.                                    *)
EXTENDS CloudKitAutoSync, TLC

CONSTANTS q1, undefined, chat, task

MCKind == chat :> 1 @@ task :> 2
=============================================================================
