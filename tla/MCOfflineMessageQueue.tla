----------------------- MODULE MCOfflineMessageQueue -----------------------
(* OfflineMessageQueue with a message that says what an earlier visit left   *)
(* on the queue, or something else; and with no session and two flushes.     *)
EXTENDS OfflineMessageQueue, TLC

CONSTANTS a, hello, long, s1, s2, f1, f2, undefined

OneMessage == a :> hello

Alike == Permutations(Flushes) \cup Permutations(Sessions)
=============================================================================
