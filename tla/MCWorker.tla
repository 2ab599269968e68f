------------------------------ MODULE MCWorker ------------------------------
(* Worker on a two-chunk payload through one-chunk pipes: every write of     *)
(* either side can block, and replies of MaxReply, MaxReply + 1 and          *)
(* MaxReply + 2 chunks straddle the reply cap.                               *)
EXTENDS Worker

MCReplyLens == {1, 2, 3, 4}
AllFaults == FaultKinds
=============================================================================
