-------------------------- MODULE MCTransferWorker --------------------------
(* Instances of TransferWorker for TLC. *)
EXTENDS TransferWorker

\* The second task is a directory, and the first and second are moved.
MCDirectories == {2} \cap Tasks
MCMoves == {1, 2} \cap Tasks

=============================================================================
