----------------------------- MODULE TransferJob -----------------------------
(***************************************************************************)
(* What CSftpTransferWorker promises whoever watches its task list (the    *)
(* items list of the progress dialog, GetTasksSnapshot): one job is a      *)
(* growing list of tasks, served one at a time and in order; a task that   *)
(* ended keeps its status; nothing is started after a task that did not    *)
(* succeed, nor once the job is over.                                      *)
(***************************************************************************)
EXTENDS Naturals, Sequences

VARIABLES
  status,   \* the status of each task, in the order of submission
  phase     \* "open" before Start, "running", then "over" or "aborted"

jobVars == <<status, phase>>

JobInit == status = <<>> /\ phase = "open"

Submit == status' = Append(status, "Waiting") /\ UNCHANGED phase

Launch == phase = "open" /\ phase' = "running" /\ UNCHANGED status

\* Task i is the first one not done, and it is waiting.
Begin(i) ==
  /\ phase = "running"
  /\ status[i] = "Waiting"
  /\ \A j \in 1 .. (i - 1) : status[j] = "Done"
  /\ status' = [status EXCEPT ![i] = "Running"]
  /\ UNCHANGED phase

Finish(i) ==
  /\ phase = "running"
  /\ status[i] = "Running"
  /\ \E outcome \in {"Done", "Error", "Skipped"} :
       status' = [status EXCEPT ![i] = outcome]
  /\ UNCHANGED phase

\* The worker ends the job between two tasks.
Close ==
  /\ phase = "running"
  /\ \A i \in 1 .. Len(status) : status[i] # "Running"
  /\ phase' = "over"
  /\ UNCHANGED status

\* The thread is terminated, possibly in the middle of a task.
Abort == phase = "running" /\ phase' = "aborted" /\ UNCHANGED status

\* The list is cleared for another job.
Clear == phase # "running" /\ status' = <<>> /\ phase' = "open"

JobNext ==
  \/ Submit \/ Launch \/ Close \/ Abort \/ Clear
  \/ \E i \in 1 .. Len(status) : Begin(i) \/ Finish(i)

JobSpec == JobInit /\ [][JobNext]_jobVars

=============================================================================
