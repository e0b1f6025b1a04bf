------------------------------- MODULE RunnerJobs -------------------------------
(***************************************************************************)
(* A runner's worker as a job of the Ray cluster: whoever asks for it      *)
(* submits it under the name of the runner and its dataset, waits for the  *)
(* run that has the name already, or deletes a run that ended and submits  *)
(* afresh.                                                                 *)
(***************************************************************************)
EXTENDS Naturals

CONSTANTS
    Callers,
    MaxRuns,   \* bound: runs of the job
    MaxAsks    \* bound: requests

ASSUME RunnersAssumption == {MaxRuns, MaxAsks} \subseteq Nat

VARIABLES
    run,      \* the cluster's record: the state of the run that has the name, and its number
    started,  \* runs so far
    caller,   \* each caller's step, the last run when it asked, and the answer
    asks

runnerVars == <<run, started, caller, asks>>

NoRun == [state |-> "none", number |-> 0]
Terminal == {"SUCCEEDED", "FAILED"}
Away == [at |-> "away", since |-> 0, answer |-> 0]

RunnersInit ==
    /\ run = NoRun /\ started = 0
    /\ caller = [c \in Callers |-> Away]
    /\ asks = 0

CallerGoto(c, step) == caller' = [caller EXCEPT ![c].at = step]

\* The runs that ended by now cannot answer the request.
Over == IF run.state \in Terminal \/ run = NoRun THEN started ELSE started - 1

RunRunner(c) ==
    /\ caller[c].at = "away" /\ asks < MaxAsks
    /\ asks' = asks + 1
    /\ caller' = [caller EXCEPT ![c] = [at |-> "submit", since |-> Over, answer |-> 0]]
    /\ UNCHANGED <<run, started>>

Launch ==
    /\ started < MaxRuns
    /\ run' = [state |-> "RUNNING", number |-> started + 1]
    /\ started' = started + 1

\* A submission that is refused, or whose answer is lost, has its status read.
Submit(c) ==
    /\ caller[c].at = "submit"
    /\ \/ run = NoRun /\ Launch /\ (CallerGoto(c, "await") \/ CallerGoto(c, "status"))
       \/ CallerGoto(c, "status") /\ UNCHANGED <<run, started>>
    /\ UNCHANGED asks

\* MUTANT of Attach: a run that succeeded is an answer, as it is for a stage.
AttachToSuccess(c) ==
    CallerGoto(c, CASE run = NoRun -> "failed"
                    [] run.state = "FAILED" -> "delete"
                    [] OTHER -> "await")

\* A run that ended is deleted, whatever its outcome, and any other waited for.
Attach(c) ==
    CallerGoto(c, CASE run = NoRun -> "failed"
                    [] run.state \in Terminal -> "delete"
                    [] OTHER -> "await")

ReadStatus(c) ==
    /\ caller[c].at = "status"
    /\ Attach(c)
    /\ UNCHANGED <<run, started, asks>>

\* The cluster deletes no run that is not over.
DeleteJob(c) ==
    /\ caller[c].at = "delete"
    /\ IF run.state \in Terminal
       THEN run' = NoRun /\ CallerGoto(c, "again")
       ELSE UNCHANGED run /\ CallerGoto(c, "failed")
    /\ UNCHANGED <<started, asks>>

Resubmit(c) ==
    /\ caller[c].at = "again"
    /\ \/ run = NoRun /\ Launch /\ (CallerGoto(c, "await") \/ CallerGoto(c, "failed"))
       \/ run # NoRun /\ CallerGoto(c, "failed") /\ UNCHANGED <<run, started>>
    /\ UNCHANGED asks

\* A poll sees the run that has the name now; too many failed polls, or too long
\* a run, are a failure of the request and not of the run.
AwaitRun(c) ==
    /\ caller[c].at = "await"
    /\ \/ /\ run.state = "SUCCEEDED"
          /\ caller' = [caller EXCEPT ![c].at = "answered", ![c].answer = run.number]
       \/ run.state # "SUCCEEDED" /\ CallerGoto(c, "failed")
    /\ UNCHANGED <<run, started, asks>>

Leave(c) ==
    /\ caller[c].at \in {"answered", "failed"}
    /\ caller' = [caller EXCEPT ![c] = Away]
    /\ UNCHANGED <<run, started, asks>>

WorkerEnds ==
    /\ run.state = "RUNNING"
    /\ \E outcome \in Terminal : run' = [run EXCEPT !.state = outcome]
    /\ UNCHANGED <<started, caller, asks>>

RunnersNext ==
    \/ \E c \in Callers :
          \/ RunRunner(c) \/ Submit(c) \/ ReadStatus(c) \/ DeleteJob(c) \/ Resubmit(c)
          \/ AwaitRun(c) \/ Leave(c)
    \/ WorkerEnds

-----------------------------------------------------------------------------
\* Whoever asked for a build is answered by a run that was not over when they
\* asked, however the deletions and submissions of several callers interleave.
AnsweredAfresh ==
    \A c \in Callers : caller[c].at = "answered" => caller[c].answer > caller[c].since

=============================================================================
