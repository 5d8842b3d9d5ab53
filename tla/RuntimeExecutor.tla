---------------------------- MODULE RuntimeExecutor ----------------------------
(***************************************************************************)
(* What happens inside the action execute of Worker: DockerRuntimeExecutor *)
(* runs the attempts of one invocation, one after the other (that they do  *)
(* not overlap is ExclusiveExecution of Platform), each in a container of  *)
(* its own.  The attempts share the files of the invocation: its input,    *)
(* its log and its result.  Every call to Docker, to the database or to    *)
(* the file system may fail, and the worker may crash between any two.     *)
(***************************************************************************)
EXTENDS Integers

CONSTANTS max_attempts,
          ReportedErrors,   \* the names of the exceptions that handlers raise
          None,
          MaxFaults      \* bound of the model: failed calls and crashes

VARIABLES
  attempt,     \* the attempt that runs or ran last
  step,        \* where it is
  container,   \* the state of the container of each attempt
  program,     \* how the program of each attempt ended
  logs_ref,    \* whether execute_container has a reference to the log file
  pending,     \* the result that is returned after the finally block
  res,         \* the result that each attempt returned
  input, logs, result_file,   \* the attempt that wrote the file, or None
  failures     \* the failed calls of each attempt

vars == <<attempt, step, container, program, logs_ref, pending, res,
          input, logs, result_file, failures>>

Attempts == 1..max_attempts

(* How a program ends: what it leaves on stdout, with the error_type of an *)
(* envelope that has one, its exit code, whether it wrote to stderr, and   *)
(* whether it met its memory limit.  The runner writes one envelope, with  *)
(* the class name of any exception of the handler; a program that writes   *)
(* to descriptor 1 or exits by itself leaves any of the others.            *)
Ending ==
  LET E(outs, errors) ==
        [out : outs, error : errors, code : {0, 1}, stderr : BOOLEAN, oom : BOOLEAN]
  IN  E({"result", "large_result", "nothing", "garbled", "no_ok", "no_error_type"},
        {None})
        \cup E({"error"}, ReportedErrors)

RETRYABLE_ERROR_TYPES ==
  {"DockerException", "DockerRuntimeError", "FileNotFoundError",
   "InfrastructureError", "RuntimeInvocationNotFoundError", "RuntimeError",
   "WorkerLostError"}

Failed(error, ref) ==
  [status |-> "FAILED", error |-> error, has_logs |-> ref, has_result |-> FALSE]
TimedOut(ref) ==
  [status |-> "TIMEOUT", error |-> "TimeoutError", has_logs |-> ref,
   has_result |-> FALSE]
Succeeded(ref, large) ==
  [status |-> "SUCCEEDED", error |-> None, has_logs |-> ref, has_result |-> large]

(* OperationalError, OSError and APIError stand for the errors of the      *)
(* database, of the file system and of Docker that are in neither list of  *)
(* the retry policy.                                                       *)
ErrorTypes ==
  {"OperationalError", "OSError", "APIError", "DockerException",
   "FileNotFoundError", "RuntimeInvocationNotFoundError", "MemoryLimitExceeded",
   "InvalidRuntimeOutput", "RuntimeExitError", "RuntimeError"}
    \cup ReportedErrors

Result ==
  [status : {"FAILED", "TIMEOUT", "SUCCEEDED"},
   error : ErrorTypes \cup {"TimeoutError", None},
   has_logs : BOOLEAN, has_result : BOOLEAN]

(* An invocation has at least one attempt, and None is none of the values  *)
(* that it stands in for.                                                  *)
ASSUME RuntimeAssumption ==
  /\ max_attempts \in Nat \ {0}
  /\ None \notin Attempts \cup Ending \cup Result

Init ==
  /\ attempt = 1
  /\ step = "execute"
  /\ container = [a \in Attempts |-> "none"]
  /\ program = [a \in Attempts |-> None]
  /\ logs_ref = FALSE
  /\ pending = None
  /\ res = [a \in Attempts |-> None]
  /\ input = None /\ logs = None /\ result_file = None
  /\ failures = [a \in Attempts |-> 0]

--------------------------------------------------------------------------------
files == <<input, logs, logs_ref, result_file>>
docker == <<container, program>>

FaultBudget ==
  LET Sum[a \in 0..max_attempts] == IF a = 0 THEN 0 ELSE failures[a] + Sum[a - 1]
  IN  MaxFaults - Sum[max_attempts]

(* A call fails. *)
Fault ==
  /\ FaultBudget > 0
  /\ failures' = [failures EXCEPT ![attempt] = @ + 1]

Fine == UNCHANGED failures

Goto(s) ==
  /\ step' = s
  /\ UNCHANGED <<attempt, pending, res>>

(* return or raise: the finally block comes first. *)
Return(s, result) ==
  /\ step' = s
  /\ pending' = result
  /\ UNCHANGED <<attempt, res>>

Finish(result) ==
  /\ step' = "done"
  /\ res' = [res EXCEPT ![attempt] = result]
  /\ pending' = None
  /\ UNCHANGED attempt

SetContainer(state) ==
  /\ container' = [container EXCEPT ![attempt] = state]
  /\ UNCHANGED program

--------------------------------------------------------------------------------
(* The deadline is checked, and the spec is loaded. *)
execute ==
  /\ step = "execute"
  /\ \/ Finish(TimedOut(FALSE)) /\ Fine
     \/ Finish(Failed("OperationalError", FALSE)) /\ Fault
     \/ Finish(Failed("RuntimeInvocationNotFoundError", FALSE)) /\ Fine
     \/ Goto("prepare") /\ Fine
  /\ UNCHANGED <<docker, files>>

(* The client, the package and the input file of execute_container; here   *)
(* a failure is raised outside the try block.                              *)
write_runtime_input ==
  /\ step = "prepare"
  /\ \/ Finish(Failed("DockerException", FALSE)) /\ Fault /\ UNCHANGED input
     \/ Finish(Failed("FileNotFoundError", FALSE)) /\ Fine /\ UNCHANGED input
     \/ Finish(Failed("OSError", FALSE)) /\ Fault /\ input' \in {input, attempt}
     \/ Goto("run") /\ Fine /\ input' = attempt
  /\ UNCHANGED <<docker, logs, logs_ref, result_file>>

(* containers.run creates and starts the container; when it fails the      *)
(* executor has no container, whatever Docker has done by then.            *)
run_container ==
  /\ step = "run"
  /\ \/ Goto("wait") /\ Fine /\ SetContainer("running")
     \/ /\ Return("remove_input", Failed("APIError", FALSE))
        /\ Fault
        /\ \E s \in {"none", "created", "running"} : SetContainer(s)
  /\ UNCHANGED files

(* Mutant: waits for the program without a timeout. *)
wait_forever ==
  /\ step = "wait"
  /\ \/ container[attempt] = "exited" /\ Goto("stderr") /\ Fine
     \/ Return("remove_container", Failed("APIError", FALSE)) /\ Fault
  /\ UNCHANGED <<docker, files>>

(* wait ends with the program, with the timeout, or with another error. *)
wait ==
  /\ step = "wait"
  /\ \/ container[attempt] = "exited" /\ Goto("stderr") /\ Fine
     \/ Goto("kill") /\ Fine
     \/ Return("remove_container", Failed("APIError", FALSE)) /\ Fault
  /\ UNCHANGED <<docker, files>>

(* Mutant: refers to the log file of the invocation even if nothing was    *)
(* written to it.                                                          *)
write_logs_always_refers(stderr) ==
  /\ logs' = IF stderr THEN attempt ELSE logs
  /\ logs_ref' = TRUE

(* The log file is only written, and referred to, if there is something. *)
write_logs(stderr) ==
  /\ logs' = IF stderr THEN attempt ELSE logs
  /\ logs_ref' = stderr

read_stderr ==
  /\ step = "stderr"
  /\ \/ /\ Return("remove_container", Failed("APIError", FALSE)) /\ Fault
        /\ UNCHANGED <<logs, logs_ref>>
     \/ Goto("inspect") /\ write_logs(program[attempt].stderr) /\ Fine
  /\ UNCHANGED <<docker, input, result_file>>

(* A failed inspection counts as no. *)
was_oom_killed ==
  /\ step = "inspect"
  /\ \/ /\ program[attempt].oom /\ Fine
        /\ Return("remove_container", Failed("MemoryLimitExceeded", logs_ref))
     \/ ~program[attempt].oom /\ Goto("stdout") /\ Fine
     \/ Goto("stdout") /\ Fault
  /\ UNCHANGED <<docker, files>>

(* Mutant: believes the envelope whatever the exit code. *)
parse_envelope_only(p, ref) ==
  CASE p.out \in {"nothing", "garbled"} -> Failed("InvalidRuntimeOutput", ref)
    [] p.out \in {"result", "large_result"} -> Succeeded(ref, p.out = "large_result")
    [] p.out = "error" -> Failed(p.error, ref)
    [] p.out = "no_error_type" -> Failed("RuntimeError", ref)
    [] p.out = "no_ok" -> Failed("RuntimeExitError", ref)

parse_runtime_output(p, ref) ==
  CASE p.out \in {"nothing", "garbled"} -> Failed("InvalidRuntimeOutput", ref)
    [] p.out \in {"result", "large_result"} /\ p.code = 0 ->
         Succeeded(ref, p.out = "large_result")
    [] p.out = "error" -> Failed(p.error, ref)
    [] p.out = "no_error_type" -> Failed("RuntimeError", ref)
    [] OTHER -> Failed("RuntimeExitError", ref)

(* A large result goes to the result file. *)
read_stdout ==
  LET parsed == parse_runtime_output(program[attempt], logs_ref) IN
  /\ step = "stdout"
  /\ \/ /\ Return("remove_container", parsed) /\ Fine
        /\ result_file' = IF parsed.has_result THEN attempt ELSE result_file
     \/ /\ Return("remove_container", Failed("APIError", FALSE)) /\ Fault
        /\ UNCHANGED result_file
  /\ UNCHANGED <<docker, input, logs, logs_ref>>

(* build_timeout_result: the container is killed; none of its failures     *)
(* keeps the attempt from being a timeout.                                 *)
kill ==
  /\ step = "kill"
  /\ Goto("timeout_logs")
  /\ \/ SetContainer("exited") /\ Fine
     \/ UNCHANGED docker /\ Fault
  /\ UNCHANGED files

(* Mutant: returns past the finally block. *)
build_timeout_result_early ==
  /\ step = "timeout_logs"
  /\ Finish(TimedOut(FALSE)) /\ Fine
  /\ UNCHANGED <<docker, files>>

build_timeout_result ==
  /\ step = "timeout_logs"
  /\ \/ \E stderr \in BOOLEAN :
          /\ write_logs(stderr) /\ Fine
          /\ Return("remove_container", TimedOut(logs_ref'))
     \/ /\ Return("remove_container", TimedOut(FALSE)) /\ Fault
        /\ UNCHANGED <<logs, logs_ref>>
  /\ UNCHANGED <<docker, input, result_file>>

(* Mutant: without force Docker refuses to remove a running container. *)
remove_container_unforced ==
  /\ step = "remove_container"
  /\ Goto("remove_input")
  /\ \/ container[attempt] # "running" /\ SetContainer("removed") /\ Fine
     \/ container[attempt] = "running" /\ UNCHANGED docker /\ Fine
     \/ UNCHANGED docker /\ Fault
  /\ UNCHANGED files

(* The finally block; its failures are only logged. *)
remove_container ==
  /\ step = "remove_container"
  /\ Goto("remove_input")
  /\ \/ SetContainer("removed") /\ Fine
     \/ UNCHANGED docker /\ Fault
  /\ UNCHANGED files

remove_input ==
  /\ step = "remove_input"
  /\ Finish(pending)
  /\ \/ input' = None /\ Fine
     \/ UNCHANGED input /\ Fault
  /\ UNCHANGED <<docker, logs, logs_ref, result_file>>

--------------------------------------------------------------------------------
(* The environment: a program ends, the worker dies, and the platform      *)
(* starts the next attempt after a crash or a result to be retried.        *)
program_ends(a) ==
  /\ container[a] = "running"
  /\ container' = [container EXCEPT ![a] = "exited"]
  /\ \E p \in Ending : program' = [program EXCEPT ![a] = p]
  /\ UNCHANGED <<attempt, step, pending, res, files, failures>>

worker_crashes ==
  /\ step \notin {"done", "crashed"}
  /\ Fault
  /\ step' = "crashed"
  /\ pending' = None
  /\ UNCHANGED <<attempt, res, docker, files>>

(* Mutant: whatever did not succeed is tried again. *)
is_retryable_unless_succeeded(r) == r.status # "SUCCEEDED"

is_retryable_execution_result(r) ==
  r.status = "FAILED" /\ r.error \in RETRYABLE_ERROR_TYPES

next_attempt ==
  /\ attempt < max_attempts
  /\ \/ step = "crashed"
     \/ step = "done" /\ is_retryable_execution_result(res[attempt])
  /\ attempt' = attempt + 1
  /\ step' = "execute"
  /\ logs_ref' = FALSE
  /\ UNCHANGED <<docker, pending, res, input, logs, result_file, failures>>

ExecutorStep ==
  \/ execute \/ write_runtime_input \/ run_container \/ wait
  \/ read_stderr \/ was_oom_killed \/ read_stdout
  \/ kill \/ build_timeout_result
  \/ remove_container \/ remove_input

Next ==
  \/ ExecutorStep
  \/ worker_crashes \/ next_attempt
  \/ \E a \in Attempts : program_ends(a)

Spec == Init /\ [][Next]_vars

(* The thread of the executor goes on: every call to Docker has a timeout. *)
(* Nothing makes a program end.                                            *)
FairSpec == Spec /\ WF_vars(ExecutorStep)

--------------------------------------------------------------------------------
Leaks(a) ==
  LET One(left) == IF left THEN 1 ELSE 0
  IN  One(container[a] \notin {"none", "removed"}) + One(input = a)

(* On every path out of execute_container the finally block runs, and each *)
(* part of it runs although another failed: what an attempt that returned  *)
(* leaves behind, a container or the input file, costs a failed call each. *)
LeaksAreAccountedFor ==
  \A a \in Attempts : res[a] # None => Leaks(a) <= failures[a]

(* A timeout is enforced: after an attempt ended as TIMEOUT its program    *)
(* does not run any more, even if one call (the kill, or the removal)      *)
(* failed.                                                                 *)
TimeoutStopsProgram ==
  \A a \in Attempts :
    res[a] # None /\ failures[a] <= 1 =>
      (res[a].status = "TIMEOUT" => container[a] # "running")

(* The log and the result that the API serves, those of the last attempt,  *)
(* were written by that attempt, although all attempts share the files.    *)
ServedOutputIsOwn ==
  res[attempt] # None =>
    /\ res[attempt].has_logs => logs = attempt
    /\ res[attempt].has_result => result_file = attempt

(* The status tells what the program did.  SUCCEEDED: it returned a result *)
(* and exited with 0; FAILED, with no failed call: it did not, or it met   *)
(* its memory limit.                                                       *)
OutcomeIsFaithful ==
  \A a \in Attempts : res[a] # None /\ program[a] # None =>
    LET good == program[a].out \in {"result", "large_result"} /\ program[a].code = 0
    IN  /\ res[a].status = "SUCCEEDED" =>
             /\ good
             /\ res[a].has_result = (program[a].out = "large_result")
             /\ program[a].oom => failures[a] > 0
        /\ res[a].status = "FAILED" /\ failures[a] = 0 =>
             ~good \/ program[a].oom

(* The envelope names an error that the retry policy takes for one of the  *)
(* platform, or none, which is read as RuntimeError.                       *)
AsksForRetry(p) ==
  \/ p.out = "no_error_type"
  \/ p.out = "error" /\ p.error \in RETRYABLE_ERROR_TYPES

(* Work is not done twice for nothing: a timeout is never tried again, and *)
(* a program that has run to its end in an attempt without a failed call   *)
(* is only run again if its envelope asks for that: not when it met its    *)
(* memory limit, left no envelope or a broken one, or exited with an error.*)
RerunHasCause ==
  \A a \in 1..(attempt - 1) : res[a] # None =>
    /\ res[a].status = "FAILED"
    /\ failures[a] = 0 /\ program[a] # None =>
         AsksForRetry(program[a]) /\ ~program[a].oom

(* What the design promises: an exception of the user's code, which the    *)
(* runner reports in an envelope and with exit code 1, is not retried.     *)
UserErrorsAreNotRetried ==
  \A a \in 1..(attempt - 1) :
    ~ /\ program[a] # None
      /\ program[a].out = "error" /\ program[a].code = 1 /\ ~program[a].oom
      /\ failures[a] = 0

(* execute returns, or the worker dies: no program, however long it runs,  *)
(* and no failed call keeps the task of the worker from going on.          *)
ExecutionEnds ==
  step = "execute" ~> step \in {"done", "crashed"}

--------------------------------------------------------------------------------
(* The inductive invariant from which RuntimeProofs derives the invariants *)
(* above.                                                                  *)
RuntimeTypeOK ==
  /\ attempt \in Attempts
  /\ step \in {"execute", "prepare", "run", "wait", "stderr", "inspect", "stdout",
               "kill", "timeout_logs", "remove_container", "remove_input",
               "done", "crashed"}
  /\ container \in [Attempts -> {"none", "created", "running", "exited", "removed"}]
  /\ program \in [Attempts -> Ending \cup {None}]
  /\ logs_ref \in BOOLEAN
  /\ pending \in Result \cup {None}
  /\ res \in [Attempts -> Result \cup {None}]
  /\ input \in Attempts \cup {None}
  /\ logs \in Attempts \cup {None}
  /\ result_file \in Attempts \cup {None}
  /\ failures \in [Attempts -> Nat]

Good(p) == p.out \in {"result", "large_result"} /\ p.code = 0

(* What the result r of attempt a says about its program, in a form that   *)
(* no program that ends later can refute.                                  *)
Explains(a, r) ==
  /\ r.status = "SUCCEEDED" =>
       /\ program[a] # None
       /\ Good(program[a])
       /\ r.has_result = (program[a].out = "large_result")
       /\ program[a].oom => failures[a] > 0
  /\ r.status = "FAILED" /\ failures[a] = 0 =>
       /\ container[a] # "running"
       /\ program[a] # None =>
            /\ ~Good(program[a]) \/ program[a].oom
            /\ r.error \in RETRYABLE_ERROR_TYPES =>
                 AsksForRetry(program[a]) /\ ~program[a].oom

(* The files that r refers to are those of the attempt that runs. *)
RefersToOwn(r) ==
  /\ r.has_logs => logs = attempt
  /\ r.has_result => result_file = attempt

(* An attempt that returned is settled: its result explains what happened, *)
(* and what it left behind cost failed calls.                              *)
Settled(a) ==
  /\ container[a] \in {"none", "running"} => program[a] = None
  /\ res[a] # None =>
       /\ Explains(a, res[a])
       /\ res[a].status = "TIMEOUT" /\ container[a] = "running" => failures[a] >= 2
       /\ Leaks(a) <= failures[a]

(* No attempt after the current one has begun, and none before it has a    *)
(* result that is final.                                                   *)
InOrder(a) ==
  /\ a > attempt =>
       container[a] = "none" /\ res[a] = None /\ failures[a] = 0 /\ input # a
  /\ a < attempt /\ res[a] # None => is_retryable_execution_result(res[a])

(* How far the container, the input and the failures of the current        *)
(* attempt have come at each step of it.                                   *)
StepState ==
  LET failed == failures[attempt]
      state == container[attempt]
  IN  /\ step \in {"execute", "prepare"} => input # attempt
      /\ step \in {"execute", "prepare", "run"} => state = "none" /\ failed = 0
      /\ step = "wait" => state \in {"running", "exited"} /\ failed = 0
      /\ step = "wait" /\ state = "exited" => program[attempt] # None
      /\ step = "kill" => state \in {"running", "exited"} /\ failed = 0
      /\ step \in {"stderr", "inspect", "stdout"} =>
           state = "exited" /\ program[attempt] # None
      /\ step \in {"stderr", "inspect"} => failed = 0
      /\ step = "stdout" /\ failed = 0 => ~program[attempt].oom
      /\ step = "timeout_logs" => state = "exited" \/ failed >= 1
      /\ step = "remove_input" => state \in {"none", "removed"} \/ failed >= 1

(* The result on its way through the finally block, and the one returned. *)
ResultState ==
  /\ res[attempt] # None <=> step = "done"
  /\ pending # None <=> step \in {"remove_container", "remove_input"}
  /\ logs_ref => logs = attempt
  /\ pending # None =>
       /\ Explains(attempt, pending)
       /\ RefersToOwn(pending)
       /\ pending.status = "TIMEOUT" /\ container[attempt] = "running" =>
            failures[attempt] >= (IF step = "remove_input" THEN 2 ELSE 1)
  /\ res[attempt] # None => RefersToOwn(res[attempt])

RuntimeInvariant ==
  /\ RuntimeTypeOK
  /\ \A a \in Attempts : Settled(a) /\ InOrder(a)
  /\ StepState
  /\ ResultState
================================================================================
