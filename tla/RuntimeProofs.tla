------------------------------ MODULE RuntimeProofs ------------------------------
(***************************************************************************)
(* RuntimeInvariant is inductive, for every number of attempts and of      *)
(* failed calls; the invariants of RuntimeExecutor follow from it.         *)
(***************************************************************************)
EXTENDS RuntimeExecutor, TLAPS

USE SMTT(15), ZenonT(20), SMTT(30), Z3T(30)

(* A step of the executor leaves the other attempts as they are. *)
OnlyCurrent ==
  /\ attempt' = attempt
  /\ \A a \in Attempts : a # attempt =>
       /\ container'[a] = container[a] /\ program'[a] = program[a]
       /\ res'[a] = res[a] /\ failures'[a] = failures[a]
       /\ input' = a => input = a

(* So they stay settled and in order, and only the current one is left to  *)
(* look at.                                                                *)
LEMMA OthersKept ==
  ASSUME RuntimeInvariant, RuntimeTypeOK', OnlyCurrent,
         Settled(attempt)', StepState', ResultState'
  PROVE  RuntimeInvariant'
<1>1. ASSUME NEW a \in Attempts, a # attempt
      PROVE  Settled(a)' /\ InOrder(a)'
  <2>0. Settled(a) /\ InOrder(a) /\ a # attempt' /\ attempt' = attempt
    BY <1>1 DEF RuntimeInvariant, OnlyCurrent
  <2>1. /\ container'[a] = container[a] /\ program'[a] = program[a]
        /\ res'[a] = res[a] /\ failures'[a] = failures[a]
        /\ input' = a => input = a
    BY <1>1 DEF OnlyCurrent
  <2>2. failures[a] \in Nat
    BY <1>1 DEF RuntimeInvariant, RuntimeTypeOK
  <2>3. Leaks(a)' <= Leaks(a)
    BY <2>1 DEF Leaks
  <2>4. Settled(a)'
    BY <2>0, <2>1, <2>2, <2>3 DEF Settled, Explains, Leaks
  <2>5. InOrder(a)'
    BY <2>0, <2>1 DEF InOrder
  <2> QED BY <2>4, <2>5
<1>2. InOrder(attempt)' /\ attempt' \in Attempts
  BY DEF RuntimeTypeOK, InOrder, Attempts
<1> QED BY <1>1, <1>2 DEF RuntimeInvariant, OnlyCurrent

(* The invariant, taken apart for the current attempt. *)
LEMMA CurrentFacts ==
  ASSUME RuntimeInvariant
  PROVE  RuntimeTypeOK /\ StepState /\ ResultState /\ Settled(attempt)
BY DEF RuntimeInvariant, RuntimeTypeOK

--------------------------------------------------------------------------------
(* The effects that the steps of the executor are put together from.       *)
Counts(n) ==
  /\ failures' \in [Attempts -> Nat]
  /\ failures'[attempt] = failures[attempt] + n
  /\ \A a \in Attempts : a # attempt => failures'[a] = failures[a]

Stands(c) ==
  /\ container' \in [Attempts -> {"none", "created", "running", "exited", "removed"}]
  /\ container'[attempt] = c
  /\ \A a \in Attempts : a # attempt => container'[a] = container[a]
  /\ program' = program

(* A failed call is counted for the attempt that made it; others are not. *)
LEMMA FaultCounts ==
  ASSUME RuntimeTypeOK, Fault
  PROVE  Counts(1)
BY DEF RuntimeTypeOK, Fault, Counts

(* A call that succeeds is not counted. *)
LEMMA FineCounts ==
  ASSUME RuntimeTypeOK, Fine
  PROVE  Counts(0)
BY DEF RuntimeTypeOK, Fine, Counts

(* SetContainer changes the container of the attempt, and no other. *)
LEMMA ContainerStands ==
  ASSUME RuntimeTypeOK, NEW c \in {"none", "created", "running", "exited", "removed"},
         SetContainer(c)
  PROVE  Stands(c)
BY DEF RuntimeTypeOK, SetContainer, Stands

(* A step that leaves Docker alone leaves the container as it was. *)
LEMMA ContainerKept ==
  ASSUME RuntimeTypeOK, UNCHANGED docker
  PROVE  Stands(container[attempt])
BY DEF RuntimeTypeOK, docker, Stands

(* While no result is on its way, an attempt goes on from step to step.    *)
LEMMA GotoKeeps ==
  ASSUME RuntimeInvariant,
         step \notin {"done", "remove_container", "remove_input"},
         NEW s \in {"prepare", "run", "wait", "stderr", "inspect", "stdout",
                    "kill", "timeout_logs"},
         Goto(s),
         NEW n \in {0, 1}, Counts(n),
         NEW c, Stands(c), c \in {"none", "running"} => program[attempt] = None,
         input' \in {input, attempt}, logs' \in {logs, attempt},
         logs_ref' \in BOOLEAN, logs_ref' => logs' = attempt,
         result_file' = result_file,
         StepState'
  PROVE  RuntimeInvariant'
<1>0. RuntimeTypeOK /\ StepState /\ ResultState
  BY CurrentFacts
<1>1. RuntimeTypeOK'
  BY <1>0 DEF RuntimeTypeOK, Goto, Counts, Stands
<1>2. OnlyCurrent
  BY <1>0 DEF RuntimeTypeOK, OnlyCurrent, Goto, Counts, Stands
<1>3. res'[attempt'] = None /\ pending' = None /\ step' # "done"
      /\ step' \notin {"remove_container", "remove_input"}
  BY <1>0 DEF ResultState, Goto
<1>4. ResultState'
  BY <1>3, <1>2 DEF ResultState, OnlyCurrent
<1>5. Settled(attempt)'
  BY <1>3, <1>2 DEF Settled, OnlyCurrent, Stands
<1> QED BY <1>1, <1>2, <1>4, <1>5, OthersKept

(* A result that is returned goes through the finally block first. *)
LEMMA ReturnKeeps ==
  ASSUME RuntimeInvariant, step # "done",
         NEW s \in {"remove_container", "remove_input"},
         NEW r \in Result, Return(s, r),
         NEW n \in {0, 1}, Counts(n),
         NEW c, Stands(c), c \in {"none", "running"} => program[attempt] = None,
         input' = input, logs' \in {logs, attempt},
         logs_ref' \in BOOLEAN, logs_ref' => logs' = attempt,
         result_file' \in {result_file, attempt},
         s = "remove_input" => c \in {"none", "removed"} \/ failures'[attempt] >= 1,
         Explains(attempt, r)', RefersToOwn(r)',
         r.status = "TIMEOUT" /\ c = "running" =>
           failures'[attempt] >= (IF s = "remove_input" THEN 2 ELSE 1)
  PROVE  RuntimeInvariant'
<1>0. RuntimeTypeOK /\ StepState /\ ResultState
  BY CurrentFacts
<1>1. RuntimeTypeOK'
  BY <1>0 DEF RuntimeTypeOK, Return, Counts, Stands
<1>2. OnlyCurrent
  BY <1>0 DEF RuntimeTypeOK, OnlyCurrent, Return, Counts, Stands
<1>3. /\ attempt' = attempt /\ step' = s /\ pending' = r /\ r # None
      /\ res'[attempt'] = None /\ container'[attempt'] = c
  BY <1>0, RuntimeAssumption DEF ResultState, Return, Stands
<1>4. ResultState'
  BY <1>3 DEF ResultState
<1>5. Settled(attempt)'
  BY <1>3 DEF Settled, Stands
<1>6. StepState'
  BY <1>3 DEF StepState
<1> QED BY <1>1, <1>2, <1>4, <1>5, <1>6, OthersKept

(* An attempt ends with a result. *)
LEMMA FinishKeeps ==
  ASSUME RuntimeInvariant, step # "done",
         NEW r \in Result, Finish(r),
         NEW n \in {0, 1}, Counts(n),
         UNCHANGED docker, input' \in {input, attempt, None},
         UNCHANGED <<logs, logs_ref, result_file>>,
         Explains(attempt, r)', RefersToOwn(r)',
         r.status = "TIMEOUT" /\ container[attempt] = "running" => failures'[attempt] >= 2,
         Leaks(attempt)' <= failures'[attempt]
  PROVE  RuntimeInvariant'
<1>0. RuntimeTypeOK /\ ResultState /\ Settled(attempt) /\ Stands(container[attempt])
  BY CurrentFacts, ContainerKept
<1>1. /\ res' \in [Attempts -> Result \cup {None}]
      /\ res'[attempt] = r
      /\ \A a \in Attempts : a # attempt => res'[a] = res[a]
  BY <1>0 DEF RuntimeTypeOK, Finish
<1>2. RuntimeTypeOK'
  BY <1>0, <1>1 DEF RuntimeTypeOK, Finish, Counts, Stands
<1>3. OnlyCurrent
  BY <1>0, <1>1, RuntimeAssumption DEF RuntimeTypeOK, OnlyCurrent, Finish, Counts, Stands
<1>4. /\ attempt' = attempt /\ step' = "done" /\ pending' = None /\ r # None
      /\ res'[attempt'] = r /\ container'[attempt'] = container[attempt]
      /\ program' = program /\ logs' = logs /\ logs_ref' = logs_ref
  BY <1>0, <1>1, RuntimeAssumption DEF Finish, Stands
<1>5. ResultState'
  BY <1>0, <1>4 DEF ResultState
<1>6. Settled(attempt)'
  BY <1>0, <1>4 DEF Settled
<1>7. StepState'
  BY <1>4 DEF StepState
<1> QED BY <1>2, <1>3, <1>5, <1>6, <1>7, OthersKept

--------------------------------------------------------------------------------
(* What the constructors of results, and the parser of the output, return. *)
IsResult(r, status, error, ref) ==
  /\ r \in Result
  /\ r.status = status /\ r.error = error
  /\ r.has_logs = ref /\ r.has_result = FALSE

(* What Failed builds. *)
LEMMA FailedIs ==
  ASSUME NEW error \in ErrorTypes, NEW ref \in BOOLEAN
  PROVE  IsResult(Failed(error, ref), "FAILED", error, ref)
<1>1. Failed(error, ref) \in Result
  BY DEF Failed, Result
<1> QED BY <1>1 DEF IsResult, Failed

(* What TimedOut builds. *)
LEMMA TimedOutIs ==
  ASSUME NEW ref \in BOOLEAN
  PROVE  IsResult(TimedOut(ref), "TIMEOUT", "TimeoutError", ref)
<1>1. TimedOut(ref) \in Result
  BY DEF TimedOut, Result
<1> QED BY <1>1 DEF IsResult, TimedOut

(* The parser succeeds on a result with exit code 0 and on nothing else,   *)
(* and what it gives a retryable name the program gave it, or gave none.   *)
LEMMA ParsedIs ==
  ASSUME NEW p \in Ending, NEW ref \in BOOLEAN
  PROVE  LET r == parse_runtime_output(p, ref) IN
         /\ r \in Result
         /\ r.has_logs = ref
         /\ Good(p) => r.status = "SUCCEEDED" /\ r.has_result = (p.out = "large_result")
         /\ ~Good(p) => r.status = "FAILED" /\ r.has_result = FALSE
         /\ ~Good(p) /\ r.error \in RETRYABLE_ERROR_TYPES => AsksForRetry(p)
<1> DEFINE r == parse_runtime_output(p, ref)
<1>1. /\ p.out \in {"result", "large_result", "nothing", "garbled", "no_ok",
                    "no_error_type", "error"}
      /\ p.out = "error" => p.error \in ReportedErrors
      /\ p.code \in {0, 1}
  BY DEF Ending
<1>2. CASE Good(p)
  <2>1. r = Succeeded(ref, p.out = "large_result")
    BY <1>1, <1>2 DEF parse_runtime_output, Good
  <2>2. Succeeded(ref, p.out = "large_result") \in Result
    BY DEF Succeeded, Result
  <2>3. /\ r \in Result /\ r.has_logs = ref /\ r.status = "SUCCEEDED"
        /\ r.has_result = (p.out = "large_result")
    BY <2>1, <2>2 DEF Succeeded
  <2> QED BY <1>2, <2>3
<1>3. CASE ~Good(p)
  <2>1. PICK e \in ErrorTypes :
          /\ r = Failed(e, ref)
          /\ e \in RETRYABLE_ERROR_TYPES => AsksForRetry(p)
    <3>1. CASE p.out = "error"
      BY <1>1, <3>1 DEF parse_runtime_output, ErrorTypes, AsksForRetry
    <3>2. CASE p.out \in {"nothing", "garbled"}
      BY <3>2 DEF parse_runtime_output, ErrorTypes, RETRYABLE_ERROR_TYPES
    <3>3. CASE p.out = "no_error_type"
      BY <3>3 DEF parse_runtime_output, ErrorTypes, AsksForRetry
    <3>4. CASE p.out \in {"no_ok", "result", "large_result"}
      BY <1>1, <1>3, <3>4
         DEF parse_runtime_output, Good, ErrorTypes, RETRYABLE_ERROR_TYPES
    <3> QED BY <1>1, <3>1, <3>2, <3>3, <3>4
  <2>2. IsResult(r, "FAILED", e, ref)
    BY <2>1, FailedIs, ZenonT(60)
  <2> QED BY <1>3, <2>1, <2>2 DEF IsResult
<1> QED BY <1>2, <1>3, ZenonT(60)

(* A failed call explains a failure, and a timeout needs no explanation. *)
LEMMA FaultExplains ==
  ASSUME attempt' = attempt, NEW r, r.status = "FAILED", failures'[attempt] # 0
  PROVE  Explains(attempt, r)'
BY DEF Explains

(* A timeout result needs no program outcome to explain it. *)
LEMMA TimeoutExplains ==
  ASSUME NEW r, r.status = "TIMEOUT"
  PROVE  Explains(attempt, r)'
BY DEF Explains

--------------------------------------------------------------------------------
(* Every action keeps the invariant. *)

(* execute validates the input before anything exists to clean up. *)
LEMMA ExecuteStep ==
  ASSUME RuntimeInvariant, execute
  PROVE  RuntimeInvariant'
<1>0. RuntimeTypeOK /\ StepState /\ step = "execute" /\ UNCHANGED <<docker, files>>
  BY CurrentFacts DEF execute
<1>1. /\ container[attempt] = "none" /\ failures[attempt] = 0 /\ input # attempt
      /\ program' = program /\ container' = container /\ input' = input
      /\ logs' = logs /\ logs_ref' = logs_ref /\ result_file' = result_file
      /\ UNCHANGED docker /\ UNCHANGED <<logs, logs_ref, result_file>>
  BY <1>0 DEF StepState, docker, files
<1>2. ASSUME NEW r, r \in Result, Finish(r), NEW n \in {0, 1}, Counts(n),
             r.has_logs = FALSE, r.has_result = FALSE, Explains(attempt, r)'
      PROVE  RuntimeInvariant'
  <2>1. attempt' = attempt /\ failures'[attempt] = n
    BY <1>1, <1>2 DEF Finish, Counts
  <2>2. Leaks(attempt)' <= failures'[attempt]
    BY <1>1, <1>2, <2>1 DEF Leaks
  <2>3. RefersToOwn(r)'
    BY <1>2 DEF RefersToOwn
  <2> QED BY <1>0, <1>1, <1>2, <2>2, <2>3, FinishKeeps
<1>3. CASE Finish(TimedOut(FALSE)) /\ Fine
  BY <1>0, <1>2, <1>3, FineCounts, TimedOutIs, TimeoutExplains, ZenonT(60) DEF IsResult
<1>4. CASE Finish(Failed("OperationalError", FALSE)) /\ Fault
  <2>1. Counts(1) /\ attempt' = attempt /\ failures'[attempt] # 0
    BY <1>0, <1>1, <1>4, FaultCounts DEF Finish, Counts
  <2>2. IsResult(Failed("OperationalError", FALSE), "FAILED", "OperationalError", FALSE)
    BY FailedIs, ZenonT(60) DEF ErrorTypes
  <2> QED BY <1>2, <1>4, <2>1, <2>2, FaultExplains, ZenonT(60) DEF IsResult
<1>5. CASE Finish(Failed("RuntimeInvocationNotFoundError", FALSE)) /\ Fine
  <2> DEFINE r == Failed("RuntimeInvocationNotFoundError", FALSE)
  <2>1. Counts(0) /\ attempt' = attempt /\ program[attempt] = None
    BY <1>0, <1>1, <1>5, FineCounts, CurrentFacts DEF Finish, Settled
  <2>2. IsResult(r, "FAILED", "RuntimeInvocationNotFoundError", FALSE)
    BY FailedIs, ZenonT(60) DEF ErrorTypes
  <2>3. r.status = "FAILED"
    BY <2>2 DEF IsResult
  <2> HIDE DEF r
  <2>4. Explains(attempt, r)'
    BY <1>1, <2>1, <2>3 DEF Explains
  <2> QED BY <1>2, <1>5, <2>1, <2>2, <2>4, ZenonT(60) DEF IsResult, r
<1>6. CASE Goto("prepare") /\ Fine
  <2>1. Counts(0) /\ Stands(container[attempt]) /\ program[attempt] = None
    BY <1>0, <1>1, <1>6, FineCounts, ContainerKept, CurrentFacts DEF Settled
  <2>2. StepState'
    BY <1>1, <1>6, <2>1 DEF StepState, Goto, Fine
  <2>3. logs_ref' \in BOOLEAN /\ (logs_ref' => logs' = attempt)
    BY <1>0, <1>1, CurrentFacts DEF RuntimeTypeOK, ResultState
  <2> QED BY <1>0, <1>1, <1>6, <2>1, <2>2, <2>3, GotoKeeps
<1> QED BY <1>3, <1>4, <1>5, <1>6, ZenonT(60) DEF execute

(* Writing the input file, or failing to, leaves at most that file. *)
LEMMA WriteInputStep ==
  ASSUME RuntimeInvariant, write_runtime_input
  PROVE  RuntimeInvariant'
<1>0. /\ RuntimeTypeOK /\ StepState /\ step = "prepare"
      /\ UNCHANGED docker /\ UNCHANGED <<logs, logs_ref, result_file>>
  BY CurrentFacts DEF write_runtime_input, docker
<1>1. /\ container[attempt] = "none" /\ failures[attempt] = 0 /\ input # attempt
      /\ program' = program /\ container' = container
      /\ logs' = logs /\ logs_ref' = logs_ref /\ result_file' = result_file
      /\ program[attempt] = None
  BY <1>0, CurrentFacts DEF StepState, docker, Settled
<1>2. ASSUME NEW error \in ErrorTypes, Finish(Failed(error, FALSE)),
             NEW n \in {0, 1}, Counts(n),
             input' \in {input, attempt}, n = 0 => input' = input
      PROVE  RuntimeInvariant'
  <2>1. attempt' = attempt /\ failures'[attempt] = n
    BY <1>1, <1>2 DEF Finish, Counts
  <2>2. Leaks(attempt)' <= failures'[attempt]
    BY <1>1, <1>2, <2>1 DEF Leaks
  <2>3. IsResult(Failed(error, FALSE), "FAILED", error, FALSE)
    BY FailedIs, ZenonT(60)
  <2>4. RefersToOwn(Failed(error, FALSE))'
    BY <2>3, ZenonT(60) DEF IsResult, RefersToOwn
  <2>5. Explains(attempt, Failed(error, FALSE))'
    BY <1>1, <2>1, <2>3, ZenonT(60) DEF Explains, IsResult
  <2> QED BY <1>0, <1>1, <1>2, <2>2, <2>3, <2>4, <2>5, FinishKeeps, ZenonT(60) DEF IsResult
<1>3. CASE Finish(Failed("DockerException", FALSE)) /\ Fault /\ UNCHANGED input
  BY <1>0, <1>2, <1>3, FaultCounts DEF ErrorTypes
<1>4. CASE Finish(Failed("FileNotFoundError", FALSE)) /\ Fine /\ UNCHANGED input
  BY <1>0, <1>2, <1>4, FineCounts DEF ErrorTypes
<1>5. CASE Finish(Failed("OSError", FALSE)) /\ Fault /\ input' \in {input, attempt}
  <2>1. Counts(1) /\ "OSError" \in ErrorTypes
    BY <1>0, <1>5, FaultCounts DEF ErrorTypes
  <2>2. 1 \in {0, 1} /\ (1 = 0 => input' = input)
    OBVIOUS
  <2> QED BY <1>2, <1>5, <2>1, <2>2, ZenonT(60)
<1>6. CASE Goto("run") /\ Fine /\ input' = attempt
  <2>1. Counts(0) /\ Stands(container[attempt])
    BY <1>0, <1>6, FineCounts, ContainerKept
  <2>2. StepState'
    BY <1>1, <1>6 DEF StepState, Goto, Fine
  <2>3. logs_ref' \in BOOLEAN /\ (logs_ref' => logs' = attempt)
    BY <1>0, <1>1, CurrentFacts DEF RuntimeTypeOK, ResultState
  <2> QED BY <1>0, <1>1, <1>6, <2>1, <2>2, <2>3, GotoKeeps
<1> QED BY <1>3, <1>4, <1>5, <1>6, ZenonT(60) DEF write_runtime_input

(* A call to Docker fails: the failure is counted, refers to no file, and  *)
(* goes through the finally block.                                         *)
LEMMA ApiErrorKeeps ==
  ASSUME RuntimeInvariant, step # "done",
         NEW s \in {"remove_container", "remove_input"},
         Return(s, Failed("APIError", FALSE)), Fault,
         NEW c, Stands(c), c \in {"none", "running"} => program[attempt] = None,
         UNCHANGED files
  PROVE  RuntimeInvariant'
<1> DEFINE r == Failed("APIError", FALSE)
<1>0. RuntimeTypeOK /\ ResultState /\ Counts(1)
  BY CurrentFacts, FaultCounts
<1>1. IsResult(r, "FAILED", "APIError", FALSE)
  BY FailedIs, ZenonT(60) DEF ErrorTypes
<1>2. /\ attempt' = attempt /\ failures'[attempt] >= 1 /\ failures'[attempt] # 0
      /\ input' = input /\ logs' = logs /\ logs_ref' = logs_ref
      /\ result_file' = result_file
  BY <1>0 DEF Return, Counts, RuntimeTypeOK, files
<1>3. logs_ref' \in BOOLEAN /\ (logs_ref' => logs' = attempt)
  BY <1>0, <1>2 DEF RuntimeTypeOK, ResultState
<1>4. Explains(attempt, r)' /\ RefersToOwn(r)'
  BY <1>1, <1>2, FaultExplains, ZenonT(60) DEF IsResult, RefersToOwn
<1> QED BY <1>0, <1>1, <1>2, <1>3, <1>4, ReturnKeeps, ZenonT(60) DEF IsResult

(* A container that does not start is still to be removed, or counted. *)
LEMMA RunContainerStep ==
  ASSUME RuntimeInvariant, run_container
  PROVE  RuntimeInvariant'
<1>0. /\ RuntimeTypeOK /\ StepState /\ step = "run" /\ UNCHANGED files
  BY CurrentFacts DEF run_container
<1>1. /\ failures[attempt] = 0 /\ program[attempt] = None
      /\ input' = input /\ logs' = logs /\ logs_ref' = logs_ref
      /\ result_file' = result_file
  BY <1>0, CurrentFacts DEF StepState, Settled, files
<1>2. CASE Goto("wait") /\ Fine /\ SetContainer("running")
  <2>1. Counts(0) /\ Stands("running")
    BY <1>0, <1>2, FineCounts, ContainerStands
  <2>2. StepState'
    BY <1>1, <1>2, <2>1 DEF StepState, Goto, Fine, Stands
  <2>3. logs_ref' \in BOOLEAN /\ (logs_ref' => logs' = attempt)
    BY <1>0, <1>1, CurrentFacts DEF RuntimeTypeOK, ResultState
  <2> QED BY <1>0, <1>1, <1>2, <2>1, <2>2, <2>3, GotoKeeps
<1>3. ASSUME Return("remove_input", Failed("APIError", FALSE)), Fault,
             NEW c \in {"none", "created", "running"}, SetContainer(c)
      PROVE  RuntimeInvariant'
  BY <1>0, <1>1, <1>3, ContainerStands, ApiErrorKeeps
<1> QED BY <1>2, <1>3, ZenonT(60) DEF run_container

(* wait tells an exit from a timeout and from a lost call. *)
LEMMA WaitStep ==
  ASSUME RuntimeInvariant, wait
  PROVE  RuntimeInvariant'
<1>0. /\ RuntimeTypeOK /\ StepState /\ step = "wait"
      /\ UNCHANGED docker /\ UNCHANGED files
  BY CurrentFacts DEF wait, docker, files
<1>1. /\ failures[attempt] = 0 /\ container[attempt] \in {"running", "exited"}
      /\ container[attempt] = "exited" => program[attempt] # None
      /\ container' = container /\ program' = program
      /\ input' = input /\ logs' = logs /\ logs_ref' = logs_ref
      /\ result_file' = result_file
  BY <1>0 DEF StepState, files, docker
<1>2. /\ Stands(container[attempt])
      /\ container[attempt] \in {"none", "running"} => program[attempt] = None
  BY <1>0, ContainerKept, CurrentFacts DEF Settled
<1>3. ASSUME NEW s \in {"stderr", "kill"}, Goto(s), Fine,
             s = "stderr" => container[attempt] = "exited"
      PROVE  RuntimeInvariant'
  <2>1. Counts(0)
    BY <1>0, <1>3, FineCounts
  <2>2. StepState'
    BY <1>1, <1>3 DEF StepState, Goto, Fine
  <2>3. logs_ref' \in BOOLEAN /\ (logs_ref' => logs' = attempt)
    BY <1>0, <1>1, CurrentFacts DEF RuntimeTypeOK, ResultState
  <2> QED BY <1>0, <1>1, <1>2, <1>3, <2>1, <2>2, <2>3, GotoKeeps
<1>4. CASE Return("remove_container", Failed("APIError", FALSE)) /\ Fault
  BY <1>0, <1>2, <1>4, ApiErrorKeeps
<1> QED BY <1>3, <1>4, ZenonT(60) DEF wait

(* The endings of programs have the fields that the executor looks at. *)
LEMMA EndingIs ==
  ASSUME RuntimeTypeOK, program[attempt] # None
  PROVE  /\ program[attempt] \in Ending
         /\ program[attempt].stderr \in BOOLEAN
         /\ program[attempt].oom \in BOOLEAN
<1>1. program[attempt] \in Ending
  BY DEF RuntimeTypeOK
<1> QED BY <1>1, ZenonT(60) DEF Ending

(* The stored logs become those of the current attempt. *)
LEMMA ReadStderrStep ==
  ASSUME RuntimeInvariant, read_stderr
  PROVE  RuntimeInvariant'
<1>0. /\ RuntimeTypeOK /\ StepState /\ step = "stderr"
      /\ UNCHANGED docker /\ input' = input /\ result_file' = result_file
  BY CurrentFacts DEF read_stderr, docker
<1>1. /\ failures[attempt] = 0 /\ container[attempt] = "exited"
      /\ program[attempt] # None
      /\ container' = container /\ program' = program
  BY <1>0 DEF StepState, docker
<1>2. Stands(container[attempt])
  BY <1>0, ContainerKept
<1>3. CASE /\ Return("remove_container", Failed("APIError", FALSE)) /\ Fault
           /\ UNCHANGED <<logs, logs_ref>>
  BY <1>0, <1>1, <1>2, <1>3, ApiErrorKeeps DEF files
<1>4. CASE Goto("inspect") /\ write_logs(program[attempt].stderr) /\ Fine
  <2>1. Counts(0)
    BY <1>0, <1>4, FineCounts
  <2>2. StepState'
    BY <1>0, <1>1, <1>4 DEF StepState, Goto, Fine
  <2>3. /\ logs' \in {logs, attempt}
        /\ logs_ref' \in BOOLEAN /\ (logs_ref' => logs' = attempt)
    BY <1>0, <1>1, <1>4, EndingIs DEF write_logs
  <2> QED BY <1>0, <1>1, <1>2, <1>4, <2>1, <2>2, <2>3, GotoKeeps
<1> QED BY <1>3, <1>4, ZenonT(60) DEF read_stderr

(* An exit code other than 0 is a failure, of memory or of the program. *)
LEMMA OomStep ==
  ASSUME RuntimeInvariant, was_oom_killed
  PROVE  RuntimeInvariant'
<1>0. /\ RuntimeTypeOK /\ StepState /\ ResultState /\ step = "inspect"
      /\ UNCHANGED docker /\ UNCHANGED files
  BY CurrentFacts DEF was_oom_killed, docker, files
<1>1. /\ failures[attempt] = 0 /\ container[attempt] = "exited"
      /\ program[attempt] # None /\ program[attempt].oom \in BOOLEAN
      /\ container' = container /\ program' = program
      /\ input' = input /\ logs' = logs /\ logs_ref' = logs_ref
      /\ result_file' = result_file
  BY <1>0, EndingIs DEF StepState, docker, files
<1>2. /\ Stands(container[attempt])
      /\ logs_ref' \in BOOLEAN /\ (logs_ref' => logs' = attempt)
  BY <1>0, <1>1, ContainerKept DEF RuntimeTypeOK, ResultState
<1>3. CASE /\ program[attempt].oom /\ Fine
           /\ Return("remove_container", Failed("MemoryLimitExceeded", logs_ref))
  <2>1. PICK ref \in BOOLEAN : ref = logs_ref
    BY <1>0 DEF RuntimeTypeOK
  <2> DEFINE r == Failed("MemoryLimitExceeded", ref)
  <2>2. IsResult(r, "FAILED", "MemoryLimitExceeded", ref)
    BY FailedIs DEF ErrorTypes
  <2>3. Counts(0) /\ attempt' = attempt /\ Return("remove_container", r)
    BY <1>0, <1>3, <2>1, FineCounts DEF Return
  <2>4. Explains(attempt, r)'
    BY <1>1, <1>3, <2>2, <2>3 DEF Explains, IsResult, RETRYABLE_ERROR_TYPES
  <2>5. RefersToOwn(r)'
    BY <1>1, <1>2, <2>1, <2>2, <2>3 DEF RefersToOwn, IsResult
  <2> QED BY <1>0, <1>1, <1>2, <2>2, <2>3, <2>4, <2>5, ReturnKeeps DEF IsResult
<1>4. CASE ~program[attempt].oom /\ Goto("stdout") /\ Fine
  <2>1. Counts(0)
    BY <1>0, <1>4, FineCounts
  <2>2. StepState'
    BY <1>1, <1>4 DEF StepState, Goto, Fine
  <2> QED BY <1>0, <1>1, <1>2, <1>4, <2>1, <2>2, GotoKeeps
<1>5. CASE Goto("stdout") /\ Fault
  <2>1. Counts(1)
    BY <1>0, <1>5, FaultCounts
  <2>2. StepState'
    BY <1>1, <1>5, <2>1 DEF StepState, Goto, Counts
  <2> QED BY <1>0, <1>1, <1>2, <1>5, <2>1, <2>2, GotoKeeps
<1> QED BY <1>3, <1>4, <1>5 DEF was_oom_killed

(* The output is parsed and stored only after an exit with code 0. *)
LEMMA ReadStdoutStep ==
  ASSUME RuntimeInvariant, read_stdout
  PROVE  RuntimeInvariant'
<1>0. /\ RuntimeTypeOK /\ StepState /\ ResultState /\ step = "stdout"
      /\ UNCHANGED docker /\ input' = input /\ logs' = logs /\ logs_ref' = logs_ref
  BY CurrentFacts DEF read_stdout, docker
<1>1. /\ container[attempt] = "exited"
      /\ program[attempt] # None /\ program[attempt] \in Ending
      /\ failures[attempt] = 0 => ~program[attempt].oom
      /\ failures[attempt] \in Nat
      /\ container' = container /\ program' = program
  BY <1>0, EndingIs DEF StepState, docker, RuntimeTypeOK
<1>2. /\ Stands(container[attempt])
      /\ logs_ref' \in BOOLEAN /\ (logs_ref' => logs' = attempt)
  BY <1>0, <1>1, ContainerKept DEF RuntimeTypeOK, ResultState
<1>3. PICK p \in Ending, ref \in BOOLEAN : p = program[attempt] /\ ref = logs_ref
  BY <1>0, <1>1 DEF RuntimeTypeOK
<1> DEFINE r == parse_runtime_output(p, ref)
<1>4. /\ r \in Result /\ r.has_logs = ref
      /\ Good(p) => r.status = "SUCCEEDED" /\ r.has_result = (p.out = "large_result")
      /\ ~Good(p) => r.status = "FAILED" /\ r.has_result = FALSE
      /\ ~Good(p) /\ r.error \in RETRYABLE_ERROR_TYPES => AsksForRetry(p)
  BY ParsedIs, ZenonT(60)
<1>5. CASE /\ Return("remove_container", r) /\ Fine
           /\ result_file' = IF r.has_result THEN attempt ELSE result_file
  <2>1. Counts(0) /\ attempt' = attempt /\ failures' = failures
    BY <1>0, <1>5, FineCounts DEF Return, Fine
  <2>2. Explains(attempt, r)'
    BY <1>1, <1>3, <1>4, <2>1 DEF Explains
  <2>3. RefersToOwn(r)' /\ result_file' \in {result_file, attempt}
    BY <1>0, <1>2, <1>3, <1>4, <1>5, <2>1 DEF RefersToOwn
  <2>4. r.status # "TIMEOUT"
    BY <1>4
  <2> QED BY <1>0, <1>1, <1>2, <1>4, <1>5, <2>1, <2>2, <2>3, <2>4, ReturnKeeps
<1>6. CASE /\ Return("remove_container", Failed("APIError", FALSE)) /\ Fault
           /\ UNCHANGED result_file
  BY <1>0, <1>1, <1>2, <1>6, ApiErrorKeeps DEF files
<1> QED BY <1>3, <1>5, <1>6, ZenonT(60) DEF read_stdout

(* kill stops the program, or its failure is counted. *)
LEMMA KillStep ==
  ASSUME RuntimeInvariant, kill
  PROVE  RuntimeInvariant'
<1>0. /\ RuntimeTypeOK /\ StepState /\ ResultState /\ step = "kill"
      /\ Goto("timeout_logs") /\ UNCHANGED files
  BY CurrentFacts DEF kill, files
<1>1. /\ failures[attempt] = 0
      /\ input' = input /\ logs' = logs /\ logs_ref' = logs_ref
      /\ result_file' = result_file
      /\ logs_ref' \in BOOLEAN /\ (logs_ref' => logs' = attempt)
  BY <1>0 DEF StepState, files, RuntimeTypeOK, ResultState
<1>2. CASE SetContainer("exited") /\ Fine
  <2>1. Counts(0) /\ Stands("exited")
    BY <1>0, <1>2, FineCounts, ContainerStands
  <2>2. StepState'
    BY <1>0, <2>1 DEF StepState, Goto, Stands
  <2> QED BY <1>0, <1>1, <2>1, <2>2, GotoKeeps
<1>3. CASE UNCHANGED docker /\ Fault
  <2>1. /\ Counts(1) /\ Stands(container[attempt])
        /\ container[attempt] \in {"none", "running"} => program[attempt] = None
    BY <1>0, <1>3, FaultCounts, ContainerKept, CurrentFacts DEF Settled
  <2>2. StepState'
    BY <1>0, <1>1, <2>1 DEF StepState, Goto, Counts
  <2> QED BY <1>0, <1>1, <2>1, <2>2, GotoKeeps
<1> QED BY <1>2, <1>3 DEF kill

(* The timeout result refers to logs of its own attempt, or to none. *)
LEMMA TimeoutStep ==
  ASSUME RuntimeInvariant, build_timeout_result
  PROVE  RuntimeInvariant'
<1>0. /\ RuntimeTypeOK /\ StepState /\ ResultState /\ step = "timeout_logs"
      /\ UNCHANGED docker /\ input' = input /\ result_file' = result_file
  BY CurrentFacts DEF build_timeout_result, docker
<1>1. /\ container[attempt] = "exited" \/ failures[attempt] >= 1
      /\ failures[attempt] \in Nat
  BY <1>0 DEF StepState, RuntimeTypeOK
<1>2. /\ Stands(container[attempt])
      /\ container[attempt] \in {"none", "running"} => program[attempt] = None
  BY <1>0, ContainerKept, CurrentFacts DEF Settled
<1>3. ASSUME NEW ref \in BOOLEAN, Return("remove_container", TimedOut(ref)),
             NEW n \in {0, 1}, Counts(n),
             logs' \in {logs, attempt}, logs_ref' \in BOOLEAN,
             logs_ref' => logs' = attempt, ref => logs' = attempt
      PROVE  RuntimeInvariant'
  <2>1. IsResult(TimedOut(ref), "TIMEOUT", "TimeoutError", ref)
    BY TimedOutIs
  <2>2. attempt' = attempt /\ failures'[attempt] >= failures[attempt]
        /\ failures'[attempt] \in Nat
    BY <1>0, <1>1, <1>3 DEF Return, Counts
  <2>3. Explains(attempt, TimedOut(ref))'
    BY <2>1, TimeoutExplains DEF IsResult
  <2>4. RefersToOwn(TimedOut(ref))'
    BY <1>3, <2>1, <2>2 DEF RefersToOwn, IsResult
  <2>5. container[attempt] = "running" => failures'[attempt] >= 1
    BY <1>1, <2>2
  <2> QED BY <1>0, <1>2, <1>3, <2>1, <2>3, <2>4, <2>5, ReturnKeeps DEF IsResult
<1>4. ASSUME NEW stderr \in BOOLEAN, write_logs(stderr), Fine,
             Return("remove_container", TimedOut(logs_ref'))
      PROVE  RuntimeInvariant'
  <2>1. /\ logs_ref' = stderr /\ logs' \in {logs, attempt}
        /\ stderr => logs' = attempt
    BY <1>4 DEF write_logs
  <2> QED BY <1>0, <1>3, <1>4, <2>1, FineCounts
<1>5. CASE /\ Return("remove_container", TimedOut(FALSE)) /\ Fault
           /\ UNCHANGED <<logs, logs_ref>>
  <2>1. logs_ref' \in BOOLEAN /\ logs' = logs /\ (logs_ref' => logs' = attempt)
    BY <1>0, <1>5 DEF RuntimeTypeOK, ResultState
  <2> QED BY <1>0, <1>3, <1>5, <2>1, FaultCounts, ZenonT(60)
<1> QED BY <1>4, <1>5, ZenonT(60) DEF build_timeout_result

(* The container is removed, or the failure to is counted. *)
LEMMA RemoveContainerStep ==
  ASSUME RuntimeInvariant, remove_container
  PROVE  RuntimeInvariant'
<1>0. /\ RuntimeTypeOK /\ ResultState /\ step = "remove_container"
      /\ Goto("remove_input") /\ UNCHANGED files
  BY CurrentFacts DEF remove_container, files
<1>1. PICK r \in Result : r = pending
  BY <1>0 DEF RuntimeTypeOK, ResultState
<1>2. /\ Return("remove_input", r) /\ attempt' = attempt
      /\ input' = input /\ logs' = logs /\ logs_ref' = logs_ref
      /\ result_file' = result_file
      /\ logs_ref' \in BOOLEAN /\ (logs_ref' => logs' = attempt)
  BY <1>0, <1>1 DEF Goto, Return, files, RuntimeTypeOK, ResultState
<1>3. /\ Explains(attempt, r) /\ RefersToOwn(r)
      /\ r.status = "TIMEOUT" /\ container[attempt] = "running" => failures[attempt] >= 1
      /\ failures[attempt] \in Nat
      /\ container[attempt] \in {"none", "running"} => program[attempt] = None
  BY <1>0, <1>1, RuntimeAssumption, CurrentFacts DEF ResultState, RuntimeTypeOK, Settled
<1>4. RefersToOwn(r)'
  BY <1>2, <1>3 DEF RefersToOwn
<1>5. CASE SetContainer("removed") /\ Fine
  <2>1. Counts(0) /\ Stands("removed") /\ failures' = failures
    BY <1>0, <1>5, FineCounts, ContainerStands DEF Fine
  <2>2. Explains(attempt, r)'
    BY <1>2, <1>3, <2>1 DEF Explains, Stands
  <2> QED BY <1>0, <1>2, <1>4, <2>1, <2>2, ReturnKeeps
<1>6. CASE UNCHANGED docker /\ Fault
  <2>1. /\ Counts(1) /\ Stands(container[attempt])
        /\ failures'[attempt] = failures[attempt] + 1
        /\ container' = container /\ program' = program
    BY <1>0, <1>6, FaultCounts, ContainerKept DEF Counts, docker
  <2>2. Explains(attempt, r)'
    BY <1>2, <1>3, <2>1 DEF Explains
  <2>3. failures'[attempt] >= 1
    BY <1>3, <2>1
  <2>4. r.status = "TIMEOUT" /\ container[attempt] = "running" => failures'[attempt] >= 2
    BY <1>3, <2>1
  <2> QED BY <1>0, <1>2, <1>3, <1>4, <2>1, <2>2, <2>3, <2>4, ReturnKeeps
<1> QED BY <1>5, <1>6 DEF remove_container

(* The input file is removed, or the failure to is counted. *)
LEMMA RemoveInputStep ==
  ASSUME RuntimeInvariant, remove_input
  PROVE  RuntimeInvariant'
<1>0. /\ RuntimeTypeOK /\ ResultState /\ StepState /\ step = "remove_input"
      /\ UNCHANGED docker /\ UNCHANGED <<logs, logs_ref, result_file>>
  BY CurrentFacts DEF remove_input, docker
<1>1. PICK r \in Result : r = pending
  BY <1>0 DEF RuntimeTypeOK, ResultState
<1>2. /\ Finish(r) /\ attempt' = attempt
      /\ container' = container /\ program' = program
      /\ logs' = logs /\ result_file' = result_file
  BY <1>0, <1>1 DEF remove_input, Finish, docker
<1>3. /\ Explains(attempt, r) /\ RefersToOwn(r)
      /\ r.status = "TIMEOUT" /\ container[attempt] = "running" => failures[attempt] >= 2
      /\ failures[attempt] \in Nat /\ attempt # None
      /\ container[attempt] \in {"none", "removed"} \/ failures[attempt] >= 1
  BY <1>0, <1>1, RuntimeAssumption DEF ResultState, RuntimeTypeOK, StepState
<1>4. RefersToOwn(r)'
  BY <1>2, <1>3 DEF RefersToOwn
<1>5. CASE input' = None /\ Fine
  <2>1. Counts(0) /\ failures' = failures
    BY <1>0, <1>5, FineCounts DEF Fine
  <2>2. Explains(attempt, r)'
    BY <1>2, <1>3, <2>1 DEF Explains
  <2>3. Leaks(attempt)' <= failures'[attempt]
    BY <1>2, <1>3, <1>5, <2>1 DEF Leaks
  <2> QED BY <1>0, <1>2, <1>3, <1>4, <1>5, <2>1, <2>2, <2>3, FinishKeeps
<1>6. CASE UNCHANGED input /\ Fault
  <2>1. Counts(1) /\ failures'[attempt] = failures[attempt] + 1
    BY <1>0, <1>6, FaultCounts DEF Counts
  <2>2. Explains(attempt, r)'
    BY <1>2, <1>3, <2>1 DEF Explains
  <2>3. Leaks(attempt)' <= failures'[attempt]
    BY <1>2, <1>3, <1>6, <2>1 DEF Leaks
  <2>4. r.status = "TIMEOUT" /\ container[attempt] = "running" => failures'[attempt] >= 2
    BY <1>3, <2>1
  <2> QED BY <1>0, <1>2, <1>4, <1>6, <2>1, <2>2, <2>3, <2>4, FinishKeeps
<1> QED BY <1>5, <1>6 DEF remove_input

(* A worker that dies leaves what it has, and its death is counted. *)
LEMMA CrashStep ==
  ASSUME RuntimeInvariant, worker_crashes
  PROVE  RuntimeInvariant'
<1>0. /\ RuntimeTypeOK /\ ResultState /\ Settled(attempt) /\ Counts(1)
      /\ step # "done" /\ step' = "crashed" /\ pending' = None
      /\ attempt' = attempt /\ res' = res /\ container' = container /\ program' = program
      /\ input' = input /\ logs' = logs /\ logs_ref' = logs_ref /\ result_file' = result_file
  BY CurrentFacts, FaultCounts DEF worker_crashes, docker, files
<1>1. RuntimeTypeOK'
  BY <1>0 DEF RuntimeTypeOK, Counts
<1>2. OnlyCurrent
  BY <1>0 DEF OnlyCurrent, Counts
<1>3. res'[attempt'] = None
  BY <1>0 DEF ResultState
<1>4. ResultState'
  BY <1>0, <1>3 DEF ResultState
<1>5. Settled(attempt)'
  BY <1>0, <1>3 DEF Settled
<1>6. StepState'
  BY <1>0 DEF StepState
<1> QED BY <1>1, <1>2, <1>4, <1>5, <1>6, OthersKept

(* A new attempt starts with nothing of its own. *)
LEMMA NextAttemptStep ==
  ASSUME RuntimeInvariant, next_attempt
  PROVE  RuntimeInvariant'
<1>0. /\ RuntimeTypeOK /\ ResultState
      /\ attempt < max_attempts /\ attempt' = attempt + 1
      /\ step' = "execute"
      /\ container' = container /\ program' = program /\ pending' = pending
      /\ res' = res /\ input' = input /\ logs' = logs /\ result_file' = result_file
      /\ failures' = failures
      /\ \/ step = "crashed"
         \/ step = "done" /\ is_retryable_execution_result(res[attempt])
  BY CurrentFacts, ZenonT(60) DEF next_attempt, docker
<1>f. logs_ref' = FALSE
  BY DEF next_attempt
<1>1. attempt \in Attempts /\ attempt \in Nat /\ attempt + 1 \in Attempts
      /\ \A a \in Attempts : a \in Nat
  <2>1. max_attempts \in Nat /\ attempt \in Attempts /\ attempt < max_attempts
    BY <1>0, RuntimeAssumption DEF RuntimeTypeOK
  <2> QED BY <2>1 DEF Attempts
<1>2. RuntimeTypeOK'
  <2>1. attempt' \in Attempts
    BY <1>0, <1>1
  <2> QED BY <1>0, <1>f, <2>1, ZenonT(60) DEF RuntimeTypeOK
<1>3. ASSUME NEW a \in Attempts
      PROVE  Settled(a)' /\ InOrder(a)'
  <2>1. Settled(a) /\ InOrder(a)
    BY DEF RuntimeInvariant
  <2>2. Settled(a)'
    BY <1>0, <2>1 DEF Settled, Explains, Leaks
  <2>3. a = attempt /\ res[a] # None => is_retryable_execution_result(res[a])
    BY <1>0 DEF ResultState
  <2>4. InOrder(a)'
    BY <1>0, <1>1, <2>1, <2>3 DEF InOrder
  <2> QED BY <2>2, <2>4
<1>4. /\ container[attempt + 1] = "none" /\ res[attempt + 1] = None
      /\ failures[attempt + 1] = 0 /\ input # attempt + 1
  <2>1. InOrder(attempt + 1) /\ attempt + 1 > attempt
    BY <1>1 DEF RuntimeInvariant
  <2> QED BY <2>1 DEF InOrder
<1>5. StepState'
  BY <1>0, <1>4 DEF StepState
<1>6. ResultState'
  BY <1>0, <1>f, <1>4 DEF ResultState
<1> QED BY <1>2, <1>3, <1>5, <1>6 DEF RuntimeInvariant

(* A program may end at any time, left behind or waited for. *)
LEMMA ProgramEndsStep ==
  ASSUME RuntimeInvariant, NEW b \in Attempts, program_ends(b)
  PROVE  RuntimeInvariant'
<1>0. /\ RuntimeTypeOK /\ StepState /\ ResultState
      /\ container[b] = "running"
      /\ attempt' = attempt /\ step' = step /\ pending' = pending /\ res' = res
      /\ input' = input /\ logs' = logs /\ logs_ref' = logs_ref
      /\ result_file' = result_file /\ failures' = failures
      /\ attempt \in Attempts
  BY CurrentFacts DEF program_ends, files, RuntimeTypeOK
<1>1. /\ container' \in [Attempts -> {"none", "created", "running", "exited", "removed"}]
      /\ container'[b] = "exited"
      /\ \A a \in Attempts : a # b => container'[a] = container[a]
  BY <1>0 DEF RuntimeTypeOK, program_ends
<1>2. /\ program' \in [Attempts -> Ending \cup {None}]
      /\ program'[b] # None
      /\ \A a \in Attempts : a # b => program'[a] = program[a]
  <2>1. PICK p \in Ending : program' = [program EXCEPT ![b] = p]
    BY ZenonT(60) DEF program_ends
  <2>2. p # None
    BY RuntimeAssumption
  <2> QED BY <1>0, <2>1, <2>2 DEF RuntimeTypeOK
<1>3. RuntimeTypeOK'
  BY <1>0, <1>1, <1>2 DEF RuntimeTypeOK
<1>4. \A a \in Attempts : Settled(a) /\ InOrder(a)
  BY DEF RuntimeInvariant
<1>5. program[b] = None
  BY <1>0, <1>4 DEF Settled
<1>6. ASSUME NEW r, Explains(b, r)
      PROVE  Explains(b, r)'
  BY <1>0, <1>5, <1>6, ZenonT(60) DEF Explains
<1>7. ASSUME NEW a \in Attempts, a # b, NEW r, Explains(a, r)
      PROVE  Explains(a, r)'
  BY <1>0, <1>1, <1>2, <1>7 DEF Explains
<1>8. ASSUME NEW a \in Attempts
      PROVE  Settled(a)' /\ InOrder(a)'
  <2>1. res[a] # None => Explains(a, res[a])'
    <3>1. PICK r : r = res[a]
      OBVIOUS
    <3>2. res[a] # None => Explains(a, r)
      BY <1>4, <3>1 DEF Settled
    <3>3. res[a] # None => Explains(a, r)'
      BY <1>6, <1>7, <3>2
    <3> QED BY <1>0, <3>1, <3>3 DEF Explains
  <2>2. Leaks(a)' = Leaks(a)
    BY <1>0, <1>1 DEF Leaks
  <2>3. Settled(a)'
    BY <1>0, <1>1, <1>2, <1>4, <2>1, <2>2 DEF Settled
  <2>4. InOrder(a)'
    BY <1>0, <1>1, <1>4 DEF InOrder
  <2> QED BY <2>3, <2>4
<1>9. StepState'
  <2>1. CASE b = attempt
    BY <1>0, <1>1, <1>2, <2>1 DEF StepState
  <2>2. CASE b # attempt
    BY <1>0, <1>1, <1>2, <2>2 DEF StepState
  <2> QED BY <2>1, <2>2
<1>10. ResultState'
  <2>1. pending # None => Explains(attempt, pending)'
    <3>1. PICK r : r = pending
      OBVIOUS
    <3>2. pending # None => Explains(attempt, r)
      BY <1>0, <3>1 DEF ResultState
    <3>3. pending # None => Explains(attempt, r)'
      BY <1>0, <1>6, <1>7, <3>2 DEF Explains
    <3> QED BY <1>0, <3>1, <3>3, ZenonT(60) DEF Explains
  <2>2. container'[attempt] = "running" => container[attempt] = "running"
    BY <1>0, <1>1
  <2> QED BY <1>0, <2>1, <2>2 DEF ResultState, RefersToOwn
<1> QED BY <1>3, <1>8, <1>9, <1>10 DEF RuntimeInvariant

--------------------------------------------------------------------------------
(* Initially nothing has been started. *)
LEMMA RuntimeInit ==
  Init => RuntimeInvariant
<1> SUFFICES ASSUME Init PROVE RuntimeInvariant
  OBVIOUS
<1>1. 1 \in Attempts /\ \A a \in Attempts : a \in Nat /\ a # None
  BY RuntimeAssumption DEF Attempts
<1>2. RuntimeTypeOK
  BY <1>1, ZenonT(60) DEF Init, RuntimeTypeOK
<1>3. ASSUME NEW a \in Attempts
      PROVE  Settled(a) /\ InOrder(a)
  BY <1>1 DEF Init, Settled, InOrder
<1>4. StepState
  BY <1>1 DEF Init, StepState
<1>5. ResultState
  BY <1>1 DEF Init, ResultState
<1> QED BY <1>2, <1>3, <1>4, <1>5 DEF RuntimeInvariant

(* Every step of the executor, of its environment and of the platform      *)
(* keeps the invariant.                                                    *)
LEMMA RuntimeNext ==
  RuntimeInvariant /\ [Next]_vars => RuntimeInvariant'
<1> SUFFICES ASSUME RuntimeInvariant, [Next]_vars PROVE RuntimeInvariant'
  OBVIOUS
<1>1. CASE ExecutorStep
  BY <1>1, ExecuteStep, WriteInputStep, RunContainerStep, WaitStep, ReadStderrStep,
     OomStep, ReadStdoutStep, KillStep, TimeoutStep, RemoveContainerStep,
     RemoveInputStep, ZenonT(60) DEF ExecutorStep
<1>2. CASE UNCHANGED vars
  <2>1. /\ attempt' = attempt /\ step' = step /\ container' = container
        /\ program' = program /\ logs_ref' = logs_ref /\ pending' = pending
        /\ res' = res /\ input' = input /\ logs' = logs
        /\ result_file' = result_file /\ failures' = failures
    BY <1>2, ZenonT(60) DEF vars
  <2>2. RuntimeTypeOK'
    BY <2>1, CurrentFacts, ZenonT(60) DEF RuntimeTypeOK
  <2>3. OnlyCurrent
    BY <2>1 DEF OnlyCurrent
  <2>4. StepState'
    BY <2>1, CurrentFacts DEF StepState
  <2>5. ResultState'
    BY <2>1, CurrentFacts, ZenonT(60) DEF ResultState, Explains, RefersToOwn
  <2>6. Settled(attempt)'
    BY <2>1, CurrentFacts, ZenonT(60) DEF Settled, Explains, Leaks
  <2> QED BY <2>2, <2>3, <2>4, <2>5, <2>6, OthersKept
<1> QED BY <1>1, <1>2, CrashStep, NextAttemptStep, ProgramEndsStep, ZenonT(60) DEF Next

(* RuntimeInvariant holds in every state: the bookkeeping of one execution *)
(* of DockerRuntimeExecutor, for any number of attempts and failed calls.  *)
THEOREM RuntimeInvariantHolds ==
  Spec => []RuntimeInvariant
BY RuntimeInit, RuntimeNext, PTL DEF Spec

(* What an attempt that returned leaves behind cost failed calls: on every *)
(* path out of execute_container the whole finally block is tried.         *)
THEOREM LeaksTheorem ==
  Spec => []LeaksAreAccountedFor
<1>1. RuntimeInvariant => LeaksAreAccountedFor
  BY ZenonT(60) DEF RuntimeInvariant, Settled, LeaksAreAccountedFor
<1> QED BY <1>1, RuntimeInvariantHolds, PTL

(* After a TIMEOUT the program does not run any more unless both the kill  *)
(* and the forced removal of its container failed.                         *)
THEOREM TimeoutTheorem ==
  Spec => []TimeoutStopsProgram
<1>1. RuntimeInvariant => TimeoutStopsProgram
  <2> SUFFICES ASSUME RuntimeInvariant, NEW a \in Attempts,
                      res[a] # None, failures[a] <= 1, res[a].status = "TIMEOUT",
                      container[a] = "running"
               PROVE  FALSE
    BY DEF TimeoutStopsProgram
  <2>1. failures[a] \in Nat /\ failures[a] >= 2
    BY DEF RuntimeInvariant, RuntimeTypeOK, Settled
  <2> QED BY <2>1
<1> QED BY <1>1, RuntimeInvariantHolds, PTL

(* The log and the result that the API serves were written by the attempt  *)
(* that is reported, although the attempts overwrite each other's files.   *)
THEOREM ServedOutputTheorem ==
  Spec => []ServedOutputIsOwn
<1>1. RuntimeInvariant => ServedOutputIsOwn
  BY DEF RuntimeInvariant, ResultState, RefersToOwn, ServedOutputIsOwn
<1> QED BY <1>1, RuntimeInvariantHolds, PTL

(* The status of an attempt tells what its program did. *)
THEOREM OutcomeTheorem ==
  Spec => []OutcomeIsFaithful
<1>1. RuntimeInvariant => OutcomeIsFaithful
  <2> SUFFICES ASSUME RuntimeInvariant, NEW a \in Attempts,
                      res[a] # None, program[a] # None
               PROVE  LET good == Good(program[a])
                      IN  /\ res[a].status = "SUCCEEDED" =>
                               /\ good
                               /\ res[a].has_result = (program[a].out = "large_result")
                               /\ program[a].oom => failures[a] > 0
                          /\ res[a].status = "FAILED" /\ failures[a] = 0 =>
                               ~good \/ program[a].oom
    BY DEF OutcomeIsFaithful, Good
  <2>1. Explains(a, res[a])
    BY DEF RuntimeInvariant, Settled
  <2> QED BY <2>1 DEF Explains
<1> QED BY <1>1, RuntimeInvariantHolds, PTL

(* No timeout is tried again, and a program that ran to its end without a  *)
(* failed call is only run again if its envelope asks for that.            *)
THEOREM RerunTheorem ==
  Spec => []RerunHasCause
<1>1. RuntimeInvariant => RerunHasCause
  <2> SUFFICES ASSUME RuntimeInvariant, NEW a \in 1..(attempt - 1), res[a] # None
               PROVE  /\ res[a].status = "FAILED"
                      /\ failures[a] = 0 /\ program[a] # None =>
                           AsksForRetry(program[a]) /\ ~program[a].oom
    BY DEF RerunHasCause
  <2>1. a \in Attempts /\ a < attempt
    BY RuntimeAssumption DEF RuntimeInvariant, RuntimeTypeOK, Attempts
  <2>2. is_retryable_execution_result(res[a]) /\ Explains(a, res[a])
    BY <2>1 DEF RuntimeInvariant, Settled, InOrder
  <2> QED BY <2>2 DEF is_retryable_execution_result, Explains
<1> QED BY <1>1, RuntimeInvariantHolds, PTL

================================================================================
