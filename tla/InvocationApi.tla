---------------------------- MODULE InvocationApi ----------------------------
(***************************************************************************)
(* POST /functions/{f}/invoke next to the requests of FunctionRegistry:    *)
(* InvocationService.create_invocation, with its idempotency key and the   *)
(* resolution of the function version.  What happens to an invocation      *)
(* once its row and its outbox row are committed is the subject of         *)
(* Platform, whose create_invocation is insert_invocation here.            *)
(***************************************************************************)
EXTENDS FunctionRegistry

CONSTANTS Keys   \* idempotency keys; None: the request has none

VARIABLES
  invocations,   \* the rows of the table invocations, by the creating request
  call,          \* the key and the version an invoke request asks for
  result         \* the invocation that a request was answered with

apiVars == <<registryVars, invocations, call, result>>

(* The version 0 stands for a request without a version number.  seen is   *)
(* the latest version when the request arrived.                            *)
Call == [key : Keys \cup {None}, version : 0..MaxVersion, seen : 0..MaxVersion]
InvocationRow == [f : Functions, n : 1..MaxVersion, key : Keys \cup {None}]
InvokeSteps == {"resolve", "insert_invocation", "refresh_invocation"}

ASSUME ApiAssumption == None \notin InvocationRow

ApiInit ==
  /\ RegistryInit
  /\ invocations = [r \in Requests |-> None]
  /\ call = [r \in Requests |-> [key |-> None, version |-> 0, seen |-> 0]]
  /\ result = [r \in Requests |-> None]

--------------------------------------------------------------------------------
get_invocation_by_idempotency_key(k) ==
  {i \in Requests : invocations[i] # None /\ invocations[i].key = k /\ k # None}

(* 202 with the invocation that is already there for the key. *)
AnswerExisting(r, k) ==
  \E i \in get_invocation_by_idempotency_key(k) :
    /\ Answer(r, "202")
    /\ result' = [result EXCEPT ![r] = i]

(* The key is looked up before anything else. *)
invoke_function(r, f, k, v) ==
  LET latest == Max(Numbers(f) \cup {0}) IN
  /\ pc[r] = "idle"
  /\ call' = [call EXCEPT ![r] = [key |-> k, version |-> v, seen |-> latest]]
  /\ \/ AnswerExisting(r, k)
     \/ /\ get_invocation_by_idempotency_key(k) = {}
        /\ Proceed(r, "resolve", f, 0)
        /\ UNCHANGED result
  /\ UNCHANGED <<functions, versions, packages, invocations>>

(* Mutant: takes the first version of the function. *)
requested_version_first(r) ==
  IF call[r].version = 0 THEN 1 ELSE call[r].version

(* The version asked for, or the latest one. *)
requested_version(r) ==
  IF call[r].version = 0
  THEN Max(Numbers(local[r].f) \cup {0})
  ELSE call[r].version

(* Mutant: a function without versions is not refused. *)
resolve_function_version_unchecked(r) ==
  /\ pc[r] = "resolve"
  /\ Proceed(r, "insert_invocation", local[r].f, requested_version(r))
  /\ UNCHANGED <<functions, versions, packages, invocations, call, result>>

resolve_function_version(r) ==
  LET f == local[r].f
      n == requested_version(r)
  IN
  /\ pc[r] = "resolve"
  /\ \/ (f \notin functions \/ n \notin Numbers(f)) /\ Answer(r, "404")
     \/ /\ f \in functions /\ n \in Numbers(f)
        /\ Proceed(r, "insert_invocation", f, n)
  /\ UNCHANGED <<functions, versions, packages, invocations, call, result>>

(* Mutant: trusts the first look-up of the key. *)
insert_invocation_unchecked(r) ==
  /\ pc[r] = "insert_invocation"
  /\ Proceed(r, "refresh_invocation", local[r].f, local[r].n)
  /\ invocations' = [invocations EXCEPT ![r] =
       [f |-> local[r].f, n |-> local[r].n, key |-> call[r].key]]
  /\ UNCHANGED <<functions, versions, packages, call, result>>

(* The insert commits, or meets the unique index on owner and key: then    *)
(* the row of the request that was faster is looked up.                    *)
insert_invocation(r) ==
  LET k == call[r].key IN
  /\ pc[r] = "insert_invocation"
  /\ \/ AnswerExisting(r, k) /\ UNCHANGED invocations
     \/ /\ get_invocation_by_idempotency_key(k) = {}
        /\ Proceed(r, "refresh_invocation", local[r].f, local[r].n)
        /\ UNCHANGED result
        /\ invocations' = [invocations EXCEPT ![r] =
             [f |-> local[r].f, n |-> local[r].n, key |-> k]]
  /\ UNCHANGED <<functions, versions, packages, call>>

(* The row is committed; it is read back, and the request is answered. *)
refresh_invocation(r) ==
  /\ pc[r] = "refresh_invocation"
  /\ Answer(r, "202")
  /\ result' = [result EXCEPT ![r] = r]
  /\ UNCHANGED <<functions, versions, packages, invocations, call>>

(* As request_gone; after the commit this leaves an invocation whose       *)
(* client does not know of it.                                             *)
invoke_gone(r) ==
  /\ pc[r] \in InvokeSteps
  /\ Answer(r, "gone")
  /\ UNCHANGED <<functions, versions, packages, invocations, call, result>>

ApiNext ==
  \/ RegistryNext /\ UNCHANGED <<invocations, call, result>>
  \/ \E r \in Requests :
       \/ \E f \in Functions, k \in Keys \cup {None}, v \in 0..MaxVersion :
            invoke_function(r, f, k, v)
       \/ resolve_function_version(r)
       \/ insert_invocation(r)
       \/ refresh_invocation(r)
       \/ invoke_gone(r)

ApiSpec == ApiInit /\ [][ApiNext]_apiVars

--------------------------------------------------------------------------------
ApiTypeOK ==
  /\ RegistryTypeOK
  /\ pc \in [Requests -> Steps \cup InvokeSteps \cup Answers \cup {"202"}]
  /\ invocations \in [Requests -> InvocationRow \cup {None}]
  /\ call \in [Requests -> Call]
  /\ result \in [Requests -> Requests \cup {None}]

(* An idempotency key names one invocation: all requests with the key that *)
(* are accepted, concurrent ones included, are answered with the same one; *)
(* and if the answer to the request that created it was lost, a client     *)
(* that tries again is told of that very invocation.                       *)
OneInvocationPerKey ==
  \A r, s \in Requests :
    pc[s] = "202" /\ call[r].key = call[s].key /\ call[r].key # None =>
      /\ pc[r] = "202" => result[r] = result[s]
      /\ invocations[r] # None => result[s] = r

(* An invocation runs a version that exists; the one its request asked     *)
(* for, or else one that is no older than the latest version that was      *)
(* deployed when the request arrived.                                      *)
RunsDeployedVersion ==
  \A r \in Requests : invocations[r] # None =>
    /\ invocations[r].n \in Numbers(invocations[r].f)
    /\ call[r].version # 0 => invocations[r].n = call[r].version
    /\ call[r].version = 0 => invocations[r].n >= call[r].seen

(* What a request has read before an await stays true at what it does      *)
(* after it: rows are only ever added.  A number that was taken has no gap *)
(* below it, a version that was resolved exists, a package that was stored *)
(* is there and whole unless it was overwritten, and the row that a        *)
(* request inserted is there when it is answered.                          *)
Reads(r) ==
  LET f == local[r].f
      n == local[r].n
  IN
  /\ n # 0 => f \in Functions
  /\ pc[r] = "insert_function" => f \in Functions /\ n = 0
  /\ pc[r] \in {"insert_version", "read_package", "insert_uploaded"} =>
       f \in functions /\ n \in 1..MaxVersion /\ 1..(n - 1) \subseteq Numbers(f)
  /\ pc[r] = "insert_uploaded" => packages[f][n] # None
  /\ pc[r] = "resolve" => f \in Functions /\ call[r].seen \in Numbers(f) \cup {0}
  /\ pc[r] = "insert_invocation" =>
       /\ f \in Functions /\ n \in Numbers(f)
       /\ call[r].version # 0 => n = call[r].version
       /\ call[r].version = 0 => n >= call[r].seen
  /\ pc[r] = "refresh_invocation" => invocations[r] # None
  /\ pc[r] = "202" => /\ result[r] \in Requests
                      /\ invocations[result[r]] # None
                      /\ invocations[result[r]].key = call[r].key
  /\ invocations[r] # None => /\ pc[r] \in {"refresh_invocation", "202", "gone"}
                              /\ invocations[r].key = call[r].key

(* A row is the work of a request that got past its commit, and a file     *)
(* that of an upload that took its number; what is left of a write that    *)
(* was cut short belongs to no row.                                        *)
FilesAreKnown ==
  \A f \in Functions, n \in 1..MaxVersion :
    LET row == versions[f][n]
        file == packages[f][n]
    IN
    /\ row # None => pc[row.package_hash] \in {"refresh", "201", "gone"}
    /\ file # None =>
         /\ local[file.of] = [f |-> f, n |-> n]
         /\ pc[file.of] \in {"insert_uploaded", "refresh", "201", "409", "gone"}
         /\ ~file.whole => /\ pc[file.of] = "gone"
                           /\ row # None => row.package_hash # file.of

(* The unique index on owner and idempotency key. *)
KeysAreUnique ==
  \A i, j \in Requests :
    /\ invocations[i] # None /\ invocations[j] # None
    /\ invocations[i].key = invocations[j].key /\ invocations[i].key # None
    => i = j

(* The inductive invariant behind the properties above. *)
ApiInvariant ==
  /\ ApiTypeOK
  /\ VersionsContiguous
  /\ PackageIsOwnOrOverwritten
  /\ FilesAreKnown
  /\ CreatedIsRecorded
  /\ RunsDeployedVersion
  /\ \A r \in Requests : Reads(r)
  /\ KeysAreUnique
================================================================================
