------------------------------- MODULE ApiProofs -------------------------------
(***************************************************************************)
(* Theorems about the API process: the control plane (InvocationApi), for  *)
(* any number of requests, functions, versions and idempotency keys, and   *)
(* the rate limit (RateLimiter), for every capacity and period.            *)
(*                                                                         *)
(* The control plane: every step is one of a single request, and rows and  *)
(* files are only added, so what the other requests have read stays true;  *)
(* a file may be overwritten, but only by a request that took its number.  *)
(*                                                                         *)
(* The rate limit: BucketInvariant is inductive, since its conjunct        *)
(* Conservation relates the tokens granted in the window to the tokens in  *)
(* the bucket.  With HintShape it becomes LimiterInvariant, from which the *)
(* exactness of Retry-After follows.                                       *)
(***************************************************************************)
EXTENDS InvocationApi, RateLimiter, FiniteSetTheorems, TLAPS

USE SMTT(15), ZenonT(20), SMTT(30), Z3T(30)

(* The numbers up to k are finitely many. *)
LEMMA UpTo ==
  ASSUME NEW k \in Nat
  PROVE  IsFiniteSet(1..k)
  BY FS_Interval

(* The latest version of a function is the number of its versions. *)
LEMMA LatestVersion ==
  ASSUME VersionsContiguous, NEW f \in Functions
  PROVE  /\ Cardinality(Numbers(f)) \in Nat
         /\ Numbers(f) = 1..Cardinality(Numbers(f))
         /\ Max(Numbers(f) \cup {0}) = Cardinality(Numbers(f))
<1> DEFINE k == Cardinality(Numbers(f))
<1>1. Numbers(f) \subseteq 1..MaxVersion /\ IsFiniteSet(1..MaxVersion)
  BY RegistryAssumption, UpTo, ZenonT(60) DEF Numbers
<1>2. k \in Nat /\ Numbers(f) = 1..k
  BY <1>1, FS_Subset, FS_CardinalityType, ZenonT(60) DEF VersionsContiguous
<1> HIDE DEF k
<1>3. (1..k) \cup {0} = 0..k
  BY <1>2
<1>4. Max(0..k) = k
  <2>1. k \in 0..k /\ \A y \in 0..k : k >= y
    BY <1>2
  <2>2. \A x \in 0..k : (\A y \in 0..k : x >= y) => x = k
    BY <1>2
  <2>. QED
    BY <2>1, <2>2 DEF Max
<1>. QED
  BY <1>2, <1>3, <1>4, ZenonT(60) DEF k

--------------------------------------------------------------------------------
(* Only request r moves. *)
Moves(r) ==
  \A s \in Requests \ {r} : /\ pc'[s] = pc[s] /\ local'[s] = local[s]
                            /\ call'[s] = call[s] /\ result'[s] = result[s]
                            /\ invocations'[s] = invocations[s]

(* Rows stay what they are, and files stay. *)
Grows ==
  /\ functions \subseteq functions'
  /\ \A f \in Functions, n \in 1..MaxVersion :
       /\ versions[f][n] # None => versions'[f][n] = versions[f][n]
       /\ packages[f][n] # None => packages'[f][n] # None
  /\ \A i \in Requests : invocations[i] # None => invocations'[i] = invocations[i]

(* The steps at which the file of an upload may be there. *)
Stored == {"insert_uploaded", "refresh", "201", "409", "gone"}

(* Request r does not go back: what a row or a file of it rests on stays.  *)
Forward(r) ==
  /\ pc[r] \in {"refresh", "201", "gone"} => pc'[r] \in {"refresh", "201", "gone"}
  /\ pc[r] \in Stored => local'[r] = local[r] /\ pc'[r] \in Stored
  /\ pc[r] = "gone" => pc'[r] = "gone"

(* FilesAreKnown, for one version number. *)
Known(f, n) ==
  LET row == versions[f][n]
      file == packages[f][n]
  IN
  /\ row # None => pc[row.package_hash] \in {"refresh", "201", "gone"}
  /\ file # None =>
       /\ local[file.of] = [f |-> f, n |-> n]
       /\ pc[file.of] \in Stored
       /\ ~file.whole => /\ pc[file.of] = "gone"
                         /\ row # None => row.package_hash # file.of

(* An uploaded version has a file. *)
HasFile ==
  \A f \in Functions : \A n \in Numbers(f) :
    versions[f][n].package_uri = "uploaded" => packages[f][n] # None

Created(r) ==
  pc[r] \in {"refresh", "201"} /\ local[r].n # 0 =>
    /\ versions[local[r].f][local[r].n] # None
    /\ versions[local[r].f][local[r].n].package_hash = r

Runs(r) ==
  invocations[r] # None =>
    /\ invocations[r].n \in Numbers(invocations[r].f)
    /\ call[r].version # 0 => invocations[r].n = call[r].version
    /\ call[r].version = 0 => invocations[r].n >= call[r].seen

(* No number of a version is lost. *)
LEMMA NumbersGrow ==
  ASSUME Grows, NEW f \in Functions
  PROVE  Numbers(f) \subseteq Numbers(f)'
BY DEF Grows, Numbers

(* What the requests that do not move have read stays true. *)
LEMMA OthersKeep ==
  ASSUME ApiInvariant, Grows, NEW r \in Requests, Moves(r), NEW s \in Requests \ {r}
  PROVE  Reads(s)' /\ Created(s)' /\ Runs(s)'
<1>1. /\ pc'[s] = pc[s] /\ local'[s] = local[s] /\ call'[s] = call[s]
      /\ result'[s] = result[s] /\ invocations'[s] = invocations[s]
  BY DEF Moves
<1>2. ApiTypeOK /\ Reads(s)
  BY DEF ApiInvariant
<1>3. /\ local[s] \in [f : Functions \cup {None}, n : 0..MaxVersion]
      /\ functions \subseteq Functions
      /\ invocations[s] # None => invocations[s] \in InvocationRow
  BY <1>2 DEF ApiTypeOK, RegistryTypeOK
<1>4. Reads(s)'
  <2> DEFINE f == local[s].f
             n == local[s].n
  <2>1. \A g \in Functions : Numbers(g) \subseteq Numbers(g)'
    BY NumbersGrow
  <2>2. functions \subseteq functions'
    BY DEF Grows
  <2>3. pc[s] = "insert_uploaded" => packages'[f][n] # None
    BY <1>2, <1>3 DEF Reads, Grows
  <2>4. pc[s] = "202" => invocations'[result[s]] = invocations[result[s]]
    BY <1>2 DEF Reads, Grows
  <2>. QED
    BY <1>1, <1>2, <1>3, <2>1, <2>2, <2>3, <2>4 DEF Reads
<1>5. Created(s)'
  <2>1. Created(s)
    BY DEF ApiInvariant, CreatedIsRecorded, Created
  <2>2. ASSUME pc[s] \in {"refresh", "201"}, local[s].n # 0
        PROVE  versions'[local[s].f][local[s].n] = versions[local[s].f][local[s].n]
    BY <1>2, <1>3, <2>1, <2>2 DEF Grows, Created, Reads
  <2>. QED
    BY <1>1, <2>1, <2>2 DEF Created
<1>6. Runs(s)'
  <2>1. Runs(s)
    BY DEF ApiInvariant, RunsDeployedVersion, Runs
  <2>2. \A g \in Functions : Numbers(g) \subseteq Numbers(g)'
    BY NumbersGrow
  <2>3. invocations[s] # None => invocations[s].f \in Functions
    BY <1>3 DEF InvocationRow
  <2>. QED
    BY <1>1, <2>1, <2>2, <2>3 DEF Runs
<1>. QED
  BY <1>4, <1>5, <1>6

(* Rows and files name requests. *)
LEMMA RowTypes ==
  ASSUME NEW vs \in [Functions -> [1..MaxVersion -> VersionRow \cup {None}]],
         NEW ps \in [Functions -> [1..MaxVersion -> File \cup {None}]],
         NEW f \in Functions, NEW n \in 1..MaxVersion
  PROVE  /\ vs[f][n] # None => vs[f][n].package_hash \in Requests
         /\ ps[f][n] # None => ps[f][n] \in File /\ ps[f][n].of \in Requests
<1>1. vs[f][n] \in VersionRow \cup {None} /\ ps[f][n] \in File \cup {None}
  BY ZenonT(60)
<1>2. \A x \in VersionRow : x.package_hash \in Requests
  BY DEF VersionRow
<1>3. \A x \in File : x.of \in Requests
  BY DEF File
<1>. QED
  BY <1>1, <1>2, <1>3, ZenonT(60)

(* A row or a file that a step leaves alone stays known. *)
LEMMA KnownKept ==
  ASSUME ApiInvariant, NEW r \in Requests, Moves(r), Forward(r),
         NEW f \in Functions, NEW n \in 1..MaxVersion,
         versions'[f][n] = versions[f][n], packages'[f][n] = packages[f][n]
  PROVE  Known(f, n)'
<1> DEFINE row == versions[f][n]
           file == packages[f][n]
<1>1. Known(f, n)
  BY ZenonT(60) DEF ApiInvariant, FilesAreKnown, Known, Stored
<1>2. row # None => row.package_hash \in Requests
  BY RowTypes, ZenonT(60) DEF ApiInvariant, ApiTypeOK, RegistryTypeOK
<1>3. file # None => file.of \in Requests
  BY RowTypes, ZenonT(60) DEF ApiInvariant, ApiTypeOK, RegistryTypeOK
<1>4. \A s \in Requests : s # r => pc'[s] = pc[s] /\ local'[s] = local[s]
  BY DEF Moves
<1>5. row # None => pc'[row.package_hash] \in {"refresh", "201", "gone"}
  BY <1>1, <1>2, <1>4, ZenonT(60) DEF Known, Forward
<1>6. file # None => /\ local'[file.of] = [f |-> f, n |-> n]
                     /\ pc'[file.of] \in Stored
                     /\ pc[file.of] = "gone" => pc'[file.of] = "gone"
  BY <1>1, <1>3, <1>4, ZenonT(60) DEF Known, Forward
<1>. QED
  BY <1>1, <1>5, <1>6, ZenonT(60) DEF Known

(* A file that is known is the one of its version, or overwrote it. *)
LEMMA KnownFiles ==
  ASSUME ApiTypeOK', HasFile', CreatedIsRecorded',
         \A f \in Functions, n \in 1..MaxVersion : Known(f, n)'
  PROVE  PackageIsOwnOrOverwritten' /\ FilesAreKnown'
<1>1. FilesAreKnown'
  BY ZenonT(60) DEF FilesAreKnown, Known, Stored
<1>2. ASSUME NEW f \in Functions, NEW n \in Numbers(f)',
             versions'[f][n].package_uri = "uploaded"
      PROVE  LET own == versions'[f][n].package_hash
                 file == packages'[f][n]
             IN  \/ file = [of |-> own, whole |-> TRUE]
                 \/ /\ file # None /\ file.of # own
                    /\ local'[file.of] = [f |-> f, n |-> n]
                    /\ pc'[file.of] \in {"insert_uploaded", "409", "gone"}
  <2> DEFINE own == versions'[f][n].package_hash
             file == packages'[f][n]
  <2>1. n \in 1..MaxVersion /\ versions'[f][n] # None /\ n # 0
    BY RegistryAssumption DEF Numbers
  <2>2. file # None
    BY <1>2, ZenonT(60) DEF HasFile
  <2>3. file \in File
    BY <2>1, <2>2, RowTypes, ZenonT(60) DEF ApiTypeOK, RegistryTypeOK
  <2>4. Known(f, n)'
    BY <2>1
  <2>5. /\ local'[file.of] = [f |-> f, n |-> n]
        /\ pc'[file.of] \in Stored
        /\ ~file.whole => own # file.of
    BY <2>1, <2>2, <2>4, ZenonT(60) DEF Known
  <2> HIDE DEF file
  <2>6. CASE file.of = own
    <3>1. file = [of |-> file.of, whole |-> file.whole] /\ file.whole \in BOOLEAN
      BY <2>3 DEF File
    <3>2. file.whole = TRUE
      BY <2>5, <2>6, <3>1
    <3>. QED
      BY <2>6, <3>1, <3>2 DEF file
  <2>7. CASE file.of # own
    <3>1. file.of \in Requests
      BY <2>3 DEF File
    <3>2. local'[file.of].f = f /\ local'[file.of].n = n
      BY <2>5
    <3>3. pc'[file.of] \notin {"refresh", "201"}
      BY <2>1, <2>7, <3>1, <3>2, ZenonT(60) DEF CreatedIsRecorded
    <3>. QED
      BY <2>2, <2>5, <2>7, <3>3 DEF Stored, file
  <2>. QED
    BY <2>6, <2>7 DEF file
<1>. QED
  BY <1>1, <1>2, ZenonT(60) DEF PackageIsOwnOrOverwritten

(* The files are there. *)
LEMMA FilesThere == ApiInvariant => HasFile
<1> SUFFICES ASSUME ApiInvariant, NEW f \in Functions, NEW n \in Numbers(f),
                    versions[f][n].package_uri = "uploaded"
             PROVE  packages[f][n] # None
  BY DEF HasFile
<1>1. versions[f][n].package_hash \in Requests
  BY RowTypes, ZenonT(60) DEF ApiInvariant, ApiTypeOK, RegistryTypeOK, Numbers
<1>2. [of |-> versions[f][n].package_hash, whole |-> TRUE] \in File
  BY <1>1 DEF File
<1>. QED
  <2>1. [of |-> versions[f][n].package_hash, whole |-> TRUE] # None
    BY <1>2, RegistryAssumption, ZenonT(60)
  <2>2. PackageIsOwnOrOverwritten
    BY DEF ApiInvariant
  <2>. QED
    BY <2>1, <2>2, ZenonT(60) DEF PackageIsOwnOrOverwritten

(* So it is enough to look at the request that moves. *)
LEMMA OneMoves ==
  ASSUME ApiInvariant, Grows, NEW r \in Requests, Moves(r),
         ApiTypeOK', VersionsContiguous', HasFile', KeysAreUnique',
         \A f \in Functions, n \in 1..MaxVersion : Known(f, n)',
         Reads(r)', Created(r)', Runs(r)'
  PROVE  ApiInvariant'
<1>1. \A s \in Requests : Reads(s)' /\ Created(s)' /\ Runs(s)'
  BY OthersKeep
<1>2. CreatedIsRecorded' /\ RunsDeployedVersion' /\ (\A s \in Requests : Reads(s))'
  BY <1>1 DEF CreatedIsRecorded, RunsDeployedVersion, Created, Runs
<1>3. PackageIsOwnOrOverwritten' /\ FilesAreKnown'
  BY <1>2, KnownFiles
<1>. QED
  BY <1>2, <1>3 DEF ApiInvariant

(* A step that changes no row and no file. *)
LEMMA NoRow ==
  ASSUME ApiInvariant, UNCHANGED <<functions, versions, packages, invocations>>,
         NEW r \in Requests, Moves(r), Forward(r), ApiTypeOK', Reads(r)',
         pc'[r] \in {"refresh", "201"} => pc[r] = "refresh" /\ local'[r] = local[r],
         invocations[r] # None => call'[r] = call[r]
  PROVE  ApiInvariant'
<1>1. Grows
  BY DEF Grows
<1>2. VersionsContiguous' /\ KeysAreUnique'
  BY DEF ApiInvariant, VersionsContiguous, KeysAreUnique, Numbers
<1>3. HasFile'
  BY FilesThere DEF HasFile, Numbers
<1>4. \A f \in Functions, n \in 1..MaxVersion : Known(f, n)'
  BY KnownKept
<1>5. Created(r)'
  BY DEF ApiInvariant, CreatedIsRecorded, Created
<1>6. Runs(r)'
  BY DEF ApiInvariant, RunsDeployedVersion, Runs, Numbers
<1>. QED
  BY <1>1, <1>2, <1>3, <1>4, <1>5, <1>6, OneMoves

--------------------------------------------------------------------------------
(* The request is refused, or cut off; after its commit only the latter. *)
LEMMA Refused ==
  ASSUME ApiInvariant, NEW r \in Requests, pc[r] \in Steps \cup InvokeSteps,
         NEW code \in {"400", "404", "409", "gone"}, Answer(r, code),
         code # "gone" => pc[r] \notin {"refresh", "refresh_invocation"},
         pc[r] = "insert_uploaded" => code \in {"409", "gone"},
         UNCHANGED <<functions, versions, packages, invocations, call, result>>
  PROVE  ApiInvariant'
<1>1. ApiTypeOK /\ Reads(r) /\ code \in Answers
  BY DEF ApiInvariant, Answers
<1>2. /\ pc' = [pc EXCEPT ![r] = code] /\ UNCHANGED local
      /\ pc \in [Requests -> Steps \cup InvokeSteps \cup Answers \cup {"202"}]
  BY <1>1 DEF Answer, ApiTypeOK
<1>3. ApiTypeOK'
  BY <1>1, <1>2 DEF ApiTypeOK, RegistryTypeOK
<1>4. Moves(r) /\ pc'[r] = code /\ local'[r] = local[r]
  BY <1>2 DEF Moves
<1>5. Reads(r)'
  BY <1>1, <1>2, <1>4 DEF Reads, Steps, InvokeSteps
<1>6. Forward(r)
  BY <1>4 DEF Forward, Stored, Steps, InvokeSteps
<1>. QED
  BY <1>3, <1>4, <1>5, <1>6, NoRow

(* The request goes on to its next step, and has changed no row yet. *)
LEMMA GoesOn ==
  ASSUME ApiInvariant, NEW r \in Requests, pc[r] \in {"idle", "resolve"},
         NEW step \in {"insert_function", "insert_version", "read_package", "resolve",
                       "insert_invocation"},
         NEW f \in Functions, NEW n \in 0..MaxVersion, Proceed(r, step, f, n),
         UNCHANGED <<functions, versions, packages, invocations, result>>,
         call' \in [Requests -> Call], \A s \in Requests \ {r} : call'[s] = call[s],
         step = "insert_function" => n = 0,
         step \in {"insert_version", "read_package"} =>
           f \in functions /\ n \in 1..MaxVersion /\ 1..(n - 1) \subseteq Numbers(f),
         step = "resolve" => call'[r].seen \in Numbers(f) \cup {0},
         step = "insert_invocation" =>
           /\ n \in Numbers(f)
           /\ call'[r].version # 0 => n = call'[r].version
           /\ call'[r].version = 0 => n >= call'[r].seen
  PROVE  ApiInvariant'
<1>1. ApiTypeOK /\ Reads(r) /\ step \in Steps \cup InvokeSteps
  BY DEF ApiInvariant, Steps, InvokeSteps
<1>2. /\ pc' = [pc EXCEPT ![r] = step] /\ local' = [local EXCEPT ![r] = [f |-> f, n |-> n]]
      /\ pc \in [Requests -> Steps \cup InvokeSteps \cup Answers \cup {"202"}]
      /\ local \in [Requests -> [f : Functions \cup {None}, n : 0..MaxVersion]]
  BY <1>1 DEF Proceed, ApiTypeOK, RegistryTypeOK
<1>3. ApiTypeOK'
  BY <1>1, <1>2 DEF ApiTypeOK, RegistryTypeOK
<1>4. /\ Moves(r) /\ pc'[r] = step /\ local'[r].f = f /\ local'[r].n = n
  BY <1>2 DEF Moves
<1>5. step \notin {"refresh", "201", "202", "refresh_invocation", "insert_uploaded"}
  OBVIOUS
<1>6. Numbers(f)' = Numbers(f) /\ invocations[r] = None
  BY <1>1 DEF Numbers, Reads
<1>7. Reads(r)'
  BY <1>4, <1>5, <1>6 DEF Reads
<1>8. Forward(r)
  BY DEF Forward, Stored
<1>. QED
  BY <1>3, <1>4, <1>5, <1>6, <1>7, <1>8, NoRow

--------------------------------------------------------------------------------
(* The requests of the registry. *)
LEMMA create_function_Api ==
  ASSUME ApiInvariant, NEW r \in Requests, NEW f \in Functions, create_function(r, f),
         UNCHANGED <<invocations, call, result>>
  PROVE  ApiInvariant'
<1>1. /\ pc[r] = "idle" /\ UNCHANGED <<functions, versions, packages>>
      /\ Answer(r, "409") \/ Proceed(r, "insert_function", f, 0)
  BY DEF create_function
<1>2. 0 \in 0..MaxVersion /\ call \in [Requests -> Call]
  BY RegistryAssumption DEF ApiInvariant, ApiTypeOK
<1>3. CASE Answer(r, "409")
  BY <1>1, <1>3, Refused DEF Steps
<1>4. CASE Proceed(r, "insert_function", f, 0)
  BY <1>1, <1>2, <1>4, GoesOn
<1>. QED
  BY <1>1, <1>3, <1>4

(* Taking the row lock of a function gives the next version number. *)
LEMMA take_version_number_Api ==
  ASSUME ApiInvariant, NEW r \in Requests, NEW f \in Functions,
         NEW step \in {"insert_version", "read_package"}, take_version_number(r, f, step),
         UNCHANGED <<invocations, call, result>>
  PROVE  ApiInvariant'
<1> DEFINE n == get_next_version_number(f)
<1>1. pc[r] = "idle" /\ UNCHANGED <<functions, versions, packages>>
  BY DEF take_version_number
<1>2. \/ Answer(r, "404")
      \/ f \in functions /\ n <= MaxVersion /\ Proceed(r, step, f, n)
  BY DEF take_version_number, get_function_by_name
<1>3. call \in [Requests -> Call] /\ VersionsContiguous
  BY DEF ApiInvariant, ApiTypeOK
<1>4. n \in Nat /\ n >= 1 /\ 1..(n - 1) \subseteq Numbers(f)
  BY <1>3, LatestVersion DEF get_next_version_number
<1> HIDE DEF n
<1>5. CASE Answer(r, "404")
  BY <1>1, <1>5, Refused DEF Steps
<1>6. CASE f \in functions /\ n <= MaxVersion /\ Proceed(r, step, f, n)
  <2>1. n \in 1..MaxVersion /\ n \in 0..MaxVersion
    BY <1>4, <1>6, RegistryAssumption
  <2>. QED
    BY <1>1, <1>3, <1>4, <1>6, <2>1, GoesOn
<1>. QED
  BY <1>2, <1>5, <1>6

(* The insert of a function keeps the invariant. *)
LEMMA insert_function_Api ==
  ASSUME ApiInvariant, NEW r \in Requests, insert_function(r),
         UNCHANGED <<invocations, call, result>>
  PROVE  ApiInvariant'
<1>1. ApiTypeOK /\ Reads(r) /\ pc[r] = "insert_function"
  BY DEF ApiInvariant, insert_function
<1>2. local[r].f \in Functions /\ local[r].n = 0 /\ invocations[r] = None
  BY <1>1 DEF Reads
<1>3. PICK code \in {"refresh", "409"} : pc' = [pc EXCEPT ![r] = code]
  BY DEF insert_function, Answer, Proceed
<1>4. /\ functions' = functions \cup {local[r].f}
      /\ UNCHANGED <<versions, packages>>
  BY DEF insert_function
<1>9. local' = local
  <2>1. CASE Answer(r, "409")
    BY <2>1 DEF Answer
  <2>2. CASE Proceed(r, "refresh", local[r].f, 0)
    BY <1>1, <1>2, <2>2 DEF Proceed, ApiTypeOK, RegistryTypeOK
  <2>. QED
    BY <2>1, <2>2 DEF insert_function
<1>5. ApiTypeOK'
  BY <1>1, <1>2, <1>3, <1>4, <1>9 DEF ApiTypeOK, RegistryTypeOK, Answers, Steps
<1>6. Moves(r) /\ pc'[r] = code /\ Grows /\ Forward(r)
  BY <1>1, <1>3, <1>4, <1>9 DEF Moves, Grows, ApiTypeOK, Forward, Stored
<1>7. VersionsContiguous' /\ HasFile' /\ KeysAreUnique'
  BY <1>4, FilesThere, ZenonT(60)
    DEF ApiInvariant, VersionsContiguous, HasFile, KeysAreUnique, Numbers
<1>8. Reads(r)' /\ Created(r)' /\ Runs(r)'
  BY <1>2, <1>4, <1>6, <1>9 DEF Reads, Created, Runs
<1>10. \A f \in Functions, n \in 1..MaxVersion : Known(f, n)'
  BY <1>4, <1>6, KnownKept
<1>. QED
  BY <1>5, <1>6, <1>7, <1>8, <1>10, OneMoves

(* A package is stored under the number its request was given. *)
LEMMA store_function_package_Api ==
  ASSUME ApiInvariant, NEW r \in Requests, store_function_package(r),
         UNCHANGED <<invocations, call, result>>
  PROVE  ApiInvariant'
<1> DEFINE f == local[r].f
           n == local[r].n
<1>1. ApiTypeOK /\ Reads(r) /\ pc[r] = "read_package"
  BY DEF ApiInvariant, store_function_package
<1>2. /\ f \in functions /\ f \in Functions /\ n \in 1..MaxVersion
      /\ 1..(n - 1) \subseteq Numbers(f) /\ invocations[r] = None
  BY <1>1 DEF Reads, ApiTypeOK, RegistryTypeOK
<1>3. CASE Answer(r, "400") /\ UNCHANGED packages
  BY <1>1, <1>3, Refused DEF store_function_package, Steps
<1>4. ASSUME NEW whole \in BOOLEAN,
             packages' = [packages EXCEPT ![f][n] = [of |-> r, whole |-> whole]],
             IF whole THEN Proceed(r, "insert_uploaded", f, n) ELSE Answer(r, "gone")
      PROVE  ApiInvariant'
  <2> DEFINE c == [of |-> r, whole |-> whole]
             next == IF whole THEN "insert_uploaded" ELSE "gone"
  <2>1. UNCHANGED <<functions, versions>>
    BY DEF store_function_package
  <2>2. pc' = [pc EXCEPT ![r] = next]
    BY <1>4 DEF Proceed, Answer
  <2>3. local' = local
    <3>1. CASE Answer(r, "gone")
      BY <3>1 DEF Answer
    <3>2. CASE Proceed(r, "insert_uploaded", f, n)
      BY <1>1, <3>2 DEF Proceed, ApiTypeOK, RegistryTypeOK
    <3>. QED
      BY <1>4, <3>1, <3>2
  <2>4. /\ packages \in [Functions -> [1..MaxVersion -> File \cup {None}]]
        /\ c \in File /\ c # None /\ c.of = r /\ c.whole = whole
    BY <1>1, RegistryAssumption DEF ApiTypeOK, RegistryTypeOK, File
  <2>12. packages' = [packages EXCEPT ![f][n] = c]
    BY <1>4
  <2> HIDE DEF c
  <2>5. /\ packages' \in [Functions -> [1..MaxVersion -> File \cup {None}]]
        /\ packages'[f][n] = c
        /\ \A g \in Functions, m \in 1..MaxVersion :
             g # f \/ m # n => packages'[g][m] = packages[g][m]
    BY <1>2, <2>4, <2>12, ZenonT(60)
  <2>6. ApiTypeOK'
    BY <1>1, <2>1, <2>2, <2>3, <2>5 DEF ApiTypeOK, RegistryTypeOK, Steps, Answers
  <2>7. \A g \in Functions, m \in 1..MaxVersion :
          packages[g][m] # None => packages'[g][m] # None
    BY <1>2, <2>4, <2>5
  <2>8. Moves(r) /\ pc'[r] = next /\ Grows /\ Forward(r)
    BY <1>1, <2>1, <2>2, <2>3, <2>7 DEF Moves, Grows, ApiTypeOK, Forward, Stored
  <2>9. VersionsContiguous' /\ KeysAreUnique'
    BY <2>1 DEF ApiInvariant, VersionsContiguous, KeysAreUnique, Numbers
  <2>10. HasFile'
    BY <2>1, <2>7, FilesThere, ZenonT(60) DEF HasFile, Numbers
  <2>11. Reads(r)' /\ Created(r)' /\ Runs(r)'
    BY <1>2, <2>1, <2>3, <2>4, <2>5, <2>8, ZenonT(60) DEF Reads, Created, Runs, Numbers
  <2>13. ASSUME NEW g \in Functions, NEW m \in 1..MaxVersion, g = f, m = n
         PROVE  Known(g, m)'
    <3>1. versions[f][n] # None => pc[versions[f][n].package_hash] # pc[r]
      BY <1>1, <1>2, ZenonT(60) DEF ApiInvariant, FilesAreKnown
    <3>2. versions[f][n] # None => versions[f][n].package_hash \in Requests \ {r}
      BY <1>1, <1>2, <3>1, RowTypes, ZenonT(60) DEF ApiTypeOK, RegistryTypeOK
    <3>3. versions[f][n] # None =>
            pc'[versions[f][n].package_hash] \in {"refresh", "201", "gone"}
      BY <1>2, <2>8, <3>2, ZenonT(60) DEF ApiInvariant, FilesAreKnown, Moves
    <3>4. local'[r] = [f |-> f, n |-> n]
      BY <1>1, <2>3 DEF ApiTypeOK, RegistryTypeOK
    <3>5. pc'[r] \in Stored /\ (~whole => pc'[r] = "gone")
      BY <2>8 DEF Stored
    <3>6. /\ versions'[f][n] = versions[f][n]
          /\ packages'[f][n].of = r /\ packages'[f][n].whole = whole
      BY <2>1, <2>4, <2>5
    <3>. QED
      <4>1. /\ versions'[g][m] = versions[g][m]
            /\ packages'[g][m].of = r /\ packages'[g][m].whole = whole
            /\ local'[r] = [f |-> g, n |-> m]
        BY <2>13, <3>4, <3>6
      <4>2. versions[g][m] # None =>
              /\ versions[g][m].package_hash # r
              /\ pc'[versions[g][m].package_hash] \in {"refresh", "201", "gone"}
        BY <2>13, <3>2, <3>3, ZenonT(60)
      <4>. QED
        BY <3>5, <4>1, <4>2, ZenonT(60) DEF Known
  <2>14. \A g \in Functions, m \in 1..MaxVersion : Known(g, m)'
    <3> SUFFICES ASSUME NEW g \in Functions, NEW m \in 1..MaxVersion, g # f \/ m # n
                 PROVE  Known(g, m)'
      BY <2>13, ZenonT(60)
    <3>. QED
      <4>1. versions'[g][m] = versions[g][m] /\ packages'[g][m] = packages[g][m]
        BY <2>1, <2>5, ZenonT(60)
      <4>. QED
        BY <2>8, <4>1, KnownKept, ZenonT(60)
  <2>. QED
    BY <2>6, <2>8, <2>9, <2>10, <2>11, <2>14, OneMoves
<1>. QED
  BY <1>3, <1>4 DEF store_function_package

(* The insert of a version keeps the numbers of a function contiguous. *)
LEMMA insert_version_Api ==
  ASSUME ApiInvariant, NEW r \in Requests,
         NEW step \in {"insert_version", "insert_uploaded"},
         NEW uri \in {"elsewhere", "uploaded"}, insert_version(r, step, uri),
         uri = "uploaded" => step = "insert_uploaded",
         UNCHANGED <<invocations, call, result>>
  PROVE  ApiInvariant'
<1> DEFINE f == local[r].f
           n == local[r].n
           row == [package_uri |-> uri, package_hash |-> r]
<1>1. ApiTypeOK /\ Reads(r) /\ pc[r] = step
  BY DEF ApiInvariant, insert_version
<1>2. /\ f \in functions /\ f \in Functions /\ n \in 1..MaxVersion
      /\ 1..(n - 1) \subseteq Numbers(f) /\ invocations[r] = None
      /\ step = "insert_uploaded" => packages[f][n] # None
  BY <1>1 DEF Reads, ApiTypeOK, RegistryTypeOK
<1>3. CASE versions[f][n] # None
  BY <1>1, <1>3, Refused DEF insert_version, Steps
<1>4. CASE versions[f][n] = None
  <2>1. /\ pc' = [pc EXCEPT ![r] = "refresh"] /\ versions' = [versions EXCEPT ![f][n] = row]
        /\ UNCHANGED <<functions, packages>> /\ Proceed(r, "refresh", f, n)
    BY <1>4 DEF insert_version, Proceed
  <2>11. local' = local
    BY <1>1, <2>1 DEF Proceed, ApiTypeOK, RegistryTypeOK
  <2>2. row \in VersionRow /\ row # None /\ row.package_hash = r /\ row.package_uri = uri
    BY RegistryAssumption DEF VersionRow
  <2> HIDE DEF row
  <2>3. versions \in [Functions -> [1..MaxVersion -> VersionRow \cup {None}]]
    BY <1>1 DEF ApiTypeOK, RegistryTypeOK
  <2>4. /\ versions' \in [Functions -> [1..MaxVersion -> VersionRow \cup {None}]]
        /\ versions'[f][n] = row
        /\ \A g \in Functions, m \in 1..MaxVersion :
             g # f \/ m # n => versions'[g][m] = versions[g][m]
    BY <1>2, <2>1, <2>2, <2>3, ZenonT(60)
  <2>5. ApiTypeOK'
    BY <1>1, <2>1, <2>4, <2>11, ZenonT(60) DEF ApiTypeOK, RegistryTypeOK, Steps
  <2>6. Moves(r) /\ pc'[r] = "refresh" /\ Grows /\ Forward(r)
    BY <1>1, <1>4, <2>1, <2>4, <2>11 DEF Moves, Grows, ApiTypeOK, Forward, Stored
  <2>7. VersionsContiguous'
    <3>1. \A g \in Functions : Numbers(g)' = IF g = f THEN Numbers(g) \cup {n} ELSE Numbers(g)
      BY <1>2, <2>2, <2>4 DEF Numbers
    <3>2. VersionsContiguous
      BY DEF ApiInvariant
    <3> DEFINE k == Cardinality(Numbers(f))
    <3>3. k \in Nat /\ Numbers(f) = 1..k /\ n \notin Numbers(f)
      BY <1>2, <1>4, <3>2, LatestVersion, ZenonT(60) DEF Numbers
    <3>4. n \notin Numbers(f)
      BY <3>3
    <3>5. Cardinality(Numbers(f) \cup {n}) = k + 1
      <4>1. IsFiniteSet(Numbers(f))
        BY <3>3, UpTo, ZenonT(60)
      <4>. QED
        BY <3>4, <4>1, FS_AddElement, ZenonT(60)
    <3> HIDE DEF k
    <3>6. n = k + 1
      <4>1. n \in Nat /\ n >= 1 /\ k \in Nat /\ n \notin 1..k /\ 1..(n - 1) \subseteq 1..k
        BY <1>2, <3>3, RegistryAssumption
      <4> HIDE DEF n
      <4>2. n > k
        BY <4>1
      <4>3. n - 1 \in 1..(n - 1) \/ n = 1
        BY <4>1
      <4>. QED
        BY <4>1, <4>2, <4>3
    <3>7. Numbers(f) \cup {n} = 1..(k + 1)
      BY <3>3, <3>6
    <3>. QED
      BY <1>2, <2>1, <3>1, <3>2, <3>5, <3>7, ZenonT(60) DEF VersionsContiguous
  <2>8. HasFile'
    BY <1>2, <2>1, <2>2, <2>4, FilesThere DEF HasFile, Numbers
  <2>9. KeysAreUnique'
    BY DEF ApiInvariant, KeysAreUnique
  <2>10. Reads(r)' /\ Created(r)' /\ Runs(r)'
    BY <1>2, <2>1, <2>2, <2>4, <2>6, <2>11, ZenonT(60) DEF Reads, Created, Runs
  <2>12. ASSUME NEW g \in Functions, NEW m \in 1..MaxVersion, g = f, m = n
         PROVE  Known(g, m)'
    <3> DEFINE file == packages[f][n]
    <3>1. file # None => /\ file.of \in Requests
                         /\ local[file.of] = [f |-> f, n |-> n]
                         /\ pc[file.of] \in Stored
                         /\ ~file.whole => pc[file.of] = "gone"
      <4>1. file # None => file.of \in Requests
        BY <1>1, <1>2, RowTypes, ZenonT(60) DEF ApiTypeOK, RegistryTypeOK
      <4>. QED
        BY <1>2, <4>1, ZenonT(60) DEF ApiInvariant, FilesAreKnown, Stored
    <3>2. file # None => /\ local'[file.of] = [f |-> f, n |-> n]
                         /\ pc'[file.of] \in Stored
                         /\ ~file.whole => pc'[file.of] = "gone" /\ file.of # r
      BY <1>1, <2>6, <2>11, <3>1 DEF Moves, Stored
    <3>3. /\ versions'[f][n].package_hash = r /\ packages'[f][n] = packages[f][n]
          /\ pc'[r] \in {"refresh", "201", "gone"}
      BY <2>1, <2>2, <2>4, <2>6
    <3>. QED
      <4>1. /\ versions'[g][m].package_hash = r /\ packages'[g][m] = packages[g][m]
            /\ packages[g][m] = file
        BY <2>12, <3>3, ZenonT(60)
      <4>2. file # None => /\ local'[file.of] = [f |-> g, n |-> m]
                           /\ pc'[file.of] \in Stored
                           /\ ~file.whole => pc'[file.of] = "gone" /\ file.of # r
        BY <2>12, <3>2, ZenonT(60)
      <4> HIDE DEF file
      <4>. QED
        BY <3>3, <4>1, <4>2, ZenonT(60) DEF Known
  <2>13. \A g \in Functions, m \in 1..MaxVersion : Known(g, m)'
    <3> SUFFICES ASSUME NEW g \in Functions, NEW m \in 1..MaxVersion, g # f \/ m # n
                 PROVE  Known(g, m)'
      BY <2>12, ZenonT(60)
    <3>. QED
      <4>1. versions'[g][m] = versions[g][m] /\ packages'[g][m] = packages[g][m]
        BY <2>1, <2>4, ZenonT(60)
      <4>. QED
        BY <2>6, <4>1, KnownKept, ZenonT(60)
  <2>. QED
    BY <2>5, <2>6, <2>7, <2>8, <2>9, <2>10, <2>13, OneMoves, ZenonT(60)
<1>. QED
  BY <1>3, <1>4

--------------------------------------------------------------------------------
(* The invoke requests. *)

(* The invocation that is already there for the key is answered. *)
LEMMA AnswerExisting_Api ==
  ASSUME ApiInvariant, NEW r \in Requests, pc[r] \in {"idle", "insert_invocation"},
         NEW k, AnswerExisting(r, k),
         call' \in [Requests -> Call], call'[r].key = k,
         \A s \in Requests \ {r} : call'[s] = call[s],
         UNCHANGED <<functions, versions, packages, invocations>>
  PROVE  ApiInvariant'
<1>1. ApiTypeOK /\ Reads(r) /\ invocations[r] = None
  BY ZenonT(60) DEF ApiInvariant, Reads
<1>2. PICK i \in Requests :
        /\ invocations[i] # None /\ invocations[i].key = k
        /\ pc' = [pc EXCEPT ![r] = "202"] /\ UNCHANGED local
        /\ result' = [result EXCEPT ![r] = i]
  BY ZenonT(60) DEF AnswerExisting, get_invocation_by_idempotency_key, Answer
<1>3. ApiTypeOK'
  BY <1>1, <1>2 DEF ApiTypeOK, RegistryTypeOK
<1>4. Moves(r) /\ pc'[r] = "202" /\ result'[r] = i
  BY <1>1, <1>2 DEF Moves, ApiTypeOK
<1>5. Reads(r)'
  BY <1>1, <1>2, <1>4, ZenonT(60) DEF Reads
<1>6. Forward(r)
  BY DEF Forward, Stored
<1>. QED
  BY <1>1, <1>3, <1>4, <1>5, <1>6, NoRow

(* A request to invoke starts without a row of its own. *)
LEMMA invoke_function_Api ==
  ASSUME ApiInvariant, NEW r \in Requests, NEW f \in Functions,
         NEW k \in Keys \cup {None}, NEW v \in 0..MaxVersion, invoke_function(r, f, k, v)
  PROVE  ApiInvariant'
<1> DEFINE latest == Max(Numbers(f) \cup {0})
<1>1. /\ pc[r] = "idle" /\ call' = [call EXCEPT ![r] = [key |-> k, version |-> v, seen |-> latest]]
      /\ UNCHANGED <<functions, versions, packages, invocations>>
      /\ AnswerExisting(r, k) \/ (Proceed(r, "resolve", f, 0) /\ UNCHANGED result)
  BY DEF invoke_function
<1>2. VersionsContiguous /\ call \in [Requests -> Call] /\ Numbers(f) \subseteq 1..MaxVersion
  BY DEF ApiInvariant, ApiTypeOK, Numbers
<1>3. latest \in Numbers(f) \cup {0}
  BY <1>2, LatestVersion
<1> HIDE DEF latest
<1>4. latest \in 0..MaxVersion /\ 0 \in 0..MaxVersion
  BY <1>2, <1>3, RegistryAssumption
<1>5. /\ call' \in [Requests -> Call] /\ call'[r].key = k /\ call'[r].seen = latest
      /\ \A s \in Requests \ {r} : call'[s] = call[s]
  BY <1>1, <1>2, <1>4 DEF Call
<1>6. CASE AnswerExisting(r, k)
  BY <1>1, <1>5, <1>6, AnswerExisting_Api
<1>7. CASE Proceed(r, "resolve", f, 0) /\ UNCHANGED result
  BY <1>1, <1>3, <1>4, <1>5, <1>7, GoesOn, ZenonT(60)
<1>. QED
  BY <1>1, <1>6, <1>7

(* The version an invocation gets is one that exists. *)
LEMMA resolve_function_version_Api ==
  ASSUME ApiInvariant, NEW r \in Requests, resolve_function_version(r)
  PROVE  ApiInvariant'
<1> DEFINE f == local[r].f
           n == requested_version(r)
<1>1. /\ Reads(r) /\ pc[r] = "resolve" /\ VersionsContiguous /\ call \in [Requests -> Call]
      /\ UNCHANGED <<functions, versions, packages, invocations, call, result>>
  BY ZenonT(60) DEF ApiInvariant, ApiTypeOK, resolve_function_version
<1>2. f \in Functions /\ call[r].seen \in Numbers(f) \cup {0}
  BY <1>1 DEF Reads
<1>3. CASE Answer(r, "404")
  BY <1>1, <1>3, Refused DEF InvokeSteps
<1>4. CASE n \in Numbers(f) /\ Proceed(r, "insert_invocation", f, n)
  <2>1. call[r].version # 0 => n = call[r].version
    BY DEF requested_version
  <2>2. call[r].version = 0 => n >= call[r].seen
    <3> DEFINE k == Cardinality(Numbers(f))
    <3>1. k \in Nat /\ Numbers(f) = 1..k /\ Max(Numbers(f) \cup {0}) = k
      BY <1>1, <1>2, LatestVersion
    <3>2. call[r].version = 0 => n = k
      BY <3>1 DEF requested_version
    <3> HIDE DEF k, n
    <3>. QED
      BY <1>2, <3>1, <3>2
  <2>3. n \in 0..MaxVersion
    BY <1>4, RegistryAssumption DEF Numbers
  <2> HIDE DEF n
  <2>. QED
    BY <1>1, <1>2, <1>4, <2>1, <2>2, <2>3, GoesOn, ZenonT(60)
<1>. QED
  BY <1>3, <1>4, ZenonT(60) DEF resolve_function_version

(* The insert of an invocation respects its idempotency key. *)
LEMMA insert_invocation_Api ==
  ASSUME ApiInvariant, NEW r \in Requests, insert_invocation(r)
  PROVE  ApiInvariant'
<1> DEFINE k == call[r].key
           row == [f |-> local[r].f, n |-> local[r].n, key |-> k]
<1>1. /\ ApiTypeOK /\ Reads(r) /\ pc[r] = "insert_invocation" /\ call \in [Requests -> Call]
      /\ UNCHANGED <<functions, versions, packages, call>>
  BY ZenonT(60) DEF ApiInvariant, ApiTypeOK, insert_invocation
<1>2. CASE AnswerExisting(r, k) /\ UNCHANGED invocations
  <2>1. call' \in [Requests -> Call] /\ call'[r].key = k
    BY <1>1
  <2>. QED
    BY <1>1, <1>2, <2>1, AnswerExisting_Api
<1>3. CASE /\ get_invocation_by_idempotency_key(k) = {}
           /\ Proceed(r, "refresh_invocation", local[r].f, local[r].n)
           /\ UNCHANGED result
           /\ invocations' = [invocations EXCEPT ![r] = row]
  <2>1. pc' = [pc EXCEPT ![r] = "refresh_invocation"] /\ UNCHANGED local
    BY <1>1, <1>3 DEF Proceed, ApiTypeOK, RegistryTypeOK
  <2>2. /\ local[r].f \in Functions /\ local[r].n \in Numbers(local[r].f)
        /\ local[r].n \in 1..MaxVersion /\ invocations[r] = None
        /\ call[r].version # 0 => local[r].n = call[r].version
        /\ call[r].version = 0 => local[r].n >= call[r].seen
    BY <1>1, ZenonT(60) DEF Reads, Numbers
  <2>3. row \in InvocationRow /\ row # None
    BY <1>1, <2>2, ApiAssumption DEF InvocationRow, Call
  <2>4. row.f = local[r].f /\ row.n = local[r].n /\ row.key = k
    OBVIOUS
  <2> HIDE DEF row
  <2>5. invocations \in [Requests -> InvocationRow \cup {None}]
    BY <1>1 DEF ApiTypeOK
  <2>6. /\ invocations' \in [Requests -> InvocationRow \cup {None}] /\ invocations'[r] = row
        /\ \A i \in Requests \ {r} : invocations'[i] = invocations[i]
    BY <1>3, <2>3, <2>5
  <2>7. ApiTypeOK'
    BY <1>1, <1>3, <2>1, <2>6, ZenonT(60) DEF ApiTypeOK, RegistryTypeOK, InvokeSteps
  <2>8. Moves(r) /\ pc'[r] = "refresh_invocation" /\ Grows /\ Forward(r)
    BY <1>1, <1>3, <2>1, <2>2, <2>6 DEF Moves, Grows, ApiTypeOK, Forward, Stored
  <2>9. VersionsContiguous' /\ HasFile'
    BY <1>1, FilesThere, ZenonT(60) DEF ApiInvariant, VersionsContiguous, HasFile, Numbers
  <2>14. \A f \in Functions, n \in 1..MaxVersion : Known(f, n)'
    BY <1>1, <2>8, KnownKept
  <2>10. KeysAreUnique'
    <3>1. \A i \in Requests : invocations[i] # None /\ k # None => invocations[i].key # k
      BY <1>3 DEF get_invocation_by_idempotency_key
    <3>2. KeysAreUnique
      BY DEF ApiInvariant
    <3>. QED
      BY <2>4, <2>6, <3>1, <3>2 DEF KeysAreUnique
  <2>11. Numbers(local[r].f)' = Numbers(local[r].f)
    BY <1>1, <2>1 DEF Numbers
  <2>12. Reads(r)' /\ Created(r)'
    BY <1>1, <2>1, <2>2, <2>3, <2>4, <2>6, <2>8, ZenonT(60) DEF Reads, Created
  <2>13. Runs(r)'
    BY <1>1, <2>1, <2>2, <2>4, <2>6, <2>11, ZenonT(60) DEF Runs, Numbers
  <2>. QED
    BY <2>7, <2>8, <2>9, <2>10, <2>12, <2>13, <2>14, OneMoves, ZenonT(60)
<1>. QED
  BY <1>2, <1>3 DEF insert_invocation

(* The answer to a request whose row is committed. *)
LEMMA refresh_Api ==
  ASSUME ApiInvariant, NEW r \in Requests,
         \/ refresh(r) /\ UNCHANGED <<invocations, call, result>>
         \/ refresh_invocation(r)
  PROVE  ApiInvariant'
<1>1. ApiTypeOK /\ Reads(r)
  BY DEF ApiInvariant
<1>2. CASE refresh(r) /\ UNCHANGED <<invocations, call, result>>
  <2>1. /\ pc' = [pc EXCEPT ![r] = "201"] /\ pc[r] = "refresh"
        /\ UNCHANGED <<functions, versions, packages, local, invocations, call, result>>
    BY <1>2 DEF refresh, Answer
  <2>2. ApiTypeOK'
    BY <1>1, <2>1, ZenonT(60) DEF ApiTypeOK, RegistryTypeOK, Answers
  <2>3. Moves(r) /\ pc'[r] = "201" /\ Forward(r)
    BY <1>1, <2>1 DEF Moves, Forward, Stored, ApiTypeOK
  <2>4. Reads(r)'
    BY <1>1, <2>1, <2>3 DEF Reads
  <2>. QED
    BY <2>1, <2>2, <2>3, <2>4, NoRow
<1>3. CASE refresh_invocation(r)
  <2>1. /\ pc' = [pc EXCEPT ![r] = "202"] /\ pc[r] = "refresh_invocation"
        /\ result' = [result EXCEPT ![r] = r]
        /\ UNCHANGED <<functions, versions, packages, local, invocations, call>>
    BY <1>3 DEF refresh_invocation, Answer
  <2>2. ApiTypeOK'
    BY <1>1, <2>1 DEF ApiTypeOK, RegistryTypeOK
  <2>3. Moves(r) /\ pc'[r] = "202" /\ result'[r] = r /\ Forward(r)
    BY <1>1, <2>1 DEF Moves, Forward, Stored, ApiTypeOK
  <2>4. Reads(r)'
    BY <1>1, <2>1, <2>3 DEF Reads
  <2>. QED
    BY <2>1, <2>2, <2>3, <2>4, NoRow
<1>. QED
  BY <1>2, <1>3

--------------------------------------------------------------------------------
(* Every step keeps ApiInvariant. *)
LEMMA Next_Api ==
  ASSUME ApiInvariant, [ApiNext]_apiVars
  PROVE  ApiInvariant'
<1>1. ASSUME RegistryNext, UNCHANGED <<invocations, call, result>>
      PROVE  ApiInvariant'
  <2>1. PICK r \in Requests :
          \/ \E f \in Functions : \/ create_function(r, f)
                                  \/ create_function_version(r, f)
                                  \/ upload_function_version(r, f)
          \/ insert_function(r)
          \/ store_function_package(r)
          \/ insert_version(r, "insert_version", "elsewhere")
          \/ insert_version(r, "insert_uploaded", "uploaded")
          \/ refresh(r)
          \/ request_gone(r)
    BY <1>1 DEF RegistryNext
  <2>2. CASE request_gone(r)
    BY <1>1, <2>2, Refused DEF request_gone, Steps
  <2>. QED
    BY <1>1, <2>1, <2>2, create_function_Api, take_version_number_Api, insert_function_Api,
      store_function_package_Api, insert_version_Api, refresh_Api
      DEF create_function_version, upload_function_version
<1>2. ASSUME NEW r \in Requests, invoke_gone(r)
      PROVE  ApiInvariant'
  BY <1>2, Refused DEF invoke_gone, InvokeSteps
<1>3. CASE UNCHANGED apiVars
  <2>1. UNCHANGED <<functions, versions, packages, pc, local, invocations, call, result>>
    BY <1>3 DEF apiVars, registryVars
  <2>2. ApiTypeOK' /\ \A r \in Requests : Reads(r)'
    BY <2>1, ZenonT(60) DEF ApiInvariant, ApiTypeOK, RegistryTypeOK, Reads, Numbers
  <2>3. VersionsContiguous' /\ CreatedIsRecorded'
    BY <2>1, ZenonT(60) DEF ApiInvariant, VersionsContiguous, CreatedIsRecorded, Numbers
  <2>5. PackageIsOwnOrOverwritten' /\ FilesAreKnown'
    BY <2>1, ZenonT(60) DEF ApiInvariant, PackageIsOwnOrOverwritten, FilesAreKnown, Numbers
  <2>4. RunsDeployedVersion' /\ KeysAreUnique'
    BY <2>1 DEF ApiInvariant, RunsDeployedVersion, KeysAreUnique, Numbers
  <2>. QED
    BY <2>2, <2>3, <2>4, <2>5 DEF ApiInvariant
<1>. QED
  BY <1>1, <1>2, <1>3, invoke_function_Api, resolve_function_version_Api,
    insert_invocation_Api, refresh_Api DEF ApiNext

(* What a request has read stays true until it acts on it, also the row    *)
(* that it has committed and not yet answered for, and every file and row  *)
(* is traced to the request that wrote it.                                 *)
THEOREM ApiInvariantHolds == ApiSpec => []ApiInvariant
<1>1. ApiInit => ApiInvariant
  <2> SUFFICES ASSUME ApiInit PROVE ApiInvariant
    OBVIOUS
  <2>1. \A f \in Functions : Numbers(f) = {}
    BY DEF ApiInit, RegistryInit, Numbers
  <2>2. 1..Cardinality({}) = {}
    BY FS_EmptySet
  <2>3. ApiTypeOK
    BY RegistryAssumption DEF ApiInit, RegistryInit, ApiTypeOK, RegistryTypeOK, Call,
      Steps
  <2>4. VersionsContiguous /\ PackageIsOwnOrOverwritten
    BY <2>1, <2>2, ZenonT(60) DEF VersionsContiguous, PackageIsOwnOrOverwritten
  <2>5. FilesAreKnown
    BY DEF ApiInit, RegistryInit, FilesAreKnown
  <2>. QED
    BY <2>3, <2>4, <2>5 DEF ApiInit, RegistryInit, ApiInvariant, CreatedIsRecorded,
      RunsDeployedVersion, Reads, KeysAreUnique
<1>2. ApiInvariant /\ [ApiNext]_apiVars => ApiInvariant'
  BY Next_Api
<1>. QED
  BY <1>1, <1>2, PTL DEF ApiSpec

(* The versions of a function are numbered without a gap, however many     *)
(* requests create them at once and whichever are refused or cut off.      *)
THEOREM VersionsContiguousHolds == ApiSpec => []VersionsContiguous
<1>1. ApiInvariant => VersionsContiguous
  BY DEF ApiInvariant
<1>. QED
  BY <1>1, ApiInvariantHolds, PTL

(* The package of an uploaded version is whole and its own, wherever the   *)
(* server stopped, unless another upload that took the same number has     *)
(* overwritten it.                                                         *)
THEOREM PackageIsOwnOrOverwrittenHolds == ApiSpec => []PackageIsOwnOrOverwritten
<1>1. ApiInvariant => PackageIsOwnOrOverwritten
  BY DEF ApiInvariant
<1>. QED
  BY <1>1, ApiInvariantHolds, PTL

(* A request that was told 201 is the one that the version records.        *)
THEOREM CreatedIsRecordedHolds == ApiSpec => []CreatedIsRecorded
<1>1. ApiInvariant => CreatedIsRecorded
  BY DEF ApiInvariant
<1>. QED
  BY <1>1, ApiInvariantHolds, PTL

(* An invocation runs a version that was deployed, the one asked for or    *)
(* one no older than the latest when the request arrived.                  *)
THEOREM RunsDeployedVersionHolds == ApiSpec => []RunsDeployedVersion
<1>1. ApiInvariant => RunsDeployedVersion
  BY ZenonT(60) DEF ApiInvariant
<1>. QED
  BY <1>1, ApiInvariantHolds, PTL

(* All requests with one idempotency key are answered with one invocation, *)
(* also with one whose own answer was lost.                                *)
THEOREM OneInvocationPerKeyHolds == ApiSpec => []OneInvocationPerKey
<1>1. ApiInvariant => OneInvocationPerKey
  BY DEF ApiInvariant, OneInvocationPerKey, Reads, KeysAreUnique
<1>. QED
  BY <1>1, ApiInvariantHolds, PTL

--------------------------------------------------------------------------------

(* Products of the amounts of tokens and times are natural numbers. *)
LEMMA Products ==
  ASSUME NEW a \in Nat, NEW b \in Nat
  PROVE  a * b \in Nat
  OBVIOUS

(* One more millisecond refills capacity more units. *)
LEMMA OneMore ==
  ASSUME NEW a \in Int, NEW b \in Int
  PROVE  (a + 1) * b = a * b + b
  OBVIOUS

(* More time refills no less. *)
LEMMA Monotone ==
  ASSUME NEW a \in Nat, NEW b \in Nat, NEW c \in Nat, a <= b
  PROVE  a * c <= b * c
<1>1. b - a \in Nat
  OBVIOUS
<1>2. (b - a) * c \in Nat
  BY <1>1, Products
<1>3. b * c = a * c + (b - a) * c
  OBVIOUS
<1> QED
  BY <1>2, <1>3, Products

(* A clock that was set back shows no more time since the last write. *)
LEMMA EarlierIsLess ==
  ASSUME NEW a \in Nat, NEW b \in Nat, NEW u \in Nat, a < b
  PROVE  /\ (IF a > u THEN a - u ELSE 0) \in Nat
         /\ (IF a > u THEN a - u ELSE 0) <= (IF b > u THEN b - u ELSE 0)
  OBVIOUS

(* The quotient of a division, by its bounds. *)
LEMMA Quotient ==
  ASSUME NEW a \in Nat, NEW b \in Nat \ {0}
  PROVE  /\ (a \div b) \in Nat
         /\ b * (a \div b) <= a /\ a < b * (a \div b) + b
  BY Z3

(* Division rounded up is the least number of milliseconds, each worth c,  *)
(* that make up for x.                                                     *)
LEMMA RoundedUp ==
  ASSUME NEW x \in Nat, NEW c \in Nat \ {0}, NEW e \in Nat
  PROVE  e >= (x + c - 1) \div c <=> e * c >= x
<1> DEFINE q == (x + c - 1) \div c
<1>1. q \in Nat /\ c * q <= x + c - 1 /\ x + c - 1 < c * q + c
  BY Quotient
<1> HIDE DEF q
<1>2. ASSUME e >= q PROVE e * c >= x
  <2>1. (e - q) * c >= 0
    BY <1>1, <1>2
  <2>2. e * c = q * c + (e - q) * c
    BY <1>1
  <2> QED
    BY <1>1, <2>1, <2>2
<1>3. ASSUME e < q PROVE e * c < x
  <2>1. (q - e - 1) * c >= 0
    BY <1>1, <1>3
  <2>2. q * c = e * c + c + (q - e - 1) * c
    BY <1>1
  <2>3. q * c = c * q /\ e * c \in Nat /\ q * c \in Nat
    BY <1>1
  <2> QED
    BY <1>1, <2>1, <2>2, <2>3
<1> QED
  BY <1>1, <1>2, <1>3 DEF q

(* What is too short a wait, and what is long enough, when the script says *)
(* w: with the last millisecond of it more or less.                        *)
LEMMA Waited ==
  ASSUME NEW x \in Nat, NEW c \in Nat \ {0}, NEW e \in Nat,
         NEW w \in {(x + c - 1) \div c, x \div c + 1}
  PROVE  /\ w \in Nat
         /\ e + 1 < w => e * c < x
         /\ e > w => e * c > x
<1> DEFINE p == (x + c - 1) \div c
           q == x \div c
<1>1. /\ p \in Nat /\ q \in Nat
      /\ c * q <= x /\ x < c * q + c
  BY Quotient
<1>2. e >= p <=> e * c >= x
  BY RoundedUp
<1>3. e > 0 => (e - 1 >= p <=> (e - 1) * c >= x)
  BY RoundedUp
<1>4. w \in {p, q + 1}
  OBVIOUS
<1> HIDE DEF p, q
<1>5. e * c \in Nat /\ q * c \in Nat /\ c * q = q * c
  BY <1>1, Products
<1>6. e * c = (e - 1) * c + c
  OBVIOUS
<1>7. CASE w = p
  BY <1>1, <1>2, <1>3, <1>5, <1>6, <1>7
<1>8. CASE w = q + 1
  <2>1. e < q => (e + 1) * c <= q * c
    BY <1>1, Monotone
  <2>2. (e + 1) * c = e * c + c
    OBVIOUS
  <2>3. e > q + 1 => (q + 1) * c <= e * c
    BY <1>1, Monotone
  <2>4. (q + 1) * c = q * c + c
    BY <1>1
  <2>5. e < q => e * c < x
    BY <1>1, <1>5, <2>1, <2>2
  <2>6. ASSUME e > q + 1 PROVE e * c > x
    <3>1. e * c >= q * c + c
      BY <2>3, <2>4, <2>6
    <3> QED
      BY <1>1, <1>5, <3>1
  <2> QED
    BY <1>1, <1>8, <2>5, <2>6
<1> QED
  BY <1>4, <1>7, <1>8

(* What the script finds in the bucket is at most capacity tokens. *)
LEMMA RefilledType ==
  ASSUME TypeOK
  PROVE  /\ refilled \in 0..Full /\ Full \in Nat
         /\ elapsed_ms \in Nat /\ elapsed_ms * capacity \in Nat
         /\ elapsed_time * capacity \in Nat
<1>1. Full \in Nat
  BY LimiterAssumption, Products DEF Full
<1>2. elapsed_ms \in Nat
  BY DEF elapsed_ms, TypeOK
<1>3. elapsed_ms * capacity \in Nat /\ elapsed_time * capacity \in Nat
  BY <1>2, LimiterAssumption, Products DEF TypeOK
<1> QED
  BY <1>1, <1>2, <1>3 DEF refilled, TypeOK

(* A request falls short when the bucket holds less than it costs, or      *)
(* exactly that.                                                           *)
LEMMA ShortOrExact ==
  ASSUME TypeOK, NEW cost \in 1..capacity, falls_short(cost)
  PROVE  /\ cost * period_ms \in Nat
         /\ cost * period_ms - refilled \in Nat
<1>1. refilled \in 0..Full /\ Full \in Nat /\ elapsed_ms * capacity \in Nat
  BY RefilledType
<1>2. cost * period_ms \in Nat
  BY LimiterAssumption, Products
<1>3. cost * period_ms <= Full
  BY LimiterAssumption, Monotone DEF Full
<1>4. CASE refilled < cost * period_ms
  BY <1>1, <1>2, <1>4
<1>5. CASE /\ now_ms < expires_at
           /\ tokens + elapsed_ms * capacity = cost * period_ms
  <2>1. refilled = cost * period_ms
    BY <1>1, <1>2, <1>3, <1>5 DEF refilled, TypeOK
  <2> QED
    BY <1>2, <2>1
<1> QED
  BY <1>4, <1>5 DEF falls_short

(* What a refused request is told: a time of at least a millisecond. *)
LEMMA ToldToWait ==
  ASSUME TypeOK, NEW cost \in 1..capacity, falls_short(cost),
         NEW ms \in retry_after_ms(cost)
  PROVE  /\ ms \in Nat \ {0}
         /\ LET missing == cost * period_ms - refilled
            IN  ms \in {(missing + capacity - 1) \div capacity,
                        missing \div capacity + 1}
<1> DEFINE missing == cost * period_ms - refilled
<1>1. missing \in Nat
  BY ShortOrExact
<1>2. /\ ms \in {(missing + capacity - 1) \div capacity, missing \div capacity + 1}
      /\ ms > 0
  BY DEF retry_after_ms
<1> HIDE DEF missing
<1>3. ms \in Nat
  BY <1>1, <1>2, Waited, LimiterAssumption
<1> QED
  BY <1>2, <1>3 DEF missing

(* Whole seconds, rounded up, are not shorter than the milliseconds, and   *)
(* less than a second longer.                                              *)
LEMMA HeaderIsClose ==
  ASSUME NEW ms \in Nat \ {0}
  PROVE  /\ retry_after_seconds(ms) * Second \in Nat
         /\ ms <= retry_after_seconds(ms) * Second
         /\ retry_after_seconds(ms) * Second < ms + Second
<1> DEFINE s == (ms + Second - 1) \div Second
<1>1. ms + Second - 1 \in Nat
  BY LimiterAssumption
<1>2. s \in Nat /\ Second * s <= ms + Second - 1
  BY <1>1, LimiterAssumption, Quotient
<1>3. s * Second >= ms
  BY <1>2, LimiterAssumption, RoundedUp
<1>4. retry_after_seconds(ms) = IF s > 1 THEN s ELSE 1
  BY DEF retry_after_seconds
<1> HIDE DEF s
<1>5. s # 0
  BY <1>3, LimiterAssumption
<1>6. retry_after_seconds(ms) = s
  BY <1>2, <1>4, <1>5
<1>7. s * Second \in Nat /\ s * Second = Second * s
  BY <1>2, LimiterAssumption, Products
<1> QED
  BY <1>2, <1>3, <1>6, <1>7, LimiterAssumption

(* Writing the bucket back leaves exactly what was written. *)
LEMMA WrittenBack ==
  ASSUME BucketInvariant, NEW t \in 0..Full, WriteBucket(t)
  PROVE  /\ refilled' = t
         /\ BucketLifetime'
         /\ tokens' = t /\ updated_at_ms' = now_ms /\ now_ms' = now_ms
         /\ expires_at' \in Nat /\ elapsed_time' = elapsed_time
<1>1. now_ms' < expires_at' /\ expires_at' \in Nat
  BY LimiterAssumption DEF WriteBucket, BucketInvariant, TypeOK
<1>2. (elapsed_ms)' = 0
  BY DEF WriteBucket, elapsed_ms, BucketInvariant, TypeOK
<1>3. (elapsed_ms)' * capacity = 0
  BY <1>2, LimiterAssumption
<1>4. Full' = Full
  BY DEF Full
<1>5. tokens' = t
  BY DEF WriteBucket
<1>6. Full \in Nat
  BY RefilledType DEF BucketInvariant
<1>7. refilled' = IF \/ now_ms' >= expires_at'
                     \/ tokens' + (elapsed_ms)' * capacity >= Full
                  THEN Full ELSE tokens' + (elapsed_ms)' * capacity
  BY <1>4 DEF refilled
<1>8. refilled' = t
  BY <1>1, <1>3, <1>5, <1>6, <1>7 DEF BucketInvariant, TypeOK, WriteBucket
<1> QED
  BY <1>1, <1>8 DEF WriteBucket, BucketLifetime

(* A millisecond refills at most capacity units and takes none away, also  *)
(* when the bucket expires in it: it is then two periods old, and full.    *)
LEMMA TickRefills ==
  ASSUME BucketInvariant, Tick
  PROVE  /\ TypeOK'
         /\ refilled' \in 0..Full
         /\ refilled <= refilled'
         /\ refilled' <= refilled + capacity
<1>0. /\ refilled \in 0..Full /\ Full \in Nat
      /\ elapsed_ms \in Nat /\ elapsed_ms * capacity \in Nat
  BY RefilledType DEF BucketInvariant
<1>t. TypeOK /\ BucketLifetime
  BY DEF BucketInvariant
<1>f. Full' = Full
  BY DEF Full
<1>2. (elapsed_ms)' \in {elapsed_ms, elapsed_ms + 1}
  BY <1>t DEF Tick, TypeOK, elapsed_ms
<1>3. /\ (elapsed_ms)' * capacity \in Nat
      /\ elapsed_ms * capacity <= (elapsed_ms)' * capacity
      /\ (elapsed_ms)' * capacity <= elapsed_ms * capacity + capacity
  <2>1. (elapsed_ms + 1) * capacity = elapsed_ms * capacity + capacity
    BY <1>0, LimiterAssumption, OneMore
  <2>2. CASE (elapsed_ms)' = elapsed_ms
    BY <1>0, <2>2, LimiterAssumption
  <2>3. CASE (elapsed_ms)' = elapsed_ms + 1
    BY <1>0, <2>1, <2>3, LimiterAssumption
  <2> QED
    BY <1>2, <2>2, <2>3
<1>4. now_ms' >= expires_at' => refilled' = Full
  BY <1>f DEF refilled
<1>5. ASSUME now_ms' >= expires_at', now_ms < expires_at
      PROVE  refilled >= Full - capacity
  <2>1. elapsed_ms >= 2 * period_ms - 1
    BY <1>t, <1>5, LimiterAssumption DEF Tick, BucketLifetime, TypeOK, elapsed_ms
  <2>2. (2 * period_ms - 1) * capacity <= elapsed_ms * capacity
    BY <1>0, <2>1, LimiterAssumption, Monotone
  <2>3. (2 * period_ms - 1) * capacity = Full + (Full - capacity)
    BY LimiterAssumption DEF Full
  <2>4. Full + (Full - capacity) >= Full - capacity
    BY <1>0, LimiterAssumption
  <2> QED
    BY <1>0, <1>t, <2>2, <2>3, <2>4, LimiterAssumption DEF refilled, TypeOK
<1>6. refilled' <= refilled + capacity
  BY <1>0, <1>t, <1>f, <1>3, <1>4, <1>5, LimiterAssumption DEF refilled, Tick, TypeOK
<1>7. TypeOK'
  BY <1>t, <1>f, LimiterAssumption DEF Tick, TypeOK
<1>8. refilled' \in 0..Full
  BY <1>7, <1>f, <1>0, <1>3 DEF refilled, TypeOK
<1>9. refilled <= refilled'
  BY <1>0, <1>t, <1>f, <1>3, <1>4, <1>8 DEF refilled, Tick, TypeOK
<1> QED
  BY <1>6, <1>7, <1>8, <1>9

(* A clock that is set back takes tokens away, if anything. *)
LEMMA SetBackLoses ==
  ASSUME BucketInvariant, ClockSetBack
  PROVE  /\ TypeOK'
         /\ refilled' \in 0..Full
         /\ refilled' <= refilled
<1>0. /\ refilled \in 0..Full /\ Full \in Nat
      /\ elapsed_ms \in Nat /\ elapsed_ms * capacity \in Nat
  BY RefilledType DEF BucketInvariant
<1>t. TypeOK
  BY DEF BucketInvariant
<1>f. Full' = Full
  BY DEF Full
<1>1. TypeOK'
  BY <1>t, <1>f, LimiterAssumption DEF ClockSetBack, TypeOK, NoHint
<1>2. (elapsed_ms)' \in Nat /\ (elapsed_ms)' <= elapsed_ms
  <2>1. /\ now_ms \in Nat /\ now_ms' \in Nat /\ now_ms' < now_ms
        /\ updated_at_ms \in Nat /\ updated_at_ms' = updated_at_ms
    BY <1>t, LimiterAssumption DEF ClockSetBack, TypeOK
  <2>2. (elapsed_ms)' = IF now_ms' > updated_at_ms
                        THEN now_ms' - updated_at_ms ELSE 0
    BY <2>1 DEF elapsed_ms
  <2>3. elapsed_ms = IF now_ms > updated_at_ms
                     THEN now_ms - updated_at_ms ELSE 0
    BY DEF elapsed_ms
  <2> QED
    BY <2>1, <2>2, <2>3, EarlierIsLess, ZenonT(60)
<1>3. /\ (elapsed_ms)' * capacity \in Nat
      /\ (elapsed_ms)' * capacity <= elapsed_ms * capacity
  BY <1>0, <1>2, LimiterAssumption, Monotone, Products, ZenonT(60)
<1>4. refilled' <= refilled /\ refilled' \in 0..Full
  BY <1>0, <1>t, <1>f, <1>1, <1>3 DEF refilled, ClockSetBack, TypeOK
<1> QED
  BY <1>1, <1>4

(* Every step of the limiter keeps BucketInvariant. *)
LEMMA BucketStep == BucketInvariant /\ [Next]_vars => BucketInvariant'
<1> SUFFICES ASSUME BucketInvariant, [Next]_vars PROVE BucketInvariant'
  OBVIOUS
<1>0. /\ refilled \in 0..Full /\ Full \in Nat
      /\ elapsed_ms \in Nat /\ elapsed_ms * capacity \in Nat
      /\ elapsed_time * capacity \in Nat
  BY RefilledType DEF BucketInvariant
<1>t. TypeOK /\ BucketLifetime /\ Conservation
  BY DEF BucketInvariant
<1>f. Full' = Full
  BY DEF Full
<1>1. ASSUME NEW cost \in 1..capacity, consume_allowed(cost) PROVE BucketInvariant'
  <2>1. cost * period_ms \in Nat
    BY LimiterAssumption, Products
  <2>2. refilled - cost * period_ms \in 0..Full
    BY <1>0, <1>1, <2>1 DEF consume_allowed
  <2>3. /\ refilled' = refilled - cost * period_ms /\ BucketLifetime'
        /\ tokens' = refilled - cost * period_ms
        /\ updated_at_ms' = now_ms /\ now_ms' = now_ms
        /\ expires_at' \in Nat /\ elapsed_time' = elapsed_time
    BY <1>1, <2>2, WrittenBack DEF consume_allowed
  <2>4. TypeOK'
    BY <1>1, <1>t, <1>f, <2>1, <2>2, <2>3, LimiterAssumption
       DEF TypeOK, consume_allowed, NoHint
  <2>5. Conservation'
    BY <1>0, <1>1, <1>t, <1>f, <2>1, <2>3 DEF Conservation, consume_allowed, TypeOK
  <2> QED
    BY <2>3, <2>4, <2>5 DEF BucketInvariant
<1>2. ASSUME NEW cost \in 1..capacity, consume_refused(cost) PROVE BucketInvariant'
  <2>2. /\ refilled' = refilled /\ BucketLifetime' /\ tokens' = refilled
        /\ updated_at_ms' = now_ms /\ now_ms' = now_ms
        /\ expires_at' \in Nat /\ elapsed_time' = elapsed_time
    BY <1>0, <1>2, WrittenBack DEF consume_refused
  <2>3. PICK ms \in retry_after_ms(cost) :
          hint' = [cost |-> cost, at |-> now_ms + ms,
                   header |-> now_ms + retry_after_seconds(ms) * Second]
    BY <1>2 DEF consume_refused
  <2>4. ms \in Nat \ {0}
    BY <1>2, <1>t, ToldToWait DEF consume_refused
  <2>5. retry_after_seconds(ms) * Second \in Nat
    BY <2>4, HeaderIsClose
  <2>6. hint' \in [cost : 0..capacity, at : Nat, header : Nat]
    BY <1>t, <2>3, <2>4, <2>5, LimiterAssumption DEF TypeOK
  <2>7. TypeOK'
    BY <1>0, <1>2, <1>t, <1>f, <2>2, <2>6, ZenonT(60) DEF TypeOK, consume_refused
  <2>8. Conservation'
    BY <1>0, <1>2, <1>t, <1>f, <2>2 DEF Conservation, consume_refused
  <2> QED
    BY <2>2, <2>7, <2>8 DEF BucketInvariant
<1>3. ASSUME NEW cost \in 1..capacity, consume_unavailable(cost) PROVE BucketInvariant'
  <2>1. cost * period_ms \in Nat
    BY LimiterAssumption, Products
  <2>2. PICK t \in 0..Full : t <= refilled /\ WriteBucket(t)
    BY <1>0, <1>3, <2>1 DEF consume_unavailable
  <2>3. /\ refilled' = t /\ BucketLifetime' /\ tokens' = t
        /\ updated_at_ms' = now_ms /\ now_ms' = now_ms
        /\ expires_at' \in Nat /\ elapsed_time' = elapsed_time
    BY <2>2, WrittenBack
  <2>4. TypeOK'
    BY <1>3, <1>t, <1>f, <2>3, LimiterAssumption DEF TypeOK, consume_unavailable, NoHint
  <2>5. Conservation'
    BY <1>0, <1>3, <1>t, <1>f, <2>2, <2>3 DEF Conservation, consume_unavailable, TypeOK
  <2> QED
    BY <2>3, <2>4, <2>5 DEF BucketInvariant
<1>4. CASE DeleteExpired
  \* An expired bucket is two periods old: it would be full anyway.
  <2>1. refilled = Full /\ refilled' = Full
    BY <1>0, <1>4, <1>t, <1>f DEF DeleteExpired, refilled, TypeOK
  <2> QED
    BY <1>4, <1>t, <1>f, <2>1
       DEF BucketInvariant, DeleteExpired, TypeOK, BucketLifetime, Conservation
<1>5. CASE Tick
  <2>1. elapsed_time' * capacity = elapsed_time * capacity + capacity
    BY <1>5, <1>t, LimiterAssumption, OneMore DEF Tick, TypeOK
  <2>2. TypeOK' /\ refilled' <= refilled + capacity /\ refilled' \in 0..Full
    BY <1>5, TickRefills
  <2>3. Conservation'
    <3>1. spent' = spent /\ spent \in Nat /\ capacity \in Nat
      BY <1>5, <1>t, LimiterAssumption DEF Tick, TypeOK
    <3>2. spent + refilled <= Full + elapsed_time * capacity
      BY <1>t DEF Conservation
    <3>3. spent' + refilled' <= Full' + elapsed_time' * capacity
      BY <1>0, <1>f, <2>1, <2>2, <3>1, <3>2
    <3> QED
      BY <3>3 DEF Conservation
  <2> QED
    BY <1>5, <1>t, <2>2, <2>3 DEF BucketInvariant, Tick, BucketLifetime
<1>6. CASE ClockSetBack
  <2>1. TypeOK' /\ refilled' <= refilled /\ refilled' \in 0..Full
    BY <1>6, SetBackLoses
  <2>2. Conservation'
    BY <1>0, <1>6, <1>t, <1>f, <2>1 DEF Conservation, ClockSetBack, TypeOK
  <2> QED
    BY <1>6, <1>t, <2>1, <2>2 DEF BucketInvariant, ClockSetBack, BucketLifetime
<1>7. CASE BeginWindow
  <2>1. refilled' = refilled
    BY <1>7, <1>f DEF BeginWindow, refilled, elapsed_ms
  <2>2. elapsed_time' * capacity = 0
    BY <1>7, LimiterAssumption DEF BeginWindow
  <2>3. TypeOK'
    BY <1>7, <1>t, <1>f, LimiterAssumption DEF BeginWindow, TypeOK
  <2> QED
    BY <1>0, <1>7, <1>t, <1>f, <2>1, <2>2, <2>3
       DEF BucketInvariant, BeginWindow, BucketLifetime, Conservation
<1>8. CASE UNCHANGED vars
  BY <1>8, <1>t, <1>f, ZenonT(60)
     DEF vars, BucketInvariant, TypeOK, BucketLifetime, Conservation, refilled, elapsed_ms
<1> QED
  BY <1>1, <1>2, <1>3, <1>4, <1>5, <1>6, <1>7, <1>8 DEF Next

(* The bookkeeping of the token bucket: TOKEN_BUCKET_SCRIPT keeps the      *)
(* bucket within its capacity and accounts for every token it grants.      *)
THEOREM BucketInvariantHolds == Spec => []BucketInvariant
<1>1. Init => BucketInvariant
  <2> SUFFICES ASSUME Init PROVE BucketInvariant
    OBVIOUS
  <2>1. Full \in Nat
    BY LimiterAssumption, Products DEF Full
  <2>2. refilled = Full
    BY DEF Init, refilled
  <2>3. elapsed_time * capacity = 0
    BY LimiterAssumption DEF Init
  <2> QED
    BY <2>1, <2>2, <2>3, LimiterAssumption
       DEF Init, BucketInvariant, TypeOK, BucketLifetime, Conservation, NoHint
<1> QED
  BY <1>1, BucketStep, PTL DEF Spec

(* The rate limit, for every capacity and period: no window of time sees   *)
(* more tokens granted than a full bucket and the refill of its time.      *)
THEOREM GrantBoundHolds == Spec => []GrantBound
<1>1. BucketInvariant => GrantBound
  <2> SUFFICES ASSUME BucketInvariant PROVE GrantBound
    OBVIOUS
  <2>1. refilled \in 0..Full /\ Full \in Nat /\ elapsed_time * capacity \in Nat
    BY RefilledType DEF BucketInvariant
  <2> QED
    BY <2>1 DEF BucketInvariant, Conservation, GrantBound, TypeOK
<1> QED
  BY <1>1, BucketInvariantHolds, PTL

(* The token bucket script implements the ideal bucket: every behaviour of *)
(* the stored bucket, seen through what a request would find in it, is a   *)
(* behaviour of TokenBucket.                                               *)
THEOREM LimiterImplementsBucket == Spec => ImplementsBucket
<1> USE DEF Bucket!Grant, Bucket!Refill, Bucket!Lose, Bucket!Restart
<1>1. Init => Bucket!Init
  BY DEF Init, refilled, Bucket!Init
<1>2. BucketInvariant /\ [Next]_vars => [Bucket!Next]_(Bucket!vars)
  <2> SUFFICES ASSUME BucketInvariant, [Next]_vars
               PROVE  Bucket!Next \/ UNCHANGED Bucket!vars
    OBVIOUS
  <2>0. refilled \in 0..Full /\ Full \in Nat
    BY RefilledType DEF BucketInvariant
  <2>t. TypeOK
    BY DEF BucketInvariant
  <2>f. Full' = Full
    BY DEF Full
  <2>1. ASSUME NEW cost \in 1..capacity, consume_allowed(cost)
        PROVE  Bucket!Grant
    <3>1. cost * period_ms \in Nat /\ cost * period_ms <= refilled
      BY <2>0, <2>1, LimiterAssumption, Products DEF consume_allowed
    <3>2. refilled' = refilled - cost * period_ms /\ elapsed_time' = elapsed_time
      BY <2>0, <2>1, <3>1, WrittenBack DEF consume_allowed
    <3> QED
      BY <2>1, <3>1, <3>2, ZenonT(60) DEF consume_allowed
  <2>2. ASSUME NEW cost \in 1..capacity, consume_refused(cost)
        PROVE  UNCHANGED Bucket!vars
    BY <2>0, <2>2, WrittenBack DEF consume_refused, Bucket!vars
  <2>3. ASSUME NEW cost \in 1..capacity, consume_unavailable(cost)
        PROVE  Bucket!Lose
    <3>1. cost * period_ms \in Nat
      BY LimiterAssumption, Products
    <3>2. PICK t \in 0..Full : t <= refilled /\ WriteBucket(t)
      BY <2>0, <2>3, <3>1 DEF consume_unavailable
    <3>3. refilled' = t /\ elapsed_time' = elapsed_time
      BY <3>2, WrittenBack
    <3> QED
      BY <2>0, <2>3, <3>2, <3>3 DEF consume_unavailable
  <2>4. CASE DeleteExpired
    <3>1. refilled = Full /\ refilled' = Full
      BY <2>0, <2>4, <2>t, <2>f DEF DeleteExpired, refilled, TypeOK
    <3> QED
      BY <2>4, <3>1 DEF DeleteExpired, Bucket!vars
  <2>5. CASE Tick
    <3>1. /\ refilled' \in 0..Full
          /\ refilled <= refilled'
          /\ refilled' <= refilled + capacity
      BY <2>5, TickRefills
    <3>2. Bucket!Refill
      BY <2>0, <2>5, <3>1 DEF Tick
    <3> QED
      BY <3>2 DEF Bucket!Next
  <2>6. CASE ClockSetBack
    <3>1. refilled' \in 0..Full /\ refilled' <= refilled
      BY <2>6, SetBackLoses
    <3>2. Bucket!Lose
      BY <2>0, <2>6, <3>1 DEF ClockSetBack
    <3> QED
      BY <3>2 DEF Bucket!Next
  <2>7. CASE BeginWindow
    <3>1. refilled' = refilled
      BY <2>7, <2>f DEF BeginWindow, refilled, elapsed_ms
    <3> QED
      BY <2>7, <3>1 DEF BeginWindow, Bucket!Next
  <2>8. CASE UNCHANGED vars
    BY <2>8, <2>f DEF vars, refilled, elapsed_ms, Bucket!vars
  <2> QED
    BY <2>1, <2>2, <2>3, <2>4, <2>5, <2>6, <2>7, <2>8, ZenonT(60) DEF Next, Bucket!Next
<1> QED
  BY <1>1, <1>2, BucketInvariantHolds, PTL DEF Spec, ImplementsBucket, Bucket!Spec

(* Every step of the limiter keeps HintShape: a request that is refused    *)
(* sets it up, time and expiry leave it, anything else drops the hint.     *)
LEMMA HintStep == LimiterInvariant /\ [Next]_vars => HintShape'
<1> SUFFICES ASSUME BucketInvariant, HintShape, [Next]_vars, hint' # NoHint
             PROVE  HintShape'
  BY DEF LimiterInvariant, HintShape
<1>t. TypeOK
  BY DEF BucketInvariant
<1>1. ASSUME NEW cost \in 1..capacity, consume_refused(cost) PROVE HintShape'
  <2>1. cost * period_ms \in Nat /\ cost * period_ms - refilled \in Nat
    BY <1>1, <1>t, ShortOrExact DEF consume_refused
  <2>2. /\ tokens' = refilled /\ updated_at_ms' = now_ms /\ now_ms' = now_ms
        /\ expires_at' = now_ms + 2 * period_ms /\ now_ms \in Nat
    BY <1>1, <1>t DEF consume_refused, WriteBucket, TypeOK
  <2>3. PICK ms \in retry_after_ms(cost) :
          hint' = [cost |-> cost, at |-> now_ms + ms,
                   header |-> now_ms + retry_after_seconds(ms) * Second]
    BY <1>1 DEF consume_refused
  <2>4. /\ hint'.cost = cost
        /\ hint'.at = now_ms + ms
        /\ hint'.header = now_ms + retry_after_seconds(ms) * Second
    BY <2>3
  <2> DEFINE missing == cost * period_ms - refilled
  <2>5. /\ ms \in Nat \ {0}
        /\ ms \in {(missing + capacity - 1) \div capacity, missing \div capacity + 1}
    BY <1>1, <1>t, ToldToWait DEF consume_refused
  <2>6. hint'.cost * period_ms - tokens' = missing /\ hint'.at - updated_at_ms' = ms
    BY <2>2, <2>4, <2>5
  <2>7. hint'.at <= hint'.header /\ hint'.header < hint'.at + Second
    <3>1. /\ retry_after_seconds(ms) * Second \in Nat
          /\ ms <= retry_after_seconds(ms) * Second
          /\ retry_after_seconds(ms) * Second < ms + Second
      BY <2>5, HeaderIsClose
    <3> QED
      BY <2>2, <2>4, <2>5, <3>1, LimiterAssumption
  <2>8. expires_at' # 0 /\ updated_at_ms' <= now_ms'
    BY <2>2, LimiterAssumption
  <2>9. hint'.cost \in 1..capacity /\ missing >= 0
    BY <2>1, <2>4
  <2> HIDE DEF missing
  <2> QED
    BY <2>5, <2>6, <2>7, <2>8, <2>9 DEF HintShape
<1>2. CASE DeleteExpired
  <2>1. /\ UNCHANGED <<now_ms, tokens, updated_at_ms, hint>>
        /\ now_ms >= expires_at
    BY <1>2 DEF DeleteExpired
  <2>2. now_ms >= updated_at_ms + 2 * period_ms
    BY <2>1 DEF HintShape, BucketInvariant, BucketLifetime
  <2> QED
    BY <2>1, <2>2 DEF HintShape
<1>3. CASE Tick
  <2>1. /\ UNCHANGED <<tokens, updated_at_ms, expires_at, hint>>
        /\ now_ms' = now_ms + 1 /\ now_ms \in Nat /\ updated_at_ms \in Nat
    BY <1>3, <1>t DEF Tick, TypeOK
  <2>2. now_ms' >= now_ms /\ now_ms' \in Nat /\ 2 * period_ms \in Nat
    BY <2>1, LimiterAssumption
  <2> QED
    BY <2>1, <2>2 DEF HintShape
<1>4. CASE BeginWindow \/ UNCHANGED vars
  BY <1>4 DEF BeginWindow, vars, HintShape
<1> QED
  BY <1>1, <1>2, <1>3, <1>4, ZenonT(60) DEF Next, consume_allowed, consume_unavailable, ClockSetBack

(* The whole invariant of the limiter, with what a refused client was told.*)
THEOREM LimiterInvariantHolds == Spec => []LimiterInvariant
<1>1. Init => HintShape
  BY DEF Init, HintShape
<1> QED
  BY <1>1, BucketInvariantHolds, HintStep, PTL DEF Spec, LimiterInvariant

(* Retry-After is right to the millisecond for every capacity and period:  *)
(* a client that comes back more than one earlier is refused again, one    *)
(* that comes back later, before anybody else takes tokens, is served.     *)
THEOREM RetryAfterIsTightHolds == Spec => []RetryAfterIsTight
<1>1. LimiterInvariant => RetryAfterIsTight
  <2> SUFFICES ASSUME BucketInvariant, HintShape, hint # NoHint
               PROVE  /\ now_ms < hint.at - 1 => refilled < hint.cost * period_ms
                      /\ now_ms > hint.at => ~falls_short(hint.cost)
                      /\ hint.at <= hint.header /\ hint.header < hint.at + Second
    BY DEF LimiterInvariant, RetryAfterIsTight
  <2> DEFINE c == hint.cost * period_ms
             x == c - tokens
             e == now_ms - updated_at_ms
             w == hint.at - updated_at_ms
  <2>1. /\ TypeOK /\ BucketLifetime
        /\ hint.cost \in 1..capacity
        /\ updated_at_ms <= now_ms
        /\ x >= 0
        /\ w \in {(x + capacity - 1) \div capacity, x \div capacity + 1}
        /\ hint.at <= hint.header /\ hint.header < hint.at + Second
        /\ expires_at = 0 => now_ms >= updated_at_ms + 2 * period_ms
    BY DEF BucketInvariant, HintShape
  <2>2. /\ c \in Nat /\ Full \in Nat /\ tokens \in Nat /\ hint.at \in Nat
        /\ now_ms \in Nat /\ updated_at_ms \in Nat /\ expires_at \in Nat
    BY <2>1, LimiterAssumption, Products DEF TypeOK, Full
  <2>3. x \in Nat /\ e \in Nat /\ e * capacity \in Nat
    BY <2>1, <2>2, LimiterAssumption, Products
  <2>4. c <= Full
    BY <2>1, LimiterAssumption, Monotone DEF Full
  <2>5. elapsed_ms = e
    BY <2>1, <2>2 DEF elapsed_ms
  <2>6. (e + 1 < w => e * capacity < x) /\ (e > w => e * capacity > x)
    <3>1. x \in Nat /\ e \in Nat /\ capacity \in Nat \ {0}
      BY <2>3, LimiterAssumption
    <3> HIDE DEF x, e, w
    <3> QED
      BY <2>1, <3>1, Waited, Zenon
  <2>7. /\ now_ms < hint.at - 1 => tokens + e * capacity < c
        /\ now_ms > hint.at => tokens + e * capacity > c
    <3>1. (now_ms < hint.at - 1 <=> e + 1 < w) /\ (now_ms > hint.at <=> e > w)
      BY <2>2
    <3>2. /\ e * capacity < x <=> tokens + e * capacity < c
          /\ e * capacity > x <=> tokens + e * capacity > c
      BY <2>2, <2>3
    <3> QED
      BY <2>6, <3>1, <3>2, Zenon
  <2> HIDE DEF c, e
  <2>8. CASE now_ms >= expires_at
    <3>1. e >= 2 * period_ms
      BY <2>1, <2>2, <2>8, LimiterAssumption DEF BucketLifetime, e
    <3>2. (2 * period_ms) * capacity <= e * capacity
      BY <2>3, <3>1, LimiterAssumption, Monotone
    <3>3. (2 * period_ms) * capacity = Full + Full
      BY LimiterAssumption DEF Full
    <3>4. ~(tokens + e * capacity < c)
      BY <2>2, <2>3, <2>4, <3>2, <3>3
    <3>5. refilled = Full
      BY <2>8 DEF refilled
    <3>6. ~falls_short(hint.cost)
      BY <2>2, <2>4, <2>8, <3>5 DEF falls_short, c
    <3> QED
      BY <2>1, <2>7, <3>4, <3>6
  <2>9. CASE now_ms < expires_at
    <3>1. refilled = IF tokens + e * capacity >= Full
                     THEN Full ELSE tokens + e * capacity
      BY <2>2, <2>5, <2>9 DEF refilled
    <3>2. tokens + e * capacity < c => refilled < c
      BY <2>2, <2>3, <2>4, <3>1
    <3>3. tokens + e * capacity > c => ~falls_short(hint.cost)
      BY <2>2, <2>3, <2>4, <2>5, <3>1 DEF falls_short, c
    <3> QED
      BY <2>1, <2>7, <3>2, <3>3 DEF c
  <2> QED
    BY <2>2, <2>8, <2>9
<1> QED
  BY <1>1, LimiterInvariantHolds, PTL
================================================================================
