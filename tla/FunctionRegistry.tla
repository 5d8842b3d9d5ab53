--------------------------- MODULE FunctionRegistry ---------------------------
(***************************************************************************)
(* Functions, their versions and their packages, for one owner: the HTTP   *)
(* routes of functions.py over FunctionRegistryService and                 *)
(* LocalPackageStorageService.  A request is a process whose steps end     *)
(* where its handler awaits the database or the body of the upload;        *)
(* requests interleave there, and a request may be cut off there, also     *)
(* between the commit of its row and its answer.                           *)
(***************************************************************************)
EXTENDS Integers, FiniteSets, FiniteSetsExt

CONSTANTS Requests, Functions, None,
          MaxVersion   \* bound of the model: versions of one function

VARIABLES
  functions,   \* the rows of the table functions
  versions,    \* the rows of function_versions, by function and number
  packages,    \* the package files, by function and version number
  pc,          \* where each request is, or its answer
  local        \* what each request has read: its function, a version number

registryVars == <<functions, versions, packages, pc, local>>

(* A version row: where its package is, and the hash of the package.  The  *)
(* contents of an upload are named by the request that sent them; a JSON   *)
(* request refers to a package that is stored elsewhere.                   *)
VersionRow == [package_uri : {"uploaded", "elsewhere"}, package_hash : Requests]

(* A file holds what one request uploaded, all of it or, if the write was  *)
(* cut short, a part of it.                                                *)
File == [of : Requests, whole : BOOLEAN]

ASSUME RegistryAssumption ==
  /\ MaxVersion \in Nat
  /\ None \notin Functions \cup Requests \cup File \cup VersionRow

Steps == {"idle", "insert_function", "insert_version", "read_package",
          "insert_uploaded", "refresh"}

(* The answers; a request that is gone has none, or a 500. *)
Answers == {"201", "400", "404", "409", "gone"}

RegistryInit ==
  /\ functions = {}
  /\ versions = [f \in Functions |-> [n \in 1..MaxVersion |-> None]]
  /\ packages = [f \in Functions |-> [n \in 1..MaxVersion |-> None]]
  /\ pc = [r \in Requests |-> "idle"]
  /\ local = [r \in Requests |-> [f |-> None, n |-> 0]]

Numbers(f) == {n \in 1..MaxVersion : versions[f][n] # None}

Answer(r, code) ==
  /\ pc' = [pc EXCEPT ![r] = code]
  /\ UNCHANGED local

Proceed(r, step, f, n) ==
  /\ pc' = [pc EXCEPT ![r] = step]
  /\ local' = [local EXCEPT ![r] = [f |-> f, n |-> n]]

--------------------------------------------------------------------------------
(* Mutant: takes a function without versions to have one. *)
get_next_version_number_skips(f) == Max(Numbers(f) \cup {1}) + 1

get_next_version_number(f) == Max(Numbers(f) \cup {0}) + 1

get_function_by_name(f) == f \in functions

(* POST /functions: the name is looked up before the row is inserted. *)
create_function(r, f) ==
  /\ pc[r] = "idle"
  /\ \/ get_function_by_name(f) /\ Answer(r, "409")
     \/ ~get_function_by_name(f) /\ Proceed(r, "insert_function", f, 0)
  /\ UNCHANGED <<functions, versions, packages>>

(* The insert commits, or meets the unique constraint on owner and name. *)
insert_function(r) ==
  LET f == local[r].f IN
  /\ pc[r] = "insert_function"
  /\ \/ f \in functions /\ Answer(r, "409")
     \/ f \notin functions /\ Proceed(r, "refresh", f, 0)
  /\ functions' = functions \cup {f}
  /\ UNCHANGED <<versions, packages>>

(* POST /functions/{f}/versions and .../versions/upload: both begin with   *)
(* the function and the next version number.                               *)
take_version_number(r, f, step) ==
  /\ pc[r] = "idle"
  /\ \/ ~get_function_by_name(f) /\ Answer(r, "404")
     \/ /\ get_function_by_name(f)
        /\ get_next_version_number(f) <= MaxVersion
        /\ Proceed(r, step, f, get_next_version_number(f))
  /\ UNCHANGED <<functions, versions, packages>>

create_function_version(r, f) == take_version_number(r, f, "insert_version")

upload_function_version(r, f) == take_version_number(r, f, "read_package")

(* Mutant: a write that was cut short goes unnoticed. *)
store_function_package_unnoticed(r) ==
  /\ pc[r] = "read_package"
  /\ Proceed(r, "insert_uploaded", local[r].f, local[r].n)
  /\ \E whole \in BOOLEAN :
       packages' = [packages EXCEPT ![local[r].f][local[r].n] =
                      [of |-> r, whole |-> whole]]
  /\ UNCHANGED <<functions, versions>>

(* The body has been read: the package is validated and written to the     *)
(* directory of its version number, over whatever is there.  The write may *)
(* fail halfway, with the server or by itself.                             *)
store_function_package(r) ==
  LET f == local[r].f
      n == local[r].n
  IN
  /\ pc[r] = "read_package"
  /\ \/ Answer(r, "400") /\ UNCHANGED packages
     \/ /\ Proceed(r, "insert_uploaded", f, n)
        /\ packages' = [packages EXCEPT ![f][n] = [of |-> r, whole |-> TRUE]]
     \/ /\ Answer(r, "gone")
        /\ packages' = [packages EXCEPT ![f][n] = [of |-> r, whole |-> FALSE]]
  /\ UNCHANGED <<functions, versions>>

(* Mutant: no unique constraint on function and version number. *)
insert_version_last_wins(r, step, uri) ==
  /\ pc[r] = step
  /\ Proceed(r, "refresh", local[r].f, local[r].n)
  /\ versions' = [versions EXCEPT ![local[r].f][local[r].n] =
                    [package_uri |-> uri, package_hash |-> r]]
  /\ UNCHANGED <<functions, packages>>

(* The insert commits, or meets the unique constraint on function and      *)
(* version number.                                                         *)
insert_version(r, step, uri) ==
  LET f == local[r].f
      n == local[r].n
  IN
  /\ pc[r] = step
  /\ \/ /\ versions[f][n] # None
        /\ Answer(r, "409")
        /\ UNCHANGED versions
     \/ /\ versions[f][n] = None
        /\ Proceed(r, "refresh", f, n)
        /\ versions' = [versions EXCEPT ![f][n] =
                          [package_uri |-> uri, package_hash |-> r]]
  /\ UNCHANGED <<functions, packages>>

(* The row is committed; it is read back, and the request is answered. *)
refresh(r) ==
  /\ pc[r] = "refresh"
  /\ Answer(r, "201")
  /\ UNCHANGED <<functions, versions, packages>>

(* The server stops, the client disconnects, or a call to the database     *)
(* fails; an open transaction is rolled back, but a row that was committed *)
(* stays, and so does the package file.                                    *)
request_gone(r) ==
  /\ pc[r] \in Steps \ {"idle"}
  /\ Answer(r, "gone")
  /\ UNCHANGED <<functions, versions, packages>>

RegistryNext ==
  \E r \in Requests :
    \/ \E f \in Functions : \/ create_function(r, f)
                            \/ create_function_version(r, f)
                            \/ upload_function_version(r, f)
    \/ insert_function(r)
    \/ store_function_package(r)
    \/ insert_version(r, "insert_version", "elsewhere")
    \/ insert_version(r, "insert_uploaded", "uploaded")
    \/ refresh(r)
    \/ request_gone(r)

RegistrySpec == RegistryInit /\ [][RegistryNext]_registryVars

--------------------------------------------------------------------------------
RegistryTypeOK ==
  /\ functions \subseteq Functions
  /\ versions \in [Functions -> [1..MaxVersion -> VersionRow \cup {None}]]
  /\ packages \in [Functions -> [1..MaxVersion -> File \cup {None}]]
  /\ local \in [Requests -> [f : Functions \cup {None}, n : 0..MaxVersion]]

(* The versions of a function are numbered from 1 without a gap, whatever  *)
(* requests were concurrent, refused or cut off, so that a number names    *)
(* the same deployment for everybody.                                      *)
VersionsContiguous ==
  \A f \in Functions :
    /\ Numbers(f) = 1..Cardinality(Numbers(f))
    /\ Numbers(f) # {} => f \in functions

(* No version has a damaged package for any other reason than the race for *)
(* its number: the file of an uploaded version is the whole of what its    *)
(* request sent, or else another upload that took the same number has      *)
(* overwritten it, one that will never be told 201.  A server that stops   *)
(* in the middle of a write, or between the file and the row, leaves no    *)
(* version behind with half a package or none.                             *)
PackageIsOwnOrOverwritten ==
  \A f \in Functions : \A n \in Numbers(f) :
    versions[f][n].package_uri = "uploaded" =>
      LET own == versions[f][n].package_hash
          file == packages[f][n]
      IN  \/ file = [of |-> own, whole |-> TRUE]
          \/ /\ file # None /\ file.of # own
             /\ local[file.of] = [f |-> f, n |-> n]
             /\ pc[file.of] \in {"insert_uploaded", "409", "gone"}

(* A request that is told 201 for a version number is the one whose        *)
(* package that version records: of two requests that took the same        *)
(* number, one is refused.                                                 *)
CreatedIsRecorded ==
  \A r \in Requests :
    pc[r] \in {"refresh", "201"} /\ local[r].n # 0 =>
      /\ versions[local[r].f][local[r].n] # None
      /\ versions[local[r].f][local[r].n].package_hash = r

(* A version is immutable: the file its package_uri names has the contents *)
(* its package_hash was computed from.                                     *)
PackageMatchesHash ==
  \A f \in Functions : \A n \in Numbers(f) :
    versions[f][n].package_uri = "uploaded" =>
      packages[f][n] = [of |-> versions[f][n].package_hash, whole |-> TRUE]
================================================================================
