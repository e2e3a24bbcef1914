----------------------------- MODULE FileSaver -----------------------------
(***************************************************************************)
(* saveFile (src/util/file_saver.cpp): storing the files of multipart      *)
(* uploads in one directory under names that are not taken.                *)
(*                                                                         *)
(* Handlers call it on several workers at once.  Each look at and change   *)
(* of the file system is a step: the exists() of every round, and opening  *)
(* (which creates or truncates) with writing.  A file is named by the      *)
(* uploaded name and the number that was put before its extension.  The    *)
(* directory holds no symbolic links, and buffered data reaches the disk.  *)
(***************************************************************************)
EXTENDS Naturals

CONSTANTS
    Threads,    \* workers whose handlers call saveFile
    Uploads,    \* the parts to be stored; an upload is its contents
    Names,      \* the names they come with, stripped of directories
    Dotless,    \* those of Names without an extension
    NoUpload,
    MaxCount    \* bound of the model: the largest number tried

ASSUME NoUploadIsNone == NoUpload \notin Uploads
ASSUME DotlessAreNames == Dotless \subseteq Names /\ Names # {}
ASSUME MaxCountNat == MaxCount \in Nat

Files == Names \X (0..MaxCount)     \* <<n, 0>> is n, <<n, k>> is n with "_k"
Absent == "absent"                  \* no such file
Empty == "empty"                    \* created or truncated, nothing written yet
Other == "other"                    \* a file saveFile did not write

ASSUME ContentsDiffer == Uploads \cap {Absent, Empty, Other} = {}

VARIABLES
    name,       \* name[u]: part.filename of upload u
    disk,       \* disk[f]: what file f holds
    spc, upload, count,  \* each worker's call: where it is, its part and `count'
    result,     \* result[u]: "none", "true", "false", "threw" (std::out_of_range)
    crossed     \* history: uploads whose call met another one of the same name

call == <<spc, upload, count>>
fsvars == <<name, disk, call, result, crossed>>

NoCalls ==
    /\ spc = [t \in Threads |-> "idle"]
    /\ upload = [t \in Threads |-> NoUpload]
    /\ count = [t \in Threads |-> 0]
    /\ result = [u \in Uploads |-> "none"] /\ crossed = {}

\* Nothing to store; or uploads of any names, and a directory that holds files
\* already.
FsInit == name = [u \in Uploads |-> CHOOSE n \in Names : TRUE] /\ disk = [f \in Files |-> Absent] /\ NoCalls
FsStart ==
    /\ name \in [Uploads -> Names]
    /\ disk \in {d \in [Files -> {Absent, Other}] : \A f \in Files : f[2] > 0 => d[f] = Absent}
    /\ NoCalls

-----------------------------------------------------------------------------
Pending(u) == result[u] = "none" /\ \A t \in Threads : upload[t] # u

\* The uploads of u's name that are being stored.
Meets(u) == {v \in Uploads : name[v] = name[u] /\ \E t \in Threads : upload[t] = v}

Begin(t, u) ==
    /\ spc[t] = "idle" /\ Pending(u)
    /\ upload' = [upload EXCEPT ![t] = u]
    /\ count' = [count EXCEPT ![t] = 0]
    /\ spc' = [spc EXCEPT ![t] = "resolve"]
    /\ crossed' = IF Meets(u) = {} THEN crossed ELSE crossed \cup Meets(u) \cup {u}
    /\ UNCHANGED <<name, disk, result>>

Target(t) == <<name[upload[t]], count[t]>>

Return(t, r) ==
    /\ result' = [result EXCEPT ![upload[t]] = r]
    /\ spc' = [spc EXCEPT ![t] = "idle"]
    /\ upload' = [upload EXCEPT ![t] = NoUpload]
    /\ count' = [count EXCEPT ![t] = 0]

\* The name is empty, or the directory does not exist.
Reject(t) ==
    /\ spc[t] = "resolve"
    /\ Return(t, "false")
    /\ UNCHANGED <<name, disk>>

\* realpath(dir) succeeds; the first path tried has no number.
Resolve(t) ==
    /\ spc[t] = "resolve"
    /\ spc' = [spc EXCEPT ![t] = "exists"]
    /\ UNCHANGED <<name, disk, upload, count, result>>

NeverTaken(f) == FALSE                   \* mutant
Taken(f) == disk[f] # Absent

NextCount(t) == count[t] + 1

\* exists(fullpath): try the next number.
TryNext(t) ==
    /\ spc[t] = "exists" /\ Taken(Target(t))
    /\ name[upload[t]] \notin Dotless /\ count[t] < MaxCount
    /\ count' = [count EXCEPT ![t] = NextCount(t)]
    /\ UNCHANGED <<name, disk, spc, upload, result>>

\* rfind('.') is npos, and substr(npos) throws.
ThrowsDotless(t) ==
    /\ spc[t] = "exists" /\ Taken(Target(t))
    /\ name[upload[t]] \in Dotless
    /\ Return(t, "threw")
    /\ UNCHANGED <<name, disk>>

Free(t) ==
    /\ spc[t] = "exists" /\ ~Taken(Target(t))
    /\ spc' = [spc EXCEPT ![t] = "open"]
    /\ UNCHANGED <<name, disk, upload, count, result>>

\* std::ofstream ofs(fullpath): created, or truncated if it exists by now.
Open(t) ==
    /\ spc[t] = "open"
    /\ disk' = [disk EXCEPT ![Target(t)] = Empty]
    /\ spc' = [spc EXCEPT ![t] = "write"]
    /\ UNCHANGED <<name, upload, count, result>>

OpenFails(t) ==
    /\ spc[t] = "open"
    /\ Return(t, "false")
    /\ UNCHANGED <<name, disk>>

\* ofs.write; the file is closed on return.
Write(t) ==
    /\ spc[t] = "write"
    /\ disk' = [disk EXCEPT ![Target(t)] = upload[t]]
    /\ Return(t, "true")
    /\ UNCHANGED name

WriteFails(t) ==
    /\ spc[t] = "write"
    /\ Return(t, "false")
    /\ UNCHANGED <<name, disk>>

Step(t) ==
    /\ \/ Reject(t) \/ Resolve(t) \/ TryNext(t) \/ ThrowsDotless(t) \/ Free(t)
       \/ Open(t) \/ OpenFails(t) \/ Write(t) \/ WriteFails(t)
    /\ UNCHANGED crossed

-----------------------------------------------------------------------------
(* Properties. *)

\* What saveFile reported as stored is on the disk, in a file of its own, and
\* stays there while other workers store uploads of the same and of other
\* names, unless another call for its name was under way at the same time.
StoredIsKept ==
    \A u \in Uploads \ crossed : result[u] = "true" => \E f \in Files : disk[f] = u

\* "Filename collision avoidance": a stored file is kept whatever else is being
\* stored.  Of two calls for one name both may find it free.
StoredApart ==
    \A u \in Uploads : result[u] = "true" => \E f \in Files : disk[f] = u
=============================================================================
