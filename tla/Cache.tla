------------------------------- MODULE Cache -------------------------------
(***************************************************************************)
(* The file cache: Cache::loadFile and Cache::clear (src/cache/cache.cpp)  *)
(* with the LRU policy (src/cache/lru_policy.cpp), next to the programs    *)
(* that edit and delete the cached files.                                  *)
(*                                                                         *)
(* `mtx' is held from the first line of loadFile to its return, so one     *)
(* call is in progress at a time and only the file system moves under it:  *)
(* a step ends at each file-system access.                                 *)
(*                                                                         *)
(* A file's modification time and its contents are one number, its stamp:  *)
(* every edit leaves a stamp never seen before, which is the assumption    *)
(* that mtime-based invalidation rests on.  Stamp 0 is a missing file and, *)
(* as contents, what reading a missing file yields.                        *)
(***************************************************************************)
EXTENDS Naturals, FiniteSets

CONSTANTS
    Paths,          \* the files
    MaxEntries,     \* max_entries
    MaxEdits,       \* bound of the model: edits and deletions in a behaviour
    MaxAccesses     \* bound of the model: completed calls of loadFile

\* max_entries = 0 would make the policy erase entries.end().
ASSUME MaxEntriesPos == MaxEntries \in Nat \ {0}
ASSUME PathsFinite == IsFiniteSet(Paths)
ASSUME BoundsNat == MaxEdits \in Nat /\ MaxAccesses \in Nat

VARIABLES
    file,           \* file[p]: the stamp of file p, 0 when it does not exist
    edits,          \* the last stamp given out
    cached,         \* the paths that have an entry
    content, mtime, \* what the entry of a path holds
    last,           \* last_access, kept after eviction; 0 if never accessed
    accesses,       \* the steady clock, as it is read by loadFile
    pc,             \* the call in progress: "free", "read", "store"
    path,           \* its argument
    current_mtime,  \* its locals
    got

fs == <<file, edits>>
entries == <<cached, content, mtime, last, accesses>>
call == <<pc, path, current_mtime, got>>
vars == <<fs, entries, call>>

Init ==
    /\ file \in [Paths -> {1}]
    /\ edits = 1
    /\ cached = {}
    /\ content = [p \in Paths |-> 0] /\ mtime = [p \in Paths |-> 0]
    /\ last = [p \in Paths |-> 0] /\ accesses = 0
    /\ pc = "free" /\ path \in Paths /\ current_mtime = 0 /\ got = 0

-----------------------------------------------------------------------------
(* Other programs. *)

Edit(p) ==
    /\ edits <= MaxEdits
    /\ edits' = edits + 1
    /\ file' = [file EXCEPT ![p] = edits + 1]
    /\ UNCHANGED <<entries, call>>

Delete(p) ==
    /\ edits <= MaxEdits /\ file[p] # 0
    /\ edits' = edits + 1
    /\ file' = [file EXCEPT ![p] = 0]
    /\ UNCHANGED <<entries, call>>

-----------------------------------------------------------------------------
(* loadFile(p) *)

AnyEntry(p) == p \in cached              \* mutant
IsHit(p) == p \in cached /\ mtime[p] = file[p]

\* last_write_time throws for a missing file; the call has no effect.
Throw(p) ==
    /\ pc = "free" /\ file[p] = 0
    /\ UNCHANGED vars

\* The entry is up to date: touch it and return its content.
Hit(p) ==
    /\ pc = "free" /\ file[p] # 0 /\ accesses < MaxAccesses
    /\ IsHit(p)
    /\ accesses' = accesses + 1
    /\ last' = [last EXCEPT ![p] = accesses + 1]
    /\ UNCHANGED <<fs, cached, content, mtime, call>>

\* LRUPolicy::evict: erase the entry with the earliest last_access.
Oldest(p) == p \in cached /\ \A q \in cached : last[p] <= last[q]
Newest(p) == p \in cached /\ \A q \in cached : last[q] <= last[p]   \* mutant
Victim(p) == Oldest(p)

Full == Cardinality(cached) >= MaxEntries

\* There is no entry or a stale one: make room.
Miss(p) ==
    /\ pc = "free" /\ file[p] # 0 /\ accesses < MaxAccesses
    /\ ~IsHit(p)
    /\ \/ Full /\ \E q \in Paths : Victim(q) /\ cached' = cached \ {q}
       \/ ~Full /\ UNCHANGED cached
    /\ path' = p /\ current_mtime' = file[p]
    /\ pc' = "read"
    /\ UNCHANGED <<fs, content, mtime, last, accesses, got>>

\* Read the whole file; one that has vanished reads as empty.
ReadFile ==
    /\ pc = "read"
    /\ got' = file[path]
    /\ pc' = "store"
    /\ UNCHANGED <<fs, entries, path, current_mtime>>

MtimeAtStore == file[path]               \* mutant
StoredMtime == current_mtime

\* entries[filepath] = {content, current_mtime, now()}; return.
Store ==
    /\ pc = "store"
    /\ cached' = cached \cup {path}
    /\ content' = [content EXCEPT ![path] = got]
    /\ mtime' = [mtime EXCEPT ![path] = StoredMtime]
    /\ accesses' = accesses + 1
    /\ last' = [last EXCEPT ![path] = accesses + 1]
    /\ pc' = "free" /\ current_mtime' = 0 /\ got' = 0
    /\ UNCHANGED <<fs, path>>

\* Cache::clear()
Clear ==
    /\ pc = "free" /\ cached # {}
    /\ cached' = {}
    /\ last' = [p \in Paths |-> 0]
    /\ UNCHANGED <<fs, content, mtime, accesses, call>>

\* The model's bound is reached.
Done ==
    /\ pc = "free" /\ accesses = MaxAccesses
    /\ UNCHANGED vars

Next ==
    \/ \E p \in Paths : Edit(p) \/ Delete(p) \/ Throw(p) \/ Hit(p) \/ Miss(p)
    \/ ReadFile \/ Store \/ Clear \/ Done

Spec == Init /\ [][Next]_vars

-----------------------------------------------------------------------------
(* Properties. *)

\* Types; an entry was stamped with a modification time some file had.
TypeOK ==
    /\ file \in [Paths -> 0..edits] /\ edits \in Nat
    /\ cached \subseteq Paths
    /\ content \in [Paths -> 0..edits] /\ mtime \in [Paths -> 0..edits]
    /\ \A p \in cached : mtime[p] # 0
    /\ last \in [Paths -> 0..accesses] /\ accesses \in Nat
    /\ pc \in {"free", "read", "store"} /\ path \in Paths
    /\ current_mtime \in 0..edits /\ got \in 0..edits
    /\ pc # "free" => current_mtime # 0

\* A hit never serves stale content, although files are edited and deleted
\* while loadFile runs: an entry whose mtime is the file's holds what the file
\* holds.  It rests on taking the modification time before reading.
HitIsFresh ==
    \A p \in cached : file[p] # 0 /\ mtime[p] = file[p] => content[p] = file[p]

\* The cache holds at most max_entries files, whatever is missing or stale.
Bounded == Cardinality(cached) <= MaxEntries

\* What LRU promises, as long as no file has changed: between calls, the
\* max_entries files used last are cached; a file may be gone only if that
\* many others were used after it.  (Reloading a file that has changed evicts
\* an entry although it needs no room, so this fails after the first edit.)
LruKeepsRecent ==
    pc = "free" /\ edits = 1 =>
        \A p \in Paths :
            last[p] # 0 /\ Cardinality({q \in Paths : last[q] > last[p]}) < MaxEntries
                => p \in cached
=============================================================================
