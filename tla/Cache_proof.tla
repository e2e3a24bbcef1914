---------------------------- MODULE Cache_proof ----------------------------
(***************************************************************************)
(* Proofs about the file cache, for every set of files, every capacity and *)
(* every number of edits and calls.                                        *)
(***************************************************************************)
EXTENDS Loads, FiniteSetTheorems, TLAPS

USE MaxEntriesPos, BoundsNat

\* The cache is type-correct: an entry's stamp is one its file has had.
THEOREM TypeCorrect == Spec => []TypeOK
<1>1. Init => TypeOK
  BY DEF Init, TypeOK
<1>2. TypeOK /\ [Next]_vars => TypeOK'
  <2> SUFFICES ASSUME TypeOK, [Next]_vars
               PROVE  TypeOK'
    OBVIOUS
  <2> USE DEF TypeOK, fs, entries, call
  <2>1. ASSUME NEW p \in Paths, Edit(p)
        PROVE  TypeOK'
    BY <2>1 DEF Edit
  <2>2. ASSUME NEW p \in Paths, Delete(p)
        PROVE  TypeOK'
    BY <2>2 DEF Delete
  <2>3. ASSUME NEW p \in Paths, Hit(p)
        PROVE  TypeOK'
    BY <2>3 DEF Hit
  <2>4. ASSUME NEW p \in Paths, Miss(p)
        PROVE  TypeOK'
    BY <2>4 DEF Miss
  <2>5. CASE ReadFile
    BY <2>5 DEF ReadFile
  <2>6. CASE Store
    BY <2>6 DEF Store, StoredMtime
  <2>7. CASE Clear
    BY <2>7 DEF Clear
  <2>8. CASE UNCHANGED vars
    BY <2>8 DEF vars
  <2> QED
    BY <2>1, <2>2, <2>3, <2>4, <2>5, <2>6, <2>7, <2>8 DEF Next, Throw, Done
<1> QED
  BY <1>1, <1>2, PTL DEF Spec

\* A hit never serves stale content: the invariant HitIsFresh of the run
\* Render.  The strengthening speaks of the call in progress: if the file
\* still has the time that was taken before reading, what was read is what
\* the file holds.
THEOREM Fresh == Spec => []HitIsFresh
<1> DEFINE IInv == /\ HitIsFresh
                   /\ pc = "store" /\ current_mtime = file[path] => got = file[path]
<1>1. Init => IInv
  BY DEF Init, HitIsFresh
<1>2. TypeOK /\ IInv /\ [Next]_vars => IInv'
  <2> SUFFICES ASSUME TypeOK, IInv, [Next]_vars
               PROVE  IInv'
    OBVIOUS
  <2> USE DEF TypeOK, HitIsFresh, fs, entries, call
  <2>1. ASSUME NEW p \in Paths, Edit(p)
        PROVE  IInv'
    <3>1. \A q \in Paths : mtime[q] # edits + 1 /\ current_mtime # edits + 1
      OBVIOUS
    <3> QED
      BY <2>1, <3>1 DEF Edit
  <2>2. ASSUME NEW p \in Paths, Delete(p)
        PROVE  IInv'
    BY <2>2 DEF Delete
  <2>3. ASSUME NEW p \in Paths, Hit(p) \/ Miss(p)
        PROVE  IInv'
    BY <2>3 DEF Hit, Miss
  <2>4. CASE ReadFile
    BY <2>4 DEF ReadFile
  <2>5. CASE Store
    BY <2>5 DEF Store, StoredMtime
  <2>6. CASE Clear \/ UNCHANGED vars
    BY <2>6 DEF Clear, vars
  <2> QED
    BY <2>1, <2>2, <2>3, <2>4, <2>5, <2>6 DEF Next, Throw, Done
<1> QED
  BY <1>1, <1>2, TypeCorrect, PTL DEF Spec

\* The cache never holds more than max_entries files.  While a call is reading, there is room for its
\* file: a miss evicts when the cache is full, and the entry it stores is new
\* or replaces one that is still counted.
THEOREM Capacity == Spec => []Bounded
<1> DEFINE IInv == /\ Bounded
                   /\ pc # "free" => Cardinality(cached \cup {path}) <= MaxEntries
<1>1. Init => IInv
  BY FS_EmptySet DEF Init, Bounded
<1>2. TypeOK /\ IInv /\ [Next]_vars => IInv'
  <2> SUFFICES ASSUME TypeOK, IInv, [Next]_vars
               PROVE  IInv'
    OBVIOUS
  <2>0. IsFiniteSet(cached) /\ Cardinality(cached) \in Nat
    BY PathsFinite, FS_Subset, FS_CardinalityType DEF TypeOK
  <2>1. ASSUME NEW p \in Paths, Miss(p)
        PROVE  IInv'
    <3>1. IsFiniteSet(cached') /\ Cardinality(cached') \in Nat /\ Cardinality(cached') < MaxEntries
      <4>1. CASE Full
        <5>1. PICK q \in Paths : Victim(q) /\ cached' = cached \ {q}
          BY <2>1, <4>1 DEF Miss
        <5>2. q \in cached
          BY <5>1 DEF Victim, Oldest
        <5>3. IsFiniteSet(cached \ {q}) /\ Cardinality(cached \ {q}) = Cardinality(cached) - 1
          BY <2>0, <5>2, FS_RemoveElement
        <5>4. Cardinality(cached \ {q}) \in Nat
          BY <5>3, FS_CardinalityType
        <5> QED
          BY <2>0, <5>1, <5>3, <5>4 DEF Bounded
      <4>2. CASE ~Full
        <5>1. cached' = cached
          BY <2>1, <4>2 DEF Miss
        <5> QED
          BY <2>0, <4>2, <5>1 DEF Full
      <4> QED
        BY <4>1, <4>2
    <3>2. Cardinality(cached' \cup {p}) <= MaxEntries
      <4>1. Cardinality(cached' \cup {p}) \in {Cardinality(cached'), Cardinality(cached') + 1}
        BY <3>1, FS_AddElement
      <4> QED
        BY <3>1, <4>1
    <3>3. path' = p
      BY <2>1 DEF Miss
    <3> QED
      BY <3>1, <3>2, <3>3 DEF Bounded
  <2>2. CASE Store
    <3>1. cached' = cached \cup {path} /\ pc' = "free" /\ pc # "free"
      BY <2>2 DEF Store
    <3> QED
      BY <3>1 DEF Bounded
  <2>3. CASE Clear
    BY <2>3, FS_EmptySet DEF Clear, Bounded, call
  <2>4. CASE ReadFile
    BY <2>4 DEF ReadFile, Bounded, entries
  <2>5. ASSUME UNCHANGED <<cached, call>>
        PROVE  IInv'
    BY <2>5 DEF Bounded, call
  <2> QED
    BY <2>1, <2>2, <2>3, <2>4, <2>5
       DEF Next, Edit, Delete, Throw, Hit, Done, vars, entries
<1> QED
  BY <1>1, <1>2, TypeCorrect, PTL DEF Spec

-----------------------------------------------------------------------------
\* The files used after q.
Newer(q) == {r \in Paths : last[r] > last[q]}

\* While no file has changed: entries are up to date, no two files were used
\* at the same time, and a file that was used and has no entry has been
\* overtaken by max_entries others, one of which may still be on its way in.
Recency ==
    /\ \A p \in Paths : file[p] = 1
    /\ \A p \in cached : last[p] # 0
    /\ \A p, q \in Paths : last[p] = last[q] /\ last[p] # 0 => p = q
    /\ pc # "free" => path \notin cached
    /\ \A q \in Paths \ cached : last[q] # 0 =>
          IF pc = "free" THEN Cardinality(Newer(q)) >= MaxEntries
          ELSE q # path => Cardinality(Newer(q) \cup {path}) >= MaxEntries

LEMMA FiniteParts ==
    ASSUME NEW S \in SUBSET Paths
    PROVE  /\ IsFiniteSet(S) /\ Cardinality(S) \in Nat
           /\ \A T \in SUBSET S : Cardinality(T) <= Cardinality(S) /\ Cardinality(T) \in Nat
<1>1. IsFiniteSet(S)
  BY PathsFinite, FS_Subset
<1> QED
  BY <1>1, FS_Subset, FS_CardinalityType

\* LRU keeps the files used last, for every capacity and number of files, as
\* long as no file changes: the invariant LruKeepsRecent of the run Render.
\* The victim is older than the max_entries - 1 entries that stay and than the
\* file that takes its place, and what is older stays older.
THEOREM RecentlyUsedStay == Spec => []LruKeepsRecent
<1> DEFINE IInv == edits >= 1 /\ (edits = 1 => Recency)
<1>1. Init => IInv
  BY DEF Init, Recency
<1>2. TypeOK /\ Bounded /\ IInv /\ [Next]_vars => IInv'
  <2> SUFFICES ASSUME TypeOK, Bounded, IInv, [Next]_vars
               PROVE  IInv'
    OBVIOUS
  <2>0. edits \in Nat /\ accesses \in Nat /\ last \in [Paths -> 0..accesses] /\ cached \subseteq Paths
    BY DEF TypeOK
  <2>1. ASSUME NEW p \in Paths, Edit(p) \/ Delete(p)
        PROVE  IInv'
    BY <2>0, <2>1 DEF Edit, Delete
  <2>2. SUFFICES ASSUME UNCHANGED <<file, edits>>, edits = 1, Recency
                 PROVE  Recency'
    BY <2>1 DEF Next, Throw, Hit, Miss, ReadFile, Store, Clear, Done, vars, fs
  <2>3. ASSUME NEW p \in Paths, Hit(p)
        PROVE  Recency'
    <3>1. /\ pc = "free" /\ p \in cached /\ last' = [last EXCEPT ![p] = accesses + 1]
          /\ UNCHANGED <<cached, pc, path>>
      BY <2>3 DEF Hit, IsHit, call
    <3>2. \A q \in Paths \ cached : Newer(q) \subseteq Newer(q)'
      BY <2>0, <3>1 DEF Newer
    <3>3. \A q \in Paths : Newer(q)' \subseteq Paths
      BY DEF Newer
    <3>4. \A q \in Paths \ cached : last[q] # 0 => Cardinality(Newer(q)') >= MaxEntries
      <4> SUFFICES ASSUME NEW q \in Paths \ cached, last[q] # 0
                   PROVE  Cardinality(Newer(q)') >= MaxEntries
        OBVIOUS
      <4>1. Cardinality(Newer(q)) >= MaxEntries
        BY <2>2, <3>1 DEF Recency
      <4>2. Cardinality(Newer(q)) <= Cardinality(Newer(q)') /\ Cardinality(Newer(q)) \in Nat
            /\ Cardinality(Newer(q)') \in Nat
        BY <3>2, <3>3, FiniteParts
      <4> QED
        BY <4>1, <4>2
    <3>5. \A q \in Paths \ cached : last'[q] = last[q]
      BY <2>0, <3>1
    <3>6. /\ \A q \in cached : last'[q] # 0
          /\ \A q, r \in Paths : last'[q] = last'[r] /\ last'[q] # 0 => q = r
      BY <2>0, <2>2, <3>1 DEF Recency
    <3> QED
      BY <2>2, <3>1, <3>4, <3>5, <3>6 DEF Recency
  <2>4. ASSUME NEW p \in Paths, Miss(p)
        PROVE  Recency'
    <3>1. /\ pc = "free" /\ pc' = "read" /\ path' = p /\ last' = last
      BY <2>4 DEF Miss
    <3>2. p \notin cached
      BY <2>0, <2>2, <2>4 DEF Miss, IsHit, Recency, TypeOK
    <3>3. cached' \subseteq cached
      BY <2>4 DEF Miss
    <3>4. \A q \in Paths : Newer(q)' = Newer(q) /\ Newer(q) \subseteq Paths
      BY <3>1 DEF Newer
    <3>5. ASSUME NEW q \in Paths \ cached', last[q] # 0, q # p
          PROVE  Cardinality(Newer(q) \cup {p}) >= MaxEntries
      <4>1. /\ Cardinality(Newer(q)) <= Cardinality(Newer(q) \cup {p})
            /\ Cardinality(Newer(q)) \in Nat /\ Cardinality(Newer(q) \cup {p}) \in Nat
        <5>1. Newer(q) \cup {p} \in SUBSET Paths /\ Newer(q) \in SUBSET (Newer(q) \cup {p})
          BY <3>4
        <5> QED
          BY <5>1, FiniteParts
      <4>2. CASE q \notin cached
        BY <2>2, <3>1, <3>5, <4>1, <4>2 DEF Recency
      <4>3. CASE q \in cached
        <5>1. Full /\ Victim(q) /\ cached' = cached \ {q}
          BY <2>4, <3>5, <4>3 DEF Miss
        <5>2. \A r \in cached \ {q} : last[r] > last[q]
          BY <2>0, <2>2, <3>5, <4>3, <5>1 DEF Victim, Oldest, Recency
        <5>3. (cached \ {q}) \cup {p} \in SUBSET (Newer(q) \cup {p})
          BY <2>0, <5>2 DEF Newer
        <5>4. IsFiniteSet(cached) /\ Cardinality(cached) \in Nat /\ Cardinality(cached) = MaxEntries
          BY <2>0, <5>1, FiniteParts DEF Full, Bounded
        <5>5. IsFiniteSet(cached \ {q}) /\ Cardinality(cached \ {q}) = MaxEntries - 1
          BY <4>3, <5>4, FS_RemoveElement
        <5>6. Cardinality((cached \ {q}) \cup {p}) = (MaxEntries - 1) + 1
          BY <3>2, <5>5, FS_AddElement
        <5>7. Cardinality((cached \ {q}) \cup {p}) <= Cardinality(Newer(q) \cup {p})
          <6>1. Newer(q) \cup {p} \in SUBSET Paths
            BY <3>4
          <6> QED
            BY <5>3, <6>1, FiniteParts
        <5> QED
          BY <4>1, <5>6, <5>7
      <4> QED
        BY <4>2, <4>3
    <3>6. \A q \in Paths \ cached' : last'[q] # 0 =>
             (q # path' => Cardinality(Newer(q)' \cup {path'}) >= MaxEntries)
      BY <3>1, <3>4, <3>5
    <3> QED
      BY <2>2, <3>1, <3>2, <3>3, <3>6 DEF Recency
  <2>5. CASE ReadFile
    <3>1. UNCHANGED <<cached, last, path>> /\ pc # "free" /\ pc' # "free"
      BY <2>5 DEF ReadFile, entries
    <3>2. \A q \in Paths : Newer(q)' = Newer(q)
      BY <3>1 DEF Newer
    <3> QED
      BY <2>2, <3>1, <3>2 DEF Recency
  <2>6. CASE Store
    <3>1. /\ pc # "free" /\ pc' = "free" /\ cached' = cached \cup {path} /\ path' = path /\ path \in Paths
          /\ last' = [last EXCEPT ![path] = accesses + 1]
      BY <2>6 DEF Store, TypeOK
    <3>2. \A q \in Paths \ cached' : last[q] # 0 => Cardinality(Newer(q)') >= MaxEntries
      <4> SUFFICES ASSUME NEW q \in Paths \ cached', last[q] # 0
                   PROVE  Cardinality(Newer(q)') >= MaxEntries
        OBVIOUS
      <4>1. q \notin cached /\ q # path
        BY <3>1
      <4>2. Cardinality(Newer(q) \cup {path}) >= MaxEntries
        BY <2>2, <3>1, <4>1 DEF Recency
      <4>3. Newer(q) \cup {path} \in SUBSET (Newer(q)') /\ Newer(q)' \in SUBSET Paths
        BY <2>0, <3>1, <4>1 DEF Newer
      <4>4. /\ Cardinality(Newer(q) \cup {path}) <= Cardinality(Newer(q)')
            /\ Cardinality(Newer(q) \cup {path}) \in Nat /\ Cardinality(Newer(q)') \in Nat
        BY <4>3, FiniteParts
      <4> QED
        BY <4>2, <4>4
    <3>3. \A q \in Paths \ cached' : last'[q] = last[q]
      BY <2>0, <3>1
    <3>4. /\ \A q \in cached' : last'[q] # 0
          /\ \A q, r \in Paths : last'[q] = last'[r] /\ last'[q] # 0 => q = r
      BY <2>0, <2>2, <3>1 DEF Recency
    <3> QED
      BY <2>2, <3>1, <3>2, <3>3, <3>4 DEF Recency
  <2>7. CASE Clear
    BY <2>2, <2>7 DEF Clear, Recency, call
  <2>8. CASE UNCHANGED vars
    <3>1. UNCHANGED <<cached, last, pc, path>>
      BY <2>8 DEF vars, entries, call
    <3>2. \A q \in Paths : Newer(q)' = Newer(q)
      BY <3>1 DEF Newer
    <3> QED
      BY <2>2, <3>1, <3>2 DEF Recency
  <2>9. ASSUME NEW p \in Paths, Edit(p) \/ Delete(p)
        PROVE  Recency'
    BY <2>0, <2>2, <2>9 DEF Edit, Delete
  <2> QED
    BY <2>3, <2>4, <2>5, <2>6, <2>7, <2>8, <2>9 DEF Next, Throw, Done
<1>3. TypeOK /\ IInv => LruKeepsRecent
  <2> SUFFICES ASSUME TypeOK, IInv, pc = "free", edits = 1, NEW p \in Paths, last[p] # 0,
                      Cardinality(Newer(p)) < MaxEntries
               PROVE  p \in cached
    BY DEF LruKeepsRecent, Newer
  <2>1. Cardinality(Newer(p)) \in Nat
    <3>1. Newer(p) \in SUBSET Paths
      BY DEF Newer
    <3> QED
      BY <3>1, FiniteParts
  <2> QED
    BY <2>1 DEF Recency
<1> QED
  BY <1>1, <1>2, <1>3, TypeCorrect, Capacity, PTL DEF Spec

-----------------------------------------------------------------------------
(* The handler that renders files out of the cache. *)

\* The handler wants files; while it waits for loadFile, the call in progress
\* is its own.
OwnCall ==
    /\ want \in Paths
    /\ rpc = "call" => pc # "free" /\ path = want

LEMMA OwnCallInv == LSpec => []OwnCall
<1> USE DEF OwnCall, fs, entries, call
<1>1. LInit => OwnCall
  BY MainIsFile DEF LInit
<1>2. OwnCall /\ [LNext]_<<vars, lvars>> => OwnCall'
  <2> SUFFICES ASSUME OwnCall, [LNext]_<<vars, lvars>>
               PROVE  OwnCall'
    OBVIOUS
  <2>1. CASE Prepare \/ Begin \/ LoadThrows \/ Leave \/ UNCHANGED <<vars, lvars>>
    BY <2>1 DEF Prepare, Begin, LoadThrows, Leave, vars, lvars
  <2>2. CASE LoadHit \/ LoadReturns
    BY <2>2 DEF LoadHit, LoadReturns, Loaded
  <2>3. CASE LoadMiss
    BY <2>3 DEF LoadMiss, Miss
  <2>4. ASSUME NEW p \in Paths, Include(p)
        PROVE  OwnCall'
    BY <2>4 DEF Include
  <2>5. CASE Others
    BY <2>5 DEF Others, lvars, Edit, Delete, Hit, Miss, ReadFile, Clear, Store
  <2> QED
    BY <2>1, <2>2, <2>3, <2>4, <2>5 DEF LNext
<1> QED
  BY <1>1, <1>2, PTL DEF LSpec

\* The handler and the others use the cache only as Cache describes, so that
\* the theorems above hold in a server that renders pages.
THEOREM LoadsUseTheCache == LSpec => Spec
<1>1. LInit => Init
  BY DEF LInit
<1>2. OwnCall /\ [LNext]_<<vars, lvars>> => [Next]_vars
  <2> SUFFICES ASSUME OwnCall, [LNext]_<<vars, lvars>>
               PROVE  [Next]_vars
    OBVIOUS
  <2>1. CASE LoadHit \/ LoadMiss \/ LoadThrows
    BY <2>1 DEF OwnCall, LoadHit, LoadMiss, LoadThrows, Next
  <2>2. CASE LoadReturns \/ Others
    BY <2>2 DEF LoadReturns, Others, Next
  <2> QED
    BY <2>1, <2>2 DEF LNext, Prepare, Begin, Include, Leave
<1> QED
  BY <1>1, <1>2, OwnCallInv, PTL DEF LSpec, Spec

\* The cache is transparent: whatever it held, and however evictions, edits and
\* other handlers' calls fall between the steps of a call of loadFile, the
\* handler gets what it would have got from the disk at one moment of the call.
THEOREM CacheIsTransparent == LSpec => NoCache!Spec
<1> DEFINE fetched == IF rpc = "call" /\ pc = "store" THEN {got} ELSE {}
<1>1. LInit => NoCache!Init
  BY DEF LInit, Init, Now, NoCache!Init
<1>2. OwnCall /\ HitIsFresh /\ [LNext]_<<vars, lvars>> => [NoCache!Next]_NoCache!vars
  <2> SUFFICES ASSUME OwnCall, HitIsFresh, [LNext]_<<vars, lvars>>
               PROVE  NoCache!Next \/ UNCHANGED NoCache!vars
    OBVIOUS
  <2> USE DEF OwnCall, fs, entries, call
  <2>1. CASE Prepare \/ Begin
    BY <2>1 DEF Prepare, Begin, vars, Now, NoCache!Prepare, NoCache!Begin, NoCache!Next
  <2>2. CASE LoadHit
    <3>1. content[want] = file[want] /\ file[want] # 0
      BY <2>2 DEF LoadHit, Hit, IsHit, HitIsFresh
    <3> QED
      BY <2>2, <3>1 DEF LoadHit, Hit, Loaded, NoCache!ReadNow, NoCache!Next
  <2>3. CASE LoadMiss
    BY <2>3 DEF LoadMiss, Miss, NoCache!Call, NoCache!Next
  <2>4. CASE LoadThrows
    BY <2>4 DEF LoadThrows, Throw, vars, NoCache!Throw, NoCache!Next
  <2>5. CASE LoadReturns
    <3>1. {want} \X {got} = {<<want, got>>}
      OBVIOUS
    <3> QED
      BY <2>5, <3>1 DEF LoadReturns, Store, Loaded, NoCache!Return, NoCache!Next
  <2>6. ASSUME NEW p \in Paths, Include(p)
        PROVE  NoCache!Next
    BY <2>6 DEF Include, vars, NoCache!Include, NoCache!Next
  <2>7. CASE Leave
    BY <2>7 DEF Leave, vars, NoCache!Leave, NoCache!Next
  <2>8. CASE Others
    <3>1. ASSUME NEW p \in Paths, Edit(p) \/ Delete(p)
          PROVE  NoCache!Next
      BY <2>8, <3>1 DEF Others, lvars, Edit, Delete, NoCache!Write, NoCache!Next
    <3>2. ASSUME NEW p \in Paths, Hit(p) \/ Miss(p)
          PROVE  UNCHANGED NoCache!vars
      BY <2>8, <3>2 DEF Others, lvars, Hit, Miss, NoCache!vars
    <3>3. CASE ReadFile /\ rpc = "call"
      BY <2>8, <3>3 DEF Others, lvars, ReadFile, NoCache!Fetch, NoCache!Next
    <3>4. CASE (ReadFile \/ Store) /\ rpc # "call"
      BY <2>8, <3>4 DEF Others, lvars, ReadFile, Store, NoCache!vars
    <3>5. CASE Clear
      BY <2>8, <3>5 DEF Others, lvars, Clear, NoCache!vars
    <3> QED
      BY <2>8, <3>1, <3>2, <3>3, <3>4, <3>5 DEF Others
  <2>9. CASE UNCHANGED <<vars, lvars>>
    BY <2>9 DEF vars, lvars, NoCache!vars
  <2> QED
    BY <2>1, <2>2, <2>3, <2>4, <2>5, <2>6, <2>7, <2>8, <2>9 DEF LNext
<1> QED
  BY <1>1, <1>2, OwnCallInv, LoadsUseTheCache, Fresh, PTL DEF LSpec, NoCache!Spec

-----------------------------------------------------------------------------
\* A version of file p that a page may show: the one it had when rendering
\* began, or one that it has had since.
Current(p, n) ==
    \/ n = start.file[p] \/ n > start.edits
    \/ n = 0 /\ edits > start.edits

\* What LoadsAreCurrent needs to be inductive: the files themselves are
\* current, and so is what the call in progress has read.
CurrentSoFar ==
    /\ start.edits \in Nat /\ start.edits <= edits
    /\ rpc \in {"parse", "begin"} => loads = {}
    /\ loads \subseteq Paths \X Nat
    /\ \A p \in Paths : Current(p, file[p])
    /\ rpc = "call" /\ pc = "store" => Current(want, got)
    /\ \A l \in loads : Current(l[1], l[2])

\* A page is made of files as they are: the invariant LoadsAreCurrent of the
\* run Render, for every way the files may include each other.
THEOREM PagesAreCurrent == LSpec => []LoadsAreCurrent
<1>1. LInit => CurrentSoFar
  BY DEF LInit, Init, Now, CurrentSoFar, Current
<1>2. TypeOK /\ OwnCall /\ HitIsFresh /\ CurrentSoFar /\ [LNext]_<<vars, lvars>> => CurrentSoFar'
  <2> SUFFICES ASSUME TypeOK, OwnCall, HitIsFresh, CurrentSoFar, [LNext]_<<vars, lvars>>
               PROVE  CurrentSoFar'
    OBVIOUS
  <2> USE DEF CurrentSoFar, Current, OwnCall, fs, entries, call
  <2>0. edits \in Nat /\ file \in [Paths -> Nat] /\ got \in Nat /\ content \in [Paths -> Nat]
    BY DEF TypeOK
  <2>1. CASE Prepare \/ LoadThrows \/ Leave \/ UNCHANGED <<vars, lvars>>
    BY <2>1 DEF Prepare, LoadThrows, Throw, Leave, vars, lvars
  <2>2. CASE Begin
    BY <2>0, <2>2 DEF Begin, vars, Now
  <2>3. CASE LoadHit
    <3>1. content[want] = file[want]
      BY <2>3 DEF LoadHit, Hit, IsHit, HitIsFresh
    <3> QED
      BY <2>0, <2>3, <3>1 DEF LoadHit, Hit, Loaded
  <2>4. CASE LoadMiss
    BY <2>4 DEF LoadMiss, Miss
  <2>5. CASE LoadReturns
    BY <2>0, <2>5 DEF LoadReturns, Store, Loaded
  <2>6. ASSUME NEW p \in Paths, Include(p)
        PROVE  CurrentSoFar'
    BY <2>6 DEF Include, vars
  <2>7. CASE Others
    <3>1. ASSUME NEW p \in Paths, Edit(p) \/ Delete(p)
          PROVE  CurrentSoFar'
      BY <2>0, <2>7, <3>1 DEF Others, lvars, Edit, Delete
    <3>2. ASSUME NEW p \in Paths, Hit(p) \/ Miss(p)
          PROVE  CurrentSoFar'
      BY <2>7, <3>2 DEF Others, lvars, Hit, Miss
    <3>3. CASE ReadFile
      BY <2>0, <2>7, <3>3 DEF Others, lvars, ReadFile
    <3>4. CASE Clear \/ (rpc # "call" /\ Store)
      BY <2>7, <3>4 DEF Others, lvars, Clear, Store
    <3> QED
      BY <2>7, <3>1, <3>2, <3>3, <3>4 DEF Others
  <2> QED
    BY <2>1, <2>2, <2>3, <2>4, <2>5, <2>6, <2>7 DEF LNext
<1>3. CurrentSoFar => LoadsAreCurrent
  BY DEF CurrentSoFar, Current, LoadsAreCurrent
<1> QED
  BY <1>1, <1>2, <1>3, TypeCorrect, OwnCallInv, LoadsUseTheCache, Fresh, PTL DEF LSpec
=============================================================================
