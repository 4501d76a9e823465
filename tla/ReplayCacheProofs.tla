------------------------- MODULE ReplayCacheProofs -------------------------
(***************************************************************************)
(* Proofs about ArtifactCache and about Replay.                            *)
(*                                                                         *)
(* ArtifactCache, for any number of compiles, loads, slots and sources.  A *)
(* version that one compile at a time writes never pairs a spec with an    *)
(* older program (NeverOlderProgram): the numbers of the builds grow       *)
(* (Counted, Fits, Numbered), a compile writes the program before the spec *)
(* (SaverOrdered), and who has read a spec finds a program that is not     *)
(* older, whoever saves meanwhile (ReaderOrdered).                         *)
(*                                                                         *)
(* Replay, for any number of requests, any folder and any number of calls  *)
(* in flight.                                                              *)
(* The report of a replay (completed) is true because every row that was   *)
(* dispatched is in flight, joinable or counted (Accounted), and final     *)
(* because nothing is under way when the loop has ended (Settled).  That a *)
(* stop lets at most one more row start needs to know where the task is    *)
(* when the row starts (StopSeen).  A step changes the record of one       *)
(* request, so the invariant is stated of a record and preserved one       *)
(* record at a time.                                                       *)
(***************************************************************************)
EXTENDS Replay, ArtifactCache, FiniteSetTheorems, TLAPS

-----------------------------------------------------------------------------
(* The artifact cache *)

\* The processes and the records of the variables.
Processes == Builders \cup Loaders
Files == [toml : Manifests \cup {None, Torn}, code : Codes \cup {None, Torn},
          wasm : Contents \cup {None, Torn}, spec : Contents \cup {None, Torn}]
Tasks == [pc : CachePcs, source : Sources \cup {None}, dir : Dirs,
          no : 0..MaxCalls, file : 1..5]
Reads == [code : Codes \cup {None, Torn}, wasm : Contents \cup {None, Torn},
          spec : Contents \cup {None}]
Locks == [owner : Builders \cup {None}, source : Hashes \cup {None}, copied : BOOLEAN]
Ships == Seq({"lib", "interface"})
PurgePlans == Seq({"capabilities", "interfaces", "modules"})
Admin == [ship : Ships, purge : PurgePlans]

Typed ==
    /\ modules \in [Dirs -> Files] /\ exists \in SUBSET Dirs /\ mixed \in SUBSET Dirs
    /\ overtaken \in SUBSET Builders /\ crossed \in SUBSET (1..MaxCalls)
    /\ \A d \in Dirs \ exists : modules[d] = NoFiles
    /\ cap \in SUBSET {"lib", "interface"}
    /\ target \in Hashes \cup {None}
    /\ slot \in [Slots -> Locks]
    /\ task \in [Processes -> Tasks]
    /\ got \in [Processes -> Reads]
    /\ admin \in Admin
    /\ calls \in 0..MaxCalls /\ loads \in 0..MaxLoads /\ events \in 0..MaxEvents
    /\ saves \in 0..MaxCalls

\* Compiles that have not come to save, each of which still may: the calls are
\* enough to number the builds.
Working == {b \in Builders : task[b].pc \notin {"idle", "save", "half", "done"}}
Counted == saves + Cardinality(Working) <= calls

HasFiles(d) == modules[d] # NoFiles
Reading(p) == task[p].pc \in {"config", "wasm"}

\* Where a process is, and what it has in hand there.
Fits(p) ==
    /\ p \in Loaders => task[p].pc \in {"idle", "spec", "config", "wasm", "done"}
    /\ p \in Builders /\ task[p].pc # "idle" =>
          Source(p) \in Sources /\ Dir(p)[1] = Source(p).author
    /\ p \in Builders => Dir(p)[2] <= saves + 1
    /\ Saving(p) => /\ Dir(p)[2] <= saves /\ task[p].no \in 1..saves
                    /\ got[p].wasm \in Contents /\ got[p].wasm.no = task[p].no
                    /\ got[p].spec = [hash |-> OwnHash(p), no |-> task[p].no]
    /\ Reading(p) \/ At(p, "done") => got[p].spec \in Contents
    /\ got[p].spec \in Contents => got[p].spec.no <= saves

\* The versions in use and the numbers of their files are those of builds made.
Numbered(d) ==
    /\ HasFiles(d) => d[2] <= saves
    /\ modules[d].wasm \in Contents => modules[d].wasm.no <= saves
    /\ modules[d].spec \in Contents => modules[d].spec.no <= saves

BinaryOrdered(d) ==
    d \notin mixed /\ modules[d].wasm \in Contents /\ modules[d].spec \in Contents =>
        modules[d].spec.no <= modules[d].wasm.no

\* A compile has opened a file of its version.
Begun(b) == Saving(b) /\ (At(b, "half") \/ task[b].file \in {2, 4, 5})

\* What the directory of a compile that saves holds is not newer than its build,
\* its own program when it comes to the spec, and who joins it later is.
SaverOrdered(b) ==
    Saving(b) /\ Dir(b) \notin mixed =>
        /\ File(b, "wasm") \in Contents => File(b, "wasm").no <= task[b].no
        /\ File(b, "spec") \in Contents => File(b, "spec").no <= task[b].no
        /\ task[b].file = 4 /\ File(b, "wasm") # None =>
              File(b, "wasm") \in Contents /\ File(b, "wasm").no = task[b].no
        /\ Begun(b) => \A o \in Builders \ {b} :
              Saving(o) /\ Dir(o) = Dir(b) => task[b].no < task[o].no

\* Who has read a spec will not meet an older program.
ReaderOrdered(p) ==
    Reading(p) /\ Dir(p) \notin mixed =>
        /\ File(p, "wasm") \in Contents => got[p].spec.no <= File(p, "wasm").no
        /\ \A b \in Builders :
              Saving(b) /\ Dir(b) = Dir(p) => got[p].spec.no <= task[b].no

NotOlder(p) ==
    At(p, "done") /\ got[p].wasm # Torn /\ Dir(p) \notin mixed =>
        got[p].wasm.no >= got[p].spec.no

InOrder(p) == Fits(p) /\ SaverOrdered(p) /\ ReaderOrdered(p) /\ NotOlder(p)

NInv ==
    /\ Typed /\ Counted
    /\ \A d \in Dirs : Numbered(d) /\ BinaryOrdered(d)
    /\ \A p \in Processes : InOrder(p)

-----------------------------------------------------------------------------
\* What is known of the constants.
LEMMA Parameters ==
    /\ MaxCalls \in Nat /\ MaxLoads \in Nat /\ MaxEvents \in Nat
    /\ None # Torn /\ None \notin Builders
    /\ None \notin Contents /\ Torn \notin Contents
    /\ None \notin Codes /\ Torn \notin Codes
    /\ \A l \in Loaders : l \notin Builders
    /\ \A s \in Sources : s.author \in {"anon", "team"}
  BY ArtifactCacheAssumption, MarksAssumption

\* What a reader of the cache is promised follows from the invariant.
LEMMA NInvGives == NInv => CacheTypeOK /\ NeverOlderProgram
<1> SUFFICES ASSUME NInv PROVE CacheTypeOK /\ NeverOlderProgram
  OBVIOUS
<1>1. NeverOlderProgram
  BY DEF NInv, InOrder, NotOlder, NeverOlderProgram, Processes
<1>2. \A d \in Dirs : modules[d] \in Files
  BY DEF NInv, Typed
<1>3. \A p \in Processes : task[p] \in Tasks
  BY DEF NInv, Typed
<1>4. \A k \in Slots : slot[k] \in Locks
  BY DEF NInv, Typed
<1>5. /\ \A d \in Dirs : d \notin exists => modules[d] = NoFiles
      /\ exists \subseteq Dirs /\ mixed \subseteq Dirs /\ cap \subseteq {"lib", "interface"}
      /\ overtaken \subseteq Builders /\ crossed \subseteq 1..MaxCalls
  BY DEF NInv, Typed
<1>6. calls <= MaxCalls /\ loads <= MaxLoads /\ events <= MaxEvents
  BY Parameters, SMT DEF NInv, Typed
<1>7. \A d \in Dirs :
          /\ modules[d].toml \in {None, Torn} \cup Manifests
          /\ modules[d].code \in {None, Torn} \cup Codes
          /\ modules[d].wasm \in {None, Torn} \cup Contents
          /\ modules[d].spec \in {None, Torn} \cup Contents
  BY <1>2, SMT DEF Files
<1>8. /\ \A p \in Processes : task[p].pc \in CachePcs /\ Dir(p) \in Dirs
      /\ \A k \in Slots : slot[k].owner \in Builders \cup {None}
  BY <1>3, <1>4, SMT DEF Tasks, Locks, Dir
<1> QED
  BY <1>1, <1>5, <1>6, <1>7, <1>8 DEF CacheTypeOK, Processes

\* At the beginning every variable has its type ...
LEMMA InitTyped == CacheInit => Typed
<1> SUFFICES ASSUME CacheInit PROVE Typed
  OBVIOUS
<1>0. NoFiles \in Files /\ Nothing \in Reads /\ Free \in Locks
  BY SMT DEF NoFiles, Files, Nothing, Reads, Free, Locks
<1>1. Idle \in Tasks
  <2>1. <<"team", 1>> \in Dirs
    BY Parameters, SMT DEF Dirs, Versions
  <2> QED
    BY <2>1, Parameters, SMT DEF Idle, Task, Tasks, CachePcs
<1>2. admin \in Admin
  BY SMT DEF CacheInit, Admin, Ships, PurgePlans
<1>3. cap \in SUBSET {"lib", "interface"}
  BY ArtifactCacheAssumption DEF CacheInit
<1>4. /\ overtaken \in SUBSET Builders /\ crossed \in SUBSET (1..MaxCalls)
      /\ mixed \in SUBSET Dirs /\ exists \in SUBSET Dirs
  BY Zenon DEF CacheInit
<1> QED
  BY <1>0, <1>1, <1>2, <1>3, <1>4, Parameters, SMT DEF CacheInit, Typed, Processes

\* ... and nothing has been built.
LEMMA InitNInv == CacheInit => NInv
<1> SUFFICES ASSUME CacheInit PROVE NInv
  OBVIOUS
<1>1. Typed
  BY InitTyped
<1>2. Counted
  <2>1. Working = {}
    BY SMT DEF CacheInit, Working, Idle, Task
  <2> QED
    BY <2>1, FS_EmptySet, SMT DEF CacheInit, Counted
<1>3. \A d \in Dirs : Numbered(d) /\ BinaryOrdered(d)
  BY Parameters, SMT DEF CacheInit, Numbered, BinaryOrdered, HasFiles, NoFiles
<1>4. \A p \in Processes : InOrder(p)
  BY Parameters, SMT DEF CacheInit, InOrder, Fits, SaverOrdered, ReaderOrdered, NotOlder, Reading,
     Saving, At, Dir, Idle, Task, Task, Nothing, Processes
<1> QED
  BY <1>1, <1>2, <1>3, <1>4 DEF NInv
-----------------------------------------------------------------------------
\* The compiles at work are finitely many.
LEMMA WorkingFinite == IsFiniteSet(Working)
  BY ArtifactCacheAssumption, FS_Subset DEF Working

\* Nobody starts to work and no build is numbered.
LEMMA CountedQuiet ==
    ASSUME Typed, Counted, Working' \subseteq Working, saves' = saves, calls' = calls
    PROVE  Counted'
<1>1. Cardinality(Working') <= Cardinality(Working)
  BY WorkingFinite, FS_Subset
<1>2. Cardinality(Working) \in Nat /\ Cardinality(Working') \in Nat
  BY WorkingFinite, FS_Subset, FS_CardinalityType
<1> QED
  BY <1>1, <1>2, SMT DEF Counted, Typed

\* One more works, or one comes to save, for one call more or a number.
LEMMA CountedCompile ==
    ASSUME Typed, Counted, NEW b \in Builders, Working' \subseteq Working \cup {b},
           saves' = saves, calls' = calls + 1
    PROVE  Counted'
<1>1. IsFiniteSet(Working \cup {b}) /\ Cardinality(Working \cup {b}) <= Cardinality(Working) + 1
  <2>1. /\ IsFiniteSet(Working \cup {b})
        /\ \/ Cardinality(Working \cup {b}) = Cardinality(Working)
           \/ Cardinality(Working \cup {b}) = Cardinality(Working) + 1
    BY WorkingFinite, FS_AddElement, Zenon
  <2> QED
    BY <2>1, WorkingFinite, FS_CardinalityType, SMT
<1>2. IsFiniteSet(Working') /\ Cardinality(Working') <= Cardinality(Working \cup {b})
  BY <1>1, FS_Subset
<1>3. Cardinality(Working) \in Nat /\ Cardinality(Working') \in Nat
      /\ Cardinality(Working \cup {b}) \in Nat
  BY <1>1, <1>2, WorkingFinite, FS_CardinalityType
<1> QED
  BY <1>1, <1>2, <1>3, SMT DEF Counted, Typed

\* A compile that comes to save no longer works, and has taken a number.
LEMMA CountedSave ==
    ASSUME Typed, Counted, NEW b \in Working, Working' \subseteq Working \ {b},
           saves' = saves + 1, calls' = calls
    PROVE  Counted'
<1>1. IsFiniteSet(Working \ {b}) /\ Cardinality(Working \ {b}) = Cardinality(Working) - 1
  BY WorkingFinite, FS_RemoveElement
<1>2. IsFiniteSet(Working') /\ Cardinality(Working') <= Cardinality(Working \ {b})
  BY <1>1, FS_Subset
<1>3. Cardinality(Working) \in Nat /\ Cardinality(Working') \in Nat
  BY <1>2, WorkingFinite, FS_CardinalityType
<1> QED
  BY <1>1, <1>2, <1>3, SMT DEF Counted, Typed

\* A ship is a call and takes its number at once.
LEMMA CountedShip ==
    ASSUME Typed, Counted, Working' \subseteq Working, saves' = saves + 1, calls' = calls + 1
    PROVE  Counted'
<1>1. Cardinality(Working') <= Cardinality(Working)
  BY WorkingFinite, FS_Subset
<1>2. Cardinality(Working) \in Nat /\ Cardinality(Working') \in Nat
  BY WorkingFinite, FS_Subset, FS_CardinalityType
<1> QED
  BY <1>1, <1>2, SMT DEF Counted, Typed

\* The number of builds made stays in its bound.
LEMMA SavesBound == ASSUME Typed, Counted PROVE saves \in 0..MaxCalls /\ saves <= calls
<1>1. Cardinality(Working) \in Nat
  BY WorkingFinite, FS_CardinalityType
<1> QED
  BY <1>1, Parameters, SMT DEF Typed, Counted

-----------------------------------------------------------------------------
(* The types, step by step *)

\* What a step of a task may set.
LEMMA TaskTyped ==
    ASSUME Typed, NEW p \in Processes, NEW pc \in CachePcs
    PROVE  /\ Goto(p, pc) => task' \in [Processes -> Tasks]
           /\ Fails(p) => task' \in [Processes -> Tasks] /\ got' \in [Processes -> Reads]
           /\ NotThere(p) => task' \in [Processes -> Tasks] /\ got' \in [Processes -> Reads]
<1>0. "slot" \in CachePcs
  BY DEF CachePcs
<1>1. Nothing \in Reads /\ Idle \in Tasks
  <2>1. <<"team", 1>> \in Dirs
    BY Parameters, SMT DEF Dirs, Versions
  <2> QED
    BY <2>1, Parameters, SMT DEF Idle, Task, Tasks, CachePcs, Nothing, Reads
<1>2. ASSUME NEW x \in CachePcs, Goto(p, x) PROVE task' \in [Processes -> Tasks]
  BY <1>2, SMT DEF Goto, Typed, Tasks
<1>3. Fails(p) => task' \in [Processes -> Tasks] /\ got' \in [Processes -> Reads]
  BY <1>1, SMT DEF Fails, Typed
<1>4. ASSUME NotThere(p) PROVE task' \in [Processes -> Tasks] /\ got' \in [Processes -> Reads]
  <2>1. got' \in [Processes -> Reads]
    BY <1>1, <1>4, SMT DEF NotThere, Fails, Typed
  <2>2. task' \in [Processes -> Tasks]
    BY <1>0, <1>2, <1>3, <1>4, Zenon DEF NotThere
  <2> QED
    BY <2>1, <2>2
<1> QED
  BY <1>2, <1>3, <1>4

\* A slot that is dropped is still a slot.
LEMMA DropsTyped ==
    ASSUME Typed, NEW p \in Processes PROVE Drops(p) \in [Slots -> Locks]
  BY SMT DEF Typed, Drops, Locks

\* A compile starts.
LEMMA CompileTyped ==
    ASSUME NInv, NEW b \in Builders, NEW s \in Sources, Compile(b, s) PROVE Typed'
<1>1. b \in Processes /\ Nothing \in Reads
  BY SMT DEF Processes, Nothing, Reads
<1>2. <<s.author, 1>> \in Dirs
  BY Parameters, SMT DEF Dirs, Versions
<1>3. Task(IF s.author = "anon" THEN "search" ELSE "spec", s, <<s.author, 1>>, 0, 1) \in Tasks
  BY <1>2, Parameters, SMT DEF Idle, Task, Tasks, CachePcs
<1>4. task' \in [Processes -> Tasks] /\ got' \in [Processes -> Reads]
  BY <1>1, <1>3, SMT DEF Compile, NInv, Typed
<1>5. calls' \in 0..MaxCalls
  BY Parameters, SMT DEF Compile, NInv, Typed
<1> QED
  BY <1>4, <1>5, SMT DEF Compile, NInv, Typed, fileVars, histories

\* The next version is looked at only when this one has files, so that none is
\* beyond the number of builds.
LEMMA SearchTyped ==
    ASSUME NInv, NEW b \in Builders, SearchCode(b) \/ SearchManifest(b) PROVE Typed'
<1>1. b \in Processes /\ Nothing \in Reads
  BY SMT DEF Processes, Nothing, Reads
<1>a. Typed
  BY DEF NInv
<1>b. {"slot", "manifest", "search", "spec"} \subseteq CachePcs
  BY DEF CachePcs
<1>2. CASE SearchCode(b)
  <2>1. File(b, "code") \in Codes \cup {None, Torn}
    BY <1>1, <1>a, SMT DEF Typed, Files, Tasks, File, Dir
  <2>2. got' \in [Processes -> Reads]
    BY <1>1, <1>a, <1>2, <2>1, SMT DEF SearchCode, Typed, Reads
  <2>3. task' \in [Processes -> Tasks]
    BY <1>1, <1>2, <1>a, <1>b, TaskTyped, Zenon DEF SearchCode
  <2> QED
    BY <1>2, <1>a, <2>2, <2>3, SMT DEF SearchCode, Typed, fileVars, bounds, histories
<1>3. CASE SearchManifest(b)
  <2>2. got' \in [Processes -> Reads]
    BY <1>1, <1>a, <1>3, SMT DEF SearchManifest, Typed
  <2>3. task' \in [Processes -> Tasks]
    <3>1. CASE Goto(b, "slot") \/ Goto(b, "spec")
      BY <1>1, <1>a, <1>b, <3>1, TaskTyped
    <3>2. CASE /\ File(b, "toml") \notin {None, Torn}
               /\ task' = [task EXCEPT ![b] =
                       Task("search", Source(b), <<Dir(b)[1], Dir(b)[2] + 1>>, 0, 1)]
      <4>1. Dir(b) \in Dirs
        BY <1>1, <1>a, SMT DEF Typed, Tasks, Dir
      <4>2. HasFiles(Dir(b))
        BY <3>2 DEF HasFiles, NoFiles, File
      <4>3. Dir(b)[2] <= saves
        BY <4>1, <4>2 DEF NInv, Numbered
      <4>4. saves \in 0..MaxCalls
        BY SavesBound DEF NInv
      <4>5. <<Dir(b)[1], Dir(b)[2] + 1>> \in Dirs
        BY <4>1, <4>3, <4>4, Parameters, SMT DEF Dirs, Versions
      <4>6. Source(b) \in Sources \cup {None}
        BY <1>1, <1>a, SMT DEF Typed, Tasks, Source
      <4>7. Task("search", Source(b), <<Dir(b)[1], Dir(b)[2] + 1>>, 0, 1) \in Tasks
        BY <1>b, <4>5, <4>6, Parameters, SMT DEF Tasks, Task
      <4> QED
        BY <1>1, <1>a, <3>2, <4>7, SMT DEF Typed
    <3> QED
      BY <1>3, <3>1, <3>2 DEF SearchManifest
  <2> QED
    BY <1>3, <1>a, <2>2, <2>3, SMT DEF SearchManifest, Typed, fileVars, bounds, histories
<1> QED
  BY <1>2, <1>3

\* A binary is read.
LEMMA ReadTyped == ASSUME NInv, NEW p \in Processes, ReadStep(p) PROVE Typed'
<1>a. Typed
  BY DEF NInv
<1>b. {"config", "wasm", "done"} \subseteq CachePcs
  BY DEF CachePcs
<1>c. /\ File(p, "spec") \in Contents \cup {None, Torn}
      /\ File(p, "wasm") \in Contents \cup {None, Torn}
  BY <1>a, SMT DEF Typed, Files, Tasks, File, Dir
<1>1. task' \in [Processes -> Tasks] /\ got' \in [Processes -> Reads]
  <2>1. CASE NotThere(p)
    BY <1>a, <1>b, <2>1, TaskTyped
  <2>2. CASE /\ File(p, "spec") \notin {None, Torn} /\ Goto(p, "config")
             /\ got' = [got EXCEPT ![p].spec = File(p, "spec")]
    <3>1. task' \in [Processes -> Tasks]
      BY <1>a, <1>b, <2>2, TaskTyped
    <3>2. got' \in [Processes -> Reads]
      BY <1>a, <1>c, <2>2, SMT DEF Typed, Reads
    <3> QED
      BY <3>1, <3>2
  <2>3. CASE Goto(p, "wasm") /\ UNCHANGED got
    BY <1>a, <1>b, <2>3, TaskTyped, Zenon DEF Typed
  <2>4. CASE Goto(p, "done") /\ got' = [got EXCEPT ![p].wasm = File(p, "wasm")]
    <3>1. task' \in [Processes -> Tasks]
      BY <1>a, <1>b, <2>4, TaskTyped
    <3>2. got' \in [Processes -> Reads]
      BY <1>a, <1>c, <2>4, SMT DEF Typed, Reads
    <3> QED
      BY <3>1, <3>2
  <2> QED
    BY <2>1, <2>2, <2>3, <2>4, Zenon DEF ReadStep, ReadSpec, ReadConfig, ReadWasm
<1>2. UNCHANGED <<modules, exists, cap, target, slot, admin, calls, loads, events, saves, mixed, overtaken, crossed>>
  BY DEF ReadStep, ReadSpec, ReadConfig, ReadWasm, fileVars, bounds, histories
<1> QED
  BY <1>a, <1>1, <1>2, SMT DEF Typed

\* A load starts.
LEMMA LoadTyped ==
    ASSUME NInv, NEW l \in Loaders, NEW d \in Dirs, Load(l, d[1], d[2]) PROVE Typed'
<1>1. l \in Processes /\ Nothing \in Reads
  BY SMT DEF Processes, Nothing, Reads
<1>2. d = <<d[1], d[2]>>
  BY SMT DEF Dirs
<1>3. Task("spec", None, <<d[1], d[2]>>, 0, 1) \in Tasks
  BY <1>2, Parameters, SMT DEF Idle, Task, Tasks, CachePcs
<1>4. task' \in [Processes -> Tasks] /\ got' \in [Processes -> Reads]
  BY <1>1, <1>3, SMT DEF Load, NInv, Typed
<1>5. loads' \in 0..MaxLoads
  BY Parameters, SMT DEF Load, NInv, Typed
<1> QED
  BY <1>4, <1>5, SMT DEF Load, NInv, Typed, fileVars, histories

\* A slot is locked, its crate written and built.
LEMMA SlotTyped ==
    ASSUME NInv, NEW b \in Builders, NEW k \in Slots,
           Acquire(b, k) \/ Prepare(b, k) \/ Cargo(b, k)
    PROVE  Typed'
<1>1. b \in Processes
  BY DEF Processes
<1>a. Typed
  BY DEF NInv
<1>b. {"prepare", "cargo", "take"} \subseteq CachePcs
  BY DEF CachePcs
<1>2. CASE Acquire(b, k)
  <2>1. task' \in [Processes -> Tasks]
    BY <1>1, <1>2, <1>a, <1>b, TaskTyped, Zenon DEF Acquire
  <2>2. slot' \in [Slots -> Locks]
    BY <1>2, <1>a, SMT DEF Acquire, Typed, Locks
  <2> QED
    BY <1>2, <1>a, <2>1, <2>2, SMT DEF Acquire, Typed, fileVars, bounds, histories
<1>3. CASE Prepare(b, k)
  <2>0. OwnHash(b) \in Hashes
    <3>1. Source(b) \in Sources
      BY <1>1, <1>3 DEF NInv, InOrder, Fits, Prepare, At
    <3> QED
      BY <3>1 DEF OwnHash, Hashes
  <2>1. task' \in [Processes -> Tasks] /\ got' \in [Processes -> Reads]
    <3>1. CASE Goto(b, "cargo") /\ UNCHANGED got
      BY <1>1, <1>a, <1>b, <3>1, TaskTyped, Zenon DEF Typed
    <3>2. CASE Fails(b)
      BY <1>1, <1>a, <1>b, <3>2, TaskTyped
    <3> QED
      BY <1>3, <3>1, <3>2 DEF Prepare
  <2>2. slot' \in [Slots -> Locks]
    <3>1. CASE slot' = Drops(b)
      BY <1>1, <1>a, <3>1, DropsTyped
    <3>2. CASE /\ Source(b).caps => Copied(b, k)
               /\ slot' = [slot EXCEPT ![k] =
                     [owner |-> b, source |-> OwnHash(b), copied |-> Copied(b, k)]]
      <4>1. Copied(b, k) \in BOOLEAN
        <5>1. slot[k].copied \in BOOLEAN
          BY <1>a, SMT DEF Typed, Locks
        <5> QED
          BY <5>1, Zenon DEF Copied
      <4>2. [owner |-> b, source |-> OwnHash(b), copied |-> Copied(b, k)] \in Locks
        BY <2>0, <4>1, Zenon DEF Locks
      <4> QED
        BY <1>a, <3>2, <4>2, SMT DEF Typed
    <3> QED
      BY <1>3, <3>1, <3>2, Zenon DEF Prepare
  <2> QED
    BY <1>3, <1>a, <2>1, <2>2, SMT DEF Prepare, Typed, fileVars, bounds, histories
<1>4. CASE Cargo(b, k)
  <2>1. task' \in [Processes -> Tasks]
    BY <1>1, <1>4, <1>a, <1>b, TaskTyped, Zenon DEF Cargo
  <2>2. target' \in Hashes \cup {None}
    BY <1>4, <1>a, SMT DEF Cargo, Typed, Locks
  <2> QED
    BY <1>4, <1>a, <2>1, <2>2, SMT DEF Cargo, Typed, fileVars, bounds, histories
<1> QED
  BY <1>2, <1>3, <1>4

\* A build that comes to save gets a number of its own.
LEMMA NumberTyped ==
    ASSUME NInv, Counted', calls' \in 0..MaxCalls, saves' = saves + 1
    PROVE  saves' \in 0..MaxCalls /\ saves + 1 \in 1..MaxCalls
<1>1. IsFiniteSet(Working')
  BY ArtifactCacheAssumption, FS_Subset DEF Working
<1>2. Cardinality(Working') \in Nat
  BY <1>1, FS_CardinalityType
<1> QED
  BY <1>2, Parameters, SMT DEF Counted, NInv, Typed

\* What cargo left gets the number of the build.
LEMMA TakeTyped ==
    ASSUME NInv, NEW b \in Builders, TakeWasm(b) PROVE Typed' /\ Counted'
<1>1. b \in Processes /\ Typed /\ Counted /\ Fits(b) /\ At(b, "take")
  BY DEF Processes, NInv, InOrder, TakeWasm
<1>2. Counted'
  <2>1. b \in Working
    BY <1>1, SMT DEF Working, At
  <2>2. Working' \subseteq Working \ {b}
    BY <1>1, SMT DEF TakeWasm, Working, Typed, Task
  <2> QED
    BY <1>1, <2>1, <2>2, CountedSave DEF TakeWasm
<1>3. calls' \in 0..MaxCalls
  BY <1>1 DEF TakeWasm, Typed
<1>4. saves' \in 0..MaxCalls /\ saves + 1 \in 1..MaxCalls
  BY <1>2, <1>3, NumberTyped DEF TakeWasm
<1>5. Source(b) \in Sources
  BY <1>1, SMT DEF Fits, At
<1>6. SpecOf(b) \in Contents /\ [hash |-> target, no |-> saves + 1] \in Contents
  BY <1>1, <1>4, <1>5, SMT DEF SpecOf, Contents, OwnHash, Hashes, Typed
<1>7. Dir(b) \in Dirs
  BY <1>1, SMT DEF Typed, Tasks, Dir
<1>8. "save" \in CachePcs
  BY DEF CachePcs
<1>9. Task("save", Source(b), Dir(b), saves + 1, 1) \in Tasks
  BY <1>4, <1>5, <1>7, <1>8, Parameters, SMT DEF Task, Tasks
<1>10. task' \in [Processes -> Tasks]
  BY <1>1, <1>9, SMT DEF TakeWasm, Typed
<1>11. [code |-> None, wasm |-> [hash |-> target, no |-> saves + 1], spec |-> SpecOf(b)] \in Reads
  BY <1>6, Zenon DEF Reads
<1>12. got' \in [Processes -> Reads]
  BY <1>1, <1>11, SMT DEF TakeWasm, Typed
<1>13. slot' \in [Slots -> Locks]
  BY <1>1, DropsTyped DEF TakeWasm
<1> QED
  BY <1>1, <1>2, <1>4, <1>10, <1>12, <1>13, SMT DEF TakeWasm, Typed, fileVars, histories

\* A ship starts.
LEMMA ShipTyped ==
    ASSUME NInv, NEW b \in Builders, NEW s \in Sources, ShipModule(b, s)
    PROVE  Typed' /\ Counted'
<1>1. b \in Processes /\ Typed /\ Counted
  BY DEF Processes, NInv
<1>2. Counted'
  <2>1. Working' \subseteq Working
    BY <1>1, SMT DEF ShipModule, Working, Typed, Task
  <2> QED
    BY <1>1, <2>1, CountedShip DEF ShipModule
<1>3. calls' \in 0..MaxCalls
  BY <1>1, Parameters, SMT DEF ShipModule, Typed
<1>4. saves' \in 0..MaxCalls /\ saves + 1 \in 1..MaxCalls
  BY <1>2, <1>3, NumberTyped DEF ShipModule
<1>6. [hash |-> Hash(s), no |-> saves + 1] \in Contents
  BY <1>4, SMT DEF Contents, Hashes
<1>7. <<"team", 1>> \in Dirs
  BY Parameters, SMT DEF Dirs, Versions
<1>8. "save" \in CachePcs
  BY DEF CachePcs
<1>9. Task("save", s, <<"team", 1>>, saves + 1, 1) \in Tasks
  BY <1>4, <1>7, <1>8, Parameters, SMT DEF Task, Tasks
<1>10. task' \in [Processes -> Tasks]
  BY <1>1, <1>9, SMT DEF ShipModule, Typed
<1>11. [code |-> None, wasm |-> [hash |-> Hash(s), no |-> saves + 1],
        spec |-> [hash |-> Hash(s), no |-> saves + 1]] \in Reads
  BY <1>6, Zenon DEF Reads
<1>12. got' \in [Processes -> Reads]
  BY <1>1, <1>11, SMT DEF ShipModule, Typed
<1> QED
  BY <1>1, <1>2, <1>3, <1>4, <1>10, <1>12, SMT DEF ShipModule, Typed, fileVars, histories

\* A compile ends without an answer.
LEMMA EndTyped ==
    ASSUME NInv, NEW b \in Builders, CompileFails(b) \/ Crash(b) PROVE Typed'
<1>1. b \in Processes /\ Typed
  BY DEF Processes, NInv
<1>2. task' \in [Processes -> Tasks] /\ got' \in [Processes -> Reads]
  <2>1. "idle" \in CachePcs
    BY DEF CachePcs
  <2> QED
    BY <1>1, <2>1, TaskTyped DEF CompileFails, Crash
<1>3. slot' \in [Slots -> Locks]
  BY <1>1, DropsTyped DEF CompileFails, Crash
<1>4. events' \in 0..MaxEvents
  BY <1>1, Parameters, SMT DEF CompileFails, Crash, Typed
<1>5. UNCHANGED <<modules, exists, cap, target, admin, calls, loads, saves, mixed, crossed>>
      /\ overtaken' = overtaken \ {b}
  BY DEF CompileFails, Crash, fileVars, histories
<1> QED
  BY <1>1, <1>2, <1>3, <1>4, <1>5, SMT DEF Typed

\* The files a compile writes, in their order.
LEMMA WriteIs ==
    ASSUME NEW b, task[b].file \in 1..5
    PROVE  /\ Write(b).file = <<"toml", "code", "wasm", "spec", "toml">>[task[b].file]
           /\ task[b].file = 1 => Write(b).content = Manifest(Source(b).deps, Source(b).caps)
           /\ task[b].file = 2 => Write(b).content = Source(b).code
           /\ task[b].file = 3 => Write(b).content = got[b].wasm
           /\ task[b].file = 4 => Write(b).content = got[b].spec
           /\ task[b].file = 5 => Write(b).content = Manifest({}, Source(b).caps)
  BY SMT DEF Write, Writes, SourceFiles, BinaryFiles

\* One file of one directory is written.
FileChanged(d, i, c) ==
    /\ \A e \in Dirs \ {d} : modules'[e] = modules[e]
    /\ modules'[d].toml = IF i \in {1, 5} THEN c ELSE modules[d].toml
    /\ modules'[d].code = IF i = 2 THEN c ELSE modules[d].code
    /\ modules'[d].wasm = IF i = 3 THEN c ELSE modules[d].wasm
    /\ modules'[d].spec = IF i = 4 THEN c ELSE modules[d].spec

\* A write changes one file of one directory.
LEMMA OneFile ==
    ASSUME Typed, NEW d \in Dirs, NEW i \in 1..5, NEW f, NEW c,
           f = <<"toml", "code", "wasm", "spec", "toml">>[i],
           i \in {1, 5} => c \in Manifests \cup {Torn},
           i = 2 => c \in Codes \cup {Torn},
           i \in {3, 4} => c \in Contents \cup {Torn},
           modules' = [modules EXCEPT ![d][f] = c]
    PROVE  modules' \in [Dirs -> Files] /\ FileChanged(d, i, c)
<1>1. CASE i \in {1, 5}
  <2>1. f = "toml"
    BY <1>1, SMT
  <2>2. modules' = [modules EXCEPT ![d].toml = c]
    BY <2>1, Zenon
  <2> QED
    BY <1>1, <2>1, <2>2, SMT DEF Typed, Files, FileChanged
<1>2. CASE i = 2
  BY <1>2, SMT DEF Typed, Files, FileChanged
<1>3. CASE i = 3
  BY <1>3, SMT DEF Typed, Files, FileChanged
<1>4. CASE i = 4
  BY <1>4, SMT DEF Typed, Files, FileChanged
<1> QED
  BY <1>1, <1>2, <1>3, <1>4, SMT

\* Only compiles save, and what they save is a build with their number.
LEMMA SaverBuilds ==
    ASSUME NInv, NEW p \in Processes, Saving(p) PROVE p \in Builders
<1>1. Fits(p)
  BY DEF NInv, InOrder
<1> QED
  BY <1>1, SMT DEF Fits, Saving, Processes

\* Who saves has a program and a spec of one number.
LEMMA SaverHolds ==
    ASSUME NInv, NEW b \in Builders, Saving(b)
    PROVE  /\ got[b].wasm \in Contents /\ got[b].spec \in Contents
           /\ got[b].wasm.no = task[b].no /\ got[b].spec.no = task[b].no
           /\ task[b].no <= saves /\ task[b].no \in Int
<1>1. b \in Processes /\ Fits(b) /\ saves \in 0..MaxCalls
  BY DEF Processes, NInv, InOrder, Typed
<1>2. OwnHash(b) \in Hashes
  <2>1. Source(b) \in Sources
    BY <1>1, SMT DEF Fits, Saving
  <2> QED
    BY <2>1 DEF OwnHash, Hashes
<1>3. task[b].no \in 1..saves /\ got[b].spec = [hash |-> OwnHash(b), no |-> task[b].no]
  BY <1>1 DEF Fits
<1>4. got[b].spec \in Contents /\ got[b].spec.no = task[b].no
  BY <1>1, <1>2, <1>3, Parameters, SMT DEF Contents
<1> QED
  BY <1>1, <1>3, <1>4, Parameters, SMT DEF Fits

\* What a save writes fits the file it writes it to.
LEMMA ContentFits ==
    ASSUME NInv, NEW b \in Builders, Saving(b), NEW i, i = task[b].file
    PROVE  /\ i \in {1, 5} => Write(b).content \in Manifests
           /\ i = 2 => Write(b).content = Source(b).code /\ Source(b).code \in Codes
           /\ i \in {3, 4} => Write(b).content \in Contents
           /\ i = 3 => Write(b).content = got[b].wasm
           /\ i = 4 => Write(b).content = got[b].spec
<1>1. b \in Processes /\ Fits(b) /\ Typed
  BY DEF Processes, NInv, InOrder
<1>2. i \in 1..5
  BY <1>1, SMT DEF Typed, Tasks
<1>3. Source(b) \in Sources
  BY <1>1, SMT DEF Fits, Saving
<1>4. Source(b).caps \in BOOLEAN
  BY <1>3, ArtifactCacheAssumption, Zenon
<1>5. /\ Manifest(Source(b).deps, Source(b).caps) \in Manifests
      /\ Manifest({}, Source(b).caps) \in Manifests
  BY <1>3, <1>4, Zenon DEF Manifest, Manifests
<1>6. Source(b).code \in Codes
  BY <1>3 DEF Codes
<1>7. got[b].wasm \in Contents /\ got[b].spec \in Contents
  BY SaverHolds
<1> QED
  BY <1>2, <1>5, <1>6, <1>7, WriteIs, SMT

\* A file that is opened is cut short ...
LEMMA BeginChanges ==
    ASSUME NInv, NEW b \in Builders, SaveBegin(b)
    PROVE  /\ modules' \in [Dirs -> Files]
           /\ FileChanged(Dir(b), task[b].file, Torn)
<1>1. b \in Processes /\ Typed
  BY DEF Processes, NInv
<1>2. task[b].file \in 1..5 /\ Dir(b) \in Dirs
  BY <1>1, SMT DEF Typed, Tasks, Dir
<1>3. modules' = [modules EXCEPT ![Dir(b)][Write(b).file] = Torn]
  BY DEF SaveBegin
<1> QED
  BY <1>1, <1>2, <1>3, WriteIs, OneFile

\* ... and gets its content at the end, if it is still there.
LEMMA EndChanges ==
    ASSUME NInv, NEW b \in Builders, SaveEnd(b)
    PROVE  /\ modules' \in [Dirs -> Files]
           /\ IF StillThere(b) THEN FileChanged(Dir(b), task[b].file, Write(b).content)
                               ELSE modules' = modules
<1>1. b \in Processes /\ Typed /\ Saving(b)
  BY DEF Processes, NInv, SaveEnd, Saving, At
<1>2. task[b].file \in 1..5 /\ Dir(b) \in Dirs
  BY <1>1, SMT DEF Typed, Tasks, Dir
<1>3. CASE StillThere(b)
  <2>1. modules' = [modules EXCEPT ![Dir(b)][Write(b).file] = Write(b).content]
    BY <1>3 DEF SaveEnd
  <2>2. /\ task[b].file \in {1, 5} => Write(b).content \in Manifests \cup {Torn}
        /\ task[b].file = 2 => Write(b).content \in Codes \cup {Torn}
        /\ task[b].file \in {3, 4} => Write(b).content \in Contents \cup {Torn}
    BY <1>1, ContentFits
  <2> HIDE DEF FileChanged
  <2>3. modules' \in [Dirs -> Files] /\ FileChanged(Dir(b), task[b].file, Write(b).content)
    BY <1>1, <1>2, <2>1, <2>2, WriteIs, OneFile
  <2> QED
    BY <1>3, <2>3
<1>4. CASE ~StillThere(b)
  BY <1>1, <1>4 DEF SaveEnd, Typed
<1> QED
  BY <1>3, <1>4

\* The steps of a save keep the types.
LEMMA SaveTyped ==
    ASSUME NInv, NEW b \in Builders, SaveBegin(b) \/ SaveEnd(b) \/ SaveFails(b)
    PROVE  Typed'
<1>1. b \in Processes /\ Typed /\ Saving(b) /\ Fits(b)
  BY DEF Processes, NInv, InOrder, SaveBegin, SaveEnd, SaveFails, Saving, At
<1>2. /\ Dir(b) \in Dirs /\ Source(b) \in Sources
      /\ task[b].no \in 0..MaxCalls /\ task[b].file \in 1..5
  BY <1>1, SMT DEF Typed, Tasks, Dir, Fits, Saving
<1>3. {"half", "save", "done"} \subseteq CachePcs
  BY DEF CachePcs
<1>4. CASE SaveBegin(b)
  <2>1. task' \in [Processes -> Tasks]
    BY <1>1, <1>3, <1>4, TaskTyped, Zenon DEF SaveBegin
  <2>2. modules' \in [Dirs -> Files] /\ FileChanged(Dir(b), task[b].file, Torn)
    BY <1>4, BeginChanges
  <2>3. exists' \in SUBSET Dirs /\ mixed' \in SUBSET Dirs
    BY <1>1, <1>2, <1>4, Zenon DEF SaveBegin, Typed
  <2>4. \A d \in Dirs \ exists' : modules'[d] = NoFiles
    BY <1>1, <1>4, <2>2, Zenon DEF SaveBegin, Typed, FileChanged
  <2> QED
    BY <1>1, <1>4, <2>1, <2>2, <2>3, <2>4, SMT DEF SaveBegin, Typed, bounds, histories
<1>5. CASE SaveEnd(b)
  <2>1. task' \in [Processes -> Tasks]
    <3>1. CASE task[b].file = 5
      BY <1>1, <1>3, <1>5, <3>1, SMT DEF SaveEnd, Typed, Tasks
    <3>2. CASE task[b].file # 5
      <4>1. Task("save", Source(b), Dir(b), task[b].no, task[b].file + 1) \in Tasks
        BY <1>2, <1>3, <3>2, SMT DEF Task, Tasks
      <4> QED
        BY <1>1, <1>5, <3>2, <4>1, SMT DEF SaveEnd, Typed
    <3> QED
      BY <3>1, <3>2
  <2>2. modules' \in [Dirs -> Files]
    BY <1>5, EndChanges
  <2>3. \A d \in Dirs \ exists : modules'[d] = NoFiles
    <3>1. CASE ~StillThere(b)
      BY <1>1, <1>5, <3>1, EndChanges DEF Typed
    <3>2. CASE StillThere(b)
      <4>1. File(b, Write(b).file) # None
        BY <3>2 DEF StillThere
      <4>2. modules[Dir(b)] # NoFiles
        BY <1>2, <4>1, WriteIs, SMT DEF File, NoFiles
      <4>3. Dir(b) \in exists
        BY <1>1, <1>2, <4>2 DEF Typed
      <4>4. \A e \in Dirs \ {Dir(b)} : modules'[e] = modules[e]
        BY <1>5, <3>2, EndChanges DEF FileChanged
      <4> QED
        BY <1>1, <4>3, <4>4 DEF Typed
    <3> QED
      BY <3>1, <3>2
  <2> QED
    BY <1>1, <1>5, <2>1, <2>2, <2>3, SMT DEF SaveEnd, Typed, bounds, histories
<1>6. CASE SaveFails(b)
  <2>1. task' \in [Processes -> Tasks]
    <3>1. /\ Task("save", Source(b), Dir(b), task[b].no, 3) \in Tasks
          /\ Task("done", Source(b), Dir(b), task[b].no, 5) \in Tasks
      BY <1>2, <1>3, SMT DEF Task, Tasks
    <3> QED
      BY <1>1, <1>6, <3>1, SMT DEF SaveFails, Typed
  <2>2. events' \in 0..MaxEvents
    BY <1>1, <1>6, Parameters, SMT DEF SaveFails, Typed
  <2> QED
    BY <1>1, <1>6, <2>1, <2>2, SMT DEF SaveFails, Typed, fileVars, histories
<1> QED
  BY <1>4, <1>5, <1>6

\* Ships of the capability and purges keep the types.
LEMMA AdminTyped ==
    ASSUME NInv, ShipCapability \/ ShipStep \/ PurgeStep \/ \E dirs \in Purges : Purge(dirs)
    PROVE  Typed'
<1>1. Typed /\ admin.ship \in Ships /\ admin.purge \in PurgePlans
  BY SMT DEF NInv, Typed, Admin
<1>a. ASSUME NEW S \in Ships, admin' = [admin EXCEPT !.ship = S] PROVE admin' \in Admin
  BY <1>1, <1>a, SMT DEF Typed, Admin
<1>b. ASSUME NEW S \in PurgePlans, admin' = [admin EXCEPT !.purge = S] PROVE admin' \in Admin
  BY <1>1, <1>b, SMT DEF Typed, Admin
<1>2. CASE ShipCapability
  <2>1. <<"lib", "interface">> \in Ships
    BY SMT DEF Ships
  <2>2. admin' \in Admin
    BY <1>2, <1>a, <2>1 DEF ShipCapability
  <2>3. events' \in 0..MaxEvents
    BY <1>1, <1>2, Parameters, SMT DEF ShipCapability, Typed
  <2> QED
    BY <1>1, <1>2, <2>2, <2>3, SMT DEF ShipCapability, Typed, fileVars, histories
<1>3. CASE ShipStep
  <2>1. Tail(admin.ship) \in Ships /\ Head(admin.ship) \in {"lib", "interface"}
    BY <1>1, <1>3, SMT DEF ShipStep, Ships
  <2>2. admin' \in Admin
    BY <1>3, <1>a, <2>1 DEF ShipStep
  <2> QED
    BY <1>1, <1>3, <2>1, <2>2, SMT DEF ShipStep, Typed, fileVars, bounds, histories
<1>4. CASE PurgeStep
  <2>1. /\ Tail(admin.purge) \in PurgePlans
        /\ Head(admin.purge) \in {"capabilities", "interfaces", "modules"}
    BY <1>1, <1>4, SMT DEF PurgeStep, PurgePlans
  <2>2. admin' \in Admin
    BY <1>4, <1>b, <2>1 DEF PurgeStep
  <2>3. cap' \in SUBSET {"lib", "interface"}
    <3>1. cap' = cap \/ cap' = cap \ {"lib"} \/ cap' = cap \ {"interface"}
      BY <1>4, <2>1, SMT DEF PurgeStep
    <3>2. cap' \subseteq cap
      BY <3>1, Zenon
    <3> QED
      BY <1>1, <3>2, Zenon DEF Typed
  <2>4. /\ modules' \in [Dirs -> Files] /\ exists' \in SUBSET Dirs
        /\ \A d \in Dirs \ exists' : modules'[d] = NoFiles
    <3>1. NoFiles \in Files
      BY SMT DEF NoFiles, Files
    <3>2. \/ modules' = [d \in Dirs |-> NoFiles] /\ exists' = {}
          \/ UNCHANGED <<modules, exists>>
      BY <1>4 DEF PurgeStep, fileVars, histories
    <3> QED
      BY <1>1, <3>1, <3>2, SMT DEF Typed
  <2>5. UNCHANGED <<target, slot, task, got, calls, loads, events, saves, mixed, overtaken, crossed>>
    BY <1>4 DEF PurgeStep, bounds, histories
  <2> QED
    BY <1>1, <2>2, <2>3, <2>4, <2>5, SMT DEF Typed
<1>5. ASSUME NEW dirs \in Purges, Purge(dirs) PROVE Typed'
  <2>1. dirs \in PurgePlans
    <3>1. /\ <<"capabilities", "interfaces", "modules">> \in PurgePlans
          /\ <<"capabilities", "interfaces">> \in PurgePlans
          /\ <<"modules">> \in PurgePlans
      BY SMT DEF PurgePlans
    <3> QED
      BY <3>1, Zenon DEF Purges
  <2>2. admin' \in Admin
    BY <1>5, <1>b, <2>1 DEF Purge
  <2>3. events' \in 0..MaxEvents
    BY <1>1, <1>5, Parameters, SMT DEF Purge, Typed
  <2> QED
    BY <1>1, <1>5, <2>2, <2>3, SMT DEF Purge, Typed, fileVars, histories
<1> QED
  BY <1>2, <1>3, <1>4, <1>5

-----------------------------------------------------------------------------
(* The order of builds, step by step *)

Others(p) == \A q \in Processes \ {p} : task'[q] = task[q] /\ got'[q] = got[q]

\* A process that saves nothing now, and is right by itself.
Settles(p) == ~Saving(p) /\ Fits(p) /\ ReaderOrdered(p) /\ NotOlder(p)

\* A step of one process that writes no file preserves what holds of the
\* directories and of all other processes.
LEMMA QuietStep ==
    ASSUME NInv, NEW p \in Processes, Others(p), UNCHANGED <<modules, mixed, saves>>, Settles(p)'
    PROVE  /\ \A d \in Dirs : Numbered(d)' /\ BinaryOrdered(d)'
           /\ \A q \in Processes : InOrder(q)'
<1>1. \A d \in Dirs : Numbered(d)' /\ BinaryOrdered(d)'
  BY Zenon DEF NInv, Numbered, BinaryOrdered, HasFiles
<1>2. ASSUME NEW q \in Processes, q # p PROVE InOrder(q)'
  <2>0. InOrder(q) /\ task'[q] = task[q] /\ got'[q] = got[q]
    BY <1>2 DEF NInv, Others
  <2>a. \A b \in Builders : Saving(b)' => Saving(b) /\ task'[b] = task[b]
    BY DEF Settles, Saving, Others, Processes
  <2>1. Fits(q)'
    BY <2>0, Zenon DEF InOrder, Fits, Source, Dir, Saving, Reading, At, OwnHash
  <2>2. SaverOrdered(q)'
    BY <2>0, <2>a, Zenon DEF InOrder, SaverOrdered, Saving, Begun, Dir, File, At
  <2>3. ReaderOrdered(q)'
    BY <2>0, <2>a, Zenon DEF InOrder, ReaderOrdered, Reading, Dir, File
  <2>4. NotOlder(q)'
    BY <2>0, Zenon DEF InOrder, NotOlder, At, Dir
  <2> QED
    BY <2>1, <2>2, <2>3, <2>4 DEF InOrder
<1>3. InOrder(p)'
  <2>1. SaverOrdered(p)'
    BY DEF Settles, SaverOrdered
  <2> QED
    BY <2>1 DEF Settles, InOrder
<1> QED
  BY <1>1, <1>2, <1>3

\* Who starts, searches, waits for a slot or builds has read no spec.
LEMMA StartSettles ==
    ASSUME NInv, NEW p \in Processes,
           task'[p].pc \notin {"config", "wasm", "save", "half", "done"},
           Fits(p)'
    PROVE  Settles(p)'
  BY Zenon DEF Settles, Saving, ReaderOrdered, Reading, NotOlder, At

\* A compile starts at the first version.
LEMMA CompileNInv ==
    ASSUME NInv, NEW b \in Builders, NEW s \in Sources, Compile(b, s) PROVE NInv'
<1>1. b \in Processes /\ Typed /\ Counted /\ saves \in 0..MaxCalls /\ b \notin Loaders
  BY Parameters DEF Processes, NInv, Typed
<1>2. /\ task'[b] = Task(IF s.author = "anon" THEN "search" ELSE "spec", s, <<s.author, 1>>, 0, 1)
      /\ got'[b] = Nothing /\ Others(b)
  BY <1>1, SMT DEF Compile, Typed, Others
<1>3. /\ task'[b].pc \in {"search", "spec"} /\ task'[b].source = s
      /\ task'[b].dir = <<s.author, 1>> /\ got'[b].spec = None
  BY <1>2, SMT DEF Task, Nothing
<1>4. Fits(b)'
  BY <1>1, <1>3, Parameters, SMT DEF Fits, Source, Dir, Saving, Reading, At, Compile
<1>5. Settles(b)'
  BY <1>1, <1>3, <1>4, StartSettles, SMT
<1>6. Typed'
  BY CompileTyped
<1>7. Counted'
  <2>1. Working' \subseteq Working \cup {b}
    BY <1>2, Zenon DEF Working, Others, Processes
  <2> QED
    BY <1>1, <2>1, CountedCompile DEF Compile
<1> QED
  BY <1>1, <1>2, <1>5, <1>6, <1>7, QuietStep DEF NInv, Compile, fileVars, histories

\* A version is searched.
LEMMA SearchNInv ==
    ASSUME NInv, NEW b \in Builders, SearchCode(b) \/ SearchManifest(b) PROVE NInv'
<1>1. /\ b \in Processes /\ Typed /\ Counted /\ saves \in 0..MaxCalls /\ b \notin Loaders
      /\ Fits(b) /\ task[b].pc \in {"search", "manifest"} /\ Dir(b) \in Dirs
  <2>1. b \in Processes /\ Typed
    BY DEF Processes, NInv
  <2>2. task[b].pc \in {"search", "manifest"}
    BY SMT DEF SearchCode, SearchManifest, At
  <2>3. Dir(b) \in Dirs
    BY <2>1, SMT DEF Typed, Tasks, Dir
  <2> QED
    BY <2>1, <2>2, <2>3, Parameters DEF NInv, InOrder, Typed
<1>2. Others(b)
  <2>1. CASE SearchCode(b)
    BY <1>1, <2>1, SMT DEF SearchCode, Goto, Typed, Others
  <2>2. CASE SearchManifest(b)
    BY <1>1, <2>2, SMT DEF SearchManifest, Goto, Typed, Others
  <2> QED
    BY <2>1, <2>2
<1>3. /\ task'[b].pc \in {"search", "manifest", "slot", "spec"}
      /\ task'[b].source = Source(b)
      /\ \/ task'[b].dir = Dir(b)
         \/ task'[b].dir = <<Dir(b)[1], Dir(b)[2] + 1>> /\ Dir(b)[2] <= saves
      /\ got'[b].spec \in {None, got[b].spec}
  <2>1. CASE SearchCode(b)
    BY <1>1, <2>1, SMT DEF SearchCode, Goto, Typed, Tasks, Reads, Dir, Source
  <2>2. CASE SearchManifest(b)
    <3>1. got'[b].spec = None
      BY <1>1, <2>2, SMT DEF SearchManifest, Typed, Nothing
    <3>2. CASE Goto(b, "slot") \/ Goto(b, "spec")
      BY <1>1, <3>1, <3>2, SMT DEF Goto, Typed, Tasks, Dir, Source
    <3>3. CASE /\ File(b, "toml") \notin {None, Torn}
               /\ task' = [task EXCEPT ![b] =
                     Task("search", Source(b), <<Dir(b)[1], Dir(b)[2] + 1>>, 0, 1)]
      <4>1. HasFiles(Dir(b))
        BY <3>3 DEF HasFiles, NoFiles, File
      <4>2. Dir(b)[2] <= saves
        BY <1>1, <4>1 DEF NInv, Numbered
      <4> QED
        BY <1>1, <3>1, <3>3, <4>2, SMT DEF Typed, Task
    <3> QED
      BY <2>2, <3>2, <3>3 DEF SearchManifest
  <2> QED
    BY <2>1, <2>2
<1>4. Fits(b)'
  <2>1. /\ task'[b].source \in Sources /\ task'[b].dir[1] = task'[b].source.author
    <3>1. Source(b) \in Sources /\ Dir(b)[1] = Source(b).author
      BY <1>1, SMT DEF Fits
    <3> QED
      BY <1>3, <3>1, SMT
  <2>2. task'[b].dir[2] <= saves + 1
    <3>1. Dir(b)[2] <= saves + 1 /\ Dir(b)[2] \in Int
      BY <1>1, SMT DEF Fits, Dirs, Versions
    <3> QED
      BY <1>1, <1>3, <3>1, SMT
  <2>3. got'[b].spec \in Contents => got'[b].spec.no <= saves
    BY <1>1, <1>3, Parameters DEF Fits
  <2>4. saves' = saves
    BY DEF SearchCode, SearchManifest, bounds, histories
  <2> QED
    BY <1>1, <1>3, <2>1, <2>2, <2>3, <2>4, SMT DEF Fits, Source, Dir, Saving, Reading, At
<1>5. Settles(b)'
  BY <1>1, <1>3, <1>4, StartSettles, SMT
<1>6. Typed'
  BY SearchTyped
<1>7. UNCHANGED <<modules, mixed, saves, calls>>
  BY DEF SearchCode, SearchManifest, bounds, fileVars, histories
<1>8. Counted'
  <2>1. Working' \subseteq Working
    BY <1>1, <1>2, SMT DEF Working, Others, Processes
  <2> QED
    BY <1>1, <1>7, <2>1, CountedQuiet
<1> QED
  BY <1>1, <1>2, <1>5, <1>6, <1>7, <1>8, QuietStep DEF NInv

\* What is left of a task that ends with an error, or did not find its binary.
LEMMA GivesUp ==
    ASSUME NInv, NEW p \in Processes, Fails(p) \/ (NotThere(p) /\ task[p].pc \in {"spec", "config", "wasm"}),
           saves' = saves
    PROVE  Others(p) /\ Settles(p)' /\ Working' \subseteq Working
<1>1. Typed /\ Fits(p) /\ saves \in 0..MaxCalls
  BY DEF NInv, InOrder, Typed
<1>2. CASE Fails(p)
  <2>1. Others(p) /\ task'[p] = Idle /\ got'[p] = Nothing
    BY <1>1, <1>2, SMT DEF Fails, Typed, Others
  <2>2. task'[p].pc = "idle" /\ task'[p].dir = <<"team", 1>> /\ got'[p].spec = None
    BY <2>1, SMT DEF Idle, Task, Nothing
  <2>3. Fits(p)'
    BY <1>1, <2>2, Parameters, SMT DEF Fits, Source, Dir, Saving, Reading, At
  <2>4. Settles(p)'
    BY <2>2, <2>3, StartSettles, SMT
  <2>5. Working' \subseteq Working
    BY <2>1, <2>2, SMT DEF Working, Others, Processes
  <2> QED
    BY <2>1, <2>4, <2>5
<1>3. CASE p \notin Loaders /\ NotThere(p) /\ task[p].pc \in {"spec", "config", "wasm"}
  <2>1. /\ Others(p) /\ got'[p] = Nothing /\ task'[p].pc = "slot"
        /\ task'[p].source = Source(p) /\ task'[p].dir = Dir(p)
    BY <1>1, <1>3, SMT DEF NotThere, Goto, Typed, Others, Tasks, Source, Dir
  <2>2. got'[p].spec = None
    BY <2>1 DEF Nothing
  <2>3. Fits(p)'
    BY <1>1, <1>3, <2>1, <2>2, Parameters, SMT DEF Fits, Source, Dir, Saving, Reading, At
  <2>4. Settles(p)'
    BY <2>1, <2>3, StartSettles, SMT
  <2>5. Working' \subseteq Working
    BY <1>3, <2>1, SMT DEF Working, Others, Processes
  <2> QED
    BY <2>1, <2>4, <2>5
<1> QED
  BY <1>2, <1>3 DEF NotThere

\* The spec is read before the program: no older program can come between.
LEMMA ReadNInv == ASSUME NInv, NEW p \in Processes, ReadStep(p) PROVE NInv'
<1>1. /\ Typed /\ Counted /\ saves \in 0..MaxCalls /\ InOrder(p)
      /\ task[p].pc \in {"spec", "config", "wasm"} /\ Dir(p) \in Dirs
  <2>1. task[p].pc \in {"spec", "config", "wasm"}
    BY SMT DEF ReadStep, ReadSpec, ReadConfig, ReadWasm, At
  <2>2. Dir(p) \in Dirs
    BY SMT DEF NInv, Typed, Tasks, Dir
  <2> QED
    BY <2>1, <2>2 DEF NInv, Typed
<1>2. UNCHANGED <<modules, mixed, saves, calls>>
  BY DEF ReadStep, ReadSpec, ReadConfig, ReadWasm, fileVars, bounds, histories
<1>3. CASE NotThere(p)
  <2>1. Others(p) /\ Settles(p)' /\ Working' \subseteq Working
    BY <1>1, <1>2, <1>3, GivesUp
  <2> QED
    BY <1>1, <1>2, <2>1, CountedQuiet, QuietStep, ReadTyped DEF NInv
<1>4. CASE ~NotThere(p)
  <2>1. /\ Others(p) /\ task'[p].source = Source(p) /\ task'[p].dir = Dir(p)
        /\ \/ /\ At(p, "spec") /\ task'[p].pc = "config"
              /\ File(p, "spec") \notin {None, Torn} /\ got'[p].spec = File(p, "spec")
           \/ /\ At(p, "config") /\ task'[p].pc = "wasm" /\ got'[p].spec = got[p].spec
           \/ /\ At(p, "wasm") /\ task'[p].pc = "done" /\ got'[p].spec = got[p].spec
              /\ File(p, "wasm") # None /\ got'[p].wasm = File(p, "wasm")
    <3>1. CASE ReadSpec(p)
      BY <1>1, <1>4, <3>1, SMT DEF ReadSpec, Goto, Typed, Others, Tasks, Reads, Source, Dir, At
    <3>2. CASE ReadConfig(p)
      BY <1>1, <1>4, <3>2, SMT DEF ReadConfig, Goto, Typed, Others, Tasks, Reads, Source, Dir, At
    <3>3. CASE ReadWasm(p)
      BY <1>1, <1>4, <3>3, SMT DEF ReadWasm, Goto, Typed, Others, Tasks, Reads, Source, Dir, At
    <3> QED
      BY <3>1, <3>2, <3>3 DEF ReadStep
  <2>2. \A b \in Builders : (Saving(b)' => Saving(b) /\ b # p /\ task'[b] = task[b])
    BY <2>1, SMT DEF Saving, Others, Processes
  <2>3. modules[Dir(p)] \in Files /\ Numbered(Dir(p)) /\ BinaryOrdered(Dir(p))
    BY <1>1 DEF NInv, Typed
  <2>4. File(p, "spec") \in Contents \cup {None, Torn} /\ File(p, "wasm") \in Contents \cup {None, Torn}
    BY <2>3, SMT DEF Files, File
  <2>5. /\ got'[p].spec \in Contents /\ got'[p].spec.no <= saves
    <3>1. CASE At(p, "spec")
      BY <2>1, <2>3, <2>4, <3>1, SMT DEF Numbered, File, At
    <3>2. CASE ~At(p, "spec")
      BY <1>1, <2>1, <3>2, SMT DEF InOrder, Fits, Reading, At
    <3> QED
      BY <3>1, <3>2
  <2>6. Fits(p)'
    <3>1. task'[p].pc \in {"config", "wasm", "done"}
      BY <2>1
    <3>2. p \in Builders => /\ Source(p) \in Sources /\ Dir(p)[1] = Source(p).author
                            /\ Dir(p)[2] <= saves + 1
      BY <1>1, SMT DEF InOrder, Fits
    <3> QED
      BY <1>2, <2>1, <2>5, <3>1, <3>2, SMT DEF Fits, Source, Dir, Saving, Reading, At
  <2>7. ReaderOrdered(p)'
    <3>1. CASE At(p, "spec")
      <4>1. got'[p].spec = modules[Dir(p)].spec
        BY <2>1, <3>1, SMT DEF File, At
      <4>2. Dir(p) \notin mixed /\ modules[Dir(p)].wasm \in Contents =>
              got'[p].spec.no <= modules[Dir(p)].wasm.no
        BY <2>3, <2>5, <4>1 DEF BinaryOrdered
      <4>3. ASSUME Dir(p) \notin mixed, NEW b \in Builders, Saving(b), Dir(b) = Dir(p)
            PROVE  got'[p].spec.no <= task[b].no
        <5>1. SaverOrdered(b)
          BY DEF NInv, InOrder, Processes
        <5> QED
          BY <2>5, <4>1, <4>3, <5>1 DEF SaverOrdered, File
      <4> QED
        BY <1>2, <2>1, <2>2, <4>2, <4>3, Zenon DEF ReaderOrdered, File, Dir
    <3>2. CASE At(p, "config")
      <4>1. ReaderOrdered(p) /\ Reading(p) /\ got'[p].spec = got[p].spec
        BY <1>1, <2>1, <3>2, SMT DEF InOrder, Reading, At
      <4> QED
        BY <1>2, <2>1, <2>2, <4>1, Zenon DEF ReaderOrdered, File, Dir
    <3>3. CASE At(p, "wasm")
      BY <2>1, <3>3, SMT DEF ReaderOrdered, Reading, At
    <3> QED
      BY <1>1, <3>1, <3>2, <3>3 DEF At
  <2>8. NotOlder(p)'
    <3>1. CASE At(p, "wasm")
      <4>1. /\ ReaderOrdered(p) /\ Reading(p) /\ got'[p].spec = got[p].spec
            /\ got'[p].wasm = modules[Dir(p)].wasm /\ modules[Dir(p)].wasm # None
        BY <1>1, <2>1, <3>1, SMT DEF InOrder, Reading, At, File
      <4>2. got'[p].wasm # Torn => got'[p].wasm \in Contents
        BY <2>4, <4>1 DEF File
      <4>3. got'[p].wasm # Torn /\ Dir(p) \notin mixed => got'[p].spec.no <= got'[p].wasm.no
        BY <4>1, <4>2, Zenon DEF ReaderOrdered, File
      <4>4. got'[p].wasm # Torn => got'[p].spec.no \in Int /\ got'[p].wasm.no \in Int
        BY <2>5, <4>2, Parameters, SMT DEF Contents
      <4> QED
        BY <1>2, <2>1, <4>3, <4>4, SMT DEF NotOlder, At, Dir
    <3>2. CASE ~At(p, "wasm")
      BY <2>1, <3>2, SMT DEF NotOlder, At
    <3> QED
      BY <3>1, <3>2
  <2>9. ~Saving(p)'
    BY <2>1, SMT DEF Saving
  <2>10. Working' \subseteq Working
    BY <1>1, <2>1, SMT DEF Working, Others, Processes
  <2> QED
    BY <1>1, <1>2, <2>1, <2>6, <2>7, <2>8, <2>9, <2>10, CountedQuiet, QuietStep, ReadTyped
    DEF NInv, Settles
<1> QED
  BY <1>3, <1>4

\* A load starts at the version it was given or found.
LEMMA LoadNInv ==
    ASSUME NInv, NEW l \in Loaders, NEW d \in Dirs, Load(l, d[1], d[2]) PROVE NInv'
<1>1. l \in Processes /\ Typed /\ Counted /\ saves \in 0..MaxCalls /\ l \notin Builders
  BY Parameters DEF Processes, NInv, Typed
<1>2. /\ task'[l] = Task("spec", None, <<d[1], d[2]>>, 0, 1)
      /\ got'[l] = Nothing /\ Others(l)
  BY <1>1, SMT DEF Load, Typed, Others
<1>3. /\ task'[l].pc = "spec" /\ got'[l].spec = None
  BY <1>2, SMT DEF Task, Nothing
<1>4. Fits(l)'
  BY <1>1, <1>3, Parameters, SMT DEF Fits, Saving, Reading, At
<1>5. Settles(l)'
  BY <1>1, <1>3, <1>4, StartSettles, SMT
<1>6. Counted'
  <2>1. Working' \subseteq Working
    BY <1>1, <1>2, Zenon DEF Working, Others, Processes
  <2> QED
    BY <1>1, <2>1, CountedQuiet DEF Load
<1> QED
  BY <1>1, <1>2, <1>5, <1>6, LoadTyped, QuietStep DEF NInv, Load, fileVars, histories

\* What happens in a slot changes no version.
LEMMA SlotNInv ==
    ASSUME NInv, NEW b \in Builders, NEW k \in Slots,
           Acquire(b, k) \/ Prepare(b, k) \/ Cargo(b, k)
    PROVE  NInv'
<1>1. /\ b \in Processes /\ Typed /\ Counted /\ saves \in 0..MaxCalls /\ b \notin Loaders
      /\ Fits(b) /\ task[b].pc \in {"slot", "prepare", "cargo"}
  <2>1. b \in Processes /\ task[b].pc \in {"slot", "prepare", "cargo"}
    BY SMT DEF Processes, Acquire, Prepare, Cargo, At
  <2> QED
    BY <2>1, Parameters DEF NInv, InOrder, Typed
<1>2. UNCHANGED <<modules, mixed, saves, calls>>
  BY DEF Acquire, Prepare, Cargo, fileVars, bounds, histories
<1>3. Others(b) /\ Settles(b)' /\ Working' \subseteq Working
  <2>1. CASE Fails(b)
    BY <1>1, <1>2, <2>1, GivesUp
  <2>2. CASE UNCHANGED got /\ \E x \in {"prepare", "cargo", "take"} : Goto(b, x)
    <3>1. /\ Others(b) /\ got'[b].spec = got[b].spec /\ task'[b].pc \in {"prepare", "cargo", "take"}
          /\ task'[b].source = Source(b) /\ task'[b].dir = Dir(b)
      BY <1>1, <2>2, SMT DEF Goto, Typed, Others, Tasks, Source, Dir
    <3>2. Fits(b)'
      BY <1>1, <1>2, <3>1, SMT DEF Fits, Source, Dir, Saving, Reading, At
    <3>3. Settles(b)'
      BY <1>1, <3>1, <3>2, StartSettles, SMT
    <3>4. Working' \subseteq Working
      BY <1>1, <3>1, SMT DEF Working, Others, Processes
    <3> QED
      BY <3>1, <3>3, <3>4
  <2> QED
    BY <2>1, <2>2, Zenon DEF Acquire, Prepare, Cargo
<1> QED
  BY <1>1, <1>2, <1>3, CountedQuiet, QuietStep, SlotTyped DEF NInv

\* A compile that fails or dies leaves its version as it is.
LEMMA EndNInv == ASSUME NInv, NEW b \in Builders, CompileFails(b) \/ Crash(b) PROVE NInv'
<1>1. b \in Processes /\ Typed /\ Counted /\ Fails(b)
  BY DEF Processes, NInv, CompileFails, Crash
<1>2. UNCHANGED <<modules, mixed, saves, calls>>
  BY DEF CompileFails, Crash, fileVars, histories
<1>3. Others(b) /\ Settles(b)' /\ Working' \subseteq Working
  BY <1>1, <1>2, GivesUp
<1> QED
  BY <1>1, <1>2, <1>3, CountedQuiet, QuietStep, EndTyped DEF NInv

\* Nothing the order is about has changed.
LEMMA SameNInv ==
    ASSUME NInv, Typed', UNCHANGED <<modules, mixed, saves, calls, task, got>> PROVE NInv'
<1>1. Counted'
  BY DEF NInv, Counted, Working
<1>2. \A d \in Dirs : Numbered(d)' /\ BinaryOrdered(d)'
  BY DEF NInv, Numbered, BinaryOrdered, HasFiles
<1>3. ASSUME NEW p \in Processes PROVE InOrder(p)'
  <2>1. InOrder(p)
    BY DEF NInv
  <2>2. Fits(p)' /\ NotOlder(p)'
    BY <2>1 DEF InOrder, Fits, NotOlder, Source, Dir, Saving, Reading, At, OwnHash
  <2>3. SaverOrdered(p)' /\ ReaderOrdered(p)'
    BY <2>1 DEF InOrder, SaverOrdered, ReaderOrdered, Dir, Saving, Reading, Begun, At, File
  <2> QED
    BY <2>2, <2>3 DEF InOrder
<1> QED
  BY <1>1, <1>2, <1>3 DEF NInv

\* A purge removes files of all versions at once, and orders nothing.
LEMMA AdminNInv ==
    ASSUME NInv, ShipCapability \/ ShipStep \/ PurgeStep \/ \E dirs \in Purges : Purge(dirs)
    PROVE  NInv'
<1>1. Typed' /\ Typed
  BY AdminTyped DEF NInv
<1>2. UNCHANGED <<mixed, saves, calls, task, got>>
  BY DEF ShipCapability, ShipStep, PurgeStep, Purge, bounds, histories
<1>3. CASE UNCHANGED modules
  BY <1>1, <1>2, <1>3, SameNInv
<1>4. CASE modules' = [d \in Dirs |-> NoFiles]
  <2>1. \A d \in Dirs : modules'[d] = NoFiles
    BY <1>4
  <2>2. Counted'
    BY <1>2 DEF NInv, Counted, Working
  <2>3. \A d \in Dirs : Numbered(d)' /\ BinaryOrdered(d)'
    BY <2>1, Parameters, SMT DEF Numbered, BinaryOrdered, HasFiles, NoFiles
  <2>4. ASSUME NEW p \in Processes PROVE InOrder(p)'
    <3>1. InOrder(p) /\ Dir(p) \in Dirs
      BY <1>1, SMT DEF NInv, Typed, Tasks, Dir
    <3>2. Fits(p)' /\ NotOlder(p)'
      BY <1>2, <3>1 DEF InOrder, Fits, NotOlder, Source, Dir, Saving, Reading, At, OwnHash
    <3>3. /\ modules'[Dir(p)].wasm = None /\ modules'[Dir(p)].spec = None
          /\ modules'[Dir(p)].wasm \notin Contents /\ modules'[Dir(p)].spec \notin Contents
      BY <2>1, <3>1, Parameters, SMT DEF NoFiles
    <3>4. SaverOrdered(p)' /\ ReaderOrdered(p)'
      BY <1>2, <3>1, <3>3, Zenon
      DEF InOrder, SaverOrdered, ReaderOrdered, Dir, Saving, Reading, Begun, At, File
    <3> QED
      BY <3>2, <3>4 DEF InOrder
  <2> QED
    BY <1>1, <2>2, <2>3, <2>4 DEF NInv
<1> QED
  BY <1>3, <1>4 DEF ShipCapability, ShipStep, PurgeStep, Purge, fileVars, histories

\* A compile joins those that save, with a number nobody has.
LEMMA JoinStep ==
    ASSUME NInv, NEW b \in Builders, ~Saving(b), Others(b), UNCHANGED <<modules, mixed>>,
           saves' = saves + 1, Fits(b)',
           task'[b].pc = "save", task'[b].dir \in Dirs, task'[b].no = saves + 1, task'[b].file = 1
    PROVE  /\ \A d \in Dirs : Numbered(d)' /\ BinaryOrdered(d)'
           /\ \A q \in Processes : InOrder(q)'
<1>1. /\ b \in Processes /\ saves \in Nat
      /\ \A d \in Dirs : modules[d] \in Files /\ d[2] \in Int /\ Numbered(d) /\ BinaryOrdered(d)
      /\ \A q \in Processes : Dir(q) \in Dirs /\ task[q].no \in Int
  <2>1. \A q \in Processes : Dir(q) \in Dirs /\ task[q].no \in Int
    BY Parameters, SMT DEF NInv, Typed, Tasks, Dir
  <2>2. \A d \in Dirs : modules[d] \in Files /\ d[2] \in Int
    BY SMT DEF NInv, Typed, Dirs, Versions
  <2> QED
    BY <2>1, <2>2, Parameters, SMT DEF NInv, Typed, Processes
<1>2. \A x \in Contents : x.no \in Int
  BY Parameters, SMT DEF Contents
<1>3. \A d \in Dirs : Numbered(d)' /\ BinaryOrdered(d)'
  BY <1>1, <1>2, SMT DEF Numbered, BinaryOrdered, HasFiles
<1>4. ASSUME NEW q \in Processes, q # b PROVE InOrder(q)'
  <2>1. InOrder(q) /\ task'[q] = task[q] /\ got'[q] = got[q]
    BY <1>4 DEF NInv, Others
  <2>2. Fits(q)'
    BY <1>1, <1>2, <2>1, SMT DEF InOrder, Fits, Source, Dir, Saving, Reading, At, OwnHash
  <2>3. NotOlder(q)'
    BY <2>1 DEF InOrder, NotOlder, At, Dir
  <2>4. \A o \in Builders : Saving(o)' => o = b \/ (Saving(o) /\ task'[o] = task[o])
    BY DEF Saving, Others, Processes
  <2>5. SaverOrdered(q)'
    <3>1. Saving(q) => task[q].no < saves + 1
      BY <1>1, <2>1, SMT DEF InOrder, Fits
    <3> QED
      BY <2>1, <2>4, <3>1, Zenon DEF InOrder, SaverOrdered, Saving, Begun, Dir, File, At
  <2>6. ReaderOrdered(q)'
    <3>1. Reading(q) => got[q].spec.no <= saves + 1
      BY <1>1, <1>2, <2>1, SMT DEF InOrder, Fits
    <3> QED
      BY <2>1, <2>4, <3>1, Zenon DEF InOrder, ReaderOrdered, Reading, Dir, File
  <2> QED
    BY <2>2, <2>3, <2>5, <2>6 DEF InOrder
<1>5. InOrder(b)'
  <2>1. SaverOrdered(b)'
    BY <1>1, <1>2, SMT DEF SaverOrdered, Begun, At, File, Numbered, Dir
  <2>2. ReaderOrdered(b)' /\ NotOlder(b)'
    BY SMT DEF ReaderOrdered, Reading, NotOlder, At
  <2> QED
    BY <2>1, <2>2 DEF InOrder
<1> QED
  BY <1>3, <1>4, <1>5

\* A build that comes to save has the highest number of all.
LEMMA TakeNInv == ASSUME NInv, NEW b \in Builders, TakeWasm(b) PROVE NInv'
<1>1. /\ b \in Processes /\ Typed /\ Fits(b) /\ At(b, "take") /\ saves \in Nat
      /\ Dir(b) \in Dirs /\ b \notin Loaders
  <2>1. b \in Processes /\ Typed
    BY DEF Processes, NInv
  <2>2. Dir(b) \in Dirs
    BY <2>1, SMT DEF Typed, Tasks, Dir
  <2> QED
    BY <2>1, <2>2, Parameters, SMT DEF NInv, InOrder, Typed, TakeWasm
<1>2. Typed' /\ Counted' /\ saves + 1 \in 1..MaxCalls
  BY TakeTyped, NumberTyped DEF TakeWasm, Typed
<1>3. /\ Others(b) /\ task'[b] = Task("save", Source(b), Dir(b), saves + 1, 1)
      /\ got'[b] = [code |-> None, wasm |-> [hash |-> target, no |-> saves + 1], spec |-> SpecOf(b)]
  BY <1>1, SMT DEF TakeWasm, Typed, Others
<1>4. /\ task'[b].pc = "save" /\ task'[b].source = Source(b) /\ task'[b].dir = Dir(b)
      /\ task'[b].no = saves + 1 /\ task'[b].file = 1
      /\ got'[b].wasm = [hash |-> target, no |-> saves + 1]
      /\ got'[b].spec = [hash |-> OwnHash(b), no |-> saves + 1]
  BY <1>3, SMT DEF Task, SpecOf
<1>5. Fits(b)'
  <2>1. Source(b) \in Sources /\ Dir(b)[1] = Source(b).author /\ Dir(b)[2] <= saves + 1
    BY <1>1, SMT DEF Fits, At
  <2>2. got'[b].wasm \in Contents
    BY <1>1, <1>2, <1>4, SMT DEF Contents, Typed
  <2>3. saves' = saves + 1 /\ Dir(b)[2] \in Int
    BY <1>1, SMT DEF TakeWasm, Dirs, Versions
  <2>4. OwnHash(b)' = OwnHash(b)
    BY <1>4 DEF OwnHash, Source
  <2> QED
    BY <1>1, <1>4, <2>1, <2>2, <2>3, <2>4, SMT DEF Fits, Source, Dir, Saving, Reading, At
<1>6. ~Saving(b) /\ UNCHANGED <<modules, mixed>> /\ saves' = saves + 1
  BY <1>1 DEF Saving, At, TakeWasm, fileVars, histories
<1> QED
  BY <1>1, <1>2, <1>3, <1>4, <1>5, <1>6, JoinStep DEF NInv

\* So has a ship.
LEMMA ShipNInv ==
    ASSUME NInv, NEW b \in Builders, NEW s \in Sources, ShipModule(b, s) PROVE NInv'
<1>1. b \in Processes /\ Typed /\ saves \in Nat /\ b \notin Loaders
  BY Parameters, SMT DEF Processes, NInv, Typed
<1>2. Typed' /\ Counted' /\ saves + 1 \in 1..MaxCalls
  <2>1. Typed' /\ Counted'
    BY ShipTyped
  <2>2. saves + 1 = saves' /\ saves' \in 0..MaxCalls
    BY <2>1 DEF ShipModule, Typed
  <2> QED
    BY <1>1, <2>1, <2>2, SMT
<1>3. /\ Others(b) /\ task'[b] = Task("save", s, <<"team", 1>>, saves + 1, 1)
      /\ got'[b] = [code |-> None, wasm |-> [hash |-> Hash(s), no |-> saves + 1],
                    spec |-> [hash |-> Hash(s), no |-> saves + 1]]
  BY <1>1, SMT DEF ShipModule, Typed, Others
<1>4. /\ task'[b].pc = "save" /\ task'[b].source = s /\ task'[b].dir = <<"team", 1>>
      /\ task'[b].no = saves + 1 /\ task'[b].file = 1
      /\ got'[b].wasm = [hash |-> Hash(s), no |-> saves + 1]
      /\ got'[b].spec = [hash |-> Hash(s), no |-> saves + 1]
  BY <1>3, SMT DEF Task
<1>5. Fits(b)'
  <2>1. got'[b].wasm \in Contents
    BY <1>2, <1>4, SMT DEF Contents, Hashes
  <2>2. saves' = saves + 1 /\ s.author = "team"
    BY DEF ShipModule
  <2>3. OwnHash(b)' = Hash(s)
    BY <1>4 DEF OwnHash, Source
  <2> QED
    BY <1>1, <1>4, <2>1, <2>2, <2>3, SMT DEF Fits, Source, Dir, Saving, Reading, At
<1>6. ~Saving(b) /\ UNCHANGED <<modules, mixed>> /\ saves' = saves + 1
  BY SMT DEF Saving, ShipModule, fileVars, histories
<1>7. task'[b].dir \in Dirs
  BY <1>4, Parameters, SMT DEF Dirs, Versions
<1> QED
  BY <1>2, <1>3, <1>4, <1>5, <1>6, <1>7, JoinStep DEF NInv

\* What a step of a save keeps: who saves, where and with which number.
Keeps(b) ==
    /\ Others(b) /\ got' = got /\ saves' = saves /\ mixed \subseteq mixed'
    /\ Source(b)' = Source(b) /\ Dir(b)' = Dir(b) /\ task'[b].no = task[b].no
    /\ task'[b].pc \in {"save", "half", "done"}

Begins(b) == /\ At(b, "save") /\ task'[b].pc = "half" /\ task'[b].file = task[b].file

Ends(b) == /\ At(b, "half")
           /\ task'[b].pc = IF task[b].file = 5 THEN "done" ELSE "save"
           /\ task'[b].file = IF task[b].file = 5 THEN 5 ELSE task[b].file + 1

Skips(b) == /\ At(b, "save")
            /\ task'[b].pc = IF task[b].file < 3 THEN "save" ELSE "done"
            /\ task'[b].file = IF task[b].file < 3 THEN 3 ELSE 5

\* The steps of a save move one process only ...
LEMMA BeginKeeps ==
    ASSUME NInv, NEW b \in Builders, SaveBegin(b) PROVE Keeps(b) /\ Saving(b) /\ Begins(b)
<1>1. b \in Processes /\ Typed
  BY DEF Processes, NInv
<1>2. /\ task' = [task EXCEPT ![b].pc = "half"] /\ UNCHANGED got /\ saves' = saves
      /\ mixed \subseteq mixed' /\ At(b, "save")
  BY Zenon DEF SaveBegin, Goto, bounds, histories
<1> QED
  BY <1>1, <1>2, SMT DEF Keeps, Others, Typed, Tasks, Source, Dir, Saving, At, Begins

\* ... to the next file, or to the end.
LEMMA EndKeeps ==
    ASSUME NInv, NEW b \in Builders, SaveEnd(b) PROVE Keeps(b) /\ Saving(b) /\ Ends(b)
<1>1. b \in Processes /\ Typed
  BY DEF Processes, NInv
<1>2. UNCHANGED <<got, saves, mixed>> /\ At(b, "half")
  BY DEF SaveEnd, bounds, histories
<1>3. /\ task[b].file = 5 => task' = [task EXCEPT ![b].pc = "done"]
      /\ task[b].file # 5 => task' = [task EXCEPT ![b] =
                     Task("save", Source(b), Dir(b), task[b].no, task[b].file + 1)]
  BY DEF SaveEnd
<1> QED
  BY <1>1, <1>2, <1>3, SMT DEF Keeps, Others, Typed, Tasks, Task, Source, Dir, Saving, At, Ends

\* An artifact that can not be saved is skipped.
LEMMA SkipKeeps ==
    ASSUME NInv, NEW b \in Builders, SaveFails(b) PROVE Keeps(b) /\ Saving(b) /\ Skips(b)
<1>1. b \in Processes /\ Typed
  BY DEF Processes, NInv
<1>2. UNCHANGED <<got, saves, mixed>> /\ At(b, "save")
  BY DEF SaveFails, histories
<1>3. task' = [task EXCEPT ![b] =
         IF task[b].file < 3 THEN Task("save", Source(b), Dir(b), task[b].no, 3)
                             ELSE Task("done", Source(b), Dir(b), task[b].no, 5)]
  BY DEF SaveFails
<1> QED
  BY <1>1, <1>2, <1>3, SMT DEF Keeps, Others, Typed, Tasks, Task, Source, Dir, Saving, At, Skips

\* It keeps what every process has in hand, and the binaries that were found.
LEMMA KeepsFit ==
    ASSUME NInv, NEW b \in Builders, Keeps(b), Saving(b), NEW p \in Processes
    PROVE  Fits(p)' /\ NotOlder(p)'
<1>1. InOrder(p) /\ b \notin Loaders /\ b \in Processes
  BY Parameters DEF NInv, Processes
<1>2. CASE p # b
  <2>1. task'[p] = task[p] /\ got'[p] = got[p]
    BY <1>2 DEF Keeps, Others
  <2>2. Fits(p)'
    BY <1>1, <2>1 DEF Keeps, InOrder, Fits, Source, Dir, Saving, Reading, At, OwnHash
  <2>3. NotOlder(p)'
    BY <1>1, <2>1, Zenon DEF Keeps, InOrder, NotOlder, At, Dir
  <2> QED
    BY <2>2, <2>3
<1>3. CASE p = b
  <2>1. /\ Fits(b) /\ Source(b) \in Sources /\ Dir(b)[1] = Source(b).author
        /\ Dir(b)[2] <= saves + 1 /\ Dir(b)[2] <= saves /\ task[b].no \in 1..saves
        /\ got[b].wasm \in Contents /\ got[b].wasm.no = task[b].no
        /\ got[b].spec = [hash |-> OwnHash(b), no |-> task[b].no]
    BY <1>1, <1>3, SMT DEF InOrder, Fits, Saving
  <2>2. got[b].spec \in Contents
    BY SaverHolds
  <2>3. got[b].spec.no = task[b].no /\ task[b].no <= saves
    BY SaverHolds
  <2>4. OwnHash(b)' = OwnHash(b)
    BY DEF Keeps, OwnHash
  <2>5. Fits(b)'
    BY <1>1, <2>1, <2>2, <2>3, <2>4, SMT DEF Keeps, Fits, Source, Dir, Saving, Reading, At
  <2>6. NotOlder(b)'
    BY <2>1, <2>3, Parameters, SMT DEF Keeps, NotOlder, Contents
  <2> QED
    BY <1>3, <2>5, <2>6
<1> QED
  BY <1>2, <1>3

\* A save takes no number.
LEMMA KeepsCounted ==
    ASSUME NInv, NEW b \in Builders, Keeps(b), Saving(b), calls' = calls PROVE Counted'
<1>1. Working' \subseteq Working
  BY SMT DEF Keeps, Others, Working, Processes
<1> QED
  BY <1>1, CountedQuiet DEF NInv, Keeps

\* The other processes save what they saved.
LEMMA SaversKept ==
    ASSUME NInv, NEW b \in Builders, Keeps(b), Saving(b)
    PROVE  \A o \in Builders :
              Saving(o)' => Saving(o) /\ Dir(o)' = Dir(o) /\ task'[o].no = task[o].no
<1>1. ASSUME NEW o \in Builders, o # b PROVE task'[o] = task[o]
  BY <1>1 DEF Keeps, Others, Processes
<1> QED
  BY <1>1, Zenon DEF Keeps, Saving, Dir

\* A file that is not written is not out of order.
LEMMA SkipNInv == ASSUME NInv, NEW b \in Builders, SaveFails(b) PROVE NInv'
<1>1. /\ Keeps(b) /\ Saving(b) /\ Skips(b) /\ b \in Processes
      /\ UNCHANGED <<modules, mixed, calls>>
  BY SkipKeeps DEF Processes, SaveFails, fileVars, histories
<1>2. \A d \in Dirs : Numbered(d)' /\ BinaryOrdered(d)'
  BY <1>1, Zenon DEF NInv, Keeps, Numbered, BinaryOrdered, HasFiles
<1>3. ASSUME NEW p \in Processes PROVE InOrder(p)'
  <2>1. Fits(p)' /\ NotOlder(p)'
    BY <1>1, KeepsFit
  <2>2. SaverOrdered(p)'
    <3>1. CASE p # b
      <4>1. task'[p] = task[p] /\ SaverOrdered(p)
        BY <1>1, <3>1 DEF Keeps, Others, NInv, InOrder
      <4> QED
        BY <1>1, <4>1, SaversKept, Zenon DEF SaverOrdered, Saving, Begun, Dir, File, At
    <3>2. CASE p = b
      <4>1. SaverOrdered(b)
        BY <1>1 DEF NInv, InOrder
      <4>2. Saving(b)' => task'[b].pc = "save" /\ task'[b].file = 3
        BY <1>1, SMT DEF Skips, Saving
      <4>3. Saving(b)' => task'[b].file # 4 /\ ~Begun(b)'
        BY <4>2, SMT DEF Begun, At
      <4> QED
        BY <1>1, <3>2, <4>1, <4>3, Zenon DEF SaverOrdered, Keeps, File
    <3> QED
      BY <3>1, <3>2
  <2>3. ReaderOrdered(p)'
    <3>1. CASE p # b
      <4>1. task'[p] = task[p] /\ got'[p] = got[p] /\ ReaderOrdered(p)
        BY <1>1, <3>1 DEF Keeps, Others, NInv, InOrder
      <4> QED
        BY <1>1, <4>1, SaversKept, Zenon DEF ReaderOrdered, Reading, Dir, File
    <3>2. CASE p = b
      BY <1>1, <3>2, SMT DEF ReaderOrdered, Reading, Keeps
    <3> QED
      BY <3>1, <3>2
  <2> QED
    BY <2>1, <2>2, <2>3 DEF InOrder
<1> QED
  BY <1>1, <1>2, <1>3, SaveTyped, KeepsCounted DEF NInv

\* A compile that opens its first file joins nobody in the version, or the version
\* is mixed.
LEMMA BeginNInv == ASSUME NInv, NEW b \in Builders, SaveBegin(b) PROVE NInv'
<1>0. Dir(b) \in Dirs
  BY SMT DEF NInv, Typed, Tasks, Dir, Processes
<1>d. PICK d \in Dirs : d = Dir(b)
  BY <1>0
<1>1. Keeps(b) /\ Saving(b) /\ Begins(b) /\ b \in Processes /\ calls' = calls
  BY BeginKeeps DEF Processes, SaveBegin, bounds, histories
<1>2. FileChanged(d, task[b].file, Torn) /\ Torn \notin Contents
  BY <1>d, BeginChanges, Parameters
<1>3. /\ \A e \in Dirs \ {d} : modules'[e] = modules[e]
      /\ modules'[d].wasm \in Contents => modules'[d].wasm = modules[d].wasm
      /\ modules'[d].spec \in Contents => modules'[d].spec = modules[d].spec
      /\ task[b].file = 4 => modules'[d].wasm = modules[d].wasm
  BY <1>2, SMT DEF FileChanged
<1>4. d \notin mixed' => \A o \in Builders \ {b} : ~(Saving(o) /\ Dir(o) = d)
  BY <1>d, Zenon DEF SaveBegin
<1>5. \A e \in Dirs : Numbered(e)' /\ BinaryOrdered(e)'
  <2>1. ASSUME NEW e \in Dirs, e # d PROVE Numbered(e)' /\ BinaryOrdered(e)'
    <3>1. modules'[e] = modules[e] /\ Numbered(e) /\ BinaryOrdered(e)
      BY <1>3, <2>1 DEF NInv
    <3> QED
      BY <1>1, <3>1, Zenon DEF Keeps, Numbered, BinaryOrdered, HasFiles
  <2>2. Numbered(d)' /\ BinaryOrdered(d)'
    <3>1. Numbered(d) /\ BinaryOrdered(d) /\ d[2] <= saves
      BY <1>1, <1>d DEF NInv, InOrder, Fits
    <3> QED
      BY <1>1, <1>3, <3>1, Zenon DEF Keeps, Numbered, BinaryOrdered
  <2> QED
    BY <2>1, <2>2
<1>6. ASSUME NEW p \in Processes PROVE InOrder(p)'
  <2>1. Fits(p)' /\ NotOlder(p)'
    BY <1>1, KeepsFit
  <2>2. Dir(p) \in Dirs
    BY SMT DEF NInv, Typed, Tasks, Dir
  <2>3. SaverOrdered(p)'
    <3>1. CASE p # b
      <4>1. task'[p] = task[p] /\ SaverOrdered(p)
        BY <1>1, <3>1 DEF Keeps, Others, NInv, InOrder
      <4>2. CASE Dir(p) = d
        <5>1. p \notin Builders => ~Saving(p)
          BY SaverBuilds
        <5>2. ~Saving(p) \/ d \in mixed'
          BY <1>4, <3>1, <4>2, <5>1
        <5> QED
          BY <4>1, <4>2, <5>2, Zenon DEF SaverOrdered, Saving, Dir
      <4>3. CASE Dir(p) # d
        <5>1. modules'[Dir(p)] = modules[Dir(p)]
          BY <1>3, <2>2, <4>3
        <5> QED
          BY <1>1, <4>1, <5>1, SaversKept, Zenon
          DEF Keeps, SaverOrdered, Saving, Begun, Dir, File, At
      <4> QED
        BY <4>2, <4>3
    <3>2. CASE p = b
      <4>1. SaverOrdered(b)
        BY <1>1 DEF NInv, InOrder
      <4> QED
        BY <1>1, <1>3, <1>4, <1>d, <3>2, <4>1, SaversKept, Zenon
        DEF Keeps, Begins, SaverOrdered, Dir, File
    <3> QED
      BY <3>1, <3>2
  <2>4. ReaderOrdered(p)'
    <3>1. CASE p # b
      <4>1. task'[p] = task[p] /\ got'[p] = got[p] /\ ReaderOrdered(p)
        BY <1>1, <3>1 DEF Keeps, Others, NInv, InOrder
      <4>2. modules'[Dir(p)].wasm \in Contents => modules'[Dir(p)].wasm = modules[Dir(p)].wasm
        BY <1>3, <2>2
      <4> QED
        BY <1>1, <4>1, <4>2, SaversKept, Zenon DEF Keeps, ReaderOrdered, Reading, Dir, File
    <3>2. CASE p = b
      BY <1>1, <3>2, SMT DEF ReaderOrdered, Reading, Keeps
    <3> QED
      BY <3>1, <3>2
  <2> QED
    BY <2>1, <2>3, <2>4 DEF InOrder
<1> QED
  BY <1>1, <1>5, <1>6, SaveTyped, KeepsCounted DEF NInv

\* The spec comes after the program of its own build.
LEMMA EndSaveNInv == ASSUME NInv, NEW b \in Builders, SaveEnd(b) PROVE NInv'
<1>0. Dir(b) \in Dirs /\ task[b].file \in 1..5
  BY SMT DEF NInv, Typed, Tasks, Dir, Processes
<1>d. PICK d \in Dirs : d = Dir(b)
  BY <1>0
<1>n. PICK n : n = task[b].no
  OBVIOUS
<1>1. /\ Keeps(b) /\ Saving(b) /\ Ends(b) /\ b \in Processes /\ calls' = calls
      /\ mixed' = mixed
  BY EndKeeps DEF Processes, SaveEnd, bounds, histories
<1>2. /\ Fits(b) /\ SaverOrdered(b) /\ Begun(b)
      /\ got[b].wasm \in Contents /\ got[b].spec \in Contents
      /\ got[b].wasm.no = n /\ got[b].spec.no = n /\ n <= saves /\ n \in Int
  <2>1. Fits(b) /\ SaverOrdered(b) /\ Begun(b)
    BY <1>1 DEF NInv, InOrder, Begun, Ends
  <2> QED
    BY <1>1, <1>n, <2>1, SaverHolds
<1>3. /\ \A e \in Dirs \ {d} : modules'[e] = modules[e]
      /\ modules'[d].wasm = modules[d].wasm
            \/ (task[b].file = 3 /\ modules'[d].wasm = got[b].wasm)
      /\ modules'[d].spec = modules[d].spec
            \/ (task[b].file = 4 /\ modules'[d].spec = got[b].spec)
      /\ task[b].file = 3 => modules'[d].wasm \in {None, got[b].wasm}
  <2>1. CASE StillThere(b)
    <3>1. FileChanged(d, task[b].file, Write(b).content)
      BY <1>d, <2>1, EndChanges
    <3>2. /\ task[b].file = 3 => Write(b).content = got[b].wasm
          /\ task[b].file = 4 => Write(b).content = got[b].spec
      BY <1>1, ContentFits
    <3> QED
      BY <3>1, <3>2, SMT DEF FileChanged
  <2>2. CASE ~StillThere(b)
    <3>1. modules' = modules
      BY <2>2, EndChanges
    <3>2. task[b].file = 3 => modules[d].wasm = None
      BY <1>0, <1>d, <2>2, WriteIs, SMT DEF StillThere, File
    <3> QED
      BY <3>1, <3>2
  <2> QED
    BY <2>1, <2>2
<1>i. \A x \in Contents : x.no \in Int
  BY Parameters, SMT DEF Contents
<1>m. None \notin Contents
  BY Parameters
<1>5. \A e \in Dirs : Numbered(e)' /\ BinaryOrdered(e)'
  <2>1. ASSUME NEW e \in Dirs, e # d PROVE Numbered(e)' /\ BinaryOrdered(e)'
    <3>1. modules'[e] = modules[e] /\ Numbered(e) /\ BinaryOrdered(e)
      BY <1>3, <2>1 DEF NInv
    <3> QED
      BY <1>1, <3>1, Zenon DEF Keeps, Numbered, BinaryOrdered, HasFiles
  <2>2. Numbered(d)' /\ BinaryOrdered(d)'
    <3>1. Numbered(d) /\ BinaryOrdered(d) /\ d[2] <= saves
      BY <1>1, <1>d DEF NInv, InOrder, Fits
    <3>2. Numbered(d)'
      BY <1>1, <1>2, <1>3, <3>1, Zenon DEF Keeps, Numbered
    <3>3. BinaryOrdered(d)'
      BY <1>0, <1>1, <1>2, <1>3, <1>d, <1>n, <1>i, <1>m, <3>1, SMT DEF BinaryOrdered, SaverOrdered, File
    <3> QED
      BY <3>2, <3>3
  <2> QED
    BY <2>1, <2>2
<1>6. ASSUME NEW p \in Processes PROVE InOrder(p)'
  <2>1. Fits(p)' /\ NotOlder(p)'
    BY <1>1, KeepsFit
  <2>2. Dir(p) \in Dirs
    BY SMT DEF NInv, Typed, Tasks, Dir
  <2>3. SaverOrdered(p)'
    <3>1. CASE p # b
      <4>1. task'[p] = task[p] /\ SaverOrdered(p)
        BY <1>1, <3>1 DEF Keeps, Others, NInv, InOrder
      <4>2. CASE Dir(p) = d /\ Saving(p) /\ d \notin mixed
        <5>1. p \in Builders
          BY <4>2, SaverBuilds
        <5>2. n < task[p].no
          BY <1>1, <1>2, <1>d, <1>n, <3>1, <4>2, <5>1, Zenon DEF SaverOrdered
        <5>3. task[p].no \in Int
          BY Parameters, SMT DEF NInv, Typed, Tasks
        <5>4. ~Begun(p)
          <6>1. Begun(p) => task[p].no < n
            BY <1>1, <1>d, <1>n, <3>1, <4>1, <4>2, Zenon DEF SaverOrdered
          <6> QED
            BY <1>2, <5>2, <5>3, <6>1, SMT
        <5>5. task[p].file # 4
          BY <4>2, <5>4, SMT DEF Begun
        <5>6. /\ modules'[d].wasm \in Contents => modules'[d].wasm.no <= task[p].no
              /\ modules'[d].spec \in Contents => modules'[d].spec.no <= task[p].no
          <6>1. /\ modules[d].wasm \in Contents => modules[d].wasm.no <= task[p].no
                /\ modules[d].spec \in Contents => modules[d].spec.no <= task[p].no
            BY <4>1, <4>2 DEF SaverOrdered, File
          <6> QED
            BY <1>2, <1>3, <5>2, <5>3, <6>1, SMT
        <5>7. ~Begun(p)' /\ task'[p].file # 4
          BY <4>1, <5>4, <5>5 DEF Begun, Saving, At
        <5> QED
          BY <4>1, <4>2, <5>6, <5>7, Zenon DEF SaverOrdered, File, Dir
      <4>3. CASE Dir(p) = d /\ (~Saving(p) \/ d \in mixed)
        BY <1>1, <4>1, <4>3, Zenon DEF SaverOrdered, Saving, Dir
      <4>4. CASE Dir(p) # d
        <5>1. modules'[Dir(p)] = modules[Dir(p)]
          BY <1>3, <2>2, <4>4
        <5> QED
          BY <1>1, <4>1, <5>1, SaversKept, Zenon
          DEF Keeps, SaverOrdered, Saving, Begun, Dir, File, At
      <4> QED
        BY <4>2, <4>3, <4>4
    <3>2. CASE p = b
      <4>1. CASE Saving(b)' /\ d \notin mixed
        <5>1. /\ modules'[d].wasm \in Contents => modules'[d].wasm.no <= n
              /\ modules'[d].spec \in Contents => modules'[d].spec.no <= n
          BY <1>1, <1>2, <1>3, <1>d, <1>n, <4>1, SMT DEF SaverOrdered, File
        <5>2. task'[b].file = 4 /\ modules'[d].wasm # None =>
                modules'[d].wasm \in Contents /\ modules'[d].wasm.no = n
          <6>1. task'[b].file = 4 => task[b].file = 3
            BY <1>0, <1>1, SMT DEF Ends
          <6> QED
            BY <1>2, <1>3, <6>1, Zenon
        <5>3. \A o \in Builders \ {b} : Saving(o)' /\ Dir(o)' = d => n < task'[o].no
          BY <1>1, <1>2, <1>d, <1>n, <4>1, SaversKept, Zenon DEF SaverOrdered
        <5> QED
          BY <1>1, <1>d, <1>n, <3>2, <5>1, <5>2, <5>3, Zenon DEF Keeps, SaverOrdered, File
      <4>2. CASE ~Saving(b)' \/ d \in mixed
        BY <1>1, <1>d, <3>2, <4>2 DEF SaverOrdered, Keeps
      <4> QED
        BY <4>1, <4>2
    <3> QED
      BY <3>1, <3>2
  <2>4. ReaderOrdered(p)'
    <3>1. CASE p # b
      <4>1. task'[p] = task[p] /\ got'[p] = got[p] /\ ReaderOrdered(p)
        BY <1>1, <3>1 DEF Keeps, Others, NInv, InOrder
      <4>2. Reading(p) /\ Dir(p) \notin mixed /\ modules'[Dir(p)].wasm \in Contents =>
              got[p].spec.no <= modules'[Dir(p)].wasm.no
        <5>1. CASE modules'[Dir(p)].wasm = modules[Dir(p)].wasm
          BY <4>1, <5>1 DEF ReaderOrdered, File
        <5>2. CASE Dir(p) = d /\ modules'[d].wasm = got[b].wasm
          BY <1>1, <1>2, <1>d, <1>n, <4>1, <5>2, Zenon DEF ReaderOrdered
        <5> QED
          BY <1>3, <2>2, <5>1, <5>2
      <4> QED
        BY <1>1, <4>1, <4>2, SaversKept, Zenon DEF Keeps, ReaderOrdered, Reading, Dir, File
    <3>2. CASE p = b
      BY <1>1, <3>2, SMT DEF ReaderOrdered, Reading, Keeps, Ends
    <3> QED
      BY <3>1, <3>2
  <2> QED
    BY <2>1, <2>3, <2>4 DEF InOrder
<1> QED
  BY <1>1, <1>5, <1>6, SaveTyped, KeepsCounted DEF NInv

\* Every step preserves the invariant.
LEMMA NextNInv == NInv /\ [CacheNext]_cacheVars => NInv'
<1> SUFFICES ASSUME NInv, [CacheNext]_cacheVars PROVE NInv'
  OBVIOUS
<1>1. ASSUME NEW b \in Builders, NEW s \in Sources, Compile(b, s) \/ ShipModule(b, s) PROVE NInv'
  BY <1>1, CompileNInv, ShipNInv
<1>2. ASSUME NEW b \in Builders, BuildStep(b) \/ CompileFails(b) \/ Crash(b) PROVE NInv'
  BY <1>2, SearchNInv, SlotNInv, TakeNInv, BeginNInv, EndSaveNInv, SkipNInv, EndNInv DEF BuildStep
<1>3. ASSUME NEW p \in Builders \cup Loaders, ReadStep(p) PROVE NInv'
  BY <1>3, ReadNInv DEF Processes
<1>4. ASSUME NEW l \in Loaders, NEW d \in Dirs, Load(l, d[1], d[2]) PROVE NInv'
  BY <1>4, LoadNInv
<1>5. CASE ShipCapability \/ ShipStep \/ PurgeStep \/ \E dirs \in Purges : Purge(dirs)
  BY <1>5, AdminNInv
<1>6. CASE UNCHANGED cacheVars
  <2>1. UNCHANGED <<modules, exists, cap, target, slot, task, got, admin, calls, loads, events,
                    saves, mixed, overtaken, crossed>>
    BY <1>6 DEF cacheVars, fileVars, bounds, histories
  <2>2. Typed'
    BY <2>1 DEF NInv, Typed
  <2> QED
    BY <2>1, <2>2, SameNInv
<1> QED
  BY <1>1, <1>2, <1>3, <1>4, <1>5, <1>6 DEF CacheNext

\* The invariant holds in every state.
LEMMA CacheInOrder == CacheSpec => []NInv
<1>1. CacheInit => NInv
  BY InitNInv
<1>2. NInv /\ [CacheNext]_cacheVars => NInv'
  BY NextNInv
<1> QED
  BY <1>1, <1>2, PTL DEF CacheSpec

\* What a compile or a load returns pairs no spec with an older program, however
\* many compiles, slots, crashes and purges there are: who reads a version reads
\* the spec before the program, and who writes it the program before the spec.
THEOREM NothingOlder == CacheSpec => [](CacheTypeOK /\ NeverOlderProgram)
  BY NInvGives, CacheInOrder, PTL

-----------------------------------------------------------------------------
(* Replays *)

Over == {"ended", "lingering", "gone"}

Records == [pc : Pcs, mode : {"timed", "parallel"}, next : 1..(TotalRows + 1),
            running : BOOLEAN, cancel : BOOLEAN, failed : BOOLEAN,
            flight : SUBSET Rows, joinable : 0..Concurrency,
            completed : 0..TotalRows, late : Nat]

\* Calls of the record under way or waiting to be counted.
Under(rec) == Cardinality(rec.flight) + rec.joinable

\* The rows dispatched are those before `next`, each called once; what is in
\* flight is among them and fits the width of the replay.
Dispatched(rec, made) ==
    /\ made = [i \in Rows |-> IF i < rec.next THEN 1 ELSE 0]
    /\ \A i \in rec.flight : i < rec.next
    /\ Under(rec) <= IF rec.mode = "timed" THEN 1 ELSE Concurrency

\* Every row dispatched is in flight, joinable or completed; only a replay
\* that failed loses some.
Accounted(rec) ==
    /\ rec.completed + Under(rec) <= rec.next - 1
    /\ ~rec.failed => rec.completed + Under(rec) = rec.next - 1

\* A replay that leaves its loop was cancelled, has failed or has no row left;
\* once over it has nothing in flight unless it failed.
Settled(rec) ==
    /\ rec.pc = "permitted" => rec.next <= TotalRows
    /\ rec.pc \in {"drain"} \cup Over =>
          rec.cancel \/ rec.failed \/ rec.next = TotalRows + 1
    /\ rec.pc \in Over /\ ~rec.failed => Under(rec) = 0
    /\ rec.failed => rec.joinable = 0 /\ rec.pc \in Over

\* The row that starts late is the one that was permitted before the stop.
StopSeen(rec) ==
    \/ rec.late = 0
    \/ rec.late = 1 /\ rec.cancel /\ rec.pc # "permitted"

Good(rec, made) ==
    rec \in Records /\ Dispatched(rec, made) /\ Accounted(rec) /\ Settled(rec) /\ StopSeen(rec)

\* Only a request whose task was started has its handle kept.
IInv == TypeOK /\ \A r \in Requests : Good(replay[r], called[r])

-----------------------------------------------------------------------------
USE ReplayAssumption DEF Step, Rows, Over

\* A set of rows is finite, and its cardinality follows what is put in or out.
LEMMA FlightSize ==
    ASSUME NEW S \in SUBSET Rows
    PROVE  /\ IsFiniteSet(S) /\ Cardinality(S) \in Nat
           /\ Cardinality(S) = 0 <=> S = {}
           /\ \A i : i \notin S => Cardinality(S \cup {i}) = Cardinality(S) + 1
           /\ \A i \in S : Cardinality(S \ {i}) = Cardinality(S) - 1
<1>1. IsFiniteSet(Rows)
  BY FS_Interval
<1>2. IsFiniteSet(S)
  BY <1>1, FS_Subset
<1> QED
  BY <1>2, FS_CardinalityType, FS_EmptySet, FS_AddElement, FS_RemoveElement

\* Every request starts with a record that is good.
LEMMA InitIInv == Init => IInv
<1> SUFFICES ASSUME Init PROVE IInv
  OBVIOUS
<1>1. PICK mode \in [Requests -> {"timed", "parallel"}] :
         replay = [r \in Requests |->
             [pc |-> "new", mode |-> mode[r], next |-> 1, running |-> FALSE,
              cancel |-> FALSE, failed |-> FALSE, flight |-> {}, joinable |-> 0,
              completed |-> 0, late |-> 0]]
  BY DEF Init
<1>2. TypeOK
  BY <1>1 DEF Init, TypeOK, Pcs
<1>3. ASSUME NEW r \in Requests PROVE Good(replay[r], called[r])
  <2>1. /\ replay[r] \in Records /\ replay[r].flight = {} /\ replay[r].joinable = 0
        /\ replay[r].next = 1 /\ replay[r].completed = 0 /\ replay[r].late = 0
        /\ replay[r].pc = "new" /\ ~replay[r].failed
    BY <1>1 DEF Pcs, Records
  <2>2. Under(replay[r]) = 0
    BY <2>1, FS_EmptySet DEF Under
  <2>3. called[r] = [i \in Rows |-> 0]
    BY DEF Init
  <2> QED
    BY <2>1, <2>2, <2>3 DEF Good, Dispatched, Accounted, Settled, StopSeen
<1> QED
  BY <1>2, <1>3 DEF IInv

-----------------------------------------------------------------------------
\* A step that replaces one record by a good one preserves the invariant.
LEMMA OneRecord ==
    ASSUME IInv, NEW r \in Requests, NEW rec, NEW made, Good(rec, made),
           replay' = [replay EXCEPT ![r] = rec],
           called' = [called EXCEPT ![r] = made],
           handle' \in Requests \cup {NoRequest}, up' \in BOOLEAN
    PROVE  IInv'
<1>1. rec \in Records /\ made \in [Rows -> Nat]
  BY DEF Good, Dispatched
<1>2. replay \in [Requests -> Records] /\ called \in [Requests -> [Rows -> Nat]]
  BY DEF IInv, TypeOK, Records
<1>3. /\ replay' \in [Requests -> Records] /\ called' \in [Requests -> [Rows -> Nat]]
      /\ replay'[r] = rec /\ called'[r] = made
      /\ \A q \in Requests : q # r => replay'[q] = replay[q] /\ called'[q] = called[q]
  BY <1>1, <1>2
<1>4. TypeOK'
  BY <1>3 DEF TypeOK, Records
<1>5. \A q \in Requests : Good(replay'[q], called'[q])
  BY <1>3 DEF IInv
<1> QED
  BY <1>4, <1>5 DEF IInv

\* A record whose calls and rows are those of a good one is good when it left
\* its loop for a reason and saw the stop.
LEMMA SameCalls ==
    ASSUME NEW old, NEW new, NEW made, Good(old, made), new \in Records,
           new.mode = old.mode, new.next = old.next, new.flight = old.flight,
           new.joinable = old.joinable, new.completed = old.completed,
           old.failed => new.failed, Settled(new), StopSeen(new)
    PROVE  Good(new, made)
<1>1. Under(new) = Under(old)
  BY DEF Under
<1> QED
  BY <1>1 DEF Good, Dispatched, Accounted

\* The steps that change no call: where the task is, and its signals.
LEMMA ControlIInv ==
    ASSUME IInv, NEW r \in Requests,
           \/ CheckIdle(r) \/ Validate(r) \/ StoreHandle(r) \/ CheckCancel(r)
           \/ LastRowSent(r) \/ RowUnfit(r) \/ Drained(r) \/ MarkFinished(r) \/ ClearHandle(r)
    PROVE  IInv'
<1> DEFINE old == replay[r]
<1>1. /\ Good(old, called[r]) /\ old \in Records
      /\ called = [called EXCEPT ![r] = called[r]]
      /\ handle \in Requests \cup {NoRequest} /\ up \in BOOLEAN
  BY DEF IInv, TypeOK, Good
<1>2. Cardinality(old.flight) \in Nat /\ old.joinable \in Nat
  BY <1>1, FlightSize DEF Records
<1>3. CASE CheckIdle(r)
  <2> DEFINE new == [old EXCEPT !.pc = IF Busy THEN "refused" ELSE "checked"]
  <2>1. replay' = [replay EXCEPT ![r] = new]
    BY <1>3 DEF CheckIdle
  <2>2. /\ new \in Records /\ (new.pc = "refused" \/ new.pc = "checked")
        /\ new.mode = old.mode /\ new.next = old.next /\ new.flight = old.flight
        /\ new.joinable = old.joinable /\ new.completed = old.completed
        /\ new.cancel = old.cancel /\ new.failed = old.failed /\ new.late = old.late
    BY <1>1 DEF Records, Pcs
  <2> HIDE DEF new
  <2>3. Settled(new) /\ StopSeen(new)
    BY <1>1, <1>2, <1>3, <2>2 DEF CheckIdle, Good, Settled, StopSeen, Under, InSet, Dispatched
  <2>4. Good(new, called[r])
    BY <1>1, <2>2, <2>3, SameCalls
  <2>5. handle' \in Requests \cup {NoRequest} /\ up' \in BOOLEAN /\ called' = called
    BY <1>1, <1>3 DEF CheckIdle
  <2> QED
    BY <1>1, <2>1, <2>4, <2>5, OneRecord
<1>4. CASE StoreHandle(r)
  <2> DEFINE new == [old EXCEPT !.pc = "loop", !.running = TRUE]
  <2>1. replay' = [replay EXCEPT ![r] = new]
    BY <1>4 DEF StoreHandle
  <2>2. /\ new \in Records /\ new.pc = "loop"
        /\ new.mode = old.mode /\ new.next = old.next /\ new.flight = old.flight
        /\ new.joinable = old.joinable /\ new.completed = old.completed
        /\ new.cancel = old.cancel /\ new.failed = old.failed /\ new.late = old.late
    BY <1>1 DEF Records, Pcs
  <2> HIDE DEF new
  <2>3. Settled(new) /\ StopSeen(new)
    BY <1>1, <1>2, <1>4, <2>2 DEF StoreHandle, Good, Settled, StopSeen, Under, InSet, Dispatched
  <2>4. Good(new, called[r])
    BY <1>1, <2>2, <2>3, SameCalls
  <2>5. handle' \in Requests \cup {NoRequest} /\ up' \in BOOLEAN /\ called' = called
    BY <1>1, <1>4 DEF StoreHandle
  <2> QED
    BY <1>1, <2>1, <2>4, <2>5, OneRecord
<1>5. CASE CheckCancel(r)
  <2> DEFINE new == [old EXCEPT !.pc = IF old.cancel THEN "drain" ELSE "permitted"]
  <2>1. replay' = [replay EXCEPT ![r] = new]
    BY <1>5 DEF CheckCancel
  <2>2. /\ new \in Records /\ new.pc = IF old.cancel THEN "drain" ELSE "permitted"
        /\ new.mode = old.mode /\ new.next = old.next /\ new.flight = old.flight
        /\ new.joinable = old.joinable /\ new.completed = old.completed
        /\ new.cancel = old.cancel /\ new.failed = old.failed /\ new.late = old.late
    BY <1>1 DEF Records, Pcs
  <2> HIDE DEF new
  <2>3. Settled(new) /\ StopSeen(new)
    BY <1>1, <1>2, <1>5, <2>2 DEF CheckCancel, Good, Settled, StopSeen, Under, InSet, Dispatched
  <2>4. Good(new, called[r])
    BY <1>1, <2>2, <2>3, SameCalls
  <2>5. handle' \in Requests \cup {NoRequest} /\ up' \in BOOLEAN /\ called' = called
    BY <1>1, <1>5 DEF CheckCancel
  <2> QED
    BY <1>1, <2>1, <2>4, <2>5, OneRecord
<1>6. CASE LastRowSent(r)
  <2> DEFINE new == [old EXCEPT !.pc = "drain"]
  <2>1. replay' = [replay EXCEPT ![r] = new]
    BY <1>6 DEF LastRowSent
  <2>2. /\ new \in Records /\ new.pc = "drain"
        /\ new.mode = old.mode /\ new.next = old.next /\ new.flight = old.flight
        /\ new.joinable = old.joinable /\ new.completed = old.completed
        /\ new.cancel = old.cancel /\ new.failed = old.failed /\ new.late = old.late
    BY <1>1 DEF Records, Pcs
  <2> HIDE DEF new
  <2>3. old.next = TotalRows + 1 /\ old.pc = "loop"
    BY <1>1, <1>6 DEF LastRowSent, Records
  <2>4. Settled(new) /\ StopSeen(new)
    BY <1>1, <1>2, <2>2, <2>3 DEF LastRowSent, Good, Settled, StopSeen, Under, InSet, Dispatched
  <2>5. Good(new, called[r])
    BY <1>1, <2>2, <2>4, SameCalls
  <2>6. handle' \in Requests \cup {NoRequest} /\ up' \in BOOLEAN /\ called' = called
    BY <1>1, <1>6 DEF LastRowSent
  <2> QED
    BY <1>1, <2>1, <2>5, <2>6, OneRecord
<1>7. CASE Drained(r)
  <2> DEFINE new == [old EXCEPT !.pc = "ended"]
  <2>1. replay' = [replay EXCEPT ![r] = new]
    BY <1>7 DEF Drained
  <2>2. /\ new \in Records /\ new.pc = "ended"
        /\ new.mode = old.mode /\ new.next = old.next /\ new.flight = old.flight
        /\ new.joinable = old.joinable /\ new.completed = old.completed
        /\ new.cancel = old.cancel /\ new.failed = old.failed /\ new.late = old.late
    BY <1>1 DEF Records, Pcs
  <2> HIDE DEF new
  <2>3. Settled(new) /\ StopSeen(new)
    BY <1>1, <1>2, <1>7, <2>2 DEF Drained, Good, Settled, StopSeen, Under, InSet, Dispatched
  <2>4. Good(new, called[r])
    BY <1>1, <2>2, <2>3, SameCalls
  <2>5. handle' \in Requests \cup {NoRequest} /\ up' \in BOOLEAN /\ called' = called
    BY <1>1, <1>7 DEF Drained
  <2> QED
    BY <1>1, <2>1, <2>4, <2>5, OneRecord
<1>8. CASE MarkFinished(r)
  <2> DEFINE new == [old EXCEPT !.pc = "lingering", !.running = FALSE]
  <2>1. replay' = [replay EXCEPT ![r] = new]
    BY <1>8 DEF MarkFinished
  <2>2. /\ new \in Records /\ new.pc = "lingering"
        /\ new.mode = old.mode /\ new.next = old.next /\ new.flight = old.flight
        /\ new.joinable = old.joinable /\ new.completed = old.completed
        /\ new.cancel = old.cancel /\ new.failed = old.failed /\ new.late = old.late
    BY <1>1 DEF Records, Pcs
  <2> HIDE DEF new
  <2>3. Settled(new) /\ StopSeen(new)
    BY <1>1, <1>2, <1>8, <2>2 DEF MarkFinished, Good, Settled, StopSeen, Under, InSet, Dispatched
  <2>4. Good(new, called[r])
    BY <1>1, <2>2, <2>3, SameCalls
  <2>5. handle' \in Requests \cup {NoRequest} /\ up' \in BOOLEAN /\ called' = called
    BY <1>1, <1>8 DEF MarkFinished
  <2> QED
    BY <1>1, <2>1, <2>4, <2>5, OneRecord
<1>9. CASE ClearHandle(r)
  <2> DEFINE new == [old EXCEPT !.pc = "gone"]
  <2>1. replay' = [replay EXCEPT ![r] = new]
    BY <1>9 DEF ClearHandle
  <2>2. /\ new \in Records /\ new.pc = "gone"
        /\ new.mode = old.mode /\ new.next = old.next /\ new.flight = old.flight
        /\ new.joinable = old.joinable /\ new.completed = old.completed
        /\ new.cancel = old.cancel /\ new.failed = old.failed /\ new.late = old.late
    BY <1>1 DEF Records, Pcs
  <2> HIDE DEF new
  <2>3. Settled(new) /\ StopSeen(new)
    BY <1>1, <1>2, <1>9, <2>2 DEF ClearHandle, Good, Settled, StopSeen, Under, InSet, Dispatched
  <2>4. Good(new, called[r])
    BY <1>1, <2>2, <2>3, SameCalls
  <2>5. handle' \in Requests \cup {NoRequest} /\ up' \in BOOLEAN /\ called' = called
    BY <1>1, <1>9 DEF ClearHandle
  <2> QED
    BY <1>1, <2>1, <2>4, <2>5, OneRecord
<1>10. CASE Validate(r)
  <2>1. PICK readable \in BOOLEAN :
           replay' = [replay EXCEPT ![r].pc = IF up /\ readable THEN "valid" ELSE "refused"]
    BY <1>10 DEF Validate
  <2> DEFINE new == [old EXCEPT !.pc = IF up /\ readable THEN "valid" ELSE "refused"]
  <2>2. replay' = [replay EXCEPT ![r] = new]
    BY <2>1
  <2>3. /\ new \in Records /\ (new.pc = "valid" \/ new.pc = "refused")
        /\ new.mode = old.mode /\ new.next = old.next /\ new.flight = old.flight
        /\ new.joinable = old.joinable /\ new.completed = old.completed
        /\ new.cancel = old.cancel /\ new.failed = old.failed /\ new.late = old.late
    BY <1>1 DEF Records, Pcs
  <2> HIDE DEF new
  <2>4. Settled(new) /\ StopSeen(new)
    BY <1>1, <1>10, <2>3 DEF Validate, Good, Settled, StopSeen
  <2>5. Good(new, called[r])
    BY <1>1, <2>3, <2>4, SameCalls
  <2>6. handle' = handle /\ up' = up /\ called' = called
    BY <1>10 DEF Validate
  <2> QED
    BY <1>1, <2>2, <2>5, <2>6, OneRecord
<1>11. CASE RowUnfit(r)
  <2> DEFINE new == [old EXCEPT !.pc = "ended", !.failed = TRUE, !.joinable = 0]
  <2>1. replay' = [replay EXCEPT ![r] = new]
    BY <1>11 DEF RowUnfit
  <2>2. /\ new \in Records /\ new.pc = "ended" /\ new.failed = TRUE /\ new.joinable = 0
        /\ new.mode = old.mode /\ new.next = old.next /\ new.flight = old.flight
        /\ new.completed = old.completed /\ new.cancel = old.cancel /\ new.late = old.late
    <3>1. 0 \in 0..Concurrency /\ "ended" \in Pcs
      BY DEF Pcs
    <3>2. new \in Records
      BY <1>1, <3>1 DEF Records
    <3> QED
      BY <1>1, <3>2 DEF Records
  <2> HIDE DEF new
  <2>3. Under(new) \in Nat /\ Under(old) \in Nat /\ Under(new) <= Under(old)
    BY <1>2, <2>2 DEF Under
  <2>4. old.next \in Nat /\ old.completed \in Nat
    BY <1>1 DEF Records
  <2>5. Dispatched(new, called[r])
    BY <1>1, <2>2, <2>3 DEF Good, Dispatched
  <2>6. Accounted(new)
    BY <1>1, <2>2, <2>3, <2>4 DEF Good, Accounted
  <2>7. Settled(new) /\ StopSeen(new)
    BY <1>1, <2>2 DEF Good, Settled, StopSeen
  <2>8. Good(new, called[r])
    BY <2>2, <2>5, <2>6, <2>7 DEF Good
  <2>9. handle' = handle /\ up' = up /\ called' = called
    BY <1>11 DEF RowUnfit
  <2> QED
    BY <1>1, <2>1, <2>8, <2>9, OneRecord
<1> QED
  BY <1>3, <1>4, <1>5, <1>6, <1>7, <1>8, <1>9, <1>10, <1>11

\* The steps that start, end and count the calls.
LEMMA CallIInv ==
    ASSUME IInv, NEW r \in Requests,
           Dispatch(r) \/ CallReturns(r) \/ CallAborted(r) \/ JoinNext(r)
    PROVE  IInv'
<1> DEFINE old == replay[r]
<1>1. /\ Good(old, called[r]) /\ old \in Records
      /\ called = [called EXCEPT ![r] = called[r]]
      /\ handle \in Requests \cup {NoRequest} /\ up \in BOOLEAN
  BY DEF IInv, TypeOK, Good
<1>2. /\ old.flight \in SUBSET Rows /\ Cardinality(old.flight) \in Nat
      /\ old.joinable \in 0..Concurrency /\ old.completed \in 0..TotalRows
      /\ old.next \in 1..(TotalRows + 1) /\ old.late \in Nat
      /\ old.mode \in {"timed", "parallel"} /\ Under(old) \in Nat
  BY <1>1, FlightSize DEF Records, Under
<1>3. CASE Dispatch(r)
  <2> DEFINE i == old.next
             new == [old EXCEPT !.pc = "loop", !.next = i + 1, !.flight = @ \cup {i},
                                !.late = IF old.cancel THEN @ + 1 ELSE @]
             made == [called[r] EXCEPT ![i] = @ + 1]
  <2>1. replay' = [replay EXCEPT ![r] = new] /\ called' = [called EXCEPT ![r] = made]
    BY <1>3 DEF Dispatch
  <2>2. i \in Rows /\ i \notin old.flight
    BY <1>1, <1>2, <1>3 DEF Dispatch, Good, Dispatched, Settled
  <2>3. Cardinality(old.flight \cup {i}) = Cardinality(old.flight) + 1
    BY <1>2, <2>2, FlightSize
  <2>4. /\ new \in Records /\ new.pc = "loop" /\ new.next = i + 1
        /\ new.flight = old.flight \cup {i} /\ new.joinable = old.joinable
        /\ new.late = (IF old.cancel THEN old.late + 1 ELSE old.late)
        /\ new.mode = old.mode /\ new.completed = old.completed
        /\ new.cancel = old.cancel /\ new.failed = old.failed
    <3>1. /\ i + 1 \in 1..(TotalRows + 1) /\ old.flight \cup {i} \in SUBSET Rows
          /\ old.late + 1 \in Nat /\ "loop" \in Pcs
      BY <1>2, <2>2 DEF Pcs
    <3>2. new \in Records
      BY <1>1, <3>1 DEF Records
    <3> QED
      BY <1>1, <3>2 DEF Records
  <2>5. made = [j \in Rows |-> IF j < i + 1 THEN 1 ELSE 0]
    <3>1. called[r] = [j \in Rows |-> IF j < i THEN 1 ELSE 0]
      BY <1>1 DEF Good, Dispatched
    <3> QED
      <4>1. made = [j \in Rows |-> IF j = i THEN called[r][j] + 1 ELSE called[r][j]]
        BY <3>1
      <4>2. ASSUME NEW j \in Rows
            PROVE  (IF j = i THEN called[r][j] + 1 ELSE called[r][j])
                      = (IF j < i + 1 THEN 1 ELSE 0)
        BY <2>2, <3>1
      <4> HIDE DEF made
      <4> QED
        BY <4>1, <4>2
  <2> HIDE DEF new, made
  <2>6. Under(new) = Under(old) + 1
    BY <1>2, <2>3, <2>4 DEF Under
  <2>7. ~old.failed /\ old.pc = "permitted" /\ Under(old) < IF old.mode = "timed" THEN 1 ELSE Concurrency
    BY <1>1, <1>3 DEF Dispatch, InSet, Under, Width, Good, Settled
  <2>8. Dispatched(new, made)
    <3>1. \A j \in new.flight : j < new.next
      <4>1. \A j \in old.flight : j < i /\ j \in Nat
        BY <1>1, <1>2 DEF Good, Dispatched
      <4>2. i \in Nat /\ new.next = i + 1 /\ new.flight = old.flight \cup {i}
        BY <2>2, <2>4
      <4> HIDE DEF i
      <4> QED
        BY <4>1, <4>2
    <3>2. Under(new) <= IF new.mode = "timed" THEN 1 ELSE Concurrency
      BY <1>2, <2>4, <2>6, <2>7
    <3> QED
      BY <2>4, <2>5, <3>1, <3>2 DEF Dispatched
  <2>9. Accounted(new)
    BY <1>1, <1>2, <2>4, <2>6, <2>7 DEF Good, Accounted
  <2>10. Settled(new) /\ StopSeen(new)
    BY <1>1, <1>2, <2>4, <2>7 DEF Good, Settled, StopSeen
  <2>11. Good(new, made)
    BY <2>4, <2>8, <2>9, <2>10 DEF Good
  <2>12. handle' = handle /\ up' = up
    BY <1>3 DEF Dispatch
  <2> QED
    BY <1>1, <2>1, <2>11, <2>12, OneRecord
<1>4. CASE CallReturns(r)
  <2>1. PICK i \in old.flight :
          replay' = [replay EXCEPT
              ![r].flight = @ \ {i},
              ![r].completed = IF old.mode = "timed" THEN @ + 1 ELSE @,
              ![r].joinable = IF old.mode = "timed" \/ old.failed THEN @ ELSE @ + 1]
    BY <1>4 DEF CallReturns
  <2> DEFINE new == [old EXCEPT
                !.flight = @ \ {i},
                !.completed = IF old.mode = "timed" THEN @ + 1 ELSE @,
                !.joinable = IF old.mode = "timed" \/ old.failed THEN @ ELSE @ + 1]
  <2>2. replay' = [replay EXCEPT ![r] = new]
    BY <2>1
  <2>3. Cardinality(old.flight \ {i}) = Cardinality(old.flight) - 1
    BY <1>2, FlightSize
  <2>4. Cardinality(old.flight) \in Nat \ {0} /\ i \in Rows
    BY <1>2, FlightSize
  <2>5. Under(old) <= Concurrency /\ old.completed + Under(old) <= TotalRows
    <3>1. /\ Under(old) <= IF old.mode = "timed" THEN 1 ELSE Concurrency
          /\ old.completed + Under(old) <= old.next - 1
      BY <1>1 DEF Good, Dispatched, Accounted
    <3> QED
      BY <1>2, <3>1
  <2>6. old.joinable < Concurrency /\ old.completed < TotalRows
    BY <1>2, <2>4, <2>5 DEF Under
  <2>7. /\ new \in Records /\ new.flight = old.flight \ {i}
        /\ new.completed = (IF old.mode = "timed" THEN old.completed + 1 ELSE old.completed)
        /\ new.joinable =
             (IF old.mode = "timed" \/ old.failed THEN old.joinable ELSE old.joinable + 1)
        /\ new.pc = old.pc /\ new.next = old.next /\ new.late = old.late
        /\ new.mode = old.mode /\ new.cancel = old.cancel /\ new.failed = old.failed
    <3>1. /\ old.completed + 1 \in 0..TotalRows /\ old.joinable + 1 \in 0..Concurrency
          /\ old.flight \ {i} \in SUBSET Rows
      BY <1>2, <2>6
    <3>2. new \in Records
      BY <1>1, <3>1 DEF Records
    <3> QED
      BY <1>1, <3>2 DEF Records
  <2> HIDE DEF new
  <2>8. /\ Under(new) + new.completed <= Under(old) + old.completed
        /\ ~old.failed => Under(new) + new.completed = Under(old) + old.completed
        /\ Under(new) \in Nat /\ Under(old) \in Nat \ {0} /\ Under(new) <= Under(old)
        /\ new.completed \in Nat
    BY <1>2, <2>3, <2>4, <2>7 DEF Under
  <2>9. Dispatched(new, called[r])
    BY <1>1, <1>2, <2>7, <2>8 DEF Good, Dispatched
  <2>10. Accounted(new)
    BY <1>1, <1>2, <2>7, <2>8 DEF Good, Accounted
  <2>11. Settled(new) /\ StopSeen(new)
    BY <1>1, <2>7, <2>8 DEF Good, Settled, StopSeen
  <2>12. Good(new, called[r])
    BY <2>7, <2>9, <2>10, <2>11 DEF Good
  <2>13. handle' = handle /\ up' = up /\ called' = called
    BY <1>4 DEF CallReturns
  <2> QED
    BY <1>1, <2>2, <2>12, <2>13, OneRecord
<1>5. CASE CallAborted(r)
  <2>1. PICK i \in old.flight : replay' = [replay EXCEPT ![r].flight = @ \ {i}]
    BY <1>5 DEF CallAborted
  <2> DEFINE new == [old EXCEPT !.flight = @ \ {i}]
  <2>2. replay' = [replay EXCEPT ![r] = new]
    BY <2>1
  <2>3. Cardinality(old.flight \ {i}) = Cardinality(old.flight) - 1
    BY <1>2, FlightSize
  <2>4. Cardinality(old.flight) \in Nat \ {0}
    BY <1>2, FlightSize
  <2>5. /\ new \in Records /\ new.flight = old.flight \ {i}
        /\ new.joinable = old.joinable /\ new.completed = old.completed
        /\ new.pc = old.pc /\ new.next = old.next /\ new.late = old.late
        /\ new.mode = old.mode /\ new.cancel = old.cancel /\ new.failed = old.failed
    BY <1>1 DEF Records
  <2> HIDE DEF new
  <2>6. Under(new) = Under(old) - 1 /\ Under(new) \in Nat
    BY <1>2, <2>3, <2>4, <2>5 DEF Under
  <2>7. old.failed
    BY <1>5 DEF CallAborted
  <2>8. Dispatched(new, called[r])
    BY <1>1, <1>2, <2>5, <2>6 DEF Good, Dispatched
  <2>9. Accounted(new) /\ Settled(new) /\ StopSeen(new)
    BY <1>1, <1>2, <2>5, <2>6, <2>7 DEF Good, Accounted, Settled, StopSeen
  <2>10. Good(new, called[r])
    BY <2>5, <2>8, <2>9 DEF Good
  <2>11. handle' = handle /\ up' = up /\ called' = called
    BY <1>5 DEF CallAborted
  <2> QED
    BY <1>1, <2>2, <2>10, <2>11, OneRecord
<1>6. CASE JoinNext(r)
  <2> DEFINE new == [old EXCEPT !.joinable = @ - 1, !.completed = @ + 1]
  <2>1. replay' = [replay EXCEPT ![r] = new] /\ old.joinable > 0
    BY <1>6 DEF JoinNext
  <2>2. old.completed < TotalRows
    BY <1>1, <1>2, <2>1 DEF Good, Accounted, Under
  <2>3. /\ new \in Records /\ new.joinable = old.joinable - 1 /\ new.completed = old.completed + 1
        /\ new.flight = old.flight
        /\ new.pc = old.pc /\ new.next = old.next /\ new.late = old.late
        /\ new.mode = old.mode /\ new.cancel = old.cancel /\ new.failed = old.failed
    <3>1. old.completed + 1 \in 0..TotalRows /\ old.joinable - 1 \in 0..Concurrency
      BY <1>2, <2>1, <2>2
    <3>2. new \in Records
      BY <1>1, <3>1 DEF Records
    <3> QED
      BY <1>1, <3>2 DEF Records
  <2> HIDE DEF new
  <2>4. Under(new) = Under(old) - 1 /\ Under(new) \in Nat
    BY <1>2, <2>1, <2>3 DEF Under
  <2>5. Dispatched(new, called[r])
    BY <1>1, <1>2, <2>3, <2>4 DEF Good, Dispatched
  <2>6. Accounted(new)
    BY <1>1, <1>2, <2>3, <2>4 DEF Good, Accounted
  <2>7. Settled(new) /\ StopSeen(new)
    BY <1>1, <1>2, <2>1, <2>3, <2>4 DEF Good, Settled, StopSeen
  <2>8. Good(new, called[r])
    BY <2>3, <2>5, <2>6, <2>7 DEF Good
  <2>9. handle' = handle /\ up' = up /\ called' = called
    BY <1>6 DEF JoinNext
  <2> QED
    BY <1>1, <2>1, <2>8, <2>9, OneRecord
<1> QED
  BY <1>3, <1>4, <1>5, <1>6

\* A stop only sets the signal; a replay it has reached starts nothing late.
LEMMA StopIInv == ASSUME IInv, StopReplay \/ PlaybookStops PROVE IInv'
<1>1. CASE StopReplay
  <2> DEFINE old == replay[handle]
             new == [old EXCEPT !.cancel = TRUE]
  <2>1. handle \in Requests /\ ~old.cancel
    BY <1>1 DEF StopReplay, IInv, TypeOK
  <2>2. /\ Good(old, called[handle]) /\ old \in Records
        /\ called = [called EXCEPT ![handle] = called[handle]] /\ up \in BOOLEAN
    BY <2>1 DEF IInv, TypeOK, Good
  <2>3. replay' = [replay EXCEPT ![handle] = new]
    BY <1>1 DEF StopReplay
  <2>4. /\ new \in Records /\ new.cancel /\ new.pc = old.pc
        /\ new.mode = old.mode /\ new.next = old.next /\ new.flight = old.flight
        /\ new.joinable = old.joinable /\ new.completed = old.completed
        /\ new.failed = old.failed /\ new.late = old.late
    BY <2>2 DEF Records
  <2> HIDE DEF new
  <2>5. Settled(new) /\ StopSeen(new)
    BY <2>1, <2>2, <2>4 DEF Good, Settled, StopSeen, Under
  <2>6. Good(new, called[handle])
    BY <2>2, <2>4, <2>5, SameCalls
  <2>7. handle' = handle /\ up' = up /\ called' = called
    BY <1>1 DEF StopReplay
  <2> QED
    BY <2>1, <2>2, <2>3, <2>6, <2>7, OneRecord
<1>2. CASE PlaybookStops
  BY <1>2 DEF PlaybookStops, IInv, TypeOK
<1> QED
  BY <1>1, <1>2

\* Every step of the system preserves the invariant.
LEMMA NextIInv == IInv /\ [Next]_vars => IInv'
<1> SUFFICES ASSUME IInv, [Next]_vars PROVE IInv'
  OBVIOUS
<1>1. CASE Next
  BY <1>1, ControlIInv, CallIInv, StopIInv DEF Next
<1>2. CASE UNCHANGED vars
  BY <1>2 DEF vars, IInv, TypeOK
<1> QED
  BY <1>1, <1>2

\* The strengthened invariant holds in every state.
LEMMA Invariant == Spec => []IInv
BY InitIInv, NextIInv, PTL DEF Spec

-----------------------------------------------------------------------------
(* What follows from it *)

\* Every variable keeps its type: a replay never counts more rows than there
\* are, and never has more calls in flight than it may.
THEOREM TypeCorrect == Spec => []TypeOK
<1>1. IInv => TypeOK
  BY DEF IInv
<1> QED
  BY <1>1, Invariant, PTL

\* After stop_replay has answered at most one more row is started.
THEOREM StopIsPrompt == Spec => []StopStartsAtMostOne
<1>1. IInv => StopStartsAtMostOne
  BY DEF IInv, Good, StopSeen, StopStartsAtMostOne
<1> QED
  BY <1>1, Invariant, PTL

\* What the status says of a replay that is over is final, and the rows it
\* says were called were each called once.
THEOREM ReportIsTrue == Spec => []ReportIsFinal
<1>1. IInv => ReportIsFinal
  <2> SUFFICES ASSUME IInv, NEW r \in Requests,
                      replay[r].pc \in {"lingering", "gone"}, ~replay[r].failed
               PROVE  /\ replay[r].flight = {}
                      /\ \A i \in Rows : called[r][i] <= 1
                      /\ replay[r].completed = Cardinality(Called(r))
                      /\ ~replay[r].cancel => Called(r) = Rows
    BY DEF ReportIsFinal
  <2>1. Good(replay[r], called[r])
    BY DEF IInv
  <2>2. replay[r].next \in 1..(TotalRows + 1) /\ replay[r].flight \in SUBSET Rows
        /\ replay[r].joinable \in Nat /\ replay[r].completed \in Nat
    BY <2>1 DEF Good, Records
  <2>3. replay[r].flight = {} /\ Under(replay[r]) = 0
    <3>1. Under(replay[r]) = 0
      BY <2>1 DEF Good, Settled
    <3> QED
      BY <2>2, <3>1, FlightSize DEF Under
  <2>4. \A i \in Rows : called[r][i] = IF i < replay[r].next THEN 1 ELSE 0
    BY <2>1 DEF Good, Dispatched
  <2>5. Called(r) = 1..(replay[r].next - 1)
    BY <2>2, <2>4 DEF Called
  <2>6. Cardinality(Called(r)) = replay[r].next - 1
    <3> DEFINE n == replay[r].next - 1
    <3>1. n \in Nat
      BY <2>2
    <3> HIDE DEF n
    <3>2. Cardinality(1..n) = IF 1 > n THEN 0 ELSE n - 1 + 1
      BY <3>1, FS_Interval
    <3>3. Cardinality(1..n) = n
      BY <3>1, <3>2
    <3> QED
      BY <2>5, <3>3 DEF n
  <2>7. replay[r].completed = replay[r].next - 1
    BY <2>1, <2>2, <2>3 DEF Good, Accounted
  <2>8. ~replay[r].cancel => replay[r].next = TotalRows + 1
    BY <2>1 DEF Good, Settled
  <2> QED
    BY <2>3, <2>4, <2>5, <2>6, <2>7, <2>8
<1> QED
  BY <1>1, Invariant, PTL

\* The task of an earlier replay never clears the handle of one that runs.
THEOREM HandleIsKept == Spec => RunningKeepsHandle
<1>1. IInv /\ [Next]_vars =>
        [Busy /\ handle' # handle => handle' # NoRequest /\ replay[handle'].pc = "valid"]_vars
  <2> SUFFICES ASSUME IInv, Next, Busy, handle' # handle
               PROVE  handle' # NoRequest /\ replay[handle'].pc = "valid"
    OBVIOUS
  <2>1. PICK r \in Requests : StoreHandle(r) \/ ClearHandle(r)
    BY DEF Next, CheckIdle, Validate, CheckCancel, LastRowSent, Dispatch, RowUnfit, CallReturns,
           CallAborted, JoinNext, Drained, MarkFinished, StopReplay, PlaybookStops
  <2>2. StoreHandle(r)
    BY <2>1 DEF ClearHandle
  <2> QED
    BY <2>2 DEF StoreHandle
<1> QED
  BY <1>1, Invariant, PTL DEF Spec, RunningKeepsHandle

=============================================================================
