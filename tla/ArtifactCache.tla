--------------------------- MODULE ArtifactCache ---------------------------
(***************************************************************************)
(* The artifact cache and the builds that fill it (pyro-artifacts: cache,  *)
(* build, artifacts).  A compile resolves the version of its package,      *)
(* takes a build slot, has cargo build the slot's crate, reads the wasm    *)
(* file cargo left and saves source and binary in the directory of the     *)
(* version.  Processes share the directories with no lock but the slots':  *)
(* other compiles, loads by the daemon (the version named or the latest),  *)
(* `ship` of a capability, and the purges of the cache server.             *)
(* One package and one capability; a package called "anon" is refused      *)
(* before anything happens.  Writing a file truncates it first (Torn).     *)
(***************************************************************************)
EXTENDS Integers, Sequences, FiniteSetsExt

CONSTANTS
    Builders,   \* compiles at work at one time
    Loaders,    \* loads at work at one time
    Slots,      \* build slots
    Sources,    \* sources: author, code, deps (dependencies), caps (uses the capability)
    Shipped,    \* what of the capability the cache has at first
    None,       \* no file, nobody, nothing
    Torn,       \* a file that is cut short
    MaxCalls,   \* bound: compiles in all
    MaxLoads,   \* bound: loads in all
    MaxEvents   \* bound: ships of the capability, purges, crashes, failures

ASSUME ArtifactCacheAssumption ==
    /\ Sources \subseteq [author : {"anon", "team"}, code : STRING,
                          deps : SUBSET STRING, caps : BOOLEAN]
    /\ Shipped \subseteq {"lib", "interface"}
    /\ Slots # {} /\ {MaxCalls, MaxLoads, MaxEvents} \subseteq Nat
    /\ IsFiniteSet(Builders) /\ Builders \cap Loaders = {} /\ None \notin Builders
    /\ None # Torn

VARIABLES
    modules,    \* modules[d]: the files of a version's directory
    exists,     \* the directories of versions that exist
    cap,        \* the capability's files in the cache
    target,     \* mod_slot.wasm in the target directory: what it was built from
    slot,       \* slot[k]: who locked it, the source in it, a copied interface
    task,       \* task[p]: a compile or a load
    got,        \* got[p]: what the task read of a directory, or built
    admin,      \* artifacts still to ship, directories still to purge
    calls, loads, events,
    saves,      \* compiles that came to save
    mixed,      \* history: directories written by two compiles at once, or by
                \* a compile of another source than they hold or serve
    overtaken,  \* history: compiles whose output another slot's build replaced
                \* before they took it
    crossed     \* history: the numbers of the builds they took for theirs

fileVars == <<modules, exists>>
bounds == <<calls, loads, events, saves>>
histories == <<mixed, overtaken, crossed>>
cacheVars == <<fileVars, cap, target, slot, task, got, admin, bounds, histories>>

Versions == 1..(MaxCalls + 1)
Dirs == {"anon", "team"} \X Versions
Manifest(deps, caps) == [deps |-> deps, caps |-> caps]
NoFiles == [toml |-> None, code |-> None, wasm |-> None, spec |-> None]
Free == [owner |-> None, source |-> None, copied |-> FALSE]
Task(pc, source, dir, no, file) ==
    [pc |-> pc, source |-> source, dir |-> dir, no |-> no, file |-> file]
Idle == Task("idle", None, <<"team", 1>>, 0, 1)
Nothing == [code |-> None, wasm |-> None, spec |-> None]

\* PlaybookSource::hash: code, dependencies and capabilities.  The author, the
\* version and the configuration of the capabilities are no part of it.
Hash(s) == [code |-> s.code, deps |-> s.deps, caps |-> s.caps]
HashRead(code, toml) == [code |-> code, deps |-> toml.deps, caps |-> toml.caps]

\* What the files of a version hold: source and manifest, and of a binary which
\* source it was built from and the how manyeth build it is.
Codes == {s.code : s \in Sources}
Manifests == [deps : {s.deps : s \in Sources} \cup {{}}, caps : BOOLEAN]
Hashes == {Hash(s) : s \in Sources}
Contents == [hash : Hashes \cup {None}, no : 1..MaxCalls]

ASSUME MarksAssumption ==
    \A mark \in {None, Torn} : mark \notin Codes /\ mark \notin Manifests /\ mark \notin Contents

At(p, pc) == task[p].pc = pc
Dir(p) == task[p].dir
Source(p) == task[p].source
OwnHash(p) == Hash(Source(p))
File(p, f) == modules[Dir(p)][f]

Goto(p, pc) == task' = [task EXCEPT ![p].pc = pc]

\* A task that ends with an error is gone.
Fails(p) == task' = [task EXCEPT ![p] = Idle] /\ got' = [got EXCEPT ![p] = Nothing]

\* Who holds a slot drops it when it returns, whatever it returns.  The crate
\* in it stays, but the next compile writes it anew before it builds.
Drops(p) == [k \in Slots |-> IF slot[k].owner = p
                             THEN [owner |-> None, source |-> None, copied |-> slot[k].copied]
                             ELSE slot[k]]

CacheInit ==
    /\ modules = [d \in Dirs |-> NoFiles] /\ exists = {}
    /\ cap = Shipped
    /\ target = None
    /\ slot = [k \in Slots |-> Free]
    /\ task = [p \in Builders \cup Loaders |-> Idle]
    /\ got = [p \in Builders \cup Loaders |-> Nothing]
    /\ admin = [ship |-> <<>>, purge |-> <<>>]
    /\ calls = 0 /\ loads = 0 /\ events = 0 /\ saves = 0
    /\ mixed = {} /\ overtaken = {} /\ crossed = {}

-----------------------------------------------------------------------------
(* Builder::compile, up to the slot: which version, is it there already *)

Compile(b, s) ==
    /\ task[b].pc \in {"idle", "done"} /\ calls < MaxCalls
    /\ task' = [task EXCEPT ![b] = Task(IF s.author = "anon" THEN "search" ELSE "spec",
                                        s, <<s.author, 1>>, 0, 1)]
    /\ got' = [got EXCEPT ![b] = Nothing]
    /\ calls' = calls + 1
    /\ UNCHANGED <<fileVars, cap, target, slot, admin, loads, events, saves, histories>>

\* Any error while the source of a version is read makes the version the one to
\* build; it is not reserved.
SearchCode(b) ==
    /\ At(b, "search")
    /\ got' = [got EXCEPT ![b].code = File(b, "code")]
    /\ Goto(b, IF File(b, "code") = None THEN "slot" ELSE "manifest")
    /\ UNCHANGED <<fileVars, cap, target, slot, admin, bounds, histories>>

SameSource(b) == HashRead(got[b].code, File(b, "toml")) = OwnHash(b)

SearchManifest(b) ==
    /\ At(b, "manifest")
    /\ \/ File(b, "toml") \in {None, Torn} /\ Goto(b, "slot")
       \/ File(b, "toml") \notin {None, Torn} /\ SameSource(b) /\ Goto(b, "spec")
       \/ /\ File(b, "toml") \notin {None, Torn} /\ ~SameSource(b)
          /\ task' = [task EXCEPT ![b] =
                          Task("search", Source(b), <<Dir(b)[1], Dir(b)[2] + 1>>, 0, 1)]
    /\ got' = [got EXCEPT ![b] = Nothing]
    /\ UNCHANGED <<fileVars, cap, target, slot, admin, bounds, histories>>

-----------------------------------------------------------------------------
(* PlaybookBinary::from_dir, for compiles and loads: three files, one by one *)

\* A compile then builds, a load fails.
NotThere(p) ==
    IF p \in Loaders THEN Fails(p)
    ELSE Goto(p, "slot") /\ got' = [got EXCEPT ![p] = Nothing]

ReadSpec(p) ==
    /\ At(p, "spec")
    /\ IF File(p, "spec") \in {None, Torn}
          THEN NotThere(p)
          ELSE Goto(p, "config") /\ got' = [got EXCEPT ![p].spec = File(p, "spec")]
    /\ UNCHANGED <<fileVars, cap, target, slot, admin, bounds, histories>>

\* Without a Module.toml there is no configuration.
ReadConfig(p) ==
    /\ At(p, "config")
    /\ IF File(p, "toml") = Torn THEN NotThere(p) ELSE Goto(p, "wasm") /\ UNCHANGED got
    /\ UNCHANGED <<fileVars, cap, target, slot, admin, bounds, histories>>

\* Only a named author's binary is compared with the source before it is
\* returned.  A load also wants the library of the capability.
LibraryThere == "lib" \in cap

Refused(p) ==
    IF p \in Loaders THEN got[p].spec.hash.caps /\ ~LibraryThere
    ELSE Source(p).author = "team" /\ got[p].spec.hash # OwnHash(p)

ReadWasm(p) ==
    /\ At(p, "wasm")
    /\ IF File(p, "wasm") = None \/ Refused(p)
          THEN NotThere(p)
          ELSE Goto(p, "done") /\ got' = [got EXCEPT ![p].wasm = File(p, "wasm")]
    /\ UNCHANGED <<fileVars, cap, target, slot, admin, bounds, histories>>

\* CacheManager::find_latest_version: the highest with a spec.json.
Found(author) == {v \in Versions : <<author, v>> \in exists /\ modules[<<author, v>>].spec # None}

\* CacheManager::load_playbook, of a named version or of the latest.
Load(l, author, v) ==
    /\ task[l].pc \in {"idle", "done"} /\ loads < MaxLoads
    /\ v \in {1} \cup (IF Found(author) = {} THEN {} ELSE {Max(Found(author))})
    /\ task' = [task EXCEPT ![l] = Task("spec", None, <<author, v>>, 0, 1)]
    /\ got' = [got EXCEPT ![l] = Nothing]
    /\ loads' = loads + 1
    /\ UNCHANGED <<fileVars, cap, target, slot, admin, calls, events, saves, histories>>

-----------------------------------------------------------------------------
(* Builder::compile, in the slot *)

\* Mutant: the lock does not keep the others out of the slot.
Anyone(k) == TRUE

Unlocked(k) == slot[k].owner = None

\* BuildSlot::acquire_any looks at the slots in turn until one can be locked.
Acquire(b, k) ==
    /\ At(b, "slot")
    /\ Unlocked(k)
    /\ slot' = [slot EXCEPT ![k].owner = b]
    /\ Goto(b, "prepare")
    /\ UNCHANGED <<fileVars, cap, target, got, admin, bounds, histories>>

\* A capability's interface is copied when the cache has it, and a copy an
\* earlier build left in the slot does as well.
Copied(b, k) == slot[k].copied \/ (Source(b).caps /\ "interface" \in cap)

\* Writes the crate.
Prepare(b, k) ==
    /\ At(b, "prepare") /\ slot[k].owner = b
    /\ LET copied == Copied(b, k)
       IN  IF Source(b).caps => copied
              THEN /\ slot' = [slot EXCEPT ![k] =
                                   [owner |-> b, source |-> OwnHash(b), copied |-> copied]]
                   /\ Goto(b, "cargo") /\ UNCHANGED got
              ELSE slot' = Drops(b) /\ Fails(b)
    /\ UNCHANGED <<fileVars, cap, target, admin, bounds, histories>>

\* Every slot's library has the name mod_slot and the same target directory.
Cargo(b, k) ==
    /\ At(b, "cargo") /\ slot[k].owner = b
    /\ target' = slot[k].source
    /\ overtaken' = overtaken \cup
                    {o \in Builders : At(o, "take") /\ \E j \in Slots \ {k} : slot[j].owner = o}
    /\ Goto(b, "take")
    /\ UNCHANGED <<fileVars, cap, slot, got, admin, bounds, mixed, crossed>>

\* The spec is made of the source, whatever cargo left.
SpecOf(b) == [hash |-> OwnHash(b), no |-> saves + 1]

TakeWasm(b) ==
    /\ At(b, "take")
    /\ got' = [got EXCEPT ![b] = [code |-> None, wasm |-> [hash |-> target, no |-> saves + 1],
                                  spec |-> SpecOf(b)]]
    /\ task' = [task EXCEPT ![b] = Task("save", Source(b), Dir(b), saves + 1, 1)]
    /\ saves' = saves + 1
    /\ crossed' = IF b \in overtaken THEN crossed \cup {saves + 1} ELSE crossed
    /\ overtaken' = overtaken \ {b}
    /\ slot' = Drops(b)
    /\ UNCHANGED <<fileVars, cap, target, admin, calls, loads, events, mixed>>

\* The command, the crate or a directory can not be written, cargo fails, no
\* spec can be made of the source.
CompileFails(b) ==
    /\ task[b].pc \in {"prepare", "cargo", "take"} /\ events < MaxEvents
    /\ slot' = Drops(b) /\ Fails(b) /\ overtaken' = overtaken \ {b} /\ events' = events + 1
    /\ UNCHANGED <<fileVars, cap, target, admin, calls, loads, saves, mixed, crossed>>

-----------------------------------------------------------------------------
(* Builder::compile, the end: write_artifacts of the source, of the binary *)

SourceFiles(b) == <<
    [file |-> "toml", content |-> Manifest(Source(b).deps, Source(b).caps)],
    [file |-> "code", content |-> Source(b).code] >>

\* The binary's Module.toml has no dependencies.
BinaryFiles(b) == <<
    [file |-> "wasm", content |-> got[b].wasm],
    [file |-> "spec", content |-> got[b].spec],
    [file |-> "toml", content |-> Manifest({}, Source(b).caps)] >>

Writes(b) == SourceFiles(b) \o BinaryFiles(b)
Write(b) == Writes(b)[task[b].file]

\* The directory holds what another source put there, or another source's
\* compile has found its code there and reads on.
Foreign(d, h) ==
    \/ modules[d].code \notin {None, Torn, h.code}
    \/ modules[d].spec \notin {None, Torn} /\ modules[d].spec.hash # h
    \/ /\ modules[d].wasm \notin {None, Torn}
       /\ modules[d].wasm.no \notin crossed /\ modules[d].wasm.hash # h
    \/ \E o \in Builders :
          /\ task[o].pc \in {"manifest", "spec", "config", "wasm"}
          /\ At(o, "manifest") => got[o].code = Source(o).code
          /\ Dir(o) = d /\ OwnHash(o) # h

Saving(b) == task[b].pc \in {"save", "half"}

\* create_dir_all before the first file of an artifact, then File::create.
SaveBegin(b) ==
    /\ At(b, "save")
    /\ LET d == Dir(b)
           i == task[b].file
       IN  /\ d \in exists \/ i \in {1, 3}
           /\ exists' = exists \cup {d}
           /\ modules' = [modules EXCEPT ![d][Write(b).file] = Torn]
           /\ mixed' = IF \/ \E o \in Builders \ {b} : Saving(o) /\ Dir(o) = d
                          \/ d[1] = "anon" /\ Foreign(d, OwnHash(b))
                       THEN mixed \cup {d} ELSE mixed
    /\ Goto(b, "half")
    /\ UNCHANGED <<cap, target, slot, got, admin, bounds, overtaken, crossed>>

\* The content goes to the file that was opened, which a purge may have removed.
StillThere(b) == File(b, Write(b).file) # None

SaveEnd(b) ==
    /\ At(b, "half")
    /\ modules' = IF StillThere(b)
                  THEN [modules EXCEPT ![Dir(b)][Write(b).file] = Write(b).content]
                  ELSE modules
    /\ task' = IF task[b].file = 5 THEN [task EXCEPT ![b].pc = "done"]
               ELSE [task EXCEPT ![b] =
                       Task("save", Source(b), Dir(b), task[b].no, task[b].file + 1)]
    /\ UNCHANGED <<exists, cap, target, slot, got, admin, bounds, histories>>

\* An artifact that can not be saved is logged: the source's failure leaves the
\* binary to be saved, the binary's the compile to return.
SaveFails(b) ==
    /\ At(b, "save")
    /\ LET i == task[b].file
       IN  /\ \/ Dir(b) \notin exists /\ i \notin {1, 3} /\ UNCHANGED events
              \/ events < MaxEvents /\ events' = events + 1
           /\ task' = [task EXCEPT ![b] =
                          IF i < 3 THEN Task("save", Source(b), Dir(b), task[b].no, 3)
                                   ELSE Task("done", Source(b), Dir(b), task[b].no, 5)]
    /\ UNCHANGED <<fileVars, cap, target, slot, got, admin, calls, loads, saves, histories>>

\* The process ends; the lock of its slot goes with it.
Crash(b) ==
    /\ task[b].pc \notin {"idle", "done"} /\ events < MaxEvents
    /\ slot' = Drops(b) /\ Fails(b) /\ overtaken' = overtaken \ {b} /\ events' = events + 1
    /\ UNCHANGED <<fileVars, cap, target, admin, calls, loads, saves, mixed, crossed>>

-----------------------------------------------------------------------------
(* `ship` and the purges of CacheServer *)

\* Environment::pack builds a module in its own project and saves it the same way.
ShipModule(b, s) ==
    /\ task[b].pc \in {"idle", "done"} /\ calls < MaxCalls /\ s.author = "team"
    /\ LET built == [hash |-> Hash(s), no |-> saves + 1]
       IN  got' = [got EXCEPT ![b] = [code |-> None, wasm |-> built, spec |-> built]]
    /\ task' = [task EXCEPT ![b] = Task("save", s, <<"team", 1>>, saves + 1, 1)]
    /\ calls' = calls + 1 /\ saves' = saves + 1
    /\ UNCHANGED <<fileVars, cap, target, slot, admin, loads, events, histories>>

\* A capability is saved as source (nothing here reads it), binary, interface.
ShipCapability ==
    /\ admin.ship = <<>> /\ events < MaxEvents
    /\ admin' = [admin EXCEPT !.ship = <<"lib", "interface">>]
    /\ events' = events + 1
    /\ UNCHANGED <<fileVars, cap, target, slot, task, got, calls, loads, saves, histories>>

ShipStep ==
    /\ admin.ship # <<>>
    /\ cap' = cap \cup {Head(admin.ship)}
    /\ admin' = [admin EXCEPT !.ship = Tail(@)]
    /\ UNCHANGED <<fileVars, target, slot, task, got, bounds, histories>>

Purges == { <<"capabilities", "interfaces", "modules">>, <<"capabilities", "interfaces">>,
            <<"modules">> }

Purge(dirs) ==
    /\ admin.purge = <<>> /\ events < MaxEvents
    /\ admin' = [admin EXCEPT !.purge = dirs]
    /\ events' = events + 1
    /\ UNCHANGED <<fileVars, cap, target, slot, task, got, calls, loads, saves, histories>>

\* remove_dir_all of one of the three directories.
PurgeStep ==
    /\ admin.purge # <<>>
    /\ LET dir == Head(admin.purge)
       IN  /\ cap' = CASE dir = "capabilities" -> cap \ {"lib"}
                       [] dir = "interfaces" -> cap \ {"interface"}
                       [] dir = "modules" -> cap
           /\ IF dir = "modules"
                 THEN modules' = [d \in Dirs |-> NoFiles] /\ exists' = {}
                 ELSE UNCHANGED fileVars
    /\ admin' = [admin EXCEPT !.purge = Tail(@)]
    /\ UNCHANGED <<target, slot, task, got, bounds, histories>>

BuildStep(b) ==
    \/ SearchCode(b) \/ SearchManifest(b)
    \/ \E k \in Slots : Acquire(b, k) \/ Prepare(b, k) \/ Cargo(b, k)
    \/ TakeWasm(b) \/ SaveBegin(b) \/ SaveEnd(b) \/ SaveFails(b)

ReadStep(p) == ReadSpec(p) \/ ReadConfig(p) \/ ReadWasm(p)

CacheNext ==
    \/ \E b \in Builders, s \in Sources : Compile(b, s) \/ ShipModule(b, s)
    \/ \E b \in Builders : BuildStep(b) \/ CompileFails(b) \/ Crash(b)
    \/ \E p \in Builders \cup Loaders : ReadStep(p)
    \/ \E l \in Loaders, d \in Dirs : Load(l, d[1], d[2])
    \/ ShipCapability \/ ShipStep \/ PurgeStep
    \/ \E dirs \in Purges : Purge(dirs)

CacheSpec == CacheInit /\ [][CacheNext]_cacheVars

-----------------------------------------------------------------------------
(* Properties *)

CachePcs == {"idle", "search", "manifest", "spec", "config", "wasm", "slot", "prepare",
             "cargo", "take", "save", "half", "done"}

\* Types; a directory that is gone holds no file.
CacheTypeOK ==
    /\ \A d \in Dirs :
          /\ modules[d].toml \in {None, Torn} \cup Manifests
          /\ modules[d].code \in {None, Torn} \cup Codes
          /\ modules[d].wasm \in {None, Torn} \cup Contents
          /\ modules[d].spec \in {None, Torn} \cup Contents
          /\ d \notin exists => modules[d] = NoFiles
    /\ exists \subseteq Dirs /\ mixed \subseteq Dirs
    /\ overtaken \subseteq Builders /\ crossed \subseteq 1..MaxCalls
    /\ cap \subseteq {"lib", "interface"}
    /\ \A k \in Slots : slot[k].owner \in Builders \cup {None}
    /\ \A p \in Builders \cup Loaders : task[p].pc \in CachePcs /\ Dir(p) \in Dirs
    /\ calls <= MaxCalls /\ loads <= MaxLoads /\ events <= MaxEvents

\* build.rs, compile: the program a compile returns, if it is whole, was built
\* from the source it was given, however many slots build into one file; unless
\* another slot's build replaced the file between cargo and the read of it.  The
\* same for a binary found in the cache, unless two compiles wrote the version
\* (none reserves it) or, for a named author, a later compile replaced the files
\* while they were read.  A program is cut short where one was being written, or
\* where a process died writing it over an older one: who finds it returns it.
OwnProgram ==
    \A b \in Builders :
        At(b, "done") /\ got[b].wasm # Torn =>
            \/ got[b].wasm.hash = OwnHash(b)
            \/ got[b].wasm.no \in crossed
            \/ task[b].no = 0
               /\ (Dir(b) \in mixed \/ got[b].wasm.no > got[b].spec.no)

\* cache.rs, load_playbook, and build.rs: the wasm is written before the spec and
\* read after it, so that who meets a compile on its way - or what a crash left
\* of it - never pairs a spec with the program of an earlier compile; unless two
\* compiles wrote the version, or the program is cut short as said above.
NeverOlderProgram ==
    \A p \in Builders \cup Loaders :
        At(p, "done") /\ got[p].wasm # Torn /\ Dir(p) \notin mixed =>
            got[p].wasm.no >= got[p].spec.no

\* What a compile or a load returns belongs together, and to the source it was
\* asked for, with the exceptions named above.
ArtifactsMatch == CacheTypeOK /\ OwnProgram /\ NeverOlderProgram
=============================================================================
