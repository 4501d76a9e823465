-------------------------- MODULE CapabilityProofs --------------------------
(***************************************************************************)
(* A call reaches the child its worker started and runs there with the     *)
(* client data it was made with; no child is left without the worker that  *)
(* will kill it.                                                           *)
(*                                                                         *)
(* Neither is inductive.  A worker connects to whatever listens at its     *)
(* path, so that this is its own child needs that a file is named after    *)
(* the path of the worker whose child made it, that a child that lives has *)
(* a worker that is not gone, and that such workers' paths are apart: the  *)
(* invariant PInv.  That a method runs with its own data needs what a      *)
(* router and its clients agree on while a registration is under way: the  *)
(* invariant Routing, in which a number that was taken has no data yet and *)
(* no second taker, numbers in use have the data they were cached for, and *)
(* a count of the calls about to ask bounds the numbers by the calls made. *)
(***************************************************************************)
EXTENDS Capability, FiniteSetTheorems, TLAPS

USE CapabilityAssumption

\* A worker that was started and is not gone.
Active(w) == worker[w].pc \notin {"new", "gone"}

\* A worker that was not started has no child, one that removes its file has
\* killed it.
Lifetimes ==
    \A w \in Workers : /\ At(w, "new") => child[w] = "none"
                       /\ At(w, "killed") => child[w] = "dead"

\* Unless a path was used by two workers at once or a daemon left its children,
\* the paths of the workers are apart.
PathsApart ==
    /\ orphaned => shared
    /\ ~shared => \A v, w \in Workers : Active(v) /\ Active(w) /\ Path(v) = Path(w) => v = w

\* The file at a path was made by a worker's child that was given the path.
FilesNamed == \A a \in Addrs : file[a] # Nothing => Path(file[a]) = a

\* The part of the type invariant about processes, and what they keep.
ProcTypes ==
    /\ worker \in [Workers -> [pc : WorkerPcs, path : Addrs, tries : 0..(MaxTries + 1)]]
    /\ child \in [Workers -> ChildStates]
    /\ file \in [Addrs -> Workers \cup {Nothing}]
    /\ shared \in BOOLEAN /\ orphaned \in BOOLEAN

PInv == ProcTypes /\ Lifetimes /\ PathsApart /\ FilesNamed /\ ChildrenHaveOwners /\ OwnProcess

\* Who is connected is a worker's child.
LEMMA ConnTypes ==
    ASSUME TypeOK
    PROVE  \A w \in Workers, k \in Shards : conn[w][k].to \in Workers \cup {Nothing}
BY DEF TypeOK

-----------------------------------------------------------------------------
\* A child that unlinks, binds or dies touches the file at its own path only.
LEMMA ChildPInv ==
    ASSUME TypeOK, PInv, NEW w \in Workers, ChildUnlinks(w) \/ ChildBinds(w) \/ ChildDies(w)
    PROVE  PInv'
<1>1. /\ worker \in [Workers -> [pc : WorkerPcs, path : Addrs, tries : 0..(MaxTries + 1)]]
      /\ child \in [Workers -> ChildStates] /\ file \in [Addrs -> Workers \cup {Nothing}]
      /\ Path(w) \in Addrs /\ w # Nothing
  BY DEF PInv, ProcTypes, Path, Workers
<1>2. /\ worker' = worker /\ shared' = shared /\ orphaned' = orphaned /\ conn' = conn
      /\ child[w] \in {"starting", "unlinked", "serving"}
      /\ \E s \in {"unlinked", "serving", "dead"} : child' = [child EXCEPT ![w] = s]
      /\ \/ file' = file
         \/ file' = [file EXCEPT ![Path(w)] = Nothing]
         \/ file' = [file EXCEPT ![Path(w)] = w]
  BY DEF ChildUnlinks, ChildBinds, ChildDies, Ends
<1>3. ProcTypes'
  BY <1>1, <1>2 DEF PInv, ProcTypes, ChildStates
<1>4. Lifetimes'
  BY <1>1, <1>2 DEF PInv, Lifetimes, At
<1>5. PathsApart'
  BY <1>2 DEF PInv, PathsApart, Active, Path
<1>6. FilesNamed'
  BY <1>1, <1>2 DEF PInv, FilesNamed, Path
<1>7. ChildrenHaveOwners'
  BY <1>1, <1>2 DEF PInv, ChildrenHaveOwners, At
<1>8. OwnProcess'
  BY <1>2 DEF PInv, OwnProcess, Path
<1> QED
  BY <1>3, <1>4, <1>5, <1>6, <1>7, <1>8 DEF PInv

\* A worker that starts where another is at work makes the path shared.
LEMMA SpawnPInv == ASSUME TypeOK, PInv, NEW w \in Workers, Spawn(w) PROVE PInv'
<1>1. /\ worker \in [Workers -> [pc : WorkerPcs, path : Addrs, tries : 0..(MaxTries + 1)]]
      /\ child \in [Workers -> ChildStates] /\ worker[w].pc = "new" /\ shared \in BOOLEAN
  BY DEF PInv, ProcTypes, Spawn, At
<1>2. /\ worker' = [worker EXCEPT ![w].pc = "waiting"] /\ child' = [child EXCEPT ![w] = "starting"]
      /\ file' = file /\ conn' = conn
      /\ shared' = (shared \/ \E v \in Workers \ {w} :
                                  worker[v].path = worker[w].path /\ worker[v].pc \notin {"new", "gone"})
  BY DEF Spawn, Path
<1>3. \A v \in Workers : /\ worker'[v].path = worker[v].path
                         /\ v # w => worker'[v].pc = worker[v].pc /\ child'[v] = child[v]
                         /\ v = w => worker'[v].pc = "waiting" /\ child'[v] = "starting"
  BY <1>1, <1>2
<1>4. /\ shared => shared'
      /\ ~shared' => \A v \in Workers \ {w} :
                        ~(worker[v].path = worker[w].path /\ worker[v].pc \notin {"new", "gone"})
  <2> DEFINE other == \E v \in Workers \ {w} :
                         worker[v].path = worker[w].path /\ worker[v].pc \notin {"new", "gone"}
  <2>1. shared' = (shared \/ other)
    BY <1>2
  <2>2. (shared => shared') /\ (~shared' => ~other)
    BY <2>1, Zenon
  <2> QED
    BY <2>2
<1>5. orphaned' = orphaned
  BY DEF Spawn
<1>6. orphaned' \in BOOLEAN /\ (orphaned' => orphaned) /\ (orphaned => orphaned')
  <2>1. orphaned \in BOOLEAN
    BY DEF PInv, ProcTypes
  <2> QED
    BY <1>5, <2>1, Zenon
<1>7. ProcTypes'
  BY <1>1, <1>2, <1>6 DEF PInv, ProcTypes, ChildStates, WorkerPcs
<1>8. Lifetimes'
  BY <1>3 DEF PInv, Lifetimes, At
<1>9. PathsApart'
  <2>1. orphaned' => shared'
    BY <1>4, <1>6, Zenon DEF PInv, PathsApart
  <2>2. ~shared' => \A u, v \in Workers : Active(u)' /\ Active(v)' /\ Path(u)' = Path(v)' => u = v
    BY <1>1, <1>3, <1>4 DEF PInv, PathsApart, Active, Path
  <2> QED
    BY <2>1, <2>2 DEF PathsApart
<1>10. FilesNamed'
  BY <1>2, <1>3 DEF PInv, FilesNamed, Path, ProcTypes
<1>11. ChildrenHaveOwners'
  BY <1>3, <1>6 DEF PInv, ChildrenHaveOwners, At
<1>12. OwnProcess'
  BY <1>2, <1>3, <1>4, ConnTypes DEF PInv, OwnProcess, Path
<1> QED
  BY <1>7, <1>8, <1>9, <1>10, <1>11, <1>12 DEF PInv

\* The steps of the task that starts or stops a worker, save those that connect.
LEMMA WorkerPInv ==
    ASSUME TypeOK, PInv, NEW w \in Workers,
           LookForFile(w) \/ GiveUp(w) \/ Started(w) \/ Stop(w) \/ KillChild(w)
    PROVE  PInv'
<1>1. /\ worker \in [Workers -> [pc : WorkerPcs, path : Addrs, tries : 0..(MaxTries + 1)]]
      /\ child \in [Workers -> ChildStates] /\ shared \in BOOLEAN
  BY DEF PInv, ProcTypes
<1>2. /\ worker[w].pc \notin {"new", "gone"}
      /\ \E r \in [pc : WorkerPcs, path : Addrs, tries : 0..(MaxTries + 1)] :
            /\ worker' = [worker EXCEPT ![w] = r]
            /\ r.path = worker[w].path /\ r.pc # "new"
            /\ \/ r.pc \notin {"gone", "killed"} /\ child' = child
               \/ child' = [child EXCEPT ![w] = "dead"]
      /\ UNCHANGED <<file, shared, orphaned, conn>>
  <2>1. CASE LookForFile(w)
    <3>1. worker[w].tries <= MaxTries => worker[w].tries + 1 \in 0..(MaxTries + 1)
      BY <1>1
    <3>2. /\ worker[w].pc = "waiting"
          /\ \/ worker' = [worker EXCEPT ![w].pc = "ready"]
             \/ worker' = [worker EXCEPT ![w].pc = "giving_up"]
             \/ worker[w].tries <= MaxTries /\ worker' = [worker EXCEPT ![w].tries = @ + 1]
      BY <1>1, <2>1 DEF LookForFile, At
    <3> DEFINE r == worker'[w]
    <3>3. /\ r \in [pc : WorkerPcs, path : Addrs, tries : 0..(MaxTries + 1)]
          /\ worker' = [worker EXCEPT ![w] = r]
          /\ r.path = worker[w].path /\ r.pc \in {"ready", "giving_up", "waiting"}
      BY <1>1, <3>1, <3>2 DEF WorkerPcs
    <3> HIDE DEF r
    <3> QED
      BY <2>1, <3>2, <3>3 DEF LookForFile
  <2>2. CASE GiveUp(w) \/ Started(w) \/ Stop(w) \/ KillChild(w)
    <3>1. PICK p \in WorkerPcs \ {"new"} :
             /\ worker[w].pc \notin {"new", "gone"} /\ worker' = [worker EXCEPT ![w].pc = p]
             /\ \/ p \notin {"gone", "killed"} /\ child' = child
                \/ child' = [child EXCEPT ![w] = "dead"]
      BY <2>2 DEF GiveUp, Started, Stop, KillChild, At, Ends, WorkerPcs
    <3> DEFINE r == [worker[w] EXCEPT !.pc = p]
    <3>2. /\ r \in [pc : WorkerPcs, path : Addrs, tries : 0..(MaxTries + 1)]
          /\ worker' = [worker EXCEPT ![w] = r]
          /\ r.path = worker[w].path /\ r.pc = p
      BY <1>1, <3>1
    <3> HIDE DEF r
    <3> QED
      BY <2>2, <3>1, <3>2 DEF GiveUp, Started, Stop, KillChild
  <2> QED
    BY <2>1, <2>2
<1>3. \A v \in Workers : /\ worker'[v].path = worker[v].path
                         /\ v # w => worker'[v].pc = worker[v].pc /\ child'[v] = child[v]
                         /\ v = w => /\ worker'[v].pc # "new"
                                     /\ worker'[v].pc \in {"gone", "killed"} => child'[v] = "dead"
  BY <1>1, <1>2
<1>4. ProcTypes'
  BY <1>1, <1>2 DEF PInv, ProcTypes, ChildStates
<1>5. Lifetimes'
  BY <1>3 DEF PInv, Lifetimes, At
<1>6. PathsApart'
  BY <1>2, <1>3 DEF PInv, PathsApart, Active, Path
<1>7. FilesNamed'
  BY <1>2, <1>3 DEF PInv, FilesNamed, Path, ProcTypes
<1>8. ChildrenHaveOwners'
  BY <1>2, <1>3 DEF PInv, ChildrenHaveOwners, At
<1>9. OwnProcess'
  BY <1>2, <1>3, ConnTypes DEF PInv, OwnProcess, Path
<1> QED
  BY <1>4, <1>5, <1>6, <1>7, <1>8, <1>9 DEF PInv

\* Where paths are apart, whatever listens at the path of a worker that was
\* started is its own child.
LEMMA OwnFile ==
    ASSUME TypeOK, PInv, NEW w \in Workers, Active(w), ~shared, Serving(file[Path(w)])
    PROVE  file[Path(w)] = w
<1>1. Path(w) \in Addrs /\ file \in [Addrs -> Workers \cup {Nothing}]
  BY DEF PInv, ProcTypes, Path
<1>2. PICK p \in Workers : p = file[Path(w)] /\ p # Nothing /\ child[p] = "serving"
  BY <1>1 DEF Serving
<1>3. Path(p) = Path(w)
  BY <1>1, <1>2 DEF PInv, FilesNamed
<1>4. Active(p)
  <2>1. ~orphaned
    BY DEF PInv, PathsApart
  <2> QED
    BY <1>2, <2>1 DEF PInv, Lifetimes, ChildrenHaveOwners, Active, At
<1> QED
  BY <1>2, <1>3, <1>4 DEF PInv, PathsApart

\* Whatever listens at a path is a child that was started for it.
LEMMA NamedFile ==
    ASSUME PInv, NEW w \in Workers, Serving(file[Path(w)])
    PROVE  Path(file[Path(w)]) = Path(w)
<1>1. Path(w) \in Addrs /\ file[Path(w)] # Nothing
  BY DEF PInv, ProcTypes, Path, Serving
<1> QED
  BY <1>1 DEF PInv, FilesNamed

\* Instances are connected, connected anew, and let go.
LEMMA ConnPInv ==
    ASSUME TypeOK, PInv,
           \/ \E w \in Workers, k \in Shards : Connect(w, k)
           \/ \E w \in Workers : Restart(w) \/ RemoveFile(w)
           \/ DaemonDies
    PROVE  PInv'
<1>1. /\ worker \in [Workers -> [pc : WorkerPcs, path : Addrs, tries : 0..(MaxTries + 1)]]
      /\ child \in [Workers -> ChildStates] /\ file \in [Addrs -> Workers \cup {Nothing}]
      /\ shared \in BOOLEAN /\ Nothing \notin Workers
      /\ \A w \in Workers : Path(w) \in Addrs
      /\ conn \in [Workers -> [Shards -> [to : Workers \cup {Nothing}, cache : [Data -> Ids \cup {0}]]]]
      /\ Unconnected.to = Nothing
  BY DEF PInv, ProcTypes, TypeOK, Path, Workers, Unconnected
<1>2. ASSUME NEW w \in Workers,
             \E p \in WorkerPcs \ {"new", "killed"} :
                /\ worker[w].pc # "new" /\ worker' = [worker EXCEPT ![w].pc = p]
                /\ p = "gone" => worker[w].pc \in {"gone", "killed"},
             UNCHANGED <<child, shared, orphaned>>,
             file' = file \/ file' = [file EXCEPT ![Path(w)] = Nothing],
             \A k \in Shards : conn'[w][k].to \in {conn[w][k].to, Nothing}
                              \/ /\ conn'[w][k].to \in Workers
                                 /\ Path(conn'[w][k].to) = Path(w)
                                 /\ ~shared => conn'[w][k].to = w,
             \A v \in Workers : v # w => conn'[v] = conn[v],
             Active(w)
      PROVE  PInv'
  <2>1. PICK p \in WorkerPcs \ {"new", "killed"} :
                /\ worker[w].pc # "new" /\ worker' = [worker EXCEPT ![w].pc = p]
                /\ p = "gone" => worker[w].pc \in {"gone", "killed"}
    BY <1>2
  <2>2. \A v \in Workers : /\ worker'[v].path = worker[v].path
                           /\ v # w => worker'[v].pc = worker[v].pc
                           /\ v = w => worker'[v].pc = p
    BY <1>1, <2>1
  <2>3. ProcTypes'
    <3> DEFINE r == [worker[w] EXCEPT !.pc = p]
    <3>1. r \in [pc : WorkerPcs, path : Addrs, tries : 0..(MaxTries + 1)] /\ worker' = [worker EXCEPT ![w] = r]
      <4>1. worker[w] \in [pc : WorkerPcs, path : Addrs, tries : 0..(MaxTries + 1)] /\ p \in WorkerPcs
        BY <1>1
      <4> HIDE CapabilityAssumption
      <4> QED
        BY <2>1, <4>1
    <3> HIDE DEF r
    <3>2. worker' \in [Workers -> [pc : WorkerPcs, path : Addrs, tries : 0..(MaxTries + 1)]]
      BY <1>1, <3>1
    <3> QED
      <4>1. orphaned' \in BOOLEAN /\ shared' \in BOOLEAN
        BY <1>1, <1>2 DEF PInv, ProcTypes
      <4>2. child' \in [Workers -> ChildStates] /\ file' \in [Addrs -> Workers \cup {Nothing}]
        BY <1>1, <1>2
      <4> QED
        BY <3>2, <4>1, <4>2 DEF ProcTypes
  <2>4. Lifetimes'
    BY <1>2, <2>1, <2>2 DEF PInv, Lifetimes, At
  <2>5. PathsApart'
    BY <1>2, <2>1, <2>2 DEF PInv, PathsApart, Active, Path
  <2>6. FilesNamed'
    BY <1>1, <1>2, <2>2 DEF PInv, FilesNamed, Path
  <2>7. ChildrenHaveOwners'
    BY <1>2, <2>1, <2>2 DEF PInv, ChildrenHaveOwners, Lifetimes, At
  <2>8. OwnProcess'
    BY <1>2, <2>2, ConnTypes DEF PInv, OwnProcess, Path
  <2> QED
    BY <2>3, <2>4, <2>5, <2>6, <2>7, <2>8 DEF PInv
<1>3. ASSUME NEW w \in Workers, NEW k \in Shards, Connect(w, k) PROVE PInv'
  <2>1. /\ worker[w].pc = "ready" /\ UNCHANGED <<child, file, shared, orphaned>> /\ Active(w)
    BY <1>3 DEF Connect, At, Active
  <2>2. CASE Serving(file[Path(w)])
    <3>1. /\ conn' = [conn EXCEPT ![w][k].to = file[Path(w)]] /\ worker' = worker
      BY <1>3, <2>2 DEF Connect
    <3>2. /\ ~shared => file[Path(w)] = w
          /\ Path(file[Path(w)]) = Path(w) /\ file[Path(w)] \in Workers
      BY <1>1, <2>1, <2>2, OwnFile, NamedFile DEF Serving
    <3>3. /\ \A j \in Shards : \/ conn'[w][j].to = conn[w][j].to
                               \/ /\ conn'[w][j].to \in Workers
                                  /\ Path(conn'[w][j].to) = Path(w)
                                  /\ ~shared => conn'[w][j].to = w
          /\ \A v \in Workers : v # w => conn'[v] = conn[v]
      BY <1>1, <3>1, <3>2
    <3>4. worker' = [worker EXCEPT ![w].pc = "ready"]
      BY <1>1, <2>1, <3>1
    <3> QED
      BY <1>2, <2>1, <3>3, <3>4 DEF WorkerPcs
  <2>3. CASE ~Serving(file[Path(w)])
    <3>1. worker' = [worker EXCEPT ![w].pc = "stopping"] /\ conn' = conn
      BY <1>3, <2>3 DEF Connect
    <3>2. "stopping" \in WorkerPcs \ {"new", "killed"} /\ "stopping" # "gone"
      BY DEF WorkerPcs
    <3>3. \A j \in Shards : conn'[w][j].to \in {conn[w][j].to, Nothing}
      BY <3>1
    <3> QED
      BY <1>2, <2>1, <3>1, <3>2, <3>3
  <2> QED
    BY <2>2, <2>3
<1>4. ASSUME NEW w \in Workers, Restart(w) PROVE PInv'
  <2>1. /\ worker[w].pc = "running" /\ UNCHANGED <<worker, child, file, shared, orphaned>> /\ Active(w)
        /\ Serving(file[Path(w)])
        /\ conn' = [conn EXCEPT ![w] = [k \in Shards |-> [Unconnected EXCEPT !.to = file[Path(w)]]]]
    BY <1>4 DEF Restart, At, Active, procVars
  <2>2. /\ ~shared => file[Path(w)] = w
        /\ Path(file[Path(w)]) = Path(w) /\ file[Path(w)] \in Workers
    BY <1>1, <2>1, OwnFile, NamedFile DEF Serving
  <2>3. [Unconnected EXCEPT !.to = file[Path(w)]].to = file[Path(w)]
    BY DEF Unconnected
  <2>4. /\ \A j \in Shards : conn'[w][j].to = file[Path(w)]
        /\ \A v \in Workers : v # w => conn'[v] = conn[v]
    BY <1>1, <2>1, <2>3
  <2>5. worker' = [worker EXCEPT ![w].pc = "running"]
    BY <1>1, <2>1
  <2> QED
    <3>1. "running" \in WorkerPcs \ {"new", "killed"}
      BY DEF WorkerPcs
    <3>2. UNCHANGED <<child, shared, orphaned>> /\ file' = file
      BY <2>1
    <3>3. \E p \in WorkerPcs \ {"new", "killed"} :
             /\ worker[w].pc # "new" /\ worker' = [worker EXCEPT ![w].pc = p]
             /\ p = "gone" => worker[w].pc \in {"gone", "killed"}
      BY <2>1, <2>5, <3>1
    <3>4. \A j \in Shards : conn'[w][j].to \in {conn[w][j].to, Nothing}
                              \/ /\ conn'[w][j].to \in Workers
                                 /\ Path(conn'[w][j].to) = Path(w)
                                 /\ ~shared => conn'[w][j].to = w
      BY <2>2, <2>4
    <3> QED
      BY <1>2, <2>1, <2>4, <3>2, <3>3, <3>4
<1>5. ASSUME NEW w \in Workers, RemoveFile(w) PROVE PInv'
  <2>1. /\ worker[w].pc = "killed" /\ UNCHANGED <<child, shared, orphaned>> /\ Active(w)
        /\ worker' = [worker EXCEPT ![w].pc = "gone"]
        /\ file' = [file EXCEPT ![Path(w)] = Nothing]
        /\ conn' = [conn EXCEPT ![w] = [k \in Shards |->
                       IF call[w][k].pc \in {"idle", "ran"} THEN Unconnected ELSE @[k]]]
    BY <1>5 DEF RemoveFile, At, Active
  <2>2. /\ \A j \in Shards : conn'[w][j].to \in {conn[w][j].to, Nothing}
        /\ \A v \in Workers : v # w => conn'[v] = conn[v]
    BY <1>1, <2>1
  <2> QED
    BY <1>2, <2>1, <2>2 DEF WorkerPcs
<1>6. CASE DaemonDies
  <2>1. /\ shared' = TRUE /\ orphaned' = TRUE /\ child' = child /\ file' = file
        /\ \A w \in Workers, k \in Shards : conn'[w][k].to = Nothing
        /\ worker' = [w \in Workers |-> IF worker[w].pc = "new" THEN worker[w]
                                        ELSE [worker[w] EXCEPT !.pc = "gone"]]
    BY <1>1, <1>6 DEF DaemonDies, At
  <2>2. \A v \in Workers : /\ worker'[v].path = worker[v].path
                           /\ worker'[v].pc = "new" \/ worker'[v].pc = "gone"
                           /\ worker'[v].pc = "new" <=> worker[v].pc = "new"
    BY <1>1, <2>1
  <2>3. ProcTypes'
    <3>1. ASSUME NEW w \in Workers
          PROVE  worker'[w] \in [pc : WorkerPcs, path : Addrs, tries : 0..(MaxTries + 1)]
      <4>1. worker[w] \in [pc : WorkerPcs, path : Addrs, tries : 0..(MaxTries + 1)] /\ "gone" \in WorkerPcs
        BY <1>1 DEF WorkerPcs
      <4>2. worker'[w] = worker[w] \/ worker'[w] = [worker[w] EXCEPT !.pc = "gone"]
        BY <1>1, <2>1
      <4> HIDE CapabilityAssumption
      <4> QED
        BY <4>1, <4>2
    <3> QED
      BY <1>1, <2>1, <3>1 DEF ProcTypes
  <2> QED
    BY <1>1, <2>1, <2>2, <2>3
    DEF PInv, Lifetimes, PathsApart, FilesNamed, ChildrenHaveOwners, OwnProcess, At, Path
<1> QED
  BY <1>3, <1>4, <1>5, <1>6

\* A call leaves the processes and who is connected to whom as they are.
LEMMA CallPInv ==
    ASSUME PInv, UNCHANGED procVars,
           \A w \in Workers, k \in Shards : conn'[w][k].to = conn[w][k].to
    PROVE  PInv'
BY DEF procVars, PInv, ProcTypes, Lifetimes, PathsApart, FilesNamed, ChildrenHaveOwners, OwnProcess,
       At, Path, Active

-----------------------------------------------------------------------------
\* The records of connections and calls.
ConnRecords == [to : Workers \cup {Nothing}, cache : [Data -> Ids \cup {0}]]
CallRecords == [pc : CallPcs, data : Data \cup {Nothing}, id : Ids \cup {0},
                ran : Data \cup {Nothing}]

\* The part of the type invariant about routers, connections and calls.
RouterTypes ==
    /\ next \in [Workers -> Nat \ {0}]
    /\ clients \in [Workers -> [Ids -> Data \cup {Nothing}]]
    /\ conn \in [Workers -> [Shards -> ConnRecords]]
    /\ call \in [Workers -> [Shards -> CallRecords]]
    /\ made \in 0..MaxCalls

\* Who is connected is so to a process that listened then; calls are made once
\* the worker runs.
Connected ==
    \A w \in Workers, k \in Shards :
        /\ IF conn[w][k].to = Nothing THEN conn[w][k] = Unconnected
                                      ELSE child[conn[w][k].to] \in {"serving", "dead"}
        /\ worker[w].pc \in {"new", "waiting", "giving_up", "ready"} => call[w][k] = Idle
        /\ call[w][k].pc # "idle" => call[w][k].data \in Data

\* The numbers a router has not given out have no data.
Free == \A p \in Workers : \A n \in Ids : n >= next[p] => clients[p][n] = Nothing

\* The router of process p holds the data of every number in cache.
Cached(p, cache) == \A d \in Data : cache[d] # 0 => clients[p][cache[d]] = d

\* The number that call c to process p has just taken has no data yet; the one it
\* calls with is that of its data.
Taken(p, c) ==
    /\ c.pc = "numbered" => /\ c.id \in 1..(next[p] - 1)
                            /\ clients[p][c.id] = Nothing
    /\ c.pc = "calling" => /\ c.id # 0
                           /\ clients[p][c.id] = c.data

\* So it is for every connection to a living process, and the call on it.
Numbers ==
    \A w \in Workers, k \in Shards :
        Serving(conn[w][k].to) => /\ Cached(conn[w][k].to, conn[w][k].cache)
                                  /\ Taken(conn[w][k].to, call[w][k])

\* No two calls have taken the same number.
Differ ==
    \A v, w \in Workers, j, k \in Shards :
        /\ call[v][j].pc = "numbered" /\ call[w][k].pc = "numbered"
        /\ conn[v][j].to = conn[w][k].to /\ Serving(conn[w][k].to)
        /\ call[v][j].id = call[w][k].id
        => v = w /\ j = k

\* Every number given out was asked for by a call, and every call that is about
\* to ask is one more: the numbers stay within Ids.
Registering == {x \in Workers \X Shards : call[x[1]][x[2]].pc = "registering"}
Counted == /\ IsFiniteSet(Registering)
           /\ \A p \in Workers : next[p] - 1 + Cardinality(Registering) <= made

\* What routers, connections and calls keep.
Routing == RouterTypes /\ Connected /\ Free /\ Numbers /\ Differ /\ Counted /\ CallRunsWithOwnData

\* A router that starts counting anew counts within the same bound.
LEMMA CountFromOne ==
    ASSUME NEW a \in Nat \ {0}, NEW b, b = a \/ b = 1, NEW r \in Nat, NEW m \in Nat, a - 1 + r <= m
    PROVE  b - 1 + r <= m
OBVIOUS

\* Numbers stay right where connections to living processes and their routers
\* stay, and calls stay or end.
LEMMA NumbersStay ==
    ASSUME Numbers, conn' = conn,
           \A w \in Workers, k \in Shards :
              Serving(conn[w][k].to)' =>
                 /\ Serving(conn[w][k].to)
                 /\ next'[conn[w][k].to] = next[conn[w][k].to]
                 /\ clients'[conn[w][k].to] = clients[conn[w][k].to]
                 /\ call'[w][k].pc \in {"numbered", "calling"} => call'[w][k] = call[w][k]
    PROVE  Numbers'
<1>1. ASSUME NEW w \in Workers, NEW k \in Shards, Serving(conn[w][k].to)'
      PROVE  (Cached(conn[w][k].to, conn[w][k].cache) /\ Taken(conn[w][k].to, call[w][k]))'
  <2>1. Cached(conn[w][k].to, conn[w][k].cache) /\ Taken(conn[w][k].to, call[w][k])
    BY <1>1 DEF Numbers
  <2>2. Cached(conn[w][k].to, conn[w][k].cache)'
    BY <1>1, <2>1 DEF Cached
  <2>3. Taken(conn[w][k].to, call[w][k])'
    BY <1>1, <2>1 DEF Taken
  <2> QED
    BY <2>2, <2>3
<1> QED
  BY <1>1 DEF Numbers

\* Processes come and go while connections and calls stay.
LEMMA ProcessRouting ==
    ASSUME Routing, UNCHANGED <<conn, call, made>>,
           next' \in [Workers -> Nat \ {0}],
           clients' \in [Workers -> [Ids -> Data \cup {Nothing}]],
           \A w \in Workers :
              /\ worker'[w].pc \in {"new", "waiting", "giving_up", "ready"}
                    => worker[w].pc \in {"new", "waiting", "giving_up", "ready"}
              /\ child[w] \in {"serving", "dead"} => child'[w] \in {child[w], "dead"}
              /\ \/ next'[w] = next[w] /\ clients'[w] = clients[w]
                 \/ /\ next'[w] = 1 /\ child'[w] = "dead"
                    /\ \A n \in Ids : clients'[w][n] = Nothing
    PROVE  Routing'
<1>1. /\ conn \in [Workers -> [Shards -> ConnRecords]] /\ call \in [Workers -> [Shards -> CallRecords]]
      /\ made \in Nat /\ next \in [Workers -> Nat \ {0}]
      /\ \A w \in Workers, k \in Shards : conn[w][k].to \in Workers \cup {Nothing}
  BY DEF Routing, RouterTypes, ConnRecords
<1>2. RouterTypes'
  BY DEF Routing, RouterTypes
<1>3. Connected'
  <2>1. ASSUME NEW w \in Workers, NEW k \in Shards
        PROVE  /\ IF conn[w][k].to = Nothing THEN conn[w][k] = Unconnected
                                             ELSE child'[conn[w][k].to] \in {"serving", "dead"}
               /\ worker'[w].pc \in {"new", "waiting", "giving_up", "ready"} => call[w][k] = Idle
               /\ call[w][k].pc # "idle" => call[w][k].data \in Data
    <3>1. /\ IF conn[w][k].to = Nothing THEN conn[w][k] = Unconnected
                                        ELSE child[conn[w][k].to] \in {"serving", "dead"}
          /\ worker[w].pc \in {"new", "waiting", "giving_up", "ready"} => call[w][k] = Idle
          /\ call[w][k].pc # "idle" => call[w][k].data \in Data
      BY DEF Routing, Connected
    <3>2. conn[w][k].to \in Workers \cup {Nothing}
      BY <1>1
    <3> QED
      BY <3>1, <3>2
  <2> QED
    BY <2>1 DEF Connected
<1>4. Free'
  <2>1. ASSUME NEW p \in Workers, NEW n \in Ids, n >= next'[p] PROVE clients'[p][n] = Nothing
    <3>1. n >= next[p] => clients[p][n] = Nothing
      BY DEF Routing, Free
    <3>2. \/ next'[p] = next[p] /\ clients'[p] = clients[p]
          \/ \A m \in Ids : clients'[p][m] = Nothing
      OBVIOUS
    <3> QED
      BY <2>1, <3>1, <3>2, Zenon
  <2> QED
    BY <2>1 DEF Free
<1>5. ASSUME NEW w \in Workers, NEW k \in Shards, Serving(conn[w][k].to)'
      PROVE  /\ Serving(conn[w][k].to)
             /\ next'[conn[w][k].to] = next[conn[w][k].to]
             /\ clients'[conn[w][k].to] = clients[conn[w][k].to]
  <2>1. conn[w][k].to \in Workers /\ child'[conn[w][k].to] = "serving" /\ conn[w][k].to # Nothing
    BY <1>1, <1>5 DEF Serving
  <2>2. child[conn[w][k].to] \in {"serving", "dead"}
    BY <2>1 DEF Routing, Connected
  <2> QED
    BY <2>1, <2>2 DEF Serving
<1>6. Numbers'
  BY <1>5, NumbersStay DEF Routing
<1>7. Differ'
  BY <1>5 DEF Routing, Differ
<1>8. Counted'
  <2>1. Registering' = Registering
    BY DEF Registering
  <2>2. ASSUME NEW p \in Workers PROVE next'[p] - 1 + Cardinality(Registering) <= made
    <3>1. next[p] - 1 + Cardinality(Registering) <= made /\ Cardinality(Registering) \in Nat
      BY FS_CardinalityType DEF Routing, Counted
    <3>2. next[p] \in Nat \ {0} /\ (next'[p] = next[p] \/ next'[p] = 1) /\ made \in Nat
      BY <1>1
    <3> QED
      BY <3>1, <3>2, CountFromOne
  <2> QED
    BY <2>1, <2>2 DEF Routing, Counted
<1>9. CallRunsWithOwnData'
  BY DEF Routing, CallRunsWithOwnData
<1> QED
  BY <1>2, <1>3, <1>4, <1>6, <1>7, <1>8, <1>9 DEF Routing

\* Where no call is under way, a connection is made, made anew or let go.
LEMMA ConnRouting ==
    ASSUME Routing, UNCHANGED <<child, next, clients, call, made>>,
           conn' \in [Workers -> [Shards -> ConnRecords]],
           \A w \in Workers :
              worker'[w].pc \in {"new", "waiting", "giving_up", "ready"}
                 => worker[w].pc \in {"new", "waiting", "giving_up", "ready"},
           \A w \in Workers, k \in Shards :
              \/ conn'[w][k] = conn[w][k]
              \/ /\ call[w][k].pc \in {"idle", "ran"}
                 /\ conn'[w][k].cache = [d \in Data |-> 0]
                 /\ conn'[w][k] = Unconnected \/ Serving(conn'[w][k].to)
    PROVE  Routing'
<1>1. RouterTypes'
  BY DEF Routing, RouterTypes
<1>2. Connected'
  <2>1. Unconnected.to = Nothing
    BY DEF Unconnected
  <2> QED
    BY <2>1 DEF Routing, Connected, Serving
<1>3. Free' /\ CallRunsWithOwnData'
  BY DEF Routing, Free, CallRunsWithOwnData
<1>4. Numbers'
  <2>1. ASSUME NEW w \in Workers, NEW k \in Shards, Serving(conn[w][k].to)'
        PROVE  (Cached(conn[w][k].to, conn[w][k].cache) /\ Taken(conn[w][k].to, call[w][k]))'
    <3>1. CASE conn'[w][k] = conn[w][k]
      <4>1. Serving(conn[w][k].to)
        BY <2>1, <3>1 DEF Serving
      <4>2. Cached(conn[w][k].to, conn[w][k].cache) /\ Taken(conn[w][k].to, call[w][k])
        BY <4>1 DEF Routing, Numbers
      <4> QED
        BY <3>1, <4>2 DEF Cached, Taken
    <3>2. CASE call[w][k].pc \in {"idle", "ran"} /\ conn'[w][k].cache = [d \in Data |-> 0]
      BY <3>2 DEF Cached, Taken
    <3> QED
      BY <3>1, <3>2
  <2> QED
    BY <2>1 DEF Numbers
<1>5. Differ'
  BY DEF Routing, Differ, Serving
<1>6. Counted'
  BY DEF Routing, Counted, Registering
<1> QED
  BY <1>1, <1>2, <1>3, <1>4, <1>5, <1>6 DEF Routing

\* Workers and children start and end.
LEMMA LifeRouting ==
    ASSUME PInv, Routing, NEW w \in Workers,
           \/ ChildUnlinks(w) \/ ChildBinds(w) \/ ChildDies(w) \/ Spawn(w)
           \/ LookForFile(w) \/ GiveUp(w) \/ Started(w) \/ Stop(w) \/ KillChild(w)
    PROVE  Routing'
<1>1. /\ worker \in [Workers -> [pc : WorkerPcs, path : Addrs, tries : 0..(MaxTries + 1)]]
      /\ child \in [Workers -> ChildStates]
      /\ next \in [Workers -> Nat \ {0}] /\ clients \in [Workers -> [Ids -> Data \cup {Nothing}]]
  BY DEF PInv, ProcTypes, Routing, RouterTypes
<1>2. UNCHANGED <<conn, call, made>>
  BY DEF ChildUnlinks, ChildBinds, ChildDies, Spawn, LookForFile, GiveUp, Started, Stop, KillChild,
         callVars
<1>3. CASE ChildDies(w) \/ GiveUp(w) \/ KillChild(w)
  <2>1. /\ child' = [child EXCEPT ![w] = "dead"] /\ next' = [next EXCEPT ![w] = 1]
        /\ clients' = [clients EXCEPT ![w] = [n \in Ids |-> Nothing]]
        /\ \/ worker' = worker
           \/ worker' = [worker EXCEPT ![w].pc = "gone"]
           \/ worker' = [worker EXCEPT ![w].pc = "killed"]
    BY <1>3 DEF ChildDies, GiveUp, KillChild, Ends
  <2>2. next' \in [Workers -> Nat \ {0}] /\ clients' \in [Workers -> [Ids -> Data \cup {Nothing}]]
    BY <1>1, <2>1
  <2>3. \A v \in Workers : worker'[v].pc \in {worker[v].pc, "gone", "killed"}
    BY <1>1, <2>1
  <2>4. ASSUME NEW v \in Workers
        PROVE  /\ child[v] \in {"serving", "dead"} => child'[v] \in {child[v], "dead"}
               /\ \/ next'[v] = next[v] /\ clients'[v] = clients[v]
                  \/ /\ next'[v] = 1 /\ child'[v] = "dead"
                     /\ \A n \in Ids : clients'[v][n] = Nothing
    BY <1>1, <2>1
  <2> QED
    BY <1>2, <2>2, <2>3, <2>4, ProcessRouting
<1>4. CASE \/ ChildUnlinks(w) \/ ChildBinds(w) \/ Spawn(w) \/ LookForFile(w) \/ Started(w) \/ Stop(w)
  <2>1. next' = next /\ clients' = clients
    BY <1>4 DEF ChildUnlinks, ChildBinds, Spawn, LookForFile, Started, Stop, routerVars
  <2>2. \A v \in Workers : child[v] \in {"serving", "dead"} => child'[v] = child[v]
    <3>1. Spawn(w) => child[w] = "none"
      BY DEF Spawn, PInv, Lifetimes
    <3> QED
      BY <1>1, <1>4, <3>1 DEF ChildUnlinks, ChildBinds, Spawn, LookForFile, Started, Stop
  <2>3. \A v \in Workers : worker'[v].pc \in {"new", "waiting", "giving_up", "ready"}
                              => worker[v].pc \in {"new", "waiting", "giving_up", "ready"}
    <3>1. CASE ChildUnlinks(w) \/ ChildBinds(w)
      BY <3>1 DEF ChildUnlinks, ChildBinds
    <3>2. CASE Spawn(w) \/ Started(w) \/ Stop(w)
      <4>1. PICK p \in {"waiting", "running", "stopping"} :
               /\ worker' = [worker EXCEPT ![w].pc = p]
               /\ p = "waiting" => worker[w].pc = "new"
        BY <3>2 DEF Spawn, Started, Stop, At
      <4>2. \A v \in Workers : worker'[v].pc = IF v = w THEN p ELSE worker[v].pc
        BY <1>1, <4>1
      <4> QED
        BY <4>1, <4>2
    <3>3. CASE LookForFile(w)
      <4>1. /\ worker[w].pc = "waiting"
            /\ \/ worker' = [worker EXCEPT ![w].pc = "ready"]
               \/ worker' = [worker EXCEPT ![w].pc = "giving_up"]
               \/ worker' = [worker EXCEPT ![w].tries = @ + 1]
        BY <3>3 DEF LookForFile, At
      <4> QED
        BY <1>1, <4>1
    <3> QED
      BY <1>4, <3>1, <3>2, <3>3
  <2> QED
    BY <1>1, <1>2, <2>1, <2>2, <2>3, ProcessRouting
<1> QED
  BY <1>3, <1>4

\* Connections are made while no call is under way on them.
LEMMA ConnectRouting ==
    ASSUME PInv, Routing,
           \/ \E w \in Workers, k \in Shards : Connect(w, k)
           \/ \E w \in Workers : Restart(w) \/ RemoveFile(w)
           \/ DaemonDies
    PROVE  Routing'
<1>1. /\ worker \in [Workers -> [pc : WorkerPcs, path : Addrs, tries : 0..(MaxTries + 1)]]
      /\ conn \in [Workers -> [Shards -> ConnRecords]] /\ file \in [Addrs -> Workers \cup {Nothing}]
      /\ \A w \in Workers : file[Path(w)] \in Workers \cup {Nothing}
  <2>1. /\ worker \in [Workers -> [pc : WorkerPcs, path : Addrs, tries : 0..(MaxTries + 1)]]
        /\ conn \in [Workers -> [Shards -> ConnRecords]] /\ file \in [Addrs -> Workers \cup {Nothing}]
    BY DEF PInv, ProcTypes, Routing, RouterTypes
  <2> QED
    BY <2>1 DEF Path
<1>2. /\ Unconnected \in ConnRecords /\ Unconnected.cache = [d \in Data |-> 0]
      /\ \A p \in Workers \cup {Nothing} : /\ [Unconnected EXCEPT !.to = p] \in ConnRecords
                                         /\ [Unconnected EXCEPT !.to = p].to = p
                                         /\ [Unconnected EXCEPT !.to = p].cache = [d \in Data |-> 0]
  BY DEF Unconnected, ConnRecords
<1>3. ASSUME NEW w \in Workers, NEW k \in Shards, Connect(w, k) PROVE Routing'
  <2>1. /\ worker[w].pc = "ready" /\ conn[w][k].to = Nothing
        /\ UNCHANGED <<child, next, clients, call, made>>
    BY <1>3 DEF Connect, At, routerVars, callVars
  <2>2. conn[w][k] = Unconnected /\ call[w][k].pc = "idle"
    BY <2>1 DEF Routing, Connected, Idle
  <2>3. CASE Serving(file[Path(w)])
    <3>1. /\ conn' = [conn EXCEPT ![w][k].to = file[Path(w)]] /\ worker' = worker
      BY <1>3, <2>3 DEF Connect
    <3>2. /\ conn'[w][k] = [Unconnected EXCEPT !.to = file[Path(w)]]
          /\ \A v \in Workers, j \in Shards : v # w \/ j # k => conn'[v][j] = conn[v][j]
      BY <1>1, <2>2, <3>1
    <3>3. conn' \in [Workers -> [Shards -> ConnRecords]]
      <4>1. conn' = [v \in Workers |-> [j \in Shards |-> conn'[v][j]]]
        BY <1>1, <3>1
      <4>2. ASSUME NEW v \in Workers, NEW j \in Shards PROVE conn'[v][j] \in ConnRecords
        <5>1. file[Path(w)] \in Workers \cup {Nothing} /\ conn[v][j] \in ConnRecords
          BY <1>1
        <5>2. CASE v = w /\ j = k
          BY <1>2, <3>2, <4>2, <5>1, <5>2
        <5>3. CASE v # w \/ j # k
          BY <3>2, <5>1, <5>3
        <5> QED
          BY <5>2, <5>3
      <4> QED
        BY <4>1, <4>2
    <3>4. ASSUME NEW v \in Workers, NEW j \in Shards
          PROVE  \/ conn'[v][j] = conn[v][j]
                 \/ /\ call[v][j].pc \in {"idle", "ran"}
                    /\ conn'[v][j].cache = [d \in Data |-> 0]
                    /\ conn'[v][j] = Unconnected \/ Serving(conn'[v][j].to)
      <4>1. CASE v = w /\ j = k
        <5>1. conn'[v][j] = [Unconnected EXCEPT !.to = file[Path(w)]]
          BY <3>2, <4>1
        <5> QED
          BY <1>1, <1>2, <2>2, <2>3, <4>1, <5>1
      <4>2. CASE v # w \/ j # k
        BY <3>2, <4>2
      <4> QED
        BY <4>1, <4>2
    <3> QED
      BY <2>1, <3>1, <3>3, <3>4, ConnRouting
  <2>4. CASE ~Serving(file[Path(w)])
    <3>1. worker' = [worker EXCEPT ![w].pc = "stopping"] /\ conn' = conn
      BY <1>3, <2>4 DEF Connect
    <3>2. \A v \in Workers : worker'[v].pc \in {worker[v].pc, "stopping"}
      BY <1>1, <3>1
    <3> QED
      BY <1>1, <2>1, <3>1, <3>2, ConnRouting
  <2> QED
    BY <2>3, <2>4
<1>4. ASSUME NEW w \in Workers, Restart(w) PROVE Routing'
  <2>1. /\ \A k \in Shards : call[w][k].pc \in {"idle", "ran"}
        /\ Serving(file[Path(w)])
        /\ conn' = [conn EXCEPT ![w] = [k \in Shards |-> [Unconnected EXCEPT !.to = file[Path(w)]]]]
        /\ UNCHANGED <<worker, child, next, clients, call, made>>
    BY <1>4 DEF Restart, procVars, routerVars, callVars
  <2>2. conn' \in [Workers -> [Shards -> ConnRecords]]
    BY <1>1, <1>2, <2>1
  <2>3. \A v \in Workers, j \in Shards :
              \/ conn'[v][j] = conn[v][j]
              \/ /\ call[v][j].pc \in {"idle", "ran"}
                 /\ conn'[v][j].cache = [d \in Data |-> 0]
                 /\ Serving(conn'[v][j].to)
    BY <1>1, <1>2, <2>1
  <2> QED
    BY <2>1, <2>2, <2>3, ConnRouting
<1>5. ASSUME NEW w \in Workers, RemoveFile(w) PROVE Routing'
  <2>1. /\ worker' = [worker EXCEPT ![w].pc = "gone"]
        /\ conn' = [conn EXCEPT ![w] = [k \in Shards |->
                       IF call[w][k].pc \in {"idle", "ran"} THEN Unconnected ELSE conn[w][k]]]
        /\ UNCHANGED <<child, next, clients, call, made>>
    BY <1>5 DEF RemoveFile, routerVars, callVars
  <2>2. conn' \in [Workers -> [Shards -> ConnRecords]]
    BY <1>1, <1>2, <2>1
  <2>3. \A v \in Workers, j \in Shards :
              \/ conn'[v][j] = conn[v][j]
              \/ call[v][j].pc \in {"idle", "ran"} /\ conn'[v][j] = Unconnected
    BY <1>1, <2>1
  <2>4. \A v \in Workers : worker'[v].pc \in {worker[v].pc, "gone"}
    BY <1>1, <2>1
  <2> QED
    BY <1>2, <2>1, <2>2, <2>3, <2>4, ConnRouting
<1>6. CASE DaemonDies
  <2>1. /\ conn' = [w \in Workers |-> [k \in Shards |-> Unconnected]]
        /\ call' = [w \in Workers |-> [k \in Shards |-> Idle]]
        /\ UNCHANGED <<child, next, clients, made>>
    BY <1>6 DEF DaemonDies, routerVars
  <2>2. RouterTypes'
    <3>1. Idle \in CallRecords
      BY DEF Idle, CallRecords, CallPcs
    <3> QED
      BY <1>2, <2>1, <3>1 DEF Routing, RouterTypes
  <2>3. \A w \in Workers, k \in Shards :
           /\ conn'[w][k] = Unconnected /\ conn'[w][k].to = Nothing
           /\ call'[w][k] = Idle /\ call'[w][k].pc = "idle" /\ ~Serving(conn[w][k].to)'
    BY <2>1 DEF Unconnected, Idle, Serving
  <2>4. Connected'
    BY <2>3 DEF Connected
  <2>5. Free' /\ Numbers' /\ Differ' /\ CallRunsWithOwnData'
    <3>1. Free'
      BY <2>1 DEF Routing, Free
    <3>2. Numbers' /\ Differ'
      BY <2>3 DEF Numbers, Differ, Serving
    <3>3. CallRunsWithOwnData'
      BY <2>3 DEF CallRunsWithOwnData
    <3> QED
      BY <3>1, <3>2, <3>3
  <2>6. Counted'
    <3>1. Registering' = {}
      BY <2>3 DEF Registering
    <3>2. IsFiniteSet({}) /\ Cardinality({}) = 0
      BY FS_EmptySet
    <3>3. ASSUME NEW p \in Workers PROVE next[p] - 1 + 0 <= made
      <4>1. next[p] \in Nat /\ made \in Nat /\ Cardinality(Registering) \in Nat
            /\ next[p] - 1 + Cardinality(Registering) <= made
        BY FS_CardinalityType DEF Routing, RouterTypes, Counted
      <4> QED
        BY <4>1
    <3> QED
      BY <2>1, <3>1, <3>2, <3>3 DEF Counted
  <2> QED
    BY <2>2, <2>4, <2>5, <2>6 DEF Routing
<1> QED
  BY <1>3, <1>4, <1>5, <1>6

\* The record of the call of worker w's shard k becomes r, and no other call moves.
OneCall(w, k, r) ==
    /\ call' \in [Workers -> [Shards -> CallRecords]] /\ call'[w][k] = r
    /\ \A v \in Workers, j \in Shards : v # w \/ j # k => call'[v][j] = call[v][j]

\* A step of one call changes the record of that call alone.
LEMMA OneCallChanges ==
    ASSUME RouterTypes, NEW w \in Workers, NEW k \in Shards, NEW r \in CallRecords,
           call' = [call EXCEPT ![w][k] = r]
    PROVE  OneCall(w, k, r)
<1>1. call \in [Workers -> [Shards -> CallRecords]]
  BY DEF RouterTypes
<1>2. /\ call'[w][k] = r
      /\ \A v \in Workers, j \in Shards : v # w \/ j # k => call'[v][j] = call[v][j]
  BY <1>1
<1>3. call' = [v \in Workers |-> [j \in Shards |-> call'[v][j]]]
  BY <1>1
<1>4. ASSUME NEW v \in Workers, NEW j \in Shards PROVE call'[v][j] \in CallRecords
  <2>1. call[v][j] \in CallRecords
    BY <1>1
  <2> QED
    BY <1>2, <2>1
<1> QED
  BY <1>2, <1>3, <1>4 DEF OneCall

\* What a call that asks for a number does to those that have yet to ask.
LEMMA AskersCounted ==
    ASSUME NEW R, IsFiniteSet(R), NEW e
    PROVE  /\ Cardinality(R) \in Nat
           /\ IsFiniteSet(R \cup {e}) /\ Cardinality(R \cup {e}) \in Nat
           /\ Cardinality(R \cup {e}) <= Cardinality(R) + 1
           /\ IsFiniteSet(R \ {e}) /\ Cardinality(R \ {e}) \in Nat
           /\ Cardinality(R \ {e}) <= Cardinality(R)
           /\ e \in R => Cardinality(R \ {e}) = Cardinality(R) - 1
BY FS_AddElement, FS_RemoveElement, FS_CardinalityType

\* A call begins with the number its connection has cached, or without one.
LEMMA BeginRouting ==
    ASSUME TypeOK, Routing, NEW w \in Workers, NEW k \in Shards, NEW d \in Data, BeginCall(w, k, d)
    PROVE  Routing'
<1> DEFINE n == conn[w][k].cache[d]
           r == [pc |-> IF n = 0 THEN "registering" ELSE "calling",
                 data |-> d, id |-> n, ran |-> Nothing]
<1>1. /\ conn \in [Workers -> [Shards -> ConnRecords]] /\ made \in 0..MaxCalls /\ made < MaxCalls
      /\ next \in [Workers -> Nat \ {0}] /\ made' = made + 1 /\ call' = [call EXCEPT ![w][k] = r]
      /\ UNCHANGED <<worker, child, next, clients, conn>>
      /\ worker[w].pc \in {"running", "stopping", "killed"} /\ call[w][k].pc \in {"idle", "ran"}
  BY DEF Routing, RouterTypes, BeginCall, procVars, routerVars
<1>2. n \in Ids \cup {0} /\ r \in CallRecords
  <2>1. conn[w][k] \in ConnRecords
    BY <1>1
  <2>2. n \in Ids \cup {0}
    BY <2>1 DEF ConnRecords
  <2> QED
    BY <2>2 DEF CallRecords, CallPcs
<1>3. /\ r.pc = (IF n = 0 THEN "registering" ELSE "calling") /\ r.data = d /\ r.id = n
      /\ r.pc # "ran" /\ r.pc # "numbered" /\ r.pc # "idle"
  OBVIOUS
<1>c. r.pc = "calling" => /\ n # 0
                          /\ Serving(conn[w][k].to) => clients[conn[w][k].to][n] = d
  BY DEF Routing, Numbers, Cached
<1>g. r.pc = "registering" \/ r.pc = "calling"
  OBVIOUS
<1> HIDE DEF r
<1>4. /\ call' \in [Workers -> [Shards -> CallRecords]] /\ call'[w][k] = r
      /\ \A v \in Workers, j \in Shards : v # w \/ j # k => call'[v][j] = call[v][j]
  <2>1. RouterTypes
    BY DEF Routing
  <2>2. PICK q : q = r
    OBVIOUS
  <2>3. q \in CallRecords /\ call' = [call EXCEPT ![w][k] = q]
    BY <1>1, <1>2, <2>2
  <2>4. OneCall(w, k, q)
    BY <2>1, <2>3, OneCallChanges
  <2> QED
    BY <2>2, <2>4 DEF OneCall
<1>5. RouterTypes'
  BY <1>1, <1>4 DEF Routing, RouterTypes
<1>6. Connected'
  <2>1. ASSUME NEW v \in Workers, NEW j \in Shards
        PROVE  /\ worker[v].pc \in {"new", "waiting", "giving_up", "ready"} => call'[v][j] = Idle
               /\ call'[v][j].pc # "idle" => call'[v][j].data \in Data
    BY <1>1, <1>3, <1>4 DEF Routing, Connected
  <2> QED
    BY <1>1, <2>1 DEF Routing, Connected
<1>7. Free'
  BY <1>1 DEF Routing, Free
<1>8. Numbers'
  <2>1. ASSUME NEW v \in Workers, NEW j \in Shards, Serving(conn[v][j].to)'
        PROVE  (Cached(conn[v][j].to, conn[v][j].cache) /\ Taken(conn[v][j].to, call[v][j]))'
    <3>1. Serving(conn[v][j].to) /\ UNCHANGED <<next, clients, conn>>
      BY <1>1, <2>1 DEF Serving
    <3>2. Cached(conn[v][j].to, conn[v][j].cache) /\ Taken(conn[v][j].to, call[v][j])
      BY <3>1 DEF Routing, Numbers
    <3>3. Cached(conn[v][j].to, conn[v][j].cache)'
      BY <3>1, <3>2 DEF Cached
    <3>4. Taken(conn[v][j].to, call[v][j])'
      <4>1. CASE v = w /\ j = k
        BY <1>3, <1>c, <1>4, <3>1, <4>1 DEF Taken
      <4>2. CASE v # w \/ j # k
        BY <1>4, <3>1, <3>2, <4>2 DEF Taken
      <4> QED
        BY <4>1, <4>2
    <3> QED
      BY <3>3, <3>4
  <2> QED
    BY <2>1 DEF Numbers
<1>9. Differ'
  BY <1>1, <1>3, <1>4 DEF Routing, Differ, Serving
<1>10. Counted'
  <2>1. Registering' = Registering \cup {<<w, k>>} \/ Registering' = Registering
    <3>1. CASE r.pc = "registering"
      BY <1>4, <3>1 DEF Registering
    <3>2. CASE r.pc = "calling"
      BY <1>1, <1>4, <3>2 DEF Registering
    <3> QED
      BY <1>g, <3>1, <3>2
  <2>2. /\ IsFiniteSet(Registering') /\ Cardinality(Registering') \in Nat
        /\ Cardinality(Registering) \in Nat
        /\ Cardinality(Registering') <= Cardinality(Registering) + 1
    <3>1. IsFiniteSet(Registering)
      BY DEF Routing, Counted
    <3>2. /\ Cardinality(Registering) \in Nat
          /\ IsFiniteSet(Registering \cup {<<w, k>>}) /\ Cardinality(Registering \cup {<<w, k>>}) \in Nat
          /\ Cardinality(Registering \cup {<<w, k>>}) <= Cardinality(Registering) + 1
      BY <3>1, AskersCounted
    <3>3. CASE Registering' = Registering \cup {<<w, k>>}
      BY <3>2, <3>3
    <3>4. CASE Registering' = Registering
      BY <3>1, <3>2, <3>4
    <3> QED
      BY <2>1, <3>3, <3>4
  <2>3. ASSUME NEW p \in Workers PROVE next[p] - 1 + Cardinality(Registering') <= made + 1
    <3>1. next[p] \in Nat /\ made \in Nat /\ next[p] - 1 + Cardinality(Registering) <= made
      BY <1>1 DEF Routing, Counted
    <3> QED
      BY <2>2, <3>1
  <2> QED
    BY <1>1, <2>2, <2>3 DEF Counted
<1>11. CallRunsWithOwnData'
  BY <1>3, <1>4 DEF Routing, CallRunsWithOwnData
<1> QED
  BY <1>5, <1>6, <1>7, <1>8, <1>9, <1>10, <1>11 DEF Routing

\* The router gives out the next number: nothing is registered as it, and no
\* other call has it.
LEMMA TakeRouting ==
    ASSUME TypeOK, Routing, NEW w \in Workers, NEW k \in Shards, TakeId(w, k)
    PROVE  Routing'
<1> DEFINE p == conn[w][k].to
           c == call[w][k]
           r == [c EXCEPT !.pc = "numbered", !.id = next[p]]
<1>1. /\ conn \in [Workers -> [Shards -> ConnRecords]] /\ made \in 0..MaxCalls
      /\ call \in [Workers -> [Shards -> CallRecords]] /\ c \in CallRecords
      /\ next \in [Workers -> Nat \ {0}] /\ c.pc = "registering" /\ Serving(p)
      /\ p \in Workers
  <2>1. /\ conn \in [Workers -> [Shards -> ConnRecords]] /\ made \in 0..MaxCalls
        /\ call \in [Workers -> [Shards -> CallRecords]] /\ next \in [Workers -> Nat \ {0}]
        /\ c.pc = "registering" /\ Serving(p)
    BY DEF Routing, RouterTypes, TakeId, Handled
  <2>2. c \in CallRecords /\ conn[w][k] \in ConnRecords
    BY <2>1
  <2>3. p \in Workers
    BY <2>1, <2>2 DEF Serving, ConnRecords
  <2> QED
    BY <2>1, <2>2, <2>3
<1>2. /\ call' = [call EXCEPT ![w][k] = r] /\ next' = [next EXCEPT ![p] = next[p] + 1]
      /\ UNCHANGED <<worker, child, clients, conn, made>>
  BY <1>1 DEF TakeId, procVars
<1>3. /\ IsFiniteSet(Registering) /\ <<w, k>> \in Registering
      /\ Cardinality(Registering) \in Nat
      /\ Registering \ {<<w, k>>} \in SUBSET Registering
      /\ IsFiniteSet(Registering \ {<<w, k>>})
      /\ Cardinality(Registering \ {<<w, k>>}) = Cardinality(Registering) - 1
      /\ Cardinality(Registering \ {<<w, k>>}) \in Nat
  <2>1. IsFiniteSet(Registering) /\ <<w, k>> \in Registering
    BY <1>1 DEF Routing, Counted, Registering
  <2> QED
    BY <2>1, AskersCounted
<1>4. next[p] \in Ids
  <2>1. next[p] - 1 + Cardinality(Registering) <= made /\ next[p] \in Nat \ {0}
    BY <1>1 DEF Routing, Counted
  <2>2. Cardinality(Registering) >= 1
    BY <1>3
  <2> QED
    BY <1>1, <1>3, <2>1, <2>2 DEF Ids
<1>5. /\ r \in CallRecords /\ r.pc = "numbered" /\ r.id = next[p] /\ r.data = c.data
  BY <1>1, <1>4 DEF CallRecords, CallPcs
<1> HIDE DEF r
<1>6. /\ call' \in [Workers -> [Shards -> CallRecords]] /\ call'[w][k] = r
      /\ \A v \in Workers, j \in Shards : v # w \/ j # k => call'[v][j] = call[v][j]
  <2>1. RouterTypes
    BY DEF Routing
  <2>2. PICK q : q = r
    OBVIOUS
  <2>3. q \in CallRecords /\ call' = [call EXCEPT ![w][k] = q]
    BY <1>2, <1>5, <2>2
  <2>4. OneCall(w, k, q)
    BY <2>1, <2>3, OneCallChanges
  <2> QED
    BY <2>2, <2>4 DEF OneCall
<1>7. /\ next' \in [Workers -> Nat \ {0}] /\ next'[p] = next[p] + 1
      /\ \A q \in Workers : q # p => next'[q] = next[q]
      /\ \A q \in Workers : next[q] \in Nat \ {0} /\ next'[q] >= next[q]
  BY <1>1, <1>2
<1>8. RouterTypes'
  BY <1>2, <1>6, <1>7 DEF Routing, RouterTypes
<1>9. Connected'
  <2>1. ASSUME NEW v \in Workers, NEW j \in Shards
        PROVE  /\ worker[v].pc \in {"new", "waiting", "giving_up", "ready"} => call'[v][j] = Idle
               /\ call'[v][j].pc # "idle" => call'[v][j].data \in Data
    <3>1. CASE v = w /\ j = k
      <4>1. c.pc # "idle" /\ Idle.pc = "idle" /\ c.data = r.data
        BY <1>1, <1>5 DEF Idle
      <4>2. c.data \in Data /\ worker[w].pc \notin {"new", "waiting", "giving_up", "ready"}
        BY <4>1 DEF Routing, Connected
      <4> QED
        BY <1>5, <1>6, <3>1, <4>1, <4>2
    <3>2. CASE v # w \/ j # k
      BY <1>6, <3>2 DEF Routing, Connected
    <3> QED
      BY <3>1, <3>2
  <2> QED
    BY <1>2, <2>1 DEF Routing, Connected
<1>10. Free'
  <2>1. ASSUME NEW q \in Workers, NEW n \in Ids, n >= next'[q] PROVE n >= next[q]
    BY <1>7, <2>1 DEF Ids
  <2> QED
    BY <1>2, <2>1 DEF Routing, Free
<1>11. Numbers'
  <2>1. ASSUME NEW v \in Workers, NEW j \in Shards, Serving(conn[v][j].to)'
        PROVE  (Cached(conn[v][j].to, conn[v][j].cache) /\ Taken(conn[v][j].to, call[v][j]))'
    <3>1. Serving(conn[v][j].to) /\ UNCHANGED <<clients, conn>>
      BY <1>2, <2>1 DEF Serving
    <3>2. Cached(conn[v][j].to, conn[v][j].cache) /\ Taken(conn[v][j].to, call[v][j])
      BY <3>1 DEF Routing, Numbers
    <3>3. Cached(conn[v][j].to, conn[v][j].cache)'
      BY <3>1, <3>2 DEF Cached
    <3>4. CASE v = w /\ j = k
      <4>1. clients[p][next[p]] = Nothing
        BY <1>1, <1>4 DEF Routing, Free, Ids
      <4>2. next[p] \in 1..(next'[p] - 1)
        BY <1>1, <1>7
      <4>3. Taken(conn[v][j].to, call[v][j])'
        BY <1>5, <1>6, <3>1, <3>4, <4>1, <4>2 DEF Taken
      <4> QED
        BY <3>3, <4>3
    <3>5. CASE v # w \/ j # k
      <4>1. call'[v][j] = call[v][j]
        BY <1>6, <3>5
      <4>2. conn[v][j].to \in Workers
        <5>1. conn[v][j] \in ConnRecords
          BY <1>1
        <5> QED
          BY <3>1, <5>1 DEF Serving, ConnRecords
      <4>3. \A n : n \in 1..(next[conn[v][j].to] - 1) => n \in 1..(next'[conn[v][j].to] - 1)
        BY <1>7, <4>2
      <4>4. Taken(conn[v][j].to, call[v][j])'
        BY <3>1, <3>2, <4>1, <4>3 DEF Taken
      <4> QED
        BY <3>3, <4>4
    <3> QED
      BY <3>4, <3>5
  <2> QED
    BY <2>1 DEF Numbers
<1>12. Differ'
  <2>1. ASSUME NEW v \in Workers, NEW j \in Shards, v # w \/ j # k,
               call[v][j].pc = "numbered", conn[v][j].to = p
        PROVE  call[v][j].id # next[p]
    <3>1. call[v][j].id \in 1..(next[p] - 1)
      BY <1>1, <2>1 DEF Routing, Numbers, Taken
    <3> QED
      BY <1>1, <3>1
  <2>2. ASSUME NEW v \in Workers, NEW u \in Workers, NEW j \in Shards, NEW i \in Shards,
               call'[v][j].pc = "numbered", call'[u][i].pc = "numbered",
               conn[v][j].to = conn[u][i].to, Serving(conn[u][i].to),
               call'[v][j].id = call'[u][i].id
        PROVE  v = u /\ j = i
    <3>1. CASE v = w /\ j = k
      BY <1>5, <1>6, <2>1, <2>2, <3>1
    <3>2. CASE u = w /\ i = k
      BY <1>5, <1>6, <2>1, <2>2, <3>2
    <3>3. CASE (v # w \/ j # k) /\ (u # w \/ i # k)
      <4>1. call'[v][j] = call[v][j] /\ call'[u][i] = call[u][i]
        BY <1>6, <3>3
      <4> QED
        BY <2>2, <4>1 DEF Routing, Differ
    <3> QED
      BY <3>1, <3>2, <3>3
  <2> QED
    BY <1>2, <2>2 DEF Differ, Serving
<1>13. Counted'
  <2>1. Registering' = Registering \ {<<w, k>>}
    BY <1>5, <1>6 DEF Registering
  <2>2. ASSUME NEW q \in Workers PROVE next'[q] - 1 + Cardinality(Registering') <= made
    <3>1. /\ next[q] \in Nat /\ next[q] - 1 + Cardinality(Registering) <= made
          /\ next'[q] = next[q] \/ next'[q] = next[q] + 1
      BY <1>1, <1>7 DEF Routing, Counted
    <3>2. Cardinality(Registering') = Cardinality(Registering) - 1 /\ Cardinality(Registering) \in Nat
      BY <1>3, <2>1
    <3> QED
      BY <1>1, <3>1, <3>2
  <2> QED
    BY <1>2, <1>3, <2>1, <2>2 DEF Counted
<1>14. CallRunsWithOwnData'
  BY <1>5, <1>6 DEF Routing, CallRunsWithOwnData
<1> QED
  BY <1>8, <1>9, <1>10, <1>11, <1>12, <1>13, <1>14 DEF Routing

\* The data is stored as the number of the call, which nothing else is stored
\* as and no other call goes with.
LEMMA InsertRouting ==
    ASSUME TypeOK, Routing, NEW w \in Workers, NEW k \in Shards, InsertClient(w, k)
    PROVE  Routing'
<1>0. ASSUME NEW r \in CallRecords, call' = [call EXCEPT ![w][k] = r]
      PROVE  OneCall(w, k, r)
  BY <1>0, OneCallChanges DEF Routing
<1>1. /\ conn \in [Workers -> [Shards -> ConnRecords]] /\ conn[w][k] \in ConnRecords
      /\ call \in [Workers -> [Shards -> CallRecords]] /\ call[w][k] \in CallRecords
      /\ next \in [Workers -> Nat \ {0}] /\ clients \in [Workers -> [Ids -> Data \cup {Nothing}]]
      /\ call[w][k].pc = "numbered" /\ Serving(conn[w][k].to) /\ Nothing \notin Data
  BY DEF Routing, RouterTypes, InsertClient, Handled
<1>2. PICK p \in Workers, n \in Ids, d \in Data :
         /\ p = conn[w][k].to /\ n = call[w][k].id /\ d = call[w][k].data
         /\ n \in 1..(next[p] - 1) /\ clients[p][n] = Nothing
  <2>1. /\ conn[w][k].to \in Workers /\ call[w][k].id \in Ids \cup {0}
        /\ call[w][k].data \in Data
    BY <1>1 DEF ConnRecords, CallRecords, Serving, Routing, Connected
  <2>2. /\ call[w][k].id \in 1..(next[conn[w][k].to] - 1)
        /\ clients[conn[w][k].to][call[w][k].id] = Nothing
    BY <1>1 DEF Routing, Numbers, Taken
  <2>3. call[w][k].id \in Ids
    BY <1>1, <2>1, <2>2
  <2> QED
    BY <2>1, <2>2, <2>3
<1>3. /\ clients' = [clients EXCEPT ![p][n] = d] /\ conn' = [conn EXCEPT ![w][k].cache[d] = n]
      /\ call' = [call EXCEPT ![w][k].pc = "calling"]
      /\ UNCHANGED <<worker, child, next, made>>
  BY <1>2 DEF InsertClient, procVars
<1>4. PICK r \in CallRecords : /\ r = [call[w][k] EXCEPT !.pc = "calling"]
                               /\ r.pc = "calling" /\ r.id = n /\ r.data = d
  <2>1. [call[w][k] EXCEPT !.pc = "calling"] \in CallRecords
    BY <1>1 DEF CallRecords, CallPcs
  <2> QED
    BY <1>1, <1>2, <2>1 DEF CallRecords
<1>5. /\ call' \in [Workers -> [Shards -> CallRecords]] /\ call'[w][k] = r
      /\ \A v \in Workers, j \in Shards : v # w \/ j # k => call'[v][j] = call[v][j]
  <2>1. r \in CallRecords /\ call' = [call EXCEPT ![w][k] = r]
    BY <1>3, <1>4
  <2>2. OneCall(w, k, r)
    BY <1>0, <2>1
  <2> QED
    BY <2>2 DEF OneCall
<1>6. /\ clients' \in [Workers -> [Ids -> Data \cup {Nothing}]] /\ clients'[p][n] = d
      /\ \A q \in Workers, m \in Ids : q # p \/ m # n => clients'[q][m] = clients[q][m]
  <2>1. /\ clients'[p][n] = d
        /\ \A q \in Workers, m \in Ids : q # p \/ m # n => clients'[q][m] = clients[q][m]
    BY <1>1, <1>3
  <2>2. clients' = [q \in Workers |-> [m \in Ids |-> clients'[q][m]]]
    BY <1>1, <1>3
  <2>3. \A q \in Workers, m \in Ids : clients'[q][m] \in Data \cup {Nothing}
    BY <1>1, <2>1
  <2> QED
    BY <2>1, <2>2, <2>3
<1>7. /\ conn' \in [Workers -> [Shards -> ConnRecords]]
      /\ conn'[w][k].to = p /\ conn'[w][k].cache = [conn[w][k].cache EXCEPT ![d] = n]
      /\ \A v \in Workers, j \in Shards : v # w \/ j # k => conn'[v][j] = conn[v][j]
  <2> DEFINE s == [conn[w][k] EXCEPT !.cache[d] = n]
  <2>1. /\ conn'[w][k] = s
        /\ \A v \in Workers, j \in Shards : v # w \/ j # k => conn'[v][j] = conn[v][j]
    BY <1>1, <1>3
  <2>2. s \in ConnRecords /\ s.to = p /\ s.cache = [conn[w][k].cache EXCEPT ![d] = n]
    BY <1>1, <1>2 DEF ConnRecords
  <2>3. conn' = [v \in Workers |-> [j \in Shards |-> conn'[v][j]]]
    BY <1>1, <1>3
  <2> HIDE DEF s
  <2>4. ASSUME NEW v \in Workers, NEW j \in Shards PROVE conn'[v][j] \in ConnRecords
    <3>1. conn[v][j] \in ConnRecords
      BY <1>1
    <3> QED
      BY <2>1, <2>2, <3>1
  <2> QED
    BY <2>1, <2>2, <2>3, <2>4
<1>8. \A v \in Workers, j \in Shards : conn'[v][j].to = conn[v][j].to
  BY <1>2, <1>7
<1>9. RouterTypes'
  BY <1>3, <1>5, <1>6, <1>7 DEF Routing, RouterTypes
<1>10. Connected'
  <2>1. ASSUME NEW v \in Workers, NEW j \in Shards
        PROVE  /\ conn'[v][j].to = Nothing => conn'[v][j] = Unconnected
               /\ conn'[v][j].to # Nothing => child[conn'[v][j].to] \in {"serving", "dead"}
               /\ worker[v].pc \in {"new", "waiting", "giving_up", "ready"} => call'[v][j] = Idle
               /\ call'[v][j].pc # "idle" => call'[v][j].data \in Data
    <3>1. CASE v = w /\ j = k
      <4>1. Idle.pc = "idle" /\ p # Nothing
        BY <1>1, <1>2 DEF Idle, Serving
      <4>2. worker[w].pc \notin {"new", "waiting", "giving_up", "ready"}
        BY <1>1, <4>1 DEF Routing, Connected
      <4>3. child[p] \in {"serving", "dead"}
        BY <1>1, <1>2 DEF Serving
      <4> QED
        BY <1>4, <1>5, <1>7, <3>1, <4>1, <4>2, <4>3
    <3>2. CASE v # w \/ j # k
      BY <1>5, <1>7, <3>2 DEF Routing, Connected
    <3> QED
      BY <3>1, <3>2
  <2> QED
    BY <1>3, <2>1 DEF Connected
<1>11. Free'
  <2>1. ASSUME NEW q \in Workers, NEW m \in Ids, m >= next[q] PROVE clients'[q][m] = Nothing
    <3>1. q # p \/ m # n
      BY <1>1, <1>2, <2>1 DEF Ids
    <3> QED
      BY <1>6, <2>1, <3>1 DEF Routing, Free
  <2> QED
    BY <1>3, <2>1 DEF Free
<1>12. Numbers'
  <2>1. ASSUME NEW v \in Workers, NEW j \in Shards, Serving(conn[v][j].to), v # w \/ j # k
        PROVE  (Cached(conn[v][j].to, conn[v][j].cache) /\ Taken(conn[v][j].to, call[v][j]))'
    <3>b. conn'[v][j] = conn[v][j] /\ call'[v][j] = call[v][j]
      BY <1>5, <1>7, <2>1
    <3>1. /\ conn[v][j] \in ConnRecords /\ call[v][j] \in CallRecords
          /\ conn[v][j].to \in Workers /\ call[v][j].id \in Ids \cup {0}
          /\ \A e \in Data : conn[v][j].cache[e] \in Ids \cup {0}
      BY <1>1, <2>1 DEF ConnRecords, CallRecords, Serving
    <3>a. Cached(conn[v][j].to, conn[v][j].cache) /\ Taken(conn[v][j].to, call[v][j])
      BY <2>1 DEF Routing, Numbers
    <3>2. ASSUME NEW e \in Data, conn[v][j].cache[e] # 0
          PROVE  clients'[conn[v][j].to][conn[v][j].cache[e]] = e
      <4>1. clients[conn[v][j].to][conn[v][j].cache[e]] = e /\ conn[v][j].cache[e] \in Ids
        BY <3>a, <3>1, <3>2 DEF Cached
      <4>2. conn[v][j].to # p \/ conn[v][j].cache[e] # n
        BY <1>1, <1>2, <4>1
      <4> QED
        BY <1>6, <3>1, <4>1, <4>2
    <3>3. ASSUME call[v][j].pc = "numbered"
          PROVE  /\ call[v][j].id \in 1..(next[conn[v][j].to] - 1)
                 /\ clients'[conn[v][j].to][call[v][j].id] = Nothing
      <4>1. /\ clients[conn[v][j].to][call[v][j].id] = Nothing
            /\ call[v][j].id \in 1..(next[conn[v][j].to] - 1)
        BY <3>a, <3>3 DEF Taken
      <4>2. conn[v][j].to # p \/ call[v][j].id # n
        BY <1>1, <1>2, <2>1, <3>3 DEF Routing, Differ
      <4>3. call[v][j].id \in Ids
        BY <1>1, <3>1, <4>1
      <4> QED
        BY <1>6, <3>1, <4>1, <4>2, <4>3
    <3>4. ASSUME call[v][j].pc = "calling"
          PROVE  /\ call[v][j].id # 0
                 /\ clients'[conn[v][j].to][call[v][j].id] = call[v][j].data
      <4>1. /\ clients[conn[v][j].to][call[v][j].id] = call[v][j].data
            /\ call[v][j].id # 0 /\ call[v][j].data \in Data
        BY <3>a, <3>4 DEF Taken, Routing, Connected
      <4>2. conn[v][j].to # p \/ call[v][j].id # n
        BY <1>1, <1>2, <4>1
      <4> QED
        BY <1>6, <3>1, <4>1, <4>2
    <3>5. \A e \in Data : conn[v][j].cache[e] # 0 =>
                              clients'[conn[v][j].to][conn[v][j].cache[e]] = e
      BY <3>2
    <3> QED
      BY <1>3, <3>3, <3>4, <3>5, <3>b DEF Cached, Taken
  <2>2. (Cached(conn[w][k].to, conn[w][k].cache) /\ Taken(conn[w][k].to, call[w][k]))'
    <3>1. ASSUME NEW e \in Data, conn'[w][k].cache[e] # 0
          PROVE  clients'[p][conn'[w][k].cache[e]] = e
      <4>1. conn[w][k].cache \in [Data -> Ids \cup {0}]
        BY <1>1 DEF ConnRecords
      <4>2. CASE e = d
        BY <1>6, <1>7, <4>1, <4>2
      <4>3. CASE e # d
        <5>1. conn'[w][k].cache[e] = conn[w][k].cache[e]
          BY <1>7, <4>1, <4>3
        <5>0. Cached(p, conn[w][k].cache)
          BY <1>1, <1>2 DEF Routing, Numbers
        <5>2. clients[p][conn[w][k].cache[e]] = e /\ conn[w][k].cache[e] \in Ids
          BY <3>1, <4>1, <5>0, <5>1 DEF Cached
        <5>3. conn[w][k].cache[e] # n
          BY <1>1, <1>2, <5>2
        <5> QED
          BY <1>6, <5>1, <5>2, <5>3
      <4> QED
        BY <4>2, <4>3
    <3>2. n # 0
      BY DEF Ids
    <3>3. Cached(conn[w][k].to, conn[w][k].cache)'
      BY <1>7, <3>1 DEF Cached
    <3>4. Taken(conn[w][k].to, call[w][k])'
      BY <1>4, <1>5, <1>6, <1>7, <3>2 DEF Taken
    <3> QED
      BY <3>3, <3>4
  <2>3. ASSUME NEW v \in Workers, NEW j \in Shards, Serving(conn[v][j].to)'
        PROVE  (Cached(conn[v][j].to, conn[v][j].cache) /\ Taken(conn[v][j].to, call[v][j]))'
    <3>1. CASE v = w /\ j = k
      BY <2>2, <3>1
    <3>2. CASE v # w \/ j # k
      <4>1. conn'[v][j] = conn[v][j]
        BY <1>7, <3>2
      <4>2. Serving(conn[v][j].to)
        BY <1>3, <2>3, <4>1 DEF Serving
      <4> QED
        BY <2>1, <3>2, <4>2
    <3> QED
      BY <3>1, <3>2
  <2> QED
    BY <2>3 DEF Numbers
<1>13. Differ'
  BY <1>3, <1>4, <1>5, <1>8 DEF Routing, Differ, Serving
<1>14. Counted'
  <2>1. Registering' = Registering
    <3>1. \A v \in Workers, j \in Shards :
             call'[v][j].pc = "registering" <=> call[v][j].pc = "registering"
      BY <1>1, <1>4, <1>5
    <3> QED
      BY <3>1 DEF Registering
  <2> QED
    BY <1>3, <2>1 DEF Routing, Counted
<1>15. CallRunsWithOwnData'
  <2>1. ASSUME NEW v \in Workers, NEW j \in Shards, call'[v][j].pc = "ran"
        PROVE  call'[v][j].ran = call'[v][j].data
    <3>1. call'[v][j] = call[v][j]
      BY <1>4, <1>5, <2>1
    <3> QED
      BY <2>1, <3>1 DEF Routing, CallRunsWithOwnData
  <2> QED
    BY <2>1 DEF CallRunsWithOwnData
<1> QED
  BY <1>9, <1>10, <1>11, <1>12, <1>13, <1>14, <1>15 DEF Routing

\* The method runs with the data registered as the number the call goes with,
\* or the call is lost.
LEMMA RunRouting ==
    ASSUME TypeOK, Routing, NEW w \in Workers, NEW k \in Shards,
           RunMethod(w, k) \/ CallLost(w, k)
    PROVE  Routing'
<1>1. /\ conn \in [Workers -> [Shards -> ConnRecords]] /\ conn[w][k] \in ConnRecords
      /\ call \in [Workers -> [Shards -> CallRecords]] /\ call[w][k] \in CallRecords
      /\ clients \in [Workers -> [Ids -> Data \cup {Nothing}]]
      /\ UNCHANGED <<worker, child, next, clients, conn, made>>
      /\ call[w][k].pc \notin {"idle", "ran"}
  BY DEF Routing, RouterTypes, RunMethod, CallLost, Handled, procVars, routerVars
<1>2. PICK r \in CallRecords :
         /\ call' = [call EXCEPT ![w][k] = r] /\ r.pc \in {"idle", "ran"}
         /\ r.pc = "ran" => r.ran = r.data /\ r.data \in Data
         /\ r = Idle \/ r.pc = "ran"
  <2>1. CASE RunMethod(w, k)
    <3>1. PICK p \in Workers, n \in Ids :
             /\ p = conn[w][k].to /\ n = call[w][k].id
             /\ call[w][k].data \in Data /\ clients[p][n] = call[w][k].data
      <4>1. Serving(conn[w][k].to) /\ call[w][k].pc = "calling"
        BY <2>1 DEF RunMethod, Handled
      <4>2. conn[w][k].to \in Workers /\ call[w][k].id \in Ids \cup {0}
        BY <1>1, <4>1 DEF ConnRecords, CallRecords, Serving
      <4> QED
        BY <4>1, <4>2 DEF Routing, Numbers, Taken, Connected
    <3> DEFINE r == [call[w][k] EXCEPT !.pc = "ran", !.ran = clients[p][n]]
    <3>2. call' = [call EXCEPT ![w][k] = r]
      BY <1>1, <2>1, <3>1 DEF RunMethod
    <3>3. r \in CallRecords /\ r.pc = "ran" /\ r.ran = r.data /\ r.data \in Data
      BY <1>1, <3>1 DEF CallRecords, CallPcs
    <3> HIDE DEF r
    <3> QED
      BY <3>2, <3>3
  <2>2. CASE CallLost(w, k)
    <3>1. Idle \in CallRecords /\ Idle.pc = "idle"
      BY DEF Idle, CallRecords, CallPcs
    <3> QED
      BY <2>2, <3>1 DEF CallLost
  <2> QED
    BY <2>1, <2>2
<1>3. /\ call' \in [Workers -> [Shards -> CallRecords]] /\ call'[w][k] = r
      /\ \A v \in Workers, j \in Shards : v # w \/ j # k => call'[v][j] = call[v][j]
  <2>1. RouterTypes /\ r \in CallRecords /\ call' = [call EXCEPT ![w][k] = r]
    BY <1>2 DEF Routing
  <2>2. OneCall(w, k, r)
    BY <2>1, OneCallChanges
  <2> QED
    BY <2>2 DEF OneCall
<1>4. RouterTypes'
  BY <1>1, <1>3 DEF Routing, RouterTypes
<1>5. Connected'
  <2>1. ASSUME NEW v \in Workers, NEW j \in Shards
        PROVE  /\ worker[v].pc \in {"new", "waiting", "giving_up", "ready"} => call'[v][j] = Idle
               /\ call'[v][j].pc # "idle" => call'[v][j].data \in Data
    <3>1. CASE v = w /\ j = k
      <4>1. Idle.pc = "idle"
        BY DEF Idle
      <4>2. worker[w].pc \notin {"new", "waiting", "giving_up", "ready"}
        BY <1>1, <4>1 DEF Routing, Connected
      <4> QED
        BY <1>2, <1>3, <3>1, <4>1, <4>2
    <3>2. CASE v # w \/ j # k
      BY <1>3, <3>2 DEF Routing, Connected
    <3> QED
      BY <3>1, <3>2
  <2> QED
    BY <1>1, <2>1 DEF Routing, Connected
<1>6. Free'
  BY <1>1 DEF Routing, Free
<1>7. \A v \in Workers, j \in Shards :
         call'[v][j].pc \in {"registering", "numbered", "calling"} => call'[v][j] = call[v][j]
  BY <1>2, <1>3
<1>8. Numbers'
  <2>1. \A v \in Workers, j \in Shards : Serving(conn[v][j].to)' => Serving(conn[v][j].to)
    BY <1>1 DEF Serving
  <2> QED
    BY <1>1, <1>7, <2>1, NumbersStay DEF Routing
<1>9. Differ'
  BY <1>1, <1>7 DEF Routing, Differ, Serving
<1>10. Counted'
  <2>1. Registering' \in {Registering, Registering \ {<<w, k>>}}
    BY <1>1, <1>2, <1>3 DEF Registering
  <2>2. /\ IsFiniteSet(Registering) /\ Cardinality(Registering) \in Nat
        /\ IsFiniteSet(Registering \ {<<w, k>>}) /\ Cardinality(Registering \ {<<w, k>>}) \in Nat
        /\ Cardinality(Registering \ {<<w, k>>}) <= Cardinality(Registering)
    <3>1. IsFiniteSet(Registering)
      BY DEF Routing, Counted
    <3> QED
      BY <3>1, AskersCounted
  <2>3. /\ IsFiniteSet(Registering') /\ Cardinality(Registering') \in Nat
        /\ Cardinality(Registering') <= Cardinality(Registering)
    BY <2>1, <2>2
  <2>4. ASSUME NEW p \in Workers PROVE next[p] - 1 + Cardinality(Registering') <= made
    <3>1. next[p] \in Nat /\ made \in Nat /\ next[p] - 1 + Cardinality(Registering) <= made
      BY DEF Routing, Counted, RouterTypes
    <3> QED
      BY <2>2, <2>3, <3>1
  <2> QED
    BY <1>1, <2>3, <2>4 DEF Counted
<1>11. CallRunsWithOwnData'
  <2>1. ASSUME NEW v \in Workers, NEW j \in Shards, call'[v][j].pc = "ran"
        PROVE  call'[v][j].ran = call'[v][j].data
    <3>1. CASE v = w /\ j = k
      BY <1>2, <1>3, <2>1, <3>1
    <3>2. CASE v # w \/ j # k
      BY <1>3, <2>1, <3>2 DEF Routing, CallRunsWithOwnData
    <3> QED
      BY <3>1, <3>2
  <2> QED
    BY <2>1 DEF CallRunsWithOwnData
<1> QED
  BY <1>4, <1>5, <1>6, <1>8, <1>9, <1>10, <1>11 DEF Routing

-----------------------------------------------------------------------------
\* The invariant of both.
IInv == PInv /\ Routing

\* The type invariant is what both parts say of the variables' values.
LEMMA IInvTypes == IInv => TypeOK
BY DEF IInv, PInv, ProcTypes, Routing, RouterTypes, ConnRecords, CallRecords, TypeOK

\* At first nothing was started, connected or called.
LEMMA InitIInv == Init => IInv
<1> SUFFICES ASSUME Init PROVE IInv
  OBVIOUS
<1>1. /\ \E path \in [Workers -> Addrs] :
            worker = [w \in Workers |-> [pc |-> "new", path |-> path[w], tries |-> 0]]
      /\ child = [w \in Workers |-> "none"] /\ file = [a \in Addrs |-> Nothing]
      /\ next = [w \in Workers |-> 1] /\ clients = [w \in Workers |-> [n \in Ids |-> Nothing]]
      /\ conn = [w \in Workers |-> [k \in Shards |-> Unconnected]]
      /\ call = [w \in Workers |-> [k \in Shards |-> Idle]] /\ made = 0 /\ shared = FALSE
      /\ orphaned = FALSE
  BY DEF Init
<1>2. \A w \in Workers : worker[w].pc = "new"
  BY <1>1
<1>3. /\ Unconnected \in ConnRecords /\ Unconnected.to = Nothing
      /\ Idle \in CallRecords /\ Idle.pc = "idle" /\ ~Serving(Nothing)
  BY DEF Unconnected, ConnRecords, Idle, CallRecords, CallPcs, Serving
<1>4. ProcTypes
  <2>1. worker \in [Workers -> [pc : WorkerPcs, path : Addrs, tries : 0..(MaxTries + 1)]]
    BY <1>1 DEF WorkerPcs
  <2> QED
    BY <1>1, <2>1 DEF ProcTypes, ChildStates
<1>5. Lifetimes /\ PathsApart /\ FilesNamed /\ ChildrenHaveOwners
  BY <1>1, <1>2 DEF Lifetimes, PathsApart, FilesNamed, ChildrenHaveOwners, Active, At
<1>6. OwnProcess
  BY <1>1, <1>3 DEF OwnProcess
<1>7. RouterTypes
  BY <1>1, <1>3 DEF RouterTypes
<1>8. Connected /\ Free
  BY <1>1, <1>2, <1>3 DEF Connected, Free
<1>9. Numbers /\ Differ
  BY <1>1, <1>3 DEF Numbers, Differ
<1>10. Counted
  <2>1. Registering = {}
    BY <1>1, <1>3 DEF Registering
  <2>2. IsFiniteSet({}) /\ Cardinality({}) = 0
    BY FS_EmptySet
  <2> QED
    BY <1>1, <2>1, <2>2 DEF Counted
<1>11. CallRunsWithOwnData
  BY <1>1, <1>3 DEF CallRunsWithOwnData
<1> QED
  BY <1>4, <1>5, <1>6, <1>7, <1>8, <1>9, <1>10, <1>11 DEF IInv, PInv, Routing

\* Calls change neither the processes nor who is connected to whom.
LEMMA CallKeepsPInv ==
    ASSUME IInv, NEW w \in Workers, NEW k \in Shards,
           \/ \E d \in Data : BeginCall(w, k, d)
           \/ TakeId(w, k) \/ InsertClient(w, k) \/ RunMethod(w, k) \/ CallLost(w, k)
    PROVE  PInv'
<1>1. conn \in [Workers -> [Shards -> ConnRecords]]
  BY DEF IInv, Routing, RouterTypes
<1>2. UNCHANGED procVars
  BY DEF BeginCall, TakeId, InsertClient, RunMethod, CallLost
<1>3. \A v \in Workers, j \in Shards : conn'[v][j].to = conn[v][j].to
  <2>1. CASE InsertClient(w, k)
    <3>1. conn' = [conn EXCEPT ![w][k].cache[call[w][k].data] = call[w][k].id]
      BY <2>1 DEF InsertClient
    <3> QED
      BY <1>1, <3>1 DEF ConnRecords
  <2>2. CASE ~InsertClient(w, k)
    BY <2>2 DEF BeginCall, TakeId, RunMethod, CallLost
  <2> QED
    BY <2>1, <2>2
<1> QED
  BY <1>2, <1>3, CallPInv DEF IInv

\* The invariant is inductive.
LEMMA NextIInv == IInv /\ [Next]_vars => IInv'
<1> SUFFICES ASSUME IInv, [Next]_vars PROVE IInv'
  OBVIOUS
<1>1. TypeOK /\ PInv /\ Routing
  BY IInvTypes DEF IInv
<1>2. CASE \E w \in Workers : \/ ChildUnlinks(w) \/ ChildBinds(w) \/ ChildDies(w) \/ Spawn(w)
                              \/ LookForFile(w) \/ GiveUp(w) \/ Started(w) \/ Stop(w) \/ KillChild(w)
  <2>1. PInv'
    BY <1>1, <1>2, ChildPInv, SpawnPInv, WorkerPInv
  <2>2. Routing'
    BY <1>1, <1>2, LifeRouting
  <2> QED
    BY <2>1, <2>2 DEF IInv
<1>3. CASE \/ \E w \in Workers, k \in Shards : Connect(w, k)
           \/ \E w \in Workers : Restart(w) \/ RemoveFile(w)
           \/ DaemonDies
  <2>1. PInv'
    BY <1>1, <1>3, ConnPInv
  <2>2. Routing'
    BY <1>1, <1>3, ConnectRouting
  <2> QED
    BY <2>1, <2>2 DEF IInv
<1>4. ASSUME NEW w \in Workers, NEW k \in Shards,
             \/ \E d \in Data : BeginCall(w, k, d)
             \/ TakeId(w, k) \/ InsertClient(w, k) \/ RunMethod(w, k) \/ CallLost(w, k)
      PROVE  IInv'
  <2>1. PInv'
    BY <1>4, CallKeepsPInv
  <2>2. Routing'
    BY <1>1, <1>4, BeginRouting, TakeRouting, InsertRouting, RunRouting
  <2> QED
    BY <2>1, <2>2 DEF IInv
<1>5. CASE UNCHANGED vars
  <2>1. UNCHANGED <<worker, child, file, shared, orphaned, next, clients, conn, call, made>>
    BY <1>5 DEF vars, procVars, routerVars, callVars
  <2>2. PInv'
    BY <1>1, <2>1, CallPInv DEF procVars
  <2>3. Routing'
    <3>1. RouterTypes' /\ Free' /\ Counted' /\ CallRunsWithOwnData'
      BY <1>1, <2>1 DEF Routing, RouterTypes, Free, Counted, Registering, CallRunsWithOwnData
    <3>2. Connected'
      BY <1>1, <2>1 DEF Routing, Connected
    <3>3. Numbers'
      <4>1. \A w \in Workers, k \in Shards : Serving(conn[w][k].to)' => Serving(conn[w][k].to)
        BY <2>1 DEF Serving
      <4> QED
        BY <1>1, <2>1, <4>1, NumbersStay DEF Routing
    <3>4. Differ'
      BY <1>1, <2>1 DEF Routing, Differ, Serving
    <3> QED
      BY <3>1, <3>2, <3>3, <3>4 DEF Routing
  <2> QED
    BY <2>2, <2>3 DEF IInv
<1> QED
  BY <1>2, <1>3, <1>4, <1>5 DEF Next

\* What the processes and routers keep, whatever is started, killed or called.
LEMMA Invariance == Spec => []IInv
BY InitIInv, NextIInv, PTL DEF Spec

\* A call reaches a child that was started for its worker's path, and the one
\* its worker started unless another worker was at work there at the same time
\* or the daemon died and left children behind; there it runs with the client
\* data it was made with: for any number of starts, paths, instances and calls.
THEOREM CallsRouted == Spec => []CallsAreRouted
<1>1. IInv => CallsAreRouted
  BY IInvTypes DEF IInv, PInv, Routing, CallsAreRouted
<1> QED
  BY <1>1, Invariance, PTL

\* No child outlives the worker that would kill it, unless the daemon died: of
\* any number of starts, however they fail, and of workers that share a path.
THEOREM NoOrphans == Spec => []ChildrenHaveOwners
<1>1. IInv => ChildrenHaveOwners
  BY DEF IInv, PInv
<1> QED
  BY <1>1, Invariance, PTL
=============================================================================
