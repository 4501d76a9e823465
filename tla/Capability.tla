----------------------------- MODULE Capability -----------------------------
(***************************************************************************)
(* Remote capabilities.  A playbook's worker starts a child process that   *)
(* serves the capability on a Unix socket (pyro-daemon/src/capability/     *)
(* process.rs, playbook/worker.rs, the CLI's serve), waits for the socket  *)
(* file, and connects every instance of the module to whatever listens at  *)
(* the path (pyroduct/src/transport/socket/capability).  The client of a   *)
(* connection registers client data once and calls methods with the number *)
(* it got; the router of the child keeps the data under that number.       *)
(* A child is named by the worker that started it.  The socket itself is   *)
(* PyroSocket's subject: here a request is answered by a child that lives. *)
(***************************************************************************)
EXTENDS Naturals, FiniteSets

CONSTANTS
    Starts,     \* bound: starts of a worker (a resume or update is another)
    Addrs,      \* socket paths
    Shards,     \* instances of the module per worker, one connection each
    Data,       \* client data
    Nothing,    \* no process, no data
    MaxTries,   \* looks at the path before a start gives up (100 in the code)
    MaxCalls    \* bound: calls in all

ASSUME CapabilityAssumption ==
    /\ Starts \in Nat /\ Nothing \notin 1..Starts \cup Data
    /\ MaxTries \in Nat /\ MaxCalls \in Nat

VARIABLES
    worker,     \* pc, path, looks at the path
    child,      \* child[w]: the process worker w started
    file,       \* file[a]: the process whose listener the path leads to
    next,       \* next[p]: the router's next client number
    clients,    \* clients[p][n]: the data registered as n
    conn,       \* conn[w][k]: process and numbers cached per data (0: none)
    call,       \* call[w][k]: the last call on that connection
    made,       \* calls begun
    shared,     \* history: a path was used by two workers at once, or by a
                \* worker after a daemon that left its child there
    orphaned    \* history: the daemon died and left its children behind

procVars == <<worker, child, file, shared, orphaned>>
routerVars == <<next, clients>>
callVars == <<call, made>>
vars == <<procVars, routerVars, conn, callVars>>

Workers == 1..Starts \* in the order they were started
Ids == 1..MaxCalls
WorkerPcs == {"new", "waiting", "giving_up", "ready", "running", "stopping", "killed", "gone"}
ChildStates == {"none", "starting", "unlinked", "serving", "dead"}
CallPcs == {"idle", "registering", "numbered", "calling", "ran"}

Unconnected == [to |-> Nothing, cache |-> [d \in Data |-> 0]]
Idle == [pc |-> "idle", data |-> Nothing, id |-> 0, ran |-> Nothing]

Init ==
    /\ \E path \in [Workers -> Addrs] :
          worker = [w \in Workers |-> [pc |-> "new", path |-> path[w], tries |-> 0]]
    /\ child = [w \in Workers |-> "none"]
    /\ file = [a \in Addrs |-> Nothing]
    /\ next = [w \in Workers |-> 1]
    /\ clients = [w \in Workers |-> [n \in Ids |-> Nothing]]
    /\ conn = [w \in Workers |-> [k \in Shards |-> Unconnected]]
    /\ call = [w \in Workers |-> [k \in Shards |-> Idle]]
    /\ made = 0
    /\ shared = FALSE
    /\ orphaned = FALSE

At(w, pc) == worker[w].pc = pc
Path(w) == worker[w].path
Serving(p) == p # Nothing /\ child[p] = "serving"

\* A process ends, and the memory of its router with it.
Ends(p) ==
    /\ child' = [child EXCEPT ![p] = "dead"]
    /\ next' = [next EXCEPT ![p] = 1]
    /\ clients' = [clients EXCEPT ![p] = [n \in Ids |-> Nothing]]

-----------------------------------------------------------------------------
(* The child: serve_capability *)

\* The library is loaded; a file at the path is removed, whoever's it is.
ChildUnlinks(w) ==
    /\ child[w] = "starting"
    /\ child' = [child EXCEPT ![w] = "unlinked"]
    /\ file' = [file EXCEPT ![Path(w)] = Nothing]
    /\ UNCHANGED <<worker, shared, orphaned, routerVars, conn, callVars>>

\* Binding fails when the path was taken since, and the process ends.
ChildBinds(w) ==
    /\ child[w] = "unlinked"
    /\ IF file[Path(w)] = Nothing
          THEN /\ child' = [child EXCEPT ![w] = "serving"]
               /\ file' = [file EXCEPT ![Path(w)] = w]
          ELSE /\ child' = [child EXCEPT ![w] = "dead"]
               /\ UNCHANGED file
    /\ UNCHANGED <<worker, shared, orphaned, routerVars, conn, callVars>>

\* The library can not be loaded, or the process crashes: its file stays.
ChildDies(w) ==
    /\ child[w] \in {"starting", "unlinked", "serving"}
    /\ Ends(w)
    /\ UNCHANGED <<worker, file, shared, orphaned, conn, callVars>>

-----------------------------------------------------------------------------
(* The worker: CapabilityProcess::spawn, PlaybookWorker::start, shutdown *)

Spawn(w) ==
    /\ At(w, "new") /\ \A v \in 1..(w - 1) : ~At(v, "new")
    /\ worker' = [worker EXCEPT ![w].pc = "waiting"]
    /\ child' = [child EXCEPT ![w] = "starting"]
    /\ shared' = (shared \/ \E v \in Workers \ {w} :
                                Path(v) = Path(w) /\ worker[v].pc \notin {"new", "gone"})
    /\ UNCHANGED <<file, orphaned, routerVars, conn, callVars>>

\* Mutant: the looks are not counted.
LookForEver(w) ==
    /\ At(w, "waiting")
    /\ worker' = IF file[Path(w)] # Nothing THEN [worker EXCEPT ![w].pc = "ready"] ELSE worker
    /\ UNCHANGED <<child, file, shared, orphaned, routerVars, conn, callVars>>

\* One look at the path: any file there will do.
LookForFile(w) ==
    /\ At(w, "waiting")
    /\ worker' = IF file[Path(w)] # Nothing THEN [worker EXCEPT ![w].pc = "ready"]
                 ELSE IF worker[w].tries > MaxTries THEN [worker EXCEPT ![w].pc = "giving_up"]
                 ELSE [worker EXCEPT ![w].tries = @ + 1]
    /\ UNCHANGED <<child, file, shared, orphaned, routerVars, conn, callVars>>

\* The child is killed; a file it made since the last look stays.
GiveUp(w) ==
    /\ At(w, "giving_up")
    /\ worker' = [worker EXCEPT ![w].pc = "gone"]
    /\ Ends(w)
    /\ UNCHANGED <<file, shared, orphaned, conn, callVars>>

\* RemoteCapability::connect_unix for one instance: the path leads to a
\* process that listens, or the start fails and drops its child.
Connect(w, k) ==
    /\ At(w, "ready") /\ conn[w][k].to = Nothing
    /\ IF Serving(file[Path(w)])
          THEN conn' = [conn EXCEPT ![w][k].to = file[Path(w)]] /\ UNCHANGED worker
          ELSE worker' = [worker EXCEPT ![w].pc = "stopping"] /\ UNCHANGED conn
    /\ UNCHANGED <<child, file, shared, orphaned, routerVars, callVars>>

\* All instances got the interface of the process they are connected to.
Started(w) ==
    /\ At(w, "ready") /\ \A k \in Shards : Serving(conn[w][k].to)
    /\ worker' = [worker EXCEPT ![w].pc = "running"]
    /\ UNCHANGED <<child, file, shared, orphaned, routerVars, conn, callVars>>

\* PipelineServer::restart, between calls: new instances with connections of
\* their own replace the old ones.  If that fails nothing changes.
Restart(w) ==
    /\ At(w, "running") /\ \A k \in Shards : call[w][k].pc \in {"idle", "ran"}
    /\ Serving(file[Path(w)])
    /\ conn' = [conn EXCEPT ![w] = [k \in Shards |-> [Unconnected EXCEPT !.to = file[Path(w)]]]]
    /\ UNCHANGED <<procVars, routerVars, callVars>>

Stop(w) ==
    /\ At(w, "running")
    /\ worker' = [worker EXCEPT ![w].pc = "stopping"]
    /\ UNCHANGED <<child, file, shared, orphaned, routerVars, conn, callVars>>

\* Mutant: the file is removed and the child left to itself.
KillChildNot(w) ==
    /\ At(w, "stopping")
    /\ worker' = [worker EXCEPT ![w].pc = "killed"]
    /\ UNCHANGED <<child, file, shared, orphaned, routerVars, conn, callVars>>

\* CapabilityProcess::kill of a stop, drop of a failed start.
KillChild(w) ==
    /\ At(w, "stopping")
    /\ worker' = [worker EXCEPT ![w].pc = "killed"]
    /\ Ends(w)
    /\ UNCHANGED <<file, shared, orphaned, conn, callVars>>

\* The file at the path goes, whoever's it is, and the worker with the
\* connections no call holds.
RemoveFile(w) ==
    /\ At(w, "killed")
    /\ worker' = [worker EXCEPT ![w].pc = "gone"]
    /\ file' = [file EXCEPT ![Path(w)] = Nothing]
    /\ conn' = [conn EXCEPT ![w] = [k \in Shards |->
                  IF call[w][k].pc \in {"idle", "ran"} THEN Unconnected ELSE @[k]]]
    /\ UNCHANGED <<child, shared, orphaned, routerVars, callVars>>

\* The daemon is killed: its children live on.
DaemonDies ==
    /\ \E w \in Workers : worker[w].pc \notin {"new", "gone"}
    /\ worker' = [w \in Workers |-> IF At(w, "new") THEN worker[w]
                                     ELSE [worker[w] EXCEPT !.pc = "gone"]]
    /\ conn' = [w \in Workers |-> [k \in Shards |-> Unconnected]]
    /\ call' = [w \in Workers |-> [k \in Shards |-> Idle]]
    /\ shared' = TRUE
    /\ orphaned' = TRUE
    /\ UNCHANGED <<child, file, routerVars, made>>

-----------------------------------------------------------------------------
(* Calls: PyroClient::call under the mutex of the client, PyroRouter::handle *)

\* Data that was registered on this connection has its number.
BeginCall(w, k, d) ==
    /\ worker[w].pc \in {"running", "stopping", "killed"} \* calls hold the server
    /\ call[w][k].pc \in {"idle", "ran"} /\ made < MaxCalls
    /\ made' = made + 1
    /\ LET n == conn[w][k].cache[d] IN
          call' = [call EXCEPT ![w][k] =
                     [pc |-> IF n = 0 THEN "registering" ELSE "calling",
                      data |-> d, id |-> n, ran |-> Nothing]]
    /\ UNCHANGED <<procVars, routerVars, conn>>

\* The child of the connection handles the call at this point of it.
Handled(w, k, pc) == call[w][k].pc = pc /\ Serving(conn[w][k].to)

\* Mutant: the number is read here and advanced at the insertion.
TakeIdUnreserved(w, k) ==
    /\ Handled(w, k, "registering")
    /\ call' = [call EXCEPT ![w][k].pc = "numbered", ![w][k].id = next[conn[w][k].to]]
    /\ next' = [next EXCEPT ![conn[w][k].to] =
                  1 + Cardinality({n \in Ids : clients[conn[w][k].to][n] # Nothing})]
    /\ UNCHANGED <<procVars, clients, conn, made>>

\* client_id.fetch_add
TakeId(w, k) ==
    /\ Handled(w, k, "registering")
    /\ LET p == conn[w][k].to IN
          /\ call' = [call EXCEPT ![w][k].pc = "numbered", ![w][k].id = next[p]]
          /\ next' = [next EXCEPT ![p] = @ + 1]
    /\ UNCHANGED <<procVars, clients, conn, made>>

\* clients.insert and the answer, whose number the client caches.
InsertClient(w, k) ==
    /\ Handled(w, k, "numbered")
    /\ LET c == call[w][k] IN
          /\ clients' = [clients EXCEPT ![conn[w][k].to][c.id] = c.data]
          /\ conn' = [conn EXCEPT ![w][k].cache[c.data] = c.id]
    /\ call' = [call EXCEPT ![w][k].pc = "calling"]
    /\ UNCHANGED <<procVars, next, made>>

\* The object runs the method with the data under the number, or without a
\* client the call is refused.
RunMethod(w, k) ==
    /\ Handled(w, k, "calling")
    /\ call' = [call EXCEPT ![w][k].pc = "ran",
                            ![w][k].ran = clients[conn[w][k].to][call[w][k].id]]
    /\ UNCHANGED <<procVars, routerVars, conn, made>>

\* The process is gone: the request may fail, and may stay unanswered.
CallLost(w, k) ==
    /\ call[w][k].pc \notin {"idle", "ran"} /\ ~Serving(conn[w][k].to)
    /\ call' = [call EXCEPT ![w][k] = Idle]
    /\ UNCHANGED <<procVars, routerVars, conn, made>>

Next ==
    \/ \E w \in Workers : ChildUnlinks(w)
    \/ \E w \in Workers : ChildBinds(w)
    \/ \E w \in Workers : ChildDies(w)
    \/ \E w \in Workers : Spawn(w)
    \/ \E w \in Workers : LookForFile(w)
    \/ \E w \in Workers : GiveUp(w)
    \/ \E w \in Workers, k \in Shards : Connect(w, k)
    \/ \E w \in Workers : Started(w)
    \/ \E w \in Workers : Restart(w)
    \/ \E w \in Workers : Stop(w)
    \/ \E w \in Workers : KillChild(w)
    \/ \E w \in Workers : RemoveFile(w)
    \/ DaemonDies
    \/ \E w \in Workers, k \in Shards, d \in Data : BeginCall(w, k, d)
    \/ \E w \in Workers, k \in Shards : TakeId(w, k)
    \/ \E w \in Workers, k \in Shards : InsertClient(w, k)
    \/ \E w \in Workers, k \in Shards : RunMethod(w, k)
    \/ \E w \in Workers, k \in Shards : CallLost(w, k)

\* The steps of the task that starts or stops a worker.
WorkerStep(w) ==
    \/ LookForFile(w)
    \/ GiveUp(w)
    \/ \E k \in Shards : Connect(w, k)
    \/ Started(w)
    \/ KillChild(w)
    \/ RemoveFile(w)

\* The daemon's tasks run.  Children owe nothing: they may hang, and die.
Fairness == \A w \in Workers : WF_vars(WorkerStep(w))

Spec == Init /\ [][Next]_vars
FairSpec == Spec /\ Fairness

-----------------------------------------------------------------------------
(* Properties *)

\* Every variable has its type.
TypeOK ==
    /\ worker \in [Workers -> [pc : WorkerPcs, path : Addrs, tries : 0..(MaxTries + 1)]]
    /\ child \in [Workers -> ChildStates]
    /\ file \in [Addrs -> Workers \cup {Nothing}]
    /\ next \in [Workers -> Nat \ {0}]
    /\ clients \in [Workers -> [Ids -> Data \cup {Nothing}]]
    /\ conn \in [Workers -> [Shards -> [to : Workers \cup {Nothing},
                                        cache : [Data -> Ids \cup {0}]]]]
    /\ call \in [Workers -> [Shards -> [pc : CallPcs, data : Data \cup {Nothing},
                                        id : Ids \cup {0}, ran : Data \cup {Nothing}]]]
    /\ made \in 0..MaxCalls
    /\ shared \in BOOLEAN /\ orphaned \in BOOLEAN

\* Whatever instances and playbooks register with one child at the same time,
\* and whatever restarts put another process behind a connection, a method
\* runs with the client data the caller passed.
CallRunsWithOwnData ==
    \A w \in Workers, k \in Shards : call[w][k].pc = "ran" => call[w][k].ran = call[w][k].data

\* A worker is connected to a child that was started for its path, and, if no
\* other worker was ever at work there at the same time and no daemon left a
\* child behind, to the one it started itself, which has its configuration:
\* also after failed starts at that path.
OwnProcess ==
    \A w \in Workers, k \in Shards :
        conn[w][k].to # Nothing => /\ Path(conn[w][k].to) = Path(w)
                                   /\ ~shared => conn[w][k].to = w

\* A call reaches the process and the client data it was meant for.
CallsAreRouted == TypeOK /\ OwnProcess /\ CallRunsWithOwnData

\* A child lives only as long as a worker that will kill it, unless the daemon
\* was killed: also when its start fails half-way, and when other workers
\* connect to it, remove its file or take its path while it starts and stops.
ChildrenHaveOwners ==
    \A w \in Workers :
        child[w] \in {"starting", "unlinked", "serving"} /\ At(w, "gone") => orphaned

\* Every start ends, with a worker that runs or without one, if no child dies
\* that an instance is connected to.
StartEnds ==
    \A w \in Workers :
        At(w, "waiting") ~> \/ worker[w].pc \in {"running", "gone"}
                            \/ \E k \in Shards : conn[w][k].to # Nothing /\ ~Serving(conn[w][k].to)

=============================================================================
