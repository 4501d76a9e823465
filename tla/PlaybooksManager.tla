-------------------------- MODULE PlaybooksManager --------------------------
(***************************************************************************)
(* The playbooks of the daemon (lib/pyro-daemon/src/playbook/manager.rs,   *)
(* worker.rs, interconnect.rs, and the tables of state.rs).  Every request *)
(* runs in a task of its own; the daemon's task resumes the playbooks at   *)
(* its start and then updates them.  A step of this module is what a task  *)
(* does between two points where it waits: for the lock of `workers`, the  *)
(* database, a file, a module to load or a listener.                       *)
(*                                                                         *)
(* One request runs others: start_playbook deletes a playbook it finds in  *)
(* the database, build_interconnect starts the playbook a module calls,    *)
(* an update stops and starts.  `stack` holds what a task has under way,   *)
(* the innermost call first.                                               *)
(*                                                                         *)
(* A socket path is its playbook's own.  Callbacks are HTTP callbacks.  A  *)
(* package has the version the modules that call it expect, 0, and one     *)
(* newer.  Failures of the database and of directories are left out;       *)
(* loading a module, starting it and listening may fail.                   *)
(***************************************************************************)
EXTENDS Integers, Sequences, FiniteSets, SequencesExt

CONSTANTS
  Names,        \* playbooks, each of a package of its own
  Needs,        \* the playbook a playbook's module calls, or None
  Addrs,        \* HTTP addresses
  StartAddrs,   \* bound: those a request to start gives, or None
  StartPaths,   \* bound: whether a request to start gives a socket path
  Uuids,        \* callbacks
  Clients,      \* control connections, one request at a time
  Daemon,       \* the task that resumes and updates
  MaxRequests,  \* bound: requests and updates
  MaxFaults,    \* bound: steps that fail
  MaxCrashes,   \* bound: ends of the daemon
  None

ASSUME NeedsAssumption == Needs \in [Names -> Names \cup {None}]
ASSUME NamesAssumption == /\ Daemon \notin Clients
                          /\ None \notin Names \cup Addrs \cup Uuids \cup Clients \cup {Daemon}
                          /\ IsFiniteSet(Names) /\ IsFiniteSet(Clients)
ASSUME BoundsAssumption == /\ StartAddrs \subseteq Addrs \cup {None} /\ StartPaths \subseteq BOOLEAN
                           /\ MaxRequests \in Nat /\ MaxFaults \in Nat /\ MaxCrashes \in Nat

Tasks == Clients \cup {Daemon}

VARIABLES
  workers,     \* the running worker of each playbook, or None
  lock,        \* the task that holds `workers` over a wait, or None
  sock,        \* the worker that listens at each playbook's socket path, or None
  db,          \* the table playbooks: a row, or None
  cbs,         \* the table playbook_callbacks: the source of each callback, or None
  dir,         \* the playbooks whose directory exists
  stack,       \* the calls each task has under way
  boot,        \* resume_active_playbooks: names left, names failed, one succeeded
  listed,      \* check_for_updates: the rows it listed and has yet to update
  wanted,      \* history: how the last start, stop or delete of a playbook ended, whoever
               \* made it; "any" when that failed or is under way
  raced,       \* history: playbooks two tasks worked on at the same time
  updated,     \* history: playbooks an update stopped
  requests, faults, crashes

memVars == <<workers, lock, sock>>
diskVars == <<db, cbs, dir>>
ghosts == <<wanted, raced, updated>>
counts == <<requests, faults, crashes>>
vars == <<memVars, diskVars, stack, boot, listed, ghosts, counts>>

-----------------------------------------------------------------------------
Top(c) == Head(stack[c])
Subject(c) == Top(c).name
At(c, op, pc) == stack[c] # <<>> /\ Top(c).op \in op /\ Top(c).pc = pc

\* A call: of which playbook, where it is, what it was given and has made, and the last result
Frame(op, n, a) ==
  [op |-> op, name |-> n, pc |-> "begin", arg |-> a, path |-> FALSE, ver |-> 0,
   worker |-> None, ok |-> FALSE]

StartFrame(n, a, p, v) == [Frame("start", n, a) EXCEPT !.path = p, !.ver = v]

\* The calls under the one that runs
Under(c) == IF stack[c] = <<>> THEN <<>> ELSE Tail(stack[c])

Become(c, f) == stack' = [stack EXCEPT ![c] = <<f>> \o Under(c)]
Goto(c, pc) == Become(c, [Top(c) EXCEPT !.pc = pc])

\* Run `f`, then go on at `pc` with its result in `ok`.
Call(c, f, pc) == stack' = [stack EXCEPT ![c] = <<f, [Top(c) EXCEPT !.pc = pc]>> \o Under(c)]

Return(c, ok) ==
  stack' = [stack EXCEPT ![c] =
    IF Under(c) = <<>> THEN <<>> ELSE <<[Head(Under(c)) EXCEPT !.ok = ok]>> \o Tail(Under(c))]

\* The calls of a task that have begun
Begun(c) == {f \in Range(stack[c]) : f.pc # "begin"}
Busy(n) == \E c \in Tasks : \E f \in Begun(c) : f.name = n
Contended(c, n) == \E d \in Tasks \ {c} : \E f \in Begun(d) : f.name = n
Raced(c, n) == IF Contended(c, n) THEN raced \cup {n} ELSE raced

\* The daemon accepts connections once it has resumed its playbooks.
Serving == \A f \in Range(stack[Daemon]) : f.op # "boot"

\* The tables (DbStateStore): one row per playbook, saving it again replaces it; ...
ListRows == {n \in Names : db[n] # None}
GetRow(n) == db[n]
SaveRow(n, row) == [db EXCEPT ![n] = row]
Running(n) == n \in ListRows /\ GetRow(n).status = "running"

\* ... deleting it deletes the callbacks whose source it is.
DeleteRow(n) ==
  /\ db' = [db EXCEPT ![n] = None]
  /\ cbs' = [u \in Uuids |-> IF cbs[u] = n THEN None ELSE cbs[u]]

AddMapping(u, n) == [cbs EXCEPT ![u] = n]
DeleteMapping(u) == [cbs EXCEPT ![u] = None]

NoCallbacks == [u \in Uuids |-> 0]
CallbacksOf(n) == [u \in Uuids |-> IF cbs[u] = n THEN 1 ELSE 0]

\* The workers that exist: in the map, or built by a task that has not put them there
AllWorkers ==
  ({workers[n] : n \in Names}
     \cup UNION {{f.worker : f \in Range(stack[c])} : c \in Tasks}) \ {None}

WorkerIds == 1 .. Cardinality(Names) + 3 * Cardinality(Tasks)
NewId == CHOOSE i \in WorkerIds : \A w \in AllWorkers : w.id # i

HttpFree(a) == a = None \/ \A w \in AllWorkers : w.http # a

\* A worker that is dropped stops listening; its socket path leads nowhere.
Unheard(n, w) == IF w # None /\ sock[n] = w.id THEN [sock EXCEPT ![n] = None] ELSE sock

\* PlaybookWorker::shutdown also removes the socket path, whoever listens there by now.
SocketAfterShutdown(n, w) ==
  IF w # None /\ w.path THEN [sock EXCEPT ![n] = None] ELSE sock

NothingListed == [n \in Names |-> None]

Init ==
  /\ workers = [n \in Names |-> None] /\ lock = None
  /\ sock = [n \in Names |-> None]
  /\ db = [n \in Names |-> None] /\ cbs = [u \in Uuids |-> None] /\ dir = {}
  /\ stack = [c \in Tasks |-> <<>>]
  /\ boot = [todo |-> {}, failed |-> {}, won |-> FALSE] /\ listed = NothingListed
  /\ wanted = [n \in Names |-> "any"] /\ raced = {} /\ updated = {}
  /\ requests = 0 /\ faults = 0 /\ crashes = 0

-----------------------------------------------------------------------------
(* Requests *)

\* Uuid::new_v4
FreshUuids ==
  {u \in Uuids : /\ cbs[u] = None /\ \A w \in AllWorkers : w.cbs[u] = 0
                 /\ \A c \in Clients : \A f \in Range(stack[c]) : f.arg # u}

StartRequests ==
  {Frame(op, n, None) : op \in {"stop", "resume", "delete"}, n \in Names}
    \cup {StartFrame(n, a, p, 0) : n \in Names, a \in StartAddrs, p \in StartPaths}

CallbackRequests ==
  {Frame("add_callback", n, u) : n \in Names, u \in FreshUuids}
    \cup {Frame("delete_callback", cbs[u], u) : u \in {v \in Uuids : cbs[v] # None}}

AddressRequests == {Frame("set_http", n, a) : n \in Names, a \in Addrs \cup {None}}

Requests == StartRequests \cup CallbackRequests \cup AddressRequests

\* Requests that change nothing: list_playbooks gives the workers as they are, ...
ListPlaybooks ==
  [n \in {m \in Names : workers[m] # None} |-> [http |-> workers[n].http, path |-> workers[n].path]]

\* ... list_callbacks what the database holds.
ListCallbacks(n) == {u \in Uuids : cbs[u] = n}

\* The calls of `op` that task c may begin: the one it has come to, or a request to an idle task.
\* A request that waits for the lock is one that comes when the lock is free.
Entering(c, op) ==
  {f \in IF stack[c] # <<>> THEN {Top(c)}
         ELSE IF c \in Clients /\ Serving /\ requests < MaxRequests THEN Requests
         ELSE {} : f.op \in op /\ f.pc = "begin"}

Counted(c) == requests' = IF stack[c] = <<>> THEN requests + 1 ELSE requests

Fault == faults < MaxFaults /\ faults' = faults + 1

-----------------------------------------------------------------------------
(* start_playbook *)

\* A playbook that runs is a conflict.
CheckNotRunning(c) ==
  \E f \in Entering(c, {"start", "resume"}) :
    /\ lock = None
    /\ IF workers[f.name] # None THEN Return(c, FALSE) ELSE Become(c, [f EXCEPT !.pc = "row"])
    /\ raced' = Raced(c, f.name)
    /\ Counted(c)
    /\ UNCHANGED <<memVars, diskVars, boot, listed, wanted, updated, faults, crashes>>

\* One that does not run, but is in the database, is deleted first.
StartGetRow(c) ==
  /\ At(c, {"start"}, "row")
  /\ Goto(c, IF GetRow(Subject(c)) # None THEN "delete" ELSE "dirs")
  /\ UNCHANGED <<memVars, diskVars, boot, listed, ghosts, counts>>

\* What follows the directories or the row: the module is loaded, then its interconnect built.
AfterLoad(n) == IF Needs[n] = None THEN "worker" ELSE "interconnect"

MakeDirs(c) ==
  /\ At(c, {"start"}, "dirs")
  /\ dir' = dir \cup {Subject(c)}
  /\ wanted' = [wanted EXCEPT ![Subject(c)] = "any"]
  /\ Goto(c, AfterLoad(Subject(c)))
  /\ UNCHANGED <<memVars, db, cbs, boot, listed, raced, updated, counts>>

\* build_interconnect: start the playbook this one calls, unless the version it expects runs.
Expected(m) == workers[m] # None /\ workers[m].ver = 0

FindInterconnect(c) ==
  LET m == Needs[Subject(c)]
  IN /\ At(c, {"start", "resume"}, "interconnect") /\ lock = None
     /\ IF Expected(m) THEN Goto(c, "worker") ELSE Call(c, Frame("start", m, None), "launched")
     /\ UNCHANGED <<memVars, diskVars, boot, listed, ghosts, counts>>

InterconnectStarted(c) ==
  /\ At(c, {"start", "resume"}, "launched") /\ lock = None
  /\ IF Top(c).ok /\ workers[Needs[Subject(c)]] # None THEN Goto(c, "worker") ELSE Return(c, FALSE)
  /\ UNCHANGED <<memVars, diskVars, boot, listed, ghosts, counts>>

\* PlaybookWorker::start, listen_socket, which takes over the path, and listen_http
StartWorker(c) ==
  LET w == [id |-> NewId, http |-> Top(c).arg, cbs |-> NoCallbacks,
            path |-> Top(c).path, ver |-> Top(c).ver]
  IN /\ At(c, {"start", "resume"}, "worker") /\ HttpFree(w.http)
     /\ Become(c, [Top(c) EXCEPT !.pc = "callbacks", !.worker = w])
     /\ sock' = IF w.path THEN [sock EXCEPT ![Subject(c)] = w.id] ELSE sock
     /\ UNCHANGED <<workers, lock, diskVars, boot, listed, ghosts, counts>>

\* The module does not load or start.
LoadFails(c) ==
  /\ At(c, {"start", "resume"}, "interconnect") \/ At(c, {"start", "resume"}, "worker")
  /\ Fault
  /\ Return(c, FALSE)
  /\ UNCHANGED <<memVars, diskVars, boot, listed, ghosts, requests, crashes>>

\* The address is taken, or can not be bound; the worker is dropped with its socket.
ListenFails(c) ==
  /\ At(c, {"start", "resume"}, "worker") /\ Top(c).arg # None
  /\ IF HttpFree(Top(c).arg) THEN Fault ELSE UNCHANGED faults
  /\ sock' = IF Top(c).path THEN [sock EXCEPT ![Subject(c)] = None] ELSE sock
  /\ Return(c, FALSE)
  /\ UNCHANGED <<workers, lock, diskVars, boot, listed, ghosts, requests, crashes>>

\* register_callbacks_from_db, on a worker that is not in the map yet
RegisterCallbacks(c) ==
  /\ At(c, {"start", "resume"}, "callbacks")
  /\ Become(c, [Top(c) EXCEPT !.pc = "record", !.worker.cbs = CallbacksOf(Subject(c))])
  /\ UNCHANGED <<memVars, diskVars, boot, listed, ghosts, counts>>

SavePlaybook(c) ==
  LET n == Subject(c)
  IN /\ At(c, {"start"}, "record")
     /\ db' = SaveRow(n, [status |-> "running", http |-> Top(c).arg,
                          path |-> Top(c).path, ver |-> Top(c).ver])
     /\ wanted' = [wanted EXCEPT ![n] = "any"]
     /\ Goto(c, "insert")
     /\ UNCHANGED <<memVars, cbs, dir, boot, listed, raced, updated, counts>>

\* HashMap::insert: a worker another task put there is dropped.
StartInsert(c) ==
  LET n == Subject(c)
  IN /\ At(c, {"start"}, "insert") /\ lock = None
     /\ sock' = Unheard(n, workers[n])
     /\ workers' = [workers EXCEPT ![n] = Top(c).worker]
     /\ wanted' = [wanted EXCEPT ![n] = "run"]
     /\ Return(c, TRUE)
     /\ UNCHANGED <<lock, diskVars, boot, listed, raced, updated, counts>>

-----------------------------------------------------------------------------
(* resume_playbook *)

ResumeGetRow(c) ==
  LET n == Subject(c)
  IN /\ At(c, {"resume"}, "row")
     /\ LET row == GetRow(n)
        IN IF row = None THEN Return(c, FALSE)
           ELSE Become(c, [Top(c) EXCEPT !.pc = AfterLoad(n), !.arg = row.http,
                                         !.path = row.path, !.ver = row.ver])
     /\ UNCHANGED <<memVars, diskVars, boot, listed, ghosts, counts>>

\* UPDATE playbooks SET status: nothing, when the row is gone
WithStatus(n, s) == IF db[n] = None THEN db ELSE [db EXCEPT ![n].status = s]

ResumeStatus(c) ==
  LET n == Subject(c)
  IN /\ At(c, {"resume"}, "record")
     /\ db' = WithStatus(n, "running")
     /\ wanted' = [wanted EXCEPT ![n] = "any"]
     /\ Goto(c, "insert")
     /\ UNCHANGED <<memVars, cbs, dir, boot, listed, raced, updated, counts>>

\* A playbook that another task started since the first check keeps its worker.
MayInsert(n) == workers[n] = None

ResumeInsert(c) ==
  LET n == Subject(c)
  IN /\ At(c, {"resume"}, "insert") /\ lock = None /\ MayInsert(n)
     /\ workers' = [workers EXCEPT ![n] = Top(c).worker]
     /\ wanted' = [wanted EXCEPT ![n] = "run"]
     /\ Return(c, TRUE)
     /\ UNCHANGED <<lock, sock, diskVars, boot, listed, raced, updated, counts>>

ResumeConflict(c) ==
  LET n == Subject(c)
  IN /\ At(c, {"resume"}, "insert") /\ lock = None /\ ~MayInsert(n)
     /\ sock' = SocketAfterShutdown(n, Top(c).worker)
     /\ Return(c, FALSE)
     /\ UNCHANGED <<workers, lock, diskVars, boot, listed, ghosts, counts>>

-----------------------------------------------------------------------------
(* stop_playbook, delete_playbook, set_http_address *)

\* The worker is taken out and shut down, and its row updated, under the lock.
TakeOut(n) ==
  /\ sock' = SocketAfterShutdown(n, workers[n])
  /\ workers' = [workers EXCEPT ![n] = None]

\* Mutant: the worker is stopped, its row not.
StoppedRowForgotten(n) == db

StoppedRow(n) == IF workers[n] = None THEN db ELSE WithStatus(n, "stopped")

StopPlaybook(c) ==
  \E f \in Entering(c, {"stop"}) :
    /\ lock = None
    /\ TakeOut(f.name)
    /\ db' = StoppedRow(f.name)
    /\ wanted' = IF workers[f.name] = None THEN wanted ELSE [wanted EXCEPT ![f.name] = "stop"]
    /\ raced' = Raced(c, f.name)
    /\ Return(c, workers[f.name] # None)
    /\ Counted(c)
    /\ UNCHANGED <<lock, cbs, dir, boot, listed, updated, faults, crashes>>

\* Mutant: the lock is released once the worker is taken out.
HoldLockNot(c) == lock = None /\ lock' = None

\* The guard of `workers` lives to the end of delete_playbook.
HoldLock(c) == lock = None /\ lock' = c

\* Worker and row go, with the callbacks of the playbook ..
DeletePlaybook(c) ==
  \E f \in Entering(c, {"delete"}) \cup {g \in Range(stack[c]) : At(c, {"start"}, "delete") /\ g = Top(c)} :
    /\ HoldLock(c)
    /\ TakeOut(f.name)
    /\ DeleteRow(f.name)
    /\ wanted' = [wanted EXCEPT ![f.name] = "any"]
    /\ raced' = Raced(c, f.name)
    /\ Become(c, [f EXCEPT !.pc = "rmdir"])
    /\ Counted(c)
    /\ UNCHANGED <<dir, boot, listed, updated, faults, crashes>>

\* .. and then its directory, still under the lock.
RemoveDir(c) ==
  LET n == Subject(c)
  IN /\ At(c, {"start", "delete"}, "rmdir")
     /\ dir' = dir \ {n}
     /\ lock' = None
     /\ wanted' = IF Top(c).op = "delete" THEN [wanted EXCEPT ![n] = "gone"] ELSE wanted
     /\ IF Top(c).op = "delete" THEN Return(c, TRUE) ELSE Goto(c, "dirs")
     /\ UNCHANGED <<workers, sock, db, cbs, boot, listed, raced, updated, counts>>

WithHttp(n, a) == [workers EXCEPT ![n].http = a]

\* UPDATE playbooks SET http_address
HttpRow(n, a) == IF db[n] = None THEN db ELSE [db EXCEPT ![n].http = a]

OthersFree(n, a) == a = None \/ \A w \in AllWorkers \ {workers[n]} : w.http # a

SetHttpAddress(c) ==
  \E f \in Entering(c, {"set_http"}) :
    LET n == f.name
    IN /\ lock = None /\ workers[n] # None /\ OthersFree(n, f.arg)
       /\ workers' = WithHttp(n, f.arg)
       /\ db' = HttpRow(n, f.arg)
       /\ raced' = Raced(c, n)
       /\ Return(c, TRUE)
       /\ Counted(c)
       /\ UNCHANGED <<lock, sock, cbs, dir, boot, listed, wanted, updated, faults, crashes>>

\* The old listener is stopped before the new address is bound, which may be taken; the row
\* keeps the old address, which another playbook may now be given.
SetHttpFails(c) ==
  \E f \in Entering(c, {"set_http"}) :
    LET n == f.name
    IN /\ lock = None /\ workers[n] # None /\ f.arg # None
       /\ Fault
       /\ workers' = WithHttp(n, None)
       /\ raced' = Raced(c, n)
       /\ Return(c, FALSE)
       /\ Counted(c)
       /\ UNCHANGED <<lock, sock, diskVars, boot, listed, wanted, updated, crashes>>

-----------------------------------------------------------------------------
(* Callbacks *)

SaveCallback(c) ==
  \E f \in Entering(c, {"add_callback"}) :
    /\ cbs' = AddMapping(f.arg, f.name)
    /\ raced' = Raced(c, f.name)
    /\ Become(c, [f EXCEPT !.pc = "worker"])
    /\ Counted(c)
    /\ UNCHANGED <<memVars, db, dir, boot, listed, wanted, updated, faults, crashes>>

\* Mutant: a running worker learns of the callback at its next start.
WithCallbackLater(n, u) == workers

WithCallback(n, u) ==
  IF workers[n] = None THEN workers ELSE [workers EXCEPT ![n].cbs[u] = @ + 1]

AddCallback(c) ==
  /\ At(c, {"add_callback"}, "worker") /\ lock = None
  /\ workers' = WithCallback(Subject(c), Top(c).arg)
  /\ Return(c, TRUE)
  /\ UNCHANGED <<lock, sock, diskVars, boot, listed, ghosts, counts>>

ForgetCallback(c) ==
  \E f \in Entering(c, {"delete_callback"}) :
    /\ cbs' = DeleteMapping(f.arg)
    /\ raced' = Raced(c, f.name)
    /\ Become(c, [f EXCEPT !.pc = "worker"])
    /\ Counted(c)
    /\ UNCHANGED <<memVars, db, dir, boot, listed, wanted, updated, faults, crashes>>

\* From every running worker
DeleteCallback(c) ==
  /\ At(c, {"delete_callback"}, "worker") /\ lock = None
  /\ workers' = [n \in Names |-> IF workers[n] = None THEN None
                                 ELSE [workers[n] EXCEPT !.cbs[Top(c).arg] = 0]]
  /\ Return(c, TRUE)
  /\ UNCHANGED <<lock, sock, diskVars, boot, listed, ghosts, counts>>

-----------------------------------------------------------------------------
(* The task of the daemon *)

\* check_for_updates lists the rows once.  Those that are running, not pinned, and in an older
\* version than the cache has are updated one after the other, from what the list says of them.
ListUpdates ==
  \E found \in SUBSET {n \in ListRows : Running(n) /\ db[n].ver = 0} \ {{}} :
    /\ stack[Daemon] = <<>> /\ listed = NothingListed /\ requests < MaxRequests
    /\ listed' = [n \in Names |-> IF n \in found THEN db[n] ELSE None]
    /\ requests' = requests + 1
    /\ UNCHANGED <<memVars, diskVars, stack, boot, ghosts, faults, crashes>>

\* Whatever requests have made of the playbook since
FindUpdate ==
  \E n \in {m \in Names : listed[m] # None} :
    /\ stack[Daemon] = <<>>
    /\ stack' = [stack EXCEPT ![Daemon] =
         <<[Frame("update", n, listed[n].http) EXCEPT !.pc = "stop", !.path = listed[n].path]>>]
    /\ listed' = [listed EXCEPT ![n] = None]
    /\ UNCHANGED <<memVars, diskVars, boot, ghosts, counts>>

\* Whether there was a worker to stop or not
UpdateStop ==
  LET n == Subject(Daemon)
  IN /\ At(Daemon, {"update"}, "stop") /\ lock = None
     /\ TakeOut(n)
     /\ db' = StoppedRow(n)
     /\ wanted' = [wanted EXCEPT ![n] = "any"]
     /\ raced' = Raced(Daemon, n) /\ updated' = updated \cup {n}
     /\ Call(Daemon, StartFrame(n, Top(Daemon).arg, Top(Daemon).path, 1), "started")
     /\ UNCHANGED <<lock, cbs, dir, boot, listed, counts>>

\* The version that ran is started again when the new one does not start.
UpdateStarted ==
  LET f == Top(Daemon)
  IN /\ At(Daemon, {"update"}, "started")
     /\ IF f.ok THEN Return(Daemon, TRUE)
        ELSE Call(Daemon, StartFrame(f.name, f.arg, f.path, 0), "rolled_back")
     /\ UNCHANGED <<memVars, diskVars, boot, listed, ghosts, counts>>

UpdateRolledBack ==
  /\ At(Daemon, {"update"}, "rolled_back")
  /\ Return(Daemon, Top(Daemon).ok)
  /\ UNCHANGED <<memVars, diskVars, boot, listed, ghosts, counts>>

BootFrame == [Frame("boot", None, None) EXCEPT !.pc = "next"]

\* The daemon ends and starts again: the rows that are "running" are listed.
Crash ==
  /\ crashes < MaxCrashes /\ crashes' = crashes + 1
  /\ workers' = [n \in Names |-> None] /\ lock' = None
  /\ sock' = [n \in Names |-> None]
  /\ stack' = [c \in Tasks |-> IF c = Daemon THEN <<BootFrame>> ELSE <<>>]
  /\ boot' = [todo |-> {n \in ListRows : Running(n)}, failed |-> {}, won |-> FALSE]
  /\ listed' = NothingListed
  /\ UNCHANGED <<diskVars, ghosts, requests, faults>>

BootResume ==
  /\ At(Daemon, {"boot"}, "next")
  /\ \E n \in boot.todo :
       /\ boot' = [boot EXCEPT !.todo = @ \ {n}]
       /\ stack' = [stack EXCEPT ![Daemon] =
            <<Frame("resume", n, None), [Top(Daemon) EXCEPT !.name = n, !.pc = "resumed"]>>]
  /\ UNCHANGED <<memVars, diskVars, listed, ghosts, counts>>

BootResumed ==
  LET f == Top(Daemon)
  IN /\ At(Daemon, {"boot"}, "resumed")
     /\ boot' = IF f.ok THEN [boot EXCEPT !.won = TRUE] ELSE [boot EXCEPT !.failed = @ \cup {f.name}]
     /\ Become(Daemon, BootFrame)
     /\ UNCHANGED <<memVars, diskVars, listed, ghosts, counts>>

\* Again with those that failed, as long as a pass resumes one
BootPass ==
  /\ At(Daemon, {"boot"}, "next") /\ boot.todo = {}
  /\ boot' = [todo |-> IF boot.won THEN boot.failed ELSE {}, failed |-> {}, won |-> FALSE]
  /\ IF boot.won /\ boot.failed # {} THEN UNCHANGED stack ELSE Return(Daemon, TRUE)
  /\ UNCHANGED <<memVars, diskVars, listed, ghosts, counts>>

-----------------------------------------------------------------------------
StartStep(c) ==
  \/ StartGetRow(c) \/ MakeDirs(c) \/ SavePlaybook(c) \/ StartInsert(c)

ResumeStep(c) ==
  \/ ResumeGetRow(c) \/ ResumeStatus(c) \/ ResumeInsert(c) \/ ResumeConflict(c)

WorkerStep(c) ==
  \/ CheckNotRunning(c) \/ FindInterconnect(c) \/ InterconnectStarted(c)
  \/ StartWorker(c) \/ LoadFails(c) \/ ListenFails(c) \/ RegisterCallbacks(c)

ChangeStep(c) ==
  \/ StopPlaybook(c) \/ DeletePlaybook(c) \/ RemoveDir(c)
  \/ SetHttpAddress(c) \/ SetHttpFails(c)
  \/ SaveCallback(c) \/ AddCallback(c) \/ ForgetCallback(c) \/ DeleteCallback(c)

DaemonStep ==
  \/ UpdateStop \/ UpdateStarted \/ UpdateRolledBack
  \/ BootResume \/ BootResumed \/ BootPass

TaskStep(c) ==
  \/ StartStep(c) \/ ResumeStep(c) \/ WorkerStep(c) \/ ChangeStep(c)
  \/ c = Daemon /\ DaemonStep

\* Nothing is under way.
Idle == (\A c \in Tasks : stack[c] = <<>>) /\ UNCHANGED vars

Next ==
  \/ \E c \in Tasks : TaskStep(c)
  \/ ListUpdates
  \/ FindUpdate
  \/ Crash
  \/ Idle

Spec == Init /\ [][Next]_vars

-----------------------------------------------------------------------------
Versions == {0, 1}
Worker == [id : WorkerIds, http : Addrs \cup {None}, cbs : [Uuids -> 0 .. 2],
           path : BOOLEAN, ver : Versions]
Row == [status : {"running", "stopped"}, http : Addrs \cup {None}, path : BOOLEAN, ver : Versions]
ASSUME NoneAssumption == None \notin Worker \cup Row
Ops == {"start", "stop", "resume", "delete", "set_http", "add_callback", "delete_callback",
        "update", "boot"}

\* Every variable keeps its type.
TypeOK ==
  /\ workers \in [Names -> Worker \cup {None}]
  /\ lock \in Tasks \cup {None}
  /\ sock \in [Names -> WorkerIds \cup {None}]
  /\ db \in [Names -> Row \cup {None}]
  /\ cbs \in [Uuids -> Names \cup {None}]
  /\ dir \subseteq Names
  /\ \A c \in Tasks : \A f \in Range(stack[c]) :
       /\ f.op \in Ops /\ f.name \in Names \cup {None}
       /\ f.worker \in Worker \cup {None} /\ f.ok \in BOOLEAN
  /\ boot.todo \subseteq Names /\ boot.failed \subseteq Names
  /\ listed \in [Names -> Row \cup {None}]
  /\ wanted \in [Names -> {"any", "run", "stop", "gone"}]
  /\ raced \subseteq Names /\ updated \subseteq Names

\* A playbook no task works on, and no two tasks ever worked on at once
Settled(n) == Serving /\ ~Busy(n) /\ n \notin raced

\* A playbook that was started or resumed last (by a request, an update, or the start or resume
\* of a playbook that calls it) runs: its row says so and its directory exists, through ends of
\* the daemon and what is done to other playbooks; and unless a step or a set_http failed,
\* requests raced, or a playbook that is called was updated, it is listed again once the daemon
\* serves.  Of an update whose rollback fails too nothing is claimed: the playbook is forgotten.
StartedPlaybookRuns ==
  \A n \in Names : Settled(n) /\ wanted[n] = "run" =>
    /\ Running(n) /\ n \in dir
    /\ (faults = 0 /\ raced = {} /\ (\A m \in Names : Needs[m] \notin updated)
          => n \in DOMAIN ListPlaybooks)

\* A worker is a playbook the database says is running, in the version and with the address
\* and path it runs with, and the socket path leads to it: after failed starts and rollbacks too.
WorkerIsReachable ==
  \A n \in Names : Settled(n) /\ workers[n] # None =>
    LET w == workers[n]
    IN /\ Running(n) /\ w.ver = db[n].ver
       /\ ListPlaybooks[n].http \in {None, db[n].http} /\ ListPlaybooks[n].path = db[n].path
       /\ w.path => sock[n] = w.id

\* A playbook that was stopped or deleted last has no worker, and no end of the daemon, error or
\* operation on another playbook brings one back: only a start or resume of it does.  Besides
\* requests for it these are the start it is given by a playbook that calls it, even a resumed
\* one, and by an update that listed it before it was stopped.  A stopped playbook keeps its
\* directory, a deleted one has none.
StoppedStaysStopped ==
  \A n \in Names : Settled(n) =>
    /\ wanted[n] = "stop" => n \notin DOMAIN ListPlaybooks /\ ~Running(n) /\ n \in dir
    /\ wanted[n] = "gone" => n \notin DOMAIN ListPlaybooks /\ db[n] = None /\ n \notin dir

\* How the last start, stop or delete of a playbook ended holds until its next one.
AnswersHold == TypeOK /\ StartedPlaybookRuns /\ WorkerIsReachable /\ StoppedStaysStopped

\* A worker calls each callback that is listed for its playbook once, and no other,
\* whether the callback or the worker came first.
CallbacksAgree ==
  \A n \in Names : Settled(n) /\ workers[n] # None =>
    \A u \in Uuids : workers[n].cbs[u] = IF u \in ListCallbacks(n) THEN 1 ELSE 0

\* No directory is removed under a worker of the map, however requests overlap: delete_playbook
\* holds the lock from taking the worker out to removing the directory.
RunningDirStays == [][\A n \in Names : n \in dir /\ n \notin dir' => workers[n] = None]_vars

=============================================================================
