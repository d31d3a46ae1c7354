------------------------------- MODULE Lifecycle -------------------------------
(***************************************************************************)
(* kaiion start, stop and restart (lifecycle.rs), the server they spawn    *)
(* (main.rs) and the three files they share: the PID file, the readiness   *)
(* marker and the saved configuration.                                     *)
(*                                                                         *)
(* Every system call of a command is a step, and a command may be killed   *)
(* between two steps.  Servers crash, hang while they boot, and take their *)
(* time to drain; other programs come and go, and may get the PID of a     *)
(* dead server; the binary is replaced; the power goes.                    *)
(*                                                                         *)
(* Two bounds on the environment: while a command runs no PID is used again*)
(* and the binary is not replaced, and no command is killed between spawn  *)
(* and write_pid (unless the power goes, and its child with it).           *)
(***************************************************************************)
CONSTANTS
    Shells,     \* where commands are typed: one each at a time
    Pids,
    Addresses,  \* a configuration is the address it listens on
    NULL, TORN

ASSUME NullIsNothing == NULL \notin Pids \cup Shells \cup Addresses

ASSUME TornIsNothing == TORN \notin Addresses \cup {NULL}

VARIABLES
    proc,         \* what runs under each PID
    exe,          \* what a command finds behind the link /proc/PID/exe
    config,       \* the configuration a server was spawned with
    parent,       \* the command that has not yet waited for it
    outsiders,    \* addresses where a program not spawned here answers /healthz
    pid_file, ready_file, config_file,
    config_disk,  \* what a power cut would leave of config_file
    cli           \* the command of each shell

processes == <<proc, exe, config, parent>>
files == <<pid_file, ready_file, config_file, config_disk>>
vars == <<processes, outsiders, files, cli>>

-------------------------------------------------------------------------------
(* Processes.                                                              *)

Up == {"booting", "bound", "ready", "serving", "draining"}

\* A "dying" process has been killed and is not gone yet; "shot" is a program
\* of somebody else that was killed by a command.
ProcStates == Up \cup {"free", "dying", "zombie", "foreign", "shot"}

\* The link reads as the command's own binary, as another one (or as one that
\* was replaced: "... (deleted)"), or it cannot be read; of a "denied" program,
\* another user's, neither that nor a signal is allowed.
Links == {"same", "other", "hidden", "denied"}

process_alive(p) == proc[p] # "free"

\* unwrap_or(true): what cannot be told is ours.  A zombie has no link.
is_owned_process(p) == proc[p] = "zombie" \/ exe[p] # "other"

Listening(a) == a \in outsiders \/ \E p \in Pids : proc[p] \in {"bound", "ready", "serving"}
                                                   /\ config[p] = a

\* GET /healthz is answered.
health(a) == a \in outsiders \/ \E p \in Pids : proc[p] = "serving" /\ config[p] = a

\* With its process, the link of a PID goes.
Becomes(p, state) ==
    /\ proc' = [proc EXCEPT ![p] = state]
    /\ exe' = IF state = "free" THEN [exe EXCEPT ![p] = "same"] ELSE exe
    /\ UNCHANGED <<config, parent>>

\* A process is over; its PID stays with it until its parent has waited.
Dies(p) == Becomes(p, IF parent[p] = NULL THEN "free" ELSE "zombie")

Kill(p) == CASE proc[p] \in Up -> Becomes(p, "dying")
             [] proc[p] = "foreign" -> Becomes(p, "shot")
             [] OTHER -> UNCHANGED processes

\* SIGTERM: the handler is installed when the server serves.
Term(p) == CASE proc[p] \in {"booting", "bound", "ready"} -> Dies(p)
             [] proc[p] = "serving" -> Becomes(p, "draining")
             [] proc[p] = "foreign" -> Becomes(p, "shot")
             [] OTHER -> UNCHANGED processes

terminate_pid(p, force) == IF force THEN Kill(p) ELSE Term(p)

\* terminate_pid fails: EPERM.
Refused(p) == proc[p] = "foreign" /\ exe[p] = "denied"

\* The children of a command that is over go to init.
Orphan(s) ==
    /\ proc' = [p \in Pids |-> IF parent[p] = s /\ proc[p] = "zombie" THEN "free" ELSE proc[p]]
    /\ parent' = [p \in Pids |-> IF parent[p] = s THEN NULL ELSE parent[p]]
    /\ UNCHANGED <<exe, config>>

-------------------------------------------------------------------------------
(* Commands.                                                               *)

NoCommand == [name |-> "none", pc |-> "idle", pid |-> NULL, want |-> NULL, force |-> FALSE,
              late |-> FALSE, told |-> "nothing", marker |-> NULL, tmp |-> "none"]

Init ==
    /\ proc = [p \in Pids |-> "free"] /\ exe = [p \in Pids |-> "same"]
    /\ config = [p \in Pids |-> NULL] /\ parent = [p \in Pids |-> NULL] /\ outsiders = {}
    /\ pid_file = NULL /\ ready_file = NULL /\ config_file = NULL /\ config_disk = NULL
    /\ cli = [s \in Shells |-> NoCommand]

At(s, here) == cli[s].pc = here

Goto(s, there) == cli' = [cli EXCEPT ![s].pc = there]

\* The command returns, and its shell shows how it went; no temporary is left.
Return(s, what) ==
    /\ cli' = [cli EXCEPT ![s].pc = "idle", ![s].told = what, ![s].tmp = "none"]
    /\ Orphan(s)

Type(s) ==
    /\ At(s, "idle")
    /\ \E name \in {"start", "stop", "restart"}, want \in Addresses, force \in BOOLEAN :
          /\ name = "start" => ~force
          /\ name = "stop" => want = CHOOSE a \in Addresses : TRUE
          /\ cli' = [cli EXCEPT ![s] = [NoCommand EXCEPT
                       !.name = name, !.want = want, !.force = force,
                       !.pc = CASE name = "start" -> "read"
                                [] name = "stop" -> "look"
                                [] name = "restart" -> "load"]]
    /\ UNCHANGED <<processes, outsiders, files>>

\* restart: load_state, then stop.  A file that cannot be parsed is an error.
Load(s) ==
    /\ At(s, "load")
    /\ IF config_file = TORN THEN Return(s, "error")
       ELSE /\ cli' = [cli EXCEPT ![s].pc = "look",
                                  ![s].want = IF config_file = NULL THEN @ ELSE config_file]
            /\ UNCHANGED processes
    /\ UNCHANGED <<outsiders, files>>

-------------------------------------------------------------------------------
(* start_at.                                                               *)

\* Slip in Read: the configuration is saved before anything is checked.
ReadAndSave(s) ==
    /\ At(s, "read")
    /\ cli' = [cli EXCEPT ![s].pid = pid_file,
                          ![s].pc = IF pid_file = NULL THEN "clean" ELSE "owner"]
    /\ config_file' = cli[s].want /\ config_disk' = cli[s].want
    /\ UNCHANGED <<processes, outsiders, pid_file, ready_file>>

\* Slip in Read: a file that is not there is taken for one that is.
ReadAnyway(s) ==
    /\ At(s, "read")
    /\ cli' = [cli EXCEPT ![s].pid = pid_file, ![s].pc = "owner"]
    /\ UNCHANGED <<processes, outsiders, files>>

Read(s) ==
    /\ At(s, "read")
    /\ cli' = [cli EXCEPT ![s].pid = pid_file,
                          ![s].pc = IF pid_file = NULL THEN "clean" ELSE "owner"]
    /\ UNCHANGED <<processes, outsiders, files>>

\* "PID file belongs to another process", in start and in stop.
Belongs(s) == process_alive(cli[s].pid) /\ ~is_owned_process(cli[s].pid)

Owner(s) ==
    /\ At(s, "owner")
    /\ IF Belongs(s) THEN Return(s, "error") ELSE Goto(s, "alive") /\ UNCHANGED processes
    /\ UNCHANGED <<outsiders, files>>

\* "Kaiion is already running"
Alive(s) ==
    /\ At(s, "alive")
    /\ IF process_alive(cli[s].pid) THEN Return(s, "error")
       ELSE Goto(s, "unpid") /\ UNCHANGED processes
    /\ UNCHANGED <<outsiders, files>>

RemovePid(s) ==
    /\ At(s, "unpid")
    /\ pid_file' = NULL
    /\ Goto(s, "clean")
    /\ UNCHANGED <<processes, outsiders, ready_file, config_file, config_disk>>

\* Slip in RemoveReady: a marker that was left behind stays.
KeepReady(s) ==
    /\ At(s, "clean")
    /\ Goto(s, "save")
    /\ UNCHANGED <<processes, outsiders, files>>

RemoveReady(s) ==
    /\ At(s, "clean")
    /\ ready_file' = NULL
    /\ Goto(s, "save")
    /\ UNCHANGED <<processes, outsiders, pid_file, config_file, config_disk>>

\* atomic_file::write: a temporary file, whose name no other write uses.  An error
\* ends the write and start; a temporary left by a killed command is never read.
Save(s) ==
    /\ At(s, "save")
    /\ \/ /\ cli' = [cli EXCEPT ![s].pc = "fill", ![s].tmp = "torn"]
          /\ UNCHANGED processes
       \/ Return(s, "error")
    /\ UNCHANGED <<outsiders, files>>

\* write_all; where it fails, part of the content may have been written.
Fill(s) ==
    /\ At(s, "fill")
    /\ \/ /\ cli' = [cli EXCEPT ![s].pc = "sync", ![s].tmp = "written"]
          /\ UNCHANGED processes
       \/ Return(s, "error")
    /\ UNCHANGED <<outsiders, files>>

\* Slip in Sync: the file is closed and not flushed.
CloseOnly(s) ==
    /\ At(s, "sync")
    /\ Goto(s, "commit")
    /\ UNCHANGED <<processes, outsiders, files>>

\* sync_all
Sync(s) ==
    /\ At(s, "sync")
    /\ \/ /\ cli' = [cli EXCEPT ![s].pc = "commit", ![s].tmp = "synced"]
          /\ UNCHANGED processes
       \/ Return(s, "error")
    /\ UNCHANGED <<outsiders, files>>

\* rename: the name now stands for what the temporary holds, and after a power
\* cut for as much of it as is on the disk.
Commit(s) ==
    /\ At(s, "commit")
    /\ \/ /\ config_file' = IF cli[s].tmp = "torn" THEN TORN ELSE cli[s].want
          /\ config_disk' = IF cli[s].tmp = "synced" THEN cli[s].want ELSE TORN
          /\ cli' = [cli EXCEPT ![s].pc = "spawn", ![s].tmp = "none"]
          /\ UNCHANGED processes
       \/ /\ Return(s, "error")
          /\ UNCHANGED <<config_file, config_disk>>
    /\ UNCHANGED <<outsiders, pid_file, ready_file>>

Spawn(s) ==
    /\ At(s, "spawn")
    /\ \/ \E p \in Pids :
             /\ proc[p] = "free"
             /\ proc' = [proc EXCEPT ![p] = "booting"] /\ exe' = [exe EXCEPT ![p] = "same"]
             /\ config' = [config EXCEPT ![p] = cli[s].want]
             /\ parent' = [parent EXCEPT ![p] = s]
             /\ cli' = [cli EXCEPT ![s].pid = p, ![s].pc = "write"]
       \/ Return(s, "error")
    /\ UNCHANGED <<outsiders, files>>

\* The PID file is written, or the child is killed and waited for.
WritePid(s) ==
    /\ At(s, "write")
    /\ \/ /\ pid_file' = cli[s].pid
          /\ cli' = [cli EXCEPT ![s].pc = "wait", ![s].late = FALSE]
          /\ UNCHANGED processes
       \/ /\ Goto(s, "undo")
          /\ Kill(cli[s].pid)
          /\ UNCHANGED pid_file
    /\ UNCHANGED <<outsiders, ready_file, config_file, config_disk>>

\* child.wait_with_output
Undo(s) ==
    /\ At(s, "undo") /\ proc[cli[s].pid] = "zombie"
    /\ Return(s, "error")
    /\ UNCHANGED <<outsiders, files>>

\* wait_for_ready: the child is gone, the marker is there, or it is too late.
Wait(s) ==
    /\ At(s, "wait")
    /\ \/ /\ ~cli[s].late /\ proc[cli[s].pid] = "zombie"
          /\ proc' = [proc EXCEPT ![cli[s].pid] = "free"]
          /\ parent' = [parent EXCEPT ![cli[s].pid] = NULL]
          /\ Goto(s, "fail") /\ UNCHANGED <<exe, config>>
       \/ /\ ~cli[s].late /\ proc[cli[s].pid] # "zombie" /\ ready_file # NULL
          /\ cli' = [cli EXCEPT ![s].pc = "health", ![s].marker = ready_file]
          /\ UNCHANGED processes
       \/ /\ cli[s].late
          /\ Goto(s, "fail") /\ UNCHANGED processes
    /\ UNCHANGED <<outsiders, files>>

Health(s) ==
    /\ At(s, "health")
    /\ \/ /\ health(cli[s].want)
          /\ Return(s, "started")
       \/ /\ ~health(cli[s].want)
          /\ Goto(s, "wait") /\ UNCHANGED processes
    /\ UNCHANGED <<outsiders, files>>

\* Slip in Fail: the child is left alone.
FailGently(s) ==
    /\ At(s, "fail")
    /\ Goto(s, "unpid2")
    /\ UNCHANGED <<processes, outsiders, files>>

\* "Kaiion did not become healthy"
Fail(s) ==
    /\ At(s, "fail")
    /\ Kill(cli[s].pid)
    /\ Goto(s, "reap")
    /\ UNCHANGED <<outsiders, files>>

Reap(s) ==
    /\ At(s, "reap") /\ proc[cli[s].pid] \in {"zombie", "free"}
    /\ proc' = [proc EXCEPT ![cli[s].pid] = "free"]
    /\ parent' = [parent EXCEPT ![cli[s].pid] = NULL]
    /\ Goto(s, "unpid2")
    /\ UNCHANGED <<exe, config, outsiders, files>>

\* The two files go, and the command ends as ever it does.
Unpid(s) ==
    /\ cli[s].pc \in {"unpid2", "forget"}
    /\ pid_file' = NULL
    /\ Goto(s, IF At(s, "unpid2") THEN "unready" ELSE "unmark")
    /\ UNCHANGED <<processes, outsiders, ready_file, config_file, config_disk>>

Unready(s) ==
    /\ At(s, "unready")
    /\ ready_file' = NULL
    /\ Return(s, "error")
    /\ UNCHANGED <<outsiders, pid_file, config_file, config_disk>>

-------------------------------------------------------------------------------
(* stop.                                                                   *)

\* stop is over: restart goes on with start.
Stopped(s) == IF cli[s].name = "restart" THEN Goto(s, "read") /\ UNCHANGED processes
              ELSE Return(s, "stopped")

Look(s) ==
    /\ At(s, "look")
    /\ \/ pid_file = NULL /\ Stopped(s)
       \/ /\ pid_file # NULL
          /\ cli' = [cli EXCEPT ![s].pid = pid_file, ![s].pc = "judge"]
          /\ UNCHANGED processes
    /\ UNCHANGED <<outsiders, files>>

\* Slip in Judge: whatever has the PID is ours.
JudgeNobody(s) ==
    /\ At(s, "judge")
    /\ Goto(s, "probe")
    /\ UNCHANGED <<processes, outsiders, files>>

Judge(s) ==
    /\ At(s, "judge")
    /\ IF Belongs(s) THEN Return(s, "error") ELSE Goto(s, "probe") /\ UNCHANGED processes
    /\ UNCHANGED <<outsiders, files>>

Probe(s) ==
    /\ At(s, "probe")
    /\ Goto(s, IF process_alive(cli[s].pid) THEN "signal" ELSE "forget")
    /\ UNCHANGED <<processes, outsiders, files>>

Signal(s) ==
    /\ At(s, "signal")
    /\ \/ /\ ~Refused(cli[s].pid)
          /\ terminate_pid(cli[s].pid, cli[s].force)
          /\ cli' = [cli EXCEPT ![s].pc = "drain", ![s].late = FALSE]
       \/ /\ Refused(cli[s].pid)
          /\ Return(s, "error")
    /\ UNCHANGED <<outsiders, files>>

\* Slip in Drain: a server that takes too long is forgotten.
DrainOrForget(s) ==
    /\ At(s, "drain")
    /\ ~process_alive(cli[s].pid) \/ cli[s].late
    /\ Goto(s, "forget")
    /\ UNCHANGED <<processes, outsiders, files>>

\* Gone; or too late: SIGKILL after SIGTERM, an error after SIGKILL.
Drain(s) ==
    /\ At(s, "drain")
    /\ \/ /\ ~process_alive(cli[s].pid)
          /\ Goto(s, "forget") /\ UNCHANGED processes
       \/ /\ process_alive(cli[s].pid) /\ cli[s].late /\ ~cli[s].force
          /\ cli' = [cli EXCEPT ![s].pc = "signal", ![s].force = TRUE]
          /\ UNCHANGED processes
       \/ /\ process_alive(cli[s].pid) /\ cli[s].late /\ cli[s].force
          /\ Return(s, "error")
    /\ UNCHANGED <<outsiders, files>>

Unmark(s) ==
    /\ At(s, "unmark")
    /\ ready_file' = NULL
    /\ Stopped(s)
    /\ UNCHANGED <<outsiders, pid_file, config_file, config_disk>>

-------------------------------------------------------------------------------
(* The world around.                                                       *)

\* Slip in Expire: the loop has no deadline.
NeverExpire(s) == FALSE /\ Goto(s, cli[s].pc)

\* The deadline of wait_for_ready or stop passes.
Expire(s) ==
    /\ cli[s].pc \in {"wait", "health", "drain"} /\ ~cli[s].late
    /\ cli' = [cli EXCEPT ![s].late = TRUE]
    /\ UNCHANGED <<processes, outsiders, files>>

\* The command is killed.
Interrupt(s) ==
    /\ cli[s].pc \notin {"idle", "write"}
    /\ cli' = [cli EXCEPT ![s] = NoCommand]
    /\ Orphan(s)
    /\ UNCHANGED <<outsiders, files>>

\* run_server
Bind(p) ==
    /\ proc[p] = "booting" /\ ~Listening(config[p])
    /\ Becomes(p, "bound")
    /\ UNCHANGED <<outsiders, files, cli>>

Announce(p) ==
    /\ proc[p] = "bound"
    /\ Becomes(p, "ready")
    /\ ready_file' = p
    /\ UNCHANGED <<outsiders, pid_file, config_file, config_disk, cli>>

Serve(p) ==
    /\ proc[p] = "ready"
    /\ Becomes(p, "serving")
    /\ UNCHANGED <<outsiders, files, cli>>

\* shutdown_signal, from elsewhere than stop: Ctrl-C reaches the whole group.
Shutdown(p) ==
    /\ proc[p] = "serving"
    /\ Becomes(p, "draining")
    /\ UNCHANGED <<outsiders, files, cli>>

\* An error of build_router or bind, a crash, the end of the draining.
Exit(p) ==
    /\ proc[p] \in Up \cup {"dying", "shot"}
    /\ Dies(p)
    /\ UNCHANGED <<outsiders, files, cli>>

\* Other programs.
Foreign(p) ==
    /\ \/ /\ proc[p] = "free" /\ \A s \in Shells : At(s, "idle")
          /\ proc' = [proc EXCEPT ![p] = "foreign"]
          /\ \E link \in Links \ {"same"} : exe' = [exe EXCEPT ![p] = link]
          /\ UNCHANGED <<config, parent>>
       \/ proc[p] = "foreign" /\ Becomes(p, "free")
    /\ UNCHANGED <<outsiders, files, cli>>

\* Kaiion is upgraded: the binary of the servers that are up is another now.
Upgrade ==
    /\ \A s \in Shells : At(s, "idle")
    /\ exe' = [p \in Pids |-> IF proc[p] \in Up \cup {"dying"} THEN "other" ELSE exe[p]]
    /\ UNCHANGED <<proc, config, parent, outsiders, files, cli>>

\* The power goes: of the files is left what was on the disk.
Power ==
    /\ proc' = [p \in Pids |-> "free"] /\ exe' = [p \in Pids |-> "same"]
    /\ parent' = [p \in Pids |-> NULL] /\ outsiders' = {}
    /\ cli' = [s \in Shells |-> NoCommand]
    /\ config_file' = config_disk
    /\ UNCHANGED <<config, pid_file, ready_file, config_disk>>

Outsider(a) ==
    /\ \/ ~Listening(a) /\ outsiders' = outsiders \cup {a}
       \/ a \in outsiders /\ outsiders' = outsiders \ {a}
    /\ UNCHANGED <<processes, files, cli>>

Start(s) == \/ Read(s) \/ Owner(s) \/ Alive(s) \/ RemovePid(s) \/ RemoveReady(s) \/ Save(s)
            \/ Fill(s) \/ Sync(s) \/ Commit(s) \/ Spawn(s) \/ WritePid(s) \/ Undo(s)
            \/ Wait(s) \/ Health(s) \/ Fail(s) \/ Reap(s) \/ Unpid(s) \/ Unready(s)

Stop(s) == Look(s) \/ Judge(s) \/ Probe(s) \/ Signal(s) \/ Drain(s) \/ Unmark(s)

Command(s) == Load(s) \/ Start(s) \/ Stop(s)

Next ==
    \/ \E s \in Shells : Type(s) \/ Command(s) \/ Expire(s) \/ Interrupt(s)
    \/ \E p \in Pids : \/ Bind(p) \/ Announce(p) \/ Serve(p) \/ Shutdown(p) \/ Exit(p)
                       \/ Foreign(p)
    \/ \E a \in Addresses : Outsider(a)
    \/ Upgrade
    \/ Power

Spec == Init /\ [][Next]_vars

\* A command runs on while it can, its deadlines pass, and a process that is
\* killed is gone in the end.  Nothing else is promised of the servers.
Fairness ==
    /\ \A s \in Shells : WF_vars(Command(s)) /\ WF_vars(Expire(s))
    /\ \A p \in Pids : WF_vars(proc[p] = "dying" /\ Exit(p))

FairSpec == Spec /\ Fairness

-------------------------------------------------------------------------------
(* Properties.                                                             *)

Pcs == {"idle", "load", "read", "owner", "alive", "unpid", "clean", "save", "fill", "sync",
        "commit", "spawn", "write", "undo", "wait", "health", "fail", "reap", "unpid2", "unready",
        "look", "judge", "probe", "signal", "drain", "forget", "unmark"}

\* Shape of the state.
TypeOK ==
    /\ proc \in [Pids -> ProcStates] /\ exe \in [Pids -> Links]
    /\ config \in [Pids -> Addresses \cup {NULL}]
    /\ parent \in [Pids -> Shells \cup {NULL}] /\ outsiders \subseteq Addresses
    /\ pid_file \in Pids \cup {NULL} /\ ready_file \in Pids \cup {NULL}
    /\ config_file \in Addresses \cup {NULL, TORN}
    /\ config_disk \in Addresses \cup {NULL, TORN}
    /\ \A s \in Shells :
          /\ cli[s].pc \in Pcs /\ cli[s].pid \in Pids \cup {NULL}
          /\ cli[s].pc \in {"write", "undo", "wait", "health", "fail", "reap", "judge", "probe",
                            "signal", "drain", "owner", "alive"} => cli[s].pid \in Pids

\* "start waits for a child-owned readiness marker and /healthz before
\* returning": the marker that start saw is the one its own child wrote.
MarkerIsOwn == \A s \in Shells : cli[s].told = "started" => cli[s].marker = cli[s].pid

\* No server is lost: one that is up is the one that the PID file names, or
\* start is about to write it there; so there is never more than one.
ServersAreManaged ==
    \A p \in Pids : proc[p] \in Up =>
        p = pid_file \/ \E s \in Shells : At(s, "write") /\ cli[s].pid = p

\* "restart reuses the saved configuration": what is saved is what the server
\* that is up was started with, even after a start that was refused.
SavedIsRunning ==
    \A p \in Pids : proc[p] \in Up /\ p = pid_file => config_file = config[p]

\* The saved configuration is an old or a new one, whatever fails in a save and
\* whenever start is killed or the power goes (atomic_file::write); otherwise
\* restart would refuse to work.
SavedIsWhole == config_file # TORN

\* When stop has said that Kaiion is stopped, no server is up.
StoppedIsGone ==
    \A s \in Shells : cli[s].told = "stopped" /\ At(s, "idle") => \A p \in Pids : proc[p] \notin Up

\* A program that has the PID of a dead server is killed for it only if its link
\* cannot be read, where is_owned_process takes it for a server.
OthersAreSafe == \A p \in Pids : proc[p] = "shot" => exe[p] = "hidden"

\* Every command returns, though a server may hang while it boots or drains.
CommandsReturn == \A s \in Shells : (~At(s, "idle")) ~> At(s, "idle")

===============================================================================
