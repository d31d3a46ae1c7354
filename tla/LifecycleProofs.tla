---------------------------- MODULE LifecycleProofs ----------------------------
(***************************************************************************)
(* Theorems about Lifecycle where commands are typed one at a time, in one *)
(* shell: for any number of PIDs and any configurations, whatever crashes, *)
(* hangs or is killed.  With two shells they do not hold (StartRace).      *)
(***************************************************************************)
EXTENDS Lifecycle, TLAPS

Commands ==
    [name : {"none", "start", "stop", "restart"}, pc : Pcs, pid : Pids \cup {NULL},
     want : Addresses \cup {NULL}, force : BOOLEAN, late : BOOLEAN,
     told : {"nothing", "started", "stopped", "error"}, marker : Pids \cup {NULL},
     tmp : {"none", "torn", "written", "synced"}]

Shape ==
    /\ proc \in [Pids -> ProcStates] /\ exe \in [Pids -> Links]
    /\ config \in [Pids -> Addresses \cup {NULL}]
    /\ parent \in [Pids -> Shells \cup {NULL}] /\ outsiders \subseteq Addresses
    /\ pid_file \in Pids \cup {NULL} /\ ready_file \in Pids \cup {NULL}
    /\ config_file \in Addresses \cup {NULL, TORN} /\ config_disk \in Addresses \cup {NULL, TORN}
    /\ cli \in [Shells -> Commands]

NoneUp == \A p \in Pids : proc[p] \notin Up

\* Where the command k stands, what it knows of the PID file.
PidPart(k) ==
    /\ k.pc \in {"owner", "alive", "unpid", "wait", "health", "fail", "reap", "unpid2", "judge",
                 "probe", "signal", "drain", "forget"} => k.pid \in Pids /\ k.pid = pid_file
    /\ k.pc \in {"clean", "save", "fill", "sync", "commit", "spawn", "write", "undo", "unready",
                 "unmark"} => pid_file = NULL
    /\ k.pc \in {"write", "undo"} => k.pid \in Pids

\* Who may be up: the process of the PID file, unless it is being given up, and
\* the child that is not written down yet.
UpPart(k) ==
    \A p \in Pids : proc[p] \in Up =>
        \/ p = pid_file /\ k.pc \notin {"unpid", "reap", "unpid2", "forget"}
        \/ p = k.pid /\ k.pc = "write"

SavedPart(k) ==
    /\ k.pc # "idle" => k.want \in Addresses
    /\ k.pc \in {"spawn", "write"} => config_file = k.want
    /\ k.pc = "write" => config[k.pid] = k.want
    /\ \A p \in Pids : proc[p] \in Up /\ p = pid_file => config_file = config[p]

\* The marker is removed while nobody is up, so that only the child writes it.
MarkerPart(k) ==
    /\ k.pc \in {"save", "fill", "sync", "commit", "spawn"} => ready_file = NULL
    /\ k.pc \in {"write", "wait", "health"} => ready_file \in {NULL, k.pid}
    /\ k.pc = "health" => k.marker = k.pid
    /\ k.pc # "idle" => k.told = "nothing"
    /\ k.told = "started" => k.marker = k.pid
    /\ k.told = "stopped" => NoneUp

\* Nobody else gets the PID that a command has looked at, and stop goes on only
\* if what has it is not seen to be another program.
SafePart(k) ==
    /\ \A p \in Pids : proc[p] = "foreign" => exe[p] # "same"
    /\ \A p \in Pids : proc[p] = "shot" => exe[p] = "hidden"
    /\ k.pc \in {"write", "undo", "wait", "health", "fail", "reap"}
          => proc[k.pid] \notin {"foreign", "shot"}
    /\ k.pc \in {"probe", "signal", "drain"} /\ proc[k.pid] = "foreign" => exe[k.pid] # "other"
    /\ k.pc \in {"undo", "reap"} => proc[k.pid] \notin Up

\* Only a temporary that is on the disk is renamed, and so the saved
\* configuration is on the disk.
DiskPart(k) ==
    /\ config_file # TORN /\ config_disk = config_file
    /\ k.pc = "commit" => k.tmp = "synced"

CommandInv(k) ==
    PidPart(k) /\ UpPart(k) /\ SavedPart(k) /\ MarkerPart(k) /\ SafePart(k) /\ DiskPart(k)

IInv == Shape /\ \A s \in Shells : CommandInv(cli[s])

LEMMA InvInit == Init => IInv
  <1> SUFFICES ASSUME Init PROVE IInv
    OBVIOUS
  <1>1. Shape
    BY DEF Init, Shape, Commands, NoCommand, ProcStates, Links, Pcs
  <1>2. ASSUME NEW s \in Shells PROVE CommandInv(cli[s])
    <2>1. cli[s] = NoCommand /\ config_file = NULL /\ config_disk = NULL
      BY <1>2 DEF Init
    <2>2. /\ PidPart(cli[s]) /\ UpPart(cli[s]) /\ SavedPart(cli[s])
          /\ MarkerPart(cli[s]) /\ SafePart(cli[s])
      BY <1>2, <2>1 DEF Init, NoCommand, PidPart, UpPart, SavedPart, MarkerPart, SafePart, Up
    <2>3. DiskPart(cli[s])
      BY <2>1, TornIsNothing DEF NoCommand, DiskPart
    <2> QED BY <2>2, <2>3 DEF CommandInv
  <1> QED BY <1>1, <1>2 DEF IInv

-------------------------------------------------------------------------------
(* How a command moves.                                                    *)

Same(s) ==
    /\ cli'[s].pid = cli[s].pid /\ cli'[s].want = cli[s].want
    /\ cli'[s].told = cli[s].told /\ cli'[s].marker = cli[s].marker

\* From here to there with what it knows.
Goes(s, here, there) ==
    /\ cli' \in [Shells -> Commands]
    /\ cli[s].pc = here /\ cli'[s].pc = there /\ Same(s)

LEMMA GotoGoes ==
    ASSUME Shape, NEW s \in Shells, NEW there \in Pcs, Goto(s, there)
    PROVE  Goes(s, cli[s].pc, there)
  <1>1. cli[s] \in Commands /\ [cli[s] EXCEPT !.pc = there] \in Commands
    <2>1. cli[s] \in Commands
      BY DEF Shape
    <2> QED BY <2>1 DEF Commands
  <1>2. cli' = [cli EXCEPT ![s] = [cli[s] EXCEPT !.pc = there]]
    BY DEF Goto
  <1>3. cli'[s] = [cli[s] EXCEPT !.pc = there]
    BY <1>2 DEF Shape
  <1> QED BY <1>1, <1>2, <1>3 DEF Goes, Same, Shape, Commands

\* The same processes, but for some that are over.
Tidy ==
    /\ exe' = exe /\ config' = config /\ proc' \in [Pids -> ProcStates]
    /\ parent' \in [Pids -> Shells \cup {NULL}]
    /\ \A p \in Pids : /\ proc'[p] \in Up <=> proc[p] \in Up
                       /\ proc'[p] \in {proc[p], "free"}

LEMMA OrphanTidies ==
    ASSUME Shape, NEW s \in Shells, Orphan(s)
    PROVE  Tidy
  BY DEF Shape, Orphan, Tidy, ProcStates, Up

LEMMA QuietIsTidy ==
    ASSUME Shape, UNCHANGED processes
    PROVE  Tidy
  BY DEF Shape, processes, Tidy

LEMMA ReturnGoes ==
    ASSUME Shape, NEW s \in Shells, NEW what \in {"started", "stopped", "error"}, Return(s, what)
    PROVE  /\ cli' \in [Shells -> Commands] /\ Tidy
           /\ cli'[s].pc = "idle" /\ cli'[s].told = what
           /\ cli'[s].pid = cli[s].pid /\ cli'[s].marker = cli[s].marker
           /\ cli'[s].want = cli[s].want
  <1> DEFINE k == [cli[s] EXCEPT !.pc = "idle", !.told = what, !.tmp = "none"]
  <1>1. cli[s] \in Commands /\ k \in Commands
    <2>1. cli[s] \in Commands
      BY DEF Shape
    <2>2. "idle" \in Pcs
      BY DEF Pcs
    <2> QED BY <2>1, <2>2 DEF Commands
  <1>2. cli' = [cli EXCEPT ![s] = k]
    BY DEF Return
  <1>3. cli'[s] = k
    BY <1>2 DEF Shape
  <1>4. /\ k.pc = "idle" /\ k.told = what /\ k.pid = cli[s].pid /\ k.marker = cli[s].marker
        /\ k.want = cli[s].want
    BY <1>1 DEF Commands
  <1>5. Tidy
    BY OrphanTidies DEF Return
  <1>6. cli' \in [Shells -> Commands]
    BY <1>1, <1>2 DEF Shape
  <1> QED BY <1>3, <1>4, <1>5, <1>6

\* A command that ends where nobody is up, or nobody but the PID file's process.
LEMMA Returns ==
    ASSUME Shape, NEW s \in Shells, CommandInv(cli[s]),
           NEW what \in {"started", "stopped", "error"}, Return(s, what),
           cli[s].pc \notin {"unpid", "reap", "unpid2", "forget", "write"},
           UNCHANGED <<outsiders, pid_file, config_file, config_disk>>,
           ready_file' \in {ready_file, NULL},
           what = "stopped" => pid_file = NULL,
           what = "started" => cli[s].pc = "health"
    PROVE  Shape' /\ CommandInv(cli[s])'
  <1>1. /\ cli' \in [Shells -> Commands] /\ Tidy
        /\ cli'[s].pc = "idle" /\ cli'[s].told = what
        /\ cli'[s].pid = cli[s].pid /\ cli'[s].marker = cli[s].marker
    BY ReturnGoes
  <1>2. Shape'
    BY <1>1 DEF Shape, Tidy
  <1>3. \A p \in Pids : proc[p] \in Up => p = pid_file
    BY DEF CommandInv, UpPart
  <1>4. what = "stopped" => NoneUp'
    BY <1>1, <1>3, NullIsNothing DEF Tidy, NoneUp
  <1>5. /\ \A p \in Pids : proc'[p] = "foreign" => exe'[p] # "same"
        /\ \A p \in Pids : proc'[p] = "shot" => exe'[p] = "hidden"
    BY <1>1 DEF Tidy, CommandInv, SafePart
  <1>6. PidPart(cli[s])' /\ UpPart(cli[s])' /\ SafePart(cli[s])'
    BY <1>1, <1>3, <1>5 DEF Tidy, PidPart, UpPart, SafePart
  <1>7. SavedPart(cli[s])'
    BY <1>1 DEF Tidy, CommandInv, SavedPart
  <1>8. MarkerPart(cli[s])' /\ DiskPart(cli[s])'
    BY <1>1, <1>4 DEF CommandInv, MarkerPart, DiskPart
  <1> QED BY <1>2, <1>6, <1>7, <1>8 DEF CommandInv

\* A command that goes on, with the processes and files as they are.
LEMMA Walks ==
    ASSUME Shape, NEW s \in Shells, CommandInv(cli[s]), NEW here, NEW there,
           Goes(s, here, there), UNCHANGED <<processes, outsiders, files>>,
           \/ <<here, there>> \in {<<"owner", "alive">>, <<"save", "fill">>, <<"fill", "sync">>,
                                   <<"health", "wait">>, <<"wait", "fail">>,
                                   <<"probe", "signal">>, <<"drain", "signal">>}
           \/ here = "sync" /\ there = "commit" /\ cli'[s].tmp = "synced"
           \/ here = "alive" /\ there = "unpid" /\ proc[cli[s].pid] = "free"
           \/ /\ here = "judge" /\ there = "probe"
              /\ proc[cli[s].pid] = "foreign" => exe[cli[s].pid] # "other"
           \/ here \in {"probe", "drain"} /\ there = "forget" /\ proc[cli[s].pid] = "free"
           \/ here = "look" /\ there = "read"
    PROVE  Shape' /\ CommandInv(cli[s])'
  <1>0. UNCHANGED <<proc, exe, config, parent, outsiders, pid_file, ready_file, config_file,
                    config_disk>>
    BY DEF processes, files
  <1>1. Shape'
    BY <1>0 DEF Shape, Goes
  <1>2. "free" \notin Up
    BY DEF Up
  <1>3. PidPart(cli[s])'
    BY <1>0 DEF Goes, Same, CommandInv, PidPart
  <1>4. UpPart(cli[s])'
    BY <1>0, <1>2 DEF Goes, Same, CommandInv, PidPart, UpPart
  <1>5. SavedPart(cli[s])'
    BY <1>0 DEF Goes, Same, CommandInv, SavedPart
  <1>6. MarkerPart(cli[s])'
    BY <1>0 DEF Goes, Same, CommandInv, MarkerPart, NoneUp
  <1>7. SafePart(cli[s])'
    BY <1>0 DEF Goes, Same, CommandInv, SafePart
  <1>8. DiskPart(cli[s])'
    BY <1>0 DEF Goes, CommandInv, DiskPart
  <1> QED BY <1>1, <1>3, <1>4, <1>5, <1>6, <1>7, <1>8 DEF CommandInv

-------------------------------------------------------------------------------
(* The steps of a command.                                                 *)

LEMMA TypeStep ==
    ASSUME Shape, NEW s \in Shells, CommandInv(cli[s]), Type(s)
    PROVE  Shape' /\ CommandInv(cli[s])'
  <1>1. PICK name \in {"start", "stop", "restart"}, want \in Addresses, force \in BOOLEAN,
             pc \in {"read", "look", "load"} :
                 cli' = [cli EXCEPT ![s] = [NoCommand EXCEPT
                            !.name = name, !.want = want, !.force = force, !.pc = pc]]
    <2>1. PICK name \in {"start", "stop", "restart"}, want \in Addresses, force \in BOOLEAN :
              /\ name = "start" => ~force
              /\ name = "stop" => want = CHOOSE a \in Addresses : TRUE
              /\ cli' = [cli EXCEPT ![s] = [NoCommand EXCEPT
                           !.name = name, !.want = want, !.force = force,
                           !.pc = CASE name = "start" -> "read"
                                    [] name = "stop" -> "look"
                                    [] name = "restart" -> "load"]]
      BY Zenon DEF Type
    <2> DEFINE first == CASE name = "start" -> "read"
                          [] name = "stop" -> "look"
                          [] name = "restart" -> "load"
    <2>2. first \in {"read", "look", "load"}
      OBVIOUS
    <2>3. cli' = [cli EXCEPT ![s] = [NoCommand EXCEPT
                    !.name = name, !.want = want, !.force = force, !.pc = first]]
      BY <2>1
    <2> HIDE DEF first
    <2> QED BY <2>2, <2>3
  <1> DEFINE k == [NoCommand EXCEPT !.name = name, !.want = want, !.force = force, !.pc = pc]
  <1>2. /\ k \in Commands /\ k.pc = pc /\ k.want = want /\ k.pid = NULL
        /\ k.told = "nothing" /\ k.marker = NULL
    BY DEF NoCommand, Commands, Pcs
  <1>3. cli' \in [Shells -> Commands] /\ cli'[s] = k
    BY <1>1, <1>2 DEF Shape
  <1>4. /\ UNCHANGED <<proc, exe, config, parent, outsiders, pid_file, ready_file, config_file,
                       config_disk>>
        /\ cli[s].pc = "idle"
    BY DEF Type, At, processes, files
  <1>5. Shape'
    BY <1>3, <1>4 DEF Shape
  <1> HIDE DEF k
  <1>6. PidPart(cli[s])' /\ UpPart(cli[s])'
    BY <1>2, <1>3, <1>4 DEF CommandInv, PidPart, UpPart
  <1>7. SavedPart(cli[s])' /\ MarkerPart(cli[s])' /\ SafePart(cli[s])' /\ DiskPart(cli[s])'
    BY <1>2, <1>3, <1>4 DEF CommandInv, SavedPart, MarkerPart, SafePart, DiskPart
  <1> QED BY <1>5, <1>6, <1>7 DEF CommandInv

\* A command that looks at a file, and nothing else changes.
LEMMA LookingSteps ==
    ASSUME Shape, NEW s \in Shells, CommandInv(cli[s]),
           Load(s) \/ Read(s) \/ (Look(s) /\ pid_file # NULL)
    PROVE  Shape' /\ CommandInv(cli[s])'
  <1>0. config_file # TORN /\ config_file \in Addresses \cup {NULL}
    BY DEF CommandInv, DiskPart, Shape
  <1>1. cli[s] \in Commands /\ UNCHANGED <<proc, exe, config, parent, outsiders, files>>
    BY <1>0 DEF Shape, Load, Read, Look, processes, files
  <1>2. cli[s].pc \in {"load", "read", "look"}
    BY DEF Load, Read, Look, At
  <1>3. PICK k \in Commands :
            /\ cli' = [cli EXCEPT ![s] = k] /\ k.told = cli[s].told /\ k.marker = cli[s].marker
            /\ k.want \in Addresses
            /\ \/ k.pc = "look"
               \/ k.pc = "clean" /\ pid_file = NULL
               \/ k.pc \in {"owner", "judge"} /\ k.pid = pid_file /\ pid_file # NULL
    <2>0. cli[s].want \in Addresses
      BY <1>2 DEF CommandInv, SavedPart
    <2>1. CASE Load(s)
      <3> DEFINE want == IF config_file = NULL THEN cli[s].want ELSE config_file
                 k == [cli[s] EXCEPT !.pc = "look", !.want = want]
      <3>1. k \in Commands /\ k.told = cli[s].told /\ k.marker = cli[s].marker
            /\ k.want \in Addresses /\ k.pc = "look"
        BY <1>0, <1>1, <2>0 DEF Commands, Pcs
      <3>2. cli' = [cli EXCEPT ![s] = k]
        BY <1>0, <2>1 DEF Load
      <3> QED BY <3>1, <3>2
    <2>2. CASE Read(s)
      <3> DEFINE k == [cli[s] EXCEPT !.pid = pid_file,
                                     !.pc = IF pid_file = NULL THEN "clean" ELSE "owner"]
      <3>1. k \in Commands /\ k.told = cli[s].told /\ k.marker = cli[s].marker
            /\ k.want \in Addresses /\ k.pid = pid_file
            /\ k.pc = IF pid_file = NULL THEN "clean" ELSE "owner"
        <4>1. (IF pid_file = NULL THEN "clean" ELSE "owner") \in Pcs
          BY DEF Pcs
        <4>2. pid_file \in Pids \cup {NULL}
          BY DEF Shape
        <4> QED BY <1>1, <2>0, <4>1, <4>2 DEF Commands
      <3>2. cli' = [cli EXCEPT ![s] = k]
        BY <2>2 DEF Read
      <3> QED BY <3>1, <3>2
    <2>3. CASE Look(s) /\ pid_file # NULL
      <3> DEFINE k == [cli[s] EXCEPT !.pid = pid_file, !.pc = "judge"]
      <3>1. k \in Commands /\ k.told = cli[s].told /\ k.marker = cli[s].marker
            /\ k.want \in Addresses /\ k.pid = pid_file /\ k.pc = "judge"
        BY <1>1, <2>0 DEF Commands, Pcs, Shape
      <3>2. cli' = [cli EXCEPT ![s] = k]
        BY <2>3 DEF Look
      <3> QED BY <2>3, <3>1, <3>2
    <2> QED BY <2>1, <2>2, <2>3
  <1>4. cli' \in [Shells -> Commands] /\ cli'[s] = k
    BY <1>3 DEF Shape
  <1>5. Shape' /\ UNCHANGED <<pid_file, ready_file, config_file, config_disk>>
    BY <1>1, <1>4 DEF Shape, files
  <1>6. PidPart(cli[s])'
    BY <1>3, <1>4, <1>5 DEF PidPart, Shape
  <1>7. UpPart(cli[s])'
    BY <1>1, <1>2, <1>3, <1>4, <1>5 DEF CommandInv, UpPart
  <1>8. SavedPart(cli[s])' /\ SafePart(cli[s])'
    BY <1>1, <1>2, <1>3, <1>4, <1>5 DEF CommandInv, SavedPart, SafePart
  <1>9. MarkerPart(cli[s])' /\ DiskPart(cli[s])'
    BY <1>1, <1>2, <1>3, <1>4, <1>5 DEF CommandInv, MarkerPart, DiskPart, NoneUp
  <1> QED BY <1>5, <1>6, <1>7, <1>8, <1>9 DEF CommandInv

LEMMA OwnerStep ==
    ASSUME Shape, NEW s \in Shells, CommandInv(cli[s]), Owner(s) \/ Judge(s)
    PROVE  Shape' /\ CommandInv(cli[s])'
  <1>1. cli[s].pc \in {"owner", "judge"} /\ UNCHANGED <<outsiders, files>>
    BY DEF Owner, Judge, At
  <1>2. CASE Belongs(s)
    <2>1. Return(s, "error")
      BY <1>2 DEF Owner, Judge
    <2> QED BY <1>1, <2>1, Returns DEF files
  <1>3. CASE ~Belongs(s)
    <2>1. PICK there \in {"alive", "probe"} :
              /\ Goto(s, there) /\ UNCHANGED processes
              /\ cli[s].pc = IF there = "alive" THEN "owner" ELSE "judge"
      BY <1>3 DEF Owner, Judge, At
    <2>2. Goes(s, cli[s].pc, there)
      BY <2>1, GotoGoes DEF Pcs
    <2>3. proc[cli[s].pid] = "foreign" => exe[cli[s].pid] # "other"
      BY <1>3 DEF Belongs, process_alive, is_owned_process
    <2> QED BY <1>1, <2>1, <2>2, <2>3, Walks
  <1> QED BY <1>2, <1>3

LEMMA AliveStep ==
    ASSUME Shape, NEW s \in Shells, CommandInv(cli[s]), Alive(s)
    PROVE  Shape' /\ CommandInv(cli[s])'
  <1>1. cli[s].pc = "alive" /\ UNCHANGED <<outsiders, files>>
    BY DEF Alive, At
  <1>2. CASE process_alive(cli[s].pid)
    BY <1>1, <1>2, Returns DEF Alive, files
  <1>3. CASE ~process_alive(cli[s].pid)
    <2>1. Goto(s, "unpid") /\ UNCHANGED processes /\ proc[cli[s].pid] = "free"
      BY <1>3 DEF Alive, process_alive
    <2>2. Goes(s, "alive", "unpid")
      BY <1>1, <2>1, GotoGoes DEF Pcs
    <2> QED BY <1>1, <2>1, <2>2, Walks
  <1> QED BY <1>2, <1>3

\* The PID file goes: what it named is not up.
LEMMA PidGoes ==
    ASSUME Shape, NEW s \in Shells, CommandInv(cli[s]), RemovePid(s) \/ Unpid(s)
    PROVE  Shape' /\ CommandInv(cli[s])'
  <1>1. /\ pid_file' = NULL /\ cli[s].pc \in {"unpid", "unpid2", "forget"}
        /\ UNCHANGED <<proc, exe, config, parent, outsiders, ready_file, config_file, config_disk>>
    BY DEF RemovePid, Unpid, At, processes
  <1>2. PICK there \in {"clean", "unready", "unmark"} : Goes(s, cli[s].pc, there)
    BY GotoGoes DEF RemovePid, Unpid, Pcs
  <1>3. NoneUp
    BY <1>1 DEF CommandInv, UpPart, NoneUp
  <1>4. Shape'
    BY <1>1, <1>2 DEF Shape, Goes
  <1>5. PidPart(cli[s])' /\ UpPart(cli[s])'
    BY <1>1, <1>2, <1>3 DEF Goes, Same, PidPart, UpPart, NoneUp
  <1>6. SavedPart(cli[s])'
    BY <1>1, <1>2, <1>3 DEF Goes, Same, CommandInv, SavedPart, NoneUp
  <1>7. MarkerPart(cli[s])' /\ SafePart(cli[s])' /\ DiskPart(cli[s])'
    BY <1>1, <1>2 DEF Goes, Same, CommandInv, MarkerPart, SafePart, DiskPart, NoneUp
  <1> QED BY <1>4, <1>5, <1>6, <1>7 DEF CommandInv

LEMMA RemoveReadyStep ==
    ASSUME Shape, NEW s \in Shells, CommandInv(cli[s]), RemoveReady(s)
    PROVE  Shape' /\ CommandInv(cli[s])'
  <1>1. /\ ready_file' = NULL /\ cli[s].pc = "clean"
        /\ UNCHANGED <<proc, exe, config, parent, outsiders, pid_file, config_file, config_disk>>
    BY DEF RemoveReady, At, processes
  <1>2. Goes(s, "clean", "save")
    BY <1>1, GotoGoes DEF RemoveReady, Pcs
  <1>3. Shape'
    BY <1>1, <1>2 DEF Shape, Goes
  <1>4. PidPart(cli[s])' /\ UpPart(cli[s])' /\ SavedPart(cli[s])'
    BY <1>1, <1>2 DEF Goes, Same, CommandInv, PidPart, UpPart, SavedPart
  <1>5. MarkerPart(cli[s])' /\ SafePart(cli[s])' /\ DiskPart(cli[s])'
    BY <1>1, <1>2 DEF Goes, Same, CommandInv, MarkerPart, SafePart, DiskPart, NoneUp
  <1> QED BY <1>3, <1>4, <1>5 DEF CommandInv

\* The temporary is made, filled and flushed, or the command gives up.
LEMMA SaveSteps ==
    ASSUME Shape, NEW s \in Shells, CommandInv(cli[s]), Save(s) \/ Fill(s) \/ Sync(s)
    PROVE  Shape' /\ CommandInv(cli[s])'
  <1>1. /\ cli[s].pc \in {"save", "fill", "sync"} /\ UNCHANGED <<outsiders, files>>
        /\ cli[s] \in Commands
    BY DEF Save, Fill, Sync, At, Shape
  <1>2. CASE Return(s, "error")
    BY <1>1, <1>2, Returns DEF files
  <1>3. CASE ~Return(s, "error")
    <2>1. PICK there \in {"fill", "sync", "commit"}, tmp \in {"torn", "written", "synced"} :
              /\ cli' = [cli EXCEPT ![s].pc = there, ![s].tmp = tmp] /\ UNCHANGED processes
              /\ <<cli[s].pc, there, tmp>> \in {<<"save", "fill", "torn">>,
                                               <<"fill", "sync", "written">>,
                                               <<"sync", "commit", "synced">>}
      BY <1>3 DEF Save, Fill, Sync, At
    <2> DEFINE k == [cli[s] EXCEPT !.pc = there, !.tmp = tmp]
    <2>2. /\ k \in Commands /\ k.pc = there /\ k.pid = cli[s].pid /\ k.want = cli[s].want
          /\ k.told = cli[s].told /\ k.marker = cli[s].marker /\ k.tmp = tmp
      <3>1. there \in Pcs
        BY <2>1 DEF Pcs
      <3>2. tmp \in {"none", "torn", "written", "synced"}
        BY <2>1
      <3> QED BY <1>1, <3>1, <3>2 DEF Commands
    <2>3. cli' = [cli EXCEPT ![s] = k]
      BY <2>1
    <2> HIDE DEF k
    <2>4. cli' \in [Shells -> Commands] /\ cli'[s] = k
      BY <2>2, <2>3 DEF Shape
    <2>5. Goes(s, cli[s].pc, there)
      BY <2>2, <2>4 DEF Goes, Same
    <2> QED BY <1>1, <2>1, <2>2, <2>4, <2>5, Walks
  <1> QED BY <1>2, <1>3

\* A temporary that is on the disk takes the name of the configuration.
LEMMA CommitStep ==
    ASSUME Shape, NEW s \in Shells, CommandInv(cli[s]), Commit(s)
    PROVE  Shape' /\ CommandInv(cli[s])'
  <1>1. /\ cli[s].pc = "commit" /\ UNCHANGED <<outsiders, pid_file, ready_file>>
        /\ cli[s] \in Commands
    BY DEF Commit, At, Shape
  <1>2. /\ cli[s].want \in Addresses /\ pid_file = NULL /\ cli[s].tmp = "synced"
        /\ ready_file = NULL
    BY <1>1 DEF CommandInv, SavedPart, PidPart, MarkerPart, DiskPart
  <1>3. CASE Return(s, "error") /\ UNCHANGED <<config_file, config_disk>>
    BY <1>1, <1>3, Returns
  <1>4. CASE ~(Return(s, "error") /\ UNCHANGED <<config_file, config_disk>>)
    <2>1. /\ config_file' = cli[s].want /\ config_disk' = cli[s].want
          /\ cli' = [cli EXCEPT ![s].pc = "spawn", ![s].tmp = "none"]
          /\ UNCHANGED <<proc, exe, config, parent>>
      BY <1>2, <1>4 DEF Commit, processes
    <2> DEFINE k == [cli[s] EXCEPT !.pc = "spawn", !.tmp = "none"]
    <2>2. /\ k \in Commands /\ k.pc = "spawn" /\ k.pid = cli[s].pid /\ k.want = cli[s].want
          /\ k.told = cli[s].told /\ k.marker = cli[s].marker
      BY <1>1 DEF Commands, Pcs
    <2>3. cli' = [cli EXCEPT ![s] = k]
      BY <2>1
    <2> HIDE DEF k
    <2>4. cli' \in [Shells -> Commands] /\ cli'[s] = k
      BY <2>2, <2>3 DEF Shape
    <2>5. Goes(s, "commit", "spawn")
      BY <1>1, <2>2, <2>4 DEF Goes, Same
    <2>6. Shape'
      BY <1>1, <1>2, <2>1, <2>5 DEF Shape, Goes
    <2>7. PidPart(cli[s])' /\ UpPart(cli[s])'
      BY <1>1, <2>1, <2>5 DEF Goes, Same, CommandInv, PidPart, UpPart
    <2>8. SavedPart(cli[s])'
      BY <1>1, <1>2, <2>1, <2>5, NullIsNothing DEF Goes, Same, SavedPart
    <2>9. MarkerPart(cli[s])' /\ SafePart(cli[s])'
      BY <1>1, <2>1, <2>5 DEF Goes, Same, CommandInv, MarkerPart, SafePart, NoneUp
    <2>10. DiskPart(cli[s])'
      BY <1>2, <2>1, <2>5, TornIsNothing DEF Goes, DiskPart
    <2> QED BY <2>6, <2>7, <2>8, <2>9, <2>10 DEF CommandInv
  <1> QED BY <1>3, <1>4

\* The child is the only one that is up.
LEMMA SpawnStep ==
    ASSUME Shape, NEW s \in Shells, CommandInv(cli[s]), Spawn(s)
    PROVE  Shape' /\ CommandInv(cli[s])'
  <1>1. /\ cli[s].pc = "spawn"
        /\ UNCHANGED <<outsiders, pid_file, ready_file, config_file, config_disk>>
    BY DEF Spawn, At, files
  <1>2. CASE Return(s, "error")
    BY <1>1, <1>2, Returns
  <1>3. CASE ~Return(s, "error")
    <2>1. PICK p \in Pids :
              /\ proc' = [proc EXCEPT ![p] = "booting"] /\ exe' = [exe EXCEPT ![p] = "same"]
              /\ config' = [config EXCEPT ![p] = cli[s].want]
              /\ parent' = [parent EXCEPT ![p] = s]
              /\ cli' = [cli EXCEPT ![s].pid = p, ![s].pc = "write"]
      BY <1>3 DEF Spawn
    <2> DEFINE k == [cli[s] EXCEPT !.pid = p, !.pc = "write"]
    <2>2. /\ k \in Commands /\ k.pc = "write" /\ k.pid = p /\ k.want = cli[s].want
          /\ k.told = cli[s].told /\ k.marker = cli[s].marker
      <3>1. cli[s] \in Commands
        BY DEF Shape
      <3>2. "write" \in Pcs
        BY DEF Pcs
      <3> QED BY <3>1, <3>2 DEF Commands
    <2>3. cli' \in [Shells -> Commands] /\ cli'[s] = k
      <3>1. cli' = [cli EXCEPT ![s] = k]
        BY <2>1
      <3> QED BY <2>2, <3>1 DEF Shape
    <2> HIDE DEF k
    <2>4. pid_file = NULL /\ ready_file = NULL /\ config_file = cli[s].want /\ NoneUp
          /\ cli[s].want \in Addresses /\ p # NULL
      BY <1>1, NullIsNothing
      DEF CommandInv, PidPart, MarkerPart, SavedPart, UpPart, NoneUp, Shape
    <2>5. Shape'
      BY <1>1, <2>1, <2>3, <2>4 DEF Shape, ProcStates, Links, Up
    <2>6. proc'[p] = "booting" /\ config'[p] = cli[s].want
          /\ \A q \in Pids \ {p} : proc'[q] = proc[q] /\ exe'[q] = exe[q]
      BY <2>1 DEF Shape
    <2>7. PidPart(cli[s])' /\ UpPart(cli[s])'
      BY <1>1, <2>2, <2>3, <2>4, <2>6 DEF PidPart, UpPart, NoneUp
    <2>8. SavedPart(cli[s])'
      BY <1>1, <2>2, <2>3, <2>4, <2>6, NullIsNothing DEF SavedPart
    <2>9. MarkerPart(cli[s])' /\ SafePart(cli[s])' /\ DiskPart(cli[s])'
      BY <1>1, <2>2, <2>3, <2>4, <2>6 DEF CommandInv, MarkerPart, SafePart, DiskPart
    <2> QED BY <2>5, <2>7, <2>8, <2>9 DEF CommandInv
  <1> QED BY <1>2, <1>3

\* A signal to a process: nobody else is touched, and nobody comes up.
Signalled(p) ==
    /\ UNCHANGED <<config, parent>>
    /\ proc' \in [Pids -> ProcStates] /\ exe' \in [Pids -> Links]
    /\ \A q \in Pids : q # p => proc'[q] = proc[q] /\ exe'[q] = exe[q]
    /\ proc'[p] # "foreign"
    /\ proc'[p] = "shot" => proc[p] \in {"foreign", "shot"} /\ exe'[p] = exe[p]
    /\ proc'[p] \in Up => proc[p] \in Up

LEMMA Signals ==
    ASSUME Shape, NEW p \in Pids, Kill(p) \/ Term(p)
    PROVE  Signalled(p) /\ (Kill(p) => proc'[p] \notin Up)
  <1>1. PICK state \in ProcStates :
            /\ proc' = [proc EXCEPT ![p] = state] /\ UNCHANGED <<config, parent>>
            /\ exe' = exe \/ (state = "free" /\ exe' = [exe EXCEPT ![p] = "same"])
            /\ state # "foreign"
            /\ state = "shot" => proc[p] \in {"foreign", "shot"}
            /\ state \in Up => proc[p] \in Up /\ ~Kill(p)
    <2>1. CASE UNCHANGED processes /\ proc[p] \notin Up \cup {"foreign"}
      <3>1. proc' = [proc EXCEPT ![p] = proc[p]] /\ UNCHANGED <<exe, config, parent>>
            /\ proc[p] \in ProcStates
        BY <2>1 DEF Shape, processes
      <3> QED BY <2>1, <3>1
    <2>2. CASE \E state \in {"dying", "shot", "draining", "free", "zombie"} :
                  /\ Becomes(p, state)
                  /\ state = "shot" => proc[p] = "foreign"
                  /\ state = "draining" => proc[p] \in Up /\ ~Kill(p)
      <3>1. PICK state \in {"dying", "shot", "draining", "free", "zombie"} :
                  /\ Becomes(p, state)
                  /\ state = "shot" => proc[p] = "foreign"
                  /\ state = "draining" => proc[p] \in Up /\ ~Kill(p)
        BY <2>2
      <3>2. state \in ProcStates /\ (state \in Up => state = "draining")
        BY DEF ProcStates, Up
      <3> QED BY <3>1, <3>2 DEF Becomes
    <2>3. CASE Kill(p)
      BY <2>1, <2>2, <2>3 DEF Kill
    <2>4. CASE Term(p) /\ ~Kill(p)
      <3>1. CASE proc[p] \in {"booting", "bound", "ready"}
        BY <2>2, <2>4, <3>1 DEF Term, Dies
      <3>2. CASE proc[p] = "serving"
        <4>1. Becomes(p, "draining") /\ proc[p] \in Up
          BY <2>4, <3>2 DEF Term, Up
        <4> QED BY <2>2, <2>4, <4>1
      <3>3. CASE proc[p] = "foreign"
        BY <2>2, <2>4, <3>3 DEF Term
      <3>4. CASE proc[p] = "draining"
        <4>1. UNCHANGED processes
          BY <2>4, <3>4 DEF Term
        <4>2. /\ proc' = [proc EXCEPT ![p] = "draining"] /\ UNCHANGED <<exe, config, parent>>
              /\ "draining" \in ProcStates /\ proc[p] \in Up
          BY <3>4, <4>1 DEF Shape, processes, ProcStates, Up
        <4> QED BY <2>4, <4>2
      <3>5. CASE proc[p] \notin Up \cup {"foreign"}
        BY <2>1, <2>4, <3>5 DEF Term, Up
      <3> QED BY <3>1, <3>2, <3>3, <3>4, <3>5 DEF Up
    <2> QED BY <2>3, <2>4
  <1> QED BY <1>1 DEF Shape, Signalled, Links

LEMMA WritePidStep ==
    ASSUME Shape, NEW s \in Shells, CommandInv(cli[s]), WritePid(s)
    PROVE  Shape' /\ CommandInv(cli[s])'
  <1>1. cli[s].pc = "write" /\ UNCHANGED <<outsiders, ready_file, config_file, config_disk>>
    BY DEF WritePid, At
  <1>2. /\ cli[s].pid \in Pids /\ pid_file = NULL /\ config_file = cli[s].want
        /\ config[cli[s].pid] = cli[s].want
        /\ proc[cli[s].pid] \notin {"foreign", "shot"}
        /\ \A p \in Pids : proc[p] \in Up => p = cli[s].pid
    BY <1>1, NullIsNothing DEF CommandInv, PidPart, UpPart, SavedPart, SafePart
  <1>3. CASE pid_file' = cli[s].pid /\ UNCHANGED processes
             /\ cli' = [cli EXCEPT ![s].pc = "wait", ![s].late = FALSE]
    <2> DEFINE k == [cli[s] EXCEPT !.pc = "wait", !.late = FALSE]
    <2>1. /\ k \in Commands /\ k.pc = "wait" /\ k.pid = cli[s].pid /\ k.want = cli[s].want
          /\ k.told = cli[s].told /\ k.marker = cli[s].marker
      <3>1. cli[s] \in Commands
        BY DEF Shape
      <3>2. "wait" \in Pcs
        BY DEF Pcs
      <3> QED BY <3>1, <3>2 DEF Commands
    <2>2. cli' \in [Shells -> Commands] /\ cli'[s] = k
      <3>1. cli' = [cli EXCEPT ![s] = k]
        BY <1>3
      <3> QED BY <2>1, <3>1 DEF Shape
    <2> HIDE DEF k
    <2>3. UNCHANGED <<proc, exe, config, parent>>
      BY <1>3 DEF processes
    <2>4. Shape'
      BY <1>1, <1>2, <1>3, <2>2, <2>3 DEF Shape
    <2>5. PidPart(cli[s])' /\ UpPart(cli[s])' /\ SavedPart(cli[s])'
      BY <1>1, <1>2, <1>3, <2>1, <2>2, <2>3 DEF CommandInv, PidPart, UpPart, SavedPart
    <2>6. MarkerPart(cli[s])' /\ SafePart(cli[s])' /\ DiskPart(cli[s])'
      BY <1>1, <2>1, <2>2, <2>3 DEF CommandInv, MarkerPart, SafePart, DiskPart, NoneUp
    <2> QED BY <2>4, <2>5, <2>6 DEF CommandInv
  <1>4. CASE Goto(s, "undo") /\ Kill(cli[s].pid) /\ UNCHANGED pid_file
    <2>1. Goes(s, "write", "undo")
      BY <1>1, <1>4, GotoGoes DEF Pcs
    <2>2. Signalled(cli[s].pid) /\ proc'[cli[s].pid] \notin Up
      BY <1>2, <1>4, Signals
    <2>3. NoneUp'
      BY <1>2, <2>2 DEF Signalled, NoneUp
    <2>4. Shape'
      BY <1>1, <1>4, <2>1, <2>2 DEF Shape, Goes, Signalled
    <2>5. PidPart(cli[s])' /\ UpPart(cli[s])' /\ SavedPart(cli[s])'
      BY <1>1, <1>2, <1>4, <2>1, <2>2, <2>3
      DEF Goes, Same, Signalled, CommandInv, PidPart, UpPart, SavedPart, NoneUp
    <2>6. MarkerPart(cli[s])' /\ SafePart(cli[s])' /\ DiskPart(cli[s])'
      BY <1>1, <1>2, <2>1, <2>2, <2>3
      DEF Goes, Same, Signalled, CommandInv, MarkerPart, SafePart, DiskPart
    <2> QED BY <2>4, <2>5, <2>6 DEF CommandInv
  <1> QED BY <1>3, <1>4 DEF WritePid

\* The two ways to signal: start gives its child up, stop asks or forces.
LEMMA SignalSteps ==
    ASSUME Shape, NEW s \in Shells, CommandInv(cli[s]), Fail(s) \/ Signal(s)
    PROVE  Shape' /\ CommandInv(cli[s])'
  <1>1. /\ cli[s].pc \in {"fail", "signal"}
        /\ UNCHANGED <<outsiders, pid_file, ready_file, config_file, config_disk>>
    BY DEF Fail, Signal, At, files
  <1>2. CASE Return(s, "error")
    BY <1>1, <1>2, Returns
  <1>3. CASE ~Return(s, "error")
    <2>1. /\ cli[s].pid \in Pids /\ cli[s].pid = pid_file
          /\ \A p \in Pids : proc[p] \in Up => p = pid_file
      BY <1>1 DEF CommandInv, PidPart, UpPart
    <2>2. PICK there \in {"reap", "drain"} :
              /\ Goes(s, cli[s].pc, there)
              /\ there = "reap" => Kill(cli[s].pid) /\ proc[cli[s].pid] \notin {"foreign", "shot"}
              /\ there = "drain" => cli[s].pc = "signal" /\ ~Refused(cli[s].pid)
      <3>1. CASE Fail(s)
        <4>1. cli[s].pc = "fail" /\ Kill(cli[s].pid) /\ Goto(s, "reap")
          BY <3>1 DEF Fail, At
        <4>2. Goes(s, cli[s].pc, "reap")
          BY <4>1, GotoGoes DEF Pcs
        <4>3. proc[cli[s].pid] \notin {"foreign", "shot"}
          BY <4>1 DEF CommandInv, SafePart
        <4> QED BY <4>1, <4>2, <4>3
      <3>2. CASE Signal(s)
        <4> DEFINE k == [cli[s] EXCEPT !.pc = "drain", !.late = FALSE]
        <4>1. /\ k \in Commands /\ k.pc = "drain" /\ k.pid = cli[s].pid /\ k.want = cli[s].want
              /\ k.told = cli[s].told /\ k.marker = cli[s].marker
          <5>1. cli[s] \in Commands
            BY DEF Shape
          <5>2. "drain" \in Pcs
            BY DEF Pcs
          <5> QED BY <5>1, <5>2 DEF Commands
        <4>2. cli' = [cli EXCEPT ![s] = k] /\ cli[s].pc = "signal" /\ ~Refused(cli[s].pid)
          BY <1>3, <3>2 DEF Signal, At
        <4> QED BY <4>1, <4>2 DEF Goes, Same, Shape
      <3> QED BY <3>1, <3>2
    <2>3. Signalled(cli[s].pid) /\ (Kill(cli[s].pid) => proc'[cli[s].pid] \notin Up)
      <3>1. Kill(cli[s].pid) \/ Term(cli[s].pid)
        BY <1>3 DEF Fail, Signal, terminate_pid
      <3> QED BY <2>1, <3>1, Signals
    <2>4. \A p \in Pids : proc'[p] \in Up => proc[p] \in Up
      BY <2>3 DEF Signalled
    <2>5. Shape'
      BY <1>1, <2>2, <2>3 DEF Shape, Goes, Signalled
    <2>6. PidPart(cli[s])' /\ UpPart(cli[s])'
      BY <1>1, <2>1, <2>2, <2>3, <2>4 DEF Goes, Same, PidPart, UpPart
    <2>7. SavedPart(cli[s])' /\ MarkerPart(cli[s])' /\ DiskPart(cli[s])'
      BY <1>1, <2>2, <2>3, <2>4
      DEF Goes, Same, Signalled, CommandInv, SavedPart, MarkerPart, DiskPart, NoneUp
    \* What is shot had a link that is neither another's nor denied.
    <2>8. proc[cli[s].pid] \in {"foreign", "shot"} => there = "drain" /\ exe[cli[s].pid] = "hidden"
      <3>1. exe[cli[s].pid] \in Links
        BY <2>1 DEF Shape
      <3> QED BY <2>1, <2>2, <3>1 DEF CommandInv, SafePart, Refused, Links
    <2>9. SafePart(cli[s])'
      BY <1>1, <2>1, <2>2, <2>3, <2>8 DEF Goes, Same, Signalled, CommandInv, SafePart
    <2> QED BY <2>5, <2>6, <2>7, <2>9 DEF CommandInv
  <1> QED BY <1>2, <1>3

\* The child has been waited for.
LEMMA ReapSteps ==
    ASSUME Shape, NEW s \in Shells, CommandInv(cli[s]), Reap(s) \/ Wait(s)
    PROVE  Shape' /\ CommandInv(cli[s])'
  <1>1. /\ cli[s].pc \in {"reap", "wait"}
        /\ UNCHANGED <<outsiders, pid_file, ready_file, config_file, config_disk>>
    BY DEF Reap, Wait, At, files
  <1>2. cli[s].pid \in Pids /\ cli[s].pid = pid_file
    BY <1>1 DEF CommandInv, PidPart
  <1>3. CASE UNCHANGED processes /\ ready_file # NULL /\ Wait(s)
             /\ cli' = [cli EXCEPT ![s].pc = "health", ![s].marker = ready_file]
    <2> DEFINE k == [cli[s] EXCEPT !.pc = "health", !.marker = ready_file]
    <2>1. /\ k \in Commands /\ k.pc = "health" /\ k.pid = cli[s].pid /\ k.want = cli[s].want
          /\ k.told = cli[s].told /\ k.marker = ready_file
      <3>1. cli[s] \in Commands /\ ready_file \in Pids \cup {NULL}
        BY DEF Shape
      <3>2. "health" \in Pcs
        BY DEF Pcs
      <3> QED BY <3>1, <3>2 DEF Commands
    <2>2. cli' \in [Shells -> Commands] /\ cli'[s] = k
      <3>1. cli' = [cli EXCEPT ![s] = k]
        BY <1>3
      <3> QED BY <2>1, <3>1 DEF Shape
    <2> HIDE DEF k
    <2>3. UNCHANGED <<proc, exe, config, parent>> /\ cli[s].pc = "wait"
      BY <1>3 DEF processes, Wait, At
    <2>4. ready_file = cli[s].pid
      BY <1>3, <2>3 DEF CommandInv, MarkerPart
    <2>5. Shape'
      BY <1>1, <2>2, <2>3 DEF Shape
    <2>6. PidPart(cli[s])' /\ UpPart(cli[s])' /\ SavedPart(cli[s])'
      BY <1>1, <1>2, <2>1, <2>2, <2>3 DEF CommandInv, PidPart, UpPart, SavedPart
    <2>7. MarkerPart(cli[s])' /\ SafePart(cli[s])' /\ DiskPart(cli[s])'
      BY <1>1, <2>1, <2>2, <2>3, <2>4 DEF CommandInv, MarkerPart, SafePart, DiskPart, NoneUp
    <2> QED BY <2>5, <2>6, <2>7 DEF CommandInv
  <1>4. CASE cli[s].late /\ Wait(s)
    BY <1>4, GotoGoes, Walks DEF Wait, At, Pcs
  <1>5. CASE /\ proc' = [proc EXCEPT ![cli[s].pid] = "free"]
             /\ parent' = [parent EXCEPT ![cli[s].pid] = NULL] /\ UNCHANGED <<exe, config>>
             /\ \/ Goto(s, "fail") /\ cli[s].pc = "wait"
                \/ Goto(s, "unpid2") /\ cli[s].pc = "reap"
    <2>1. PICK there \in {"fail", "unpid2"} :
              /\ Goes(s, cli[s].pc, there)
              /\ there = "unpid2" => cli[s].pc = "reap"
      BY <1>5, GotoGoes DEF Pcs
    <2>2. Shape'
      BY <1>1, <1>5, <2>1 DEF Shape, Goes, ProcStates
    <2>3. /\ \A p \in Pids : proc'[p] \in Up => proc[p] \in Up /\ p # cli[s].pid
          /\ \A p \in Pids : proc'[p] \in {proc[p], "free"}
      BY <1>2, <1>5 DEF Shape, Up
    <2>4. PidPart(cli[s])' /\ UpPart(cli[s])'
      BY <1>1, <1>2, <2>1, <2>3 DEF Goes, Same, CommandInv, PidPart, UpPart
    <2>5. SavedPart(cli[s])' /\ MarkerPart(cli[s])' /\ DiskPart(cli[s])'
      BY <1>1, <1>5, <2>1, <2>3
      DEF Goes, Same, CommandInv, SavedPart, MarkerPart, DiskPart, NoneUp
    <2>6. SafePart(cli[s])'
      BY <1>1, <1>2, <1>5, <2>1, <2>3 DEF Goes, Same, CommandInv, SafePart
    <2> QED BY <2>2, <2>4, <2>5, <2>6 DEF CommandInv
  <1> QED BY <1>3, <1>4, <1>5 DEF Reap, Wait, At

LEMMA EndingSteps ==
    ASSUME Shape, NEW s \in Shells, CommandInv(cli[s]), Undo(s) \/ Health(s) \/ Unready(s)
    PROVE  Shape' /\ CommandInv(cli[s])'
  <1>1. CASE Undo(s)
    BY <1>1, Returns DEF Undo, At, files
  <1>2. CASE Unready(s)
    BY <1>2, Returns DEF Unready, At
  <1>3. CASE Health(s)
    BY <1>3, Returns, GotoGoes, Walks DEF Health, At, Pcs, files
  <1> QED BY <1>1, <1>2, <1>3

LEMMA StoppingSteps ==
    ASSUME Shape, NEW s \in Shells, CommandInv(cli[s]),
           (Look(s) /\ pid_file = NULL) \/ Unmark(s) \/ Probe(s) \/ Drain(s)
    PROVE  Shape' /\ CommandInv(cli[s])'
  <1>1. CASE Look(s) /\ pid_file = NULL
    BY <1>1, Returns, GotoGoes, Walks DEF Look, Stopped, At, Pcs, files
  <1>2. CASE Unmark(s)
    <2>1. /\ cli[s].pc = "unmark" /\ ready_file' = NULL /\ pid_file = NULL
          /\ UNCHANGED <<outsiders, pid_file, config_file, config_disk>>
      BY <1>2 DEF Unmark, At, CommandInv, PidPart
    <2>2. CASE Return(s, "stopped")
      BY <2>1, <2>2, Returns
    <2>3. CASE Goto(s, "read") /\ UNCHANGED processes
      <3>1. Goes(s, "unmark", "read") /\ UNCHANGED <<proc, exe, config, parent>>
        BY <2>1, <2>3, GotoGoes DEF Pcs, processes
      <3>2. Shape'
        BY <2>1, <3>1 DEF Shape, Goes
      <3>3. PidPart(cli[s])' /\ UpPart(cli[s])' /\ SavedPart(cli[s])'
        BY <2>1, <3>1 DEF Goes, Same, CommandInv, PidPart, UpPart, SavedPart
      <3>4. MarkerPart(cli[s])' /\ SafePart(cli[s])' /\ DiskPart(cli[s])'
        BY <2>1, <3>1 DEF Goes, Same, CommandInv, MarkerPart, SafePart, DiskPart, NoneUp
      <3> QED BY <3>2, <3>3, <3>4 DEF CommandInv
    <2> QED BY <1>2, <2>2, <2>3 DEF Unmark, Stopped
  <1>3. CASE Probe(s)
    <2>1. /\ cli[s].pc = "probe" /\ UNCHANGED <<processes, outsiders, files>>
          /\ \/ Goto(s, "signal")
             \/ Goto(s, "forget") /\ proc[cli[s].pid] = "free"
      BY <1>3 DEF Probe, At, process_alive
    <2> QED BY <2>1, GotoGoes, Walks DEF Pcs
  <1>4. CASE Drain(s)
    <2>1. cli[s].pc = "drain" /\ UNCHANGED <<outsiders, files>>
      BY <1>4 DEF Drain, At
    <2>2. CASE Return(s, "error")
      BY <2>1, <2>2, Returns DEF files
    <2>3. CASE Goto(s, "forget") /\ UNCHANGED processes /\ proc[cli[s].pid] = "free"
      BY <2>1, <2>3, GotoGoes, Walks DEF Pcs
    <2>4. CASE cli' = [cli EXCEPT ![s].pc = "signal", ![s].force = TRUE] /\ UNCHANGED processes
      <3> DEFINE k == [cli[s] EXCEPT !.pc = "signal", !.force = TRUE]
      <3>1. /\ k \in Commands /\ k.pc = "signal" /\ k.pid = cli[s].pid /\ k.want = cli[s].want
            /\ k.told = cli[s].told /\ k.marker = cli[s].marker
        <4>1. cli[s] \in Commands
          BY DEF Shape
        <4>2. "signal" \in Pcs
          BY DEF Pcs
        <4> QED BY <4>1, <4>2 DEF Commands
      <3>2. cli' = [cli EXCEPT ![s] = k]
        BY <2>4
      <3>3. Goes(s, "drain", "signal")
        BY <2>1, <3>1, <3>2 DEF Goes, Same, Shape
      <3> QED BY <2>1, <2>4, <3>3, Walks
    <2> QED BY <1>4, <2>2, <2>3, <2>4 DEF Drain, process_alive
  <1> QED BY <1>1, <1>2, <1>3, <1>4

LEMMA ExpireStep ==
    ASSUME Shape, NEW s \in Shells, CommandInv(cli[s]), Expire(s)
    PROVE  Shape' /\ CommandInv(cli[s])'
  <1> DEFINE k == [cli[s] EXCEPT !.late = TRUE]
  <1>1. /\ k \in Commands /\ k.pc = cli[s].pc /\ k.pid = cli[s].pid /\ k.want = cli[s].want
        /\ k.told = cli[s].told /\ k.marker = cli[s].marker /\ k.tmp = cli[s].tmp
    <2>1. cli[s] \in Commands
      BY DEF Shape
    <2> QED BY <2>1 DEF Commands
  <1>2. cli' = [cli EXCEPT ![s] = k]
    BY DEF Expire
  <1>3. UNCHANGED <<proc, exe, config, parent, outsiders, pid_file, ready_file, config_file,
                    config_disk>>
    BY DEF Expire, processes, files
  <1>4. cli' \in [Shells -> Commands] /\ cli'[s] = k
    BY <1>1, <1>2 DEF Shape
  <1> HIDE DEF k
  <1>5. Shape'
    BY <1>3, <1>4 DEF Shape
  <1>6. PidPart(cli[s])' /\ UpPart(cli[s])' /\ SavedPart(cli[s])'
    BY <1>1, <1>3, <1>4 DEF CommandInv, PidPart, UpPart, SavedPart
  <1>7. MarkerPart(cli[s])' /\ SafePart(cli[s])' /\ DiskPart(cli[s])'
    BY <1>1, <1>3, <1>4 DEF CommandInv, MarkerPart, SafePart, DiskPart, NoneUp
  <1> QED BY <1>5, <1>6, <1>7 DEF CommandInv

LEMMA InterruptStep ==
    ASSUME Shape, NEW s \in Shells, CommandInv(cli[s]), Interrupt(s)
    PROVE  Shape' /\ CommandInv(cli[s])'
  <1>1. /\ Tidy /\ cli[s].pc # "write"
        /\ UNCHANGED <<outsiders, pid_file, ready_file, config_file, config_disk>>
    BY OrphanTidies DEF Interrupt, files
  <1>2. cli' \in [Shells -> Commands] /\ cli'[s] = NoCommand
    BY DEF Interrupt, Shape, NoCommand, Commands, Pcs
  <1>3. Shape'
    BY <1>1, <1>2 DEF Shape, Tidy
  <1>4. PidPart(cli[s])' /\ UpPart(cli[s])'
    BY <1>1, <1>2 DEF Tidy, CommandInv, PidPart, UpPart, NoCommand
  <1>5. SavedPart(cli[s])' /\ MarkerPart(cli[s])' /\ SafePart(cli[s])' /\ DiskPart(cli[s])'
    BY <1>1, <1>2 DEF Tidy, CommandInv, SavedPart, MarkerPart, SafePart, DiskPart, NoCommand
  <1> QED BY <1>3, <1>4, <1>5 DEF CommandInv

-------------------------------------------------------------------------------
(* The steps of the world around.                                          *)

\* A server goes on, or comes to an end.
LEMMA ServerSteps ==
    ASSUME Shape, NEW s \in Shells, CommandInv(cli[s]), NEW p \in Pids,
           Bind(p) \/ Announce(p) \/ Serve(p) \/ Shutdown(p) \/ Exit(p)
    PROVE  Shape' /\ CommandInv(cli[s])'
  <1>1. /\ UNCHANGED <<config, parent, outsiders, pid_file, config_file, config_disk, cli>>
        /\ proc[p] \in Up \cup {"dying", "shot"}
        /\ \/ proc[p] \in Up /\ \E state \in Up : proc' = [proc EXCEPT ![p] = state]
           \/ \E state \in {"free", "zombie"} : proc' = [proc EXCEPT ![p] = state]
        /\ exe' = exe \/ (proc'[p] = "free" /\ exe' = [exe EXCEPT ![p] = "same"])
        /\ \/ ready_file' = ready_file
           \/ ready_file' = p /\ proc[p] \in Up
    <2>1. /\ UNCHANGED <<config, parent, outsiders, pid_file, config_file, config_disk, cli>>
          /\ proc[p] \in Up \cup {"dying", "shot"}
      BY DEF Bind, Announce, Serve, Shutdown, Exit, Dies, Becomes, Up, files
    <2>2. /\ ready_file' = ready_file \/ (ready_file' = p /\ proc[p] \in Up)
          /\ \/ proc[p] \in Up /\ \E state \in Up : Becomes(p, state)
             \/ \E state \in {"free", "zombie"} : Becomes(p, state)
      BY DEF Bind, Announce, Serve, Shutdown, Exit, Dies, Up, files
    <2>3. CASE proc[p] \in Up /\ \E state \in Up : Becomes(p, state)
      <3>1. exe' = exe
        BY <2>3 DEF Becomes, Up
      <3> QED BY <2>1, <2>2, <2>3, <3>1 DEF Becomes
    <2>4. CASE \E state \in {"free", "zombie"} : Becomes(p, state)
      BY <2>1, <2>2, <2>4 DEF Becomes, Shape
    <2> QED BY <2>2, <2>3, <2>4
  <1>2. /\ \A q \in Pids : proc'[q] \in Up => proc[q] \in Up
        /\ \A q \in Pids : proc'[q] \in {"shot", "foreign"}
                             => proc'[q] = proc[q] /\ exe'[q] = exe[q]
    BY <1>1 DEF Shape, Up
  <1>3. Shape'
    BY <1>1 DEF Shape, ProcStates, Links
  <1>4. PidPart(cli[s])' /\ UpPart(cli[s])' /\ SavedPart(cli[s])'
    BY <1>1, <1>2 DEF CommandInv, PidPart, UpPart, SavedPart
  <1>5. ready_file' = ready_file \/ (ready_file' = p /\ (p = pid_file \/ p = cli[s].pid))
    BY <1>1 DEF CommandInv, UpPart
  <1>6. cli[s].pc \in {"save", "fill", "sync", "commit", "spawn"} => ready_file' = ready_file
    BY <1>1, NullIsNothing DEF CommandInv, UpPart, PidPart
  <1>7. cli[s].pc \in {"write", "wait", "health"} => ready_file' \in {NULL, cli[s].pid}
    BY <1>1, <1>5, NullIsNothing DEF CommandInv, MarkerPart, PidPart
  <1>8. MarkerPart(cli[s])' /\ DiskPart(cli[s])'
    BY <1>1, <1>2, <1>6, <1>7 DEF CommandInv, MarkerPart, DiskPart, NoneUp
  <1>9. SafePart(cli[s])'
    <2>1. /\ \A q \in Pids : proc'[q] = "foreign" => exe'[q] # "same"
          /\ \A q \in Pids : proc'[q] = "shot" => exe'[q] = "hidden"
      BY <1>2 DEF CommandInv, SafePart
    <2>2. cli[s].pc \in {"undo", "reap", "write", "wait", "health", "fail", "probe", "signal",
                         "drain"} => cli[s].pid \in Pids
      BY DEF CommandInv, PidPart, UpPart, Shape
    <2> QED BY <1>1, <1>2, <2>1, <2>2 DEF CommandInv, SafePart
  <1> QED BY <1>3, <1>4, <1>8, <1>9 DEF CommandInv

\* Other programs get a PID, and the binary is replaced, only while no command runs.
LEMMA OtherSteps ==
    ASSUME Shape, NEW s \in Shells, CommandInv(cli[s]),
           \/ \E p \in Pids : Foreign(p)
           \/ \E a \in Addresses : Outsider(a)
           \/ Upgrade
           \/ UNCHANGED vars
    PROVE  Shape' /\ CommandInv(cli[s])'
  <1> DEFINE Quiet ==
        /\ UNCHANGED <<config, parent, pid_file, ready_file, config_file, config_disk, cli>>
        /\ proc' \in [Pids -> ProcStates] /\ exe' \in [Pids -> Links]
        /\ outsiders' \subseteq Addresses
        /\ \A q \in Pids : /\ proc'[q] \in Up <=> proc[q] \in Up
                           /\ proc'[q] = "shot" => proc[q] = "shot" /\ exe'[q] = exe[q]
                           /\ proc'[q] = "foreign" => \/ proc[q] = "foreign" /\ exe'[q] = exe[q]
                                                      \/ cli[s].pc = "idle" /\ exe'[q] # "same"
  <1>1. ASSUME NEW p \in Pids, Foreign(p) PROVE Quiet
    <2>1. /\ UNCHANGED <<config, parent, outsiders, pid_file, ready_file, config_file, config_disk,
                         cli>>
          /\ proc[p] \in {"free", "foreign"}
      BY <1>1 DEF Foreign, Becomes, files
    <2>2. \/ /\ proc' = [proc EXCEPT ![p] = "foreign"] /\ cli[s].pc = "idle"
             /\ \E link \in Links \ {"same"} : exe' = [exe EXCEPT ![p] = link]
          \/ proc' = [proc EXCEPT ![p] = "free"] /\ exe' = [exe EXCEPT ![p] = "same"]
      BY <1>1 DEF Foreign, Becomes, At
    <2> QED BY <2>1, <2>2 DEF Shape, ProcStates, Links, Up
  <1>2. ASSUME (\E a \in Addresses : Outsider(a)) \/ UNCHANGED vars PROVE Quiet
    BY <1>2 DEF Outsider, Shape, vars, processes, files
  <1>3. ASSUME Upgrade PROVE Quiet
    <2>1. UNCHANGED <<proc, config, parent, outsiders, pid_file, ready_file, config_file,
                      config_disk, cli>>
      BY <1>3 DEF Upgrade, files
    <2>2. exe' = [q \in Pids |-> IF proc[q] \in Up \cup {"dying"} THEN "other" ELSE exe[q]]
      BY <1>3 DEF Upgrade
    <2> QED BY <2>1, <2>2 DEF Shape, Links, Up
  <1>4. Quiet
    BY <1>1, <1>2, <1>3
  <1> HIDE DEF Quiet
  <1>5. Shape'
    BY <1>4 DEF Quiet, Shape
  <1>6. PidPart(cli[s])' /\ UpPart(cli[s])' /\ SavedPart(cli[s])'
    BY <1>4 DEF Quiet, CommandInv, PidPart, UpPart, SavedPart
  <1>7. MarkerPart(cli[s])' /\ DiskPart(cli[s])'
    BY <1>4 DEF Quiet, CommandInv, MarkerPart, DiskPart, NoneUp
  <1>8. SafePart(cli[s])'
    <2>1. cli[s].pc \in {"undo", "reap", "write", "wait", "health", "fail", "probe", "signal",
                         "drain"} => cli[s].pid \in Pids
      BY DEF CommandInv, PidPart
    <2> QED BY <1>4, <2>1 DEF Quiet, CommandInv, SafePart
  <1> QED BY <1>5, <1>6, <1>7, <1>8 DEF CommandInv

\* After a power cut nothing runs, and the configuration is what was on the disk.
LEMMA PowerStep ==
    ASSUME Shape, NEW s \in Shells, CommandInv(cli[s]), Power
    PROVE  Shape' /\ CommandInv(cli[s])'
  <1>1. /\ proc' = [p \in Pids |-> "free"] /\ exe' = [p \in Pids |-> "same"]
        /\ parent' = [p \in Pids |-> NULL] /\ outsiders' = {}
        /\ cli' = [q \in Shells |-> NoCommand] /\ config_file' = config_disk
        /\ UNCHANGED <<config, pid_file, ready_file, config_disk>>
    BY DEF Power
  <1>2. cli' \in [Shells -> Commands] /\ cli'[s] = NoCommand
    BY <1>1 DEF NoCommand, Commands, Pcs
  <1>3. Shape'
    BY <1>1, <1>2 DEF Shape, ProcStates, Links
  <1>4. PidPart(cli[s])' /\ UpPart(cli[s])' /\ SavedPart(cli[s])'
    BY <1>1, <1>2 DEF NoCommand, PidPart, UpPart, SavedPart, Up
  <1>5. MarkerPart(cli[s])' /\ SafePart(cli[s])' /\ DiskPart(cli[s])'
    BY <1>1, <1>2 DEF NoCommand, MarkerPart, SafePart, CommandInv, DiskPart
  <1> QED BY <1>3, <1>4, <1>5 DEF CommandInv

LEMMA InvStep ==
    ASSUME NEW shell, Shells = {shell}
    PROVE  IInv /\ [Next]_vars => IInv'
  <1> SUFFICES ASSUME IInv, [Next]_vars PROVE IInv'
    OBVIOUS
  <1> DEFINE Kept == Shape' /\ CommandInv(cli[shell])'
  <1>0. shell \in Shells /\ Shape /\ CommandInv(cli[shell])
    BY DEF IInv
  <1>1. ASSUME Command(shell) PROVE Kept
    <2>1. CASE Load(shell) \/ Read(shell) \/ Look(shell)
      BY <1>0, <2>1, LookingSteps, StoppingSteps
    <2>2. CASE \/ Owner(shell) \/ Judge(shell) \/ Alive(shell) \/ RemovePid(shell)
               \/ Unpid(shell) \/ RemoveReady(shell) \/ Save(shell) \/ Fill(shell)
               \/ Sync(shell) \/ Commit(shell) \/ Spawn(shell)
      BY <1>0, <2>2, OwnerStep, AliveStep, PidGoes, RemoveReadyStep, SaveSteps, CommitStep,
         SpawnStep
    <2>3. CASE \/ WritePid(shell) \/ Fail(shell) \/ Signal(shell) \/ Reap(shell) \/ Wait(shell)
               \/ Undo(shell) \/ Health(shell) \/ Unready(shell) \/ Unmark(shell)
               \/ Probe(shell) \/ Drain(shell)
      BY <1>0, <2>3, WritePidStep, SignalSteps, ReapSteps, EndingSteps, StoppingSteps
    <2> QED BY <1>1, <2>1, <2>2, <2>3 DEF Command, Start, Stop
  <1>2. Kept
    BY <1>0, <1>1, TypeStep, ExpireStep, InterruptStep, ServerSteps, OtherSteps, PowerStep
    DEF Next
  <1> QED BY <1>2 DEF IInv

LEMMA InvAlways ==
    ASSUME NEW CONSTANT shell, Shells = {shell}
    PROVE  Spec => []IInv
  <1>1. IInv /\ [Next]_vars => IInv'
    BY InvStep
  <1> QED BY <1>1, InvInit, PTL DEF Spec

-------------------------------------------------------------------------------

\* The state keeps its shape.
THEOREM TypesAreKept ==
    ASSUME NEW CONSTANT shell, Shells = {shell}
    PROVE  Spec => []TypeOK
  <1>1. IInv => TypeOK
    BY DEF IInv, Shape, TypeOK, Commands, CommandInv, PidPart
  <1>2. Spec => []IInv
    BY InvAlways
  <1> QED BY <1>1, <1>2, PTL

\* start reports success on the marker of its own child, never on one that was
\* left behind.
THEOREM StartedByItsOwn ==
    ASSUME NEW CONSTANT shell, Shells = {shell}
    PROVE  Spec => []MarkerIsOwn
  <1>1. IInv => MarkerIsOwn
    BY DEF IInv, CommandInv, MarkerPart, MarkerIsOwn
  <1>2. Spec => []IInv
    BY InvAlways
  <1> QED BY <1>1, <1>2, PTL

\* A server that is up is the one of the PID file, however commands failed or
\* were killed before; so there are never two.
THEOREM NoServerIsLost ==
    ASSUME NEW CONSTANT shell, Shells = {shell}
    PROVE  Spec => []ServersAreManaged
  <1>1. IInv => ServersAreManaged
    BY DEF IInv, CommandInv, UpPart, ServersAreManaged, At
  <1>2. Spec => []IInv
    BY InvAlways
  <1> QED BY <1>1, <1>2, PTL

\* What restart would reuse is what the server runs with.
THEOREM RestartKnows ==
    ASSUME NEW CONSTANT shell, Shells = {shell}
    PROVE  Spec => []SavedIsRunning
  <1>1. IInv => SavedIsRunning
    BY DEF IInv, CommandInv, SavedPart, SavedIsRunning
  <1>2. Spec => []IInv
    BY InvAlways
  <1> QED BY <1>1, <1>2, PTL

\* The saved configuration can always be read, over failed saves, killed commands
\* and power cuts.
THEOREM SavedIsNeverTorn ==
    ASSUME NEW CONSTANT shell, Shells = {shell}
    PROVE  Spec => []SavedIsWhole
  <1>1. IInv => SavedIsWhole
    BY DEF IInv, CommandInv, DiskPart, SavedIsWhole
  <1>2. Spec => []IInv
    BY InvAlways
  <1> QED BY <1>1, <1>2, PTL

\* Kaiion is stopped when stop says so.
THEOREM StoppedMeansStopped ==
    ASSUME NEW CONSTANT shell, Shells = {shell}
    PROVE  Spec => []StoppedIsGone
  <1>1. IInv => StoppedIsGone
    BY DEF IInv, CommandInv, MarkerPart, NoneUp, StoppedIsGone
  <1>2. Spec => []IInv
    BY InvAlways
  <1> QED BY <1>1, <1>2, PTL

\* A program with a reused PID is killed only if its link cannot be read.
THEOREM NobodyElseIsKilled ==
    ASSUME NEW CONSTANT shell, Shells = {shell}
    PROVE  Spec => []OthersAreSafe
  <1>1. IInv => OthersAreSafe
    BY DEF IInv, CommandInv, SafePart, OthersAreSafe
  <1>2. Spec => []IInv
    BY InvAlways
  <1> QED BY <1>1, <1>2, PTL

===============================================================================
