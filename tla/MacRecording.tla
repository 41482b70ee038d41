----------------------------- MODULE MacRecording -----------------------------
(***************************************************************************)
(* A live recording on macOS (samply/src/mac/profiler.rs, sampler.rs,      *)
(* process_launcher.rs, task_profiler.rs, mach_ipc, and the library that   *)
(* is preloaded into launched processes, samply-mac-preload).              *)
(*                                                                         *)
(* A launched process sends its task port to samply and waits until it is  *)
(* told to proceed; a process that is attached to is suspended instead.    *)
(* The accepter thread receives the ports and hands them to the sampler    *)
(* thread, which samples all tasks in turn, while the main thread waits    *)
(* for the command, or for Ctrl+C.                                         *)
(*                                                                         *)
(* A task is a pid with the number of its executable image: exec gives a   *)
(* process a new task.                                                     *)
(***************************************************************************)
EXTENDS Integers, Sequences, FiniteSets, SequencesExt

CONSTANTS Modes,       \* the recording modes: "launch", "attach"
          Iterations,  \* iteration_count
          MaxPid,      \* bound: the processes
          ExecPids,    \* bound: the processes that may exec
          MaxImages,   \* bound: their executable images
          MaxFiles,    \* bound: jitdump and marker files
          MaxPresses   \* bound: how often Ctrl+C is pressed

ASSUME MacRecordingAssumption ==
  /\ Modes \subseteq {"launch", "attach"}
  /\ Iterations \in Nat \ {0}
  /\ MaxPid \in Nat \ {0}
  /\ ExecPids \subseteq 1 .. MaxPid /\ MaxImages \in Nat \ {0}
  /\ MaxFiles \in Nat /\ MaxPresses \in Nat

VARIABLES
  mode,       \* recording_mode; never changes
  samply,     \* the process: "alive", "done", "exited" early, or "panicked"
  main,       \* where the main thread is
  iter,       \* the iteration it is in
  root,       \* the pid of root_child
  ctrlC,      \* the Ctrl+C channel: has its sender, message and receiver
  presses,    \* how often Ctrl+C was pressed
  proc,       \* pid -> the process
  succeeded,  \* the processes that exited with success
  opened,     \* the tasks that opened a jitdump or marker file
  port,       \* the messages in the port of TaskAccepter::server
  serverUp,   \* that port and its name exist
  queue,      \* TaskAccepter::queue
  accepter,   \* where the accepter thread is
  hand,       \* the accepted task that is not started yet
  stopSent,   \* the message of the main thread to the accepter
  tasks,      \* the channel of tasks to the sampler, with Shutdown at its end
  senders,    \* path_senders_per_pid
  pending,    \* <<task, path>>: paths in the path channels of tasks
  sampler,    \* where the sampler thread is
  result,     \* what it returned
  live,       \* live_tasks
  todo,       \* those not yet visited in this round
  gaveUp,     \* tasks given up although they live: samply could not read them
  early       \* history: a task died before it was set up

procVars     == <<proc, succeeded, opened>>
mainVars     == <<samply, main, iter, root, stopSent>>
ctrlCVars    == <<ctrlC, presses>>
portVars     == <<port, serverUp>>
accepterVars == <<queue, accepter, hand, senders>>
samplerVars  == <<sampler, result, live, todo, gaveUp>>
vars == <<mode, procVars, mainVars, ctrlCVars, portVars, accepterVars,
          samplerVars, tasks, pending, early>>

Pids     == 1 .. MaxPid
Tasks    == Pids \X (1 .. MaxImages)
NoTask   == <<0, 0>>
Shutdown == <<0, 1>>     \* TaskInitOrShutdown::Shutdown

Process == [image : 0 .. MaxImages,
            state : {"none", "loading", "waiting", "suspended", "running", "dead"},
            reply : {"none", "proceed", "closed"},   \* in the port it waits on
            sender : BOOLEAN]                         \* CHANNEL_SENDER is set

TaskOf(p) == <<p, proc[p].image>>
TaskAlive(t) == proc[t[1]].image = t[2] /\ proc[t[1]].state \notin {"none", "dead"}

\* The receiving end of the path channel of a task: in TaskInit, then in TaskProfiler.
PathReceiver(t) == sampler # "ended" /\ (t \in ToSet(tasks) \/ t \in live)

TypeOK ==
  /\ mode \in Modes
  /\ samply \in {"alive", "done", "exited", "panicked"}
  /\ main \in {"launch", "wait", "ctrlc", "stop", "join_accepter", "join_sampler"}
  /\ iter \in 1 .. Iterations /\ root \in 0 .. MaxPid
  /\ ctrlC \in [sender : BOOLEAN, message : BOOLEAN, receiver : BOOLEAN]
  /\ presses \in 0 .. MaxPresses
  /\ proc \in [Pids -> Process]
  /\ succeeded \subseteq Pids /\ opened \subseteq Tasks
  /\ \A i \in DOMAIN port : port[i] \in [kind : {"task", "path"}, task : Tasks]
  /\ serverUp \in BOOLEAN /\ (~serverUp => port = <<>>)
  /\ ToSet(queue) \subseteq Tasks
  /\ accepter \in {"receive", "start", "ended", "panicked"}
  /\ hand \in Tasks \cup {NoTask}
  /\ stopSent \in BOOLEAN
  /\ ToSet(tasks) \subseteq Tasks \cup {Shutdown}
  /\ senders \in [Pids -> Tasks \cup {NoTask}]
  /\ pending \subseteq Tasks \X Tasks
  /\ sampler \in {"root", "poll", "sample", "ended"}
  /\ result \in {"none", "profile", "no_root", "panic"}
  /\ todo \subseteq live /\ live \subseteq Tasks
  /\ gaveUp \subseteq Tasks /\ early \in BOOLEAN

NoProcess == [image |-> 0, state |-> "none", reply |-> "none", sender |-> FALSE]
Attached  == [image |-> 1, state |-> "suspended", reply |-> "none", sender |-> FALSE]

\* ExistingProcessRunner::new: the root, then its descendants, are suspended and queued.
AttachQueue(n) == [i \in 1 .. n |-> <<i, 1>>]

Init ==
  /\ mode \in Modes
  /\ samply = "alive" /\ iter = 1 /\ root = 0 /\ stopSent = FALSE
  /\ main = IF mode = "launch" THEN "launch" ELSE "ctrlc"
  /\ ctrlC = [sender |-> TRUE, message |-> FALSE, receiver |-> TRUE]
  /\ presses = 0
  /\ \E n \in Pids :
       /\ mode = "launch" => n = 1
       /\ queue = IF mode = "attach" THEN AttachQueue(n) ELSE <<>>
       /\ proc = [p \in Pids |-> IF mode = "attach" /\ p <= n THEN Attached ELSE NoProcess]
  /\ succeeded = {} /\ opened = {}
  /\ port = <<>> /\ serverUp = TRUE
  /\ accepter = "receive" /\ hand = NoTask
  /\ senders = [p \in Pids |-> NoTask]
  /\ tasks = <<>> /\ pending = {}
  /\ sampler = "root" /\ result = "none"
  /\ live = {} /\ todo = {} /\ gaveUp = {} /\ early = FALSE

-----------------------------------------------------------------------------
(* Mach ports (mach_ipc)                                                   *)

\* OsIpcSender::send to the server fails once the port is gone.
SendToServer(message) == port' = IF serverUp THEN Append(port, message) ELSE port

\* A slip: the receiver asks for no notification of the loss of its senders.
NoSenders_silent(p) == proc[p]

\* request_no_senders_notification: with the last sender of its port, which is
\* in the message or with the accepter, a waiting process gets a notification.
NoSenders(p) ==
  IF proc[p].state = "waiting" /\ proc[p].reply = "none"
  THEN [proc[p] EXCEPT !.reply = "closed"] ELSE proc[p]

\* OsIpcMultiShotServer::drop and OsIpcReceiver::drop.
CloseServer ==
  /\ serverUp' = FALSE /\ port' = <<>>
  /\ proc' = [p \in Pids |-> NoSenders(p)]

-----------------------------------------------------------------------------
(* The processes and the preloaded library                                 *)

\* set_up_samply_connection, which runs before anything else in the image.
set_up_samply_connection(p) ==
  /\ proc[p].state = "loading"
  /\ mode = "launch" /\ serverUp
  /\ SendToServer([kind |-> "task", task |-> TaskOf(p)])
  /\ proc' = [proc EXCEPT ![p].state = "waiting", ![p].sender = TRUE]
  /\ UNCHANGED <<serverUp, succeeded, opened, early>>

\* The library is not preloaded (system commands, processes attached to), or
\* finds no server.
RunWithoutConnection(p) ==
  /\ proc[p].state = "loading"
  /\ proc' = [proc EXCEPT ![p].state = "running"]
  /\ UNCHANGED <<portVars, succeeded, opened, early>>

\* rx0.recv
ProceedOrClosed(p) ==
  /\ proc[p].state = "waiting" /\ proc[p].reply # "none"
  /\ proc' = [proc EXCEPT ![p].state = "running"]
  /\ UNCHANGED <<portVars, succeeded, opened, early>>

\* samply_hooked_open, samply_hooked_fopen
OpenFile(p) ==
  /\ proc[p].state = "running" /\ proc[p].sender
  /\ TaskOf(p) \notin opened /\ Cardinality(opened) < MaxFiles
  /\ SendToServer([kind |-> "path", task |-> TaskOf(p)])
  /\ opened' = opened \cup {TaskOf(p)}
  /\ UNCHANGED <<proc, serverUp, succeeded, early>>

\* Pids are given out in order, which loses nothing: they are not compared.
IsNextPid(q) == proc[q].state = "none" /\ \A p \in Pids : p < q => proc[p].state # "none"

\* A new image: the ports of the library are gone.
Image(n) == [image |-> n, state |-> "loading", reply |-> "none", sender |-> FALSE]

Spawn(p, q) ==
  /\ proc[p].state = "running" /\ IsNextPid(q)
  /\ proc' = [proc EXCEPT ![q] = Image(1)]
  /\ UNCHANGED <<portVars, succeeded, opened, early>>

Exec(p) ==
  /\ proc[p].state = "running" /\ p \in ExecPids /\ proc[p].image < MaxImages
  /\ proc' = [proc EXCEPT ![p] = Image(proc[p].image + 1)]
  /\ early' = (early \/ TaskOf(p) \in ToSet(tasks))
  /\ UNCHANGED <<portVars, succeeded, opened>>

\* A process exits or is killed.  (Only the status of the command is used.)
Exit(p) ==
  /\ proc[p].state \notin {"none", "dead"}
  /\ proc' = [proc EXCEPT ![p] = [Image(0) EXCEPT !.state = "dead"]]
  /\ \/ proc[p].state = "running" /\ p = root /\ succeeded' = succeeded \cup {p}
     \/ UNCHANGED succeeded
  /\ early' = (early \/ proc[p].state # "running" \/ TaskOf(p) \in ToSet(tasks))
  /\ UNCHANGED <<portVars, opened>>

\* What processes begin after the recording is of no interest.
ProcessNext ==
  /\ \E p \in Pids :
       \/ set_up_samply_connection(p) \/ RunWithoutConnection(p) \/ ProceedOrClosed(p)
       \/ /\ samply = "alive"
          /\ OpenFile(p) \/ Exec(p) \/ Exit(p) \/ \E q \in Pids : Spawn(p, q)
  /\ UNCHANGED <<mode, mainVars, ctrlCVars, accepterVars, samplerVars, tasks, pending>>

-----------------------------------------------------------------------------
(* The main thread                                                         *)

\* The process ends, by exit or by a panic of the main thread: its ports go.
End(how) ==
  /\ samply' = how
  /\ CloseServer
  /\ UNCHANGED <<main, iter, root, stopSent, ctrlC, succeeded>>

launch_child ==
  /\ main = "launch"
  /\ \/ /\ \E p \in Pids :
             /\ IsNextPid(p)
             /\ root' = p
             /\ proc' = [proc EXCEPT ![p] = Image(1)]
        /\ main' = "wait"
        /\ UNCHANGED <<samply, iter, stopSent, ctrlC, portVars, succeeded>>
     \/ End("exited")

\* The command has ended: go on with the next iteration, or close the Ctrl+C receiver.
root_child_wait ==
  /\ main = "wait" /\ proc[root].state = "dead"
  /\ IF root \in succeeded /\ iter < Iterations
     THEN iter' = iter + 1 /\ main' = "launch" /\ UNCHANGED ctrlC
     ELSE main' = "stop" /\ ctrlC' = [ctrlC EXCEPT !.receiver = FALSE] /\ UNCHANGED iter
  /\ UNCHANGED <<samply, root, stopSent, proc, succeeded, portVars>>

\* ExistingProcessRunner::run_root_task
blocking_recv ==
  /\ main = "ctrlc" /\ ctrlC.message
  /\ main' = "stop" /\ ctrlC' = [ctrlC EXCEPT !.receiver = FALSE, !.message = FALSE]
  /\ UNCHANGED <<samply, iter, root, stopSent, proc, succeeded, portVars>>

\* accepter_sender.send(()).expect(..)
stop_accepter ==
  /\ main = "stop"
  /\ IF accepter \in {"ended", "panicked"}
     THEN End("panicked")
     ELSE /\ stopSent' = TRUE /\ main' = "join_accepter"
          /\ UNCHANGED <<samply, iter, root, ctrlC, proc, succeeded, portVars>>

join_accepter ==
  /\ main = "join_accepter"
  /\ \/ /\ accepter = "ended"
        /\ main' = "join_sampler"
        /\ UNCHANGED <<samply, iter, root, stopSent, ctrlC, proc, succeeded, portVars>>
     \/ accepter = "panicked" /\ End("panicked")

\* Once the sampler has returned its profile it is saved and served.
join_sampler ==
  /\ main = "join_sampler" /\ sampler = "ended"
  /\ \/ /\ result = "profile"
        /\ samply' = "done"
        /\ UNCHANGED <<main, iter, root, stopSent, ctrlC, proc, succeeded, portVars>>
     \/ result = "no_root" /\ End("exited")
     \/ result = "panic" /\ End("panicked")

MainNext ==
  /\ samply = "alive"
  /\ launch_child \/ root_child_wait \/ blocking_recv \/ stop_accepter \/ join_accepter
     \/ join_sampler
  /\ UNCHANGED <<mode, presses, opened, accepterVars, samplerVars, tasks, pending, early>>

\* The handler of CtrlCState::get.
PressCtrlC ==
  /\ samply = "alive" /\ presses < MaxPresses
  /\ presses' = presses + 1
  /\ \/ /\ ctrlC.sender /\ ctrlC.receiver
        /\ ctrlC' = [ctrlC EXCEPT !.sender = FALSE, !.message = TRUE]
        /\ UNCHANGED <<mainVars, procVars, portVars>>
     \/ /\ ~(ctrlC.sender /\ ctrlC.receiver)
        /\ End("exited") /\ UNCHANGED opened
  /\ UNCHANGED <<mode, accepterVars, samplerVars, tasks, pending, early>>

-----------------------------------------------------------------------------
(* The accepter thread                                                     *)

\* A slip: the sampler is not told of the end.
SendToSampler_tasks_only(message) ==
  tasks' = IF sampler = "ended" \/ message = Shutdown THEN tasks ELSE Append(tasks, message)

\* task_sender.send fails once the sampler has returned.
SendToSampler(message) == tasks' = IF sampler = "ended" THEN tasks ELSE Append(tasks, message)

\* accepter_receiver.try_recv at the head of the loop.  The wait for a message that
\* follows is part of it: a stop sent during the wait is one sent after it.
accepter_stop ==
  /\ accepter = "receive" /\ stopSent
  /\ SendToSampler(Shutdown)
  /\ accepter' = "ended"
  /\ CloseServer
  /\ UNCHANGED <<queue, hand, senders, pending>>

\* A slip: the first task of a pid keeps its path channel.
SetPathSender_first(t) ==
  senders' = IF senders[t[1]] = NoTask THEN [senders EXCEPT ![t[1]] = t] ELSE senders

\* path_senders_per_pid.insert
SetPathSender(t) == senders' = [senders EXCEPT ![t[1]] = t]

\* A slip: the process is told to proceed before the sampler is told of it.
AcceptTask_late(t) ==
  /\ IF sampler \in {"root", "ended"} THEN SendToSampler(t) ELSE UNCHANGED tasks
  /\ SetPathSender(t)
  /\ hand' = t /\ accepter' = "start"

\* ReceivedStuff::AcceptedTask, up to start_execution.
AcceptTask(t) ==
  /\ SendToSampler(t)
  /\ SetPathSender(t)
  /\ hand' = t /\ accepter' = "start"

\* ReceivedStuff::JitdumpPath, MarkerFilePath, DotnetTracePath.
ForwardPath(t) ==
  LET receiver == senders[t[1]]
  IN  /\ accepter' = "receive"
      /\ \/ receiver = NoTask /\ UNCHANGED <<senders, pending>>
         \/ /\ receiver # NoTask /\ PathReceiver(receiver)
            /\ pending' = pending \cup {<<receiver, t>>}
            /\ UNCHANGED senders
         \/ /\ receiver # NoTask /\ ~PathReceiver(receiver)
            /\ senders' = [senders EXCEPT ![t[1]] = NoTask]
            /\ UNCHANGED pending

\* TaskAccepter::next_message: the queue, from its end; then the port.
next_message ==
  /\ accepter = "receive" /\ ~stopSent
  /\ \/ /\ queue # <<>>
        /\ AcceptTask(Last(queue))
        /\ queue' = Front(queue)
        /\ UNCHANGED <<port, pending>>
     \/ /\ queue = <<>> /\ port # <<>> /\ Head(port).kind = "task"
        /\ AcceptTask(Head(port).task)
        /\ port' = Tail(port)
        /\ UNCHANGED <<queue, pending>>
     \/ /\ queue = <<>> /\ port # <<>> /\ Head(port).kind = "path"
        /\ ForwardPath(Head(port).task)
        /\ port' = Tail(port)
        /\ UNCHANGED <<queue, hand, tasks>>
  /\ UNCHANGED <<proc, serverUp>>

\* AcceptedTask::start_execution: Proceed, whose send is unwrapped, or task_resume.
start_execution ==
  /\ accepter = "start"
  /\ hand' = NoTask
  /\ \/ /\ mode = "launch" /\ TaskAlive(hand)
        /\ accepter' = "receive"
        /\ proc' = [proc EXCEPT ![hand[1]].reply = "proceed"]
        /\ UNCHANGED portVars
     \/ /\ mode = "launch" /\ ~TaskAlive(hand)
        /\ accepter' = "panicked"
        /\ CloseServer
     \/ /\ mode = "attach"
        /\ accepter' = "receive"
        /\ proc' = IF TaskAlive(hand) THEN [proc EXCEPT ![hand[1]].state = "running"] ELSE proc
        /\ UNCHANGED portVars
  /\ UNCHANGED <<queue, senders, tasks, pending>>

AccepterNext ==
  /\ samply = "alive"
  /\ accepter_stop \/ next_message \/ start_execution
  /\ UNCHANGED <<mode, mainVars, ctrlCVars, succeeded, opened, samplerVars, early>>

-----------------------------------------------------------------------------
(* The sampler thread                                                      *)

Return(r) ==
  /\ sampler' = "ended" /\ result' = r
  /\ tasks' = <<>> /\ pending' = {} /\ live' = {} /\ todo' = {}

\* TaskProfiler::new asks the task for its libraries and threads: does it return
\* Ok?  Not for a task that has ended, and it may fail for one that lives.
TaskProfilerCreated(t) == IF TaskAlive(t) THEN BOOLEAN ELSE {FALSE}

\* The task is not sampled any more.
GiveUp(t) == gaveUp' = IF TaskAlive(t) THEN gaveUp \cup {t} ELSE gaveUp

\* The first message has to be a task, and a TaskProfiler has to be made for it.
recv_root ==
  /\ sampler = "root"
  /\ \/ /\ tasks # <<>> /\ Head(tasks) # Shutdown /\ TRUE \in TaskProfilerCreated(Head(tasks))
        /\ live' = {Head(tasks)}
        /\ tasks' = Tail(tasks) /\ sampler' = "poll"
        /\ UNCHANGED <<result, todo, gaveUp, pending>>
     \/ /\ tasks # <<>> /\ Head(tasks) # Shutdown /\ FALSE \in TaskProfilerCreated(Head(tasks))
        /\ Return("panic") /\ GiveUp(Head(tasks))
     \/ /\ tasks # <<>> /\ Head(tasks) = Shutdown
        /\ Return("no_root") /\ UNCHANGED gaveUp
     \/ /\ tasks = <<>> /\ accepter \in {"ended", "panicked"}
        /\ Return("no_root") /\ UNCHANGED gaveUp

\* One message; a task without a TaskProfiler is dropped.
poll_message ==
  /\ sampler = "poll" /\ tasks # <<>>
  /\ \/ /\ Head(tasks) = Shutdown
        /\ Return("profile") /\ UNCHANGED gaveUp
     \/ /\ Head(tasks) # Shutdown
        /\ \/ /\ TRUE \in TaskProfilerCreated(Head(tasks))
              /\ live' = live \cup {Head(tasks)}
              /\ UNCHANGED gaveUp
           \/ /\ FALSE \in TaskProfilerCreated(Head(tasks))
              /\ GiveUp(Head(tasks))
              /\ UNCHANGED live
        /\ tasks' = Tail(tasks)
        /\ UNCHANGED <<sampler, result, todo, pending>>

\* No message, or none for half a second if no task is left; or the time limit.
poll_none ==
  /\ sampler = "poll" /\ tasks = <<>>
  /\ \/ live = {} /\ Return("profile") /\ UNCHANGED gaveUp
     \/ live # {} /\ Return("profile") /\ UNCHANGED gaveUp
     \/ /\ live # {}
        /\ sampler' = "sample" /\ todo' = live
        /\ UNCHANGED <<result, live, gaveUp, tasks, pending>>

\* TaskProfiler::check_received_paths empties the path channel.
check_received_paths(t) == pending' = {x \in pending : x[1] # t}

\* TaskProfiler::sample: is the task still alive?  Not if it has ended, nor
\* after ten unknown errors.
sample(t) == IF TaskAlive(t) THEN BOOLEAN ELSE {FALSE}

\* One task of the round; notify_dead and finish are in sample = FALSE.
sample_task(t) ==
  /\ sampler = "sample" /\ t \in todo
  /\ todo' = todo \ {t}
  /\ sampler' = IF todo' = {} THEN "poll" ELSE "sample"
  /\ check_received_paths(t)
  /\ \/ TRUE \in sample(t) /\ UNCHANGED <<live, gaveUp>>
     \/ FALSE \in sample(t) /\ live' = live \ {t} /\ GiveUp(t)
  /\ UNCHANGED <<result, tasks>>

SamplerNext ==
  /\ samply = "alive"
  /\ recv_root \/ poll_message \/ poll_none \/ \E t \in Tasks : sample_task(t)
  /\ UNCHANGED <<mode, mainVars, ctrlCVars, procVars, portVars, accepterVars, early>>

Next == ProcessNext \/ MainNext \/ PressCtrlC \/ AccepterNext \/ SamplerNext

Spec == Init /\ [][Next]_vars

\* The threads of samply run, the system starts images and delivers what a
\* process waits for; nobody has to exit, to spawn or to press Ctrl+C.
Deliver(p) == (set_up_samply_connection(p) \/ RunWithoutConnection(p) \/ ProceedOrClosed(p)) /\ ProcessNext

FairSpec ==
  /\ Spec
  /\ WF_vars(MainNext) /\ WF_vars(AccepterNext) /\ WF_vars(SamplerNext)
  /\ \A p \in Pids : WF_vars(Deliver(p))

-----------------------------------------------------------------------------
(* While the sampler works, every process that samply has let go on is     *)
(* sampled, or its task waits in the channel, or samply has given it up    *)
(* because it could not be read: nothing that was held back for the        *)
(* recording runs unrecorded.                                              *)
ReleasedTasksAreSampled ==
  \A p \in Pids :
    LET released == proc[p].reply = "proceed" \/ (mode = "attach" /\ senders[p] = TaskOf(p))
    IN  released /\ proc[p].state \in {"waiting", "running"} /\ sampler # "ended"
          => TaskOf(p) \in live \cup gaveUp \cup ToSet(tasks)

(* A path is given to the task whose code opened the file, although the    *)
(* pid in the message may belong to another image by then.                 *)
PathsReachTheirTask == \A x \in pending : x[1] = x[2]

(* A launched process never waits for samply for ever, also if samply      *)
(* stops, exits or panics in the meantime.                                 *)
HeldTasksGoOn == \A p \in Pids : (proc[p].state = "waiting") ~> (proc[p].state # "waiting")

(* Once the command has ended, or Ctrl+C was pressed in an attached         *)
(* recording, samply saves the profile and returns: no thread waits for     *)
(* another for ever.  The exceptions are these: Ctrl+C terminates it, no    *)
(* task was ever obtained, or it panics, which takes a task that died       *)
(* before it was set up (start_execution, or the root's TaskProfiler at     *)
(* sampler.rs:107) or a live root that cannot be read.                      *)
(*                                                                          *)
(* The end does not wait for the other tasks: the accepter's Shutdown stops *)
(* the sampler at once, although descendants of the command may live, while *)
(* the comment at mac/profiler.rs:193-194 says that the sampler "will run   *)
(* until all accepted tasks have terminated, or until the time limit has    *)
(* elapsed".                                                                *)
RecordingEnds ==
  (main = "stop") ~> \/ samply = "done"
                     \/ samply = "exited" /\ (presses > 0 \/ result = "no_root")
                     \/ samply = "panicked" /\ (early \/ gaveUp # {})
=============================================================================
