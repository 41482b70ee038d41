-------------------------- MODULE MacRecordingProofs --------------------------
(***************************************************************************)
(* Proofs about MacRecording for any number of processes, images, files    *)
(* and iterations.                                                         *)
(***************************************************************************)
EXTENDS MacRecording, TLAPS

Message == [kind : {"task", "path"}, task : Tasks]

Types ==
  /\ mode \in Modes
  /\ samply \in {"alive", "done", "exited", "panicked"}
  /\ main \in {"launch", "wait", "ctrlc", "stop", "join_accepter", "join_sampler"}
  /\ iter \in 1 .. Iterations /\ root \in 0 .. MaxPid
  /\ ctrlC \in [sender : BOOLEAN, message : BOOLEAN, receiver : BOOLEAN]
  /\ presses \in 0 .. MaxPresses
  /\ proc \in [Pids -> Process]
  /\ succeeded \subseteq Pids /\ opened \subseteq Tasks
  /\ port \in Seq(Message)
  /\ serverUp \in BOOLEAN /\ (~serverUp => port = <<>>)
  /\ queue \in Seq(Tasks)
  /\ accepter \in {"receive", "start", "ended", "panicked"}
  /\ hand \in Tasks \cup {NoTask}
  /\ stopSent \in BOOLEAN
  /\ tasks \in Seq(Tasks \cup {Shutdown})
  /\ senders \in [Pids -> Tasks \cup {NoTask}]
  /\ pending \subseteq Tasks \X Tasks
  /\ sampler \in {"root", "poll", "sample", "ended"}
  /\ result \in {"none", "profile", "no_root", "panic"}
  /\ todo \subseteq live /\ live \subseteq Tasks
  /\ sampler = "root" => live = {}
  /\ gaveUp \subseteq Tasks /\ early \in BOOLEAN

\* A process without an image has no task, and nobody answers it.
ImagesSound ==
  \A p \in Pids :
    IF proc[p].state \in {"none", "dead"}
    THEN proc[p].image = 0 /\ proc[p].reply = "none" /\ ~proc[p].sender
    ELSE proc[p].image > 0

\* The task has been alive.
Seen(t) == proc[t[1]].state = "dead" \/ t[2] <= proc[t[1]].image

\* The sampler works with the task, or will, as long as there is one.
Tracked(t) ==
  sampler = "ended" \/ t \in live \cup gaveUp \cup ToSet(tasks) \/ ~TaskAlive(t)

\* Only tasks that have been alive are sent around.
AllSeen ==
  /\ \A i \in DOMAIN port : Seen(port[i].task)
  /\ \A i \in DOMAIN queue : Seen(queue[i])
  /\ accepter = "start" => hand \in Tasks /\ Seen(hand)
  /\ \A p \in Pids : senders[p] # NoTask => senders[p][1] = p /\ Seen(senders[p])

\* The accepter starts a task, or remembers it, after the sampler knows it.
AllTracked ==
  /\ accepter = "start" => Tracked(hand)
  /\ \A p \in Pids : senders[p] # NoTask => Tracked(senders[p])
  /\ \A p \in Pids : proc[p].reply = "proceed" => Tracked(TaskOf(p))

\* Processes that are attached to were queued; launched ones use the port.
OneWayIn ==
  /\ mode = "launch" => queue = <<>>
  /\ mode = "attach" => port = <<>> /\ \A p \in Pids : ~proc[p].sender

\* The n-th message is the connection of an image of p.
IsTaskOf(p, n) == port[n].kind = "task" /\ port[n].task[1] = p

\* When the first n messages are received, t is the last task of p, whose path
\* channel the accepter uses, if it has one.
Latest(p, n, t) ==
  \/ \E j \in 1 .. n : /\ IsTaskOf(p, j) /\ port[j].task = t
                       /\ \A k \in j + 1 .. n : ~IsTaskOf(p, k)
  \/ /\ \A k \in 1 .. n : ~IsTaskOf(p, k)
     /\ senders[p] \in {t, NoTask}

\* The path of a file comes after the task that opened it and before the next
\* task of its process.
PathsInOrder ==
  /\ \A i \in DOMAIN port :
       port[i].kind = "path" => Latest(port[i].task[1], i - 1, port[i].task)
  /\ serverUp => \A p \in Pids : proc[p].sender => Latest(p, Len(port), TaskOf(p))

IInv ==
  /\ Types
  /\ ImagesSound
  /\ AllSeen
  /\ AllTracked
  /\ OneWayIn
  /\ PathsInOrder
  /\ PathsReachTheirTask

-----------------------------------------------------------------------------
(* Sequences                                                               *)

LEMMA AppendFacts ==
  ASSUME NEW S, NEW q \in Seq(S), NEW x \in S
  PROVE  /\ Append(q, x) \in Seq(S) /\ Len(Append(q, x)) = Len(q) + 1
         /\ \A i \in 1 .. Len(q) : Append(q, x)[i] = q[i]
         /\ Append(q, x)[Len(q) + 1] = x
         /\ ToSet(Append(q, x)) = ToSet(q) \cup {x}
BY DEF ToSet

LEMMA TailFacts ==
  ASSUME NEW S, NEW q \in Seq(S), q # <<>>
  PROVE  /\ Head(q) \in S /\ Head(q) = q[1]
         /\ Tail(q) \in Seq(S) /\ Len(Tail(q)) = Len(q) - 1 /\ Len(q) \in Nat \ {0}
         /\ \A i \in 1 .. Len(q) - 1 : Tail(q)[i] = q[i + 1]
         /\ ToSet(q) = {Head(q)} \cup ToSet(Tail(q))
<1>1. /\ Head(q) \in S /\ Head(q) = q[1]
      /\ Tail(q) \in Seq(S) /\ Len(Tail(q)) = Len(q) - 1 /\ Len(q) \in Nat \ {0}
      /\ \A i \in 1 .. Len(q) - 1 : Tail(q)[i] = q[i + 1]
  OBVIOUS
<1>2. ASSUME NEW x \in ToSet(q) PROVE x \in {Head(q)} \cup ToSet(Tail(q))
  <2>1. PICK i \in 1 .. Len(q) : x = q[i]
    BY DEF ToSet
  <2>2. CASE i > 1
    <3>1. i - 1 \in 1 .. Len(Tail(q)) /\ Tail(q)[i - 1] = x
      BY <1>1, <2>1, <2>2
    <3>2. DOMAIN Tail(q) = 1 .. Len(Tail(q))
      BY <1>1
    <3> QED
      BY <3>1, <3>2 DEF ToSet
  <2> QED
    BY <1>1, <2>1, <2>2
<1>3. {Head(q)} \cup ToSet(Tail(q)) \subseteq ToSet(q)
  BY <1>1 DEF ToSet
<1> QED
  BY <1>1, <1>2, <1>3

LEMMA FrontFacts ==
  ASSUME NEW S, NEW q \in Seq(S), q # <<>>
  PROVE  /\ Last(q) \in S /\ Front(q) \in Seq(S) /\ Len(q) \in Nat \ {0}
         /\ Len(Front(q)) = Len(q) - 1 /\ Last(q) = q[Len(q)]
         /\ \A i \in 1 .. Len(q) - 1 : Front(q)[i] = q[i]
<1>1. Len(q) \in Nat \ {0} /\ Last(q) = q[Len(q)] /\ Last(q) \in S
  BY DEF Last
<1>2. Front(q) = [i \in 1 .. Len(q) - 1 |-> q[i]]
  BY <1>1 DEF Front
<1>3. \A i \in 1 .. Len(q) - 1 : q[i] \in S
  BY <1>1
<1>4. Len(q) - 1 \in Nat
  BY <1>1
<1>5. Front(q) \in Seq(S) /\ Len(Front(q)) = Len(q) - 1
  BY <1>2, <1>3, <1>4
<1> QED
  BY <1>1, <1>2, <1>5

-----------------------------------------------------------------------------
(* The kinds of steps                                                      *)

\* Only the main thread and the Ctrl+C channel move.
Quiet == UNCHANGED <<mode, proc, portVars, accepterVars, samplerVars, tasks, pending>>

\* samply ends.
Closes == CloseServer /\ UNCHANGED <<mode, accepterVars, samplerVars, tasks, pending>>

Launches(p) ==
  /\ IsNextPid(p)
  /\ proc' = [proc EXCEPT ![p] = Image(1)]
  /\ UNCHANGED <<mode, portVars, accepterVars, samplerVars, tasks, pending>>

LEMMA MainSteps ==
  ASSUME MainNext \/ PressCtrlC \/ UNCHANGED vars
  PROVE  Quiet \/ Closes \/ \E p \in Pids : Launches(p)
<1> USE DEF Quiet, Closes, Launches, mainVars, ctrlCVars, accepterVars, samplerVars, portVars,
            procVars
<1>1. CASE MainNext /\ launch_child
  BY <1>1 DEF MainNext, launch_child, End
<1>2. CASE MainNext /\ (root_child_wait \/ blocking_recv)
  BY <1>2 DEF MainNext, root_child_wait, blocking_recv
<1>3. CASE MainNext /\ (stop_accepter \/ join_accepter)
  BY <1>3 DEF MainNext, stop_accepter, join_accepter, End
<1>4. CASE MainNext /\ join_sampler
  BY <1>4 DEF MainNext, join_sampler, End
<1>5. CASE PressCtrlC
  BY <1>5 DEF PressCtrlC, End
<1>6. CASE UNCHANGED vars
  BY <1>6 DEF vars
<1> QED
  BY <1>1, <1>2, <1>3, <1>4, <1>5, <1>6 DEF MainNext

\* What may happen to a process.
ProcMove(p) ==
  \/ proc'[p] = proc[p]
  \/ proc[p].state = "none" /\ proc'[p] = Image(1)
  \/ proc[p].state = "running" /\ proc'[p] = Image(proc[p].image + 1)
  \/ proc'[p] = [Image(0) EXCEPT !.state = "dead"]
  \/ /\ proc[p].state \notin {"none", "dead"} /\ proc'[p].state \notin {"none", "dead"}
     /\ proc'[p].image = proc[p].image

\* A notification changes the reply of a process that waits, and nothing else.
LEMMA CloseMoves ==
  ASSUME Types, CloseServer, NEW p \in Pids
  PROVE  /\ proc'[p] \in Process
         /\ \/ proc'[p] = proc[p]
            \/ /\ proc[p].state = "waiting" /\ proc'[p].state = "waiting"
               /\ proc'[p].image = proc[p].image /\ proc'[p].sender = proc[p].sender
               /\ proc'[p].reply = "closed"
BY DEF Types, CloseServer, NoSenders, Process

LEMMA ProcMoves == ASSUME Types, [Next]_vars, NEW p \in Pids PROVE ProcMove(p)
<1> USE DEF Types, ProcMove, Process
<1>1. ASSUME NEW q \in Pids, set_up_samply_connection(q) \/ RunWithoutConnection(q) \/ ProceedOrClosed(q)
      PROVE  ProcMove(p)
  BY <1>1 DEF set_up_samply_connection, RunWithoutConnection, ProceedOrClosed
<1>2. ASSUME NEW q \in Pids, OpenFile(q) \/ Exec(q) \/ Exit(q) PROVE ProcMove(p)
  BY <1>2 DEF OpenFile, Exec, Exit
<1>3. ASSUME NEW q \in Pids, NEW r \in Pids, Spawn(q, r) PROVE ProcMove(p)
  BY <1>3 DEF Spawn, IsNextPid
<1>4. ASSUME CloseServer PROVE ProcMove(p)
  BY <1>4, CloseMoves
<1>5. ASSUME MainNext \/ PressCtrlC \/ UNCHANGED vars PROVE ProcMove(p)
  <2>1. CASE Closes
    BY <1>4, <2>1 DEF Closes
  <2>2. CASE Quiet
    BY <2>2 DEF Quiet
  <2>3. ASSUME NEW q \in Pids, Launches(q) PROVE ProcMove(p)
    BY <2>3 DEF Launches, IsNextPid
  <2> QED
    BY <1>5, <2>1, <2>2, <2>3, MainSteps
<1>6. ASSUME accepter_stop \/ next_message PROVE ProcMove(p)
  BY <1>4, <1>6 DEF accepter_stop, next_message
<1>7. ASSUME start_execution PROVE ProcMove(p)
  <2>1. CASE CloseServer
    BY <1>4, <2>1
  <2>2. CASE ~TaskAlive(hand) /\ proc' = proc
    BY <2>2
  <2>3. CASE /\ TaskAlive(hand)
             /\ \/ proc' = [proc EXCEPT ![hand[1]].reply = "proceed"]
                \/ proc' = [proc EXCEPT ![hand[1]].state = "running"]
    BY <2>3 DEF TaskAlive
  <2> QED
    BY <1>7, <2>1, <2>2, <2>3 DEF start_execution
<1>8. ASSUME SamplerNext PROVE ProcMove(p)
  BY <1>8 DEF SamplerNext, procVars
<1> QED
  BY <1>1, <1>2, <1>3, <1>5, <1>6, <1>7, <1>8 DEF Next, ProcessNext, AccepterNext

LEMMA ImagesStep == IInv /\ [Next]_vars => ImagesSound'
<1> SUFFICES ASSUME IInv, [Next]_vars, NEW p \in Pids
             PROVE  IF proc'[p].state \in {"none", "dead"}
                    THEN proc'[p].image = 0 /\ proc'[p].reply = "none" /\ ~proc'[p].sender
                    ELSE proc'[p].image > 0
  BY DEF ImagesSound
<1>1. ProcMove(p)
  BY ProcMoves DEF IInv
<1>2. proc[p] \in Process
  BY DEF IInv, Types
<1>3. CASE proc'[p] \in {proc[p], Image(1), [Image(0) EXCEPT !.state = "dead"]}
  BY <1>3 DEF IInv, ImagesSound, Image
<1>4. CASE proc[p].state = "running" /\ proc'[p] = Image(proc[p].image + 1)
  BY <1>2, <1>4 DEF Process, Image
<1>5. CASE /\ proc[p].state \notin {"none", "dead"} /\ proc'[p].state \notin {"none", "dead"}
           /\ proc'[p].image = proc[p].image
  BY <1>5 DEF IInv, ImagesSound
<1> QED
  BY <1>1, <1>3, <1>4, <1>5 DEF ProcMove

\* A task that has been alive stays so, and once it is dead it does not come back.
LEMMA SeenStep ==
  ASSUME IInv, [Next]_vars, NEW t \in Tasks, Seen(t)
  PROVE  Seen(t)' /\ (TaskAlive(t)' => TaskAlive(t))
<1> DEFINE p == t[1]
<1>1. p \in Pids /\ t[2] \in Nat /\ t[2] > 0 /\ t = <<p, t[2]>>
  BY DEF Tasks
<1>2. ProcMove(p) /\ proc[p] \in Process
  BY <1>1, ProcMoves DEF IInv, Types
<1>3. proc[p].image \in Nat
  BY <1>2 DEF Process
<1> QED
  BY <1>1, <1>2, <1>3 DEF IInv, ImagesSound, ProcMove, Process, Image, Seen, TaskAlive

-----------------------------------------------------------------------------
(* The sampler and its tasks                                               *)

\* Nothing that the sampler was told of gets lost, until it is dead or given up.
LEMMA TrackedStep ==
  ASSUME IInv, [Next]_vars, NEW t \in Tasks, Seen(t), Tracked(t)
  PROVE  Tracked(t)'
<1>1. TaskAlive(t)' => TaskAlive(t)
  BY SeenStep
<1>2. ASSUME UNCHANGED <<samplerVars, tasks>> PROVE Tracked(t)'
  BY <1>1, <1>2 DEF Tracked, samplerVars
<1>3. ASSUME UNCHANGED samplerVars,
             NEW x \in Tasks \cup {Shutdown}, SendToSampler(x)
      PROVE  Tracked(t)'
  <2>1. ToSet(tasks) \subseteq ToSet(tasks')
    BY <1>3, AppendFacts DEF SendToSampler, IInv, Types
  <2> QED
    BY <1>1, <1>3, <2>1 DEF Tracked, samplerVars
<1>4. ASSUME AccepterNext PROVE Tracked(t)'
  <2>1. CASE accepter_stop
    BY <1>3, <1>4, <2>1 DEF AccepterNext, accepter_stop
  <2>2. CASE next_message
    <3>1. CASE queue # <<>>
      <4>1. Last(queue) \in Tasks
        BY <3>1, FrontFacts DEF IInv, Types
      <4> QED
        BY <1>3, <1>4, <2>2, <3>1, <4>1 DEF AccepterNext, next_message, AcceptTask
    <3>2. CASE queue = <<>> /\ port # <<>>
      <4>1. Head(port) \in Message
        BY <3>2, TailFacts DEF IInv, Types
      <4>2. Head(port).task \in Tasks
        BY <4>1 DEF Message
      <4> QED
        BY <1>2, <1>3, <1>4, <2>2, <3>2, <4>2 DEF AccepterNext, next_message, AcceptTask
    <3> QED
      BY <2>2, <3>1, <3>2 DEF next_message
  <2>3. CASE start_execution
    BY <1>2, <1>4, <2>3 DEF AccepterNext, start_execution
  <2> QED
    BY <1>4, <2>1, <2>2, <2>3 DEF AccepterNext
<1>5. ASSUME sampler' = "ended" PROVE Tracked(t)'
  BY <1>5 DEF Tracked
<1>6. ASSUME sampler # "ended", tasks # <<>>, tasks' = Tail(tasks),
             \/ live' = live \cup {Head(tasks)} /\ gaveUp' = gaveUp
             \/ live' = live /\ GiveUp(Head(tasks))
      PROVE  Tracked(t)'
  <2>1. ToSet(tasks) = {Head(tasks)} \cup ToSet(tasks')
    BY <1>6, TailFacts DEF IInv, Types
  <2> QED
    BY <1>1, <1>5, <1>6, <2>1 DEF Tracked, GiveUp
<1>7. ASSUME SamplerNext PROVE Tracked(t)'
  <2>1. CASE recv_root
    <3>1. CASE Return("panic") \/ Return("no_root")
      BY <1>5, <3>1 DEF Return
    <3>2. CASE /\ tasks # <<>> /\ tasks' = Tail(tasks)
               /\ live' = {Head(tasks)} /\ sampler = "root" /\ gaveUp' = gaveUp
      <4>1. live = {}
        BY <3>2 DEF IInv, Types
      <4> QED
        BY <1>6, <3>2, <4>1
    <3> QED
      BY <2>1, <3>1, <3>2 DEF recv_root
  <2>2. CASE poll_message
    BY <1>5, <1>6, <2>2 DEF poll_message, Return
  <2>3. CASE poll_none
    BY <1>1, <1>5, <2>3 DEF poll_none, Return, Tracked
  <2>4. ASSUME NEW u \in Tasks, sample_task(u) PROVE Tracked(t)'
    BY <1>1, <2>4 DEF sample_task, sample, GiveUp, Tracked
  <2> QED
    BY <1>7, <2>1, <2>2, <2>3, <2>4 DEF SamplerNext
<1>8. ASSUME MainNext \/ PressCtrlC \/ UNCHANGED vars PROVE Tracked(t)'
  BY <1>2, <1>8, MainSteps DEF Quiet, Closes, Launches
<1> QED
  BY <1>2, <1>4, <1>7, <1>8 DEF Next, ProcessNext

-----------------------------------------------------------------------------
(* The accepter and what it receives                                       *)

LEMMA TaskOfProcess ==
  ASSUME IInv, NEW p \in Pids, proc[p].state \notin {"none", "dead"}
  PROVE  TaskOf(p) \in Tasks /\ TaskOf(p)[1] = p /\ TaskOf(p)[2] = proc[p].image
         /\ Seen(TaskOf(p)) /\ TaskAlive(TaskOf(p))
<1>1. proc[p] \in Process
  BY DEF IInv, Types
<1>2. proc[p].image \in 1 .. MaxImages
  BY <1>1 DEF IInv, ImagesSound, Process
<1> QED
  BY <1>2 DEF TaskOf, Tasks, Seen, TaskAlive

LEMMA PortMoves ==
  ASSUME [Next]_vars
  PROVE  \/ port' = port \/ port' = <<>> \/ (port # <<>> /\ port' = Tail(port))
         \/ \E p \in Pids : \E k \in {"task", "path"} :
              /\ port' = Append(port, [kind |-> k, task |-> TaskOf(p)])
              /\ proc[p].state \notin {"none", "dead"}
<1> USE DEF portVars
<1>1. ASSUME NEW p \in Pids, set_up_samply_connection(p)
      PROVE  /\ port' = Append(port, [kind |-> "task", task |-> TaskOf(p)])
             /\ proc[p].state \notin {"none", "dead"}
  BY <1>1 DEF set_up_samply_connection, SendToServer
<1>2. ASSUME NEW p \in Pids, OpenFile(p), port' # port
      PROVE  /\ port' = Append(port, [kind |-> "path", task |-> TaskOf(p)])
             /\ proc[p].state \notin {"none", "dead"}
  BY <1>2 DEF OpenFile, SendToServer
<1>3. ASSUME NEW p \in Pids, RunWithoutConnection(p) \/ ProceedOrClosed(p) \/ Exec(p) \/ Exit(p)
      PROVE  port' = port
  BY <1>3 DEF RunWithoutConnection, ProceedOrClosed, Exec, Exit
<1>4. ASSUME NEW p \in Pids, NEW q \in Pids, Spawn(p, q) PROVE port' = port
  BY <1>4 DEF Spawn
<1>5. ASSUME MainNext \/ PressCtrlC \/ UNCHANGED vars PROVE port' = port \/ port' = <<>>
  BY <1>5, MainSteps DEF Quiet, Closes, Launches, CloseServer
<1>6. ASSUME AccepterNext
      PROVE  port' = port \/ port' = <<>> \/ (port # <<>> /\ port' = Tail(port))
  BY <1>6 DEF AccepterNext, accepter_stop, next_message, start_execution, CloseServer
<1>7. ASSUME SamplerNext PROVE port' = port
  BY <1>7 DEF SamplerNext
<1> QED
  BY <1>1, <1>2, <1>3, <1>4, <1>5, <1>6, <1>7 DEF Next, ProcessNext

\* What the accepter starts next, and the tasks it remembers.
LEMMA AccepterMoves ==
  ASSUME IInv, [Next]_vars
  PROVE  \/ UNCHANGED <<queue, hand, senders>> /\ (accepter' = "start" => accepter = "start")
         \/ UNCHANGED <<queue, senders>> /\ accepter' # "start"
         \/ \E t \in Tasks :
              /\ \/ queue # <<>> /\ t = Last(queue) /\ queue' = Front(queue)
                 \/ queue = <<>> /\ port # <<>> /\ t = Head(port).task /\ queue' = queue
              /\ hand' = t /\ senders' = [senders EXCEPT ![t[1]] = t] /\ SendToSampler(t)
              /\ sampler' = sampler
         \/ \E p \in Pids : /\ queue' = queue /\ accepter' # "start"
                            /\ senders' = [senders EXCEPT ![p] = NoTask]
<1> USE DEF accepterVars
<1>1. CASE ProcessNext
  BY <1>1 DEF ProcessNext
<1>2. CASE MainNext \/ PressCtrlC \/ UNCHANGED vars
  BY <1>2, MainSteps DEF Quiet, Closes, Launches
<1>3. CASE SamplerNext
  BY <1>3 DEF SamplerNext
<1>4. CASE AccepterNext /\ (accepter_stop \/ start_execution)
  BY <1>4 DEF accepter_stop, start_execution
<1>5. CASE AccepterNext /\ next_message
  <2>1. sampler' = sampler
    BY <1>5 DEF AccepterNext, samplerVars
  <2>2. CASE queue # <<>>
    <3>1. Last(queue) \in Tasks
      BY <2>2, FrontFacts DEF IInv, Types
    <3> QED
      BY <1>5, <2>1, <2>2, <3>1 DEF next_message, AcceptTask, SetPathSender
  <2>3. CASE queue = <<>> /\ port # <<>>
    <3>1. Head(port) \in Message
      BY <2>3, TailFacts DEF IInv, Types
    <3>2. Head(port).task \in Tasks /\ Head(port).task[1] \in Pids
      BY <3>1 DEF Message, Tasks
    <3>3. CASE AcceptTask(Head(port).task)
      BY <1>5, <2>1, <2>3, <3>2, <3>3 DEF next_message, AcceptTask, SetPathSender
    <3>4. CASE ForwardPath(Head(port).task) /\ queue' = queue /\ hand' = hand
      BY <3>2, <3>4 DEF ForwardPath
    <3> QED
      BY <1>5, <2>3, <3>3, <3>4 DEF next_message
  <2> QED
    BY <1>5, <2>2, <2>3 DEF next_message
<1> QED
  BY <1>1, <1>2, <1>3, <1>4, <1>5 DEF Next, AccepterNext

\* The task that is accepted next is one that has been alive.
LEMMA AcceptedSeen ==
  ASSUME IInv, NEW t \in Tasks,
         \/ queue # <<>> /\ t = Last(queue)
         \/ port # <<>> /\ t = Head(port).task
  PROVE  Seen(t)
<1>1. CASE queue # <<>> /\ t = Last(queue)
  <2>1. Len(queue) \in DOMAIN queue /\ t = queue[Len(queue)]
    BY <1>1, FrontFacts DEF IInv, Types
  <2> QED
    BY <2>1 DEF IInv, AllSeen
<1>2. CASE port # <<>> /\ t = Head(port).task
  <2>1. 1 \in DOMAIN port /\ t = port[1].task
    BY <1>2, TailFacts DEF IInv, Types
  <2> QED
    BY <2>1 DEF IInv, AllSeen
<1> QED
  BY <1>1, <1>2

LEMMA AllSeenStep == IInv /\ [Next]_vars => AllSeen'
<1> SUFFICES ASSUME IInv, [Next]_vars PROVE AllSeen'
  OBVIOUS
<1>1. ASSUME NEW i \in DOMAIN port' PROVE Seen(port[i].task)'
  <2>0. \A j \in DOMAIN port : port[j].task \in Tasks /\ Seen(port[j].task)
    <3>1. \A j \in DOMAIN port : port[j] \in Message
      BY DEF IInv, Types
    <3> QED
      BY <3>1 DEF IInv, AllSeen, Message
  <2>1. CASE port' = port
    BY <1>1, <2>0, <2>1, SeenStep DEF Seen
  <2>2. CASE port # <<>> /\ port' = Tail(port)
    <3>1. i + 1 \in DOMAIN port /\ port'[i] = port[i + 1]
      BY <1>1, <2>2, TailFacts DEF IInv, Types
    <3> QED
      BY <2>0, <3>1, SeenStep DEF Seen
  <2>3. ASSUME NEW p \in Pids, NEW k \in {"task", "path"}, proc[p].state \notin {"none", "dead"},
               port' = Append(port, [kind |-> k, task |-> TaskOf(p)])
        PROVE  Seen(port[i].task)'
    <3>1. TaskOf(p) \in Tasks /\ Seen(TaskOf(p))
      BY <2>3, TaskOfProcess
    <3>2. [kind |-> k, task |-> TaskOf(p)] \in Message
      BY <3>1 DEF Message
    <3>3. CASE i \in DOMAIN port
      <4>1. port'[i] = port[i]
        BY <2>3, <3>2, <3>3, AppendFacts DEF IInv, Types
      <4> QED
        BY <2>0, <3>3, <4>1, SeenStep DEF Seen
    <3>4. CASE i \notin DOMAIN port
      <4>1. port'[i] = [kind |-> k, task |-> TaskOf(p)]
        BY <1>1, <2>3, <3>2, <3>4, AppendFacts DEF IInv, Types
      <4> QED
        BY <3>1, <4>1, SeenStep DEF Seen
    <3> QED
      BY <3>3, <3>4
  <2>4. CASE port' = <<>>
    BY <1>1, <2>4
  <2> QED
    BY <2>1, <2>2, <2>3, <2>4, PortMoves
<1>2. ASSUME NEW i \in DOMAIN queue' PROVE Seen(queue[i])'
  <2>1. i \in DOMAIN queue /\ queue'[i] = queue[i]
    <3>1. CASE queue # <<>> /\ queue' = Front(queue)
      <4>1. queue \in Seq(Tasks) /\ queue' \in Seq(Tasks) /\ Len(queue') = Len(queue) - 1
        BY <3>1, FrontFacts DEF IInv, Types
      <4>2. i \in 1 .. Len(queue) - 1
        BY <1>2, <4>1
      <4> QED
        BY <3>1, <4>1, <4>2, FrontFacts
    <3>2. CASE queue' = queue
      BY <1>2, <3>2
    <3> QED
      BY <3>1, <3>2, AccepterMoves
  <2>2. queue[i] \in Tasks /\ Seen(queue[i])
    BY <2>1 DEF IInv, Types, AllSeen
  <2> QED
    BY <2>1, <2>2, SeenStep DEF Seen
<1>3. ASSUME accepter' = "start" PROVE hand' \in Tasks /\ Seen(hand)'
  <2>1. CASE hand' = hand /\ accepter = "start"
    BY <2>1, SeenStep DEF IInv, AllSeen, Seen
  <2>2. ASSUME NEW t \in Tasks, Seen(t), hand' = t PROVE hand' \in Tasks /\ Seen(hand)'
    BY <2>2, SeenStep DEF Seen
  <2> QED
    BY <1>3, <2>1, <2>2, AccepterMoves, AcceptedSeen
<1>4. ASSUME NEW p \in Pids, senders'[p] # NoTask
      PROVE  senders'[p][1] = p /\ Seen(senders[p])'
  <2>0. senders \in [Pids -> Tasks \cup {NoTask}]
    BY DEF IInv, Types
  <2>1. CASE senders'[p] = senders[p]
    BY <1>4, <2>0, <2>1, SeenStep DEF IInv, AllSeen, Seen
  <2>2. ASSUME NEW t \in Tasks, Seen(t), senders' = [senders EXCEPT ![t[1]] = t], t[1] = p
        PROVE  senders'[p][1] = p /\ Seen(senders[p])'
    BY <2>0, <2>2, SeenStep DEF Seen
  <2>3. CASE senders'[p] # senders[p]
    <3>1. \E t \in Tasks : Seen(t) /\ senders' = [senders EXCEPT ![t[1]] = t] /\ t[1] = p
      BY <1>4, <2>0, <2>3, AccepterMoves, AcceptedSeen
    <3> QED
      BY <2>2, <3>1
  <2> QED
    BY <2>1, <2>3
<1> QED
  BY <1>1, <1>2, <1>3, <1>4 DEF AllSeen

LEMMA AllTrackedStep == IInv /\ [Next]_vars => AllTracked'
<1> SUFFICES ASSUME IInv, [Next]_vars PROVE AllTracked'
  OBVIOUS
<1>0. senders \in [Pids -> Tasks \cup {NoTask}]
  BY DEF IInv, Types
\* The sampler is told of a task before anything else is done with it.
<1>1. ASSUME NEW t \in Tasks, SendToSampler(t), sampler' = sampler PROVE Tracked(t)'
  <2>1. CASE sampler = "ended"
    BY <1>1, <2>1 DEF Tracked
  <2>2. CASE sampler # "ended"
    <3>1. tasks' = Append(tasks, t)
      BY <1>1, <2>2 DEF SendToSampler
    <3>2. tasks \in Seq(Tasks \cup {Shutdown}) /\ t \in Tasks \cup {Shutdown}
      BY DEF IInv, Types
    <3>3. Len(tasks) + 1 \in DOMAIN tasks' /\ tasks'[Len(tasks) + 1] = t
      BY <3>1, <3>2, AppendFacts
    <3> QED
      BY <3>3 DEF Tracked, ToSet
  <2> QED
    BY <2>1, <2>2
<1>2. ASSUME accepter' = "start" PROVE Tracked(hand)'
  <2>1. CASE hand' = hand /\ accepter = "start"
    BY <2>1, TrackedStep DEF IInv, AllSeen, AllTracked, Tracked, TaskAlive
  <2>2. ASSUME NEW t \in Tasks, SendToSampler(t), sampler' = sampler, hand' = t
        PROVE  Tracked(hand)'
    BY <1>1, <2>2 DEF Tracked, TaskAlive
  <2> QED
    BY <1>2, <2>1, <2>2, AccepterMoves
<1>3. ASSUME NEW p \in Pids, senders'[p] # NoTask PROVE Tracked(senders[p])'
  <2>1. CASE senders'[p] = senders[p]
    BY <1>0, <1>3, <2>1, TrackedStep DEF IInv, AllSeen, AllTracked, Tracked, TaskAlive
  <2>2. ASSUME NEW t \in Tasks, senders'[p] = t, SendToSampler(t), sampler' = sampler
        PROVE  Tracked(senders[p])'
    BY <1>1, <2>2 DEF Tracked, TaskAlive
  <2>3. CASE senders'[p] # senders[p]
    <3>1. \E t \in Tasks : senders'[p] = t /\ SendToSampler(t) /\ sampler' = sampler
      BY <1>0, <1>3, <2>3, AccepterMoves
    <3> QED
      BY <2>2, <3>1
  <2> QED
    BY <2>1, <2>3
<1>4. ASSUME NEW p \in Pids, proc'[p].reply = "proceed" PROVE Tracked(TaskOf(p))'
  <2>0. proc[p] \in Process
    BY DEF IInv, Types
  \* A process that had its answer before.
  <2>1. CASE proc[p].reply = "proceed" /\ proc'[p].image = proc[p].image
    <3>1. TaskOf(p) \in Tasks /\ Seen(TaskOf(p)) /\ Tracked(TaskOf(p))
      BY <2>1, TaskOfProcess DEF IInv, ImagesSound, AllTracked
    <3> QED
      BY <2>1, <3>1, TrackedStep DEF Tracked, TaskAlive, TaskOf
  \* A process that is answered.
  <2>2. CASE accepter = "start" /\ hand = TaskOf(p) /\ proc'[p].image = proc[p].image
    <3>1. hand \in Tasks /\ Seen(hand) /\ Tracked(hand)
      BY <2>2 DEF IInv, AllSeen, AllTracked
    <3> QED
      BY <2>2, <3>1, TrackedStep DEF Tracked, TaskAlive, TaskOf
  <2> DEFINE Answered == \/ proc[p].reply = "proceed" /\ proc'[p].image = proc[p].image
                         \/ accepter = "start" /\ hand = TaskOf(p) /\ proc'[p].image = proc[p].image
  <2>3. ASSUME CloseServer PROVE Answered
    BY <1>4, <2>3, CloseMoves DEF IInv
  <2>4. ASSUME ProcessNext PROVE Answered
    <3>1. proc \in [Pids -> Process]
      BY DEF IInv, Types
    <3>2. ASSUME NEW q \in Pids, set_up_samply_connection(q) \/ RunWithoutConnection(q)
                                 \/ ProceedOrClosed(q) \/ OpenFile(q)
          PROVE  proc'[p].reply = proc[p].reply /\ proc'[p].image = proc[p].image
      BY <3>1, <3>2 DEF set_up_samply_connection, RunWithoutConnection, ProceedOrClosed, OpenFile,
                        Process
    <3>3. ASSUME NEW q \in Pids, Exec(q) \/ Exit(q) PROVE p # q /\ proc'[p] = proc[p]
      BY <1>4, <3>1, <3>3 DEF Exec, Exit, Image
    <3>4. ASSUME NEW q \in Pids, NEW r \in Pids, Spawn(q, r) PROVE Answered
      BY <1>4, <3>1, <3>4 DEF Spawn, Image
    <3> QED
      BY <1>4, <2>4, <3>2, <3>3, <3>4 DEF ProcessNext
  <2>5. ASSUME MainNext \/ PressCtrlC \/ UNCHANGED vars PROVE Answered
    <3>1. CASE Closes
      BY <2>3, <3>1 DEF Closes
    <3>2. CASE Quiet
      BY <1>4, <3>2 DEF Quiet
    <3>3. ASSUME NEW q \in Pids, Launches(q) PROVE Answered
      BY <1>4, <3>3 DEF Launches, Image, IInv, Types
    <3> QED
      BY <2>5, <3>1, <3>2, <3>3, MainSteps
  <2>6. ASSUME AccepterNext PROVE Answered
    <3>1. CASE CloseServer \/ proc' = proc
      BY <1>4, <2>3, <3>1
    <3>2. CASE /\ start_execution /\ TaskAlive(hand)
               /\ \/ proc' = [proc EXCEPT ![hand[1]].reply = "proceed"]
                  \/ proc' = [proc EXCEPT ![hand[1]].state = "running"]
      <4>1. hand \in Tasks /\ hand[1] \in Pids /\ hand = <<hand[1], hand[2]>> /\ accepter = "start"
        BY <3>2 DEF start_execution, IInv, AllSeen, Tasks
      <4>2. hand = TaskOf(hand[1])
        BY <3>2, <4>1 DEF TaskAlive, TaskOf
      <4>3. proc \in [Pids -> Process]
        BY DEF IInv, Types
      <4>4. proc'[p].image = proc[p].image
        BY <3>2, <4>1, <4>3 DEF Process
      <4>5. p # hand[1] => proc'[p] = proc[p]
        BY <3>2, <4>1, <4>3
      <4> QED
        BY <1>4, <4>1, <4>2, <4>4, <4>5
    <3> QED
      BY <2>6, <3>1, <3>2 DEF AccepterNext, accepter_stop, next_message, start_execution
  <2>7. ASSUME SamplerNext PROVE Answered
    BY <1>4, <2>7 DEF SamplerNext, procVars
  <2> QED
    BY <2>1, <2>2, <2>4, <2>5, <2>6, <2>7 DEF Next
<1> QED
  BY <1>2, <1>3, <1>4 DEF AllTracked

-----------------------------------------------------------------------------
(* The order of the messages in the port                                   *)

\* A process has its sender from the moment that its image connects.
LEMMA SenderMoves ==
  ASSUME IInv, [Next]_vars, NEW p \in Pids, proc'[p].sender
  PROVE  \/ proc[p].sender /\ proc'[p].image = proc[p].image
         \/ ProcessNext /\ set_up_samply_connection(p)
<1> DEFINE Keeps == proc[p].sender /\ proc'[p].image = proc[p].image
<1>0. proc \in [Pids -> Process]
  BY DEF IInv, Types
<1>1. ASSUME CloseServer PROVE Keeps
  BY <1>1, CloseMoves DEF IInv
<1>2. ASSUME NEW q \in Pids, \/ set_up_samply_connection(q) /\ q # p
                             \/ RunWithoutConnection(q) \/ ProceedOrClosed(q) \/ OpenFile(q)
      PROVE  proc'[p].sender = proc[p].sender /\ proc'[p].image = proc[p].image
  <2>1. CASE set_up_samply_connection(q) /\ q # p
    BY <1>0, <2>1 DEF set_up_samply_connection
  <2>2. CASE RunWithoutConnection(q) \/ ProceedOrClosed(q)
    <3>1. proc' = [proc EXCEPT ![q].state = "running"]
      BY <2>2 DEF RunWithoutConnection, ProceedOrClosed
    <3> QED
      BY <1>0, <3>1 DEF Process
  <2>3. CASE OpenFile(q)
    BY <2>3 DEF OpenFile
  <2> QED
    BY <1>2, <2>1, <2>2, <2>3
<1>3. ASSUME NEW q \in Pids, Exec(q) \/ Exit(q) PROVE proc'[p] = proc[p]
  BY <1>0, <1>3 DEF Exec, Exit, Image
<1>4. ASSUME NEW q \in Pids, NEW r \in Pids, Spawn(q, r) PROVE proc'[p] = proc[p]
  BY <1>0, <1>4 DEF Spawn, Image
<1>5. ASSUME ProcessNext PROVE Keeps \/ set_up_samply_connection(p)
  BY <1>2, <1>3, <1>4, <1>5 DEF ProcessNext
<1>6. ASSUME MainNext \/ PressCtrlC \/ UNCHANGED vars PROVE Keeps
  <2>1. CASE Closes
    BY <1>1, <2>1 DEF Closes
  <2>2. CASE Quiet
    BY <2>2 DEF Quiet
  <2>3. ASSUME NEW q \in Pids, Launches(q) PROVE proc'[p] = proc[p]
    BY <1>0, <2>3 DEF Launches, Image
  <2> QED
    BY <1>6, <2>1, <2>2, <2>3, MainSteps
<1>7. ASSUME AccepterNext PROVE Keeps
  <2>1. CASE CloseServer \/ proc' = proc
    BY <1>1, <2>1
  <2>2. CASE /\ start_execution
             /\ \/ proc' = [proc EXCEPT ![hand[1]].reply = "proceed"]
                \/ proc' = [proc EXCEPT ![hand[1]].state = "running"]
    BY <1>0, <2>2 DEF Process
  <2> QED
    BY <1>7, <2>1, <2>2 DEF AccepterNext, accepter_stop, next_message, start_execution
<1>8. ASSUME SamplerNext PROVE Keeps
  BY <1>8 DEF SamplerNext, procVars
<1> QED
  BY <1>5, <1>6, <1>7, <1>8 DEF Next

LEMMA OneWayInStep == IInv /\ [Next]_vars => OneWayIn'
<1> SUFFICES ASSUME IInv, [Next]_vars PROVE OneWayIn'
  OBVIOUS
<1>0. mode' = mode
  BY MainSteps DEF Next, ProcessNext, AccepterNext, SamplerNext, Quiet, Closes, Launches
<1>1. ASSUME mode = "launch" PROVE queue' = <<>>
  BY <1>1, AccepterMoves DEF IInv, OneWayIn
<1>2. ASSUME mode = "attach", NEW p \in Pids PROVE ~proc'[p].sender
  BY <1>2, SenderMoves DEF IInv, OneWayIn, set_up_samply_connection
<1>3. ASSUME mode = "attach" PROVE port' = <<>>
  <2>1. port = <<>>
    BY <1>3 DEF IInv, OneWayIn
  <2>2. ASSUME NEW p \in Pids PROVE ~set_up_samply_connection(p) /\ ~OpenFile(p)
    BY <1>3 DEF IInv, OneWayIn, set_up_samply_connection, OpenFile
  <2>3. ASSUME ProcessNext PROVE port' = port
    BY <2>2, <2>3 DEF ProcessNext, RunWithoutConnection, ProceedOrClosed, Exec, Exit, Spawn, portVars
  <2>4. ASSUME MainNext \/ PressCtrlC \/ UNCHANGED vars PROVE port' = port \/ port' = <<>>
    BY <2>4, MainSteps DEF Quiet, Closes, Launches, CloseServer, portVars
  <2>5. ASSUME AccepterNext PROVE port' = port \/ port' = <<>>
    BY <2>1, <2>5 DEF AccepterNext, accepter_stop, next_message, start_execution, CloseServer,
                      portVars
  <2>6. ASSUME SamplerNext PROVE port' = port
    BY <2>6 DEF SamplerNext, portVars
  <2> QED
    BY <2>1, <2>3, <2>4, <2>5, <2>6 DEF Next
<1> QED
  BY <1>0, <1>1, <1>2, <1>3 DEF OneWayIn

LEMMA LatestAppend ==
  ASSUME Types, NEW m \in Message, port' = Append(port, m), senders' = senders,
         NEW p \in Pids, NEW t \in Tasks, NEW n \in 0 .. Len(port), Latest(p, n, t)
  PROVE  /\ Latest(p, n, t)'
         /\ n = Len(port) /\ ~(m.kind = "task" /\ m.task[1] = p) => Latest(p, n + 1, t)'
<1>1. /\ Len(port) \in Nat
      /\ \A k \in 1 .. Len(port) : port'[k] = port[k]
      /\ port'[Len(port) + 1] = m
  BY AppendFacts DEF Types
<1>2. \A k \in 1 .. n : port'[k] = port[k]
  BY <1>1
<1>3. Latest(p, n, t)'
  BY <1>1, <1>2 DEF Latest, IsTaskOf
<1>4. ASSUME n = Len(port), ~(m.kind = "task" /\ m.task[1] = p) PROVE Latest(p, n + 1, t)'
  <2>1. \A k \in 1 .. n + 1 : k \in 1 .. n \/ (k = n + 1 /\ ~IsTaskOf(p, k)')
    BY <1>1, <1>4 DEF IsTaskOf
  <2>2. \A j \in 1 .. n : \A k \in j + 1 .. n + 1 : k \in j + 1 .. n \/ (k = n + 1 /\ ~IsTaskOf(p, k)')
    BY <1>1, <1>4 DEF IsTaskOf
  <2>3. 1 .. n \subseteq 1 .. n + 1
    BY <1>1
  <2> QED
    BY <1>3, <2>1, <2>2, <2>3 DEF Latest, IsTaskOf
<1> QED
  BY <1>3, <1>4

LEMMA LatestTail ==
  ASSUME Types, port # <<>>, port' = Tail(port),
         \/ Head(port).kind = "task" /\ SetPathSender(Head(port).task)
         \/ /\ Head(port).kind = "path"
            /\ senders' = senders \/ \E q \in Pids : senders' = [senders EXCEPT ![q] = NoTask],
         NEW p \in Pids, NEW t \in Tasks, NEW n \in 1 .. Len(port), Latest(p, n, t)
  PROVE  Latest(p, n - 1, t)'
<1>0. /\ Len(port) \in Nat \ {0} /\ Head(port) = port[1]
      /\ \A k \in 1 .. Len(port) - 1 : port'[k] = port[k + 1]
      /\ port[1] \in Message
  BY TailFacts DEF Types
<1>1. port[1].task[1] \in Pids /\ senders \in [Pids -> Tasks \cup {NoTask}]
  BY <1>0 DEF Types, Message, Tasks
<1>2. \A k \in 1 .. n - 1 : port'[k] = port[k + 1]
  BY <1>0
<1>3. ASSUME NEW j \in 2 .. n, IsTaskOf(p, j), port[j].task = t,
             \A k \in j + 1 .. n : ~IsTaskOf(p, k)
      PROVE  Latest(p, n - 1, t)'
  <2>1. j - 1 \in 1 .. n - 1 /\ port'[j - 1] = port[j]
    BY <1>2
  <2>2. ASSUME NEW k \in (j - 1) + 1 .. n - 1 PROVE ~IsTaskOf(p, k)'
    <3>1. k \in 1 .. n - 1 /\ k + 1 \in j + 1 .. n
      OBVIOUS
    <3> QED
      BY <1>2, <1>3, <3>1 DEF IsTaskOf
  <2> QED
    BY <1>3, <2>1, <2>2 DEF Latest, IsTaskOf
<1>4. ASSUME \A k \in 2 .. n : ~IsTaskOf(p, k), senders'[p] \in {t, NoTask}
      PROVE  Latest(p, n - 1, t)'
  <2>1. ASSUME NEW k \in 1 .. n - 1 PROVE ~IsTaskOf(p, k)'
    <3>1. k + 1 \in 2 .. n
      OBVIOUS
    <3> QED
      BY <1>2, <1>4, <3>1 DEF IsTaskOf
  <2> QED
    BY <1>4, <2>1 DEF Latest
<1>5. CASE /\ IsTaskOf(p, 1) /\ port[1].task = t
           /\ \A k \in 1 + 1 .. n : ~IsTaskOf(p, k)
  <2>1. senders'[p] = t
    BY <1>0, <1>1, <1>5 DEF IsTaskOf, SetPathSender
  <2> QED
    BY <1>4, <1>5, <2>1
<1>6. CASE (\A k \in 1 .. n : ~IsTaskOf(p, k)) /\ senders[p] \in {t, NoTask}
  <2>1. ~IsTaskOf(p, 1)
    BY <1>6
  <2>2. senders'[p] \in {t, NoTask}
    BY <1>0, <1>1, <1>6, <2>1 DEF IsTaskOf, SetPathSender
  <2>3. \A k \in 2 .. n : k \in 1 .. n
    OBVIOUS
  <2> QED
    BY <1>4, <1>6, <2>2, <2>3
<1>7. \A j \in 1 .. n : j = 1 \/ j \in 2 .. n
  OBVIOUS
<1> QED
  BY <1>3, <1>5, <1>6, <1>7 DEF Latest

LEMMA PathsInOrderStep == IInv /\ [Next]_vars => PathsInOrder'
<1> SUFFICES ASSUME IInv, [Next]_vars PROVE PathsInOrder'
  OBVIOUS
<1>p. port \in Seq(Message) /\ Types
  BY DEF IInv, Types
<1>n. PICK n \in Nat : n = Len(port) /\ DOMAIN port = 1 .. n
  BY <1>p
<1>m. \A i \in 1 .. n : port[i].task \in Tasks /\ port[i].task[1] \in Pids
  <2>1. \A i \in 1 .. n : port[i] \in Message
    BY <1>p, <1>n
  <2> QED
    BY <2>1 DEF Message, Tasks
\* What PathsInOrder says of the state after the step, for values of that state.
<1>1. ASSUME \A i \in DOMAIN port' : port'[i].kind = "path" =>
               \A t : t = port'[i].task => Latest(t[1], i - 1, t)',
             serverUp' => \A p \in Pids : proc'[p].sender =>
               \A k, t : k = Len(port') /\ t = TaskOf(p)' => Latest(p, k, t)'
      PROVE  PathsInOrder'
  BY <1>1 DEF PathsInOrder, Latest, IsTaskOf
<1>2. ASSUME NEW i \in 1 .. n, port[i].kind = "path", NEW t, t = port[i].task
      PROVE  Latest(t[1], i - 1, t) /\ t \in Tasks /\ t[1] \in Pids
  BY <1>n, <1>m, <1>2 DEF IInv, PathsInOrder
<1>3. ASSUME serverUp, NEW p \in Pids, proc[p].sender, NEW t, t = TaskOf(p)
      PROVE  Latest(p, n, t) /\ t \in Tasks /\ t[1] = p
  <2>1. proc[p].state \notin {"none", "dead"}
    BY <1>3 DEF IInv, ImagesSound
  <2> QED
    BY <1>n, <1>3, <2>1, TaskOfProcess DEF IInv, PathsInOrder
\* samply ends, or its accepter.
<1>4. ASSUME port' = <<>>, ~serverUp' PROVE PathsInOrder'
  BY <1>4 DEF PathsInOrder
\* Nothing that matters changes.
<1>5. ASSUME UNCHANGED <<port, senders, serverUp>>,
             \A p \in Pids : ~(ProcessNext /\ set_up_samply_connection(p))
      PROVE  PathsInOrder'
  <2>1. ASSUME NEW p, NEW k, NEW t, Latest(p, k, t) PROVE Latest(p, k, t)'
    BY <1>5, <2>1 DEF Latest, IsTaskOf
  <2>2. \A p \in Pids : proc'[p].sender => proc[p].sender /\ TaskOf(p)' = TaskOf(p)
    BY <1>5, SenderMoves DEF TaskOf
  <2> QED
    BY <1>n, <1>1, <1>2, <1>3, <1>5, <2>1, <2>2
\* An image sends the path of a file.
<1>6. ASSUME NEW q \in Pids, ProcessNext, OpenFile(q), serverUp PROVE PathsInOrder'
  <2>1. PICK u : u = TaskOf(q)
    OBVIOUS
  <2>2. PICK m : m = [kind |-> "path", task |-> u]
    OBVIOUS
  <2>3. /\ port' = Append(port, m) /\ UNCHANGED <<proc, serverUp, senders>> /\ proc[q].sender
    BY <1>6, <2>1, <2>2 DEF OpenFile, SendToServer, ProcessNext, accepterVars
  <2>4. u \in Tasks /\ u[1] = q /\ Latest(q, n, u)
    BY <1>3, <1>6, <2>1, <2>3
  <2>5. m \in Message /\ m.kind = "path" /\ m.task = u
    BY <2>2, <2>4 DEF Message
  <2>6. /\ Len(port') = n + 1 /\ DOMAIN port' = 1 .. n + 1
        /\ \A k \in 1 .. n : port'[k] = port[k]
        /\ port'[n + 1] = m
    BY <1>p, <1>n, <2>3, <2>5, AppendFacts
  <2>7. ASSUME NEW p \in Pids, NEW t \in Tasks, NEW k \in 0 .. n, Latest(p, k, t)
        PROVE  Latest(p, k, t)' /\ (k = n => Latest(p, k + 1, t)')
    BY <1>p, <1>n, <2>3, <2>5, <2>7, LatestAppend
  <2>8. ASSUME NEW i \in DOMAIN port', port'[i].kind = "path", NEW t, t = port'[i].task
        PROVE  Latest(t[1], i - 1, t)'
    <3>1. CASE i \in 1 .. n
      <4>1. Latest(t[1], i - 1, t) /\ t \in Tasks /\ t[1] \in Pids
        BY <1>2, <2>6, <2>8, <3>1
      <4>2. i - 1 \in 0 .. n
        BY <3>1
      <4> QED
        BY <2>7, <4>1, <4>2
    <3>2. CASE i = n + 1
      <4>1. t = u /\ i - 1 = n /\ n \in 0 .. n
        BY <2>5, <2>6, <2>8, <3>2
      <4> QED
        BY <2>4, <2>7, <4>1
    <3> QED
      BY <2>6, <3>1, <3>2
  <2>9. ASSUME NEW p \in Pids, proc'[p].sender, NEW t, t = TaskOf(p)' PROVE Latest(p, n + 1, t)'
    <3>1. t = TaskOf(p) /\ proc[p].sender
      BY <2>3, <2>9 DEF TaskOf
    <3>2. n \in 0 .. n
      OBVIOUS
    <3> QED
      BY <1>3, <1>6, <2>7, <3>1, <3>2
  <2> QED
    BY <1>1, <2>6, <2>8, <2>9
\* An image connects.
<1>7. ASSUME NEW q \in Pids, ProcessNext, set_up_samply_connection(q) PROVE PathsInOrder'
  <2>1. PICK u : u = TaskOf(q)
    OBVIOUS
  <2>2. PICK m : m = [kind |-> "task", task |-> u]
    OBVIOUS
  <2>3. /\ port' = Append(port, m) /\ UNCHANGED <<serverUp, senders>> /\ serverUp
        /\ proc[q].state = "loading"
        /\ proc' = [proc EXCEPT ![q].state = "waiting", ![q].sender = TRUE]
    BY <1>7, <2>1, <2>2 DEF set_up_samply_connection, SendToServer, ProcessNext, accepterVars
  <2>4. u \in Tasks /\ u[1] = q
    BY <2>1, <2>3, TaskOfProcess
  <2>5. m \in Message /\ m.kind = "task" /\ m.task = u
    BY <2>2, <2>4 DEF Message
  <2>6. /\ Len(port') = n + 1 /\ DOMAIN port' = 1 .. n + 1
        /\ \A k \in 1 .. n : port'[k] = port[k]
        /\ port'[n + 1] = m
    BY <1>p, <1>n, <2>3, <2>5, AppendFacts
  <2>7. ASSUME NEW p \in Pids, NEW t \in Tasks, NEW k \in 0 .. n, Latest(p, k, t)
        PROVE  Latest(p, k, t)' /\ (k = n /\ p # q => Latest(p, k + 1, t)')
    BY <1>p, <1>n, <2>3, <2>4, <2>5, <2>7, LatestAppend
  <2>8. ASSUME NEW i \in DOMAIN port', port'[i].kind = "path", NEW t, t = port'[i].task
        PROVE  Latest(t[1], i - 1, t)'
    <3>1. i \in 1 .. n
      BY <2>5, <2>6, <2>8
    <3>2. Latest(t[1], i - 1, t) /\ t \in Tasks /\ t[1] \in Pids
      BY <1>2, <2>6, <2>8, <3>1
    <3>3. i - 1 \in 0 .. n
      BY <3>1
    <3> QED
      BY <2>7, <3>2, <3>3
  <2>9. ASSUME NEW p \in Pids, proc'[p].sender, NEW t, t = TaskOf(p)' PROVE Latest(p, n + 1, t)'
    <3>0. proc \in [Pids -> Process]
      BY <1>p DEF Types
    <3>1. CASE p = q
      <4>1. t = u
        BY <2>1, <2>3, <2>9, <3>0, <3>1 DEF TaskOf, Process
      <4>2. IsTaskOf(p, n + 1)' /\ port'[n + 1].task = t
        BY <2>4, <2>5, <2>6, <3>1, <4>1 DEF IsTaskOf
      <4>3. n + 1 \in 1 .. n + 1 /\ (n + 1) + 1 .. n + 1 = {}
        OBVIOUS
      <4> QED
        BY <4>2, <4>3 DEF Latest, IsTaskOf
    <3>2. CASE p # q
      <4>1. t = TaskOf(p) /\ proc[p].sender
        BY <2>3, <2>9, <3>0, <3>2 DEF TaskOf
      <4>2. n \in 0 .. n
        OBVIOUS
      <4> QED
        BY <1>3, <2>3, <2>7, <3>2, <4>1, <4>2
    <3> QED
      BY <3>1, <3>2
  <2> QED
    BY <1>1, <2>6, <2>8, <2>9
\* The accepter receives a message.
<1>8. ASSUME AccepterNext, next_message, queue = <<>> PROVE PathsInOrder'
  <2>1. /\ port # <<>> /\ port' = Tail(port) /\ UNCHANGED <<proc, serverUp>>
        /\ \/ Head(port).kind = "task" /\ AcceptTask(Head(port).task)
           \/ Head(port).kind = "path" /\ ForwardPath(Head(port).task)
    BY <1>8 DEF next_message
  <2>2. /\ n \in Nat \ {0} /\ Head(port) = port[1] /\ Len(port') = n - 1
        /\ DOMAIN port' = 1 .. n - 1
        /\ \A k \in 1 .. n - 1 : port'[k] = port[k + 1]
    BY <1>p, <1>n, <2>1, TailFacts
  <2>3. \/ Head(port).kind = "task" /\ SetPathSender(Head(port).task)
        \/ /\ Head(port).kind = "path"
           /\ senders' = senders \/ \E q \in Pids : senders' = [senders EXCEPT ![q] = NoTask]
    <3>1. Head(port).task[1] \in Pids
      BY <1>m, <2>2
    <3> QED
      BY <2>1, <3>1 DEF AcceptTask, ForwardPath
  <2>4. ASSUME NEW p \in Pids, NEW t \in Tasks, NEW k \in 1 .. n, Latest(p, k, t)
        PROVE  Latest(p, k - 1, t)'
    BY <1>p, <1>n, <2>1, <2>3, <2>4, LatestTail
  <2>5. ASSUME NEW i \in DOMAIN port', port'[i].kind = "path", NEW t, t = port'[i].task
        PROVE  Latest(t[1], i - 1, t)'
    <3>1. i + 1 \in 1 .. n /\ i \in 1 .. n /\ (i + 1) - 1 = i /\ port'[i] = port[i + 1]
      BY <2>2
    <3>2. Latest(t[1], i, t) /\ t \in Tasks /\ t[1] \in Pids
      BY <1>2, <2>5, <3>1
    <3> QED
      BY <2>4, <3>1, <3>2
  <2>6. ASSUME serverUp', NEW p \in Pids, proc'[p].sender, NEW t, t = TaskOf(p)'
        PROVE  Latest(p, n - 1, t)'
    <3>1. t = TaskOf(p) /\ proc[p].sender /\ serverUp /\ n \in 1 .. n
      BY <2>1, <2>2, <2>6 DEF TaskOf
    <3> QED
      BY <1>3, <2>4, <3>1
  <2> QED
    BY <1>1, <2>2, <2>5, <2>6
<1>9. CASE mode = "attach"
  <2>1. port' = <<>> /\ \A p \in Pids : ~proc'[p].sender
    BY <1>9, OneWayInStep, MainSteps
       DEF OneWayIn, Next, ProcessNext, AccepterNext, SamplerNext, Quiet, Closes, Launches
  <2> QED
    BY <2>1 DEF PathsInOrder
<1>10. CASE mode = "launch"
  <2>1. queue = <<>>
    BY <1>10 DEF IInv, OneWayIn
  <2>2. CASE ProcessNext
    <3>1. senders' = senders
      BY <2>2 DEF ProcessNext, accepterVars
    <3>2. ASSUME NEW q \in Pids, OpenFile(q), ~serverUp PROVE UNCHANGED <<port, serverUp>>
      BY <3>2 DEF OpenFile, SendToServer
    <3>3. ASSUME NEW q \in Pids, RunWithoutConnection(q) \/ ProceedOrClosed(q) \/ Exec(q) \/ Exit(q)
          PROVE  UNCHANGED <<port, serverUp>>
      BY <3>3 DEF RunWithoutConnection, ProceedOrClosed, Exec, Exit, portVars
    <3>4. ASSUME NEW q \in Pids, NEW r \in Pids, Spawn(q, r) PROVE UNCHANGED <<port, serverUp>>
      BY <3>4 DEF Spawn, portVars
    <3> QED
      BY <1>5, <1>6, <1>7, <2>2, <3>1, <3>2, <3>3, <3>4 DEF ProcessNext
  <2>3. ASSUME NEW p \in Pids, set_up_samply_connection(p), port' = port PROVE FALSE
    BY <1>p, <2>3 DEF set_up_samply_connection, SendToServer
  <2>4. CASE MainNext \/ PressCtrlC \/ UNCHANGED vars
    BY <1>4, <1>5, <2>3, <2>4, MainSteps
       DEF Quiet, Closes, Launches, CloseServer, portVars, accepterVars
  <2>5. CASE AccepterNext
    BY <1>4, <1>5, <1>8, <2>1, <2>3, <2>5
       DEF AccepterNext, accepter_stop, start_execution, CloseServer, portVars
  <2>6. CASE SamplerNext
    BY <1>5, <2>3, <2>6 DEF SamplerNext, portVars, accepterVars
  <2> QED
    BY <2>2, <2>4, <2>5, <2>6 DEF Next
<1> QED
  BY <1>p, <1>9, <1>10, MacRecordingAssumption DEF Types

\* The paths: the sampler takes them out, the accepter puts them into the channel of
\* the task that it knows of the process, which is the one that opened the file.
LEMMA PathsStep == IInv /\ [Next]_vars => PathsReachTheirTask'
<1> SUFFICES ASSUME IInv, [Next]_vars PROVE PathsReachTheirTask'
  OBVIOUS
<1>1. ASSUME pending' \subseteq pending PROVE PathsReachTheirTask'
  BY <1>1 DEF IInv, PathsReachTheirTask
<1>2. ASSUME AccepterNext, next_message, pending' # pending PROVE PathsReachTheirTask'
  <2>1. PICK t : t = Head(port).task
    OBVIOUS
  <2>2. /\ port # <<>> /\ Head(port).kind = "path"
        /\ senders[t[1]] # NoTask /\ pending' = pending \cup {<<senders[t[1]], t>>}
    BY <1>2, <2>1 DEF next_message, ForwardPath
  <2>3. 1 \in DOMAIN port /\ Head(port) = port[1]
    BY <2>2, TailFacts DEF IInv, Types
  <2>4. Latest(t[1], 1 - 1, t)
    BY <2>1, <2>2, <2>3 DEF IInv, PathsInOrder
  <2>5. senders[t[1]] = t
    BY <2>2, <2>4 DEF Latest
  <2> QED
    BY <2>2, <2>5 DEF IInv, PathsReachTheirTask
<1>3. CASE AccepterNext
  BY <1>1, <1>2, <1>3 DEF AccepterNext, accepter_stop, start_execution
<1>4. CASE SamplerNext
  BY <1>1, <1>4 DEF SamplerNext, recv_root, poll_message, poll_none, sample_task,
                    check_received_paths, Return
<1>5. CASE ProcessNext
  BY <1>1, <1>5 DEF ProcessNext
<1>6. CASE MainNext \/ PressCtrlC \/ UNCHANGED vars
  BY <1>1, <1>6, MainSteps DEF Quiet, Closes, Launches
<1> QED
  BY <1>3, <1>4, <1>5, <1>6 DEF Next

-----------------------------------------------------------------------------
(* Types                                                                   *)

LEMMA ProcTypes == ASSUME IInv, [Next]_vars PROVE proc' \in [Pids -> Process]
<1>0. proc \in [Pids -> Process] /\ Types
  BY DEF IInv, Types
<1>1. ASSUME CloseServer PROVE proc' \in [Pids -> Process]
  <2>1. \A p \in Pids : NoSenders(p) \in Process
    BY <1>0 DEF NoSenders, Process
  <2> QED
    BY <1>1, <2>1 DEF CloseServer
<1>2. Image(1) \in Process /\ [Image(0) EXCEPT !.state = "dead"] \in Process
  <2>1. 0 \in 0 .. MaxImages /\ 1 \in 0 .. MaxImages
    BY MacRecordingAssumption
  <2>2. Image(0) \in Process /\ Image(1) \in Process
    BY <2>1, Zenon DEF Image, Process
  <2>3. ASSUME NEW r \in Process PROVE [r EXCEPT !.state = "dead"] \in Process
    BY <2>3 DEF Process
  <2> QED
    BY <2>2, <2>3
<1>3. ASSUME NEW p \in Pids, set_up_samply_connection(p) PROVE proc' \in [Pids -> Process]
  <2>1. proc[p] \in Process
    BY <1>0
  <2>2. [proc[p] EXCEPT !.state = "waiting", !.sender = TRUE] \in Process
    BY <2>1 DEF Process
  <2>3. proc' = [proc EXCEPT ![p] = [proc[p] EXCEPT !.state = "waiting", !.sender = TRUE]]
    BY <1>0, <1>3, <2>1 DEF set_up_samply_connection, Process
  <2> QED
    BY <1>0, <2>2, <2>3
<1>4. ASSUME NEW p \in Pids, \/ proc' = [proc EXCEPT ![p].state = "running"]
                             \/ proc' = [proc EXCEPT ![p].reply = "proceed"]
      PROVE  proc' \in [Pids -> Process]
  <2>1. proc[p] \in Process
    BY <1>0
  <2>2. [proc[p] EXCEPT !.state = "running"] \in Process /\ [proc[p] EXCEPT !.reply = "proceed"] \in Process
    BY <2>1 DEF Process
  <2> QED
    BY <1>0, <1>4, <2>2
<1>5. ASSUME NEW p \in Pids, Exec(p) PROVE proc' \in [Pids -> Process]
  <2>1. proc[p] \in Process /\ proc[p].image < MaxImages
    BY <1>0, <1>5 DEF Exec
  <2>2. Image(proc[p].image + 1) \in Process
    BY <2>1, MacRecordingAssumption DEF Image, Process
  <2> QED
    BY <1>0, <1>5, <2>2 DEF Exec
<1>6. ASSUME NEW p \in Pids, Exit(p) \/ OpenFile(p) PROVE proc' \in [Pids -> Process]
  BY <1>0, <1>2, <1>6 DEF Exit, OpenFile
<1>7. ASSUME NEW p \in Pids, NEW q \in Pids, Spawn(p, q) PROVE proc' \in [Pids -> Process]
  BY <1>0, <1>2, <1>7 DEF Spawn
<1>8. CASE ProcessNext
  BY <1>3, <1>4, <1>5, <1>6, <1>7, <1>8 DEF ProcessNext, RunWithoutConnection, ProceedOrClosed
<1>9. CASE MainNext \/ PressCtrlC \/ UNCHANGED vars
  <2>1. ASSUME NEW p \in Pids, Launches(p) PROVE proc' \in [Pids -> Process]
    BY <1>0, <1>2, <2>1 DEF Launches
  <2> QED
    BY <1>0, <1>1, <1>9, <2>1, MainSteps DEF Quiet, Closes
<1>10. CASE AccepterNext
  <2>1. CASE start_execution
    <3>1. hand[1] \in Pids
      BY <2>1 DEF start_execution, IInv, AllSeen, Tasks
    <3> QED
      BY <1>0, <1>1, <1>4, <2>1, <3>1 DEF start_execution
  <2> QED
    BY <1>0, <1>1, <1>10, <2>1 DEF AccepterNext, accepter_stop, next_message
<1>11. CASE SamplerNext
  BY <1>0, <1>11 DEF SamplerNext, procVars
<1> QED
  BY <1>8, <1>9, <1>10, <1>11 DEF Next

\* The main thread and Ctrl+C.
MainTypes ==
  /\ mode \in Modes
  /\ samply \in {"alive", "done", "exited", "panicked"}
  /\ main \in {"launch", "wait", "ctrlc", "stop", "join_accepter", "join_sampler"}
  /\ iter \in 1 .. Iterations /\ root \in 0 .. MaxPid
  /\ ctrlC \in [sender : BOOLEAN, message : BOOLEAN, receiver : BOOLEAN]
  /\ presses \in 0 .. MaxPresses
  /\ stopSent \in BOOLEAN

LEMMA MainTypesStep == ASSUME IInv, [Next]_vars PROVE MainTypes'
<1>0. MainTypes
  BY DEF IInv, Types, MainTypes
<1>1. CASE ProcessNext \/ AccepterNext \/ SamplerNext \/ UNCHANGED vars
  BY <1>0, <1>1 DEF MainTypes, ProcessNext, AccepterNext, SamplerNext, vars, mainVars, ctrlCVars
<1>2. CASE PressCtrlC
  <2>1. presses' \in 0 .. MaxPresses
    BY <1>0, <1>2, MacRecordingAssumption DEF MainTypes, PressCtrlC
  <2>2. ctrlC' \in [sender : BOOLEAN, message : BOOLEAN, receiver : BOOLEAN]
    <3>1. ctrlC \in [sender : BOOLEAN, message : BOOLEAN, receiver : BOOLEAN]
      BY <1>0 DEF MainTypes
    <3>2. ctrlC' = ctrlC \/ ctrlC' = [ctrlC EXCEPT !.sender = FALSE, !.message = TRUE]
      BY <1>2 DEF PressCtrlC, End
    <3> QED
      BY <3>1, <3>2
  <2>3. UNCHANGED <<mode, main, iter, root, stopSent>> /\ samply' \in {samply, "exited"}
    BY <1>2 DEF PressCtrlC, End, mainVars
  <2> QED
    BY <1>0, <2>1, <2>2, <2>3 DEF MainTypes
<1>3. CASE MainNext
  <2>1. CASE launch_child
    BY <1>0, <1>3, <2>1 DEF MainTypes, MainNext, launch_child, End, Pids
  <2>2. CASE root_child_wait
    <3>1. iter' \in 1 .. Iterations
      BY <1>0, <2>2, MacRecordingAssumption DEF MainTypes, root_child_wait
    <3>2. ctrlC' \in [sender : BOOLEAN, message : BOOLEAN, receiver : BOOLEAN]
      BY <1>0, <2>2 DEF MainTypes, root_child_wait
    <3> QED
      BY <1>0, <1>3, <2>2, <3>1, <3>2 DEF MainTypes, MainNext, root_child_wait
  <2>3. CASE blocking_recv
    BY <1>0, <1>3, <2>3 DEF MainTypes, MainNext, blocking_recv
  <2>4. CASE stop_accepter
    BY <1>0, <1>3, <2>4 DEF MainTypes, MainNext, stop_accepter, End
  <2>5. CASE join_accepter
    BY <1>0, <1>3, <2>5 DEF MainTypes, MainNext, join_accepter, End
  <2>6. CASE join_sampler
    BY <1>0, <1>3, <2>6 DEF MainTypes, MainNext, join_sampler, End
  <2> QED
    BY <1>3, <2>1, <2>2, <2>3, <2>4, <2>5, <2>6 DEF MainNext
<1> QED
  BY <1>1, <1>2, <1>3 DEF Next

\* What the threads and the processes pass on to each other.
LEMMA ChannelTypesStep ==
  ASSUME IInv, [Next]_vars
  PROVE  /\ port' \in Seq(Message) /\ queue' \in Seq(Tasks) /\ tasks' \in Seq(Tasks \cup {Shutdown})
         /\ senders' \in [Pids -> Tasks \cup {NoTask}] /\ hand' \in Tasks \cup {NoTask}
         /\ serverUp' \in BOOLEAN /\ (~serverUp' => port' = <<>>)
<1>0. Types
  BY DEF IInv
<1>1. port' \in Seq(Message)
  <2>1. ASSUME NEW p \in Pids, NEW k \in {"task", "path"}, proc[p].state \notin {"none", "dead"}
        PROVE  [kind |-> k, task |-> TaskOf(p)] \in Message
    BY <2>1, TaskOfProcess DEF Message
  <2>2. ASSUME NEW m \in Message, port' = Append(port, m) PROVE port' \in Seq(Message)
    BY <1>0, <2>2, AppendFacts DEF Types
  <2>3. ASSUME port # <<>>, port' = Tail(port) PROVE port' \in Seq(Message)
    BY <1>0, <2>3, TailFacts DEF Types
  <2>4. <<>> \in Seq(Message) /\ port \in Seq(Message)
    BY <1>0 DEF Types
  <2> QED
    BY <2>1, <2>2, <2>3, <2>4, PortMoves
<1>2. queue' \in Seq(Tasks)
  BY <1>0, AccepterMoves, FrontFacts DEF Types
<1>3. senders' \in [Pids -> Tasks \cup {NoTask}]
  BY <1>0, AccepterMoves DEF Types
<1>4. CASE ProcessNext
  <2>1. tasks' = tasks /\ hand' = hand /\ serverUp' = serverUp
    BY <1>4 DEF ProcessNext, accepterVars, portVars, set_up_samply_connection, RunWithoutConnection,
                ProceedOrClosed, OpenFile, Exec, Exit, Spawn
  <2>2. ~serverUp => port' = port
    BY <1>4 DEF ProcessNext, portVars, set_up_samply_connection, RunWithoutConnection,
                ProceedOrClosed, OpenFile, Exec, Exit, Spawn, SendToServer
  <2> QED
    BY <1>0, <1>1, <1>2, <1>3, <2>1, <2>2 DEF Types
<1>5. CASE MainNext \/ PressCtrlC \/ UNCHANGED vars
  <2>1. /\ tasks' = tasks /\ hand' = hand
        /\ UNCHANGED portVars \/ CloseServer
    BY <1>5, MainSteps DEF Quiet, Closes, Launches, accepterVars
  <2> QED
    BY <1>0, <1>1, <1>2, <1>3, <2>1 DEF Types, CloseServer, portVars
<1>6. CASE AccepterNext
  <2>1. ASSUME NEW t \in Tasks \cup {Shutdown}, SendToSampler(t)
        PROVE  tasks' \in Seq(Tasks \cup {Shutdown})
    BY <1>0, <2>1, AppendFacts DEF SendToSampler, Types
  <2>2. CASE accepter_stop
    BY <1>0, <1>1, <1>2, <1>3, <2>1, <2>2 DEF accepter_stop, CloseServer, Types
  <2>3. CASE start_execution
    BY <1>0, <1>1, <1>2, <1>3, <2>3 DEF start_execution, CloseServer, Types, portVars
  <2>4. CASE next_message
    <3>1. CASE queue # <<>>
      <4>1. Last(queue) \in Tasks
        BY <1>0, <3>1, FrontFacts DEF Types
      <4> QED
        BY <1>0, <1>1, <1>2, <1>3, <2>1, <2>4, <3>1, <4>1 DEF next_message, AcceptTask, Types
    <3>2. CASE queue = <<>> /\ port # <<>>
      <4>1. Head(port) \in Message
        BY <1>0, <3>2, TailFacts DEF Types
      <4>2. Head(port).task \in Tasks
        BY <4>1 DEF Message
      <4>3. ~serverUp => FALSE
        BY <1>0, <3>2 DEF Types
      <4> QED
        BY <1>0, <1>1, <1>2, <1>3, <2>1, <2>4, <3>2, <4>2, <4>3 DEF next_message, AcceptTask, Types
    <3> QED
      BY <2>4, <3>1, <3>2 DEF next_message
  <2> QED
    BY <1>6, <2>2, <2>3, <2>4 DEF AccepterNext
<1>7. CASE SamplerNext
  <2>1. UNCHANGED <<port, serverUp, hand>>
    BY <1>7 DEF SamplerNext, portVars, accepterVars
  <2>2. tasks' = tasks \/ tasks' = <<>> \/ (tasks # <<>> /\ tasks' = Tail(tasks))
    BY <1>7 DEF SamplerNext, recv_root, poll_message, poll_none, sample_task, Return
  <2>3. tasks' \in Seq(Tasks \cup {Shutdown})
    <3>1. <<>> \in Seq(Tasks \cup {Shutdown}) /\ tasks \in Seq(Tasks \cup {Shutdown})
      BY <1>0 DEF Types
    <3> QED
      BY <2>2, <3>1, TailFacts
  <2> QED
    BY <1>0, <1>1, <1>2, <1>3, <2>1, <2>3 DEF Types
<1> QED
  BY <1>4, <1>5, <1>6, <1>7 DEF Next

\* The sampler's own state.
SamplerTypes ==
  /\ sampler \in {"root", "poll", "sample", "ended"}
  /\ result \in {"none", "profile", "no_root", "panic"}
  /\ todo \subseteq live /\ live \subseteq Tasks
  /\ sampler = "root" => live = {}
  /\ gaveUp \subseteq Tasks

LEMMA SamplerTypesStep == ASSUME IInv, [Next]_vars PROVE SamplerTypes'
<1>0. SamplerTypes /\ Types
  BY DEF IInv, Types, SamplerTypes
<1>1. CASE ProcessNext \/ AccepterNext
  BY <1>0, <1>1 DEF ProcessNext, AccepterNext, samplerVars, SamplerTypes
<1>2. CASE MainNext \/ PressCtrlC \/ UNCHANGED vars
  BY <1>0, <1>2, MainSteps DEF Quiet, Closes, Launches, samplerVars, SamplerTypes
<1>3. CASE SamplerNext
  <2>1. ASSUME tasks # <<>>, Head(tasks) # Shutdown PROVE Head(tasks) \in Tasks
    BY <1>0, <2>1, TailFacts DEF Types
  <2>2. CASE recv_root
    BY <1>0, <2>1, <2>2 DEF recv_root, Return, GiveUp, SamplerTypes
  <2>3. CASE poll_message
    BY <1>0, <2>1, <2>3 DEF poll_message, Return, GiveUp, SamplerTypes
  <2>4. CASE poll_none
    BY <1>0, <2>4 DEF poll_none, Return, SamplerTypes
  <2>5. ASSUME NEW t \in Tasks, sample_task(t) PROVE SamplerTypes'
    BY <1>0, <2>5 DEF sample_task, GiveUp, SamplerTypes
  <2> QED
    BY <1>3, <2>2, <2>3, <2>4, <2>5 DEF SamplerNext
<1> QED
  BY <1>1, <1>2, <1>3 DEF Next

LEMMA TypesStep == IInv /\ [Next]_vars => Types'
<1> SUFFICES ASSUME IInv, [Next]_vars PROVE Types'
  OBVIOUS
<1>0. Types
  BY DEF IInv
<1>1. succeeded' \subseteq Pids /\ early' \in BOOLEAN
  <2>1. CASE ProcessNext
    BY <1>0, <2>1 DEF Types, ProcessNext, set_up_samply_connection, RunWithoutConnection,
                      ProceedOrClosed, OpenFile, Exec, Exit, Spawn
  <2>2. CASE MainNext
    BY <1>0, <2>2 DEF Types, MainNext, launch_child, root_child_wait, blocking_recv, stop_accepter,
                      join_accepter, join_sampler, End
  <2>3. CASE PressCtrlC
    BY <1>0, <2>3 DEF Types, PressCtrlC, End, procVars
  <2> QED
    BY <1>0, <2>1, <2>2, <2>3 DEF Types, Next, AccepterNext, SamplerNext, vars, procVars
<1>2. opened' \subseteq Tasks
  <2>1. CASE ProcessNext
    <3>1. ASSUME NEW p \in Pids, OpenFile(p) PROVE opened' \subseteq Tasks
      BY <1>0, <3>1, TaskOfProcess DEF OpenFile, Types
    <3> QED
      BY <1>0, <2>1, <3>1 DEF Types, ProcessNext, set_up_samply_connection, RunWithoutConnection,
                              ProceedOrClosed, Exec, Exit, Spawn
  <2> QED
    BY <1>0, <2>1 DEF Types, Next, MainNext, PressCtrlC, AccepterNext, SamplerNext, vars, procVars
<1>3. accepter' \in {"receive", "start", "ended", "panicked"}
  <2>1. CASE AccepterNext
    BY <2>1 DEF AccepterNext, accepter_stop, next_message, start_execution, AcceptTask, ForwardPath
  <2>2. CASE ProcessNext \/ SamplerNext
    BY <1>0, <2>2 DEF Types, ProcessNext, SamplerNext, accepterVars
  <2>3. CASE MainNext \/ PressCtrlC \/ UNCHANGED vars
    BY <1>0, <2>3, MainSteps DEF Types, Quiet, Closes, Launches, accepterVars
  <2> QED
    BY <2>1, <2>2, <2>3 DEF Next
<1>4. pending' \subseteq Tasks \X Tasks
  <2>0. pending \subseteq Tasks \X Tasks
    BY <1>0 DEF Types
  <2>1. CASE AccepterNext /\ next_message /\ pending' # pending
    <3>1. PICK t : t = Head(port).task
      OBVIOUS
    <3>2. /\ port # <<>> /\ senders[t[1]] # NoTask
          /\ pending' = pending \cup {<<senders[t[1]], t>>}
      BY <2>1, <3>1 DEF next_message, ForwardPath
    <3>3. Head(port) \in Message
      BY <1>0, <3>2, TailFacts DEF Types
    <3>4. t \in Tasks /\ t[1] \in Pids
      BY <3>1, <3>3 DEF Message, Tasks
    <3>5. senders[t[1]] \in Tasks
      BY <1>0, <3>2, <3>4 DEF Types
    <3> QED
      BY <2>0, <3>2, <3>4, <3>5
  <2>2. CASE AccepterNext
    BY <2>0, <2>1, <2>2 DEF AccepterNext, accepter_stop, start_execution
  <2>3. CASE SamplerNext
    BY <2>0, <2>3 DEF SamplerNext, recv_root, poll_message, poll_none, sample_task,
                      check_received_paths, Return
  <2>4. CASE ProcessNext
    BY <2>0, <2>4 DEF ProcessNext
  <2>5. CASE MainNext \/ PressCtrlC \/ UNCHANGED vars
    BY <2>0, <2>5, MainSteps DEF Quiet, Closes, Launches
  <2> QED
    BY <2>2, <2>3, <2>4, <2>5 DEF Next
<1> QED
  BY <1>1, <1>2, <1>3, <1>4, ProcTypes, MainTypesStep, ChannelTypesStep, SamplerTypesStep
     DEF Types, MainTypes, SamplerTypes

-----------------------------------------------------------------------------
(* The theorems                                                            *)

LEMMA InitIInv == Init => IInv
<1> SUFFICES ASSUME Init PROVE IInv
  OBVIOUS
<1>1. PICK n \in Pids :
        /\ mode = "launch" => n = 1
        /\ queue = IF mode = "attach" THEN AttachQueue(n) ELSE <<>>
        /\ proc = [p \in Pids |-> IF mode = "attach" /\ p <= n THEN Attached ELSE NoProcess]
  BY DEF Init
<1>2. mode \in {"launch", "attach"}
  BY MacRecordingAssumption DEF Init
<1>3. 0 \in 0 .. MaxImages /\ 1 \in 0 .. MaxImages /\ 1 \in 1 .. MaxImages
  BY MacRecordingAssumption
<1>4. Attached \in Process /\ NoProcess \in Process
  BY <1>3, Zenon DEF Attached, NoProcess, Process
<1>5. proc \in [Pids -> Process]
  BY <1>1, <1>4
<1>6. \A i \in 1 .. n : i \in Pids /\ <<i, 1>> \in Tasks
  BY <1>3, MacRecordingAssumption DEF Pids, Tasks
<1>7. /\ AttachQueue(n) \in Seq(Tasks) /\ DOMAIN AttachQueue(n) = 1 .. n
      /\ \A i \in 1 .. n : AttachQueue(n)[i] = <<i, 1>>
  <2>1. n \in Nat
    BY MacRecordingAssumption DEF Pids
  <2> QED
    BY <1>6, <2>1 DEF AttachQueue
<1>8. queue \in Seq(Tasks)
  BY <1>1, <1>7
<1>9. Types
  <2>1. ctrlC \in [sender : BOOLEAN, message : BOOLEAN, receiver : BOOLEAN]
    BY Zenon DEF Init
  <2>2. 1 \in 1 .. Iterations /\ 0 \in 0 .. MaxPid /\ 0 \in 0 .. MaxPresses
    BY MacRecordingAssumption
  <2>3. port \in Seq(Message) /\ tasks \in Seq(Tasks \cup {Shutdown})
    BY DEF Init
  <2>4. senders \in [Pids -> Tasks \cup {NoTask}]
    BY DEF Init
  <2> QED
    BY <1>5, <1>8, <2>1, <2>2, <2>3, <2>4 DEF Init, Types
<1>10. ImagesSound
  BY <1>1 DEF ImagesSound, Attached, NoProcess
<1>11. AllSeen
  <2>1. ASSUME NEW i \in DOMAIN queue PROVE Seen(queue[i])
    <3>1. mode = "attach" /\ i \in 1 .. n /\ queue[i] = <<i, 1>>
      BY <1>1, <1>7, <2>1
    <3>2. proc[i] = Attached
      BY <1>1, <1>6, <3>1, MacRecordingAssumption DEF Pids
    <3> QED
      BY <3>1, <3>2 DEF Seen, Attached
  <2> QED
    BY <2>1 DEF Init, AllSeen
<1>12. \A p \in Pids : proc[p].reply = "none" /\ ~proc[p].sender
  BY <1>1 DEF Attached, NoProcess
<1>13. AllTracked
  BY <1>12 DEF Init, AllTracked
<1>14. OneWayIn
  BY <1>1, <1>12 DEF Init, OneWayIn
<1>15. PathsInOrder /\ PathsReachTheirTask
  BY <1>12 DEF Init, PathsInOrder, PathsReachTheirTask
<1> QED
  BY <1>9, <1>10, <1>11, <1>13, <1>14, <1>15 DEF IInv

\* The order of what the threads of a recording tell each other, which the properties
\* rest on, is kept by every step of samply and of the processes.
THEOREM Inductive == Spec => []IInv
<1>1. IInv /\ [Next]_vars => IInv'
  BY TypesStep, ImagesStep, AllSeenStep, AllTrackedStep, OneWayInStep, PathsInOrderStep, PathsStep
     DEF IInv
<1> QED
  BY <1>1, InitIInv, PTL DEF Spec

\* The types of the variables; among them, that no message is in a port that is gone, and
\* that the tasks left in a round are live.
THEOREM TypeCorrect == Spec => []TypeOK
<1>1. IInv => TypeOK
  <2> SUFFICES ASSUME Types PROVE TypeOK
    BY DEF IInv
  <2>1. ToSet(queue) \subseteq Tasks /\ ToSet(tasks) \subseteq Tasks \cup {Shutdown}
    BY DEF Types, ToSet
  <2>2. \A i \in DOMAIN port : port[i] \in [kind : {"task", "path"}, task : Tasks]
    <3>1. \A i \in DOMAIN port : port[i] \in Message
      BY DEF Types
    <3> QED
      BY <3>1 DEF Message
  <2> QED
    BY <2>1, <2>2 DEF Types, TypeOK
<1> QED
  BY <1>1, Inductive, PTL

\* TaskAccepter tells the sampler of a task before it lets the process go on, and the
\* sampler drops a task only when it is dead or given up: while it works, every process
\* that was held back for it is sampled or waits in its channel.
THEOREM Sampled == Spec => []ReleasedTasksAreSampled
<1>1. IInv => ReleasedTasksAreSampled
  <2> SUFFICES ASSUME IInv, NEW p \in Pids,
                      proc[p].reply = "proceed" \/ (mode = "attach" /\ senders[p] = TaskOf(p)),
                      proc[p].state \in {"waiting", "running"}, sampler # "ended"
               PROVE  TaskOf(p) \in live \cup gaveUp \cup ToSet(tasks)
    BY DEF ReleasedTasksAreSampled
  <2>1. TaskOf(p) \in Tasks /\ TaskAlive(TaskOf(p)) /\ TaskOf(p)[1] = p
    BY TaskOfProcess
  <2>2. TaskOf(p) # NoTask
    BY <2>1 DEF NoTask, Pids
  <2>3. Tracked(TaskOf(p))
    BY <2>2 DEF IInv, AllTracked
  <2> QED
    BY <2>1, <2>3 DEF Tracked
<1> QED
  BY <1>1, Inductive, PTL

\* A message of a process comes after that of its task and before that of its next one,
\* and the accepter takes them in order: the path of a jitdump or marker file reaches the
\* profile of the task that opened it, whatever image the pid stands for by then.
THEOREM Paths == Spec => []PathsReachTheirTask
<1>1. IInv => PathsReachTheirTask
  BY DEF IInv
<1> QED
  BY <1>1, Inductive, PTL

=============================================================================
