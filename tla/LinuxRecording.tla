---------------------------- MODULE LinuxRecording ----------------------------
(***************************************************************************)
(* A live recording on Linux (samply/src/linux/profiler.rs and process.rs, *)
(* shared/ctrl_c.rs).  The main thread launches the command, as often as   *)
(* --iteration-count says, and waits for it; or it attaches to a process.  *)
(* The observer thread owns the perf events.  They talk over two channels, *)
(* a launched child is held by a pipe, and Ctrl+C may come at any time.    *)
(*                                                                         *)
(* A child stands for its process tree: descendants may outlive it, and    *)
(* its perf events are closed when all of them are gone (PerfGroup).       *)
(* Forking, pipes and writing the profile do not fail.                     *)
(***************************************************************************)
EXTENDS Integers, Sequences

CONSTANTS Modes,       \* the recording modes: "launch", "pid"
          Iterations,  \* iteration_count
          MaxPresses   \* bound: how often Ctrl+C is pressed

ASSUME LinuxRecordingAssumption ==
  /\ Modes \subseteq {"launch", "pid"}
  /\ Iterations \in Nat \ {0}
  /\ MaxPresses \in Nat

VARIABLES
  mode,        \* recording_mode; never changes
  samply,      \* the process: "alive", "done", "exited" early, or "panicked"
  main,        \* where the main thread is
  iter,        \* the iteration it is in
  observer,    \* where the observer thread is
  child,       \* iteration -> state of its child
  success,     \* the children that exited with success
  descendants, \* the children that have live descendants
  dropped,     \* children whose resume pipe was closed without a byte
  opened,      \* the children whose perf events were opened
  members,     \* those whose perf events are still in the group
  isClosed,    \* members found closed by the last wait
  requests,    \* the channel to the observer; 0 is StopProfiling...
  replies,     \* the channel back
  shouldStop,  \* should_stop_profiling_once_perf_events_exhausted
  ctrlC,       \* the Ctrl+C channel: has its sender, message and receiver
  presses,     \* how often Ctrl+C was pressed
  saved        \* the profile was written

childVars    == <<child, success, descendants>>
mainVars     == <<main, iter, dropped>>
observerVars == <<observer, opened, members, isClosed, shouldStop, saved>>
channels     == <<requests, replies>>
vars == <<mode, samply, childVars, mainVars, observerVars, channels, ctrlC, presses>>

Children == 1 .. Iterations
Stop     == 0
Capacity == 2     \* crossbeam_channel::bounded(2)

TypeOK ==
  /\ mode \in Modes
  /\ samply \in {"alive", "done", "exited", "panicked"}
  /\ main \in {"launch", "request", "reply", "unsuspend", "execerr", "wait", "stop",
               "close", "join"}
  /\ iter \in Children
  /\ observer \in {"first", "init", "reply", "top", "requests", "block", "end_check",
                   "consume", "poll", "save", "ended"}
  /\ child \in [Children -> {"none", "suspended", "told", "running", "failed", "exited"}]
  /\ success \subseteq Children
  /\ descendants \subseteq Children
  /\ dropped \subseteq Children
  /\ opened \subseteq Children
  /\ members \subseteq opened
  /\ isClosed \subseteq members
  /\ requests \in Seq(Children \cup {Stop}) /\ Len(requests) <= Capacity
  /\ replies \in Seq(BOOLEAN) /\ Len(replies) <= Capacity
  /\ shouldStop \in BOOLEAN
  /\ ctrlC \in [sender : BOOLEAN, message : BOOLEAN, receiver : BOOLEAN]
  /\ presses \in 0 .. MaxPresses
  /\ saved \in BOOLEAN

\* observe_oneshot was called, the channels and the observer thread exist.
Init ==
  /\ mode \in Modes
  /\ samply = "alive"
  /\ main = IF mode = "launch" THEN "launch" ELSE "request"
  /\ iter = 1
  /\ observer = "first"
  /\ child = [i \in Children |-> IF mode = "pid" /\ i = 1 THEN "running" ELSE "none"]
  /\ success = {} /\ descendants = {} /\ dropped = {}
  /\ opened = {} /\ members = {} /\ isClosed = {}
  /\ requests = <<>> /\ replies = <<>>
  /\ shouldStop = FALSE
  /\ ctrlC = [sender |-> TRUE, message |-> FALSE, receiver |-> TRUE]
  /\ presses = 0
  /\ saved = FALSE

Alive(i) == child[i] \in {"suspended", "told", "running"}
TreeAlive(i) == Alive(i) \/ i \in descendants

-----------------------------------------------------------------------------
(* The main thread                                                         *)

\* std::process::exit, or a panic of the main thread.
End(how) == samply' = how /\ UNCHANGED <<mainVars, channels, ctrlC>>

\* request_sender.send(request).unwrap()
send(request, next) ==
  \/ /\ observer # "ended"
     /\ Len(requests) < Capacity
     /\ requests' = Append(requests, request)
     /\ main' = next
     /\ UNCHANGED <<samply, iter, dropped, replies, ctrlC>>
  \/ /\ observer = "ended"
     /\ End("panicked")

launch_in_suspended_state ==
  /\ main = "launch"
  /\ child' = [child EXCEPT ![iter] = "suspended"]
  /\ main' = "request"
  /\ UNCHANGED <<samply, success, descendants, iter, dropped, channels, ctrlC>>

send_start ==
  /\ main = "request"
  /\ send(iter, "reply")
  /\ UNCHANGED childVars

\* A slip: the suspended process is kept when its perf events are not open.
recv_reply_keeps_process ==
  /\ main = "reply"
  /\ replies # <<>>
  /\ main' = IF mode = "launch" /\ (iter = 1 \/ Head(replies)) THEN "unsuspend" ELSE "stop"
  /\ replies' = Tail(replies)
  /\ UNCHANGED <<samply, childVars, iter, dropped, requests, ctrlC>>

\* The first reply is not looked at.  If a later one says that the perf events
\* could not be opened, the loop ends and the suspended process is dropped.
recv_reply ==
  /\ main = "reply"
  /\ replies # <<>>
  /\ LET goOn == iter = 1 \/ Head(replies)
     IN  /\ main' = IF mode = "launch" /\ goOn THEN "unsuspend" ELSE "stop"
         /\ dropped' = IF goOn THEN dropped ELSE dropped \cup {iter}
  /\ replies' = Tail(replies)
  /\ UNCHANGED <<samply, childVars, iter, requests, ctrlC>>

\* An error of unsuspend_and_run: fatal for the first child, and for any child
\* whose command is not found.
RunError ==
  \/ End("exited")
  \/ /\ iter > 1
     /\ main' = "stop"
     /\ UNCHANGED <<samply, iter, dropped, channels, ctrlC>>

\* A byte in the resume pipe.  Writing it fails if the child is gone.
unsuspend_and_run ==
  /\ main = "unsuspend"
  /\ IF child[iter] = "suspended"
     THEN /\ child' = [child EXCEPT ![iter] = "told"]
          /\ main' = "execerr"
          /\ UNCHANGED <<samply, iter, dropped, channels, ctrlC>>
     ELSE RunError /\ UNCHANGED child
  /\ UNCHANGED <<success, descendants>>

\* The execerr pipe delivers an error, or is closed by the exec or the exit.
read_execerr ==
  /\ main = "execerr"
  /\ \/ /\ child[iter] \in {"running", "exited"}
        /\ main' = "wait"
        /\ UNCHANGED <<samply, iter, dropped, channels, ctrlC>>
     \/ /\ child[iter] = "failed"
        /\ RunError
  /\ UNCHANGED childVars

wait ==
  /\ main = "wait"
  /\ child[iter] = "exited"
  /\ IF iter \in success /\ iter < Iterations
     THEN iter' = iter + 1 /\ main' = "launch"
     ELSE main' = "stop" /\ UNCHANGED iter
  /\ UNCHANGED <<samply, childVars, dropped, channels, ctrlC>>

send_stop ==
  /\ main = "stop"
  /\ send(Stop, IF mode = "launch" THEN "close" ELSE "join")
  /\ UNCHANGED childVars

\* From here on Ctrl+C terminates samply.
close_ctrl_c_receiver ==
  /\ main = "close"
  /\ ctrlC' = [ctrlC EXCEPT !.receiver = FALSE]
  /\ main' = "join"
  /\ UNCHANGED <<samply, childVars, iter, dropped, channels>>

\* The observer has quit; the profile is served and samply returns.
join ==
  /\ main = "join"
  /\ observer = "ended"
  /\ End("done")
  /\ UNCHANGED childVars

Main ==
  /\ samply = "alive"
  /\ \/ launch_in_suspended_state \/ send_start \/ recv_reply \/ unsuspend_and_run
     \/ read_execerr \/ wait \/ send_stop \/ close_ctrl_c_receiver \/ join
  /\ UNCHANGED <<observerVars, presses, mode>>

-----------------------------------------------------------------------------
(* The observer thread                                                     *)

recv_first_request ==
  /\ observer = "first"
  /\ requests # <<>>
  /\ requests' = Tail(requests)
  /\ observer' = "init"
  /\ UNCHANGED <<samply, opened, members, isClosed, shouldStop, saved, replies, ctrlC>>

\* Opening the perf events, or reading what /proc has about the process, fails
\* if it is gone, and may fail otherwise; samply then exits.
init_profiler ==
  /\ observer = "init"
  /\ \/ /\ Alive(1)
        /\ opened' = {1}
        /\ members' = {1}
        /\ observer' = "reply"
        /\ UNCHANGED samply
     \/ /\ samply' = "exited"
        /\ UNCHANGED <<observer, opened, members>>
  /\ UNCHANGED <<isClosed, shouldStop, saved, channels, ctrlC>>

send_first_reply ==
  /\ observer = "reply"
  /\ replies' = Append(replies, TRUE)
  /\ observer' = "top"
  /\ UNCHANGED <<samply, opened, members, isClosed, shouldStop, saved, requests, ctrlC>>

\* In launch mode nothing is ever sent to stop_receiver.
check_stop_receiver ==
  /\ observer = "top"
  /\ observer' = IF mode = "pid" /\ ctrlC.message THEN "save" ELSE "requests"
  /\ UNCHANGED <<samply, opened, members, isClosed, shouldStop, saved, channels, ctrlC>>

\* A slip: the reply is the same whether the events were opened or not.
open_another_process_always(i) ==
  /\ \/ Alive(i) /\ opened' = opened \cup {i} /\ members' = members \cup {i}
     \/ UNCHANGED <<opened, members>>
  /\ replies' = Append(replies, TRUE)

\* perf.open_process for a later child, and the reply.
open_another_process(i) ==
  \/ /\ Alive(i)
     /\ opened' = opened \cup {i}
     /\ members' = members \cup {i}
     /\ replies' = Append(replies, TRUE)
  \/ /\ replies' = Append(replies, FALSE)
     /\ UNCHANGED <<opened, members>>

handle_request ==
  /\ requests # <<>>
  /\ requests' = Tail(requests)
  /\ IF Head(requests) = Stop
     THEN shouldStop' = TRUE /\ UNCHANGED <<opened, members, replies>>
     ELSE open_another_process(Head(requests)) /\ UNCHANGED shouldStop

try_recv_request ==
  /\ observer = "requests"
  /\ observer' = "block"
  /\ \/ handle_request
     \/ requests = <<>> /\ UNCHANGED <<channels, opened, members, shouldStop>>
  /\ UNCHANGED <<samply, isClosed, saved, ctrlC>>

\* With no events to wait for the observer waits for a request.
recv_request ==
  /\ observer = "block"
  /\ observer' = "end_check"
  /\ IF members = {} /\ ~shouldStop
     THEN handle_request
     ELSE UNCHANGED <<channels, opened, members, shouldStop>>
  /\ UNCHANGED <<samply, isClosed, saved, ctrlC>>

\* A slip: the request to stop is obeyed at once.
check_end_at_once ==
  /\ observer = "end_check"
  /\ observer' = IF shouldStop THEN "save" ELSE "consume"
  /\ UNCHANGED <<samply, opened, members, isClosed, shouldStop, saved, channels, ctrlC>>

check_end ==
  /\ observer = "end_check"
  /\ observer' = IF members = {} /\ shouldStop THEN "save" ELSE "consume"
  /\ UNCHANGED <<samply, opened, members, isClosed, shouldStop, saved, channels, ctrlC>>

\* consume_events removes the members that were found closed.
consume_events ==
  /\ observer = "consume"
  /\ members' = members \ isClosed
  /\ isClosed' = {}
  /\ observer' = "poll"
  /\ UNCHANGED <<samply, opened, shouldStop, saved, channels, ctrlC>>


\* wait returns without a look at poll if the processes left new records.
wait_for_events ==
  /\ observer = "poll"
  /\ \/ isClosed' = {i \in members : ~TreeAlive(i)}
     \/ isClosed' = {} /\ \E i \in members : TreeAlive(i)
  /\ observer' = "top"
  /\ UNCHANGED <<samply, opened, members, shouldStop, saved, channels, ctrlC>>

\* The end of run_profiler, which drops stop_receiver.
save_profile ==
  /\ observer = "save"
  /\ saved' = TRUE
  /\ observer' = "ended"
  /\ ctrlC' = IF mode = "pid" THEN [ctrlC EXCEPT !.receiver = FALSE] ELSE ctrlC
  /\ UNCHANGED <<samply, opened, members, isClosed, shouldStop, channels>>

Observer ==
  /\ samply = "alive"
  /\ \/ recv_first_request \/ init_profiler \/ send_first_reply \/ check_stop_receiver
     \/ try_recv_request \/ recv_request \/ check_end \/ consume_events
     \/ wait_for_events \/ save_profile
  /\ UNCHANGED <<childVars, mainVars, presses, mode>>

-----------------------------------------------------------------------------
(* The launched processes, the user and the clock                          *)

\* run_child: with a byte it calls exec, which may fail; at the end of the pipe
\* it exits.
run_child(i) ==
  /\ \/ /\ child[i] = "told"
        /\ \E next \in {"running", "failed"} : child' = [child EXCEPT ![i] = next]
        /\ UNCHANGED success
     \/ /\ child[i] = "suspended"
        /\ i \in dropped \/ samply # "alive"
        /\ child' = [child EXCEPT ![i] = "exited"]
        /\ success' = success \cup {i}
  /\ UNCHANGED <<samply, descendants, mainVars, observerVars, channels, ctrlC, presses, mode>>

\* The child exits or is killed, and leaves descendants behind if it ran.
Exit(i) ==
  /\ Alive(i)
  /\ child' = [child EXCEPT ![i] = "exited"]
  /\ success' \in {success, success \cup {i}}
  /\ \/ UNCHANGED descendants
     \/ child[i] = "running" /\ descendants' = descendants \cup {i}
  /\ UNCHANGED <<samply, mainVars, observerVars, channels, ctrlC, presses, mode>>

DescendantsExit(i) ==
  /\ i \in descendants
  /\ descendants' = descendants \ {i}
  /\ UNCHANGED <<samply, child, success, mainVars, observerVars, channels, ctrlC, presses, mode>>

\* The Ctrl+C handler hands the signal to the receiver, once, or terminates.
PressCtrlC ==
  /\ samply = "alive"
  /\ presses < MaxPresses
  /\ presses' = presses + 1
  /\ ctrlC' = [ctrlC EXCEPT !.sender = FALSE,
                            !.message = @ \/ (ctrlC.sender /\ ctrlC.receiver)]
  /\ samply' = IF ctrlC.sender /\ ctrlC.receiver THEN samply ELSE "exited"
  /\ UNCHANGED <<childVars, mainVars, observerVars, channels, mode>>

Over ==
  /\ samply # "alive"
  /\ \A i \in Children : ~TreeAlive(i)
  /\ UNCHANGED vars

Next ==
  \/ Main \/ Observer \/ PressCtrlC \/ Over
  \/ \E i \in Children : run_child(i) \/ Exit(i) \/ DescendantsExit(i)

Spec == Init /\ [][Next]_vars

\* Both threads go on when they can, a child that can read its pipe does so,
\* and time passes.  Nothing makes the command exit or the user press a key.
FairSpec ==
  /\ Spec
  /\ WF_vars(Main) /\ WF_vars(Observer)
  /\ \A i \in Children : WF_vars(run_child(i))

-----------------------------------------------------------------------------
(* "The command will not start running until we tell it to", and it is     *)
(* told when its perf events are open: no launched command executes        *)
(* unobserved, in any iteration.                                           *)
ExecOnlyWhenObserved ==
  mode = "launch" =>
    \A i \in Children : child[i] \in {"told", "running", "failed"} => i \in opened

(* "It will keep running until all perf events are closed": the recording  *)
(* ends when no observed process is left, descendants included, or with    *)
(* the Ctrl+C that ends an attached recording.                             *)
RecordedToTheEnd ==
  observer \in {"save", "ended"} =>
    (mode = "pid" /\ ctrlC.message) \/ \A i \in opened : ~TreeAlive(i)

(* A suspended child is not left behind: it is told to run, or it notices  *)
(* that samply has given it up or is gone.                                 *)
SuspendedChildGoesOn ==
  \A i \in Children : (child[i] = "suspended") ~> (child[i] # "suspended")

(* The one panic of the code: a Ctrl+C during the start of an attached      *)
(* recording lets the observer save the profile and end before the main     *)
(* thread tells it to stop once the events are exhausted, and that send is  *)
(* unwrapped (linux/profiler.rs:332).  The comments around it expect an     *)
(* orderly end: "When the first Ctrl+C is received, stop recording" (274)   *)
(* and "Now wait for the observer thread to quit" (334).                    *)
PanicsAfterEarlyCtrlC ==
  /\ samply = "panicked" /\ saved
  /\ mode = "pid" /\ ctrlC.message /\ main = "stop"

(* Once all processes are gone for good, samply writes the profile and     *)
(* returns: the two threads never wait for each other.  It may have been   *)
(* terminated before that (by Ctrl+C, or by an error that ends it), but it *)
(* does not panic, with one exception.                                     *)
RecordingEnds ==
  (<>[](\A i \in Children : ~TreeAlive(i)))
    => <>(\/ saved /\ samply = "done"
          \/ samply = "exited"
          \/ PanicsAfterEarlyCtrlC)
=============================================================================
