------------------------- MODULE LinuxRecordingProofs -------------------------
(***************************************************************************)
(* Proofs about LinuxRecording for any number of iterations and presses of *)
(* Ctrl+C.                                                                 *)
(***************************************************************************)
EXTENDS LinuxRecording, TLAPS

\* The labels of the observer's loop, which it enters with the first reply.
Loop == {"top", "requests", "block", "end_check", "consume", "poll", "save", "ended"}

\* TypeOK without the channels, whose contents Handshake gives.
Types ==
  /\ mode \in Modes
  /\ samply \in {"alive", "done", "exited", "panicked"}
  /\ main \in {"launch", "request", "reply", "unsuspend", "execerr", "wait", "stop",
               "close", "join"}
  /\ iter \in Children
  /\ observer \in {"first", "init", "reply"} \cup Loop
  /\ child \in [Children -> {"none", "suspended", "told", "running", "failed", "exited"}]
  /\ success \subseteq Children
  /\ descendants \subseteq Children
  /\ dropped \subseteq Children
  /\ opened \subseteq Children
  /\ members \subseteq opened
  /\ isClosed \subseteq members
  /\ shouldStop \in BOOLEAN
  /\ ctrlC \in [sender : BOOLEAN, message : BOOLEAN, receiver : BOOLEAN]
  /\ presses \in 0 .. MaxPresses
  /\ saved \in BOOLEAN

\* Before the first request the observer waits for it; later it is in its loop.
ObserverReady == (observer = "first" /\ iter = 1) \/ (observer \in Loop /\ iter > 1)

\* What is in the two channels, by the label of the main thread.
Handshake ==
  \/ /\ main \in {"launch", "request"}
     /\ requests = <<>> /\ replies = <<>> /\ ObserverReady
  \/ /\ main = "reply"
     /\ requests = <<iter>> /\ replies = <<>> /\ ObserverReady
  \/ /\ main = "reply" /\ iter = 1
     /\ requests = <<>> /\ replies = <<>>
     /\ observer \in {"init", "reply"} /\ (observer = "reply" => 1 \in opened)
  \/ /\ main = "reply" /\ observer \in Loop
     /\ requests = <<>>
     /\ (replies = <<TRUE>> /\ iter \in opened) \/ (replies = <<FALSE>> /\ iter > 1)
  \/ /\ main \in {"unsuspend", "execerr", "wait"} /\ observer \in Loop
     /\ requests = <<>> /\ replies = <<>> /\ iter \in opened
  \/ /\ main = "stop" /\ observer \in Loop
     /\ requests = <<>> /\ replies = <<>>
  \/ /\ main \in {"close", "join"} /\ observer \in Loop
     /\ requests \in {<<>>, <<Stop>>} /\ replies = <<>>

\* A child that is not launched yet is not observed either, and a recording
\* of a running process has no iterations.
NotLaunched ==
  /\ \A i \in Children : i > iter \/ (i = iter /\ main = "launch") =>
                           child[i] = "none" /\ i \notin opened
  /\ mode = "pid" => main \in {"request", "reply", "stop", "join"}

\* Perf events leave the group, or are known to be closed, only if all the
\* processes they observe are gone.
ClosedAreGone ==
  \A i \in opened : i \notin members \/ i \in isClosed => ~TreeAlive(i)

\* The loop is left with Ctrl+C or with an empty group.
LeftLoop ==
  observer \in {"save", "ended"} => (mode = "pid" /\ ctrlC.message) \/ members = {}

IInv ==
  /\ Types
  /\ Handshake
  /\ NotLaunched
  /\ ExecOnlyWhenObserved
  /\ ClosedAreGone
  /\ LeftLoop

\* Channels never hold more than one message.
LEMMA One ==
  ASSUME NEW x
  PROVE  Head(<<x>>) = x /\ Tail(<<x>>) = <<>> /\ Append(<<>>, x) = <<x>> /\ <<x>> # <<>>
OBVIOUS

LEMMA Single ==
  ASSUME NEW S
  PROVE  /\ <<>> \in Seq(S) /\ Len(<<>>) = 0
         /\ \A x \in S : <<x>> \in Seq(S) /\ Len(<<x>>) = 1
OBVIOUS

\* The request that the observer finds in its loop: to stop, or to observe a
\* later child.
LEMMA PendingRequest ==
  ASSUME IInv, requests # <<>>, observer \in Loop
  PROVE  /\ Tail(requests) = <<>> /\ replies = <<>>
         /\ \/ Head(requests) = Stop /\ main \in {"close", "join"}
            \/ Head(requests) = iter /\ iter # Stop /\ iter > 1 /\ main = "reply"
<1> USE DEF Loop, Stop
<1>1. CASE requests = <<iter>> /\ replies = <<>> /\ ObserverReady /\ main = "reply"
  BY <1>1, One DEF ObserverReady
<1>2. CASE requests = <<Stop>> /\ replies = <<>> /\ main \in {"close", "join"}
  BY <1>2, One
<1> QED
  BY <1>1, <1>2 DEF IInv, Handshake

\* What handle_request does in the loop.
LEMMA Handled ==
  ASSUME IInv, observer \in Loop, handle_request
  PROVE  /\ requests' = <<>>
         /\ \/ /\ main \in {"close", "join"} /\ shouldStop' = TRUE
               /\ opened' = opened /\ members' = members /\ replies' = <<>>
            \/ /\ main = "reply" /\ iter > 1 /\ Alive(iter) /\ shouldStop' = shouldStop
               /\ opened' = opened \cup {iter} /\ members' = members \cup {iter}
               /\ replies' = <<TRUE>>
            \/ /\ main = "reply" /\ iter > 1 /\ shouldStop' = shouldStop
               /\ opened' = opened /\ members' = members /\ replies' = <<FALSE>>
<1>1. requests # <<>> /\ requests' = Tail(requests)
  BY DEF handle_request
<1>2. CASE Head(requests) = Stop /\ main \in {"close", "join"}
  BY <1>1, <1>2, PendingRequest DEF handle_request
<1>3. CASE Head(requests) = iter /\ iter # Stop /\ iter > 1 /\ main = "reply"
  BY <1>1, <1>3, PendingRequest, One DEF handle_request, open_another_process
<1> QED
  BY <1>1, <1>2, <1>3, PendingRequest

\* The first request is about the first child.
LEMMA FirstRequest == ASSUME IInv, observer = "init" PROVE iter = 1 /\ opened \subseteq {1}
<1>1. iter = 1
  BY DEF IInv, Handshake, ObserverReady, Loop
<1>2. ASSUME NEW i \in opened PROVE i = 1
  BY <1>1, LinuxRecordingAssumption DEF IInv, Types, NotLaunched, Children
<1> QED
  BY <1>1, <1>2

-----------------------------------------------------------------------------
LEMMA InitIInv == Init => IInv
<1> SUFFICES ASSUME Init PROVE IInv
  OBVIOUS
<1> USE LinuxRecordingAssumption DEF Init, Children
<1>1. Types
  <2>1. ctrlC \in [sender : BOOLEAN, message : BOOLEAN, receiver : BOOLEAN]
    OBVIOUS
  <2>2. child \in [Children -> {"none", "suspended", "told", "running", "failed", "exited"}]
    OBVIOUS
  <2>3. main \in {"launch", "request"} /\ iter \in Children /\ presses \in 0 .. MaxPresses
    OBVIOUS
  <2> QED
    BY <2>1, <2>2, <2>3 DEF Types, Loop
<1>2. Handshake /\ NotLaunched
  BY DEF Handshake, NotLaunched, ObserverReady
<1>3. ExecOnlyWhenObserved /\ ClosedAreGone /\ LeftLoop
  BY DEF ExecOnlyWhenObserved, ClosedAreGone, LeftLoop
<1> QED
  BY <1>1, <1>2, <1>3 DEF IInv

\* The types are kept.
LEMMA TypesStep == IInv /\ [Next]_vars => Types'
<1> SUFFICES ASSUME IInv, [Next]_vars PROVE Types'
  OBVIOUS
<1> USE LinuxRecordingAssumption DEF IInv, Types, Children, Alive, Loop, childVars, mainVars, observerVars, channels
<1>1. ASSUME Main, launch_in_suspended_state PROVE Types'
  BY <1>1 DEF Main, launch_in_suspended_state
<1>2. ASSUME Main, send_start PROVE Types'
  BY <1>2 DEF Main, send_start, send, End
<1>3. ASSUME Main, recv_reply PROVE Types'
  BY <1>3 DEF Main, recv_reply
<1>4. ASSUME Main, unsuspend_and_run PROVE Types'
  BY <1>4 DEF Main, unsuspend_and_run, RunError, End
<1>5. ASSUME Main, read_execerr PROVE Types'
  BY <1>5 DEF Main, read_execerr, RunError, End
<1>6. ASSUME Main, wait PROVE Types'
  BY <1>6 DEF Main, wait
<1>7. ASSUME Main, send_stop PROVE Types'
  BY <1>7 DEF Main, send_stop, send, End
<1>8. ASSUME Main, close_ctrl_c_receiver PROVE Types'
  BY <1>8 DEF Main, close_ctrl_c_receiver
<1>9. ASSUME Main, join PROVE Types'
  BY <1>9 DEF Main, join, End
<1>10. ASSUME Observer, recv_first_request PROVE Types'
  BY <1>10 DEF Observer, recv_first_request
<1>11. ASSUME Observer, init_profiler PROVE Types'
  <2>1. isClosed \subseteq {1} /\ 1 \in Children
    BY <1>11, FirstRequest DEF init_profiler
  <2>2. CASE opened' = {1} /\ members' = {1}
    BY <1>11, <2>1, <2>2 DEF Observer, init_profiler
  <2>3. CASE UNCHANGED <<opened, members>>
    BY <1>11, <2>3 DEF Observer, init_profiler
  <2> QED
    BY <1>11, <2>2, <2>3 DEF init_profiler
<1>12. ASSUME Observer, send_first_reply PROVE Types'
  BY <1>12 DEF Observer, send_first_reply
<1>13. ASSUME Observer, check_stop_receiver PROVE Types'
  BY <1>13 DEF Observer, check_stop_receiver
<1>14. ASSUME Observer, try_recv_request PROVE Types'
  <2>1. CASE handle_request
    BY <1>14, <2>1, Handled DEF Observer, try_recv_request
  <2>2. CASE UNCHANGED <<channels, opened, members, shouldStop>>
    BY <1>14, <2>2 DEF Observer, try_recv_request
  <2> QED
    BY <1>14, <2>1, <2>2 DEF Observer, try_recv_request
<1>15. ASSUME Observer, recv_request PROVE Types'
  <2>1. CASE handle_request
    BY <1>15, <2>1, Handled DEF Observer, recv_request
  <2>2. CASE UNCHANGED <<channels, opened, members, shouldStop>>
    BY <1>15, <2>2 DEF Observer, recv_request
  <2> QED
    BY <1>15, <2>1, <2>2 DEF Observer, recv_request
<1>16. ASSUME Observer, check_end PROVE Types'
  BY <1>16 DEF Observer, check_end
<1>17. ASSUME Observer, consume_events PROVE Types'
  BY <1>17 DEF Observer, consume_events
<1>18. ASSUME Observer, wait_for_events PROVE Types'
  BY <1>18 DEF Observer, wait_for_events
<1>19. ASSUME Observer, save_profile PROVE Types'
  BY <1>19 DEF Observer, save_profile
<1>20. ASSUME NEW i \in Children, run_child(i) PROVE Types'
  <2>1. child' \in [Children -> {"none", "suspended", "told", "running", "failed", "exited"}]
    BY <1>20 DEF run_child
  <2>2. success' \subseteq Children
    BY <1>20 DEF run_child
  <2> QED
    BY <1>20, <2>1, <2>2 DEF run_child
<1>21. ASSUME NEW i \in Children, Exit(i) PROVE Types'
  <2>1. child' \in [Children -> {"none", "suspended", "told", "running", "failed", "exited"}]
    BY <1>21 DEF Exit
  <2>2. success' \subseteq Children /\ descendants' \subseteq Children
    BY <1>21 DEF Exit
  <2> QED
    BY <1>21, <2>1, <2>2 DEF Exit
<1>22. ASSUME NEW i \in Children, DescendantsExit(i) PROVE Types'
  BY <1>22 DEF DescendantsExit
<1>23. ASSUME PressCtrlC PROVE Types'
  <2>1. ctrlC' \in [sender : BOOLEAN, message : BOOLEAN, receiver : BOOLEAN]
    BY <1>23, Zenon DEF PressCtrlC
  <2>2. presses' \in 0 .. MaxPresses /\ samply' \in {"alive", "done", "exited", "panicked"}
    BY <1>23 DEF PressCtrlC
  <2> QED
    BY <1>23, <2>1, <2>2 DEF PressCtrlC
<1>24. ASSUME UNCHANGED vars PROVE Types'
  BY <1>24 DEF vars
<1> QED
  BY <1>1, <1>2, <1>3, <1>4, <1>5, <1>6, <1>7, <1>8, <1>9, <1>10, <1>11, <1>12, <1>13, <1>14, <1>15, <1>16, <1>17, <1>18, <1>19, <1>20, <1>21, <1>22, <1>23, <1>24 DEF Next, Main, Observer, Over

\* The threads take turns.
LEMMA HandshakeStep == IInv /\ [Next]_vars => Handshake'
<1> SUFFICES ASSUME IInv, [Next]_vars PROVE Handshake'
  OBVIOUS
<1> USE DEF IInv, Types, Handshake, ObserverReady, Loop, NotLaunched, Stop, childVars, mainVars, observerVars, channels
<1>1. ASSUME Main, launch_in_suspended_state PROVE Handshake'
  BY <1>1 DEF Main, launch_in_suspended_state
<1>2. ASSUME Main, send_start PROVE Handshake'
  BY <1>2, One DEF Main, send_start, send, End
<1>3. ASSUME Main, recv_reply PROVE Handshake'
  <2>1. observer \in Loop /\ requests = <<>>
    BY <1>3 DEF recv_reply
  <2>2. CASE replies = <<TRUE>> /\ iter \in opened
    BY <1>3, <2>1, <2>2, One DEF Main, recv_reply
  <2>3. CASE replies = <<FALSE>> /\ iter > 1
    <3>1. ~Head(replies) /\ Tail(replies) = <<>>
      BY <2>3, One, Zenon
    <3>2. iter # 1
      BY <2>3 DEF Children
    <3> QED
      BY <1>3, <2>1, <3>1, <3>2 DEF Main, recv_reply
  <2> QED
    BY <1>3, <2>2, <2>3 DEF recv_reply
<1>4. ASSUME Main, unsuspend_and_run PROVE Handshake'
  BY <1>4 DEF Main, unsuspend_and_run, RunError, End
<1>5. ASSUME Main, read_execerr PROVE Handshake'
  BY <1>5 DEF Main, read_execerr, RunError, End
<1>6. ASSUME Main, wait PROVE Handshake'
  <2>1. iter \in Nat /\ iter > 0
    BY LinuxRecordingAssumption DEF Children
  <2>2. requests' = <<>> /\ replies' = <<>> /\ observer' \in Loop
    BY <1>6 DEF Main, wait
  <2>3. (main' = "launch" /\ iter' = iter + 1) \/ main' = "stop"
    BY <1>6 DEF wait
  <2> QED
    BY <2>1, <2>2, <2>3
<1>7. ASSUME Main, send_stop PROVE Handshake'
  BY <1>7, One DEF Main, send_stop, send, End
<1>8. ASSUME Main, close_ctrl_c_receiver PROVE Handshake'
  BY <1>8 DEF Main, close_ctrl_c_receiver
<1>9. ASSUME Main, join PROVE Handshake'
  BY <1>9 DEF Main, join, End
<1>10. ASSUME Observer, recv_first_request PROVE Handshake'
  BY <1>10, One DEF Observer, recv_first_request
<1>11. ASSUME Observer, init_profiler PROVE Handshake'
  BY <1>11 DEF Observer, init_profiler
<1>12. ASSUME Observer, send_first_reply PROVE Handshake'
  BY <1>12, One DEF Observer, send_first_reply
<1>13. ASSUME Observer, check_stop_receiver PROVE Handshake'
  BY <1>13 DEF Observer, check_stop_receiver
<1>14. ASSUME Observer, try_recv_request PROVE Handshake'
  <2>1. CASE handle_request
    BY <1>14, <2>1, Handled DEF Observer, try_recv_request
  <2>2. CASE UNCHANGED <<channels, opened, members, shouldStop>>
    BY <1>14, <2>2 DEF Observer, try_recv_request
  <2> QED
    BY <1>14, <2>1, <2>2 DEF Observer, try_recv_request
<1>15. ASSUME Observer, recv_request PROVE Handshake'
  <2>1. CASE handle_request
    BY <1>15, <2>1, Handled DEF Observer, recv_request
  <2>2. CASE UNCHANGED <<channels, opened, members, shouldStop>>
    BY <1>15, <2>2 DEF Observer, recv_request
  <2> QED
    BY <1>15, <2>1, <2>2 DEF Observer, recv_request
<1>16. ASSUME Observer, check_end PROVE Handshake'
  BY <1>16 DEF Observer, check_end
<1>17. ASSUME Observer, consume_events PROVE Handshake'
  BY <1>17 DEF Observer, consume_events
<1>18. ASSUME Observer, wait_for_events PROVE Handshake'
  BY <1>18 DEF Observer, wait_for_events
<1>19. ASSUME Observer, save_profile PROVE Handshake'
  BY <1>19 DEF Observer, save_profile
<1>20. ASSUME NEW i \in Children, run_child(i) PROVE Handshake'
  BY <1>20 DEF run_child
<1>21. ASSUME NEW i \in Children, Exit(i) PROVE Handshake'
  BY <1>21 DEF Exit
<1>22. ASSUME NEW i \in Children, DescendantsExit(i) PROVE Handshake'
  BY <1>22 DEF DescendantsExit
<1>23. ASSUME PressCtrlC PROVE Handshake'
  BY <1>23 DEF PressCtrlC
<1>24. ASSUME UNCHANGED vars PROVE Handshake'
  BY <1>24 DEF vars
<1> QED
  BY <1>1, <1>2, <1>3, <1>4, <1>5, <1>6, <1>7, <1>8, <1>9, <1>10, <1>11, <1>12, <1>13, <1>14, <1>15, <1>16, <1>17, <1>18, <1>19, <1>20, <1>21, <1>22, <1>23, <1>24 DEF Next, Main, Observer, Over

\* Requests concern children that are launched.
LEMMA NotLaunchedStep == IInv /\ [Next]_vars => NotLaunched'
<1> SUFFICES ASSUME IInv, [Next]_vars PROVE NotLaunched'
  OBVIOUS
<1> USE LinuxRecordingAssumption DEF IInv, Types, Handshake, ObserverReady, Loop, NotLaunched, Stop, Alive, childVars, mainVars, observerVars, channels
<1>1. ASSUME Main, launch_in_suspended_state PROVE NotLaunched'
  BY <1>1 DEF Main, launch_in_suspended_state
<1>2. ASSUME Main, send_start PROVE NotLaunched'
  BY <1>2, One DEF Main, send_start, send, End
<1>3. ASSUME Main, recv_reply PROVE NotLaunched'
  BY <1>3, One DEF Main, recv_reply
<1>4. ASSUME Main, unsuspend_and_run PROVE NotLaunched'
  BY <1>4 DEF Main, unsuspend_and_run, RunError, End
<1>5. ASSUME Main, read_execerr PROVE NotLaunched'
  BY <1>5 DEF Main, read_execerr, RunError, End
<1>6. ASSUME Main, wait PROVE NotLaunched'
  <2>1. iter \in Nat /\ iter > 0
    BY LinuxRecordingAssumption DEF Children
  <2> QED
    BY <1>6, <2>1 DEF Main, wait
<1>7. ASSUME Main, send_stop PROVE NotLaunched'
  BY <1>7, One DEF Main, send_stop, send, End
<1>8. ASSUME Main, close_ctrl_c_receiver PROVE NotLaunched'
  BY <1>8 DEF Main, close_ctrl_c_receiver
<1>9. ASSUME Main, join PROVE NotLaunched'
  BY <1>9 DEF Main, join, End
<1>10. ASSUME Observer, recv_first_request PROVE NotLaunched'
  BY <1>10, One DEF Observer, recv_first_request
<1>11. ASSUME Observer, init_profiler PROVE NotLaunched'
  BY <1>11 DEF Observer, init_profiler
<1>12. ASSUME Observer, send_first_reply PROVE NotLaunched'
  BY <1>12, One DEF Observer, send_first_reply
<1>13. ASSUME Observer, check_stop_receiver PROVE NotLaunched'
  BY <1>13 DEF Observer, check_stop_receiver
<1>14. ASSUME Observer, try_recv_request PROVE NotLaunched'
  <2>1. CASE handle_request
    BY <1>14, <2>1, Handled DEF Observer, try_recv_request
  <2>2. CASE UNCHANGED <<channels, opened, members, shouldStop>>
    BY <1>14, <2>2 DEF Observer, try_recv_request
  <2> QED
    BY <1>14, <2>1, <2>2 DEF Observer, try_recv_request
<1>15. ASSUME Observer, recv_request PROVE NotLaunched'
  <2>1. CASE handle_request
    BY <1>15, <2>1, Handled DEF Observer, recv_request
  <2>2. CASE UNCHANGED <<channels, opened, members, shouldStop>>
    BY <1>15, <2>2 DEF Observer, recv_request
  <2> QED
    BY <1>15, <2>1, <2>2 DEF Observer, recv_request
<1>16. ASSUME Observer, check_end PROVE NotLaunched'
  BY <1>16 DEF Observer, check_end
<1>17. ASSUME Observer, consume_events PROVE NotLaunched'
  BY <1>17 DEF Observer, consume_events
<1>18. ASSUME Observer, wait_for_events PROVE NotLaunched'
  BY <1>18 DEF Observer, wait_for_events
<1>19. ASSUME Observer, save_profile PROVE NotLaunched'
  BY <1>19 DEF Observer, save_profile
<1>20. ASSUME NEW i \in Children, run_child(i) PROVE NotLaunched'
  BY <1>20 DEF run_child
<1>21. ASSUME NEW i \in Children, Exit(i) PROVE NotLaunched'
  BY <1>21 DEF Exit
<1>22. ASSUME NEW i \in Children, DescendantsExit(i) PROVE NotLaunched'
  BY <1>22 DEF DescendantsExit
<1>23. ASSUME PressCtrlC PROVE NotLaunched'
  BY <1>23 DEF PressCtrlC
<1>24. ASSUME UNCHANGED vars PROVE NotLaunched'
  BY <1>24 DEF vars
<1> QED
  BY <1>1, <1>2, <1>3, <1>4, <1>5, <1>6, <1>7, <1>8, <1>9, <1>10, <1>11, <1>12, <1>13, <1>14, <1>15, <1>16, <1>17, <1>18, <1>19, <1>20, <1>21, <1>22, <1>23, <1>24 DEF Next, Main, Observer, Over

\* A child is told to go on after the reply that it is observed.
LEMMA ExecStep == IInv /\ [Next]_vars => ExecOnlyWhenObserved'
<1> SUFFICES ASSUME IInv, [Next]_vars PROVE ExecOnlyWhenObserved'
  OBVIOUS
<1> USE DEF IInv, Types, Handshake, NotLaunched, ExecOnlyWhenObserved, Loop, ObserverReady, childVars, mainVars, observerVars, channels
<1>1. ASSUME Main, launch_in_suspended_state PROVE ExecOnlyWhenObserved'
  BY <1>1 DEF Main, launch_in_suspended_state
<1>2. ASSUME Main, send_start PROVE ExecOnlyWhenObserved'
  BY <1>2, One DEF Main, send_start, send, End
<1>3. ASSUME Main, recv_reply PROVE ExecOnlyWhenObserved'
  BY <1>3, One DEF Main, recv_reply
<1>4. ASSUME Main, unsuspend_and_run PROVE ExecOnlyWhenObserved'
  BY <1>4 DEF Main, unsuspend_and_run, RunError, End
<1>5. ASSUME Main, read_execerr PROVE ExecOnlyWhenObserved'
  BY <1>5 DEF Main, read_execerr, RunError, End
<1>6. ASSUME Main, wait PROVE ExecOnlyWhenObserved'
  BY <1>6 DEF Main, wait
<1>7. ASSUME Main, send_stop PROVE ExecOnlyWhenObserved'
  BY <1>7, One DEF Main, send_stop, send, End
<1>8. ASSUME Main, close_ctrl_c_receiver PROVE ExecOnlyWhenObserved'
  BY <1>8 DEF Main, close_ctrl_c_receiver
<1>9. ASSUME Main, join PROVE ExecOnlyWhenObserved'
  BY <1>9 DEF Main, join, End
<1>10. ASSUME Observer, recv_first_request PROVE ExecOnlyWhenObserved'
  BY <1>10, One DEF Observer, recv_first_request
<1>11. ASSUME Observer, init_profiler PROVE ExecOnlyWhenObserved'
  BY <1>11, FirstRequest DEF Observer, init_profiler
<1>12. ASSUME Observer, send_first_reply PROVE ExecOnlyWhenObserved'
  BY <1>12, One DEF Observer, send_first_reply
<1>13. ASSUME Observer, check_stop_receiver PROVE ExecOnlyWhenObserved'
  BY <1>13 DEF Observer, check_stop_receiver
<1>14. ASSUME Observer, try_recv_request PROVE ExecOnlyWhenObserved'
  <2>1. CASE handle_request
    BY <1>14, <2>1, Handled DEF Observer, try_recv_request
  <2>2. CASE UNCHANGED <<channels, opened, members, shouldStop>>
    BY <1>14, <2>2 DEF Observer, try_recv_request
  <2> QED
    BY <1>14, <2>1, <2>2 DEF Observer, try_recv_request
<1>15. ASSUME Observer, recv_request PROVE ExecOnlyWhenObserved'
  <2>1. CASE handle_request
    BY <1>15, <2>1, Handled DEF Observer, recv_request
  <2>2. CASE UNCHANGED <<channels, opened, members, shouldStop>>
    BY <1>15, <2>2 DEF Observer, recv_request
  <2> QED
    BY <1>15, <2>1, <2>2 DEF Observer, recv_request
<1>16. ASSUME Observer, check_end PROVE ExecOnlyWhenObserved'
  BY <1>16 DEF Observer, check_end
<1>17. ASSUME Observer, consume_events PROVE ExecOnlyWhenObserved'
  BY <1>17 DEF Observer, consume_events
<1>18. ASSUME Observer, wait_for_events PROVE ExecOnlyWhenObserved'
  BY <1>18 DEF Observer, wait_for_events
<1>19. ASSUME Observer, save_profile PROVE ExecOnlyWhenObserved'
  BY <1>19 DEF Observer, save_profile
<1>20. ASSUME NEW i \in Children, run_child(i) PROVE ExecOnlyWhenObserved'
  BY <1>20 DEF run_child
<1>21. ASSUME NEW i \in Children, Exit(i) PROVE ExecOnlyWhenObserved'
  BY <1>21 DEF Exit
<1>22. ASSUME NEW i \in Children, DescendantsExit(i) PROVE ExecOnlyWhenObserved'
  BY <1>22 DEF DescendantsExit
<1>23. ASSUME PressCtrlC PROVE ExecOnlyWhenObserved'
  BY <1>23 DEF PressCtrlC
<1>24. ASSUME UNCHANGED vars PROVE ExecOnlyWhenObserved'
  BY <1>24 DEF vars
<1> QED
  BY <1>1, <1>2, <1>3, <1>4, <1>5, <1>6, <1>7, <1>8, <1>9, <1>10, <1>11, <1>12, <1>13, <1>14, <1>15, <1>16, <1>17, <1>18, <1>19, <1>20, <1>21, <1>22, <1>23, <1>24 DEF Next, Main, Observer, Over

\* A process tree that is gone does not come back.
LEMMA ClosedStep == IInv /\ [Next]_vars => ClosedAreGone'
<1> SUFFICES ASSUME IInv, [Next]_vars PROVE ClosedAreGone'
  OBVIOUS
<1> USE DEF IInv, Types, Handshake, NotLaunched, ClosedAreGone, TreeAlive, Alive, Loop, ObserverReady, childVars, mainVars, observerVars, channels
<1>1. ASSUME Main, launch_in_suspended_state PROVE ClosedAreGone'
  BY <1>1 DEF Main, launch_in_suspended_state
<1>2. ASSUME Main, send_start PROVE ClosedAreGone'
  BY <1>2, One DEF Main, send_start, send, End
<1>3. ASSUME Main, recv_reply PROVE ClosedAreGone'
  BY <1>3, One DEF Main, recv_reply
<1>4. ASSUME Main, unsuspend_and_run PROVE ClosedAreGone'
  BY <1>4 DEF Main, unsuspend_and_run, RunError, End
<1>5. ASSUME Main, read_execerr PROVE ClosedAreGone'
  BY <1>5 DEF Main, read_execerr, RunError, End
<1>6. ASSUME Main, wait PROVE ClosedAreGone'
  BY <1>6 DEF Main, wait
<1>7. ASSUME Main, send_stop PROVE ClosedAreGone'
  BY <1>7, One DEF Main, send_stop, send, End
<1>8. ASSUME Main, close_ctrl_c_receiver PROVE ClosedAreGone'
  BY <1>8 DEF Main, close_ctrl_c_receiver
<1>9. ASSUME Main, join PROVE ClosedAreGone'
  BY <1>9 DEF Main, join, End
<1>10. ASSUME Observer, recv_first_request PROVE ClosedAreGone'
  BY <1>10, One DEF Observer, recv_first_request
<1>11. ASSUME Observer, init_profiler PROVE ClosedAreGone'
  BY <1>11 DEF Observer, init_profiler
<1>12. ASSUME Observer, send_first_reply PROVE ClosedAreGone'
  BY <1>12, One DEF Observer, send_first_reply
<1>13. ASSUME Observer, check_stop_receiver PROVE ClosedAreGone'
  BY <1>13 DEF Observer, check_stop_receiver
<1>14. ASSUME Observer, try_recv_request PROVE ClosedAreGone'
  <2>1. CASE handle_request
    BY <1>14, <2>1, Handled DEF Observer, try_recv_request
  <2>2. CASE UNCHANGED <<channels, opened, members, shouldStop>>
    BY <1>14, <2>2 DEF Observer, try_recv_request
  <2> QED
    BY <1>14, <2>1, <2>2 DEF Observer, try_recv_request
<1>15. ASSUME Observer, recv_request PROVE ClosedAreGone'
  <2>1. CASE handle_request
    BY <1>15, <2>1, Handled DEF Observer, recv_request
  <2>2. CASE UNCHANGED <<channels, opened, members, shouldStop>>
    BY <1>15, <2>2 DEF Observer, recv_request
  <2> QED
    BY <1>15, <2>1, <2>2 DEF Observer, recv_request
<1>16. ASSUME Observer, check_end PROVE ClosedAreGone'
  BY <1>16 DEF Observer, check_end
<1>17. ASSUME Observer, consume_events PROVE ClosedAreGone'
  BY <1>17 DEF Observer, consume_events
<1>18. ASSUME Observer, wait_for_events PROVE ClosedAreGone'
  BY <1>18 DEF Observer, wait_for_events
<1>19. ASSUME Observer, save_profile PROVE ClosedAreGone'
  BY <1>19 DEF Observer, save_profile
<1>20. ASSUME NEW i \in Children, run_child(i) PROVE ClosedAreGone'
  BY <1>20 DEF run_child
<1>21. ASSUME NEW i \in Children, Exit(i) PROVE ClosedAreGone'
  BY <1>21 DEF Exit
<1>22. ASSUME NEW i \in Children, DescendantsExit(i) PROVE ClosedAreGone'
  BY <1>22 DEF DescendantsExit
<1>23. ASSUME PressCtrlC PROVE ClosedAreGone'
  BY <1>23 DEF PressCtrlC
<1>24. ASSUME UNCHANGED vars PROVE ClosedAreGone'
  BY <1>24 DEF vars
<1> QED
  BY <1>1, <1>2, <1>3, <1>4, <1>5, <1>6, <1>7, <1>8, <1>9, <1>10, <1>11, <1>12, <1>13, <1>14, <1>15, <1>16, <1>17, <1>18, <1>19, <1>20, <1>21, <1>22, <1>23, <1>24 DEF Next, Main, Observer, Over

\* The loop is left once.
LEMMA LeftLoopStep == IInv /\ [Next]_vars => LeftLoop'
<1> SUFFICES ASSUME IInv, [Next]_vars PROVE LeftLoop'
  OBVIOUS
<1> USE DEF IInv, Types, LeftLoop, childVars, mainVars, observerVars, channels
<1>1. ASSUME Main, launch_in_suspended_state PROVE LeftLoop'
  BY <1>1 DEF Main, launch_in_suspended_state
<1>2. ASSUME Main, send_start PROVE LeftLoop'
  BY <1>2 DEF Main, send_start, send, End
<1>3. ASSUME Main, recv_reply PROVE LeftLoop'
  BY <1>3 DEF Main, recv_reply
<1>4. ASSUME Main, unsuspend_and_run PROVE LeftLoop'
  BY <1>4 DEF Main, unsuspend_and_run, RunError, End
<1>5. ASSUME Main, read_execerr PROVE LeftLoop'
  BY <1>5 DEF Main, read_execerr, RunError, End
<1>6. ASSUME Main, wait PROVE LeftLoop'
  BY <1>6 DEF Main, wait
<1>7. ASSUME Main, send_stop PROVE LeftLoop'
  BY <1>7 DEF Main, send_stop, send, End
<1>8. ASSUME Main, close_ctrl_c_receiver PROVE LeftLoop'
  BY <1>8 DEF Main, close_ctrl_c_receiver
<1>9. ASSUME Main, join PROVE LeftLoop'
  BY <1>9 DEF Main, join, End
<1>10. ASSUME Observer, recv_first_request PROVE LeftLoop'
  BY <1>10 DEF Observer, recv_first_request
<1>11. ASSUME Observer, init_profiler PROVE LeftLoop'
  BY <1>11 DEF Observer, init_profiler
<1>12. ASSUME Observer, send_first_reply PROVE LeftLoop'
  BY <1>12 DEF Observer, send_first_reply
<1>13. ASSUME Observer, check_stop_receiver PROVE LeftLoop'
  BY <1>13 DEF Observer, check_stop_receiver
<1>14. ASSUME Observer, try_recv_request PROVE LeftLoop'
  <2>1. CASE handle_request
    BY <1>14, <2>1, Handled DEF Observer, try_recv_request
  <2>2. CASE UNCHANGED <<channels, opened, members, shouldStop>>
    BY <1>14, <2>2 DEF Observer, try_recv_request
  <2> QED
    BY <1>14, <2>1, <2>2 DEF Observer, try_recv_request
<1>15. ASSUME Observer, recv_request PROVE LeftLoop'
  <2>1. CASE handle_request
    BY <1>15, <2>1, Handled DEF Observer, recv_request
  <2>2. CASE UNCHANGED <<channels, opened, members, shouldStop>>
    BY <1>15, <2>2 DEF Observer, recv_request
  <2> QED
    BY <1>15, <2>1, <2>2 DEF Observer, recv_request
<1>16. ASSUME Observer, check_end PROVE LeftLoop'
  BY <1>16 DEF Observer, check_end
<1>17. ASSUME Observer, consume_events PROVE LeftLoop'
  BY <1>17 DEF Observer, consume_events
<1>18. ASSUME Observer, wait_for_events PROVE LeftLoop'
  BY <1>18 DEF Observer, wait_for_events
<1>19. ASSUME Observer, save_profile PROVE LeftLoop'
  BY <1>19 DEF Observer, save_profile
<1>20. ASSUME NEW i \in Children, run_child(i) PROVE LeftLoop'
  BY <1>20 DEF run_child
<1>21. ASSUME NEW i \in Children, Exit(i) PROVE LeftLoop'
  BY <1>21 DEF Exit
<1>22. ASSUME NEW i \in Children, DescendantsExit(i) PROVE LeftLoop'
  BY <1>22 DEF DescendantsExit
<1>23. ASSUME PressCtrlC PROVE LeftLoop'
  BY <1>23 DEF PressCtrlC
<1>24. ASSUME UNCHANGED vars PROVE LeftLoop'
  BY <1>24 DEF vars
<1> QED
  BY <1>1, <1>2, <1>3, <1>4, <1>5, <1>6, <1>7, <1>8, <1>9, <1>10, <1>11, <1>12, <1>13, <1>14, <1>15, <1>16, <1>17, <1>18, <1>19, <1>20, <1>21, <1>22, <1>23, <1>24 DEF Next, Main, Observer, Over

-----------------------------------------------------------------------------
(* What the threads know of each other is an invariant.                    *)
THEOREM Inductive == Spec => []IInv
<1>1. IInv /\ [Next]_vars => IInv'
  BY TypesStep, HandshakeStep, NotLaunchedStep, ExecStep, ClosedStep, LeftLoopStep DEF IInv
<1> QED
  BY InitIInv, <1>1, PTL DEF Spec

(* The variables have their types, and the bounded channels are never full *)
(* (so that a send by either thread does not block).                       *)
THEOREM TypeCorrect == Spec => []TypeOK
<1>1. IInv => TypeOK
  <2> SUFFICES ASSUME IInv PROVE TypeOK
    OBVIOUS
  <2>1. requests \in {<<>>, <<iter>>, <<Stop>>} /\ iter \in Children
    BY DEF IInv, Types, Handshake
  <2>2. replies \in {<<>>, <<TRUE>>, <<FALSE>>}
    BY DEF IInv, Handshake
  <2>3. requests \in Seq(Children \cup {Stop}) /\ Len(requests) \in {0, 1}
    BY <2>1, Single, Zenon
  <2>4. replies \in Seq(BOOLEAN) /\ Len(replies) \in {0, 1}
    BY <2>2, Single, Zenon
  <2>5. Len(requests) <= Capacity /\ Len(replies) <= Capacity
    BY <2>3, <2>4 DEF Capacity
  <2> QED
    BY <2>3, <2>4, <2>5 DEF IInv, Types, TypeOK, Loop
<1> QED
  BY Inductive, <1>1, PTL

(* No launched command executes before its perf events are open, in any    *)
(* iteration (launch_in_suspended_state, open_process, unsuspend_and_run). *)
THEOREM Observed == Spec => []ExecOnlyWhenObserved
BY Inductive, PTL DEF IInv

(* The observer leaves its loop only when no observed process is left, or  *)
(* with the Ctrl+C that ends an attached recording (run_profiler).         *)
THEOREM ToTheEnd == Spec => []RecordedToTheEnd
<1>1. IInv => RecordedToTheEnd
  BY DEF IInv, LeftLoop, ClosedAreGone, RecordedToTheEnd
<1> QED
  BY Inductive, <1>1, PTL
=============================================================================
