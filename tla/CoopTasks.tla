----------------------------- MODULE CoopTasks -----------------------------
(***************************************************************************)
(* What a cooperative scheduler promises its user, without queues, slots   *)
(* or caches: a task is in one state, at most one task holds the CPU, the  *)
(* CPU changes hands only when its holder gives it up, and a task that has *)
(* finished never runs again unless it is spawned anew.                    *)
(***************************************************************************)
CONSTANTS
  Task,   \* the task structures
  Main    \* holds the CPU when no task does; it is no task

VARIABLES
  task,   \* the state of each task
  holder  \* who holds the CPU

tvars == <<task, holder>>

TaskState == {"none", "ready", "running", "suspended", "finished"}

Init ==
  /\ task = [t \in Task |-> "none"]
  /\ holder = Main

\* A structure nobody uses, or one whose task has finished, is made a new task.
Spawn(t) ==
  /\ task[t] \in {"none", "finished"}
  /\ task' = [task EXCEPT ![t] = "ready"]
  /\ UNCHANGED holder

\* Somebody else makes a suspended task ready.
Wake(t) ==
  /\ task[t] = "suspended"
  /\ task' = [task EXCEPT ![t] = "ready"]
  /\ UNCHANGED holder

\* Main gives the CPU to a ready task.
Dispatch(t) ==
  /\ holder = Main
  /\ task[t] = "ready"
  /\ task' = [task EXCEPT ![t] = "running"]
  /\ holder' = t

\* The holder t leaves the CPU in state s; the structures in reap, all finished,
\* are given back; the CPU goes to a task that may run, or to Main.
Leave(t, s, reap) ==
  /\ holder = t
  /\ \A u \in reap : task[u] = "finished"
  /\ \E h \in Task \cup {Main} :
       LET left == [u \in Task |-> IF u = t THEN s
                                   ELSE IF u \in reap THEN "none" ELSE task[u]]
       IN  /\ h \in Task => left[h] = "ready" \/ (h # t /\ left[h] = "suspended")
           /\ task' = [u \in Task |-> IF u = h THEN "running" ELSE left[u]]
           /\ holder' = h

\* Main gives the structures of finished tasks back.
Reap(reap) ==
  /\ holder = Main
  /\ \A u \in reap : task[u] = "finished"
  /\ task' = [u \in Task |-> IF u \in reap THEN "none" ELSE task[u]]
  /\ UNCHANGED holder

Next ==
  \/ \E t \in Task : Spawn(t) \/ Wake(t) \/ Dispatch(t)
  \/ \E t \in Task, s \in {"ready", "suspended", "finished"}, reap \in SUBSET Task :
       Leave(t, s, reap)
  \/ \E reap \in SUBSET Task : Reap(reap)

Spec == Init /\ [][Next]_tvars

=============================================================================
