------------------------------ MODULE HookOnce ------------------------------
(***************************************************************************)
(* How the threads of a program find the system's functions: every hooked  *)
(* function tests its own pointer (__sys_recv, __sys_accept, ...) without  *)
(* a lock, and calls hook_init when it is NULL; hook_init has hook_api run *)
(* once, by pthread_once of pthread_patch.c; hook_api sets the pointers of *)
(* the file, one store after the other.                                    *)
(*                                                                         *)
(* The test races with the stores of a thread inside hook_api, which the   *)
(* compiler and the processor may reorder: here a test sees any subset of  *)
(* them.                                                                   *)
(***************************************************************************)
EXTENDS Naturals

CONSTANTS
  Thread,  \* the threads of the program
  Api      \* the functions of one file: close, recv, send, ... for io.c

VARIABLES
  control,    \* the pthread_once_t: 0 untouched, 1 being run, 2 done
  installed,  \* the functions whose pointer is set
  pc,         \* where each thread is
  want        \* the function each thread calls

vars == <<control, installed, pc, want>>

\* out: in no hooked function.  cas: at InterlockedCompareExchange.  sleep: in
\* Sleep(1).  init: in hook_api.  use: about to call through its pointer.
Pc == {"out", "cas", "sleep", "init", "use"}

Init ==
  /\ control = 0
  /\ installed = {}
  /\ pc = [t \in Thread |-> "out"]
  /\ want \in [Thread -> Api]

Goto(t, l) == pc' = [pc EXCEPT ![t] = l]

\* Mutant: any pointer of the file is taken for one's own.
SeesSome(i) == installed # {}

\* if (__sys_recv == NULL) is false.
Sees(i) == i \in installed

\* The entry of a hooked function.
Call(t, i) ==
  /\ pc[t] = "out"
  /\ want' = [want EXCEPT ![t] = i]
  /\ Goto(t, IF Sees(i) THEN "use" ELSE "cas")
  /\ UNCHANGED <<control, installed>>

\* What pthread_once does with the value InterlockedCompareExchange returns.
AfterCas(seen) == IF seen = 0 THEN "init" ELSE IF seen = 1 THEN "sleep" ELSE "use"

\* Mutant: the control is counted up.
SwapCounts(c) == c + 1

\* The value InterlockedCompareExchange(once_control, 1, 0) leaves.
Swapped(c) == IF c = 0 THEN 1 ELSE c

Cas(t) ==
  /\ pc[t] = "cas"
  /\ control' = Swapped(control)
  /\ Goto(t, AfterCas(control))
  /\ UNCHANGED <<installed, want>>

\* Mutant: the sleeping thread never tries again.
RetryNever == "sleep"

Retry == "cas"

Wake(t) ==
  /\ pc[t] = "sleep"
  /\ Goto(t, Retry)
  /\ UNCHANGED <<control, installed, want>>

\* One of the stores of hook_api.
Install(t) ==
  /\ pc[t] = "init"
  /\ \E i \in Api \ installed : installed' = installed \cup {i}
  /\ UNCHANGED <<control, pc, want>>

\* hook_api has returned; InterlockedExchange(once_control, 2).
Publish(t) ==
  /\ pc[t] = "init"
  /\ Api \subseteq installed
  /\ control' = 2
  /\ Goto(t, "use")
  /\ UNCHANGED <<installed, want>>

\* The call of the system's function.
Use(t) ==
  /\ pc[t] = "use"
  /\ Goto(t, "out")
  /\ UNCHANGED <<control, installed, want>>

Step(t) == Cas(t) \/ Wake(t) \/ Install(t) \/ Publish(t) \/ Use(t)

Next == \E t \in Thread : Step(t) \/ \E i \in Api : Call(t, i)

Spec == Init /\ [][Next]_vars

\* Every thread is scheduled: a call that has begun goes on.
FairSpec == Spec /\ \A t \in Thread : WF_vars(Step(t))

-----------------------------------------------------------------------------

TypeOK ==
  /\ control \in 0 .. 2
  /\ installed \subseteq Api
  /\ pc \in [Thread -> Pc]
  /\ want \in [Thread -> Api]

\* No thread calls through a pointer that is still NULL, though the pointers are
\* tested and set without a lock.
CallsAreInstalled == \A t \in Thread : pc[t] = "use" => want[t] \in installed

\* The routine is run by one thread, and only while the control says so.
OneInitializer ==
  /\ \A t, u \in Thread : pc[t] = "init" /\ pc[u] = "init" => t = u
  /\ (control = 1) <=> \E t \in Thread : pc[t] = "init"

\* Once done, the routine has run to its end.
DoneIsComplete == control = 2 => Api \subseteq installed

\* A thread that enters a hooked function gets to the system's function: the
\* thread that runs the routine lets the others go.
CallReturns == \A t \in Thread : pc[t] = "cas" ~> pc[t] = "use"

=============================================================================
