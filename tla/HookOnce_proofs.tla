--------------------------- MODULE HookOnce_proofs ---------------------------
(* For any number of threads and functions.                                *)
EXTENDS HookOnce, TLAPS

\* Each part keeps the others: a thread may use its pointer because the control
\* says done, and done is only said by the one thread that set all pointers.
Inv == TypeOK /\ CallsAreInstalled /\ OneInitializer /\ DoneIsComplete

LEMMA InitInv == Init => Inv
  BY DEF Init, Inv, TypeOK, Pc, CallsAreInstalled, OneInitializer, DoneIsComplete

\* A thread that begins a call disturbs only the claim about its own pointer.
LEMMA CallInv ==
  ASSUME Inv, NEW t \in Thread, NEW i \in Api, Call(t, i)
  PROVE  Inv'
  BY DEF Inv, TypeOK, Pc, CallsAreInstalled, OneInitializer, DoneIsComplete, Call, Sees, Goto

\* The thread that finds the control untouched becomes the initializer; the one
\* that finds it done has its pointer.
LEMMA CasInv ==
  ASSUME Inv, NEW t \in Thread, Cas(t)
  PROVE  Inv'
<1>1. CASE control = 0
  BY <1>1 DEF Inv, TypeOK, Pc, CallsAreInstalled, OneInitializer, DoneIsComplete, Cas, Swapped,
              AfterCas, Goto
<1>2. CASE control = 1
  BY <1>2 DEF Inv, TypeOK, Pc, CallsAreInstalled, OneInitializer, DoneIsComplete, Cas, Swapped,
              AfterCas, Goto
<1>3. CASE control = 2
  BY <1>3 DEF Inv, TypeOK, Pc, CallsAreInstalled, OneInitializer, DoneIsComplete, Cas, Swapped,
              AfterCas, Goto
<1>4. QED
  BY <1>1, <1>2, <1>3 DEF Inv, TypeOK

LEMMA InstallInv ==
  ASSUME Inv, NEW t \in Thread, Install(t)
  PROVE  Inv'
  BY DEF Inv, TypeOK, Pc, CallsAreInstalled, OneInitializer, DoneIsComplete, Install

\* The initializer is alone, so nobody is left in the routine.
LEMMA PublishInv ==
  ASSUME Inv, NEW t \in Thread, Publish(t)
  PROVE  Inv'
  BY DEF Inv, TypeOK, Pc, CallsAreInstalled, OneInitializer, DoneIsComplete, Publish, Goto

LEMMA StepInv == Inv /\ [Next]_vars => Inv'
<1> SUFFICES ASSUME Inv, [Next]_vars PROVE Inv'
  OBVIOUS
<1>1. ASSUME NEW t \in Thread, NEW i \in Api, Call(t, i) PROVE Inv'
  BY <1>1, CallInv
<1>2. ASSUME NEW t \in Thread, Cas(t) PROVE Inv'
  BY <1>2, CasInv
<1>3. ASSUME NEW t \in Thread, Wake(t) PROVE Inv'
  BY <1>3 DEF Inv, TypeOK, Pc, CallsAreInstalled, OneInitializer, DoneIsComplete, Wake, Retry, Goto
<1>4. ASSUME NEW t \in Thread, Install(t) PROVE Inv'
  BY <1>4, InstallInv
<1>5. ASSUME NEW t \in Thread, Publish(t) PROVE Inv'
  BY <1>5, PublishInv
<1>6. ASSUME NEW t \in Thread, Use(t) PROVE Inv'
  BY <1>6 DEF Inv, TypeOK, Pc, CallsAreInstalled, OneInitializer, DoneIsComplete, Use, Goto
<1>7. CASE UNCHANGED vars
  BY <1>7 DEF Inv, TypeOK, CallsAreInstalled, OneInitializer, DoneIsComplete, vars
<1>8. QED
  BY <1>1, <1>2, <1>3, <1>4, <1>5, <1>6, <1>7 DEF Next, Step

\* However many threads enter the hooked functions of a file at once, none of
\* them calls through a pointer that hook_api has not set (io.c, socket.c).
THEOREM NoNullCall == Spec => []CallsAreInstalled
<1>1. Inv => CallsAreInstalled
  BY DEF Inv
<1>2. QED
  BY InitInv, StepInv, <1>1, PTL DEF Spec

\* pthread_once has its routine run by one thread only, to its end, before any
\* caller returns (pthread_patch.c).
THEOREM RunsOnce == Spec => [](OneInitializer /\ DoneIsComplete)
<1>1. Inv => OneInitializer /\ DoneIsComplete
  BY DEF Inv
<1>2. QED
  BY InitInv, StepInv, <1>1, PTL DEF Spec

=============================================================================
