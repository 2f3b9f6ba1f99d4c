------------------------------- MODULE Poller -------------------------------
(***************************************************************************)
(* What the event layer promises the I/O functions, without its queue of   *)
(* pending changes, its table and its descriptor sets: a descriptor's      *)
(* waiters are called back once, after they asked and while the condition  *)
(* they asked for holds, and never after the descriptor was closed.        *)
(***************************************************************************)
CONSTANTS
  Fd,   \* descriptors
  Dir   \* what one can wait for

VARIABLES
  interest,  \* interest[f] \subseteq Dir: what somebody waits for
  level,     \* the conditions that hold: pairs <<f, d>>, and <<f, "X">>
  calling    \* the waiters are being called back; nobody else calls then

pvars == <<interest, level, calling>>

Init ==
  /\ interest = [f \in Fd |-> {}]
  /\ level = {}
  /\ ~calling

Arm(f, d) ==
  /\ interest' = [interest EXCEPT ![f] = @ \cup {d}]
  /\ UNCHANGED level

Disarm(f, d) ==
  /\ interest' = [interest EXCEPT ![f] = @ \ {d}]
  /\ UNCHANGED level

Arrive(f, d) ==
  /\ level' = level \cup {<<f, d>>}
  /\ UNCHANGED interest

\* The waiters D of f are called back, which ends their interest.
Deliver(f, D) ==
  /\ D \subseteq interest[f]
  /\ \A d \in D : <<f, d>> \in level \/ <<f, "X">> \in level
  /\ interest' = [interest EXCEPT ![f] = @ \ D]
  /\ UNCHANGED level

Close(f) ==
  /\ interest' = [interest EXCEPT ![f] = {}]
  /\ level' = {c \in level : c[1] # f}

Next ==
  \/ /\ UNCHANGED calling
     /\ \E f \in Fd :
          \/ ~calling /\ Close(f)
          \/ \E d \in Dir : ~calling /\ (Arm(f, d) \/ Disarm(f, d))
          \/ \E d \in Dir \cup {"X"} : Arrive(f, d)
          \/ \E D \in SUBSET Dir : calling /\ Deliver(f, D)
  \/ calling' = ~calling /\ UNCHANGED <<interest, level>>

Spec == Init /\ [][Next]_pvars

=============================================================================
