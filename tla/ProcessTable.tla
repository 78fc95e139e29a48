---------------------------- MODULE ProcessTable ----------------------------
(***************************************************************************)
(* What WeensyOS promises about its processes, without their memory: who   *)
(* is in the process table, who runs, and in which order the CPU goes      *)
(* round.  Kernel implements this specification; the modules about the     *)
(* screen build on it.                                                     *)
(***************************************************************************)
EXTENDS Integers

CONSTANT NPROC  \* size of the process table; processes[0] is unused

VARIABLES
  p_state,  \* processes[].p_state
  current,  \* pid of `current`
  mode      \* what the CPU is doing

table == <<p_state, current, mode>>

PIDs == 0 .. NPROC - 1

Free     == {p \in PIDs : p_state[p] = "P_FREE"}
Runnable == {p \in PIDs : p_state[p] = "P_RUNNABLE"}

Init ==
  /\ p_state = [p \in PIDs |-> "P_FREE"]
  /\ current = 0
  /\ mode = "boot"

\* The CPU goes to the next member of S after `current`, in the order of pids.
Distance(p) == (p - current - 1) % NPROC

Dispatch(S) ==
  \/ \E p \in S :
       /\ \A q \in S : Distance(p) <= Distance(q)
       /\ current' = p
       /\ mode' = "user"
  \/ S = {} /\ mode' = "idle" /\ UNCHANGED current

\* kernel() loads the programs in the order of their pids and starts the first.
Load(p) ==
  /\ mode = "boot"
  /\ p \in Free \ {0} /\ \A q \in Free \ {0} : p <= q
  /\ p_state' = [p_state EXCEPT ![p] = "P_RUNNABLE"]
  /\ UNCHANGED <<current, mode>>

Start ==
  /\ mode = "boot" /\ 1 \in Runnable
  /\ current' = 1 /\ mode' = "user"
  /\ UNCHANGED p_state

\* The running process gives up the CPU, or the timer takes it.
Yield ==
  /\ mode = "user"
  /\ UNCHANGED p_state
  /\ Dispatch(Runnable)

\* It faults, and never runs again.
Fault ==
  /\ mode = "user"
  /\ p_state' = [p_state EXCEPT ![current] = "P_BROKEN"]
  /\ Dispatch(Runnable \ {current})

Exit ==
  /\ mode = "user"
  /\ p_state' = [p_state EXCEPT ![current] = "P_FREE"]
  /\ Dispatch(Runnable \ {current})

\* A fork takes the lowest free slot, and the parent goes on.
Fork(child) ==
  /\ mode = "user"
  /\ child \in Free \ {0} /\ \A q \in Free \ {0} : child <= q
  /\ p_state' = [p_state EXCEPT ![child] = "P_RUNNABLE"]
  /\ UNCHANGED <<current, mode>>

\* A panic, a fork that found no page tables, or power off.
Stop ==
  /\ mode \in {"boot", "user", "idle", "panic"}
  /\ mode' \in {"panic", "returned", "off"}
  /\ UNCHANGED <<p_state, current>>

Restart ==
  /\ mode \in {"user", "idle", "panic", "returned"}
  /\ p_state' = [p \in PIDs |-> "P_FREE"]
  /\ mode' = "boot"
  /\ UNCHANGED current

Next ==
  \/ \E p \in PIDs : Load(p) \/ Fork(p)
  \/ Start \/ Yield \/ Fault \/ Exit \/ Stop \/ Restart

Spec == Init /\ [][Next]_table

FairSpec == Spec /\ WF_table(Yield)
=============================================================================
