------------------------------ MODULE JobDispatch ------------------------------
(***************************************************************************)
(* What the job queue of server/serve.rs promises to the connections and   *)
(* the workers, without its mutex, condition variable, affinity scores and *)
(* skip counters: a bounded waiting room, from which jobs leave nearly in  *)
(* order of arrival - at most MaxSkips later arrivals leave before a       *)
(* waiting job does - each to exactly one worker.                          *)
(***************************************************************************)
EXTENDS Integers, Sequences, FiniteSets

CONSTANTS Job, Cap, MaxSkips, Workers

VARIABLES
  waiting,    \* the jobs not yet given to a worker, in order of arrival
  assigned,   \* jobs reserved for a worker that has not started them
  active,     \* jobs being run
  overtakes,  \* how many later arrivals each waiting job has seen leave
  open        \* no more jobs are accepted or started once closed

dispatchVars == <<waiting, assigned, active, overtakes, open>>

DispatchInit ==
  /\ waiting = <<>> /\ assigned = {} /\ active = {}
  /\ overtakes = [j \in Job |-> 0]
  /\ open = TRUE

Waits(j) == \E k \in 1 .. Len(waiting) : waiting[k] = j
Room == Len(waiting) + Cardinality(assigned) < Cap

(* A worker that neither runs a job nor has one reserved for it. *)
FreeWorker == Cardinality(assigned) + Cardinality(active) < Workers

(* A job joins the waiting room. *)
Accept(j) ==
  /\ open /\ Room /\ ~Waits(j) /\ j \notin assigned \cup active
  /\ waiting' = Append(waiting, j)
  /\ UNCHANGED <<assigned, active, overtakes, open>>

(* A job is reserved for a worker on arrival: nobody waits. *)
Assign(j) ==
  /\ open /\ Room /\ waiting = <<>> /\ FreeWorker
  /\ j \notin assigned \cup active
  /\ assigned' = assigned \cup {j}
  /\ UNCHANGED <<waiting, active, overtakes, open>>

(* A waiting job starts, overtaking those before it; none of those has     *)
(* been overtaken MaxSkips times already.                                  *)
Start(i) ==
  /\ open /\ FreeWorker
  /\ \A k \in 1 .. i - 1 : overtakes[waiting[k]] < MaxSkips
  /\ waiting' = [k \in 1 .. Len(waiting) - 1 |-> waiting[IF k < i THEN k ELSE k + 1]]
  /\ active' = active \cup {waiting[i]}
  /\ overtakes' = [j \in Job |->
       IF j = waiting[i] THEN 0
       ELSE IF \E k \in 1 .. i - 1 : waiting[k] = j THEN overtakes[j] + 1
       ELSE overtakes[j]]
  /\ UNCHANGED <<assigned, open>>

StartAssigned(j) ==
  /\ open /\ j \in assigned
  /\ assigned' = assigned \ {j}
  /\ active' = active \cup {j}
  /\ UNCHANGED <<waiting, overtakes, open>>

End(j) ==
  /\ j \in active
  /\ active' = active \ {j}
  /\ UNCHANGED <<waiting, assigned, overtakes, open>>

Close ==
  /\ open' = FALSE
  /\ UNCHANGED <<waiting, assigned, active, overtakes>>

DispatchNext ==
  \/ \E j \in Job : Accept(j) \/ Assign(j)
  \/ \E i \in 1 .. Len(waiting) : Start(i)
  \/ \E j \in Job : StartAssigned(j) \/ End(j)
  \/ Close

DispatchSpec == DispatchInit /\ [][DispatchNext]_dispatchVars
=============================================================================
