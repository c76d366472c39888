------------------------------- MODULE JobQueue -------------------------------
(***************************************************************************)
(* The bounded job queue of server/serve.rs: connection threads push jobs  *)
(* with try_push, slot workers block in pop until one is theirs.           *)
(*                                                                         *)
(* One mutex protects the whole state, so every critical section is one    *)
(* action.  The condition variable is modelled by the set of workers whose *)
(* program counter is "wait"; try_push and shutdown notify it AFTER they   *)
(* have released the mutex, so a notification is a step of its own.        *)
(*                                                                         *)
(* The affinity function is called under the mutex but reads slot states   *)
(* that change all the time (Engine::slot_affinity), so each call returns  *)
(* an arbitrary score.  A queue built without an affinity function is the  *)
(* case in which every score is zero.                                      *)
(***************************************************************************)
EXTENDS Integers, Sequences, FiniteSets

CONSTANTS
  Job,          \* the requests that may be submitted (again, once served)
  NoJob,        \* an empty mailbox, a worker without a job
  Slots,        \* cfg.slots: number of workers
  Cap,          \* cfg.max_queue: jobs accepted and not yet picked up
  Window,       \* AFFINITY_WINDOW
  MaxSkips,     \* AFFINITY_MAX_SKIPS
  MaxScore,     \* bound: the highest affinity score distinguished
  MayShutdown   \* whether the owner of the queue may call shutdown

ASSUME QueueAssumption ==
  /\ IsFiniteSet(Job) /\ NoJob \notin Job
  /\ Slots \in Nat \ {0}
  /\ Cap \in Nat
  /\ Window \in Nat \ {0}
  /\ MaxSkips \in Nat
  /\ MaxScore \in Nat
  /\ MayShutdown \in BOOLEAN

Slot == 0 .. Slots - 1
Score == 0 .. MaxScore
Queued == [job : Job, skipped : Nat]

VARIABLES
  jobs,       \* QState.jobs: the queue, oldest first
  mailbox,    \* QState.mailbox: a job handed to one slot, not yet picked up
  idle,       \* QState.idle
  busy,       \* QState.busy
  shutdown,   \* QState.shutdown
  wpc,        \* worker: "pop" (about to take the mutex), "wait", "run", "exit"
  running,    \* the job pop returned to each worker
  ppc,        \* thread that pushes a job: "idle", "refused", "one", "all"
  bcast,      \* shutdown has set its flag and not yet called notify_all
  overtaken   \* history: jobs that arrived later and left the queue earlier

vars == <<jobs, mailbox, idle, busy, shutdown, wpc, running, ppc, bcast, overtaken>>

Init ==
  /\ jobs = <<>>
  /\ mailbox = [s \in Slot |-> NoJob]
  /\ idle = [s \in Slot |-> FALSE]
  /\ busy = 0
  /\ shutdown = FALSE
  /\ wpc = [s \in Slot |-> "pop"]
  /\ running = [s \in Slot |-> NoJob]
  /\ ppc = [j \in Job |-> "idle"]
  /\ bcast = FALSE
  /\ overtaken = [j \in Job |-> 0]

-----------------------------------------------------------------------------
(* Where a job is. *)
InQueue(j) == \E k \in 1 .. Len(jobs) : jobs[k].job = j
InMailbox(j) == \E s \in Slot : mailbox[s] = j
Running(j) == \E s \in Slot : running[s] = j

HasMail == {s \in Slot : mailbox[s] # NoJob}
Pending == Len(jobs) + Cardinality(HasMail)
(* A definition whose name ends in an upper-case M is the next one with a  *)
(* plausible slip in it; no action uses it.  Each shows that a property    *)
(* can fail.                                                               *)
FullM == shutdown \/ Pending > Cap

Full == shutdown \/ Pending >= Cap

(* A thread pushes a job it has just built: not one that is still around. *)
Pushing(j) ==
  /\ ppc[j] \in {"idle", "refused"}
  /\ ~InQueue(j) /\ ~InMailbox(j) /\ ~Running(j)

(* Slots a job may be handed to, and the best of them: the highest score,  *)
(* the lowest slot among equals.                                           *)
Matching(score) == {s \in Slot : idle[s] /\ mailbox[s] = NoJob /\ score[s] > 0}
IsBestSlot(s, score) ==
  /\ s \in Matching(score)
  /\ \A t \in Matching(score) :
       score[t] < score[s] \/ (score[t] = score[s] /\ s <= t)

(* try_push on a full or closed queue gives the job back. *)
Refuse(j) ==
  /\ Pushing(j) /\ ppc[j] = "idle"
  /\ Full
  /\ ppc' = [ppc EXCEPT ![j] = "refused"]
  /\ UNCHANGED <<jobs, mailbox, idle, busy, shutdown, wpc, running, bcast, overtaken>>

HandoffSignalM == "one"
HandoffSignal == "all"

DeliverM(j, s) ==
  /\ mailbox' = [mailbox EXCEPT ![s] = j]
  /\ UNCHANGED idle
Deliver(j, s) ==
  /\ mailbox' = [mailbox EXCEPT ![s] = j]
  /\ idle' = [idle EXCEPT ![s] = FALSE]

(* try_push hands the job straight to the idle slot that matches it best;  *)
(* only while nothing is queued.                                           *)
Handoff(j) ==
  /\ Pushing(j) /\ ~Full
  /\ jobs = <<>>
  /\ \E score \in [Slot -> Score], s \in Slot :
       /\ IsBestSlot(s, score)
       /\ Deliver(j, s)
  /\ ppc' = [ppc EXCEPT ![j] = HandoffSignal]
  /\ overtaken' = [k \in Job |-> IF InQueue(k) THEN overtaken[k] + 1 ELSE overtaken[k]]
  /\ UNCHANGED <<jobs, busy, shutdown, wpc, running, bcast>>

(* try_push appends the job: something is queued already, or no idle slot  *)
(* has a non-zero score for it.                                            *)
Enqueue(j) ==
  /\ Pushing(j) /\ ~Full
  /\ jobs # <<>> \/ \E score \in [Slot -> Score] : Matching(score) = {}
  /\ jobs' = Append(jobs, [job |-> j, skipped |-> 0])
  /\ ppc' = [ppc EXCEPT ![j] = "one"]
  /\ UNCHANGED <<mailbox, idle, busy, shutdown, wpc, running, bcast, overtaken>>

(* The thread that pushed has released the mutex and signals the workers.  *)
(* notify_one wakes any one of those that wait, if there is one.           *)
Asleep == {s \in Slot : wpc[s] = "wait"}
NotifyOne(j) ==
  /\ ppc[j] = "one"
  /\ ppc' = [ppc EXCEPT ![j] = "idle"]
  /\ \/ Asleep = {} /\ wpc' = wpc
     \/ \E s \in Asleep : wpc' = [wpc EXCEPT ![s] = "pop"]
  /\ UNCHANGED <<jobs, mailbox, idle, busy, shutdown, running, bcast, overtaken>>

WakeAllM ==
  [s \in Slot |-> IF s \in Asleep /\ \A t \in Asleep : s <= t THEN "pop" ELSE wpc[s]]
WakeAll == [s \in Slot |-> IF wpc[s] = "wait" THEN "pop" ELSE wpc[s]]
NotifyAll(j) ==
  /\ ppc[j] = "all"
  /\ ppc' = [ppc EXCEPT ![j] = "idle"]
  /\ wpc' = WakeAll
  /\ UNCHANGED <<jobs, mailbox, idle, busy, shutdown, running, bcast, overtaken>>

-----------------------------------------------------------------------------
(* pop: one round of its loop, from taking the mutex to returning a job or *)
(* to waiting on the condition variable, which releases the mutex.         *)

Return(s, j) ==
  /\ wpc' = [wpc EXCEPT ![s] = "run"]
  /\ running' = [running EXCEPT ![s] = j]
  /\ idle' = [idle EXCEPT ![s] = FALSE]
  /\ busy' = busy + 1

TakeMail(s) == mailbox' = [mailbox EXCEPT ![s] = NoJob]

(* A mailbox is looked at before the queue. *)
TakeMailbox(s) ==
  /\ wpc[s] = "pop" /\ ~shutdown
  /\ mailbox[s] # NoJob
  /\ TakeMail(s)
  /\ Return(s, mailbox[s])
  /\ UNCHANGED <<jobs, shutdown, ppc, bcast, overtaken>>

(* The first of the positions in the window that score highest; position 1 *)
(* when every score is zero.                                               *)
Candidate == 1 .. (IF Len(jobs) < Window THEN Len(jobs) ELSE Window)
IsBestPosition(i, score) ==
  /\ i \in Candidate
  /\ \A k \in Candidate : score[k] < score[i] \/ (score[k] = score[i] /\ i <= k)
MustTakeHeadLateM == Len(jobs) < 2 \/ jobs[1].skipped > MaxSkips

MustTakeHead == Len(jobs) < 2 \/ jobs[1].skipped >= MaxSkips
MayPick(i) ==
  \/ MustTakeHead /\ i = 1
  \/ ~MustTakeHead /\ \E score \in [Candidate -> Score] : IsBestPosition(i, score)

(* The queue without position i, every job before it skipped once more. *)
AfterPick(q, i) ==
  [k \in 1 .. Len(q) - 1 |->
     IF k < i THEN [q[k] EXCEPT !.skipped = @ + 1] ELSE q[k + 1]]

NoMailM(s) == TRUE
NoMail(s) == mailbox[s] = NoJob

TakeQueued(s) ==
  /\ wpc[s] = "pop" /\ ~shutdown /\ NoMail(s)
  /\ \E i \in 1 .. Len(jobs) :
       /\ MayPick(i)
       /\ jobs' = AfterPick(jobs, i)
       /\ Return(s, jobs[i].job)
       /\ overtaken' = [j \in Job |->
            IF j = jobs[i].job THEN 0
            ELSE IF \E k \in 1 .. i - 1 : jobs[k].job = j THEN overtaken[j] + 1
            ELSE overtaken[j]]
  /\ UNCHANGED <<mailbox, shutdown, ppc, bcast>>

Sleep(s) ==
  /\ wpc[s] = "pop" /\ ~shutdown
  /\ NoMail(s) /\ jobs = <<>>
  /\ wpc' = [wpc EXCEPT ![s] = "wait"]
  /\ idle' = [idle EXCEPT ![s] = TRUE]
  /\ UNCHANGED <<jobs, mailbox, busy, shutdown, running, ppc, bcast, overtaken>>

(* pop returns None and the worker's loop ends. *)
Exit(s) ==
  /\ wpc[s] = "pop" /\ shutdown
  /\ wpc' = [wpc EXCEPT ![s] = "exit"]
  /\ UNCHANGED <<jobs, mailbox, idle, busy, shutdown, running, ppc, bcast, overtaken>>

Pop(s) == TakeMailbox(s) \/ TakeQueued(s) \/ Sleep(s) \/ Exit(s)

(* A condition variable may wake a waiter that nobody notified. *)
SpuriousWake(s) ==
  /\ wpc[s] = "wait"
  /\ wpc' = [wpc EXCEPT ![s] = "pop"]
  /\ UNCHANGED <<jobs, mailbox, idle, busy, shutdown, running, ppc, bcast, overtaken>>

ReleasedM == busy - 2
Released == IF busy > 0 THEN busy - 1 ELSE 0

(* The worker has run (or dropped, when cancelled) its job: finish, then   *)
(* the next pop.  The subtraction saturates.                               *)
Finish(s) ==
  /\ wpc[s] = "run"
  /\ wpc' = [wpc EXCEPT ![s] = "pop"]
  /\ running' = [running EXCEPT ![s] = NoJob]
  /\ busy' = Released
  /\ UNCHANGED <<jobs, mailbox, idle, shutdown, ppc, bcast, overtaken>>

-----------------------------------------------------------------------------
Shutdown ==
  /\ MayShutdown /\ ~shutdown
  /\ shutdown' = TRUE /\ bcast' = TRUE
  /\ UNCHANGED <<jobs, mailbox, idle, busy, wpc, running, ppc, overtaken>>

ShutdownNotify ==
  /\ bcast
  /\ bcast' = FALSE
  /\ wpc' = WakeAll
  /\ UNCHANGED <<jobs, mailbox, idle, busy, shutdown, running, ppc, overtaken>>

Push(j) == Refuse(j) \/ Handoff(j) \/ Enqueue(j)
Notify(j) == NotifyOne(j) \/ NotifyAll(j)

Next ==
  \/ \E j \in Job : Push(j) \/ Notify(j)
  \/ \E s \in Slot : Pop(s) \/ SpuriousWake(s) \/ Finish(s)
  \/ Shutdown
  \/ ShutdownNotify

(* A thread that is not blocked keeps running: workers and pushing threads *)
(* take their next step, a generation ends (Finish).  Nothing obliges a    *)
(* client to submit, or the condition variable to wake anyone on its own.  *)
Fairness ==
  /\ \A s \in Slot : WF_vars(Pop(s)) /\ WF_vars(Finish(s))
  /\ \A j \in Job : WF_vars(Notify(j))
  /\ WF_vars(ShutdownNotify)

Spec == Init /\ [][Next]_vars /\ Fairness

-----------------------------------------------------------------------------
(* Every variable has its type. *)
TypeOK ==
  /\ jobs \in Seq(Queued)
  /\ mailbox \in [Slot -> Job \cup {NoJob}]
  /\ idle \in [Slot -> BOOLEAN]
  /\ busy \in Nat
  /\ shutdown \in BOOLEAN
  /\ wpc \in [Slot -> {"pop", "wait", "run", "exit"}]
  /\ running \in [Slot -> Job \cup {NoJob}]
  /\ ppc \in [Job -> {"idle", "refused", "one", "all"}]
  /\ bcast \in BOOLEAN
  /\ overtaken \in [Job -> Nat]

(* What the idle flags and mailboxes mean to try_push: an idle slot has no *)
(* mail and is inside pop; a slot with mail is inside pop and not idle; a  *)
(* waiting slot that is not idle has been given mail.                      *)
IdleSlots ==
  \A s \in Slot :
    /\ idle[s] => mailbox[s] = NoJob /\ wpc[s] \in {"pop", "wait", "exit"}
    /\ mailbox[s] # NoJob => wpc[s] \in {"pop", "wait", "exit"}
    /\ wpc[s] = "wait" /\ ~idle[s] => mailbox[s] # NoJob

(* The skip counters never exceed AFFINITY_MAX_SKIPS and never increase    *)
(* along the queue, so the check of the head alone (pick) protects every   *)
(* job behind it.                                                          *)
SkipsOrdered ==
  /\ \A k \in 1 .. Len(jobs) : jobs[k].skipped <= MaxSkips
  /\ \A k, m \in 1 .. Len(jobs) : k <= m => jobs[m].skipped <= jobs[k].skipped

(* No starvation: at most AFFINITY_MAX_SKIPS jobs that arrived later than  *)
(* a queued job are taken before it, counted by a history variable rather  *)
(* than by the counters of the queue itself.                               *)
BoundedOvertaking ==
  \A j \in Job : InQueue(j) => overtaken[j] <= MaxSkips

(* busy counts the workers that run a job, the accepted ones never exceed  *)
(* the capacity.                                                           *)
Counters ==
  /\ busy = Cardinality({s \in Slot : wpc[s] = "run"})
  /\ Pending <= Cap

(* No wake-up is lost although the mutex is released before notifying:     *)
(* while a worker sleeps without being the addressee of a pending          *)
(* broadcast, every queued job has an awake worker without mail on its way *)
(* to it, or a notification still to come; and mail of a sleeping worker   *)
(* has a broadcast to come.                                                *)
Awake == {s \in Slot : wpc[s] = "pop" /\ mailbox[s] = NoJob}
Signals == {j \in Job : ppc[j] = "one"}
BroadcastDue == bcast \/ \E j \in Job : ppc[j] = "all"
NoLostWakeup ==
  Asleep # {} /\ ~BroadcastDue =>
    /\ Len(jobs) <= Cardinality(Awake) + Cardinality(Signals)
    /\ \A s \in Asleep : mailbox[s] = NoJob

(* An accepted job is eventually run, whatever the affinity scores, unless *)
(* the queue is shut down.                                                 *)
IsRun(j) == InQueue(j) \/ InMailbox(j) ~> Running(j) \/ shutdown

(* After shutdown every worker thread ends. *)
WorkersExit == shutdown ~> \A s \in Slot : wpc[s] = "exit"

(* The queue implements the dispatcher of JobDispatch: bounded, each job to *)
(* one worker, overtaking bounded by MaxSkips.                             *)
Dispatch == INSTANCE JobDispatch WITH
  Workers <- Slots,
  waiting <- [k \in 1 .. Len(jobs) |-> jobs[k].job],
  assigned <- {mailbox[s] : s \in HasMail},
  active <- {running[s] : s \in {t \in Slot : running[t] # NoJob}},
  overtakes <- overtaken,
  open <- ~shutdown

ImplementsDispatch == Dispatch!DispatchSpec

=============================================================================
