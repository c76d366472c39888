---------------------------- MODULE JobQueueProofs ----------------------------
(***************************************************************************)
(* Theorems of JobQueue for every number of workers and jobs, every        *)
(* capacity, window and skip limit.                                        *)
(***************************************************************************)
EXTENDS JobQueue, Functions, SequenceTheorems, FiniteSetTheorems, TLAPS

(* What removing position i does to the queue. *)
LEMMA AfterPickProps ==
  ASSUME NEW q \in Seq(Queued), NEW i \in 1 .. Len(q)
  PROVE  /\ AfterPick(q, i) \in Seq(Queued)
         /\ Len(AfterPick(q, i)) = Len(q) - 1
         /\ \A k \in 1 .. Len(q) - 1 :
              /\ AfterPick(q, i)[k].job = q[IF k < i THEN k ELSE k + 1].job
              /\ AfterPick(q, i)[k].skipped =
                   IF k < i THEN q[k].skipped + 1 ELSE q[k + 1].skipped
<1> DEFINE n == Len(q) - 1
           e(k) == IF k < i THEN [q[k] EXCEPT !.skipped = @ + 1] ELSE q[k + 1]
<1>1. n \in Nat
  BY LenProperties
<1>2. ASSUME NEW k \in 1 .. n
      PROVE  /\ e(k) \in Queued
             /\ e(k).job = q[IF k < i THEN k ELSE k + 1].job
             /\ e(k).skipped = IF k < i THEN q[k].skipped + 1 ELSE q[k + 1].skipped
  <2>1. q[k] \in Queued /\ q[k + 1] \in Queued
    BY <1>1, ElementOfSeq, LenProperties
  <2>2. CASE k < i
    <3>1. e(k) = [job |-> q[k].job, skipped |-> q[k].skipped + 1]
      BY <2>1, <2>2 DEF Queued
    <3> QED
      BY <2>1, <2>2, <3>1 DEF Queued
  <2>3. CASE ~(k < i)
    BY <2>1, <2>3
  <2> QED
    BY <2>2, <2>3
<1>3. AfterPick(q, i) = [k \in 1 .. n |-> e(k)]
  BY DEF AfterPick
<1>4. AfterPick(q, i) \in [1 .. n -> Queued]
  BY <1>2, <1>3
<1>5. AfterPick(q, i) \in Seq(Queued)
  BY <1>1, <1>4, SeqDef
<1>6. Len(AfterPick(q, i)) = n
  BY <1>1, <1>4, <1>5, LenProperties
<1> QED
  BY <1>2, <1>3, <1>5, <1>6

-----------------------------------------------------------------------------
(* Type correctness: every step keeps every variable in its type. *)
THEOREM TypeCorrect == Spec => []TypeOK
<1> USE QueueAssumption
<1>1. Init => TypeOK
  <2>1. <<>> \in Seq(Queued)
    BY EmptySeq
  <2>2. Init => jobs \in Seq(Queued)
    BY <2>1 DEF Init
  <2>3. Init => /\ mailbox \in [Slot -> Job \cup {NoJob}]
                /\ running \in [Slot -> Job \cup {NoJob}]
                /\ idle \in [Slot -> BOOLEAN]
                /\ wpc \in [Slot -> {"pop", "wait", "run", "exit"}]
    BY DEF Init
  <2>4. Init => shutdown \in BOOLEAN /\ bcast \in BOOLEAN
    BY Zenon DEF Init
  <2>5. Init => /\ busy \in Nat
                /\ ppc \in [Job -> {"idle", "refused", "one", "all"}]
                /\ overtaken \in [Job -> Nat]
    BY DEF Init
  <2> QED
    BY <2>2, <2>3, <2>4, <2>5 DEF TypeOK
<1>2. TypeOK /\ [Next]_vars => TypeOK'
  <2> SUFFICES ASSUME TypeOK, [Next]_vars PROVE TypeOK'
    OBVIOUS
  <2> USE DEF TypeOK
  <2>1. ASSUME NEW j \in Job, Refuse(j) PROVE TypeOK'
    BY <2>1 DEF Refuse
  <2>2. ASSUME NEW j \in Job, Handoff(j) PROVE TypeOK'
    BY <2>2 DEF Handoff, Deliver, HandoffSignal, IsBestSlot, Matching
  <2>3. ASSUME NEW j \in Job, Enqueue(j) PROVE TypeOK'
    <3>1. [job |-> j, skipped |-> 0] \in Queued
      BY DEF Queued
    <3> QED
      BY <2>3, <3>1 DEF Enqueue
  <2>4. ASSUME NEW j \in Job, Notify(j) PROVE TypeOK'
    BY <2>4 DEF Notify, NotifyOne, NotifyAll, Asleep, WakeAll
  <2>5. ASSUME NEW s \in Slot, TakeMailbox(s) PROVE TypeOK'
    BY <2>5 DEF TakeMailbox, TakeMail, Return
  <2>6. ASSUME NEW s \in Slot, TakeQueued(s) PROVE TypeOK'
    <3>1. PICK i \in 1 .. Len(jobs) :
            /\ jobs' = AfterPick(jobs, i)
            /\ Return(s, jobs[i].job)
            /\ overtaken' = [j \in Job |->
                 IF j = jobs[i].job THEN 0
                 ELSE IF \E k \in 1 .. i - 1 : jobs[k].job = j THEN overtaken[j] + 1
                 ELSE overtaken[j]]
      BY <2>6 DEF TakeQueued
    <3>2. jobs' \in Seq(Queued)
      BY <3>1, AfterPickProps
    <3>3. jobs[i].job \in Job
      <4>1. jobs[i] \in Queued
        BY ElementOfSeq
      <4> QED
        BY <4>1 DEF Queued
    <3>4. overtaken' \in [Job -> Nat]
      BY <3>1
    <3> QED
      BY <2>6, <3>1, <3>2, <3>3, <3>4 DEF TakeQueued, Return
  <2>7. ASSUME NEW s \in Slot, Sleep(s) \/ Exit(s) \/ SpuriousWake(s) PROVE TypeOK'
    BY <2>7 DEF Sleep, Exit, SpuriousWake
  <2>8. ASSUME NEW s \in Slot, Finish(s) PROVE TypeOK'
    BY <2>8 DEF Finish, Released
  <2>9. CASE Shutdown
    BY <2>9 DEF Shutdown
  <2>10. CASE ShutdownNotify
    BY <2>10 DEF ShutdownNotify, WakeAll
  <2>11. CASE UNCHANGED vars
    BY <2>11 DEF vars
  <2> QED
    BY <2>1, <2>2, <2>3, <2>4, <2>5, <2>6, <2>7, <2>8, <2>9, <2>10, <2>11
       DEF Next, Push, Pop
<1> QED
  BY <1>1, <1>2, PTL DEF Spec

-----------------------------------------------------------------------------
(* A queued job is at one position, with the number of jobs that overtook  *)
(* it as its skip counter; a job that is not queued has none to its name.  *)
SkipsCount ==
  /\ \A k, m \in 1 .. Len(jobs) : jobs[k].job = jobs[m].job => k = m
  /\ \A k \in 1 .. Len(jobs) : overtaken[jobs[k].job] = jobs[k].skipped
  /\ \A j \in Job : ~InQueue(j) => overtaken[j] = 0

QueueInv == SkipsOrdered /\ SkipsCount

(* The queue invariant speaks of jobs and overtaken only.                  *)
LEMMA QueueInvFrame ==
  ASSUME QueueInv, UNCHANGED <<jobs, overtaken>>
  PROVE  QueueInv'
BY DEF QueueInv, SkipsOrdered, SkipsCount, InQueue

(* Appending a job that is not queued keeps the invariant: it starts with  *)
(* no skips, which is no more than any other job has.                      *)
LEMMA EnqueueKeepsQueueInv ==
  ASSUME TypeOK, QueueInv, NEW j \in Job, Enqueue(j)
  PROVE  QueueInv'
<1> DEFINE q == [job |-> j, skipped |-> 0]
<1>1. /\ jobs \in Seq(Queued) /\ Len(jobs) \in Nat
      /\ \A k \in 1 .. Len(jobs) : jobs[k] \in Queued
      /\ jobs' = Append(jobs, q)
      /\ overtaken' = overtaken
      /\ ~InQueue(j)
  BY ElementOfSeq, LenProperties DEF TypeOK, Enqueue, Pushing
<1>2. /\ Len(jobs') = Len(jobs) + 1
      /\ jobs'[Len(jobs) + 1] = q
      /\ \A k \in 1 .. Len(jobs) : jobs'[k] = jobs[k]
  BY <1>1
<1>3. SkipsOrdered'
  <2>1. \A k \in 1 .. Len(jobs) : jobs[k].skipped \in Nat
    BY <1>1 DEF Queued
  <2>2. \A k \in 1 .. Len(jobs') : jobs'[k].skipped <= MaxSkips
    BY <1>1, <1>2, QueueAssumption DEF QueueInv, SkipsOrdered
  <2>3. ASSUME NEW k \in 1 .. Len(jobs'), NEW m \in 1 .. Len(jobs'), k <= m
        PROVE  jobs'[m].skipped <= jobs'[k].skipped
    <3>1. CASE m = Len(jobs) + 1
      <4>1. jobs'[m].skipped = 0
        BY <1>2, <3>1
      <4>2. jobs'[k].skipped \in Nat
        BY <1>1, <1>2, <2>1
      <4> QED
        BY <4>1, <4>2
    <3>2. CASE m # Len(jobs) + 1
      <4>1. k \in 1 .. Len(jobs) /\ m \in 1 .. Len(jobs)
        BY <1>1, <1>2, <2>3, <3>2
      <4> QED
        BY <1>2, <2>3, <4>1 DEF QueueInv, SkipsOrdered
    <3> QED
      BY <3>1, <3>2
  <2> QED
    BY <2>2, <2>3 DEF SkipsOrdered
<1>4. SkipsCount'
  <2>1. \A k, m \in 1 .. Len(jobs') : jobs'[k].job = jobs'[m].job => k = m
    BY <1>1, <1>2 DEF QueueInv, SkipsCount, InQueue
  <2>2. \A k \in 1 .. Len(jobs') : overtaken'[jobs'[k].job] = jobs'[k].skipped
    BY <1>1, <1>2 DEF QueueInv, SkipsCount
  <2>3. \A i \in Job : ~InQueue(i)' => overtaken'[i] = 0
    BY <1>1, <1>2 DEF QueueInv, SkipsCount, InQueue
  <2> QED
    BY <2>1, <2>2, <2>3 DEF SkipsCount
<1> QED
  BY <1>3, <1>4 DEF QueueInv

(* Taking the job at a position pick may return keeps the invariant: a job *)
(* behind the head is taken only while the head, which has been skipped    *)
(* most often, is below the limit.                                         *)
LEMMA TakeKeepsQueueInv ==
  ASSUME TypeOK, QueueInv, NEW s \in Slot, TakeQueued(s)
  PROVE  QueueInv'
<1>1. PICK i \in 1 .. Len(jobs) :
        /\ MayPick(i)
        /\ jobs' = AfterPick(jobs, i)
        /\ overtaken' = [j \in Job |->
             IF j = jobs[i].job THEN 0
             ELSE IF \E k \in 1 .. i - 1 : jobs[k].job = j THEN overtaken[j] + 1
             ELSE overtaken[j]]
  BY DEF TakeQueued
<1> DEFINE n == Len(jobs) - 1
           old(k) == IF k < i THEN k ELSE k + 1
<1>2. /\ Len(jobs) \in Nat
      /\ \A k \in 1 .. Len(jobs) : jobs[k].job \in Job /\ jobs[k].skipped \in Nat
  <2>1. \A k \in 1 .. Len(jobs) : jobs[k] \in Queued
    BY ElementOfSeq DEF TypeOK
  <2> QED
    BY <2>1, LenProperties DEF TypeOK, Queued
<1>3. /\ Len(jobs') = n
      /\ \A k \in 1 .. n : jobs'[k].job = jobs[old(k)].job
      /\ \A k \in 1 .. n : jobs'[k].skipped =
           IF k < i THEN jobs[k].skipped + 1 ELSE jobs[k + 1].skipped
  BY <1>1, AfterPickProps DEF TypeOK
<1>4. /\ \A k \in 1 .. n : old(k) \in 1 .. Len(jobs) /\ old(k) # i
      /\ \A k, m \in 1 .. n : k <= m => old(k) <= old(m)
      /\ \A k, m \in 1 .. n : old(k) = old(m) => k = m
      /\ \A k \in 1 .. Len(jobs) : k # i => \E m \in 1 .. n : old(m) = k
  <2>1. \A k \in 1 .. Len(jobs) : k < i => k \in 1 .. n /\ old(k) = k
    BY <1>2
  <2>2. \A k \in 1 .. Len(jobs) : k > i => k - 1 \in 1 .. n /\ old(k - 1) = k
    BY <1>2
  <2>3. ASSUME NEW k \in 1 .. Len(jobs), k # i PROVE \E m \in 1 .. n : old(m) = k
    <3>1. CASE k < i
      BY <2>1, <3>1
    <3>2. CASE k > i
      BY <2>2, <3>2
    <3> QED
      BY <1>2, <2>3, <3>1, <3>2
  <2> QED
    BY <1>2, <2>3
<1>5. i # 1 => \A k \in 1 .. Len(jobs) : jobs[k].skipped < MaxSkips
  <2> SUFFICES ASSUME i # 1, NEW k \in 1 .. Len(jobs)
               PROVE  jobs[k].skipped < MaxSkips
    OBVIOUS
  <2>1. ~(jobs[1].skipped >= MaxSkips)
    BY <1>1 DEF MayPick, MustTakeHead
  <2>2. 1 \in 1 .. Len(jobs) /\ jobs[k].skipped <= jobs[1].skipped
    BY <1>2 DEF QueueInv, SkipsOrdered
  <2> QED
    BY <1>2, <2>1, <2>2, QueueAssumption
<1> HIDE DEF old
<1>6. SkipsOrdered'
  <2>1. \A k \in 1 .. n : jobs'[k].skipped <= MaxSkips
    <3> SUFFICES ASSUME NEW k \in 1 .. n PROVE jobs'[k].skipped <= MaxSkips
      OBVIOUS
    <3>1. CASE k < i
      <4>1. i # 1 /\ k \in 1 .. Len(jobs)
        BY <1>2, <3>1
      <4> QED
        BY <1>2, <1>3, <1>5, <3>1, <4>1, QueueAssumption
    <3>2. CASE ~(k < i)
      BY <1>2, <1>3, <3>2 DEF QueueInv, SkipsOrdered
    <3> QED
      BY <3>1, <3>2
  <2>2. ASSUME NEW k \in 1 .. n, NEW m \in 1 .. n, k <= m
        PROVE  jobs'[m].skipped <= jobs'[k].skipped
    <3>1. /\ k \in 1 .. Len(jobs) /\ k + 1 \in 1 .. Len(jobs)
          /\ m \in 1 .. Len(jobs) /\ m + 1 \in 1 .. Len(jobs)
      BY <1>2
    <3>2. /\ jobs[m].skipped <= jobs[k].skipped
          /\ jobs[m + 1].skipped <= jobs[k].skipped
          /\ jobs[m + 1].skipped <= jobs[k + 1].skipped
      BY <1>2, <2>2, <3>1 DEF QueueInv, SkipsOrdered
    <3>3. /\ jobs[k].skipped \in Nat /\ jobs[k + 1].skipped \in Nat
          /\ jobs[m].skipped \in Nat /\ jobs[m + 1].skipped \in Nat
      BY <1>2, <3>1
    <3>4. /\ jobs'[k].skipped = IF k < i THEN jobs[k].skipped + 1 ELSE jobs[k + 1].skipped
          /\ jobs'[m].skipped = IF m < i THEN jobs[m].skipped + 1 ELSE jobs[m + 1].skipped
      BY <1>3
    <3>5. CASE m < i
      <4>1. k < i
        BY <2>2, <3>5
      <4> QED
        BY <3>2, <3>3, <3>4, <3>5, <4>1
    <3>6. CASE ~(m < i)
      BY <3>2, <3>3, <3>4, <3>6
    <3> QED
      BY <3>5, <3>6
  <2> QED
    BY <1>3, <2>1, <2>2 DEF SkipsOrdered
<1>7. SkipsCount'
  <2>1. ASSUME NEW k \in 1 .. n, NEW m \in 1 .. n, jobs'[k].job = jobs'[m].job
        PROVE  k = m
    <3>1. jobs[old(k)].job = jobs[old(m)].job
      BY <1>3, <2>1
    <3>2. old(k) = old(m)
      BY <1>4, <3>1 DEF QueueInv, SkipsCount
    <3> QED
      BY <1>4, <3>2
  <2>2. ASSUME NEW k \in 1 .. n PROVE overtaken'[jobs'[k].job] = jobs'[k].skipped
    <3>1. jobs'[k].job = jobs[old(k)].job /\ jobs[old(k)].job \in Job
      BY <1>2, <1>3, <1>4
    <3>2. jobs[old(k)].job # jobs[i].job
      BY <1>4 DEF QueueInv, SkipsCount
    <3>3. (\E m \in 1 .. i - 1 : jobs[m].job = jobs[old(k)].job) <=> old(k) < i
      BY <1>2, <1>4 DEF QueueInv, SkipsCount
    <3>4. overtaken[jobs[old(k)].job] = jobs[old(k)].skipped
      BY <1>4 DEF QueueInv, SkipsCount
    <3>5. overtaken'[jobs'[k].job] =
            IF old(k) < i THEN jobs[old(k)].skipped + 1 ELSE jobs[old(k)].skipped
      BY <1>1, <3>1, <3>2, <3>3, <3>4
    <3> QED
      BY <1>2, <1>3, <3>5 DEF old
  <2>3. ASSUME NEW j \in Job, ~InQueue(j)' PROVE overtaken'[j] = 0
    <3>1. \A k \in 1 .. n : jobs[old(k)].job # j
      BY <1>3, <2>3 DEF InQueue
    <3>2. CASE j = jobs[i].job
      BY <1>1, <3>2
    <3>3. CASE j # jobs[i].job
      <4>1. \A k \in 1 .. Len(jobs) : jobs[k].job # j
        BY <1>4, <3>1, <3>3
      <4>2. overtaken[j] = 0
        BY <4>1 DEF QueueInv, SkipsCount, InQueue
      <4>3. ~ \E k \in 1 .. i - 1 : jobs[k].job = j
        BY <1>2, <4>1
      <4> QED
        BY <1>1, <3>3, <4>2, <4>3
    <3> QED
      BY <3>2, <3>3
  <2> QED
    BY <1>3, <2>1, <2>2, <2>3 DEF SkipsCount
<1> QED
  BY <1>6, <1>7 DEF QueueInv

(* The invariant holds in every state: the handoff changes no counter,     *)
(* because it happens only while nothing is queued.                        *)
THEOREM QueueInvariant == Spec => []QueueInv
<1>1. Init => QueueInv
  BY DEF Init, QueueInv, SkipsOrdered, SkipsCount, InQueue
<1>2. TypeOK /\ QueueInv /\ [Next]_vars => QueueInv'
  <2> SUFFICES ASSUME TypeOK, QueueInv, [Next]_vars PROVE QueueInv'
    OBVIOUS
  <2>1. ASSUME NEW j \in Job, Handoff(j) PROVE QueueInv'
    <3>1. jobs' = jobs /\ \A k \in Job : ~InQueue(k)
      BY <2>1 DEF Handoff, InQueue
    <3>2. overtaken' = overtaken
      BY <2>1, <3>1 DEF Handoff, TypeOK
    <3> QED
      BY <3>1, <3>2, QueueInvFrame
  <2>2. ASSUME NEW j \in Job, Refuse(j) \/ Notify(j) PROVE QueueInv'
    BY <2>2, QueueInvFrame DEF Refuse, Notify, NotifyOne, NotifyAll
  <2>3. ASSUME NEW s \in Slot,
               \/ TakeMailbox(s) \/ Sleep(s) \/ Exit(s) \/ SpuriousWake(s) \/ Finish(s)
        PROVE  QueueInv'
    BY <2>3, QueueInvFrame DEF TakeMailbox, Sleep, Exit, SpuriousWake, Finish
  <2>4. CASE Shutdown \/ ShutdownNotify \/ UNCHANGED vars
    BY <2>4, QueueInvFrame DEF Shutdown, ShutdownNotify, vars
  <2> QED
    BY <2>1, <2>2, <2>3, <2>4, EnqueueKeepsQueueInv, TakeKeepsQueueInv
       DEF Next, Push, Pop
<1> QED
  BY <1>1, <1>2, TypeCorrect, PTL DEF Spec

(* The skip counters stay ordered and below the limit. *)
THEOREM SkipsAlwaysOrdered == Spec => []SkipsOrdered
<1>1. QueueInv => SkipsOrdered
  BY DEF QueueInv
<1> QED
  BY <1>1, QueueInvariant, PTL

(* No job waits while more than MaxSkips later ones are taken. *)
THEOREM NoStarvation == Spec => []BoundedOvertaking
<1>1. QueueInv => BoundedOvertaking
  BY DEF QueueInv, SkipsOrdered, SkipsCount, BoundedOvertaking, InQueue
<1> QED
  BY <1>1, QueueInvariant, PTL

-----------------------------------------------------------------------------
(* The meaning of the idle flags and the mailboxes is kept by every step.  *)
THEOREM IdleSlotsInvariant == Spec => []IdleSlots
<1>1. Init => IdleSlots
  BY QueueAssumption DEF Init, IdleSlots
<1>2. TypeOK /\ IdleSlots /\ [Next]_vars => IdleSlots'
  <2> SUFFICES ASSUME TypeOK, IdleSlots, [Next]_vars PROVE IdleSlots'
    OBVIOUS
  <2> USE DEF TypeOK, IdleSlots
  <2>1. ASSUME NEW j \in Job, Handoff(j) PROVE IdleSlots'
    BY <2>1, QueueAssumption DEF Handoff, Deliver, HandoffSignal, IsBestSlot, Matching
  <2>2. ASSUME NEW j \in Job, Refuse(j) \/ Enqueue(j) PROVE IdleSlots'
    BY <2>2 DEF Refuse, Enqueue
  <2>3. ASSUME NEW j \in Job, Notify(j) PROVE IdleSlots'
    BY <2>3 DEF Notify, NotifyOne, NotifyAll, Asleep, WakeAll
  <2>4. ASSUME NEW s \in Slot, TakeMailbox(s) \/ TakeQueued(s) PROVE IdleSlots'
    BY <2>4 DEF TakeMailbox, TakeMail, TakeQueued, NoMail, Return
  <2>5. ASSUME NEW s \in Slot, Sleep(s) \/ Exit(s) \/ SpuriousWake(s) \/ Finish(s)
        PROVE  IdleSlots'
    BY <2>5 DEF Sleep, NoMail, Exit, SpuriousWake, Finish
  <2>6. CASE Shutdown \/ ShutdownNotify \/ UNCHANGED vars
    BY <2>6 DEF Shutdown, ShutdownNotify, WakeAll, vars
  <2> QED
    BY <2>1, <2>2, <2>3, <2>4, <2>5, <2>6 DEF Next, Push, Pop
<1> QED
  BY <1>1, <1>2, TypeCorrect, PTL DEF Spec

-----------------------------------------------------------------------------
(* Sets of slots and of jobs can be counted. *)
LEMMA SlotSets ==
  /\ IsFiniteSet(Slot)
  /\ \A S \in SUBSET Slot : IsFiniteSet(S) /\ Cardinality(S) \in Nat
  /\ \A S \in SUBSET Job : IsFiniteSet(S) /\ Cardinality(S) \in Nat
<1>1. IsFiniteSet(Slot)
  BY FS_Interval, QueueAssumption DEF Slot
<1> QED
  BY <1>1, FS_Subset, FS_CardinalityType, QueueAssumption

(* Workers only sleep while the queue is open, or the broadcast of the     *)
(* shutdown is still to come.                                              *)
ShutdownWakes == shutdown /\ Asleep # {} => bcast

(* ShutdownWakes is kept: after the flag nobody falls asleep.              *)
THEOREM ShutdownWakesInvariant == Spec => []ShutdownWakes
<1>1. Init => ShutdownWakes
  BY DEF Init, ShutdownWakes
<1>2. TypeOK /\ ShutdownWakes /\ [Next]_vars => ShutdownWakes'
  <2> SUFFICES ASSUME TypeOK, ShutdownWakes, [Next]_vars PROVE ShutdownWakes'
    OBVIOUS
  <2> USE DEF TypeOK, ShutdownWakes, Asleep
  <2>1. ASSUME NEW j \in Job, Push(j) \/ Notify(j) PROVE ShutdownWakes'
    BY <2>1 DEF Push, Refuse, Handoff, Enqueue, Notify, NotifyOne, NotifyAll, WakeAll
  <2>2. ASSUME NEW s \in Slot, Pop(s) PROVE ShutdownWakes'
    BY <2>2 DEF Pop, TakeMailbox, TakeQueued, Return, Sleep, Exit
  <2>3. ASSUME NEW s \in Slot, SpuriousWake(s) \/ Finish(s) PROVE ShutdownWakes'
    BY <2>3 DEF SpuriousWake, Finish
  <2>4. CASE Shutdown \/ ShutdownNotify \/ UNCHANGED vars
    BY <2>4 DEF Shutdown, ShutdownNotify, WakeAll, vars
  <2> QED
    BY <2>1, <2>2, <2>3, <2>4 DEF Next
<1> QED
  BY <1>1, <1>2, TypeCorrect, PTL DEF Spec

(* A worker falls asleep only when nothing is queued, a job is queued only *)
(* with a signal to come, and a signal or a spurious wake-up turns a       *)
(* sleeper into an awake worker: the supply of awake workers and signals   *)
(* covers the queue as long as anybody sleeps.                             *)
LEMMA WakeupStep ==
  ASSUME TypeOK, IdleSlots, ShutdownWakes, NoLostWakeup, [Next]_vars
  PROVE  NoLostWakeup'
<1> DEFINE n == Len(jobs)
           a == Cardinality(Awake)
           g == Cardinality(Signals)
<1>1. /\ n \in Nat /\ a \in Nat /\ g \in Nat
      /\ IsFiniteSet(Awake) /\ IsFiniteSet(Signals)
  BY SlotSets, LenProperties DEF TypeOK, Awake, Signals
<1>2. ASSUME NEW s, UNCHANGED <<jobs, ppc, bcast, mailbox>>,
             s \in Asleep, wpc' = [wpc EXCEPT ![s] = "pop"]
      PROVE  NoLostWakeup'
  <2>1. Asleep' \subseteq Asleep /\ (BroadcastDue' <=> BroadcastDue) /\ Signals' = Signals
    BY <1>2 DEF Asleep, TypeOK, BroadcastDue, Signals
  <2>2. SUFFICES ASSUME Asleep' # {}, ~BroadcastDue
                 PROVE  /\ n <= Cardinality(Awake') + g
                        /\ \A t \in Asleep' : mailbox[t] = NoJob
    BY <1>2, <2>1 DEF NoLostWakeup
  <2>3. n <= a + g /\ \A t \in Asleep : mailbox[t] = NoJob
    BY <1>2, <2>2 DEF NoLostWakeup
  <2>4. Awake' = Awake \cup {s} /\ s \notin Awake
    BY <1>2, <2>3 DEF Awake, Asleep, TypeOK
  <2>5. Cardinality(Awake') = a + 1
    BY <1>1, <2>4, FS_AddElement
  <2> QED
    BY <1>1, <2>1, <2>3, <2>5
<1>3. ASSUME NEW j \in Job, Refuse(j) PROVE NoLostWakeup'
  <2>1. /\ Asleep' = Asleep /\ Awake' = Awake /\ Signals' = Signals
        /\ BroadcastDue' <=> BroadcastDue
    BY <1>3 DEF Refuse, Pushing, Asleep, Awake, Signals, BroadcastDue, TypeOK
  <2> QED
    BY <1>3, <2>1 DEF Refuse, NoLostWakeup
<1>4. ASSUME NEW j \in Job, Handoff(j) PROVE NoLostWakeup'
  BY <1>4 DEF Handoff, HandoffSignal, NoLostWakeup, BroadcastDue, TypeOK
<1>5. ASSUME NEW j \in Job, Enqueue(j) PROVE NoLostWakeup'
  <2>1. /\ Asleep' = Asleep /\ Awake' = Awake
        /\ BroadcastDue' <=> BroadcastDue
        /\ Signals' = Signals \cup {j} /\ j \notin Signals
        /\ mailbox' = mailbox
    BY <1>5 DEF Enqueue, Pushing, Asleep, Awake, Signals, BroadcastDue, TypeOK
  <2>2. Cardinality(Signals') = g + 1
    BY <1>1, <2>1, FS_AddElement
  <2>3. Len(jobs') = n + 1
    BY <1>5 DEF Enqueue, TypeOK
  <2> QED
    BY <1>1, <2>1, <2>2, <2>3 DEF NoLostWakeup
<1>6. ASSUME NEW j \in Job, NotifyOne(j) PROVE NoLostWakeup'
  <2>1. /\ BroadcastDue' <=> BroadcastDue
        /\ Signals' = Signals \ {j} /\ j \in Signals
        /\ jobs' = jobs /\ mailbox' = mailbox
    BY <1>6 DEF NotifyOne, Signals, BroadcastDue, TypeOK
  <2>2. Cardinality(Signals') = g - 1
    BY <1>1, <2>1, FS_RemoveElement
  <2>3. CASE Asleep = {} /\ wpc' = wpc
    BY <2>3 DEF NoLostWakeup, Asleep
  <2>4. ASSUME NEW s \in Asleep, wpc' = [wpc EXCEPT ![s] = "pop"] PROVE NoLostWakeup'
    <3>1. Asleep' \subseteq Asleep
      BY <2>4 DEF Asleep, TypeOK
    <3>2. SUFFICES ASSUME Asleep' # {}, ~BroadcastDue
                   PROVE  /\ n <= Cardinality(Awake') + Cardinality(Signals')
                          /\ \A t \in Asleep' : mailbox[t] = NoJob
      BY <2>1 DEF NoLostWakeup
    <3>3. n <= a + g /\ \A t \in Asleep : mailbox[t] = NoJob
      BY <2>4, <3>2 DEF NoLostWakeup
    <3>4. Awake' = Awake \cup {s} /\ s \notin Awake
      BY <2>1, <2>4, <3>3 DEF Awake, Asleep, TypeOK
    <3>5. Cardinality(Awake') = a + 1
      BY <1>1, <3>4, FS_AddElement
    <3> QED
      BY <1>1, <2>2, <3>1, <3>3, <3>5
  <2> QED
    BY <1>6, <2>3, <2>4 DEF NotifyOne
<1>7. ASSUME wpc' = WakeAll PROVE NoLostWakeup'
  <2>1. Asleep' = {}
    BY <1>7 DEF WakeAll, Asleep, TypeOK
  <2> QED
    BY <2>1 DEF NoLostWakeup
<1>8. ASSUME NEW s \in Slot, TakeMailbox(s) PROVE NoLostWakeup'
  <2>1. /\ Asleep' = Asleep /\ Awake' = Awake /\ Signals' = Signals
        /\ BroadcastDue' <=> BroadcastDue
        /\ jobs' = jobs
        /\ \A t \in Asleep : mailbox[t] = NoJob => mailbox'[t] = NoJob
    BY <1>8, QueueAssumption
       DEF TakeMailbox, TakeMail, Return, Asleep, Awake, Signals, BroadcastDue, TypeOK
  <2> QED
    BY <2>1 DEF NoLostWakeup
<1>9. ASSUME NEW s \in Slot, TakeQueued(s) PROVE NoLostWakeup'
  <2>1. /\ Asleep' = Asleep /\ Signals' = Signals
        /\ BroadcastDue' <=> BroadcastDue
        /\ Awake' = Awake \ {s} /\ s \in Awake
        /\ mailbox' = mailbox
    BY <1>9 DEF TakeQueued, NoMail, Return, Asleep, Awake, Signals, BroadcastDue, TypeOK
  <2>2. Cardinality(Awake') = a - 1
    BY <1>1, <2>1, FS_RemoveElement
  <2>3. Len(jobs') = n - 1
    <3>1. PICK i \in 1 .. Len(jobs) : jobs' = AfterPick(jobs, i)
      BY <1>9 DEF TakeQueued
    <3> QED
      BY <3>1, AfterPickProps DEF TypeOK
  <2> QED
    BY <1>1, <2>1, <2>2, <2>3 DEF NoLostWakeup
<1>10. ASSUME NEW s \in Slot, Sleep(s) PROVE NoLostWakeup'
  <2>1. /\ Asleep' = Asleep \cup {s} /\ Signals' = Signals /\ mailbox[s] = NoJob
        /\ BroadcastDue' <=> BroadcastDue
        /\ Awake' \subseteq Slot
        /\ mailbox' = mailbox /\ jobs' = <<>>
    BY <1>10 DEF Sleep, NoMail, Asleep, Awake, Signals, BroadcastDue, TypeOK
  <2>2. Len(jobs') = 0 /\ Cardinality(Awake') \in Nat
    BY <2>1, SlotSets, EmptySeq
  <2> QED
    BY <1>1, <2>1, <2>2 DEF NoLostWakeup
<1>11. ASSUME NEW s \in Slot, Exit(s) PROVE NoLostWakeup'
  <2>1. Asleep' = Asleep /\ (BroadcastDue' <=> BroadcastDue)
    BY <1>11 DEF Exit, Asleep, BroadcastDue, TypeOK
  <2>2. Asleep # {} => BroadcastDue
    BY <1>11 DEF Exit, ShutdownWakes, BroadcastDue
  <2> QED
    BY <2>1, <2>2 DEF NoLostWakeup
<1>12. ASSUME NEW s \in Slot, SpuriousWake(s) PROVE NoLostWakeup'
  <2>1. s \in Asleep
    BY <1>12 DEF SpuriousWake, Asleep
  <2> QED
    BY <1>2, <1>12, <2>1 DEF SpuriousWake
<1>13. ASSUME NEW s \in Slot, Finish(s) PROVE NoLostWakeup'
  <2>1. /\ Asleep' = Asleep /\ Signals' = Signals
        /\ BroadcastDue' <=> BroadcastDue
        /\ Awake' = Awake \cup {s}
        /\ mailbox' = mailbox /\ jobs' = jobs
    BY <1>13 DEF Finish, Asleep, Awake, Signals, BroadcastDue, TypeOK, IdleSlots
  <2>2. Cardinality(Awake') >= a
    <3>1. Cardinality(Awake \cup {s}) = IF s \in Awake THEN a ELSE a + 1
      BY <1>1, FS_AddElement
    <3> QED
      BY <1>1, <2>1, <3>1
  <2>3. Cardinality(Awake') \in Nat
    BY SlotSets DEF Awake
  <2> QED
    BY <1>1, <2>1, <2>2, <2>3 DEF NoLostWakeup
<1>14. CASE Shutdown
  BY <1>14 DEF Shutdown, NoLostWakeup, BroadcastDue
<1>15. CASE UNCHANGED vars
  BY <1>15 DEF vars, NoLostWakeup, Asleep, Awake, Signals, BroadcastDue
<1> QED
  BY <1>3, <1>4, <1>5, <1>6, <1>7, <1>8, <1>9, <1>10, <1>11, <1>12, <1>13, <1>14, <1>15
     DEF Next, Push, Notify, NotifyAll, Pop, ShutdownNotify

(* No wake-up is lost, for any number of workers and jobs. *)
THEOREM WakeupsNotLost == Spec => []NoLostWakeup
<1>1. Init => NoLostWakeup
  BY DEF Init, NoLostWakeup, Asleep
<1> QED
  BY <1>1, WakeupStep, TypeCorrect, IdleSlotsInvariant, ShutdownWakesInvariant, PTL DEF Spec

-----------------------------------------------------------------------------
(* A job is in one place: at one position of the queue, in one mailbox, or *)
(* with one worker; and a worker has a job while it runs.                  *)
Placed ==
  /\ \A s \in Slot : running[s] # NoJob <=> wpc[s] = "run"
  /\ \A s, t \in Slot : mailbox[s] # NoJob /\ mailbox[s] = mailbox[t] => s = t
  /\ \A s, t \in Slot : running[s] # NoJob /\ running[s] = running[t] => s = t
  /\ \A s, t \in Slot : mailbox[s] # NoJob => mailbox[s] # running[t]
  /\ \A k \in 1 .. Len(jobs), s \in Slot : jobs[k].job # mailbox[s] /\ jobs[k].job # running[s]

(* A job taken from the queue was nowhere else, and its other positions    *)
(* are none.                                                               *)
LEMMA TakeQueuedPlaces ==
  ASSUME TypeOK, QueueInv, Placed, NEW s \in Slot, TakeQueued(s)
  PROVE  Placed'
<1>1. PICK i \in 1 .. Len(jobs) : jobs' = AfterPick(jobs, i) /\ Return(s, jobs[i].job)
  BY DEF TakeQueued
<1>2. /\ jobs \in Seq(Queued) /\ Len(jobs) \in Nat /\ mailbox' = mailbox /\ wpc[s] = "pop"
      /\ jobs[i] \in Queued
  BY LenProperties, ElementOfSeq DEF TypeOK, TakeQueued
<1> DEFINE old(k) == IF k < i THEN k ELSE k + 1
<1>3. /\ Len(jobs') = Len(jobs) - 1
      /\ \A k \in 1 .. Len(jobs') : jobs'[k].job = jobs[old(k)].job
  BY <1>1, <1>2, AfterPickProps
<1>4. \A k \in 1 .. Len(jobs') : old(k) \in 1 .. Len(jobs) /\ old(k) # i
  BY <1>2, <1>3
<1>5. \A k \in 1 .. Len(jobs') : jobs'[k].job # jobs[i].job
  BY <1>3, <1>4 DEF QueueInv, SkipsCount
<1>6. \A k \in 1 .. Len(jobs'), t \in Slot : jobs'[k].job # mailbox[t] /\ jobs'[k].job # running[t]
  BY <1>3, <1>4 DEF Placed
<1>7. /\ running' = [running EXCEPT ![s] = jobs[i].job] /\ wpc' = [wpc EXCEPT ![s] = "run"]
      /\ jobs[i].job \in Job
  BY <1>1, <1>2 DEF Return, Queued
<1>8. \A t \in Slot : jobs[i].job # mailbox[t] /\ jobs[i].job # running[t]
  BY DEF Placed
<1> QED
  BY <1>2, <1>5, <1>6, <1>7, <1>8, QueueAssumption DEF Placed, TypeOK

(* Placed is kept by every step.                                           *)
THEOREM PlacedInvariant == Spec => []Placed
<1>1. Init => Placed
  BY DEF Init, Placed
<1>2. TypeOK /\ QueueInv /\ IdleSlots /\ Placed /\ [Next]_vars => Placed'
  <2> SUFFICES ASSUME TypeOK, QueueInv, IdleSlots, Placed, [Next]_vars PROVE Placed'
    OBVIOUS
  <2>1. ASSUME NEW j \in Job, Handoff(j) PROVE Placed'
    <3>1. PICK s \in Slot : mailbox' = [mailbox EXCEPT ![s] = j]
      BY <2>1 DEF Handoff, Deliver
    <3>2. /\ jobs = <<>> /\ UNCHANGED <<jobs, running, wpc>>
          /\ \A t \in Slot : mailbox[t] # j /\ running[t] # j
      BY <2>1 DEF Handoff, Pushing, InMailbox, Running
    <3> QED
      BY <3>1, <3>2, QueueAssumption DEF Placed, TypeOK
  <2>2. ASSUME NEW j \in Job, Enqueue(j) PROVE Placed'
    <3>1. /\ jobs' = Append(jobs, [job |-> j, skipped |-> 0])
          /\ UNCHANGED <<mailbox, running, wpc>>
          /\ \A t \in Slot : mailbox[t] # j /\ running[t] # j
      BY <2>2 DEF Enqueue, Pushing, InMailbox, Running
    <3>2. \A k \in 1 .. Len(jobs') :
            \/ k \in 1 .. Len(jobs) /\ jobs'[k] = jobs[k]
            \/ jobs'[k].job = j
      BY <3>1 DEF TypeOK
    <3> QED
      BY <3>1, <3>2 DEF Placed, TypeOK
  <2>3. ASSUME NEW j \in Job, Refuse(j) \/ NotifyOne(j) \/ NotifyAll(j) PROVE Placed'
    BY <2>3 DEF Refuse, NotifyOne, NotifyAll, WakeAll, Asleep, Placed, TypeOK
  <2>4. ASSUME NEW s \in Slot, TakeMailbox(s) PROVE Placed'
    <3>1. /\ mailbox' = [mailbox EXCEPT ![s] = NoJob] /\ mailbox[s] # NoJob /\ wpc[s] = "pop"
          /\ running' = [running EXCEPT ![s] = mailbox[s]]
          /\ wpc' = [wpc EXCEPT ![s] = "run"] /\ jobs' = jobs
      BY <2>4 DEF TakeMailbox, TakeMail, Return
    <3>2. \A k \in 1 .. Len(jobs) : jobs[k] \in Queued
      BY ElementOfSeq DEF TypeOK
    <3>3. \A k \in 1 .. Len(jobs) : jobs[k].job # NoJob
      BY <3>2, QueueAssumption DEF Queued
    <3> QED
      BY <3>1, <3>3 DEF Placed, TypeOK
  <2>5. ASSUME NEW s \in Slot, TakeQueued(s) PROVE Placed'
    BY <2>5, TakeQueuedPlaces
  <2>6. ASSUME NEW s \in Slot, Sleep(s) \/ Exit(s) \/ SpuriousWake(s) PROVE Placed'
    BY <2>6 DEF Sleep, Exit, SpuriousWake, Placed, TypeOK
  <2>7. ASSUME NEW s \in Slot, Finish(s) PROVE Placed'
    <3>1. \A k \in 1 .. Len(jobs) : jobs[k] \in Queued
      BY ElementOfSeq DEF TypeOK
    <3>2. \A k \in 1 .. Len(jobs) : jobs[k].job # NoJob
      BY <3>1, QueueAssumption DEF Queued
    <3> QED
      BY <2>7, <3>2 DEF Finish, Placed, TypeOK
  <2>8. CASE Shutdown \/ ShutdownNotify \/ UNCHANGED vars
    BY <2>8 DEF Shutdown, ShutdownNotify, WakeAll, vars, Placed, TypeOK
  <2> QED
    BY <2>1, <2>2, <2>3, <2>4, <2>5, <2>6, <2>7, <2>8 DEF Next, Push, Notify, Pop
<1> QED
  BY <1>1, <1>2, TypeCorrect, QueueInvariant, IdleSlotsInvariant, PTL DEF Spec

-----------------------------------------------------------------------------
Runners == {s \in Slot : wpc[s] = "run"}

(* What TakeMailbox, TakeQueued, Finish and Handoff do to the two sets     *)
(* that are counted.                                                       *)
LEMMA CountersStep ==
  ASSUME TypeOK, IdleSlots, Counters, [Next]_vars
  PROVE  Counters'
<1> DEFINE n == Len(jobs)
           r == Cardinality(Runners)
           m == Cardinality(HasMail)
<1>0. Counters <=> busy = r /\ n + m <= Cap
  BY DEF Counters, Pending, Runners
<1>1. Counters' <=> busy' = Cardinality(Runners') /\ Len(jobs') + Cardinality(HasMail') <= Cap
  BY DEF Counters, Pending, Runners
<1>2. /\ n \in Nat /\ r \in Nat /\ m \in Nat /\ IsFiniteSet(Runners) /\ IsFiniteSet(HasMail)
      /\ busy = r /\ n + m <= Cap /\ Cap \in Nat
  BY <1>0, SlotSets, LenProperties, QueueAssumption DEF TypeOK, Runners, HasMail
<1>3. ASSUME UNCHANGED <<jobs, mailbox, busy>>, Runners' = Runners PROVE Counters'
  BY <1>1, <1>2, <1>3 DEF HasMail
<1>4. ASSUME NEW j \in Job, Handoff(j) PROVE Counters'
  <2>1. PICK s \in Slot : mailbox[s] = NoJob /\ mailbox' = [mailbox EXCEPT ![s] = j]
    BY <1>4 DEF Handoff, Deliver, IsBestSlot, Matching
  <2>2. HasMail' = HasMail \cup {s} /\ s \notin HasMail
    BY <2>1, QueueAssumption DEF HasMail, TypeOK
  <2>3. Cardinality(HasMail') = m + 1
    BY <1>2, <2>2, FS_AddElement
  <2>4. Runners' = Runners /\ busy' = busy /\ jobs' = jobs /\ n + m < Cap
    BY <1>2, <1>4 DEF Handoff, Runners, Full, Pending
  <2> QED
    BY <1>1, <1>2, <2>3, <2>4
<1>5. ASSUME NEW j \in Job, Enqueue(j) PROVE Counters'
  <2>1. /\ Runners' = Runners /\ HasMail' = HasMail /\ busy' = busy
        /\ Len(jobs') = n + 1 /\ n + m < Cap
    BY <1>2, <1>5 DEF Enqueue, Runners, HasMail, Full, Pending, TypeOK
  <2> QED
    BY <1>1, <1>2, <2>1
<1>6. ASSUME NEW j \in Job, Refuse(j) \/ NotifyOne(j) \/ NotifyAll(j) PROVE Counters'
  <2>1. UNCHANGED <<jobs, mailbox, busy>> /\ Runners' = Runners
    BY <1>6 DEF Refuse, NotifyOne, NotifyAll, Asleep, WakeAll, Runners, TypeOK
  <2> QED
    BY <1>3, <2>1
<1>7. ASSUME NEW s \in Slot, NEW j, Return(s, j), wpc[s] = "pop"
      PROVE  busy' = Cardinality(Runners')
  <2>1. Runners' = Runners \cup {s} /\ s \notin Runners
    BY <1>7 DEF Return, Runners, TypeOK
  <2>2. Cardinality(Runners') = r + 1
    BY <1>2, <2>1, FS_AddElement
  <2> QED
    BY <1>2, <1>7, <2>2 DEF Return
<1>8. ASSUME NEW s \in Slot, TakeMailbox(s) PROVE Counters'
  <2>1. HasMail' = HasMail \ {s} /\ s \in HasMail /\ jobs' = jobs
    BY <1>8 DEF TakeMailbox, TakeMail, HasMail, TypeOK
  <2>2. Cardinality(HasMail') = m - 1
    BY <1>2, <2>1, FS_RemoveElement
  <2>3. busy' = Cardinality(Runners')
    BY <1>7, <1>8 DEF TakeMailbox
  <2> QED
    BY <1>1, <1>2, <2>1, <2>2, <2>3
<1>9. ASSUME NEW s \in Slot, TakeQueued(s) PROVE Counters'
  <2>1. PICK i \in 1 .. n : jobs' = AfterPick(jobs, i) /\ Return(s, jobs[i].job)
    BY <1>9 DEF TakeQueued
  <2>2. Len(jobs') = n - 1
    BY <2>1, AfterPickProps DEF TypeOK
  <2>3. busy' = Cardinality(Runners') /\ HasMail' = HasMail
    BY <1>7, <1>9, <2>1 DEF TakeQueued, HasMail
  <2> QED
    BY <1>1, <1>2, <2>2, <2>3
<1>10. ASSUME NEW s \in Slot, Sleep(s) \/ Exit(s) \/ SpuriousWake(s) PROVE Counters'
  <2>1. UNCHANGED <<jobs, mailbox, busy>> /\ Runners' = Runners
    BY <1>10 DEF Sleep, Exit, SpuriousWake, Runners, TypeOK
  <2> QED
    BY <1>3, <2>1
<1>11. ASSUME NEW s \in Slot, Finish(s) PROVE Counters'
  <2>1. Runners' = Runners \ {s} /\ s \in Runners
    BY <1>11 DEF Finish, Runners, TypeOK
  <2>2. Cardinality(Runners') = r - 1 /\ Cardinality(Runners') \in Nat
    BY <1>2, <2>1, FS_RemoveElement, SlotSets DEF Runners
  <2>3. busy' = r - 1
    BY <1>2, <1>11, <2>2 DEF Finish, Released
  <2>4. HasMail' = HasMail /\ jobs' = jobs
    BY <1>11 DEF Finish, HasMail
  <2> QED
    BY <1>1, <1>2, <2>2, <2>3, <2>4
<1>12. CASE Shutdown \/ ShutdownNotify \/ UNCHANGED vars
  <2>1. UNCHANGED <<jobs, mailbox, busy>> /\ Runners' = Runners
    BY <1>12 DEF Shutdown, ShutdownNotify, WakeAll, vars, Runners, TypeOK
  <2> QED
    BY <1>3, <2>1
<1> QED
  BY <1>4, <1>5, <1>6, <1>8, <1>9, <1>10, <1>11, <1>12 DEF Next, Push, Notify, Pop

(* busy is the number of workers that run a job, so finish never finds it  *)
(* zero, and the jobs accepted and not taken, in mailboxes or queued, stay *)
(* within the capacity.                                                    *)
THEOREM CountersInvariant == Spec => []Counters
<1>1. Init => Counters
  <2> SUFFICES ASSUME Init PROVE Counters
    OBVIOUS
  <2>1. HasMail = {}
    BY DEF Init, HasMail
  <2>2. Runners = {}
    BY DEF Init, Runners
  <2>3. Len(jobs) = 0 /\ busy = 0
    BY DEF Init
  <2>4. Cardinality({}) = 0 /\ Cap \in Nat
    BY FS_EmptySet, QueueAssumption
  <2>5. Pending = 0
    BY <2>1, <2>3, <2>4 DEF Pending
  <2>6. Cardinality(Runners) = 0
    BY <2>2, <2>4
  <2>7. busy = Cardinality(Runners) /\ Pending <= Cap
    BY <2>3, <2>4, <2>5, <2>6
  <2> QED
    BY <2>7 DEF Counters, Runners
<1> QED
  BY <1>1, CountersStep, TypeCorrect, IdleSlotsInvariant, PTL DEF Spec

-----------------------------------------------------------------------------
(* The dispatcher's view: the jobs in order of arrival, those in mailboxes *)
(* and those with workers.                                                 *)
Waiting == [k \in 1 .. Len(jobs) |-> jobs[k].job]
Assigned == {mailbox[s] : s \in HasMail}
Busy == {s \in Slot : running[s] # NoJob}
Active == {running[s] : s \in Busy}

(* The waiting jobs are the queued ones, in the same order.                *)
LEMMA WaitingProps ==
  ASSUME TypeOK
  PROVE  /\ Waiting \in Seq(Job) /\ Len(Waiting) = Len(jobs) /\ Len(jobs) \in Nat
         /\ \A k \in 1 .. Len(jobs) : Waiting[k] = jobs[k].job
<1>1. Len(jobs) \in Nat /\ \A k \in 1 .. Len(jobs) : jobs[k] \in Queued
  BY LenProperties, ElementOfSeq DEF TypeOK
<1>2. Waiting \in [1 .. Len(jobs) -> Job]
  BY <1>1 DEF Waiting, Queued
<1>3. Waiting \in Seq(Job)
  BY <1>1, <1>2, SeqDef
<1>4. Len(Waiting) = Len(jobs)
  BY <1>1, <1>2, <1>3, LenProperties
<1> QED
  BY <1>1, <1>3, <1>4 DEF Waiting

(* As many jobs are reserved as mailboxes are full, and as many run as     *)
(* workers have one: no two have the same.                                 *)
LEMMA OneEach ==
  ASSUME NEW f, NEW S \in SUBSET Slot, \A s, t \in S : f[s] = f[t] => s = t
  PROVE  Cardinality({f[s] : s \in S}) = Cardinality(S)
<1> DEFINE T == {f[s] : s \in S}
           g == [s \in S |-> f[s]]
<1>1. IsFiniteSet(S)
  BY SlotSets
<1>2. g \in Surjection(S, T) /\ g \in Injection(S, T)
  BY DEF Surjection, Injection, IsInjective
<1>3. ExistsBijection(S, T)
  BY <1>2 DEF ExistsBijection, Bijection
<1> QED
  BY <1>1, <1>3, FS_Bijection

(* The counts of the dispatcher are those of the queue.                    *)
LEMMA Sizes ==
  ASSUME Placed
  PROVE  /\ Cardinality(Assigned) = Cardinality(HasMail)
         /\ Cardinality(Active) = Cardinality(Busy)
<1>1. \A s, t \in HasMail : mailbox[s] = mailbox[t] => s = t
  BY DEF Placed, HasMail
<1>2. \A s, t \in Busy : running[s] = running[t] => s = t
  BY DEF Placed, Busy
<1>3. HasMail \in SUBSET Slot /\ Busy \in SUBSET Slot
  BY DEF HasMail, Busy
<1> QED
  BY <1>1, <1>2, <1>3, OneEach DEF Assigned, Active

(* A worker without mail that does not run is free: it is not counted.     *)
LEMMA OneIsFree ==
  ASSUME Placed, IdleSlots, NEW s \in Slot, mailbox[s] = NoJob, wpc[s] # "run"
  PROVE  Cardinality(Assigned) + Cardinality(Active) < Slots
<1>1. /\ HasMail \in SUBSET Slot /\ Busy \in SUBSET Slot /\ HasMail \cap Busy = {}
      /\ HasMail \cup Busy \in SUBSET (Slot \ {s})
  BY DEF HasMail, Busy, Placed, IdleSlots
<1>2. IsFiniteSet(Slot) /\ IsFiniteSet(HasMail) /\ IsFiniteSet(Busy) /\ IsFiniteSet(HasMail \cup Busy)
  BY <1>1, SlotSets
<1>3. Cardinality(HasMail \cup Busy) = Cardinality(HasMail) + Cardinality(Busy)
  <2>1. /\ Cardinality(HasMail \cup Busy) = Cardinality(HasMail) + Cardinality(Busy) - Cardinality(HasMail \cap Busy)
        /\ Cardinality(HasMail) \in Nat /\ Cardinality(Busy) \in Nat
    BY <1>1, <1>2, FS_Union, SlotSets
  <2>2. Cardinality(HasMail \cap Busy) = 0
    BY <1>1, FS_EmptySet
  <2> QED
    BY <2>1, <2>2
<1>4. Cardinality(Slot) = Slots /\ Slots \in Nat
  <2>1. Slots \in Nat /\ Slots >= 1
    BY QueueAssumption
  <2>2. 0 \in Int /\ Slots - 1 \in Int
    BY <2>1
  <2>3. Cardinality(0 .. Slots - 1) = IF 0 > Slots - 1 THEN 0 ELSE Slots - 1 - 0 + 1
    BY <2>2, FS_Interval
  <2> QED
    BY <2>1, <2>3 DEF Slot
<1>5. Cardinality(Slot \ {s}) = Slots - 1 /\ IsFiniteSet(Slot \ {s})
  BY <1>2, <1>4, FS_RemoveElement
<1>6. Cardinality(HasMail \cup Busy) <= Slots - 1 /\ Cardinality(HasMail \cup Busy) \in Nat
  BY <1>1, <1>2, <1>5, FS_Subset, SlotSets
<1> QED
  BY <1>3, <1>4, <1>6, Sizes

(* Where a job is, to the queue and to the dispatcher.                     *)
LEMMA Places ==
  ASSUME TypeOK, NEW j \in Job
  PROVE  /\ Dispatch!Waits(j) <=> InQueue(j)
         /\ j \in Assigned <=> InMailbox(j)
         /\ j \in Active <=> Running(j)
<1>1. j \in Assigned <=> InMailbox(j)
  BY QueueAssumption DEF Assigned, HasMail, InMailbox
<1>2. j \in Active <=> Running(j)
  BY QueueAssumption DEF Active, Busy, Running
<1>3. Dispatch!Waits(j) <=> InQueue(j)
  BY WaitingProps DEF Dispatch!Waits, InQueue, Waiting
<1> QED
  BY <1>1, <1>2, <1>3

DispatchInv == TypeOK /\ QueueInv /\ IdleSlots /\ Placed /\ Counters

(* The cardinality of JobDispatch is the cardinality. *)
LEMMA SameCardinality == \A S : Dispatch!Cardinality(S) = Cardinality(S)
BY DEF Dispatch!Cardinality, Cardinality, Dispatch!IsFiniteSet, IsFiniteSet

(* What is not full has room.                                              *)
LEMMA RoomLeft ==
  ASSUME TypeOK, Placed, ~Full
  PROVE  Dispatch!Room /\ ~shutdown
<1>1. Len(Waiting) + Cardinality(Assigned) < Cap /\ ~shutdown
  <2>1. ~shutdown /\ Len(jobs) + Cardinality(HasMail) < Cap
    <3>1. Len(jobs) \in Nat /\ Cardinality(HasMail) \in Nat /\ Cap \in Nat
      BY SlotSets, LenProperties, QueueAssumption DEF TypeOK, HasMail
    <3> QED
      BY <3>1 DEF Full, Pending
  <2> QED
    BY <2>1, WaitingProps, Sizes
<1> QED
  BY <1>1, SameCardinality DEF Dispatch!Room, Waiting, Assigned

(* Each step of the queue as a step of the dispatcher.                     *)
LEMMA EnqueueAccepts ==
  ASSUME DispatchInv, NEW j \in Job, Enqueue(j)
  PROVE  Dispatch!Accept(j)
<1>1. ~shutdown /\ Dispatch!Room
  BY RoomLeft DEF DispatchInv, Enqueue
<1>2. ~Dispatch!Waits(j) /\ j \notin Assigned \cup Active
  BY Places DEF DispatchInv, Enqueue, Pushing
<1>3. UNCHANGED <<Assigned, Active, overtaken, shutdown>>
  BY DEF Enqueue, Assigned, HasMail, Active, Busy
<1>4. Waiting' = Append(Waiting, j)
  <2> DEFINE e == [job |-> j, skipped |-> 0]
             q == Append(jobs, e)
             w == [k \in 1 .. Len(q) |-> q[k].job]
             a == Append(Waiting, j)
  <2>1. e \in Queued /\ e.job = j /\ jobs \in Seq(Queued)
    BY DEF DispatchInv, TypeOK, Queued
  <2>2. /\ q \in Seq(Queued) /\ Len(q) = Len(jobs) + 1 /\ q[Len(jobs) + 1] = e
        /\ \A k \in 1 .. Len(jobs) : q[k] = jobs[k]
    BY <2>1, AppendProperties
  <2>3. /\ Waiting \in Seq(Job) /\ Len(Waiting) = Len(jobs) /\ Len(jobs) \in Nat
        /\ \A k \in 1 .. Len(jobs) : Waiting[k] = jobs[k].job
    BY WaitingProps DEF DispatchInv
  <2>4. /\ a \in Seq(Job) /\ Len(a) = Len(jobs) + 1 /\ a[Len(jobs) + 1] = j
        /\ \A k \in 1 .. Len(jobs) : a[k] = Waiting[k]
    BY <2>3, AppendProperties
  <2>5. Waiting' = w
    BY DEF Enqueue, Waiting
  <2> HIDE DEF q, e, a
  <2>6. a = [k \in 1 .. Len(a) |-> a[k]]
    BY <2>4, LenProperties
  <2>7. \A k \in 1 .. Len(q) : a[k] = q[k].job
    BY <2>1, <2>2, <2>3, <2>4
  <2>8. w = a
    BY <2>2, <2>4, <2>6, <2>7
  <2> QED
    BY <2>5, <2>8 DEF a
<1> QED
  BY <1>1, <1>2, <1>3, <1>4 DEF Dispatch!Accept, Waiting, Assigned, Active, Busy

(* A handoff finds a free worker, and nobody waits that it could overtake. *)
LEMMA HandoffAssigns ==
  ASSUME DispatchInv, NEW j \in Job, Handoff(j)
  PROVE  Dispatch!Assign(j)
<1>1. ~shutdown /\ Dispatch!Room
  BY RoomLeft DEF DispatchInv, Handoff
<1>2. j \notin Assigned \cup Active
  BY Places DEF DispatchInv, Handoff, Pushing
<1>3. PICK s \in Slot : idle[s] /\ mailbox[s] = NoJob /\ mailbox' = [mailbox EXCEPT ![s] = j]
  BY DEF Handoff, Deliver, IsBestSlot, Matching
<1>4. Cardinality(Assigned) + Cardinality(Active) < Slots
  BY <1>3, OneIsFree DEF DispatchInv, IdleSlots
<1>5. Assigned' = Assigned \cup {j}
  <2>1. HasMail' = HasMail \cup {s} /\ s \notin HasMail
    BY <1>3, QueueAssumption DEF HasMail, DispatchInv, TypeOK
  <2>2. Assigned' = {mailbox'[t] : t \in HasMail \cup {s}}
    BY <2>1 DEF Assigned
  <2>3. \A t \in HasMail : mailbox'[t] = mailbox[t]
    BY <1>3, <2>1 DEF HasMail, DispatchInv, TypeOK
  <2>4. mailbox'[s] = j
    BY <1>3 DEF DispatchInv, TypeOK
  <2> QED
    BY <2>2, <2>3, <2>4 DEF Assigned
<1>6. UNCHANGED <<jobs, running, shutdown>> /\ jobs = <<>>
  BY DEF Handoff
<1>7. overtaken' = overtaken
  <2>1. \A k \in Job : ~InQueue(k)
    BY <1>6 DEF InQueue
  <2>2. overtaken' = [k \in Job |-> IF InQueue(k) THEN overtaken[k] + 1 ELSE overtaken[k]]
    BY DEF Handoff
  <2> QED
    BY <2>1, <2>2 DEF DispatchInv, TypeOK
<1>8. Waiting = <<>> /\ Waiting' = Waiting /\ Active' = Active
  <2>1. Waiting \in Seq(Job) /\ Len(Waiting) = 0
    BY <1>6, WaitingProps DEF DispatchInv
  <2> QED
    BY <1>6, <2>1, EmptySeq DEF Waiting, Active, Busy
<1>9. Dispatch!FreeWorker
  BY <1>4, SameCardinality DEF Dispatch!FreeWorker, Assigned, Active, Busy
<1> QED
  BY <1>1, <1>2, <1>5, <1>6, <1>7, <1>8, <1>9
     DEF Dispatch!Assign, Waiting, Assigned, Active, Busy

(* The job that is taken overtakes those before it: each was passed over   *)
(* fewer than MaxSkips times, because the first one was.                   *)
LEMMA TakeQueuedStarts ==
  ASSUME DispatchInv, NEW s \in Slot, TakeQueued(s)
  PROVE  \E i \in 1 .. Len(Waiting) : Dispatch!Start(i)
<1>1. PICK i \in 1 .. Len(jobs) :
        /\ MayPick(i) /\ jobs' = AfterPick(jobs, i) /\ Return(s, jobs[i].job)
        /\ overtaken' = [j \in Job |->
             IF j = jobs[i].job THEN 0
             ELSE IF \E k \in 1 .. i - 1 : jobs[k].job = j THEN overtaken[j] + 1
             ELSE overtaken[j]]
  BY DEF TakeQueued
<1>2. /\ Waiting \in Seq(Job) /\ Len(Waiting) = Len(jobs) /\ Len(jobs) \in Nat
      /\ \A k \in 1 .. Len(jobs) : Waiting[k] = jobs[k].job /\ jobs[k] \in Queued
  BY WaitingProps, ElementOfSeq DEF DispatchInv, TypeOK
<1>3. ~shutdown /\ wpc[s] = "pop" /\ mailbox[s] = NoJob /\ UNCHANGED <<mailbox, shutdown>>
  BY DEF TakeQueued, NoMail
<1>4. Dispatch!FreeWorker
  <2>1. Cardinality(Assigned) + Cardinality(Active) < Slots
    BY <1>3, OneIsFree DEF DispatchInv
  <2> QED
    BY <2>1, SameCardinality DEF Dispatch!FreeWorker, Assigned, Active, Busy
<1>5. \A k \in 1 .. i - 1 : overtaken[Waiting[k]] < MaxSkips
  <2> SUFFICES ASSUME NEW k \in 1 .. i - 1 PROVE overtaken[Waiting[k]] < MaxSkips
    OBVIOUS
  <2>1. k \in 1 .. Len(jobs) /\ 1 \in 1 .. Len(jobs) /\ 1 <= k /\ i # 1
    BY <1>2
  <2>2. ~MustTakeHead
    BY <1>1, <2>1 DEF MayPick
  <2>3. jobs[1].skipped < MaxSkips
    <3>1. jobs[1].skipped \in Nat /\ MaxSkips \in Nat
      BY <1>2, <2>1, QueueAssumption DEF Queued
    <3> QED
      BY <2>2, <3>1 DEF MustTakeHead
  <2>4. jobs[k].skipped <= jobs[1].skipped /\ overtaken[jobs[k].job] = jobs[k].skipped
    BY <2>1 DEF DispatchInv, QueueInv, SkipsOrdered, SkipsCount
  <2>5. jobs[k].skipped \in Nat /\ jobs[1].skipped \in Nat /\ MaxSkips \in Nat
    BY <1>2, <2>1, QueueAssumption DEF Queued
  <2> QED
    BY <1>2, <2>1, <2>3, <2>4, <2>5
<1>6. Waiting' = [k \in 1 .. Len(Waiting) - 1 |-> Waiting[IF k < i THEN k ELSE k + 1]]
  <2>1. /\ Len(jobs') = Len(jobs) - 1
        /\ \A k \in 1 .. Len(jobs) - 1 : jobs'[k].job = jobs[IF k < i THEN k ELSE k + 1].job
    BY <1>1, AfterPickProps DEF DispatchInv, TypeOK
  <2>2. \A k \in 1 .. Len(jobs) - 1 : (IF k < i THEN k ELSE k + 1) \in 1 .. Len(jobs)
    BY <1>2
  <2>3. \A k \in 1 .. Len(jobs) - 1 : jobs'[k].job = Waiting[IF k < i THEN k ELSE k + 1]
    BY <1>2, <2>1, <2>2
  <2>4. Waiting' = [k \in 1 .. Len(jobs') |-> jobs'[k].job]
    BY DEF Waiting
  <2> QED
    BY <1>2, <2>1, <2>3, <2>4
<1>7. Active' = Active \cup {Waiting[i]}
  <2>1. running' = [running EXCEPT ![s] = jobs[i].job] /\ running[s] = NoJob
    BY <1>1, <1>3 DEF Return, DispatchInv, Placed
  <2>2. jobs[i].job \in Job /\ jobs[i].job # NoJob
    BY <1>2, QueueAssumption DEF Queued
  <2>3. Busy' = Busy \cup {s} /\ s \notin Busy
    BY <2>1, <2>2 DEF Busy, DispatchInv, TypeOK
  <2>4. Active' = {running'[t] : t \in Busy \cup {s}}
    BY <2>3 DEF Active
  <2>5. running'[s] = Waiting[i] /\ \A t \in Busy : running'[t] = running[t]
    BY <1>2, <2>1, <2>3 DEF Busy, DispatchInv, TypeOK
  <2> QED
    BY <2>4, <2>5 DEF Active
<1>8. Assigned' = Assigned
  BY <1>3 DEF Assigned, HasMail
<1>9. overtaken' = [j \in Job |->
        IF j = Waiting[i] THEN 0
        ELSE IF \E k \in 1 .. i - 1 : Waiting[k] = j THEN overtaken[j] + 1
        ELSE overtaken[j]]
  <2>1. Waiting[i] = jobs[i].job /\ \A k \in 1 .. i - 1 : Waiting[k] = jobs[k].job
    BY <1>2
  <2> QED
    BY <1>1, <2>1
<1>10. Dispatch!Start(i)
  BY <1>3, <1>4, <1>5, <1>6, <1>7, <1>8, <1>9
     DEF Dispatch!Start, Waiting, Assigned, Active, Busy
<1> QED
  BY <1>2, <1>10

(* A job that was handed over leaves its mailbox and runs.                 *)
LEMMA TakeMailboxStarts ==
  ASSUME DispatchInv, NEW s \in Slot, TakeMailbox(s)
  PROVE  \E j \in Job : Dispatch!StartAssigned(j)
<1>0. PICK j \in Job : j = mailbox[s]
  BY DEF TakeMailbox, DispatchInv, TypeOK
<1>1. /\ ~shutdown /\ j # NoJob /\ j \in Job /\ wpc[s] = "pop"
      /\ mailbox' = [mailbox EXCEPT ![s] = NoJob] /\ running' = [running EXCEPT ![s] = j]
      /\ UNCHANGED <<jobs, shutdown, overtaken>>
  BY <1>0, QueueAssumption DEF TakeMailbox, TakeMail, Return, DispatchInv, TypeOK
<1>2. s \in HasMail /\ HasMail' = HasMail \ {s}
  BY <1>0, <1>1 DEF HasMail, DispatchInv, TypeOK
<1>3. s \notin Busy /\ Busy' = Busy \cup {s}
  BY <1>0, <1>1 DEF Busy, DispatchInv, TypeOK, Placed
<1>4. j \in Assigned /\ Assigned' = Assigned \ {j}
  <2>1. Assigned' = {mailbox'[t] : t \in HasMail \ {s}}
    BY <1>2 DEF Assigned
  <2>2. \A t \in HasMail \ {s} : mailbox'[t] = mailbox[t] /\ mailbox[t] # j
    BY <1>0, <1>1, <1>2 DEF HasMail, DispatchInv, TypeOK, Placed
  <2> QED
    BY <1>0, <1>2, <2>1, <2>2 DEF Assigned
<1>5. Active' = Active \cup {j}
  <2>1. Active' = {running'[t] : t \in Busy \cup {s}}
    BY <1>3 DEF Active
  <2>2. running'[s] = j /\ \A t \in Busy : running'[t] = running[t]
    BY <1>1, <1>3 DEF Busy, DispatchInv, TypeOK
  <2> QED
    BY <2>1, <2>2 DEF Active
<1>6. Waiting' = Waiting
  BY <1>1 DEF Waiting
<1>7. Dispatch!StartAssigned(j)
  BY <1>1, <1>4, <1>5, <1>6 DEF Dispatch!StartAssigned, Waiting, Assigned, Active, Busy
<1> QED
  BY <1>1, <1>7

(* A job that ends was running, with one worker only.                      *)
LEMMA FinishEnds ==
  ASSUME DispatchInv, NEW s \in Slot, Finish(s)
  PROVE  \E j \in Job : Dispatch!End(j)
<1>0. PICK j \in Job : j = running[s]
  BY DEF Finish, DispatchInv, TypeOK, Placed
<1>1. /\ j # NoJob /\ j \in Job /\ running' = [running EXCEPT ![s] = NoJob]
      /\ UNCHANGED <<jobs, mailbox, shutdown, overtaken>>
  BY <1>0, QueueAssumption DEF Finish, DispatchInv, TypeOK, Placed
<1>2. s \in Busy /\ Busy' = Busy \ {s}
  BY <1>0, <1>1 DEF Busy, DispatchInv, TypeOK
<1>3. j \in Active /\ Active' = Active \ {j}
  <2>1. Active' = {running'[t] : t \in Busy \ {s}}
    BY <1>2 DEF Active
  <2>2. \A t \in Busy \ {s} : running'[t] = running[t] /\ running[t] # j
    BY <1>0, <1>1, <1>2 DEF Busy, DispatchInv, TypeOK, Placed
  <2> QED
    BY <1>0, <1>2, <2>1, <2>2 DEF Active
<1>4. Waiting' = Waiting /\ Assigned' = Assigned
  BY <1>1 DEF Waiting, Assigned, HasMail
<1>5. Dispatch!End(j)
  BY <1>1, <1>3, <1>4 DEF Dispatch!End, Waiting, Assigned, Active, Busy
<1> QED
  BY <1>1, <1>5

(* Shutdown closes the dispatcher, whatever still waits.                   *)
LEMMA ShutdownCloses == Shutdown => Dispatch!Close
BY DEF Shutdown, Dispatch!Close, HasMail

(* What moves no job is no step of the dispatcher.                         *)
LEMMA OthersUnheard ==
  ASSUME UNCHANGED <<jobs, mailbox, running, overtaken, shutdown>>
  PROVE  UNCHANGED Dispatch!dispatchVars
BY DEF Dispatch!dispatchVars, HasMail

(* The queue of serve.rs keeps the promise of JobDispatch, step by step:   *)
(* bounded, each job to one worker at a time, overtaking bounded - with    *)
(* every lock, wake-up, affinity score and refusal a stutter.              *)
THEOREM DispatchKept == Spec => ImplementsDispatch
<1>1. Init => Dispatch!DispatchInit
  <2> SUFFICES ASSUME Init PROVE Dispatch!DispatchInit
    OBVIOUS
  <2>1. HasMail = {} /\ {t \in Slot : running[t] # NoJob} = {} /\ jobs = <<>>
    BY DEF Init, HasMail
  <2>2. [k \in 1 .. Len(jobs) |-> jobs[k].job] = <<>>
    BY <2>1
  <2> QED
    BY <2>1, <2>2 DEF Init, Dispatch!DispatchInit
<1>2. DispatchInv /\ [Next]_vars => [Dispatch!DispatchNext]_(Dispatch!dispatchVars)
  <2> SUFFICES ASSUME DispatchInv, [Next]_vars
               PROVE  Dispatch!DispatchNext \/ UNCHANGED Dispatch!dispatchVars
    OBVIOUS
  <2>1. ASSUME NEW j \in Job, Enqueue(j) \/ Handoff(j) PROVE Dispatch!DispatchNext
    BY <2>1, EnqueueAccepts, HandoffAssigns DEF Dispatch!DispatchNext
  <2>2. ASSUME NEW s \in Slot, TakeQueued(s) PROVE Dispatch!DispatchNext
    BY <2>2, TakeQueuedStarts DEF Dispatch!DispatchNext, Waiting
  <2>3. ASSUME NEW s \in Slot, TakeMailbox(s) \/ Finish(s) PROVE Dispatch!DispatchNext
    BY <2>3, TakeMailboxStarts, FinishEnds DEF Dispatch!DispatchNext
  <2>4. CASE Shutdown
    BY <2>4, ShutdownCloses DEF Dispatch!DispatchNext
  <2>5. ASSUME NEW j \in Job, Refuse(j) \/ NotifyOne(j) \/ NotifyAll(j)
        PROVE  UNCHANGED Dispatch!dispatchVars
    BY <2>5, OthersUnheard DEF Refuse, NotifyOne, NotifyAll
  <2>6. ASSUME NEW s \in Slot, Sleep(s) \/ Exit(s) \/ SpuriousWake(s)
        PROVE  UNCHANGED Dispatch!dispatchVars
    BY <2>6, OthersUnheard DEF Sleep, Exit, SpuriousWake
  <2>7. CASE ShutdownNotify \/ UNCHANGED vars
    BY <2>7, OthersUnheard DEF ShutdownNotify, vars
  <2> QED
    BY <2>1, <2>2, <2>3, <2>4, <2>5, <2>6, <2>7 DEF Next, Push, Notify, Pop
<1> QED
  BY <1>1, <1>2, TypeCorrect, QueueInvariant, IdleSlotsInvariant, PlacedInvariant,
     CountersInvariant, PTL DEF Spec, DispatchInv, ImplementsDispatch, Dispatch!DispatchSpec
=============================================================================
