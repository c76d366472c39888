--------------------------------- MODULE Server ---------------------------------
(***************************************************************************)
(* The server of server/serve.rs from end to end: the accept loop with its *)
(* connection limit, connection threads that serve one request after       *)
(* another, the job queue (as JobDispatch promises it), the workers and    *)
(* the channel on which a worker sends events to the connection that       *)
(* waits for them.  A connection that ends for whatever reason cancels its *)
(* job.                                                                    *)
(*                                                                         *)
(* Requests that are answered without a job are not distinguished from     *)
(* none.  A request is named by its connection and a bit.                  *)
(***************************************************************************)
EXTENDS Integers, Sequences, FiniteSets

CONSTANTS
  Conn,
  MaxConns,    \* cfg.max_connections
  Cap,         \* cfg.max_queue
  Workers,     \* cfg.slots
  MaxSkips,    \* see JobQueue
  MaxDeltas,   \* bound: deltas of a completion
  MayPanic     \* an engine may panic

Request == Conn \X {0, 1}
NoConn == "none"

ASSUME ServerAssumption ==
  /\ {MaxConns, Cap, Workers, MaxSkips, MaxDeltas} \subseteq Nat /\ MayPanic \in BOOLEAN
  /\ IsFiniteSet(Conn) /\ NoConn \notin Conn

VARIABLES
  conns,      \* App.conns
  acceptor,   \* the connection between fetch_add and its spawn, and the old count
  cpc,        \* "none", "read", "head", "await", "gone" (receiver dropped)
  bit,        \* of the connection's last request
  streams,    \* it asked for a stream
  got,        \* deltas received for it
  answer,     \* "none", "done", "error"
  chan,       \* events sent and not received
  sender,     \* the worker's end of the channel is alive
  cancel,
  wpc,        \* "none", "check", "run", "send", "end", "finish", "drop", "dead"
  made,       \* deltas sent by the worker
  waiting, assigned, active, overtakes, open

connVars == <<conns, acceptor, cpc, bit, streams, got, answer>>
jobVars == <<chan, sender, cancel, wpc, made>>
queueVars == <<waiting, assigned, active, overtakes, open>>
vars == <<connVars, jobVars, queueVars>>

INSTANCE JobDispatch WITH Job <- Request

Init ==
  /\ conns = 0 /\ acceptor = [conn |-> NoConn, prev |-> 0]
  /\ cpc = [c \in Conn |-> "none"] /\ bit = [c \in Conn |-> 0]
  /\ streams = [c \in Conn |-> FALSE] /\ got = [c \in Conn |-> 0]
  /\ answer = [c \in Conn |-> "none"]
  /\ chan = [r \in Request |-> <<>>] /\ sender = [r \in Request |-> FALSE]
  /\ cancel = [r \in Request |-> TRUE] /\ wpc = [r \in Request |-> "none"]
  /\ made = [r \in Request |-> 0]
  /\ DispatchInit

Req(c) == <<c, bit[c]>>
Live == {c \in Conn : cpc[c] # "none"}

-----------------------------------------------------------------------------
(* serve: count first, then decide. *)
AcceptConn(c) ==
  /\ acceptor.conn = NoConn /\ cpc[c] = "none"
  /\ acceptor' = [conn |-> c, prev |-> conns]
  /\ conns' = conns + 1
  /\ UNCHANGED <<cpc, bit, streams, got, answer, jobVars, queueVars>>

OverLimitM(prev) == prev > MaxConns
OverLimit(prev) == prev >= MaxConns

(* Rejected, or the thread could not be started, and with it the guard     *)
(* that counts a connection back: counted back here.                       *)
Uncounted == conns - 1

TurnAway ==
  /\ acceptor.conn # NoConn
  /\ acceptor' = [conn |-> NoConn, prev |-> 0]
  /\ conns' = Uncounted
  /\ UNCHANGED <<cpc, bit, streams, got, answer, jobVars, queueVars>>

Spawn ==
  /\ acceptor.conn # NoConn /\ ~OverLimit(acceptor.prev)
  /\ cpc' = [cpc EXCEPT ![acceptor.conn] = "read"]
  /\ answer' = [answer EXCEPT ![acceptor.conn] = "none"]
  /\ acceptor' = [conn |-> NoConn, prev |-> 0]
  /\ UNCHANGED <<conns, bit, streams, got, jobVars, queueVars>>

-----------------------------------------------------------------------------
(* handle_connection: reading times out, fails, or the connection is not   *)
(* kept.                                                                   *)
CloseConn(c) ==
  /\ cpc[c] = "read"
  /\ cpc' = [cpc EXCEPT ![c] = "none"]
  /\ conns' = conns - 1
  /\ UNCHANGED <<acceptor, bit, streams, got, answer, jobVars, queueVars>>

(* generate: a job with a channel and a cancel flag of its own.  A refused *)
(* one is answered like a request without a job.                           *)
Submit(c, stream) ==
  LET r == <<c, 1 - bit[c]>> IN
  /\ cpc[c] = "read" /\ wpc[r] = "none" /\ ~Waits(r) /\ r \notin assigned
  /\ Accept(r) \/ Assign(r)
  /\ cpc' = [cpc EXCEPT ![c] = IF stream THEN "head" ELSE "await"]
  /\ bit' = [bit EXCEPT ![c] = r[2]] /\ streams' = [streams EXCEPT ![c] = stream]
  /\ got' = [got EXCEPT ![c] = 0] /\ answer' = [answer EXCEPT ![c] = "none"]
  /\ chan' = [chan EXCEPT ![r] = <<>>] /\ sender' = [sender EXCEPT ![r] = TRUE]
  /\ cancel' = [cancel EXCEPT ![r] = FALSE] /\ made' = [made EXCEPT ![r] = 0]
  /\ UNCHANGED <<conns, acceptor, wpc>>

(* The head of the event stream is written before any event. *)
WriteHead(c) ==
  /\ cpc[c] = "head"
  /\ cpc' = [cpc EXCEPT ![c] = "await"]
  /\ UNCHANGED <<conns, acceptor, bit, streams, got, answer, jobVars, queueVars>>

(* generate returns: the receiver is dropped, then the guard cancels.      *)
Return(c) ==
  /\ cpc' = [cpc EXCEPT ![c] = "gone"]
  /\ chan' = [chan EXCEPT ![Req(c)] = <<>>]

NextEventM(events) == events[Len(events)]
NextEvent(events) == Head(events)

Receive(c) ==
  LET r == Req(c) IN
  /\ cpc[c] = "await" /\ chan[r] # <<>>
  /\ IF NextEvent(chan[r]) = "delta"
     THEN /\ got' = [got EXCEPT ![c] = @ + 1]
          /\ chan' = [chan EXCEPT ![r] = Tail(@)]
          /\ UNCHANGED <<cpc, answer>>
     ELSE /\ answer' = [answer EXCEPT ![c] = NextEvent(chan[r])]
          /\ Return(c) /\ UNCHANGED got
  /\ UNCHANGED <<conns, acceptor, bit, streams, sender, cancel, wpc, made, queueVars>>

(* The worker stopped without an answer. *)
Disconnected(c) ==
  /\ cpc[c] = "await" /\ chan[Req(c)] = <<>> /\ ~sender[Req(c)]
  /\ answer' = [answer EXCEPT ![c] = "error"] /\ Return(c)
  /\ UNCHANGED <<conns, acceptor, bit, streams, got, sender, cancel, wpc, made, queueVars>>

(* The peer has gone, or a write to it failed. *)
Abandon(c) ==
  /\ cpc[c] \in {"head", "await"}
  /\ Return(c)
  /\ UNCHANGED <<conns, acceptor, bit, streams, got, answer, sender, cancel, wpc, made, queueVars>>

(* CancelOnDrop; only a complete plain answer leaves the connection usable. *)
Cancels(r) == cancel' = [cancel EXCEPT ![r] = TRUE]

Cleanup(c) ==
  /\ cpc[c] = "gone"
  /\ Cancels(Req(c))
  /\ \/ /\ cpc' = [cpc EXCEPT ![c] = "none"]
        /\ conns' = conns - 1
     \/ /\ ~streams[c] /\ answer[c] \in {"done", "error"}
        /\ cpc' = [cpc EXCEPT ![c] = "read"]
        /\ UNCHANGED conns
  /\ streams' = [streams EXCEPT ![c] = FALSE] /\ answer' = [answer EXCEPT ![c] = "none"]
  /\ got' = [got EXCEPT ![c] = 0] /\ made' = [made EXCEPT ![Req(c)] = 0]
  /\ UNCHANGED <<acceptor, bit, chan, sender, wpc, queueVars>>

-----------------------------------------------------------------------------
(* worker and run_job *)
Receiving(r) == cpc[r[1]] \in {"head", "await"} /\ bit[r[1]] = r[2]

WorkerGoes(r, from, to) ==
  wpc[r] = from /\ wpc' = [wpc EXCEPT ![r] = to]

Pop ==
  /\ \/ \E i \in 1 .. Len(waiting) :
          Start(i) /\ WorkerGoes(waiting[i], "none", "check")
     \/ \E r \in assigned : StartAssigned(r) /\ WorkerGoes(r, "none", "check")
  /\ UNCHANGED <<connVars, chan, sender, cancel, made>>

(* A cancelled job is not started, but finished. *)
SkippedM == "drop"
Skipped == "finish"

Check(r) ==
  /\ WorkerGoes(r, "check", IF cancel[r] THEN Skipped ELSE "run")
  /\ UNCHANGED <<connVars, chan, sender, cancel, made, queueVars>>

(* The callback: a break once cancelled, else a text is sent. *)
Callback(r) ==
  /\ made[r] < MaxDeltas \/ cancel[r]
  /\ WorkerGoes(r, "run", IF cancel[r] THEN "end" ELSE "send")
  /\ UNCHANGED <<connVars, chan, sender, cancel, made, queueVars>>

SendDelta(r) ==
  /\ WorkerGoes(r, "send", IF Receiving(r) THEN "run" ELSE "end")
  /\ chan' = IF Receiving(r) THEN [chan EXCEPT ![r] = Append(@, "delta")] ELSE chan
  /\ made' = IF Receiving(r) THEN [made EXCEPT ![r] = @ + 1] ELSE made
  /\ UNCHANGED <<connVars, sender, cancel, queueVars>>

(* Generation ends by itself, with a result or an error. *)
SendEnd(r) ==
  /\ WorkerGoes(r, "run", "finish") \/ WorkerGoes(r, "end", "finish")
  /\ \E e \in {"done", "error"} :
       chan' = IF Receiving(r) THEN [chan EXCEPT ![r] = Append(@, e)] ELSE chan
  /\ UNCHANGED <<connVars, sender, cancel, made, queueVars>>

FinishJob(r) ==
  /\ WorkerGoes(r, "finish", "drop")
  /\ End(r)
  /\ UNCHANGED <<connVars, chan, sender, cancel, made>>

DropJob(r) ==
  /\ WorkerGoes(r, "drop", "none")
  /\ sender' = [sender EXCEPT ![r] = FALSE]
  /\ UNCHANGED <<connVars, chan, cancel, made, queueVars>>

(* A panic unwinds the worker: its job is dropped, its slot stays busy. *)
Panic(r) ==
  /\ MayPanic
  /\ WorkerGoes(r, "run", "dead")
  /\ sender' = [sender EXCEPT ![r] = FALSE]
  /\ UNCHANGED <<connVars, chan, cancel, made, queueVars>>

ConnStep(c) == WriteHead(c) \/ Receive(c) \/ Disconnected(c) \/ Cleanup(c)
WorkerStep(r) ==
  Check(r) \/ Callback(r) \/ SendDelta(r) \/ SendEnd(r) \/ FinishJob(r) \/ DropJob(r)

Next ==
  \/ TurnAway \/ Spawn
  \/ \E c \in Conn :
       \/ AcceptConn(c) \/ CloseConn(c) \/ Abandon(c) \/ ConnStep(c)
       \/ \E stream \in BOOLEAN : Submit(c, stream)
  \/ Pop
  \/ \E r \in Request : WorkerStep(r) \/ Panic(r)

(* Threads that are not waiting for a client run on; engines come to their *)
(* next callback or end.                                                   *)
Fairness ==
  /\ WF_vars(Pop)
  /\ \A c \in Conn : WF_vars(ConnStep(c))
  /\ \A r \in Request : WF_vars(WorkerStep(r))

Spec == Init /\ [][Next]_vars
FairSpec == Spec /\ Fairness

-----------------------------------------------------------------------------
(* The connection counter counts every live connection once, and never     *)
(* more than max_connections are served, however they end.                 *)
ConnectionsCounted ==
  /\ conns = Cardinality(Live) + (IF acceptor.conn = NoConn THEN 0 ELSE 1)
  /\ Cardinality(Live) <= MaxConns

(* A completed answer holds every delta of its own completion and nothing  *)
(* of an earlier request of the connection.                                *)
AnswerWhole ==
  \A c \in Conn :
    cpc[c] = "gone" /\ answer[c] = "done" => got[c] = made[Req(c)]

(* A slot is busy exactly while a worker holds a job: none is leaked,      *)
(* except by a panic, and none is used twice.                              *)
SlotsHeld ==
  /\ \A r \in Request : r \in active <=> wpc[r] \notin {"none", "drop"}
  /\ Cardinality(active) <= Workers

(* A connection gets the events of its own request, in order, and a slot   *)
(* is held by at most one job, until its worker has finished it.           *)
RequestsKeptApart == AnswerWhole /\ SlotsHeld

(* A request that waits is answered or given up, unless it still queues     *)
(* when panics have ended every worker.                                    *)
AllDead == Workers = Cardinality({r \in Request : wpc[r] = "dead"})
Answered ==
  \A c \in Conn :
    cpc[c] = "await" ~> cpc[c] # "await" \/ (AllDead /\ Waits(Req(c)))

(* What nobody waits for any more leaves the queue and its slot, while a   *)
(* worker is left.                                                         *)
AbandonedEnds ==
  \A r \in Request :
    ~Receiving(r) ~>
      Receiving(r) \/ (~Waits(r) /\ r \notin assigned \cup active) \/ AllDead
=============================================================================
