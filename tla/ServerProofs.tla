------------------------------ MODULE ServerProofs ------------------------------
(***************************************************************************)
(* The connection limit of Server, and its answers and slots, for any      *)
(* number of clients, of workers and of waiting requests, and any limit.   *)
(***************************************************************************)
EXTENDS Server, FiniteSetTheorems, TLAPS

Steps == {"none", "read", "head", "await", "gone"}

ConnTypes ==
  /\ cpc \in [Conn -> Steps]
  /\ conns \in Int
  /\ acceptor.conn \in Conn \cup {NoConn} /\ acceptor.prev \in Int

(* While a connection is being accepted it has been counted but does not   *)
(* live, and no more live than were counted before it: others only end.    *)
Accepting ==
  acceptor.conn # NoConn =>
    cpc[acceptor.conn] = "none" /\ Cardinality(Live) <= acceptor.prev

ConnInv == ConnTypes /\ ConnectionsCounted /\ Accepting

-----------------------------------------------------------------------------
(* The live connections can be counted. *)
LEMMA LiveFinite == IsFiniteSet(Live) /\ Cardinality(Live) \in Nat
<1>1. Live \subseteq Conn
  BY DEF Live
<1> QED
  BY <1>1, ServerAssumption, FS_Subset, FS_CardinalityType

(* A connection goes on, ends, or begins. *)
LEMMA GoesOn ==
  ASSUME ConnInv, NEW c \in Conn, NEW step \in Steps, step # "none", cpc[c] # "none",
         cpc' = [cpc EXCEPT ![c] = step], UNCHANGED <<conns, acceptor>>
  PROVE  ConnInv'
<1>1. Live' = Live
  BY DEF Live, ConnInv, ConnTypes
<1>2. ConnTypes'
  BY DEF ConnInv, ConnTypes
<1> QED
  BY <1>1, <1>2 DEF ConnInv, ConnTypes, ConnectionsCounted, Accepting

(* One connection less is live, and is counted no more. *)
LEMMA Ends ==
  ASSUME ConnInv, NEW c \in Conn, cpc[c] # "none",
         cpc' = [cpc EXCEPT ![c] = "none"], conns' = conns - 1, UNCHANGED acceptor
  PROVE  ConnInv'
<1>1. c \in Live /\ Live' = Live \ {c}
  BY DEF Live, ConnInv, ConnTypes
<1>2. Cardinality(Live') = Cardinality(Live) - 1 /\ Cardinality(Live) \in Nat
  BY <1>1, LiveFinite, FS_RemoveElement
<1>3. ConnTypes'
  BY DEF ConnInv, ConnTypes, Steps
<1>4. ConnectionsCounted'
  BY <1>2, ServerAssumption DEF ConnInv, ConnTypes, ConnectionsCounted
<1>5. Accepting'
  BY <1>2 DEF ConnInv, ConnTypes, Accepting
<1> QED
  BY <1>3, <1>4, <1>5 DEF ConnInv

(* The accepted connection begins to live, counted already. *)
LEMMA Begins ==
  ASSUME ConnInv, Spawn
  PROVE  ConnInv'
<1> DEFINE c == acceptor.conn
<1>1. /\ c \in Conn /\ cpc[c] = "none" /\ Cardinality(Live) <= acceptor.prev
      /\ acceptor.prev < MaxConns /\ MaxConns \in Nat /\ acceptor.prev \in Int
      /\ cpc' = [cpc EXCEPT ![c] = "read"] /\ conns' = conns
      /\ acceptor' = [conn |-> NoConn, prev |-> 0]
  BY ServerAssumption DEF Spawn, OverLimit, ConnInv, ConnTypes, Accepting
<1>2. c \notin Live /\ Live' = Live \cup {c}
  BY <1>1 DEF Live, ConnInv, ConnTypes
<1>3. Cardinality(Live') = Cardinality(Live) + 1 /\ Cardinality(Live) \in Nat
  BY <1>2, LiveFinite, FS_AddElement
<1>4. ConnTypes'
  BY <1>1 DEF ConnInv, ConnTypes, Steps
<1>5. conns = Cardinality(Live) + 1
  BY <1>1, ServerAssumption DEF ConnInv, ConnectionsCounted, Spawn
<1>6. acceptor'.conn = NoConn
  BY <1>1
<1>7. Cardinality(Live') <= MaxConns
  <2> HIDE DEF c
  <2> QED
    BY <1>1, <1>3
<1>8. ConnectionsCounted'
  BY <1>1, <1>3, <1>5, <1>6, <1>7 DEF ConnectionsCounted
<1>9. Accepting'
  BY <1>6 DEF Accepting
<1> QED
  BY <1>4, <1>8, <1>9 DEF ConnInv

(* The counter and the acceptor alone. *)
LEMMA Admits ==
  ASSUME ConnInv, TurnAway \/ \E c \in Conn : AcceptConn(c)
  PROVE  ConnInv'
<1>1. Live' = Live /\ cpc' = cpc
  BY DEF Live, TurnAway, AcceptConn
<1>2. Cardinality(Live) \in Nat
  BY LiveFinite
<1>3. CASE TurnAway
  BY <1>1, <1>2, <1>3 DEF TurnAway, Uncounted, ConnInv, ConnTypes, ConnectionsCounted, Accepting
<1>4. ASSUME NEW c \in Conn, AcceptConn(c) PROVE ConnInv'
  <2>1. /\ acceptor.conn = NoConn /\ cpc[c] = "none" /\ conns' = conns + 1
        /\ acceptor' = [conn |-> c, prev |-> conns] /\ c # NoConn
    BY <1>4, ServerAssumption DEF AcceptConn
  <2>2. conns = Cardinality(Live) /\ conns \in Int
    BY <1>2, <2>1 DEF ConnInv, ConnTypes, ConnectionsCounted
  <2>3. ConnTypes'
    BY <1>1, <2>1, <2>2 DEF ConnInv, ConnTypes
  <2>4. ConnectionsCounted' /\ Accepting'
    BY <1>1, <1>2, <2>1, <2>2 DEF ConnInv, ConnectionsCounted, Accepting
  <2> QED
    BY <2>3, <2>4 DEF ConnInv
<1> QED
  BY <1>3, <1>4

(* What does not touch connections. *)
LEMMA Elsewhere ==
  ASSUME ConnInv, UNCHANGED <<cpc, conns, acceptor>>
  PROVE  ConnInv'
BY DEF ConnInv, ConnTypes, ConnectionsCounted, Accepting, Live

-----------------------------------------------------------------------------
(* What a connection does but begin: it goes on or ends. *)
LEMMA ConnStepKeeps ==
  ASSUME ConnInv, NEW c \in Conn,
         ConnStep(c) \/ Abandon(c) \/ CloseConn(c) \/ \E stream \in BOOLEAN : Submit(c, stream)
  PROVE  ConnInv'
<1>1. CASE CloseConn(c)
  BY <1>1, Ends DEF CloseConn
<1>2. CASE WriteHead(c)
  BY <1>2, GoesOn DEF WriteHead, Steps
<1>3. CASE Receive(c)
  <2>1. cpc[c] = "await" /\ UNCHANGED <<conns, acceptor>>
        /\ (cpc' = cpc \/ cpc' = [cpc EXCEPT ![c] = "gone"])
    BY <1>3 DEF Receive, Return
  <2> QED
    BY <2>1, GoesOn, Elsewhere DEF Steps
<1>4. CASE Disconnected(c) \/ Abandon(c)
  <2>1. cpc[c] # "none" /\ UNCHANGED <<conns, acceptor>> /\ cpc' = [cpc EXCEPT ![c] = "gone"]
    BY <1>4 DEF Disconnected, Abandon, Return
  <2> QED
    BY <2>1, GoesOn DEF Steps
<1>5. CASE Cleanup(c)
  <2>1. cpc[c] = "gone" /\ UNCHANGED acceptor
    BY <1>5 DEF Cleanup
  <2>2. CASE cpc' = [cpc EXCEPT ![c] = "none"] /\ conns' = conns - 1
    BY <2>1, <2>2, Ends
  <2>3. CASE cpc' = [cpc EXCEPT ![c] = "read"] /\ UNCHANGED conns
    BY <2>1, <2>3, GoesOn DEF Steps
  <2> QED
    BY <1>5, <2>2, <2>3 DEF Cleanup
<1>6. ASSUME NEW stream \in BOOLEAN, Submit(c, stream) PROVE ConnInv'
  <2>1. cpc[c] = "read" /\ UNCHANGED <<conns, acceptor>>
        /\ cpc' = [cpc EXCEPT ![c] = IF stream THEN "head" ELSE "await"]
    BY <1>6 DEF Submit
  <2>2. (IF stream THEN "head" ELSE "await") \in Steps \ {"none"}
    BY DEF Steps
  <2> QED
    BY <2>1, <2>2, GoesOn
<1> QED
  BY <1>1, <1>2, <1>3, <1>4, <1>5, <1>6 DEF ConnStep

(* Workers touch no connection. *)
LEMMA WorkerKeeps ==
  ASSUME ConnInv, Pop \/ \E r \in Request : WorkerStep(r) \/ Panic(r)
  PROVE  ConnInv'
<1>1. UNCHANGED connVars
  BY DEF Pop, WorkerStep, Panic, Check, Callback, SendDelta, SendEnd, FinishJob, DropJob
<1> QED
  BY <1>1, Elsewhere DEF connVars

(* ConnInv is inductive. *)
LEMMA ConnInvariance == Spec => []ConnInv
<1>1. Init => ConnInv
  <2> SUFFICES ASSUME Init PROVE ConnInv
    OBVIOUS
  <2>1. Live = {} /\ Cardinality({}) = 0
    BY FS_EmptySet DEF Init, Live
  <2> QED
    BY <2>1, ServerAssumption DEF Init, ConnInv, ConnTypes, Steps, ConnectionsCounted, Accepting
<1>2. ConnInv /\ [Next]_vars => ConnInv'
  <2> SUFFICES ASSUME ConnInv, [Next]_vars PROVE ConnInv'
    OBVIOUS
  <2>1. CASE TurnAway \/ \E c \in Conn : AcceptConn(c)
    BY <2>1, Admits
  <2>2. CASE Spawn
    BY <2>2, Begins
  <2>3. ASSUME NEW c \in Conn,
               ConnStep(c) \/ Abandon(c) \/ CloseConn(c) \/ \E stream \in BOOLEAN : Submit(c, stream)
        PROVE  ConnInv'
    BY <2>3, ConnStepKeeps
  <2>4. CASE Pop \/ \E r \in Request : WorkerStep(r) \/ Panic(r)
    BY <2>4, WorkerKeeps
  <2>5. CASE UNCHANGED vars
    BY <2>5, Elsewhere DEF vars, connVars
  <2> QED
    BY <2>1, <2>2, <2>3, <2>4, <2>5 DEF Next
<1> QED
  BY <1>1, <1>2, PTL DEF Spec

(* However connections are accepted, turned away, fail to start, are kept, *)
(* abandoned or closed, the counter counts the live ones and the one being *)
(* accepted, and no more than max_connections live: counting before        *)
(* deciding neither leaks a count nor lets one too many in.                *)
THEOREM LimitKept == Spec => []ConnectionsCounted
<1>1. ConnInv => ConnectionsCounted
  BY DEF ConnInv
<1> QED
  BY ConnInvariance, <1>1, PTL

-----------------------------------------------------------------------------
(* Requests.                                                               *)

Event == {"delta", "done", "error"}
WorkerSteps == {"none", "check", "run", "send", "end", "finish", "drop", "dead"}

JobTypes ==
  /\ cpc \in [Conn -> Steps] /\ bit \in [Conn -> {0, 1}] /\ got \in [Conn -> Nat]
  /\ answer \in [Conn -> {"none", "done", "error"}]
  /\ chan \in [Request -> Seq(Event)] /\ wpc \in [Request -> WorkerSteps] /\ made \in [Request -> Nat]
  /\ waiting \in Seq(Request) /\ assigned \subseteq Request /\ active \subseteq Request

(* A request that has not been started has no worker and is queued once.   *)
Queued ==
  /\ \A i, j \in 1 .. Len(waiting) : waiting[i] = waiting[j] => i = j
  /\ \A i \in 1 .. Len(waiting) : waiting[i] \notin assigned /\ wpc[waiting[i]] = "none"
  /\ \A r \in assigned : wpc[r] = "none"

(* Slots reserved and slots held are within the workers.                   *)
Held ==
  /\ \A r \in Request : r \in active <=> wpc[r] \notin {"none", "drop"}
  /\ Cardinality(assigned) + Cardinality(active) <= Workers

(* While a connection waits, what it has got and what its channel holds is *)
(* what the worker has sent, and a result is the last of it.               *)
Ended(r) == \E k \in 1 .. Len(chan[r]) : chan[r][k] # "delta"
Over(r) == wpc[r] \in {"finish", "drop", "none"} /\ ~Waits(r) /\ r \notin assigned
Following(c) ==
  cpc[c] \in {"head", "await"} =>
    /\ answer[c] = "none"
    /\ ~Ended(Req(c)) => got[c] + Len(chan[Req(c)]) = made[Req(c)]
    /\ Ended(Req(c)) => got[c] + Len(chan[Req(c)]) = made[Req(c)] + 1 /\ Over(Req(c))
    /\ \A k \in 1 .. Len(chan[Req(c)]) : chan[Req(c)][k] # "delta" => k = Len(chan[Req(c)])
Told(c) == cpc[c] = "gone" /\ answer[c] = "done" => got[c] = made[Req(c)]

JobInv == JobTypes /\ Queued /\ Held /\ \A c \in Conn : Following(c) /\ Told(c)

-----------------------------------------------------------------------------
(* Sets of requests can be counted. *)
LEMMA RequestsFinite ==
  /\ IsFiniteSet(Request)
  /\ \A S \in SUBSET Request : IsFiniteSet(S) /\ Cardinality(S) \in Nat
<1>1. IsFiniteSet({0, 1})
  <2>1. IsFiniteSet({0}) /\ {0, 1} = {0} \cup {1}
    BY FS_Singleton
  <2> QED
    BY <2>1, FS_AddElement
<1>2. IsFiniteSet(Request)
  BY <1>1, ServerAssumption, FS_Product DEF Request
<1> QED
  BY <1>2, FS_Subset, FS_CardinalityType

(* A connection's request and nobody else's. *)
LEMMA OwnRequest ==
  ASSUME JobTypes
  PROVE  /\ \A c \in Conn : Req(c) \in Request /\ Req(c)[1] = c /\ Req(c)[2] = bit[c]
         /\ \A r \in Request : r[1] \in Conn /\ r[2] \in {0, 1} /\ r = <<r[1], r[2]>>
BY DEF JobTypes, Req, Request

(* What a connection knows when nothing of it changes. *)
LEMMA StillFollows ==
  ASSUME JobInv, NEW c \in Conn, UNCHANGED <<cpc[c], bit[c], got[c], answer[c]>>,
         chan'[<<c, bit[c]>>] = chan[<<c, bit[c]>>], made'[<<c, bit[c]>>] = made[<<c, bit[c]>>],
         NEW r, r = <<c, bit[c]>>, Over(r) => Over(r)'
  PROVE  (Following(c) /\ Told(c))'
<1>1. Following(c) /\ Told(c)
  BY DEF JobInv
<1>2. Req(c) = r /\ Req(c)' = r
  BY DEF Req
<1>3. Ended(r)' <=> Ended(r)
  BY DEF Ended
<1> QED
  BY <1>1, <1>2, <1>3 DEF Following, Told

(* Steps of one connection that leave the queue and the workers alone.     *)
LEMMA OneConnection ==
  ASSUME JobInv, NEW c \in Conn, JobTypes', UNCHANGED <<wpc, waiting, assigned, active>>,
         \A d \in Conn : d # c =>
           /\ cpc'[d] = cpc[d] /\ bit'[d] = bit[d] /\ got'[d] = got[d] /\ answer'[d] = answer[d]
           /\ chan'[<<d, bit[d]>>] = chan[<<d, bit[d]>>] /\ made'[<<d, bit[d]>>] = made[<<d, bit[d]>>],
         (Following(c) /\ Told(c))'
  PROVE  JobInv'
<1>1. Queued' /\ Held'
  BY DEF JobInv, Queued, Held
<1>2. ASSUME NEW d \in Conn, d # c PROVE (Following(d) /\ Told(d))'
  <2>1. PICK r : r = <<d, bit[d]>>
    OBVIOUS
  <2>2. Over(r) => Over(r)'
    BY DEF Over, Waits
  <2> QED
    BY <1>2, <2>1, <2>2, StillFollows
<1> QED
  BY <1>1, <1>2 DEF JobInv

-----------------------------------------------------------------------------
(* The connection's side.                                                  *)

(* Reading, writing the head, closing: no request is waited for, or the    *)
(* one that is waited for is still the same.                               *)
LEMMA ConnectionMoves ==
  ASSUME JobInv, NEW c \in Conn, NEW step \in {"none", "read", "head", "await"},
         cpc' = [cpc EXCEPT ![c] = step], UNCHANGED <<bit, got, chan, made, wpc, queueVars>>,
         answer' = answer \/ answer' = [answer EXCEPT ![c] = "none"],
         step \in {"head", "await"} => cpc[c] = "head" /\ answer' = answer
  PROVE  JobInv'
<1>1. JobTypes' /\ cpc'[c] = step /\ \A d \in Conn : d # c => cpc'[d] = cpc[d] /\ answer'[d] = answer[d]
  BY DEF JobInv, JobTypes, queueVars, Steps
<1>2. (Following(c) /\ Told(c))'
  <2>1. Following(c)
    BY DEF JobInv
  <2>2. (Ended(Req(c))' <=> Ended(Req(c))) /\ (Over(Req(c))' <=> Over(Req(c))) /\ Req(c)' = Req(c)
    BY DEF Ended, Over, Waits, Req, queueVars
  <2> QED
    BY <1>1, <2>1, <2>2 DEF Following, Told
<1> QED
  BY <1>1, <1>2, OneConnection DEF queueVars

(* The receiver is dropped: with a result of the request that has just     *)
(* been received, with an error, or without an answer.                     *)
LEMMA ConnectionReturns ==
  ASSUME JobInv, NEW c \in Conn, Return(c), UNCHANGED <<bit, got, made, wpc, queueVars>>,
         NEW a \in {"none", "done", "error"}, answer' = [answer EXCEPT ![c] = a],
         a = "done" => got[c] = made[Req(c)]
  PROVE  JobInv'
<1>1. PICK r \in Request : r = Req(c)
  BY OwnRequest DEF JobInv
<1>2. /\ cpc' = [cpc EXCEPT ![c] = "gone"] /\ chan' = [chan EXCEPT ![r] = <<>>] /\ bit' = bit
  BY <1>1 DEF Return
<1>3. JobTypes' /\ cpc'[c] = "gone" /\ answer'[c] = a
  BY <1>2 DEF JobInv, JobTypes, queueVars, Steps
<1>4. \A d \in Conn : d # c => cpc'[d] = cpc[d] /\ answer'[d] = answer[d]
                               /\ chan'[<<d, bit[d]>>] = chan[<<d, bit[d]>>]
  BY <1>1, <1>2 DEF Req, JobInv, JobTypes
<1>5. (Following(c) /\ Told(c))'
  <2>1. Req(c)' = Req(c)
    BY DEF Req
  <2> QED
    BY <1>3, <2>1 DEF Following, Told
<1> QED
  BY <1>3, <1>4, <1>5, OneConnection DEF queueVars

(* A delta is counted; a result is taken when all deltas have been, since  *)
(* it is the last event of the channel.                                    *)
LEMMA ReceiveKeeps == ASSUME JobInv, NEW c \in Conn, Receive(c) PROVE JobInv'
<1>p. PICK r \in Request : r = Req(c)
  BY OwnRequest DEF JobInv
<1> DEFINE q == chan[r]
<1>0. /\ cpc[c] = "await" /\ q \in Seq(Event) /\ q # <<>> /\ NextEvent(q) = q[1] /\ q[1] \in Event
      /\ Len(q) \in Nat /\ Len(q) > 0 /\ got[c] \in Nat /\ made[r] \in Nat
  BY <1>p DEF Receive, NextEvent, JobInv, JobTypes
<1>1. /\ answer[c] = "none"
      /\ ~Ended(r) => got[c] + Len(q) = made[r]
      /\ Ended(r) => got[c] + Len(q) = made[r] + 1 /\ Over(r)
      /\ \A k \in 1 .. Len(q) : q[k] # "delta" => k = Len(q)
  BY <1>0, <1>p DEF JobInv, Following
<1>2. CASE q[1] = "delta"
  <2>1. /\ got' = [got EXCEPT ![c] = got[c] + 1] /\ chan' = [chan EXCEPT ![r] = Tail(q)]
        /\ UNCHANGED <<cpc, answer, bit, made, wpc, queueVars>>
    BY <1>0, <1>2, <1>p DEF Receive
  <2>2. /\ Tail(q) \in Seq(Event) /\ Len(Tail(q)) = Len(q) - 1 /\ \A k \in 1 .. Len(q) - 1 : Tail(q)[k] = q[k + 1]
    BY <1>0
  <2>3. JobTypes' /\ got'[c] = got[c] + 1 /\ chan'[r] = Tail(q) /\ \A d \in Conn : d # c => got'[d] = got[d]
    BY <1>0, <2>1, <2>2 DEF JobInv, JobTypes, queueVars
  <2>4. \A d \in Conn : d # c => chan'[<<d, bit[d]>>] = chan[<<d, bit[d]>>]
    BY <1>p, <2>1 DEF Req, JobInv, JobTypes
  <2> DEFINE t == Tail(q)
  <2> HIDE DEF t, q
  <2>5. chan'[r] = t /\ chan[r] = q
    BY <2>3 DEF t, q
  <2>6. Len(t) = Len(q) - 1 /\ \A k \in 1 .. Len(t) : k + 1 \in 1 .. Len(q) /\ t[k] = q[k + 1]
    BY <1>0, <2>2 DEF t
  <2>7. \A k \in 1 .. Len(t) : t[k] # "delta" => k = Len(t)
    BY <1>0, <1>1, <2>6
  <2>8. Ended(r)' <=> Ended(r)
    <3>1. ASSUME NEW k \in 1 .. Len(t), t[k] # "delta" PROVE \E m \in 1 .. Len(q) : q[m] # "delta"
      BY <2>6, <3>1
    <3>2. ASSUME NEW k \in 1 .. Len(q), q[k] # "delta" PROVE \E m \in 1 .. Len(t) : t[m] # "delta"
      <4>1. k # 1 /\ k - 1 \in 1 .. Len(t)
        BY <1>0, <1>2, <2>6, <3>2
      <4>2. t[k - 1] = q[k]
        BY <2>6, <4>1
      <4> QED
        BY <3>2, <4>1, <4>2
    <3> QED
      BY <2>5, <3>1, <3>2 DEF Ended
  <2>9. (Following(c) /\ Told(c))'
    <3>1. (Over(r)' <=> Over(r)) /\ Req(c)' = r /\ cpc'[c] = "await"
      BY <1>0, <1>p, <2>1 DEF Over, Waits, Req, queueVars
    <3>2. /\ answer'[c] = "none"
          /\ ~Ended(r)' => got'[c] + Len(t) = made'[r]
          /\ Ended(r)' => got'[c] + Len(t) = made'[r] + 1
      <4>1. answer' = answer /\ made' = made /\ got'[c] = got[c] + 1
        BY <2>1, <2>3
      <4>2. Len(t) = Len(q) - 1 /\ Len(q) \in Nat /\ got[c] \in Nat /\ made[r] \in Nat
        BY <1>0, <2>6
      <4>3. CASE Ended(r)
        <5>1. got[c] + Len(q) = made[r] + 1
          BY <1>1, <4>3
        <5>2. got'[c] + Len(t) = made'[r] + 1
          BY <4>1, <4>2, <5>1
        <5> QED
          BY <1>1, <2>8, <4>1, <4>3, <5>2
      <4>4. CASE ~Ended(r)
        <5>1. got[c] + Len(q) = made[r]
          BY <1>1, <4>4
        <5>2. got'[c] + Len(t) = made'[r]
          BY <4>1, <4>2, <5>1
        <5> QED
          BY <1>1, <2>8, <4>1, <4>4, <5>2
      <4> QED
        BY <4>3, <4>4
    <3> QED
      BY <1>1, <2>5, <2>7, <2>8, <3>1, <3>2 DEF Following, Told
  <2> QED
    BY <2>1, <2>3, <2>4, <2>9, OneConnection DEF queueVars
<1>3. CASE q[1] # "delta"
  <2>1. q[1] \in {"done", "error"} /\ answer' = [answer EXCEPT ![c] = q[1]] /\ Return(c)
        /\ UNCHANGED <<bit, got, made, wpc, queueVars>>
    BY <1>0, <1>3, <1>p DEF Receive, Event
  <2>2. Ended(r) /\ Len(q) = 1
    <3>1. 1 \in 1 .. Len(q)
      BY <1>0
    <3> QED
      BY <1>1, <1>3, <3>1 DEF Ended
  <2>3. got[c] = made[r]
    BY <1>0, <1>1, <2>2
  <2> QED
    BY <1>p, <2>1, <2>3, ConnectionReturns
<1> QED
  BY <1>2, <1>3

(* The guard cancels and the connection is closed or kept. *)
LEMMA CleanupKeeps == ASSUME JobInv, NEW c \in Conn, Cleanup(c) PROVE JobInv'
<1>p. PICK r \in Request : r = Req(c)
  BY OwnRequest DEF JobInv
<1>1. /\ cpc' = [cpc EXCEPT ![c] = "none"] \/ cpc' = [cpc EXCEPT ![c] = "read"]
      /\ answer' = [answer EXCEPT ![c] = "none"] /\ got' = [got EXCEPT ![c] = 0]
      /\ made' = [made EXCEPT ![r] = 0] /\ UNCHANGED <<bit, chan, wpc, queueVars>>
  BY <1>p DEF Cleanup
<1>2. JobTypes' /\ cpc'[c] \in {"none", "read"}
  <2>1. 0 \in Nat
    OBVIOUS
  <2> QED
    BY <1>1, <2>1 DEF JobInv, JobTypes, queueVars, Steps
<1>3. \A d \in Conn : d # c =>
        /\ cpc'[d] = cpc[d] /\ got'[d] = got[d] /\ answer'[d] = answer[d]
        /\ made'[<<d, bit[d]>>] = made[<<d, bit[d]>>]
  BY <1>1, <1>p DEF Req, JobInv, JobTypes
<1>4. (Following(c) /\ Told(c))'
  BY <1>2 DEF Following, Told
<1> QED
  BY <1>1, <1>2, <1>3, <1>4, OneConnection DEF queueVars

(* A new request takes the name its connection does not use, which no      *)
(* worker and no queue knows any more.                                     *)
LEMMA SubmitKeeps == ASSUME JobInv, NEW c \in Conn, NEW stream \in BOOLEAN, Submit(c, stream) PROVE JobInv'
<1>p. PICK r \in Request : r = <<c, 1 - bit[c]>>
  <2>1. bit[c] \in {0, 1}
    BY DEF JobInv, JobTypes
  <2>2. 1 - bit[c] \in {0, 1}
    BY <2>1
  <2> QED
    BY <2>2 DEF Request
<1>n. r = <<c, r[2]>> /\ r[2] \in {0, 1} /\ r[2] # bit[c]
  <2>1. r[2] = 1 - bit[c] /\ bit[c] \in {0, 1}
    BY <1>p DEF JobInv, JobTypes
  <2> QED
    BY <1>p, <2>1
<1>0. /\ cpc[c] = "read" /\ wpc[r] = "none" /\ ~Waits(r) /\ r \notin assigned
      /\ Accept(r) \/ Assign(r)
      /\ cpc' = [cpc EXCEPT ![c] = IF stream THEN "head" ELSE "await"] /\ bit' = [bit EXCEPT ![c] = r[2]]
      /\ got' = [got EXCEPT ![c] = 0] /\ answer' = [answer EXCEPT ![c] = "none"]
      /\ chan' = [chan EXCEPT ![r] = <<>>] /\ made' = [made EXCEPT ![r] = 0] /\ wpc' = wpc
  BY <1>p DEF Submit
<1>1. /\ waiting \in Seq(Request) /\ Len(waiting) \in Nat /\ assigned \subseteq Request /\ active \subseteq Request
      /\ \A i \in 1 .. Len(waiting) : waiting[i] # r
  <2>1. \A i \in 1 .. Len(waiting) : waiting[i] # r
    BY <1>0 DEF Waits
  <2>2. waiting \in Seq(Request) /\ assigned \subseteq Request /\ active \subseteq Request
    BY DEF JobInv, JobTypes
  <2> QED
    BY <2>1, <2>2
<1>2. active' = active /\ r \notin active
  BY <1>0 DEF Accept, Assign
<1>3. /\ waiting' \in Seq(Request) /\ assigned' \subseteq Request
      /\ \A q \in Request : q # r => ((Waits(q)' <=> Waits(q)) /\ (q \in assigned' <=> q \in assigned))
      /\ Queued' /\ Held'
  <2>1. CASE Accept(r)
    <3>1. waiting' = Append(waiting, r) /\ assigned' = assigned
      BY <2>1 DEF Accept
    <3>2. /\ waiting' \in Seq(Request) /\ Len(waiting') = Len(waiting) + 1 /\ waiting'[Len(waiting) + 1] = r
          /\ \A i \in 1 .. Len(waiting) : waiting'[i] = waiting[i]
      BY <1>1, <3>1
    <3>3. \A i \in 1 .. Len(waiting') : i \in 1 .. Len(waiting) \/ i = Len(waiting) + 1
      BY <1>1, <3>2
    <3>4. \A q : q # r => (Waits(q)' <=> Waits(q))
      <4>1. ASSUME NEW q, q # r, NEW i \in 1 .. Len(waiting'), waiting'[i] = q PROVE Waits(q)
        BY <3>2, <3>3, <4>1 DEF Waits
      <4>2. ASSUME NEW q, NEW i \in 1 .. Len(waiting), waiting[i] = q PROVE Waits(q)'
        <5>1. i \in 1 .. Len(waiting')
          BY <1>1, <3>2
        <5> QED
          BY <3>2, <4>2, <5>1 DEF Waits
      <4> QED
        BY <4>1, <4>2 DEF Waits
    <3>5. \A i, j \in 1 .. Len(waiting') : waiting'[i] = waiting'[j] => i = j
      BY <1>1, <3>2, <3>3 DEF JobInv, Queued
    <3>6. Queued'
      BY <1>0, <3>1, <3>2, <3>3, <3>5 DEF JobInv, Queued
    <3>7. Held'
      BY <1>0, <1>2, <3>1 DEF JobInv, Held
    <3> QED
      BY <1>1, <3>1, <3>2, <3>4, <3>6, <3>7
  <2>2. CASE Assign(r)
    <3>1. waiting' = waiting /\ assigned' = assigned \cup {r} /\ Cardinality(assigned) + Cardinality(active) < Workers
      BY <2>2 DEF Assign, FreeWorker
    <3>2. Cardinality(assigned') = Cardinality(assigned) + 1 /\ Cardinality(assigned) \in Nat /\ Cardinality(active) \in Nat
      BY <1>0, <1>1, <3>1, RequestsFinite, FS_AddElement
    <3>3. Queued'
      BY <1>0, <1>1, <3>1 DEF JobInv, Queued
    <3>4. Cardinality(assigned') + Cardinality(active') <= Workers
      BY <1>2, <3>1, <3>2, ServerAssumption
    <3>5. Held'
      BY <1>0, <1>2, <3>4 DEF JobInv, Held
    <3> QED
      BY <1>1, <3>1, <3>3, <3>5 DEF Waits
  <2> QED
    BY <1>0, <2>1, <2>2
<1>4. JobTypes'
  <2>1. (IF stream THEN "head" ELSE "await") \in Steps /\ <<>> \in Seq(Event)
    BY DEF Steps
  <2> QED
    BY <1>0, <1>2, <1>3, <1>n, <2>1 DEF JobInv, JobTypes
<1>5. ASSUME NEW d \in Conn, d # c PROVE (Following(d) /\ Told(d))'
  <2>1. PICK q \in Request : q = <<d, bit[d]>> /\ q # r
    <3>1. bit[d] \in {0, 1}
      BY DEF JobInv, JobTypes
    <3>2. <<d, bit[d]>> # r
      BY <1>5, <1>n
    <3>3. <<d, bit[d]>> \in Request
      BY <3>1 DEF Request
    <3> QED
      BY <3>2, <3>3
  <2>2. UNCHANGED <<cpc[d], bit[d], got[d], answer[d]>> /\ chan'[q] = chan[q] /\ made'[q] = made[q]
    BY <1>0, <1>n, <1>5, <2>1 DEF JobInv, JobTypes
  <2>3. Over(q) => Over(q)'
    BY <1>0, <1>3, <2>1 DEF Over
  <2> QED
    BY <2>1, <2>2, <2>3, StillFollows
<1>6. (Following(c) /\ Told(c))'
  <2>1. /\ Req(c)' = r /\ chan'[r] = <<>> /\ got'[c] = 0 /\ made'[r] = 0 /\ answer'[c] = "none"
        /\ cpc'[c] \in {"head", "await"}
    BY <1>0, <1>n DEF JobInv, JobTypes, Req
  <2>2. Len(chan'[r]) = 0
    BY <2>1
  <2>3. ~Ended(r)'
    BY <2>2 DEF Ended
  <2> QED
    BY <2>1, <2>2, <2>3 DEF Following, Told
<1> QED
  BY <1>3, <1>4, <1>5, <1>6 DEF JobInv

(* One connection at a time. *)
LEMMA ConnectionKeeps ==
  ASSUME JobInv, ConnTypes,
         TurnAway \/ Spawn \/ \E c \in Conn : AcceptConn(c) \/ CloseConn(c) \/ Abandon(c) \/ ConnStep(c)
                                                \/ \E stream \in BOOLEAN : Submit(c, stream)
  PROVE  JobInv'
<1>1. CASE TurnAway \/ \E c \in Conn : AcceptConn(c)
  <2>1. UNCHANGED <<cpc, bit, got, answer, jobVars, queueVars>>
    BY <1>1 DEF TurnAway, AcceptConn
  <2>2. JobTypes' /\ Queued' /\ Held'
    BY <2>1 DEF JobInv, JobTypes, Queued, Held, jobVars, queueVars
  <2>3. ASSUME NEW c \in Conn PROVE (Following(c) /\ Told(c))'
    BY <2>1 DEF JobInv, Following, Told, Ended, Over, Waits, Req, jobVars, queueVars
  <2> QED
    BY <2>2, <2>3 DEF JobInv
<1>2. CASE Spawn
  <2>1. PICK c \in Conn : c = acceptor.conn
    BY <1>2 DEF Spawn, ConnTypes
  <2>2. /\ cpc' = [cpc EXCEPT ![c] = "read"] /\ answer' = [answer EXCEPT ![c] = "none"]
        /\ UNCHANGED <<bit, got, chan, made, wpc, queueVars>>
    BY <1>2, <2>1 DEF Spawn, jobVars
  <2>3. "read" \in {"none", "read", "head", "await"} /\ "read" \notin {"head", "await"}
    OBVIOUS
  <2> QED
    BY <2>2, <2>3, ConnectionMoves
<1>3. ASSUME NEW c \in Conn, CloseConn(c) \/ WriteHead(c) PROVE JobInv'
  <2>1. UNCHANGED <<answer, bit, got, chan, made, wpc, queueVars>>
    BY <1>3 DEF CloseConn, WriteHead, jobVars
  <2>2. CASE CloseConn(c)
    <3>1. cpc' = [cpc EXCEPT ![c] = "none"] /\ "none" \in {"none", "read", "head", "await"}
      BY <2>2 DEF CloseConn
    <3> QED
      BY <2>1, <3>1, ConnectionMoves
  <2>3. CASE WriteHead(c)
    <3>1. /\ cpc' = [cpc EXCEPT ![c] = "await"] /\ "await" \in {"none", "read", "head", "await"}
          /\ cpc[c] = "head"
      BY <2>3 DEF WriteHead
    <3> QED
      BY <2>1, <3>1, ConnectionMoves
  <2> QED
    BY <1>3, <2>2, <2>3
<1>4. ASSUME NEW c \in Conn, Abandon(c) PROVE JobInv'
  <2>1. answer[c] = "none" /\ answer' = [answer EXCEPT ![c] = "none"]
    BY <1>4 DEF Abandon, JobInv, JobTypes, Following
  <2> QED
    BY <1>4, <2>1, ConnectionReturns DEF Abandon
<1>5. ASSUME NEW c \in Conn, Disconnected(c) PROVE JobInv'
  BY <1>5, ConnectionReturns DEF Disconnected
<1> QED
  BY <1>1, <1>2, <1>3, <1>4, <1>5, ReceiveKeeps, CleanupKeeps, SubmitKeeps DEF ConnStep

-----------------------------------------------------------------------------
(* The workers' side.                                                      *)

(* A worker that has taken its job goes on: nothing is queued or started.  *)
LEMMA WorkerMoves ==
  ASSUME JobInv, NEW r \in Request, NEW from \in WorkerSteps, NEW to \in WorkerSteps,
         WorkerGoes(r, from, to), from # "none", UNCHANGED <<connVars, waiting, assigned>>,
         active' \subseteq active, \A q \in Request : q \in active' <=> wpc'[q] \notin {"none", "drop"},
         chan' \in [Request -> Seq(Event)], made' \in [Request -> Nat],
         \A q \in Request : q # r => chan'[q] = chan[q] /\ made'[q] = made[q],
         Receiving(r) =>
           /\ ~Ended(r) =>
                \/ ~Ended(r)' /\ Len(chan'[r]) + made[r] = Len(chan[r]) + made'[r]
                \/ Ended(r)' /\ Len(chan'[r]) = Len(chan[r]) + 1 /\ made'[r] = made[r] /\ to = "finish"
           /\ Ended(r) => chan'[r] = chan[r] /\ made'[r] = made[r] /\ (Over(r) => to \in {"finish", "drop", "none"})
           /\ \A k \in 1 .. Len(chan'[r]) : chan'[r][k] # "delta" => k = Len(chan'[r]),
         ~Receiving(r) => made'[r] = made[r]
  PROVE  JobInv'
<1>0. /\ wpc[r] = from /\ wpc' = [wpc EXCEPT ![r] = to] /\ wpc \in [Request -> WorkerSteps]
      /\ waiting' = waiting /\ assigned' = assigned /\ waiting \in Seq(Request)
      /\ assigned \subseteq Request /\ active \subseteq Request
  BY DEF WorkerGoes, JobInv, JobTypes
<1>1. ~Waits(r) /\ r \notin assigned
  BY <1>0 DEF JobInv, Queued, Waits
<1>2. JobTypes'
  BY <1>0 DEF JobInv, JobTypes, connVars
<1>3. Queued'
  <2>1. \A i \in 1 .. Len(waiting) : waiting[i] \in Request /\ waiting[i] # r
    BY <1>0, <1>1 DEF Waits
  <2> QED
    BY <1>0, <1>1, <2>1 DEF JobInv, Queued
<1>4. Held'
  <2>1. Cardinality(active') <= Cardinality(active) /\ Cardinality(active') \in Nat
        /\ Cardinality(active) \in Nat /\ Cardinality(assigned) \in Nat
    BY <1>0, RequestsFinite, FS_Subset
  <2> QED
    BY <1>0, <2>1, ServerAssumption DEF JobInv, Held
<1>5. ASSUME NEW c \in Conn PROVE (Following(c) /\ Told(c))'
  <2>1. PICK q \in Request : q = <<c, bit[c]>> /\ q = Req(c)
    BY OwnRequest DEF JobInv, Req
  <2>2. UNCHANGED <<cpc[c], bit[c], got[c], answer[c]>>
    BY DEF connVars
  <2>3. CASE q # r
    <3>1. Over(q) => Over(q)'
      BY <1>0, <2>3 DEF Over, Waits
    <3> QED
      BY <2>1, <2>2, <2>3, <3>1, StillFollows
  <2>4. CASE q = r
    <3>1. Req(c)' = r /\ (Receiving(r) <=> cpc[c] \in {"head", "await"})
      BY <2>1, <2>2, <2>4 DEF Req, Receiving
    <3>2. Following(c) /\ Told(c)
      BY DEF JobInv
    <3>3. CASE ~Receiving(r)
      BY <2>1, <2>2, <2>4, <3>1, <3>2, <3>3 DEF Following, Told
    <3>4. CASE Receiving(r)
      <4>1. /\ answer[c] = "none"
            /\ ~Ended(r) => got[c] + Len(chan[r]) = made[r]
            /\ Ended(r) => got[c] + Len(chan[r]) = made[r] + 1 /\ Over(r)
        BY <2>1, <2>4, <3>1, <3>2, <3>4 DEF Following
      <4>2. got[c] \in Nat /\ made[r] \in Nat /\ made'[r] \in Nat /\ Len(chan[r]) \in Nat /\ Len(chan'[r]) \in Nat
        BY DEF JobInv, JobTypes
      <4>3. to \in {"finish", "drop", "none"} => Over(r)'
        BY <1>0, <1>1 DEF Over, Waits
      <4>4. /\ ~Ended(r)' => got[c] + Len(chan'[r]) = made'[r]
            /\ Ended(r)' => got[c] + Len(chan'[r]) = made'[r] + 1 /\ Over(r)'
        <5>1. CASE Ended(r)
          <6>1. Ended(r)'
            BY <3>4, <5>1 DEF Ended
          <6> QED
            BY <3>4, <4>1, <4>3, <5>1, <6>1
        <5>2. CASE ~Ended(r) /\ ~Ended(r)'
          <6>1. Len(chan'[r]) + made[r] = Len(chan[r]) + made'[r] /\ got[c] + Len(chan[r]) = made[r]
            BY <3>4, <4>1, <5>2
          <6>2. got[c] + Len(chan'[r]) = made'[r]
            <7>1. PICK g \in Nat, m \in Nat, n \in Nat, k \in Nat, l \in Nat :
                    g = got[c] /\ m = made[r] /\ n = made'[r] /\ k = Len(chan[r]) /\ l = Len(chan'[r])
              BY <4>2
            <7>2. l + m = k + n /\ g + k = m
              BY <6>1, <7>1
            <7>3. g + l = n
              BY <7>2
            <7> QED
              BY <7>1, <7>3
          <6> QED
            BY <5>2, <6>2
        <5>3. CASE ~Ended(r) /\ Ended(r)'
          <6>1. /\ Len(chan'[r]) = Len(chan[r]) + 1 /\ made'[r] = made[r] /\ to = "finish"
                /\ got[c] + Len(chan[r]) = made[r]
            BY <3>4, <4>1, <5>3
          <6>2. got[c] + Len(chan'[r]) = made'[r] + 1
            BY <4>2, <6>1
          <6> QED
            BY <4>3, <5>3, <6>1, <6>2
        <5> QED
          BY <5>1, <5>2, <5>3
      <4> QED
        BY <2>2, <3>1, <3>4, <4>1, <4>4 DEF Following, Told
    <3> QED
      BY <3>3, <3>4
  <2> QED
    BY <2>3, <2>4
<1> QED
  BY <1>2, <1>3, <1>4, <1>5 DEF JobInv

(* Checking, calling back, sending, ending, finishing: a delta is sent and *)
(* counted, or a result is sent by a worker that has sent none.            *)
LEMMA WorkerStepKeeps == ASSUME JobInv, NEW r \in Request, WorkerStep(r) \/ Panic(r) PROVE JobInv'
<1>0. /\ chan \in [Request -> Seq(Event)] /\ made \in [Request -> Nat] /\ wpc \in [Request -> WorkerSteps]
      /\ active \subseteq Request /\ \A q \in Request : q \in active <=> wpc[q] \notin {"none", "drop"}
      /\ chan[r] \in Seq(Event) /\ made[r] \in Nat
  BY DEF JobInv, JobTypes, Held
<1>1. Receiving(r) =>
        /\ Ended(r) => Over(r)
        /\ \A k \in 1 .. Len(chan[r]) : chan[r][k] # "delta" => k = Len(chan[r])
  <2>1. r[1] \in Conn /\ (Receiving(r) => Req(r[1]) = r /\ cpc[r[1]] \in {"head", "await"})
    BY OwnRequest DEF JobInv, Receiving, Req
  <2> QED
    BY <2>1 DEF JobInv, Following
<1>2. \A k \in 1 .. Len(chan[r]) : chan'[r] = chan[r] => (Ended(r)' <=> Ended(r))
  BY DEF Ended
<1>3. ASSUME NEW from \in WorkerSteps, NEW to \in WorkerSteps, WorkerGoes(r, from, to), from # "none",
             UNCHANGED <<connVars, chan, made, waiting, assigned>>,
             active' = IF to = "drop" THEN active \ {r} ELSE active,
             to \in {"drop", "none"} <=> from = "drop" \/ to = "drop",
             from \in {"finish", "drop"} => to \in {"finish", "drop", "none"}
      PROVE  JobInv'
  <2>1. wpc[r] = from /\ wpc' = [wpc EXCEPT ![r] = to]
    BY <1>3 DEF WorkerGoes
  <2>2. \A q \in Request : q \in active' <=> wpc'[q] \notin {"none", "drop"}
    BY <1>0, <1>3, <2>1
  <2>3. active' \subseteq active
    BY <1>3
  <2>4. Receiving(r) =>
          /\ ~Ended(r) => ~Ended(r)' /\ Len(chan'[r]) + made[r] = Len(chan[r]) + made'[r]
          /\ Ended(r) => chan'[r] = chan[r] /\ made'[r] = made[r] /\ (Over(r) => to \in {"finish", "drop", "none"})
          /\ \A k \in 1 .. Len(chan'[r]) : chan'[r][k] # "delta" => k = Len(chan'[r])
    <3>1. chan' = chan /\ made' = made
      BY <1>3
    <3>2. Ended(r)' <=> Ended(r)
      BY <3>1 DEF Ended
    <3>3. Over(r) => to \in {"finish", "drop", "none"}
      BY <1>3, <2>1 DEF Over
    <3> QED
      BY <1>1, <3>1, <3>2, <3>3
  <2> QED
    BY <1>0, <1>3, <2>2, <2>3, <2>4, WorkerMoves
<1>4. CASE Check(r) \/ Callback(r) \/ Panic(r)
  <2>1. PICK from \in {"check", "run"}, to \in {"finish", "run", "end", "send", "dead"} : WorkerGoes(r, from, to)
    BY <1>4 DEF Check, Skipped, Callback, Panic
  <2>2. from \in WorkerSteps /\ to \in WorkerSteps
    BY DEF WorkerSteps
  <2>3. UNCHANGED <<connVars, chan, made, waiting, assigned, active>>
    BY <1>4 DEF Check, Callback, Panic, queueVars
  <2> QED
    BY <1>3, <2>1, <2>2, <2>3
<1>5. CASE FinishJob(r)
  <2>1. /\ "finish" \in WorkerSteps /\ "drop" \in WorkerSteps /\ WorkerGoes(r, "finish", "drop")
        /\ UNCHANGED <<connVars, chan, made, waiting, assigned>> /\ active' = active \ {r}
    BY <1>5 DEF FinishJob, End, WorkerSteps
  <2> QED
    BY <1>3, <2>1
<1>6. CASE DropJob(r)
  <2>1. /\ "drop" \in WorkerSteps /\ "none" \in WorkerSteps /\ WorkerGoes(r, "drop", "none")
        /\ UNCHANGED <<connVars, chan, made, waiting, assigned, active>>
    BY <1>6 DEF DropJob, WorkerSteps, queueVars
  <2> QED
    BY <1>3, <2>1
<1>7. ASSUME NEW from \in {"run", "send", "end"}, NEW to \in {"run", "end", "finish"}, WorkerGoes(r, from, to),
             UNCHANGED <<connVars, waiting, assigned, active>>, NEW e \in Event,
             chan' = IF Receiving(r) THEN [chan EXCEPT ![r] = Append(chan[r], e)] ELSE chan,
             made' = IF Receiving(r) /\ e = "delta" THEN [made EXCEPT ![r] = made[r] + 1] ELSE made,
             e # "delta" => to = "finish"
      PROVE  JobInv'
  <2>1. from \in WorkerSteps /\ to \in WorkerSteps
    BY DEF WorkerSteps
  <2>2. wpc[r] = from /\ wpc' = [wpc EXCEPT ![r] = to]
    BY <1>7 DEF WorkerGoes
  <2>3. \A q \in Request : q \in active' <=> wpc'[q] \notin {"none", "drop"}
    BY <1>0, <1>7, <2>2
  <2> DEFINE s == Append(chan[r], e)
  <2>4. /\ s \in Seq(Event) /\ Len(s) = Len(chan[r]) + 1 /\ Len(chan[r]) \in Nat /\ s[Len(chan[r]) + 1] = e
        /\ \A k \in 1 .. Len(chan[r]) : s[k] = chan[r][k]
    BY <1>0
  <2> HIDE DEF s
  <2>5. /\ chan' \in [Request -> Seq(Event)] /\ made' \in [Request -> Nat]
        /\ \A q \in Request : q # r => chan'[q] = chan[q] /\ made'[q] = made[q]
        /\ Receiving(r) => chan'[r] = s /\ made'[r] = IF e = "delta" THEN made[r] + 1 ELSE made[r]
        /\ ~Receiving(r) => made'[r] = made[r]
    BY <1>0, <1>7, <2>4 DEF s
  <2>6. ASSUME Receiving(r)
        PROVE  /\ ~Ended(r)
               /\ \/ ~Ended(r)' /\ Len(chan'[r]) + made[r] = Len(chan[r]) + made'[r]
                  \/ Ended(r)' /\ Len(chan'[r]) = Len(chan[r]) + 1 /\ made'[r] = made[r] /\ to = "finish"
               /\ \A k \in 1 .. Len(chan'[r]) : chan'[r][k] # "delta" => k = Len(chan'[r])
    <3>1. ~Ended(r)
      BY <1>1, <2>2, <2>6 DEF Over
    <3>2. \A k \in 1 .. Len(chan[r]) : s[k] = "delta"
      BY <2>4, <3>1 DEF Ended
    <3>3. \A k \in 1 .. Len(s) : k \in 1 .. Len(chan[r]) \/ k = Len(s)
      BY <2>4
    <3>4. chan'[r] = s
      BY <2>5, <2>6
    <3>5. Ended(r)' <=> e # "delta"
      <4>1. ASSUME e # "delta" PROVE \E k \in 1 .. Len(s) : s[k] # "delta"
        <5>1. Len(s) \in 1 .. Len(s) /\ s[Len(s)] = e
          BY <2>4
        <5> QED
          BY <4>1, <5>1
      <4>2. ASSUME e = "delta" PROVE \A k \in 1 .. Len(s) : s[k] = "delta"
        BY <2>4, <3>2, <3>3, <4>2
      <4> QED
        BY <3>4, <4>1, <4>2 DEF Ended
    <3>6. \A k \in 1 .. Len(s) : s[k] # "delta" => k = Len(s)
      BY <3>2, <3>3
    <3>7. CASE e = "delta"
      <4>1. made'[r] = made[r] + 1
        BY <2>5, <2>6, <3>7
      <4>2. Len(s) + made[r] = Len(chan[r]) + made'[r]
        BY <1>0, <2>4, <4>1
      <4> QED
        BY <3>1, <3>4, <3>5, <3>6, <3>7, <4>2
    <3>8. CASE e # "delta"
      <4>1. made'[r] = made[r] /\ to = "finish"
        BY <1>7, <2>5, <2>6, <3>8
      <4> QED
        BY <2>4, <3>1, <3>4, <3>5, <3>6, <3>8, <4>1
    <3> QED
      BY <3>7, <3>8
  <2>7. active' \subseteq active
    BY <1>7
  <2> QED
    BY <1>7, <2>1, <2>3, <2>5, <2>6, <2>7, WorkerMoves
<1>8. CASE SendDelta(r)
  <2>1. /\ WorkerGoes(r, "send", IF Receiving(r) THEN "run" ELSE "end")
        /\ UNCHANGED <<connVars, waiting, assigned, active>> /\ "delta" \in Event
        /\ chan' = IF Receiving(r) THEN [chan EXCEPT ![r] = Append(chan[r], "delta")] ELSE chan
        /\ made' = IF Receiving(r) THEN [made EXCEPT ![r] = made[r] + 1] ELSE made
    BY <1>8 DEF SendDelta, queueVars, Event
  <2> QED
    BY <1>7, <2>1
<1>9. CASE SendEnd(r)
  <2>1. PICK e \in {"done", "error"} :
          chan' = IF Receiving(r) THEN [chan EXCEPT ![r] = Append(chan[r], e)] ELSE chan
    BY <1>9 DEF SendEnd
  <2>2. /\ WorkerGoes(r, "run", "finish") \/ WorkerGoes(r, "end", "finish")
        /\ UNCHANGED <<connVars, made, waiting, assigned, active>> /\ e \in Event
    BY <1>9 DEF SendEnd, queueVars, Event
  <2> QED
    BY <1>7, <2>1, <2>2
<1> QED
  BY <1>4, <1>5, <1>6, <1>8, <1>9 DEF WorkerStep

(* A worker takes a job: it leaves the queue or its reservation, and a     *)
(* slot is used.                                                           *)
LEMMA TakenKeeps ==
  ASSUME JobInv, NEW r \in Request, WorkerGoes(r, "none", "check"), UNCHANGED <<connVars, chan, made>>,
         waiting' \in Seq(Request), assigned' \subseteq assigned, active' = active \cup {r},
         \A i, j \in 1 .. Len(waiting') : waiting'[i] = waiting'[j] => i = j,
         \A i \in 1 .. Len(waiting') : waiting'[i] # r /\ \E j \in 1 .. Len(waiting) : waiting'[i] = waiting[j],
         r \notin assigned', Waits(r) \/ r \in assigned,
         Cardinality(assigned') + Cardinality(active) < Workers
  PROVE  JobInv'
<1>0. /\ wpc[r] = "none" /\ wpc' = [wpc EXCEPT ![r] = "check"] /\ wpc \in [Request -> WorkerSteps]
      /\ assigned \subseteq Request /\ active \subseteq Request
  BY DEF WorkerGoes, JobInv, JobTypes
<1>1. JobTypes'
  <2>1. "check" \in WorkerSteps
    BY DEF WorkerSteps
  <2> QED
    BY <1>0, <2>1 DEF JobInv, JobTypes, connVars
<1>2. Queued'
  BY <1>0 DEF JobInv, Queued
<1>3. Held'
  <2>1. r \notin active
    BY <1>0 DEF JobInv, Held
  <2>2. /\ Cardinality(active') = Cardinality(active) + 1 /\ Cardinality(active) \in Nat
        /\ Cardinality(assigned') \in Nat
    BY <1>0, <2>1, RequestsFinite, FS_AddElement
  <2>3. Cardinality(assigned') + Cardinality(active') <= Workers
    BY <2>2, ServerAssumption
  <2> QED
    BY <1>0, <2>3 DEF JobInv, Held
<1>4. ASSUME NEW c \in Conn PROVE (Following(c) /\ Told(c))'
  <2>1. PICK q \in Request : q = <<c, bit[c]>>
    BY OwnRequest DEF JobInv, Req
  <2>2. UNCHANGED <<cpc[c], bit[c], got[c], answer[c]>>
    BY DEF connVars
  <2>3. Over(q) => Over(q)'
    <3>1. CASE q = r
      BY <3>1 DEF Over
    <3>2. CASE q # r
      BY <1>0, <3>2 DEF Over, Waits
    <3> QED
      BY <3>1, <3>2
  <2> QED
    BY <2>1, <2>2, <2>3, StillFollows
<1> QED
  BY <1>1, <1>2, <1>3, <1>4 DEF JobInv

(* A worker that is free takes a job that waits, or one reserved for it.   *)
LEMMA PopKeeps == ASSUME JobInv, Pop PROVE JobInv'
<1>0. /\ UNCHANGED <<connVars, chan, made>> /\ waiting \in Seq(Request) /\ Len(waiting) \in Nat
      /\ assigned \subseteq Request /\ active \subseteq Request
      /\ Cardinality(assigned) \in Nat /\ Cardinality(active) \in Nat
  BY RequestsFinite DEF Pop, JobInv, JobTypes
<1>1. /\ \A i, j \in 1 .. Len(waiting) : waiting[i] = waiting[j] => i = j
      /\ \A i \in 1 .. Len(waiting) : waiting[i] \notin assigned /\ waiting[i] \in Request
  BY <1>0 DEF JobInv, Queued
<1>2. ASSUME NEW n \in 1 .. Len(waiting), Start(n), WorkerGoes(waiting[n], "none", "check") PROVE JobInv'
  <2>1. PICK r \in Request : r = waiting[n]
    BY <1>1
  <2>2. /\ waiting' = [k \in 1 .. Len(waiting) - 1 |-> waiting[IF k < n THEN k ELSE k + 1]]
        /\ active' = active \cup {r} /\ assigned' = assigned
        /\ Cardinality(assigned') + Cardinality(active) < Workers
    BY <1>2, <2>1 DEF Start, FreeWorker
  <2> DEFINE old(k) == IF k < n THEN k ELSE k + 1
  <2>3. \A k \in 1 .. Len(waiting) - 1 : old(k) \in 1 .. Len(waiting) /\ old(k) # n
    BY <1>0
  <2>4. \A k, m \in 1 .. Len(waiting) - 1 : old(k) = old(m) => k = m
    BY <1>0
  <2>5. \A k \in 1 .. Len(waiting) - 1 : waiting'[k] = waiting[old(k)]
    BY <2>2
  <2>6. waiting' \in Seq(Request) /\ Len(waiting') = Len(waiting) - 1
    <3>1. \A k \in 1 .. Len(waiting) - 1 : waiting'[k] \in Request
      BY <1>1, <2>3, <2>5
    <3>2. Len(waiting) - 1 \in Nat
      BY <1>0
    <3>3. waiting' \in [1 .. Len(waiting) - 1 -> Request]
      BY <2>2, <3>1
    <3> QED
      BY <3>2, <3>3
  <2> HIDE DEF old
  <2>7. \A i, j \in 1 .. Len(waiting') : waiting'[i] = waiting'[j] => i = j
    <3> SUFFICES ASSUME NEW i \in 1 .. Len(waiting'), NEW j \in 1 .. Len(waiting'), waiting'[i] = waiting'[j]
        PROVE i = j
      OBVIOUS
    <3>1. i \in 1 .. Len(waiting) - 1 /\ j \in 1 .. Len(waiting) - 1
      BY <2>6
    <3>2. old(i) \in 1 .. Len(waiting) /\ old(j) \in 1 .. Len(waiting) /\ waiting[old(i)] = waiting[old(j)]
      BY <2>3, <2>5, <3>1
    <3>3. old(i) = old(j)
      BY <1>1, <3>2
    <3> QED
      BY <2>4, <3>1, <3>3
  <2>8. \A i \in 1 .. Len(waiting') : waiting'[i] # r /\ \E j \in 1 .. Len(waiting) : waiting'[i] = waiting[j]
    <3> SUFFICES ASSUME NEW i \in 1 .. Len(waiting')
        PROVE waiting'[i] # r /\ \E j \in 1 .. Len(waiting) : waiting'[i] = waiting[j]
      OBVIOUS
    <3>1. i \in 1 .. Len(waiting) - 1
      BY <2>6
    <3>2. old(i) \in 1 .. Len(waiting) /\ old(i) # n /\ waiting'[i] = waiting[old(i)]
      BY <2>3, <2>5, <3>1
    <3> QED
      BY <1>1, <2>1, <3>2
  <2>9. Waits(r)
    BY <2>1 DEF Waits
  <2>10. WorkerGoes(r, "none", "check") /\ r \notin assigned'
    BY <1>1, <1>2, <2>1, <2>2
  <2> QED
    BY <1>0, <2>2, <2>6, <2>7, <2>8, <2>9, <2>10, TakenKeeps
<1>3. ASSUME NEW r \in assigned, StartAssigned(r), WorkerGoes(r, "none", "check") PROVE JobInv'
  <2>1. /\ r \in Request /\ waiting' = waiting /\ assigned' = assigned \ {r} /\ active' = active \cup {r}
    BY <1>0, <1>3 DEF StartAssigned
  <2>2. Cardinality(assigned') = Cardinality(assigned) - 1
    BY <1>0, <2>1, RequestsFinite, FS_RemoveElement
  <2>3. Cardinality(assigned') + Cardinality(active) < Workers
    BY <1>0, <2>2, ServerAssumption DEF JobInv, Held
  <2>4. \A i \in 1 .. Len(waiting') : waiting'[i] # r /\ \E j \in 1 .. Len(waiting) : waiting'[i] = waiting[j]
    BY <1>1, <2>1
  <2>5. \A i, j \in 1 .. Len(waiting') : waiting'[i] = waiting'[j] => i = j
    BY <1>1, <2>1
  <2> QED
    BY <1>0, <1>3, <2>1, <2>3, <2>4, <2>5, TakenKeeps
<1> QED
  BY <1>2, <1>3 DEF Pop

(* JobInv is inductive, by one lemma for each side. *)
LEMMA JobInvariance == Spec => []JobInv
<1>1. Init => JobInv
  <2> SUFFICES ASSUME Init PROVE JobInv
    OBVIOUS
  <2>1. JobTypes
    BY DEF Init, DispatchInit, JobTypes, Steps, WorkerSteps
  <2>2. Len(waiting) = 0 /\ assigned = {} /\ active = {}
    BY DEF Init, DispatchInit
  <2>3. Queued
    BY <2>2 DEF Queued
  <2>4. Cardinality(assigned) = 0 /\ Cardinality(active) = 0
    BY <2>2, FS_EmptySet
  <2>5. Held
    BY <2>2, <2>4, ServerAssumption DEF Init, Held
  <2>6. ASSUME NEW c \in Conn PROVE Following(c) /\ Told(c)
    BY DEF Init, Following, Told
  <2> QED
    BY <2>1, <2>3, <2>5, <2>6 DEF JobInv
<1>2. JobInv /\ ConnInv /\ [Next]_vars => JobInv'
  <2> SUFFICES ASSUME JobInv, ConnInv, [Next]_vars PROVE JobInv'
    OBVIOUS
  <2>1. CASE \/ TurnAway \/ Spawn
             \/ \E c \in Conn : AcceptConn(c) \/ CloseConn(c) \/ Abandon(c) \/ ConnStep(c)
                                \/ \E stream \in BOOLEAN : Submit(c, stream)
    BY <2>1, ConnectionKeeps DEF ConnInv
  <2>2. CASE Pop
    BY <2>2, PopKeeps
  <2>3. CASE \E r \in Request : WorkerStep(r) \/ Panic(r)
    BY <2>3, WorkerStepKeeps
  <2>4. CASE UNCHANGED vars
    <3>1. UNCHANGED <<cpc, bit, got, answer, jobVars, queueVars>>
      BY <2>4 DEF vars, connVars
    <3>2. JobTypes' /\ Queued' /\ Held'
      BY <3>1 DEF JobInv, JobTypes, Queued, Held, jobVars, queueVars
    <3>3. ASSUME NEW c \in Conn PROVE (Following(c) /\ Told(c))'
      BY <3>1 DEF JobInv, Following, Told, Ended, Over, Waits, Req, jobVars, queueVars
    <3> QED
      BY <3>2, <3>3 DEF JobInv
  <2> QED
    BY <2>1, <2>2, <2>3, <2>4 DEF Next
<1> QED
  BY <1>1, <1>2, ConnInvariance, PTL DEF Spec

(* Whoever leaves, stays or fails, whenever a job is queued, reserved,     *)
(* skipped, cancelled or lost to a panic: a completed answer holds all     *)
(* deltas of its own request and no other's (generate, run_job), and a     *)
(* slot is held by one job from its start to its finish.                   *)
THEOREM AnswersKeptApart == Spec => []RequestsKeptApart
<1>1. JobInv => RequestsKeptApart
  <2> SUFFICES ASSUME JobInv PROVE RequestsKeptApart
    OBVIOUS
  <2>1. AnswerWhole
    BY DEF JobInv, Told, AnswerWhole
  <2>2. active \in SUBSET Request /\ assigned \in SUBSET Request
    BY DEF JobInv, JobTypes
  <2>3. Cardinality(active) \in Nat /\ Cardinality(assigned) \in Nat
    BY <2>2, RequestsFinite
  <2>4. SlotsHeld
    BY <2>3, ServerAssumption DEF JobInv, Held, SlotsHeld
  <2> QED
    BY <2>1, <2>4 DEF RequestsKeptApart
<1> QED
  BY <1>1, JobInvariance, PTL
=============================================================================
