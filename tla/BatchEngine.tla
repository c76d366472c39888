------------------------------ MODULE BatchEngine ------------------------------
(***************************************************************************)
(* Continuous batching: the slot workers that submit requests and relay    *)
(* their events (BatchRunner::generate), the engine thread that owns every *)
(* active sequence (engine_loop, admit) and the step that runs one batched *)
(* forward over the decode sessions (batch_session::step, input, feed).    *)
(*                                                                         *)
(* A request is known by its slot.  Tokens are counted, not named: what a  *)
(* session keeps of its slot's state or of the prompt cache, where it has  *)
(* to pause and what its sampler and detokenizer decide are arbitrary.     *)
(* A session's events, the results of its forward and its bookkeeping are  *)
(* private to the engine thread, so a step is one action; sending a        *)
(* session's events and giving its slot back are one action per session.   *)
(***************************************************************************)
EXTENDS Integers, Sequences, FiniteSets

CONSTANTS
  Slot,           \* one slot worker and one state per slot
  Recurrent,      \* the model's state needs checkpoints (pauses)
  PrefillChunk,   \* BatchOptions.prefill_chunk, at least 1
  PrefillBudget,  \* BatchOptions.prefill_budget
  MaxPrompt,      \* bound: prompt length
  MaxTokens,      \* bound: max_tokens of a request
  MaxExtra        \* bound: pauses of a request before the end of its prompt

ASSUME EngineAssumption ==
  /\ IsFiniteSet(Slot)
  /\ Recurrent \in BOOLEAN
  /\ PrefillChunk \in Nat \ {0}
  /\ PrefillBudget \in Nat
  /\ MaxPrompt \in Nat \ {0}
  /\ MaxTokens \in Nat \ {0}
  /\ MaxExtra \in Nat

NoState == -1   \* SlotState None: the next request starts from a new state
Garbage == -2   \* a model state some failed forward has touched

VARIABLES
  wpc,        \* worker: "idle" (waits for a job), "relay" (in generate), "gone"
  quiet,      \* worker's local `cancelled`: pieces are no longer passed on
  cancel,     \* the request's cancel flag, shared with the engine
  chan,       \* the request's event channel: "piece", "ok", "err"
  rx,         \* submitted requests the engine has not received
  open,       \* BatchRunner.tx is still there
  epc,        \* engine: "recv", "drain", "cancel", "step", "retire", "exit"
  cursor,     \* index of the retire loop
  active,     \* the sessions, in order of admission
  states,     \* fed length of each slot's idle state, or NoState
  content,    \* number of tokens each slot's model state really holds (0: none)
  held        \* BatchRunner.held: number of tokens shown to slot affinity

workerVars == <<wpc, quiet, cancel>>
engineVars == <<epc, cursor, active, states, content, held>>
vars == <<wpc, quiet, cancel, chan, rx, open, epc, cursor, active, states, content, held>>

(* A DecodeSession: prompt and token limits, tokens fed, tokens sampled,   *)
(* the pause points and those handled, buffered pieces, how it ended.      *)
Session ==
  [slot : Slot, len : 1 .. MaxPrompt, max : 1 .. MaxTokens,
   fed : Nat, out : Nat, decoding : BOOLEAN,
   pauses : SUBSET (0 .. MaxPrompt), handled : SUBSET (0 .. MaxPrompt),
   pieces : 0 .. 1, finish : {"none", "stop", "length", "aborted"}, failed : BOOLEAN]

Init ==
  /\ wpc = [s \in Slot |-> "idle"]
  /\ quiet = [s \in Slot |-> FALSE]
  /\ cancel = [s \in Slot |-> FALSE]
  /\ chan = [s \in Slot |-> <<>>]
  /\ rx = <<>>
  /\ open = TRUE
  /\ epc = "recv" /\ cursor = 1
  /\ active = <<>>
  /\ states = [s \in Slot |-> NoState]
  /\ content = [s \in Slot |-> 0]
  /\ held = [s \in Slot |-> 0]

-----------------------------------------------------------------------------
(* BatchRunner::generate, run by the worker of slot s.                     *)

Submit(s) ==
  /\ wpc[s] = "idle" /\ open
  /\ wpc' = [wpc EXCEPT ![s] = "relay"]
  /\ rx' = Append(rx, s)
  /\ UNCHANGED <<quiet, cancel, chan, open, engineVars>>

(* on_event asks to stop: the flag is raised once, and the worker stays in *)
(* its loop until the engine has answered.                                 *)
AfterBreakM == "idle"
AfterBreak == "relay"

Break(s) ==
  /\ wpc' = [wpc EXCEPT ![s] = AfterBreak]
  /\ quiet' = [quiet EXCEPT ![s] = TRUE]
  /\ cancel' = [cancel EXCEPT ![s] = TRUE]

(* Nothing arrived for CANCEL_POLL and the caller, asked, wants to stop. *)
PollBreak(s) ==
  /\ wpc[s] = "relay" /\ chan[s] = <<>> /\ ~quiet[s]
  /\ Break(s)
  /\ UNCHANGED <<chan, rx, open, engineVars>>

(* A piece is passed on, unless the request was cancelled by this worker. *)
RelayPiece(s) ==
  /\ wpc[s] = "relay" /\ chan[s] # <<>> /\ Head(chan[s]) = "piece"
  /\ chan' = [chan EXCEPT ![s] = Tail(@)]
  /\ \/ UNCHANGED workerVars
     \/ ~quiet[s] /\ Break(s)
  /\ UNCHANGED <<rx, open, engineVars>>

(* Done: generate returns and the worker looks for its next job.  The flags *)
(* and the channel belong to the request, the next one has fresh ones.     *)
RelayDone(s) ==
  /\ wpc[s] = "relay" /\ chan[s] # <<>> /\ Head(chan[s]) \in {"ok", "err"}
  /\ wpc' = [wpc EXCEPT ![s] = "idle"]
  /\ chan' = [chan EXCEPT ![s] = <<>>]
  /\ quiet' = [quiet EXCEPT ![s] = FALSE]
  /\ cancel' = [cancel EXCEPT ![s] = FALSE]
  /\ UNCHANGED <<rx, open, engineVars>>

(* Drop for BatchRunner: nobody is inside generate any more. *)
Drop ==
  /\ open /\ \A s \in Slot : wpc[s] = "idle"
  /\ open' = FALSE
  /\ wpc' = [s \in Slot |-> "gone"]
  /\ UNCHANGED <<quiet, cancel, chan, rx, engineVars>>

-----------------------------------------------------------------------------
(* The engine thread: admission.                                           *)

ActiveSlots == {active[i].slot : i \in 1 .. Len(active)}

(* handle_pause: the checkpoint and the snapshots due at this length. *)
HandlePause(a) ==
  IF a.fed \in a.pauses THEN [a EXCEPT !.handled = @ \cup {a.fed}] ELSE a

(* The max_tokens a session accepts: none is not enough. *)
Limits == 1 .. MaxTokens

(* DecodeSession::start: keep of the prompt is in the state already (never *)
(* all of it); a recurrent state pauses at the end of the prompt and at    *)
(* the boundaries from keep on.                                            *)
Starting(s) ==
  {HandlePause([slot |-> s, len |-> p[1], max |-> p[2], fed |-> p[3], out |-> 0,
                decoding |-> FALSE, pauses |-> {p[1]} \cup p[4], handled |-> {},
                pieces |-> 0, finish |-> "none", failed |-> FALSE]) :
     p \in {q \in (1 .. MaxPrompt) \X Limits \X (0 .. MaxPrompt - 1)
                 \X SUBSET (0 .. MaxPrompt) :
             /\ q[3] < q[1]
             /\ q[4] \subseteq q[3] .. q[1] - 1
             /\ Cardinality(q[4]) <= MaxExtra
             /\ Recurrent \/ q[4] = {}}}

(* admit: the state leaves the slot whether or not the session starts. *)
Admit ==
  LET s == Head(rx) IN
  /\ rx' = Tail(rx)
  /\ IF s \in ActiveSlots
     THEN /\ chan' = [chan EXCEPT ![s] = Append(@, "err")]
          /\ UNCHANGED <<active, states, content, held>>
     ELSE /\ held' = [held EXCEPT ![s] = 0]
          /\ states' = [states EXCEPT ![s] = NoState]
          /\ \/ \E a \in Starting(s) :
                  /\ active' = Append(active, a)
                  /\ content' = [content EXCEPT ![s] = a.fed]
                  /\ chan' = chan
             \/ /\ chan' = [chan EXCEPT ![s] = Append(@, "err")]
                /\ content' = [content EXCEPT ![s] = 0]
                /\ active' = active

(* With nothing to decode the engine blocks on its channel ... *)
Recv ==
  /\ epc = "recv"
  /\ \/ active # <<>> /\ UNCHANGED <<rx, chan, active, states, content, held>>
     \/ active = <<>> /\ rx # <<>> /\ Admit
  /\ epc' = "drain"
  /\ UNCHANGED <<workerVars, open, cursor>>

(* ... which reports the end of all senders once it is empty. *)
AfterDisconnectM == "drain"
AfterDisconnect == "exit"

Disconnect ==
  /\ epc = "recv" /\ active = <<>> /\ rx = <<>> /\ ~open
  /\ epc' = AfterDisconnect
  /\ UNCHANGED <<workerVars, chan, rx, open, cursor, active, states, content, held>>

DrainOne ==
  /\ epc = "drain" /\ rx # <<>>
  /\ Admit
  /\ UNCHANGED <<workerVars, open, epc, cursor>>

DrainEnd ==
  /\ epc = "drain" /\ rx = <<>>
  /\ epc' = "cancel"
  /\ UNCHANGED <<workerVars, chan, rx, open, cursor, active, states, content, held>>

(* Cancel flags raised by now abort their sessions. *)
Aborted(a) == [a EXCEPT !.finish = IF @ = "none" THEN "aborted" ELSE @]

ApplyCancel ==
  /\ epc = "cancel"
  /\ active' = [i \in 1 .. Len(active) |->
       IF cancel[active[i].slot] THEN Aborted(active[i]) ELSE active[i]]
  /\ epc' = "step"
  /\ UNCHANGED <<workerVars, chan, rx, open, cursor, states, content, held>>

-----------------------------------------------------------------------------
(* One batched step.                                                       *)

Lesser(a, b) == IF a < b THEN a ELSE b
Greater(a, b) == IF a > b THEN a ELSE b

Unfinished(a) == a.finish = "none"
Prefilling(a) == Unfinished(a) /\ ~a.decoding
SomeDecoding == \E i \in 1 .. Len(active) : Unfinished(active[i]) /\ active[i].decoding

Budget == IF SomeDecoding THEN PrefillBudget ELSE Greater(PrefillChunk, PrefillBudget)
FirstPrefill(i) ==
  Prefilling(active[i]) /\ \A k \in 1 .. i - 1 : ~Prefilling(active[k])

(* step passes over a session that has ended. *)
PassedOver(a) == ~Unfinished(a)

(* What session i is allowed of the budget that is left when it is reached *)
(* (the first prefilling session at least one token), and what it takes.   *)
AllowanceM(i, left) == Lesser(PrefillChunk, Greater(left, 1))
Allowance(i, left) == Lesser(PrefillChunk, IF FirstPrefill(i) THEN Greater(left, 1) ELSE left)
Take(i, left) ==
  IF PassedOver(active[i]) THEN 0
  ELSE IF active[i].decoding THEN 1
  ELSE Lesser(Allowance(i, left), active[i].len - active[i].fed)

(* Budget left after the first i sessions have been planned. *)
Left[i \in 0 .. Len(active)] ==
  IF i = 0 THEN Budget
  ELSE IF Prefilling(active[i])
       THEN Greater(Left[i - 1] - Take(i, Left[i - 1]), 0)
       ELSE Left[i - 1]
Plan == [i \in 1 .. Len(active) |-> Take(i, Left[i - 1])]

(* input: a prompt chunk ends at the next pause point at the latest. *)
NextPause(a) ==
  CHOOSE p \in a.pauses : p > a.fed /\ \A q \in a.pauses : q > a.fed => p <= q
ChunkM(a, take) == Lesser(a.len - a.fed, take)
Chunk(a, take) == Lesser(NextPause(a) - a.fed, take)

(* What the sampler, the stop conditions and the detokenizer make of a     *)
(* forward, and whether a text piece comes out of it.                      *)
Outcome == {"next", "end", "fail"} \X (0 .. 1)

(* sample: the token ends the session or becomes the next input. *)
LengthReachedM(a) == a.out > a.max
LengthReached(a) == a.out >= a.max

Sampled(a, o) ==
  LET b == [a EXCEPT !.out = @ + 1, !.decoding = TRUE, !.pieces = o[2]] IN
  [b EXCEPT !.finish = IF o[1] = "end" THEN "stop"
                       ELSE IF LengthReached(b) THEN "length" ELSE "none"]

(* fail: a failed session is poisoned and aborted. *)
Failed(a) == [a EXCEPT !.finish = "aborted", !.failed = TRUE]

(* feed: a session after the forward of n of its tokens; what a failed one *)
(* had counted when it failed is never looked at again.                    *)
Fed(a, n, o) ==
  LET b == IF a.decoding THEN [a EXCEPT !.fed = @ + 1]
           ELSE HandlePause([a EXCEPT !.fed = @ + n])
  IN  IF o[1] = "fail" THEN [Failed(b) EXCEPT !.pieces = o[2]]
      ELSE IF b.fed < b.len THEN b ELSE Sampled(b, o)

Inputs(i) == IF active[i].decoding THEN 1 ELSE Chunk(active[i], Plan[i])
Chosen == {i \in 1 .. Len(active) : Plan[i] > 0}

(* The forward succeeds and every chosen session is fed its logits, or it  *)
(* fails and takes all of them with it.                                    *)
Step ==
  /\ epc = "step"
  /\ \/ /\ \E outcome \in [Chosen -> Outcome] :
             active' = [i \in 1 .. Len(active) |->
               IF i \in Chosen THEN Fed(active[i], Inputs(i), outcome[i]) ELSE active[i]]
        /\ content' = [s \in Slot |->
             IF \E i \in Chosen : active[i].slot = s
             THEN content[s] + Inputs(CHOOSE i \in Chosen : active[i].slot = s)
             ELSE content[s]]
     \/ /\ Chosen # {}
        /\ active' = [i \in 1 .. Len(active) |->
             IF i \in Chosen THEN Failed(active[i]) ELSE active[i]]
        /\ content' = [s \in Slot |->
             IF \E i \in Chosen : active[i].slot = s THEN Garbage ELSE content[s]]
  /\ epc' = "retire" /\ cursor' = 1
  /\ UNCHANGED <<workerVars, chan, rx, open, states, held>>

-----------------------------------------------------------------------------
(* Streaming and retirement.                                               *)

Pieces(a) == [k \in 1 .. a.pieces |-> "piece"]
Result(a) == IF a.failed THEN "err" ELSE "ok"
KeptM(a) == a.fed
Kept(a) == IF a.failed THEN NoState ELSE a.fed    \* into_state
LastEventsM(a) == IF a.failed THEN <<>> ELSE <<"ok">>
LastEvents(a) == <<Result(a)>>
WithoutAt(q, i) == [k \in 1 .. Len(q) - 1 |-> IF k < i THEN q[k] ELSE q[k + 1]]

StreamOnly ==
  LET a == active[cursor] IN
  /\ Unfinished(a)
  /\ chan' = [chan EXCEPT ![a.slot] = @ \o Pieces(a)]
  /\ active' = [active EXCEPT ![cursor].pieces = 0]
  /\ cursor' = cursor + 1
  /\ UNCHANGED <<states, content, held>>

(* A finished session leaves: its state goes back to the slot and its      *)
(* tokens are published before Done is sent; a poisoned state is dropped.  *)
Retire ==
  LET a == active[cursor] IN
  /\ ~Unfinished(a)
  /\ active' = WithoutAt(active, cursor)
  /\ states' = [states EXCEPT ![a.slot] = Kept(a)]
  /\ held' = IF a.failed THEN held ELSE [held EXCEPT ![a.slot] = a.fed]
  /\ chan' = [chan EXCEPT ![a.slot] = (@ \o Pieces(a)) \o LastEvents(a)]
  /\ content' = IF a.failed THEN [content EXCEPT ![a.slot] = 0] ELSE content
  /\ UNCHANGED cursor

Sweep ==
  /\ epc = "retire"
  /\ IF cursor <= Len(active)
     THEN (StreamOnly \/ Retire) /\ epc' = epc
     ELSE epc' = "recv" /\ cursor' = 1 /\ UNCHANGED <<chan, active, states, content, held>>
  /\ UNCHANGED <<workerVars, rx, open>>

-----------------------------------------------------------------------------
Worker(s) == Submit(s) \/ PollBreak(s) \/ RelayPiece(s) \/ RelayDone(s)
Engine == Recv \/ Disconnect \/ DrainOne \/ DrainEnd \/ ApplyCancel \/ Step \/ Sweep
Next == Engine \/ Drop \/ \E s \in Slot : Worker(s)

(* The engine thread and a relaying worker run on; requests need not come, *)
(* nor callers give up.  The drain loop has no bound: it ends because the  *)
(* engine, which finds the channel empty again and again, is not beaten to *)
(* its next try_recv every time by a worker that first has to be woken,    *)
(* answer its client and pop another job.                                  *)
Fairness ==
  /\ WF_vars(Engine)
  /\ SF_vars(DrainEnd)
  /\ \A s \in Slot : WF_vars(RelayPiece(s) \/ RelayDone(s))

Spec == Init /\ [][Next]_vars /\ Fairness

-----------------------------------------------------------------------------
(* A request in flight is in exactly one place - submitted, active, or     *)
(* answered by one result that ends its channel - and a worker outside     *)
(* generate has none.  So a slot is never asked to run two sessions        *)
(* (admit's "batch slot unavailable") and no request is answered twice.    *)
Submitted(s) == {i \in 1 .. Len(rx) : rx[i] = s}
SessionsOf(s) == {i \in 1 .. Len(active) : active[i].slot = s}
ResultsFor(s) == {k \in 1 .. Len(chan[s]) : chan[s][k] # "piece"}
RequestOnce ==
  \A s \in Slot :
    /\ Cardinality(Submitted(s)) + Cardinality(SessionsOf(s)) + Cardinality(ResultsFor(s))
         = IF wpc[s] = "relay" THEN 1 ELSE 0
    /\ ResultsFor(s) \subseteq {Len(chan[s])}

(* What the engine remembers of a slot is true: an idle slot's state holds *)
(* exactly the tokens recorded with it and shown to slot affinity, an      *)
(* active slot shows none, and a state a failed forward has touched is     *)
(* never kept (admit, into_state, the retire loop).                        *)
SlotStates ==
  /\ \A s \in Slot \ ActiveSlots :
       /\ held[s] = IF states[s] = NoState THEN 0 ELSE states[s]
       /\ states[s] # NoState => content[s] = states[s]
  /\ \A s \in ActiveSlots : held[s] = 0 /\ states[s] = NoState
  /\ \A i \in 1 .. Len(active) : ~active[i].failed => content[active[i].slot] = active[i].fed

(* Token accounting of a session across chunks, samples and cancellation:  *)
(* part of the prompt is left while it prefills; once it decodes, every    *)
(* sampled token but the last has been fed; max_tokens is never exceeded.  *)
FedTokens ==
  \A i \in 1 .. Len(active) :
    LET a == active[i] IN
    /\ a.out <= a.max
    /\ ~a.failed /\ ~a.decoding => a.fed < a.len /\ a.out = 0
    /\ ~a.failed /\ a.decoding => a.fed = a.len + a.out - 1 /\ a.out > 0
    /\ a.finish = "length" => a.out = a.max

(* However the prompt is cut into chunks, no checkpoint or snapshot point  *)
(* is jumped over.                                                         *)
PausesHandled ==
  \A i \in 1 .. Len(active) :
    LET a == active[i] IN
    ~a.failed => a.handled = {p \in a.pauses : p <= a.fed}

(* A session has been fed its prompt and then its output, without a gap,   *)
(* and prefill stopped at each length where a checkpoint or a snapshot is  *)
(* to be taken.                                                            *)
SessionsExact == FedTokens /\ PausesHandled

(* The prompt tokens the first i sessions are fed in a step. *)
Spent[i \in 0 .. Len(active)] ==
  IF i = 0 THEN 0
  ELSE Spent[i - 1] + IF i \in Chosen /\ Prefilling(active[i]) THEN Inputs(i) ELSE 0

(* A step neither starves nor floods: the prompt tokens of all sessions    *)
(* together stay within the prefill budget (one token if it is zero), a    *)
(* smaller one while any session decodes; every decoding session is in the *)
(* step, and so is the oldest prefilling one, but none that has ended.     *)
StepBounds ==
  epc = "step" =>
    /\ Spent[Len(active)] <= Greater(Budget, 1)
    /\ \A i \in 1 .. Len(active) :
         Unfinished(active[i]) /\ (active[i].decoding \/ FirstPrefill(i)) => i \in Chosen
    /\ \A i \in Chosen : Unfinished(active[i]) /\ Inputs(i) \in 1 .. PrefillChunk

(* Every request is answered, under any load, cancellation or failure.     *)
RequestEnds == \A s \in Slot : wpc[s] = "relay" ~> wpc[s] = "idle"

(* Once the runner is dropped the engine thread ends (its join returns).   *)
EngineExits == ~open ~> epc = "exit"

(* Every request is answered whatever fails or is cancelled, and the       *)
(* engine thread ends once the runner is dropped.                          *)
AllEnds == RequestEnds /\ EngineExits
=============================================================================
