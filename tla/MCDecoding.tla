------------------------------- MODULE MCDecoding -------------------------------
(***************************************************************************)
(* From logits to the caller's text: the filters of OutputFilter, and one  *)
(* job at a time for the sampler and the incremental detokenizer.          *)
(***************************************************************************)
EXTENDS OutputFilter

VARIABLES which, job

NaN == 1000
Smp == INSTANCE Sampler WITH
         Inf <- 900, NegInf <- -900, Peak <- 8, Steps <- 24, TopBlock <- 2, SmallK <- 2,
         DrawBlock <- 3, Band <- 1, Stamps <- 3

Tag == <<"<", "x">>
EndTag == <<"<", "/">>
\* Stop strings that begin inside one another, and inside the tags.
StopStrings == << <<"x", "x", "<">>, <<"/", "x">> >>

-----------------------------------------------------------------------------
(* Inputs.                                                                 *)
Logits == [1 .. 3 -> {NaN, 900, -900, 0, 1}]
            \cup {<<0, 3, 1, NaN, 2, 3, 0>>, <<1, 1, 1, 1, 1, 1>>, <<-3, -900, -1, 0, -2>>, <<2, 0>>}
Params == [greedy : {FALSE}, topK : {0, 1, 2, 3}, topP : {0, 3, 6, 8}, minP : {0, 4}]
            \cup [greedy : {TRUE}, topK : {0}, topP : {8}, minP : {0}]
Draws == job' \in [kind : {"draw"}, v : Logits, par : Params]

Calls == [vocab : {3}, prompt : {<<>>, <<1, 2>>}, output : {<<1, 3>>, <<2, 2, 9>>, <<3>>}, window : {2, 9}]
           \cup [vocab : {4}, prompt : {<<4, 1>>}, output : {<<4>>}, window : {1, 9}]
PenaltyCalls == job' \in [kind : {"penalties"}, calls : [1 .. 3 -> Calls]]

Kinds == {"word", "b1", "b2", "special"}
\* Prompts are whole characters; what is kept of one holds text, if any of it does.
Prompts == {<<>>, <<"special">>, <<"word">>, <<"word", "special">>,
            <<"word", "b1", "b2">>, <<"word", "word", "special">>}
Streams == job' \in [kind : {"stream"}, prompt : Prompts, ids : UNION {[1 .. n -> Kinds] : n \in 1 .. 5}]

NoJob == [kind |-> "none"]
Job ==
  /\ job = NoJob
  /\ Draws \/ PenaltyCalls \/ Streams
  /\ UNCHANGED <<which, filterVars>>

MCInit ==
  /\ job = NoJob /\ which \in {"text", "job"}
  /\ FilterInit /\ (which = "text" \/ (~separate /\ ~start))
MCNext ==
  \/ which = "text" /\ FilterNext /\ UNCHANGED <<which, job>>
  \/ which = "job" /\ Job
MCSpec == MCInit /\ [][MCNext]_<<which, filterVars, job>>

-----------------------------------------------------------------------------
(* The sampler keeps the tokens the parameters name, with ties at the      *)
(* nucleus' edge all in or, in a top-k list, cut, and draws each as often  *)
(* as `distribution` says, whichever path, block or buffer finds it.       *)
KeptWeights(s, par) ==
  LET w == SortSeq(Smp!Weights(s), LAMBDA a, b : a > b)
      k == IF Smp!TopKOf(par, Len(s)) = 0 THEN w ELSE SubSeq(w, 1, par.topK)
      edge == Smp!Nucleus(k, par.topP)
      n == IF Smp!TopKOf(par, Len(s)) > 0 THEN edge ELSE Max({i \in DOMAIN k : k[i] = k[edge]})
  IN SelectSeq(SubSeq(k, 1, n), LAMBDA x : x > 0 /\ x >= par.minP)
DrawsTrue ==
  LET par == job.par
      sane == Smp!Sanitized(job.v)
      none == \A t \in DOMAIN sane : sane[t] = -900
  IN \A d \in {Smp!Distribution(job.v, par)},
        drawn \in {[u \in 0 .. 23 |-> Smp!SampleSplit(job.v, par, u)]} :
     IF none THEN Smp!Total(d) = 0 /\ \A u \in 0 .. 23 : drawn[u] = 0
     ELSE \A mass \in {Smp!Total(d)}, t \in DOMAIN d :
       LET n == Cardinality({u \in 0 .. 23 : drawn[u] = t}) IN
       /\ ~par.greedy => SortSeq(SelectSeq(d, LAMBDA x : x > 0), LAMBDA a, b : a > b)
                           = KeptWeights(sane, par)
       /\ par.greedy => (d[t] > 0 => \A s \in DOMAIN d : sane[s] <= sane[t])
       /\ (n * mass) - (d[t] * 24) \in -mass .. mass

(* Penalties count the occurrences in the window of this call, whatever    *)
(* earlier calls left behind.                                              *)
PenaltiesTrue ==
  LET after[i \in 0 .. 3] ==
        IF i = 0 THEN Smp!Fresh
        ELSE Smp!Counted(after[i - 1], job.calls[i].vocab, job.calls[i].prompt,
                         job.calls[i].output, job.calls[i].window)
      c == job.calls[3]
      all == c.prompt \o c.output
      in == {i \in DOMAIN all : i > Len(all) - c.window}
      uses(t, from) == Cardinality({i \in in : i > from /\ all[i] = t})
      par == [repetition |-> 2, frequency |-> 3, presence |-> 1]
      logits == [t \in 1 .. c.vocab |-> 10 * (t - 2)]
  IN \A p3 \in {Smp!Penalties(after[3], logits, par)} : \A t \in 1 .. c.vocab :
       p3[t] = LET v == logits[t] n == uses(t, Len(c.prompt)) IN
               IF uses(t, 0) = 0 THEN v
               ELSE (IF v > 0 THEN v \div 2 ELSE v * 2) - (IF n = 0 THEN 0 ELSE (3 * n) + 1)
SamplesTrue ==
  /\ job.kind = "draw" => DrawsTrue
  /\ job.kind = "penalties" => PenaltiesTrue

(* The streamed text, with the flush, is the decoding of all of the tokens *)
(* at once after that of the prompt.                                       *)
DecodedWhole ==
  job.kind = "stream" =>
    Streamed(job.prompt, job.ids)
      = DiffSuffix(Decode(job.prompt), Decode(job.prompt \o job.ids))
=============================================================================
