------------------------------ MODULE Scripting ------------------------------
(***************************************************************************)
(* From the episode's analysis to a script that may be reviewed: what the  *)
(* analysis validator admits (services/analysis/validator.py), the plot    *)
(* the compressor selects from it (compressor.py), the script the writer   *)
(* makes of the plan (writer.py), the revision the editor proposes         *)
(* (editor.py), the validators in between (validator.py), and what becomes *)
(* of a provider's raw answer on its way there (openai_adapter.py,         *)
(* canonicalize.py).  Two kinds of question, told apart by "about".        *)
(***************************************************************************)
EXTENDS Integers, Sequences, FiniteSets, SequencesExt, TLC

CONSTANTS
  MinBeats, MaxBeats,   \* MIN_BEATS and MAX_BEATS, scaled down
  LongSegment           \* LONG_SEGMENT_WORDS, scaled down

Larger(a, b) == IF a > b THEN a ELSE b
Smaller(a, b) == IF a < b THEN a ELSE b
Apart(a, b) == Larger(a - b, b - a)
Total(numbers) == FoldLeft(LAMBDA n, x : n + x, 0, numbers)
\* Python's round: to the nearest, a half to the even neighbour.
Rounded(n, d) == LET q == (2 * n + d) \div (2 * d) IN IF (2 * n + d) % (2 * d) = 0 /\ q % 2 = 1 THEN q - 1 ELSE q

-----------------------------------------------------------------------------
(* The analysis: its beats in sequence, which cause which, the scenes it      *)
(* kept of those the evidence has.                                            *)
Beats(a) == DOMAIN a.beats
Causes(a, ids) == {e[1] : e \in {c \in a.causes : c[2] \in ids}}
Closed(a, ids) == FoldLeft(LAMBDA s, i : s \cup Causes(a, s), ids, [i \in 1..(Len(a.beats) + 1) |-> i])
Cyclic(a, ids) == LET within == [a EXCEPT !.causes = {e \in a.causes : e[1] \in ids /\ e[2] \in ids}]
                  IN  \E b \in ids : b \in Closed(within, Causes(within, {b}))
DependencyErrors(a) ==
  {"UNKNOWN_BEAT_DEPENDENCY" : e \in {c \in a.causes : ~({c[1], c[2]} \subseteq Beats(a))}} \cup
  {"CAUSE_AFTER_EFFECT" : e \in {c \in a.causes : {c[1], c[2]} \subseteq Beats(a) /\ c[1] >= c[2]}} \cup
  (IF Cyclic(a, Beats(a)) THEN {"CYCLIC_BEAT_DEPENDENCY"} ELSE {})
SceneErrors(a) == IF a.scenes \subseteq a.evidence THEN {} ELSE {"SCENE_SET_MISMATCH"}
BeatErrors(a) == IF \A b \in Beats(a) : a.beats[b].scenes \subseteq a.evidence THEN {} ELSE {"UNKNOWN_SCENE"}
AnalysisErrors(a) == DependencyErrors(a) \cup SceneErrors(a) \cup BeatErrors(a)

-----------------------------------------------------------------------------
(* The plan.  The beats a plan must keep: the mandatory, the asked for, and   *)
(* the structural ones, chosen from sequence and payoff alone.                *)
Structural(a) ==
  LET ends == {1, Len(a.beats)}
      musts == {b \in Beats(a) : a.beats[b].must}
      inciting == {b \in (IF musts = {} THEN Beats(a) ELSE musts) \ ends :
                     \A c \in (IF musts = {} THEN Beats(a) ELSE musts) \ ends : b <= c}
      left == Beats(a) \ (ends \cup inciting)
      pays(b, c) == a.beats[b].payoff > a.beats[c].payoff \/ (a.beats[b].payoff = a.beats[c].payoff /\ b >= c)
  IN  ends \cup inciting \cup {b \in left : \A c \in left : pays(b, c)}

MustKeep(a, r) == {b \in Beats(a) : a.beats[b].must} \cup Structural(a) \cup r.required
Optional(a, r) == {b \in Beats(a) \ Closed(a, MustKeep(a, r)) : ~a.beats[b].barred}
Ranked(a, ids) == SetToSortSeq(ids, LAMBDA b, c : a.beats[b].worth > a.beats[c].worth \/ (a.beats[b].worth = a.beats[c].worth /\ b < c))

\* An optional beat comes with everything that caused it, or not at all.
Taken(a, kept, b) == Closed(a, kept \cup {b})
Selected(a, r) ==
  LET first == Closed(a, MustKeep(a, r))
      share == Larger(1, r.words \div Larger(Cardinality(first), 1))
      take(kept, b) ==
        LET more == Taken(a, kept, b)
        IN  IF \/ Cardinality(kept) >= MaxBeats \/ Cardinality(more) > MaxBeats
               \/ Cardinality(kept) >= MinBeats /\ Cardinality(more) * share > r.words
            THEN kept ELSE more
  IN  FoldLeft(take, first, Ranked(a, Optional(a, r)))

\* Words by weight, the last beat taking the drift.
Allocated(a, ids, words) ==
  LET weight == [i \in DOMAIN ids |-> a.beats[ids[i]].worth + 1]
      raw == [i \in DOMAIN ids |-> Larger(1, Rounded(weight[i] * words, Total(weight)))]
  IN  [raw EXCEPT ![Len(ids)] = Larger(1, @ + words - Total(raw))]

Bridges(a, kept) ==
  {e \in a.causes : {e[1], e[2]} \subseteq kept /\ \E b \in Beats(a) \ kept : e[1] < b /\ b < e[2]}

\* compress_plot: a dependency on a beat the analysis does not have is a KeyError.
Compressed(a, r) ==
  LET kept == Selected(a, r)
      ids == SetToSortSeq(kept, <)
  IN  IF ~(kept \subseteq Beats(a)) THEN [beats |-> <<>>, words |-> <<>>, times |-> <<>>, bridges |-> {}]
      ELSE [beats |-> ids, words |-> Allocated(a, ids, r.words),
            times |-> [i \in DOMAIN ids |-> r.pace * Allocated(a, ids, r.words)[i]], bridges |-> Bridges(a, kept)]

\* validate_compressed_plot_plan.
Omissions(p, a, r) ==
  LET kept == Range(p.beats)
  IN  {"MANDATORY_BEAT_OMITTED" : b \in {c \in Beats(a) \ kept : a.beats[c].must}} \cup
      {"REQUIRED_BEAT_OMITTED" : b \in r.required \ kept} \cup {"STRUCTURAL_BEAT_OMITTED" : b \in Structural(a) \ kept}
CausalErrors(p, a) ==
  LET kept == Range(p.beats)
  IN  {"CAUSE_AFTER_EFFECT" : e \in {c \in a.causes : {c[1], c[2]} \subseteq kept /\ c[1] >= c[2]}} \cup
      {"MISSING_CAUSAL_BRIDGE" : e \in {c \in a.causes : c[2] \in kept /\ c[1] \notin kept /\ c \notin p.bridges}} \cup
      (IF Cyclic(a, kept) THEN {"CYCLIC_BEAT_DEPENDENCY"} ELSE {})
BudgetErrors(p, r) ==
  (IF 50 * Apart(Total(p.words), r.words) > r.words THEN {"WORD_BUDGET_OFF_TARGET"} ELSE {}) \cup
  (IF 10 * Apart(Total(p.times), r.duration) > r.duration THEN {"PACING_OFF_TARGET"} ELSE {})
PlanErrors(p, a, r) == Omissions(p, a, r) \cup CausalErrors(p, a) \cup BudgetErrors(p, r)

-----------------------------------------------------------------------------
(* The script.  A segment's text is its words: those of the beat's summary,   *)
(* of its joke, of the filler behind them, of a callback behind it all.       *)
JokeWords == <<3, 7, 5, 8, 3, 8>>
CallbackWords == 4

\* _fit_segment_text.
Fitted(i, summary, words) ==
  LET joke == Smaller(JokeWords[((i - 1) % 6) + 1], words)
      said == Smaller(summary, words - joke)
  IN  [said |-> said, joke |-> joke, filler |-> words - joke - said, callback |-> 0]
Spoken(s) == s.text.said + s.text.joke + s.text.filler + s.text.callback

\* One segment per beat of the plan; nothing hands the writer locked segments.
Written(p, a) ==
  [i \in DOMAIN p.beats |->
     LET beat == a.beats[p.beats[i]]
     IN  [id |-> p.beats[i], beats |-> {p.beats[i]}, text |-> Fitted(i, beat.summary, p.words[i]),
          jokes |-> 1, gag |-> (i % 3 = 1), scenes |-> beat.scenes, locked |-> FALSE]]

\* The last segment repeats the punchline of the first.
PaidOff(segments) ==
  IF Len(segments) < 2 THEN [segments |-> segments, callbacks |-> {}]
  ELSE LET n == Len(segments)
       IN  [segments |-> [segments EXCEPT ![n].text.callback = CallbackWords + segments[1].text.joke, ![n].jokes = @ + 1],
            callbacks |-> {<<segments[1].id, segments[n].id>>}]
Script(p, a) == PaidOff(Written(p, a))

Covering(segments, b) == {i \in DOMAIN segments : b \in segments[i].beats}
WordErrors(segments, words) ==
  IF 20 * Apart(Total([i \in DOMAIN segments |-> Spoken(segments[i])]), words) > words THEN {"WORD_COUNT_OUT_OF_RANGE"} ELSE {}
ReferenceErrors(segments, p, a) ==
  {"UNKNOWN_PLOT_BEAT_REFERENCE" : i \in {j \in DOMAIN segments : ~(segments[j].beats \subseteq Range(p.beats))}} \cup
  {"UNKNOWN_SCENE_REFERENCE" : i \in {j \in DOMAIN segments : ~(segments[j].scenes \subseteq a.scenes)}}
CoverageErrors(segments, p, a) ==
  {IF a.beats[b].must THEN "MANDATORY_BEAT_NOT_COVERED" ELSE "BEAT_NOT_COVERED" : b \in {c \in Range(p.beats) : Covering(segments, c) = {}}}
At(segments, id) == {i \in DOMAIN segments : segments[i].id = id}
CallbackErrors(segments, callbacks) ==
  {"UNKNOWN_CALLBACK_SEGMENT" : c \in {d \in callbacks : At(segments, d[1]) = {} \/ At(segments, d[2]) = {}}} \cup
  {"CALLBACK_PAYOFF_BEFORE_SETUP" : c \in {d \in callbacks : \E i \in At(segments, d[1]), j \in At(segments, d[2]) : j <= i}}
\* At high humor, three plain segments in a row are too many.
Plain(s) == s.jokes = 0 /\ ~s.gag
ExpositionErrors(segments, humor) ==
  IF humor /\ \E i \in DOMAIN segments : i > 2 /\ \A j \in (i - 2)..i : Plain(segments[j]) THEN {"TOO_MUCH_EXPOSITION"} ELSE {}
LockErrors(segments, previous) ==
  IF \E i \in DOMAIN previous : previous[i].locked /\ ~\E j \in DOMAIN segments : segments[j] = previous[i]
  THEN {"LOCKED_SEGMENT_CHANGED"} ELSE {}
\* A revision must not uncover a mandatory beat.
RegressionErrors(segments, previous, p, a) ==
  IF \E b \in Range(p.beats) : a.beats[b].must /\ Covering(previous, b) # {} /\ Covering(segments, b) = {} THEN {"COVERAGE_REGRESSED"} ELSE {}

ScriptErrors(s, p, a, r, previous) ==
  UNION {WordErrors(s.segments, r.words), ReferenceErrors(s.segments, p, a), CoverageErrors(s.segments, p, a),
         CallbackErrors(s.segments, s.callbacks), ExpositionErrors(s.segments, r.humor), LockErrors(s.segments, previous),
         RegressionErrors(s.segments, previous, p, a)}

\* propose_revision: the longest unlocked segment loses its filler, down to a length.
Longest(segments) ==
  LET free == {i \in DOMAIN segments : ~segments[i].locked}
  IN  {i \in free : \A j \in free : Spoken(segments[i]) > Spoken(segments[j]) \/ (Spoken(segments[i]) = Spoken(segments[j]) /\ i <= j)}
Trimmed(s) == IF s.text.callback > 0 THEN s ELSE [s EXCEPT !.text.filler = Larger(0, @ - (Spoken(s) - LongSegment))]
Revised(s) ==
  [s EXCEPT !.segments = [i \in DOMAIN s.segments |->
     IF i \in Longest(s.segments) /\ Spoken(s.segments[i]) > LongSegment THEN Trimmed(s.segments[i]) ELSE s.segments[i]]]

\* What the owner locks of the candidate before it is revised.
Kept(s, locks) == [s EXCEPT !.segments = [i \in DOMAIN s.segments |-> [s.segments[i] EXCEPT !.locked = i \in locks]]]

\* approval_recommendation, for a score that would do.
Recommended(errors) == IF errors = {} THEN "approve" ELSE "revise"

-----------------------------------------------------------------------------
(* A provider's answer: segments with their kind, words and jokes, a joke     *)
(* being its type and the callback it claims, callbacks with their two ends.  *)
Empty(s) == s.kind = "PAUSE" \/ s.words = 0

\* The adapter's _drop_empty_segments, on the raw answer.
Cleared(w) ==
  LET kept == SelectSeq(w.segments, LAMBDA s : ~Empty(s)) IN IF kept = <<>> THEN w ELSE [w EXCEPT !.segments = kept]

\* normalize_raw_joke_callbacks: the first stray joke of a callback's payoff becomes its callback.
Claimed(jokes) == {jokes[i].claims : i \in {j \in DOMAIN jokes : jokes[j].type = "callback"}}
Rightful(w, s, jokes, j) ==
  /\ jokes[j].claims \in {c.id : c \in {d \in w.callbacks : d.payoff = s.id}} \ Claimed(s.jokes)
  /\ \A i \in 1..(j - 1) : jokes[i].claims # jokes[j].claims
Normalized(w, s) ==
  [s EXCEPT !.jokes = [j \in DOMAIN s.jokes |->
     IF s.jokes[j].claims = "none" \/ s.jokes[j].type = "callback" THEN s.jokes[j]
     ELSE IF Rightful(w, s, s.jokes, j) THEN [s.jokes[j] EXCEPT !.type = "callback"]
     ELSE [s.jokes[j] EXCEPT !.claims = "none"]]]
Adapted(w) == LET c == Cleared(w) IN [c EXCEPT !.segments = [i \in DOMAIN c.segments |-> Normalized(c, c.segments[i])]]

\* What the contract refuses of it.
Contract(w) ==
  /\ w.segments # <<>>
  /\ \A i \in DOMAIN w.segments :
       LET s == w.segments[i]
       IN  (s.kind = "NARRATION" => s.words > 0) /\ \A j \in DOMAIN s.jokes : s.jokes[j].claims # "none" => s.jokes[j].type = "callback"

\* The pipeline's drop_empty_segments: what pointed at a dropped segment goes with it.
Dropped(w) ==
  LET kept == SelectSeq(w.segments, LAMBDA s : ~Empty(s))
      ids == {kept[i].id : i \in DOMAIN kept}
      callbacks == {c \in w.callbacks : {c.setup, c.payoff} \subseteq ids}
      gone == {c.id : c \in w.callbacks} \ {c.id : c \in callbacks}
      unlink(s) == [s EXCEPT !.jokes = [j \in DOMAIN s.jokes |-> IF s.jokes[j].claims \in gone THEN [s.jokes[j] EXCEPT !.claims = "none"] ELSE s.jokes[j]]]
      counted == Total([i \in DOMAIN kept |-> kept[i].words])
  IN  IF kept = w.segments THEN w
      ELSE [w EXCEPT !.segments = [i \in DOMAIN kept |-> unlink(kept[i])], !.callbacks = callbacks, !.count = counted]

\* A draft's word count is put right by _write_draft, a revision's is not.
Counted(w) == Total([i \in DOMAIN w.segments |-> IF w.segments[i].kind = "PAUSE" THEN 0 ELSE w.segments[i].words])
Received(q) == IF q.adapter THEN Adapted(q.answer) ELSE q.answer
Settled(q) ==
  LET w == Received(q)
      d == Dropped(w)
  IN  IF ~Contract(w) THEN [outcome |-> "PROVIDER_PAYLOAD_INVALID", script |-> w]
      ELSE IF d.segments = <<>> THEN [outcome |-> "ValueError", script |-> w]
      ELSE [outcome |-> "settled", script |-> IF q.draft THEN [d EXCEPT !.count = Counted(d)] ELSE d]

-----------------------------------------------------------------------------
Tried(q) ==
  LET p == Compressed(q.analysis, q.request)
      s == Kept(Script(p, q.analysis), q.locks)
      v == Revised(s)
      errors(t, previous) == ScriptErrors(t, p, q.analysis, q.request, previous)
  IN  [plan |-> p, script |-> s, revised |-> v, planErrors |-> PlanErrors(p, q.analysis, q.request),
       scriptErrors |-> errors(s, <<>>), revisedErrors |-> errors(v, s.segments),
       advice |-> Recommended(errors(v, s.segments))]

Scripted(q) == IF q.about = "episode" THEN Tried(q) ELSE Settled(q)

-----------------------------------------------------------------------------
(* An analysis its validator admits without tolerating anything, compressed   *)
(* and written by the repository's own reference, passes the validators of    *)
(* the next two stages, the named exceptions aside: the plan closes every     *)
(* chain of causes and is refused only when the words asked for do not last   *)
(* the duration asked for; the script is refused only when the callback's     *)
(* words are more than the tolerance, and for a scene the evidence has and    *)
(* the analysis left out.                                                     *)
ClosedPlan(q, t) == /\ Range(t.plan.beats) = Closed(q.analysis, Range(t.plan.beats))
                    /\ \/ Len(t.plan.beats) <= MaxBeats
                       \/ Range(t.plan.beats) = Closed(q.analysis, MustKeep(q.analysis, q.request))
PlanAccepted(q, t) ==
  t.planErrors = (IF 10 * Apart(q.request.words * q.request.pace, q.request.duration) > q.request.duration THEN {"PACING_OFF_TARGET"} ELSE {})
ScriptAccepted(q, t) ==
  t.scriptErrors =
    (IF Len(t.plan.beats) > 1 /\ 20 * (CallbackWords + JokeWords[1]) > q.request.words THEN {"WORD_COUNT_OUT_OF_RANGE"} ELSE {}) \cup
    (IF \E b \in Range(t.plan.beats) : ~(q.analysis.beats[b].scenes \subseteq q.analysis.scenes) THEN {"UNKNOWN_SCENE_REFERENCE"} ELSE {})

\* A revision is never refused for what the script was accepted for, its length aside.
RevisionKeeps(q, t) == /\ t.revisedErrors \subseteq t.scriptErrors \cup {"WORD_COUNT_OUT_OF_RANGE"}
                       /\ t.advice = "approve" => \A b \in MustKeep(q.analysis, q.request) : Covering(t.revised.segments, b) # {}

\* What is settled of an answer says nothing without words, claims no callback but as
\* one, and, where no adapter went before, names no segment it has lost.
Whole(w) == \A c \in w.callbacks : {c.setup, c.payoff} \subseteq {w.segments[i].id : i \in DOMAIN w.segments}
AnswerHolds(q, t) ==
  t.outcome = "settled" =>
    /\ Contract(t.script) /\ \A i \in DOMAIN t.script.segments : ~Empty(t.script.segments[i])
    /\ Whole(q.answer) /\ (q.adapter => \A i \in DOMAIN q.answer.segments : ~Empty(q.answer.segments[i])) => Whole(t.script)
    /\ q.draft \/ Received(q).segments # t.script.segments => t.script.count = Counted(t.script)
    /\ \A i \in DOMAIN t.script.segments, id \in {c.id : c \in t.script.callbacks} :
         Cardinality({j \in DOMAIN t.script.segments[i].jokes : t.script.segments[i].jokes[j].claims = id}) <= 1

ScriptingHolds(q, t) ==
  IF q.about = "answer" THEN AnswerHolds(q, t)
  ELSE AnalysisErrors(q.analysis) = {} => ClosedPlan(q, t) /\ PlanAccepted(q, t) /\ ScriptAccepted(q, t) /\ RevisionKeeps(q, t)
=============================================================================
