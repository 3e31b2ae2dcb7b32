---------------------------- MODULE MCDecisions -----------------------------
EXTENDS Decisions
F(d, s, c) == [dimension |-> d, severity |-> s, codes |-> c, located |-> TRUE]
SomeFindings == {{}, {F("identity", "hard_failure", {})},
  {F("motion", "hard_failure", {"WRONG_ACTION"}), F("motion", "info", {"AMBIGUOUS_VISUAL_EVIDENCE", "EXCESSIVE_FREEZE"})},
  {F("motion", "hard_failure", {"DURATION_MISMATCH"}), F("identity", "warning", {"WRONG_CHARACTER_IDENTITY", "PROMPT_TOO_COMPLEX"})},
  {[F("motion", "hard_failure", {}) EXCEPT !.located = FALSE], F("identity", "warning", {"WRONG_ACTION", "WRONG_CHARACTER_IDENTITY"})}}
SomeTolerances == {{}, {"EXCESSIVE_FREEZE", "WRONG_ACTION", "AMBIGUOUS_VISUAL_EVIDENCE"}, {"DURATION_MISMATCH", "WRONG_CHARACTER_IDENTITY"}}
SomeSeconds == {NoSecond} \cup {[Unusable EXCEPT !.score = [identity |-> 90, motion |-> m, anatomy |-> 90], !.decided = b, !.findings = f] : m \in {40, 95}, b \in BOOLEAN, f \in {{}, {F("motion", "hard_failure", {})}}}

Ascending(n, d) == {e \in [1..n -> 0..d] : \A i \in 1..(n - 1) : e[i] <= e[i + 1]}
SomeNarrations == UNION {[ends : Ascending(n, d), length : {d}, strong : {{}, {1}}] : n \in 1..3, d \in {1, 6, 9}}

SomeStates == {State("unset", {}, {}, {}), State("inside", {"c"}, {}, {}), State("outside", {"c"}, {<<"c", "torn">>}, {"look"}),
  State("outside", {"c"}, {<<"c", "clean">>}, {"place"}), State("inside", {}, {<<"c", "torn">>}, {"place", "look"})}
Plainly(e, l) == [enter |-> e, leave |-> l, characters |-> <<>>, location |-> "unset", needs |-> {}]
Here == State("inside", {"c"}, {}, {})
Referring == [enter : {Here, State("unset", {"c"}, {}, {})}, leave : {Here},
              characters : {<<"c">>, <<"c", "d">>, <<"d">>}, location : {"unset", "inside", "outside"}, needs : {{}, {"unsupported_transition"}}]
Roomy == [characters |-> 1, references |-> 2, cast |-> {"c"}, places |-> {"unset", "inside"}, has |-> Needs]
SomeDirections ==
  {Direct(<<Plainly(a, b), Plainly(c, d)>>, Here, h, Roomy) : a \in {Here}, b, c, d, h \in SomeStates} \cup
  {Direct(<<Plainly(a, d)>>, i, h, Roomy) : a, d, i, h \in SomeStates} \cup
  {Direct(<<s>>, Here, Here, [Roomy EXCEPT !.references = n, !.has = h]) : s \in Referring, n \in 0..2, h \in {{}, Needs}}
SomeSuccessors == {Plainly(s, Here) : s \in SomeStates}

\* A good project, and what its second shot, its choices and its sounds become.
Verdict(o, h, d) == [outcome |-> o, hard |-> h, decision |-> d]
Passed == Verdict("PASS", FALSE, "none")
Chose(s, a) == [state |-> s, asset |-> a]
Plain == [start |-> 0, end |-> 3, clip |-> "a", length |-> 3, animated |-> TRUE, qa |-> Passed, repairs |-> <<>>]
Good == [script |-> [id |-> "s1", approved |-> TRUE],
         narration |-> [id |-> "n1", script |-> "s1", complete |-> TRUE, timed |-> TRUE, bed |-> TRUE, duration |-> 6, lastWord |-> 6],
         storyboard |-> [id |-> "b1", script |-> "s1", narration |-> "n1", complete |-> TRUE, count |-> 2, duration |-> 6],
         shots |-> <<Plain, [Plain EXCEPT !.start = 3, !.end = 6]>>, governed |-> TRUE, beds |-> <<>>]
Seconds == [clip : {"a", "b"}, qa : {Passed, Verdict("none", FALSE, "none"), Verdict("REVIEW", FALSE, "none"), Verdict("REVIEW", FALSE, "approved"),
              Verdict("FAIL", FALSE, "force_approved"), Verdict("FAIL", TRUE, "force_approved")},
            repairs : {<<>>, <<Chose("LOCKED", "b")>>, <<Chose("LOCKED", "b"), Chose("LOCKED", "a")>>, <<Chose("LOCKED", "none")>>,
              <<Chose("REPAIRING", "none")>>, <<Chose("HUMAN_REVIEW_REQUIRED", "none"), Chose("LOCKED", "a")>>, <<Chose("REPAIR_FAILED", "none")>>}]
Legacy == [Good EXCEPT !.governed = FALSE, !.shots[1].qa = Verdict("none", FALSE, "none"), !.shots[2].qa = Verdict("none", FALSE, "none")]
With(p, c) == [p EXCEPT !.shots[2].clip = c.clip, !.shots[2].qa = c.qa, !.shots[2].repairs = c.repairs]
Shifted == {[Good EXCEPT !.script.approved = FALSE], [Good EXCEPT !.narration.complete = FALSE], [Good EXCEPT !.script.id = "s2"],
  [Good EXCEPT !.narration.id = "n2"], [Good EXCEPT !.storyboard.id = "b2"], [Good EXCEPT !.narration.timed = FALSE], [Good EXCEPT !.narration.bed = FALSE],
  [Good EXCEPT !.storyboard.complete = FALSE], [Good EXCEPT !.storyboard.count = 3], [Good EXCEPT !.narration.duration = 8], [Good EXCEPT !.narration.lastWord = 7],
  [Good EXCEPT !.shots[2].start = 4], [Good EXCEPT !.shots[2].clip = "none"], [Good EXCEPT !.shots[2].animated = FALSE], [Good EXCEPT !.shots[2].length = 5]}
  \cup {[Good EXCEPT !.beds = <<[kind |-> k, shot |-> 2, length |-> l]>>] : k \in {"score", "sfx"}, l \in {3, 6}}
SomeAssemblies == {[at |-> p, now |-> r] : p, r \in {Good} \cup Shifted}
  \cup {[at |-> With(Good, c), now |-> With(Good, d)] : c, d \in Seconds}
  \cup {[at |-> Legacy, now |-> p] : p \in {Legacy, Good}}

Word(size, stops, from, to) == [size |-> size, stops |-> stops, from |-> from, to |-> to]
Timed(sizes, stops, lengths, gaps) ==
  LET at(i) == SumFunction([j \in 1..(i - 1) |-> lengths[j] + gaps[j]]) + gaps[i]
  IN  [i \in DOMAIN sizes |-> Word(sizes[i], stops[i], at(i), at(i) + lengths[i])]
SomeSpeeches ==
  {<<[start |-> 1, end |-> 40, words |-> Timed(s, p, l, g)]>> : s \in [1..3 -> {1, 3, 6}], p \in [1..3 -> BOOLEAN], l \in [1..3 -> {1, 4}], g \in [1..3 -> {0, 3}]}
  \cup {<<[start |-> 0, end |-> 8, words |-> Timed(<<2, 1>>, <<FALSE, b>>, <<4, l>>, <<0, 0>>)], [start |-> 8, end |-> 22, words |-> Timed(<<1, 2, 1, 1>>, <<FALSE, FALSE, FALSE, TRUE>>, <<2, 2, n, 2>>, <<g, 0, 0, 0>>)]>>
          : l \in {0, 2, 7}, g \in {0, 6}, n \in {2, 5}, b \in BOOLEAN}
  \cup {<<[start |-> 0, end |-> 8, words |-> <<>>], [start |-> 8, end |-> 22, words |-> Timed(<<1>>, <<TRUE>>, <<n>>, <<0>>)]>> : n \in {0, 2, 14}}
SomeCaptions == {[segments |-> s, duration |-> 40, language |-> l] : s \in SomeSpeeches, l \in {"en"}} \cup {[segments |-> s, duration |-> d, language |-> l] : s \in {<<[start |-> 1, end |-> 9, words |-> Timed(<<3>>, <<TRUE>>, <<n>>, <<0>>)]>> : n \in {1, 3, 8}}, d \in {9, 10}, l \in {"en", "fr"}}

Planning(mode, rate, shots, beds) == [mode |-> mode, rate |-> rate, shots |-> shots, transitions |-> {"cut"}, narration |-> {<<0, 3>>, <<3, 6>>}, narrations |-> 1, beds |-> beds, length |-> 6]
OfVideo(rate, subs, length, silences) == [video |-> "h264", picture |-> "1080p", audio |-> "aac", sampled |-> 48, subtitles |-> subs, length |-> length, videoLength |-> length, rate |-> rate, decodes |-> TRUE, silences |-> silences]
Beds == {{}, {[start |-> 0, length |-> 6, quiet |-> TRUE, ducked |-> TRUE]}, {[start |-> 3, length |-> 3, quiet |-> FALSE, ducked |-> FALSE]}}
Silences == {{}} \cup {{<<a, b>>} : a \in 0..5, b \in 1..7} \cup {{<<0, a>>, <<b, 6>>} : a \in 1..2, b \in 3..5}
Shapes == {<<<<0, 6>>>>, <<<<0, 2>>, <<2, 6>>>>, [i \in 1..6 |-> <<i - 1, i>>], [i \in 1..5 |-> <<i - 1, IF i = 5 THEN 6 ELSE i>>]}
SomeDeliveries ==
  {[plan |-> Planning(mode, r, Len(c), b), measured |-> OfVideo(n, s, d, {}), cut |-> c]
     : mode \in {"selectable", "burn_in", "both"}, r, n \in {24, 30}, s \in 0..1, d \in 2..10, b \in Beds, c \in Shapes}
  \cup {[plan |-> Planning("both", 24, 1, {}), measured |-> OfVideo(24, 1, 6, s), cut |-> <<<<0, 6>>>>] : s \in {x \in Silences : \A i \in x : i[1] < i[2]}}
  \cup {[plan |-> Planning("both", 24, 1, {}), measured |-> m, cut |-> <<<<0, 6>>>>]
     : m \in {[OfVideo(24, 1, 6, {}) EXCEPT !.video = "hevc"], [OfVideo(24, 1, 6, {}) EXCEPT !.audio = "mp3"], [OfVideo(24, 1, 6, {}) EXCEPT !.decodes = FALSE], [OfVideo(24, 1, 6, {}) EXCEPT !.picture = "720p"], [OfVideo(24, 1, 6, {}) EXCEPT !.videoLength = 1]}}

Edits == {e \in [kind : {"transcript", "script", "version", "shot", "attempt"}, asked : 1..3, landed : 1..3] : e.asked <= e.landed /\ (e.kind # "shot" => e.asked = e.landed)}
Lacks == {"project", "selection", "completion", "report", "asset", "blob", "media type", "size", "approval", "final run", "gate", "repair answer",
          "captions", "caption asset", "caption size", "thumbnail asset", "thumbnail type", "thumbnail size", "connection", "grant", "ownership"}
History(e, l, t) == [about |-> "eligible", project |-> Good, edits |-> e, lacks |-> l, twin |-> t, scopes |-> {"upload", "force-ssl", "readonly"}]
Says(s, l) == [shown |-> s, letters |-> l]
Names == {<<Says(3, 3)>>, <<Says(90, 90)>>, <<Says(120, 110)>>, <<Says(0, 0)>>, <<Says(2, 0), Says(70, 70), Says(6, 6)>>, <<Says(60, 60), Says(25, 2), Says(40, 31)>>,
          [i \in 1..30 |-> Says(7, 7)], [i \in 1..30 |-> Says(5 + i, 5 + i)], [i \in 1..70 |-> Says(3 + (i % 9), 3 + i)]}
Discloses == {[schedule |-> s, requested |-> p, synthetic |-> b, kids |-> FALSE] : s \in BOOLEAN, p \in {"private", "public"}, b \in BOOLEAN}
Does(do, d, p, s) == [do |-> do, draft |-> d, privacy |-> p, schedule |-> s]
FirstOf == CHOOSE d \in Discloses : ~d.schedule /\ d.requested = "private" /\ d.synthetic
Ops == {Does("edit", d, "private", FALSE) : d \in Discloses} \cup {Does(do, FirstOf, "private", FALSE) : do \in {"upload", "elapse"}}
       \cup {Does("show", FirstOf, p, s) : p \in {"private", "unlisted", "public"}, s \in BOOLEAN}
Replies == {"taken", "partly", "unheard", "400", "401", "403", "403 quotaExceeded", "410", "500"}
SomePublishing ==
  {History(e, {}, t) : e \in {{}} \cup {{a, b} : a, b \in Edits}, t \in BOOLEAN} \cup {History({}, {k, l}, FALSE) : k, l \in Lacks}
  \cup {[History({}, {}, FALSE) EXCEPT !.scopes = s] : s \in SUBSET {"upload", "force-ssl", "readonly"}}
  \cup {[about |-> "draft", name |-> n, style |-> s] : n, s \in Names}
  \cup {[about |-> "transfer", total |-> n, chunk |-> c, scripts |-> <<s, <<f, "taken">>, <<"taken", "taken", "taken">>>>]
          : n \in {3, 12, 15, 33}, c \in {1, 5, 8, 40}, s \in [1..2 -> Replies], f \in Replies}
  \cup {[about |-> "writes", draft |-> d, ops |-> o] : d \in {x \in Discloses : x.schedule => x.requested = "public"}, o \in [1..3 -> Ops]}

Beat(must, worth, payoff, barred, summary, scenes) == [must |-> must, worth |-> worth, payoff |-> payoff, barred |-> barred, summary |-> summary, scenes |-> scenes]
Episode(beats, causes, scenes) == [beats |-> beats, causes |-> causes, scenes |-> scenes, evidence |-> 1..2]
Middles == {Beat(m, w, 8, FALSE, 12, {2}) : m \in BOOLEAN, w \in {2, 9}} \cup {Beat(FALSE, 14, 2, b, 60, {1}) : b \in BOOLEAN}
First == Beat(TRUE, 8, 4, FALSE, 20, {1})
LastBeat == Beat(FALSE, 3, 6, FALSE, 4, {1})
Asks(words, required, duration) == [words |-> words, pace |-> 400, required |-> required, humor |-> TRUE, duration |-> duration]
Dependencies == {{}, {<<1, 2>>, <<2, 5>>}, {<<2, 3>>, <<3, 4>>}, {<<3, 6>>, <<4, 5>>, <<2, 4>>}, {<<4, 3>>}, {<<7, 3>>}, {<<3, 5>>, <<5, 3>>}}
Episodes == {Episode(<<First>> \o m \o <<Beat(FALSE, 5, 5, FALSE, 9, {1}), LastBeat>>, d, s) : m \in [1..3 -> Middles], d \in Dependencies, s \in {{1, 2}}}
            \cup {Episode(<<First, Beat(m, 9, 8, FALSE, 12, {2}), LastBeat>>, {}, s) : m \in BOOLEAN, s \in {{1}, {1, 2}, {1, 3}}}
            \cup {Episode(<<LastBeat>>, {}, {1})}
Joke(t, c) == [type |-> t, claims |-> c]
Said(id, kind, words, jokes) == [id |-> id, kind |-> kind, words |-> words, jokes |-> jokes]
Jokes == {<<>>, <<Joke("callback", "c")>>, <<Joke("analogy", "c"), Joke("contrast", "c")>>, <<Joke("contrast", "c"), Joke("callback", "c")>>, <<Joke("analogy", "d")>>}
Lines(id) == {Said(id, "NARRATION", 4, j) : j \in Jokes} \cup {Said(id, "NARRATION", 0, <<>>), Said(id, "PAUSE", 0, <<>>), Said(id, "PAUSE", 2, <<>>), Said(id, "GAG", 0, <<Joke("callback", "c")>>)}
Pays(c, s, p) == [id |-> c, setup |-> s, payoff |-> p]
SomeScripts ==
  {[about |-> "episode", analysis |-> e, request |-> Asks(w, {}, 400 * w), locks |-> {}] : e \in Episodes, w \in {100, 300}}
  \cup {[about |-> "episode", analysis |-> e, request |-> Asks(w, r, d), locks |-> l]
          : e \in {f \in Episodes : Len(f.beats) = 3 \/ (Len(f.beats) = 6 /\ f.beats[2] = f.beats[4] /\ f.beats[3].must)}, w \in {139, 140}, r \in {{}, {2}}, d \in {50000, 60000}, l \in {{1}, {2, 3}}}
  \cup {[about |-> "answer", adapter |-> b, draft |-> f, answer |-> [segments |-> <<x, y, z>>, callbacks |-> c, count |-> n]]
          : b \in BOOLEAN, f \in BOOLEAN, x \in Lines(1), y \in Lines(2), z \in Lines(3), n \in {8},
            c \in {{}, {Pays("c", 1, 3)}, {Pays("c", 1, 2), Pays("d", 2, 3)}}}

\* A project walks through a stage, its rows moving one step at a time.
Idle == [status |-> "none", born |-> 0, at |-> 0, done |-> 0, total |-> 0]
NoShots == [total |-> 0, keyframed |-> 0, animated |-> 0, reviewed |-> 0, at |-> 0]
NoSheets == [required |-> 0, generated |-> 0, approved |-> 0, bound |-> 0, at |-> 0]
NewProject == [status |-> "uploaded", at |-> 1, media |-> Idle, subtitle |-> Idle, audio |-> Idle, evidence |-> Idle, analysis |-> Idle, script |-> Idle,
  narration |-> Idle, storyboard |-> Idle, sheets |-> NoSheets, shots |-> NoShots, render |-> Idle, final |-> Idle]
Ended(r) == [status |-> r, born |-> 2, at |-> 3, done |-> 2, total |-> 2]
Older == [NewProject EXCEPT !.status = "storyboard_complete", !.at = 2, !.audio = Ended("transcribed"), !.evidence = Ended("complete"), !.analysis = Ended("episode_analyzed"),
  !.script = Ended("script_approved"), !.narration = Ended("narration_complete"), !.storyboard = Ended("storyboard_complete"), !.shots.total = 2]
Drawn(k, a, r, t) == [total |-> 2, keyframed |-> k, animated |-> a, reviewed |-> r, at |-> t]
\* Of a step: the project's status and the run's status, "-" when it is not written, and the count.
E(p, r, d) == [p |-> p, r |-> r, d |-> d]
Moved(p, f, e, t) ==
  LET run == [p[f] EXCEPT !.status = IF e.r = "-" THEN @ ELSE e.r, !.born = IF @ = 0 THEN t ELSE @, !.done = e.d, !.total = 2,
                          !.at = IF e.r # "-" \/ e.d # p[f].done THEN t + 1 ELSE @]
  IN  [[p EXCEPT ![f] = run] EXCEPT !.status = IF e.p = "-" THEN @ ELSE e.p, !.at = IF e.p = "-" THEN @ ELSE t]
Path(f) ==
  CASE f = "media" -> <<E("probing", "-", 0), E("extracting_audio", "-", 0), E("detecting_scenes", "-", 0), E("extracting_frames", "-", 0), E("media_ready", "-", 2)>>
    [] f = "subtitle" -> <<E("subtitle_discovery", "subtitle_discovery", 0), E("subtitle_validating", "subtitle_validating", 0), E("subtitle_searching", "subtitle_searching", 0),
         E("subtitle_unavailable", "subtitle_unavailable", 0)>>
    [] f = "audio" -> <<E("transcription_chunking", "transcription_chunking", 0), E("transcribing", "transcribing", 0), E("-", "-", 1), E("diarizing", "diarizing", 1),
         E("transcript_merging", "transcript_merging", 2), E("transcribed", "transcribed", 2)>>
    [] f = "analysis" -> <<E("episode_scene_mapping", "episode_scene_mapping", 0), E("-", "-", 1), E("episode_global_reduction", "episode_global_reduction", 2),
         E("episode_analysis_validating", "episode_analysis_validating", 2), E("episode_analyzed", "episode_analyzed", 2)>>
    [] f = "script" -> <<E("compressing_plot", "compressing_plot", 0), E("plot_compressed", "plot_compressed", 0), E("comedy_writing", "comedy_writing", 0),
         E("script_review_required", "script_review_required", 0), E("script_validating", "script_validating", 0), E("comedy_editing", "comedy_editing", 0), E("-", "-", 1),
         E("script_review_required", "script_review_required", 1)>>
    [] f = "narration" -> <<E("narration_generating", "narration_generating", 0), E("narration_aligning", "-", 0), E("narration_validating", "-", 0), E("-", "-", 1),
         E("narration_previewing", "narration_previewing", 2), E("narration_complete", "narration_complete", 2)>>
    [] f = "storyboard" -> <<E("storyboard_directing", "storyboard_directing", 0), E("storyboard_validating", "-", 1), E("storyboard_directing", "-", 1),
         E("storyboard_validating", "-", 2), E("storyboard_complete", "storyboard_complete", 2)>>
    [] f = "render" -> <<E("-", "render_queued", 0), E("-", "render_preparing", 10), E("-", "render_rendering", 40), E("-", "render_complete", 100)>>
    [] f = "final" -> <<E("-", "FINAL_QA_VALIDATING_INPUTS", 0), E("-", "FINAL_QA_CHECKING_MEDIA", 1), E("-", "FINAL_QA_PASSED", 2)>>
Breaks(f) ==
  CASE f = "media" -> E("media_failed", "-", 0) [] f = "subtitle" -> E("subtitle_failed", "subtitle_failed", 0) [] f = "audio" -> E("transcription_failed", "transcription_failed", 0)
    [] f = "analysis" -> E("episode_analysis_failed", "episode_analysis_failed", 0) [] f = "script" -> E("script_generation_failed", "script_generation_failed", 0)
    [] f = "narration" -> E("narration_failed", "narration_failed", 0) [] f = "storyboard" -> E("storyboard_failed", "storyboard_failed", 0)
    [] f = "render" -> E("-", "render_failed", 0) [] f = "final" -> E("-", "FINAL_QA_FAILED", 0)
StageOf == [media |-> "media_processing", subtitle |-> "transcript_acquisition", audio |-> "transcript_acquisition", analysis |-> "episode_analysis", script |-> "script_generation",
  narration |-> "narration", storyboard |-> "storyboard", render |-> "rendering", final |-> "final_qa"]
Walked(p, f) == LET go[i \in 0..Len(Path(f))] == IF i = 0 THEN p ELSE Moved(go[i - 1], f, Path(f)[i], 10 * i) IN go
Begun == [media |-> NewProject, subtitle |-> [NewProject EXCEPT !.status = "media_ready"], audio |-> Walked([NewProject EXCEPT !.status = "media_ready"], "subtitle")[4],
          analysis |-> [NewProject EXCEPT !.status = "transcribed", !.audio = Ended("transcribed"), !.evidence = Ended("complete")],
          script |-> [Older EXCEPT !.status = "episode_analyzed", !.script = Idle, !.narration = Idle, !.storyboard = Idle, !.shots = NoShots],
          narration |-> [Older EXCEPT !.status = "script_approved", !.narration = Idle, !.storyboard = Idle, !.shots = NoShots],
          storyboard |-> [Older EXCEPT !.status = "narration_complete", !.storyboard = Idle, !.shots = NoShots],
          render |-> [Older EXCEPT !.status = "shot_generation_complete", !.shots = Drawn(2, 2, 2, 5)],
          final |-> [Older EXCEPT !.status = "shot_generation_complete", !.shots = Drawn(2, 2, 2, 5), !.render = [Ended("render_complete") EXCEPT !.at = 7]]]
\* Told again: a narration made anew for a project whose shots are done.
Remade == [Older EXCEPT !.status = "shot_generation_complete", !.at = 6, !.shots = Drawn(2, 2, 2, 5), !.narration = Idle]
Bars(p, f) == LET w == Walked(p, f) IN
  {[about |-> "bar", before |-> IF i = 1 THEN p ELSE w[i - 1], after |-> w[i], moved |-> StageOf[f]] : i \in 1..Len(Path(f))}
  \cup {[about |-> "bar", before |-> w[i], after |-> Moved(w[i], f, [Breaks(f) EXCEPT !.d = w[i][f].done], 10 * i + 5), moved |-> StageOf[f]] : i \in 1..(Len(Path(f)) - 1)}
ShotSteps == <<<<"keyframes_generating", 0, 0, 0>>, <<"keyframes_complete", 1, 0, 0>>, <<"animation_polling", 1, 0, 0>>, <<"animation_complete", 1, 1, 0>>, <<"keyframes_generating", 1, 1, 0>>,
  <<"keyframes_complete", 2, 1, 1>>, <<"animation_trimming", 2, 1, 1>>, <<"animation_complete", 2, 2, 1>>, <<"animation_complete", 2, 2, 2>>, <<"shot_generation_complete", 2, 2, 2>>>>
ShotAt(i, s, t) == [Older EXCEPT !.status = s, !.at = t, !.shots = Drawn(ShotSteps[i][2], ShotSteps[i][3], ShotSteps[i][4], t)]
SheetSteps == <<<<0, 0, 0>>, <<1, 0, 0>>, <<2, 0, 0>>, <<2, 1, 0>>, <<2, 2, 0>>, <<2, 2, 2>>>>
SheetAt(i) == [Older EXCEPT !.sheets = [required |-> 2, generated |-> SheetSteps[i][1], approved |-> SheetSteps[i][2], bound |-> SheetSteps[i][3], at |-> 10 * i]]
SomeBars == UNION {Bars(Begun[f], f) : f \in DOMAIN Begun} \cup Bars(Remade, "narration")
  \cup {[about |-> "bar", before |-> ShotAt(i, ShotSteps[i][1], 10 * i), after |-> ShotAt(i + 1, ShotSteps[i + 1][1], 10 * i + 10), moved |-> "shot_generation"] : i \in 1..9}
  \cup {[about |-> "bar", before |-> ShotAt(i, ShotSteps[i][1], 10 * i), after |-> ShotAt(i, s, 10 * i + 10), moved |-> "shot_generation"] : i \in 1..9, s \in {"shot_generation_failed", "shot_generation_partial", "shot_generation_cancelled"}}
  \cup {[about |-> "bar", before |-> SheetAt(i), after |-> SheetAt(i + 1), moved |-> "references"] : i \in 1..5}

Ev(s, f, k, g) == [stage |-> s, failed |-> f, key |-> k, gap |-> g]
Happenings == {Ev("narration", TRUE, "g1:narration", TRUE), Ev("script_generation", TRUE, "g1:write", FALSE), Ev("narration", FALSE, "-", TRUE), Ev("narration", TRUE, "g2:narration", TRUE),
  Ev("shot_generation", TRUE, "fanout", TRUE), Ev("shot_generation", FALSE, "-", TRUE), Ev("rendering", TRUE, "g1:render", TRUE), Ev("script_generation", FALSE, "-", TRUE)}
Flow(s, c, x) == [status |-> s, completed |-> c, cancelled |-> x]
Unasked == Flow("none", {}, FALSE)
SomeRuns == {[about |-> "run", run |-> r, status |-> "narration_failed", flow |-> Unasked, history |-> h] : r \in {"failed", "running", "cancelled", "shot_generation_failed", "completed"}, h \in UNION {[1..n -> Happenings] : n \in 0..3}}
  \cup {[about |-> "run", run |-> r, status |-> s, flow |-> f, history |-> h] : r \in {"none", "running", "completed", "cancelled"}, s \in {"final_qa_passed", "storyboard_complete"}, h \in {<<>>} \cup {<<e>> : e \in Happenings},
       f \in {Unasked, Flow("storyboard", {"narration"}, FALSE), Flow("render_failed", {"narration", "shot_generation"}, FALSE), Flow("shot_generation_failed", {"narration", "shot_generation"}, FALSE), Flow("cancelled", {"upload", "media_processing"}, TRUE)}}
Cm(o, s) == [on |-> o, status |-> s]
SomeCommands == {c \in UNION {[1..n -> {Cm(o, s) : o \in {"shot", "remediation"}, s \in {"pending", "running", "awaiting_review", "failed", "completed", "cancelled", "superseded"}}] : n \in 0..3} :
                  \A i, j \in DOMAIN c : i # j /\ c[i].on = c[j].on => ~(c[i].status \in {"pending", "running", "awaiting_review"} /\ c[j].status \in {"pending", "running", "awaiting_review"})}
SomeShots == {[about |-> "shot", commands |-> c, item |-> "failed", error |-> TRUE, clips |-> <<>>, selected |-> "none"] : c \in SomeCommands}
  \cup {[about |-> "shot", commands |-> <<>>, item |-> i, error |-> FALSE, clips |-> <<"a", "b">>, selected |-> s] : i \in {"none", "completed"}, s \in {"a", "b", "none"}}
SomeRenders == {[about |-> "render", status |-> s, report |-> r, video |-> v, invalidated |-> x, identity |-> "r1", captions |-> c, clips |-> k, approved |-> a, percent |-> 100] :
  s \in {"render_complete", "render_rendering"}, r, v, x \in BOOLEAN, c \in {"c1", "none"}, k \in {{"a"}, {"b"}}, a \in {<<>>, <<<<"r1", "c1", {"a"}>>>>, <<<<"r1", "c1", {"a"}>>, <<"r1", "c1", {"b"}>>>>}}
SomeDashboards == SomeBars \cup SomeRuns \cup SomeShots \cup SomeRenders

\* A project as far as it came, another one, and what a worker adds meanwhile.
At(t, p, n, refs, says) == [table |-> t, id |-> p \o n, refs |-> refs, says |-> says]
UploadedRows(p) == {[table |-> "projects", id |-> p, refs |-> <<>>, says |-> "-"], At("assets", p, "v", [project |-> p], "film"),
  At("source_videos", p, "s", [project |-> p, asset |-> p \o "v"], "-")}
BoardedRows(p) == {At("scripts", p, "1", [project |-> p, parent |-> "-"], "-"), At("scripts", p, "2", [project |-> p, parent |-> p \o "1"], "-"), At("assets", p, "k", [project |-> p], p \o "file"),
  At("asset_dependencies", p, "d", [asset |-> p \o "k", parent |-> p \o "v"], "-"), At("storyboard_runs", p, "b", [project |-> p, script |-> p \o "2", manifest |-> p \o "k"], "-"),
  At("storyboard_shots", p, "h", [run |-> p \o "b"], "-")}
AnimatedRows(p) == {At("animation_items", p, "i", [shot |-> p \o "h", keyframe |-> p \o "k", selected_video |-> p \o "g"], "-"),
  At("animation_generated_videos", p, "g", [project |-> p, item |-> p \o "i", asset |-> p \o "k"], "-"),
  At("visual_qa_runs", p, "q", [project |-> p, shot |-> p \o "h", selected_result |-> p \o "r"], "-"), At("visual_qa_results", p, "r", [run |-> p \o "q"], "-")}
RepairedRows(p, tries, locked) ==
  {At("repair_runs", p, "x", [project |-> p, shot |-> p \o "h", root |-> p \o "g", triggering_result |-> p \o "r",
     selected_attempt |-> IF locked THEN p \o "1" ELSE "-", final_result |-> IF locked THEN p \o "r" ELSE "-"], IF locked THEN "LOCKED" ELSE "REPAIRING"),
   At("repair_attempts", p, "0", [run |-> p \o "x", predecessor |-> "-", output_result |-> "-"], "original")}
  \cup (IF tries = 0 THEN {} ELSE {At("repair_attempts", p, "1", [run |-> p \o "x", predecessor |-> p \o "0", output_result |-> IF locked THEN p \o "r" ELSE "-"], IF locked THEN "selected" ELSE "tried")})
Stages(p) == <<UploadedRows(p), UploadedRows(p) \cup BoardedRows(p), UploadedRows(p) \cup BoardedRows(p) \cup AnimatedRows(p)>>
Projects(p) == {Stages(p)[i] : i \in 1..3} \cup {Stages(p)[3] \cup RepairedRows(p, t, l) : t \in {0, 1}, l \in {FALSE}} \cup {Stages(p)[3] \cup RepairedRows(p, 1, TRUE)}
Borrowed == {{}, {At("source_videos", "B", "z", [project |-> "B", asset |-> "Av"], "-")}}
Later == {{}, {At("assets", "A", "l", [project |-> "A"], "new")}, {At("source_videos", "A", "l", [project |-> "A", asset |-> "Av"], "-")}, {At("scripts", "A", "3", [project |-> "A", parent |-> "A1"], "-")},
  {At("asset_dependencies", "A", "e", [asset |-> "Bv", parent |-> "Av"], "-")}}
SomeDeletions == {[project |-> "A", rows |-> a \cup b \cup x, late |-> l] : a \in Projects("A"), b \in Projects("B"), x \in Borrowed, l \in Later}

\* Clips of twelve and seventeen frames, whose containers say a little less or more.
SomeSamplings ==
  {[clip |-> [frames |-> n, duration |-> 4 * n + off - 3, budget |-> b, busiest |-> <<4 * i, 4 * j>>, stillest |-> <<4 * (n - 1), 4>>, warned |-> w],
    shot |-> [moves |-> m, enters |-> e, leaves |-> l]] :
     n \in {12, 17}, off \in {0, 3, 7}, b \in {8, 32}, i \in {1, 6, 11}, j \in {2, 10}, w \in {{}, {4, 44}, {20}}, m \in BOOLEAN, e \in {0, 5}, l \in {0, 6}}
\* The ends of what an identity's bytes can be, and stills and shots of each kind.
SomeIdentities == {[direction |-> a, depth |-> b, pan |-> c, drift |-> d, slope |-> e] : a, e \in {0, 255}, b, c, d \in {0, 255}}
AStill(j, h, c) == [judged |-> j, hard |-> h, codes |-> c]
SomeParallaxes ==
  {[id |-> i, duration |-> d, rate |-> 24, action |-> "quiet", note |-> "quiet", still |-> AStill(TRUE, FALSE, {"STYLE_DRIFT"})] :
     i \in SomeIdentities, d \in {2000000, 2345678, 2041667}} \cup
  {[id |-> CHOOSE i \in SomeIdentities : TRUE, duration |-> 2000001, rate |-> r, action |-> a, note |-> n, still |-> AStill(j, h, c)] :
     r \in {24, 30}, a, n \in {"quiet", "physical"}, j, h \in BOOLEAN, c \in {{}, {"STYLE_DRIFT"}, {"WRONG_LOCATION", "STYLE_DRIFT"}}}
\* Clips around the prices of five seconds (50 and 120) and the longest clip.
SomeClips == [mode : {"economy", "balanced", "premium"}, asked : {"none", "turbo", "gen45"}, hero : BOOLEAN, escalated : {FALSE}, ordinal : {0}, most : {2},
  length : {1, 9, 20, 21}, fits : BOOLEAN, runway : {TRUE}, enforced : BOOLEAN, remaining : {0, 49, 50, 119, 120}, cap : {120, 240}, fallback : BOOLEAN]
SomeFakeClips == {[c EXCEPT !.runway = FALSE] : c \in {d \in SomeClips : ~d.enforced /\ d.remaining = 0 /\ d.cap = 120}}
SomeRepairs == {q \in [about : {"repair"}, mode : {"economy", "balanced", "premium"}, hero : BOOLEAN, length : {9}, runway : BOOLEAN, budget : BOOLEAN, used : {0, 1}, most : {1, 2},
  remaining : {0, 49, 50, 120}, later : {0, 49, 50, 119, 120}, cap : {120, 240}, fallback : BOOLEAN, spent : {0, 50}, limits : {{}, {120}, {240, 100}}] : q.used < q.most}
SomeRoutings == {[about |-> "clip", context |-> c] : c \in SomeClips \cup SomeFakeClips} \cup SomeRepairs
=============================================================================
