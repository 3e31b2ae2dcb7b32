------------------------------ MODULE Retimer -------------------------------
(***************************************************************************)
(* How the shots proposed for a narration segment get their exact times    *)
(* (services/storyboard/retimer.py): over-long shots are split at words,   *)
(* over-short ones merged, and each gets a duration the provider offers.   *)
(* Below: what is accepted of a Director's shots in the first place.       *)
(* A unit of time stands for the microseconds of the code; a word is its   *)
(* place in the narration and the time at which it ends.                   *)
(***************************************************************************)
EXTENDS Integers, Sequences, FiniteSets, FiniteSetsExt, SequencesExt

CONSTANTS
  MinShot, MaxShot,  \* the pacing preset's hard bounds
  SnapWindow,        \* how far a cut may move to an approved boundary
  SolverPasses,      \* _MAX_SOLVER_PASSES
  Narrations         \* the narration segments looked at: [ends, length, strong]

\* Providers: the durations they generate, the longest they name, how they trim.
Offer(offers, highest, trimming) == [offers |-> offers, highest |-> highest, trimming |-> trimming]
Capabilities ==
  {Offer({2, 5}, 5, p) : p \in {"none", "trim_start", "trim_center", "trim_end"}} \cup
  {Offer({2, 5}, 6, "trim_end"), Offer({3}, 3, "trim_start"), Offer(1..8, 8, "none")}

\* A proposal takes the words first..last and may overlap its neighbours with a
\* transition.  The director covers the words, leaves one out or runs past the end.
Proposal(first, last, lead, tail) == [first |-> first, last |-> last, lead |-> lead, tail |-> tail]
ProposalsFor(words) ==
  {<<Proposal(1, words, l, 0)>> : l \in {0, 1}} \cup {<<Proposal(1, words + 1, 0, 1)>>, <<Proposal(2, words, 0, 0)>>}
    \cup {<<Proposal(1, k, 1, t), Proposal(k + 1, words, t, 1)>> : k \in 1..(words - 1), t \in {0, 1}}
    \cup {<<Proposal(1, k, 0, 0), Proposal(k + 1, k + 1, 0, 1), Proposal(k + 2, words, 0, 0)>> : k \in 1..(words - 2)}
RetimeQuestions ==
  UNION {[narration : {n}, proposals : ProposalsFor(Len(n.ends)), offer : Capabilities] : n \in Narrations}

Rejected == <<>>

\* _require_contiguous_word_ranges: a last shot that runs over is cut to the end.
Contiguous(proposals, words) ==
  \A i \in DOMAIN proposals :
    /\ proposals[i].first = (IF i = 1 THEN 1 ELSE proposals[i - 1].last + 1)
    /\ i # Len(proposals) => proposals[i].last <= words
    /\ i = Len(proposals) => proposals[i].last >= words

\* _initial_intervals: each shot up to the end of its last word, the last one to
\* the end of the narration.
Intervals(q) ==
  LET n == Len(q.proposals)
      End(i) == IF i = n THEN q.narration.length ELSE q.narration.ends[q.proposals[i].last]
  IN  [i \in 1..n |-> [start |-> IF i = 1 THEN 0 ELSE End(i - 1), end |-> End(i),
                       first |-> q.proposals[i].first, last |-> Min({q.proposals[i].last, Len(q.narration.ends)}),
                       of |-> i, lead |-> TRUE, tail |-> TRUE]]
Length(x) == x.end - x.start

Longest(offer) == Min({MaxShot, offer.highest})
Shortest(offer) == Min({MinShot, Longest(offer)})

\* allocate_residual: the first shares are the longer ones.
Shares(total, parts) == [i \in 1..parts |-> total \div parts + (IF i <= total % parts THEN 1 ELSE 0)]
Ideals(x, parts) ==
  [i \in 1..(parts - 1) |-> x.start + MapThenSumSet(LAMBDA j : Shares(Length(x), parts)[j], 1..i)]

\* _snap_to_boundary: an approved boundary before a nearer word, where one is near.
Distance(a, b) == IF a < b THEN b - a ELSE a - b
Snap(target, usable, narration) ==
  LET near == {w \in usable : Distance(narration.ends[w], target) <= SnapWindow}
      Rank(w) == (IF near # {} /\ w \notin narration.strong THEN 100000 ELSE 0)
                   + Distance(narration.ends[w], target) * 1000 + narration.ends[w] * 10 + w
      pool == IF near # {} THEN near ELSE usable
  IN  CHOOSE w \in pool : \A v \in pool : Rank(w) <= Rank(v)

\* _split_interval: the words a shot is cut after.
Cuts(x, parts, narration) ==
  LET Inside(lower) == {w \in x.first..(x.last - 1) : lower < narration.ends[w] /\ narration.ends[w] < x.end}
      Cut(cuts, target) ==
        LET lower == IF cuts = <<>> THEN x.start ELSE narration.ends[Last(cuts)]
        IN  IF Inside(lower) = {} THEN cuts ELSE Append(cuts, Snap(target, Inside(lower), narration))
  IN  FoldLeft(Cut, <<>>, Ideals(x, parts))

AtWords(x, cuts, narration) ==
  [i \in 1..(Len(cuts) + 1) |->
     [x EXCEPT !.start = IF i = 1 THEN @ ELSE narration.ends[cuts[i - 1]],
               !.first = IF i = 1 THEN @ ELSE cuts[i - 1] + 1,
               !.end   = IF i > Len(cuts) THEN @ ELSE narration.ends[cuts[i]],
               !.last  = IF i > Len(cuts) THEN @ ELSE cuts[i],
               !.lead  = @ /\ i = 1,
               !.tail  = @ /\ i > Len(cuts)]]

\* _split_without_boundaries: a single word is divided evenly.
Evenly(x, parts) ==
  IF x.last > x.first THEN Rejected
  ELSE [i \in 1..parts |-> [x EXCEPT !.start = IF i = 1 THEN @ ELSE Ideals(x, parts)[i - 1],
                                     !.end   = IF i = parts THEN @ ELSE Ideals(x, parts)[i],
                                     !.lead = @ /\ i = 1, !.tail = @ /\ i = parts]]

Pieces(x, longest, narration) ==
  LET parts == (Length(x) + longest - 1) \div longest
      cuts == Cuts(x, parts, narration)
  IN  CASE Length(x) <= longest -> <<x>>
        [] Length(x) > longest /\ cuts # <<>> -> AtWords(x, cuts, narration)
        [] OTHER -> Evenly(x, parts)

Splits(s, longest, narration) ==
  LET pieces == [i \in DOMAIN s |-> Pieces(s[i], longest, narration)]
  IN  IF Rejected \in Range(pieces) THEN Rejected ELSE FlattenSeq(pieces)

\* _merge: the opening of one shot and the close of the next.
Join(left, right) == [left EXCEPT !.end = right.end, !.last = right.last, !.tail = right.tail]

\* _merge_under_long: the first shot that is too short and has a neighbour that is
\* not too long goes into it, the previous one if it can.
RECURSIVE Merges(_, _, _)
Merges(s, shortest, longest) ==
  LET fits(i) == i \in DOMAIN s /\ Length(s[i]) <= longest
      short == {i \in DOMAIN s : Length(s[i]) < shortest /\ (fits(i - 1) \/ fits(i + 1))}
      i == Min(short)
      left == IF fits(i - 1) THEN i - 1 ELSE i
  IN  IF Len(s) = 1 \/ short = {} THEN s
      ELSE Merges(SubSeq(s, 1, left - 1) \o <<Join(s[left], s[left + 1])>> \o SubSeq(s, left + 2, Len(s)),
                  shortest, longest)

\* _solve_durations: until nothing changes.
RECURSIVE Solved(_, _, _)
Solved(s, q, passes) ==
  LET split == Splits(s, Longest(q.offer), q.narration)
      next == Merges(split, Shortest(q.offer), Longest(q.offer))
  IN  CASE passes = 0 \/ split = Rejected -> Rejected
        [] passes # 0 /\ split # Rejected /\ next = s -> s
        [] OTHER -> Solved(next, q, passes - 1)

\* select_generation_duration: the shortest that covers the need, or none.
Generation(need, offer) ==
  LET covering == {d \in offer.offers : d >= need}
  IN  IF need > offer.highest \/ covering = {} THEN 0 ELSE Min(covering)

\* _fit_generation: the transitions give way, the close first, never the narration.
Fits(usable, lead, tail, offer) ==
  LET options == <<<<lead, tail>>, <<lead, 0>>, <<0, 0>>>>
      fitting == {i \in DOMAIN options : Generation(usable + options[i][1] + options[i][2], offer) # 0}
  IN  IF fitting = {} THEN Rejected ELSE options[Min(fitting)]

\* _distribute_trim: what is left over at the head; the rest is at the tail.
HeadSlack(slack, trimming) ==
  CASE trimming = "trim_start" -> slack
    [] trimming = "trim_center" -> slack \div 2
    [] OTHER -> 0

\* _finalize: the one shot, or none; the transitions are those of the proposal it is named for.
Shot(x, q) ==
  LET p == q.proposals[x.of]
      fit == Fits(Length(x), IF x.lead THEN p.lead ELSE 0, IF x.tail THEN p.tail ELSE 0, q.offer)
      generation == Generation(Length(x) + fit[1] + fit[2], q.offer)
      slack == generation - Length(x) - fit[1] - fit[2]
      head == fit[1] + HeadSlack(slack, q.offer.trimming)
  IN  IF fit = Rejected \/ (q.offer.trimming = "none" /\ slack # 0) THEN Rejected
      ELSE <<[start |-> x.start, end |-> x.end, first |-> x.first, last |-> x.last, generation |-> generation,
              head |-> head, tail |-> generation - Length(x) - head, lead |-> fit[1], close |-> fit[2]]>>

\* retime_segment.
Retimed(q) ==
  LET solved == Solved(Intervals(q), q, SolverPasses)
      shots == [i \in DOMAIN solved |-> Shot(solved[i], q)]
  IN  IF ~Contiguous(q.proposals, Len(q.narration.ends)) \/ solved = Rejected \/ Rejected \in Range(shots)
           \/ \E x \in Range(solved) : Length(x) <= 0
        THEN Rejected ELSE FlattenSeq(shots)

\* validate_segment_timing: the solver's answer looked at again without it.
TimingDiagnostics(q, shots) ==
  LET From(i) == IF i = 1 THEN 0 ELSE shots[i - 1].end
      End == IF shots = <<>> THEN 0 ELSE Last(shots).end
  IN  {c \in {"nonpositive_duration", "invalid_overlap", "narration_coverage_gap", "unsupported_provider_duration"} :
        \/ c = "narration_coverage_gap" /\ End # q.narration.length
        \/ \E i \in DOMAIN shots :
             \/ c = "nonpositive_duration" /\ shots[i].end <= shots[i].start
             \/ c = "invalid_overlap" /\ shots[i].start < From(i)
             \/ c = "narration_coverage_gap" /\ shots[i].start > From(i)
             \/ c = "unsupported_provider_duration" /\ shots[i].generation \notin q.offer.offers}

\* timing_is_exact: what a stored shot has to be.
Exact(x) == x.start < x.end /\ x.first <= x.last /\ x.head + x.tail = x.generation - (x.end - x.start)

\* The segments' shots one after the other on the project's timeline.
OnTimeline(segments, length) ==
  FlattenSeq([k \in DOMAIN segments |->
                [i \in DOMAIN segments[k] |-> [segments[k][i] EXCEPT !.start = @ + (k - 1) * length, !.end = @ + (k - 1) * length]]])

\* validate_storyboard and coverage_is_complete: no gap, no overlap, to the last moment.
Complete(entries, total) ==
  /\ \A i \in DOMAIN entries : entries[i].start = (IF i = 1 THEN 0 ELSE entries[i - 1].end)
  /\ Last(entries).end = total

-----------------------------------------------------------------------------
\* The shots are the narration: from its first moment to its last, each from where
\* the one before it ended, every word in its order, cut where a word ends or inside
\* a word both shots name; and each is as much of a clip the provider can make as it uses.
RetimeHolds(q, shots) ==
  shots # Rejected =>
    /\ shots[1].start = 0 /\ Last(shots).end = q.narration.length
    /\ shots[1].first = 1 /\ Last(shots).last = Len(q.narration.ends)
    /\ \A i \in 2..Len(shots) :
         /\ shots[i].start = shots[i - 1].end
         /\ LET w == shots[i - 1].last IN
              \/ shots[i].first = w + 1 /\ shots[i].start = q.narration.ends[w]
              \/ shots[i].first = w /\ (w < Len(q.narration.ends) => shots[i].start < q.narration.ends[w])
    /\ \A x \in Range(shots) :
         /\ x.start < x.end /\ x.generation \in q.offer.offers
         /\ x.head + (x.end - x.start) + x.tail = x.generation
         /\ x.lead <= x.head /\ x.close <= x.tail /\ Exact(x)
    /\ TimingDiagnostics(q, shots) = {}
    /\ Complete(OnTimeline(<<shots, shots>>, q.narration.length), 2 * q.narration.length)

-----------------------------------------------------------------------------
(***************************************************************************)
(* What the storyboard accepts from its Director                           *)
(* (services/storyboard/validator.py, pipeline.py): the shots proposed for *)
(* a narration segment are cut to what the provider takes and checked      *)
(* against it, against the episode and against the state the segment       *)
(* before it handed over.  Two segments in a row, of one or two shots; one *)
(* character stands for the cast, one checked field for the fields.        *)
(***************************************************************************)

CONSTANTS
  DirectionQuestions,  \* the segments looked at, each with what the Director returns
  Successors           \* the shots it then proposes for the next segment

\* What a shot needs and a provider has besides: each by the code of its absence.
Needs == {"unsupported_camera_movement", "unsupported_transition", "missing_evidence_reference"}

\* A continuity state: where, who is there, who wears what, and the notes that
\* explain a change.  The field's value may be left unset.
State(place, present, looks, notes) == [place |-> place, present |-> present, looks |-> looks, notes |-> notes]
Unset == "unset"

Direct(proposals, incoming, handed, takes) ==
  [proposals |-> proposals, incoming |-> incoming, handed |-> handed, takes |-> takes]

\* trim_reference_images: the location stays, the characters are cut to what remains.
Trimmed(p, takes) ==
  LET left == takes.references - (IF p.location # Unset THEN 1 ELSE 0)
  IN  [p EXCEPT !.characters = SubSeq(@, 1, IF left < 0 THEN 0 ELSE IF left < Len(@) THEN left ELSE Len(@))]

\* validate_proposals: what the provider and the episode have no place for.
ProposalDiagnostics(p, takes) ==
  {c \in {"excessive_character_count", "too_many_references", "invalid_character_reference", "invalid_location_reference"} :
     \/ c = "excessive_character_count" /\ Len(p.characters) > takes.characters
     \/ c = "too_many_references" /\ Len(p.characters) + (IF p.location # Unset THEN 1 ELSE 0) > takes.references
     \/ c = "invalid_character_reference" /\ ~(Range(p.characters) \subseteq takes.cast)
     \/ c = "invalid_location_reference" /\ p.location \notin takes.places}
  \cup (p.needs \ takes.has)

\* _continuity_declaration_diagnostics.
Declared(p) ==
  {c \in {"missing_continuity_state", "continuity_contradiction"} :
     \/ c = "missing_continuity_state" /\ ~(Range(p.characters) \subseteq p.enter.present)
     \/ c = "missing_continuity_state" /\ p.enter.place # Unset /\ p.leave.place = Unset
     \/ c = "continuity_contradiction" /\ Unset \notin {p.location, p.enter.place} /\ p.location # p.enter.place}

\* undeclared_character_references.
Undeclared(s) == {"continuity_character_not_present" : look \in {l \in s.looks : l[1] \notin s.present}}

\* _compare_continuity: a field that was set, and a look that both states name.
Unexplained(before, after) ==
  \/ before.place \notin {Unset, after.place} /\ "place" \notin after.notes
  \/ \E l \in before.looks, m \in after.looks : l[1] = m[1] /\ l # m /\ "look" \notin after.notes
Seam(before, after) == IF Unexplained(before, after) THEN {"continuity_contradiction"} ELSE {}

\* _continuity_chain_diagnostics: from what the segment was handed, shot to shot.
Chain(q) ==
  UNION {Seam(IF i = 1 THEN q.incoming ELSE q.proposals[i - 1].leave, q.proposals[i].enter) : i \in DOMAIN q.proposals}

\* Mutant: the state handed on is compared as one shot is with the next.
HandoffRefined(q) == Seam(Last(q.proposals).leave, q.handed)

\* validate_outgoing_handoff: what is handed on is what the last shot leaves, unset or not.
Handoff(q) ==
  LET last == Last(q.proposals).leave
  IN  IF last.place = q.handed.place /\ last.present = q.handed.present /\ last.looks = q.handed.looks
      THEN {} ELSE {"continuity_contradiction"}

\* _retime_and_validate, up to the retimer: what is found, as an error or as a warning.
Problems(q) ==
  LET cut == [i \in DOMAIN q.proposals |-> Trimmed(q.proposals[i], q.takes)]
  IN  UNION {ProposalDiagnostics(p, q.takes) \cup Declared(p) \cup Undeclared(p.enter) \cup Undeclared(p.leave) : p \in Range(cut)}
        \cup Chain(q) \cup Handoff(q) \cup Undeclared(q.handed)

\* _demote: a tolerated code is a warning on the report.
Judged(q, tolerated) ==
  [errors |-> Problems(q) \ tolerated, warnings |-> Problems(q) \cap tolerated,
   shots |-> [i \in DOMAIN q.proposals |-> Trimmed(q.proposals[i], q.takes)], handed |-> q.handed]

\* build_report.
Accepted(report) == report.errors = {}

-----------------------------------------------------------------------------
\* Where two accepted shots meet, within a segment or across two, a change nobody
\* explained is on a report; a provider is asked for no more references than it takes.
DirectionHolds(takes, one, two) ==
  Accepted(one) /\ Accepted(two) =>
    LET met == one.shots \o two.shots IN
    /\ \A i \in 2..Len(met) : Unexplained(met[i - 1].leave, met[i].enter) =>
         "continuity_contradiction" \in one.warnings \cup two.warnings
    /\ \A s \in Range(met) : Len(s.characters) <= takes.references
=============================================================================
