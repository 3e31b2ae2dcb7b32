----------------------------- MODULE EventStream ----------------------------
(***************************************************************************)
(* How a project's events reach the browser: requests and activities       *)
(* append them inside their own transactions and number them               *)
(* max(sequence) + 1 under a unique constraint                             *)
(* (src/vidgen/review/events.py), the server streams them in batches or    *)
(* answers polls (apps/api/routes/events.py), and the browser keeps the    *)
(* number of the last one it took and asks again from there, over streams  *)
(* that break and polls that overlap                                       *)
(* (apps/web/src/hooks/useProjectEvents.ts).                               *)
(***************************************************************************)
EXTENDS Naturals, Sequences, FiniteSets, FiniteSetsExt, SequencesExt

CONSTANTS
  Writers,            \* transactions that append events of the project
  MaxEvents,          \* bound: events of the project
  SequenceAttempts,   \* MAX_SEQUENCE_ATTEMPTS
  BatchLimit,         \* the limit of since
  SSEAttempts,        \* MAX_SSE_ATTEMPTS
  Polls,              \* bound: polls on their way at once
  MaxBreaks           \* bound: streams refused, broken or closed, and polls lost

ASSUME EventStreamAssumption ==
  /\ MaxEvents \in Nat /\ MaxBreaks \in Nat
  /\ SequenceAttempts \in Nat \ {0} /\ BatchLimit \in Nat \ {0} /\ SSEAttempts \in Nat \ {0}

VARIABLES
  events,     \* the sequences of the committed events
  writer,     \* per transaction: what it has inserted, what it waits to insert
  stream,     \* the server's end of the stream: open, and its position
  wire,       \* what the stream carries
  browser,    \* the hook: its connection, the last id, the ids it has seen, its attempts
  poll,       \* polls on their way: asked, then answered
  breaks

eventVars == <<events, writer, stream, wire, browser, poll, breaks>>

NoStream == [open |-> FALSE, position |-> 0]
NoPoll == [at |-> "none", cursor |-> 0, items |-> <<>>]
NoWrite == [held |-> {}, wants |-> 0, tries |-> 0]

EventInit ==
  /\ events = {} /\ writer = [w \in Writers |-> NoWrite]
  /\ stream = NoStream /\ wire = <<>>
  /\ browser = [mode |-> "connecting", last |-> 0, seen |-> {}, attempts |-> 0]
  /\ poll = [p \in Polls |-> NoPoll] /\ breaks = 0

-----------------------------------------------------------------------------
\* Mutant: a counter hands out the numbers, as a database sequence would.
CountedSequence(w) == Max({0} \cup events \cup UNION {writer[v].held : v \in Writers})

\* latest_sequence: of the committed events and the transaction's own.
LatestSequence(w) == Max({0} \cup events \cup writer[w].held)

HeldByAnother(w, n) == \E v \in Writers \ {w} : n \in writer[v].held

\* An insert of number n, the t-th retry: behind the uncommitted row of another it
\* waits for it.
Insert(w, n, t) ==
  writer' = [writer EXCEPT ![w] = IF HeldByAnother(w, n) THEN [held |-> @.held, wants |-> n, tries |-> t]
                                  ELSE [held |-> @.held \cup {n}, wants |-> 0, tries |-> 0]]

Append1(w) ==
  /\ writer[w].wants = 0 /\ LatestSequence(w) < MaxEvents
  /\ Insert(w, LatestSequence(w) + 1, 0)
  /\ UNCHANGED <<events, stream, wire, browser, poll, breaks>>

\* The row it waited for is gone, or is committed: then it takes the next number,
\* and gives its whole transaction up when that has happened too often.
Awake(w) ==
  /\ writer[w].wants # 0 /\ ~HeldByAnother(w, writer[w].wants)
  /\ IF writer[w].wants \notin events THEN Insert(w, writer[w].wants, writer[w].tries)
     ELSE IF writer[w].tries + 1 = SequenceAttempts \/ LatestSequence(w) = MaxEvents
       THEN writer' = [writer EXCEPT ![w] = NoWrite]
     ELSE Insert(w, LatestSequence(w) + 1, writer[w].tries + 1)
  /\ UNCHANGED <<events, stream, wire, browser, poll, breaks>>

Ends(w, kept) ==
  /\ writer[w].held # {} /\ (kept => writer[w].wants = 0)
  /\ events' = IF kept THEN events \cup writer[w].held ELSE events
  /\ writer' = [writer EXCEPT ![w] = NoWrite]
  /\ UNCHANGED <<stream, wire, browser, poll, breaks>>

Appends == \E w \in Writers : Append1(w) \/ Awake(w) \/ \E kept \in BOOLEAN : Ends(w, kept)

-----------------------------------------------------------------------------
\* since: the first of the events after a cursor, in order.
Since(cursor) ==
  LET after == {n \in events : n > cursor}
      size  == IF Cardinality(after) < BatchLimit THEN Cardinality(after) ELSE BatchLimit
  IN  [i \in 1..size |-> CHOOSE n \in after : Cardinality({m \in after : m <= n}) = i]

\* publish: each batch in a transaction of its own, from where the last one ended.
ReadBatch ==
  /\ stream.open /\ Since(stream.position) # <<>>
  /\ stream' = [stream EXCEPT !.position = Last(Since(stream.position))]
  /\ wire' = wire \o Since(stream.position)
  /\ UNCHANGED <<events, writer, browser, poll, breaks>>

-----------------------------------------------------------------------------
\* ingest, of events in their order: repeated ones are dropped, the last of the others
\* is where the browser goes on from.
Ingested(b, items) ==
  LET new == items \ b.seen
  IN  [b EXCEPT !.seen = @ \cup new, !.last = IF new = {} THEN @ ELSE Max(new)]

Breaks == breaks < MaxBreaks /\ breaks' = breaks + 1

\* Mutant: the fallback is announced and never started.
FailedForGood(b) == [b EXCEPT !.attempts = @ + 1, !.mode = IF b.attempts + 1 >= SSEAttempts THEN "closed" ELSE "reconnecting"]

\* fail: another attempt, or polling for good.
FailedOnce(b) == [b EXCEPT !.attempts = @ + 1, !.mode = IF b.attempts + 1 >= SSEAttempts THEN "polling" ELSE "reconnecting"]

\* connect: the server answers, from the id the browser sent, and the attempts start anew.
Connect ==
  /\ browser.mode \in {"connecting", "reconnecting"}
  /\ browser' = [browser EXCEPT !.mode = "streaming", !.attempts = 0]
  /\ stream' = [open |-> TRUE, position |-> browser.last] /\ wire' = <<>>
  /\ UNCHANGED <<events, writer, poll, breaks>>

Refused ==
  /\ browser.mode \in {"connecting", "reconnecting"} /\ Breaks
  /\ browser' = FailedOnce(browser)
  /\ UNCHANGED <<events, writer, stream, wire, poll>>

\* A frame is read.
Receive ==
  /\ browser.mode = "streaming" /\ wire # <<>>
  /\ browser' = Ingested(browser, {Head(wire)}) /\ wire' = Tail(wire)
  /\ UNCHANGED <<events, writer, stream, poll, breaks>>

\* The stream ends with what it carried lost: it breaks, which is a failure, or the
\* server closes it, which is not.
Broken(cleanly) ==
  /\ browser.mode = "streaming" /\ Breaks
  /\ (cleanly => wire = <<>>)
  /\ browser' = IF cleanly THEN [browser EXCEPT !.mode = "reconnecting"] ELSE FailedOnce(browser)
  /\ stream' = NoStream /\ wire' = <<>>
  /\ UNCHANGED <<events, writer, poll>>

\* The timer's ticks wait for no answer: polls overlap and are answered in any order.
Tick(p) ==
  /\ browser.mode = "polling" /\ poll[p].at = "none"
  /\ poll' = [poll EXCEPT ![p] = [at |-> "asked", cursor |-> browser.last, items |-> <<>>]]
  /\ UNCHANGED <<events, writer, stream, wire, browser, breaks>>

Answer(p) ==
  /\ poll[p].at = "asked"
  /\ poll' = [poll EXCEPT ![p] = [at |-> "answered", cursor |-> 0, items |-> Since(poll[p].cursor)]]
  /\ UNCHANGED <<events, writer, stream, wire, browser, breaks>>

TakePoll(p) ==
  /\ poll[p].at = "answered"
  /\ browser' = Ingested(browser, Range(poll[p].items))
  /\ poll' = [poll EXCEPT ![p] = NoPoll]
  /\ UNCHANGED <<events, writer, stream, wire, breaks>>

LosePoll(p) ==
  /\ poll[p].at # "none" /\ Breaks
  /\ poll' = [poll EXCEPT ![p] = NoPoll]
  /\ UNCHANGED <<events, writer, stream, wire, browser>>

\* What the server and the browser do by themselves.
EventServes == ReadBatch \/ Connect \/ Receive \/ \E p \in Polls : Tick(p) \/ Answer(p) \/ TakePoll(p)

EventNext ==
  \/ Appends \/ EventServes \/ Refused
  \/ \E cleanly \in BOOLEAN : Broken(cleanly)
  \/ \E p \in Polls : LosePoll(p)

-----------------------------------------------------------------------------
\* Whatever order the transactions commit in and however streams and polls overlap,
\* the browser's cursor never passes an event it has not seen: it asks only for what
\* comes after the cursor, so such an event would never be shown.
NothingSkipped ==
  /\ \A n \in events : n <= browser.last => n \in browser.seen
  /\ browser.seen \subseteq events /\ \A n \in browser.seen : n <= browser.last

\* Every committed event is shown in the end, by the stream or by the polls it falls
\* back to, when streams stop breaking and polls stop being lost.
EventArrives == \A n \in 1..MaxEvents : n \in events ~> n \in browser.seen
=============================================================================
