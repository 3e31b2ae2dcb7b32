--------------------------- MODULE OwnerWorkProofs ---------------------------
(***************************************************************************)
(* Theorems about what an owner works with directly: the upload, the       *)
(* reference sheets, the YouTube channel and the project's events, for     *)
(* every set of parts, requests, sheets, consents, writers and polls, and  *)
(* every value of the bounds.                                              *)
(***************************************************************************)
EXTENDS OwnerWork, FiniteSetTheorems, TLAPS

-----------------------------------------------------------------------------
(* The upload. *)

Stages == {"none", "waiting", "assembling", "stored", "sweeping", "answered", "refused", "error"}

PartRequest == [at : {"none", "streamed", "locked", "placed", "done", "refused", "error"},
                part : {NoRequest.part} \cup Parts, content : Content, awaited : BOOLEAN]

UploadTyped ==
  /\ kept \in [Parts -> Content \cup {"none"}] /\ file \in [Parts -> Content \cup {"none"}]
  /\ request \in [Requests -> PartRequest]
  /\ finalizer \in [Finalizers -> Stages]

\* One finalisation at a time is past its lock, and what it assembled is verified.
FinalizedOnce ==
  /\ \A f, g \in Finalizers :
       finalizer[f] \in {"assembling", "stored", "sweeping"} /\ finalizer[g] \in {"assembling", "stored", "sweeping"} => f = g
  /\ \A f \in Finalizers : finalizer[f] \in {"assembling", "stored"} => upload = "finalizing"
  /\ \A f \in Finalizers : finalizer[f] = "stored" => assembled = Whole

Works(r) == request[r].at \in {"locked", "placed"}

\* One request of a part is past its lock, and a file that has been put in place
\* before its row holds what that row will say.
PlacedAlone ==
  /\ \A q, r \in Requests : Works(q) /\ Works(r) /\ request[q].part = request[r].part => q = r
  /\ \A r \in Requests : request[r].at = "none" => request[r].awaited = FALSE
  /\ \A r \in Requests : request[r].at # "none" => request[r].part \in Parts
  /\ \A r \in Requests : request[r].at = "placed" =>
       /\ kept[request[r].part] = "none"
       /\ file[request[r].part] \in {request[r].content, "none"}

UploadInv == UploadTyped /\ FinalizedOnce /\ PlacedAlone /\ UploadIsVerified /\ PartIsItsRow

LEMMA UploadStarts == UploadInit => UploadInv
BY DEF UploadInit, UploadInv, UploadTyped, FinalizedOnce, PlacedAlone, UploadIsVerified, PartIsItsRow,
   Works, NoRequest, NotAssembled, PartRequest, Content, Stages, Whole

\* What one component of one request becomes leaves the rest of the requests alone.
LEMMA MovedRequest ==
  ASSUME UploadTyped, NEW r \in Requests,
         NEW to \in {"none", "streamed", "locked", "placed", "done", "refused", "error"}, Moves(r, to)
  PROVE  /\ \A q \in Requests \ {r} : request'[q] = request[q]
         /\ request'[r].at = to /\ request'[r].part = request[r].part
         /\ request'[r].content = request[r].content /\ request'[r].awaited = request[r].awaited
         /\ request' \in [Requests -> PartRequest]
BY DEF UploadTyped, Moves, PartRequest

LEMMA AbandonedRequest ==
  ASSUME UploadTyped, NEW R \in SUBSET Requests,
         request' = [r \in Requests |-> IF r \in R THEN [request[r] EXCEPT !.awaited = FALSE] ELSE request[r]]
  PROVE  /\ \A q \in Requests : request'[q].at = request[q].at /\ request'[q].part = request[q].part
                                /\ request'[q].content = request[q].content
                                /\ request'[q].awaited \in {request[q].awaited, FALSE}
         /\ request' \in [Requests -> PartRequest]
BY DEF UploadTyped, PartRequest

Idles(q) ==
  /\ request'[q].part = request[q].part /\ request'[q].content = request[q].content
  /\ request'[q].at \in {request[q].at, "done", "error", "refused"}
  /\ request'[q].awaited \in {request[q].awaited, FALSE}
  /\ request[q].at = "none" => request'[q].at = "none"

\* Nothing but requests that do no work, or work on as they did, changes.
LEMMA IdleRequests ==
  ASSUME UploadInv, UNCHANGED <<upload, kept, file, assembled, asset, finalizer>>, UploadTyped',
         \A q \in Requests : Idles(q)
  PROVE  UploadInv'
<1> USE DEF UploadInv, FinalizedOnce, UploadIsVerified, PartIsItsRow, Idles
<1>1. FinalizedOnce' /\ UploadIsVerified' /\ PartIsItsRow' OBVIOUS
<1>2. \A q \in Requests : Works(q)' => Works(q) BY DEF Works
<1>3. \A q \in Requests : request'[q].at = "none" => request[q].at = "none" OBVIOUS
<1>4. PlacedAlone'
  <2> USE DEF PlacedAlone
  <2>1. \A q, r \in Requests : Works(q)' /\ Works(r)' /\ request'[q].part = request'[r].part => q = r BY <1>2
  <2>2. \A r \in Requests : request'[r].at = "none" => request'[r].awaited = FALSE BY <1>3
  <2>3. \A r \in Requests : request'[r].at # "none" => request'[r].part \in Parts OBVIOUS
  <2>4. \A r \in Requests : request'[r].at = "placed" => request[r].at = "placed" OBVIOUS
  <2> QED BY <2>1, <2>2, <2>3, <2>4
<1> QED BY <1>1, <1>4

\* The browser's own steps: a part is sent, an answer is heard or lost, the upload is
\* started again or cancelled.
LEMMA BrowserStep ==
  ASSUME UploadInv,
         \/ StartUpload \/ CancelUpload \/ LoseFinalize
         \/ \E r \in Requests, p \in Parts, c \in Content : SendPart(r, p, c)
         \/ \E r \in Requests : HearPart(r) \/ LosePart(r)
         \/ \E f \in Finalizers : AskFinalize(f) \/ HearFinalize(f)
  PROVE  UploadInv'
<1> USE DEF UploadInv, UploadTyped, FinalizedOnce, PlacedAlone, UploadIsVerified, PartIsItsRow, Works
<1>1. CASE StartUpload BY <1>1 DEF StartUpload
<1>2. CASE CancelUpload
  <2>1. request' = [r \in Requests |-> IF r \in Requests THEN [request[r] EXCEPT !.awaited = FALSE] ELSE request[r]]
    BY <1>2 DEF CancelUpload
  <2>2. UNCHANGED <<upload, kept, file, assembled, asset, finalizer>> BY <1>2 DEF CancelUpload
  <2>3. UploadTyped' BY <2>1, <2>2, AbandonedRequest
  <2>4. \A q \in Requests : Idles(q) BY <2>1, AbandonedRequest DEF Idles
  <2> QED BY <2>2, <2>3, <2>4, IdleRequests
<1>3. CASE LoseFinalize BY <1>3 DEF LoseFinalize
<1>4. ASSUME NEW r \in Requests, NEW p \in Parts, NEW c \in Content, SendPart(r, p, c) PROVE UploadInv'
  BY <1>4 DEF SendPart, PartRequest
<1>5. ASSUME NEW r \in Requests, HearPart(r) PROVE UploadInv'
  BY <1>5 DEF HearPart, NoRequest, PartRequest, Content
<1>6. ASSUME NEW r \in Requests, LosePart(r) PROVE UploadInv'
  <2>1. request' = [q \in Requests |-> IF q \in {r} THEN [request[q] EXCEPT !.awaited = FALSE] ELSE request[q]]
    BY <1>6 DEF LosePart
  <2>2. UNCHANGED <<upload, kept, file, assembled, asset, finalizer>> BY <1>6 DEF LosePart
  <2>3. request' \in [Requests -> PartRequest]
    <3>1. request[r] \in PartRequest OBVIOUS
    <3>2. [request[r] EXCEPT !.awaited = FALSE] \in PartRequest BY <3>1 DEF PartRequest
    <3> QED BY <3>2, <1>6 DEF LosePart
  <2>5. UploadTyped' BY <2>2, <2>3
  <2>4. \A q \in Requests : Idles(q) BY <2>1, AbandonedRequest DEF Idles
  <2> QED BY <2>2, <2>4, <2>5, IdleRequests
<1>7. ASSUME NEW f \in Finalizers, AskFinalize(f) PROVE UploadInv'
  BY <1>7 DEF AskFinalize, FMoves, Stages
<1>8. ASSUME NEW f \in Finalizers, HearFinalize(f) PROVE UploadInv'
  BY <1>8 DEF HearFinalize, FMoves, Stages
<1> QED BY <1>1, <1>2, <1>3, <1>4, <1>5, <1>6, <1>7, <1>8

\* A part request in the server.
LEMMA PartStep ==
  ASSUME UploadInv, NEW r \in Requests, LockPart(r) \/ PlacePart(r) \/ CommitPart(r)
  PROVE  UploadInv'
<1> USE DEF UploadInv, UploadTyped, FinalizedOnce, PlacedAlone, UploadIsVerified, PartIsItsRow, Works
<1>1. CASE LockPart(r)
  <2>1. /\ request[r].at = "streamed"
        /\ UNCHANGED <<upload, kept, file, swept, assembled, asset, finalizer, phase, sent, retries, mishaps>>
    BY <1>1 DEF LockPart
  <2>2. Moves(r, "error") \/ (Alone(r) /\ Moves(r, "locked")) BY <1>1, Zenon DEF LockPart
  <2>3. CASE Moves(r, "error")
    <3>1. UploadTyped' BY <2>1, <2>3, MovedRequest
    <3>2. \A q \in Requests \ {r} : request'[q] = request[q] BY <2>3, MovedRequest
    <3>3. Idles(r) BY <2>1, <2>3, MovedRequest DEF Idles
    <3>4. \A q \in Requests : Idles(q) BY <3>2, <3>3 DEF Idles
    <3> QED BY <2>1, <3>1, <3>4, IdleRequests
  <2>4. CASE Alone(r) /\ Moves(r, "locked")
    <3>1. \A q \in Requests \ {r} : request[q].part = request[r].part => ~Works(q) BY <2>4 DEF Alone
    <3>2. \A q \in Requests \ {r} : request'[q] = request[q] BY <2>1, <2>4, MovedRequest
    <3>3. UploadTyped' /\ FinalizedOnce' /\ UploadIsVerified' /\ PartIsItsRow' BY <2>1, <2>4, MovedRequest
    <3>4. request'[r].at = "locked" /\ request'[r].part = request[r].part BY <2>1, <2>4, MovedRequest
    <3>5. PlacedAlone' BY <2>1, <3>1, <3>2, <3>3, <3>4
    <3> QED BY <3>3, <3>5
  <2> QED BY <2>2, <2>3, <2>4
<1>2. CASE PlacePart(r)
  <2> DEFINE p == request[r].part
             new == request[r].content
  <2>1. /\ request[r].at = "locked" /\ p \in Parts /\ new \in Content
        /\ UNCHANGED <<upload, kept, swept, assembled, asset, finalizer, phase, sent, retries, mishaps>>
    BY <1>2 DEF PlacePart, PartRequest
  <2>2. \/ (Moves(r, "error") \/ Moves(r, "refused")) /\ file' = file
        \/ kept[p] = "none" /\ Moves(r, "placed") /\ file' = [file EXCEPT ![p] = new]
        \/ kept[p] = new /\ Moves(r, "done") /\ file' = [file EXCEPT ![p] = new]
    BY <1>2 DEF PlacePart, PartRequest
  <2>3. CASE (Moves(r, "error") \/ Moves(r, "refused")) /\ file' = file
    BY <2>1, <2>3, MovedRequest, IdleRequests
  <2>4. CASE kept[p] = "none" /\ Moves(r, "placed") /\ file' = [file EXCEPT ![p] = new]
    <3>1. \A q \in Requests \ {r} : request[q].part = p => ~Works(q) BY <2>1
    <3>2. \A q \in Requests \ {r} : request'[q] = request[q] BY <2>1, <2>4, MovedRequest
    <3>3. UploadTyped' /\ FinalizedOnce' /\ UploadIsVerified' /\ PartIsItsRow' BY <2>1, <2>4, MovedRequest DEF Content, PartRequest
    <3>4. request'[r].at = "placed" /\ request'[r].part = p /\ request'[r].content = new BY <2>1, <2>4, MovedRequest
    <3>5. \A q \in Requests : request'[q].at = "placed" =>
            kept'[request'[q].part] = "none" /\ file'[request'[q].part] \in {request'[q].content, "none"}
      BY <2>1, <2>4, <3>1, <3>2, <3>4
    <3>6. \A q, t \in Requests : Works(q)' /\ Works(t)' /\ request'[q].part = request'[t].part => q = t
      BY <2>1, <3>1, <3>2, <3>4
    <3>7. request'[r].awaited = request[r].awaited BY <2>4, MovedRequest
    <3>8. PlacedAlone' BY <2>1, <3>2, <3>4, <3>5, <3>6, <3>7
    <3> QED BY <3>3, <3>8
  <2>5. CASE kept[p] = new /\ Moves(r, "done") /\ file' = [file EXCEPT ![p] = new]
    <3>1. \A q \in Requests \ {r} : request[q].at = "placed" => request[q].part # p BY <2>1
    <3>2. \A q \in Requests : Works(q)' => Works(q) /\ q # r BY <2>1, <2>5, MovedRequest
    <3>3. UploadTyped' /\ FinalizedOnce' /\ UploadIsVerified' /\ PartIsItsRow' BY <2>1, <2>5, MovedRequest DEF Content
    <3>4. PlacedAlone' BY <2>1, <2>5, <3>1, <3>2, MovedRequest
    <3> QED BY <3>3, <3>4
  <2> QED BY <2>2, <2>3, <2>4, <2>5
<1>3. CASE CommitPart(r)
  <2>1. Moves(r, "done") BY <1>3 DEF CommitPart
  <2>2. /\ request[r].at = "placed" /\ kept' = [kept EXCEPT ![request[r].part] = request[r].content]
        /\ UNCHANGED <<upload, file, swept, assembled, asset, finalizer, phase, sent, retries, mishaps>>
    BY <1>3 DEF CommitPart
  <2>3. request[r].part \in Parts BY <2>2
  <2>4. \A q \in Requests \ {r} : request'[q].at = "placed" => request[q].part # request[r].part BY <2>1, <2>2, MovedRequest
  <2>5. UploadTyped' BY <2>1, <2>2, <2>3, MovedRequest DEF Content, PartRequest
  <2>6. FinalizedOnce' /\ UploadIsVerified' BY <2>1, <2>2, <2>3, MovedRequest DEF Content, PartRequest
  <2>7. PlacedAlone'
    <3>1. \A q \in Requests : request'[q].at = "placed" => request[q].at = "placed" /\ request'[q] = request[q]
      BY <2>1, MovedRequest
    <3>2. \A q \in Requests : Works(q)' => Works(q) /\ request'[q].part = request[q].part
      BY <2>1, <2>2, MovedRequest
    <3>3. \A q \in Requests : request'[q].at = "placed" => request'[q].part # request[r].part
      BY <2>1, <2>4, <3>1, MovedRequest
    <3>4. \A q, t \in Requests : Works(q)' /\ Works(t)' /\ request'[q].part = request'[t].part => q = t BY <3>2
    <3>5. \A q \in Requests : /\ request'[q].at = "none" => request'[q].awaited = FALSE
                              /\ request'[q].at # "none" => request'[q].part \in Parts
      BY <2>1, <2>2, MovedRequest
    <3>6. \A p \in Parts : p # request[r].part => kept'[p] = kept[p] /\ file'[p] = file[p] BY <2>2
    <3>7. \A q \in Requests : request'[q].at = "placed" =>
            kept'[request'[q].part] = "none" /\ file'[request'[q].part] \in {request'[q].content, "none"}
      BY <3>1, <3>3, <3>5, <3>6
    <3> QED BY <3>4, <3>5, <3>7
  <2>8. PartIsItsRow' BY <2>1, <2>2, <2>3, <2>4, MovedRequest DEF Content, PartRequest
  <2> QED BY <2>5, <2>6, <2>7, <2>8
<1> QED BY <1>1, <1>2, <1>3

\* A finalisation in the server.
LEMMA FinalizeStep ==
  ASSUME UploadInv, NEW f \in Finalizers,
         LockFinalize(f) \/ Assemble(f) \/ CompleteUpload(f) \/ Sweep(f)
  PROVE  UploadInv'
<1> USE DEF UploadInv, UploadTyped, FinalizedOnce, PlacedAlone, UploadIsVerified, PartIsItsRow, Works, FMoves, Stages
<1>1. CASE LockFinalize(f) BY <1>1 DEF LockFinalize
<1>2. CASE Assemble(f)
  <2>1. \/ FMoves(f, "error") /\ UNCHANGED <<upload, assembled>>
        \/ file = Whole /\ FMoves(f, "stored") /\ assembled' = file /\ UNCHANGED upload
        \/ FMoves(f, "refused") /\ upload' = "uploading" /\ UNCHANGED assembled
    BY <1>2 DEF Assemble, Verified
  <2>2. /\ finalizer[f] = "assembling"
        /\ UNCHANGED <<kept, file, swept, asset, request, phase, sent, retries, mishaps>>
    BY <1>2 DEF Assemble
  <2> QED BY <2>1, <2>2
<1>3. CASE CompleteUpload(f) BY <1>3 DEF CompleteUpload
<1>4. CASE Sweep(f) BY <1>4 DEF Sweep
<1> QED BY <1>1, <1>2, <1>3, <1>4

\* What is lost: a part's file, or the whole process.
LEMMA LossStep ==
  ASSUME UploadInv, ApiDies \/ \E p \in Parts : LoseFile(p)
  PROVE  UploadInv'
<1> USE DEF UploadInv, UploadTyped, FinalizedOnce, PlacedAlone, UploadIsVerified, PartIsItsRow, Works
<1>1. CASE ApiDies BY <1>1 DEF ApiDies, NoRequest, PartRequest, Stages, Content
<1>2. ASSUME NEW p \in Parts, LoseFile(p) PROVE UploadInv' BY <1>2 DEF LoseFile
<1> QED BY <1>1, <1>2

LEMMA UploadStep == UploadInv /\ [UploadNext]_uploadVars => UploadInv'
<1>1. CASE UploadInv /\ UNCHANGED uploadVars
  BY <1>1 DEF uploadVars, UploadInv, UploadTyped, FinalizedOnce, PlacedAlone, UploadIsVerified,
     PartIsItsRow, Works
<1> QED BY <1>1, BrowserStep, PartStep, FinalizeStep, LossStep
        DEF UploadNext, UploadSends, UploadServes, UploadMishaps

-----------------------------------------------------------------------------
(* The events. *)

\* The committed events are the first k numbers; whoever has inserted more holds the
\* ones right after them, alone; who waits holds nothing and waits for the next
\* number or for one that was committed meanwhile.
Numbered(k) ==
  /\ k \in Nat /\ events = 1..k
  /\ writer \in [Writers -> [held : SUBSET Nat, wants : Nat, tries : Nat]]
  /\ \A w \in Writers : writer[w].held # {} => \E h \in Nat : h > k /\ writer[w].held = (k + 1)..h
  /\ \A w \in Writers : writer[w].wants # 0 => writer[w].held = {} /\ writer[w].wants <= k + 1
  /\ \A v, w \in Writers : writer[v].held # {} /\ writer[w].held # {} => v = w

Modes == {"connecting", "streaming", "reconnecting", "polling"}

\* The numbers right after c, up to k at most.
IsRun(items, c, k) == c + Len(items) <= k /\ \A i \in 1..Len(items) : items[i] = c + i

\* What the browser has seen has no gap; what the stream carries are the numbers up to
\* its position, and what a poll was answered is a run too, and both begin
\* at or before the next number the browser needs.
Followed(k) ==
  /\ browser \in [mode : Modes, last : 0..k, seen : SUBSET Nat, attempts : Nat]
  /\ browser.seen = 1..browser.last
  /\ stream \in [open : BOOLEAN, position : 0..k] /\ wire \in Seq(Nat)
  /\ stream.open => /\ Len(wire) <= stream.position
                    /\ stream.position - Len(wire) <= browser.last
                    /\ \A i \in 1..Len(wire) : wire[i] = stream.position - Len(wire) + i
  /\ browser.mode = "streaming" => stream.open
  /\ poll \in [Polls -> [at : {"none", "asked", "answered"}, cursor : Nat, items : Seq(Nat)]]
  /\ \A p \in Polls :
       /\ poll[p].cursor <= browser.last
       /\ \E c \in 0..browser.last : IsRun(poll[p].items, c, k)

EventInv == \E k \in Nat : Numbered(k) /\ Followed(k)

LEMMA MaxIs ==
  ASSUME NEW S \in SUBSET Int, NEW m \in S, \A n \in S : n <= m
  PROVE  Max(S) = m
<1>1. \A n \in S : (\A i \in S : n >= i) <=> n = m OBVIOUS
<1>2. (CHOOSE n \in S : \A i \in S : n >= i) = (CHOOSE n \in S : n = m) BY <1>1
<1> QED BY <1>2 DEF Max

LEMMA MaxOfRun ==
  ASSUME NEW a \in Int, NEW b \in Int, a <= b
  PROVE  Max(a..b) = b
<1>1. a..b \in SUBSET Int /\ b \in a..b /\ \A n \in a..b : n <= b OBVIOUS
<1> QED BY <1>1, MaxIs

LEMMA SizeOfRun ==
  ASSUME NEW a \in Nat, NEW b \in Nat, a <= b
  PROVE  Cardinality((a + 1)..b) = b - a
<1> DEFINE x == a + 1
<1>1. x \in Int /\ b \in Int /\ x = a + 1 OBVIOUS
<1> HIDE DEF x
<1>2. Cardinality(x..b) = IF x > b THEN 0 ELSE b - x + 1 BY <1>1, FS_Interval, Zenon
<1>3. Cardinality(x..b) = b - a BY <1>1, <1>2
<1> QED BY <1>3 DEF x

\* The number a writer takes is the one after what it sees.
LEMMA NextNumber ==
  ASSUME NEW k, Numbered(k), NEW w \in Writers
  PROVE  /\ writer[w].held = {} => LatestSequence(w) = k
         /\ \A h \in Nat : h > k /\ writer[w].held = (k + 1)..h => LatestSequence(w) = h
<1> USE DEF Numbered
<1>1. ASSUME writer[w].held = {} PROVE LatestSequence(w) = k
  <2>1. {0} \cup events \cup writer[w].held = 0..k BY <1>1
  <2>2. Max(0..k) = k BY MaxOfRun
  <2> QED BY <2>1, <2>2 DEF LatestSequence
<1>2. ASSUME NEW h \in Nat, h > k, writer[w].held = (k + 1)..h PROVE LatestSequence(w) = h
  <2>1. {0} \cup events \cup writer[w].held = 0..h BY <1>2
  <2>2. Max(0..h) = h BY MaxOfRun
  <2> QED BY <2>1, <2>2 DEF LatestSequence
<1> QED BY <1>1, <1>2

\* A batch is a run of consecutive numbers that starts right after the cursor.
LEMMA SinceIsARun ==
  ASSUME NEW k, Numbered(k), NEW c \in 0..k
  PROVE  /\ Since(c) \in Seq(Nat) /\ c + Len(Since(c)) <= k
         /\ \A i \in 1..Len(Since(c)) : Since(c)[i] = c + i
<1> DEFINE after == {n \in events : n > c}
           size == IF Cardinality(after) < BatchLimit THEN Cardinality(after) ELSE BatchLimit
<1>1. k \in Nat /\ after = (c + 1)..k BY DEF Numbered
<1>2. Cardinality(after) = k - c
  <2>1. c \in Nat /\ k \in Nat /\ c <= k BY <1>1
  <2>2. Cardinality((c + 1)..k) = k - c BY <2>1, SizeOfRun, Zenon
  <2> QED BY <1>1, <2>2
<1>3. size \in 0..(k - c) BY <1>1, <1>2, EventStreamAssumption
<1>4. ASSUME NEW i \in 1..size
      PROVE  (CHOOSE n \in after : Cardinality({m \in after : m <= n}) = i) = c + i
  <2>1. \A n \in after : Cardinality({m \in after : m <= n}) = n - c
    <3> SUFFICES ASSUME NEW n \in after PROVE Cardinality({m \in after : m <= n}) = n - c
      OBVIOUS
    <3>1. {m \in after : m <= n} = (c + 1)..n BY <1>1
    <3>2. c \in Nat /\ n \in Nat /\ c <= n BY <1>1
    <3>3. Cardinality((c + 1)..n) = n - c BY <3>2, SizeOfRun, Zenon
    <3> QED BY <3>1, <3>3
  <2>2. c + i \in after BY <1>1, <1>3
  <2> HIDE DEF after
  <2>3. \A n \in after : n - c = i <=> n = c + i
    <3>1. after \subseteq Int /\ c \in Int /\ i \in Int BY <1>1, <1>3 DEF after
    <3> QED BY <3>1
  <2>4. \A n \in after : Cardinality({m \in after : m <= n}) = i <=> n = c + i BY <2>1, <2>3
  <2> QED BY <2>2, <2>4
<1> HIDE DEF size
<1>5. Since(c) = [i \in 1..size |-> CHOOSE n \in after : Cardinality({m \in after : m <= n}) = i]
  BY DEF Since, size
<1> HIDE DEF after
<1>6. Since(c) = [i \in 1..size |-> c + i] BY <1>4, <1>5
<1> QED BY <1>1, <1>3, <1>6

\* Consecutive numbers that begin at or before the next one needed close no gap and
\* open none.
LEMMA IngestsARun ==
  ASSUME NEW k \in Nat, browser \in [mode : Modes, last : 0..k, seen : SUBSET Nat, attempts : Nat],
         browser.seen = 1..browser.last,
         NEW c \in 0..browser.last, NEW h \in c..k, browser' = Ingested(browser, (c + 1)..h)
  PROVE  /\ browser' \in [mode : Modes, last : 0..k, seen : SUBSET Nat, attempts : Nat]
         /\ browser'.mode = browser.mode /\ browser'.last >= browser.last /\ browser'.last >= h
         /\ browser'.seen = 1..browser'.last
<1> DEFINE new == ((c + 1)..h) \ browser.seen
<1>1. browser' = [browser EXCEPT !.seen = browser.seen \cup new,
                                 !.last = IF new = {} THEN browser.last ELSE Max(new)]
  BY DEF Ingested
<1>2. /\ browser' = [mode |-> browser'.mode, last |-> browser'.last, seen |-> browser'.seen, attempts |-> browser'.attempts]
      /\ browser'.mode = browser.mode /\ browser'.attempts = browser.attempts /\ browser'.seen = browser.seen \cup new
      /\ browser'.last = IF new = {} THEN browser.last ELSE Max(new)
  BY <1>1
<1>3. CASE h <= browser.last
  <2>1. new = {} BY <1>3
  <2>2. browser'.seen = browser.seen /\ browser'.last = browser.last BY <1>2, <2>1
  <2>3. browser' \in [mode : Modes, last : 0..k, seen : SUBSET Nat, attempts : Nat] BY <1>2, <2>2
  <2> QED BY <1>2, <1>3, <2>2, <2>3
<1>4. CASE h > browser.last
  <2> DEFINE first == browser.last + 1
  <2>1. new = first..h /\ first \in Int /\ h \in Int /\ first <= h BY <1>4
  <2> HIDE DEF first
  <2>2. Max(new) = h BY <2>1, MaxOfRun, Zenon
  <2>3. browser.seen \cup new = 1..h BY <1>4, <2>1
  <2> HIDE DEF new
  <2>4. h \in new BY <2>1
  <2>5. browser'.seen = 1..h /\ browser'.last = h BY <1>2, <2>2, <2>3, <2>4
  <2>6. browser' \in [mode : Modes, last : 0..k, seen : SUBSET Nat, attempts : Nat] BY <1>2, <1>4, <2>5
  <2> QED BY <1>2, <1>4, <2>5, <2>6
<1> QED BY <1>3, <1>4

LEMMA EventStarts == EventInit => EventInv
<1> SUFFICES ASSUME EventInit PROVE Numbered(0) /\ Followed(0) BY DEF EventInv
<1>1. Numbered(0) BY DEF EventInit, Numbered, NoWrite
<1>2. Followed(0)
  <2>1. /\ browser = [mode |-> "connecting", last |-> 0, seen |-> {}, attempts |-> 0]
        /\ stream = [open |-> FALSE, position |-> 0] /\ wire = <<>> /\ wire \in Seq(Nat)
        /\ poll = [p \in Polls |-> [at |-> "none", cursor |-> 0, items |-> <<>>]]
    BY DEF EventInit, NoStream, NoPoll
  <2>2. <<>> \in Seq(Nat) /\ Len(<<>>) = 0 OBVIOUS
  <2>3. browser.seen = 1..browser.last BY <2>1
  <2>4. browser \in [mode : Modes, last : 0..0, seen : SUBSET Nat, attempts : Nat] BY <2>1 DEF Modes
  <2>5. poll \in [Polls -> [at : {"none", "asked", "answered"}, cursor : Nat, items : Seq(Nat)]] BY <2>1, <2>2
  <2>6. stream \in [open : BOOLEAN, position : 0..0] /\ ~stream.open BY <2>1
  <2>7. \A p \in Polls : poll[p].cursor = 0 /\ Len(poll[p].items) = 0 BY <2>1, <2>2
  <2>8. browser.mode # "streaming" /\ browser.last = 0 BY <2>1
  <2>9. \A p \in Polls : poll[p].cursor <= browser.last /\ \E c \in 0..browser.last : IsRun(poll[p].items, c, 0)
    BY <2>7, <2>8 DEF IsRun
  <2> QED BY <2>1, <2>3, <2>4, <2>5, <2>6, <2>8, <2>9 DEF Followed
<1> QED BY <1>1, <1>2

LEMMA RunGrows ==
  ASSUME NEW k \in Nat, NEW h \in Nat, h > k
  PROVE  ((k + 1)..h) \cup {h + 1} = (k + 1)..(h + 1)
OBVIOUS

WriterRow == [held : SUBSET Nat, wants : Nat, tries : Nat]

\* Behind a row that another holds, an insert waits; otherwise the number is held.
LEMMA InsertStep ==
  ASSUME NEW k, Numbered(k), UNCHANGED events, NEW w \in Writers, NEW n \in Nat,
         n = IF writer[w].held = {} THEN k + 1 ELSE LatestSequence(w) + 1,
         NEW new \in WriterRow, writer' = [writer EXCEPT ![w] = new],
         HeldByAnother(w, n) => new.held = writer[w].held /\ new.wants = n,
         ~HeldByAnother(w, n) => new.held = writer[w].held \cup {n} /\ new.wants = 0
  PROVE  Numbered(k)'
<1> USE DEF Numbered
<1>1. \A v \in Writers \ {w} : writer'[v] = writer[v] OBVIOUS
<1>2. writer' \in [Writers -> WriterRow] /\ writer'[w] = new BY DEF WriterRow
<1>3. CASE writer[w].held = {}
  <2>1. n = k + 1 BY <1>3
  <2>2. CASE HeldByAnother(w, n)
    <3>1. new.held = {} /\ new.wants = n BY <1>3, <2>2
    <3>2. \A v \in Writers : writer'[v].held = writer[v].held BY <1>1, <1>2, <1>3, <3>1
    <3>3. writer'[w].held = {} /\ writer'[w].wants = k + 1 BY <1>2, <2>1, <3>1
    <3>4. \A v \in Writers : writer'[v].wants # 0 => writer'[v].held = {} /\ writer'[v].wants <= k + 1
      BY <1>1, <3>3
    <3>5. writer' \in [Writers -> [held : SUBSET Nat, wants : Nat, tries : Nat]] BY <1>2 DEF WriterRow
    <3>6. /\ \A v \in Writers : writer'[v].held # {} => \E h \in Nat : h > k /\ writer'[v].held = (k + 1)..h
          /\ \A v, x \in Writers : writer'[v].held # {} /\ writer'[x].held # {} => v = x
      <4>1. \A v \in Writers : writer[v].held # {} => \E h \in Nat : h > k /\ writer[v].held = (k + 1)..h
        OBVIOUS
      <4>2. \A v, x \in Writers : writer[v].held # {} /\ writer[x].held # {} => v = x
        OBVIOUS
      <4> HIDE DEF Numbered
      <4>3. ASSUME NEW v \in Writers, writer'[v].held # {}
            PROVE  writer'[v].held = writer[v].held /\ writer[v].held # {}
        BY <3>2, <4>3
      <4>4. ASSUME NEW v \in Writers, writer'[v].held # {}
            PROVE  \E h \in Nat : h > k /\ writer'[v].held = (k + 1)..h
        <5>1. PICK h \in Nat : h > k /\ writer[v].held = (k + 1)..h BY <4>1, <4>3, <4>4
        <5> QED BY <4>3, <4>4, <5>1
      <4> QED BY <4>2, <4>3, <4>4
    <3> QED BY <3>4, <3>5, <3>6
  <2>3. CASE ~HeldByAnother(w, n)
    <3>1. new.held = {k + 1} /\ new.wants = 0 BY <1>3, <2>1, <2>3
    <3>2. \A v \in Writers \ {w} : writer[v].held = {}
      BY <2>1, <2>3 DEF HeldByAnother
    <3>3. {k + 1} = (k + 1)..(k + 1) /\ k + 1 \in Nat /\ k + 1 > k OBVIOUS
    <3> QED BY <1>1, <1>2, <3>1, <3>2, <3>3 DEF WriterRow
  <2> QED BY <2>2, <2>3
<1>4. CASE writer[w].held # {}
  <2>1. PICK h \in Nat : h > k /\ writer[w].held = (k + 1)..h BY <1>4
  <2>2. n = h + 1 BY <1>4, <2>1, NextNumber
  <2>3. \A v \in Writers \ {w} : writer[v].held = {} BY <1>4
  <2>4. ~HeldByAnother(w, n) BY <2>3 DEF HeldByAnother
  <2>5. new.held = (k + 1)..(h + 1) /\ new.wants = 0
    <3>1. ((k + 1)..h) \cup {n} = (k + 1)..n
      <4>1. k \in Nat /\ h \in Nat /\ h > k BY <2>1
      <4>2. ((k + 1)..h) \cup {h + 1} = (k + 1)..(h + 1) BY <4>1, RunGrows, Zenon
      <4> QED BY <2>2, <4>2
    <3>2. new.held = (k + 1)..n /\ new.wants = 0 BY <2>1, <2>4, <3>1
    <3> QED BY <2>2, <3>2
  <2>6. h + 1 \in Nat /\ h + 1 > k BY <2>1
  <2> QED BY <1>1, <1>2, <2>3, <2>5, <2>6 DEF WriterRow
<1> QED BY <1>3, <1>4

LEMMA WriterStep ==
  ASSUME NEW k, Numbered(k), NEW w \in Writers, Append1(w) \/ Awake(w)
  PROVE  Numbered(k)'
<1>1. k \in Nat /\ writer[w] \in WriterRow /\ UNCHANGED events
  BY DEF Numbered, Append1, Awake, WriterRow
<1>2. LatestSequence(w) \in Nat /\ (writer[w].held = {} => LatestSequence(w) = k)
  BY NextNumber DEF Numbered
<1>3. ASSUME NEW n \in Nat, NEW t \in Nat, Insert(w, n, t),
             n = IF writer[w].held = {} THEN k + 1 ELSE LatestSequence(w) + 1
      PROVE  Numbered(k)'
  <2> DEFINE new == IF HeldByAnother(w, n) THEN [held |-> writer[w].held, wants |-> n, tries |-> t]
                    ELSE [held |-> writer[w].held \cup {n}, wants |-> 0, tries |-> 0]
  <2>1. writer' = [writer EXCEPT ![w] = new] BY <1>3 DEF Insert
  <2>2. /\ new \in WriterRow
        /\ HeldByAnother(w, n) => new.held = writer[w].held /\ new.wants = n
        /\ ~HeldByAnother(w, n) => new.held = writer[w].held \cup {n} /\ new.wants = 0
    BY <1>1 DEF WriterRow
  <2> HIDE DEF new
  <2> QED BY <1>1, <1>3, <2>1, <2>2, InsertStep
<1>4. LatestSequence(w) + 1 \in Nat /\ writer[w].tries \in Nat /\ writer[w].tries + 1 \in Nat
  BY <1>1, <1>2 DEF WriterRow
<1>5. LatestSequence(w) + 1 = IF writer[w].held = {} THEN k + 1 ELSE LatestSequence(w) + 1 BY <1>2
<1>6. CASE Append1(w) BY <1>3, <1>4, <1>5, <1>6 DEF Append1
<1>7. CASE Awake(w)
  <2>1. writer[w].held = {} /\ writer[w].wants \in 1..(k + 1) BY <1>1, <1>7 DEF Awake, Numbered, WriterRow
  <2>2. CASE writer[w].wants \notin events
    <3>1. writer[w].wants = k + 1 BY <1>1, <2>1, <2>2 DEF Numbered
    <3>2. Insert(w, k + 1, writer[w].tries) BY <1>7, <2>2, <3>1 DEF Awake
    <3>3. k + 1 \in Nat BY <1>1
    <3> QED BY <1>3, <1>4, <2>1, <3>2, <3>3
  <2>3. CASE writer' = [writer EXCEPT ![w] = NoWrite]
    BY <1>1, <2>3 DEF NoWrite, Numbered
  <2>4. CASE Insert(w, LatestSequence(w) + 1, writer[w].tries + 1)
    BY <1>3, <1>4, <1>5, <2>4
  <2> QED BY <1>7, <2>2, <2>3, <2>4 DEF Awake
<1> QED BY <1>6, <1>7

\* A transaction ends: its rows become the next events, or nobody's.
LEMMA EndStep ==
  ASSUME NEW k, Numbered(k), NEW w \in Writers, NEW kept_ \in BOOLEAN, Ends(w, kept_)
  PROVE  \E h \in Nat : h >= k /\ Numbered(h)'
<1> USE DEF Numbered
<1>1. /\ writer[w].held # {} /\ writer' = [writer EXCEPT ![w] = NoWrite]
      /\ events' = IF kept_ THEN events \cup writer[w].held ELSE events
  BY DEF Ends
<1>2. PICK h \in Nat : h >= k /\ h > k /\ writer[w].held = (k + 1)..h BY <1>1
<1>3. NoWrite \in WriterRow /\ NoWrite.held = {} /\ NoWrite.wants = 0 BY DEF NoWrite, WriterRow
<1>4. writer' \in [Writers -> WriterRow] /\ writer'[w] = NoWrite /\ \A v \in Writers \ {w} : writer'[v] = writer[v]
  BY <1>1, <1>3 DEF WriterRow
<1>5. \A v \in Writers : writer'[v].held = {} BY <1>1, <1>3, <1>4
<1>6. \A v \in Writers : writer'[v].wants # 0 => writer'[v].wants <= k + 1 BY <1>3, <1>4
<1>7. writer' \in [Writers -> [held : SUBSET Nat, wants : Nat, tries : Nat]] BY <1>4 DEF WriterRow
<1>8. CASE kept_
  <2>1. events' = 1..h BY <1>1, <1>2, <1>8
  <2>2. \A v \in Writers : writer'[v].wants # 0 => writer'[v].wants <= h + 1 BY <1>2, <1>6, <1>7
  <2>3. Numbered(h)' BY <1>5, <1>7, <2>1, <2>2
  <2> HIDE DEF Numbered
  <2> QED BY <1>2, <2>3
<1>9. CASE ~kept_
  <2>1. Numbered(k)' BY <1>1, <1>5, <1>6, <1>7, <1>9
  <2>2. k \in Nat /\ k >= k OBVIOUS
  <2> HIDE DEF Numbered
  <2> QED BY <2>1, <2>2
<1> QED BY <1>8, <1>9

LEMMA MoreEvents ==
  ASSUME NEW k \in Nat, Followed(k), NEW h \in Nat, h >= k, UNCHANGED <<stream, wire, browser, poll>>
  PROVE  Followed(h)'
<1>1. 0..k \subseteq 0..h OBVIOUS
<1>2. ASSUME NEW p \in Polls, NEW c \in 0..browser.last, IsRun(poll[p].items, c, k)
      PROVE  IsRun(poll[p].items, c, h)
  <2>1. Len(poll[p].items) \in Nat /\ c \in Nat BY DEF Followed
  <2> QED BY <1>2, <2>1 DEF IsRun
<1>3. \A p \in Polls : \E c \in 0..browser.last : IsRun(poll[p].items, c, h) BY <1>2 DEF Followed
<1> QED BY <1>1, <1>3 DEF Followed

\* The server reads a batch into the stream.
LEMMA ReadBatchStep ==
  ASSUME NEW k, Numbered(k), Followed(k), ReadBatch
  PROVE  Followed(k)'
<1> DEFINE batch == Since(stream.position)
<1>1. k \in Nat /\ stream.position \in 0..k /\ stream.open /\ wire \in Seq(Nat) /\ Len(wire) \in Nat
  BY DEF Numbered, Followed, ReadBatch
<1>2. /\ batch \in Seq(Nat) /\ stream.position + Len(batch) <= k
      /\ \A i \in 1..Len(batch) : batch[i] = stream.position + i
  BY <1>1, SinceIsARun
<1>3. /\ batch # <<>> /\ stream' = [stream EXCEPT !.position = Last(batch)]
      /\ wire' = wire \o batch /\ UNCHANGED <<browser, poll>>
  BY DEF ReadBatch
<1> HIDE DEF batch
<1>4. Len(batch) \in Nat \ {0} BY <1>2, <1>3
<1>5. Last(batch) = stream.position + Len(batch) BY <1>2, <1>4 DEF Last
<1>6. stream' \in [open : BOOLEAN, position : 0..k] /\ stream'.position = stream.position + Len(batch)
  <2>1. stream.position + Len(batch) \in 0..k BY <1>1, <1>2, <1>4
  <2>2. stream \in [open : BOOLEAN, position : 0..k] BY DEF Followed
  <2> QED BY <1>3, <1>5, <2>1, <2>2
<1>7. wire' \in Seq(Nat) /\ Len(wire') = Len(wire) + Len(batch) BY <1>1, <1>2, <1>3
<1>8. \A i \in 1..Len(wire') : wire'[i] = stream'.position - Len(wire') + i
  <2> SUFFICES ASSUME NEW i \in 1..Len(wire') PROVE wire'[i] = stream'.position - Len(wire') + i
    OBVIOUS
  <2>1. CASE i <= Len(wire)
    <3>1. wire'[i] = wire[i] BY <1>1, <1>2, <1>3, <1>7, <2>1
    <3>2. wire[i] = stream.position - Len(wire) + i BY <1>1, <2>1 DEF Followed
    <3>3. stream'.position - Len(wire') = stream.position - Len(wire)
      <4>1. Len(wire) \in Int /\ Len(batch) \in Int /\ stream.position \in Int BY <1>1, <1>4
      <4>2. \A p, l, b \in Int : (p + b) - (l + b) = p - l OBVIOUS
      <4> QED BY <1>6, <1>7, <4>1, <4>2
    <3> QED BY <3>1, <3>2, <3>3
  <2>2. CASE i > Len(wire)
    <3>1. i - Len(wire) \in 1..Len(batch) BY <1>1, <1>4, <1>7, <2>2
    <3>2. wire'[i] = batch[i - Len(wire)]
      <4>1. i \in 1..(Len(wire) + Len(batch)) BY <1>7
      <4> QED BY <1>1, <1>2, <1>3, <2>2, <4>1
    <3>3. batch[i - Len(wire)] = stream.position + (i - Len(wire)) BY <1>2, <3>1
    <3>4. i \in Nat BY <1>1, <1>4, <1>7
    <3>5. stream'.position - Len(wire') + i = stream.position + (i - Len(wire))
      <4>1. Len(wire) \in Int /\ Len(batch) \in Int /\ stream.position \in Int /\ i \in Int BY <1>1, <1>4, <3>4
      <4>2. \A p, l, b \in Int : (p + b) - (l + b) + i = p + (i - l) BY <4>1
      <4>3. stream'.position = stream.position + Len(batch) /\ Len(wire') = Len(wire) + Len(batch) BY <1>6, <1>7
      <4> HIDE DEF batch
      <4> QED BY <4>1, <4>2, <4>3
    <3> QED BY <3>2, <3>3, <3>5
  <2> QED BY <1>1, <1>7, <2>1, <2>2
<1>9. Len(wire') <= stream'.position /\ stream'.position - Len(wire') <= browser'.last
  BY <1>1, <1>3, <1>4, <1>6, <1>7 DEF Followed
<1>10. stream'.open BY <1>1, <1>3 DEF Followed
<1> QED BY <1>1, <1>3, <1>6, <1>7, <1>8, <1>9, <1>10 DEF Followed

\* What the browser reads, from the stream or from a poll.
LEMMA ReceiveStep ==
  ASSUME NEW k, Numbered(k), Followed(k), Receive
  PROVE  Followed(k)'
<1> DEFINE c == stream.position - Len(wire)
<1>1. /\ k \in Nat /\ wire \in Seq(Nat) /\ wire # <<>> /\ stream.open /\ stream.position \in 0..k
      /\ browser \in [mode : Modes, last : 0..k, seen : SUBSET Nat, attempts : Nat]
      /\ browser.seen = 1..browser.last
      /\ browser' = Ingested(browser, {Head(wire)}) /\ wire' = Tail(wire) /\ UNCHANGED <<stream, poll>>
  BY DEF Numbered, Followed, Receive
<1>2. Len(wire) \in Nat \ {0} /\ Len(wire') = Len(wire) - 1 /\ wire' \in Seq(Nat) BY <1>1
<1>3. c \in 0..browser.last /\ c + 1 \in c..k BY <1>1, <1>2 DEF Followed
<1>4. Head(wire) = c + 1 BY <1>1, <1>2 DEF Followed
<1>5. {Head(wire)} = (c + 1)..(c + 1) BY <1>3, <1>4
<1>6. \A i \in 1..Len(wire') : wire'[i] = stream.position - Len(wire') + i
  <2> SUFFICES ASSUME NEW i \in 1..Len(wire') PROVE wire'[i] = stream.position - Len(wire') + i
    OBVIOUS
  <2>1. wire'[i] = wire[i + 1] /\ i + 1 \in 1..Len(wire) BY <1>1, <1>2
  <2>2. wire[i + 1] = stream.position - Len(wire) + (i + 1) BY <1>1, <2>1 DEF Followed
  <2>3. i \in Int /\ Len(wire) \in Int /\ stream.position \in Int BY <1>1, <1>2
  <2>4. \A p, l \in Int : p - (l - 1) + i = p - l + (i + 1) BY <2>3
  <2>5. stream.position - Len(wire') + i = stream.position - Len(wire) + (i + 1) BY <1>2, <2>3, <2>4
  <2> QED BY <2>1, <2>2, <2>5
<1> HIDE DEF c
<1>7. /\ browser' \in [mode : Modes, last : 0..k, seen : SUBSET Nat, attempts : Nat]
      /\ browser'.mode = browser.mode /\ browser'.last >= browser.last /\ browser'.last >= c + 1
      /\ browser'.seen = 1..browser'.last
  <2>1. browser' = Ingested(browser, (c + 1)..(c + 1)) BY <1>1, <1>5
  <2> QED BY <1>1, <1>3, <2>1, IngestsARun
<1>8. stream.position - Len(wire') <= browser'.last BY <1>1, <1>2, <1>7 DEF c
<1>9. Len(wire') <= stream.position BY <1>1, <1>2 DEF Followed
<1>10. \A p \in Polls : poll'[p].cursor <= browser'.last /\ \E d \in 0..browser'.last : IsRun(poll'[p].items, d, k)
  <2>1. browser.last \in 0..k /\ browser'.last \in 0..k /\ browser'.last >= browser.last BY <1>1, <1>7
  <2>4. 0..browser.last \subseteq 0..browser'.last BY <1>1, <2>1
  <2>2. \A p \in Polls : poll[p].cursor \in Nat /\ poll[p].cursor <= browser.last BY DEF Followed
  <2>3. \A p \in Polls : \E d \in 0..browser.last : IsRun(poll[p].items, d, k) BY DEF Followed
  <2>5. \A p \in Polls : poll'[p].cursor <= browser'.last
    <3>1. \A x, y, z \in Nat : x <= y /\ y <= z => x <= z OBVIOUS
    <3>2. browser.last \in Nat /\ browser'.last \in Nat BY <1>1, <2>1
    <3> QED BY <1>1, <2>1, <2>2, <3>1, <3>2
  <2> QED BY <1>1, <2>3, <2>4, <2>5
<1> QED BY <1>1, <1>2, <1>6, <1>7, <1>8, <1>9, <1>10 DEF Followed

LEMMA TakePollStep ==
  ASSUME NEW k, Numbered(k), Followed(k), NEW p \in Polls, TakePoll(p)
  PROVE  Followed(k)'
<1> DEFINE items == poll[p].items
<1>1. /\ k \in Nat /\ items \in Seq(Nat)
      /\ browser \in [mode : Modes, last : 0..k, seen : SUBSET Nat, attempts : Nat]
      /\ browser.seen = 1..browser.last
      /\ browser' = Ingested(browser, Range(items)) /\ poll' = [poll EXCEPT ![p] = NoPoll]
      /\ UNCHANGED <<stream, wire>>
  BY DEF Numbered, Followed, TakePoll
<1>2. PICK c \in 0..browser.last : IsRun(items, c, k) BY DEF Followed
<1> HIDE DEF items
<1> DEFINE h == c + Len(items)
<1>3. h \in c..k /\ Len(items) \in Nat BY <1>1, <1>2 DEF IsRun
<1>4. Range(items) = (c + 1)..h
  <2>1. Range(items) = {items[i] : i \in 1..Len(items)} BY <1>1 DEF Range
  <2>2. ASSUME NEW n \in (c + 1)..h
        PROVE  n - c \in 1..Len(items) /\ items[n - c] = n
    <3>1. c \in Int /\ n \in Int /\ Len(items) \in Int BY <1>1, <1>2, <1>3
    <3>2. n - c \in 1..Len(items) BY <3>1
    <3>3. items[n - c] = c + (n - c) BY <1>2, <3>2 DEF IsRun
    <3> QED BY <3>1, <3>2, <3>3
  <2>3. \A i \in 1..Len(items) : items[i] \in (c + 1)..h BY <1>1, <1>2, <1>3 DEF IsRun
  <2> QED BY <2>1, <2>2, <2>3
<1> HIDE DEF h
<1>5. /\ browser' \in [mode : Modes, last : 0..k, seen : SUBSET Nat, attempts : Nat]
      /\ browser'.mode = browser.mode /\ browser'.last >= browser.last
      /\ browser'.seen = 1..browser'.last
  <2>1. browser' = Ingested(browser, (c + 1)..h) BY <1>1, <1>4
  <2> QED BY <1>1, <1>3, <2>1, IngestsARun
<1>6. NoPoll.cursor = 0 /\ NoPoll.items = <<>> /\ NoPoll \in [at : {"none", "asked", "answered"}, cursor : Nat, items : Seq(Nat)]
  BY DEF NoPoll
<1>7. poll' \in [Polls -> [at : {"none", "asked", "answered"}, cursor : Nat, items : Seq(Nat)]]
  BY <1>1, <1>6 DEF Followed
<1>8. IsRun(NoPoll.items, 0, k) BY <1>1, <1>6 DEF IsRun
<1>9. \A q \in Polls : poll'[q] = poll[q] \/ poll'[q] = NoPoll BY <1>1 DEF Followed
<1>10. browser.last \in Nat /\ browser'.last \in Nat /\ 0..browser.last \subseteq 0..browser'.last BY <1>1, <1>5
<1>11. \A q \in Polls : poll'[q].cursor <= browser'.last /\ \E d \in 0..browser'.last : IsRun(poll'[q].items, d, k)
  <2> SUFFICES ASSUME NEW q \in Polls
               PROVE  poll'[q].cursor <= browser'.last /\ \E d \in 0..browser'.last : IsRun(poll'[q].items, d, k)
    OBVIOUS
  <2>1. CASE poll'[q] = poll[q]
    <3>1. poll[q].cursor \in Nat /\ poll[q].cursor <= browser.last BY DEF Followed
    <3>2. PICK d \in 0..browser.last : IsRun(poll[q].items, d, k) BY DEF Followed
    <3> QED BY <1>5, <1>10, <2>1, <3>1, <3>2
  <2>2. CASE poll'[q] = NoPoll BY <1>6, <1>8, <1>10, <2>2
  <2> QED BY <1>9, <2>1, <2>2
<1>12. stream.open => stream.position - Len(wire) <= browser'.last BY <1>1, <1>5 DEF Followed
<1> QED BY <1>1, <1>5, <1>7, <1>11, <1>12 DEF Followed

\* The stream is opened at the browser's cursor, refused, broken or closed.
LEMMA StreamStep ==
  ASSUME NEW k, Numbered(k), Followed(k),
         Connect \/ Refused \/ \E cleanly \in BOOLEAN : Broken(cleanly)
  PROVE  Followed(k)'
<1> USE DEF Followed
<1>1. k \in Nat /\ <<>> \in Seq(Nat) /\ Len(<<>>) = 0 BY DEF Numbered
<1>2. CASE Connect
  <2>1. /\ browser' = [browser EXCEPT !.mode = "streaming", !.attempts = 0]
        /\ stream' = [open |-> TRUE, position |-> browser.last] /\ wire' = <<>> /\ poll' = poll
    BY <1>2 DEF Connect
  <2>2. /\ browser' \in [mode : Modes, last : 0..k, seen : SUBSET Nat, attempts : Nat]
        /\ browser'.last = browser.last /\ browser'.seen = browser.seen
    BY <2>1 DEF Modes
  <2>3. stream' \in [open : BOOLEAN, position : 0..k] /\ stream'.position = browser.last /\ stream'.open BY <2>1
  <2>4. Len(wire') = 0 /\ wire' \in Seq(Nat) BY <1>1, <2>1
  <2> QED BY <2>1, <2>2, <2>3, <2>4
<1>3. ASSUME browser' = FailedOnce(browser)
      PROVE  /\ browser' \in [mode : Modes, last : 0..k, seen : SUBSET Nat, attempts : Nat]
             /\ browser'.last = browser.last /\ browser'.seen = browser.seen
             /\ browser'.mode # "streaming"
  <2>1. browser' = [browser EXCEPT !.attempts = browser.attempts + 1,
                     !.mode = IF browser.attempts + 1 >= SSEAttempts THEN "polling" ELSE "reconnecting"]
    BY <1>3 DEF FailedOnce
  <2>2. browser.attempts + 1 \in Nat OBVIOUS
  <2> QED BY <2>1, <2>2 DEF Modes
<1>4. CASE Refused
  <2>1. browser' = FailedOnce(browser) /\ UNCHANGED <<stream, wire, poll>> BY <1>4 DEF Refused
  <2> QED BY <1>3, <2>1
<1>5. ASSUME NEW cleanly \in BOOLEAN, Broken(cleanly) PROVE Followed(k)'
  <2>1. /\ browser' = IF cleanly THEN [browser EXCEPT !.mode = "reconnecting"] ELSE FailedOnce(browser)
        /\ stream' = [open |-> FALSE, position |-> 0] /\ wire' = <<>> /\ poll' = poll
    BY <1>5 DEF Broken, NoStream
  <2>2. /\ browser' \in [mode : Modes, last : 0..k, seen : SUBSET Nat, attempts : Nat]
        /\ browser'.last = browser.last /\ browser'.seen = browser.seen
        /\ browser'.mode # "streaming"
    <3>1. CASE cleanly BY <2>1, <3>1 DEF Modes
    <3>2. CASE ~cleanly BY <1>3, <2>1, <3>2
    <3> QED BY <3>1, <3>2
  <2>3. stream' \in [open : BOOLEAN, position : 0..k] /\ ~stream'.open BY <1>1, <2>1
  <2> QED BY <1>1, <2>1, <2>2, <2>3
<1> QED BY <1>2, <1>4, <1>5

\* A poll is asked, answered or lost.
LEMMA PollStep ==
  ASSUME NEW k, Numbered(k), Followed(k), NEW p \in Polls, Tick(p) \/ Answer(p) \/ LosePoll(p)
  PROVE  Followed(k)'
<1> DEFINE Poll == [at : {"none", "asked", "answered"}, cursor : Nat, items : Seq(Nat)]
<1>1. /\ k \in Nat /\ browser.last \in 0..k /\ poll \in [Polls -> Poll] /\ UNCHANGED <<stream, wire, browser>>
      /\ poll[p].cursor \in 0..browser.last
  BY DEF Numbered, Followed, Tick, Answer, LosePoll
<1>2. ASSUME NEW new \in Poll, poll' = [poll EXCEPT ![p] = new], new.cursor <= browser.last,
             NEW c \in 0..browser.last, IsRun(new.items, c, k)
      PROVE  Followed(k)'
  <2>1. poll' \in [Polls -> Poll] /\ poll'[p] = new /\ \A q \in Polls \ {p} : poll'[q] = poll[q] BY <1>1, <1>2
  <2>2. \A q \in Polls : poll'[q].cursor <= browser.last /\ \E d \in 0..browser.last : IsRun(poll'[q].items, d, k)
    BY <1>2, <2>1 DEF Followed
  <2> QED BY <1>1, <2>1, <2>2 DEF Followed
<1>3. <<>> \in Seq(Nat) /\ Len(<<>>) = 0 /\ IsRun(<<>>, 0, k) BY <1>1 DEF IsRun
<1>4. CASE Tick(p)
  <2> DEFINE new == [at |-> "asked", cursor |-> browser.last, items |-> <<>>]
  <2>1. poll' = [poll EXCEPT ![p] = new] BY <1>4 DEF Tick
  <2>2. new \in Poll /\ new.cursor <= browser.last /\ new.items = <<>> BY <1>1, <1>3
  <2> HIDE DEF new, Poll
  <2>4. 0 \in 0..browser.last BY <1>1
  <2> QED BY <1>1, <1>2, <1>3, <2>1, <2>2, <2>4
<1>5. CASE Answer(p)
  <2> DEFINE c == poll[p].cursor
             batch == Since(c)
             new == [at |-> "answered", cursor |-> 0, items |-> batch]
  <2>1. poll' = [poll EXCEPT ![p] = new] BY <1>5 DEF Answer
  <2>2. c \in 0..k BY <1>1
  <2>3. batch \in Seq(Nat) /\ IsRun(batch, c, k) BY <2>2, SinceIsARun DEF IsRun
  <2> HIDE DEF batch
  <2>4. new \in Poll /\ new.cursor <= browser.last /\ new.items = batch BY <1>1, <2>3
  <2> HIDE DEF new, Poll
  <2> QED BY <1>1, <1>2, <2>1, <2>3, <2>4
<1>6. CASE LosePoll(p)
  <2>1. poll' = [poll EXCEPT ![p] = NoPoll] BY <1>6 DEF LosePoll
  <2>2. NoPoll \in Poll /\ NoPoll.cursor <= browser.last /\ NoPoll.items = <<>> BY <1>1, <1>3 DEF NoPoll
  <2> HIDE DEF Poll
  <2>3. 0 \in 0..browser.last BY <1>1
  <2> QED BY <1>1, <1>2, <1>3, <2>1, <2>2, <2>3
<1> QED BY <1>4, <1>5, <1>6

LEMMA EventStep == EventInv /\ [EventNext]_eventVars => EventInv'
<1> SUFFICES ASSUME EventInv, [EventNext]_eventVars PROVE EventInv' OBVIOUS
<1>1. PICK k \in Nat : Numbered(k) /\ Followed(k) BY DEF EventInv
<1>2. CASE UNCHANGED <<events, writer, stream, wire, browser, poll>>
  <2>1. Numbered(k)' /\ Followed(k)' BY <1>1, <1>2 DEF Numbered, Followed
  <2> QED BY <2>1 DEF EventInv
<1>3. CASE Appends
  <2>1. \E h \in Nat : h >= k /\ Numbered(h)'
    <3>1. CASE \E w \in Writers : Append1(w) \/ Awake(w) BY <1>1, <3>1, WriterStep
    <3>2. CASE \E w \in Writers : \E c \in BOOLEAN : Ends(w, c) BY <1>1, <3>2, EndStep
    <3> QED BY <1>3, <3>1, <3>2 DEF Appends
  <2>2. PICK h \in Nat : h >= k /\ Numbered(h)' BY <2>1
  <2>3. UNCHANGED <<stream, wire, browser, poll>> BY <1>3 DEF Appends, Append1, Awake, Ends
  <2>4. Followed(h)' BY <1>1, <2>2, <2>3, MoreEvents
  <2> QED BY <2>2, <2>4 DEF EventInv
<1>4. CASE \/ EventServes \/ Refused
           \/ \E cleanly \in BOOLEAN : Broken(cleanly)
           \/ \E p \in Polls : LosePoll(p)
  <2>1. Followed(k)'
    BY <1>1, <1>4, ReadBatchStep, ReceiveStep, TakePollStep, StreamStep, PollStep DEF EventServes
  <2>2. UNCHANGED <<events, writer>>
    BY <1>4 DEF EventServes, ReadBatch, Connect, Receive, Tick, Answer, TakePoll, Refused, Broken, LosePoll
  <2>3. Numbered(k)' BY <1>1, <2>2 DEF Numbered
  <2> QED BY <2>1, <2>3 DEF EventInv
<1> QED BY <1>2, <1>3, <1>4 DEF EventNext, eventVars

\* What has been seen is a run from the first event, so nothing below the cursor is
\* missing from it, and nothing in it is no event.
LEMMA FollowedSkipsNothing == EventInv => NothingSkipped
<1> SUFFICES ASSUME NEW k \in Nat, Numbered(k), Followed(k) PROVE NothingSkipped BY DEF EventInv
<1>1. events = 1..k /\ browser.seen = 1..browser.last /\ browser.last \in 0..k BY DEF Numbered, Followed
<1> QED BY <1>1 DEF NothingSkipped

-----------------------------------------------------------------------------
(* The channel. *)

\* A credential is stored with the keys it was sealed under, and only beside a row that
\* says so; what callbacks work on is theirs alone.
CredentialSealed ==
  /\ key \in Nat \ {0}
  /\ secret \in [grant : Consents \cup {"none"}, refreshKey : Nat, accessKey : Nat, version : Nat]
  /\ channel \in [status : {"none", "connected", "reauthorization", "revoked"}, present : BOOLEAN]
  /\ callback \in [Callbacks -> [at : {"none", "exchanging"}, of : Consents \cup {"none"}]]
  /\ secret # NoSecret => channel.present = TRUE /\ secret.version # 0
  /\ \A b \in Callbacks : callback[b].at = "exchanging" => callback[b].of \in Consents

ConnectionInv == CredentialSealed /\ CredentialKept

LEMMA ConnectionStarts == ConnectionInit => ConnectionInv
BY DEF ConnectionInit, ConnectionInv, CredentialSealed, CredentialKept, NoSecret, NoChannel, NoCallback, Opens

\* The steps that leave the channel and its credential alone.
LEMMA ConsentStep ==
  ASSUME ConnectionInv,
         \/ \E c \in Consents : StartConsent(c) \/ ExpireConsent(c) \/ WithdrawGrant(c)
         \/ \E b \in Callbacks : (\E c \in Consents : ClaimConsent(b, c))
                                \/ \E dies \in BOOLEAN : RefuseConsent(b, dies)
         \/ \E m \in Minters : BeginMint(m) \/ LoseMint(m)
         \/ \E d \in Disconnects, reached \in BOOLEAN : BeginDisconnect(d, reached)
         \/ ChangeKey
  PROVE  ConnectionInv'
<1> USE DEF ConnectionInv, CredentialSealed, CredentialKept, Opens
<1>1. ASSUME NEW c \in Consents, StartConsent(c) \/ ExpireConsent(c) \/ WithdrawGrant(c)
      PROVE  ConnectionInv'
  BY <1>1 DEF StartConsent, ExpireConsent, WithdrawGrant, NoSecret
<1>2. ASSUME NEW b \in Callbacks, NEW c \in Consents, ClaimConsent(b, c) PROVE ConnectionInv'
  BY <1>2 DEF ClaimConsent, Claimable, NoSecret
<1>3. ASSUME NEW b \in Callbacks, NEW dies \in BOOLEAN, RefuseConsent(b, dies) PROVE ConnectionInv'
  BY <1>3 DEF RefuseConsent, NoCallback, NoSecret
<1>4. ASSUME NEW m \in Minters, BeginMint(m) \/ LoseMint(m) PROVE ConnectionInv'
  BY <1>4 DEF BeginMint, LoseMint, NoSecret
<1>5. ASSUME NEW d \in Disconnects, NEW reached \in BOOLEAN, BeginDisconnect(d, reached) PROVE ConnectionInv'
  BY <1>5 DEF BeginDisconnect, NoSecret
<1>6. CASE ChangeKey BY <1>6 DEF ChangeKey, NoSecret
<1> HIDE DEF ConnectionInv
<1> QED BY <1>1, <1>2, <1>3, <1>4, <1>5, <1>6

LEMMA CompleteConsentStep ==
  ASSUME ConnectionInv, NEW b \in Callbacks, CompleteConsent(b)
  PROVE  ConnectionInv'
BY DEF ConnectionInv, CredentialSealed, CredentialKept, Opens, CompleteConsent, NoCallback, NoSecret

\* A token is stored only where a credential is, and only then is the channel marked
\* as connected again.
LEMMA EndMintStep ==
  ASSUME ConnectionInv, NEW m \in Minters, NEW moved \in BOOLEAN, EndMint(m, moved)
  PROVE  ConnectionInv'
<1> USE DEF ConnectionInv, CredentialSealed, CredentialKept, Opens
<1>1. UNCHANGED <<key, callback>> BY DEF EndMint
<1> DEFINE granted == minter[m].grant \in grants
<1>2. CASE UNCHANGED <<channel, secret>> BY <1>1, <1>2 DEF NoSecret
<1>3. CASE ~UNCHANGED <<channel, secret>>
  <2>1. /\ ~(granted /\ Gone) /\ secret' = IF granted THEN Sealed ELSE secret
        /\ channel' = [channel EXCEPT !.status = Marked(m, granted /\ ~moved)]
    BY <1>3 DEF EndMint
  <2>2. channel'.present = channel.present /\ channel'.status = Marked(m, granted /\ ~moved)
    BY <2>1
  <2>3. /\ Marked(m, granted /\ ~moved) \in {"none", "connected", "reauthorization", "revoked"}
        /\ Marked(m, granted /\ ~moved) = "connected" => channel.status = "connected" \/ granted
    BY DEF Marked
  <2>4. CASE granted
    <3>1. secret # NoSecret BY <2>1, <2>4 DEF Gone
    <3>2. /\ secret' \in [grant : Consents \cup {"none"}, refreshKey : Nat, accessKey : Nat, version : Nat]
          /\ secret'.version = secret.version /\ secret'.refreshKey = secret.refreshKey
      BY <2>1, <2>4 DEF Sealed
    <3>3. secret' # NoSecret BY <3>1, <3>2 DEF NoSecret
    <3>4. channel' \in [status : {"none", "connected", "reauthorization", "revoked"}, present : BOOLEAN]
      BY <2>1, <2>3
    <3> QED BY <1>1, <2>2, <3>1, <3>2, <3>3, <3>4 DEF NoSecret
  <2>5. CASE ~granted
    <3>1. channel' \in [status : {"none", "connected", "reauthorization", "revoked"}, present : BOOLEAN]
      BY <2>1, <2>3
    <3>2. secret' = secret BY <2>1, <2>5
    <3> QED BY <1>1, <2>2, <2>3, <2>5, <3>1, <3>2 DEF NoSecret
  <2> QED BY <2>4, <2>5
<1> QED BY <1>2, <1>3

LEMMA EndDisconnectStep ==
  ASSUME ConnectionInv, NEW d \in Disconnects, EndDisconnect(d)
  PROVE  ConnectionInv'
BY DEF ConnectionInv, CredentialSealed, CredentialKept, Opens, EndDisconnect, NoSecret

LEMMA ConnectionStep == ConnectionInv /\ [ConnectionNext]_connectionVars => ConnectionInv'
<1>1. CASE ConnectionInv /\ UNCHANGED connectionVars
  BY <1>1 DEF connectionVars, ConnectionInv, CredentialSealed, CredentialKept, Opens, NoSecret
<1> QED BY <1>1, ConsentStep, CompleteConsentStep, EndMintStep, EndDisconnectStep DEF ConnectionNext

-----------------------------------------------------------------------------
(* The reference sheets. *)

FlowStatus == Building \cup Applying \cup {"none", "awaiting", "complete", "failed", "cancelled"}
FlowRecord == [status : FlowStatus, approval : [given : BOOLEAN, sheets : SUBSET Sheet]]
WorkRecord == [left : SUBSET Sheet, hand : SUBSET Sheet, wrote : SUBSET Sheet, table : {1, 2},
               choice : [Entities -> SUBSET Sheet], shots : SUBSET Shots, changed : SUBSET Shots]

ContinuityTyped ==
  /\ identity \in [Entities -> Identity]
  /\ sheet \in [Sheet -> {"none", "draft", "approved", "rejected"}]
  /\ drawn \in [Sheet -> Nat]
  /\ flow \in [Scope -> FlowRecord] /\ work \in [Scope -> WorkRecord]
  /\ since \in [Scope -> SUBSET Sheet]

\* An apply has found no sheet undecided in the tables it has read, and those it has
\* chosen approved; what is not so any more has changed since.
ReadFor(w) ==
  /\ flow[w].status \in {"awaiting", "binding", "pending"} =>
       \A e \in Entities : work[w].choice[e] = {}
  /\ flow[w].status = "pending" /\ work[w].table # 1 => Pending \cap InTable(1) \subseteq since[w]
  /\ flow[w].status \in {"choosing", "comparing"} =>
       /\ Pending \subseteq since[w]
       /\ \A e \in Entities : work[w].choice[e] \subseteq Approved \cup since[w]

\* A sheet nobody contests is drawn by one build, which has not paid before it asks,
\* and once it is paid for it is in store or about to be.
PaidFor(s) ==
  /\ drawn[s] \in {0, 1}
  /\ \A v, w \in Scope : Draws(v, s) /\ Draws(w, s) => v = w
  /\ \A w \in Scope : Draws(w, s) /\ flow[w].status = "drawing" => drawn[s] = 0
  /\ drawn[s] = 1 => s \in drawing \/ \E w \in Scope : Draws(w, s)

ContinuityInv ==
  /\ ContinuityTyped
  /\ \A w \in Scope : ReadFor(w)
  /\ \A s \in Sheet \ contested : PaidFor(s)

LEMMA ContinuityStarts == ContinuityInit => ContinuityInv
<1> SUFFICES ASSUME ContinuityInit PROVE ContinuityInv OBVIOUS
<1>1. NoWork \in WorkRecord BY DEF NoWork, WorkRecord
<1>2. NoFlow \in FlowRecord BY DEF NoFlow, NoSheets, FlowRecord, FlowStatus
<1>3. ContinuityTyped
  BY <1>1, <1>2, ContinuityAssumption DEF ContinuityInit, ContinuityTyped, Identity
<1>4. \A w \in Scope : flow[w].status = "none" BY DEF ContinuityInit, NoFlow
<1>5. \A w \in Scope : ReadFor(w) BY <1>4 DEF ReadFor
<1>6. \A s \in Sheet : PaidFor(s) BY <1>4 DEF PaidFor, ContinuityInit, Draws
<1> QED BY <1>3, <1>5, <1>6 DEF ContinuityInv

\* What a step of one workflow's activity leaves behind.
LEMMA FlowGoes ==
  ASSUME ContinuityTyped, NEW w \in Scope, NEW status \in FlowStatus, NEW holding \in WorkRecord,
         Goes(w, status, holding)
  PROVE  /\ flow' \in [Scope -> FlowRecord] /\ work' \in [Scope -> WorkRecord]
         /\ flow'[w].status = status /\ work'[w] = holding
         /\ \A v \in Scope \ {w} : flow'[v] = flow[v] /\ work'[v] = work[v]
<1>1. flow \in [Scope -> FlowRecord] BY DEF ContinuityTyped
<1>6. work \in [Scope -> WorkRecord] BY DEF ContinuityTyped
<1>2. PICK to : to = [flow[w] EXCEPT !.status = status] OBVIOUS
<1>3. to \in FlowRecord /\ to.status = status BY <1>1, <1>2 DEF FlowRecord
<1>4. flow' = [flow EXCEPT ![w] = to] BY <1>2 DEF Goes
<1>5. work' = [work EXCEPT ![w] = holding] BY DEF Goes
<1> QED BY <1>1, <1>6, <1>3, <1>4, <1>5

LEMMA FlowEnded ==
  ASSUME ContinuityTyped, NEW w \in Scope, NEW status \in FlowStatus, FlowEnds(w, status)
  PROVE  /\ flow' \in [Scope -> FlowRecord] /\ work' \in [Scope -> WorkRecord]
         /\ flow'[w].status = status /\ work'[w] = NoWork
         /\ \A v \in Scope \ {w} : flow'[v] = flow[v] /\ work'[v] = work[v]
<1>1. NoWork \in WorkRecord BY DEF NoWork, WorkRecord
<1>2. flow \in [Scope -> FlowRecord] /\ work \in [Scope -> WorkRecord] BY DEF ContinuityTyped
<1>3. PICK to : to = [NoFlow EXCEPT !.status = status] OBVIOUS
<1>4. to \in FlowRecord /\ to.status = status BY <1>3 DEF NoFlow, NoSheets, FlowRecord
<1>5. flow' = [flow EXCEPT ![w] = to] /\ work' = [work EXCEPT ![w] = NoWork]
  BY <1>3 DEF FlowEnds
<1> QED BY <1>1, <1>2, <1>4, <1>5

LEMMA RequirementsTyped ==
  ASSUME ContinuityTyped, NEW w \in Scope
  PROVE  Requirements(w) \in WorkRecord
<1>1. \A e \in Entities : Current(e) \in Sheet BY DEF ContinuityTyped, Current, Sheet
<1>2. InScope(w) \subseteq Entities BY DEF InScope, Scope
<1> QED BY <1>1, <1>2 DEF Requirements, NoWork, WorkRecord

\* What the build of a workflow and its apply leave alone.
LEMMA BuildsLeave ==
  ASSUME NEW w \in Scope, Builds(w)
  PROVE  /\ UNCHANGED <<identity, binding>>
         /\ UNCHANGED <<sheet, since>> \/ CommitDrafts(w)
         /\ UNCHANGED drawn \/ \E s \in Sheet : Asks(w, s)
<1>1. ASSUME NEW s \in Sheet, LooksFor(w, s) PROVE UNCHANGED <<identity, binding, sheet, since, drawn>>
  BY <1>1 DEF LooksFor
<1>2. ASSUME NEW s \in Sheet, Asks(w, s) PROVE UNCHANGED <<identity, binding>> /\ CommitDrafts(w)
  BY <1>2 DEF Asks
<1>3. ASSUME NEW s \in Sheet, Adopts(w, s) PROVE UNCHANGED <<identity, binding, sheet, since, drawn>>
  BY <1>3 DEF Adopts
<1>4. ASSUME NEW s \in Sheet, Inserts(w, s) PROVE UNCHANGED <<identity, binding, sheet, since, drawn>>
  BY <1>4 DEF Inserts
<1>5. ASSUME Stores(w) PROVE UNCHANGED <<identity, binding, sheet, since, drawn>>
  BY <1>5 DEF Stores
<1>6. ASSUME NEW c \in BOOLEAN, Drafted(w, c)
      PROVE  UNCHANGED <<identity, binding, drawn>> /\ CommitDrafts(w)
  BY <1>6 DEF Drafted
<1>7. ASSUME BuildDies(w) PROVE UNCHANGED <<identity, binding, sheet, since, drawn>>
  BY <1>7 DEF BuildDies
<1> QED BY <1>1, <1>2, <1>3, <1>4, <1>5, <1>6, <1>7 DEF Builds

LEMMA AppliesLeave ==
  ASSUME NEW w \in Scope, Applies(w)
  PROVE  /\ UNCHANGED <<identity, sheet, drawing, drawn, contested>>
         /\ UNCHANGED since \/ Unmarks(w) \/ ChecksPending(w) \/ Chooses(w)
         /\ UNCHANGED binding \/ Writes(w)
<1>1. ASSUME ChecksApproval(w) PROVE UNCHANGED <<identity, sheet, drawing, drawn, contested, since, binding>>
  BY <1>1 DEF ChecksApproval
<1>2. ASSUME ChecksPending(w) PROVE UNCHANGED <<identity, sheet, drawing, drawn, contested, binding>>
  BY <1>2 DEF ChecksPending
<1>3. ASSUME Chooses(w) PROVE UNCHANGED <<identity, sheet, drawing, drawn, contested, binding>>
  BY <1>3 DEF Chooses
<1>4. ASSUME NEW s \in Shots, Compares(w, s)
      PROVE  UNCHANGED <<identity, sheet, drawing, drawn, contested, since, binding>>
  BY <1>4 DEF Compares
<1>5. ASSUME Writes(w) PROVE UNCHANGED <<identity, sheet, drawing, drawn, contested>> /\ Unmarks(w)
  BY <1>5 DEF Writes
<1>6. ASSUME ApplyDies(w) PROVE UNCHANGED <<identity, sheet, drawing, drawn, contested, binding>> /\ Unmarks(w)
  BY <1>6 DEF ApplyDies
<1> QED BY <1>1, <1>2, <1>3, <1>4, <1>5, <1>6 DEF Applies

\* The types survive every step.
LEMMA TypesStep ==
  ASSUME ContinuityTyped, [ContinuityNext]_continuityVars
  PROVE  ContinuityTyped'
<1>1. flow \in [Scope -> FlowRecord] /\ work \in [Scope -> WorkRecord] /\ NoWork \in WorkRecord
  BY DEF ContinuityTyped, NoWork, WorkRecord
<1>2. identity' \in [Entities -> Identity]
  <2>1. ASSUME NEW e \in Entities, Reanalyse(e) PROVE identity' \in [Entities -> Identity]
    BY <2>1, ContinuityAssumption DEF ContinuityTyped, Reanalyse, Identity
  <2> QED BY <2>1, BuildsLeave, AppliesLeave
    DEF ContinuityTyped, ContinuityNext, continuityVars, StartFlow, CancelFlow, Decide, DispatchApproval
<1>3. drawn' \in [Sheet -> Nat]
  <2>1. ASSUME NEW w \in Scope, NEW s \in Sheet, Asks(w, s) PROVE drawn' \in [Sheet -> Nat]
    BY <2>1 DEF ContinuityTyped, Asks
  <2> QED BY <2>1, BuildsLeave, AppliesLeave
    DEF ContinuityTyped, ContinuityNext, continuityVars, StartFlow, CancelFlow, Decide, DispatchApproval,
        Reanalyse
<1>4. sheet' \in [Sheet -> {"none", "draft", "approved", "rejected"}]
  <2>1. ASSUME NEW w \in Scope, CommitDrafts(w)
        PROVE  sheet' \in [Sheet -> {"none", "draft", "approved", "rejected"}]
    BY <2>1 DEF ContinuityTyped, CommitDrafts
  <2> QED BY <2>1, BuildsLeave, AppliesLeave
    DEF ContinuityTyped, ContinuityNext, continuityVars, StartFlow, CancelFlow, Decide, DispatchApproval,
        Reanalyse
<1>5. since' \in [Scope -> SUBSET Sheet]
  <2>1. ASSUME NEW S \in SUBSET Sheet, Marks(S) PROVE since' \in [Scope -> SUBSET Sheet]
    BY <2>1 DEF ContinuityTyped, Marks
  <2>2. ASSUME NEW w \in Scope, Unmarks(w) PROVE since' \in [Scope -> SUBSET Sheet]
    BY <2>2 DEF ContinuityTyped, Unmarks
  <2>3. ASSUME NEW w \in Scope, CommitDrafts(w) PROVE since' \in [Scope -> SUBSET Sheet]
    <3>1. work[w].wrote \in SUBSET Sheet BY <1>1 DEF WorkRecord
    <3> QED BY <2>1, <2>3, <3>1 DEF CommitDrafts
  <2>4. ASSUME NEW w \in Scope, ChecksPending(w) \/ Chooses(w) PROVE since' \in [Scope -> SUBSET Sheet]
    BY <2>4, <2>2 DEF ContinuityTyped, ChecksPending, Chooses
  <2>5. ASSUME NEW s \in Sheet, Marks({s}) PROVE since' \in [Scope -> SUBSET Sheet]
    BY <2>1, <2>5
  <2> QED BY <2>2, <2>3, <2>4, <2>5, BuildsLeave, AppliesLeave
    DEF ContinuityTyped, ContinuityNext, continuityVars, StartFlow, CancelFlow, Decide, DispatchApproval,
        Reanalyse
<1>6. flow' \in [Scope -> FlowRecord] /\ work' \in [Scope -> WorkRecord]
  <2> DEFINE Kept == flow' \in [Scope -> FlowRecord] /\ work' \in [Scope -> WorkRecord]
  <2>1. ASSUME NEW w \in Scope, NEW status \in FlowStatus, NEW holding \in WorkRecord,
               Goes(w, status, holding)
        PROVE  Kept
    BY <2>1, FlowGoes
  <2>2. ASSUME NEW w \in Scope, NEW status \in FlowStatus, FlowEnds(w, status) PROVE Kept
    BY <2>2, FlowEnded
  <2>3. \A w \in Scope : work[w] \in WorkRecord /\ Requirements(w) \in WorkRecord
    BY <1>1, RequirementsTyped
  <2>4. ASSUME NEW w \in Scope, NEW s \in Sheet, LooksFor(w, s) PROVE Kept
    <3>1. [work[w] EXCEPT !.left = @ \ {s}] \in WorkRecord BY <2>3 DEF WorkRecord
    <3>2. [[work[w] EXCEPT !.left = @ \ {s}] EXCEPT !.hand = {s}] \in WorkRecord
      BY <3>1 DEF WorkRecord
    <3>3. {"drafting", "stored", "drawing"} \subseteq FlowStatus BY DEF FlowStatus, Building
    <3> HIDE DEF Kept
    <3> QED BY <2>4, <2>1, <3>1, <3>2, <3>3 DEF LooksFor
  <2>5. ASSUME NEW w \in Scope, NEW s \in Sheet, Asks(w, s) \/ Adopts(w, s) \/ Inserts(w, s) PROVE Kept
    <3>1. [work[w] EXCEPT !.wrote = {}] \in WorkRecord BY <2>3 DEF WorkRecord
    <3>2. [work[w] EXCEPT !.hand = {}] \in WorkRecord BY <2>3 DEF WorkRecord
    <3>3. [work[w] EXCEPT !.hand = {}, !.wrote = @ \cup {s}] \in WorkRecord BY <2>3 DEF WorkRecord
    <3>4. {"answered", "drafting", "inserting"} \subseteq FlowStatus BY DEF FlowStatus, Building
    <3> HIDE DEF Kept
    <3> QED BY <2>5, <2>1, <2>3, <3>1, <3>2, <3>3, <3>4 DEF Asks, Adopts, Inserts
  <2>6. ASSUME NEW w \in Scope, Stores(w) \/ BuildDies(w) \/ ApplyDies(w) \/ Writes(w) \/ CancelFlow(w)
        PROVE  Kept
    <3>1. {"stored", "drafting", "failed", "binding", "complete", "cancelled"} \subseteq FlowStatus
      BY DEF FlowStatus, Building, Applying
    <3> HIDE DEF Kept
    <3> QED BY <1>1, <2>6, <2>1, <2>2, <2>3, <3>1 DEF Stores, BuildDies, ApplyDies, Writes, CancelFlow
  <2>7. ASSUME NEW w \in Scope, NEW next \in FlowStatus, NEW holding \in WorkRecord,
               ReadOn(w, next, holding)
        PROVE  Kept
    <3>1. /\ [holding EXCEPT !.table = 2] \in WorkRecord
          /\ [holding EXCEPT !.table = 1] \in WorkRecord
      BY DEF WorkRecord
    <3>2. flow[w].status \in FlowStatus BY <1>1 DEF FlowRecord
    <3> HIDE DEF Kept
    <3> QED BY <2>7, <2>1, <3>1, <3>2 DEF ReadOn
  <2>8. ASSUME NEW w \in Scope, ChecksApproval(w) \/ ChecksPending(w) PROVE Kept
    <3>1. {"pending", "choosing", "failed"} \subseteq FlowStatus
      BY DEF FlowStatus, Applying
    <3> HIDE DEF Kept
    <3> QED BY <2>8, <2>7, <2>2, <2>3, <3>1 DEF ChecksApproval, ChecksPending
  <2>9. ASSUME NEW w \in Scope, Chooses(w) PROVE Kept
    <3>1. PICK c \in SheetChoices(work[w].table) : ReadOn(w, "comparing", [work[w] EXCEPT
            !.choice = [e \in Entities |-> IF e \in Table(work[w].table) THEN c[e] ELSE @[e]]])
      BY <2>9 DEF Chooses
    <3>2. c \in [Table(work[w].table) -> SUBSET Approved] /\ Approved \subseteq Sheet
      BY DEF SheetChoices, Approved
    <3>3. \A e \in Table(work[w].table) : c[e] \subseteq Sheet BY <3>2
    <3>4. work[w].choice \in [Entities -> SUBSET Sheet] BY <2>3 DEF WorkRecord
    <3>5. PICK h : h = [work[w] EXCEPT
            !.choice = [e \in Entities |-> IF e \in Table(work[w].table) THEN c[e] ELSE @[e]]]
      OBVIOUS
    <3>6. h \in WorkRecord BY <2>3, <3>3, <3>4, <3>5 DEF WorkRecord
    <3>7. "comparing" \in FlowStatus BY DEF FlowStatus, Applying
    <3> HIDE DEF Kept
    <3> QED BY <2>7, <3>1, <3>5, <3>6, <3>7
  <2>10. ASSUME NEW w \in Scope, NEW s \in Shots, Compares(w, s) PROVE Kept
    <3>1. PICK h : h = [work[w] EXCEPT !.shots = @ \ {s},
            !.changed = IF binding[s] = Bundle(work[w].choice, s) THEN @ ELSE @ \cup {s}]
      OBVIOUS
    <3>4. PICK more : more = IF binding[s] = Bundle(work[w].choice, s)
                             THEN work[w].changed ELSE work[w].changed \cup {s}
      OBVIOUS
    <3>5. more \in SUBSET Shots BY <2>3, <3>4 DEF WorkRecord
    <3>6. h = [work[w] EXCEPT !.shots = @ \ {s}, !.changed = more] BY <3>1, <3>4
    <3>2. h \in WorkRecord BY <2>3, <3>5, <3>6 DEF WorkRecord
    <3>3. "comparing" \in FlowStatus BY DEF FlowStatus, Applying
    <3> HIDE DEF Kept
    <3> QED BY <2>10, <2>1, <3>1, <3>2, <3>3 DEF Compares
  <2>11. NoSheets \in [given : BOOLEAN, sheets : SUBSET Sheet] BY DEF NoSheets
  <2>12. ASSUME NEW w \in Scope, StartFlow(w) PROVE Kept
    <3>1. [status |-> "drafting", approval |-> NoSheets] \in FlowRecord
      BY <2>11 DEF FlowRecord, FlowStatus, Building
    <3> QED BY <1>1, <2>3, <2>12, <3>1 DEF StartFlow
  <2>13. ASSUME DispatchApproval PROVE Kept
    <3>1. PICK given : given = [given |-> TRUE, sheets |-> Approved] OBVIOUS
    <3>2. given \in [given : BOOLEAN, sheets : SUBSET Sheet] BY <3>1 DEF Approved
    <3>3. "project" \in Scope BY DEF Scope
    <3>4. /\ [status |-> "drafting", approval |-> given] \in FlowRecord
          /\ [status |-> "binding", approval |-> given] \in FlowRecord
      BY <3>2 DEF FlowRecord, FlowStatus, Building, Applying
    <3>5. flow["project"] \in FlowRecord /\ [flow["project"] EXCEPT !.approval = given] \in FlowRecord
      BY <1>1, <3>2, <3>3 DEF FlowRecord
    <3> QED BY <1>1, <2>3, <2>13, <3>1, <3>3, <3>4, <3>5 DEF DispatchApproval
  <2>14. ASSUME NEW w \in Scope, NEW c \in BOOLEAN, Drafted(w, c) PROVE Kept
    <3>1. /\ [NoFlow EXCEPT !.status = "cancelled"] \in FlowRecord
          /\ [status |-> "binding", approval |-> [given |-> TRUE, sheets |-> {}]] \in FlowRecord
      BY <2>11 DEF NoFlow, FlowRecord, FlowStatus, Applying
    <3>2. /\ [flow[w] EXCEPT !.status = "binding"] \in FlowRecord
          /\ [flow[w] EXCEPT !.status = "awaiting"] \in FlowRecord
      BY <1>1 DEF FlowRecord, FlowStatus, Applying
    <3> QED BY <1>1, <2>14, <3>1, <3>2 DEF Drafted
  <2>15. ASSUME UNCHANGED <<flow, work>> PROVE Kept BY <1>1, <2>15
  <2> HIDE DEF Kept
  <2>16. ASSUME NEW w \in Scope, Builds(w) PROVE Kept
    BY <2>4, <2>5, <2>6, <2>14, <2>16 DEF Builds
  <2>17. ASSUME NEW w \in Scope, Applies(w) PROVE Kept
    BY <2>6, <2>8, <2>9, <2>10, <2>17 DEF Applies
  <2>18. ASSUME NEW s \in Sheet, NEW d \in {"approved", "rejected"}, Decide(s, d) PROVE Kept
    BY <2>15, <2>18 DEF Decide
  <2>19. ASSUME NEW e \in Entities, Reanalyse(e) PROVE Kept BY <2>15, <2>19 DEF Reanalyse
  <2>20. ASSUME ContinuityNext PROVE Kept
    BY <2>6, <2>12, <2>13, <2>16, <2>17, <2>18, <2>19, <2>20 DEF ContinuityNext
  <2>21. ASSUME UNCHANGED continuityVars PROVE Kept BY <2>15, <2>21 DEF continuityVars
  <2>22. Kept BY <2>20, <2>21
  <2> QED BY <2>22 DEF Kept
<1> QED BY <1>2, <1>3, <1>4, <1>5, <1>6 DEF ContinuityTyped


\* Where the build of a workflow and its apply leave the workflows.
LEMMA FlowOfBuild ==
  ASSUME ContinuityTyped, NEW w \in Scope, Builds(w)
  PROVE  /\ \A v \in Scope \ {w} : flow'[v] = flow[v] /\ work'[v] = work[v]
         /\ \/ flow'[w].status \in Building \cup {"cancelled", "failed"}
            \/ flow'[w].status \in {"awaiting", "binding"} /\ work'[w] = NoWork
<1>1. flow \in [Scope -> FlowRecord] /\ work \in [Scope -> WorkRecord] BY DEF ContinuityTyped
<1>2. ASSUME NEW status \in Building \cup {"cancelled", "failed"}, NEW holding, Goes(w, status, holding)
      PROVE  /\ \A v \in Scope \ {w} : flow'[v] = flow[v] /\ work'[v] = work[v]
             /\ flow'[w].status \in Building \cup {"cancelled", "failed"}
  <2>1. PICK to : to = [flow[w] EXCEPT !.status = status] OBVIOUS
  <2>2. to.status = status BY <1>1, <2>1 DEF FlowRecord
  <2>3. flow' = [flow EXCEPT ![w] = to] /\ work' = [work EXCEPT ![w] = holding]
    BY <1>2, <2>1 DEF Goes
  <2> QED BY <1>1, <2>2, <2>3
<1>3. {"drafting", "drawing", "answered", "stored", "inserting"} = Building BY DEF Building
<1>4. ASSUME NEW s \in Sheet, LooksFor(w, s)
      PROVE  \E status \in Building : \E holding : Goes(w, status, holding)
  BY <1>3, <1>4 DEF LooksFor
<1>5. ASSUME NEW s \in Sheet, Asks(w, s) \/ Adopts(w, s) \/ Inserts(w, s)
      PROVE  \E status \in Building : \E holding : Goes(w, status, holding)
  BY <1>3, <1>5 DEF Asks, Adopts, Inserts
<1>6. ASSUME Stores(w) PROVE \E status \in Building : \E holding : Goes(w, status, holding)
  BY <1>3, <1>6 DEF Stores
<1>7. ASSUME FlowEnds(w, "failed")
      PROVE  /\ \A v \in Scope \ {w} : flow'[v] = flow[v] /\ work'[v] = work[v]
             /\ flow'[w].status = "failed"
  BY <1>7, FlowEnded DEF FlowStatus
<1>8. ASSUME BuildDies(w)
      PROVE  FlowEnds(w, "failed") \/ \E status \in Building : \E holding : Goes(w, status, holding)
  BY <1>3, <1>8 DEF BuildDies
<1>9. ASSUME NEW c \in BOOLEAN, Drafted(w, c)
      PROVE  /\ \A v \in Scope \ {w} : flow'[v] = flow[v] /\ work'[v] = work[v]
             /\ flow'[w].status \in {"cancelled", "awaiting", "binding"} /\ work'[w] = NoWork
  <2>1. PICK to : flow' = [flow EXCEPT ![w] = to] /\ to.status \in {"cancelled", "awaiting", "binding"}
    <3>1. [NoFlow EXCEPT !.status = "cancelled"].status = "cancelled" BY DEF NoFlow
    <3>2. /\ [flow[w] EXCEPT !.status = "binding"].status = "binding"
          /\ [flow[w] EXCEPT !.status = "awaiting"].status = "awaiting"
      BY <1>1 DEF FlowRecord
    <3>3. [status |-> "binding", approval |-> [given |-> TRUE, sheets |-> {}]].status = "binding"
      OBVIOUS
    <3> QED BY <1>9, <3>1, <3>2, <3>3 DEF Drafted
  <2>2. work' = [work EXCEPT ![w] = NoWork] BY <1>9 DEF Drafted
  <2> QED BY <1>1, <2>1, <2>2
<1>10. CASE \E status \in Building : \E holding : Goes(w, status, holding) BY <1>2, <1>10
<1> QED BY <1>4, <1>5, <1>6, <1>7, <1>8, <1>9, <1>10 DEF Builds

LEMMA FlowOfApply ==
  ASSUME ContinuityTyped, NEW w \in Scope, Applies(w)
  PROVE  \A v \in Scope \ {w} : flow'[v] = flow[v] /\ work'[v] = work[v] /\ since'[v] = since[v]
<1>1. /\ flow \in [Scope -> FlowRecord] /\ work \in [Scope -> WorkRecord]
      /\ since \in [Scope -> SUBSET Sheet]
  BY DEF ContinuityTyped
<1> DEFINE Others == \A v \in Scope \ {w} : flow'[v] = flow[v] /\ work'[v] = work[v]
<1>2. ASSUME NEW status, NEW holding, Goes(w, status, holding) PROVE Others
  BY <1>1, <1>2 DEF Goes
<1>3. ASSUME NEW status, FlowEnds(w, status) PROVE Others BY <1>1, <1>3 DEF FlowEnds
<1>4. ASSUME NEW next, NEW holding, ReadOn(w, next, holding) PROVE Others
  BY <1>1, <1>4 DEF ReadOn, Goes
<1> HIDE DEF Others
<1>5. ASSUME ChecksApproval(w) PROVE Others BY <1>3, <1>4, <1>5 DEF ChecksApproval
<1>6. ASSUME ChecksPending(w) PROVE Others BY <1>3, <1>4, <1>6 DEF ChecksPending
<1>7. ASSUME Chooses(w) PROVE Others BY <1>4, <1>7 DEF Chooses
<1>8. ASSUME NEW s \in Shots, Compares(w, s) PROVE Others BY <1>2, <1>8 DEF Compares
<1>9. ASSUME Writes(w) PROVE Others BY <1>3, <1>9 DEF Writes
<1>10. ASSUME ApplyDies(w) PROVE Others BY <1>2, <1>3, <1>10 DEF ApplyDies
<1>11. Others BY <1>5, <1>6, <1>7, <1>8, <1>9, <1>10 DEF Applies
<1>12. \A v \in Scope \ {w} : since'[v] = since[v]
  BY <1>1, AppliesLeave DEF Unmarks, ChecksPending, Chooses
<1> QED BY <1>11, <1>12 DEF Others

LEMMA StatusOfApply ==
  ASSUME ContinuityTyped, NEW w \in Scope, Applies(w)
  PROVE  flow[w].status \in Applying /\ flow'[w].status \in Applying \cup {"failed", "complete"}
<1>1. flow \in [Scope -> FlowRecord] BY DEF ContinuityTyped
<1> DEFINE Inside == flow'[w].status \in Applying \cup {"failed", "complete"}
<1>2. ASSUME NEW status \in Applying, NEW holding, Goes(w, status, holding) PROVE Inside
  <2>1. PICK to : to = [flow[w] EXCEPT !.status = status] OBVIOUS
  <2>2. to.status = status BY <1>1, <2>1 DEF FlowRecord
  <2>3. flow' = [flow EXCEPT ![w] = to] BY <1>2, <2>1 DEF Goes
  <2> QED BY <1>1, <2>2, <2>3
<1>3. ASSUME NEW status \in {"failed", "complete"}, FlowEnds(w, status) PROVE Inside
  BY <1>3, FlowEnded DEF FlowStatus
<1>4. ASSUME NEW next \in Applying, NEW holding, ReadOn(w, next, holding), flow[w].status \in Applying
      PROVE  Inside
  BY <1>2, <1>4 DEF ReadOn
<1>5. {"binding", "pending", "choosing", "comparing"} = Applying BY DEF Applying
<1> HIDE DEF Inside
<1>6. ASSUME ChecksApproval(w) PROVE Inside /\ flow[w].status \in Applying
  BY <1>3, <1>4, <1>5, <1>6 DEF ChecksApproval
<1>7. ASSUME ChecksPending(w) PROVE Inside /\ flow[w].status \in Applying
  BY <1>3, <1>4, <1>5, <1>7 DEF ChecksPending
<1>8. ASSUME Chooses(w) PROVE Inside /\ flow[w].status \in Applying
  BY <1>4, <1>5, <1>8 DEF Chooses
<1>9. ASSUME NEW s \in Shots, Compares(w, s) PROVE Inside /\ flow[w].status \in Applying
  BY <1>2, <1>5, <1>9 DEF Compares
<1>10. ASSUME Writes(w) PROVE Inside /\ flow[w].status \in Applying
  BY <1>3, <1>5, <1>10 DEF Writes
<1>11. ASSUME ApplyDies(w) PROVE Inside /\ flow[w].status \in Applying
  BY <1>2, <1>3, <1>5, <1>11 DEF ApplyDies
<1>12. Inside /\ flow[w].status \in Applying
  BY <1>6, <1>7, <1>8, <1>9, <1>10, <1>11 DEF Applies
<1> QED BY <1>12 DEF Inside

LEMMA Dispatched ==
  ASSUME ContinuityTyped, DispatchApproval
  PROVE  \/ ~IsLive("project") /\ flow'["project"].status = "drafting"
         \/ flow'["project"].status = flow["project"].status /\ work'["project"] = work["project"]
         \/ /\ flow["project"].status = "awaiting" /\ flow'["project"].status = "binding"
            /\ work'["project"] = work["project"]
<1>1. flow \in [Scope -> FlowRecord] /\ "project" \in Scope BY DEF ContinuityTyped, Scope
<1>2. PICK given : given = [given |-> TRUE, sheets |-> Approved] OBVIOUS
<1>3. [flow["project"] EXCEPT !.approval = given].status = flow["project"].status
  BY <1>1 DEF FlowRecord
<1>4. CASE ~IsLive("project") BY <1>1, <1>4 DEF DispatchApproval
<1>5. CASE IsLive("project")
  <2>1. PICK to : to =
          CASE flow["project"].approval.given -> flow["project"]
            [] ~flow["project"].approval.given /\ flow["project"].status = "awaiting" ->
                 [status |-> "binding", approval |-> given]
            [] OTHER -> [flow["project"] EXCEPT !.approval = given]
    OBVIOUS
  <2>2. flow' = [flow EXCEPT !["project"] = to] /\ work' = work
    BY <1>2, <1>5, <2>1 DEF DispatchApproval
  <2>3. \/ to.status = flow["project"].status
        \/ flow["project"].status = "awaiting" /\ to.status = "binding"
    <3>1. CASE flow["project"].approval.given BY <2>1, <3>1
    <3>2. CASE ~flow["project"].approval.given /\ flow["project"].status = "awaiting" BY <2>1, <3>2
    <3>3. CASE ~flow["project"].approval.given /\ flow["project"].status # "awaiting"
      BY <1>3, <2>1, <3>3
    <3> QED BY <3>1, <3>2, <3>3
  <2>4. flow'["project"] = to BY <1>1, <2>2
  <2> QED BY <2>2, <2>3, <2>4
<1> QED BY <1>4, <1>5

-----------------------------------------------------------------------------
(* What an apply has read. *)

Reading == {"pending", "choosing", "comparing"}

\* A workflow that did not move, while sheets changed that it is told of.
LEMMA ReadingMarked ==
  ASSUME ContinuityTyped, NEW v \in Scope, ReadFor(v), NEW S \in SUBSET Sheet, Marks(S),
         \A s \in Sheet \ S : sheet'[s] = sheet[s],
         flow'[v].status = flow[v].status, work'[v] = work[v]
  PROVE  ReadFor(v)'
<1>1. CASE flow[v].status \in Reading
  <2>1. since'[v] = since[v] \cup S BY <1>1 DEF Marks, Reading
  <2>2. Pending' \subseteq Pending \cup S BY DEF Pending
  <2>3. Approved \subseteq Approved' \cup S BY DEF Approved
  <2> QED BY <2>1, <2>2, <2>3 DEF ReadFor
<1>2. CASE flow[v].status \notin Reading BY <1>2 DEF ReadFor, Reading
<1> QED BY <1>1, <1>2

\* One that did not move while no sheet did.
LEMMA ReadingRests ==
  ASSUME NEW v \in Scope, ReadFor(v), UNCHANGED sheet, since'[v] = since[v],
         flow'[v].status = flow[v].status, work'[v] = work[v]
  PROVE  ReadFor(v)'
BY DEF ReadFor, Pending, Approved

\* One that is building or over.
LEMMA ReadingElsewhere ==
  ASSUME NEW v \in Scope, flow'[v].status \notin Reading \cup {"awaiting", "binding"}
  PROVE  ReadFor(v)'
BY DEF ReadFor, Reading

LEMMA ReadingBegins ==
  ASSUME NEW v \in Scope, flow'[v].status \in {"awaiting", "binding"}, work'[v] = NoWork
  PROVE  ReadFor(v)'
BY DEF ReadFor, NoWork

\* A build is told of by what it commits.
LEMMA CommitMarks ==
  ASSUME ContinuityTyped, NEW w \in Scope, CommitDrafts(w), NEW v \in Scope, ReadFor(v),
         flow'[v].status = flow[v].status, work'[v] = work[v]
  PROVE  ReadFor(v)'
<1>1. work[w].wrote \in SUBSET Sheet BY DEF ContinuityTyped, WorkRecord
<1>2. \A s \in Sheet \ work[w].wrote : sheet'[s] = sheet[s] BY DEF CommitDrafts
<1>3. Marks(work[w].wrote) BY DEF CommitDrafts
<1> QED BY <1>1, <1>2, <1>3, ReadingMarked

LEMMA BuildsRead ==
  ASSUME ContinuityTyped, \A v \in Scope : ReadFor(v), NEW w \in Scope, Builds(w)
  PROVE  \A v \in Scope : ReadFor(v)'
<1>1. \A v \in Scope \ {w} : flow'[v] = flow[v] /\ work'[v] = work[v]
  BY FlowOfBuild
<1>2. \/ flow'[w].status \notin Reading \cup {"awaiting", "binding"}
      \/ flow'[w].status \in {"awaiting", "binding"} /\ work'[w] = NoWork
  BY FlowOfBuild DEF Reading, Building
<1>3. ReadFor(w)' BY <1>2, ReadingElsewhere, ReadingBegins
<1>4. ASSUME NEW v \in Scope \ {w} PROVE ReadFor(v)'
  <2>1. flow'[v].status = flow[v].status /\ work'[v] = work[v] BY <1>1
  <2>2. CASE UNCHANGED <<sheet, since>> BY <2>1, <2>2, ReadingRests
  <2>3. CASE CommitDrafts(w) BY <2>1, <2>3, CommitMarks
  <2> QED BY <2>2, <2>3, BuildsLeave
<1> QED BY <1>3, <1>4

LEMMA ChecksRead ==
  ASSUME ContinuityTyped, NEW w \in Scope, ReadFor(w), ChecksApproval(w) \/ ChecksPending(w)
  PROVE  ReadFor(w)'
<1>1. flow[w] \in FlowRecord /\ work[w] \in WorkRecord /\ since[w] \subseteq Sheet
  BY DEF ContinuityTyped
<1>2. UNCHANGED sheet BY DEF ChecksApproval, ChecksPending
<1>3. CASE FlowEnds(w, "failed")
  <2>1. flow'[w].status = "failed" BY <1>3, FlowEnded DEF FlowStatus
  <2> QED BY <2>1, ReadingElsewhere DEF Reading
<1>4. ASSUME ChecksApproval(w), ReadOn(w, "pending", work[w]) PROVE ReadFor(w)'
  <2>1. flow[w].status = "binding" /\ \A e \in Entities : work[w].choice[e] = {}
    BY <1>4 DEF ChecksApproval, ReadFor
  <2>2. PICK h : h = [work[w] EXCEPT !.table = IF work[w].table = 1 THEN 2 ELSE 1] OBVIOUS
  <2>3. h \in WorkRecord /\ h.choice = work[w].choice /\ (work[w].table # 1 => h.table = 1)
    BY <1>1, <2>2 DEF WorkRecord
  <2>4. PICK next : next = IF work[w].table = 1 THEN "binding" ELSE "pending" OBVIOUS
  <2>5. Goes(w, next, h) /\ next \in FlowStatus
    BY <1>4, <2>1, <2>2, <2>4 DEF ReadOn, FlowStatus, Applying
  <2>6. flow'[w].status = next /\ work'[w] = h BY <2>3, <2>5, FlowGoes
  <2>7. next = "binding" \/ (next = "pending" /\ h.table = 1) BY <2>3, <2>4
  <2> QED BY <2>1, <2>3, <2>6, <2>7 DEF ReadFor
<1>5. ASSUME ChecksPending(w), Undecided(work[w].table) = {} PROVE ReadFor(w)'
  <2>1. /\ flow[w].status = "pending" /\ \A e \in Entities : work[w].choice[e] = {}
        /\ work[w].table # 1 => Pending \cap InTable(1) \subseteq since[w]
    BY <1>5 DEF ChecksPending, ReadFor
  <2>2. since'[w] = since[w] \ InTable(work[w].table) BY <1>5 DEF ChecksPending, ContinuityTyped
  <2>3. PICK h : h = [work[w] EXCEPT !.table = IF work[w].table = 1 THEN 2 ELSE 1] OBVIOUS
  <2>4. h \in WorkRecord /\ h.choice = work[w].choice BY <1>1, <2>3 DEF WorkRecord
  <2>5. PICK next : next = IF work[w].table = 1 THEN "pending" ELSE "choosing" OBVIOUS
  <2>6. Goes(w, next, h) /\ next \in FlowStatus
    BY <1>5, <2>1, <2>3, <2>5 DEF ChecksPending, ReadOn, FlowStatus, Applying
  <2>7. flow'[w].status = next /\ work'[w] = h BY <2>4, <2>6, FlowGoes
  <2>8. Pending \cap InTable(work[w].table) = {} BY <1>5 DEF Undecided
  <2>9. CASE work[w].table = 1
    <3>1. Pending \cap InTable(1) = {} BY <2>8, <2>9
    <3>2. Pending' = Pending BY <1>2 DEF Pending
    <3>3. InTable(1)' = InTable(1) BY DEF InTable, Sheet, Table
    <3>4. next = "pending" BY <2>5, <2>9
    <3> QED BY <2>1, <2>4, <2>7, <3>1, <3>2, <3>3, <3>4 DEF ReadFor
  <2>10. CASE work[w].table # 1
    <3>1. Pending \subseteq InTable(1) \cup InTable(work[w].table)
      BY <2>10 DEF Pending, InTable, Table, Sheet
    <3>2. InTable(1) \cap InTable(work[w].table) = {} BY <2>10 DEF InTable, Table
    <3>3. Pending \subseteq since'[w] BY <2>1, <2>2, <2>8, <2>10, <3>1, <3>2
    <3>4. Pending' = Pending BY <1>2 DEF Pending
    <3>5. next = "choosing" BY <2>5, <2>10
    <3> QED BY <2>1, <2>4, <2>7, <3>3, <3>4, <3>5 DEF ReadFor
  <2> QED BY <2>9, <2>10
<1>6. ASSUME ChecksPending(w), Undecided(work[w].table) # {} PROVE FlowEnds(w, "failed")
  BY <1>6 DEF ChecksPending
<1>7. ASSUME ChecksApproval(w) PROVE FlowEnds(w, "failed") \/ ReadOn(w, "pending", work[w])
  BY <1>7 DEF ChecksApproval
<1> QED BY <1>3, <1>4, <1>5, <1>6, <1>7

LEMMA ChoosesRead ==
  ASSUME ContinuityTyped, NEW w \in Scope, ReadFor(w), Chooses(w)
  PROVE  ReadFor(w)'
<1>1. work[w] \in WorkRecord /\ since[w] \subseteq Sheet BY DEF ContinuityTyped
<1>2. flow[w].status = "choosing" /\ UNCHANGED sheet BY DEF Chooses
<1>3. /\ Pending \subseteq since[w]
      /\ \A e \in Entities : work[w].choice[e] \subseteq Approved \cup since[w]
  BY <1>2 DEF ReadFor
<1>4. PICK c \in SheetChoices(work[w].table) :
        /\ ReadOn(w, "comparing", [work[w] EXCEPT
             !.choice = [e \in Entities |-> IF e \in Table(work[w].table) THEN c[e] ELSE @[e]]])
        /\ since' = [since EXCEPT ![w] = @ \ UNION {c[e] : e \in Table(work[w].table)}]
  BY DEF Chooses
<1>5. PICK C : C = [e \in Entities |-> IF e \in Table(work[w].table) THEN c[e] ELSE work[w].choice[e]]
  OBVIOUS
<1>6. PICK h : h = [[work[w] EXCEPT !.choice = C] EXCEPT !.table = IF work[w].table = 1 THEN 2 ELSE 1]
  OBVIOUS
<1>7. c \in [Table(work[w].table) -> SUBSET Approved] BY DEF SheetChoices
<1>8. \A e \in Table(work[w].table) : c[e] \subseteq Approved BY <1>7
<1>9. C \in [Entities -> SUBSET Sheet] BY <1>1, <1>5, <1>8 DEF WorkRecord, Approved
<1>10. h \in WorkRecord /\ h.choice = C BY <1>1, <1>6, <1>9 DEF WorkRecord
<1>11. PICK next : next = IF work[w].table = 1 THEN "choosing" ELSE "comparing" OBVIOUS
<1>12. Goes(w, next, h)
  <2>1. [work[w] EXCEPT
          !.choice = [e \in Entities |-> IF e \in Table(work[w].table) THEN c[e] ELSE @[e]]]
        = [work[w] EXCEPT !.choice = C]
    BY <1>1, <1>5 DEF WorkRecord
  <2> QED BY <1>2, <1>4, <1>6, <1>11, <2>1 DEF ReadOn
<1>13. next \in {"choosing", "comparing"} /\ next \in FlowStatus BY <1>11 DEF FlowStatus, Applying
<1>14. flow'[w].status = next /\ work'[w] = h BY <1>10, <1>12, <1>13, FlowGoes
<1>15. since'[w] = since[w] \ UNION {c[e] : e \in Table(work[w].table)} BY <1>4 DEF ContinuityTyped
<1>16. UNION {c[e] : e \in Table(work[w].table)} \subseteq Approved BY <1>8
<1>17. Pending' = Pending /\ Approved' = Approved /\ Pending \cap Approved = {}
  BY <1>2 DEF Pending, Approved
<1>18. Pending' \subseteq since'[w] BY <1>3, <1>15, <1>16, <1>17
<1>19. ASSUME NEW e \in Entities PROVE C[e] \subseteq Approved \cup since'[w]
  BY <1>3, <1>5, <1>8, <1>15, <1>16
<1> QED BY <1>10, <1>13, <1>14, <1>17, <1>18, <1>19 DEF ReadFor

LEMMA AppliesRead ==
  ASSUME ContinuityTyped, \A v \in Scope : ReadFor(v), NEW w \in Scope, Applies(w)
  PROVE  \A v \in Scope : ReadFor(v)'
<1>1. \A v \in Scope \ {w} : flow'[v] = flow[v] /\ work'[v] = work[v] /\ since'[v] = since[v]
  BY FlowOfApply
<1>2. UNCHANGED sheet BY AppliesLeave
<1>3. ASSUME NEW v \in Scope \ {w} PROVE ReadFor(v)' BY <1>1, <1>2, ReadingRests
<1>4. CASE ChecksApproval(w) \/ ChecksPending(w) BY <1>3, <1>4, ChecksRead
<1>5. CASE Chooses(w) BY <1>3, <1>5, ChoosesRead
<1>6. ASSUME NEW s \in Shots, Compares(w, s) PROVE ReadFor(w)'
  <2>1. PICK h : h = [work[w] EXCEPT !.shots = @ \ {s},
          !.changed = IF binding[s] = Bundle(work[w].choice, s) THEN @ ELSE @ \cup {s}]
    OBVIOUS
  <2>2. work[w] \in WorkRecord BY DEF ContinuityTyped
  <2>3. h \in WorkRecord /\ h.choice = work[w].choice BY <2>1, <2>2 DEF WorkRecord
  <2>4. Goes(w, "comparing", h) /\ flow[w].status = "comparing" /\ UNCHANGED since
    BY <1>6, <2>1 DEF Compares
  <2>5. flow'[w].status = "comparing" /\ work'[w] = h
    BY <2>3, <2>4, FlowGoes DEF FlowStatus, Applying
  <2> QED BY <1>2, <2>3, <2>4, <2>5 DEF ReadFor, Pending, Approved
<1>7. CASE Writes(w)
  <2>1. flow'[w].status = "complete" BY <1>7, FlowEnded DEF Writes, FlowStatus
  <2> QED BY <1>3, <2>1, ReadingElsewhere DEF Reading
<1>8. CASE ApplyDies(w)
  <2>1. CASE FlowEnds(w, "failed")
    <3>1. flow'[w].status = "failed" BY <2>1, FlowEnded DEF FlowStatus
    <3> QED BY <1>3, <3>1, ReadingElsewhere DEF Reading
  <2>2. CASE Goes(w, "binding", NoWork)
    <3>1. NoWork \in WorkRecord BY DEF NoWork, WorkRecord
    <3>2. flow'[w].status = "binding" /\ work'[w] = NoWork
      BY <2>2, <3>1, FlowGoes DEF FlowStatus, Applying
    <3> QED BY <1>3, <3>2, ReadingBegins
  <2> QED BY <1>8, <2>1, <2>2 DEF ApplyDies
<1> QED BY <1>3, <1>4, <1>5, <1>6, <1>7, <1>8 DEF Applies

LEMMA ReadingStep ==
  ASSUME ContinuityTyped, \A v \in Scope : ReadFor(v), [ContinuityNext]_continuityVars
  PROVE  \A v \in Scope : ReadFor(v)'
<1>1. /\ flow \in [Scope -> FlowRecord] /\ work \in [Scope -> WorkRecord]
      /\ since \in [Scope -> SUBSET Sheet]
  BY DEF ContinuityTyped
<1>2. ASSUME NEW w \in Scope, StartFlow(w) PROVE \A v \in Scope : ReadFor(v)'
  <2>1. flow'[w].status = "drafting" /\ \A v \in Scope \ {w} : flow'[v] = flow[v] /\ work'[v] = work[v]
    BY <1>1, <1>2 DEF StartFlow
  <2>2. ReadFor(w)' BY <2>1, ReadingElsewhere DEF Reading
  <2>3. UNCHANGED <<sheet, since>> BY <1>2 DEF StartFlow
  <2> QED BY <2>1, <2>2, <2>3, ReadingRests
<1>3. ASSUME NEW w \in Scope, CancelFlow(w) PROVE \A v \in Scope : ReadFor(v)'
  <2>1. /\ flow'[w].status = "cancelled"
        /\ \A v \in Scope \ {w} : flow'[v] = flow[v] /\ work'[v] = work[v]
    BY <1>3, FlowEnded DEF CancelFlow, FlowStatus
  <2>2. ReadFor(w)' BY <2>1, ReadingElsewhere DEF Reading
  <2>3. UNCHANGED <<sheet, since>> BY <1>3 DEF CancelFlow
  <2> QED BY <2>1, <2>2, <2>3, ReadingRests
<1>4. ASSUME NEW s \in Sheet, NEW d \in {"approved", "rejected"}, Decide(s, d)
      PROVE  \A v \in Scope : ReadFor(v)'
  <2>1. Marks({s}) /\ UNCHANGED <<flow, work>> BY <1>4 DEF Decide
  <2>2. \A t \in Sheet \ {s} : sheet'[t] = sheet[t] BY <1>4 DEF Decide, ContinuityTyped
  <2>3. flow' = flow /\ work' = work BY <2>1
  <2> QED BY <2>1, <2>2, <2>3, ReadingMarked
<1>5. ASSUME DispatchApproval PROVE \A v \in Scope : ReadFor(v)'
  <2>1. UNCHANGED <<sheet, since>> BY <1>5 DEF DispatchApproval
  <2>2. \A v \in Scope \ {"project"} : flow'[v] = flow[v] /\ work'[v] = work[v]
    BY <1>1, <1>5 DEF DispatchApproval
  <2>3. \A v \in Scope \ {"project"} : ReadFor(v)' BY <2>1, <2>2, ReadingRests
  <2>4. "project" \in Scope BY DEF Scope
  <2>5. \/ flow'["project"].status = "drafting"
        \/ flow'["project"].status = flow["project"].status /\ work'["project"] = work["project"]
        \/ /\ flow["project"].status = "awaiting" /\ flow'["project"].status = "binding"
           /\ work'["project"] = work["project"]
    BY <1>5, Dispatched
  <2>6. CASE flow'["project"].status = "drafting" BY <2>3, <2>6, ReadingElsewhere DEF Reading
  <2>7. CASE flow'["project"].status = flow["project"].status /\ work'["project"] = work["project"]
    BY <2>1, <2>3, <2>4, <2>7, ReadingRests
  <2>8. CASE /\ flow["project"].status = "awaiting" /\ flow'["project"].status = "binding"
             /\ work'["project"] = work["project"]
    BY <2>3, <2>4, <2>8 DEF ReadFor
  <2> QED BY <2>5, <2>6, <2>7, <2>8
<1>6. ASSUME UNCHANGED <<flow, work, sheet, since>> PROVE \A v \in Scope : ReadFor(v)'
  BY <1>6, ReadingRests
<1>7. ASSUME NEW e \in Entities, Reanalyse(e) PROVE UNCHANGED <<flow, work, sheet, since>>
  BY <1>7 DEF Reanalyse
<1>8. UNCHANGED continuityVars => UNCHANGED <<flow, work, sheet, since>> BY DEF continuityVars
<1> QED BY <1>2, <1>3, <1>4, <1>5, <1>6, <1>7, <1>8, BuildsRead, AppliesRead DEF ContinuityNext

-----------------------------------------------------------------------------
(* What has been paid for. *)

\* Nothing was paid for and nobody draws another sheet than before.
LEMMA PaidRests ==
  ASSUME UNCHANGED <<drawing, drawn, contested>>,
         \A w \in Scope, s \in Sheet : Draws(w, s)' <=> Draws(w, s),
         \A w \in Scope : flow'[w].status = "drawing" => flow[w].status = "drawing",
         \A s \in Sheet \ contested : PaidFor(s)
  PROVE  \A s \in Sheet \ contested' : PaidFor(s)'
BY DEF PaidFor

\* The workflow that did not draw before does not draw now.
LEMMA PaidElsewhere ==
  ASSUME UNCHANGED <<drawing, drawn, contested>>, NEW w \in Scope,
         flow[w].status \notin {"drawing", "answered"}, flow'[w].status \notin {"drawing", "answered"},
         \A v \in Scope \ {w} : flow'[v] = flow[v] /\ work'[v] = work[v],
         \A s \in Sheet \ contested : PaidFor(s)
  PROVE  \A s \in Sheet \ contested' : PaidFor(s)'
<1>1. \A v \in Scope, s \in Sheet : Draws(v, s)' <=> Draws(v, s) BY DEF Draws
<1>2. \A v \in Scope : flow'[v].status = "drawing" => flow[v].status = "drawing" OBVIOUS
<1> QED BY <1>1, <1>2, PaidRests

\* One workflow did something about one sheet or several.
LEMMA PaidByOne ==
  ASSUME NEW w \in Scope, \A v \in Scope \ {w} : flow'[v] = flow[v] /\ work'[v] = work[v]
  PROVE  \A v \in Scope \ {w}, s \in Sheet :
           /\ Draws(v, s)' <=> Draws(v, s)
           /\ flow'[v].status = "drawing" <=> flow[v].status = "drawing"
BY DEF Draws

LEMMA BuildsPaid ==
  ASSUME ContinuityTyped, \A s \in Sheet \ contested : PaidFor(s), NEW w \in Scope, Builds(w)
  PROVE  \A s \in Sheet \ contested' : PaidFor(s)'
<1>1. /\ flow \in [Scope -> FlowRecord] /\ work \in [Scope -> WorkRecord]
      /\ drawn \in [Sheet -> Nat]
  BY DEF ContinuityTyped
<1>2. \A v \in Scope \ {w} : flow'[v] = flow[v] /\ work'[v] = work[v] BY FlowOfBuild
<1>3. \A v \in Scope \ {w}, s \in Sheet :
        /\ Draws(v, s)' <=> Draws(v, s)
        /\ flow'[v].status = "drawing" <=> flow[v].status = "drawing"
  BY <1>2, PaidByOne
<1>4. ASSUME NEW status, NEW holding, Goes(w, status, holding)
      PROVE  flow'[w].status = status /\ work'[w] = holding
  <2>1. PICK to : to = [flow[w] EXCEPT !.status = status] OBVIOUS
  <2>2. to.status = status BY <1>1, <2>1 DEF FlowRecord
  <2> QED BY <1>1, <1>4, <2>1, <2>2 DEF Goes
<1>5. ASSUME NEW s \in Sheet, LooksFor(w, s) PROVE \A t \in Sheet \ contested' : PaidFor(t)'
  <2>1. /\ flow[w].status = "drafting" /\ UNCHANGED <<drawing, drawn>>
        /\ contested \subseteq contested'
        /\ (\E v \in Scope \ {w} : Draws(v, s)) => s \in contested'
    BY <1>5 DEF LooksFor
  <2>2. \A t \in Sheet : ~Draws(w, t) BY <2>1 DEF Draws
  <2>3. PICK h : h = [[work[w] EXCEPT !.left = @ \ {s}] EXCEPT !.hand = {s}] OBVIOUS
  <2>4. h.hand = {s} BY <1>1, <2>3 DEF WorkRecord
  <2>5. \/ flow'[w].status \in {"drafting", "stored"}
        \/ flow'[w].status = "drawing" /\ work'[w] = h /\ s \notin drawing
    BY <1>4, <1>5, <2>3 DEF LooksFor, InStore
  <2>6. CASE flow'[w].status \in {"drafting", "stored"}
    <3>1. \A t \in Sheet : ~Draws(w, t)' BY <2>6 DEF Draws
    <3> QED BY <1>3, <2>1, <2>2, <2>6, <3>1 DEF PaidFor
  <2>7. CASE flow'[w].status = "drawing" /\ work'[w] = h /\ s \notin drawing
    <3>1. \A t \in Sheet : Draws(w, t)' <=> t = s BY <2>4, <2>7 DEF Draws
    <3>2. ASSUME NEW t \in Sheet \ contested' PROVE PaidFor(t)'
      <4>1. PaidFor(t) BY <2>1, <3>2
      <4>2. CASE t # s BY <1>3, <2>1, <2>2, <3>1, <4>1, <4>2 DEF PaidFor
      <4>3. CASE t = s
        <5>1. \A v \in Scope : ~Draws(v, s) BY <2>1, <2>2, <4>3
        <5>2. drawn[s] = 0 BY <2>7, <4>1, <4>3, <5>1 DEF PaidFor
        <5>3. \A v \in Scope : Draws(v, s)' => v = w BY <1>3, <5>1
        <5> QED BY <2>1, <4>3, <5>2, <5>3 DEF PaidFor
      <4> QED BY <4>2, <4>3
    <3> QED BY <3>2
  <2> QED BY <2>5, <2>6, <2>7
<1>6. ASSUME NEW s \in Sheet, Asks(w, s) PROVE \A t \in Sheet \ contested' : PaidFor(t)'
  <2>1. /\ flow[w].status = "drawing" /\ work[w].hand = {s} /\ UNCHANGED <<drawing, contested>>
        /\ drawn' = [drawn EXCEPT ![s] = @ + 1]
    BY <1>6 DEF Asks
  <2>2. \A t \in Sheet : Draws(w, t) <=> t = s BY <2>1 DEF Draws
  <2>3. PICK h : h = [work[w] EXCEPT !.wrote = {}] OBVIOUS
  <2>4. h.hand = {s} BY <1>1, <2>1, <2>3 DEF WorkRecord
  <2>5. flow'[w].status = "answered" /\ work'[w] = h BY <1>4, <1>6, <2>3 DEF Asks
  <2>6. \A t \in Sheet : Draws(w, t)' <=> t = s BY <2>4, <2>5 DEF Draws
  <2>7. ASSUME NEW t \in Sheet \ contested' PROVE PaidFor(t)'
    <3>1. PaidFor(t) BY <2>1, <2>7
    <3>2. CASE t # s
      <4>1. drawn'[t] = drawn[t] BY <1>1, <2>1, <3>2
      <4>2. ~Draws(w, t) /\ ~Draws(w, t)' BY <2>2, <2>6, <3>2
      <4> QED BY <1>3, <2>1, <3>1, <4>1, <4>2 DEF PaidFor
    <3>3. CASE t = s
      <4>1. drawn[s] = 0 BY <2>1, <2>2, <3>1, <3>3 DEF PaidFor
      <4>2. drawn'[s] = 1 BY <1>1, <2>1, <4>1
      <4>3. \A v \in Scope : Draws(v, s)' => v = w BY <1>3, <2>2, <3>1, <3>3 DEF PaidFor
      <4> QED BY <2>5, <2>6, <3>3, <4>2, <4>3 DEF PaidFor
    <3> QED BY <3>2, <3>3
  <2> QED BY <2>7
<1>7. ASSUME Stores(w) PROVE \A t \in Sheet \ contested' : PaidFor(t)'
  <2>1. /\ UNCHANGED <<drawn, contested>> /\ drawing' = drawing \cup work[w].hand
        /\ flow'[w].status = "stored"
    BY <1>4, <1>7 DEF Stores
  <2>2. \A t \in Sheet : ~Draws(w, t)' BY <2>1 DEF Draws
  <2>3. \A t \in Sheet : Draws(w, t) => t \in drawing' BY <2>1 DEF Draws
  <2>4. drawn' = drawn /\ contested' = contested BY <2>1
  <2> QED BY <1>3, <2>1, <2>2, <2>3, <2>4 DEF PaidFor
<1>8. ASSUME BuildDies(w) PROVE \A t \in Sheet \ contested' : PaidFor(t)'
  <2>1. /\ UNCHANGED <<drawing, drawn>> /\ contested \subseteq contested'
        /\ flow[w].status = "answered" => work[w].hand \subseteq contested'
    BY <1>8 DEF BuildDies
  <2>2. flow'[w].status \in {"drafting", "failed"}
    BY <1>4, <1>8, FlowEnded DEF BuildDies, FlowStatus
  <2>3. \A t \in Sheet : ~Draws(w, t)' BY <2>2 DEF Draws
  <2>4. ASSUME NEW t \in Sheet \ contested' PROVE PaidFor(t)'
    <3>1. PaidFor(t) BY <2>1, <2>4
    <3>2. Draws(w, t) => flow[w].status = "drawing" BY <2>1, <2>4 DEF Draws
    <3>3. Draws(w, t) => drawn[t] = 0 BY <3>1, <3>2 DEF PaidFor
    <3>4. drawn' = drawn /\ drawing' = drawing BY <2>1
    <3> QED BY <1>3, <2>2, <2>3, <3>1, <3>3, <3>4 DEF PaidFor
  <2> QED BY <2>4
<1>9. ASSUME NEW s \in Sheet, Adopts(w, s) \/ Inserts(w, s)
      PROVE  \A t \in Sheet \ contested' : PaidFor(t)'
  <2>1. UNCHANGED <<drawing, drawn, contested>> /\ flow[w].status \in {"stored", "inserting"}
    BY <1>9 DEF Adopts, Inserts
  <2>2. flow'[w].status \in {"drafting", "inserting"} BY <1>4, <1>9 DEF Adopts, Inserts
  <2> QED BY <1>2, <2>1, <2>2, PaidElsewhere
<1>10. ASSUME NEW c \in BOOLEAN, Drafted(w, c) PROVE \A t \in Sheet \ contested' : PaidFor(t)'
  <2>1. UNCHANGED <<drawing, drawn, contested>> /\ flow[w].status = "drafting"
    BY <1>10 DEF Drafted
  <2>2. work'[w].hand = {} BY <1>1, <1>10 DEF Drafted, NoWork
  <2>3. \A t \in Sheet : ~Draws(w, t)' /\ ~Draws(w, t) BY <2>1, <2>2 DEF Draws
  <2>4. drawn' = drawn /\ drawing' = drawing /\ contested' = contested BY <2>1
  <2> QED BY <1>3, <2>3, <2>4 DEF PaidFor
<1> QED BY <1>5, <1>6, <1>7, <1>8, <1>9, <1>10 DEF Builds

LEMMA PaidStep ==
  ASSUME ContinuityTyped, \A s \in Sheet \ contested : PaidFor(s), [ContinuityNext]_continuityVars
  PROVE  \A s \in Sheet \ contested' : PaidFor(s)'
<1>1. flow \in [Scope -> FlowRecord] /\ work \in [Scope -> WorkRecord] BY DEF ContinuityTyped
<1>2. ASSUME NEW w \in Scope, Applies(w) PROVE \A s \in Sheet \ contested' : PaidFor(s)'
  <2>1. UNCHANGED <<drawing, drawn, contested>> BY <1>2, AppliesLeave
  <2>2. \A v \in Scope \ {w} : flow'[v] = flow[v] /\ work'[v] = work[v] BY <1>2, FlowOfApply
  <2>3. flow[w].status \in Applying /\ flow'[w].status \in Applying \cup {"failed", "complete"}
    BY <1>2, StatusOfApply
  <2>4. /\ flow[w].status \notin {"drawing", "answered"}
        /\ flow'[w].status \notin {"drawing", "answered"}
    BY <2>3 DEF Applying
  <2> QED BY <2>1, <2>2, <2>4, PaidElsewhere
<1>3. ASSUME NEW w \in Scope, StartFlow(w) PROVE \A s \in Sheet \ contested' : PaidFor(s)'
  <2>1. /\ flow[w].status \notin Building /\ UNCHANGED <<drawing, drawn, contested>>
        /\ flow'[w].status = "drafting" /\ \A v \in Scope \ {w} : flow'[v] = flow[v] /\ work'[v] = work[v]
    BY <1>1, <1>3 DEF StartFlow, IsLive
  <2>2. flow[w].status \notin {"drawing", "answered"} BY <2>1 DEF Building
  <2> QED BY <2>1, <2>2, PaidElsewhere
<1>4. ASSUME NEW w \in Scope, CancelFlow(w) PROVE \A s \in Sheet \ contested' : PaidFor(s)'
  <2>1. /\ flow'[w].status = "cancelled"
        /\ \A v \in Scope \ {w} : flow'[v] = flow[v] /\ work'[v] = work[v]
    BY <1>4, FlowEnded DEF CancelFlow, FlowStatus
  <2>2. flow[w].status = "awaiting" /\ UNCHANGED <<drawing, drawn, contested>>
    BY <1>4 DEF CancelFlow
  <2> QED BY <2>1, <2>2, PaidElsewhere
<1>5. ASSUME DispatchApproval PROVE \A s \in Sheet \ contested' : PaidFor(s)'
  <2>1. UNCHANGED <<drawing, drawn, contested>> BY <1>5 DEF DispatchApproval
  <2>2. "project" \in Scope BY DEF Scope
  <2>3. \A v \in Scope \ {"project"} : flow'[v] = flow[v] /\ work'[v] = work[v]
    BY <1>1, <1>5 DEF DispatchApproval
  <2>4. \/ /\ flow'["project"].status = "drafting"
           /\ flow["project"].status \notin {"drawing", "answered"}
        \/ flow'["project"].status = flow["project"].status /\ work'["project"] = work["project"]
        \/ flow["project"].status = "awaiting" /\ flow'["project"].status = "binding"
    BY <1>5, Dispatched DEF IsLive, Building
  <2>5. CASE flow'["project"].status = flow["project"].status /\ work'["project"] = work["project"]
    <3>1. \A v \in Scope : flow'[v].status = flow[v].status /\ work'[v] = work[v] BY <2>3, <2>5
    <3>2. \A v \in Scope, s \in Sheet : Draws(v, s)' <=> Draws(v, s) BY <3>1 DEF Draws
    <3> QED BY <2>1, <3>1, <3>2, PaidRests
  <2>6. CASE flow["project"].status = "awaiting" /\ flow'["project"].status = "binding"
    BY <2>1, <2>2, <2>3, <2>6, PaidElsewhere
  <2>7. CASE /\ flow'["project"].status = "drafting"
             /\ flow["project"].status \notin {"drawing", "answered"}
    BY <2>1, <2>2, <2>3, <2>7, PaidElsewhere
  <2> QED BY <2>4, <2>5, <2>6, <2>7
<1>6. ASSUME UNCHANGED <<flow, work, drawing, drawn, contested>>
      PROVE  \A s \in Sheet \ contested' : PaidFor(s)'
  <2>1. flow' = flow /\ work' = work BY <1>6
  <2>2. \A w \in Scope, s \in Sheet : Draws(w, s)' <=> Draws(w, s) BY <2>1 DEF Draws
  <2> QED BY <1>6, <2>1, <2>2, PaidRests
<1>7. ASSUME NEW e \in Entities, Reanalyse(e) PROVE UNCHANGED <<flow, work, drawing, drawn, contested>>
  BY <1>7 DEF Reanalyse
<1>8. ASSUME NEW s \in Sheet, NEW d \in {"approved", "rejected"}, Decide(s, d)
      PROVE  UNCHANGED <<flow, work, drawing, drawn, contested>>
  BY <1>8 DEF Decide
<1>9. UNCHANGED continuityVars => UNCHANGED <<flow, work, drawing, drawn, contested>>
  BY DEF continuityVars
<1> QED BY <1>2, <1>3, <1>4, <1>5, <1>6, <1>7, <1>8, <1>9, BuildsPaid DEF ContinuityNext

-----------------------------------------------------------------------------

LEMMA ContinuityStep == ContinuityInv /\ [ContinuityNext]_continuityVars => ContinuityInv'
BY TypesStep, ReadingStep, PaidStep DEF ContinuityInv

\* A binding is written by Writes alone, out of what its apply has read, and an image
\* that has been paid for twice is one somebody contested.
LEMMA BindsApproved ==
  ASSUME ContinuityInv, [ContinuityNext]_continuityVars
  PROVE  BoundToApproved /\ SheetPaidOnce
<1>1. ASSUME NEW w \in Scope, Writes(w) PROVE BoundToApproved
  <2>1. ContinuityTyped /\ ReadFor(w) BY DEF ContinuityInv
  <2>2. flow[w].status = "comparing" BY <1>1 DEF Writes
  <2>3. flow'[w].status = "complete" BY <1>1, <2>1, FlowEnded DEF Writes, FlowStatus
  <2>4. /\ Pending \subseteq since[w]
        /\ \A e \in Entities : work[w].choice[e] \subseteq Approved \cup since[w]
    BY <2>1, <2>2 DEF ReadFor
  <2>5. ASSUME NEW s \in Shots, binding'[s] # binding[s]
        PROVE  binding'[s] \subseteq Approved \cup since[w]
    <3>1. binding'[s] = Bundle(work[w].choice, s) BY <1>1, <2>5 DEF Writes
    <3>2. DependsOn[s] \subseteq Entities BY ContinuityAssumption
    <3> QED BY <2>4, <3>1, <3>2 DEF Bundle
  <2> QED BY <2>2, <2>3, <2>4, <2>5 DEF BoundToApproved
<1>2. UNCHANGED binding => BoundToApproved BY DEF BoundToApproved
<1>3. UNCHANGED binding \/ \E w \in Scope : Writes(w)
  BY BuildsLeave, AppliesLeave
    DEF ContinuityNext, continuityVars, StartFlow, CancelFlow, Decide, DispatchApproval, Reanalyse
<1>4. BoundToApproved BY <1>1, <1>2, <1>3
<1>5. SheetPaidOnce BY ContinuityStep DEF ContinuityInv, PaidFor, SheetPaidOnce
<1> QED BY <1>4, <1>5

-----------------------------------------------------------------------------
(* The theorems. *)

OwnerInv == UploadInv /\ EventInv /\ ConnectionInv /\ ContinuityInv

\* The four parts share no variable, so a step of one leaves the invariants of the
\* others alone.
LEMMA PartsStep ==
  ASSUME [Next]_vars
  PROVE  /\ [UploadNext]_uploadVars /\ [EventNext]_eventVars
         /\ [ConnectionNext]_connectionVars /\ [ContinuityNext]_continuityVars
<1> USE DEF Uploads, References, Connects, Follows
<1>1. CASE Uploads(UploadNext) BY <1>1
<1>2. CASE References(ContinuityNext) BY <1>2
<1>3. CASE Connects(ConnectionNext) BY <1>3
<1>4. CASE Follows(EventNext) BY <1>4
<1>5. CASE UNCHANGED vars BY <1>5 DEF vars
<1> QED BY <1>1, <1>2, <1>3, <1>4, <1>5 DEF Next

\* The inductive invariants of the upload, the events, the channel and the sheets hold
\* in every reachable state.
THEOREM OwnerInvariance == Spec => []OwnerInv
<1>1. Init => OwnerInv
  BY UploadStarts, EventStarts, ConnectionStarts, ContinuityStarts DEF Init, OwnerInv
<1>2. OwnerInv /\ [Next]_vars => OwnerInv'
  BY PartsStep, UploadStep, EventStep, ConnectionStep, ContinuityStep DEF OwnerInv
<1> QED BY <1>1, <1>2, PTL DEF Spec

\* However part requests and finalisations overlap, are retried or die, the source
\* video is the file that was hashed and a part's file is what its row was accepted
\* with (UploadService.put_part and finalize).
THEOREM UploadStaysTrue == Spec => []UploadIsTrue
<1>1. OwnerInv => UploadIsTrue BY DEF OwnerInv, UploadInv, UploadIsTrue
<1> QED BY <1>1, OwnerInvariance, PTL

\* However consents, refreshes and disconnections overlap, a connected channel has a
\* credential, and it opens (PublicationRepository, Keyring).
THEOREM CredentialStays == Spec => []CredentialKept
<1>1. OwnerInv => CredentialKept BY DEF OwnerInv, ConnectionInv
<1> QED BY <1>1, OwnerInvariance, PTL

\* In whatever order transactions commit and streams and polls answer, the browser's
\* cursor passes no event it has not shown (ProjectEventService, useProjectEvents).
THEOREM NoEventSkipped == Spec => []NothingSkipped
<1>1. OwnerInv => NothingSkipped BY FollowedSkipsNothing DEF OwnerInv
<1> QED BY <1>1, OwnerInvariance, PTL

\* However builds, applies, the owner's decisions and later analyses interleave, a shot
\* is bound to sheets its apply found approved, with none undecided, when it read them;
\* and a sheet is paid for once unless two builds met over it or one was cut off with
\* its answer (ContinuityReferenceOrchestrator, ProviderReferenceGenerator).
THEOREM ReferencesStayBound == Spec => ReferencesBound
<1>1. OwnerInv /\ [Next]_vars => [BoundToApproved /\ SheetPaidOnce]_vars
  BY PartsStep, BindsApproved DEF OwnerInv
<1> QED BY <1>1, OwnerInvariance, PTL DEF Spec, ReferencesBound

=============================================================================
