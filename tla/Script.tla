------------------------------- MODULE Script -------------------------------
(***************************************************************************)
(* services/script: the analysis is compressed to a plan, the plan written *)
(* to a draft, and the draft edited one pass at a time.  Every pass waits  *)
(* for the owner, who approves, rejects or edits versions through the API  *)
(* (services/review/mutations.py) whatever the activity is doing.          *)
(***************************************************************************)
EXTENDS Worker

CONSTANTS
  MaxPasses,     \* max_editing_passes
  MaxOpinions    \* bound: decisions and edits of the owner

ASSUME ScriptAssumption == MaxPasses \in Nat \ {0} /\ MaxOpinions \in Nat

VARIABLES
  writing,     \* ScriptGenerationRun.status, by the key it was created under
  plan,        \* the runs whose compressed plan is in store
  version,     \* Script rows, oldest first
  favoured,    \* the selected versions
  desk,        \* whether the project waits for a decision on its script
  opinions,
  run,         \* register: the run in hand
  edited       \* register: the version the editor was given

scriptVars == <<writing, plan, version, favoured, desk, opinions, run, edited>>

Version == DOMAIN version
Approved(v) == version[v].status = "approved"

ScriptInit ==
  /\ writing = [k \in Key |-> "none"]
  /\ plan = {} /\ version = <<>> /\ favoured = {}
  /\ desk = FALSE /\ opinions = 0 /\ run = 1 /\ edited = 0

Writes(status) == writing' = [writing EXCEPT ![run] = status]
ClearsDesk == run' = 1 /\ edited' = 0

OfRun(r) == {v \in Version : version[v].run = r}
Latest(r) == CHOOSE v \in OfRun(r) : \A w \in OfRun(r) : w <= v

\* _run_editing_pass finds its version and review when they were committed.
Successor(v) == {w \in Version : version[w].parent = v /\ version[w].pass > 0}

-----------------------------------------------------------------------------

\* A continuation takes up the newest run that waits for the owner or was approved.
Resumable(k) == {r \in Key : writing[r] \in {"review", "approved"}}

Newest(rs) == CHOOSE r \in rs : \A s \in rs : s <= r

ScriptBegins ==
  /\ Starts("script")
  /\ edited' = 0
  /\ LET found == IF writing[key] # "none" THEN key
                  ELSE IF Resumable(key) # {} THEN Newest(Resumable(key)) ELSE key IN
       /\ run' = found
       /\ writing' = IF writing[found] = "none" THEN [writing EXCEPT ![found] = "pending"]
                                                ELSE writing
       /\ IF \E v \in OfRun(found) : v \in favoured THEN Begins("reporting") ELSE Begins("take")
  /\ UNCHANGED <<plan, version, favoured, desk, opinions>>

\* What the run lacks comes next: its plan, its draft, or a pass on its last version.
TakeNext ==
  /\ at = "take"
  /\ CASE run \notin plan -> Goes("take", "compress") /\ Writes("compressing") /\ desk' = FALSE
       [] run \in plan /\ OfRun(run) = {} ->
            Goes("take", "write") /\ Writes("writing") /\ desk' = FALSE
       [] OTHER -> FALSE
  /\ UNCHANGED <<plan, version, favoured, opinions, run, edited>>

LastVersion(statuses) ==
  at = "take" /\ run \in plan /\ OfRun(run) # {} /\ version[Latest(run)].status \in statuses

\* An undecided pass waits on; an approved one has nothing left to decide.
Waits ==
  /\ LastVersion({"approved", "pending"})
  /\ Goes("take", "reporting")
  /\ IF Approved(Latest(run)) THEN UNCHANGED <<writing, desk>> ELSE Writes("review") /\ desk' = TRUE
  /\ UNCHANGED <<plan, version, favoured, opinions, run, edited>>

PassLeft(v) == version[v].pass + 1 <= MaxPasses

\* The draft, or the version the owner rejected, goes to the editor.
StartPass ==
  /\ LastVersion({"draft", "rejected"})
  /\ PassLeft(Latest(run))
  /\ edited' = Latest(run)
  /\ Goes("take", "edit") /\ Writes("editing") /\ desk' = FALSE
  /\ UNCHANGED <<plan, version, favoured, opinions, run>>

\* ScriptEditingExhausted is not retried.
Exhausted ==
  /\ LastVersion({"draft", "rejected"})
  /\ ~PassLeft(Latest(run))
  /\ Writes("failed") /\ desk' = FALSE
  /\ at' = "idle" /\ tries' = MaxTries /\ UNCHANGED <<stage, key>>
  /\ ClearsDesk
  /\ UNCHANGED <<plan, version, favoured, opinions>>

\* The provider is asked until an answer validates; a crash before the commit
\* loses it.
Ask ==
  /\ \/ Goes("compress", "compressed") \/ Goes("write", "written") \/ Goes("edit", "revised")
  /\ UNCHANGED scriptVars

Adds(row) == version' = Append(version, row)
NewRow(status, parent, pass) == [run |-> run, status |-> status, parent |-> parent, pass |-> pass]

KeepPlan ==
  /\ Goes("compressed", "take")
  /\ plan' = plan \cup {run}
  /\ Writes("compressed")
  /\ UNCHANGED <<version, favoured, desk, opinions, run, edited>>

KeepDraft ==
  /\ Goes("written", "take")
  /\ Adds(NewRow("draft", 0, 0))
  /\ UNCHANGED <<writing, plan, favoured, desk, opinions, run, edited>>

\* The revised version and its review are one commit; then the run waits.
KeepPass ==
  /\ Goes("revised", "reporting")
  /\ Adds(NewRow("pending", edited, version[edited].pass + 1))
  /\ Writes("review") /\ desk' = TRUE
  /\ UNCHANGED <<plan, favoured, opinions, run, edited>>

\* Every answer failed validation, or the provider raised.
ScriptFails ==
  /\ at \in {"compress", "write", "edit"} /\ stage = "script"
  /\ Raises /\ ClearsDesk
  /\ \/ at # "edit" /\ Writes("failed")
     \/ UNCHANGED writing
  /\ UNCHANGED <<plan, version, favoured, desk, opinions>>

ScriptNext ==
  \/ ScriptBegins \/ TakeNext \/ Waits \/ StartPass \/ Exhausted \/ Ask
  \/ KeepPlan \/ KeepDraft \/ KeepPass \/ ScriptFails

-----------------------------------------------------------------------------

Opines ==
  /\ stage = "script" /\ opinions < MaxOpinions
  /\ opinions' = opinions + 1
  /\ UNCHANGED <<workerVars, plan, run, edited>>

InsteadOf(selected, v) == {v}

\* select_script: selecting is approving.  Only a project that waits for this
\* decision is moved on, and its run with it.
SelectScript(v) ==
  /\ Opines
  /\ favoured' = InsteadOf(favoured, v)
  /\ version' = [version EXCEPT ![v].status = "approved"]
  /\ desk' = FALSE
  /\ writing' = IF desk /\ writing[version[v].run] = "review"
                  THEN [writing EXCEPT ![version[v].run] = "approved"] ELSE writing

RejectScript(v) ==
  /\ Opines
  /\ v \notin favoured /\ ~Approved(v)
  /\ version' = [version EXCEPT ![v].status = "rejected"]
  /\ UNCHANGED <<writing, favoured, desk>>

\* edit_script_segment: an approved version is revised, not changed.  Only the
\* version itself is deselected for its revision, and the unique index refuses
\* the revision where another one is selected.
ReviseScript(v) ==
  /\ Opines
  /\ Approved(v)
  /\ favoured \subseteq {v}
  /\ version' = Append(version, [run |-> version[v].run, status |-> "draft", parent |-> v, pass |-> 0])
  /\ favoured' = {Len(version) + 1}
  /\ UNCHANGED <<writing, desk>>

ScriptOwner == \E v \in Version : SelectScript(v) \/ RejectScript(v) \/ ReviseScript(v)

-----------------------------------------------------------------------------

\* One version is selected, by the owner or by the owner's edit of an approved
\* one, and the passes of a run follow each other, none twice and none too many.
ScriptIsDecided ==
  /\ Cardinality(favoured) <= 1
  /\ \A v \in favoured : Approved(v) \/ (version[v].parent # 0 /\ Approved(version[v].parent))
  /\ \A v \in Version : Cardinality(Successor(v)) <= 1 /\ version[v].pass <= MaxPasses

\* A plan, a draft or a pass that is in store is not paid for again, by the
\* workflow that made it or by the one that continues its run; and no run begins
\* anew while a version waits for the owner's first choice.
ScriptKept ==
  stage = "script" =>
    /\ (at = "compress" /\ at' = "compressed") => run \notin plan
    /\ (at = "write" /\ at' = "written") => OfRun(run) = {}
    /\ (at = "edit" /\ at' = "revised") => Successor(edited) = {}
    /\ (at = "idle" /\ at' = "take" /\ favoured = {}) =>
         \A v \in Version : version[v].status = "pending" => version[v].run = run'
=============================================================================
