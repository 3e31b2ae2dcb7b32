------------------------------ MODULE Deletion ------------------------------
(***************************************************************************)
(* The deletion of a project (services/projects/deletion.py and DELETE     *)
(* /projects/{id}): the rows that depend on it are found by walking the    *)
(* foreign keys outward, removed children first with cycles broken by      *)
(* clearing nullable columns, and the files nobody uses any more follow.   *)
(* The walk is over the whole schema; here over the part of it that has    *)
(* each of its difficulties: shared assets, a link table, tables with no   *)
(* project of their own, cycles, self-references and the checks of         *)
(* src/vidgen/db/repair_models.py.                                         *)
(***************************************************************************)
EXTENDS Naturals, FiniteSets, FiniteSetsExt, Sequences

Key(child, column, parent, nullable, on) ==
  [child |-> child, column |-> column, parent |-> parent, nullable |-> nullable, on |-> on]
OfProject(t) == Key(t, "project", "projects", FALSE, "cascade")
ForeignKeys ==
  {OfProject(t) : t \in {"assets", "source_videos", "scripts", "storyboard_runs", "animation_generated_videos", "visual_qa_runs", "repair_runs"}} \cup
  {Key("asset_dependencies", "asset", "assets", FALSE, "cascade"), Key("asset_dependencies", "parent", "assets", FALSE, "restrict"),
   Key("source_videos", "asset", "assets", FALSE, "restrict"),
   Key("scripts", "parent", "scripts", TRUE, "null"),
   Key("storyboard_runs", "script", "scripts", FALSE, "restrict"), Key("storyboard_runs", "manifest", "assets", TRUE, "restrict"),
   Key("storyboard_shots", "run", "storyboard_runs", FALSE, "cascade"),
   Key("animation_items", "shot", "storyboard_shots", FALSE, "restrict"), Key("animation_items", "keyframe", "assets", FALSE, "restrict"),
   Key("animation_items", "selected_video", "animation_generated_videos", TRUE, "null"),
   Key("animation_generated_videos", "item", "animation_items", FALSE, "cascade"),
   Key("animation_generated_videos", "asset", "assets", FALSE, "restrict"),
   Key("visual_qa_runs", "shot", "storyboard_shots", FALSE, "cascade"),
   Key("visual_qa_runs", "selected_result", "visual_qa_results", TRUE, "null"),
   Key("visual_qa_results", "run", "visual_qa_runs", FALSE, "cascade"),
   Key("repair_runs", "shot", "storyboard_shots", FALSE, "cascade"), Key("repair_runs", "root", "animation_generated_videos", FALSE, "restrict"),
   Key("repair_runs", "triggering_result", "visual_qa_results", FALSE, "restrict"),
   Key("repair_runs", "selected_attempt", "repair_attempts", TRUE, "null"), Key("repair_runs", "final_result", "visual_qa_results", TRUE, "restrict"),
   Key("repair_attempts", "run", "repair_runs", FALSE, "cascade"), Key("repair_attempts", "predecessor", "repair_attempts", TRUE, "restrict"),
   Key("repair_attempts", "output_result", "visual_qa_results", TRUE, "restrict")}
Tables == {k.child : k \in ForeignKeys} \cup {"projects"}
LinkTables == {"asset_dependencies"}    \* a primary key of several columns
KeysOf(t) == {k \in ForeignKeys : k.child = t}

\* A row is a table, a number, its references ("-" for none) and what its checks read.
Row(t, id, refs, says) == [table |-> t, id |-> id, refs |-> refs, says |-> says]
Points(r, k) == r.table = k.child /\ r.refs[k.column] # "-"
PointsAt(r, k, s) == Points(r, k) /\ s.table = k.parent /\ r.refs[k.column] = s.id

\* repair_attempt_predecessor_presence, repair_attempt_selection_requires_qa and
\* repair_run_lock_requires_passing_selection.
Allowed(r) ==
  /\ r.table = "repair_attempts" => (r.says = "original") = (r.refs["predecessor"] = "-")
  /\ r.table = "repair_attempts" /\ r.says = "selected" => r.refs["output_result"] # "-"
  /\ r.table = "repair_runs" /\ r.says = "LOCKED" => r.refs["selected_attempt"] # "-" /\ r.refs["final_result"] # "-"

-----------------------------------------------------------------------------
\* _collect_scope.  A table with a project of its own is reached through it alone.
HasProject(t) == \E k \in KeysOf(t) : k.parent = "projects"

\* Mutant: it is reached through everything it refers to.
FollowedEverywhere(k) == TRUE
Followed(k) == k.parent = "projects" \/ ~HasProject(k.child)

Reached(rows, scope) ==
  {r \in rows : r.table \notin LinkTables /\ \E k \in KeysOf(r.table) : Followed(k) /\ \E s \in scope : PointsAt(r, k, s)}
RECURSIVE Collected(_, _)
Collected(rows, scope) ==
  LET next == scope \cup Reached(rows, scope) IN IF next = scope THEN scope ELSE Collected(rows, next)
Scope(rows, project) == Collected(rows, {r \in rows : r.table = "projects" /\ r.id = project})

\* The tables of a scope, and the link tables that refer to one of them.
TablesOf(scope) ==
  LET mine == {r.table : r \in scope} IN mine \cup {t \in LinkTables : \E k \in KeysOf(t) : k.parent \in mine}

-----------------------------------------------------------------------------
\* _deletion_plan: rounds of tables nothing left refers to.  A reference to the same
\* table is cleared, and so is a nullable one of a cycle when no table is free; which
\* of those comes first does not matter to what becomes of the rows.
SelfKeys(tables) == {k \in ForeignKeys : k.child \in tables /\ k.child = k.parent}
Edges(tables) == {k \in ForeignKeys : k.child \in tables /\ k.parent \in tables /\ k.child # k.parent}

\* _cyclic_core: what both refers and is referred to, until nothing moves.
RECURSIVE CyclicCore(_, _)
CyclicCore(edges, core) ==
  LET inner == {k \in edges : k.child \in core /\ k.parent \in core}
      survivors == {k.child : k \in inner} \cap {k.parent : k \in inner}
  IN  IF survivors = core THEN core ELSE CyclicCore(edges, survivors)
BreakCycle(edges, remaining) ==
  LET core == CyclicCore(edges, remaining)
  IN  CHOOSE k \in edges : k.child \in core /\ k.parent \in core /\ k.nullable

RECURSIVE Planned(_, _, _)
Planned(edges, remaining, plan) ==
  LET ready == remaining \ {k.parent : k \in edges} IN
  IF remaining = {} THEN plan
  ELSE IF ready = {}
    THEN LET broken == BreakCycle(edges, remaining)
         IN  Planned(edges \ {broken}, remaining, [plan EXCEPT !.cleared = @ \cup {broken}])
  ELSE Planned({k \in edges : k.child \notin ready}, remaining \ ready, [plan EXCEPT !.order = Append(@, ready)])
Plan(tables) == Planned(Edges(tables), tables, [order |-> <<>>, cleared |-> SelfKeys(tables)])

-----------------------------------------------------------------------------
\* The database.  A state is its rows, or that a constraint refused a statement.
Good(rows) == [refused |-> FALSE, rows |-> rows]
Refusal == [refused |-> TRUE, rows |-> {}]
Checked(rows) == IF \A r \in rows : Allowed(r) THEN Good(rows) ELSE Refusal

Cleared(r, keys) == [r EXCEPT !.refs = [c \in DOMAIN @ |-> IF \E k \in keys : k.child = r.table /\ k.column = c THEN "-" ELSE @[c]]]
Clear(db, scope, keys) == Checked({IF r \in scope THEN Cleared(r, keys) ELSE r : r \in db.rows})

\* DELETE: rows that refer to a deleted one follow it, lose the reference or forbid it.
RECURSIVE Delete(_, _)
Delete(rows, doomed) ==
  LET left == rows \ doomed
      hit(r, on) == {k \in KeysOf(r.table) : k.on = on /\ \E s \in doomed : PointsAt(r, k, s)}
      follow == {r \in left : hit(r, "cascade") # {}}
  IN  IF \E r \in left : hit(r, "restrict") # {} THEN Refusal
      ELSE IF follow # {} THEN Delete(rows, doomed \cup follow)
      ELSE Checked({Cleared(r, hit(r, "null")) : r \in left})

Same(r, s) == r.table = s.table /\ r.id = s.id
InScope(r, scope) == \E s \in scope : Same(r, s)
\* _scope_clause: of a link table, the rows that refer to something in scope.
Statement(rows, t, scope) ==
  {r \in rows : r.table = t /\ IF t \in LinkTables THEN \E k \in KeysOf(t), s \in scope : PointsAt(r, k, s) ELSE InScope(r, scope)}
RECURSIVE DeleteAll(_, _, _)
DeleteAll(db, order, scope) ==
  IF db.refused \/ order = <<>> THEN db
  ELSE LET go[ts \in SUBSET Head(order)] ==
             IF ts = {} THEN db
             ELSE LET t == CHOOSE t \in ts : TRUE  before == go[ts \ {t}]
                  IN  IF before.refused THEN before ELSE Delete(before.rows, Statement(before.rows, t, scope))
       IN  DeleteAll(go[Head(order)], Tail(order), scope)

\* delete_project_rows, with the rows a worker commits once the scope is collected.
DeleteProject(q) ==
  LET scope == Scope(q.rows, q.project)  plan == Plan(TablesOf(scope))
      cleared == Clear(Good(q.rows \cup q.late), scope, plan.cleared)
  IN  IF cleared.refused THEN Refusal ELSE DeleteAll(cleared, plan.order, scope)

\* The files: those of the scope's assets that no asset left has; an asset says the
\* file it has.  What is stored between that question and the removal is not asked.
Files(rows) == {r.says : r \in {r \in rows : r.table = "assets"}}
Unreferenced(q, left) == Files(Scope(q.rows, q.project)) \ Files(left)

Deleted(q) ==
  LET db == DeleteProject(q) IN
  IF db.refused THEN [refused |-> TRUE, rows |-> q.rows \cup q.late, removed |-> {}]
  ELSE [refused |-> FALSE, rows |-> db.rows, removed |-> Unreferenced(q, db.rows)]

-----------------------------------------------------------------------------
\* Whose a row is: what its references lead to, without the columns the code follows.
RECURSIVE Owners(_, _)
Owners(rows, r) ==
  IF r.table = "projects" THEN {r.id}
  ELSE IF HasProject(r.table) THEN {r.refs["project"]}
  ELSE UNION {Owners(rows, s) : s \in {s \in rows : \E k \in KeysOf(r.table) : ~k.nullable /\ PointsAt(r, k, s)}}

\* A deletion leaves nothing of the project and everything of the others, rows and
\* files, or is refused and leaves everything; it is refused only for a row of another
\* project, for one that came too late to be removed first, or for a repair that has
\* an attempt after its original one, whose reference the checks do not let be cleared.
DeletionHolds(q, a) ==
  LET all == q.rows \cup q.late
      mine(r) == q.project \in Owners(all, r)
      others == {r \in all : ~mine(r)} IN
  /\ a.refused => a.rows = all /\ a.removed = {}
  /\ ~a.refused => a.rows = others
  /\ a.refused =>
       \/ \E r \in others \cup q.late, s \in {s \in q.rows : mine(s)}, k \in ForeignKeys : k.on = "restrict" /\ PointsAt(r, k, s)
       \/ \E r \in q.rows : mine(r) /\ r.table = "repair_attempts" /\ r.refs["predecessor"] # "-"
  /\ \A r \in a.rows : r.table = "assets" => r.says \notin a.removed
  /\ ~a.refused => \A r \in q.rows : mine(r) /\ r.table = "assets" => r.says \in a.removed \cup Files(a.rows)
=============================================================================
