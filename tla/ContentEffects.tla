--------------------------- MODULE ContentEffects ---------------------------
(***************************************************************************)
(* What a step of the handlers around problems may do to the tables and to *)
(* the thread that takes it, and what a reachable state looks like.        *)
(* ContentWriters shows that every step of every handler has one of these  *)
(* effects; ContentSteps and ContentProofs show what each one preserves.   *)
(***************************************************************************)
EXTENDS ProblemTables


-----------------------------------------------------------------------------
(***************************************************************************)
(* Where a thread may be.  Unwritten: its edit has changed nothing yet.    *)
(***************************************************************************)
Creating == {"create"}
Updating == {"update_title", "update_exists", "update_write"}
Deleting == {"delete_title", "delete"}
Checking == {"spj_find", "spj_write", "spj_get"}
Importing == {"import_request", "import_exists", "import_create", "import_tombstone", "import_upsert"}
Patches3 == {"patch_tags", "patch_replace", "patch_samples"}
Revising == {"rev_max", "rev_insert"}
Answering == {"payload", "payload_tags", "payload_samples", "spj_reread"}
Reading ==
    {"detail", "detail_tags", "detail_samples", "detail_spj", "problems_count", "problems_page",
     "navigation", "tags"}

Unwritten == Creating \cup Updating \cup Deleting \cup Checking

Editing == Unwritten \cup Importing \cup Patching \cup Answering \cup {"audit"}

(***************************************************************************)
(* The locals a thread has, and what its edit and its problem are.         *)
(***************************************************************************)
Actions ==
    {"none", "problem.create", "problem.update", "problem.delete", "problem.spj_upsert",
     "problem.spj_delete", "spj_get", "problem.bulk_import"}

Edits == [action : Actions, no : Nat]

Shaped(r) ==
    /\ r.at \in {"idle"} \cup Editing \cup Reading
    /\ r.at \in Editing =>
         /\ "edit" \in DOMAIN r /\ r.edit \in Edits
         /\ "id" \in DOMAIN r
    /\ r.at \in Creating => r.edit.action = "problem.create"
    /\ r.at \in Updating \cup {"update_reread"} => r.edit.action = "problem.update"
    /\ r.at \in Deleting => r.edit.action = "problem.delete"
    /\ r.at \in Checking => r.edit.action \in {"problem.spj_upsert", "problem.spj_delete", "spj_get"}
    /\ r.at \in Revising => r.edit.action \in {"problem.create", "problem.update"}
    /\ r.at \in Patches3 => r.edit.action \in {"problem.create", "problem.update", "problem.bulk_import"}
    /\ r.at \in Importing \cup {"import_id", "patch_tests"} => r.edit.action = "problem.bulk_import"
    /\ r.at \in Creating \cup Updating \cup {"update_reread"} => "slug" \in DOMAIN r /\ r.slug \in Slugs
    /\ r.at \in Importing \/ (r.at \in Patching /\ r.edit.action = "problem.bulk_import") =>
         /\ "files" \in DOMAIN r /\ r.files \in Seq(Slugs) /\ r.files # <<>>
         /\ "policy" \in DOMAIN r
    /\ r.at \in (Patching \ {"update_reread"}) \cup {"spj_write", "spj_get"} => r.id \in DOMAIN problems
    /\ r.at = "update_reread" => r.id \in {NULL} \cup DOMAIN problems

Row ==
    [slug : Slugs, is_deleted : BOOLEAN, edit : Edits, tags : Edits, samples : Edits,
     tests : Edits, checker : Edits]

ContentTypeOK ==
    /\ task = [c \in Clients |-> task[c]]
    /\ \A c \in Clients : Shaped(task[c])
    /\ requests \in Nat
    /\ problems \in Seq(Row)
    /\ revisions \in Seq(SUBSET [no : Nat, edit : Edits]) /\ Len(revisions) = Len(problems)

SlugsDiffer ==
    \A p, q \in DOMAIN problems : problems[p].slug = problems[q].slug => p = q

(***************************************************************************)
(* Edits differ by their number, and one whose work is under way has       *)
(* neither a revision yet nor lost one.                                    *)
(***************************************************************************)
Stored(e) == \E p \in DOMAIN revisions : \E r \in revisions[p] : r.edit = e

EditsDiffer ==
    /\ \A c \in Clients : task[c].at \in Editing => task[c].edit.no > requests
    /\ \A c, d \in Clients :
         c # d /\ task[c].at \in Editing /\ task[d].at \in Editing => task[c].edit.no # task[d].edit.no
    /\ lost \subseteq Edits /\ \A e \in lost : e.no > requests
    /\ \A p \in DOMAIN revisions : \A r \in revisions[p] : r.edit.no > requests
    /\ \A c \in Clients : task[c].at \in Unwritten \cup Importing \cup Patching =>
         task[c].edit \notin lost /\ ~Stored(task[c].edit)

(***************************************************************************)
(* The numbers of the revisions of a problem, and the one a thread read.   *)
(***************************************************************************)
Numbered ==
    /\ \A p \in DOMAIN revisions :
         IsFiniteSet(revisions[p]) /\ {r.no : r \in revisions[p]} = 1 .. LastRevision(p)
    /\ \A c \in Clients : task[c].at = "rev_insert" =>
         "no" \in DOMAIN task[c] /\ task[c].no \in 1 .. LastRevision(task[c].id) + 1

ContentInv == ContentTypeOK /\ SlugsDiffer /\ EditsDiffer /\ Numbered

(***************************************************************************)
(* An import is past its look.                                             *)
(***************************************************************************)
Looked == {"import_create", "import_tombstone", "import_upsert"}

-----------------------------------------------------------------------------
(***************************************************************************)
(* What a step does to the thread that takes it.                           *)
(***************************************************************************)
Alone(c) ==
    /\ task' = [d \in Clients |-> task'[d]]
    /\ \A d \in Clients : d # c => task'[d] = task[d]

Kept(c, f) == f \in DOMAIN task[c] => f \in DOMAIN task'[c] /\ task'[c][f] = task[c][f]

KeepsEdit(c) == Alone(c) /\ Kept(c, "edit") /\ Kept(c, "policy") /\ Kept(c, "slug") /\ requests' = requests

KeepsFiles(c) == KeepsEdit(c) /\ Kept(c, "files")

Targets(c, p) == KeepsFiles(c) /\ "id" \in DOMAIN task'[c] /\ task'[c].id = p

NextFiles(c) ==
    /\ KeepsEdit(c)
    /\ "id" \in DOMAIN task'[c] /\ task'[c].id = NULL
    /\ "files" \in DOMAIN task'[c] /\ task'[c].files = Tail(task[c].files)

Leaves(c) == Alone(c) /\ task'[c] = Idle /\ task'[c].at = "idle" /\ requests' = requests

-----------------------------------------------------------------------------
(***************************************************************************)
(* The effects a step of a writer or a reader may have.                    *)
(***************************************************************************)
SameAudit == audit_logs' = audit_logs /\ acts' = acts /\ unaudited' = unaudited
SameMarks == cut' = cut /\ raced' = raced
SameSkips == late' = late /\ clobbered' = clobbered
SameRest == revisions' = revisions /\ SameMarks /\ lost' = lost /\ SameSkips
Same == SameAudit /\ problems' = problems /\ SameRest

Refuses(c) == task' = task /\ requests > 0 /\ requests' = requests - 1 /\ Same

Entrances == {"create", "update_title", "delete_title", "spj_find", "import_request"}

Begins(c) ==
    /\ Alone(c) /\ task[c].at = "idle" /\ requests > 0 /\ requests' = requests - 1
    /\ Shaped(task'[c])
    /\ task'[c].at \in Reading \cup Entrances
    /\ task'[c].at \in Entrances => task'[c].edit.no = requests
    /\ Same

Ends(c) == Leaves(c) /\ task[c].at \notin Patching \cup {"audit"} /\ Same

WalksIn(c, labels) == task[c].at \in labels /\ task'[c].at \in labels

Walks(c) ==
    /\ KeepsFiles(c) /\ Same
    /\ \/ Kept(c, "id") /\ (WalksIn(c, Updating) \/ WalksIn(c, Deleting) \/ WalksIn(c, Answering))
       \/ WalksIn(c, Reading)
       \/ /\ WalksIn(c, Checking)
          /\ "id" \in DOMAIN task'[c] /\ task'[c].id \in DOMAIN problems
       \/ task[c].at = "patch_tags" /\ task'[c].at = "patch_replace" /\ Kept(c, "id")
       \/ task[c].at = "rev_insert" /\ task'[c].at = "rev_max" /\ Kept(c, "id")
       \/ /\ task[c].at = "rev_max" /\ task'[c].at = "rev_insert" /\ Kept(c, "id")
          /\ "no" \in DOMAIN task'[c] /\ task'[c].no = LastRevision(task[c].id) + 1

Looks(c) ==
    /\ KeepsFiles(c) /\ Kept(c, "id") /\ Same
    /\ WalksIn(c, Importing)
    /\ task'[c].at \in Looked =>
         task[c].at \in Looked \/ task[c].policy # "skip" \/ find_live(File(c)) = NULL

Inserts(c, s) ==
    /\ s \in Slugs /\ ~slug_exists(s)
    /\ Targets(c, Len(problems) + 1)
    /\ problems' = Append(problems, Problem(s, task[c].edit))
    /\ revisions' = Append(revisions, {})
    /\ Surfaces(c, s) /\ SameMarks /\ lost' = lost /\ clobbered' = clobbered
    /\ audit_logs' = audit_logs /\ unaudited' = unaudited
    /\ \/ /\ task[c].at = "create" /\ task'[c].at = "patch_tags"
          /\ acts' = Append(acts, task[c].edit)
       \/ /\ task[c].at \in Looked /\ task'[c].at \in {"import_id", "patch_tags"}
          /\ acts' = acts

WritesRow(p, row) ==
    /\ p \in DOMAIN problems /\ row \in Row
    /\ problems' = [problems EXCEPT ![p] = row]

Rewrites(c, p, row) ==
    /\ WritesRow(p, row) /\ row.edit = task[c].edit
    /\ \A q \in DOMAIN problems : problems[q].slug = row.slug => q = p
    /\ Targets(c, p) /\ Marks(c, p) /\ Surfaces(c, row.slug)
    /\ revisions' = revisions /\ lost' = lost
    /\ audit_logs' = audit_logs /\ unaudited' = unaudited
    /\ \/ /\ task[c].at = "update_write" /\ task'[c].at = "update_reread"
          /\ acts' = Append(acts, task[c].edit)
          /\ clobbered' = clobbered
       \/ /\ task[c].at = "import_upsert" /\ task'[c].at = "import_id"
          /\ acts' = acts
          /\ problems[p].slug = File(c) /\ row.slug = File(c)
          /\ clobbered' = IF task[c].policy = "skip" /\ ~problems[p].is_deleted
                          THEN clobbered \cup {File(c)} ELSE clobbered

Misses(c) ==
    /\ task[c].at = "update_write" /\ task'[c].at = "update_reread"
    /\ Targets(c, NULL)
    /\ acts' = Append(acts, task[c].edit)
    /\ audit_logs' = audit_logs /\ unaudited' = unaudited /\ problems' = problems /\ SameRest

Retargets(c, q) ==
    /\ q \in DOMAIN problems
    /\ task[c].at \in {"update_reread", "import_id"} /\ task'[c].at = "patch_tags"
    /\ Targets(c, q)
    /\ raced' = IF q = task[c].id THEN raced ELSE raced \cup {q, task[c].id}
    /\ SameAudit /\ problems' = problems /\ revisions' = revisions
    /\ cut' = cut /\ lost' = lost /\ SameSkips

Columns(c, row) ==
    LET p == task[c].id IN
    /\ KeepsFiles(c) /\ Kept(c, "id")
    /\ WritesRow(p, row)
    /\ row.slug = problems[p].slug /\ row.is_deleted = problems[p].is_deleted
    /\ row.edit = problems[p].edit
    /\ \/ /\ task[c].at = "patch_replace" /\ task'[c].at = "patch_samples"
          /\ row.tags = task[c].edit
       \/ /\ task[c].at = "patch_samples"
          /\ task'[c].at = IF Imports(c) THEN "patch_tests" ELSE "rev_max"
          /\ row.tags = problems[p].tags /\ row.samples = task[c].edit
    /\ SameAudit /\ SameRest

Stores(c) ==
    LET p == task[c].id IN
    /\ KeepsFiles(c) /\ Kept(c, "id")
    /\ task[c].at = "rev_insert" /\ task'[c].at = "audit"
    /\ ~\E r \in revisions[p] : r.no = task[c].no
    /\ revisions' = [revisions EXCEPT ![p] = @ \cup {[no |-> task[c].no, edit |-> task[c].edit]}]
    /\ SameAudit /\ problems' = problems /\ SameMarks /\ lost' = lost /\ SameSkips

Loses(c) ==
    /\ KeepsFiles(c) /\ Kept(c, "id")
    /\ task[c].at \in Revising /\ task'[c].at = "audit"
    /\ lost' = lost \cup {task[c].edit}
    /\ SameAudit /\ problems' = problems /\ revisions' = revisions /\ SameMarks /\ SameSkips

Records(c) ==
    /\ task[c].at = "audit"
    /\ \/ KeepsFiles(c) /\ Kept(c, "id") /\ task'[c].at \in Answering
       \/ Leaves(c)
    /\ audit_logs' = Append(audit_logs, task[c].edit) /\ acts' = acts /\ unaudited' = unaudited
    /\ problems' = problems /\ SameRest

Unrecorded(c) ==
    /\ task[c].at = "audit" /\ Leaves(c)
    /\ unaudited' = Append(unaudited, task[c].edit) /\ acts' = acts /\ audit_logs' = audit_logs
    /\ problems' = problems /\ SameRest

Abandons(c) ==
    /\ task[c].at \in Patching /\ ~Imports(c) /\ Leaves(c)
    /\ unaudited' = Append(unaudited, task[c].edit) /\ acts' = acts /\ audit_logs' = audit_logs
    /\ lost' = lost \cup {task[c].edit}
    /\ cut' = cut \cup {task[c].id}
    /\ problems' = problems /\ revisions' = revisions /\ raced' = raced /\ SameSkips

Changes(c, p, row) ==
    /\ KeepsFiles(c) /\ Kept(c, "id")
    /\ task[c].at \in {"delete", "spj_write"} /\ task[c].edit.action # "spj_get"
    /\ task'[c].at = "audit"
    /\ WritesRow(p, row)
    /\ row.slug = problems[p].slug /\ (problems[p].is_deleted => row.is_deleted)
    /\ row.edit = problems[p].edit /\ row.tags = problems[p].tags
    /\ row.samples = problems[p].samples /\ row.tests = problems[p].tests
    /\ acts' = Append(acts, task[c].edit) /\ audit_logs' = audit_logs /\ unaudited' = unaudited
    /\ SameRest

Finishes(c, row) ==
    LET p == task[c].id IN
    /\ NextFiles(c) /\ Imports(c)
    /\ task[c].at \in (Importing \ {"import_request"}) \cup Patching
    /\ task'[c].at = NextFile(c)
    /\ acts' = IF task'[c].at = "audit" THEN Append(acts, task[c].edit) ELSE acts
    /\ \/ task[c].at \in Importing /\ problems' = problems /\ cut' = cut
       \/ task[c].at \in Patching /\ problems' = problems /\ cut' = cut \cup {p}
       \/ /\ task[c].at = "patch_tests" /\ cut' = cut
          /\ WritesRow(p, row)
          /\ row.slug = problems[p].slug /\ row.is_deleted = problems[p].is_deleted
          /\ row.edit = problems[p].edit /\ row.tags = problems[p].tags
          /\ row.samples = problems[p].samples /\ row.tests = task[c].edit
    /\ audit_logs' = audit_logs /\ unaudited' = unaudited
    /\ revisions' = revisions /\ raced' = raced /\ lost' = lost /\ SameSkips

Effect(c) ==
    \/ Refuses(c) \/ Begins(c) \/ Ends(c) \/ Walks(c) \/ Looks(c)
    \/ \E s : Inserts(c, s)
    \/ \E p, row : Rewrites(c, p, row)
    \/ Misses(c)
    \/ \E q : Retargets(c, q)
    \/ \E row : Columns(c, row)
    \/ Stores(c) \/ Loses(c) \/ Records(c) \/ Unrecorded(c) \/ Abandons(c)
    \/ \E p, row : Changes(c, p, row)
    \/ \E row : Finishes(c, row)

=============================================================================
