--------------------------- MODULE ContentProofs ----------------------------
(***************************************************************************)
(* What holds in every behaviour of the handlers around problems: their    *)
(* steps have the effects of ContentEffects (ContentWriters), and each     *)
(* effect preserves the inductive invariants (ContentSteps, and below that *)
(* of the columns that one edit writes one after the other).               *)
(***************************************************************************)
EXTENDS ContentWriters, ContentSteps

USE SMTT(40), ZenonT(40)

-----------------------------------------------------------------------------
(***************************************************************************)
(* A problem that no edit left half and no two wrote at once is as far as  *)
(* the one thread that has it, or whole.                                   *)
(***************************************************************************)
TagsDone == {"patch_samples", "patch_tests"} \cup Revising
SamplesDone == {"patch_tests"} \cup Revising

Whole(p) ==
    LET row == problems[p] IN
    /\ row.tags = row.edit /\ row.samples = row.edit
    /\ IF row.edit.action = "problem.bulk_import"
       THEN row.tests = row.edit
       ELSE row.edit \in lost \/ [no |-> LastRevision(p), edit |-> row.edit] \in revisions[p]

Progress(c, p) ==
    /\ problems[p].edit = task[c].edit
    /\ task[c].at \in TagsDone => problems[p].tags = task[c].edit
    /\ task[c].at \in SamplesDone => problems[p].samples = task[c].edit
    /\ task[c].at = "rev_insert" => task[c].no = LastRevision(p) + 1

Fit(p) ==
    /\ \A c, d \in Clients : Patches(c, p) /\ Patches(d, p) => c = d
    /\ \A c \in Clients : Patches(c, p) => Progress(c, p)
    /\ (\A c \in Clients : ~Patches(c, p)) => Whole(p)

WholeInv == \A p \in DOMAIN problems \ (cut \cup raced) : Fit(p)

(***************************************************************************)
(* What a step makes of one problem, for the thread that takes it: the     *)
(* problem is none of its business, or its edit begins, goes on or is done *)
(* there.                                                                  *)
(***************************************************************************)
Alike(p) ==
    /\ problems'[p].edit = problems[p].edit /\ problems'[p].tags = problems[p].tags
    /\ problems'[p].samples = problems[p].samples /\ problems'[p].tests = problems[p].tests

LEMMA OthersPatch ==
    ASSUME NEW c \in Clients, Alone(c), NEW p, NEW d \in Clients, d # c
    PROVE  Patches(d, p)' <=> Patches(d, p)
    BY DEF Alone, Patches

LEMMA FitApart ==
    ASSUME NEW c \in Clients, Alone(c), NEW p, Fit(p), ~Patches(c, p), ~Patches(c, p)',
           Alike(p), revisions'[p] = revisions[p], lost \subseteq lost'
    PROVE  Fit(p)'
<1>1. \A d \in Clients : Patches(d, p)' <=> Patches(d, p)
    BY OthersPatch, ZenonT(40)
<1>2. \A d \in Clients : Patches(d, p) => Progress(d, p)'
    <2>1. SUFFICES ASSUME NEW d \in Clients, Patches(d, p)
                   PROVE  Progress(d, p)'
        OBVIOUS
    <2>2. Progress(d, p) /\ task'[d] = task[d]
        BY <2>1 DEF Fit, Alone
    <2>3. QED
        BY <2>2 DEF Progress, Alike, LastRevision
<1>3. Whole(p) => Whole(p)'
    BY ZenonT(40) DEF Whole, Alike, LastRevision
<1>4. QED
    BY <1>1, <1>2, <1>3, ZenonT(40) DEF Fit

LEMMA FitBegun ==
    ASSUME NEW c \in Clients, Alone(c), NEW p, \A d \in Clients : d # c => ~Patches(d, p),
           Patches(c, p)', Progress(c, p)'
    PROVE  Fit(p)'
<1>1. \A d \in Clients : Patches(d, p)' => d = c
    BY OthersPatch
<1>2. QED
    BY <1>1 DEF Fit

LEMMA FitOn ==
    ASSUME NEW c \in Clients, Alone(c), NEW p, Fit(p), Patches(c, p), Patches(c, p)', Progress(c, p)'
    PROVE  Fit(p)'
<1>1. \A d \in Clients : d # c => ~Patches(d, p)
    BY DEF Fit
<1>2. QED
    BY <1>1, FitBegun

LEMMA FitDone ==
    ASSUME NEW c \in Clients, Alone(c), NEW p, Fit(p), Patches(c, p), ~Patches(c, p)', Whole(p)'
    PROVE  Fit(p)'
<1>1. \A d \in Clients : ~Patches(d, p)'
    BY OthersPatch DEF Fit
<1>2. QED
    BY <1>1 DEF Fit

LEMMA FitBeside ==
    ASSUME WholeInv, NEW c \in Clients, Alone(c), lost \subseteq lost',
           NEW p \in DOMAIN problems, p \notin cut \cup raced,
           task[c].at \in Patching => task[c].id # p, task'[c].at \in Patching => task'[c].id # p,
           Alike(p), revisions'[p] = revisions[p]
    PROVE  Fit(p)'
<1>1. Fit(p)
    BY DEF WholeInv
<1>2. ~Patches(c, p) /\ ~Patches(c, p)'
    BY DEF Patches
<1>3. QED
    BY <1>1, <1>2, FitApart

LEMMA IdleFit ==
    ASSUME ContentTypeOK, WholeInv, NEW c \in Clients,
           \/ Begins(c) \/ Ends(c) \/ Looks(c) \/ Misses(c) \/ Records(c) \/ Unrecorded(c)
           \/ (\E p, row : Changes(c, p, row))
    PROVE  WholeInv'
<1>1. Alone(c) /\ SameMarks /\ lost' = lost /\ revisions' = revisions
    BY ZenonT(40) DEF Begins, Ends, Looks, Misses, Records, Unrecorded, Changes, Leaves, Targets, KeepsFiles, KeepsEdit,
           Same, SameRest
<1>2. task[c].at \notin Patching
    BY ZenonT(40) DEF Begins, Ends, Looks, Misses, Records, Unrecorded, Changes, WalksIn, Importing, Patching
<1>3. task'[c].at \in Patching => task'[c].id = NULL
    BY ZenonT(40) DEF Begins, Ends, Looks, Misses, Records, Unrecorded, Changes, Leaves, Targets, WalksIn, Importing,
           Patching, Answering, Entrances, Reading
<1>4. NULL \notin DOMAIN problems
    BY DEF ContentTypeOK, NULL
<1>5. DOMAIN problems' = DOMAIN problems /\ \A p \in DOMAIN problems : Alike(p)
    <2>1. CASE problems' = problems
        BY <2>1 DEF Alike
    <2>2. ASSUME NEW p, NEW row, Changes(c, p, row)
          PROVE  DOMAIN problems' = DOMAIN problems /\ \A q \in DOMAIN problems : Alike(q)
        BY <2>2, RowsWritten DEF Changes, Alike
    <2>3. QED
        BY <2>1, <2>2, ZenonT(40) DEF Begins, Ends, Looks, Misses, Records, Unrecorded, Same
<1>6. SUFFICES ASSUME NEW p \in DOMAIN problems, p \notin cut \cup raced
               PROVE  Fit(p)'
    BY <1>1, <1>5, ZenonT(40) DEF WholeInv, SameMarks
<1>7. QED
    BY <1>1, <1>2, <1>3, <1>4, <1>5, <1>6, FitBeside, ZenonT(40)

LEMMA InsertFit ==
    ASSUME ContentTypeOK, WholeInv, NEW c \in Clients, NEW s, Inserts(c, s)
    PROVE  WholeInv'
<1> DEFINE n == Len(problems) + 1
<1>1. /\ Alone(c) /\ SameMarks /\ lost' = lost /\ task'[c].id = n
      /\ task[c].at \notin Patching /\ task'[c].at \in {"import_id", "patch_tags"}
    BY ZenonT(40) DEF Inserts, Targets, KeepsFiles, KeepsEdit, Looked, Patching
<1>2. /\ DOMAIN problems' = DOMAIN problems \cup {n} /\ n \notin DOMAIN problems
      /\ problems'[n] = Problem(s, task[c].edit)
      /\ \A q \in DOMAIN problems : problems'[q] = problems[q] /\ revisions'[q] = revisions[q]
    BY RowsInserted, ZenonT(40)
<1>3. task'[c].edit = task[c].edit
    <2>1. task[c].at \in Editing
        BY ZenonT(40) DEF Inserts, Looked, Editing, Unwritten, Creating, Importing
    <2>2. QED
        BY <2>1, ThreadShape, ZenonT(40) DEF Inserts, Targets, KeepsFiles, KeepsEdit, Kept, Shaped
<1>4. n # NULL
    BY DEF ContentTypeOK, NULL
<1> HIDE DEF n
<1>5. ASSUME NEW q, q = n
      PROVE  Fit(q)'
    <2>1. \A d \in Clients : task[d].at \in Patching => task[d].id # n
        BY <1>2, <1>4, ThreadShape, ZenonT(40) DEF Shaped, Patching
    <2>2. \A d \in Clients : d # c => ~Patches(d, q)
        BY <1>5, <2>1 DEF Patches
    <2>3. problems'[q].edit = task'[c].edit
        BY <1>2, <1>3, <1>5 DEF Problem
    <2>4. task'[c].at \in Patching /\ task'[c].at \notin TagsDone \cup SamplesDone \cup {"rev_insert"}
        BY <1>1 DEF Patching, TagsDone, SamplesDone, Revising
    <2>5. Patches(c, q)'
        BY <1>1, <1>5, <2>4 DEF Patches
    <2>6. Progress(c, q)'
        BY <2>3, <2>4 DEF Progress
    <2>7. QED
        BY <1>1, <2>2, <2>5, <2>6, FitBegun, ZenonT(40)
<1>6. ASSUME NEW p \in DOMAIN problems, p \notin cut \cup raced
      PROVE  Fit(p)'
    BY <1>1, <1>2, <1>6, FitBeside, ZenonT(40) DEF Alike
<1>7. QED
    BY <1>1, <1>2, <1>5, <1>6, ZenonT(40) DEF WholeInv, SameMarks

LEMMA RewriteFit ==
    ASSUME ContentTypeOK, WholeInv, NEW c \in Clients, NEW p, NEW row, Rewrites(c, p, row)
    PROVE  WholeInv'
<1>1. /\ Alone(c) /\ lost' = lost /\ revisions' = revisions /\ task'[c].id = p /\ Marks(c, p)
      /\ task[c].at \in {"update_write", "import_upsert"} /\ task'[c].at \in {"update_reread", "import_id"}
      /\ WritesRow(p, row) /\ row.edit = task[c].edit
    BY ZenonT(40) DEF Rewrites, Targets, KeepsFiles, KeepsEdit
<1>2. task'[c].edit = task[c].edit
    <2>1. task[c].at \in Editing
        BY <1>1 DEF Editing, Unwritten, Updating, Importing
    <2>2. QED
        BY <2>1, ThreadShape, ZenonT(40) DEF Rewrites, Targets, KeepsFiles, KeepsEdit, Kept, Shaped
<1>3. SUFFICES ASSUME NEW q \in DOMAIN problems, q \notin cut' \cup raced'
               PROVE  Fit(q)'
    BY <1>1, RowsWritten, ZenonT(40) DEF WholeInv
<1>4. task[c].at \notin Patching /\ task'[c].at \in Patching
    BY <1>1 DEF Patching
<1>5. CASE q = p
    <2>1. \A d \in Clients : d # c => ~Patches(d, q)
        BY <1>1, <1>3, <1>5 DEF Marks
    <2>2. Patches(c, q)'
        BY <1>1, <1>4, <1>5 DEF Patches
    <2>3. Progress(c, q)'
        BY <1>1, <1>2, <1>5, RowsWritten, ZenonT(40) DEF Progress, TagsDone, SamplesDone, Revising
    <2>4. QED
        BY <1>1, <2>1, <2>2, <2>3, FitBegun, ZenonT(40)
<1>6. CASE q # p
    <2>1. q \notin cut \cup raced
        BY <1>1, <1>3, <1>6 DEF Marks
    <2>2. Alike(q)
        BY <1>1, <1>6, RowsWritten, ZenonT(40) DEF Alike
    <2>3. QED
        BY <1>1, <1>4, <1>6, <2>1, <2>2, FitBeside, ZenonT(40)
<1>7. QED
    BY <1>5, <1>6

LEMMA PatchFit ==
    ASSUME ContentTypeOK, WholeInv, NEW c \in Clients, Walks(c) \/ \E row : Columns(c, row)
    PROVE  WholeInv'
<1>1. KeepsFiles(c) /\ Alone(c) /\ SameMarks /\ lost' = lost /\ revisions' = revisions
    BY ZenonT(40) DEF Walks, Columns, KeepsFiles, KeepsEdit, Same, SameRest
<1>2. \/ task[c].at \in Patching /\ task'[c].at \in Patching /\ Kept(c, "id")
      \/ task[c].at \notin Patching /\ task'[c].at \notin Patching /\ problems' = problems
    BY ZenonT(40) DEF Walks, Columns, WalksIn, Patching, Updating, Deleting, Answering, Reading, Checking, Same
<1>3. task[c].at \in Patching => task'[c].id = task[c].id /\ task'[c].edit = task[c].edit
    BY <1>1, <1>2, ThreadShape, ZenonT(40) DEF KeepsFiles, KeepsEdit, Kept, Shaped, Editing
<1>4. /\ DOMAIN problems' = DOMAIN problems
      /\ \A p \in DOMAIN problems : p # task[c].id => Alike(p)
    <2>1. CASE Walks(c)
        BY <2>1, ZenonT(40) DEF Walks, Same, Alike
    <2>2. CASE \E row : Columns(c, row)
        BY <2>2, RowsWritten DEF Columns, Alike
    <2>3. QED
        BY <2>1, <2>2, ZenonT(40)
<1>5. SUFFICES ASSUME NEW p \in DOMAIN problems, p \notin cut \cup raced
               PROVE  Fit(p)'
    BY <1>1, <1>4, ZenonT(40) DEF WholeInv, SameMarks
<1>6. CASE task[c].at \notin Patching
    <2>1. Alike(p) /\ task'[c].at \notin Patching
        BY <1>2, <1>6 DEF Alike
    <2>2. QED
        BY <1>1, <1>5, <1>6, <2>1, FitBeside, ZenonT(40)
<1>7. CASE task[c].at \in Patching /\ p # task[c].id
    BY <1>1, <1>2, <1>3, <1>4, <1>5, <1>7, FitBeside, ZenonT(40)
<1>8. CASE task[c].at \in Patching /\ p = task[c].id
    <2>1. Fit(p) /\ Patches(c, p) /\ Patches(c, p)'
        BY <1>2, <1>3, <1>5, <1>8 DEF WholeInv, Patches
    <2>2. Progress(c, p)
        BY <2>1 DEF Fit
    <2>3. Progress(c, p)'
        <3>1. CASE Walks(c)
            <4>1. problems' = problems
                BY <3>1, ZenonT(40) DEF Walks, Same
            <4>2. \/ task'[c].at = "patch_replace"
                  \/ task[c].at = "rev_insert" /\ task'[c].at = "rev_max"
                  \/ /\ task[c].at = "rev_max" /\ task'[c].at = "rev_insert"
                     /\ task'[c].no = LastRevision(task[c].id) + 1
                BY <1>8, <3>1, ZenonT(40) DEF Walks, WalksIn, Patching, Updating, Deleting, Answering, Reading, Checking
            <4>3. QED
                BY <1>1, <1>3, <1>8, <2>2, <4>1, <4>2, ZenonT(40)
                DEF Progress, LastRevision, TagsDone, SamplesDone, Revising
        <3>2. ASSUME NEW row, Columns(c, row)
              PROVE  Progress(c, p)'
            <4>1. problems'[p] = row /\ row.edit = problems[p].edit
                BY <1>8, <3>2, RowsWritten, ZenonT(40) DEF Columns
            <4>2. \/ /\ task'[c].at = "patch_samples" /\ row.tags = task[c].edit
                  \/ /\ task[c].at = "patch_samples" /\ task'[c].at \in {"patch_tests", "rev_max"}
                     /\ row.tags = problems[p].tags /\ row.samples = task[c].edit
                BY <1>8, <3>2, ZenonT(40) DEF Columns
            <4>3. QED
                BY <1>3, <1>8, <2>2, <4>1, <4>2, ZenonT(40) DEF Progress, TagsDone, SamplesDone, Revising
        <3>3. QED
            BY <3>1, <3>2
    <2>4. QED
        BY <1>1, <2>1, <2>3, FitOn
<1>9. QED
    BY <1>6, <1>7, <1>8

LEMMA RetargetFit ==
    ASSUME ContentTypeOK, WholeInv, NEW c \in Clients, NEW q, Retargets(c, q)
    PROVE  WholeInv'
<1>1. /\ Alone(c) /\ lost' = lost /\ revisions' = revisions /\ problems' = problems /\ cut' = cut
      /\ task[c].at \in {"update_reread", "import_id"} /\ task'[c].at = "patch_tags" /\ task'[c].id = q
      /\ raced' = IF q = task[c].id THEN raced ELSE raced \cup {q, task[c].id}
    BY ZenonT(40) DEF Retargets, Targets, KeepsFiles, KeepsEdit
<1>2. task[c].at \in Patching /\ task'[c].at \in Patching
    BY <1>1 DEF Patching
<1>3. task'[c].edit = task[c].edit
    BY <1>2, ThreadShape, ZenonT(40) DEF Retargets, Targets, KeepsFiles, KeepsEdit, Kept, Shaped, Editing
<1>4. SUFFICES ASSUME NEW p \in DOMAIN problems, p \notin cut' \cup raced'
               PROVE  Fit(p)'
    BY <1>1, ZenonT(40) DEF WholeInv
<1>5. p \notin cut \cup raced /\ Alike(p)
    BY <1>1, <1>4 DEF Alike
<1>6. CASE q = task[c].id /\ p = q
    <2>1. Fit(p) /\ Patches(c, p) /\ Patches(c, p)'
        BY <1>1, <1>2, <1>5, <1>6 DEF WholeInv, Patches
    <2>2. Progress(c, p)
        BY <2>1 DEF Fit
    <2>3. Progress(c, p)'
        BY <1>1, <1>3, <2>2 DEF Progress, TagsDone, SamplesDone, Revising
    <2>4. QED
        BY <1>1, <2>1, <2>3, FitOn, ZenonT(40)
<1>7. CASE p # q /\ p # task[c].id
    BY <1>1, <1>5, <1>7, FitBeside, ZenonT(40)
<1>8. QED
    BY <1>1, <1>4, <1>6, <1>7, ZenonT(40)

LEMMA SettleFit ==
    ASSUME Counting, ContentTypeOK, Numbered, WholeInv, NEW c \in Clients, Stores(c) \/ Loses(c)
    PROVE  WholeInv'
<1>1. /\ KeepsEdit(c) /\ Alone(c) /\ SameMarks /\ problems' = problems /\ lost \subseteq lost'
      /\ task[c].at \in Revising /\ task'[c].at = "audit"
    BY ZenonT(40) DEF Stores, Loses, KeepsFiles, KeepsEdit, Revising
<1>2. task[c].at \in Patching /\ task'[c].at \notin Patching
    BY <1>1 DEF Patching, Revising
<1>3. /\ task[c].id \in DOMAIN problems /\ DOMAIN revisions = DOMAIN problems
      /\ task[c].edit.action \in {"problem.create", "problem.update"}
    BY <1>1, <1>2, ThreadShape DEF Shaped, Revising, ContentTypeOK
<1>4. SUFFICES ASSUME NEW p \in DOMAIN problems, p \notin cut \cup raced
               PROVE  Fit(p)'
    BY <1>1, ZenonT(40) DEF WholeInv, SameMarks
<1>5. CASE p # task[c].id
    <2>1. revisions'[p] = revisions[p]
        BY <1>3, <1>5, RevisionStored DEF Loses
    <2>2. QED
        BY <1>1, <1>2, <1>4, <1>5, <2>1, FitBeside, ZenonT(40) DEF Alike
<1>6. CASE p = task[c].id
    <2>1. Fit(p) /\ Patches(c, p) /\ ~Patches(c, p)'
        BY <1>2, <1>4, <1>6 DEF WholeInv, Patches
    <2>2. Progress(c, p)
        BY <2>1 DEF Fit
    <2>3. /\ problems[p].edit = task[c].edit /\ problems[p].tags = task[c].edit
          /\ problems[p].samples = task[c].edit
        BY <1>1, <2>2 DEF Progress, TagsDone, SamplesDone
    <2>4. \/ task[c].edit \in lost'
          \/ [no |-> Cardinality(revisions'[p]), edit |-> task[c].edit] \in revisions'[p]
        <3>1. CASE Loses(c)
            BY <3>1, ZenonT(40) DEF Loses
        <3>2. CASE Stores(c)
            <4>1. Cardinality(revisions'[p]) = task[c].no
                BY <1>6, <3>2, StoredNext
            <4>2. [no |-> task[c].no, edit |-> task[c].edit] \in revisions'[p]
                BY <1>6, <3>2, RevisionStored
            <4>3. QED
                BY <4>1, <4>2
        <3>3. QED
            BY <3>1, <3>2
    <2>5. Whole(p)'
        BY <1>1, <1>3, <2>3, <2>4, ZenonT(40) DEF Whole, LastRevision
    <2>6. QED
        BY <1>1, <2>1, <2>5, FitDone, ZenonT(40)
<1>7. QED
    BY <1>5, <1>6

LEMMA FinishFit ==
    ASSUME ContentTypeOK, WholeInv, NEW c \in Clients, Abandons(c) \/ \E row : Finishes(c, row)
    PROVE  WholeInv'
<1>1. Alone(c) /\ lost \subseteq lost' /\ revisions' = revisions /\ raced' = raced /\ cut \subseteq cut'
    BY ZenonT(40) DEF Abandons, Finishes, Leaves, NextFiles, KeepsEdit
<1>2. task'[c].at \notin Patching
    BY ZenonT(40) DEF Abandons, Finishes, Leaves, NextFile, Patching
<1>3. /\ DOMAIN problems' = DOMAIN problems
      /\ \A p \in DOMAIN problems : p # task[c].id => Alike(p)
    <2>1. CASE problems' = problems
        BY <2>1 DEF Alike
    <2>2. ASSUME NEW row, WritesRow(task[c].id, row)
          PROVE  DOMAIN problems' = DOMAIN problems /\ \A p \in DOMAIN problems : p # task[c].id => Alike(p)
        BY <2>2, RowsWritten DEF Alike
    <2>3. QED
        BY <2>1, <2>2, ZenonT(40) DEF Abandons, Finishes
<1>4. SUFFICES ASSUME NEW p \in DOMAIN problems, p \notin cut' \cup raced'
               PROVE  Fit(p)'
    BY <1>3 DEF WholeInv
<1>5. p \notin cut \cup raced
    BY <1>1, <1>4
<1>6. CASE task[c].at \notin Patching
    <2>1. problems' = problems
        BY <1>6, ZenonT(40) DEF Abandons, Finishes, Patching
    <2>2. QED
        BY <1>1, <1>2, <1>5, <1>6, <2>1, FitBeside, ZenonT(40) DEF Alike
<1>7. CASE p # task[c].id
    BY <1>1, <1>2, <1>3, <1>5, <1>7, FitBeside
<1>8. CASE task[c].at \in Patching /\ p = task[c].id
    <2>1. p \notin cut'
        BY <1>4
    <2>2. PICK row : /\ task[c].at = "patch_tests" /\ Imports(c)
                     /\ WritesRow(p, row)
                     /\ row.edit = problems[p].edit /\ row.tags = problems[p].tags
                     /\ row.samples = problems[p].samples /\ row.tests = task[c].edit
        BY <1>8, <2>1, ZenonT(40) DEF Abandons, Finishes, Importing, Patching
    <2>3. Fit(p) /\ Patches(c, p) /\ ~Patches(c, p)'
        BY <1>2, <1>5, <1>8, ZenonT(40) DEF WholeInv, Patches
    <2>4. Progress(c, p)
        BY <2>3 DEF Fit
    <2>5. /\ problems[p].edit = task[c].edit /\ problems[p].tags = task[c].edit
          /\ problems[p].samples = task[c].edit
        BY <2>2, <2>4 DEF Progress, TagsDone, SamplesDone
    <2>6. problems'[p] = row
        BY <2>2, RowsWritten
    <2>7. Whole(p)'
        BY <2>2, <2>5, <2>6, ZenonT(40) DEF Whole, Imports
    <2>8. QED
        BY <1>1, <2>3, <2>7, FitDone
<1>9. QED
    BY <1>6, <1>7, <1>8

LEMMA WholeStep ==
    ASSUME Counting, ContentTypeOK, Numbered, WholeInv, NEW c \in Clients, Effect(c)
    PROVE  WholeInv'
<1>1. CASE Refuses(c)
    BY <1>1 DEF Refuses, Same, SameRest, SameMarks, WholeInv, Fit, Patches, Progress, Whole, LastRevision
<1>2. QED
    BY <1>1, IdleFit, InsertFit, RewriteFit, PatchFit, RetargetFit, SettleFit, FinishFit, ZenonT(40) DEF Effect

-----------------------------------------------------------------------------
INSTANCE FiniteSetTheorems

LEMMA CountingHolds == Counting
<1>1. IsFiniteSet({}) /\ Cardinality({}) = 0
    BY FS_EmptySet
<1>2. ASSUME NEW n \in Nat
      PROVE  IsFiniteSet(1 .. n)
    BY FS_Interval
<1>3. ASSUME NEW S, IsFiniteSet(S)
      PROVE  Cardinality(S) \in Nat
    BY <1>3, FS_CardinalityType
<1>4. ASSUME NEW S, NEW T \in SUBSET S, IsFiniteSet(S)
      PROVE  IsFiniteSet(T) /\ Cardinality(T) <= Cardinality(S)
    BY <1>4, FS_Subset
<1>5. ASSUME NEW S, NEW x, IsFiniteSet(S), x \notin S
      PROVE  IsFiniteSet(S \cup {x}) /\ Cardinality(S \cup {x}) = Cardinality(S) + 1
    BY <1>5, FS_AddElement
<1>6. ASSUME NEW S, NEW x \in S, IsFiniteSet(S)
      PROVE  Cardinality(S \ {x}) = Cardinality(S) - 1
    BY <1>6, FS_RemoveElement
<1>7. QED
    BY <1>1, <1>2, <1>3, <1>4, <1>5, <1>6, ZenonT(40) DEF Counting

-----------------------------------------------------------------------------
(***************************************************************************)
(* The rows, the edits and the revisions of every reachable state.         *)
(***************************************************************************)
LEMMA ContentBegins ==
    ASSUME WritersInit
    PROVE  ContentInv
<1>1. task = [c \in Clients |-> Idle] /\ requests \in Nat
    BY DEF WritersInit, RequestsInit
<1>2. \A c \in Clients : task[c].at = "idle" /\ task = [d \in Clients |-> task[d]]
    BY <1>1 DEF Idle
<1>3. problems = <<>> /\ revisions = <<>> /\ lost = {}
    BY DEF WritersInit
<1>4. \A f, S : f = <<>> => f \in Seq(S) /\ Len(f) = 0 /\ DOMAIN f = {}
    OBVIOUS
<1>5. /\ problems \in Seq(Row) /\ revisions \in Seq(SUBSET [no : Nat, edit : Edits])
      /\ Len(revisions) = Len(problems) /\ DOMAIN problems = {} /\ DOMAIN revisions = {}
    BY <1>3, <1>4, ZenonT(40)
<1>6. ContentTypeOK
    BY <1>1, <1>2, <1>5 DEF ContentTypeOK, Shaped, Reading, Editing, Unwritten, Creating, Updating, Deleting,
           Checking, Importing, Patching, Answering, Patches3, Revising
<1>7. EditsDiffer
    BY <1>2, <1>3, <1>5 DEF EditsDiffer, Editing, Unwritten, Creating, Updating, Deleting,
           Checking, Importing, Patching, Answering
<1>8. SlugsDiffer /\ Numbered
    BY <1>2, <1>5 DEF SlugsDiffer, Numbered
<1>9. QED
    BY <1>6, <1>7, <1>8 DEF ContentInv

LEMMA ContentStep ==
    ASSUME ContentInv, [\E c \in Clients : WriterNext(c)]_writerVars
    PROVE  ContentInv'
<1>1. ASSUME NEW c \in Clients, WriterNext(c)
      PROVE  ContentInv'
    BY <1>1, StepEffect, TypeStep, SlugsStep, EditsStep, NumberedStep, CountingHolds DEF ContentInv
<1>2. CASE UNCHANGED writerVars
    BY <1>2, ZenonT(40) DEF writerVars, reqVars, importVars, problemVars, ContentInv, ContentTypeOK, Shaped, SlugsDiffer,
                EditsDiffer, Stored, Numbered, LastRevision
<1>3. QED
    BY <1>1, <1>2

LEMMA ContentHolds == WritersSpec => []ContentInv
    BY ContentBegins, ContentStep, PTL DEF WritersSpec

-----------------------------------------------------------------------------
(***************************************************************************)
(* However many imports, edits and failures interleave, an import with     *)
(* on_duplicate=skip overwrites a live problem only if the slug was taken  *)
(* or came back to life after process_one_file had looked for it.          *)
(***************************************************************************)
THEOREM SkipsKeep == WritersSpec => []SkipKeepsProblems
<1>1. WritersInit => SkipInv
    BY DEF WritersInit, RequestsInit, ImportInit, Idle, Looked, SkipInv, SkipLooks, SkipKeepsProblems
<1>2. ContentInv /\ SkipInv /\ [\E c \in Clients : WriterNext(c)]_writerVars => SkipInv'
    <2>1. ASSUME ContentInv, SkipInv, NEW c \in Clients, WriterNext(c)
          PROVE  SkipInv'
        BY <2>1, StepEffect, SkipStep DEF ContentInv
    <2>2. ASSUME SkipInv, UNCHANGED writerVars
          PROVE  SkipInv'
        BY <2>2, ZenonT(40) DEF writerVars, reqVars, importVars, problemVars, SkipInv, SkipLooks, SkipKeepsProblems, File
    <2>3. QED
        BY <2>1, <2>2
<1>3. SkipInv => SkipKeepsProblems
    BY DEF SkipInv
<1>4. QED
    BY <1>1, <1>2, <1>3, ContentHolds, PTL DEF WritersSpec

-----------------------------------------------------------------------------
(***************************************************************************)
(* However the editors' threads interleave and fail, the revisions of a    *)
(* problem are numbered 1, 2, ... without a gap or a repetition, and with  *)
(* no handler under way every creation and update has one revision, or     *)
(* none if record lost it.                                                 *)
(***************************************************************************)
THEOREM RevisionsCount == WritersSpec => []RevisionsNumbered
<1>1. WritersInit => StoredOnce
    <2>1. SUFFICES ASSUME WritersInit
                   PROVE  StoredOnce
        OBVIOUS
    <2>2. revisions = <<>> /\ acts = <<>> /\ lost = {}
        BY <2>1 DEF WritersInit, AuditInit
    <2>3. \A f, S : f = <<>> => f \in Seq(S) /\ DOMAIN f = {}
        OBVIOUS
    <2>4. DOMAIN revisions = {} /\ acts \in Seq(Edits) /\ Range(acts) = {}
        BY <2>2, <2>3 DEF Range
    <2>5. QED
        BY <2>2, <2>4 DEF StoredOnce
<1>2. ContentInv /\ StoredOnce /\ [\E c \in Clients : WriterNext(c)]_writerVars => StoredOnce'
    <2>1. ASSUME ContentInv, StoredOnce, NEW c \in Clients, WriterNext(c)
          PROVE  StoredOnce'
        BY <2>1, StepEffect, StoredStep DEF ContentInv
    <2>2. ASSUME StoredOnce, UNCHANGED writerVars
          PROVE  StoredOnce'
        BY <2>2 DEF writerVars, reqVars, importVars, auditVars, problemVars, StoredOnce, Stored, Underway
    <2>3. QED
        BY <2>1, <2>2
<1>3. ContentInv /\ StoredOnce => RevisionsNumbered
    <2>1. SUFFICES ASSUME ContentInv, StoredOnce
                   PROVE  RevisionsNumbered
        OBVIOUS
    <2>2. \A p \in DOMAIN revisions : {r.no : r \in revisions[p]} = 1 .. Cardinality(revisions[p])
        BY <2>1 DEF ContentInv, Numbered, LastRevision
    <2>3. ASSUME Quiet, NEW e \in Range(acts), e.action \in {"problem.create", "problem.update"}
          PROVE  Cardinality({x \in (DOMAIN revisions) \X UNION Range(revisions) :
                     x[2] \in revisions[x[1]] /\ x[2].edit = e}) = IF e \in lost THEN 0 ELSE 1
        <3> DEFINE X == {x \in (DOMAIN revisions) \X UNION Range(revisions) :
                            x[2] \in revisions[x[1]] /\ x[2].edit = e}
        <3>1. ~Underway(e)
            BY <2>3 DEF Quiet, At, Underway, Patching
        <3>2. e \in lost \/ Stored(e)
            BY <2>1, <2>3, <3>1 DEF StoredOnce
        <3>3. CASE e \in lost
            <4>1. ~Stored(e)
                BY <2>1, <3>3 DEF StoredOnce
            <4>2. X = {}
                BY <4>1 DEF Stored
            <4>3. QED
                BY <3>3, <4>2, FS_EmptySet, ZenonT(40)
        <3>4. CASE e \notin lost
            <4>p. PICK p \in DOMAIN revisions : \E r \in revisions[p] : r.edit = e
                BY <3>2, <3>4 DEF Stored
            <4>1. PICK r \in revisions[p] : r.edit = e
                BY <4>p
            <4>2. <<p, r>> \in X
                BY <4>1 DEF Range
            <4>3. \A x \in X : x = <<p, r>>
                BY <2>1, <4>1 DEF StoredOnce
            <4>4. X = {<<p, r>>}
                BY <4>2, <4>3
            <4>5. QED
                BY <3>4, <4>4, FS_Singleton, ZenonT(40)
        <3>5. QED
            BY <3>3, <3>4
    <2>4. QED
        BY <2>2, <2>3 DEF RevisionsNumbered
<1>4. QED
    BY <1>1, <1>2, <1>3, ContentHolds, PTL DEF WritersSpec

-----------------------------------------------------------------------------
(***************************************************************************)
(* However the administrators' handlers interleave and fail, with none of  *)
(* them under way the audit log holds one entry for everything they did    *)
(* and nothing else, except for what record could not insert.              *)
(***************************************************************************)
THEOREM AuditComplete == WritersSpec => []ActsAudited
<1>1. WritersInit => AuditInv
    <2>1. SUFFICES ASSUME WritersInit
                   PROVE  AuditInv
        OBVIOUS
    <2>2. audit_logs = <<>> /\ acts = <<>> /\ unaudited = <<>>
        BY <2>1 DEF WritersInit, AuditInit
    <2>3. \A f, S : f = <<>> => f \in Seq(S) /\ DOMAIN f = {}
        OBVIOUS
    <2>4. /\ audit_logs \in Seq(Edits) /\ acts \in Seq(Edits) /\ unaudited \in Seq(Edits)
          /\ DOMAIN audit_logs = {} /\ DOMAIN acts = {} /\ DOMAIN unaudited = {}
        BY <2>2, <2>3, ZenonT(40)
    <2>5. \A e : Times(e, acts) = 0 /\ Times(e, audit_logs) = 0 /\ Times(e, unaudited) = 0
        BY <2>4, FS_EmptySet DEF Times
    <2>6. \A e : Owing(e) = {}
        BY <2>1 DEF WritersInit, RequestsInit, Idle, Owing, Owes, Patching
    <2>7. QED
        BY <2>4, <2>5, <2>6, FS_EmptySet DEF AuditInv
<1>2. ContentInv /\ AuditInv /\ [\E c \in Clients : WriterNext(c)]_writerVars => AuditInv'
    <2>1. ASSUME ContentInv, AuditInv, NEW c \in Clients, WriterNext(c)
          PROVE  AuditInv'
        BY <2>1, StepEffect, AuditStep, CountingHolds DEF ContentInv
    <2>2. ASSUME AuditInv, UNCHANGED writerVars
          PROVE  AuditInv'
        BY <2>2 DEF writerVars, reqVars, importVars, auditVars, AuditInv, Times, Owing, Owes, Imports
    <2>3. QED
        BY <2>1, <2>2
<1>3. AuditInv => ActsAudited
    <2>1. SUFFICES ASSUME AuditInv, Quiet, NEW e \in Range(acts) \cup Range(audit_logs)
                   PROVE  Times(e, acts) = Times(e, audit_logs) + Times(e, unaudited)
        BY DEF ActsAudited
    <2>2. e \in Edits
        BY <2>1 DEF AuditInv, Range
    <2>3. Cardinality(Owing(e)) = 0
        <3>1. Owing(e) = {}
            BY <2>1 DEF Quiet, At, Owing, Owes, Patching
        <3>2. QED
            BY <3>1, FS_EmptySet
    <2>4. Times(e, audit_logs) \in Nat /\ Times(e, unaudited) \in Nat
        BY <2>1, <2>2, TimesAppends, CountingHolds DEF AuditInv
    <2>5. QED
        BY <2>1, <2>2, <2>3, <2>4 DEF AuditInv
<1>4. QED
    BY <1>1, <1>2, <1>3, ContentHolds, PTL DEF WritersSpec

-----------------------------------------------------------------------------
(***************************************************************************)
(* However edits, imports and failures interleave, with no handler under   *)
(* way the row of a problem, its tags, its samples, its hidden tests or    *)
(* its latest revision come from one edit, except where an edit failed     *)
(* part way or two ran at the same time and none has had it to itself      *)
(* since.                                                                  *)
(***************************************************************************)
THEOREM EditsStayWhole == WritersSpec => []EditsAreWhole
<1>1. WritersInit => WholeInv
    <2>1. \A f : f = <<>> => DOMAIN f = {}
        OBVIOUS
    <2>2. QED
        BY <2>1 DEF WritersInit, WholeInv
<1>2. ContentInv /\ WholeInv /\ [\E c \in Clients : WriterNext(c)]_writerVars => WholeInv'
    <2>1. ASSUME ContentInv, WholeInv, NEW c \in Clients, WriterNext(c)
          PROVE  WholeInv'
        BY <2>1, StepEffect, WholeStep, CountingHolds DEF ContentInv
    <2>2. ASSUME WholeInv, UNCHANGED writerVars
          PROVE  WholeInv'
        BY <2>2 DEF writerVars, reqVars, importVars, problemVars, WholeInv, Fit, Patches, Progress, Whole,
                    LastRevision
    <2>3. QED
        BY <2>1, <2>2
<1>3. WholeInv => EditsAreWhole
    <2>1. SUFFICES ASSUME WholeInv, Quiet, NEW p \in DOMAIN problems \ (cut \cup raced)
                   PROVE  Whole(p)
        BY DEF EditsAreWhole, Whole
    <2>2. \A c \in Clients : ~Patches(c, p)
        BY <2>1 DEF Quiet, At, Patches, Patching
    <2>3. QED
        BY <2>1, <2>2 DEF WholeInv, Fit
<1>4. QED
    BY <1>1, <1>2, <1>3, ContentHolds, PTL DEF WritersSpec
=============================================================================
