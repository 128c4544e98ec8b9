---------------------------- MODULE ContentSteps ----------------------------
(***************************************************************************)
(* What each effect of ContentEffects preserves of the rows, the edits,    *)
(* the revisions and the audit log, for any number of threads, requests    *)
(* and failing statements.                                                 *)
(***************************************************************************)
EXTENDS ContentEffects, FiniteCounts, TLAPS

USE SMTT(40), ZenonT(40)

-----------------------------------------------------------------------------
LEMMA Found ==
    ASSUME ContentTypeOK, NEW s
    PROVE  IF slug_exists(s)
           THEN /\ find_by_slug(s) \in DOMAIN problems /\ find_by_slug(s) # NULL
                /\ problems[find_by_slug(s)].slug = s
           ELSE find_by_slug(s) = NULL
<1>1. NULL \notin DOMAIN problems
    BY DEF ContentTypeOK, NULL
<1>2. QED
    BY <1>1 DEF slug_exists, find_by_slug

LEMMA ThreadShape ==
    ASSUME ContentTypeOK, NEW c \in Clients
    PROVE  Shaped(task[c])
    BY DEF ContentTypeOK

LEMMA ImportShape ==
    ASSUME ContentTypeOK, NEW c \in Clients,
           task[c].at \in Importing \/ (task[c].at \in Patching /\ Imports(c))
    PROVE  /\ task[c].edit \in Edits /\ task[c].edit.action = "problem.bulk_import"
           /\ task[c].files \in Seq(Slugs) /\ task[c].files # <<>>
           /\ File(c) \in Slugs /\ Imports(c)
           /\ "files" \in DOMAIN task[c] /\ "edit" \in DOMAIN task[c] /\ "policy" \in DOMAIN task[c]
<1>1. /\ task[c].edit \in Edits /\ task[c].edit.action = "problem.bulk_import"
      /\ task[c].files \in Seq(Slugs) /\ task[c].files # <<>>
      /\ "files" \in DOMAIN task[c] /\ "edit" \in DOMAIN task[c] /\ "policy" \in DOMAIN task[c]
    BY ThreadShape DEF Shaped, Editing, Imports
<1>2. File(c) \in Slugs /\ Imports(c)
    BY <1>1 DEF File, Imports
<1>3. QED
    BY <1>1, <1>2

-----------------------------------------------------------------------------
(***************************************************************************)
(* Types, slugs and edits.                                                 *)
(***************************************************************************)
Revised == SUBSET [no : Nat, edit : Edits]

Typed(c) ==
    /\ Alone(c) /\ requests' \in Nat
    /\ problems' \in Seq(Row) /\ DOMAIN problems \subseteq DOMAIN problems'
    /\ revisions' \in Seq(Revised) /\ Len(revisions') = Len(problems')
    /\ Shaped(task[c])'

LEMMA TypedHolds ==
    ASSUME ContentTypeOK, NEW c \in Clients, Typed(c)
    PROVE  ContentTypeOK'
<1>1. ASSUME NEW d \in Clients, d # c
      PROVE  Shaped(task[d])'
    <2>1. task'[d] = task[d] /\ DOMAIN problems \subseteq DOMAIN problems'
        BY <1>1 DEF Typed, Alone
    <2>2. Shaped(task[d])
        BY ThreadShape
    <2>3. QED
        BY <2>1, <2>2 DEF Shaped
<1>2. QED
    BY <1>1 DEF Typed, Alone, ContentTypeOK, Revised

LEMMA RowsWritten ==
    ASSUME ContentTypeOK, NEW p, NEW row, WritesRow(p, row)
    PROVE  /\ problems' \in Seq(Row) /\ DOMAIN problems' = DOMAIN problems /\ Len(problems') = Len(problems)
           /\ problems'[p] = row
           /\ \A q \in DOMAIN problems : q # p => problems'[q] = problems[q]
<1>1. problems \in Seq(Row)
    BY DEF ContentTypeOK
<1>2. QED
    BY <1>1 DEF WritesRow

LEMMA RowsInserted ==
    ASSUME ContentTypeOK, NEW c \in Clients, NEW s, Inserts(c, s)
    PROVE  /\ problems' \in Seq(Row) /\ Len(problems') = Len(problems) + 1
           /\ DOMAIN problems' = DOMAIN problems \cup {Len(problems) + 1}
           /\ Len(problems) + 1 \notin DOMAIN problems
           /\ problems'[Len(problems) + 1] = Problem(s, task[c].edit)
           /\ \A q \in DOMAIN problems : problems'[q] = problems[q]
           /\ revisions' \in Seq(Revised) /\ Len(revisions') = Len(problems')
           /\ DOMAIN revisions' = DOMAIN problems'
           /\ revisions'[Len(problems) + 1] = {}
           /\ \A q \in DOMAIN problems : revisions'[q] = revisions[q]
<1>1. problems \in Seq(Row) /\ revisions \in Seq(Revised) /\ Len(revisions) = Len(problems)
    BY DEF ContentTypeOK, Revised
<1>2. task[c].edit \in Edits /\ s \in Slugs /\ Nothing \in Edits
    BY ThreadShape DEF Inserts, Shaped, Editing, Unwritten, Creating, Looked, Importing, Nothing, Edits,
       Actions
<1>3. Problem(s, task[c].edit) \in Row /\ {} \in Revised
    BY <1>2 DEF Problem, Row, Revised
<1>4. problems' = Append(problems, Problem(s, task[c].edit)) /\ revisions' = Append(revisions, {})
    BY DEF Inserts
<1>5. /\ problems' \in Seq(Row) /\ Len(problems') = Len(problems) + 1
      /\ problems'[Len(problems) + 1] = Problem(s, task[c].edit)
      /\ \A q \in 1 .. Len(problems) : problems'[q] = problems[q]
    BY <1>1, <1>3, <1>4
<1>6. /\ revisions' \in Seq(Revised) /\ Len(revisions') = Len(revisions) + 1
      /\ revisions'[Len(revisions) + 1] = {}
      /\ \A q \in 1 .. Len(revisions) : revisions'[q] = revisions[q]
    BY <1>1, <1>3, <1>4
<1>7. QED
    BY <1>1, <1>5, <1>6

LEMMA RevisionStored ==
    ASSUME ContentTypeOK, Numbered, NEW c \in Clients, Stores(c)
    PROVE  /\ revisions' \in Seq(Revised) /\ DOMAIN revisions' = DOMAIN revisions
           /\ Len(revisions') = Len(revisions) /\ task[c].id \in DOMAIN revisions
           /\ revisions'[task[c].id] =
                 revisions[task[c].id] \cup {[no |-> task[c].no, edit |-> task[c].edit]}
           /\ \A q \in DOMAIN revisions : q # task[c].id => revisions'[q] = revisions[q]
           /\ [no |-> task[c].no, edit |-> task[c].edit] \in [no : Nat, edit : Edits]
<1> DEFINE p == task[c].id
           r == [no |-> task[c].no, edit |-> task[c].edit]
<1>1. problems \in Seq(Row) /\ revisions \in Seq(Revised) /\ Len(revisions) = Len(problems)
    BY DEF ContentTypeOK, Revised
<1>2. task[c].at = "rev_insert"
    BY DEF Stores
<1>3. p \in DOMAIN problems /\ task[c].edit \in Edits
    BY <1>2, ThreadShape DEF Shaped, Editing, Patching
<1>4. p \in DOMAIN revisions
    BY <1>1, <1>3
<1>5. task[c].no \in Nat
    BY <1>2 DEF Numbered
<1>6. r \in [no : Nat, edit : Edits]
    BY <1>3, <1>5
<1> HIDE DEF r
<1>7. revisions' = [revisions EXCEPT ![p] = @ \cup {r}]
    BY DEF Stores, r
<1>8. revisions[p] \cup {r} \in Revised
    BY <1>1, <1>4, <1>6 DEF Revised
<1>9. QED
    BY <1>1, <1>4, <1>6, <1>7, <1>8 DEF r

LEMMA RowsStay ==
    ASSUME ContentTypeOK, problems' = problems
    PROVE  problems' \in Seq(Row) /\ DOMAIN problems \subseteq DOMAIN problems'
    BY DEF ContentTypeOK

LEMMA RevisionsStay ==
    ASSUME ContentTypeOK, revisions' = revisions, Len(problems') = Len(problems)
    PROVE  revisions' \in Seq(Revised) /\ Len(revisions') = Len(problems')
    BY DEF ContentTypeOK, Revised

LEMMA BeginTyped ==
    ASSUME ContentTypeOK, NEW c \in Clients, Begins(c)
    PROVE  Typed(c)
<1>1. requests' \in Nat
    BY DEF Begins, ContentTypeOK
<1>2. problems' = problems /\ revisions' = revisions
    BY DEF Begins, Same, SameRest
<1>3. Shaped(task[c])'
    BY <1>2 DEF Begins, Shaped
<1>4. QED
    BY <1>1, <1>2, <1>3, RowsStay, RevisionsStay DEF Typed, Begins

LEMMA LeaveTyped ==
    ASSUME ContentTypeOK, NEW c \in Clients, Leaves(c), problems' = problems, revisions' = revisions
    PROVE  Typed(c)
<1>1. requests' \in Nat
    BY DEF Leaves, ContentTypeOK
<1>2. Shaped(task[c])'
    BY DEF Leaves, Shaped, Reading, Editing, Unwritten, Creating, Updating, Deleting,
           Checking, Importing, Patching, Answering, Patches3, Revising
<1>3. QED
    BY <1>1, <1>2, RowsStay, RevisionsStay DEF Typed, Leaves

LEMMA WalkTyped ==
    ASSUME ContentTypeOK, NEW c \in Clients, Walks(c) \/ Looks(c)
    PROVE  Typed(c)
<1>1. problems' = problems /\ revisions' = revisions /\ KeepsFiles(c)
    BY DEF Walks, Looks, Same, SameRest
<1>2. requests' \in Nat /\ Alone(c) /\ Kept(c, "edit") /\ Kept(c, "slug") /\ Kept(c, "files") /\ Kept(c, "policy")
    BY <1>1 DEF KeepsFiles, KeepsEdit, ContentTypeOK
<1>3. Shaped(task[c])
    BY ThreadShape
<1>4. Shaped(task[c])'
    <2>1. CASE Looks(c)
        BY <1>1, <1>2, <1>3, <2>1 DEF Looks, WalksIn, Kept, Shaped, Reading, Editing, Unwritten, Creating, Updating, Deleting,
           Checking, Importing, Patching, Answering, Patches3, Revising
    <2>2. CASE WalksIn(c, Reading)
        BY <1>1, <1>2, <1>3, <2>2 DEF WalksIn, Shaped, Reading, Editing, Unwritten, Creating, Updating, Deleting,
           Checking, Importing, Patching, Answering, Patches3, Revising
    <2>3. CASE WalksIn(c, Checking) /\ "id" \in DOMAIN task'[c] /\ task'[c].id \in DOMAIN problems
        BY <1>1, <1>2, <1>3, <2>3 DEF WalksIn, Kept, Shaped, Reading, Editing, Unwritten, Creating, Updating, Deleting,
           Checking, Importing, Patching, Answering, Patches3, Revising
    <2>4. CASE Kept(c, "id") /\ (WalksIn(c, Updating) \/ WalksIn(c, Deleting) \/ WalksIn(c, Answering))
        BY <1>1, <1>2, <1>3, <2>4 DEF WalksIn, Kept, Shaped, Reading, Editing, Unwritten, Creating, Updating, Deleting,
           Checking, Importing, Patching, Answering, Patches3, Revising
    <2>5. CASE /\ Kept(c, "id")
               /\ \/ task[c].at = "patch_tags" /\ task'[c].at = "patch_replace"
                  \/ WalksIn(c, Revising)
        BY <1>1, <1>2, <1>3, <2>5 DEF WalksIn, Kept, Shaped, Reading, Editing, Unwritten, Creating, Updating, Deleting,
           Checking, Importing, Patching, Answering, Patches3, Revising
    <2>6. QED
        BY <2>1, <2>2, <2>3, <2>4, <2>5 DEF Walks, WalksIn, Revising
<1>5. QED
    BY <1>1, <1>2, <1>4, RowsStay, RevisionsStay DEF Typed

LEMMA MoveTyped ==
    ASSUME ContentTypeOK, NEW c \in Clients, KeepsFiles(c), DOMAIN problems \subseteq DOMAIN problems',
           \/ /\ "id" \in DOMAIN task'[c] /\ task'[c].id \in DOMAIN problems'
              /\ \/ task[c].at = "create" /\ task'[c].at = "patch_tags"
                 \/ task[c].at \in Looked /\ task'[c].at \in {"import_id", "patch_tags"}
                 \/ task[c].at \in {"import_id", "update_reread"} /\ task'[c].at = "patch_tags"
           \/ /\ "id" \in DOMAIN task'[c] /\ task'[c].id \in {NULL} \cup DOMAIN problems'
              /\ task[c].at = "update_write" /\ task'[c].at = "update_reread"
           \/ /\ Kept(c, "id")
              /\ \/ task[c].at = "patch_replace" /\ task'[c].at = "patch_samples"
                 \/ /\ task[c].at = "patch_samples"
                    /\ task'[c].at = IF Imports(c) THEN "patch_tests" ELSE "rev_max"
                 \/ /\ task[c].at \in Revising \cup {"delete", "spj_write"}
                    /\ task'[c].at = "audit"
                 \/ task[c].at = "audit" /\ task'[c].at \in Answering
    PROVE  Alone(c) /\ requests' \in Nat /\ Shaped(task[c])'
<1>2. requests' \in Nat /\ Alone(c) /\ Kept(c, "edit") /\ Kept(c, "slug") /\ Kept(c, "files") /\ Kept(c, "policy")
    BY DEF KeepsFiles, KeepsEdit, ContentTypeOK
<1>3. Shaped(task[c])
    BY ThreadShape
<1>4. CASE /\ "id" \in DOMAIN task'[c] /\ task'[c].id \in DOMAIN problems'
           /\ \/ task[c].at = "create" /\ task'[c].at = "patch_tags"
              \/ task[c].at \in Looked /\ task'[c].at \in {"import_id", "patch_tags"}
              \/ task[c].at \in {"import_id", "update_reread"} /\ task'[c].at = "patch_tags"
    BY <1>2, <1>3, <1>4 DEF Kept, Looked, Shaped, Reading, Editing, Unwritten, Creating, Updating, Deleting,
           Checking, Importing, Patching, Answering, Patches3, Revising
<1>5. CASE /\ "id" \in DOMAIN task'[c] /\ task'[c].id \in {NULL} \cup DOMAIN problems'
           /\ task[c].at = "update_write" /\ task'[c].at = "update_reread"
    BY <1>2, <1>3, <1>5 DEF Kept, Shaped, Reading, Editing, Unwritten, Creating, Updating, Deleting,
           Checking, Importing, Patching, Answering, Patches3, Revising
<1>6. CASE /\ Kept(c, "id")
           /\ \/ task[c].at = "patch_replace" /\ task'[c].at = "patch_samples"
              \/ /\ task[c].at = "patch_samples"
                 /\ task'[c].at = IF Imports(c) THEN "patch_tests" ELSE "rev_max"
    BY <1>2, <1>3, <1>6 DEF Kept, Imports, Shaped, Reading, Editing, Unwritten, Creating, Updating, Deleting,
           Checking, Importing, Patching, Answering, Patches3, Revising
<1>7. CASE /\ Kept(c, "id")
           /\ \/ /\ task[c].at \in Revising \cup {"delete", "spj_write"}
                 /\ task'[c].at = "audit"
              \/ task[c].at = "audit" /\ task'[c].at \in Answering
    BY <1>2, <1>3, <1>7 DEF Kept, Shaped, Reading, Editing, Unwritten, Creating, Updating, Deleting,
           Checking, Importing, Patching, Answering, Patches3, Revising
<1>8. QED
    BY <1>4, <1>5, <1>6, <1>7

LEMMA TailStays ==
    ASSUME NEW S, NEW f \in Seq(S), f # <<>>, Len(f) # 1
    PROVE  Tail(f) \in Seq(S) /\ Tail(f) # <<>>
<1>1. Len(f) \in Nat /\ Len(f) # 0
    OBVIOUS
<1>2. Tail(f) \in Seq(S) /\ Len(Tail(f)) = Len(f) - 1
    BY <1>1
<1>3. \A g : g = <<>> => Len(g) = 0
    OBVIOUS
<1>4. Len(Tail(f)) # 0
    BY <1>1, <1>2
<1>5. QED
    BY <1>2, <1>3, <1>4, ZenonT(40)

LEMMA FinishTyped ==
    ASSUME ContentTypeOK, NEW c \in Clients, NEW row, Finishes(c, row)
    PROVE  Alone(c) /\ requests' \in Nat /\ Shaped(task[c])'
<1>1. /\ requests' \in Nat /\ Alone(c) /\ Kept(c, "edit") /\ Kept(c, "policy")
      /\ "id" \in DOMAIN task'[c] /\ task'[c].id = NULL
      /\ "files" \in DOMAIN task'[c] /\ task'[c].files = Tail(task[c].files)
    BY DEF Finishes, NextFiles, KeepsEdit, ContentTypeOK
<1>2. /\ task[c].edit \in Edits /\ task[c].edit.action = "problem.bulk_import"
      /\ task[c].files \in Seq(Slugs) /\ task[c].files # <<>>
      /\ "edit" \in DOMAIN task[c] /\ "policy" \in DOMAIN task[c]
    BY ImportShape DEF Finishes
<1>3. CASE Len(task[c].files) = 1
    <2>1. task'[c].at = "audit"
        BY <1>3 DEF Finishes, NextFile
    <2>2. QED
        BY <1>1, <1>2, <2>1 DEF Kept, Shaped, Reading, Editing, Unwritten, Creating, Updating, Deleting,
           Checking, Importing, Patching, Answering, Patches3, Revising
<1>4. CASE Len(task[c].files) # 1
    <2>1. task'[c].at = "import_exists"
        BY <1>4 DEF Finishes, NextFile
    <2>2. Tail(task[c].files) \in Seq(Slugs) /\ Tail(task[c].files) # <<>>
        BY <1>2, <1>4, TailStays
    <2>3. QED
        BY <1>1, <1>2, <2>1, <2>2 DEF Kept, Shaped, Reading, Editing, Unwritten, Creating, Updating, Deleting,
           Checking, Importing, Patching, Answering, Patches3, Revising
<1>5. QED
    BY <1>3, <1>4

LEMMA TypeStep ==
    ASSUME ContentTypeOK, Numbered, NEW c \in Clients, Effect(c)
    PROVE  ContentTypeOK'
<1>1. CASE Refuses(c)
    BY <1>1 DEF Refuses, Same, SameRest, ContentTypeOK, Shaped
<1>2. CASE Begins(c)
    BY <1>2, BeginTyped, TypedHolds
<1>3. CASE Ends(c) \/ Unrecorded(c) \/ Abandons(c) \/ (Records(c) /\ Leaves(c))
    BY <1>3, LeaveTyped, TypedHolds DEF Ends, Unrecorded, Abandons, Records, Same, SameRest
<1>4. CASE Walks(c) \/ Looks(c)
    BY <1>4, WalkTyped, TypedHolds
<1>5. ASSUME NEW s, Inserts(c, s)
      PROVE  ContentTypeOK'
    <2>1. Alone(c) /\ requests' \in Nat /\ Shaped(task[c])'
        BY <1>5, MoveTyped, RowsInserted DEF Inserts, Targets
    <2>2. QED
        BY <1>5, <2>1, RowsInserted, TypedHolds DEF Typed
<1>6. ASSUME NEW p, NEW row, Rewrites(c, p, row)
      PROVE  ContentTypeOK'
    <2>1. WritesRow(p, row) /\ revisions' = revisions
        BY <1>6 DEF Rewrites
    <2>2. Alone(c) /\ requests' \in Nat /\ Shaped(task[c])'
        BY <1>6, <2>1, MoveTyped, RowsWritten DEF Rewrites, Targets, WritesRow, Looked
    <2>3. QED
        BY <2>1, <2>2, RowsWritten, RevisionsStay, TypedHolds DEF Typed
<1>7. CASE Misses(c) \/ (\E q : Retargets(c, q)) \/ Loses(c) \/ (Records(c) /\ ~Leaves(c))
    <2>1. problems' = problems /\ revisions' = revisions
        BY <1>7 DEF Misses, Retargets, Loses, Records, SameRest
    <2>2. Alone(c) /\ requests' \in Nat /\ Shaped(task[c])'
        BY <1>7, <2>1, MoveTyped DEF Misses, Retargets, Loses, Records, Targets
    <2>3. QED
        BY <2>1, <2>2, RowsStay, RevisionsStay, TypedHolds DEF Typed
<1>8. ASSUME NEW row, Columns(c, row)
      PROVE  ContentTypeOK'
    <2>1. WritesRow(task[c].id, row) /\ revisions' = revisions
        BY <1>8 DEF Columns, SameRest
    <2>2. Alone(c) /\ requests' \in Nat /\ Shaped(task[c])'
        BY <1>8, <2>1, MoveTyped, RowsWritten DEF Columns
    <2>3. QED
        BY <2>1, <2>2, RowsWritten, RevisionsStay, TypedHolds DEF Typed
<1>9. CASE Stores(c)
    <2>1. problems' = problems
        BY <1>9 DEF Stores
    <2>2. Alone(c) /\ requests' \in Nat /\ Shaped(task[c])'
        BY <1>9, <2>1, MoveTyped DEF Stores, Revising
    <2>3. revisions' \in Seq(Revised) /\ Len(revisions') = Len(problems')
        BY <1>9, <2>1, RevisionStored DEF ContentTypeOK
    <2>4. QED
        BY <2>1, <2>2, <2>3, RowsStay, TypedHolds DEF Typed
<1>10. ASSUME NEW p, NEW row, Changes(c, p, row)
       PROVE  ContentTypeOK'
    <2>1. WritesRow(p, row) /\ revisions' = revisions
        BY <1>10 DEF Changes, SameRest
    <2>2. Alone(c) /\ requests' \in Nat /\ Shaped(task[c])'
        BY <1>10, <2>1, MoveTyped, RowsWritten DEF Changes
    <2>3. QED
        BY <2>1, <2>2, RowsWritten, RevisionsStay, TypedHolds DEF Typed
<1>11. ASSUME NEW row, Finishes(c, row)
       PROVE  ContentTypeOK'
    <2>1. (problems' = problems \/ WritesRow(task[c].id, row)) /\ revisions' = revisions
        BY <1>11 DEF Finishes
    <2>2. QED
        BY <1>11, <2>1, FinishTyped, RowsStay, RowsWritten, RevisionsStay, TypedHolds DEF Typed
<1>12. QED
    BY <1>1, <1>2, <1>3, <1>4, <1>5, <1>6, <1>7, <1>8, <1>9, <1>10, <1>11, ZenonT(40) DEF Effect

LEMMA SlugsStep ==
    ASSUME ContentTypeOK, SlugsDiffer, NEW c \in Clients, Effect(c)
    PROVE  SlugsDiffer'
<1>1. ASSUME problems' = problems
      PROVE  SlugsDiffer'
    BY <1>1 DEF SlugsDiffer
<1>2. ASSUME NEW p, NEW row, WritesRow(p, row),
             \A q \in DOMAIN problems : problems[q].slug = row.slug => q = p
      PROVE  SlugsDiffer'
    BY <1>2, RowsWritten DEF SlugsDiffer, WritesRow
<1>3. ASSUME NEW p, NEW row, WritesRow(p, row), row.slug = problems[p].slug
      PROVE  SlugsDiffer'
    BY <1>2, <1>3 DEF SlugsDiffer, WritesRow
<1>4. ASSUME NEW s, Inserts(c, s)
      PROVE  SlugsDiffer'
    <2>1. ~slug_exists(s) /\ Problem(s, task[c].edit).slug = s
        BY <1>4 DEF Inserts, Problem
    <2>2. QED
        BY <1>4, <2>1, RowsInserted DEF SlugsDiffer, slug_exists
<1>5. CASE \/ Refuses(c) \/ Begins(c) \/ Ends(c) \/ Walks(c) \/ Looks(c) \/ Misses(c)
           \/ (\E q : Retargets(c, q)) \/ Stores(c) \/ Loses(c) \/ Records(c) \/ Unrecorded(c)
           \/ Abandons(c)
    <2>1. problems' = problems
        BY <1>5, ZenonT(40) DEF Refuses, Begins, Ends, Walks, Looks, Misses, Retargets, Stores, Loses, Records,
                    Unrecorded, Abandons, Same
    <2>2. QED
        BY <1>1, <2>1
<1>6. ASSUME NEW p, NEW row, Rewrites(c, p, row)
      PROVE  SlugsDiffer'
    BY <1>2, <1>6, ZenonT(40) DEF Rewrites
<1>7. ASSUME NEW p, NEW row, Columns(c, row) \/ Changes(c, p, row) \/ Finishes(c, row)
      PROVE  SlugsDiffer'
    BY <1>1, <1>3, <1>7 DEF Columns, Changes, Finishes
<1>8. QED
    BY <1>4, <1>5, <1>6, <1>7, ZenonT(40) DEF Effect

(***************************************************************************)
(* Open: the thread's edit has neither a revision nor lost one.            *)
(***************************************************************************)
Open == Unwritten \cup Importing \cup Patching

RevisionsFrom(c) ==
    \A p \in DOMAIN revisions' : \A r \in revisions'[p] :
        Stored(r.edit) \/ (task[c].at \in Editing /\ task'[c].at \notin Open /\ r.edit = task[c].edit)

Settles(c) ==
    /\ Alone(c) /\ requests' = requests
    /\ task'[c].at \in Editing => task[c].at \in Editing /\ task'[c].edit = task[c].edit
    /\ task'[c].at \in Open => task[c].at \in Open
    /\ \/ lost' = lost
       \/ lost' = lost \cup {task[c].edit} /\ task[c].at \in Editing /\ task'[c].at \notin Open
    /\ RevisionsFrom(c)

LEMMA SettlesDiffer ==
    ASSUME ContentTypeOK, EditsDiffer, NEW c \in Clients, Settles(c)
    PROVE  EditsDiffer'
<1>1. \A d \in Clients : d # c => task'[d] = task[d]
    BY DEF Settles, Alone
<1>2. \A d \in Clients : task'[d].at \in Editing => task[d].at \in Editing /\ task'[d].edit = task[d].edit
    BY <1>1 DEF Settles
<1>3. \A d \in Clients : task'[d].at \in Open => task[d].at \in Open
    BY <1>1 DEF Settles
<1>4. Open \subseteq Editing
    BY DEF Open, Editing
<1>5. /\ \A d \in Clients : task'[d].at \in Editing => task'[d].edit.no > requests'
      /\ \A d, f \in Clients : d # f /\ task'[d].at \in Editing /\ task'[f].at \in Editing =>
           task'[d].edit.no # task'[f].edit.no
    BY <1>2 DEF EditsDiffer, Settles
<1>6. lost' \subseteq Edits /\ \A e \in lost' : e.no > requests'
    BY ThreadShape DEF EditsDiffer, Settles, Shaped
<1>7. \A p \in DOMAIN revisions' : \A r \in revisions'[p] : r.edit.no > requests'
    BY DEF EditsDiffer, Settles, RevisionsFrom, Stored
<1>8. ASSUME NEW d \in Clients, task'[d].at \in Open
      PROVE  task'[d].edit \notin lost' /\ ~Stored(task[d].edit)'
    <2>1. /\ task[d].at \in Open /\ task[d].at \in Editing /\ task'[d].edit = task[d].edit
          /\ task[d].edit \notin lost /\ ~Stored(task[d].edit)
        BY <1>2, <1>3, <1>4, <1>8 DEF EditsDiffer, Open
    <2>2. task'[c].at \notin Open /\ task[c].at \in Editing => task[d].edit # task[c].edit
        BY <1>8, <2>1 DEF EditsDiffer
    <2>3. QED
        BY <2>1, <2>2 DEF Settles, RevisionsFrom, Stored
<1>9. QED
    BY <1>5, <1>6, <1>7, <1>8 DEF EditsDiffer, Open

LEMMA BeginsDiffer ==
    ASSUME ContentTypeOK, EditsDiffer, NEW c \in Clients, Begins(c)
    PROVE  EditsDiffer'
<1>1. /\ \A d \in Clients : d # c => task'[d] = task[d]
      /\ requests \in Nat /\ requests' = requests - 1 /\ lost' = lost /\ revisions' = revisions
    BY DEF Begins, Alone, Same, SameRest, ContentTypeOK
<1>2. task'[c].at \in Editing => task'[c].edit \in Edits /\ task'[c].edit.no = requests
    BY DEF Begins, Shaped, Editing, Reading, Entrances, Unwritten, Creating, Updating, Deleting,
           Checking, Importing, Patching, Answering
<1>3. Open \subseteq Editing
    BY DEF Open, Editing
<1>4. \A d \in Clients : d # c /\ task[d].at \in Editing => task[d].edit.no > requests /\ task[d].edit \in Edits
    BY ThreadShape DEF EditsDiffer, Shaped
<1>5. \A d \in Clients : task'[d].at \in Editing => task'[d].edit.no > requests'
    BY <1>1, <1>2, <1>4 DEF Edits
<1>6. \A d, f \in Clients : d # f /\ task'[d].at \in Editing /\ task'[f].at \in Editing =>
        task'[d].edit.no # task'[f].edit.no
    BY <1>1, <1>2, <1>4 DEF Edits, EditsDiffer
<1>7. lost' \subseteq Edits /\ \A e \in lost' : e.no > requests' /\ e.no > requests
    BY <1>1 DEF EditsDiffer, Edits
<1>8. \A p \in DOMAIN revisions : \A r \in revisions[p] : r.edit.no \in Nat /\ r.edit.no > requests
    BY DEF EditsDiffer, ContentTypeOK, Edits
<1>9. \A d \in Clients : task'[d].at \in Open => task'[d].edit \notin lost' /\ ~Stored(task[d].edit)'
    <2>1. task'[c].at \in Open => task'[c].edit \notin lost' /\ ~Stored(task[c].edit)'
        BY <1>1, <1>2, <1>3, <1>7, <1>8 DEF Stored
    <2>2. \A d \in Clients : d # c /\ task'[d].at \in Open => task'[d].edit \notin lost' /\ ~Stored(task[d].edit)'
        BY <1>1 DEF EditsDiffer, Open, Stored
    <2>3. QED
        BY <2>1, <2>2
<1>10. \A p \in DOMAIN revisions' : \A r \in revisions'[p] : r.edit.no > requests'
    BY <1>1, <1>8
<1>11. QED
    BY <1>5, <1>6, <1>7, <1>9, <1>10 DEF EditsDiffer, Open

LEMMA EditsStep ==
    ASSUME ContentTypeOK, EditsDiffer, Numbered, NEW c \in Clients, Effect(c)
    PROVE  EditsDiffer'
<1>1. CASE Refuses(c)
    <2>1. task' = task /\ lost' = lost /\ revisions' = revisions /\ requests' = requests - 1
        BY <1>1 DEF Refuses, Same, SameRest
    <2>2. /\ \A d \in Clients : task[d].at \in Editing => task[d].edit.no \in Nat
          /\ \A e \in lost : e.no \in Nat
          /\ \A p \in DOMAIN revisions : \A r \in revisions[p] : r.edit.no \in Nat
          /\ requests \in Nat
        BY ThreadShape DEF EditsDiffer, ContentTypeOK, Edits, Shaped
    <2>3. QED
        BY <2>1, <2>2 DEF EditsDiffer, Stored
<1>2. CASE Begins(c)
    BY <1>2, BeginsDiffer
<1>3. ASSUME revisions' = revisions
      PROVE  RevisionsFrom(c)
    BY <1>3 DEF RevisionsFrom, Stored
<1>4. CASE Ends(c) \/ Unrecorded(c) \/ Abandons(c) \/ (Records(c) /\ Leaves(c))
    <2>1. revisions' = revisions /\ Leaves(c)
        BY <1>4 DEF Ends, Unrecorded, Abandons, Records, Same, SameRest
    <2>2. task'[c].at \notin Editing /\ task'[c].at \notin Open
        BY <2>1 DEF Leaves, Open, Editing, Unwritten, Creating, Updating, Deleting, Checking, Importing,
                    Patching, Answering
    <2>3. \/ lost' = lost
          \/ lost' = lost \cup {task[c].edit} /\ task[c].at \in Editing
        BY <1>4, ZenonT(40) DEF Ends, Unrecorded, Abandons, Records, Same, SameRest, Editing
    <2>4. Settles(c)
        BY <1>3, <2>1, <2>2, <2>3 DEF Settles, Leaves
    <2>5. QED
        BY <2>4, SettlesDiffer
<1>5. ASSUME KeepsEdit(c), lost' = lost, RevisionsFrom(c),
             task'[c].at \in Editing => task[c].at \in Editing,
             task'[c].at \in Open => task[c].at \in Open
      PROVE  EditsDiffer'
    <2>1. task'[c].at \in Editing => task'[c].edit = task[c].edit
        BY <1>5, ThreadShape DEF KeepsEdit, Kept, Shaped
    <2>2. Settles(c)
        BY <1>5, <2>1 DEF Settles, KeepsEdit
    <2>3. QED
        BY <2>2, SettlesDiffer
<1>6. CASE Walks(c) \/ Looks(c)
    <2>1. KeepsEdit(c) /\ lost' = lost /\ revisions' = revisions
        BY <1>6 DEF Walks, Looks, KeepsFiles, Same, SameRest
    <2>2. /\ task'[c].at \in Editing => task[c].at \in Editing
          /\ task'[c].at \in Open => task[c].at \in Open
        BY <1>6 DEF Walks, Looks, WalksIn, Open, Editing, Unwritten, Creating, Updating, Deleting, Checking,
                    Importing, Patching, Answering, Reading
    <2>3. QED
        BY <1>3, <1>5, <2>1, <2>2
<1>7. CASE \/ (\E p, row : Rewrites(c, p, row) \/ Changes(c, p, row))
           \/ Misses(c) \/ (\E q : Retargets(c, q)) \/ (Records(c) /\ ~Leaves(c))
           \/ (\E row : Columns(c, row) \/ Finishes(c, row))
    <2>1. KeepsEdit(c) /\ lost' = lost /\ revisions' = revisions
        BY <1>7, ZenonT(40) DEF Rewrites, Changes, Misses, Retargets, Records, Columns, Finishes, Targets, KeepsFiles,
                    NextFiles, SameRest
    <2>2. /\ task[c].at \in Editing
          /\ task'[c].at \in Open => task[c].at \in Open
        BY <1>7, ZenonT(40) DEF Rewrites, Changes, Misses, Retargets, Records, Columns, Finishes, Open, Editing,
                    Unwritten, Creating, Updating, Deleting, Checking, Importing, Patching, Answering
    <2>3. QED
        BY <1>3, <1>5, <2>1, <2>2
<1>8. ASSUME NEW s, Inserts(c, s)
      PROVE  EditsDiffer'
    <2>1. KeepsEdit(c) /\ lost' = lost /\ task[c].at \in Editing /\ task[c].at \in Open
        BY <1>8 DEF Inserts, Targets, KeepsFiles, Looked, Open, Editing, Unwritten, Creating, Importing
    <2>2. RevisionsFrom(c)
        BY <1>8, RowsInserted DEF RevisionsFrom, Stored, ContentTypeOK
    <2>3. QED
        BY <1>5, <2>1, <2>2, ZenonT(40)
<1>9. CASE Stores(c) \/ Loses(c)
    <2>1. KeepsEdit(c) /\ task[c].at \in Revising /\ task'[c].at = "audit"
        BY <1>9 DEF Stores, Loses, KeepsFiles, Revising
    <2>2. task[c].at \in Editing /\ task'[c].at \notin Open
        BY <2>1 DEF Revising, Open, Editing, Unwritten, Creating, Updating, Deleting, Checking, Importing,
                    Patching
    <2>3. RevisionsFrom(c)
        <3>1. CASE Stores(c)
            BY <3>1, <2>2, RevisionStored DEF RevisionsFrom, Stored
        <3>2. CASE Loses(c)
            BY <3>2, <1>3 DEF Loses
        <3>3. QED
            BY <1>9, <3>1, <3>2
    <2>4. task'[c].edit = task[c].edit
        BY <2>1, <2>2, ThreadShape DEF KeepsEdit, Kept, Shaped
    <2>5. Settles(c)
        BY <1>9, <2>1, <2>2, <2>3, <2>4, ZenonT(40) DEF Settles, Stores, Loses, KeepsEdit
    <2>6. QED
        BY <2>5, SettlesDiffer
<1>10. QED
    BY <1>1, <1>2, <1>4, <1>6, <1>7, <1>8, <1>9, ZenonT(40) DEF Effect

LEMMA StoredNext ==
    ASSUME Counting, ContentTypeOK, Numbered, NEW c \in Clients, Stores(c)
    PROVE  /\ task[c].no = LastRevision(task[c].id) + 1 /\ LastRevision(task[c].id) \in Nat
           /\ IsFiniteSet(revisions'[task[c].id])
           /\ Cardinality(revisions'[task[c].id]) = LastRevision(task[c].id) + 1
           /\ {r.no : r \in revisions'[task[c].id]} = 1 .. LastRevision(task[c].id) + 1
<1> DEFINE p == task[c].id
           n == task[c].no
           new == [no |-> n, edit |-> task[c].edit]
<1>1. task[c].at = "rev_insert" /\ ~\E r \in revisions[p] : r.no = n
    BY DEF Stores
<1>2. p \in DOMAIN revisions /\ revisions'[p] = revisions[p] \cup {new}
    BY RevisionStored
<1>3. /\ IsFiniteSet(revisions[p]) /\ {r.no : r \in revisions[p]} = 1 .. LastRevision(p)
      /\ n \in 1 .. LastRevision(p) + 1
    BY <1>1, <1>2 DEF Numbered
<1>4. LastRevision(p) \in Nat
    BY <1>3 DEF Counting, LastRevision
<1>5. n \notin 1 .. LastRevision(p)
    BY <1>1, <1>3
<1>6. n = LastRevision(p) + 1
    BY <1>3, <1>4, <1>5
<1>7. new \notin revisions[p] /\ new.no = n
    BY <1>1
<1> HIDE DEF new
<1>8. IsFiniteSet(revisions'[p]) /\ Cardinality(revisions'[p]) = LastRevision(p) + 1
    <2>1. \A S, x : IsFiniteSet(S) /\ x \notin S =>
            IsFiniteSet(S \cup {x}) /\ Cardinality(S \cup {x}) = Cardinality(S) + 1
        BY DEF Counting
    <2>2. /\ IsFiniteSet(revisions[p] \cup {new})
          /\ Cardinality(revisions[p] \cup {new}) = Cardinality(revisions[p]) + 1
        BY <1>3, <1>7, <2>1, ZenonT(40)
    <2>3. QED
        BY <1>2, <2>2 DEF LastRevision
<1>9. {r.no : r \in revisions'[p]} = {r.no : r \in revisions[p]} \cup {n}
    BY <1>2, <1>7
<1>10. 1 .. LastRevision(p) + 1 = (1 .. LastRevision(p)) \cup {LastRevision(p) + 1}
    BY <1>4
<1>11. QED
    BY <1>3, <1>4, <1>6, <1>8, <1>9, <1>10, ZenonT(40)

LEMMA NumberedStep ==
    ASSUME Counting, ContentTypeOK, Numbered, NEW c \in Clients, Effect(c)
    PROVE  Numbered'
<1>1. DOMAIN revisions = DOMAIN problems
    BY DEF ContentTypeOK
<1>2. \A d \in Clients : task[d].at = "rev_insert" =>
        /\ task[d].id \in DOMAIN revisions /\ LastRevision(task[d].id) \in Nat
        /\ "no" \in DOMAIN task[d] /\ task[d].no \in 1 .. LastRevision(task[d].id) + 1
    BY <1>1, ThreadShape DEF Counting, Shaped, Patching, Numbered, LastRevision
<1>3. ASSUME revisions' = revisions, Alone(c),
             task'[c].at = "rev_insert" =>
               "no" \in DOMAIN task'[c] /\ task'[c].no \in 1 .. LastRevision(task'[c].id) + 1
      PROVE  Numbered'
    BY <1>3 DEF Alone, Numbered, LastRevision
<1>4. CASE Walks(c)
    <2>1. revisions' = revisions /\ Alone(c)
        BY <1>4 DEF Walks, KeepsFiles, KeepsEdit, Same, SameRest
    <2>2. ASSUME task'[c].at = "rev_insert"
          PROVE  "no" \in DOMAIN task'[c] /\ task'[c].no \in 1 .. LastRevision(task'[c].id) + 1
        <3>1. /\ task[c].at = "rev_max" /\ Kept(c, "id")
              /\ "no" \in DOMAIN task'[c] /\ task'[c].no = LastRevision(task[c].id) + 1
            BY <1>4, <2>2 DEF Walks, WalksIn, Updating, Deleting, Answering, Reading, Checking
        <3>2. task[c].id \in DOMAIN revisions /\ task'[c].id = task[c].id
            BY <1>1, <3>1, ThreadShape DEF Shaped, Patching, Editing, Kept
        <3>3. LastRevision(task[c].id) \in Nat
            BY <3>2 DEF Counting, Numbered, LastRevision
        <3>4. QED
            BY <3>1, <3>2, <3>3
    <2>3. QED
        BY <1>3, <2>1, <2>2
<1>5. CASE \/ Begins(c) \/ Ends(c) \/ Looks(c) \/ Misses(c) \/ (\E q : Retargets(c, q))
           \/ Loses(c) \/ Records(c) \/ Unrecorded(c) \/ Abandons(c)
    <2>1. revisions' = revisions /\ Alone(c)
        BY <1>5, ZenonT(40) DEF Begins, Ends, Looks, Misses, Retargets, Loses, Records, Unrecorded, Abandons, Same,
                    SameRest, Targets, KeepsFiles, KeepsEdit, Leaves
    <2>2. task'[c].at # "rev_insert"
        BY <1>5, ZenonT(40) DEF Begins, Ends, Looks, Misses, Retargets, Loses, Records, Unrecorded, Abandons, Leaves,
                    WalksIn, Importing, Answering, Entrances, Reading
    <2>3. QED
        BY <1>3, <2>1, <2>2
<1>6. CASE \/ (\E p, row : Rewrites(c, p, row) \/ Changes(c, p, row))
           \/ (\E row : Columns(c, row) \/ Finishes(c, row))
    <2>1. revisions' = revisions /\ Alone(c)
        BY <1>6, ZenonT(40) DEF Rewrites, Changes, Columns, Finishes, SameRest, Targets, KeepsFiles, KeepsEdit, NextFiles
    <2>2. task'[c].at # "rev_insert"
        BY <1>6, ZenonT(40) DEF Rewrites, Changes, Columns, Finishes, NextFile
    <2>3. QED
        BY <1>3, <2>1, <2>2
<1>7. CASE Refuses(c)
    BY <1>7 DEF Refuses, Same, SameRest, Numbered, LastRevision
<1>8. ASSUME NEW s, Inserts(c, s)
      PROVE  Numbered'
    <2>1. /\ DOMAIN revisions' = DOMAIN revisions \cup {Len(problems) + 1}
          /\ revisions'[Len(problems) + 1] = {}
          /\ \A q \in DOMAIN revisions : revisions'[q] = revisions[q]
        BY <1>1, <1>8, RowsInserted, ZenonT(40)
    <2>2. Alone(c) /\ task'[c].at # "rev_insert"
        BY <1>8 DEF Inserts, Targets, KeepsFiles, KeepsEdit
    <2>3. IsFiniteSet({}) /\ Cardinality({}) = 0 /\ 1 .. 0 = {}
        BY DEF Counting
    <2>4. \A p \in DOMAIN revisions' :
            /\ IsFiniteSet(revisions'[p])
            /\ {r.no : r \in revisions'[p]} = 1 .. Cardinality(revisions'[p])
        BY <2>1, <2>3, ZenonT(40) DEF Numbered, LastRevision
    <2>5. \A d \in Clients : task'[d].at = "rev_insert" =>
            "no" \in DOMAIN task'[d] /\ task'[d].no \in 1 .. Cardinality(revisions'[task'[d].id]) + 1
        BY <1>2, <2>1, <2>2 DEF Alone, LastRevision
    <2>6. QED
        BY <2>4, <2>5 DEF Numbered, LastRevision
<1>9. CASE Stores(c)
    <2> DEFINE p == task[c].id
    <2>1. Alone(c) /\ task'[c].at # "rev_insert"
        BY <1>9 DEF Stores, KeepsFiles, KeepsEdit
    <2>2. /\ DOMAIN revisions' = DOMAIN revisions
          /\ \A q \in DOMAIN revisions : q # p => revisions'[q] = revisions[q]
        BY <1>9, RevisionStored
    <2>3. /\ LastRevision(p) \in Nat /\ IsFiniteSet(revisions'[p])
          /\ Cardinality(revisions'[p]) = LastRevision(p) + 1
          /\ {r.no : r \in revisions'[p]} = 1 .. LastRevision(p) + 1
        BY <1>9, StoredNext
    <2>4. \A q \in DOMAIN revisions' :
            /\ IsFiniteSet(revisions'[q])
            /\ {r.no : r \in revisions'[q]} = 1 .. Cardinality(revisions'[q])
        BY <2>2, <2>3 DEF Numbered, LastRevision
    <2>5. \A d \in Clients : task'[d].at = "rev_insert" =>
            "no" \in DOMAIN task'[d] /\ task'[d].no \in 1 .. Cardinality(revisions'[task'[d].id]) + 1
        BY <1>2, <2>1, <2>2, <2>3 DEF Alone, LastRevision
    <2>6. QED
        BY <2>4, <2>5 DEF Numbered, LastRevision
<1>10. QED
    BY <1>4, <1>5, <1>6, <1>7, <1>8, <1>9, ZenonT(40) DEF Effect

-----------------------------------------------------------------------------
(***************************************************************************)
(* An import with "skip" is past its look: the slug was not live then.     *)
(***************************************************************************)
SkipLooks ==
    \A c \in Clients : task[c].at \in Looked /\ task[c].policy = "skip" =>
        \/ File(c) \in late
        \/ \A p \in DOMAIN problems : problems[p].slug = File(c) => problems[p].is_deleted

SkipInv == SkipLooks /\ SkipKeepsProblems

Spared(d) ==
    \/ File(d) \in late
    \/ \A p \in DOMAIN problems : problems[p].slug = File(d) => problems[p].is_deleted

LEMMA SkipStep ==
    ASSUME ContentTypeOK, SlugsDiffer, SkipInv, NEW c \in Clients, Effect(c)
    PROVE  SkipInv'
<1>1. \A d \in Clients : task[d].at \in Looked /\ task[d].policy = "skip" => Spared(d)
    BY DEF SkipInv, SkipLooks, Spared
<1>2. ASSUME Alone(c), clobbered' \subseteq late',
             \A d \in Clients : d # c /\ task[d].at \in Looked /\ Spared(d) => Spared(d)',
             task'[c].at \in Looked /\ task'[c].policy = "skip" => Spared(c)'
      PROVE  SkipInv'
    <2>1. \A d \in Clients : task'[d].at \in Looked /\ task'[d].policy = "skip" => Spared(d)'
        BY <1>1, <1>2 DEF Alone
    <2>2. QED
        BY <1>2, <2>1 DEF SkipInv, SkipLooks, Spared, SkipKeepsProblems
<1>3. ASSUME Alone(c), SameSkips, task'[c].at \notin Looked,
             \A p \in DOMAIN problems' :
               /\ p \in DOMAIN problems /\ problems'[p].slug = problems[p].slug
               /\ problems[p].is_deleted => problems'[p].is_deleted
      PROVE  SkipInv'
    <2>1. \A d \in Clients : d # c /\ Spared(d) => Spared(d)'
        BY <1>3 DEF Alone, SameSkips, Spared, File
    <2>2. clobbered' \subseteq late'
        BY <1>3 DEF SkipInv, SkipKeepsProblems, SameSkips
    <2>3. QED
        BY <1>2, <1>3, <2>1, <2>2
<1>4. ASSUME NEW s, Surfaces(c, s), Alone(c),
             \A p \in DOMAIN problems' :
               problems'[p].slug = s \/ (p \in DOMAIN problems /\ problems'[p] = problems[p])
      PROVE  /\ late \subseteq late'
             /\ \A d \in Clients : d # c /\ task[d].at \in Looked /\ Spared(d) => Spared(d)'
    <2>1. late \subseteq late'
        BY <1>4 DEF Surfaces
    <2>2. \A d \in Clients : d # c /\ task[d].at \in Looked /\ File(d) = s => s \in late'
        BY <1>4 DEF Surfaces, Looked, File
    <2>3. \A d \in Clients : d # c => Head(task'[d].files) = File(d)
        BY <1>4 DEF Alone, File
    <2>4. QED
        BY <1>4, <2>1, <2>2, <2>3 DEF Spared, File
<1>5. CASE Looks(c)
    <2>1. Alone(c) /\ SameSkips /\ problems' = problems /\ KeepsFiles(c)
        BY <1>5 DEF Looks, KeepsFiles, KeepsEdit, Same, SameRest
    <2>2. ASSUME task'[c].at \in Looked, task'[c].policy = "skip"
          PROVE  Spared(c)'
        <3>1. task'[c].policy = task[c].policy /\ task'[c].files = task[c].files
            BY <1>5, <2>1, ThreadShape, ZenonT(40) DEF Looks, WalksIn, Shaped, KeepsFiles, KeepsEdit, Kept
        <3>2. Spared(c)
            <4>1. CASE task[c].at \in Looked
                BY <1>1, <2>2, <3>1, <4>1
            <4>2. CASE find_live(File(c)) = NULL
                BY <4>2, Found DEF find_live, SlugsDiffer, Spared, slug_exists
            <4>3. QED
                BY <1>5, <2>2, <3>1, <4>1, <4>2, ZenonT(40) DEF Looks
        <3>3. QED
            BY <2>1, <3>1, <3>2 DEF SameSkips, Spared, File
    <2>3. \A d \in Clients : d # c /\ Spared(d) => Spared(d)'
        BY <2>1 DEF Alone, SameSkips, Spared, File
    <2>4. clobbered' \subseteq late'
        BY <2>1 DEF SkipInv, SkipKeepsProblems, SameSkips
    <2>5. QED
        BY <1>2, <2>1, <2>2, <2>3, <2>4
<1>6. CASE Refuses(c)
    BY <1>6 DEF Refuses, Same, SameRest, SameSkips, SkipInv, SkipLooks, SkipKeepsProblems, File
<1>7. CASE \/ Begins(c) \/ Ends(c) \/ Walks(c) \/ Misses(c) \/ (\E q : Retargets(c, q)) \/ Stores(c)
           \/ Loses(c) \/ Records(c) \/ Unrecorded(c) \/ Abandons(c)
    <2>1. Alone(c) /\ SameSkips /\ problems' = problems
        BY <1>7, ZenonT(40) DEF Begins, Ends, Walks, Misses, Retargets, Stores, Loses, Records, Unrecorded, Abandons,
                    Same, SameRest, Targets, KeepsFiles, KeepsEdit, Leaves
    <2>2. task'[c].at \notin Looked
        BY <1>7, ZenonT(40) DEF Begins, Ends, Walks, Misses, Retargets, Stores, Loses, Records, Unrecorded, Abandons,
                    Leaves, WalksIn, Looked, Answering, Entrances, Reading, Updating, Deleting, Checking
    <2>3. QED
        BY <1>3, <2>1, <2>2
<1>8. ASSUME NEW p, NEW row, Columns(c, row) \/ Changes(c, p, row) \/ Finishes(c, row)
      PROVE  SkipInv'
    <2>1. Alone(c) /\ SameSkips
        BY <1>8, ZenonT(40) DEF Columns, Changes, Finishes, SameRest, KeepsFiles, KeepsEdit, NextFiles
    <2>2. task'[c].at \notin Looked
        BY <1>8, ZenonT(40) DEF Columns, Changes, Finishes, Looked, NextFile
    <2>3. \/ problems' = problems
          \/ \E q : /\ WritesRow(q, row)
                    /\ row.slug = problems[q].slug /\ (problems[q].is_deleted => row.is_deleted)
        BY <1>8, ZenonT(40) DEF Columns, Changes, Finishes
    <2>4. \A q \in DOMAIN problems' :
            /\ q \in DOMAIN problems /\ problems'[q].slug = problems[q].slug
            /\ problems[q].is_deleted => problems'[q].is_deleted
        BY <2>3, RowsWritten
    <2>5. QED
        BY <1>3, <2>1, <2>2, <2>4
<1>9. ASSUME NEW s, Inserts(c, s)
      PROVE  SkipInv'
    <2>1. Alone(c) /\ Surfaces(c, s) /\ clobbered' = clobbered /\ task'[c].at \notin Looked
        BY <1>9 DEF Inserts, Targets, KeepsFiles, KeepsEdit, Looked
    <2>2. \A p \in DOMAIN problems' :
            problems'[p].slug = s \/ (p \in DOMAIN problems /\ problems'[p] = problems[p])
        <3>1. Problem(s, task[c].edit).slug = s
            BY DEF Problem
        <3>2. QED
            BY <1>9, <3>1, RowsInserted
    <2>3. QED
        BY <1>2, <1>4, <2>1, <2>2 DEF SkipInv, SkipKeepsProblems
<1>10. ASSUME NEW p, NEW row, Rewrites(c, p, row)
       PROVE  SkipInv'
    <2>1. Alone(c) /\ Surfaces(c, row.slug) /\ WritesRow(p, row) /\ task'[c].at \notin Looked
        BY <1>10 DEF Rewrites, Targets, KeepsFiles, KeepsEdit, Looked
    <2>2. /\ late \subseteq late'
          /\ \A d \in Clients : d # c /\ task[d].at \in Looked /\ Spared(d) => Spared(d)'
        BY <1>4, <2>1, RowsWritten
    <2>3. \/ clobbered' = clobbered
          \/ clobbered' = clobbered \cup {File(c)} /\ File(c) \in late
        BY <1>1, <1>10 DEF Rewrites, WritesRow, Looked, Spared
    <2>4. QED
        BY <1>2, <2>1, <2>2, <2>3 DEF SkipInv, SkipKeepsProblems
<1>11. QED
    BY <1>5, <1>6, <1>7, <1>8, <1>9, <1>10, ZenonT(40) DEF Effect

-----------------------------------------------------------------------------
(***************************************************************************)
(* A creation or an update is under way, lost or stored once.              *)
(***************************************************************************)
Underway(e) == \E c \in Clients : task[c].at \in Patching /\ task[c].edit = e

StoredOnce ==
    /\ \A p, q \in DOMAIN revisions : \A r \in revisions[p], s \in revisions[q] :
         r.edit = s.edit => p = q /\ r = s
    /\ \A e \in lost : ~Stored(e)
    /\ acts \in Seq(Edits)
    /\ \A e \in Range(acts) : e.action \in {"problem.create", "problem.update"} =>
         Underway(e) \/ e \in lost \/ Stored(e)

(***************************************************************************)
Writing == {"problem.create", "problem.update"}

Accounted(e) == Underway(e) \/ e \in lost \/ Stored(e)

LEMMA RangeAppends ==
    ASSUME NEW S, NEW f \in Seq(S), NEW x \in S
    PROVE  /\ Append(f, x) \in Seq(S)
           /\ \A e \in Range(Append(f, x)) : e \in Range(f) \/ e = x
<1>1. /\ Append(f, x) \in Seq(S) /\ DOMAIN Append(f, x) = DOMAIN f \cup {Len(f) + 1}
      /\ Append(f, x)[Len(f) + 1] = x /\ \A k \in DOMAIN f : Append(f, x)[k] = f[k]
    OBVIOUS
<1>2. QED
    BY <1>1 DEF Range

LEMMA ActsStay ==
    ASSUME ContentTypeOK, StoredOnce, NEW c \in Clients, Alone(c), lost \subseteq lost',
           \A e : Stored(e) => Stored(e)',
           task[c].at \in Patching =>
             \/ task'[c].at \in Patching /\ task'[c].edit = task[c].edit
             \/ Imports(c) \/ task[c].edit \in lost'
             \/ \E p \in DOMAIN revisions' : \E r \in revisions'[p] : r.edit = task[c].edit,
           \/ acts' = acts
           \/ /\ acts' = Append(acts, task[c].edit) /\ task[c].at \in Editing
              /\ task[c].edit.action \in Writing =>
                   task'[c].at \in Patching /\ task'[c].edit = task[c].edit
    PROVE  /\ acts' \in Seq(Edits)
           /\ \A e \in Range(acts') : e.action \in Writing => Accounted(e)'
<1>1. task[c].at \in Editing => task[c].edit \in Edits
    BY ThreadShape DEF Shaped
<1>2. acts \in Seq(Edits) /\ \A e \in Range(acts) : e.action \in Writing => Accounted(e)
    BY DEF StoredOnce, Accounted, Writing
<1>3. acts' \in Seq(Edits) /\ \A e \in Range(acts') : e \in Range(acts) \/ (e = task[c].edit /\ acts' # acts)
    <2>1. CASE acts' = acts
        BY <1>2, <2>1
    <2>2. CASE acts' = Append(acts, task[c].edit) /\ acts' # acts
        BY <1>1, <1>2, <2>2, RangeAppends
    <2>3. QED
        BY <2>1, <2>2
<1>4. ASSUME NEW e, e.action \in Writing, Accounted(e)
      PROVE  Accounted(e)'
    <2>1. CASE e \in lost \/ Stored(e)
        BY <2>1 DEF Accounted
    <2>2. ASSUME NEW d \in Clients, task[d].at \in Patching, task[d].edit = e
          PROVE  Accounted(e)'
        <3>1. CASE d # c
            BY <2>2, <3>1 DEF Alone, Accounted, Underway
        <3>2. CASE d = c
            <4>1. ~Imports(c)
                BY <1>4, <2>2, <3>2 DEF Imports, Writing
            <4>2. CASE task'[c].at \in Patching /\ task'[c].edit = task[c].edit
                BY <2>2, <3>2, <4>2 DEF Accounted, Underway
            <4>3. CASE task[c].edit \in lost'
                BY <2>2, <3>2, <4>3 DEF Accounted
            <4>4. CASE \E p \in DOMAIN revisions' : \E r \in revisions'[p] : r.edit = task[c].edit
                BY <2>2, <3>2, <4>4 DEF Accounted, Stored
            <4>5. QED
                BY <2>2, <3>2, <4>1, <4>2, <4>3, <4>4
        <3>3. QED
            BY <3>1, <3>2
    <2>3. QED
        BY <1>4, <2>1, <2>2 DEF Accounted, Underway
<1>5. acts' # acts /\ task[c].edit.action \in Writing =>
        \E d \in Clients : task'[d].at \in Patching /\ task'[d].edit = task[c].edit
    OBVIOUS
<1>6. QED
    BY <1>2, <1>3, <1>4, <1>5 DEF Accounted, Underway

LEMMA StoredStep ==
    ASSUME ContentInv, StoredOnce, NEW c \in Clients, Effect(c)
    PROVE  StoredOnce'
<1>1. ContentTypeOK /\ EditsDiffer /\ Numbered
    BY DEF ContentInv
<1>2. task[c].at \in Patching =>
        task[c].edit \in Edits /\ task[c].edit \notin lost /\ ~Stored(task[c].edit) /\ task[c].at \in Editing
    BY <1>1, ThreadShape DEF EditsDiffer, Editing, Shaped
<1>3. ASSUME Alone(c), revisions' = revisions,
             \/ lost' = lost
             \/ lost' = lost \cup {task[c].edit} /\ task[c].at \in Patching,
             task[c].at \in Patching =>
               \/ task'[c].at \in Patching /\ task'[c].edit = task[c].edit
               \/ Imports(c) \/ task[c].edit \in lost',
             \/ acts' = acts
             \/ /\ acts' = Append(acts, task[c].edit) /\ task[c].at \in Editing
                /\ task[c].edit.action \in Writing =>
                     task'[c].at \in Patching /\ task'[c].edit = task[c].edit
      PROVE  StoredOnce'
    <2>1. lost \subseteq lost' /\ \A e : Stored(e)' = Stored(e)
        BY <1>3 DEF Stored
    <2>2. /\ acts' \in Seq(Edits)
          /\ \A e \in Range(acts') : e.action \in Writing => Accounted(e)'
        BY <1>1, <1>3, <2>1, ActsStay
    <2>3. \A e \in lost' : ~Stored(e)'
        BY <1>2, <1>3, <2>1 DEF StoredOnce
    <2>4. \A p, q \in DOMAIN revisions' : \A r \in revisions'[p], s \in revisions'[q] :
            r.edit = s.edit => p = q /\ r = s
        BY <1>3 DEF StoredOnce
    <2>5. QED
        BY <2>2, <2>3, <2>4 DEF StoredOnce, Accounted, Writing
<1>4. CASE Refuses(c)
    BY <1>4 DEF Refuses, Same, SameAudit, SameRest, StoredOnce, Stored, Underway
<1>5. CASE Begins(c) \/ Ends(c) \/ Looks(c) \/ Records(c) \/ Unrecorded(c)
    <2>1. Alone(c) /\ revisions' = revisions /\ lost' = lost /\ acts' = acts
        BY <1>5, ZenonT(40) DEF Begins, Ends, Looks, Records, Unrecorded, Same, SameAudit, SameRest, KeepsFiles, KeepsEdit,
                    Leaves
    <2>2. task[c].at \notin Patching
        BY <1>5 DEF Begins, Ends, Looks, Records, Unrecorded, WalksIn, Importing, Patching
    <2>3. QED
        BY <1>3, <2>1, <2>2
<1>6. ASSUME KeepsEdit(c), task[c].at \in Editing
      PROVE  task'[c].edit = task[c].edit
    BY <1>1, <1>6, ThreadShape, ZenonT(40) DEF KeepsEdit, Kept, Shaped
<1>7. CASE Walks(c)
    <2>1. Alone(c) /\ revisions' = revisions /\ lost' = lost /\ acts' = acts /\ KeepsEdit(c)
        BY <1>7, ZenonT(40) DEF Walks, Same, SameAudit, SameRest, KeepsFiles, KeepsEdit
    <2>2. task[c].at \in Patching => task'[c].at \in Patching
        BY <1>7 DEF Walks, WalksIn, Patching, Updating, Deleting, Answering, Reading, Checking
    <2>3. QED
        BY <1>2, <1>3, <1>6, <2>1, <2>2, ZenonT(40)
<1>8. CASE Misses(c) \/ (\E q : Retargets(c, q)) \/ (\E row : Columns(c, row)) \/ (\E p, row : Rewrites(c, p, row))
    <2>1. revisions' = revisions /\ lost' = lost /\ KeepsEdit(c)
        BY <1>8, ZenonT(40) DEF Misses, Retargets, Columns, Rewrites, Targets, KeepsFiles, SameRest
    <2>2. acts' = acts \/ acts' = Append(acts, task[c].edit)
        BY <1>8, ZenonT(40) DEF Misses, Retargets, Columns, Rewrites, SameAudit
    <2>3. task[c].at \in Editing /\ task'[c].at \in Patching
        BY <1>8, ZenonT(40) DEF Misses, Retargets, Columns, Rewrites, Editing, Unwritten, Updating, Importing, Patching
    <2>4. QED
        BY <1>3, <1>6, <2>1, <2>2, <2>3 DEF KeepsEdit
<1>9. CASE (\E p, row : Changes(c, p, row)) \/ (\E row : Finishes(c, row))
    <2>1. Alone(c) /\ revisions' = revisions /\ lost' = lost
        BY <1>9, ZenonT(40) DEF Changes, Finishes, SameRest, KeepsFiles, NextFiles, KeepsEdit
    <2>2. acts' = acts \/ acts' = Append(acts, task[c].edit)
        BY <1>9, ZenonT(40) DEF Changes, Finishes
    <2>3. task[c].at \in Editing /\ (task[c].at \in Patching => Imports(c))
        BY <1>9, ZenonT(40) DEF Changes, Finishes, Editing, Unwritten, Deleting, Checking, Patching
    <2>4. task[c].edit.action \notin Writing
        BY <1>1, <1>9, ThreadShape, ZenonT(40) DEF Changes, Finishes, Imports, Shaped, Deleting, Checking, Writing
    <2>5. QED
        BY <1>3, <2>1, <2>2, <2>3, <2>4, ZenonT(40)
<1>10. CASE Loses(c) \/ Abandons(c)
    <2>1. /\ Alone(c) /\ revisions' = revisions /\ lost' = lost \cup {task[c].edit} /\ acts' = acts
          /\ task[c].at \in Patching
        BY <1>10, ZenonT(40) DEF Loses, Abandons, KeepsFiles, KeepsEdit, Leaves, SameAudit, Revising, Patching
    <2>2. QED
        BY <1>3, <2>1, ZenonT(40)
<1>11. ASSUME NEW s, Inserts(c, s)
       PROVE  StoredOnce'
    <2>1. KeepsEdit(c) /\ Alone(c) /\ lost' = lost
        BY <1>11 DEF Inserts, Targets, KeepsFiles, KeepsEdit
    <2>2. /\ task[c].at \in Editing /\ task[c].at \notin Patching /\ task'[c].at \in Patching
          /\ acts' = acts \/ acts' = Append(acts, task[c].edit)
        BY <1>11 DEF Inserts, Editing, Looked, Unwritten, Creating, Importing, Patching
    <2>3. /\ DOMAIN revisions' = DOMAIN revisions \cup {Len(problems) + 1}
          /\ revisions'[Len(problems) + 1] = {}
          /\ \A q \in DOMAIN revisions : revisions'[q] = revisions[q]
        <3>1. DOMAIN revisions = DOMAIN problems
            BY <1>1 DEF ContentTypeOK
        <3>2. QED
            BY <1>1, <1>11, <3>1, RowsInserted, ZenonT(40)
    <2>4. \A e : Stored(e)' = Stored(e)
        BY <2>3 DEF Stored
    <2>5. /\ acts' \in Seq(Edits)
          /\ \A e \in Range(acts') : e.action \in Writing => Accounted(e)'
        BY <1>1, <1>6, <2>1, <2>2, <2>4, ActsStay
    <2>6. \A p, q \in DOMAIN revisions' : \A r \in revisions'[p], t \in revisions'[q] :
            r.edit = t.edit => p = q /\ r = t
        BY <2>3 DEF StoredOnce
    <2>7. QED
        BY <2>1, <2>4, <2>5, <2>6, ZenonT(40) DEF StoredOnce, Accounted, Writing
<1>12. CASE Stores(c)
    <2> DEFINE p == task[c].id
               new == [no |-> task[c].no, edit |-> task[c].edit]
    <2>1. Alone(c) /\ lost' = lost /\ acts' = acts /\ task[c].at \in Patching
        BY <1>12 DEF Stores, KeepsFiles, KeepsEdit, SameAudit, Patching
    <2>2. /\ DOMAIN revisions' = DOMAIN revisions /\ p \in DOMAIN revisions
          /\ revisions'[p] = revisions[p] \cup {new}
          /\ \A q \in DOMAIN revisions : q # p => revisions'[q] = revisions[q]
        BY <1>1, <1>12, RevisionStored
    <2>3. new.edit = task[c].edit
        OBVIOUS
    <2> HIDE DEF p, new
    <2>4. \A e : Stored(e)' <=> (Stored(e) \/ e = task[c].edit)
        BY <2>2, <2>3 DEF Stored
    <2>5. \E q \in DOMAIN revisions' : \E r \in revisions'[q] : r.edit = task[c].edit
        BY <2>2, <2>3
    <2>6. /\ acts' \in Seq(Edits)
          /\ \A e \in Range(acts') : e.action \in Writing => Accounted(e)'
        BY <1>1, <2>1, <2>4, <2>5, ActsStay
    <2>7. \A q, t \in DOMAIN revisions' : \A r \in revisions'[q], s \in revisions'[t] :
            r.edit = s.edit => q = t /\ r = s
        BY <1>2, <2>1, <2>2, <2>3 DEF StoredOnce, Stored
    <2>8. \A e \in lost' : ~Stored(e)'
        BY <1>2, <2>1, <2>4 DEF StoredOnce
    <2>9. QED
        BY <2>6, <2>7, <2>8 DEF StoredOnce, Accounted, Writing
<1>13. QED
    BY <1>4, <1>5, <1>7, <1>8, <1>9, <1>10, <1>11, <1>12, ZenonT(40) DEF Effect

-----------------------------------------------------------------------------
(***************************************************************************)
(* An audit entry is owed by the thread whose work is done.                *)
(***************************************************************************)
Owes(c) ==
    task[c].at = "audit" \/ (task[c].at \in Patching /\ ~Imports(c))

Owing(e) == {c \in Clients : Owes(c) /\ task[c].edit = e}

AuditInv ==
    /\ audit_logs \in Seq(Edits) /\ acts \in Seq(Edits) /\ unaudited \in Seq(Edits)
    /\ \A e \in Edits :
         Times(e, acts) = Times(e, audit_logs) + Times(e, unaudited) + Cardinality(Owing(e))

LEMMA TimesAppends ==
    ASSUME Counting, NEW S, NEW f \in Seq(S), NEW x \in S, NEW e
    PROVE  /\ Times(e, f) \in Nat
           /\ Append(f, x) \in Seq(S)
           /\ Times(e, Append(f, x)) = Times(e, f) + (IF e = x THEN 1 ELSE 0)
<1> DEFINE K == {k \in DOMAIN f : f[k] = e}
           n == Len(f) + 1
<1>1. /\ Append(f, x) \in Seq(S) /\ DOMAIN Append(f, x) = DOMAIN f \cup {n} /\ n \notin DOMAIN f
      /\ Append(f, x)[n] = x /\ \A k \in DOMAIN f : Append(f, x)[k] = f[k]
    OBVIOUS
<1>2. DOMAIN f = 1 .. Len(f) /\ Len(f) \in Nat
    OBVIOUS
<1>3. IsFiniteSet(K)
    <2>1. IsFiniteSet(DOMAIN f)
        BY <1>2 DEF Counting
    <2>2. QED
        BY <2>1, ZenonT(40) DEF Counting
<1>4. Times(e, f) = Cardinality(K) /\ Cardinality(K) \in Nat
    BY <1>3 DEF Counting, Times
<1>5. CASE e = x
    <2>1. {k \in DOMAIN Append(f, x) : Append(f, x)[k] = e} = K \cup {n} /\ n \notin K
        BY <1>1, <1>5
    <2> HIDE DEF K, n
    <2>2. Cardinality(K \cup {n}) = Cardinality(K) + 1
        BY <1>3, <2>1, ZenonT(40) DEF Counting
    <2>3. QED
        BY <1>1, <1>4, <1>5, <2>1, <2>2, ZenonT(40) DEF Times
<1>6. CASE e # x
    <2>1. {k \in DOMAIN Append(f, x) : Append(f, x)[k] = e} = K
        BY <1>1, <1>6
    <2> HIDE DEF K, n
    <2>2. Times(e, Append(f, x)) = Cardinality(K)
        BY <2>1, ZenonT(40) DEF Times
    <2>3. QED
        BY <1>1, <1>4, <1>6, <2>2
<1>7. QED
    BY <1>5, <1>6

LEMMA OwingFinite ==
    ASSUME Counting, NEW e
    PROVE  IsFiniteSet(Owing(e)) /\ Cardinality(Owing(e)) \in Nat
<1>1. Owing(e) \subseteq Clients /\ IsFiniteSet(Clients)
    BY RequestsAssumption DEF Owing
<1>2. QED
    BY <1>1 DEF Counting

LEMMA OwesSame ==
    ASSUME AuditInv, NEW c \in Clients, Alone(c), SameAudit,
           Owes(c)' <=> Owes(c), Owes(c) => task'[c].edit = task[c].edit
    PROVE  AuditInv'
<1>1. \A d \in Clients : (Owes(d)' <=> Owes(d)) /\ (Owes(d) => task'[d].edit = task[d].edit)
    BY DEF Alone, Owes, Imports
<1>2. \A e : Owing(e)' = Owing(e)
    BY <1>1 DEF Owing
<1>3. QED
    BY <1>2 DEF AuditInv, SameAudit, Times

LEMMA OwesFirst ==
    ASSUME Counting, AuditInv, NEW c \in Clients, Alone(c), ~Owes(c), Owes(c)', task'[c].edit = task[c].edit,
           task[c].edit \in Edits,
           acts' = Append(acts, task[c].edit), audit_logs' = audit_logs, unaudited' = unaudited
    PROVE  AuditInv'
<1>1. \A d \in Clients : d # c => (Owes(d)' <=> Owes(d)) /\ task'[d].edit = task[d].edit
    BY DEF Alone, Owes, Imports
<1>2. acts' \in Seq(Edits) /\ \A e \in Edits : Times(e, acts') = Times(e, acts) + (IF e = task[c].edit THEN 1 ELSE 0)
    <2>1. acts \in Seq(Edits)
        BY DEF AuditInv
    <2>2. /\ Append(acts, task[c].edit) \in Seq(Edits)
          /\ \A e : Times(e, Append(acts, task[c].edit)) = Times(e, acts) + (IF e = task[c].edit THEN 1 ELSE 0)
        BY <2>1, TimesAppends
    <2>3. QED
        BY <2>2
<1>3. ASSUME NEW e \in Edits
      PROVE  Cardinality(Owing(e)') = Cardinality(Owing(e)) + (IF e = task[c].edit THEN 1 ELSE 0)
    <2>1. CASE e = task[c].edit
        <3>1. Owing(e)' = Owing(e) \cup {c} /\ c \notin Owing(e)
            BY <1>1, <2>1 DEF Owing
        <3>2. Cardinality(Owing(e) \cup {c}) = Cardinality(Owing(e)) + 1
            BY <3>1, OwingFinite, ZenonT(40) DEF Counting
        <3>3. QED
            BY <2>1, <3>1, <3>2
    <2>2. CASE e # task[c].edit
        <3>1. Owing(e)' = Owing(e)
            BY <1>1, <2>2 DEF Owing
        <3>2. QED
            BY <2>2, <3>1, OwingFinite
    <2>3. QED
        BY <2>1, <2>2
<1>4. ASSUME NEW e \in Edits
      PROVE  Times(e, acts') = Times(e, audit_logs) + Times(e, unaudited) + Cardinality(Owing(e)')
    <2>1. Times(e, audit_logs) \in Nat /\ Times(e, unaudited) \in Nat
        BY TimesAppends, ZenonT(40) DEF AuditInv
    <2>2. Times(e, acts) = Times(e, audit_logs) + Times(e, unaudited) + Cardinality(Owing(e))
        BY DEF AuditInv
    <2>3. /\ Times(e, acts') = Times(e, acts) + (IF e = task[c].edit THEN 1 ELSE 0)
          /\ Cardinality(Owing(e)') = Cardinality(Owing(e)) + (IF e = task[c].edit THEN 1 ELSE 0)
        BY <1>2, <1>3, ZenonT(40)
    <2>4. Cardinality(Owing(e)) \in Nat
        BY OwingFinite, ZenonT(40) DEF Counting
    <2>5. QED
        BY <2>1, <2>2, <2>3, <2>4
<1>5. QED
    BY <1>2, <1>4 DEF AuditInv

LEMMA OwesNoMore ==
    ASSUME Counting, AuditInv, NEW c \in Clients, Alone(c), Owes(c), ~Owes(c)', task[c].edit \in Edits, acts' = acts,
           \/ audit_logs' = Append(audit_logs, task[c].edit) /\ unaudited' = unaudited
           \/ unaudited' = Append(unaudited, task[c].edit) /\ audit_logs' = audit_logs
    PROVE  AuditInv'
<1>1. \A d \in Clients : d # c => (Owes(d)' <=> Owes(d)) /\ task'[d].edit = task[d].edit
    BY DEF Alone, Owes, Imports
<1>2. \A e : Times(e, audit_logs) \in Nat /\ Times(e, unaudited) \in Nat
    BY TimesAppends DEF AuditInv
<1>3. /\ audit_logs' \in Seq(Edits) /\ unaudited' \in Seq(Edits)
      /\ \A e : Times(e, audit_logs') + Times(e, unaudited') =
                  Times(e, audit_logs) + Times(e, unaudited) + (IF e = task[c].edit THEN 1 ELSE 0)
    <2>1. audit_logs \in Seq(Edits) /\ unaudited \in Seq(Edits)
        BY DEF AuditInv
    <2>2. /\ Append(audit_logs, task[c].edit) \in Seq(Edits)
          /\ \A e : Times(e, Append(audit_logs, task[c].edit)) =
                      Times(e, audit_logs) + (IF e = task[c].edit THEN 1 ELSE 0)
        BY <2>1, TimesAppends
    <2>3. /\ Append(unaudited, task[c].edit) \in Seq(Edits)
          /\ \A e : Times(e, Append(unaudited, task[c].edit)) =
                      Times(e, unaudited) + (IF e = task[c].edit THEN 1 ELSE 0)
        BY <2>1, TimesAppends
    <2>4. CASE audit_logs' = Append(audit_logs, task[c].edit) /\ unaudited' = unaudited
        BY <1>2, <2>1, <2>2, <2>4
    <2>5. CASE unaudited' = Append(unaudited, task[c].edit) /\ audit_logs' = audit_logs
        BY <1>2, <2>1, <2>3, <2>5
    <2>6. QED
        BY <2>4, <2>5
<1>4. ASSUME NEW e \in Edits
      PROVE  Cardinality(Owing(e)) = Cardinality(Owing(e)') + (IF e = task[c].edit THEN 1 ELSE 0)
    <2>1. CASE e = task[c].edit
        <3>1. Owing(e)' = Owing(e) \ {c} /\ c \in Owing(e)
            BY <1>1, <2>1 DEF Owing
        <3>2. Cardinality(Owing(e) \ {c}) = Cardinality(Owing(e)) - 1
            BY <3>1, OwingFinite DEF Counting
        <3>3. QED
            BY <2>1, <3>1, <3>2, OwingFinite
    <2>2. CASE e # task[c].edit
        <3>1. Owing(e)' = Owing(e)
            BY <1>1, <2>2 DEF Owing
        <3>2. QED
            BY <2>2, <3>1, OwingFinite
    <2>3. QED
        BY <2>1, <2>2
<1>5. ASSUME NEW e \in Edits
      PROVE  Times(e, acts') = Times(e, audit_logs') + Times(e, unaudited') + Cardinality(Owing(e)')
    <2>1. Times(e, acts) = Times(e, audit_logs) + Times(e, unaudited) + Cardinality(Owing(e))
        BY DEF AuditInv
    <2>2. Cardinality(Owing(e)') \in Nat
        <3>1. Owing(e)' \subseteq Owing(e)
            BY <1>1 DEF Owing
        <3>2. QED
            BY <3>1, OwingFinite DEF Counting
    <2>3. QED
        BY <1>2, <1>3, <1>4, <2>1, <2>2
<1>6. QED
    BY <1>3, <1>5 DEF AuditInv

LEMMA AuditStep ==
    ASSUME Counting, ContentTypeOK, AuditInv, NEW c \in Clients, Effect(c)
    PROVE  AuditInv'
<1>1. /\ task[c].at \in Editing => task[c].edit \in Edits
      /\ task[c].at \in Editing /\ KeepsEdit(c) => task'[c].edit = task[c].edit
    BY ThreadShape DEF Shaped, KeepsEdit, Kept
<1>2. CASE Refuses(c)
    <2>1. task' = task /\ SameAudit
        BY <1>2 DEF Refuses, Same
    <2>2. Alone(c) /\ (Owes(c)' <=> Owes(c))
        BY <2>1 DEF ContentTypeOK, Alone, Owes, Imports
    <2>3. QED
        BY <2>1, <2>2, OwesSame
<1>3. CASE Begins(c) \/ Ends(c) \/ Looks(c)
    <2>1. Alone(c) /\ SameAudit
        BY <1>3 DEF Begins, Ends, Looks, Leaves, KeepsFiles, KeepsEdit, Same
    <2>2. ~Owes(c) /\ ~Owes(c)'
        BY <1>3 DEF Begins, Ends, Looks, Leaves, Owes, WalksIn, Importing, Entrances, Reading, Patching
    <2>3. QED
        BY <2>1, <2>2, OwesSame
<1>4. CASE Walks(c)
    <2>1. Alone(c) /\ SameAudit /\ KeepsEdit(c)
        BY <1>4, ZenonT(40) DEF Walks, KeepsFiles, KeepsEdit, Same
    <2>2. \/ task[c].at \in Patching /\ task'[c].at \in Patching /\ task[c].at \in Editing
          \/ task[c].at \notin Patching \cup {"audit"} /\ task'[c].at \notin Patching \cup {"audit"}
        BY <1>4 DEF Walks, WalksIn, Patching, Editing, Updating, Deleting, Answering, Reading, Checking
    <2>3. (Owes(c)' <=> Owes(c)) /\ (Owes(c) => task'[c].edit = task[c].edit)
        BY <1>1, <2>1, <2>2, ZenonT(40) DEF Owes, Imports, Patching
    <2>4. QED
        BY <2>1, <2>3, OwesSame
<1>5. ASSUME KeepsEdit(c), SameAudit, task[c].at \in Patching, task'[c].at \in Patching
      PROVE  AuditInv'
    <2>1. task'[c].edit = task[c].edit /\ Alone(c)
        BY <1>1, <1>5 DEF Editing, KeepsEdit
    <2>2. Owes(c)' <=> Owes(c)
        BY <1>5, <2>1 DEF Owes, Imports, Patching
    <2>3. QED
        BY <1>5, <2>1, <2>2, OwesSame
<1>6. CASE (\E q : Retargets(c, q)) \/ (\E row : Columns(c, row))
    <2>1. KeepsEdit(c) /\ SameAudit /\ task[c].at \in Patching /\ task'[c].at \in Patching
        BY <1>6, ZenonT(40) DEF Retargets, Columns, Targets, KeepsFiles, Patching
    <2>2. QED
        BY <1>5, <2>1
<1>7. CASE Stores(c) \/ Loses(c)
    <2>1. Alone(c) /\ SameAudit /\ KeepsEdit(c) /\ task[c].at \in Revising /\ task'[c].at = "audit"
        BY <1>7, ZenonT(40) DEF Stores, Loses, KeepsFiles, KeepsEdit, Revising
    <2>2. task[c].at \in Editing /\ task[c].at \in Patching
        BY <2>1 DEF Editing, Patching, Revising
    <2>3. task[c].edit.action # "problem.bulk_import"
        BY <2>1, ThreadShape, ZenonT(40) DEF Shaped
    <2>4. Owes(c) /\ Owes(c)'
        BY <2>1, <2>2, <2>3 DEF Owes, Imports
    <2>5. QED
        BY <1>1, <2>1, <2>2, <2>4, OwesSame, ZenonT(40)
<1>8. ASSUME KeepsEdit(c), task[c].at \in Editing, ~Owes(c), Owes(c)',
             acts' = Append(acts, task[c].edit), audit_logs' = audit_logs, unaudited' = unaudited
      PROVE  AuditInv'
    BY <1>1, <1>8, OwesFirst DEF KeepsEdit
<1>9. ASSUME KeepsEdit(c), SameAudit, task[c].at \in Editing, ~Owes(c), ~Owes(c)'
      PROVE  AuditInv'
    BY <1>9, OwesSame DEF KeepsEdit
<1>10. ASSUME NEW s, Inserts(c, s)
       PROVE  AuditInv'
    <2>1. KeepsEdit(c) /\ audit_logs' = audit_logs /\ unaudited' = unaudited
        BY <1>10 DEF Inserts, Targets, KeepsFiles
    <2>2. CASE task[c].at = "create" /\ task'[c].at = "patch_tags" /\ acts' = Append(acts, task[c].edit)
        <3>1. task[c].at \in Editing /\ task[c].edit.action = "problem.create"
            BY <2>2, ThreadShape DEF Shaped, Creating, Editing, Unwritten
        <3>2. ~Owes(c) /\ Owes(c)'
            BY <1>1, <2>1, <2>2, <3>1 DEF Owes, Imports, Patching
        <3>3. QED
            BY <1>8, <2>1, <2>2, <3>1, <3>2
    <2>3. CASE task[c].at \in Looked /\ task'[c].at \in {"import_id", "patch_tags"} /\ acts' = acts
        <3>1. task[c].at \in Editing /\ task[c].edit.action = "problem.bulk_import"
            BY <2>3, ThreadShape, ZenonT(40) DEF Shaped, Importing, Editing, Looked
        <3>2. ~Owes(c) /\ ~Owes(c)'
            BY <1>1, <2>1, <2>3, <3>1 DEF Owes, Imports, Looked, Patching
        <3>3. QED
            BY <1>9, <2>1, <2>3, <3>1, <3>2 DEF SameAudit
    <2>4. QED
        BY <1>10, <2>2, <2>3 DEF Inserts
<1>11. CASE Misses(c) \/ \E p, row : Rewrites(c, p, row)
    <2>1. KeepsEdit(c) /\ audit_logs' = audit_logs /\ unaudited' = unaudited
        BY <1>11, ZenonT(40) DEF Misses, Rewrites, Targets, KeepsFiles
    <2>2. CASE task[c].at = "update_write" /\ task'[c].at = "update_reread" /\ acts' = Append(acts, task[c].edit)
        <3>1. task[c].at \in Editing /\ task[c].edit.action = "problem.update"
            BY <2>2, ThreadShape DEF Shaped, Updating, Editing, Unwritten
        <3>2. ~Owes(c) /\ Owes(c)'
            BY <1>1, <2>1, <2>2, <3>1 DEF Owes, Imports, Patching
        <3>3. QED
            BY <1>8, <2>1, <2>2, <3>1, <3>2
    <2>3. CASE task[c].at = "import_upsert" /\ task'[c].at = "import_id" /\ acts' = acts
        <3>1. task[c].at \in Editing /\ task[c].edit.action = "problem.bulk_import"
            BY <2>3, ThreadShape, ZenonT(40) DEF Shaped, Importing, Editing
        <3>2. ~Owes(c) /\ ~Owes(c)'
            BY <1>1, <2>1, <2>3, <3>1 DEF Owes, Imports, Patching
        <3>3. QED
            BY <1>9, <2>1, <2>3, <3>1, <3>2 DEF SameAudit
    <2>4. QED
        BY <1>11, <2>2, <2>3, ZenonT(40) DEF Misses, Rewrites
<1>12. ASSUME NEW p, NEW row, Changes(c, p, row)
       PROVE  AuditInv'
    <2>1. /\ KeepsEdit(c) /\ audit_logs' = audit_logs /\ unaudited' = unaudited
          /\ acts' = Append(acts, task[c].edit)
        BY <1>12 DEF Changes, KeepsFiles
    <2>2. task[c].at \in Editing /\ ~Owes(c) /\ Owes(c)'
        BY <1>12, ZenonT(40) DEF Changes, Owes, Patching, Editing, Unwritten, Deleting, Checking
    <2>3. QED
        BY <1>8, <2>1, <2>2
<1>13. ASSUME NEW row, Finishes(c, row)
       PROVE  AuditInv'
    <2>1. /\ KeepsEdit(c) /\ audit_logs' = audit_logs /\ unaudited' = unaudited /\ Imports(c)
          /\ task'[c].at \in {"audit", "import_exists"}
          /\ acts' = IF task'[c].at = "audit" THEN Append(acts, task[c].edit) ELSE acts
        BY <1>13, ZenonT(40) DEF Finishes, NextFiles, NextFile
    <2>2. task[c].at \in Editing /\ task[c].at # "audit"
        BY <1>13 DEF Finishes, Editing, Importing, Patching
    <2>3. ~Owes(c) /\ (Owes(c)' <=> task'[c].at = "audit")
        BY <2>1, <2>2 DEF Owes, Patching
    <2>4. QED
        BY <1>8, <1>9, <2>1, <2>2, <2>3, ZenonT(40) DEF SameAudit
<1>14. CASE Records(c) \/ Unrecorded(c) \/ Abandons(c)
    <2>1. /\ Alone(c) /\ acts' = acts
          /\ \/ audit_logs' = Append(audit_logs, task[c].edit) /\ unaudited' = unaudited
             \/ unaudited' = Append(unaudited, task[c].edit) /\ audit_logs' = audit_logs
        BY <1>14, ZenonT(40) DEF Records, Unrecorded, Abandons, Leaves, KeepsFiles, KeepsEdit
    <2>2. task[c].at \in Editing /\ Owes(c) /\ ~Owes(c)'
        BY <1>14, ZenonT(40) DEF Records, Unrecorded, Abandons, Leaves, Owes, Editing, Answering, Patching
    <2>3. QED
        BY <1>1, <2>1, <2>2, OwesNoMore, ZenonT(40)
<1>15. QED
    BY <1>2, <1>3, <1>4, <1>6, <1>7, <1>10, <1>11, <1>12, <1>13, <1>14, ZenonT(40) DEF Effect
=============================================================================
