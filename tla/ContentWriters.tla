--------------------------- MODULE ContentWriters ---------------------------
(***************************************************************************)
(* The handlers around problems, for any number of threads, requests and   *)
(* failing statements: every step has one of the effects of ContentEffects.*)
(***************************************************************************)
EXTENDS BulkImport, Catalogue, ContentEffects, TLAPS

USE SMTT(40), ZenonT(40)

-----------------------------------------------------------------------------
(***************************************************************************)
(* The handlers that write problems: the administrators' edits, their      *)
(* imports and their special judges, beside the readers, over a database   *)
(* that starts empty.                                                      *)
(***************************************************************************)
WritersInit ==
    /\ \E n \in Nat : RequestsInit(n)
    /\ AuditInit /\ ImportInit
    /\ problems = <<>> /\ revisions = <<>>
    /\ cut = {} /\ raced = {} /\ lost = {} /\ late = {}

WriterNext(c) ==
    \/ (ProblemsNext(c) \/ CatalogueNext(c)) /\ UNCHANGED clobbered
    \/ ImportNext(c)

writerVars == <<reqVars, importVars>>

WritersSpec == WritersInit /\ [][\E c \in Clients : WriterNext(c)]_writerVars

-----------------------------------------------------------------------------
(***************************************************************************)
(* The frame of a request: what With makes of a handler's locals.          *)
(***************************************************************************)
LEMMA EmptyTuple == DOMAIN <<>> = {}
    OBVIOUS

LEMMA WithNone ==
    ASSUME NEW l, DOMAIN l = {}, NEW r, r = [x \in DOMAIN r |-> r[x]]
    PROVE  With(r, l) = r
    BY DEF With

LEMMA WithNothing ==
    ASSUME NEW r, r = [x \in DOMAIN r |-> r[x]]
    PROVE  With(r, <<>>) = r
    BY EmptyTuple, WithNone

LEMMA MovesFields ==
    ASSUME ContentTypeOK, NEW c \in Clients, NEW label, NEW l, NEW h, Moves(c, label, l, h)
    PROVE  /\ Alone(c) /\ task'[c].at = label
           /\ \A x \in DOMAIN l : x \notin {"at", "held"} => x \in DOMAIN task'[c] /\ task'[c][x] = l[x]
           /\ \A f : f \notin DOMAIN l \cup {"at", "held"} => Kept(c, f)
<1> DEFINE q == With(With(task[c], l), [at |-> label, held |-> h])
<1>1. task' = [task EXCEPT ![c] = q]
    BY DEF Moves
<1>2. /\ q.at = label
      /\ \A x \in DOMAIN l : x \notin {"at", "held"} => x \in DOMAIN q /\ q[x] = l[x]
      /\ \A x \in DOMAIN task[c] : x \notin DOMAIN l \cup {"at", "held"} => x \in DOMAIN q /\ q[x] = task[c][x]
    BY DEF With
<1> HIDE DEF q
<1>3. task'[c] = q /\ Alone(c)
    BY <1>1 DEF Alone, ContentTypeOK
<1>4. QED
    BY <1>2, <1>3 DEF Kept

LEMMA MovesOn ==
    ASSUME ContentTypeOK, NEW c \in Clients, NEW label, NEW h, Moves(c, label, <<>>, h), requests' = requests
    PROVE  task'[c].at = label /\ KeepsFiles(c) /\ Kept(c, "id")
<1>1. \A l : DOMAIN l = {} /\ Moves(c, label, l, h) =>
        task'[c].at = label /\ KeepsFiles(c) /\ Kept(c, "id")
    <2>1. SUFFICES ASSUME NEW l, DOMAIN l = {}, Moves(c, label, l, h)
                   PROVE  task'[c].at = label /\ KeepsFiles(c) /\ Kept(c, "id")
        OBVIOUS
    <2>2. /\ Alone(c) /\ task'[c].at = label
          /\ \A f : f \notin DOMAIN l \cup {"at", "held"} => Kept(c, f)
        BY <2>1, MovesFields
    <2>3. QED
        BY <2>1, <2>2 DEF KeepsFiles, KeepsEdit
<1>2. QED
    BY <1>1, EmptyTuple

LEMMA MovesToId ==
    ASSUME ContentTypeOK, NEW c \in Clients, NEW label, NEW h, NEW p, Moves(c, label, [id |-> p], h),
           requests' = requests
    PROVE  task'[c].at = label /\ Targets(c, p)
<1>1. DOMAIN [id |-> p] = {"id"} /\ [id |-> p]["id"] = p
    OBVIOUS
<1>2. /\ Alone(c) /\ task'[c].at = label
      /\ \A x \in DOMAIN [id |-> p] : x \notin {"at", "held"} => x \in DOMAIN task'[c] /\ task'[c][x] = [id |-> p][x]
      /\ \A f : f \notin DOMAIN [id |-> p] \cup {"at", "held"} => Kept(c, f)
    <2> DEFINE l == [id |-> p]
    <2>1. Moves(c, label, l, h)
        OBVIOUS
    <2> HIDE DEF l
    <2>2. /\ Alone(c) /\ task'[c].at = label
          /\ \A x \in DOMAIN l : x \notin {"at", "held"} => x \in DOMAIN task'[c] /\ task'[c][x] = l[x]
          /\ \A f : f \notin DOMAIN l \cup {"at", "held"} => Kept(c, f)
        BY <2>1, MovesFields
    <2>3. QED
        BY <2>2 DEF l
<1>3. QED
    BY <1>1, <1>2 DEF Targets, KeepsFiles, KeepsEdit

LEMMA MovesToNextFile ==
    ASSUME ContentTypeOK, NEW c \in Clients, NEW label, NEW h, Moves(c, label, Rest(c), h),
           requests' = requests
    PROVE  task'[c].at = label /\ NextFiles(c)
<1>1. /\ DOMAIN Rest(c) = {"files", "id"} /\ Rest(c)["id"] = NULL
      /\ Rest(c)["files"] = Tail(task[c].files)
    BY DEF Rest
<1>2. /\ Alone(c) /\ task'[c].at = label
      /\ \A x \in DOMAIN Rest(c) : x \notin {"at", "held"} => x \in DOMAIN task'[c] /\ task'[c][x] = Rest(c)[x]
      /\ \A f : f \notin DOMAIN Rest(c) \cup {"at", "held"} => Kept(c, f)
    BY MovesFields
<1>3. Kept(c, "edit") /\ Kept(c, "policy") /\ Kept(c, "slug")
    BY <1>1, <1>2
<1>4. "id" \in DOMAIN task'[c] /\ task'[c].id = NULL
    BY <1>1, <1>2
<1>5. "files" \in DOMAIN task'[c] /\ task'[c].files = Tail(task[c].files)
    BY <1>1, <1>2, ZenonT(40)
<1>6. QED
    BY <1>2, <1>3, <1>4, <1>5 DEF NextFiles, KeepsEdit

LEMMA EndsAlone ==
    ASSUME ContentTypeOK, NEW c \in Clients, task' = [task EXCEPT ![c] = Idle]
    PROVE  Alone(c) /\ task'[c] = Idle /\ task'[c].at = "idle"
    BY DEF Alone, ContentTypeOK, Idle

Onward(c, label, l) ==
    Queries(c, label, l) \/ Goes(c, label, l) \/ Acquires(c, label, l) \/ Releases(c, label, l)

LEMMA OnwardSame ==
    ASSUME ContentTypeOK, NEW c \in Clients, NEW label, Onward(c, label, <<>>)
    PROVE  task'[c].at = label /\ KeepsFiles(c) /\ Kept(c, "id")
<1>1. requests' = requests /\ \E h : Moves(c, label, <<>>, h)
    BY DEF Onward, Queries, Goes, Acquires, Releases
<1>2. QED
    BY <1>1, MovesOn

LEMMA OnwardTo ==
    ASSUME ContentTypeOK, NEW c \in Clients, NEW label, NEW p, Onward(c, label, [id |-> p])
    PROVE  task'[c].at = label /\ Targets(c, p)
<1>1. requests' = requests /\ \E h : Moves(c, label, [id |-> p], h)
    BY DEF Onward, Queries, Goes, Acquires, Releases
<1>2. QED
    BY <1>1, MovesToId

LEMMA OnwardFile ==
    ASSUME ContentTypeOK, NEW c \in Clients, NEW label, Onward(c, label, Rest(c))
    PROVE  task'[c].at = label /\ NextFiles(c)
<1>1. requests' = requests /\ \E h : Moves(c, label, Rest(c), h)
    BY DEF Onward, Queries, Goes, Acquires, Releases
<1>2. QED
    BY <1>1, MovesToNextFile

Over(c) ==
    (\E status : Answers(c, status) \/ QueriesAndAnswers(c, status)) \/ Throws(c) \/ TimesOut(c)

LEMMA OverLeaves ==
    ASSUME ContentTypeOK, NEW c \in Clients, Over(c)
    PROVE  Leaves(c)
<1>1. requests' = requests /\ task' = [task EXCEPT ![c] = Idle]
    BY DEF Over, Answers, QueriesAndAnswers, Throws, TimesOut, Unwinds
<1>2. QED
    BY <1>1, EndsAlone, ZenonT(40) DEF Leaves

-----------------------------------------------------------------------------
(***************************************************************************)
(* Every step has one of the effects.                                      *)
(***************************************************************************)
LEMMA SlugLooked ==
    ASSUME ContentTypeOK, NEW s
    PROVE  IF slug_exists(s)
           THEN /\ find_by_slug(s) \in DOMAIN problems /\ find_by_slug(s) # NULL
                /\ problems[find_by_slug(s)].slug = s
           ELSE find_by_slug(s) = NULL
<1>1. NULL \notin DOMAIN problems
    BY DEF ContentTypeOK, NULL
<1>2. QED
    BY <1>1 DEF slug_exists, find_by_slug

LEMMA ThreadAt ==
    ASSUME ContentTypeOK, NEW c \in Clients
    PROVE  Shaped(task[c])
    BY DEF ContentTypeOK

LEMMA ImportAt ==
    ASSUME ContentTypeOK, NEW c \in Clients,
           task[c].at \in Importing \/ (task[c].at \in Patching /\ Imports(c))
    PROVE  /\ task[c].edit \in Edits /\ task[c].edit.action = "problem.bulk_import"
           /\ task[c].files \in Seq(Slugs) /\ task[c].files # <<>>
           /\ File(c) \in Slugs /\ Imports(c)
           /\ "files" \in DOMAIN task[c] /\ "edit" \in DOMAIN task[c] /\ "policy" \in DOMAIN task[c]
<1>1. /\ task[c].edit \in Edits /\ task[c].edit.action = "problem.bulk_import"
      /\ task[c].files \in Seq(Slugs) /\ task[c].files # <<>>
      /\ "files" \in DOMAIN task[c] /\ "edit" \in DOMAIN task[c] /\ "policy" \in DOMAIN task[c]
    BY ThreadAt DEF Shaped, Editing, Imports
<1>2. File(c) \in Slugs /\ Imports(c)
    BY <1>1 DEF File, Imports
<1>3. QED
    BY <1>1, <1>2

LEMMA FoundLive ==
    ASSUME ContentTypeOK, NEW s, find_live(s) # NULL
    PROVE  /\ find_live(s) \in DOMAIN problems
           /\ problems[find_live(s)].slug = s /\ ~problems[find_live(s)].is_deleted
           /\ find_live(s) = find_by_slug(s)
    BY SlugLooked DEF find_live, find_by_slug

LEMMA EditTyped ==
    ASSUME ContentTypeOK, NEW action \in Actions
    PROVE  Edit(action) \in Edits /\ Edit(action).action = action /\ Edit(action).no = requests
<1>1. requests \in Nat
    BY DEF ContentTypeOK
<1>2. QED
    BY <1>1 DEF Edit, Edits

LEMMA Begun ==
    ASSUME ContentTypeOK, NEW c \in Clients, NEW q, Starts(c, q), Same, Shaped(q),
           q.at \in Entrances \cup Reading,
           q.at \in Entrances => q.edit.no = requests
    PROVE  Begins(c)
<1>1. /\ task' = [task EXCEPT ![c] = q] /\ task[c].at = "idle"
      /\ requests > 0 /\ requests' = requests - 1
    BY DEF Starts, At
<1>2. task'[c] = q /\ Alone(c)
    BY <1>1 DEF Alone, ContentTypeOK
<1>3. QED
    BY <1>1, <1>2 DEF Begins

LEMMA BegunReading ==
    ASSUME ContentTypeOK, NEW c \in Clients, NEW label \in Reading, Same,
           Receives(c, label, <<>>) \/ \E s \in Slugs : Receives(c, label, [slug |-> s])
    PROVE  Begins(c)
<1>1. \E q : Starts(c, q) /\ q.at = label
    <2>1. CASE Receives(c, label, <<>>)
        <3>1. With([at |-> label, held |-> 0], <<>>) = [at |-> label, held |-> 0]
            BY WithNothing
        <3>2. Starts(c, [at |-> label, held |-> 0])
            BY <2>1, <3>1 DEF Receives
        <3>3. [at |-> label, held |-> 0].at = label
            OBVIOUS
        <3>4. QED
            BY <3>2, <3>3
    <2>2. ASSUME NEW s \in Slugs, Receives(c, label, [slug |-> s])
          PROVE  \E q : Starts(c, q) /\ q.at = label
        <3>1. With([at |-> label, held |-> 0], [slug |-> s]) = [at |-> label, held |-> 0, slug |-> s]
            BY DEF With
        <3>2. Starts(c, [at |-> label, held |-> 0, slug |-> s])
            BY <2>2, <3>1 DEF Receives
        <3>3. [at |-> label, held |-> 0, slug |-> s].at = label
            OBVIOUS
        <3>4. QED
            BY <3>2, <3>3
    <2>3. QED
        BY <2>1, <2>2, ZenonT(40)
<1>2. PICK q : Starts(c, q) /\ q.at = label
    BY <1>1
<1>3. label \notin Entrances \cup Editing
    BY DEF Reading, Entrances, Editing, Unwritten, Creating, Updating, Deleting, Checking, Importing,
           Patching, Answering
<1>4. Shaped(q)
    BY <1>2, <1>3 DEF Shaped, Reading, Editing, Unwritten, Creating, Updating, Deleting, Checking,
           Importing, Patching, Answering, Patches3, Revising
<1>5. QED
    BY <1>2, <1>3, <1>4, Begun

LEMMA BegunWriting ==
    ASSUME ContentTypeOK, NEW c \in Clients, NEW label, NEW s \in Slugs, NEW action \in Actions, Same,
           Receives(c, label, [slug |-> s, edit |-> Edit(action), id |-> NULL]),
           \/ label = "create" /\ action = "problem.create"
           \/ label = "delete_title" /\ action = "problem.delete"
           \/ label = "spj_find" /\ action \in {"problem.spj_upsert", "problem.spj_delete", "spj_get"}
    PROVE  Begins(c)
<1> DEFINE e == Edit(action)
           q == [at |-> label, held |-> 0, slug |-> s, edit |-> e, id |-> NULL]
<1>1. e \in Edits /\ e.action = action /\ e.no = requests
    BY EditTyped
<1> HIDE DEF e
<1>2. With([at |-> label, held |-> 0], [slug |-> s, edit |-> e, id |-> NULL]) = q
    BY DEF With
<1>3. Starts(c, q)
    BY <1>2 DEF Receives, e
<1>4. q.at = label /\ q.edit = e /\ q.slug = s /\ q.id = NULL /\ DOMAIN q = {"at", "held", "slug", "edit", "id"}
    OBVIOUS
<1> HIDE DEF q
<1>5. Shaped(q)
    BY <1>1, <1>4 DEF Shaped, Reading, Editing, Unwritten, Creating, Updating, Deleting, Checking,
           Importing, Patching, Answering, Patches3, Revising
<1>6. QED
    BY <1>1, <1>3, <1>4, <1>5, Begun DEF Entrances

LEMMA BegunUpdating ==
    ASSUME ContentTypeOK, NEW c \in Clients, Same, update_starts(c)
    PROVE  Begins(c)
<1> DEFINE e == Edit("problem.update")
<1>1. e \in Edits /\ e.action = "problem.update" /\ e.no = requests
    BY EditTyped DEF Actions
<1>2. PICK s \in Slugs, t \in Slugs :
        Receives(c, "update_title", [old |-> s, slug |-> t, edit |-> e, id |-> NULL])
    BY DEF update_starts
<1> HIDE DEF e
<1> DEFINE q == [at |-> "update_title", held |-> 0, old |-> s, slug |-> t, edit |-> e, id |-> NULL]
<1>3. With([at |-> "update_title", held |-> 0], [old |-> s, slug |-> t, edit |-> e, id |-> NULL]) = q
    BY DEF With
<1>4. Starts(c, q)
    BY <1>2, <1>3 DEF Receives
<1>5. /\ q.at = "update_title" /\ q.edit = e /\ q.slug = t
      /\ DOMAIN q = {"at", "held", "old", "slug", "edit", "id"}
    OBVIOUS
<1> HIDE DEF q
<1>6. Shaped(q)
    BY <1>1, <1>5 DEF Shaped, Reading, Editing, Unwritten, Creating, Updating, Deleting, Checking,
           Importing, Patching, Answering, Patches3, Revising
<1>7. QED
    BY <1>1, <1>4, <1>5, <1>6, Begun DEF Entrances

LEMMA BegunImporting ==
    ASSUME ContentTypeOK, NEW c \in Clients, Same, import_starts(c)
    PROVE  Begins(c)
<1> DEFINE e == Edit("problem.bulk_import")
<1>1. e \in Edits /\ e.action = "problem.bulk_import" /\ e.no = requests
    BY EditTyped DEF Actions
<1>2. PICK b \in Batches, y \in {"skip", "overwrite"} :
        Receives(c, "import_request", [files |-> b, policy |-> y, edit |-> e, id |-> NULL])
    BY DEF import_starts
<1> HIDE DEF e
<1> DEFINE q == [at |-> "import_request", held |-> 0, files |-> b, policy |-> y, edit |-> e, id |-> NULL]
<1>3. With([at |-> "import_request", held |-> 0], [files |-> b, policy |-> y, edit |-> e, id |-> NULL]) = q
    BY DEF With
<1>4. Starts(c, q)
    BY <1>2, <1>3 DEF Receives
<1>5. /\ q.at = "import_request" /\ q.edit = e /\ q.files = b
      /\ DOMAIN q = {"at", "held", "files", "policy", "edit", "id"}
    OBVIOUS
<1>6. b \in Seq(Slugs) /\ b # <<>>
    BY ImportAssumption
<1> HIDE DEF q
<1>7. Shaped(q)
    BY <1>1, <1>5, <1>6 DEF Shaped, Reading, Editing, Unwritten, Creating, Updating, Deleting, Checking,
           Importing, Patching, Answering, Patches3, Revising
<1>8. QED
    BY <1>1, <1>4, <1>5, <1>7, Begun DEF Entrances

LEMMA RowTyped ==
    ASSUME ContentTypeOK, NEW p \in DOMAIN problems
    PROVE  problems[p] \in Row
    BY DEF ContentTypeOK

LEMMA RowAssigned ==
    ASSUME ContentTypeOK, NEW p \in DOMAIN problems, NEW e \in Edits, NEW row \in Row, row = problems[p]
    PROVE  /\ [row EXCEPT !.tags = e] \in Row /\ [row EXCEPT !.samples = e] \in Row
           /\ [row EXCEPT !.tests = e] \in Row /\ [row EXCEPT !.checker = e] \in Row
           /\ [row EXCEPT !.is_deleted = TRUE] \in Row
           /\ [problems EXCEPT ![p].tags = e] = [problems EXCEPT ![p] = [row EXCEPT !.tags = e]]
           /\ [problems EXCEPT ![p].samples = e] = [problems EXCEPT ![p] = [row EXCEPT !.samples = e]]
           /\ [problems EXCEPT ![p].tests = e] = [problems EXCEPT ![p] = [row EXCEPT !.tests = e]]
           /\ [problems EXCEPT ![p].checker = e] = [problems EXCEPT ![p] = [row EXCEPT !.checker = e]]
           /\ [problems EXCEPT ![p].is_deleted = TRUE] = [problems EXCEPT ![p] = [row EXCEPT !.is_deleted = TRUE]]
    BY ZenonT(40) DEF Row

LEMMA RowTaken ==
    ASSUME ContentTypeOK, NEW p \in DOMAIN problems, NEW e \in Edits, NEW t \in Slugs,
           NEW row \in Row, row = problems[p]
    PROVE  /\ [row EXCEPT !.slug = t, !.edit = e] \in Row
           /\ [row EXCEPT !.edit = e, !.is_deleted = FALSE] \in Row
           /\ [problems EXCEPT ![p].slug = t, ![p].edit = e] =
                 [problems EXCEPT ![p] = [row EXCEPT !.slug = t, !.edit = e]]
           /\ [problems EXCEPT ![p].edit = e, ![p].is_deleted = FALSE] =
                 [problems EXCEPT ![p] = [row EXCEPT !.edit = e, !.is_deleted = FALSE]]
<1>1. problems \in Seq(Row)
    BY DEF ContentTypeOK
<1>2. QED
    BY <1>1, ZenonT(40) DEF Row

LEMMA UnchangedSame ==
    ASSUME UNCHANGED <<auditVars, problemVars>>, UNCHANGED clobbered
    PROVE  Same
    BY DEF auditVars, problemVars, Same, SameAudit, SameRest, SameMarks, SameSkips

LEMMA StartEffects ==
    ASSUME ContentTypeOK, NEW c \in Clients, UNCHANGED clobbered,
           admin_guards(c) \/ create_starts(c) \/ update_starts(c) \/ delete_starts(c) \/ spj_starts(c)
    PROVE  Refuses(c) \/ Begins(c)
<1>1. Same
    BY UnchangedSame DEF admin_guards, create_starts, update_starts, delete_starts, spj_starts
<1>2. CASE admin_guards(c)
    BY <1>1, <1>2 DEF admin_guards, Refused, Refuses
<1>3. CASE create_starts(c)
    BY <1>1, <1>3, BegunWriting, ZenonT(40) DEF create_starts, Actions
<1>4. CASE update_starts(c)
    BY <1>1, <1>4, BegunUpdating
<1>5. CASE delete_starts(c)
    BY <1>1, <1>5, BegunWriting, ZenonT(40) DEF delete_starts, Actions
<1>6. CASE spj_starts(c)
    BY <1>1, <1>6, BegunWriting, ZenonT(40) DEF spj_starts, Actions
<1>7. QED
    BY <1>2, <1>3, <1>4, <1>5, <1>6

LEMMA CreateEffect ==
    ASSUME ContentTypeOK, NEW c \in Clients, create_inserts(c), UNCHANGED clobbered
    PROVE  Ends(c) \/ Inserts(c, task[c].slug)
<1> DEFINE s == task[c].slug
<1>1. task[c].at = "create" /\ audit_logs' = audit_logs /\ unaudited' = unaudited /\ s \in Slugs
    BY ThreadAt DEF create_inserts, At, Shaped, Creating
<1>2. CASE Over(c) /\ UNCHANGED <<problemVars, acts>>
    <2>1. Leaves(c)
        BY <1>2, OverLeaves
    <2>2. Same
        BY <1>1, <1>2 DEF problemVars, Same, SameAudit, SameRest, SameMarks, SameSkips
    <2>3. QED
        BY <1>1, <2>1, <2>2 DEF Ends, Patching
<1>3. CASE /\ ~slug_exists(s)
           /\ problems' = Append(problems, Problem(s, task[c].edit))
           /\ revisions' = Append(revisions, {})
           /\ Queries(c, "patch_tags", [id |-> Len(problems) + 1])
           /\ Does(task[c].edit)
           /\ Surfaces(c, s)
           /\ UNCHANGED <<cut, raced, lost>>
    <2>1. task'[c].at = "patch_tags" /\ Targets(c, Len(problems) + 1)
        BY <1>3, OnwardTo DEF Onward
    <2>2. QED
        BY <1>1, <1>3, <2>1 DEF Inserts, Does, SameMarks
<1>4. QED
    BY <1>2, <1>3 DEF create_inserts, Over, parse_problem_body

LEMMA UpdateLookEffect ==
    ASSUME ContentTypeOK, NEW c \in Clients, UNCHANGED clobbered,
           update_reads_title(c) \/ update_asks(c) \/ delete_reads_title(c)
    PROVE  Ends(c) \/ Walks(c)
<1>1. Same /\ task[c].at \in {"update_title", "update_exists", "delete_title"}
    BY UnchangedSame DEF update_reads_title, update_asks, delete_reads_title, At
<1>2. CASE Over(c)
    BY <1>1, <1>2, OverLeaves DEF Ends, Patching
<1>3. ASSUME NEW label, \/ task[c].at \in Updating /\ label \in Updating
                        \/ task[c].at \in Deleting /\ label \in Deleting,
             Onward(c, label, <<>>) \/ (Moves(c, label, <<>>, 0) /\ requests' = requests)
      PROVE  Walks(c)
    <2>1. task'[c].at = label /\ KeepsFiles(c) /\ Kept(c, "id")
        BY <1>3, OnwardSame, MovesOn
    <2>2. QED
        BY <1>1, <1>3, <2>1 DEF Walks, WalksIn
<1>4. CASE update_reads_title(c)
    <2>1. \/ Over(c)
          \/ Onward(c, "update_exists", <<>>) \/ (Moves(c, "update_exists", <<>>, 0) /\ requests' = requests)
        BY <1>4 DEF update_reads_title, Over, Onward, parse_problem_body
    <2>2. QED
        BY <1>2, <1>3, <1>4, <2>1 DEF update_reads_title, At, Updating
<1>5. CASE update_asks(c)
    <2>1. Over(c) \/ Onward(c, "update_write", <<>>)
        BY <1>5 DEF update_asks, Over, Onward
    <2>2. QED
        BY <1>2, <1>3, <1>5, <2>1 DEF update_asks, At, Updating
<1>6. CASE delete_reads_title(c)
    <2>1. \/ Over(c)
          \/ Onward(c, "delete", <<>>) \/ (Moves(c, "delete", <<>>, 0) /\ requests' = requests)
        BY <1>6 DEF delete_reads_title, Over, Onward, parse_problem_body
    <2>2. QED
        BY <1>2, <1>3, <1>6, <2>1 DEF delete_reads_title, At, Deleting
<1>7. QED
    BY <1>4, <1>5, <1>6

LEMMA UpdateEffect ==
    ASSUME ContentTypeOK, SlugsDiffer, NEW c \in Clients, update_writes(c), UNCHANGED clobbered
    PROVE  Ends(c) \/ Misses(c) \/ \E p, row : Rewrites(c, p, row)
<1> DEFINE p == find_live(task[c].old)
           t == task[c].slug
           e == task[c].edit
<1>1. /\ task[c].at = "update_write" /\ audit_logs' = audit_logs /\ unaudited' = unaudited
      /\ t \in Slugs /\ e \in Edits
    BY ThreadAt DEF update_writes, At, Shaped, Updating, Editing, Unwritten
<1>2. CASE Answers(c, 409) /\ UNCHANGED <<problemVars, acts>>
    <2>1. Leaves(c)
        BY <1>2, OverLeaves DEF Over
    <2>2. Same
        BY <1>1, <1>2 DEF problemVars, Same, SameAudit, SameRest, SameMarks, SameSkips
    <2>3. QED
        BY <1>1, <2>1, <2>2 DEF Ends, Patching
<1>3. CASE Releases(c, "update_reread", [id |-> p]) /\ Does(e) /\ p = NULL /\ UNCHANGED problemVars
    <2>1. task'[c].at = "update_reread" /\ Targets(c, NULL)
        BY <1>3, OnwardTo DEF Onward
    <2>2. QED
        BY <1>1, <1>3, <2>1 DEF Misses, Does, problemVars, SameRest, SameMarks, SameSkips
<1>4. CASE /\ Releases(c, "update_reread", [id |-> p]) /\ Does(e)
           /\ p # NULL /\ find_by_slug(t) \in {NULL, p}
           /\ problems' = [problems EXCEPT ![p].slug = t, ![p].edit = e]
           /\ Marks(c, p) /\ Surfaces(c, t) /\ UNCHANGED <<revisions, lost>>
    <2>1. task'[c].at = "update_reread" /\ Targets(c, p)
        BY <1>4, OnwardTo DEF Onward
    <2>2. p \in DOMAIN problems
        BY <1>4, FoundLive
    <2>3. \A q \in DOMAIN problems : problems[q].slug = t => q = p
        BY <1>4, SlugLooked DEF SlugsDiffer, slug_exists
    <2> DEFINE row == [problems[p] EXCEPT !.slug = t, !.edit = e]
    <2>4. problems[p] \in Row
        BY <2>2, RowTyped
    <2>5. row \in Row /\ problems' = [problems EXCEPT ![p] = row]
        BY <1>1, <1>4, <2>2, <2>4, RowTaken, ZenonT(40)
    <2>6. row.slug = t /\ row.edit = e
        BY <2>4 DEF Row
    <2> HIDE DEF row, p, t, e
    <2>7. Rewrites(c, p, row)
        BY <1>1, <1>4, <2>1, <2>2, <2>3, <2>5, <2>6, ZenonT(40) DEF Rewrites, WritesRow, Does, e
    <2>8. QED
        BY <2>7
<1>5. QED
    BY <1>2, <1>3, <1>4 DEF update_writes

LEMMA RereadEffect ==
    ASSUME ContentTypeOK, NEW c \in Clients, update_rereads(c), UNCHANGED clobbered
    PROVE  Abandons(c) \/ \E q : Retargets(c, q)
<1> DEFINE q == find_by_slug(task[c].slug)
<1>1. /\ task[c].at = "update_reread" /\ ~Imports(c)
      /\ audit_logs' = audit_logs /\ acts' = acts /\ problems' = problems /\ revisions' = revisions
      /\ SameSkips
    BY ThreadAt DEF update_rereads, At, Shaped, Imports, SameSkips
<1>2. CASE q = NULL
    <2>1. Leaves(c)
        BY <1>2, OverLeaves DEF update_rereads, Over
    <2>2. QED
        BY <1>1, <1>2, <2>1, ZenonT(40) DEF update_rereads, Abandons, Patching
<1>3. CASE q # NULL
    <2>1. task'[c].at = "patch_tags" /\ Targets(c, q)
        BY <1>3, OnwardTo DEF update_rereads, Onward
    <2>2. q \in DOMAIN problems
        BY <1>3, SlugLooked
    <2>3. Retargets(c, q)
        BY <1>1, <1>3, <2>1, <2>2 DEF update_rereads, Retargets, SameAudit
    <2>4. QED
        BY <2>3
<1>4. QED
    BY <1>2, <1>3

LEMMA PatchEffect ==
    ASSUME ContentTypeOK, NEW c \in Clients, UNCHANGED clobbered,
           patch_finds_tags(c) \/ patch_replaces_tags(c) \/ patch_replaces_samples(c)
    PROVE  Walks(c) \/ \E row : Columns(c, row)
<1> DEFINE p == task[c].id
           e == task[c].edit
<1>1. CASE patch_finds_tags(c)
    <2>1. task'[c].at = "patch_replace" /\ KeepsFiles(c) /\ Kept(c, "id")
        BY <1>1, OnwardSame DEF patch_finds_tags, Onward
    <2>2. QED
        BY <1>1, <2>1, UnchangedSame, ZenonT(40) DEF patch_finds_tags, At, Walks
<1>2. ASSUME patch_replaces_tags(c) \/ patch_replaces_samples(c)
      PROVE  \E row : Columns(c, row)
    <2>1. p \in DOMAIN problems /\ e \in Edits /\ problems[p] \in Row
        <3>1. task[c].at \in {"patch_replace", "patch_samples"}
            BY <1>2 DEF patch_replaces_tags, patch_replaces_samples, At
        <3>2. p \in DOMAIN problems /\ e \in Edits
            BY <3>1, ThreadAt DEF Shaped, Editing, Patching
        <3>3. QED
            BY <3>2, RowTyped
    <2> DEFINE row == [problems[p] EXCEPT !.tags = e]
               row2 == [problems[p] EXCEPT !.samples = e]
    <2>2. /\ row \in Row /\ [problems EXCEPT ![p].tags = e] = [problems EXCEPT ![p] = row]
          /\ row2 \in Row /\ [problems EXCEPT ![p].samples = e] = [problems EXCEPT ![p] = row2]
        BY <2>1, RowAssigned, ZenonT(40)
    <2>3. /\ row.slug = problems[p].slug /\ row.is_deleted = problems[p].is_deleted
          /\ row.edit = problems[p].edit /\ row.tags = e
          /\ row2.slug = problems[p].slug /\ row2.is_deleted = problems[p].is_deleted
          /\ row2.edit = problems[p].edit /\ row2.tags = problems[p].tags /\ row2.samples = e
        BY <2>1 DEF Row
    <2> HIDE DEF row, row2
    <2>4. SameAudit /\ SameRest
        BY <1>2 DEF patch_replaces_tags, patch_replaces_samples, auditVars, SameAudit, SameRest,
                    SameMarks, SameSkips
    <2>5. CASE patch_replaces_tags(c)
        <3>1. task'[c].at = "patch_samples" /\ KeepsFiles(c) /\ Kept(c, "id")
            BY <2>5, OnwardSame DEF patch_replaces_tags, Onward
        <3>2. Columns(c, row)
            BY <2>1, <2>2, <2>3, <2>4, <2>5, <3>1 DEF patch_replaces_tags, At, Columns, WritesRow
        <3>3. QED
            BY <3>2
    <2>6. CASE patch_replaces_samples(c)
        <3>1. /\ task'[c].at = IF Imports(c) THEN "patch_tests" ELSE "rev_max"
              /\ KeepsFiles(c) /\ Kept(c, "id")
            BY <2>6, OnwardSame DEF patch_replaces_samples, Onward
        <3>2. Columns(c, row2)
            BY <2>1, <2>2, <2>3, <2>4, <2>6, <3>1 DEF patch_replaces_samples, At, Columns, WritesRow
        <3>3. QED
            BY <3>2
    <2>7. QED
        BY <1>2, <2>5, <2>6
<1>3. QED
    BY <1>1, <1>2

LEMMA ReadsNumber ==
    ASSUME ContentTypeOK, NEW c \in Clients, record_reads_max(c), UNCHANGED clobbered
    PROVE  Walks(c)
<1> DEFINE n == LastRevision(task[c].id) + 1
           k == IF task[c].held = 0 THEN 0 ELSE 1
           l == [no |-> n, attempt |-> k]
<1>1. DOMAIN l = {"no", "attempt"} /\ l["no"] = n
    OBVIOUS
<1>2. requests' = requests /\ \E h : Moves(c, "rev_insert", l, h)
    BY DEF record_reads_max, Acquires, Goes
<1> HIDE DEF l, n, k
<1>3. /\ Alone(c) /\ task'[c].at = "rev_insert"
      /\ \A x \in DOMAIN l : x \notin {"at", "held"} => x \in DOMAIN task'[c] /\ task'[c][x] = l[x]
      /\ \A f : f \notin DOMAIN l \cup {"at", "held"} => Kept(c, f)
    BY <1>2, MovesFields
<1>4. KeepsFiles(c) /\ Kept(c, "id")
    BY <1>1, <1>2, <1>3 DEF KeepsFiles, KeepsEdit
<1>5. "no" \in DOMAIN task'[c] /\ task'[c].no = n
    BY <1>1, <1>3
<1>6. task[c].at = "rev_max" /\ Same
    BY UnchangedSame DEF record_reads_max, At
<1>7. QED
    BY <1>3, <1>4, <1>5, <1>6 DEF Walks, n

LEMMA RevisionEffect ==
    ASSUME ContentTypeOK, NEW c \in Clients, UNCHANGED clobbered,
           record_inserts(c) \/ record_best_effort(c)
    PROVE  Stores(c) \/ Loses(c) \/ Walks(c)
<1>1. /\ SameAudit /\ problems' = problems /\ SameMarks /\ SameSkips
      /\ task[c].at \in Revising
    BY DEF record_inserts, record_best_effort, record_refuses, auditVars, SameAudit, SameMarks, SameSkips, At, Revising
<1>2. ASSUME NEW label, Onward(c, label, <<>>) \/ (Moves(c, label, <<>>, 0) /\ requests' = requests)
      PROVE  task'[c].at = label /\ KeepsFiles(c) /\ Kept(c, "id")
    BY <1>2, OnwardSame, MovesOn
<1>3. CASE record_inserts(c)
    <2>1. \/ /\ Onward(c, "audit", <<>>)
             /\ ~\E r \in revisions[task[c].id] : r.no = task[c].no
             /\ revisions' = [revisions EXCEPT
                                 ![task[c].id] = @ \cup {[no |-> task[c].no, edit |-> task[c].edit]}]
             /\ lost' = lost
          \/ Onward(c, "rev_max", <<>>) /\ revisions' = revisions /\ lost' = lost
          \/ /\ Onward(c, "audit", <<>>) /\ revisions' = revisions
             /\ lost' = lost \cup {task[c].edit}
        BY <1>3, ZenonT(40) DEF record_inserts, Onward
    <2>2. task[c].at = "rev_insert"
        BY <1>3 DEF record_inserts, At
    <2>3. QED
        BY <1>1, <1>2, <2>1, <2>2 DEF Stores, Loses, Walks, Same, SameRest
<1>4. CASE record_best_effort(c)
    <2>1. /\ Moves(c, "audit", <<>>, 0) /\ requests' = requests
          /\ revisions' = revisions /\ lost' = lost \cup {task[c].edit}
        BY <1>4 DEF record_best_effort, record_refuses, Goes
    <2>2. QED
        BY <1>1, <1>2, <2>1 DEF Loses
<1>5. QED
    BY <1>3, <1>4

LEMMA AuditEffect ==
    ASSUME ContentTypeOK, NEW c \in Clients, audits(c), UNCHANGED clobbered
    PROVE  Records(c) \/ Unrecorded(c)
<1>1. task[c].at = "audit" /\ problems' = problems /\ SameRest
    BY DEF audits, At, problemVars, SameRest, SameMarks, SameSkips
<1>2. CASE record(task[c].edit)
    <2>1. \/ \E label \in Answering : Onward(c, label, <<>>)
          \/ Over(c)
        BY <1>2 DEF audits, Onward, Over, Answering, record, record_fails
    <2>2. ASSUME NEW label \in Answering, Onward(c, label, <<>>)
          PROVE  KeepsFiles(c) /\ Kept(c, "id") /\ task'[c].at \in Answering
        BY <2>2, OnwardSame
    <2>3. QED
        BY <1>1, <1>2, <2>1, <2>2, OverLeaves DEF Records, record
<1>3. CASE record_fails(task[c].edit) /\ Over(c)
    BY <1>1, <1>3, OverLeaves DEF Unrecorded, record_fails
<1>4. QED
    BY <1>2, <1>3 DEF audits, Over

LEMMA PayloadEffect ==
    ASSUME ContentTypeOK, NEW c \in Clients, build_response_payload(c), UNCHANGED clobbered
    PROVE  Walks(c) \/ Ends(c)
<1>1. task[c].at \in Answering /\ Same
    BY UnchangedSame DEF build_response_payload, At, Answering
<1>2. (\E label \in Answering : Onward(c, label, <<>>)) \/ Over(c)
    BY DEF build_response_payload, Answering, Onward, Over
<1>3. ASSUME NEW label \in Answering, Onward(c, label, <<>>)
      PROVE  Walks(c)
    BY <1>1, <1>3, OnwardSame DEF Walks, WalksIn
<1>4. CASE Over(c)
    BY <1>1, <1>4, OverLeaves DEF Ends, Answering, Patching
<1>5. QED
    BY <1>2, <1>3, <1>4

LEMMA DeleteEffect ==
    ASSUME ContentTypeOK, NEW c \in Clients, soft_deletes(c), UNCHANGED clobbered
    PROVE  Ends(c) \/ \E p, row : Changes(c, p, row)
<1> DEFINE p == find_live(task[c].slug)
           row == [problems[p] EXCEPT !.is_deleted = TRUE]
<1>1. /\ task[c].at = "delete" /\ task[c].edit.action = "problem.delete" /\ SameRest
      /\ audit_logs' = audit_logs /\ unaudited' = unaudited
    BY ThreadAt DEF soft_deletes, At, SameRest, SameMarks, SameSkips, Shaped, Deleting
<1>2. CASE p = NULL
    BY <1>1, <1>2, OverLeaves DEF soft_deletes, Over, Ends, Patching, Same, SameAudit
<1>3. CASE p # NULL
    <2>1. p \in DOMAIN problems /\ problems[p] \in Row
        BY <1>3, FoundLive, RowTyped
    <2>2. row \in Row /\ [problems EXCEPT ![p].is_deleted = TRUE] = [problems EXCEPT ![p] = row]
        BY <2>1, ZenonT(40) DEF Row
    <2>3. /\ row.slug = problems[p].slug /\ row.is_deleted /\ row.edit = problems[p].edit
          /\ row.tags = problems[p].tags /\ row.samples = problems[p].samples
          /\ row.tests = problems[p].tests
        BY <2>1 DEF Row
    <2> HIDE DEF row
    <2>4. task'[c].at = "audit" /\ KeepsFiles(c) /\ Kept(c, "id")
        BY <1>3, OnwardSame DEF soft_deletes, Onward
    <2>5. Changes(c, p, row)
        BY <1>1, <1>3, <2>1, <2>2, <2>3, <2>4, ZenonT(40) DEF soft_deletes, Changes, WritesRow, Does
    <2>6. QED
        BY <2>5
<1>4. QED
    BY <1>2, <1>3

LEMMA ThrowEffect ==
    ASSUME ContentTypeOK, NEW c \in Clients, problem_throws(c), UNCHANGED clobbered
    PROVE  Ends(c) \/ Abandons(c)
<1>1. /\ Leaves(c) /\ ~Imports(c) /\ task[c].at # "audit"
      /\ audit_logs' = audit_logs /\ acts' = acts /\ problems' = problems
      /\ revisions' = revisions /\ raced' = raced /\ SameSkips
    BY OverLeaves DEF problem_throws, problem_acquires, Over, SameSkips
<1>2. CASE task[c].at \in Patching
    BY <1>1, <1>2 DEF problem_throws, Abandons
<1>3. CASE task[c].at \notin Patching
    BY <1>1, <1>3 DEF problem_throws, Ends, Same, SameAudit, SameRest, SameMarks
<1>4. QED
    BY <1>2, <1>3

LEMMA CheckerEffect ==
    ASSUME ContentTypeOK, NEW c \in Clients, UNCHANGED clobbered,
           spj_upserts(c) \/ spj_removes(c)
    PROVE  \E p, row : Changes(c, p, row)
<1> DEFINE p == task[c].id
<1>1. /\ task[c].at = "spj_write" /\ task[c].edit.action # "spj_get" /\ SameRest
      /\ audit_logs' = audit_logs /\ unaudited' = unaudited /\ acts' = Append(acts, task[c].edit)
    BY DEF spj_upserts, spj_removes, At, SameRest, SameMarks, SameSkips, Does
<1>2. p \in DOMAIN problems /\ task[c].edit \in Edits /\ Nothing \in Edits
    BY <1>1, ThreadAt DEF Shaped, Checking, Editing, Unwritten, Nothing, Edits, Actions
<1>3. problems[p] \in Row
    BY <1>2, RowTyped
<1>4. task'[c].at = "audit" /\ KeepsFiles(c) /\ Kept(c, "id")
    BY OnwardSame DEF spj_upserts, spj_removes, Onward
<1>5. ASSUME NEW e \in Edits, problems' = [problems EXCEPT ![p].checker = e]
      PROVE  \E row : Changes(c, p, row)
    <2> DEFINE row == [problems[p] EXCEPT !.checker = e]
    <2>1. row \in Row /\ problems' = [problems EXCEPT ![p] = row]
        BY <1>2, <1>3, <1>5, RowAssigned, ZenonT(40)
    <2>2. /\ row.slug = problems[p].slug /\ row.is_deleted = problems[p].is_deleted
          /\ row.edit = problems[p].edit /\ row.tags = problems[p].tags
          /\ row.samples = problems[p].samples /\ row.tests = problems[p].tests
        BY <1>3 DEF Row
    <2> HIDE DEF row
    <2>3. Changes(c, p, row)
        BY <1>1, <1>2, <1>4, <2>1, <2>2 DEF Changes, WritesRow
    <2>4. QED
        BY <2>3
<1>6. QED
    BY <1>2, <1>5 DEF spj_upserts, spj_removes

LEMMA ReaderEffect ==
    ASSUME ContentTypeOK, NEW c \in Clients, UNCHANGED clobbered,
           \/ spj_finds(c) \/ spj_rereads(c) \/ get_special_judge(c)
           \/ get_problem_detail_handler(c) \/ list_problems_handler(c)
           \/ handle_problem_navigation(c) \/ list_tags_handler(c) \/ catalogue_throws(c)
    PROVE  Begins(c) \/ Ends(c) \/ Walks(c)
<1>1. Same
    BY UnchangedSame DEF spj_finds, spj_rereads, get_special_judge, get_problem_detail_handler,
       list_problems_handler, handle_problem_navigation, list_tags_handler, catalogue_throws
<1>2. CASE task[c].at \in Checking \cup Answering \cup Reading /\ Over(c)
    BY <1>1, <1>2, OverLeaves DEF Ends, Patching, Checking, Answering, Reading
<1>3. ASSUME NEW label \in Reading, task[c].at \in Reading, Onward(c, label, <<>>)
      PROVE  Walks(c)
    BY <1>1, <1>3, OnwardSame DEF Walks, WalksIn
<1>4. CASE spj_finds(c)
    <2> DEFINE p == find_live(task[c].slug)
    <2>1. task[c].at = "spj_find"
        BY <1>4 DEF spj_finds, At
    <2>2. Over(c) \/ (p # NULL /\ \E label \in {"spj_get", "spj_write"} : Onward(c, label, [id |-> p]))
        BY <1>4, ZenonT(40) DEF spj_finds, Over, Onward, parse_spj_body
    <2>3. ASSUME NEW label \in {"spj_get", "spj_write"}, p # NULL, Onward(c, label, [id |-> p])
          PROVE  Walks(c)
        <3>1. task'[c].at = label /\ Targets(c, p)
            BY <2>3, OnwardTo
        <3>2. p \in DOMAIN problems
            BY <2>3, FoundLive
        <3>3. QED
            BY <1>1, <2>1, <3>1, <3>2 DEF Walks, WalksIn, Checking, Targets
    <2>4. QED
        BY <1>2, <2>1, <2>2, <2>3 DEF Checking
<1>5. CASE spj_rereads(c) \/ get_special_judge(c) \/ catalogue_throws(c)
    BY <1>2, <1>5, ZenonT(40) DEF spj_rereads, get_special_judge, catalogue_throws, catalogue_acquires, Over, At,
       Throws, TimesOut, AnswersDespite, Checking, Answering, Reading
<1>6. CASE \/ get_problem_detail_handler(c) \/ list_problems_handler(c)
           \/ handle_problem_navigation(c) \/ list_tags_handler(c)
    <2>1. \/ \E label \in Reading :
                Receives(c, label, <<>>) \/ \E s \in Slugs : Receives(c, label, [slug |-> s])
          \/ task[c].at \in Reading /\ Over(c)
          \/ task[c].at \in Reading /\ \E label \in Reading : Onward(c, label, <<>>)
        BY <1>6, ZenonT(40) DEF get_problem_detail_handler, list_problems_handler, handle_problem_navigation,
           list_tags_handler, Reading, Over, Onward, At, parse_list_query
    <2>2. QED
        BY <1>1, <1>2, <1>3, <2>1, BegunReading, ZenonT(40)
<1>7. QED
    BY <1>4, <1>5, <1>6

LEMMA ClosesActs ==
    ASSUME NEW c \in Clients, Closes(c), task'[c].at = NextFile(c)
    PROVE  acts' = IF task'[c].at = "audit" THEN Append(acts, task[c].edit) ELSE acts
    BY DEF Closes, Does

LEMMA ImportLookEffect ==
    ASSUME ContentTypeOK, NEW c \in Clients,
           \/ import_starts(c) \/ import_parses(c) \/ import_rejects(c) \/ import_looks(c)
           \/ import_asks_tombstone(c)
    PROVE  Begins(c) \/ Ends(c) \/ Looks(c) \/ \E row : Finishes(c, row)
<1>1. ASSUME UNCHANGED importVars
      PROVE  Same
    BY <1>1, UnchangedSame DEF importVars
<1>2. CASE import_starts(c)
    BY <1>1, <1>2, BegunImporting DEF import_starts
<1>3. CASE import_parses(c)
    <2>1. Over(c) \/ Onward(c, "import_exists", <<>>)
        BY <1>3 DEF import_parses, parse_import_request, Over, Onward
    <2>2. Same /\ task[c].at = "import_request"
        BY <1>1, <1>3 DEF import_parses, At
    <2>3. CASE Over(c)
        BY <2>2, <2>3, OverLeaves DEF Ends, Patching
    <2>4. CASE Onward(c, "import_exists", <<>>)
        BY <2>2, <2>4, OnwardSame DEF Looks, WalksIn, Importing, Looked
    <2>5. QED
        BY <2>1, <2>3, <2>4
<1>4. CASE import_asks_tombstone(c)
    BY <1>1, <1>4, OnwardSame DEF import_asks_tombstone, At, Onward, Looks, WalksIn, Importing, Looked
<1>5. CASE import_rejects(c) \/ import_looks(c)
    <2>1. /\ task[c].at = "import_exists" /\ audit_logs' = audit_logs /\ unaudited' = unaudited
          /\ problems' = problems /\ SameRest
        BY <1>5, ZenonT(40) DEF import_rejects, import_looks, At, problemVars, SameRest, SameMarks, SameSkips
    <2>2. CASE Onward(c, NextFile(c), Rest(c)) /\ Closes(c)
        <3>1. task'[c].at = NextFile(c) /\ NextFiles(c)
            BY <2>2, OnwardFile
        <3>2. Imports(c)
            BY <2>1, ImportAt DEF Importing
        <3>3. acts' = IF task'[c].at = "audit" THEN Append(acts, task[c].edit) ELSE acts
            BY <2>2, <3>1, ClosesActs
        <3>4. \A row : Finishes(c, row)
            BY <2>1, <3>1, <3>2, <3>3, ZenonT(40) DEF Finishes, Importing, SameRest, SameMarks
        <3>5. QED
            BY <3>4
    <2>3. ASSUME NEW label \in Importing, Onward(c, label, <<>>), acts' = acts,
                 task[c].policy # "skip" \/ find_live(File(c)) = NULL
          PROVE  Looks(c)
        BY <2>1, <2>3, OnwardSame, ZenonT(40) DEF Looks, WalksIn, Importing, Same, SameAudit
    <2>4. CASE import_looks(c)
        BY <2>2, <2>3, <2>4, ZenonT(40) DEF import_looks, Onward, Importing
    <2>5. QED
        BY <1>5, <2>2, <2>4 DEF import_rejects, Onward
<1>6. QED
    BY <1>2, <1>3, <1>4, <1>5

LEMMA ImportInsertEffect ==
    ASSUME ContentTypeOK, NEW c \in Clients, import_inserts(c)
    PROVE  Looks(c) \/ \E s : Inserts(c, s)
<1>1. task[c].at = "import_create" /\ SameAudit /\ clobbered' = clobbered /\ File(c) \in Slugs
    BY ImportAt DEF import_inserts, At, auditVars, SameAudit, Importing
<1>2. CASE slug_exists(File(c))
    <2>1. task'[c].at = "import_tombstone" /\ KeepsFiles(c) /\ Kept(c, "id")
        BY <1>2, OnwardSame DEF import_inserts, Onward
    <2>2. QED
        BY <1>1, <1>2, <2>1 DEF import_inserts, problemVars, Looks, WalksIn, Importing, Looked,
           Same, SameRest, SameMarks, SameSkips
<1>3. CASE ~slug_exists(File(c))
    <2>1. task'[c].at = "patch_tags" /\ Targets(c, Len(problems) + 1)
        BY <1>3, OnwardTo DEF import_inserts, Onward
    <2>2. Inserts(c, File(c))
        BY <1>1, <1>3, <2>1 DEF import_inserts, Inserts, SameMarks, SameAudit, Looked
    <2>3. QED
        BY <2>2
<1>4. QED
    BY <1>2, <1>3

LEMMA UpsertEffect ==
    ASSUME ContentTypeOK, SlugsDiffer, NEW c \in Clients, upsert_writes(c)
    PROVE  (\E s : Inserts(c, s)) \/ \E p, row : Rewrites(c, p, row)
<1> DEFINE s == File(c)
           p == find_by_slug(s)
           e == task[c].edit
<1>1. /\ task[c].at = "import_upsert" /\ audit_logs' = audit_logs /\ unaudited' = unaudited
      /\ acts' = acts /\ lost' = lost /\ Surfaces(c, s) /\ s \in Slugs /\ e \in Edits
      /\ clobbered' = IF task[c].policy = "skip" /\ find_live(s) # NULL
                      THEN clobbered \cup {s} ELSE clobbered
    BY ImportAt DEF upsert_writes, At, auditVars, Importing
<1>2. CASE p = NULL
    <2>1. ~slug_exists(s) /\ find_live(s) = NULL
        BY <1>2, SlugLooked DEF find_live
    <2>2. task'[c].at = "import_id" /\ Targets(c, Len(problems) + 1)
        BY <1>2, OnwardTo DEF upsert_writes, Onward
    <2>3. Inserts(c, s)
        BY <1>1, <1>2, <2>1, <2>2 DEF upsert_writes, Inserts, SameMarks, Looked
    <2>4. QED
        BY <2>3
<1>3. CASE p # NULL
    <2>1. p \in DOMAIN problems /\ problems[p].slug = s
        BY <1>3, SlugLooked
    <2>2. problems[p] \in Row
        BY <2>1, RowTyped
    <2> DEFINE row == [problems[p] EXCEPT !.edit = e, !.is_deleted = FALSE]
    <2>3. row \in Row /\ [problems EXCEPT ![p].edit = e, ![p].is_deleted = FALSE] = [problems EXCEPT ![p] = row]
        BY <1>1, <2>1, <2>2, RowTaken, ZenonT(40)
    <2>4. row.slug = s /\ row.edit = e
        BY <2>1, <2>2 DEF Row
    <2> HIDE DEF row
    <2>5. task'[c].at = "import_id" /\ Targets(c, p)
        BY <1>3, OnwardTo DEF upsert_writes, Onward
    <2>6. \A q \in DOMAIN problems : problems[q].slug = s => q = p
        BY <2>1 DEF SlugsDiffer
    <2>7. find_live(s) # NULL <=> ~problems[p].is_deleted
        BY <1>3 DEF find_live
    <2>8. problems' = [problems EXCEPT ![p] = row] /\ Marks(c, p) /\ revisions' = revisions
        BY <1>3, <2>3 DEF upsert_writes
    <2> HIDE DEF s, p, e
    <2>9. Rewrites(c, p, row)
        BY <1>1, <2>1, <2>3, <2>4, <2>5, <2>6, <2>7, <2>8 DEF Rewrites, WritesRow, e, s
    <2>10. QED
        BY <2>9
<1>4. QED
    BY <1>2, <1>3

LEMMA FindIdEffect ==
    ASSUME ContentTypeOK, NEW c \in Clients, upsert_finds_id(c)
    PROVE  (\E q : Retargets(c, q)) \/ \E row : Finishes(c, row)
<1> DEFINE q == find_by_slug(File(c))
<1>1. /\ task[c].at = "import_id" /\ audit_logs' = audit_logs /\ unaudited' = unaudited
      /\ problems' = problems /\ revisions' = revisions /\ lost' = lost /\ SameSkips
    BY DEF upsert_finds_id, At, SameSkips
<1>2. Imports(c)
    BY <1>1, ThreadAt DEF Shaped, Imports
<1>3. CASE q = NULL
    <2>1. task'[c].at = NextFile(c) /\ NextFiles(c)
        BY <1>3, OnwardFile, ZenonT(40) DEF upsert_finds_id, Onward
    <2>2. acts' = IF task'[c].at = "audit" THEN Append(acts, task[c].edit) ELSE acts
        BY <1>3, <2>1, ClosesActs, ZenonT(40) DEF upsert_finds_id
    <2>3. \A row : Finishes(c, row)
        BY <1>1, <1>2, <1>3, <2>1, <2>2, ZenonT(40) DEF upsert_finds_id, Finishes, Patching
    <2>4. QED
        BY <2>3
<1>4. CASE q # NULL
    <2>1. task'[c].at = "patch_tags" /\ Targets(c, q)
        BY <1>4, OnwardTo, ZenonT(40) DEF upsert_finds_id, Onward
    <2>2. q \in DOMAIN problems
        BY <1>4, SlugLooked
    <2>3. Retargets(c, q)
        BY <1>1, <1>4, <2>1, <2>2 DEF upsert_finds_id, Retargets, SameAudit
    <2>4. QED
        BY <2>3
<1>5. QED
    BY <1>3, <1>4

LEMMA TestsEffect ==
    ASSUME ContentTypeOK, NEW c \in Clients, patch_replaces_tests(c)
    PROVE  \E row : Finishes(c, row)
<1> DEFINE p == task[c].id
           e == task[c].edit
           row == [problems[p] EXCEPT !.tests = e]
<1>1. /\ task[c].at = "patch_tests" /\ audit_logs' = audit_logs /\ unaudited' = unaudited
      /\ revisions' = revisions /\ SameMarks /\ lost' = lost /\ SameSkips
      /\ problems' = [problems EXCEPT ![p].tests = e]
    BY DEF patch_replaces_tests, At, SameMarks, SameSkips
<1>2. Imports(c) /\ p \in DOMAIN problems /\ e \in Edits
    BY <1>1, ThreadAt DEF Shaped, Imports, Editing, Patching
<1>3. problems[p] \in Row
    BY <1>2, RowTyped
<1>4. row \in Row /\ problems' = [problems EXCEPT ![p] = row]
    BY <1>1, <1>2, <1>3, RowAssigned, ZenonT(40)
<1>5. /\ row.slug = problems[p].slug /\ row.is_deleted = problems[p].is_deleted
      /\ row.edit = problems[p].edit /\ row.tags = problems[p].tags
      /\ row.samples = problems[p].samples /\ row.tests = e
    BY <1>3 DEF Row
<1> HIDE DEF row
<1>6. task'[c].at = NextFile(c) /\ NextFiles(c)
    BY OnwardFile DEF patch_replaces_tests, Onward
<1>7. acts' = IF task'[c].at = "audit" THEN Append(acts, task[c].edit) ELSE acts
    BY <1>6, ClosesActs DEF patch_replaces_tests
<1>8. Finishes(c, row)
    BY <1>1, <1>2, <1>4, <1>5, <1>6, <1>7, ZenonT(40) DEF Finishes, WritesRow, SameMarks, Patching
<1>9. QED
    BY <1>8

LEMMA FailEffect ==
    ASSUME ContentTypeOK, NEW c \in Clients, import_fails(c)
    PROVE  \E row : Finishes(c, row)
<1>1. task'[c].at = NextFile(c) /\ NextFiles(c)
    BY MovesToNextFile DEF import_fails
<1>2. acts' = IF task'[c].at = "audit" THEN Append(acts, task[c].edit) ELSE acts
    BY <1>1, ClosesActs DEF import_fails
<1>3. task[c].at \in (Importing \ {"import_request"}) \cup Patching
    BY ZenonT(40) DEF import_fails, import_acquires, Importing, Patching
<1>4. cut' = IF task[c].at \in Patching THEN cut \cup {task[c].id} ELSE cut
    BY DEF import_fails, Patching
<1>5. \A row : Finishes(c, row)
    BY <1>1, <1>2, <1>3, <1>4, ZenonT(40) DEF import_fails, Finishes, SameSkips
<1>6. QED
    BY <1>5

LEMMA StepEffect ==
    ASSUME ContentTypeOK, SlugsDiffer, NEW c \in Clients, WriterNext(c)
    PROVE  Effect(c)
<1>1. CASE ProblemsNext(c) /\ UNCHANGED clobbered
    BY <1>1, StartEffects, CreateEffect, UpdateLookEffect, UpdateEffect, RereadEffect, PatchEffect,
       ReadsNumber, RevisionEffect, AuditEffect, PayloadEffect, DeleteEffect, ThrowEffect, ZenonT(40)
       DEF ProblemsNext, Effect
<1>2. CASE CatalogueNext(c) /\ UNCHANGED clobbered
    BY <1>2, StartEffects, CheckerEffect, ReaderEffect, ZenonT(40) DEF CatalogueNext, Effect
<1>3. CASE ImportNext(c)
    BY <1>3, ImportLookEffect, ImportInsertEffect, UpsertEffect, FindIdEffect, TestsEffect,
       FailEffect, ZenonT(40) DEF ImportNext, Effect
<1>4. QED
    BY <1>1, <1>2, <1>3, ZenonT(40) DEF WriterNext

=============================================================================
