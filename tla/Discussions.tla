---------------------------- MODULE Discussions ----------------------------
(***************************************************************************)
(* discussion_repo.h and discussion_routes.h: posts, replies, likes and    *)
(* deletion.  A post carries reply_count beside the replies it counts, and *)
(* no handler uses a transaction.                                          *)
(***************************************************************************)
EXTENDS Likes

VARIABLES discussions,      \* the id of a row is its index
          images            \* files in uploads/discussion_images

discVars == <<discussions, images>>
communityVars == <<notifVars, likeVars, discVars>>

Post(u, problem) ==
    [user |-> u, problem |-> problem, parent |-> NULL, root |-> NULL,
     reply_count |-> 0, is_deleted |-> FALSE]

Reply(u, d) ==
    [user |-> u, problem |-> discussions[d].problem, parent |-> d,
     root |-> IF discussions[d].root = NULL THEN d ELSE discussions[d].root,
     reply_count |-> 0, is_deleted |-> FALSE]

(***************************************************************************)
(* discussion_repo: single statements.                                     *)
(***************************************************************************)
discussion_create(row) ==
    /\ Len(discussions) < MaxRows
    /\ discussions' = Append(discussions, row)
    /\ UNCHANGED images

discussion_found(d) == d \in DOMAIN discussions /\ ~discussions[d].is_deleted

discussion_soft_delete(d) ==
    discussions' = [discussions EXCEPT ![d].is_deleted = TRUE] /\ UNCHANGED images

increment_reply_count(d) ==
    discussions' = [discussions EXCEPT ![d].reply_count = @ + 1] /\ UNCHANGED images

decrement_reply_count(d) ==
    discussions' = [discussions EXCEPT ![d].reply_count = Greatest0(@)] /\ UNCHANGED images

(***************************************************************************)
(* POST /problems/:slug/discussions and POST /discussions.  An unknown     *)
(* slug is 404, a body that fails validation 400.                          *)
(***************************************************************************)
handle_create_problem_discussion(c) ==
    /\ \/ \E u \in Users : Receives(c, "post_slug", [user |-> u])
       \/ /\ At(c, "post_slug")
          /\ \/ \E status \in {400, 404} : QueriesAndAnswers(c, status)
             \/ Queries(c, "post_create", [problem |-> 1])
    /\ UNCHANGED communityVars

handle_create_global_discussion(c) ==
    /\ \E u \in Users : Receives(c, "post_create", [user |-> u, problem |-> NULL])
    /\ UNCHANGED communityVars

post_creates(c) ==
    /\ At(c, "post_create")
    /\ discussion_create(Post(task[c].user, task[c].problem))
    /\ QueriesAndAnswers(c, 200)
    /\ UNCHANGED <<notifVars, likeVars>>

(***************************************************************************)
(* POST /discussions/:id/replies.  The parent is read once and the copy is *)
(* used from there on.  The replier's name is fetched over a connection    *)
(* that stays held while the notification is stored over another.          *)
(***************************************************************************)
handle_reply_discussion(c) ==
    \/ /\ \E u \in Users, d \in DOMAIN discussions :
            Receives(c, "reply_find", [user |-> u, id |-> d])
       /\ UNCHANGED communityVars
    \/ /\ At(c, "reply_find")
       /\ LET d == task[c].id IN
          IF discussion_found(d)
          THEN \/ QueriesAndAnswers(c, 400)
               \/ Queries(c, "reply_create",
                    [target |-> discussions[d].user, row |-> Reply(task[c].user, d)])
          ELSE QueriesAndAnswers(c, 404)
       /\ UNCHANGED communityVars
    \/ /\ At(c, "reply_create")
       /\ discussion_create(task[c].row)
       /\ Queries(c, "reply_count", <<>>)
       /\ UNCHANGED <<notifVars, likeVars>>
    \/ /\ At(c, "reply_count") /\ HasSession
       /\ increment_reply_count(task[c].row.root)
       /\ IF task[c].target = task[c].user
          THEN Answers(c, 200)
          ELSE Queries(c, "reply_name", <<>>)
       /\ UNCHANGED <<notifVars, likeVars>>
    \/ /\ At(c, "reply_name")
       /\ Acquires(c, "reply_store", [type |-> "discussion_reply", ref |-> task[c].id])
       /\ UNCHANGED communityVars
    \/ notify_stores(c, "reply_store", "reply_push") /\ UNCHANGED <<likeVars, discVars>>
    \/ notify_pushes(c, "reply_push") /\ UNCHANGED <<likeVars, discVars>>

(***************************************************************************)
(* POST /discussions/:id/like.                                             *)
(***************************************************************************)
discussion_toggle_like(c) == toggle_like(c, <<"discussion", task[c].id>>)

handle_like_discussion(c) ==
    \/ /\ \/ \E u \in Users, d \in DOMAIN discussions :
               Receives(c, "like_find", [user |-> u, id |-> d])
          \/ /\ At(c, "like_find")
             /\ IF discussion_found(task[c].id)
                THEN Queries(c, "like_read", <<>>)
                ELSE QueriesAndAnswers(c, 404)
          \/ At(c, "like_reread") /\ QueriesAndAnswers(c, 200)
       /\ UNCHANGED communityVars
    \/ /\ task[c].at \in {"like_read", "like_write", "like_count"}
       /\ discussion_toggle_like(c)
       /\ UNCHANGED <<notifVars, discVars>>

(***************************************************************************)
(* DELETE /discussions/:id by its author or an administrator.              *)
(***************************************************************************)
handle_delete_discussion(c) ==
    LET d == task[c].id IN
    \/ /\ \E u \in Users, e \in DOMAIN discussions :
            Receives(c, "delete_find", [user |-> u, id |-> e])
       /\ UNCHANGED communityVars
    \/ /\ At(c, "delete_find")
       /\ \/ ~discussion_found(d) /\ QueriesAndAnswers(c, 404)
          \/ /\ discussion_found(d)
             /\ IF task[c].user = discussions[d].user \/ task[c].user \in Admins
                THEN Queries(c, "delete_write", <<>>)
                ELSE QueriesAndAnswers(c, 403)
       /\ UNCHANGED communityVars
    \/ /\ At(c, "delete_write") /\ HasSession
       /\ discussion_soft_delete(d)
       /\ drifted' = IF discussions[d].is_deleted
                     THEN drifted \cup {<<"replies", discussions[d].root>>} ELSE drifted
       /\ IF discussions[d].parent = NULL
          THEN Answers(c, 200)
          ELSE Queries(c, "delete_count", <<>>)
       /\ UNCHANGED <<notifVars, likes, like_count>>
    \/ /\ At(c, "delete_count")
       /\ LET root == discussions[d].root IN
          /\ decrement_reply_count(root)
          /\ drifted' = IF discussions[root].reply_count = 0
                        THEN drifted \cup {<<"replies", root>>} ELSE drifted
       /\ QueriesAndAnswers(c, 200)
       /\ UNCHANGED <<notifVars, likes, like_count>>

(***************************************************************************)
(* The readers.  GET /discussions/:id reads the author's row and that of   *)
(* the problem, if there is one, over a connection which it keeps while    *)
(* the replies are listed over a second one; a list counts with one        *)
(* statement and reads its page with the next, on one connection.          *)
(***************************************************************************)
handle_get_discussion(c) ==
    /\ \/ \E d \in DOMAIN discussions : Receives(c, "get_find", [id |-> d])
       \/ /\ At(c, "get_find")
          /\ IF discussion_found(task[c].id)
             THEN Queries(c, "get_author", <<>>)
             ELSE QueriesAndAnswers(c, 404)
       \/ /\ At(c, "get_author")
          /\ Acquires(c, IF discussions[task[c].id].problem = NULL THEN "get_replies" ELSE "get_problem", <<>>)
       \/ At(c, "get_problem") /\ Goes(c, "get_replies", <<>>)
       \/ At(c, "get_replies") /\ QueriesAndAnswers(c, 200)
    /\ UNCHANGED communityVars

handle_list_problem_discussions(c) ==
    /\ \/ Receives(c, "list_slug", <<>>)
       \/ /\ At(c, "list_slug")
          /\ QueriesAndAnswers(c, 404) \/ Queries(c, "list_count", <<>>)
    /\ UNCHANGED communityVars

handle_list_global_discussions(c) ==
    Receives(c, "list_count", <<>>) /\ UNCHANGED communityVars

list_discussions(c) ==
    /\ \/ At(c, "list_count") /\ Acquires(c, "list_page", <<>>)
       \/ At(c, "list_page") /\ Answers(c, 200)
    /\ UNCHANGED communityVars

handle_count_problem_discussions(c) ==
    /\ \/ Receives(c, "count", <<>>)
       \/ At(c, "count") /\ QueriesAndAnswers(c, 200)
    /\ UNCHANGED communityVars

(***************************************************************************)
(* POST /discussions/images: refused by size or magic bytes, or the file   *)
(* is created, filled and closed; a file that could not be written in full *)
(* is removed before the answer.                                           *)
(***************************************************************************)
handle_upload_discussion_image(c) ==
    \/ /\ Receives(c, "image_check", [uuid |-> requests])
       /\ UNCHANGED communityVars
    \/ /\ At(c, "image_check")
       /\ \/ \E status \in {400, 413} : Answers(c, status) /\ UNCHANGED images
          \/ Throws(c) /\ UNCHANGED images
          \/ Goes(c, "image_write", <<>>) /\ images' = images \cup {task[c].uuid}
       /\ UNCHANGED <<notifVars, likeVars, discussions>>
    \/ /\ At(c, "image_write")
       /\ \/ Answers(c, 200) /\ UNCHANGED images
          \/ Throws(c) /\ images' = images \ {task[c].uuid}
       /\ UNCHANGED <<notifVars, likeVars, discussions>>

(***************************************************************************)
(* An exception ends a handler with 500 and leaves what it has written: a  *)
(* like without its count, a reply that is not counted or announced, a     *)
(* deleted reply that still counts.                                        *)
(***************************************************************************)
discussion_acquires ==
    {"post_slug", "post_create", "reply_find", "reply_create", "reply_count", "reply_name",
     "like_find", "like_read", "like_reread", "delete_find", "delete_write", "delete_count",
     "get_find", "get_author", "get_replies", "list_slug", "list_count", "count"}
discussion_holds == {"like_write", "like_count", "list_page", "get_problem"}

discussion_throws(c) ==
    /\ \/ task[c].at \in discussion_acquires \cup discussion_holds /\ Throws(c)
       \/ task[c].at \in discussion_acquires /\ TimesOut(c)
    /\ drifted' = drifted \cup
         CASE At(c, "like_count") -> {<<"discussion", task[c].id>>}
           [] At(c, "reply_count") -> {<<"replies", task[c].row.root>>}
           [] At(c, "delete_count") -> {<<"replies", discussions[task[c].id].root>>}
           [] OTHER -> {}
    /\ dropped' = IF task[c].at \in {"reply_count", "reply_name"}
                     /\ task[c].target # task[c].user
                  THEN [dropped EXCEPT !["discussion_reply"] = @ + 1] ELSE dropped
    /\ UNCHANGED <<notifications, channels, waiter, sent, likes, like_count, discVars>>

DiscussionsNext(c) ==
    \/ handle_create_problem_discussion(c)
    \/ handle_create_global_discussion(c)
    \/ post_creates(c)
    \/ handle_reply_discussion(c)
    \/ handle_like_discussion(c)
    \/ handle_delete_discussion(c)
    \/ handle_get_discussion(c)
    \/ handle_list_problem_discussions(c)
    \/ handle_list_global_discussions(c)
    \/ list_discussions(c)
    \/ handle_count_problem_discussions(c)
    \/ handle_upload_discussion_image(c)
    \/ discussion_throws(c)

(***************************************************************************)
(* "Deleting a reply anywhere rolls back the reply_count of the same root" *)
(* (discussion_routes.h:362): with no handler under way the reply_count of *)
(* a post is the number of its replies that are not deleted, except on the *)
(* drifted posts.                                                          *)
(***************************************************************************)
ReplyCountsExact ==
    Quiet => \A d \in DOMAIN discussions :
        \/ <<"replies", d>> \in drifted
        \/ discussions[d].reply_count =
              Cardinality({r \in DOMAIN discussions :
                  discussions[r].root = d /\ ~discussions[r].is_deleted})

(***************************************************************************)
(* handle_reply_discussion announces a reply to the author of what it      *)
(* answers: with no handler under way there is one notification for each   *)
(* reply to somebody else's post, less the ones that were dropped.         *)
(***************************************************************************)
RepliesAnnounced ==
    Quiet =>
        Cardinality({i \in DOMAIN notifications :
            notifications[i].type = "discussion_reply"})
            + dropped["discussion_reply"] =
        Cardinality({r \in DOMAIN discussions : LET p == discussions[r].parent IN
            p # NULL /\ discussions[p].user # discussions[r].user})
=============================================================================
