--------------------------- MODULE Notifications ---------------------------
(***************************************************************************)
(* notification_repo.h and notification_routes.h: the table of             *)
(* notifications, the bell's handlers, the event stream and the            *)
(* NotificationBroadcaster the stream reads from.                          *)
(*                                                                         *)
(* The stream's handler joins the user's channel, installs a content       *)
(* provider and leaves the channel again before it returns; httplib calls  *)
(* the provider only after that.  The provider captured the handler's      *)
(* user_id by reference, so the user it reads is the stream's own user     *)
(* when the stack slot survived and anything otherwise (Dangling).         *)
(***************************************************************************)
EXTENDS Requests

CONSTANTS Users, NoUser,
          Dangling      \* the captured user_id may have been overwritten

VARIABLES notifications,  \* rows [user, type, ref, is_read], the id is the index
          channels,       \* channels_: user -> [disconnected, events], or NoChannel
          waiter,         \* the thread asleep in pop() with the global mutex, or none
          sent,           \* frames written to a stream: set of [thread, event]
          dropped         \* history: per type, notifications due and never stored

notifVars == <<notifications, channels, waiter, sent, dropped>>

NoChannel == [disconnected |-> TRUE, events |-> <<"none">>]
Nobody == "nobody"

Types == {"discussion_reply", "solution_like", "solution_comment", "solution_comment_reply"}

NotificationsInit ==
    /\ channels = [u \in Users |-> NoChannel]
    /\ waiter = Nobody
    /\ sent = {}
    /\ dropped = [t \in Types |-> 0]

(***************************************************************************)
(* notification_repo: each call is one statement.                          *)
(***************************************************************************)
notification_create_once(u, type, ref) ==
    notifications' =
        IF \E i \in DOMAIN notifications : notifications[i].user = u
                                          /\ notifications[i].ref = ref
        THEN notifications
        ELSE Append(notifications, [user |-> u, type |-> type, ref |-> ref, is_read |-> FALSE])

notification_create(u, type, ref) ==
    notifications' = Append(notifications,
        [user |-> u, type |-> type, ref |-> ref, is_read |-> FALSE])

count_unread(u) ==
    Cardinality({i \in DOMAIN notifications :
        notifications[i].user = u /\ ~notifications[i].is_read})

notification_mark_all_read(u) ==
    notifications' = [i \in DOMAIN notifications |->
        IF notifications[i].user = u
        THEN [notifications[i] EXCEPT !.is_read = TRUE]
        ELSE notifications[i]]

(***************************************************************************)
(* The broadcaster.  Every operation takes the global mutex, which pop()   *)
(* keeps while it sleeps.                                                  *)
(***************************************************************************)
MutexFree == waiter = Nobody

HasChannel(u) == u \in Users /\ channels[u] # NoChannel

join(u) ==
    /\ MutexFree
    /\ channels' = [channels EXCEPT ![u] =
         [disconnected |-> FALSE,
          events |-> IF HasChannel(u) THEN channels[u].events ELSE <<>>]]

leave(u) ==
    /\ MutexFree
    /\ channels' = IF HasChannel(u)
                   THEN [channels EXCEPT ![u].disconnected = TRUE]
                   ELSE channels

push(u, event) ==
    /\ MutexFree
    /\ channels' = IF HasChannel(u) /\ ~channels[u].disconnected
                   THEN [channels EXCEPT ![u].events = Append(@, event)]
                   ELSE channels

(***************************************************************************)
(* pop(): a frame that is already queued, an empty answer when the channel *)
(* is missing or disconnected, and otherwise a wait of up to 30 s.  Nobody *)
(* can notify the waiter, since join, leave and push need the mutex it     *)
(* holds: the wait ends by its timeout, with the channel as it was.        *)
(***************************************************************************)
pop_takes(c, u) ==
    /\ MutexFree /\ HasChannel(u) /\ channels[u].events # <<>>
    /\ channels' = [channels EXCEPT ![u].events = Tail(@)]
    /\ sent' = sent \cup {[thread |-> c, event |-> Head(channels[u].events)]}
    /\ UNCHANGED waiter

pop_empty(u) ==
    /\ MutexFree
    /\ ~HasChannel(u) \/ (channels[u].events = <<>> /\ channels[u].disconnected)
    /\ UNCHANGED <<channels, waiter, sent>>

pop_sleeps(c, u) ==
    /\ MutexFree /\ HasChannel(u)
    /\ channels[u].events = <<>> /\ ~channels[u].disconnected
    /\ waiter' = c
    /\ UNCHANGED <<channels, sent>>

(***************************************************************************)
(* GET /api/v1/notifications/stream.  stream_poll is one call of the       *)
(* provider; a poll that finds nothing writes a ping and changes nothing.  *)
(***************************************************************************)
CapturedUser(c) == IF Dangling THEN Users \cup {NoUser} ELSE {task[c].user}

handle_notification_stream(c) ==
    \/ \E u \in Users :
         /\ Receives(c, "stream_join", [user |-> u])
         /\ UNCHANGED notifVars
    \/ /\ At(c, "stream_join")
       /\ join(task[c].user)
       /\ Goes(c, "stream_leave", <<>>)
       /\ UNCHANGED <<notifications, waiter, sent, dropped>>
    \/ /\ At(c, "stream_leave")
       /\ leave(task[c].user)
       /\ Goes(c, "stream_poll", <<>>)
       /\ UNCHANGED <<notifications, waiter, sent, dropped>>
    \/ /\ At(c, "stream_poll")
       /\ \E u \in CapturedUser(c) :
            \/ pop_takes(c, u) /\ Goes(c, "stream_poll", <<>>)
            \/ pop_empty(u) /\ Goes(c, "stream_poll", <<>>)
            \/ pop_sleeps(c, u) /\ Goes(c, "stream_sleep", <<>>)
       /\ UNCHANGED <<notifications, dropped>>
    \/ /\ At(c, "stream_sleep")
       /\ waiter' = Nobody
       /\ Goes(c, "stream_poll", <<>>)
       /\ UNCHANGED <<notifications, channels, sent, dropped>>

browser_disconnects(c) ==
    /\ At(c, "stream_poll")
    /\ Answers(c, 200)
    /\ UNCHANGED notifVars

(***************************************************************************)
(* The bell.  handle_mark_read takes the id from what follows the last '/' *)
(* of /api/v1/notifications/:id/read: that is the word "read", which is no *)
(* number, so the id is 0 and the request is refused whatever it names.    *)
(***************************************************************************)
handle_list_notifications(c) ==
    \/ \E u \in Users : Receives(c, "bell_list", [user |-> u]) /\ UNCHANGED notifVars
    \/ /\ At(c, "bell_list")
       /\ Queries(c, "bell_count", <<>>) /\ UNCHANGED notifVars
    \/ /\ At(c, "bell_count")
       /\ QueriesAndAnswers(c, 200) /\ UNCHANGED notifVars

handle_unread_count(c) ==
    \E u \in Users : Receives(c, "bell_count", [user |-> u]) /\ UNCHANGED notifVars

handle_mark_read(c) ==
    \/ Receives(c, "mark_read", <<>>) /\ UNCHANGED notifVars
    \/ At(c, "mark_read") /\ Answers(c, 400) /\ UNCHANGED notifVars

handle_mark_all_read(c) ==
    \/ \E u \in Users : Receives(c, "mark_all", [user |-> u]) /\ UNCHANGED notifVars
    \/ /\ At(c, "mark_all") /\ HasSession
       /\ notification_mark_all_read(task[c].user)
       /\ Answers(c, 200)
       /\ UNCHANGED <<channels, waiter, sent, dropped>>

bellLabels == {"bell_list", "bell_count", "mark_all"}

NotificationsNext(c) ==
    \/ handle_notification_stream(c)
    \/ browser_disconnects(c)
    \/ handle_list_notifications(c)
    \/ handle_unread_count(c)
    \/ handle_mark_read(c)
    \/ handle_mark_all_read(c)
    \/ task[c].at \in bellLabels /\ (Throws(c) \/ TimesOut(c)) /\ UNCHANGED notifVars

(***************************************************************************)
(* notify_discussion_reply, notify_solution_like, notify_solution_comment  *)
(* and notify_solution_comment_reply share one shape: the row is inserted  *)
(* over a connection of its own and an error of that is swallowed; then    *)
(* the frame is pushed.  dropped counts the rows that were not inserted.   *)
(***************************************************************************)
notify_stores(c, from, to) ==
    /\ At(c, from)
    /\ \/ /\ HasSession
          /\ notification_create(task[c].target, task[c].type, task[c].ref)
          /\ UNCHANGED <<faults, dropped>>
       \/ /\ StatementFails \/ AcquireTimesOut
          /\ dropped' = [dropped EXCEPT ![task[c].type] = @ + 1]
          /\ UNCHANGED notifications
    /\ Moves(c, to, <<>>, task[c].held)
    /\ UNCHANGED <<requests, active, channels, waiter, sent>>

notify_pushes(c, from) ==
    /\ At(c, from)
    /\ push(task[c].target, task[c].type)
    /\ Answers(c, 200)
    /\ UNCHANGED <<notifications, waiter, sent, dropped>>

(***************************************************************************)
(* "When a notification is created, it's pushed to the user's queue and    *)
(* the SSE connection wakes up and sends it": a frame handed to push() for *)
(* a user with an open stream is written to that stream, unless the        *)
(* browser goes away first.                                                *)
(***************************************************************************)
Streaming(c, u) == task[c].at \in {"stream_poll", "stream_sleep"} /\ task[c].user = u

Pushing(u) ==
    \E d \in Clients : task[d].at \in {"reply_push", "like_push", "comment_push"}
                       /\ task[d].target = u

PushedIsStreamed ==
    \A c \in Clients, u \in Users :
        (Streaming(c, u) /\ Pushing(u)) ~>
            (~Streaming(c, u) \/ \E f \in sent : f.thread = c)
=============================================================================
