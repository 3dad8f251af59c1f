-------------------------------- MODULE Forum --------------------------------
(***************************************************************************)
(* Topics, posts and the pointers that show the latest of them             *)
(* (modules/forum.ts, with the checks of modules/topicSession and          *)
(* routes/api/forum before them).                                          *)
(*                                                                         *)
(* A request reads, decides, and then writes in a transaction. Each of the *)
(* transactions updates the rows of its topic and of its forum before it   *)
(* reads what it recomputes, so from there on it runs alone. Only a reply  *)
(* reads before: it looks for a post to append to. The counters, which are *)
(* only ever incremented and decremented, are left out.                    *)
(***************************************************************************)
EXTENDS Naturals, FiniteSets

CONSTANTS Boards,    \* the forums
          Trash,     \* the one that is the Trash board
          Topics,
          Posts,     \* by creation: a greater one is newer
          Authors,
          Requests,  \* slots for requests in flight
          None       \* SQL null

VARIABLES forum,   \* the forums there are, with Forum.lastTopicId
          topic,   \* ForumTopic
          post,    \* ForumPost
          req      \* the requests in flight

vars == <<forum, topic, post, req>>

\* What the constants are assumed to be.
Assumptions ==
    /\ Trash \in Boards /\ Posts \subseteq Nat /\ IsFiniteSet(Posts)
    /\ None \notin Boards \cup Topics \cup Posts

Boardless == [exists |-> FALSE, last |-> None]
Unused == [in |-> None, live |-> FALSE, last |-> None]
Unwritten == [of |-> None, by |-> None, live |-> FALSE]

Idle == [op |-> "idle", in |-> None, topic |-> None, post |-> None, by |-> None]

Ops == {"idle", "reply", "append", "post", "deletePost", "deleteTopic", "trash"}

TypeOK ==
    /\ forum \in [Boards -> [exists : BOOLEAN, last : Topics \cup {None}]]
    /\ topic \in [Topics -> [in : Boards \cup {None}, live : BOOLEAN, last : Posts \cup {None}]]
    /\ post \in [Posts -> [of : Topics \cup {None}, by : Authors \cup {None}, live : BOOLEAN]]
    /\ req \in [Requests -> [op : Ops, in : Boards \cup {None}, topic : Topics \cup {None},
                             post : Posts \cup {None}, by : Authors \cup {None}]]

Init ==
    /\ forum = [f \in Boards |-> [exists |-> TRUE, last |-> None]]
    /\ topic = [t \in Topics |-> Unused]
    /\ post = [p \in Posts |-> Unwritten]
    /\ req = [s \in Requests |-> Idle]

\* The topics and posts that have ever been, and the next to be.
Written(p) == post[p].of # None
NextPost(p) == ~Written(p) /\ \A q \in Posts : ~Written(q) => p <= q

Done(s) == [req EXCEPT ![s] = Idle]
Begin(s, op, t, p, u) ==
    /\ req[s] = Idle
    /\ topic[t].live
    /\ req' = [req EXCEPT ![s] = [op |-> op, in |-> topic[t].in, topic |-> t, post |-> p, by |-> u]]
    /\ UNCHANGED <<forum, topic, post>>

-----------------------------------------------------------------------------
(* The pointers.                                                           *)

LivePosts(ps, t) == {p \in Posts : ps[p].of = t /\ ps[p].live}
Newest(ps) == IF ps = {} THEN None ELSE CHOOSE p \in ps : \A q \in ps : q <= p

\* recomputeForumLastTopic: the live topic with the newest last post.
LastTopic(ts, f) ==
    LET lasts == {ts[t].last : t \in {u \in Topics : ts[u].in = f /\ ts[u].live}} \ {None}
    IN IF lasts = {} THEN None
       ELSE CHOOSE t \in Topics : ts[t].in = f /\ ts[t].live /\ ts[t].last = Newest(lasts)

-----------------------------------------------------------------------------
(* Creating.                                                               *)

CreateTopic(t, p, f, u) ==
    /\ topic[t] = Unused /\ NextPost(p) /\ forum[f].exists
    /\ topic' = [topic EXCEPT ![t] = [in |-> f, live |-> TRUE, last |-> p]]
    /\ post' = [post EXCEPT ![p] = [of |-> t, by |-> u, live |-> TRUE]]
    /\ forum' = [forum EXCEPT ![f].last = t]
    /\ UNCHANGED req

\* replyToTopic finds the topic.
ReplyRead(s, t, u) == Begin(s, "reply", t, None, u)

\* createPost looks for the author's own post at the end of the topic.
ReplyLooks(s) ==
    /\ req[s].op = "reply"
    /\ LET p == topic[req[s].topic].last
           own == p # None /\ post[p].live /\ post[p].by = req[s].by
       IN req' = [req EXCEPT ![s].op = IF own THEN "append" ELSE "post",
                             ![s].post = IF own THEN p ELSE None]
    /\ UNCHANGED <<forum, topic, post>>

\* The topic's and the forum's pointers follow; the forum may be gone.
Show(s, p) ==
    IF forum[req[s].in].exists
    THEN /\ topic' = [topic EXCEPT ![req[s].topic].last = p]
         /\ forum' = [forum EXCEPT ![req[s].in].last = req[s].topic]
    ELSE UNCHANGED <<forum, topic>>

\* The reply is appended to the post that was found.
ReplyAppends(s) ==
    /\ req[s].op = "append"
    /\ Show(s, req[s].post)
    /\ req' = Done(s)
    /\ UNCHANGED post

ReplyPosts(s, p) ==
    /\ req[s].op = "post" /\ NextPost(p)
    /\ Show(s, p)
    /\ post' = IF forum[req[s].in].exists
               THEN [post EXCEPT ![p] = [of |-> req[s].topic, by |-> req[s].by, live |-> TRUE]]
               ELSE post
    /\ req' = Done(s)

-----------------------------------------------------------------------------
(* Deleting and trashing.                                                  *)

DeletePostRead(s, p) ==
    /\ post[p].live
    /\ Begin(s, "deletePost", post[p].of, p, None)

\* Mutant: the topic keeps its place whatever posts are left.
CascadesNever(ps, t) == FALSE

\* The last live post takes its topic along.
Cascades(ps, t) == LivePosts(ps, t) = {}

DeletePost(s) ==
    /\ req[s].op = "deletePost"
    /\ LET t == req[s].topic
           ps == [post EXCEPT ![req[s].post].live = FALSE]
           ts == [topic EXCEPT ![t].last = Newest(LivePosts(ps, t)),
                               ![t].live = @ /\ ~Cascades(ps, t)]
       IN IF forum[req[s].in].exists
          THEN /\ post' = ps /\ topic' = ts
               /\ forum' = [forum EXCEPT ![req[s].in].last = LastTopic(ts, req[s].in)]
          ELSE UNCHANGED <<forum, topic, post>>
    /\ req' = Done(s)

DeleteTopicRead(s, t) == Begin(s, "deleteTopic", t, None, None)

DeleteTopic(s) ==
    /\ req[s].op = "deleteTopic"
    /\ LET ts == [topic EXCEPT ![req[s].topic].live = FALSE]
       IN IF forum[req[s].in].exists
          THEN /\ topic' = ts
               /\ forum' = [forum EXCEPT ![req[s].in].last = LastTopic(ts, req[s].in)]
          ELSE UNCHANGED <<forum, topic>>
    /\ req' = Done(s)
    /\ UNCHANGED post

TrashRead(s, t) ==
    /\ topic[t].in # Trash
    /\ Begin(s, "trash", t, None, None)

\* trashTopic recomputes the pointer of the forum the topic leaves.
TrashTopic(s) ==
    /\ req[s].op = "trash"
    /\ LET ts == [topic EXCEPT ![req[s].topic].in = Trash]
       IN IF forum[req[s].in].exists
          THEN /\ topic' = ts
               /\ forum' = [forum EXCEPT ![req[s].in].last = LastTopic(ts, req[s].in)]
          ELSE UNCHANGED <<forum, topic>>
    /\ req' = Done(s)
    /\ UNCHANGED post

\* Its topics, live or deleted, go to the Trash board.
DeleteForum(f) ==
    /\ f # Trash /\ forum[f].exists
    /\ topic' = [t \in Topics |-> IF topic[t].in = f THEN [topic[t] EXCEPT !.in = Trash]
                                  ELSE topic[t]]
    /\ forum' = [forum EXCEPT ![f] = Boardless]
    /\ UNCHANGED <<post, req>>

\* An error, a crash, or the victim of a deadlock.
Abort(s) ==
    /\ req[s] # Idle
    /\ req' = Done(s)
    /\ UNCHANGED <<forum, topic, post>>

Next ==
    \/ \E t \in Topics, p \in Posts, f \in Boards, u \in Authors : CreateTopic(t, p, f, u)
    \/ \E s \in Requests :
          \/ \E t \in Topics :
                \/ \E u \in Authors : ReplyRead(s, t, u)
                \/ DeleteTopicRead(s, t) \/ TrashRead(s, t)
          \/ \E p \in Posts : ReplyPosts(s, p) \/ DeletePostRead(s, p)
          \/ ReplyLooks(s) \/ ReplyAppends(s) \/ DeletePost(s) \/ DeleteTopic(s)
          \/ TrashTopic(s) \/ Abort(s)
    \/ \E f \in Boards : DeleteForum(f)

Spec == Init /\ [][Next]_vars

-----------------------------------------------------------------------------
(* No empty topic is listed (forum.ts:364, #598): whatever replies and     *)
(* deletes race, a live topic has a live post and a last post of its own.  *)
LiveTopicsHavePosts ==
    \A t \in Topics :
        topic[t].live => /\ LivePosts(post, t) # {}
                         /\ topic[t].last # None /\ post[topic[t].last].of = t

(* The pointer at a topic's last post is "kept correct by recomputing it   *)
(* inside the delete transaction" (schema.prisma:975): a live topic does   *)
(* not show a deleted post.                                                *)
LastPostsAreLive == \A t \in Topics : topic[t].live => post[topic[t].last].live
=============================================================================
