--------------------------------- MODULE Posts ---------------------------------
(***************************************************************************)
(* Posts (src/controllers/post.rs, src/models/post.rs).                     *)
(*                                                                          *)
(* The mutating handlers find the row by id and owner and change it in a    *)
(* second statement, by id; update! writes the columns it names.  Anyone    *)
(* reads the published posts, page by page, each page one query of its own. *)
(* Authentication and scopes are in ApiTokens; updated_at, which nothing    *)
(* reads back, is left out.                                                 *)
(***************************************************************************)
EXTENDS Integers, Sequences, FiniteSets, FiniteSetsExt

CONSTANTS
    Users,
    MaxPosts,        \* bound on the rows ever inserted
    MaxClock,
    Texts,           \* title and content of a request, both or neither blank
    Requests,
    DEFAULT_PER_PAGE,
    MAX_PER_PAGE,
    Sizes,           \* what readers ask for as per_page
    None,
    Deleted

Ids == 1 .. MaxPosts

Post == [user_id : Users, text : Texts, published : BOOLEAN, created_at : 0 .. MaxClock]

ASSUME PostsAssumption ==
    /\ MaxPosts \in Nat /\ MaxClock \in Nat /\ "blank" \notin Texts
    /\ MAX_PER_PAGE \in Nat /\ DEFAULT_PER_PAGE \in 1 .. MAX_PER_PAGE
    /\ Sizes \subseteq Nat \cup {None} /\ None \notin Nat
    /\ None # Deleted /\ {None, Deleted} \cap (Users \cup Texts \cup BOOLEAN \cup Post) = {}

VARIABLES
    clock,
    posts,     \* the table: a row, None (not yet inserted) or Deleted
    reqs,      \* mutations in flight
    reader,    \* someone who walks through the pages of the list
    intent,    \* history: per post the last text and published flag that was written
    hands      \* history: per post the users whose requests changed it

vars == <<clock, posts, reqs, reader, intent, hands>>

Exists(id) == posts[id] \notin {None, Deleted}

\* post is the row found by the first statement, a snapshot.
Request == [pc : {"idle", "find", "write"}, op : {"update", "delete", "publish", "unpublish", None},
            user : Users \cup {None}, id : Ids \cup {None}, text : Texts \cup {"blank", None},
            post : Post \cup {None}]

Idle == [pc |-> "idle", op |-> None, user |-> None, id |-> None, text |-> None, post |-> None]

\* seen: the posts of the pages so far, in order.  stable: history, the posts
\* published ever since the walk began; grew and shrank: history, whether a post was
\* published, or unpublished or deleted, meanwhile.
NoReader == [pc |-> "idle", size |-> None, page |-> 1, seen |-> << >>, stable |-> {},
             grew |-> FALSE, shrank |-> FALSE]

Init ==
    /\ clock = 0
    /\ posts = [id \in Ids |-> None]
    /\ reqs = [r \in Requests |-> Idle]
    /\ reader = NoReader
    /\ intent = [id \in Ids |-> None]
    /\ hands = [id \in Ids |-> {}]

-----------------------------------------------------------------------------
(* The public list                                                          *)

Published == {id \in Ids : Exists(id) /\ posts[id].published}

\* Mutant: no tie-breaker, and the database may order a tie either way.
OrdersByTime(rows) ==
    {s \in [1 .. Cardinality(rows) -> rows] :
       \A i, j \in DOMAIN s : i < j =>
         s[i] # s[j] /\ posts[s[i]].created_at >= posts[s[j]].created_at}

\* ORDER BY created_at DESC, id DESC
Orders(rows) ==
    {s \in [1 .. Cardinality(rows) -> rows] :
       \A i, j \in DOMAIN s : i < j =>
         \/ posts[s[i]].created_at > posts[s[j]].created_at
         \/ posts[s[i]].created_at = posts[s[j]].created_at /\ s[i] > s[j]}

\* page.unwrap_or(1).max(1), per_page capped and without a lower bound
PageNumber(page) == IF page = None THEN 1 ELSE Max({page, 1})
per_page(size) == IF size = None THEN DEFAULT_PER_PAGE ELSE Min({size, MAX_PER_PAGE})

\* LIMIT and OFFSET on one order of the rows
Window(s, page, size) ==
    LET offset == (PageNumber(page) - 1) * per_page(size)
    IN  SubSeq(s, offset + 1, Min({offset + per_page(size), Len(s)}))

\* Someone starts to read the list; list_posts does not know who.
StartReading ==
    /\ reader.pc = "idle"
    /\ \E size \in Sizes :
         reader' = [NoReader EXCEPT !.pc = "reading", !.size = size, !.stable = Published]
    /\ UNCHANGED <<clock, posts, reqs, intent, hands>>

\* list_posts: one query.  The reader goes on until a page comes back empty.
list_posts ==
    /\ reader.pc = "reading"
    /\ \E s \in Orders(Published) :
         LET rows == Window(s, reader.page, reader.size) IN
         reader' = [reader EXCEPT !.seen = @ \o rows, !.page = @ + 1,
                                  !.pc = IF rows = << >> THEN "done" ELSE "reading"]
    /\ UNCHANGED <<clock, posts, reqs, intent, hands>>

\* The reader is done with what it read, or gives up.
StopReading ==
    /\ reader.pc # "idle"
    /\ reader' = NoReader
    /\ UNCHANGED <<clock, posts, reqs, intent, hands>>

\* What a change of the table means to a walk that is under way.
Watch ==
    LET now == {id \in Ids : posts'[id] \notin {None, Deleted} /\ posts'[id].published} IN
    reader' = IF reader.pc # "reading" THEN reader ELSE
              [reader EXCEPT !.stable = @ \cap now,
                             !.grew = @ \/ ~(now \subseteq Published),
                             !.shrank = @ \/ ~(Published \subseteq now)]

-----------------------------------------------------------------------------
(* Mutations                                                                *)

\* create_post: a draft under the next id.  A blank title or content is refused.
create_post ==
    /\ \E user \in Users, text \in Texts, id \in Ids :
         /\ posts[id] = None /\ \A j \in 1 .. id - 1 : posts[j] # None
         /\ posts' = [posts EXCEPT ![id] = [user_id |-> user, text |-> text, published |-> FALSE,
                                            created_at |-> clock]]
         /\ intent' = [intent EXCEPT ![id] = [text |-> text, published |-> FALSE]]
         /\ hands' = [hands EXCEPT ![id] = {user}]
    /\ Watch
    /\ UNCHANGED <<clock, reqs>>

Send(r) ==
    /\ reqs[r].pc = "idle"
    /\ \E op \in {"update", "delete", "publish", "unpublish"}, user \in Users, id \in Ids :
         \E text \in IF op = "update" THEN Texts \cup {"blank"} ELSE {None} :
           /\ posts[id] # None
           /\ reqs' = [reqs EXCEPT ![r] = [Idle EXCEPT !.pc = "find", !.op = op, !.user = user,
                                                       !.id = id, !.text = text]]
    /\ UNCHANGED <<clock, posts, reader, intent, hands>>

\* Answered without a change: 400, 404, a failing statement, the timeout.
Refuse(r) ==
    /\ reqs[r].pc # "idle"
    /\ reqs' = [reqs EXCEPT ![r] = Idle]
    /\ UNCHANGED <<clock, posts, reader, intent, hands>>

\* Mutant: a missing row is not answered with 404.
FindAnything(r) ==
    LET q == reqs[r] IN
    /\ q.pc = "find" /\ q.text # "blank"
    /\ reqs' = [reqs EXCEPT ![r] = [q EXCEPT !.pc = "write", !.post = posts[q.id]]]
    /\ UNCHANGED <<clock, posts, reader, intent, hands>>

\* Mutant: the owner is not part of the query.
FindById(r) ==
    LET q == reqs[r] IN
    /\ q.pc = "find" /\ q.text # "blank" /\ Exists(q.id)
    /\ reqs' = [reqs EXCEPT ![r] = [q EXCEPT !.pc = "write", !.post = posts[q.id]]]
    /\ UNCHANGED <<clock, posts, reader, intent, hands>>

\* The row by id and user_id; a blank text was refused before.
Find(r) ==
    LET q == reqs[r] IN
    /\ q.pc = "find" /\ q.text # "blank"
    /\ Exists(q.id) /\ posts[q.id].user_id = q.user
    /\ reqs' = [reqs EXCEPT ![r] = [q EXCEPT !.pc = "write", !.post = posts[q.id]]]
    /\ UNCHANGED <<clock, posts, reader, intent, hands>>

\* The columns a statement names; None stands for a column it does not name.
Columns(text, published) == [text |-> text, published |-> published]

Merged(row, columns) ==
    [row EXCEPT !.text = IF columns.text = None THEN @ ELSE columns.text,
                !.published = IF columns.published = None THEN @ ELSE columns.published]

\* Mutant: the snapshot is saved back whole.
SavedSnapshot(q, row, columns) == IF row = Deleted THEN row ELSE Merged(q.post, columns)

\* Mutant: a change brings a deleted row back.
Upserted(q, row, columns) == Merged(IF row = Deleted THEN q.post ELSE row, columns)

\* update!(post { columns }) on the row as it is by then: it writes the columns it
\* names, where the id is that of the post, and changes nothing if the row is gone.
Updated(q, row, columns) == IF row = Deleted THEN row ELSE Merged(row, columns)

\* The second statement of a handler, and the answer.
Write(r, op, columns) ==
    LET q == reqs[r] IN
    /\ q.pc = "write" /\ q.op = op
    /\ posts' = [posts EXCEPT ![q.id] = Updated(q, @, columns)]
    /\ intent' = [intent EXCEPT ![q.id] = Merged(@, columns)]
    /\ hands' = [hands EXCEPT ![q.id] = @ \cup {q.user}]
    /\ reqs' = [reqs EXCEPT ![r] = Idle]
    /\ Watch
    /\ UNCHANGED clock

update_post(r) == Write(r, "update", Columns(reqs[r].text, None))

publish_post(r) == Write(r, "publish", Columns(None, TRUE))

unpublish_post(r) == Write(r, "unpublish", Columns(None, FALSE))

delete_post(r) ==
    LET q == reqs[r] IN
    /\ q.pc = "write" /\ q.op = "delete"
    /\ posts' = [posts EXCEPT ![q.id] = Deleted]
    /\ hands' = [hands EXCEPT ![q.id] = @ \cup {q.user}]
    /\ reqs' = [reqs EXCEPT ![r] = Idle]
    /\ Watch
    /\ UNCHANGED <<clock, intent>>

Tick == clock < MaxClock /\ clock' = clock + 1 /\ UNCHANGED <<posts, reqs, reader, intent, hands>>

Next ==
    \/ StartReading \/ list_posts \/ StopReading \/ create_post \/ Tick
    \/ \E r \in Requests :
         \/ Send(r) \/ Refuse(r) \/ Find(r)
         \/ update_post(r) \/ publish_post(r) \/ unpublish_post(r) \/ delete_post(r)

Spec == Init /\ [][Next]_vars

-----------------------------------------------------------------------------
(* Properties                                                               *)

\* Type correctness.  A request that will write holds the row it found.
TypeOK ==
    /\ posts \in [Ids -> Post \cup {None, Deleted}]
    /\ reqs \in [Requests -> Request]
    /\ \A r \in Requests : (reqs[r].pc = "write") <=> (reqs[r].post # None)
    /\ reader.seen \in Seq(Ids) /\ reader.stable \subseteq Ids

\* No write is lost to a concurrent one on other columns: a post is published if
\* the last publish_post or unpublish_post said so, and has the text of the last
\* update_post, although each of them started from a snapshot of the whole row.
NoLostWrite ==
    \A id \in Ids : Exists(id) =>
      posts[id].text = intent[id].text /\ posts[id].published = intent[id].published

\* Only the owner of a post ever changes it, although the last statement names
\* the id alone.
OwnersOnly == \A id \in Ids : Exists(id) => hands[id] = {posts[id].user_id}

\* A deleted post stays deleted, whatever was in flight, and a post keeps its
\* owner and its place in the order for life.
DeletedForGood ==
    [][\A id \in Ids :
         /\ posts[id] = Deleted => posts'[id] = Deleted
         /\ Exists(id) /\ posts'[id] # Deleted =>
              /\ posts'[id] # None /\ posts'[id].user_id = posts[id].user_id
              /\ posts'[id].created_at = posts[id].created_at]_vars

\* Page boundaries are stable: a walk through the pages meets every post that was
\* published all along, unless a page shrank behind it, and meets no post twice
\* unless one was published meanwhile.  Ties in created_at do not disturb it.
WalkIsComplete ==
    reader.pc = "done" /\ (reader.size = None \/ reader.size # 0) =>
      /\ ~reader.shrank => \A id \in reader.stable : \E i \in DOMAIN reader.seen : reader.seen[i] = id
      /\ ~reader.grew => \A i, j \in DOMAIN reader.seen : i # j => reader.seen[i] # reader.seen[j]
=============================================================================
