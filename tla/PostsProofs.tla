------------------------------ MODULE PostsProofs ------------------------------
(***************************************************************************)
(* Proofs about Posts for any number of users, posts and overlapping        *)
(* requests.  A handler checks the owner in one statement and writes by id  *)
(* in another, so the invariant carries the result of the check across the  *)
(* gap: a post keeps its owner, hence the check cannot go stale.  The walk   *)
(* of a reader through the pages is followed by rank: the number of posts   *)
(* published before one, in the order of list_posts.                        *)
(***************************************************************************)
EXTENDS Posts, FiniteSetTheorems, SequenceTheorems, TLAPS

Content == [text : Texts, published : BOOLEAN]

\* A post and its history agree.
RowSound(row, written, users) ==
    row \in Post =>
      /\ written \in Content /\ users = {row.user_id}
      /\ row.text = written.text /\ row.published = written.published

\* What a request in flight knows of the row it is about.
RequestSound(q, table) ==
    q.pc # "idle" =>
      /\ q.id \in Ids /\ q.user \in Users /\ table[q.id] # None
      /\ q.op = "update" => q.text \in Texts \cup {"blank"}
      /\ q.pc = "write" =>
           /\ q.op = "update" => q.text \in Texts
           /\ table[q.id] # Deleted => table[q.id].user_id = q.user

PostsInv ==
    /\ clock \in 0 .. MaxClock
    /\ posts \in [Ids -> Post \cup {None, Deleted}]
    /\ reqs \in [Requests -> Request]
    /\ DOMAIN intent = Ids /\ DOMAIN hands = Ids
    /\ intent = [id \in Ids |-> intent[id]] /\ hands = [id \in Ids |-> hands[id]]
    /\ \A id \in Ids : RowSound(posts[id], intent[id], hands[id])
    /\ \A r \in Requests : RequestSound(reqs[r], posts)

-----------------------------------------------------------------------------
(* One row                                                                  *)

\* Post with its fields spelled out.
LEMMA PostFields ==
    ASSUME NEW row \in Post
    PROVE  /\ row.user_id \in Users /\ row.text \in Texts /\ row.published \in BOOLEAN
           /\ row.created_at \in 0 .. MaxClock
           /\ row # None /\ row # Deleted
  BY PostsAssumption DEF Post

\* A statement that names one or no column keeps a post a post, its owner and its
\* place in the order, and keeps it in step with what was written last.
LEMMA MergedSound ==
    ASSUME NEW row \in Post, NEW written \in Content,
           row.text = written.text, row.published = written.published,
           NEW text \in Texts \cup {None}, NEW published \in BOOLEAN \cup {None},
           NEW c, c = Columns(text, published)
    PROVE  /\ Merged(row, c) \in Post /\ Merged(written, c) \in Content
           /\ Merged(row, c).user_id = row.user_id /\ Merged(row, c).created_at = row.created_at
           /\ Merged(row, c).text = Merged(written, c).text
           /\ Merged(row, c).published = Merged(written, c).published
<1> DEFINE t == IF text = None THEN row.text ELSE text
           p == IF published = None THEN row.published ELSE published
<1>1. Merged(row, c) = [row EXCEPT !.text = t, !.published = p]
  BY DEF Merged, Columns
<1>2. Merged(written, c) = [written EXCEPT !.text = t, !.published = p]
  BY DEF Merged, Columns
<1>3. t \in Texts /\ p \in BOOLEAN
  BY PostFields
<1> HIDE DEF t, p
<1> QED
  BY <1>1, <1>2, <1>3 DEF Post, Content

-----------------------------------------------------------------------------
(* The steps                                                                *)

\* Nothing is stored or in flight initially.
LEMMA InitInv == Init => PostsInv
<1> SUFFICES ASSUME Init PROVE PostsInv
  OBVIOUS
<1>1. Idle \in Request /\ Idle.pc = "idle"
  BY DEF Idle, Request
<1>2. None \notin Post
  BY PostsAssumption
<1> QED
  BY <1>1, <1>2, PostsAssumption DEF Init, PostsInv, RowSound, RequestSound

\* Steps that leave the table alone and change one request at most.
LEMMA RequestStep ==
    ASSUME PostsInv, NEW r \in Requests, NEW q \in Request, RequestSound(q, posts),
           reqs' = [reqs EXCEPT ![r] = q], UNCHANGED <<clock, posts, intent, hands>>
    PROVE  PostsInv'
<1>1. reqs' \in [Requests -> Request]
  BY DEF PostsInv
<1>2. \A s \in Requests : RequestSound(reqs'[s], posts)
  BY DEF PostsInv
<1> QED
  BY <1>1, <1>2 DEF PostsInv

\* A changed row keeps the invariant if the row agrees with its history again, is
\* still there or deleted, and is not given to somebody else.
LEMMA RowStep ==
    ASSUME PostsInv, NEW id \in Ids, NEW row \in Post \cup {Deleted}, NEW written, NEW users,
           RowSound(row, written, users),
           row \in Post /\ posts[id] # None => posts[id] \in Post /\ row.user_id = posts[id].user_id,
           posts' = [posts EXCEPT ![id] = row],
           intent' = [intent EXCEPT ![id] = written], hands' = [hands EXCEPT ![id] = users],
           clock' = clock, reqs' \in [Requests -> Request],
           \A s \in Requests : reqs'[s] = reqs[s] \/ reqs'[s].pc = "idle"
    PROVE  PostsInv'
<1>1. posts' \in [Ids -> Post \cup {None, Deleted}]
  BY DEF PostsInv
<1>2. /\ DOMAIN intent' = Ids /\ DOMAIN hands' = Ids
      /\ intent' = [j \in Ids |-> intent'[j]] /\ hands' = [j \in Ids |-> hands'[j]]
  BY DEF PostsInv
<1>3. ASSUME NEW j \in Ids PROVE RowSound(posts'[j], intent'[j], hands'[j])
  <2>1. CASE j = id
    BY <2>1 DEF PostsInv
  <2>2. CASE j # id
    BY <2>2 DEF PostsInv
  <2> QED
    BY <2>1, <2>2
<1>4. ASSUME NEW s \in Requests PROVE RequestSound(reqs'[s], posts')
  <2>1. CASE reqs'[s].pc = "idle"
    BY <2>1 DEF RequestSound
  <2>2. CASE reqs'[s] = reqs[s]
    <3> DEFINE q == reqs[s]
    <3>1. RequestSound(q, posts)
      BY DEF PostsInv
    <3>2. q.id \in Ids => posts'[q.id] = IF q.id = id THEN row ELSE posts[q.id]
      BY DEF PostsInv
    <3>3. row # None
      BY PostsAssumption
    <3>4. row # Deleted => row \in Post
      OBVIOUS
    <3>5. posts[id] \in Post => posts[id] # Deleted
      BY PostsAssumption
    <3> HIDE DEF q
    <3>6. RequestSound(q, posts')
      BY <3>1, <3>2, <3>3, <3>4, <3>5 DEF RequestSound
    <3> QED
      BY <3>6, <2>2 DEF q
  <2> QED
    BY <2>1, <2>2
<1> QED
  BY <1>1, <1>2, <1>3, <1>4 DEF PostsInv

\* create_post
LEMMA CreateStep == PostsInv /\ create_post => PostsInv'
<1> SUFFICES ASSUME PostsInv, create_post PROVE PostsInv'
  OBVIOUS
<1>1. PICK user \in Users, text \in Texts, id \in Ids :
        /\ posts[id] = None
        /\ posts' = [posts EXCEPT ![id] = [user_id |-> user, text |-> text, published |-> FALSE,
                                           created_at |-> clock]]
        /\ intent' = [intent EXCEPT ![id] = [text |-> text, published |-> FALSE]]
        /\ hands' = [hands EXCEPT ![id] = {user}]
  BY DEF create_post
<1> DEFINE row == [user_id |-> user, text |-> text, published |-> FALSE, created_at |-> clock]
           written == [text |-> text, published |-> FALSE]
<1>2. row \in Post /\ RowSound(row, written, {user})
  BY DEF Post, Content, RowSound, PostsInv
<1>3. clock' = clock /\ reqs' = reqs /\ reqs \in [Requests -> Request]
  BY DEF create_post, PostsInv
<1>4. /\ posts' = [posts EXCEPT ![id] = row] /\ intent' = [intent EXCEPT ![id] = written]
  BY <1>1
<1> HIDE DEF row, written
<1> QED
  BY <1>1, <1>2, <1>3, <1>4, RowStep

\* What the second statement of update_post, publish_post and unpublish_post does.
LEMMA WriteStep ==
    ASSUME PostsInv, NEW r \in Requests, NEW op, NEW text, NEW published \in BOOLEAN \cup {None},
           op = "update" => text = reqs[r].text /\ published = None,
           op # "update" => text = None,
           Write(r, op, Columns(text, published))
    PROVE  /\ PostsInv'
           /\ \A id \in Ids :
                /\ posts[id] \in Post => /\ posts'[id] \in Post
                                         /\ posts'[id].user_id = posts[id].user_id
                                         /\ posts'[id].created_at = posts[id].created_at
                /\ posts[id] = Deleted => posts'[id] = Deleted
<1> DEFINE q == reqs[r]
           c == Columns(text, published)
           row == Updated(q, posts[q.id], c)
           written == Merged(intent[q.id], c)
           users == hands[q.id] \cup {q.user}
<1>1. q.pc = "write" /\ q.op = op /\ RequestSound(q, posts)
  BY DEF Write, PostsInv
<1>2. q.id \in Ids /\ posts[q.id] \in Post \cup {Deleted} /\ text \in Texts \cup {None}
  BY <1>1 DEF RequestSound, PostsInv
<1>3. RowSound(posts[q.id], intent[q.id], hands[q.id])
  BY <1>2 DEF PostsInv
<1>4. /\ posts' = [posts EXCEPT ![q.id] = row]
      /\ intent' = [intent EXCEPT ![q.id] = written]
      /\ hands' = [hands EXCEPT ![q.id] = users]
      /\ reqs' = [reqs EXCEPT ![r] = Idle] /\ clock' = clock
  BY DEF Write
<1>5. /\ row \in Post \cup {Deleted} /\ RowSound(row, written, users)
      /\ posts[q.id] = Deleted => row = Deleted
      /\ posts[q.id] \in Post => row \in Post /\ row.user_id = posts[q.id].user_id
                                  /\ row.created_at = posts[q.id].created_at
  <2>1. CASE posts[q.id] = Deleted
    <3>1. row = Deleted /\ Deleted \notin Post
      BY <2>1, PostsAssumption DEF Updated
    <3> QED
      BY <3>1, <2>1 DEF RowSound
  <2>2. CASE posts[q.id] \in Post
    <3>1. posts[q.id] # Deleted
      BY <2>2, PostFields
    <3>2. row = Merged(posts[q.id], c)
      BY <3>1 DEF Updated
    <3>3. /\ intent[q.id] \in Content /\ hands[q.id] = {posts[q.id].user_id}
          /\ posts[q.id].text = intent[q.id].text
          /\ posts[q.id].published = intent[q.id].published
      BY <1>3, <2>2 DEF RowSound
    <3>4. q.user = posts[q.id].user_id
      BY <1>1, <3>1 DEF RequestSound
    <3>5. /\ row \in Post /\ written \in Content
          /\ row.user_id = posts[q.id].user_id /\ row.created_at = posts[q.id].created_at
          /\ row.text = written.text /\ row.published = written.published
      <4>1. c = Columns(text, published) /\ written = Merged(intent[q.id], c)
        OBVIOUS
      <4> HIDE DEF q, c, row, written
      <4> QED
        BY <1>2, <2>2, <3>2, <3>3, <4>1, MergedSound
    <3>6. users = {row.user_id}
      BY <3>3, <3>4, <3>5
    <3> HIDE DEF row, written, users
    <3> QED
      BY <3>1, <3>5, <3>6 DEF RowSound
  <2> QED
    BY <1>2, <2>1, <2>2
<1>6. /\ reqs' \in [Requests -> Request]
      /\ \A s \in Requests : reqs'[s] = reqs[s] \/ reqs'[s].pc = "idle"
  <2>1. Idle \in Request /\ Idle.pc = "idle"
    BY DEF Idle, Request
  <2> HIDE DEF q, c, row, written, users
  <2> QED
    BY <1>4, <2>1 DEF PostsInv
<1>7. row \in Post /\ posts[q.id] # None => posts[q.id] \in Post /\ row.user_id = posts[q.id].user_id
  BY <1>2, <1>5, PostsAssumption
<1> HIDE DEF q, c, row, written, users
<1>8. PostsInv'
  BY <1>2, <1>4, <1>5, <1>6, <1>7, RowStep
<1>9. \A id \in Ids : posts'[id] = IF id = q.id THEN row ELSE posts[id]
  BY <1>2, <1>4 DEF PostsInv
<1> QED
  BY <1>5, <1>8, <1>9

\* The columns each handler names.
LEMMA HandlerStep ==
    ASSUME PostsInv, NEW r \in Requests, update_post(r) \/ publish_post(r) \/ unpublish_post(r)
    PROVE  /\ PostsInv'
           /\ \A id \in Ids :
                /\ posts[id] \in Post => /\ posts'[id] \in Post
                                         /\ posts'[id].user_id = posts[id].user_id
                                         /\ posts'[id].created_at = posts[id].created_at
                /\ posts[id] = Deleted => posts'[id] = Deleted
<1>1. CASE update_post(r)
  <2>1. Write(r, "update", Columns(reqs[r].text, None))
    BY <1>1 DEF update_post
  <2> QED
    BY <2>1, WriteStep
<1>2. CASE publish_post(r)
  <2>1. Write(r, "publish", Columns(None, TRUE))
    BY <1>2 DEF publish_post
  <2> QED
    BY <2>1, WriteStep
<1>3. CASE unpublish_post(r)
  <2>1. Write(r, "unpublish", Columns(None, FALSE))
    BY <1>3 DEF unpublish_post
  <2> QED
    BY <2>1, WriteStep
<1> QED
  BY <1>1, <1>2, <1>3

\* delete_post
LEMMA DeleteStep ==
    ASSUME PostsInv, NEW r \in Requests, delete_post(r)
    PROVE  PostsInv' /\ \E id \in Ids : posts' = [posts EXCEPT ![id] = Deleted]
<1> DEFINE q == reqs[r]
<1>1. q.id \in Ids
  BY DEF delete_post, PostsInv, RequestSound
<1>2. /\ posts' = [posts EXCEPT ![q.id] = Deleted]
      /\ hands' = [hands EXCEPT ![q.id] = @ \cup {q.user}]
      /\ reqs' = [reqs EXCEPT ![r] = Idle] /\ clock' = clock /\ intent' = intent
  BY DEF delete_post
<1>3. intent' = [intent EXCEPT ![q.id] = intent[q.id]]
  BY <1>1, <1>2 DEF PostsInv
<1>4. Deleted \notin Post
  BY PostsAssumption
<1>5. RowSound(Deleted, intent[q.id], hands[q.id] \cup {q.user})
  BY <1>4 DEF RowSound
<1>6. Idle \in Request /\ Idle.pc = "idle"
  BY DEF Idle, Request
<1>7. /\ reqs' \in [Requests -> Request]
      /\ \A s \in Requests : reqs'[s] = reqs[s] \/ reqs'[s].pc = "idle"
  BY <1>2, <1>6 DEF PostsInv
<1> HIDE DEF q
<1>8. PostsInv'
  BY <1>1, <1>2, <1>3, <1>4, <1>5, <1>7, RowStep
<1> QED
  BY <1>1, <1>2, <1>8

\* Send, Refuse and Find.
LEMMA QueryStep ==
    ASSUME PostsInv, NEW r \in Requests, Send(r) \/ Refuse(r) \/ Find(r)
    PROVE  PostsInv' /\ posts' = posts
<1>1. Idle \in Request /\ RequestSound(Idle, posts)
  BY DEF Idle, Request, RequestSound
<1>2. UNCHANGED <<clock, posts, intent, hands>>
  BY DEF Send, Refuse, Find
<1>3. CASE Send(r)
  <2>1. PICK op \in {"update", "delete", "publish", "unpublish"}, user \in Users, id \in Ids :
          \E text \in IF op = "update" THEN Texts \cup {"blank"} ELSE {None} :
            /\ posts[id] # None
            /\ reqs' = [reqs EXCEPT ![r] = [Idle EXCEPT !.pc = "find", !.op = op, !.user = user,
                                                        !.id = id, !.text = text]]
    BY <1>3 DEF Send
  <2>2. PICK text \in IF op = "update" THEN Texts \cup {"blank"} ELSE {None} :
          /\ posts[id] # None
          /\ reqs' = [reqs EXCEPT ![r] = [Idle EXCEPT !.pc = "find", !.op = op, !.user = user,
                                                      !.id = id, !.text = text]]
    BY <2>1
  <2> DEFINE q == [Idle EXCEPT !.pc = "find", !.op = op, !.user = user, !.id = id, !.text = text]
  <2>3. q \in Request
    BY DEF Idle, Request
  <2>4. RequestSound(q, posts)
    BY <2>2 DEF RequestSound, Idle
  <2>5. reqs' = [reqs EXCEPT ![r] = q]
    BY <2>2
  <2> HIDE DEF q
  <2> QED
    BY <1>2, <2>3, <2>4, <2>5, RequestStep
<1>4. CASE Refuse(r)
  BY <1>1, <1>2, <1>4, RequestStep DEF Refuse
<1>5. CASE Find(r)
  <2> DEFINE p == reqs[r]
             q == [p EXCEPT !.pc = "write", !.post = posts[p.id]]
  <2>1. /\ p.pc = "find" /\ p.text # "blank" /\ posts[p.id] \notin {None, Deleted}
        /\ posts[p.id].user_id = p.user /\ reqs' = [reqs EXCEPT ![r] = q]
    BY <1>5 DEF Find, Exists
  <2>2. p \in Request /\ RequestSound(p, posts)
    BY DEF PostsInv
  <2>3. p.id \in Ids /\ posts[p.id] \in Post
    BY <2>1, <2>2 DEF RequestSound, PostsInv
  <2>4. q \in Request
    BY <2>2, <2>3 DEF Request
  <2>5. q.pc = "write" /\ q.id = p.id /\ q.user = p.user /\ q.op = p.op /\ q.text = p.text
    BY <2>2 DEF Request
  <2>6. RequestSound(q, posts)
    <3> HIDE DEF p, q
    <3> QED
      BY <2>1, <2>2, <2>5 DEF RequestSound
  <2> HIDE DEF p, q
  <2> QED
    BY <1>2, <2>1, <2>4, <2>6, RequestStep
<1> QED
  BY <1>2, <1>3, <1>4, <1>5

\* Readers and time leave the table and the requests alone.
LEMMA QuietStep ==
    ASSUME PostsInv, UNCHANGED vars \/ StartReading \/ list_posts \/ StopReading \/ Tick
    PROVE  PostsInv' /\ posts' = posts
<1>1. UNCHANGED <<posts, reqs, intent, hands>>
  BY DEF vars, StartReading, list_posts, StopReading, Tick
<1>2. clock' \in 0 .. MaxClock
  <2>1. clock' = clock \/ (clock < MaxClock /\ clock' = clock + 1)
    BY DEF vars, StartReading, list_posts, StopReading, Tick
  <2> QED
    BY <2>1, PostsAssumption DEF PostsInv
<1> QED
  BY <1>1, <1>2 DEF PostsInv

\* Every step keeps the invariant.
LEMMA StepInv == PostsInv /\ [Next]_vars => PostsInv'
<1> SUFFICES ASSUME PostsInv, [Next]_vars PROVE PostsInv'
  OBVIOUS
<1>1. CASE UNCHANGED vars \/ StartReading \/ list_posts \/ StopReading \/ Tick
  BY <1>1, QuietStep
<1>2. CASE create_post
  BY <1>2, CreateStep
<1>3. ASSUME NEW r \in Requests, Send(r) \/ Refuse(r) \/ Find(r) PROVE PostsInv'
  BY <1>3, QueryStep
<1>4. ASSUME NEW r \in Requests, update_post(r) \/ publish_post(r) \/ unpublish_post(r)
      PROVE  PostsInv'
  BY <1>4, HandlerStep
<1>5. ASSUME NEW r \in Requests, delete_post(r) PROVE PostsInv'
  BY <1>5, DeleteStep
<1> QED
  BY <1>1, <1>2, <1>3, <1>4, <1>5 DEF Next

\* The invariant holds throughout.
LEMMA PostsInvHolds == Spec => []PostsInv
  BY InitInv, StepInv, PTL DEF Spec

-----------------------------------------------------------------------------
(* The properties                                                           *)

\* A row that exists is a post.
LEMMA ExistsIsPost ==
    ASSUME PostsInv, NEW id \in Ids
    PROVE  Exists(id) <=> posts[id] \in Post
  BY PostsAssumption DEF PostsInv, Exists

\* Only the owner of a post ever changes it: the owner check of the first statement
\* still holds when the second one writes by id.
THEOREM OwnersOnlyChange == Spec => []OwnersOnly
<1>1. PostsInv => OwnersOnly
  BY ExistsIsPost DEF PostsInv, RowSound, OwnersOnly
<1> QED
  BY <1>1, PostsInvHolds, PTL

\* However requests overlap, no change of one column is undone by a change of
\* another that started from an older snapshot of the row.
THEOREM WritesAreKept == Spec => []NoLostWrite
<1>1. PostsInv => NoLostWrite
  BY ExistsIsPost DEF PostsInv, RowSound, NoLostWrite
<1> QED
  BY <1>1, PostsInvHolds, PTL

\* No step brings a deleted row back, and no step changes a post's owner or its place
\* in the order.
LEMMA RowsKept ==
    ASSUME PostsInv, [Next]_vars, NEW id \in Ids
    PROVE  /\ posts[id] = Deleted => posts'[id] = Deleted
           /\ Exists(id) /\ posts'[id] # Deleted =>
                /\ posts'[id] # None /\ posts'[id].user_id = posts[id].user_id
                /\ posts'[id].created_at = posts[id].created_at
<1> DEFINE Kept ==
      /\ posts[id] = Deleted => posts'[id] = Deleted
      /\ Exists(id) /\ posts'[id] # Deleted =>
           /\ posts'[id] # None /\ posts'[id].user_id = posts[id].user_id
           /\ posts'[id].created_at = posts[id].created_at
<1> SUFFICES Kept
  OBVIOUS
<1>1. Exists(id) <=> posts[id] \in Post
  BY ExistsIsPost
<1>2. \A row \in Post : row # None
  BY PostFields
<1>3. CASE posts' = posts
  BY <1>1, <1>2, <1>3
<1>4. CASE create_post
  <2>1. PICK j \in Ids : posts[j] = None /\ \E row : posts' = [posts EXCEPT ![j] = row]
    BY <1>4 DEF create_post
  <2>2. id # j => posts'[id] = posts[id]
    BY <2>1 DEF PostsInv
  <2>3. CASE id = j
    BY <2>1, <2>3, PostsAssumption DEF Exists
  <2>4. CASE id # j
    BY <1>1, <1>2, <2>2, <2>4
  <2> QED
    BY <2>3, <2>4
<1>5. ASSUME NEW r \in Requests, update_post(r) \/ publish_post(r) \/ unpublish_post(r)
      PROVE  Kept
  BY <1>1, <1>2, <1>5, HandlerStep
<1>6. ASSUME NEW r \in Requests, delete_post(r) PROVE Kept
  <2>1. PICK j \in Ids : posts' = [posts EXCEPT ![j] = Deleted]
    BY <1>6, DeleteStep
  <2>2. posts'[id] = Deleted \/ posts'[id] = posts[id]
    BY <2>1 DEF PostsInv
  <2> QED
    BY <1>1, <1>2, <2>2
<1>7. ASSUME NEW r \in Requests, Send(r) \/ Refuse(r) \/ Find(r) PROVE posts' = posts
  BY <1>7, QueryStep
<1>8. ASSUME UNCHANGED vars \/ StartReading \/ list_posts \/ StopReading \/ Tick
      PROVE  posts' = posts
  BY <1>8, QuietStep
<1> HIDE DEF Kept
<1> QED
  BY <1>3, <1>4, <1>5, <1>6, <1>7, <1>8 DEF Next

\* A deleted post is not brought back by a request that found it before, and a post
\* keeps its owner and its place in the list for life.
THEOREM DeletedStaysDeleted == Spec => DeletedForGood
<1>1. PostsInv /\ [Next]_vars =>
        [\A id \in Ids :
           /\ posts[id] = Deleted => posts'[id] = Deleted
           /\ Exists(id) /\ posts'[id] # Deleted =>
                /\ posts'[id] # None /\ posts'[id].user_id = posts[id].user_id
                /\ posts'[id].created_at = posts[id].created_at]_vars
  BY RowsKept
<1> QED
  BY <1>1, PostsInvHolds, PTL DEF Spec, DeletedForGood

-----------------------------------------------------------------------------
(* The list                                                                 *)

\* The order of the list.
Before(i, j) ==
    \/ posts[i].created_at > posts[j].created_at
    \/ (posts[i].created_at = posts[j].created_at /\ i > j)

\* How many published posts come before a post: what OFFSET counts.
Rank(id) == Cardinality({j \in Published : Before(j, id)})

Offset == (reader.page - 1) * per_page(reader.size)

Seen(id) == \E i \in DOMAIN reader.seen : reader.seen[i] = id

Once == \A i, j \in DOMAIN reader.seen : i # j => reader.seen[i] # reader.seen[j]

Paged == reader.size = None \/ reader.size # 0

Reader == [pc : {"idle", "reading", "done"}, size : Sizes \cup {None}, page : Nat \ {0},
           seen : Seq(Ids), stable : SUBSET Ids, grew : BOOLEAN, shrank : BOOLEAN]

\* A walk under way.  Ranks only grow unless a post goes, so a stable post with a rank
\* below the offset was met; they only shrink unless a post comes, so a post that was met
\* has a rank below the offset and is not met again.
Covered ==
    /\ reader.stable \subseteq Published
    /\ Paged /\ ~reader.shrank => \A id \in reader.stable : Rank(id) < Offset => Seen(id)
    /\ Paged /\ ~reader.grew => Once /\ \A id \in Published : Seen(id) => Rank(id) < Offset

WalkInv ==
    /\ reader \in Reader
    /\ reader.pc = "reading" => Covered
    /\ WalkIsComplete

\* Min and Max of two integers.
LEMMA MinMaxOfTwo ==
    ASSUME NEW a \in Int, NEW b \in Int
    PROVE  /\ Min({a, b}) = IF a <= b THEN a ELSE b
           /\ Max({a, b}) = IF a >= b THEN a ELSE b
<1>1. ASSUME NEW x \in {a, b}, \A y \in {a, b} : x <= y,
             NEW z \in {a, b}, \A y \in {a, b} : z <= y
      PROVE  x = z
  BY <1>1
<1>2. ASSUME NEW x \in {a, b}, \A y \in {a, b} : x >= y,
             NEW z \in {a, b}, \A y \in {a, b} : z >= y
      PROVE  x = z
  BY <1>2
<1>3. Min({a, b}) \in {a, b} /\ \A y \in {a, b} : Min({a, b}) <= y
  <2>1. \E x \in {a, b} : \A y \in {a, b} : x <= y
    OBVIOUS
  <2> QED
    BY <2>1 DEF Min
<1>4. Max({a, b}) \in {a, b} /\ \A y \in {a, b} : Max({a, b}) >= y
  <2>1. \E x \in {a, b} : \A y \in {a, b} : x >= y
    OBVIOUS
  <2> QED
    BY <2>1 DEF Max
<1> QED
  BY <1>3, <1>4

\* The size of a page and where it begins.
LEMMA PageSize ==
    ASSUME NEW size \in Sizes \cup {None}, NEW page \in Nat \ {0}
    PROVE  /\ per_page(size) \in Nat /\ PageNumber(page) = page
           /\ (size = None \/ size # 0) => per_page(size) >= 1
           /\ (page - 1) * per_page(size) \in Nat
           /\ (page + 1 - 1) * per_page(size) = (page - 1) * per_page(size) + per_page(size)
<1>1. DEFAULT_PER_PAGE \in Nat \ {0} /\ MAX_PER_PAGE \in Nat \ {0}
  BY PostsAssumption
<1>2. PageNumber(page) = page
  <2>1. page # None
    BY PostsAssumption
  <2> QED
    BY <2>1, MinMaxOfTwo DEF PageNumber
<1>3. per_page(size) \in Nat /\ ((size = None \/ size # 0) => per_page(size) >= 1)
  <2>1. CASE size = None
    BY <1>1, <2>1 DEF per_page
  <2>2. CASE size # None
    <3>1. size \in Nat
      BY <2>2, PostsAssumption
    <3>2. per_page(size) = IF size <= MAX_PER_PAGE THEN size ELSE MAX_PER_PAGE
      BY <1>1, <2>2, <3>1, MinMaxOfTwo DEF per_page
    <3> QED
      BY <1>1, <2>2, <3>1, <3>2
  <2> QED
    BY <2>1, <2>2
<1>4. ASSUME NEW k \in Nat
      PROVE  (page - 1) * k \in Nat /\ (page + 1 - 1) * k = (page - 1) * k + k
  OBVIOUS
<1> QED
  BY <1>2, <1>3, <1>4

\* Published posts are finitely many posts.
LEMMA PublishedPosts ==
    ASSUME PostsInv
    PROVE  /\ IsFiniteSet(Published) /\ Published \subseteq Ids
           /\ \A id \in Published : posts[id] \in Post /\ posts[id].created_at \in Int /\ id \in Int
<1>1. Ids \subseteq Int /\ IsFiniteSet(Ids)
  BY PostsAssumption, FS_Interval DEF Ids
<1>2. Published \subseteq Ids
  BY DEF Published
<1>3. ASSUME NEW id \in Published PROVE posts[id] \in Post /\ posts[id].created_at \in Int
  <2>1. posts[id] \in Post
    BY ExistsIsPost DEF Published
  <2> QED
    BY <2>1, PostFields, PostsAssumption
<1> QED
  BY <1>1, <1>2, <1>3, FS_Subset

\* The rank of a post is a number.
LEMMA RankType ==
    ASSUME PostsInv, NEW id
    PROVE  Rank(id) \in Nat
<1> DEFINE B == {j \in Published : Before(j, id)}
<1>1. IsFiniteSet(B)
  BY PublishedPosts, FS_Subset
<1> QED
  BY <1>1, FS_CardinalityType DEF Rank

\* ORDER BY created_at DESC, id DESC: every published post once, each where its rank says.
LEMMA OrderIsRank ==
    ASSUME PostsInv, NEW s \in Orders(Published)
    PROVE  /\ Cardinality(Published) \in Nat
           /\ s \in Seq(Ids) /\ Len(s) = Cardinality(Published) /\ DOMAIN s = 1 .. Len(s)
           /\ \A id \in Published : \E i \in DOMAIN s : s[i] = id
           /\ \A i \in DOMAIN s : s[i] \in Published /\ Rank(s[i]) = i - 1
<1> DEFINE n == Cardinality(Published)
<1>1. n \in Nat
  BY PublishedPosts, FS_CardinalityType
<1>2. /\ s \in [1 .. n -> Published]
      /\ \A i, j \in 1 .. n : i < j => Before(s[i], s[j])
  BY DEF Orders, Before
<1>3. \A i, j \in Published : Before(i, j) => i # j /\ ~Before(j, i)
  BY PublishedPosts DEF Before
<1>4. \A i, j \in 1 .. n : i # j => s[i] # s[j]
  BY <1>1, <1>2, <1>3
<1>5. s \in Injection(1 .. n, Published)
  BY <1>2, <1>4 DEF Injection, IsInjective
<1>6. IsFiniteSet(1 .. n) /\ Cardinality(1 .. n) = n
  BY <1>1, FS_Interval
<1>7. s \in Surjection(1 .. n, Published)
  BY <1>5, <1>6, PublishedPosts, FS_Injection
<1>8. \A id \in Published : \E i \in 1 .. n : s[i] = id
  BY <1>7 DEF Surjection
<1>9. ASSUME NEW i \in 1 .. n PROVE Rank(s[i]) = i - 1
  <2> DEFINE B == {j \in Published : Before(j, s[i])}
             f == [k \in 1 .. i - 1 |-> s[k]]
  <2>1. i \in Int /\ i - 1 \in Nat /\ 1 .. i - 1 \subseteq 1 .. n
    BY <1>1
  <2>2. \A k \in 1 .. i - 1 : s[k] \in B
    BY <1>1, <1>2, <2>1
  <2>3. ASSUME NEW j \in B PROVE \E k \in 1 .. i - 1 : s[k] = j
    <3>1. PICK k \in 1 .. n : s[k] = j
      BY <1>8
    <3>2. k # i /\ ~(i < k)
      BY <1>2, <1>3, <3>1
    <3> QED
      BY <1>1, <3>1, <3>2
  <2>4. f \in Injection(1 .. i - 1, B)
    <3>1. f \in [1 .. i - 1 -> B]
      BY <2>2
    <3>2. \A k, l \in 1 .. i - 1 : f[k] = f[l] => k = l
      BY <1>4, <2>1
    <3> QED
      BY <3>1, <3>2 DEF Injection, IsInjective
  <2>5. f \in Surjection(1 .. i - 1, B)
    BY <2>2, <2>3 DEF Surjection
  <2>6. IsFiniteSet(1 .. i - 1) /\ Cardinality(1 .. i - 1) = i - 1
    BY <2>1, FS_Interval
  <2> HIDE DEF f, B
  <2>7. Cardinality(B) = Cardinality(1 .. i - 1)
    BY <2>4, <2>5, <2>6, FS_Surjection
  <2> QED
    BY <2>6, <2>7 DEF Rank, B
<1>10. s \in Seq(Ids) /\ Len(s) = n /\ DOMAIN s = 1 .. n
  <2>1. s \in [1 .. n -> Ids]
    BY <1>2, PublishedPosts
  <2> QED
    BY <1>1, <2>1
<1> HIDE DEF n
<1> QED
  BY <1>1, <1>2, <1>8, <1>9, <1>10 DEF n

\* w is the part of s past the first o elements, k elements at most.
Slice(w, s, o, k) ==
    /\ w \in Seq(Ids)
    /\ \A i \in DOMAIN w : o + i \in DOMAIN s /\ i <= k /\ w[i] = s[o + i]
    /\ \A i \in DOMAIN s : o < i /\ i <= o + k => i - o \in DOMAIN w /\ w[i - o] = s[i]
    /\ w = << >> /\ k >= 1 => Len(s) <= o

\* LIMIT and OFFSET: the rows whose place is past the offset, as many as a page holds.
LEMMA SliceRows ==
    ASSUME NEW s \in Seq(Ids), NEW k \in Nat, NEW o \in Nat,
           NEW m \in Int, m <= Len(s), m <= o + k, m = Len(s) \/ m = o + k,
           NEW w, w = SubSeq(s, o + 1, m)
    PROVE  Slice(w, s, o, k)
<1>1. Len(s) \in Nat
  OBVIOUS
<1>2. m \in Int /\ o + 1 \in Int
  OBVIOUS
<1>3. \A i \in o + 1 .. m : s[i] \in Ids
  BY <1>1, <1>2
<1>4. /\ w \in Seq(Ids) /\ Len(w) = IF o + 1 <= m THEN m - (o + 1) + 1 ELSE 0
      /\ \A i \in 1 .. m - (o + 1) + 1 : w[i] = s[o + 1 + i - 1]
  BY <1>2, <1>3, SubSeqProperties
<1>5. DOMAIN w = 1 .. Len(w)
  BY <1>4
<1>6. ASSUME NEW i \in DOMAIN w PROVE o + i \in DOMAIN s /\ i <= k /\ w[i] = s[o + i]
  <2>1. i \in 1 .. m - (o + 1) + 1 /\ i \in Int
    BY <1>2, <1>4, <1>5
  <2>2. o + 1 + i - 1 = o + i
    BY <2>1
  <2>3. w[i] = s[o + i]
    BY <1>4, <2>1, <2>2
  <2> QED
    BY <1>1, <1>2, <2>1, <2>3
<1>7. ASSUME NEW i \in DOMAIN s, o < i, i <= o + k
      PROVE  i - o \in DOMAIN w /\ w[i - o] = s[i]
  <2>1. i \in Int /\ i - o \in 1 .. m - (o + 1) + 1 /\ o + 1 <= m
    BY <1>1, <1>7
  <2>2. o + 1 + (i - o) - 1 = i
    BY <2>1
  <2>3. w[i - o] = s[i]
    BY <1>4, <2>1, <2>2
  <2> QED
    BY <1>4, <1>5, <2>1, <2>3
<1>8. w = << >> /\ k >= 1 => Len(s) <= o
  <2>1. w = << >> => Len(w) = 0
    OBVIOUS
  <2> QED
    BY <1>1, <1>4, <2>1
<1> QED
  BY <1>4, <1>6, <1>7, <1>8 DEF Slice

\* The page a reader asks for.
LEMMA WindowIsSlice ==
    ASSUME NEW s \in Seq(Ids), NEW size \in Sizes \cup {None}, NEW page \in Nat \ {0}
    PROVE  Slice(Window(s, page, size), s, (page - 1) * per_page(size), per_page(size))
<1> DEFINE k == per_page(size)
           o == (page - 1) * per_page(size)
<1>1. PageNumber(page) = page /\ k \in Nat /\ o \in Nat
  BY PageSize
<1> DEFINE m == Min({o + k, Len(s)})
<1>2. Window(s, page, size) = SubSeq(s, o + 1, m)
  BY <1>1 DEF Window
<1> HIDE DEF k, o
<1>3. o + k \in Int /\ Len(s) \in Int
  BY <1>1
<1>4. m = IF o + k <= Len(s) THEN o + k ELSE Len(s)
  BY <1>3, MinMaxOfTwo
<1> HIDE DEF m
<1>5. m \in Int /\ m <= Len(s) /\ m <= o + k /\ (m = Len(s) \/ m = o + k)
  <2>1. CASE o + k <= Len(s)
    BY <1>3, <1>4, <2>1
  <2>2. CASE ~(o + k <= Len(s))
    BY <1>3, <1>4, <2>2
  <2> QED
    BY <2>1, <2>2
<1>6. Slice(Window(s, page, size), s, o, k)
  BY <1>1, <1>2, <1>5, SliceRows
<1> QED
  BY <1>6 DEF k, o

\* list_posts appends a page.
LEMMA PageStep ==
    ASSUME PostsInv, WalkInv, list_posts
    PROVE  WalkInv'
<1> DEFINE k == per_page(reader.size)
           o == (reader.page - 1) * per_page(reader.size)
           old == reader.seen
<1>1. PICK s \in Orders(Published) :
        reader' = [reader EXCEPT !.seen = @ \o Window(s, reader.page, reader.size), !.page = @ + 1,
                     !.pc = IF Window(s, reader.page, reader.size) = << >> THEN "done" ELSE "reading"]
  BY DEF list_posts
<1> DEFINE w == Window(s, reader.page, reader.size)
           new == old \o w
<1>2. /\ reader \in Reader /\ reader.pc = "reading" /\ Covered
      /\ reader.size \in Sizes \cup {None} /\ reader.page \in Nat \ {0} /\ old \in Seq(Ids)
      /\ reader.stable \subseteq Ids /\ reader.grew \in BOOLEAN /\ reader.shrank \in BOOLEAN
  BY DEF WalkInv, list_posts, Reader
<1>3. /\ k \in Nat /\ o \in Nat /\ (Paged => k >= 1)
      /\ (reader.page + 1 - 1) * per_page(reader.size) = o + k
  BY <1>2, PageSize DEF Paged
<1>4. /\ s \in Seq(Ids) /\ DOMAIN s = 1 .. Len(s) /\ Len(s) \in Nat
      /\ \A id \in Published : \E i \in DOMAIN s : s[i] = id
      /\ \A i \in DOMAIN s : s[i] \in Published /\ Rank(s[i]) = i - 1
  BY OrderIsRank
<1>5. /\ w \in Seq(Ids)
      /\ \A i \in DOMAIN w : o + i \in DOMAIN s /\ i <= k /\ w[i] = s[o + i]
      /\ \A i \in DOMAIN s : o < i /\ i <= o + k => i - o \in DOMAIN w /\ w[i - o] = s[i]
      /\ w = << >> /\ k >= 1 => Len(s) <= o
  <2>1. s \in Seq(Ids)
    BY <1>4
  <2>2. Slice(w, s, o, k)
    BY <1>2, <2>1, WindowIsSlice
  <2> HIDE DEF w, o, k
  <2> QED
    BY <2>2 DEF Slice
<1>6. /\ reader' \in Reader /\ reader'.seen = new /\ reader'.page = reader.page + 1
      /\ reader'.pc = (IF w = << >> THEN "done" ELSE "reading")
      /\ reader'.size = reader.size /\ reader'.stable = reader.stable
      /\ reader'.grew = reader.grew /\ reader'.shrank = reader.shrank
  <2>1. new \in Seq(Ids) /\ reader.page + 1 \in Nat \ {0}
    BY <1>2, <1>5, ConcatProperties
  <2>2. reader' = [reader EXCEPT !.seen = new, !.page = reader.page + 1,
                                 !.pc = IF w = << >> THEN "done" ELSE "reading"]
    BY <1>1
  <2> HIDE DEF new, w
  <2> QED
    BY <1>2, <2>1, <2>2 DEF Reader
<1>7. /\ Len(old) \in Nat /\ Len(w) \in Nat
      /\ DOMAIN old = 1 .. Len(old) /\ DOMAIN w = 1 .. Len(w)
      /\ DOMAIN new = 1 .. Len(old) + Len(w)
      /\ \A i \in DOMAIN new : new[i] = IF i <= Len(old) THEN old[i] ELSE w[i - Len(old)]
  <2>1. Len(new) = Len(old) + Len(w) /\ new \in Seq(Ids)
    BY <1>2, <1>5, ConcatProperties
  <2>2. \A i \in 1 .. Len(old) + Len(w) :
          new[i] = IF i <= Len(old) THEN old[i] ELSE w[i - Len(old)]
    BY <1>2, <1>5, ConcatProperties
  <2> HIDE DEF old, w, new
  <2> QED
    BY <1>2, <1>5, <2>1, <2>2
<1>8. posts' = posts
  BY DEF list_posts
<1>9. Published' = Published /\ \A id : Rank(id)' = Rank(id)
  BY <1>8 DEF Published, Exists, Rank, Before
<1> HIDE DEF k, o, w, new, old
<1>10. ASSUME NEW id PROVE Seen(id)' <=> Seen(id) \/ \E i \in DOMAIN w : w[i] = id
  <2>1. Seen(id)' <=> \E i \in DOMAIN new : new[i] = id
    BY <1>6 DEF Seen
  <2>2. Seen(id) <=> \E i \in DOMAIN old : old[i] = id
    BY DEF Seen, old
  <2>3. \A i \in DOMAIN old : i \in DOMAIN new /\ new[i] = old[i]
    BY <1>7
  <2>4. \A i \in DOMAIN w : Len(old) + i \in DOMAIN new /\ new[Len(old) + i] = w[i]
    BY <1>7
  <2>5. ASSUME NEW i \in DOMAIN new
        PROVE  \/ i \in DOMAIN old /\ new[i] = old[i]
               \/ i - Len(old) \in DOMAIN w /\ new[i] = w[i - Len(old)]
    BY <1>7
  <2> QED
    BY <2>1, <2>2, <2>3, <2>4, <2>5
<1>11. ASSUME Paged, ~reader.shrank, NEW id \in reader.stable, Rank(id) < o + k
       PROVE  Seen(id)'
  <2>1. id \in Published
    BY <1>2 DEF Covered
  <2>2. PICK i \in DOMAIN s : s[i] = id
    BY <1>4, <2>1
  <2>3. Rank(id) = i - 1 /\ i \in Int
    BY <1>4, <2>2
  <2>4. CASE Rank(id) < o
    BY <1>2, <1>10, <1>11, <2>4 DEF Covered, Offset, o
  <2>5. CASE ~(Rank(id) < o)
    <3>1. o < i /\ i <= o + k
      BY <1>3, <1>11, <2>3, <2>5
    <3> QED
      BY <1>5, <1>10, <2>2, <3>1
  <2> QED
    BY <2>4, <2>5
<1>12. \A i \in DOMAIN w : w[i] \in Published /\ Rank(w[i]) = o + i - 1
  BY <1>3, <1>4, <1>5, <1>7
<1>13. ASSUME Paged, ~reader.grew, NEW id \in Published, Seen(id)' PROVE Rank(id) < o + k
  <2>1. CASE Seen(id)
    <3>1. Rank(id) < o
      BY <1>2, <1>13, <2>1 DEF Covered, Offset, o
    <3> QED
      BY <1>3, <3>1, RankType
  <2>2. CASE \E i \in DOMAIN w : w[i] = id
    BY <1>3, <1>5, <1>7, <1>12, <2>2
  <2> QED
    BY <1>10, <1>13, <2>1, <2>2
<1>14. ASSUME Paged, ~reader.grew, NEW i \in DOMAIN new, NEW j \in DOMAIN new, i # j
       PROVE  new[i] # new[j]
  <2>1. ASSUME NEW a \in DOMAIN old, NEW b \in DOMAIN w PROVE old[a] # w[b]
    <3>1. w[b] \in Published /\ Rank(w[b]) = o + b - 1 /\ b >= 1 /\ b \in Int
      BY <1>7, <1>12
    <3>2. ~(Rank(w[b]) < o)
      BY <1>3, <3>1
    <3>3. ~Seen(w[b])
      BY <1>2, <1>14, <3>1, <3>2 DEF Covered, Offset, o
    <3> QED
      BY <3>3 DEF Seen, old
  <2>2. ASSUME NEW a \in DOMAIN w, NEW b \in DOMAIN w, a # b PROVE w[a] # w[b]
    BY <1>3, <1>7, <1>12, <2>2
  <2>3. \A a, b \in DOMAIN old : a # b => old[a] # old[b]
    BY <1>2, <1>14 DEF Covered, Once, old
  <2>4. \/ (i \in DOMAIN old /\ new[i] = old[i])
        \/ (i - Len(old) \in DOMAIN w /\ new[i] = w[i - Len(old)])
    BY <1>7
  <2>5. \/ (j \in DOMAIN old /\ new[j] = old[j])
        \/ (j - Len(old) \in DOMAIN w /\ new[j] = w[j - Len(old)])
    BY <1>7
  <2>6. i - Len(old) # j - Len(old)
    BY <1>7, <1>14
  <2> QED
    BY <1>14, <2>1, <2>2, <2>3, <2>4, <2>5, <2>6
<1>15. Covered'
  <2>1. reader'.stable \subseteq Published'
    BY <1>2, <1>6, <1>9 DEF Covered
  <2>2. Offset' = o + k /\ (Paged' <=> Paged)
    <3>1. Offset' = (reader'.page - 1) * per_page(reader'.size)
      BY DEF Offset, per_page
    <3>2. reader'.page = reader.page + 1 /\ reader'.size = reader.size
      BY <1>6
    <3>3. per_page(reader'.size) = per_page(reader.size)
      BY <3>2
    <3>4. Offset' = (reader.page + 1 - 1) * per_page(reader.size)
      BY <1>2, <1>3, <3>1, <3>2, <3>3
    <3> QED
      BY <1>3, <1>6, <3>4 DEF Paged
  <2>3. Paged /\ ~reader.grew => Once'
    BY <1>6, <1>14 DEF Once
  <2> QED
    BY <1>6, <1>9, <1>11, <1>13, <2>1, <2>2, <2>3 DEF Covered
<1>16. WalkIsComplete'
  <2> SUFFICES ASSUME w = << >>, Paged
               PROVE  /\ ~reader.shrank => \A id \in reader.stable : Seen(id)'
                      /\ ~reader.grew => Once'
    BY <1>6 DEF WalkIsComplete, Paged, Seen, Once
  <2>1. Len(s) <= o
    BY <1>3, <1>5
  <2>2. ASSUME NEW id \in reader.stable PROVE Rank(id) < o + k
    <3>1. PICK i \in DOMAIN s : s[i] = id
      BY <1>2, <1>4 DEF Covered
    <3> QED
      BY <1>3, <1>4, <2>1, <3>1
  <2>3. ~reader.grew => Once'
    BY <1>6, <1>14 DEF Once
  <2> QED
    BY <1>11, <2>2, <2>3
<1> QED
  BY <1>6, <1>15, <1>16 DEF WalkInv

\* A post's rank only grows while posts come, and only shrinks while posts go: two posts
\* never change places.
LEMMA RanksFollow ==
    ASSUME PostsInv, [Next]_vars, NEW id \in Published, id \in Published'
    PROVE  /\ Rank(id) \in Nat /\ Rank(id)' \in Nat
           /\ Published \subseteq Published' => Rank(id) <= Rank(id)'
           /\ Published' \subseteq Published => Rank(id)' <= Rank(id)
<1> DEFINE B == {j \in Published : Before(j, id)}
           C == {j \in Published' : Before(j, id)'}
<1>1. Rank(id) = Cardinality(B) /\ Rank(id)' = Cardinality(C)
  BY DEF Rank
<1>2. IsFiniteSet(Ids) /\ Published \subseteq Ids /\ Published' \subseteq Ids
  BY PostsAssumption, FS_Interval DEF Ids, Published
<1>3. IsFiniteSet(B) /\ IsFiniteSet(C)
  <2>1. B \in SUBSET Ids /\ C \in SUBSET Ids
    BY <1>2
  <2> HIDE DEF B, C
  <2> QED
    BY <1>2, <2>1, FS_Subset
<1>4. \A j \in Ids : j \in Published /\ j \in Published' => posts'[j].created_at = posts[j].created_at
  BY RowsKept DEF Published, Exists
<1>5. \A j \in Published : j \in Published' => (Before(j, id) <=> Before(j, id)')
  BY <1>2, <1>4 DEF Before
<1>6. Published \subseteq Published' => B \in SUBSET C
  BY <1>5
<1>7. Published' \subseteq Published => C \in SUBSET B
  BY <1>5
<1> HIDE DEF B, C
<1> QED
  BY <1>1, <1>3, <1>6, <1>7, FS_Subset, FS_CardinalityType

\* What a change of the table means to a walk that is under way.
LEMMA WatchStep ==
    ASSUME PostsInv, [Next]_vars, WalkInv, Watch
    PROVE  WalkInv'
<1>1. Published' = {id \in Ids : posts'[id] \notin {None, Deleted} /\ posts'[id].published}
  BY DEF Published, Exists
<1>2. CASE reader.pc # "reading"
  <2>1. reader' = reader
    BY <1>2 DEF Watch
  <2> QED
    BY <1>2, <2>1 DEF WalkInv, WalkIsComplete
<1>3. CASE reader.pc = "reading"
  <2> DEFINE grew == reader.grew \/ ~(Published' \subseteq Published)
             shrank == reader.shrank \/ ~(Published \subseteq Published')
  <2>1. reader' = [reader EXCEPT !.stable = reader.stable \cap Published',
                                 !.grew = grew, !.shrank = shrank]
    BY <1>1, <1>3 DEF Watch
  <2>2. reader \in Reader /\ Covered
    BY <1>3 DEF WalkInv
  <2>3. /\ reader' \in Reader /\ reader'.pc = "reading" /\ reader'.seen = reader.seen
        /\ reader'.page = reader.page /\ reader'.size = reader.size
        /\ reader'.stable = reader.stable \cap Published'
        /\ reader'.grew = grew /\ reader'.shrank = shrank
    <3>1. grew \in BOOLEAN /\ shrank \in BOOLEAN
      BY <2>2 DEF Reader
    <3>2. reader.stable \cap Published' \in SUBSET Ids
      BY <2>2 DEF Reader
    <3> HIDE DEF grew, shrank
    <3> QED
      BY <1>3, <2>1, <2>2, <3>1, <3>2 DEF Reader
  <2>4. /\ Offset' = Offset /\ (Paged' <=> Paged) /\ (Once' <=> Once)
        /\ \A id : Seen(id)' <=> Seen(id)
    BY <2>3 DEF Offset, per_page, Paged, Once, Seen
  <2>5. Offset \in Nat
    BY <2>2, PageSize DEF Reader, Offset
  <2>6. ASSUME Paged, ~reader.shrank, Published \subseteq Published',
               NEW id \in reader.stable, id \in Published', Rank(id)' < Offset
        PROVE  Seen(id)
    <3>1. id \in Published
      BY <2>2 DEF Covered
    <3>2. Rank(id) < Offset
      BY <2>5, <2>6, <3>1, RanksFollow
    <3> QED
      BY <2>2, <2>6, <3>2 DEF Covered
  <2>7. ASSUME Paged, ~reader.grew, Published' \subseteq Published,
               NEW id \in Published', Seen(id)
        PROVE  Rank(id)' < Offset
    <3>1. id \in Published
      BY <2>7
    <3>2. Rank(id) < Offset
      BY <2>2, <2>7, <3>1 DEF Covered
    <3> QED
      BY <2>5, <2>7, <3>1, <3>2, RanksFollow
  <2>8. Paged /\ ~reader.grew => Once
    BY <2>2 DEF Covered
  <2>9. Covered'
    BY <2>3, <2>4, <2>6, <2>7, <2>8 DEF Covered
  <2> QED
    BY <2>3, <2>9 DEF WalkInv, WalkIsComplete
<1> QED
  BY <1>2, <1>3

\* Every step keeps a walk's account of the pages.
LEMMA WalkStep == PostsInv /\ WalkInv /\ [Next]_vars => WalkInv'
<1> SUFFICES ASSUME PostsInv, WalkInv, [Next]_vars PROVE WalkInv'
  OBVIOUS
<1>1. ASSUME reader' = reader, posts' = posts PROVE WalkInv'
  <2>1. Covered' <=> Covered
    BY <1>1 DEF Covered, Offset, per_page, Paged, Once, Seen, Rank, Before, Published, Exists
  <2> QED
    BY <1>1, <2>1 DEF WalkInv, WalkIsComplete
<1>2. CASE StartReading
  <2>1. PICK size \in Sizes :
          reader' = [NoReader EXCEPT !.pc = "reading", !.size = size, !.stable = Published]
    BY <1>2 DEF StartReading
  <2>2. posts' = posts
    BY <1>2 DEF StartReading
  <2>3. Published' = Published /\ \A id : Rank(id)' = Rank(id)
    BY <2>2 DEF Published, Exists, Rank, Before
  <2>4. Published \in SUBSET Ids
    BY DEF Published
  <2>5. /\ reader' \in Reader /\ reader'.pc = "reading" /\ reader'.seen = << >>
        /\ reader'.page = 1 /\ reader'.size = size /\ reader'.stable = Published
    <3>1. << >> \in Seq(Ids) /\ 1 \in Nat \ {0}
      OBVIOUS
    <3> QED
      BY <2>1, <2>4, <3>1 DEF NoReader, Reader
  <2>6. Offset' = 0
    <3>1. Offset' = (1 - 1) * per_page(size)
      BY <2>5 DEF Offset, per_page
    <3> QED
      BY <3>1, PageSize
  <2>7. \A id \in Published : ~(Rank(id) < 0)
    BY RankType
  <2>8. \A id : ~Seen(id)'
    BY <2>5 DEF Seen
  <2>9. Once'
    BY <2>5 DEF Once
  <2>10. Covered'
    BY <2>3, <2>5, <2>6, <2>7, <2>8, <2>9 DEF Covered
  <2> QED
    BY <2>5, <2>10 DEF WalkInv, WalkIsComplete
<1>3. CASE list_posts
  BY <1>3, PageStep
<1>4. CASE StopReading
  <2>1. NoReader \in Reader /\ NoReader.pc = "idle"
    BY DEF NoReader, Reader
  <2> QED
    BY <1>4, <2>1 DEF StopReading, WalkInv, WalkIsComplete
<1>5. CASE create_post
  BY <1>5, WatchStep DEF create_post
<1>6. ASSUME NEW r \in Requests, Send(r) \/ Refuse(r) \/ Find(r) PROVE WalkInv'
  BY <1>1, <1>6 DEF Send, Refuse, Find
<1>7. ASSUME NEW r \in Requests, update_post(r) \/ publish_post(r) \/ unpublish_post(r)
      PROVE  WalkInv'
  BY <1>7, WatchStep DEF update_post, publish_post, unpublish_post, Write
<1>8. ASSUME NEW r \in Requests, delete_post(r) PROVE WalkInv'
  BY <1>8, WatchStep DEF delete_post
<1>9. CASE Tick \/ UNCHANGED vars
  BY <1>1, <1>9 DEF Tick, vars
<1> QED
  BY <1>2, <1>3, <1>4, <1>5, <1>6, <1>7, <1>8, <1>9 DEF Next

\* Nobody reads initially.
LEMMA InitWalk == Init => WalkInv
<1>1. NoReader \in Reader /\ NoReader.pc = "idle"
  BY DEF NoReader, Reader
<1> QED
  BY <1>1 DEF Init, WalkInv, WalkIsComplete

\* A walk through the pages meets every post that was published all along unless a page
\* shrank behind it, and no post twice unless one was published meanwhile: for every table,
\* page size and interleaving of changes with the pages' queries.
THEOREM WalksAreComplete == Spec => []WalkIsComplete
<1>1. WalkInv => WalkIsComplete
  BY DEF WalkInv
<1> QED
  BY <1>1, InitWalk, WalkStep, PostsInvHolds, PTL DEF Spec

-----------------------------------------------------------------------------
(* Type correctness                                                         *)

\* A request holds a row exactly while it is about to write.
Holding(q) == (q.pc = "write") <=> (q.post # None)

HoldingInv == \A r \in Requests : Holding(reqs[r])

\* The first statement hands the row to the second, and the answer lets go of it.
LEMMA HoldingStep == PostsInv /\ HoldingInv /\ [Next]_vars => HoldingInv'
<1> SUFFICES ASSUME PostsInv, HoldingInv, [Next]_vars PROVE HoldingInv'
  OBVIOUS
<1>1. ASSUME NEW r \in Requests, NEW q, Holding(q), reqs' = [reqs EXCEPT ![r] = q]
      PROVE  HoldingInv'
  BY <1>1 DEF HoldingInv, PostsInv
<1>2. Holding(Idle)
  BY DEF Holding, Idle
<1>3. CASE reqs' = reqs
  BY <1>3 DEF HoldingInv
<1>4. ASSUME NEW r \in Requests, Send(r) PROVE HoldingInv'
  <2>1. PICK op \in {"update", "delete", "publish", "unpublish"}, user \in Users, id \in Ids,
             text \in Texts \cup {"blank", None} :
          reqs' = [reqs EXCEPT ![r] = [Idle EXCEPT !.pc = "find", !.op = op, !.user = user,
                                                   !.id = id, !.text = text]]
    BY <1>4 DEF Send
  <2> DEFINE q == [Idle EXCEPT !.pc = "find", !.op = op, !.user = user, !.id = id, !.text = text]
  <2>2. Holding(q)
    BY DEF Holding, Idle
  <2>3. reqs' = [reqs EXCEPT ![r] = q]
    BY <2>1
  <2> HIDE DEF q
  <2> QED
    BY <1>1, <2>2, <2>3
<1>5. ASSUME NEW r \in Requests, Find(r) PROVE HoldingInv'
  <2> DEFINE p == reqs[r]
             q == [p EXCEPT !.pc = "write", !.post = posts[p.id]]
  <2>1. posts[p.id] # None /\ reqs' = [reqs EXCEPT ![r] = q]
    BY <1>5 DEF Find, Exists
  <2>2. p \in Request
    BY DEF PostsInv
  <2>3. q.pc = "write" /\ q.post = posts[p.id]
    <3> HIDE DEF p
    <3> QED
      BY <2>2 DEF Request
  <2>4. Holding(q)
    BY <2>1, <2>3 DEF Holding
  <2> HIDE DEF q
  <2> QED
    BY <1>1, <2>1, <2>4
<1>6. ASSUME NEW r \in Requests,
             \/ Refuse(r) \/ update_post(r) \/ publish_post(r) \/ unpublish_post(r) \/ delete_post(r)
      PROVE  HoldingInv'
  <2>1. reqs' = [reqs EXCEPT ![r] = Idle]
    BY <1>6 DEF Refuse, update_post, publish_post, unpublish_post, Write, delete_post
  <2> QED
    BY <1>1, <1>2, <2>1
<1>7. UNCHANGED vars \/ StartReading \/ list_posts \/ StopReading \/ create_post \/ Tick => reqs' = reqs
  BY DEF vars, StartReading, list_posts, StopReading, create_post, Tick
<1> QED
  BY <1>3, <1>4, <1>5, <1>6, <1>7 DEF Next

\* The table, the requests and the reader keep their types, and a request holds a row
\* exactly while it is about to write.
THEOREM PostsTypeCorrect == Spec => []TypeOK
<1>1. Init => HoldingInv
  <2>1. Holding(Idle)
    BY DEF Holding, Idle
  <2> QED
    BY <2>1 DEF Init, HoldingInv
<1>2. PostsInv /\ HoldingInv /\ WalkInv => TypeOK
  BY DEF PostsInv, HoldingInv, Holding, WalkInv, Reader, TypeOK
<1> QED
  BY <1>1, <1>2, InitWalk, HoldingStep, WalkStep, PostsInvHolds, PTL DEF Spec
=============================================================================
